---------------------------- MODULE ScheduleGrammar ----------------------------
(***************************************************************************)
(* The language of written schedules, as a set of sentences with their     *)
(* meanings: what sched/parser.go is to accept and to make of it.  It is   *)
(* stated by concatenation, without positions or look-ahead, for sentences *)
(* of at most MaxTokens tokens.                                            *)
(*                                                                         *)
(* A token is <<type>>, <<"INT", number>> or <<"DAY", weekday>>.  A        *)
(* phrase is a record [text, means]; that of a whole schedule is           *)
(* <<times, weekdays, from, to>>.                                          *)
(***************************************************************************)
EXTENDS Integers, Sequences

CONSTANTS
  Numbers,    \* the numbers that occur
  Days,       \* the weekdays that occur, Sunday = 0
  Century,    \* the current century, a multiple of 100
  NoDate,     \* no date
  MaxTokens   \* bound: tokens of a sentence

ASSUME GrammarAssumption ==
  /\ Numbers \subseteq Nat /\ Days \subseteq 0 .. 6
  /\ Century \in Nat /\ MaxTokens \in Nat \ {0}

EveryDay == [i \in 1 .. 7 |-> i - 1]

Num(n) == <<"INT", n>>
Day(d) == <<"DAY", d>>
Tok(ty) == <<ty>>

Phrase(text, means) == [text |-> text, means |-> means]

\* Every phrase of A followed by every phrase of B, the meanings combined.
Join(A, B, Combine(_, _)) ==
  {Phrase(p[1].text \o p[2].text, Combine(p[1].means, p[2].means)) :
     p \in {q \in A \X B : Len(q[1].text) + Len(q[2].text) <= MaxTokens}}

After(ty, A)         == {Phrase(<<Tok(ty)>> \o a.text, a.means) : a \in A}
Optional(A, default) == A \cup {Phrase(<<>>, default)}

\* One or more phrases of A with AND between them; meanings are sequences.
List(A) ==
  LET L[n \in 1 .. MaxTokens] ==
        IF n = 1 THEN A ELSE Join(L[n - 1], After("AND", A), LAMBDA m1, m2 : m1 \o m2)
  IN  UNION {L[n] : n \in 1 .. MaxTokens}

\* The hour of the day that h am, h pm or plain h names; 12 am is midnight, 12 pm noon.
Hour(h, mark) ==
  LET onDial == IF mark # "" /\ h = 12 THEN 0 ELSE h
  IN  (onDial + (IF mark = "PM" THEN 12 ELSE 0)) % 24

Clock ==
  {Phrase(<<Num(h)>>, <<h, 0, 0>>) : h \in Numbers}
  \cup {Phrase(<<Num(h), Tok("COLON"), Num(m)>>, <<h, m, 0>>) : h, m \in Numbers}
  \cup {Phrase(<<Num(h), Tok("COLON"), Num(m), Tok("COLON"), Num(s)>>, <<h, m, s>>) :
          h, m, s \in Numbers}

Mark == {"", "AM", "PM"}

\* A time on the clock with a mark behind it, or none; its meaning is a list of one time.
Marked(c, mark) ==
  Phrase(c.text \o (IF mark = "" THEN <<>> ELSE <<Tok(mark)>>),
         <<<<Hour(c.means[1], mark), c.means[2], c.means[3]>>>>)

Times == {Marked(c, mark) : c \in Clock, mark \in Mark}

\* The days from d to e, round the end of the week if need be.
Through(d, e) == [i \in 1 .. ((e - d) % 7) + 1 |-> (d + i - 1) % 7]

Weekdays ==
  {Phrase(<<Day(d)>>, <<d>>) : d \in Days}
  \cup {Phrase(<<Day(d), Tok("THROUGH"), Day(e)>>, Through(d, e)) : d, e \in Days}

\* month/day or month/day/year; the first slash may be missing.
MonthDay(m, slash, d) ==
  Phrase(<<Num(m)>> \o slash \o <<Num(d)>>, [year |-> 0, month |-> m, day |-> d])

Slash == {<<>>, <<Tok("SLASH")>>}

ShortDates == {MonthDay(m, slash, d) : m \in Numbers, slash \in Slash, d \in Numbers}

Years ==
  {Phrase(<<Tok("SLASH"), Num(y)>>, IF y < 100 THEN y + Century ELSE y) : y \in Numbers}

Dates ==
  ShortDates \cup Join(ShortDates, Years, LAMBDA date, y : [date EXCEPT !.year = y])

AtTimes  == {Phrase(t.text, <<t.means>>) : t \in After("AT", List(Times))}
OnDays   == Optional(After("ON", List(Weekdays)), EveryDay)
FromDate == Optional(After("FROM", Dates), NoDate)
ToDate   == Optional(After("TO", Dates), NoDate)

\* A schedule as far as its days, its first and its last date.
UpToDays == Join(AtTimes, OnDays, Append)
UpToFrom == Join(UpToDays, FromDate, Append)
UpToTo   == Join(UpToFrom, ToDate, Append)

Sentences == {Phrase(s.text \o <<Tok("EOF")>>, s.means) : s \in UpToTo}

\* How a sentence may begin.
Prefixes ==
  {SubSeq(p[1].text, 1, p[2]) :
     p \in {q \in Sentences \X (0 .. MaxTokens + 1) : q[2] <= Len(q[1].text)}}
=============================================================================
