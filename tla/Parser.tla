-------------------------------- MODULE Parser --------------------------------
(***************************************************************************)
(* The parser of written schedules (sched/parser.go): recursive descent    *)
(* over the tokens of the input, with a look-ahead of two where a list     *)
(* may go on.  An action is one step of the parser at one token; pc names  *)
(* the place in the functions it is at.                                    *)
(*                                                                         *)
(* The input is any sequence of tokens.  It is chosen as the parser comes  *)
(* to look at it, which is the same as choosing it before and saves the    *)
(* inputs that differ only where the parser never looks.  The seven tokens *)
(* of weekdays are one family, white space is left out, the text that an   *)
(* error message shows too.                                                *)
(***************************************************************************)
EXTENDS ScheduleGrammar

CONSTANT TooBig  \* a number that strconv.Atoi cannot represent

ASSUME TooBigAssumption == TooBig \notin Numbers

Keyword == {"SLASH", "COLON", "AT", "AM", "PM", "ON", "AND", "THROUGH", "FROM", "TO", "EOF"}
Token   == {Tok(ty) : ty \in Keyword} \cup {Num(n) : n \in Numbers \cup {TooBig}}
           \cup {Day(d) : d \in Days}

VARIABLES
  tokens,   \* the input, as far as it was looked at
  nextTok,  \* the position of the next token
  pc,       \* the place in the functions; "idle", "ok" and "error" outside Parse
  num,      \* the numbers parsed last: hours, minutes, seconds, year, month, day
  weekday,  \* the weekday parsed last
  end,      \* which end of the range is being parsed
  \* --- the result
  times, weekdays, range

locals == <<num, weekday, end>>
result == <<times, weekdays, range>>
vars   == <<tokens, nextTok, pc, locals, result>>

Field   == {"hours", "minutes", "seconds", "month", "day", "year"}
NoRange == [from |-> NoDate, to |-> NoDate]

Zero    == [f \in Field |-> 0]

Init ==
  /\ pc = "idle" /\ tokens = <<>> /\ nextTok = 1
  /\ num = Zero /\ weekday = 0 /\ end = "from"
  /\ times = <<>> /\ weekdays = <<>> /\ range = NoRange

\* Goes on where the last parse stopped.
MutantFirst == nextTok

\* p.nextTok = 0
First == 1

Outside == pc \in {"idle", "ok", "error"}

\* Parse begins, on a parser that may have been used before.
Parse ==
  /\ Outside
  /\ pc' = "at" /\ tokens' = <<>> /\ nextTok' = First
  /\ num' = Zero /\ weekday' = 0 /\ end' = "from"
  /\ times' = <<>> /\ weekdays' = <<>> /\ range' = NoRange

-----------------------------------------------------------------------------
(* Tokens.                                                                 *)

NextIs(ty) == tokens[nextTok][1] = ty

\* Looks a second token ahead in a list of times only.
MutantLooksAhead == pc = "moreTimes" /\ NextIs("AND")

\* nextIs(AND) && !nextIs2(AT): peek2 is reached only after AND.
LooksAhead == pc \in {"moreTimes", "moreDays"} /\ NextIs("AND")

\* The position up to which the parser has to see the input at this place.
Needed == IF nextTok <= Len(tokens) /\ LooksAhead THEN nextTok + 1 ELSE nextTok
Seen   == ~Outside /\ Needed <= Len(tokens)
Ended  == tokens # <<>> /\ tokens[Len(tokens)] = Tok("EOF")

\* tokenize found this next; at the bound the input ends.
Tokenize(t) ==
  /\ ~Outside /\ ~Seen /\ ~Ended
  /\ Len(tokens) = MaxTokens => t = Tok("EOF")
  /\ tokens' = Append(tokens, t)
  /\ UNCHANGED <<nextTok, pc, locals, result>>

\* No pattern matches the rest of the input.
TokenizeFails ==
  /\ ~Outside /\ ~Seen /\ ~Ended
  /\ tokens' = Append(tokens, Tok("ILLEGAL"))
  /\ pc' = "error"
  /\ UNCHANGED <<nextTok, locals, result>>

Go(place)   == pc' = place /\ UNCHANGED nextTok
Take(place) == pc' = place /\ nextTok' = nextTok + 1

\* accept: one place to go to if the token is there, another if not.
Accept(ty, yes, no) == IF NextIs(ty) THEN Take(yes) ELSE Go(no)

-----------------------------------------------------------------------------
(* The functions of the grammar.                                           *)

\* parseSchedule begins.
ParseAt ==
  /\ pc = "at" /\ Seen
  /\ Accept("AT", "hours", "error")
  /\ UNCHANGED <<tokens, locals, result>>

\* Where each number leads to.
AfterNumber == [hours |-> "colon1", minutes |-> "colon2", seconds |-> "mark",
                month |-> "slash1", day |-> "slash2", year |-> "endDate"]

\* A year below 100 is one of this century.
Number(n) == IF pc = "year" /\ n < 100 THEN n + Century ELSE n

\* parseInt, at each place that calls it.
ParseInt ==
  /\ pc \in DOMAIN AfterNumber /\ Seen
  /\ \/ /\ NextIs("INT") /\ tokens[nextTok][2] # TooBig
        /\ num' = [num EXCEPT ![pc] = Number(tokens[nextTok][2])]
        /\ Take(AfterNumber[pc])
     \/ /\ NextIs("INT") /\ tokens[nextTok][2] = TooBig
        /\ Take("error") /\ UNCHANGED num
     \/ ~NextIs("INT") /\ Go("error") /\ UNCHANGED num
  /\ UNCHANGED <<tokens, weekday, end, result>>

\* The optional separators of a time and of a date.  The first slash of a date is
\* expected, but the error of its absence is overwritten by the next parseInt.
ParseSeparator ==
  /\ Seen
  /\ \/ pc = "colon1" /\ Accept("COLON", "minutes", "mark")
     \/ pc = "colon2" /\ Accept("COLON", "seconds", "mark")
     \/ pc = "slash1" /\ Accept("SLASH", "day", "day")
     \/ pc = "slash2" /\ Accept("SLASH", "year", "endDate")
  /\ UNCHANGED <<tokens, locals, result>>

AM(h) == IF h = 12 THEN 0 ELSE h
PM(h) == IF h = 12 THEN h ELSE h + 12

\* Leaves hours past the end of the day.
MutantInDay(h) == h

\* hours %= 24
InDay(h) == h % 24

\* The end of parseTimeOfDay; the numbers it leaves behind are locals.
ParseMark ==
  /\ pc = "mark" /\ Seen
  /\ LET h == num.hours
         hours == IF NextIs("AM") THEN AM(h) ELSE IF NextIs("PM") THEN PM(h) ELSE h
     IN  times' = Append(times, <<InDay(hours), num.minutes, num.seconds>>)
  /\ IF NextIs("AM") \/ NextIs("PM") THEN Take("moreTimes") ELSE Go("moreTimes")
  /\ num' = Zero
  /\ UNCHANGED <<tokens, weekday, end, weekdays, range>>

\* The list of times, or of weekdays, goes on after AND unless another schedule follows.
ParseMore ==
  /\ Seen
  /\ LET more == LooksAhead /\ tokens[nextTok + 1] # Tok("AT")
     IN  \/ pc = "moreTimes" /\ more /\ Take("hours")
         \/ pc = "moreTimes" /\ ~more /\ Go("on")
         \/ pc = "moreDays" /\ more /\ Take("weekday")
         \/ pc = "moreDays" /\ ~more /\ Go("from")
  /\ UNCHANGED <<tokens, locals, result>>

\* Weekdays, or every day if none are given.
ParseOn ==
  /\ pc = "on" /\ Seen
  /\ Accept("ON", "weekday", "from")
  /\ weekdays' = IF NextIs("ON") THEN <<>> ELSE EveryDay
  /\ UNCHANGED <<tokens, locals, times, range>>

\* Leaves out the last day.
MutantDaysThrough(first, last) ==
  LET Loop[day \in 0 .. 6] ==
        IF day = last THEN <<>> ELSE <<day>> \o Loop[IF day + 1 > 6 THEN 0 ELSE day + 1]
  IN  Loop[first]

\* The loop that lists the days of a span, from Saturday on to Sunday.
DaysThrough(first, last) ==
  LET Loop[day \in 0 .. 6] ==
        IF day = last THEN <<last>> ELSE <<day>> \o Loop[IF day + 1 > 6 THEN 0 ELSE day + 1]
  IN  Loop[first]

\* parseWeekday, for the first and for the last day of a span.
ParseWeekday ==
  /\ pc \in {"weekday", "throughDay"} /\ Seen
  /\ \/ ~NextIs("DAY") /\ Go("error") /\ UNCHANGED <<weekday, weekdays>>
     \/ /\ NextIs("DAY") /\ pc = "weekday"
        /\ weekday' = tokens[nextTok][2] /\ Take("through")
        /\ UNCHANGED weekdays
     \/ /\ NextIs("DAY") /\ pc = "throughDay"
        /\ weekdays' = weekdays \o DaysThrough(weekday, tokens[nextTok][2])
        /\ Take("moreDays") /\ UNCHANGED weekday
  /\ UNCHANGED <<tokens, num, end, times, range>>

ParseThrough ==
  /\ pc = "through" /\ Seen
  /\ Accept("THROUGH", "throughDay", "moreDays")
  /\ weekdays' = IF NextIs("THROUGH") THEN weekdays ELSE Append(weekdays, weekday)
  /\ UNCHANGED <<tokens, locals, times, range>>

\* FROM and TO, each with a date or absent.
ParseRange ==
  /\ Seen
  /\ \/ pc = "from" /\ Accept("FROM", "month", "to") /\ end' = "from"
     \/ pc = "to" /\ Accept("TO", "month", "eof") /\ end' = "to"
  /\ UNCHANGED <<tokens, num, weekday, result>>

\* parseDate returns.
EndDate ==
  /\ pc = "endDate"
  /\ range' = [range EXCEPT ![end] = [year |-> num.year, month |-> num.month, day |-> num.day]]
  /\ num' = Zero
  /\ Go(IF end = "from" THEN "to" ELSE "eof")
  /\ UNCHANGED <<tokens, weekday, end, times, weekdays>>

\* Parse ends: nothing may be left over.
ParseEOF ==
  /\ pc = "eof" /\ Seen
  /\ Accept("EOF", "ok", "error")
  /\ UNCHANGED <<tokens, locals, result>>

Next ==
  \/ Parse \/ TokenizeFails \/ \E t \in Token : Tokenize(t)
  \/ ParseAt \/ ParseInt \/ ParseSeparator \/ ParseMark \/ ParseMore
  \/ ParseOn \/ ParseWeekday \/ ParseThrough \/ ParseRange \/ EndDate \/ ParseEOF

Spec == Init /\ [][Next]_vars

-----------------------------------------------------------------------------
(* Properties.                                                             *)

Place == {"idle", "ok", "error", "at", "mark", "moreTimes", "on", "weekday", "through",
          "throughDay", "moreDays", "from", "to", "eof", "endDate"}
         \cup {"colon1", "colon2", "slash1", "slash2"} \cup Field

\* Types; the hours of a parsed time are those of a day, its minutes and seconds any numbers.
TypeOK ==
  /\ \A i \in DOMAIN tokens : tokens[i] \in Token \cup {Tok("ILLEGAL")}
  /\ nextTok \in 1 .. MaxTokens + 2 /\ pc \in Place
  /\ num \in [Field -> Nat] /\ weekday \in 0 .. 6 /\ end \in {"from", "to"}
  /\ \A i \in DOMAIN times : times[i] \in (0 .. 23) \X Nat \X Nat
  /\ \A i \in DOMAIN weekdays : weekdays[i] \in 0 .. 6

\* peek and peek2 never look behind the EOF token, where the code would panic: not in
\* the middle of a list, and not on a parser that is used again.
InsideInput == ~Outside /\ Ended => Needed <= Len(tokens)

Meaning == <<times, weekdays, range.from, range.to>>

\* What is accepted is a sentence, and the schedule is what the sentence means.
ParsesAsMeant == pc = "ok" => Phrase(tokens, Meaning) \in Sentences

\* No sentence is refused: what the parser has seen when it fails begins none.
SentencesAccepted == pc = "error" => tokens \notin Prefixes

-----------------------------------------------------------------------------
(* A statement one would like to make of the code and it does not keep.    *)

\* A date is written with its slash: parseDate expects it.
DatesHaveSlash ==
  pc = "ok" => \A i \in 1 .. Len(tokens) - 1 : ~(tokens[i][1] = "INT" /\ tokens[i + 1][1] = "INT")
=============================================================================
