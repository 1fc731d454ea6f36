----------------------------- MODULE ParserProofs -----------------------------
(***************************************************************************)
(* The parser never looks behind its input; what it accepts are sentences  *)
(* of the grammar, with their meanings; and it refuses none of them: for   *)
(* inputs of any length and any numbers and weekdays in them.              *)
(***************************************************************************)
EXTENDS Parser, TLAPS, SequenceTheorems, WellFoundedInduction

AnyToken == Token \cup {Tok("ILLEGAL")}

\* The input ends with its first EOF; the parser is at most one token behind what it
\* has seen, and is not behind the EOF before it has ended.
PositionInv ==
  /\ tokens \in Seq(AnyToken)
  /\ nextTok \in 1 .. Len(tokens) + 1
  /\ \A i \in 1 .. Len(tokens) : tokens[i] = Tok("EOF") => i = Len(tokens)
  /\ ~Outside /\ Ended => nextTok <= Len(tokens)

\* A step at a token it has seen, which it takes only if the token is not EOF or ends the parse.
Steady ==
  /\ nextTok <= Len(tokens)
  /\ UNCHANGED tokens
  /\ \/ UNCHANGED nextTok
     \/ /\ nextTok' = nextTok + 1
        /\ ~NextIs("EOF") \/ pc' \in {"ok", "error"}

LEMMA PositionInit == Init => PositionInv
  BY DEF Init, PositionInv, Outside

\* A step of that kind keeps the position inside the input.
LEMMA SteadyKeeps ==
  ASSUME PositionInv, Steady, ~Outside
  PROVE  PositionInv'
<1>1. nextTok \in 1 .. Len(tokens) /\ Len(tokens) \in Nat
  BY DEF PositionInv, Steady
<1>2. nextTok' \in 1 .. Len(tokens') + 1
  BY <1>1 DEF Steady
<1>3. (~Outside /\ Ended => nextTok <= Len(tokens))'
  <2>1. CASE UNCHANGED nextTok
    BY <1>1, <2>1 DEF Steady
  <2>2. CASE nextTok' = nextTok + 1 /\ pc' \in {"ok", "error"}
    BY <2>2 DEF Outside
  <2>3. CASE nextTok' = nextTok + 1 /\ ~NextIs("EOF") /\ Ended
    <3>1. tokens[nextTok] # Tok("EOF") /\ tokens[Len(tokens)] = Tok("EOF")
      BY <2>3 DEF NextIs, Tok, Ended
    <3>2. nextTok < Len(tokens)
      BY <1>1, <3>1
    <3> QED
      BY <1>1, <2>3, <3>2 DEF Steady
  <2>4. CASE ~Ended
    BY <2>4 DEF Ended, Steady
  <2> QED
    BY <2>1, <2>2, <2>3, <2>4 DEF Steady
<1> QED
  BY <1>2, <1>3 DEF PositionInv, Steady

\* What is seen is there.
LEMMA SeenThere ==
  ASSUME PositionInv, Seen
  PROVE  nextTok <= Len(tokens) /\ ~Outside
  BY DEF PositionInv, Seen, Needed

\* The steps of the grammar at a token.
LEMMA GrammarSteady ==
  ASSUME PositionInv,
         \/ ParseAt \/ ParseInt \/ ParseSeparator \/ ParseMark \/ ParseMore \/ ParseOn
         \/ ParseWeekday \/ ParseThrough \/ ParseRange \/ ParseEOF
  PROVE  Steady /\ ~Outside
<1>1. Seen
  BY DEF ParseAt, ParseInt, ParseSeparator, ParseMark, ParseMore, ParseOn, ParseWeekday,
         ParseThrough, ParseRange, ParseEOF
<1>2. nextTok <= Len(tokens) /\ ~Outside
  BY <1>1, SeenThere
<1>3. CASE ParseAt
  BY <1>2, <1>3 DEF ParseAt, Accept, Take, Go, NextIs, Steady
<1>4. CASE ParseInt
  BY <1>2, <1>4 DEF ParseInt, Take, Go, NextIs, Steady
<1>5. CASE ParseSeparator
  BY <1>2, <1>5 DEF ParseSeparator, Accept, Take, Go, NextIs, Steady
<1>6. CASE ParseMark
  BY <1>2, <1>6 DEF ParseMark, Take, Go, NextIs, Steady
<1>7. CASE ParseMore
  <2>1. LooksAhead => ~NextIs("EOF")
    BY DEF LooksAhead, NextIs
  <2> QED
    BY <1>2, <1>7, <2>1 DEF ParseMore, Take, Go, Steady
<1>8. CASE ParseOn
  BY <1>2, <1>8 DEF ParseOn, Accept, Take, Go, NextIs, Steady
<1>9. CASE ParseWeekday
  BY <1>2, <1>9 DEF ParseWeekday, Take, Go, NextIs, Steady
<1>10. CASE ParseThrough
  BY <1>2, <1>10 DEF ParseThrough, Accept, Take, Go, NextIs, Steady
<1>11. CASE ParseRange
  BY <1>2, <1>11 DEF ParseRange, Accept, Take, Go, NextIs, Steady
<1>12. CASE ParseEOF
  BY <1>2, <1>12 DEF ParseEOF, Accept, Take, Go, Steady
<1> QED
  BY <1>2, <1>3, <1>4, <1>5, <1>6, <1>7, <1>8, <1>9, <1>10, <1>11, <1>12

\* One more token is found, after an input that had not ended.
LEMMA AppendKeeps ==
  ASSUME PositionInv, ~Ended, UNCHANGED nextTok,
         NEW t \in AnyToken, tokens' = Append(tokens, t)
  PROVE  PositionInv'
<1>1. tokens' \in Seq(AnyToken) /\ Len(tokens') = Len(tokens) + 1 /\ Len(tokens) \in Nat
  BY DEF PositionInv
<1>2. nextTok \in 1 .. Len(tokens')
  BY <1>1 DEF PositionInv
<1>3. \A i \in 1 .. Len(tokens) : tokens'[i] = tokens[i] /\ tokens[i] # Tok("EOF")
  <2> SUFFICES ASSUME NEW i \in 1 .. Len(tokens)
               PROVE  tokens'[i] = tokens[i] /\ tokens[i] # Tok("EOF")
    OBVIOUS
  <2>1. tokens'[i] = tokens[i] /\ tokens # <<>>
    BY <1>1 DEF PositionInv
  <2>2. tokens[i] = Tok("EOF") => Ended
    BY <2>1 DEF PositionInv, Ended
  <2> QED
    BY <2>1, <2>2
<1>4. \A i \in 1 .. Len(tokens') : tokens'[i] = Tok("EOF") => i = Len(tokens')
  BY <1>1, <1>3
<1> QED
  BY <1>1, <1>2, <1>4 DEF PositionInv

\* A step keeps the position inside the input.
LEMMA PositionStep == PositionInv /\ [Next]_vars => PositionInv'
<1> SUFFICES ASSUME PositionInv, [Next]_vars
             PROVE  PositionInv'
  OBVIOUS
<1>1. CASE Parse
  BY <1>1 DEF Parse, First, PositionInv, Ended
<1>2. CASE TokenizeFails
  <2>1. ~Ended /\ UNCHANGED nextTok /\ tokens' = Append(tokens, Tok("ILLEGAL"))
    BY <1>2 DEF TokenizeFails
  <2> QED
    BY <2>1, AppendKeeps DEF AnyToken
<1>3. ASSUME NEW t \in Token, Tokenize(t)
      PROVE  PositionInv'
  <2>1. ~Ended /\ UNCHANGED nextTok /\ tokens' = Append(tokens, t)
    BY <1>3 DEF Tokenize
  <2> QED
    BY <2>1, AppendKeeps DEF AnyToken
<1>4. CASE EndDate
  <2>1. /\ UNCHANGED <<tokens, nextTok>> /\ ~Outside
    BY <1>4 DEF EndDate, Go, Outside
  <2> QED
    BY <2>1 DEF PositionInv, Ended
<1>5. CASE \/ ParseAt \/ ParseInt \/ ParseSeparator \/ ParseMark \/ ParseMore \/ ParseOn
           \/ ParseWeekday \/ ParseThrough \/ ParseRange \/ ParseEOF
  BY <1>5, GrammarSteady, SteadyKeeps
<1>6. CASE UNCHANGED vars
  BY <1>6 DEF vars, PositionInv, Ended, Outside
<1> QED
  BY <1>1, <1>2, <1>3, <1>4, <1>5, <1>6 DEF Next

\* The position stays inside the input, however often the parser is used.
THEOREM PositionInvariant == Spec => []PositionInv
  BY PositionInit, PositionStep, PTL DEF Spec

\* peek and peek2 never look behind the EOF token, where the slice would be indexed out
\* of range: a second token is asked for only after AND.
THEOREM NeverPastEnd == Spec => []InsideInput
<1>1. PositionInv => InsideInput
  <2> SUFFICES ASSUME PositionInv, ~Outside, Ended
               PROVE  Needed <= Len(tokens)
    BY DEF InsideInput
  <2>1. nextTok \in 1 .. Len(tokens) /\ Len(tokens) \in Nat
    BY DEF PositionInv
  <2>2. CASE LooksAhead
    <3>1. tokens[nextTok] # Tok("EOF") /\ tokens[Len(tokens)] = Tok("EOF")
      BY <2>2 DEF LooksAhead, NextIs, Tok, Ended
    <3>2. nextTok < Len(tokens)
      BY <2>1, <3>1
    <3> QED
      BY <2>1, <2>2, <3>2 DEF Needed
  <2>3. CASE ~LooksAhead
    BY <2>1, <2>3 DEF Needed
  <2> QED
    BY <2>2, <2>3
<1> QED
  BY <1>1, PositionInvariant, PTL

-----------------------------------------------------------------------------
(* What the grammar's small functions make of numbers and weekdays.        *)

\* The hours of parseTimeOfDay are those the grammar means, whatever the number: 12 am is
\* midnight, 12 pm noon, and an hour past the end of the day counts from its beginning.
THEOREM HoursAsMeant ==
  ASSUME NEW h \in Nat
  PROVE  InDay(h) = Hour(h, "") /\ InDay(AM(h)) = Hour(h, "AM") /\ InDay(PM(h)) = Hour(h, "PM")
<1>1. Hour(h, "") = h % 24
  BY DEF Hour
<1>2. Hour(h, "AM") = AM(h) % 24
  BY DEF Hour, AM
<1>3. Hour(h, "PM") = PM(h) % 24
  BY DEF Hour, PM
<1> QED
  BY <1>1, <1>2, <1>3 DEF InDay

LEMMA HoursType ==
  ASSUME NEW h \in Nat
  PROVE  InDay(h) \in 0 .. 23 /\ InDay(AM(h)) \in 0 .. 23 /\ InDay(PM(h)) \in 0 .. 23
<1>1. AM(h) \in Nat /\ PM(h) \in Nat
  BY DEF AM, PM
<1> QED
  BY <1>1 DEF InDay

\* The weekdays before and after one.
Previous(day)  == IF day = 0 THEN 6 ELSE day - 1
Following(day) == IF day + 1 > 6 THEN 0 ELSE day + 1

LEMMA ThroughType ==
  ASSUME NEW d \in 0 .. 6, NEW e \in 0 .. 6
  PROVE  Through(d, e) \in Seq(0 .. 6) /\ Len(Through(d, e)) = ((e - d) % 7) + 1
<1>1. (e - d) % 7 \in 0 .. 6
  OBVIOUS
<1>2. \A i \in Nat : (d + i - 1) % 7 \in 0 .. 6
  OBVIOUS
<1> QED
  BY <1>1, <1>2 DEF Through

\* A sequence that begins with x and goes on as T.
LEMMA FirstAndRest ==
  ASSUME NEW X, NEW x \in X, NEW S \in Seq(X), NEW T \in Seq(X),
         Len(S) = Len(T) + 1, S[1] = x, \A i \in 1 .. Len(T) : S[i + 1] = T[i]
  PROVE  S = <<x>> \o T
<1>1. Len(T) \in Nat /\ Len(S) \in Nat
  OBVIOUS
<1>2. /\ <<x>> \o T \in Seq(X) /\ Len(<<x>> \o T) = Len(T) + 1 /\ (<<x>> \o T)[1] = x
      /\ \A i \in 1 .. Len(T) : (<<x>> \o T)[i + 1] = T[i]
  OBVIOUS
<1>3. ASSUME NEW i \in 1 .. Len(S)
      PROVE  S[i] = (<<x>> \o T)[i]
  <2>1. i = 1 \/ (i - 1 \in 1 .. Len(T) /\ (i - 1) + 1 = i)
    BY <1>1
  <2> QED
    BY <1>2, <2>1
<1> QED
  BY <1>1, <1>2, <1>3

\* The span is the first day and the span from the next day on.
LEMMA ThroughStep ==
  ASSUME NEW d \in 0 .. 6, NEW e \in 0 .. 6
  PROVE  Through(d, e) = IF d = e THEN <<e>> ELSE <<d>> \o Through(Following(d), e)
<1>1. CASE d = e
  <2>1. (e - d) % 7 = 0 /\ (d + 1 - 1) % 7 = e
    BY <1>1
  <2> QED
    BY <1>1, <2>1 DEF Through
<1>2. CASE d # e
  <2> DEFINE n == Following(d)
             k == ((e - n) % 7) + 1
  <2>1. n \in 0 .. 6 /\ ((e - d) % 7) + 1 = k + 1 /\ k \in 1 .. 7
    BY <1>2 DEF Following
  <2>2. \A i \in 1 .. 7 : (n + i - 1) % 7 = (d + (i + 1) - 1) % 7
    BY DEF Following
  <2> HIDE DEF n
  <2>3. /\ Through(d, e) \in Seq(0 .. 6) /\ Len(Through(d, e)) = k + 1
        /\ Through(n, e) \in Seq(0 .. 6) /\ Len(Through(n, e)) = k
    BY <2>1, ThroughType
  <2>4. /\ Through(d, e) = [i \in 1 .. k + 1 |-> (d + i - 1) % 7]
        /\ Through(n, e) = [i \in 1 .. k |-> (n + i - 1) % 7]
    BY <2>1 DEF Through
  <2> HIDE DEF k
  <2>5. Through(d, e)[1] = d
    <3>1. 1 \in 1 .. k + 1 /\ (d + 1 - 1) % 7 = d
      BY <2>1
    <3> QED
      BY <2>4, <3>1
  <2>6. ASSUME NEW i \in 1 .. k
        PROVE  Through(d, e)[i + 1] = Through(n, e)[i]
    <3>1. i \in 1 .. 7 /\ i + 1 \in 1 .. k + 1
      BY <2>1
    <3> QED
      BY <2>2, <2>4, <3>1
  <2>7. Through(d, e) = <<d>> \o Through(n, e)
    BY <2>3, <2>5, <2>6, FirstAndRest
  <2> QED
    BY <1>2, <2>7 DEF n
<1> QED
  BY <1>1, <1>2

\* The loop over the days of a span lists what the grammar means by it: from the first to
\* the last, from Saturday on to Sunday, and all the week if they follow one another.
THEOREM SpanAsMeant ==
  ASSUME NEW first \in 0 .. 6, NEW last \in 0 .. 6
  PROVE  DaysThrough(first, last) = Through(first, last)
<1> DEFINE Step(f) == [day \in 0 .. 6 |->
                         IF day = last THEN <<last>>
                         ELSE <<day>> \o f[IF day + 1 > 6 THEN 0 ELSE day + 1]]
           Loop == CHOOSE f : f = Step(f)
           Span == [day \in 0 .. 6 |-> Through(day, last)]
<1>1. Span = Step(Span)
  <2>1. ASSUME NEW day \in 0 .. 6
        PROVE  Span[day] = IF day = last THEN <<last>> ELSE <<day>> \o Span[Following(day)]
    <3>1. Following(day) \in 0 .. 6
      BY DEF Following
    <3> QED
      BY <3>1, ThroughStep
  <2> QED
    BY <2>1 DEF Following
<1>2. Loop = Step(Loop)
  BY <1>1
<1>3. DaysThrough(first, last) = Loop[first]
  BY DEF DaysThrough
<1> HIDE DEF Loop, Span
<1>4. \A day \in 0 .. 6 :
        /\ Loop[day] = IF day = last THEN <<last>> ELSE <<day>> \o Loop[Following(day)]
        /\ Span[day] = IF day = last THEN <<last>> ELSE <<day>> \o Span[Following(day)]
  BY <1>1, <1>2 DEF Following
<1> DEFINE Same(day) == day \in 0 .. 6 /\ Loop[day] = Span[day]
<1>5. Same(last)
  BY <1>4
<1>6. ASSUME NEW day, Same(day)
      PROVE  Same(Previous(day))
  <2>1. Previous(day) \in 0 .. 6 /\ Following(Previous(day)) = day
    BY <1>6 DEF Previous, Following
  <2> QED
    BY <1>4, <1>6, <2>1
<1> HIDE DEF Same
<1> DEFINE p1 == Previous(last)
           p2 == Previous(p1)
           p3 == Previous(p2)
           p4 == Previous(p3)
           p5 == Previous(p4)
           p6 == Previous(p5)
<1>7. Same(p1) /\ Same(p2) /\ Same(p3) /\ Same(p4) /\ Same(p5) /\ Same(p6)
  BY <1>5, <1>6
<1>8. first \in {last, p1, p2, p3, p4, p5, p6}
  BY DEF Previous
<1>9. Loop[first] = Span[first]
  BY <1>5, <1>7, <1>8 DEF Same
<1> QED
  BY <1>3, <1>9 DEF Span

-----------------------------------------------------------------------------
(* Types.                                                                  *)

Time == (0 .. 23) \X Nat \X Nat

\* Nothing is read after the EOF at the bound.
Bounded ==
  /\ Len(tokens) <= MaxTokens + 1
  /\ Len(tokens) = MaxTokens + 1 => Ended \/ Outside

\* What the parser has parsed so far.
Parsed ==
  /\ pc \in Place /\ num \in [Field -> Nat] /\ weekday \in 0 .. 6 /\ end \in {"from", "to"}
  /\ times \in Seq(Time) /\ weekdays \in Seq(0 .. 6)

TypeInv == PositionInv /\ Bounded /\ Parsed

LEMMA ZeroType == Zero \in [Field -> Nat]
  BY DEF Zero

LEMMA EveryDayType == EveryDay \in Seq(0 .. 6)
<1>1. \A i \in 1 .. 7 : i - 1 \in 0 .. 6
  OBVIOUS
<1> QED
  BY <1>1 DEF EveryDay

LEMMA TypeInit == Init => Bounded /\ Parsed
<1> SUFFICES ASSUME Init
             PROVE  Bounded /\ Parsed
  OBVIOUS
<1>1. MaxTokens \in Nat
  BY GrammarAssumption
<1> QED
  BY <1>1, ZeroType DEF Init, Bounded, Parsed, Outside, Place

\* What the tokens of a number and of a weekday hold.
LEMMA TokenValue ==
  ASSUME PositionInv, nextTok <= Len(tokens)
  PROVE  /\ NextIs("INT") => tokens[nextTok][2] \in Numbers \cup {TooBig}
         /\ NextIs("DAY") => tokens[nextTok][2] \in 0 .. 6
<1>1. tokens[nextTok] \in AnyToken
  BY DEF PositionInv
<1>2. Days \subseteq 0 .. 6
  BY GrammarAssumption
<1>3. PICK t \in AnyToken : t = tokens[nextTok]
  BY <1>1
<1>4. \/ \E ty \in Keyword \cup {"ILLEGAL"} : t = Tok(ty)
      \/ \E n \in Numbers \cup {TooBig} : t = Num(n)
      \/ \E d \in Days : t = Day(d)
  BY DEF AnyToken, Token
<1>5. CASE \E ty \in Keyword \cup {"ILLEGAL"} : t = Tok(ty)
  BY <1>3, <1>5 DEF Tok, Keyword, NextIs
<1>6. CASE \E n \in Numbers \cup {TooBig} : t = Num(n)
  BY <1>3, <1>6 DEF Num, NextIs
<1>7. CASE \E d \in Days : t = Day(d)
  BY <1>2, <1>3, <1>7 DEF Day, NextIs
<1> QED
  BY <1>4, <1>5, <1>6, <1>7

LEMMA BoundedStep == PositionInv /\ Bounded /\ [Next]_vars => Bounded'
<1> SUFFICES ASSUME PositionInv, Bounded, [Next]_vars
             PROVE  Bounded'
  OBVIOUS
<1>0. MaxTokens \in Nat /\ Len(tokens) \in Nat /\ tokens \in Seq(AnyToken)
  BY GrammarAssumption DEF PositionInv
<1>1. CASE Parse
  BY <1>0, <1>1 DEF Parse, Bounded
<1>2. CASE TokenizeFails
  <2>1. /\ ~Ended /\ ~Outside /\ tokens' = Append(tokens, Tok("ILLEGAL")) /\ pc' = "error"
    BY <1>2 DEF TokenizeFails
  <2>2. Len(tokens') = Len(tokens) + 1 /\ Outside'
    BY <1>0, <2>1 DEF Outside
  <2> QED
    BY <1>0, <2>1, <2>2 DEF Bounded
<1>3. ASSUME NEW t \in Token, Tokenize(t)
      PROVE  Bounded'
  <2>1. /\ ~Ended /\ ~Outside /\ tokens' = Append(tokens, t)
        /\ Len(tokens) = MaxTokens => t = Tok("EOF")
    BY <1>3 DEF Tokenize
  <2>2. Len(tokens') = Len(tokens) + 1 /\ tokens'[Len(tokens')] = t /\ tokens' # <<>>
    BY <1>0, <2>1
  <2>3. Len(tokens) = MaxTokens => Ended'
    BY <2>1, <2>2 DEF Ended
  <2> QED
    BY <1>0, <2>1, <2>2, <2>3 DEF Bounded
<1>4. CASE EndDate
  <2>1. UNCHANGED tokens /\ ~Outside
    BY <1>4 DEF EndDate, Outside
  <2> QED
    BY <2>1 DEF Bounded, Ended
<1>5. CASE \/ ParseAt \/ ParseInt \/ ParseSeparator \/ ParseMark \/ ParseMore \/ ParseOn
           \/ ParseWeekday \/ ParseThrough \/ ParseRange \/ ParseEOF
  <2>1. UNCHANGED tokens /\ ~Outside
    BY <1>5, GrammarSteady DEF Steady
  <2> QED
    BY <2>1 DEF Bounded, Ended
<1>6. CASE UNCHANGED vars
  BY <1>6 DEF vars, Bounded, Ended, Outside
<1> QED
  BY <1>1, <1>2, <1>3, <1>4, <1>5, <1>6 DEF Next

LEMMA ParsedStep == PositionInv /\ Parsed /\ [Next]_vars => Parsed'
<1> SUFFICES ASSUME PositionInv, Parsed, [Next]_vars
             PROVE  Parsed'
  OBVIOUS
<1>0. Numbers \subseteq Nat /\ Century \in Nat
  BY GrammarAssumption
<1>1. CASE Parse
  BY <1>1, ZeroType DEF Parse, Parsed, Place
<1>2. CASE TokenizeFails
  BY <1>2 DEF TokenizeFails, locals, result, Parsed, Place
<1>3. ASSUME NEW t \in Token, Tokenize(t)
      PROVE  Parsed'
  BY <1>3 DEF Tokenize, locals, result, Parsed
<1>4. CASE ParseAt
  BY <1>4 DEF ParseAt, Accept, Take, Go, locals, result, Parsed, Place, Field
<1>5. CASE ParseInt
  <2>1. Seen /\ pc \in Field /\ UNCHANGED <<weekday, end, times, weekdays>>
    BY <1>5 DEF ParseInt, AfterNumber, Field, result
  <2>2. nextTok <= Len(tokens)
    BY <2>1, SeenThere
  <2>3. AfterNumber[pc] \in Place
    BY <2>1 DEF AfterNumber, Field, Place
  <2>4. pc' \in Place
    BY <1>5, <2>3 DEF ParseInt, Take, Go, Place
  <2>5. num' \in [Field -> Nat]
    <3>1. CASE NextIs("INT") /\ tokens[nextTok][2] # TooBig
      <4>1. tokens[nextTok][2] \in Nat
        BY <1>0, <2>2, <3>1, TokenValue
      <4>2. Number(tokens[nextTok][2]) \in Nat
        BY <1>0, <4>1 DEF Number
      <4>3. num' = [num EXCEPT ![pc] = Number(tokens[nextTok][2])]
        BY <1>5, <3>1 DEF ParseInt
      <4> QED
        BY <2>1, <4>2, <4>3 DEF Parsed
    <3>2. CASE ~(NextIs("INT") /\ tokens[nextTok][2] # TooBig)
      BY <1>5, <3>2 DEF ParseInt, Parsed
    <3> QED
      BY <3>1, <3>2
  <2> QED
    BY <2>1, <2>4, <2>5 DEF Parsed
<1>6. CASE ParseSeparator
  BY <1>6 DEF ParseSeparator, Accept, Take, Go, locals, result, Parsed, Place, Field
<1>7. CASE ParseMark
  <2>1. /\ pc' = "moreTimes" /\ num' = Zero /\ UNCHANGED <<weekday, end, weekdays>>
    BY <1>7 DEF ParseMark, Take, Go
  <2>2. num.hours \in Nat /\ num.minutes \in Nat /\ num.seconds \in Nat
    BY DEF Parsed, Field
  <2>3. PICK h \in 0 .. 23 : times' = Append(times, <<h, num.minutes, num.seconds>>)
    <3> DEFINE h     == num.hours
               hours == IF NextIs("AM") THEN AM(h) ELSE IF NextIs("PM") THEN PM(h) ELSE h
    <3>1. times' = Append(times, <<InDay(hours), num.minutes, num.seconds>>)
      BY <1>7 DEF ParseMark
    <3>2. InDay(hours) \in 0 .. 23
      BY <2>2, HoursType
    <3> QED
      BY <3>1, <3>2
  <2>4. times' \in Seq(Time)
    <3>1. <<h, num.minutes, num.seconds>> \in Time
      BY <2>2 DEF Time
    <3> QED
      BY <2>3, <3>1 DEF Parsed
  <2> QED
    BY <2>1, <2>4, ZeroType DEF Parsed, Place
<1>8. CASE ParseMore
  BY <1>8 DEF ParseMore, Take, Go, locals, result, Parsed, Place, Field
<1>9. CASE ParseOn
  <2>1. weekdays' \in Seq(0 .. 6)
    BY <1>9, EveryDayType DEF ParseOn
  <2> QED
    BY <1>9, <2>1 DEF ParseOn, Accept, Take, Go, locals, Parsed, Place
<1>10. CASE ParseWeekday
  <2>1. Seen /\ UNCHANGED <<num, end, times>>
    BY <1>10 DEF ParseWeekday
  <2>2. nextTok <= Len(tokens)
    BY <2>1, SeenThere
  <2>3. NextIs("DAY") => tokens[nextTok][2] \in 0 .. 6
    BY <2>2, TokenValue
  <2>4. CASE ~NextIs("DAY")
    BY <1>10, <2>1, <2>4 DEF ParseWeekday, Go, Parsed, Place
  <2>5. CASE NextIs("DAY") /\ pc = "weekday"
    BY <1>10, <2>1, <2>3, <2>5 DEF ParseWeekday, Take, Parsed, Place
  <2>6. CASE NextIs("DAY") /\ pc = "throughDay"
    <3>1. /\ weekdays' = weekdays \o DaysThrough(weekday, tokens[nextTok][2])
          /\ pc' = "moreDays" /\ UNCHANGED weekday
      BY <1>10, <2>6 DEF ParseWeekday, Take
    <3>2. DaysThrough(weekday, tokens[nextTok][2]) \in Seq(0 .. 6)
      BY <2>3, <2>6, SpanAsMeant, ThroughType DEF Parsed
    <3>3. weekdays' \in Seq(0 .. 6)
      BY <3>1, <3>2 DEF Parsed
    <3> QED
      BY <2>1, <3>1, <3>3 DEF Parsed, Place
  <2> QED
    BY <1>10, <2>4, <2>5, <2>6 DEF ParseWeekday
<1>11. CASE ParseThrough
  <2>1. weekdays' \in Seq(0 .. 6)
    BY <1>11 DEF ParseThrough, Parsed
  <2> QED
    BY <1>11, <2>1 DEF ParseThrough, Accept, Take, Go, locals, Parsed, Place
<1>12. CASE ParseRange
  BY <1>12 DEF ParseRange, Accept, Take, Go, result, Parsed, Place, Field
<1>13. CASE EndDate
  BY <1>13, ZeroType DEF EndDate, Go, Parsed, Place
<1>14. CASE ParseEOF
  BY <1>14 DEF ParseEOF, Accept, Take, Go, locals, result, Parsed, Place
<1>15. CASE UNCHANGED vars
  BY <1>15 DEF vars, locals, result, Parsed
<1> QED
  BY <1>1, <1>2, <1>3, <1>4, <1>5, <1>6, <1>7, <1>8, <1>9, <1>10, <1>11, <1>12, <1>13,
     <1>14, <1>15 DEF Next

\* The parser looks no further than the bound, and what it has parsed are hours of a day
\* and days of a week, whatever the numbers in the input.
THEOREM ParsedTypes == Spec => []TypeOK
<1>1. TypeInv => TypeOK
  <2> SUFFICES ASSUME TypeInv
               PROVE  TypeOK
    OBVIOUS
  <2>1. MaxTokens \in Nat /\ Len(tokens) \in Nat
    BY GrammarAssumption DEF TypeInv, PositionInv
  <2>2. nextTok \in 1 .. MaxTokens + 2
    BY <2>1 DEF TypeInv, PositionInv, Bounded
  <2>3. \A i \in DOMAIN tokens : tokens[i] \in Token \cup {Tok("ILLEGAL")}
    BY DEF TypeInv, PositionInv, AnyToken
  <2>4. /\ \A i \in DOMAIN times : times[i] \in (0 .. 23) \X Nat \X Nat
        /\ \A i \in DOMAIN weekdays : weekdays[i] \in 0 .. 6
    BY DEF TypeInv, Parsed, Time
  <2> QED
    BY <2>2, <2>3, <2>4 DEF TypeOK, TypeInv, Parsed
<1>2. Init => TypeInv
  BY PositionInit, TypeInit DEF TypeInv
<1>3. TypeInv /\ [Next]_vars => TypeInv'
  BY PositionStep, BoundedStep, ParsedStep DEF TypeInv
<1> QED
  BY <1>1, <1>2, <1>3, PTL DEF Spec

-----------------------------------------------------------------------------
(* Texts and phrases, and the lists that the grammar makes of them.        *)

LEMMA LeastNat ==
  ASSUME NEW T, T \subseteq Nat, T # {}
  PROVE  \E m \in T : \A n \in T : m <= n
<1> DEFINE R == OpToRel(<, Nat)
<1>1. \E m \in T : \A n \in T : ~ (<<n, m>> \in R)
  <2>1. IsWellFoundedOn(R, Nat)
    BY NatLessThanWellFounded
  <2> HIDE DEF R
  <2> QED
    BY <2>1, WFMin
<1>2. \A m, n \in Nat : <<n, m>> \in R <=> n < m
  BY DEF OpToRel
<1>3. PICK m \in T : \A n \in T : ~ (<<n, m>> \in R)
  BY <1>1
<1>4. ASSUME NEW n \in T
      PROVE  m <= n
  <2>1. ~ (<<n, m>> \in R)
    BY <1>3
  <2>2. m \in Nat /\ n \in Nat
    OBVIOUS
  <2>3. ~ (n < m)
    BY <1>2, <2>1, <2>2
  <2> QED
    BY <2>2, <2>3
<1> QED
  BY <1>4

Text == Seq(AnyToken)

LEMMA TextDef == Text = Seq(AnyToken) /\ <<>> \in Text
<1>1. Text = Seq(AnyToken)
  BY DEF Text
<1>2. <<>> \in Seq(AnyToken)
  OBVIOUS
<1> QED
  BY <1>1, <1>2

LEMMA TextConcat ==
  ASSUME NEW s \in Text, NEW t \in Text
  PROVE  /\ s \o t \in Text /\ Len(s \o t) = Len(s) + Len(t) /\ Len(s) \in Nat /\ Len(t) \in Nat
         /\ s # <<>> => s \o t # <<>>
         /\ s \o <<>> = s /\ <<>> \o s = s /\ <<>> \in Text
  BY DEF Text

LEMMA TextAppend ==
  ASSUME NEW s \in Text, NEW x \in AnyToken
  PROVE  /\ Append(s, x) \in Text /\ Len(Append(s, x)) = Len(s) + 1 /\ Append(s, x) # <<>>
         /\ <<x>> \o s \in Text /\ Len(<<x>> \o s) = Len(s) + 1 /\ <<x>> \o s # <<>>
         /\ <<x>> \in Text /\ Len(<<x>>) = 1 /\ s \o <<x>> = Append(s, x)
  BY DEF Text

LEMMA TextRegroup ==
  ASSUME NEW s \in Text, NEW t \in Text, NEW u \in Text
  PROVE  (s \o t) \o u = s \o (t \o u)
  BY ConcatAssociative DEF Text

LEMMA TextAppendOut ==
  ASSUME NEW s \in Text, NEW t \in Text, NEW x \in AnyToken
  PROVE  Append(s \o t, x) = s \o Append(t, x)
<1> DEFINE one == <<x>>
           st  == s \o t
<1>1. one \in Text /\ st \in Text
  BY TextAppend, TextConcat
<1>2. st \o one = Append(st, x) /\ t \o one = Append(t, x)
  BY <1>1, TextAppend
<1>3. st \o one = s \o (t \o one)
  BY <1>1, TextRegroup
<1> QED
  BY <1>2, <1>3

LEMMA TextAppendIn ==
  ASSUME NEW s \in Text, NEW t \in Text, NEW x \in AnyToken
  PROVE  Append(s, x) \o t = s \o (<<x>> \o t)
<1> DEFINE one == <<x>>
<1>1. one \in Text
  BY TextAppend
<1>2. s \o one = Append(s, x)
  BY TextAppend
<1>3. (s \o one) \o t = s \o (one \o t)
  BY <1>1, TextRegroup
<1> QED
  BY <1>2, <1>3

Phrases(M) == [text : Text \ {<<>>}, means : M]

LEMMA PhraseFields ==
  ASSUME NEW x, NEW m
  PROVE  Phrase(x, m).text = x /\ Phrase(x, m).means = m
  BY DEF Phrase

LEMMA PhraseIn ==
  ASSUME NEW M, NEW x \in Text, x # <<>>, NEW m \in M
  PROVE  Phrase(x, m) \in Phrases(M)
  BY DEF Phrase, Phrases

LEMMA InPhrases ==
  ASSUME NEW M, NEW p \in Phrases(M)
  PROVE  /\ p = Phrase(p.text, p.means) /\ p.text \in Text /\ p.text # <<>> /\ p.means \in M
         /\ Len(p.text) \in Nat \ {0}
<1>1. p = Phrase(p.text, p.means) /\ p.text \in Text /\ p.text # <<>> /\ p.means \in M
  BY DEF Phrase, Phrases
<1>2. Len(p.text) \in Nat \ {0}
  BY <1>1, EmptySeq DEF Text
<1> QED
  BY <1>1, <1>2

LEMMA Tokens ==
  /\ \A ty \in Keyword : Tok(ty) \in AnyToken
  /\ \A n \in Numbers : Num(n) \in AnyToken
  /\ \A d \in Days : Day(d) \in AnyToken
  BY DEF AnyToken, Token

\* What List adds to the phrases of P: those of P with one more element of A.
More(A, P) ==
  {Phrase(p[1].text \o p[2].text, p[1].means \o p[2].means) :
     p \in {q \in P \X After("AND", A) : Len(q[1].text) + Len(q[2].text) <= MaxTokens}}

\* L[k] are the lists of k elements of A, for each k up to n.
ListOf(A, n, L) == L = [k \in 1 .. n |-> IF k = 1 THEN A ELSE More(A, L[k - 1])]

LEMMA ListOfExists ==
  ASSUME NEW A, NEW n \in Nat
  PROVE  \E L : ListOf(A, n, L)
<1> DEFINE Bad == {m \in Nat : ~ \E L : ListOf(A, m, L)}
<1> SUFFICES ASSUME Bad # {}
             PROVE  FALSE
  OBVIOUS
<1>1. PICK m \in Bad : \A k \in Bad : m <= k
  <2>1. Bad \subseteq Nat
    OBVIOUS
  <2> HIDE DEF Bad
  <2> QED
    BY <2>1, LeastNat
<1>2. CASE m = 0
  <2>1. ListOf(A, 0, [k \in 1 .. 0 |-> A])
    BY DEF ListOf
  <2> QED
    BY <1>2, <2>1
<1>3. CASE m # 0
  <2>1. m - 1 \in Nat /\ m - 1 \notin Bad /\ m \in Nat
    BY <1>1, <1>3
  <2>2. PICK L : ListOf(A, m - 1, L)
    BY <2>1
  <2> DEFINE New == [k \in 1 .. m |-> IF k = m /\ m # 1 THEN More(A, L[m - 1])
                                      ELSE IF k = 1 THEN A ELSE L[k]]
  <2>3. ASSUME NEW k \in 1 .. m
        PROVE  New[k] = IF k = 1 THEN A ELSE More(A, New[k - 1])
    <3>1. CASE k = 1
      BY <2>1, <3>1
    <3>2. CASE k # 1
      <4>1. k - 1 \in 1 .. m /\ k - 1 # m /\ k - 1 \in 1 .. m - 1
        BY <2>1, <3>2
      <4>2. L[k - 1] = IF k - 1 = 1 THEN A ELSE L[k - 1]
        BY <2>2, <4>1 DEF ListOf
      <4>3. New[k - 1] = L[k - 1]
        BY <4>1, <4>2
      <4>4. CASE k = m
        BY <3>2, <4>3, <4>4
      <4>5. CASE k # m
        <5>1. k \in 1 .. m - 1
          BY <2>1, <4>5
        <5>2. L[k] = More(A, L[k - 1])
          BY <2>2, <3>2, <5>1 DEF ListOf
        <5> QED
          BY <3>2, <4>3, <4>5, <5>2
      <4> QED
        BY <4>4, <4>5
    <3> QED
      BY <3>1, <3>2
  <2>4. ListOf(A, m, New)
    BY <2>3 DEF ListOf
  <2> QED
    BY <2>1, <2>4
<1> QED
  BY <1>2, <1>3

LEMMA ListUnfold ==
  ASSUME NEW A
  PROVE  \E L : /\ List(A) = UNION {L[n] : n \in 1 .. MaxTokens}
                /\ L[1] = A
                /\ \A n \in 2 .. MaxTokens : L[n] = More(A, L[n - 1])
<1> DEFINE L == CHOOSE L : ListOf(A, MaxTokens, L)
<1>1. MaxTokens \in Nat \ {0}
  BY GrammarAssumption
<1>2. ListOf(A, MaxTokens, L)
  BY <1>1, ListOfExists
<1>3. List(A) = UNION {L[n] : n \in 1 .. MaxTokens}
  BY DEF List, ListOf, More, Join
<1> HIDE DEF L
<1>4. L[1] = A /\ \A n \in 2 .. MaxTokens : L[n] = More(A, L[n - 1])
  BY <1>1, <1>2 DEF ListOf
<1> QED
  BY <1>3, <1>4

\* A list and one more element.
WithAnd(p, a) == Phrase(p.text \o (<<Tok("AND")>> \o a.text), p.means \o a.means)

\* The phrases with one more element, by their parts.
LEMMA MoreParts ==
  ASSUME NEW A, NEW P, NEW r \in More(A, P)
  PROVE  \E p \in P, a \in A : r = WithAnd(p, a)
<1>1. PICK q \in P \X After("AND", A) :
        r = Phrase(q[1].text \o q[2].text, q[1].means \o q[2].means)
  BY DEF More
<1>2. PICK a \in A : q[2] = Phrase(<<Tok("AND")>> \o a.text, a.means)
  BY DEF After
<1>3. q[2].text = <<Tok("AND")>> \o a.text /\ q[2].means = a.means
  BY <1>2 DEF Phrase
<1>4. r = WithAnd(q[1], a)
  BY <1>1, <1>3 DEF WithAnd
<1> QED
  BY <1>4

LEMMA MoreMade ==
  ASSUME NEW A, NEW P, NEW p \in P, NEW a \in A,
         Len(p.text) + Len(<<Tok("AND")>> \o a.text) <= MaxTokens
  PROVE  WithAnd(p, a) \in More(A, P)
<1> DEFINE b == Phrase(<<Tok("AND")>> \o a.text, a.means)
           q == <<p, b>>
<1>1. b \in After("AND", A) /\ b.text = <<Tok("AND")>> \o a.text /\ b.means = a.means
  BY DEF After, Phrase
<1> HIDE DEF b
<1>2. q \in P \X After("AND", A) /\ q[1] = p /\ q[2] = b
  BY <1>1
<1> HIDE DEF q
<1>3. /\ Len(q[1].text) + Len(q[2].text) <= MaxTokens
      /\ Phrase(q[1].text \o q[2].text, q[1].means \o q[2].means) = WithAnd(p, a)
  BY <1>1, <1>2 DEF WithAnd
<1> QED
  BY <1>2, <1>3 DEF More

LEMMA MoreType ==
  ASSUME NEW X, NEW A, NEW P, A \subseteq Phrases(Seq(X)), P \subseteq Phrases(Seq(X)),
         NEW n \in Nat, \A p \in P : Len(p.text) >= n
  PROVE  More(A, P) \subseteq Phrases(Seq(X)) /\ \A r \in More(A, P) : Len(r.text) >= n + 1
<1> SUFFICES ASSUME NEW r \in More(A, P)
             PROVE  r \in Phrases(Seq(X)) /\ Len(r.text) >= n + 1
  OBVIOUS
<1>1. PICK p \in P, a \in A : r = WithAnd(p, a)
  BY MoreParts
<1>2. /\ p.text \in Text /\ a.text \in Text /\ p.means \in Seq(X) /\ a.means \in Seq(X)
      /\ Len(p.text) >= n /\ p.text # <<>>
  BY InPhrases
<1>3. Tok("AND") \in AnyToken
  BY Tokens DEF Keyword
<1> DEFINE rest == <<Tok("AND")>> \o a.text
           both == p.text \o rest
<1>4. rest \in Text /\ Len(rest) = Len(a.text) + 1 /\ Len(a.text) \in Nat
  BY <1>2, <1>3, TextAppend, TextConcat
<1> HIDE DEF rest
<1>5. both \in Text /\ Len(both) = Len(p.text) + Len(rest) /\ both # <<>> /\ Len(p.text) \in Nat
  BY <1>2, <1>4, TextConcat
<1>6. p.means \o a.means \in Seq(X)
  BY <1>2
<1>7. r = Phrase(both, p.means \o a.means)
  BY <1>1 DEF rest, WithAnd
<1> HIDE DEF both
<1> DEFINE m == p.means \o a.means
<1> HIDE DEF m
<1>8. r \in Phrases(Seq(X)) /\ r.text = both
  <2>1. r = Phrase(both, m) /\ m \in Seq(X)
    BY <1>6, <1>7 DEF m
  <2> QED
    BY <1>5, <2>1, PhraseIn, PhraseFields
<1>9. Len(r.text) >= n + 1
  <2>1. Len(r.text) = Len(p.text) + (Len(a.text) + 1)
    BY <1>4, <1>5, <1>8
  <2> DEFINE x == Len(p.text)
             y == Len(a.text)
             z == Len(r.text)
  <2>2. x \in Nat /\ y \in Nat /\ x >= n /\ z = x + (y + 1)
    BY <1>2, <1>4, <1>5, <2>1
  <2> HIDE DEF x, y, z
  <2>3. z >= n + 1
    BY <2>2
  <2> QED
    BY <2>3 DEF z
<1> QED
  BY <1>8, <1>9

\* The phrases of a list, with one element and with one more, and their types.
LEMMA ListOne ==
  ASSUME NEW A
  PROVE  A \subseteq List(A)
<1>1. MaxTokens \in Nat \ {0}
  BY GrammarAssumption
<1> QED
  BY <1>1, ListUnfold

\* Each list of n elements has at least n tokens.
LEMMA ListLevel ==
  ASSUME NEW X, NEW A, A \subseteq Phrases(Seq(X)), NEW L, L[1] = A,
         \A n \in 2 .. MaxTokens : L[n] = More(A, L[n - 1]),
         NEW k \in 1 .. MaxTokens
  PROVE  L[k] \subseteq Phrases(Seq(X)) /\ \A p \in L[k] : Len(p.text) >= k
<1> DEFINE Good(n) == L[n] \subseteq Phrases(Seq(X)) /\ \A p \in L[n] : Len(p.text) >= n
           Bad     == {n \in 1 .. MaxTokens : ~Good(n)}
<1> SUFFICES ASSUME Bad # {}
             PROVE  FALSE
  OBVIOUS
<1>1. MaxTokens \in Nat
  BY GrammarAssumption
<1>2. PICK m \in Bad : \A n \in Bad : m <= n
  <2>1. Bad \subseteq Nat
    BY <1>1
  <2> HIDE DEF Bad
  <2> QED
    BY <2>1, LeastNat
<1>3. m \in 1 .. MaxTokens /\ ~Good(m)
  OBVIOUS
<1>4. CASE m = 1
  <2>1. \A p \in A : Len(p.text) >= 1
    BY InPhrases
  <2> QED
    BY <1>3, <1>4, <2>1
<1>5. CASE m # 1
  <2>1. m \in 2 .. MaxTokens /\ m - 1 \in 1 .. MaxTokens /\ ~ (m <= m - 1)
    BY <1>1, <1>3, <1>5
  <2>2. Good(m - 1)
    BY <1>2, <2>1
  <2>3. L[m] = More(A, L[m - 1])
    BY <2>1
  <2>4. m - 1 \in Nat /\ (m - 1) + 1 = m
    BY <2>1
  <2>5. PICK P : P = L[m - 1]
    OBVIOUS
  <2>6. P \subseteq Phrases(Seq(X)) /\ \A p \in P : Len(p.text) >= m - 1
    BY <2>2, <2>5
  <2>7. More(A, P) \subseteq Phrases(Seq(X)) /\ \A r \in More(A, P) : Len(r.text) >= (m - 1) + 1
    BY <2>4, <2>6, MoreType
  <2> QED
    BY <1>3, <2>3, <2>4, <2>5, <2>7
<1> QED
  BY <1>4, <1>5

LEMMA ListType ==
  ASSUME NEW X, NEW A, A \subseteq Phrases(Seq(X))
  PROVE  List(A) \subseteq Phrases(Seq(X))
<1>1. PICK L : /\ List(A) = UNION {L[n] : n \in 1 .. MaxTokens} /\ L[1] = A
               /\ \A n \in 2 .. MaxTokens : L[n] = More(A, L[n - 1])
  BY ListUnfold
<1>2. ASSUME NEW n \in 1 .. MaxTokens
      PROVE  L[n] \subseteq Phrases(Seq(X))
  BY <1>1, ListLevel, Zenon
<1> QED
  BY <1>1, <1>2

LEMMA ListMore ==
  ASSUME NEW X, NEW A, A \subseteq Phrases(Seq(X)), NEW p \in List(A), NEW a \in A,
         Len(p.text) + Len(<<Tok("AND")>> \o a.text) <= MaxTokens
  PROVE  WithAnd(p, a) \in List(A)
<1>1. PICK L : /\ List(A) = UNION {L[n] : n \in 1 .. MaxTokens} /\ L[1] = A
               /\ \A n \in 2 .. MaxTokens : L[n] = More(A, L[n - 1])
  BY ListUnfold
<1>2. PICK n \in 1 .. MaxTokens : p \in L[n]
  BY <1>1
<1>3. MaxTokens \in Nat
  BY GrammarAssumption
<1>4. n + 1 \in 2 .. MaxTokens /\ (n + 1) - 1 = n
  <2>1. Len(p.text) >= n
    BY <1>1, <1>2, ListLevel
  <2>2. p \in Phrases(Seq(X))
    BY ListType
  <2>3. Len(p.text) \in Nat /\ a.text \in Text
    BY <2>2, InPhrases
  <2>4. Len(<<Tok("AND")>> \o a.text) = Len(a.text) + 1 /\ Len(a.text) \in Nat
    BY <2>3, Tokens, TextAppend, TextConcat DEF Keyword
  <2>5. Len(p.text) + (Len(a.text) + 1) <= MaxTokens
    BY <2>4
  <2> DEFINE x == Len(p.text)
             y == Len(a.text)
  <2>6. x \in Nat /\ y \in Nat /\ x >= n /\ x + (y + 1) <= MaxTokens
    BY <2>1, <2>3, <2>4, <2>5
  <2> HIDE DEF x, y
  <2>7. n + 1 <= MaxTokens
    BY <1>3, <2>6
  <2> QED
    BY <1>3, <2>7
<1>5. L[n + 1] = More(A, L[n])
  BY <1>1, <1>4
<1>6. WithAnd(p, a) \in L[n + 1]
  BY <1>2, <1>5, MoreMade
<1> QED
  BY <1>1, <1>4, <1>6

\* A list of A that has begun and at which the next phrase of A is due.
Open(ty, A) ==
  {Phrase(<<Tok(ty)>>, <<>>)}
  \cup {Phrase(Append(p.text, Tok("AND")), p.means) : p \in After(ty, List(A))}

LEMMA PhraseEqual ==
  ASSUME NEW x, NEW m, NEW y, NEW k, Phrase(x, m) = Phrase(y, k)
  PROVE  x = y /\ m = k
<1>1. Phrase(x, m).text = x /\ Phrase(x, m).means = m
  BY PhraseFields
<1>2. Phrase(y, k).text = y /\ Phrase(y, k).means = k
  BY PhraseFields
<1> QED
  BY <1>1, <1>2

LEMMA OneOf ==
  ASSUME NEW S, NEW a \in S
  PROVE  <<a>> \in Seq(S)
  OBVIOUS

LEMMA OpenAgain ==
  ASSUME NEW ty, NEW A, NEW x, NEW m, Phrase(x, m) \in After(ty, List(A))
  PROVE  Phrase(Append(x, Tok("AND")), m) \in Open(ty, A)
<1>1. Phrase(x, m).text = x /\ Phrase(x, m).means = m
  BY PhraseFields
<1> QED
  BY <1>1 DEF Open

LEMMA AfterMade ==
  ASSUME NEW ty, NEW A, NEW a \in A
  PROVE  Phrase(<<Tok(ty)>> \o a.text, a.means) \in After(ty, A)
  BY DEF After

LEMMA OpenClose ==
  ASSUME NEW X, NEW A, A \subseteq Phrases(Seq(X)), NEW ty \in Keyword,
         NEW x, NEW m, Phrase(x, m) \in Open(ty, A),
         NEW y, NEW k, Phrase(y, k) \in A, Len(x \o y) <= MaxTokens
  PROVE  Phrase(x \o y, m \o k) \in After(ty, List(A))
<1> DEFINE a == Phrase(y, k)
<1>1. a \in A /\ a.text = y /\ a.means = k
  BY PhraseFields
<1>2. y \in Text /\ k \in Seq(X)
  BY <1>1, InPhrases
<1>3. Tok(ty) \in AnyToken /\ Tok("AND") \in AnyToken
  BY Tokens DEF Keyword
<1> HIDE DEF a
<1>4. CASE Phrase(x, m) = Phrase(<<Tok(ty)>>, <<>>)
  <2>1. x = <<Tok(ty)>> /\ m = <<>>
    BY <1>4, PhraseFields
  <2>2. Phrase(<<Tok(ty)>> \o a.text, a.means) \in After(ty, List(A))
    BY <1>1, ListOne, AfterMade
  <2>3. m \o k = k
    BY <1>2, <2>1
  <2> QED
    BY <1>1, <2>1, <2>2, <2>3
<1>5. CASE \E p \in After(ty, List(A)) : Phrase(x, m) = Phrase(Append(p.text, Tok("AND")), p.means)
  <2>1. PICK p \in After(ty, List(A)) : Phrase(x, m) = Phrase(Append(p.text, Tok("AND")), p.means)
    BY <1>5
  <2>2. x = Append(p.text, Tok("AND")) /\ m = p.means
    <3> DEFINE u == Append(p.text, Tok("AND"))
               w == p.means
    <3>1. Phrase(x, m) = Phrase(u, w)
      BY <2>1
    <3> HIDE DEF u, w
    <3>2. x = u /\ m = w
      BY <3>1, PhraseEqual
    <3> QED
      BY <3>2 DEF u, w
  <2>3. PICK q \in List(A) : p = Phrase(<<Tok(ty)>> \o q.text, q.means)
    BY DEF After
  <2>4. p.text = <<Tok(ty)>> \o q.text /\ p.means = q.means
    BY <2>3, PhraseFields
  <2>5. q.text \in Text /\ q.means \in Seq(X)
    BY ListType, InPhrases
  <2> DEFINE t == <<Tok(ty)>>
             z == <<Tok("AND")>> \o y
             v == t \o q.text
             qt == q.text
  <2>6. /\ t \in Text /\ z \in Text /\ v \in Text /\ qt \in Text
        /\ Len(z) = Len(y) + 1 /\ Len(v) = Len(qt) + 1 /\ Len(y) \in Nat /\ Len(qt) \in Nat
    BY <1>2, <1>3, <2>5, TextAppend, TextConcat
  <2>7. x = Append(v, Tok("AND"))
    BY <2>2, <2>4
  <2>8. Append(v, Tok("AND")) \o y = v \o z
    BY <1>2, <1>3, <2>6, TextAppendIn
  <2> HIDE DEF z, qt
  <2>9. v = t \o qt
    BY DEF qt
  <2> HIDE DEF v, t
  <2>10. v \o z = t \o (qt \o z)
    BY <2>6, <2>9, TextRegroup
  <2>11. Len(v \o z) = Len(v) + Len(z)
    BY <2>6, TextConcat
  <2>12. Len(qt) + Len(z) <= MaxTokens
    <3>1. Len(v \o z) <= MaxTokens /\ MaxTokens \in Nat
      BY <2>7, <2>8, GrammarAssumption
    <3> QED
      BY <2>6, <2>11, <3>1
  <2>13. WithAnd(q, a) \in List(A)
    BY <1>1, <2>12, ListMore DEF qt, z
  <2>14. WithAnd(q, a).text = qt \o z /\ WithAnd(q, a).means = m \o k
    <3>1. PICK u, w : u = qt \o z /\ w = m \o k
      OBVIOUS
    <3>2. WithAnd(q, a) = Phrase(u, w)
      BY <1>1, <2>2, <2>4, <3>1 DEF WithAnd, qt, z
    <3>3. Phrase(u, w).text = u /\ Phrase(u, w).means = w
      BY PhraseFields
    <3> QED
      BY <3>1, <3>2, <3>3
  <2>15. Phrase(t \o (qt \o z), m \o k) \in After(ty, List(A))
    BY <2>13, <2>14, AfterMade DEF t
  <2> QED
    BY <2>7, <2>8, <2>10, <2>15
<1> QED
  BY <1>4, <1>5 DEF Open

LEMMA JoinMade ==
  ASSUME NEW A, NEW B, NEW x, NEW m, NEW y, NEW k,
         Phrase(x, m) \in A, Phrase(y, k) \in B, Len(x) + Len(y) <= MaxTokens
  PROVE  Phrase(x \o y, Append(m, k)) \in Join(A, B, Append)
<1> DEFINE q == <<Phrase(x, m), Phrase(y, k)>>
<1>1. q \in A \X B /\ q[1] = Phrase(x, m) /\ q[2] = Phrase(y, k)
  OBVIOUS
<1>2. q[1].text = x /\ q[1].means = m /\ q[2].text = y /\ q[2].means = k
  BY <1>1, PhraseFields
<1> HIDE DEF q
<1>3. /\ Len(q[1].text) + Len(q[2].text) <= MaxTokens
      /\ Phrase(q[1].text \o q[2].text, Append(q[1].means, q[2].means)) = Phrase(x \o y, Append(m, k))
  BY <1>2
<1> QED
  BY <1>1, <1>3 DEF Join

\* Tuples grow at their end.
LEMMA Pair ==
  ASSUME NEW S, NEW a \in S, NEW b \in S
  PROVE  Append(<<a>>, b) = <<a, b>>
<1>1. /\ Append(<<a>>, b) \in Seq(S) /\ Len(Append(<<a>>, b)) = 2
      /\ <<a, b>> \in Seq(S) /\ Len(<<a, b>>) = 2
  OBVIOUS
<1>2. \A i \in 1 .. 2 : Append(<<a>>, b)[i] = <<a, b>>[i]
  OBVIOUS
<1> QED
  BY <1>1, <1>2, SeqEqual

LEMMA Triple ==
  ASSUME NEW S, NEW a \in S, NEW b \in S, NEW c \in S
  PROVE  Append(<<a, b>>, c) = <<a, b, c>>
<1>1. /\ Append(<<a, b>>, c) \in Seq(S) /\ Len(Append(<<a, b>>, c)) = 3
      /\ <<a, b, c>> \in Seq(S) /\ Len(<<a, b, c>>) = 3
  OBVIOUS
<1>2. \A i \in 1 .. 3 : Append(<<a, b>>, c)[i] = <<a, b, c>>[i]
  OBVIOUS
<1> QED
  BY <1>1, <1>2, SeqEqual

LEMMA Quadruple ==
  ASSUME NEW S, NEW a \in S, NEW b \in S, NEW c \in S, NEW d \in S
  PROVE  Append(<<a, b, c>>, d) = <<a, b, c, d>>
<1>1. /\ Append(<<a, b, c>>, d) \in Seq(S) /\ Len(Append(<<a, b, c>>, d)) = 4
      /\ <<a, b, c, d>> \in Seq(S) /\ Len(<<a, b, c, d>>) = 4
  OBVIOUS
<1>2. \A i \in 1 .. 4 : Append(<<a, b, c>>, d)[i] = <<a, b, c, d>>[i]
  OBVIOUS
<1> QED
  BY <1>1, <1>2, SeqEqual

LEMMA Quintuple ==
  ASSUME NEW S, NEW a \in S, NEW b \in S, NEW c \in S, NEW d \in S, NEW e \in S
  PROVE  Append(<<a, b, c, d>>, e) = <<a, b, c, d, e>>
<1>1. /\ Append(<<a, b, c, d>>, e) \in Seq(S) /\ Len(Append(<<a, b, c, d>>, e)) = 5
      /\ <<a, b, c, d, e>> \in Seq(S) /\ Len(<<a, b, c, d, e>>) = 5
  OBVIOUS
<1>2. \A i \in 1 .. 5 : Append(<<a, b, c, d>>, e)[i] = <<a, b, c, d, e>>[i]
  OBVIOUS
<1> QED
  BY <1>1, <1>2, SeqEqual

LEMMA ClockType == Clock \subseteq Phrases(Nat \X Nat \X Nat)
<1>0. Numbers \subseteq Nat /\ \A n \in Numbers : Num(n) \in AnyToken
  BY GrammarAssumption, Tokens
<1>1. Tok("COLON") \in AnyToken
  BY Tokens DEF Keyword
<1> SUFFICES ASSUME NEW p \in Clock
             PROVE  p \in Phrases(Nat \X Nat \X Nat)
  OBVIOUS
<1> DEFINE One(h)         == Phrase(<<Num(h)>>, <<h, 0, 0>>)
           Two(h, m)      == Phrase(<<Num(h), Tok("COLON"), Num(m)>>, <<h, m, 0>>)
           Three(h, m, s) == Phrase(<<Num(h), Tok("COLON"), Num(m), Tok("COLON"), Num(s)>>,
                                    <<h, m, s>>)
           C1 == {One(h) : h \in Numbers}
           C2 == {Two(h, m) : h, m \in Numbers}
           C3 == {Three(h, m, s) : h, m, s \in Numbers}
<1>2. Clock = (C1 \cup C2) \cup C3
  BY DEF Clock
<1>3. ASSUME NEW h \in Numbers
      PROVE  One(h) \in Phrases(Nat \X Nat \X Nat)
  <2>1. <<Num(h)>> \in Text /\ <<Num(h)>> # <<>> /\ <<h, 0, 0>> \in Nat \X Nat \X Nat
    BY <1>0, TextDef
  <2> QED
    BY <2>1, PhraseIn
<1>4. ASSUME NEW h \in Numbers, NEW m \in Numbers
      PROVE  Two(h, m) \in Phrases(Nat \X Nat \X Nat)
  <2>1. /\ <<Num(h), Tok("COLON"), Num(m)>> \in Text /\ <<Num(h), Tok("COLON"), Num(m)>> # <<>>
        /\ <<h, m, 0>> \in Nat \X Nat \X Nat
    BY <1>0, <1>1, TextDef
  <2> QED
    BY <2>1, PhraseIn
<1>5. ASSUME NEW h \in Numbers, NEW m \in Numbers, NEW s \in Numbers
      PROVE  Three(h, m, s) \in Phrases(Nat \X Nat \X Nat)
  <2>1. /\ <<Num(h), Tok("COLON"), Num(m), Tok("COLON"), Num(s)>> \in Text
        /\ <<Num(h), Tok("COLON"), Num(m), Tok("COLON"), Num(s)>> # <<>>
        /\ <<h, m, s>> \in Nat \X Nat \X Nat
    BY <1>0, <1>1, TextDef
  <2> QED
    BY <2>1, PhraseIn
<1> HIDE DEF One, Two, Three
<1>6. p \in C1 \/ p \in C2 \/ p \in C3
  <2> HIDE DEF C1, C2, C3
  <2> QED
    BY <1>2
<1> QED
  BY <1>3, <1>4, <1>5, <1>6

LEMMA MarkType ==
  ASSUME NEW mark \in Mark
  PROVE  (IF mark = "" THEN <<>> ELSE <<Tok(mark)>>) \in Text
<1>1. CASE mark = ""
  BY <1>1, TextDef
<1>2. CASE mark # ""
  <2>1. Tok(mark) \in AnyToken
    BY <1>2, Tokens DEF Keyword, Mark
  <2>2. <<Tok(mark)>> \in Text
    BY <2>1, TextDef
  <2> QED
    BY <1>2, <2>2
<1> QED
  BY <1>1, <1>2

LEMMA TimesType == Times \subseteq Phrases(Seq(Time))
<1> SUFFICES ASSUME NEW p \in Times
             PROVE  p \in Phrases(Seq(Time))
  OBVIOUS
<1>1. PICK c \in Clock, mark \in Mark : p = Marked(c, mark)
  BY DEF Times
<1>2. c.text \in Text /\ c.text # <<>> /\ c.means \in Nat \X Nat \X Nat
  BY ClockType, InPhrases
<1> DEFINE m == IF mark = "" THEN <<>> ELSE <<Tok(mark)>>
           t == <<Hour(c.means[1], mark), c.means[2], c.means[3]>>
           ct == c.text
<1>3. m \in Text
  BY MarkType
<1> HIDE DEF m
<1>4. ct \o m \in Text /\ ct \o m # <<>>
  BY <1>2, <1>3, TextConcat
<1>5. t \in Time
  <2>1. c.means[1] \in Nat /\ c.means[2] \in Nat /\ c.means[3] \in Nat
    BY <1>2
  <2>2. Hour(c.means[1], mark) \in 0 .. 23
    BY <2>1, HoursAsMeant, HoursType DEF Mark
  <2> QED
    BY <2>1, <2>2 DEF Time
<1>6. p = Phrase(ct \o m, <<t>>)
  BY <1>1 DEF Marked, m
<1> HIDE DEF t, ct
<1>7. <<t>> \in Seq(Time)
  BY <1>5, OneOf
<1> QED
  BY <1>4, <1>6, <1>7, PhraseIn

LEMMA WeekdaysType == Weekdays \subseteq Phrases(Seq(0 .. 6))
<1>0. Days \subseteq 0 .. 6 /\ \A d \in Days : Day(d) \in AnyToken
  BY GrammarAssumption, Tokens
<1>1. Tok("THROUGH") \in AnyToken
  BY Tokens DEF Keyword
<1> SUFFICES ASSUME NEW p \in Weekdays
             PROVE  p \in Phrases(Seq(0 .. 6))
  OBVIOUS
<1> DEFINE One(d)     == Phrase(<<Day(d)>>, <<d>>)
           Span(d, e) == Phrase(<<Day(d), Tok("THROUGH"), Day(e)>>, Through(d, e))
           C1 == {One(d) : d \in Days}
           C2 == {Span(d, e) : d, e \in Days}
<1>2. Weekdays = C1 \cup C2
  BY DEF Weekdays
<1>3. ASSUME NEW d \in Days
      PROVE  One(d) \in Phrases(Seq(0 .. 6))
  <2>1. <<Day(d)>> \in Text /\ <<Day(d)>> # <<>> /\ <<d>> \in Seq(0 .. 6)
    BY <1>0 DEF Text
  <2> QED
    BY <2>1, PhraseIn
<1>4. ASSUME NEW d \in Days, NEW e \in Days
      PROVE  Span(d, e) \in Phrases(Seq(0 .. 6))
  <2>1. /\ <<Day(d), Tok("THROUGH"), Day(e)>> \in Text
        /\ <<Day(d), Tok("THROUGH"), Day(e)>> # <<>>
    BY <1>0, <1>1 DEF Text
  <2>2. Through(d, e) \in Seq(0 .. 6)
    BY <1>0, ThroughType
  <2> QED
    BY <2>1, <2>2, PhraseIn
<1> HIDE DEF One, Span
<1>5. p \in C1 \/ p \in C2
  <2> HIDE DEF C1, C2
  <2> QED
    BY <1>2
<1> QED
  BY <1>3, <1>4, <1>5

-----------------------------------------------------------------------------
(* What the parser has consumed.                                           *)

\* The text the parser has consumed.
Done == SubSeq(tokens, 1, nextTok - 1)

\* A text before a step and after it.
Grown(s) == IF nextTok' = nextTok THEN s ELSE Append(s, tokens[nextTok])

LEMMA SeenText ==
  ASSUME PositionInv, Seen
  PROVE  /\ Len(tokens) \in Nat /\ nextTok \in 1 .. Len(tokens) /\ tokens \in Text
         /\ tokens[nextTok] \in AnyToken /\ Done \in Text /\ Len(Done) = nextTok - 1
<1>1. Len(tokens) \in Nat /\ nextTok \in 1 .. Len(tokens) /\ tokens \in Text
  BY SeenThere DEF PositionInv, Text
<1>2. Done \in Text /\ Len(Done) = nextTok - 1
  BY <1>1, SubSeqProperties DEF Text, Done
<1>3. tokens[nextTok] \in AnyToken
  BY <1>1, ElementOfSeq DEF Text
<1> QED
  BY <1>1, <1>2, <1>3

LEMMA Grows ==
  ASSUME PositionInv, Seen, Steady
  PROVE  Done' = Grown(Done)
<1>1. /\ Len(tokens) \in Nat /\ nextTok \in 1 .. Len(tokens) /\ tokens \in Text
      /\ tokens[nextTok] \in AnyToken /\ Done \in Text
  BY SeenText
<1>2. tokens' = tokens /\ (nextTok' = nextTok \/ nextTok' = nextTok + 1)
  BY DEF Steady
<1>3. CASE nextTok' = nextTok
  BY <1>2, <1>3 DEF Done, Grown
<1>4. CASE nextTok' = nextTok + 1
  <2>1. SubSeq(tokens, 1, nextTok) = SubSeq(tokens, 1, nextTok - 1) \o <<tokens[nextTok]>>
    BY <1>1, SubSeqRecursiveSecond DEF Text
  <2>2. Done' = SubSeq(tokens, 1, nextTok)
    <3>1. (nextTok + 1) - 1 = nextTok
      BY <1>1
    <3> QED
      BY <1>2, <1>4, <3>1 DEF Done
  <2>3. Done \o <<tokens[nextTok]>> = Append(Done, tokens[nextTok])
    BY <1>1, TextAppend
  <2>4. nextTok' # nextTok
    BY <1>1, <1>4
  <2> QED
    BY <2>1, <2>2, <2>3, <2>4 DEF Grown, Done
<1> QED
  BY <1>2, <1>3, <1>4

LEMMA GrownText ==
  ASSUME NEW s \in Text, NEW t \in Text, tokens[nextTok] \in AnyToken
  PROVE  Grown(s \o t) = s \o Grown(t)
  BY TextAppendOut DEF Grown

LEMMA GrownType ==
  ASSUME NEW t \in Text, tokens[nextTok] \in AnyToken
  PROVE  Grown(t) \in Text
  BY TextAppend DEF Grown

\* A parser that has not come to an end has consumed no more than a sentence may hold.
Fits == ~Outside => Done \in Text /\ Len(Done) <= MaxTokens

LEMMA FitsIf ==
  ASSUME NEW seq \in Seq(AnyToken), NEW n \in 1 .. Len(seq) + 1,
         Len(seq) <= MaxTokens + 1, Len(seq) = MaxTokens + 1 => n <= Len(seq)
  PROVE  SubSeq(seq, 1, n - 1) \in Text /\ Len(SubSeq(seq, 1, n - 1)) <= MaxTokens
<1>1. Len(seq) \in Nat /\ MaxTokens \in Nat
  BY GrammarAssumption
<1>2. n - 1 \in 0 .. Len(seq) /\ n - 1 <= MaxTokens
  BY <1>1
<1>3. SubSeq(seq, 1, n - 1) \in Seq(AnyToken) /\ Len(SubSeq(seq, 1, n - 1)) = n - 1
  BY <1>1, <1>2, SubSeqProperties
<1> QED
  BY <1>2, <1>3, TextDef

LEMMA FitsNow == PositionInv /\ Bounded => Fits
<1> SUFFICES ASSUME PositionInv, Bounded, ~Outside
             PROVE  Done \in Text /\ Len(Done) <= MaxTokens
  BY DEF Fits
<1>1. /\ tokens \in Seq(AnyToken) /\ nextTok \in 1 .. Len(tokens) + 1 /\ Len(tokens) <= MaxTokens + 1
      /\ Len(tokens) = MaxTokens + 1 => nextTok <= Len(tokens)
  BY DEF PositionInv, Bounded
<1> QED
  BY <1>1, FitsIf DEF Done

LEMMA FitsNext == PositionInv' /\ Bounded' => Fits'
<1> SUFFICES ASSUME PositionInv', Bounded', ~Outside'
             PROVE  Done' \in Text /\ Len(Done') <= MaxTokens
  BY DEF Fits, Text, AnyToken, Token
<1>1. /\ tokens' \in Seq(AnyToken) /\ nextTok' \in 1 .. Len(tokens') + 1 /\ Len(tokens') <= MaxTokens + 1
      /\ Len(tokens') = MaxTokens + 1 => nextTok' <= Len(tokens')
  BY DEF PositionInv, Bounded
<1> QED
  BY <1>1, FitsIf DEF Done

\* What the next token is.
LEMMA TokenIs ==
  ASSUME PositionInv, nextTok <= Len(tokens)
  PROVE  /\ \A ty \in Keyword : NextIs(ty) => tokens[nextTok] = Tok(ty)
         /\ NextIs("INT") /\ tokens[nextTok][2] # TooBig =>
              tokens[nextTok][2] \in Numbers /\ tokens[nextTok] = Num(tokens[nextTok][2])
         /\ NextIs("DAY") => tokens[nextTok][2] \in Days /\ tokens[nextTok] = Day(tokens[nextTok][2])
<1>1. tokens[nextTok] \in AnyToken
  BY DEF PositionInv
<1>3. PICK t \in AnyToken : t = tokens[nextTok]
  BY <1>1
<1>4. \/ \E ty \in Keyword \cup {"ILLEGAL"} : t = Tok(ty)
      \/ \E n \in Numbers \cup {TooBig} : t = Num(n)
      \/ \E d \in Days : t = Day(d)
  BY DEF AnyToken, Token
<1>5. CASE \E ty \in Keyword \cup {"ILLEGAL"} : t = Tok(ty)
  BY <1>3, <1>5 DEF Tok, Keyword, NextIs
<1>6. CASE \E n \in Numbers \cup {TooBig} : t = Num(n)
  BY <1>3, <1>6 DEF Num, NextIs, Keyword
<1>7. CASE \E d \in Days : t = Day(d)
  BY <1>3, <1>7 DEF Day, NextIs, Keyword
<1> QED
  BY <1>4, <1>5, <1>6, <1>7

-----------------------------------------------------------------------------
(* Times, dates and weekdays that have begun.                              *)

TimePlace == {"hours", "colon1", "minutes", "colon2", "seconds", "mark"}
DayPlace  == {"weekday", "through", "throughDay"}
DatePlace == {"month", "slash1", "day", "slash2", "year", "endDate"}

\* c is what is consumed of the time that is being parsed.
TimeBegun(c) ==
  LET h     == Num(num.hours)
      m     == Num(num.minutes)
      colon == Tok("COLON")
  IN  \/ pc = "hours" /\ c = <<>> /\ num = Zero
      \/ pc = "colon1" /\ c = <<h>> /\ num.hours \in Numbers /\ num.minutes = 0 /\ num.seconds = 0
      \/ pc = "minutes" /\ c = <<h, colon>> /\ num.hours \in Numbers /\ num.seconds = 0
      \/ pc = "colon2" /\ c = <<h, colon, m>> /\ {num.hours, num.minutes} \subseteq Numbers
           /\ num.seconds = 0
      \/ pc = "seconds" /\ c = <<h, colon, m, colon>> /\ {num.hours, num.minutes} \subseteq Numbers
      \/ pc = "mark" /\ Phrase(c, <<num.hours, num.minutes, num.seconds>>) \in Clock

\* c is what is consumed of the weekdays that are being parsed.
DayBegun(c) ==
  \/ pc = "weekday" /\ c = <<>>
  \/ pc = "through" /\ c = <<Day(weekday)>> /\ weekday \in Days
  \/ pc = "throughDay" /\ c = <<Day(weekday), Tok("THROUGH")>> /\ weekday \in Days

ShortDate == [year |-> 0, month |-> num.month, day |-> num.day]
LongDate  == [year |-> num.year, month |-> num.month, day |-> num.day]

\* c is what is consumed of the date that is being parsed.
DateBegun(c) ==
  LET m == Num(num.month)
  IN  \/ pc = "month" /\ c = <<>> /\ num = Zero
      \/ pc = "slash1" /\ c = <<m>> /\ num.month \in Numbers /\ num.year = 0
      \/ pc = "day" /\ c \in {<<m>>, <<m, Tok("SLASH")>>} /\ num.month \in Numbers /\ num.year = 0
      \/ pc = "slash2" /\ Phrase(c, ShortDate) \in ShortDates /\ num.year = 0
      \/ pc = "year" /\ \E s \in Text : c = Append(s, Tok("SLASH")) /\ Phrase(s, ShortDate) \in ShortDates
      \/ pc = "endDate" /\ Phrase(c, LongDate) \in Dates

LEMMA ClockMade ==
  ASSUME NEW h \in Numbers, NEW m \in Numbers, NEW s \in Numbers
  PROVE  /\ Phrase(<<Num(h)>>, <<h, 0, 0>>) \in Clock
         /\ Phrase(<<Num(h), Tok("COLON"), Num(m)>>, <<h, m, 0>>) \in Clock
         /\ Phrase(<<Num(h), Tok("COLON"), Num(m), Tok("COLON"), Num(s)>>, <<h, m, s>>) \in Clock
<1> DEFINE One(i)         == Phrase(<<Num(i)>>, <<i, 0, 0>>)
           Two(i, j)      == Phrase(<<Num(i), Tok("COLON"), Num(j)>>, <<i, j, 0>>)
           Three(i, j, k) == Phrase(<<Num(i), Tok("COLON"), Num(j), Tok("COLON"), Num(k)>>,
                                    <<i, j, k>>)
           C1 == {One(i) : i \in Numbers}
           C2 == {Two(i, j) : i, j \in Numbers}
           C3 == {Three(i, j, k) : i, j, k \in Numbers}
<1>1. Clock = (C1 \cup C2) \cup C3
  BY DEF Clock
<1>2. One(h) \in C1 /\ Two(h, m) \in C2 /\ Three(h, m, s) \in C3
  <2> HIDE DEF One, Two, Three
  <2> QED
    OBVIOUS
<1>3. One(h) \in Clock /\ Two(h, m) \in Clock /\ Three(h, m, s) \in Clock
  <2> HIDE DEF One, Two, Three, C1, C2, C3
  <2> QED
    BY <1>1, <1>2
<1> QED
  BY <1>3

\* The numbers of a time are parsed one after the other.
LEMMA TimeNumber ==
  ASSUME PositionInv, Parsed, ParseInt, pc \in TimePlace, pc' # "error",
         NEW c \in Text, TimeBegun(c), NEW d, d = Grown(c)
  PROVE  TimeBegun(d)' /\ pc' \in TimePlace
<1> DEFINE n == tokens[nextTok][2]
<1>1. /\ Seen /\ pc \in {"hours", "minutes", "seconds"} /\ NextIs("INT") /\ n # TooBig
      /\ nextTok' = nextTok + 1 /\ pc' = AfterNumber[pc]
      /\ num' = [num EXCEPT ![pc] = Number(n)]
  BY DEF ParseInt, Take, Go, AfterNumber, TimePlace
<1>2. nextTok \in Nat /\ nextTok <= Len(tokens) /\ tokens[nextTok] \in AnyToken
  BY <1>1, SeenText
<1>3. n \in Numbers /\ tokens[nextTok] = Num(n)
  BY <1>1, <1>2, TokenIs
<1>4. Number(n) = n
  BY <1>1 DEF Number
<1>5. d = Append(c, Num(n))
  BY <1>1, <1>2, <1>3 DEF Grown
<1>6. num \in [Field -> Nat] /\ num' = [num EXCEPT ![pc] = n]
  BY <1>1, <1>4 DEF Parsed
<1>7. Tok("COLON") \in AnyToken /\ \A k \in Numbers : Num(k) \in AnyToken
  BY Tokens DEF Keyword
<1> HIDE DEF n
<1>8. CASE pc = "hours"
  <2>1. c = <<>> /\ num = Zero
    BY <1>8 DEF TimeBegun
  <2>2. num'.hours = n /\ num'.minutes = 0 /\ num'.seconds = 0 /\ pc' = "colon1"
    BY <1>1, <1>6, <1>8, <2>1 DEF Zero, Field, AfterNumber
  <2>3. d = <<Num(n)>>
    BY <1>5, <2>1
  <2> QED
    BY <1>3, <2>2, <2>3 DEF TimeBegun, TimePlace
<1>9. CASE pc = "minutes"
  <2>1. c = <<Num(num.hours), Tok("COLON")>> /\ num.hours \in Numbers /\ num.seconds = 0
    BY <1>9 DEF TimeBegun
  <2>2. num'.hours = num.hours /\ num'.minutes = n /\ num'.seconds = 0 /\ pc' = "colon2"
    BY <1>1, <1>6, <1>9, <2>1 DEF Field, AfterNumber
  <2>3. d = <<Num(num.hours), Tok("COLON"), Num(n)>>
    BY <1>3, <1>5, <1>7, <2>1, Triple
  <2> QED
    BY <1>3, <2>1, <2>2, <2>3 DEF TimeBegun, TimePlace
<1>10. CASE pc = "seconds"
  <2>1. /\ c = <<Num(num.hours), Tok("COLON"), Num(num.minutes), Tok("COLON")>>
        /\ num.hours \in Numbers /\ num.minutes \in Numbers
    BY <1>10 DEF TimeBegun
  <2>2. num'.hours = num.hours /\ num'.minutes = num.minutes /\ num'.seconds = n /\ pc' = "mark"
    BY <1>1, <1>6, <1>10, <2>1 DEF Field, AfterNumber
  <2>3. d = <<Num(num.hours), Tok("COLON"), Num(num.minutes), Tok("COLON"), Num(n)>>
    BY <1>3, <1>5, <1>7, <2>1, Quintuple
  <2>4. Phrase(d, <<num.hours, num.minutes, n>>) \in Clock
    BY <1>3, <2>1, <2>3, ClockMade
  <2> QED
    BY <2>2, <2>4 DEF TimeBegun, TimePlace
<1> QED
  BY <1>1, <1>8, <1>9, <1>10

LEMMA TimeSeparator ==
  ASSUME PositionInv, Parsed, ParseSeparator, pc \in TimePlace,
         NEW c \in Text, TimeBegun(c), NEW d, d = Grown(c)
  PROVE  TimeBegun(d)' /\ pc' \in TimePlace
<1>1. Seen /\ UNCHANGED num
  BY DEF ParseSeparator, locals
<1>2. nextTok \in Nat /\ nextTok <= Len(tokens) /\ tokens[nextTok] \in AnyToken
  BY <1>1, SeenText
<1>3. NextIs("COLON") => tokens[nextTok] = Tok("COLON")
  BY <1>2, TokenIs DEF Keyword
<1>4. Tok("COLON") \in AnyToken /\ \A k \in Numbers : Num(k) \in AnyToken
  BY Tokens DEF Keyword
<1>5. num \in [Field -> Nat]
  BY DEF Parsed
<1>6. CASE pc = "colon1"
  <2>1. /\ c = <<Num(num.hours)>> /\ num.hours \in Numbers /\ num.minutes = 0 /\ num.seconds = 0
    BY <1>6 DEF TimeBegun
  <2>2. CASE NextIs("COLON")
    <3>1. pc' = "minutes" /\ nextTok' = nextTok + 1
      BY <1>6, <2>2 DEF ParseSeparator, Accept, Take
    <3>2. d = <<Num(num.hours), Tok("COLON")>>
      <4>1. d = Append(c, Tok("COLON"))
        BY <1>2, <1>3, <2>2, <3>1 DEF Grown
      <4> QED
        BY <1>4, <2>1, <4>1, Pair
    <3> QED
      BY <1>1, <2>1, <3>1, <3>2 DEF TimeBegun, TimePlace
  <2>3. CASE ~NextIs("COLON")
    <3>1. pc' = "mark" /\ nextTok' = nextTok
      BY <1>6, <2>3 DEF ParseSeparator, Accept, Go
    <3>2. Phrase(d, <<num.hours, num.minutes, num.seconds>>) \in Clock
      BY <2>1, <3>1, ClockMade DEF Grown
    <3> QED
      BY <1>1, <3>1, <3>2 DEF TimeBegun, TimePlace
  <2> QED
    BY <2>2, <2>3
<1>7. CASE pc = "colon2"
  <2>1. /\ c = <<Num(num.hours), Tok("COLON"), Num(num.minutes)>>
        /\ num.hours \in Numbers /\ num.minutes \in Numbers /\ num.seconds = 0
    BY <1>7 DEF TimeBegun
  <2>2. CASE NextIs("COLON")
    <3>1. pc' = "seconds" /\ nextTok' = nextTok + 1
      BY <1>7, <2>2 DEF ParseSeparator, Accept, Take
    <3>2. d = <<Num(num.hours), Tok("COLON"), Num(num.minutes), Tok("COLON")>>
      <4>1. d = Append(c, Tok("COLON"))
        BY <1>2, <1>3, <2>2, <3>1 DEF Grown
      <4> QED
        BY <1>4, <2>1, <4>1, Quadruple
    <3> QED
      BY <1>1, <2>1, <3>1, <3>2 DEF TimeBegun, TimePlace
  <2>3. CASE ~NextIs("COLON")
    <3>1. pc' = "mark" /\ nextTok' = nextTok
      BY <1>7, <2>3 DEF ParseSeparator, Accept, Go
    <3>2. Phrase(d, <<num.hours, num.minutes, num.seconds>>) \in Clock
      BY <2>1, <3>1, ClockMade DEF Grown
    <3> QED
      BY <1>1, <3>1, <3>2 DEF TimeBegun, TimePlace
  <2> QED
    BY <2>2, <2>3
<1> QED
  BY <1>6, <1>7 DEF ParseSeparator, TimePlace

LEMMA ShortDateMade ==
  ASSUME NEW m \in Numbers, NEW d \in Numbers
  PROVE  LET date == [year |-> 0, month |-> m, day |-> d]
         IN  /\ Phrase(<<Num(m), Num(d)>>, date) \in ShortDates
             /\ Phrase(<<Num(m), Tok("SLASH"), Num(d)>>, date) \in ShortDates
<1> DEFINE date  == [year |-> 0, month |-> m, day |-> d]
           slash == Tok("SLASH")
<1>1. slash \in AnyToken /\ Num(m) \in AnyToken /\ Num(d) \in AnyToken
  BY Tokens DEF Keyword
<1>2. MonthDay(m, <<>>, d) \in ShortDates /\ MonthDay(m, <<slash>>, d) \in ShortDates
  <2>1. <<>> \in Slash /\ <<slash>> \in Slash
    BY DEF Slash
  <2> HIDE DEF slash
  <2> QED
    BY <2>1 DEF ShortDates
<1>3. <<Num(m)>> \o <<>> \o <<Num(d)>> = <<Num(m), Num(d)>>
  <2>1. <<Num(m)>> \in Text
    BY <1>1, TextAppend, TextDef
  <2>2. <<Num(m)>> \o <<>> = <<Num(m)>> /\ <<Num(m)>> \o <<Num(d)>> = Append(<<Num(m)>>, Num(d))
    BY <1>1, <2>1, TextConcat, TextAppend
  <2> QED
    BY <1>1, <2>2, Pair
<1>4. <<Num(m)>> \o <<slash>> \o <<Num(d)>> = <<Num(m), slash, Num(d)>>
  <2>1. <<Num(m)>> \in Text
    BY <1>1, TextAppend, TextDef
  <2>2. <<Num(m)>> \o <<slash>> = <<Num(m), slash>>
    BY <1>1, <2>1, TextAppend, Pair
  <2>3. <<Num(m), slash>> \in Text
    BY <1>1, TextDef
  <2>4. <<Num(m), slash>> \o <<Num(d)>> = Append(<<Num(m), slash>>, Num(d))
    BY <1>1, <2>3, TextAppend
  <2> QED
    BY <1>1, <2>2, <2>4, Triple
<1> QED
  BY <1>2, <1>3, <1>4 DEF MonthDay

LEMMA LongDateMade ==
  ASSUME NEW s, NEW date, Phrase(s, date) \in ShortDates, NEW y \in Numbers,
         Len(s) + Len(<<Tok("SLASH"), Num(y)>>) <= MaxTokens
  PROVE  Phrase(s \o <<Tok("SLASH"), Num(y)>>,
                [date EXCEPT !.year = IF y < 100 THEN y + Century ELSE y]) \in Dates
<1> DEFINE t == <<Tok("SLASH"), Num(y)>>
           k == IF y < 100 THEN y + Century ELSE y
           q == <<Phrase(s, date), Phrase(t, k)>>
           New(d, z) == [d EXCEPT !.year = z]
<1>1. Phrase(t, k) \in Years
  BY DEF Years
<1>2. q \in ShortDates \X Years /\ q[1] = Phrase(s, date) /\ q[2] = Phrase(t, k)
  BY <1>1
<1>3. q[1].text = s /\ q[1].means = date /\ q[2].text = t /\ q[2].means = k
  BY <1>2, PhraseFields
<1>4. Len(s) + Len(t) <= MaxTokens
  OBVIOUS
<1> DEFINE J == {Phrase(p[1].text \o p[2].text, New(p[1].means, p[2].means)) :
                   p \in {r \in ShortDates \X Years : Len(r[1].text) + Len(r[2].text) <= MaxTokens}}
<1>5. Dates = ShortDates \cup J
  BY DEF Dates, Join
<1> HIDE DEF q, t, k, New
<1>6. Phrase(s \o t, New(date, k)) \in J
  <2>1. /\ Len(q[1].text) + Len(q[2].text) <= MaxTokens
        /\ Phrase(q[1].text \o q[2].text, New(q[1].means, q[2].means)) = Phrase(s \o t, New(date, k))
    BY <1>3, <1>4
  <2> QED
    BY <1>2, <2>1
<1> HIDE DEF J
<1>7. Phrase(s \o t, New(date, k)) \in Dates
  BY <1>5, <1>6
<1> QED
  BY <1>7 DEF New, t, k

\* The numbers of a date are parsed one after the other.
LEMMA DateNumber ==
  ASSUME PositionInv, Parsed, ParseInt, pc \in DatePlace, pc' # "error",
         NEW c \in Text, DateBegun(c), NEW d, d = Grown(c), Len(d) <= MaxTokens
  PROVE  DateBegun(d)' /\ pc' \in DatePlace
<1> DEFINE n == tokens[nextTok][2]
<1>1. /\ Seen /\ pc \in {"month", "day", "year"} /\ NextIs("INT") /\ n # TooBig
      /\ nextTok' = nextTok + 1 /\ pc' = AfterNumber[pc]
      /\ num' = [num EXCEPT ![pc] = Number(n)]
  BY DEF ParseInt, Take, Go, AfterNumber, DatePlace
<1>2. nextTok \in Nat /\ nextTok <= Len(tokens) /\ tokens[nextTok] \in AnyToken
  BY <1>1, SeenText
<1>3. n \in Numbers /\ tokens[nextTok] = Num(n)
  BY <1>1, <1>2, TokenIs
<1>5. d = Append(c, Num(n))
  BY <1>1, <1>2, <1>3 DEF Grown
<1>6. num \in [Field -> Nat] /\ num' = [num EXCEPT ![pc] = Number(n)]
  BY <1>1 DEF Parsed
<1>7. Tok("SLASH") \in AnyToken /\ \A k \in Numbers : Num(k) \in AnyToken
  BY Tokens DEF Keyword
<1> HIDE DEF n
<1>8. CASE pc = "month"
  <2>1. c = <<>> /\ num = Zero
    BY <1>8 DEF DateBegun
  <2>2. num'.month = n /\ num'.year = 0 /\ pc' = "slash1"
    BY <1>1, <1>6, <1>8, <2>1 DEF Zero, Field, AfterNumber, Number
  <2>3. d = <<Num(n)>>
    BY <1>5, <2>1
  <2> QED
    BY <1>3, <2>2, <2>3 DEF DateBegun, DatePlace
<1>9. CASE pc = "day"
  <2>1. c \in {<<Num(num.month)>>, <<Num(num.month), Tok("SLASH")>>} /\ num.month \in Numbers /\ num.year = 0
    BY <1>9 DEF DateBegun
  <2>2. num'.month = num.month /\ num'.day = n /\ num'.year = 0 /\ pc' = "slash2"
    BY <1>1, <1>6, <1>9, <2>1 DEF Field, AfterNumber, Number
  <2>3. d \in {<<Num(num.month), Num(n)>>, <<Num(num.month), Tok("SLASH"), Num(n)>>}
    <3>1. Num(n) \in AnyToken /\ Num(num.month) \in AnyToken /\ Tok("SLASH") \in AnyToken
      BY <1>3, <1>7, <2>1
    <3>2. /\ Append(<<Num(num.month)>>, Num(n)) = <<Num(num.month), Num(n)>>
          /\ Append(<<Num(num.month), Tok("SLASH")>>, Num(n)) = <<Num(num.month), Tok("SLASH"), Num(n)>>
      BY <3>1, Pair, Triple
    <3> QED
      BY <1>5, <2>1, <3>2
  <2>4. Phrase(d, [year |-> 0, month |-> num.month, day |-> n]) \in ShortDates
    BY <1>3, <2>1, <2>3, ShortDateMade
  <2> QED
    BY <2>2, <2>4 DEF DateBegun, DatePlace, ShortDate
<1>10. CASE pc = "year"
  <2>1. PICK s \in Text : c = Append(s, Tok("SLASH")) /\ Phrase(s, ShortDate) \in ShortDates
    BY <1>10 DEF DateBegun
  <2> DEFINE y == IF n < 100 THEN n + Century ELSE n
             t == <<Tok("SLASH"), Num(n)>>
  <2>2. num'.month = num.month /\ num'.day = num.day /\ num'.year = y /\ pc' = "endDate"
    BY <1>1, <1>6, <1>10, <2>1 DEF Field, AfterNumber, Number
  <2>3. d = s \o t /\ t \in Text /\ Len(t) = 2 /\ Len(s) \in Nat
    <3> DEFINE slash == Tok("SLASH")
               last  == Num(n)
    <3>1. slash \in AnyToken /\ last \in AnyToken
      BY <1>3, <1>7
    <3>2. t = Append(<<slash>>, last) /\ <<slash>> \in Text
      BY <3>1, Pair, TextAppend, TextDef
    <3>3. s \o <<slash>> = Append(s, slash)
      BY <3>1, TextAppend
    <3>4. d = Append(s \o <<slash>>, last)
      BY <1>5, <2>1, <3>3
    <3> DEFINE u == <<slash>>
    <3>5. u \in Text /\ d = Append(s \o u, last) /\ t = Append(u, last)
      BY <3>2, <3>4
    <3> HIDE DEF u, t, slash, last
    <3>6. d = s \o t
      BY <3>1, <3>5, TextAppendOut
    <3>7. Len(t) = 2 /\ t \in Text
      <4>1. t \in Text /\ Len(t) = Len(u) + 1
        BY <3>1, <3>5, TextAppend
      <4>2. Len(u) = 1
        BY DEF u
      <4> QED
        BY <4>1, <4>2
    <3> QED
      BY <3>6, <3>7, TextConcat
  <2>4. Len(s) + Len(t) <= MaxTokens
    BY <2>3, TextConcat
  <2>5. Phrase(d, [ShortDate EXCEPT !.year = y]) \in Dates
    BY <1>3, <2>1, <2>3, <2>4, LongDateMade
  <2>6. [ShortDate EXCEPT !.year = y] = LongDate'
    BY <2>2 DEF ShortDate, LongDate
  <2> QED
    BY <2>2, <2>5, <2>6 DEF DateBegun, DatePlace
<1> QED
  BY <1>1, <1>8, <1>9, <1>10

LEMMA DateSeparator ==
  ASSUME PositionInv, Parsed, ParseSeparator, pc \in DatePlace,
         NEW c \in Text, DateBegun(c), NEW d, d = Grown(c)
  PROVE  DateBegun(d)' /\ pc' \in DatePlace
<1>1. Seen /\ UNCHANGED num
  BY DEF ParseSeparator, locals
<1>2. nextTok \in Nat /\ nextTok <= Len(tokens) /\ tokens[nextTok] \in AnyToken
  BY <1>1, SeenText
<1>3. NextIs("SLASH") => tokens[nextTok] = Tok("SLASH")
  BY <1>2, TokenIs DEF Keyword
<1>4. Tok("SLASH") \in AnyToken /\ \A k \in Numbers : Num(k) \in AnyToken
  BY Tokens DEF Keyword
<1>5. num \in [Field -> Nat]
  BY DEF Parsed
<1>6. CASE pc = "slash1"
  <2>1. c = <<Num(num.month)>> /\ num.month \in Numbers /\ num.year = 0
    BY <1>6 DEF DateBegun
  <2>2. pc' = "day" /\ (nextTok' = nextTok \/ (nextTok' = nextTok + 1 /\ NextIs("SLASH")))
    BY <1>6 DEF ParseSeparator, Accept, Take, Go
  <2>3. d = c \/ d = Append(c, Tok("SLASH"))
    BY <1>3, <2>2 DEF Grown
  <2>4. d \in {<<Num(num.month)>>, <<Num(num.month), Tok("SLASH")>>}
    BY <1>4, <2>1, <2>3, Pair
  <2> QED
    BY <1>1, <2>1, <2>2, <2>4 DEF DateBegun, DatePlace
<1>7. CASE pc = "slash2"
  <2>1. Phrase(c, ShortDate) \in ShortDates /\ num.year = 0
    BY <1>7 DEF DateBegun
  <2>2. ShortDate' = ShortDate /\ LongDate' = LongDate
    BY <1>1 DEF ShortDate, LongDate
  <2>3. CASE NextIs("SLASH")
    <3>1. pc' = "year" /\ nextTok' = nextTok + 1
      BY <1>7, <2>3 DEF ParseSeparator, Accept, Take
    <3>2. d = Append(c, Tok("SLASH"))
      BY <1>2, <1>3, <2>3, <3>1 DEF Grown
    <3> QED
      BY <2>1, <2>2, <3>1, <3>2 DEF DateBegun, DatePlace
  <2>4. CASE ~NextIs("SLASH")
    <3>1. pc' = "endDate" /\ nextTok' = nextTok
      BY <1>7, <2>4 DEF ParseSeparator, Accept, Go
    <3>2. d = c /\ ShortDate = LongDate
      BY <2>1, <3>1 DEF Grown, ShortDate, LongDate
    <3>3. Phrase(d, LongDate') \in Dates
      BY <2>1, <2>2, <3>2 DEF Dates, Join
    <3> QED
      BY <3>1, <3>3 DEF DateBegun, DatePlace
  <2> QED
    BY <2>3, <2>4
<1> QED
  BY <1>6, <1>7 DEF ParseSeparator, DatePlace

LEMMA TokenNumberText == 
  /\ \A n \in Numbers : <<Num(n)>> \in Text
  /\ \A d \in Days : <<Day(d)>> \in Text
  /\ \A ty \in Keyword : <<Tok(ty)>> \in Text
  BY Tokens, TextAppend, TextDef

\* The text of a time with its mark, or without one.
LEMMA MarkedMade ==
  ASSUME NEW c \in Text, NEW h \in Nat, NEW m, NEW s, Phrase(c, <<h, m, s>>) \in Clock
  PROVE  /\ Phrase(c, <<<<InDay(h), m, s>>>>) \in Times
         /\ Phrase(Append(c, Tok("AM")), <<<<InDay(AM(h)), m, s>>>>) \in Times
         /\ Phrase(Append(c, Tok("PM")), <<<<InDay(PM(h)), m, s>>>>) \in Times
<1> DEFINE p == Phrase(c, <<h, m, s>>)
<1>1. p.text = c /\ p.means = <<h, m, s>> /\ p \in Clock
  BY PhraseFields
<1>2. p.means[1] = h /\ p.means[2] = m /\ p.means[3] = s
  BY <1>1
<1> HIDE DEF p
<1>3. Marked(p, "") \in Times /\ Marked(p, "AM") \in Times /\ Marked(p, "PM") \in Times
  <2>1. "" \in Mark /\ "AM" \in Mark /\ "PM" \in Mark
    BY DEF Mark
  <2>2. \A mark \in Mark : Marked(p, mark) \in Times
    BY <1>1 DEF Times
  <2> QED
    BY <2>1, <2>2
<1>4. c \o <<>> = c
  BY TextConcat
<1>5. c \o <<Tok("AM")>> = Append(c, Tok("AM")) /\ c \o <<Tok("PM")>> = Append(c, Tok("PM"))
  BY Tokens, TextAppend DEF Keyword
<1>6. Marked(p, "") = Phrase(c, <<<<InDay(h), m, s>>>>)
  BY <1>1, <1>2, <1>4, HoursAsMeant DEF Marked
<1>7. Marked(p, "AM") = Phrase(Append(c, Tok("AM")), <<<<InDay(AM(h)), m, s>>>>)
  BY <1>1, <1>2, <1>5, HoursAsMeant DEF Marked
<1>8. Marked(p, "PM") = Phrase(Append(c, Tok("PM")), <<<<InDay(PM(h)), m, s>>>>)
  BY <1>1, <1>2, <1>5, HoursAsMeant DEF Marked
<1> QED
  BY <1>3, <1>6, <1>7, <1>8

\* The times of a schedule and their list after AT.
LEMMA AtTimesList ==
  ASSUME NEW x, NEW m
  PROVE  Phrase(x, <<m>>) \in AtTimes <=> Phrase(x, m) \in After("AT", List(Times))
<1>1. ASSUME Phrase(x, m) \in After("AT", List(Times))
      PROVE  Phrase(x, <<m>>) \in AtTimes
  <2> DEFINE t == Phrase(x, m)
  <2>1. t \in After("AT", List(Times)) /\ t.text = x /\ t.means = m
    BY <1>1, PhraseFields
  <2> HIDE DEF t
  <2> QED
    BY <2>1 DEF AtTimes
<1>2. ASSUME Phrase(x, <<m>>) \in AtTimes
      PROVE  Phrase(x, m) \in After("AT", List(Times))
  <2>1. PICK t \in After("AT", List(Times)) : Phrase(x, <<m>>) = Phrase(t.text, <<t.means>>)
    BY <1>2 DEF AtTimes
  <2>2. x = t.text /\ m = t.means
    <3> DEFINE u == t.text
               k == t.means
               mm == <<m>>
               kk == <<k>>
    <3>1. Phrase(x, mm) = Phrase(u, kk)
      BY <2>1
    <3> HIDE DEF u, mm, kk
    <3>2. x = u /\ mm = kk
      BY <3>1, PhraseEqual
    <3> QED
      BY <3>2 DEF u, mm, kk
  <2>3. PICK a \in List(Times) : t = Phrase(<<Tok("AT")>> \o a.text, a.means)
    BY DEF After
  <2>4. t = Phrase(t.text, t.means)
    BY <2>3, PhraseFields
  <2> QED
    BY <2>2, <2>4
<1> QED
  BY <1>1, <1>2

\* A part that may be absent, at the end of what there is.
LEMMA AbsentMade ==
  ASSUME NEW A, NEW B, NEW default, NEW x \in Text, NEW m, Phrase(x, m) \in A,
         Len(x) <= MaxTokens
  PROVE  Phrase(x, Append(m, default)) \in Join(A, Optional(B, default), Append)
<1>1. Phrase(<<>>, default) \in Optional(B, default)
  BY DEF Optional
<1>2. Len(x) \in Nat /\ Len(<<>>) = 0 /\ x \o <<>> = x
  BY TextConcat
<1>3. Len(x) + Len(<<>>) <= MaxTokens
  BY <1>2
<1>4. Phrase(x \o <<>>, Append(m, default)) \in Join(A, Optional(B, default), Append)
  BY <1>1, <1>3, JoinMade
<1> QED
  BY <1>2, <1>4

\* A part that may be absent and is not.
LEMMA PresentMade ==
  ASSUME NEW A, NEW B, NEW default, NEW x \in Text, NEW m, Phrase(x, m) \in A,
         NEW y \in Text, NEW k, Phrase(y, k) \in B, Len(x \o y) <= MaxTokens
  PROVE  Phrase(x \o y, Append(m, k)) \in Join(A, Optional(B, default), Append)
<1>1. Phrase(y, k) \in Optional(B, default)
  BY DEF Optional
<1>2. Len(x) + Len(y) <= MaxTokens
  BY TextConcat
<1> QED
  BY <1>1, <1>2, JoinMade

LEMMA DaysMade ==
  ASSUME NEW h \in Text, NEW ts, Phrase(h, <<ts>>) \in AtTimes
  PROVE  /\ Len(h) <= MaxTokens => Phrase(h, <<ts, EveryDay>>) \in UpToDays
         /\ \A y \in Text : \A k : Phrase(y, k) \in After("ON", List(Weekdays)) /\ Len(h \o y) <= MaxTokens =>
              Phrase(h \o y, <<ts, k>>) \in UpToDays
<1>1. \A k : Append(<<ts>>, k) = <<ts, k>>
  <2> TAKE k
  <2>1. ts \in {ts, k} /\ k \in {ts, k}
    OBVIOUS
  <2> QED
    BY <2>1, Pair
<1>2. ASSUME Len(h) <= MaxTokens
      PROVE  Phrase(h, <<ts, EveryDay>>) \in UpToDays
  <2>1. Phrase(h, Append(<<ts>>, EveryDay)) \in UpToDays
    BY <1>2, AbsentMade DEF UpToDays, OnDays
  <2> QED
    BY <1>1, <2>1
<1>3. ASSUME NEW y \in Text, NEW k, Phrase(y, k) \in After("ON", List(Weekdays)), Len(h \o y) <= MaxTokens
      PROVE  Phrase(h \o y, <<ts, k>>) \in UpToDays
  <2>1. Phrase(h \o y, Append(<<ts>>, k)) \in UpToDays
    BY <1>3, PresentMade DEF UpToDays, OnDays
  <2> QED
    BY <1>1, <2>1
<1> QED
  BY <1>2, <1>3

LEMMA FromMade ==
  ASSUME NEW h \in Text, NEW ts, NEW ds, Phrase(h, <<ts, ds>>) \in UpToDays
  PROVE  /\ Len(h) <= MaxTokens => Phrase(h, <<ts, ds, NoDate>>) \in UpToFrom
         /\ \A y \in Text : \A k : Phrase(y, k) \in After("FROM", Dates) /\ Len(h \o y) <= MaxTokens =>
              Phrase(h \o y, <<ts, ds, k>>) \in UpToFrom
<1>1. \A k : Append(<<ts, ds>>, k) = <<ts, ds, k>>
  <2> TAKE k
  <2>1. ts \in {ts, ds, k} /\ ds \in {ts, ds, k} /\ k \in {ts, ds, k}
    OBVIOUS
  <2> QED
    BY <2>1, Triple
<1>2. ASSUME Len(h) <= MaxTokens
      PROVE  Phrase(h, <<ts, ds, NoDate>>) \in UpToFrom
  <2>1. Phrase(h, Append(<<ts, ds>>, NoDate)) \in UpToFrom
    BY <1>2, AbsentMade DEF UpToFrom, FromDate
  <2> QED
    BY <1>1, <2>1
<1>3. ASSUME NEW y \in Text, NEW k, Phrase(y, k) \in After("FROM", Dates), Len(h \o y) <= MaxTokens
      PROVE  Phrase(h \o y, <<ts, ds, k>>) \in UpToFrom
  <2>1. Phrase(h \o y, Append(<<ts, ds>>, k)) \in UpToFrom
    BY <1>3, PresentMade DEF UpToFrom, FromDate
  <2> QED
    BY <1>1, <2>1
<1> QED
  BY <1>2, <1>3

LEMMA ToMade ==
  ASSUME NEW h \in Text, NEW ts, NEW ds, NEW f, Phrase(h, <<ts, ds, f>>) \in UpToFrom
  PROVE  /\ Len(h) <= MaxTokens => Phrase(h, <<ts, ds, f, NoDate>>) \in UpToTo
         /\ \A y \in Text : \A k : Phrase(y, k) \in After("TO", Dates) /\ Len(h \o y) <= MaxTokens =>
              Phrase(h \o y, <<ts, ds, f, k>>) \in UpToTo
<1>1. \A k : Append(<<ts, ds, f>>, k) = <<ts, ds, f, k>>
  <2> TAKE k
  <2>1. ts \in {ts, ds, f, k} /\ ds \in {ts, ds, f, k} /\ f \in {ts, ds, f, k} /\ k \in {ts, ds, f, k}
    OBVIOUS
  <2> QED
    BY <2>1, Quadruple
<1>2. ASSUME Len(h) <= MaxTokens
      PROVE  Phrase(h, <<ts, ds, f, NoDate>>) \in UpToTo
  <2>1. Phrase(h, Append(<<ts, ds, f>>, NoDate)) \in UpToTo
    BY <1>2, AbsentMade DEF UpToTo, ToDate
  <2> QED
    BY <1>1, <2>1
<1>3. ASSUME NEW y \in Text, NEW k, Phrase(y, k) \in After("TO", Dates), Len(h \o y) <= MaxTokens
      PROVE  Phrase(h \o y, <<ts, ds, f, k>>) \in UpToTo
  <2>1. Phrase(h \o y, Append(<<ts, ds, f>>, k)) \in UpToTo
    BY <1>3, PresentMade DEF UpToTo, ToDate
  <2> QED
    BY <1>1, <2>1
<1> QED
  BY <1>2, <1>3

LEMMA SentenceMade ==
  ASSUME NEW x, NEW m, Phrase(x, m) \in UpToTo
  PROVE  Phrase(x \o <<Tok("EOF")>>, m) \in Sentences
<1> DEFINE s == Phrase(x, m)
<1>1. s \in UpToTo /\ s.text = x /\ s.means = m
  BY PhraseFields
<1> HIDE DEF s
<1> QED
  BY <1>1 DEF Sentences

LEMMA DayMade ==
  ASSUME NEW d \in Days, NEW e \in Days
  PROVE  /\ Phrase(<<Day(d)>>, <<d>>) \in Weekdays
         /\ Phrase(<<Day(d), Tok("THROUGH"), Day(e)>>, Through(d, e)) \in Weekdays
<1> DEFINE One(a)    == Phrase(<<Day(a)>>, <<a>>)
           Span(a, b) == Phrase(<<Day(a), Tok("THROUGH"), Day(b)>>, Through(a, b))
           C1 == {One(a) : a \in Days}
           C2 == {Span(a, b) : a, b \in Days}
<1>1. Weekdays = C1 \cup C2
  BY DEF Weekdays
<1> HIDE DEF One, Span
<1>2. One(d) \in C1 /\ Span(d, e) \in C2
  OBVIOUS
<1> HIDE DEF C1, C2
<1>3. One(d) \in Weekdays /\ Span(d, e) \in Weekdays
  BY <1>1, <1>2
<1> QED
  BY <1>3 DEF One, Span

-----------------------------------------------------------------------------
(* What is accepted is a sentence, and means what the parser makes of it.  *)

\* What is not parsed yet is as Parse left it.
StillFresh ==
  /\ range = [from |-> range.from, to |-> range.to]
  /\ pc \notin TimePlace \cup DatePlace \cup {"idle", "ok", "error"} => num = Zero
  /\ pc \notin {"eof", "ok", "error"} => range.to = NoDate
  /\ pc \notin {"to", "eof", "ok", "error"} /\ ~(pc \in DatePlace /\ end = "to") => range.from = NoDate

LEMMA FreshInit == Init => StillFresh
  BY DEF Init, StillFresh, NoRange, Zero

LEMMA EndSet ==
  ASSUME NEW a, NEW b, NEW l, NEW e \in {"from", "to"}
  PROVE  [[from |-> a, to |-> b] EXCEPT ![e] = l]
           = IF e = "from" THEN [from |-> l, to |-> b] ELSE [from |-> a, to |-> l]
<1>1. CASE e = "from"
  BY <1>1
<1>2. CASE e = "to"
  BY <1>2
<1> QED
  BY <1>1, <1>2

LEMMA FreshStep == PositionInv /\ Parsed /\ StillFresh /\ [Next]_vars => StillFresh'
<1> SUFFICES ASSUME PositionInv, Parsed, StillFresh, [Next]_vars
             PROVE  StillFresh'
  OBVIOUS
<1>1. CASE Parse
  BY <1>1 DEF Parse, StillFresh, NoRange, Zero, TimePlace, DatePlace
<1>2. CASE TokenizeFails
  BY <1>2 DEF TokenizeFails, locals, result, StillFresh
<1>3. ASSUME NEW t \in Token, Tokenize(t)
      PROVE  StillFresh'
  BY <1>3 DEF Tokenize, locals, result, StillFresh
<1>4. CASE ParseAt
  BY <1>4 DEF ParseAt, Accept, Take, Go, locals, result, StillFresh, TimePlace, DatePlace
<1>5. CASE ParseInt
  <2>1. /\ UNCHANGED <<end, range>> /\ pc \in DOMAIN AfterNumber /\ pc' \in {AfterNumber[pc], "error"}
    BY <1>5 DEF ParseInt, Take, Go, result
  <2> QED
    BY <2>1 DEF AfterNumber, StillFresh, TimePlace, DatePlace
<1>6. CASE ParseSeparator
  BY <1>6 DEF ParseSeparator, Accept, Take, Go, locals, result, StillFresh, TimePlace, DatePlace
<1>7. CASE ParseMark
  <2>1. pc = "mark" /\ pc' = "moreTimes" /\ num' = Zero /\ UNCHANGED <<end, range>>
    BY <1>7 DEF ParseMark, Take, Go
  <2> QED
    BY <2>1 DEF StillFresh, TimePlace, DatePlace
<1>8. CASE ParseMore
  BY <1>8 DEF ParseMore, Take, Go, locals, result, StillFresh, TimePlace, DatePlace
<1>9. CASE ParseOn
  BY <1>9 DEF ParseOn, Accept, Take, Go, locals, StillFresh, TimePlace, DatePlace
<1>10. CASE ParseWeekday
  <2>1. /\ UNCHANGED <<num, end, range>> /\ pc \in {"weekday", "throughDay"}
        /\ pc' \in {"through", "moreDays", "error"}
    BY <1>10 DEF ParseWeekday, Take, Go
  <2> QED
    BY <2>1 DEF StillFresh, TimePlace, DatePlace
<1>11. CASE ParseThrough
  BY <1>11 DEF ParseThrough, Accept, Take, Go, locals, StillFresh, TimePlace, DatePlace
<1>12. CASE ParseRange
  BY <1>12 DEF ParseRange, Accept, Take, Go, result, StillFresh, TimePlace, DatePlace
<1>13. CASE EndDate
  <2>1. /\ pc = "endDate" /\ num' = Zero /\ pc' = (IF end = "from" THEN "to" ELSE "eof")
        /\ end \in {"from", "to"} /\ end' = end
    BY <1>13 DEF EndDate, Go, Parsed
  <2>2. range' = IF end = "from" THEN [from |-> LongDate, to |-> range.to]
                 ELSE [from |-> range.from, to |-> LongDate]
    <3> DEFINE a == range.from
               b == range.to
               l == LongDate
    <3>1. range = [from |-> a, to |-> b] /\ range' = [range EXCEPT ![end] = l]
      BY <1>13 DEF EndDate, LongDate, StillFresh
    <3> HIDE DEF a, b, l
    <3>2. range' = IF end = "from" THEN [from |-> l, to |-> b] ELSE [from |-> a, to |-> l]
      <4>1. range' = [[from |-> a, to |-> b] EXCEPT ![end] = l]
        BY <3>1
      <4>2. \A e \in {"from", "to"} : [[from |-> a, to |-> b] EXCEPT ![e] = l]
               = IF e = "from" THEN [from |-> l, to |-> b] ELSE [from |-> a, to |-> l]
        BY EndSet
      <4>3. end \in {"from", "to"}
        BY <2>1
      <4> QED
        BY <4>1, <4>2, <4>3, Zenon
    <3> QED
      BY <3>2 DEF a, b, l
  <2>3. end = "from" => range'.to = NoDate
    BY <2>1, <2>2 DEF StillFresh
  <2>4. range' = [from |-> range'.from, to |-> range'.to]
    BY <2>2
  <2> QED
    BY <2>1, <2>3, <2>4 DEF StillFresh
<1>14. CASE ParseEOF
  BY <1>14 DEF ParseEOF, Accept, Take, Go, locals, result, StillFresh, TimePlace, DatePlace
<1>15. CASE UNCHANGED vars
  BY <1>15 DEF vars, locals, result, StillFresh
<1> QED
  BY <1>1, <1>2, <1>3, <1>4, <1>5, <1>6, <1>7, <1>8, <1>9, <1>10, <1>11, <1>12, <1>13,
     <1>14, <1>15 DEF Next

\* Where the parser is: what it has consumed, and what that means, by the grammar.
AtStart == pc = "at" /\ Done = <<>> /\ times = <<>>

InTime ==
  /\ pc \in TimePlace
  /\ \E x, c \in Text : Done = x \o c /\ Phrase(x, times) \in Open("AT", Times) /\ TimeBegun(c)

AfterTime == pc \in {"moreTimes", "on"} /\ Phrase(Done, <<times>>) \in AtTimes

InWeekday ==
  /\ pc \in DayPlace
  /\ \E h, x, c \in Text :
       /\ Done = h \o (x \o c) /\ Phrase(h, <<times>>) \in AtTimes
       /\ Phrase(x, weekdays) \in Open("ON", Weekdays) /\ DayBegun(c)

AfterWeekday ==
  /\ pc = "moreDays"
  /\ \E h, x \in Text :
       /\ Done = h \o x /\ Phrase(h, <<times>>) \in AtTimes
       /\ Phrase(x, weekdays) \in After("ON", List(Weekdays))

AfterDays == pc = "from" /\ Phrase(Done, <<times, weekdays>>) \in UpToDays

\* What comes before the date that is being parsed.
BeforeDate(h) ==
  \/ end = "from" /\ Phrase(h, <<times, weekdays>>) \in UpToDays
  \/ end = "to" /\ Phrase(h, <<times, weekdays, range.from>>) \in UpToFrom

DateToken == IF end = "from" THEN Tok("FROM") ELSE Tok("TO")

InDate ==
  /\ pc \in DatePlace
  /\ \E h, c \in Text : Done = h \o (<<DateToken>> \o c) /\ BeforeDate(h) /\ DateBegun(c)

AfterFrom == pc = "to" /\ Phrase(Done, <<times, weekdays, range.from>>) \in UpToFrom

AfterTo == pc = "eof" /\ Phrase(Done, Meaning) \in UpToTo

Accepted == pc = "ok" /\ Phrase(tokens, Meaning) \in Sentences

SoFar ==
  \/ pc \in {"idle", "error"} \/ AtStart \/ InTime \/ AfterTime \/ InWeekday \/ AfterWeekday
  \/ AfterDays \/ InDate \/ AfterFrom \/ AfterTo \/ Accepted

MeaningInv == TypeInv /\ StillFresh /\ SoFar

LEMMA SoFarInit == Init => SoFar
  BY DEF Init, SoFar

LEMMA StartText ==
  ASSUME Parse
  PROVE  SoFar'
<1>1. pc' = "at" /\ tokens' = <<>> /\ nextTok' = 1 /\ times' = <<>>
  BY DEF Parse, First
<1>2. Done' = <<>>
  BY <1>1 DEF Done
<1> QED
  BY <1>1, <1>2 DEF SoFar, AtStart

\* The input is looked at further.
LEMMA TokenizeText ==
  ASSUME TypeInv, SoFar, NEW t \in Token, Tokenize(t)
  PROVE  SoFar'
<1>1. /\ tokens' = Append(tokens, t) /\ ~Outside
      /\ UNCHANGED <<nextTok, pc, num, weekday, end, times, weekdays, range>>
  BY DEF Tokenize, locals, result
<1>2. tokens \in Text /\ nextTok \in 1 .. Len(tokens) + 1 /\ t \in AnyToken
  BY DEF TypeInv, PositionInv, AnyToken, Text
<1>3. Done' = Done
  <2>1. nextTok - 1 \in 0 .. Len(tokens) /\ Len(tokens) \in Nat
    BY <1>2 DEF Text
  <2>2. SubSeq(Append(tokens, t), 1, nextTok - 1) = SubSeq(tokens, 1, nextTok - 1)
    BY <1>2, <2>1 DEF Text
  <2> QED
    BY <1>1, <2>2 DEF Done
<1>4. \A c : (TimeBegun(c) => TimeBegun(c)') /\ (DayBegun(c) => DayBegun(c)') /\ (DateBegun(c) => DateBegun(c)')
         /\ (BeforeDate(c) => BeforeDate(c)') 
  BY <1>1 DEF TimeBegun, DayBegun, DateBegun, BeforeDate, ShortDate, LongDate
<1>5. DateToken' = DateToken /\ pc' # "ok"
  BY <1>1 DEF DateToken, Outside
<1> QED
  BY <1>1, <1>3, <1>4, <1>5 DEF SoFar, AtStart, InTime, AfterTime, InWeekday, AfterWeekday,
     AfterDays, InDate, AfterFrom, AfterTo, Accepted, Meaning

\* A step of the grammar: what there is to see, and what is consumed.
LEMMA StepText ==
  ASSUME TypeInv, Steady, Seen, TypeInv'
  PROVE  /\ nextTok \in Nat /\ nextTok <= Len(tokens) /\ tokens[nextTok] \in AnyToken
         /\ Done \in Text /\ Len(Done) <= MaxTokens
         /\ Done' = Grown(Done)
         /\ ~Outside' => Len(Grown(Done)) <= MaxTokens
<1>1. PositionInv /\ Bounded /\ PositionInv' /\ Bounded'
  BY DEF TypeInv
<1>2. ~Outside
  BY DEF Seen
<1>3. Done \in Text /\ Len(Done) <= MaxTokens
  BY <1>1, <1>2, FitsNow DEF Fits
<1>4. Done' = Grown(Done)
  BY <1>1, Grows
<1>5. ~Outside' => Len(Done') <= MaxTokens
  BY <1>1, FitsNext DEF Fits
<1>6. nextTok \in Nat /\ nextTok <= Len(tokens) /\ tokens[nextTok] \in AnyToken
  BY <1>1, SeenText
<1> QED
  BY <1>3, <1>4, <1>5, <1>6

LEMMA StayText ==
  ASSUME TypeInv, UNCHANGED <<tokens, nextTok>>, ~Outside
  PROVE  Done' = Done /\ Done \in Text /\ Len(Done) <= MaxTokens
  BY FitsNow DEF TypeInv, Fits, Done

LEMMA TakesToken ==
  ASSUME NEW s, nextTok \in Nat, nextTok' = nextTok + 1
  PROVE  Grown(s) = Append(s, tokens[nextTok])
<1>1. nextTok' # nextTok
  OBVIOUS
<1> QED
  BY <1>1 DEF Grown

LEMMA GrownTexts ==
  ASSUME NEW s \in Text, NEW t \in Text, NEW u \in Text, tokens[nextTok] \in AnyToken
  PROVE  Grown(s \o (t \o u)) = s \o (t \o Grown(u))
<1>1. PICK v \in Text : v = t \o u
  BY TextConcat
<1>2. Grown(s \o v) = s \o Grown(v) /\ Grown(t \o u) = t \o Grown(u)
  BY GrownText
<1> QED
  BY <1>1, <1>2

LEMMA Single ==
  ASSUME NEW t \in AnyToken
  PROVE  Append(<<>>, t) = <<t>>
<1>1. <<>> \in Text /\ <<t>> \in Text
  BY TextAppend, TextDef
<1> QED
  BY <1>1, TextAppend, TextConcat

LEMMA AtText ==
  ASSUME TypeInv, TypeInv', StillFresh, SoFar, ParseAt
  PROVE  SoFar'
<1>1. /\ Steady /\ Seen /\ pc = "at" /\ UNCHANGED <<num, times>>
  BY GrammarSteady DEF TypeInv, ParseAt, locals, result
<1>2. /\ nextTok \in Nat /\ nextTok <= Len(tokens) /\ Done' = Grown(Done) /\ Done = <<>> /\ times = <<>>
  BY <1>1, StepText DEF SoFar, AtStart, InTime, AfterTime, InWeekday, AfterWeekday,
     AfterDays, InDate, AfterFrom, AfterTo, Accepted, TimePlace, DayPlace, DatePlace
<1>3. CASE NextIs("AT")
  <2>1. pc' = "hours" /\ nextTok' = nextTok + 1
    BY <1>3 DEF ParseAt, Accept, Take
  <2>2. tokens[nextTok] = Tok("AT")
    BY <1>2, <1>3, TokenIs DEF TypeInv, Keyword
  <2>3. Done' = <<Tok("AT")>>
    <3>1. Done' = Append(Done, tokens[nextTok])
      BY <1>2, <2>1, TakesToken
    <3>2. Tok("AT") \in AnyToken
      BY Tokens DEF Keyword
    <3> QED
      BY <1>2, <2>2, <3>1, <3>2, Single
  <2>4. <<Tok("AT")>> \in Text /\ <<>> \in Text
    BY TokenNumberText, TextDef DEF Keyword
  <2>5. Done' = <<Tok("AT")>> \o <<>>
    BY <2>3, <2>4, TextConcat
  <2>6. Phrase(<<Tok("AT")>>, times') \in Open("AT", Times)
    BY <1>1, <1>2 DEF Open
  <2>7. TimeBegun(<<>>)'
    BY <1>1, <2>1 DEF TimeBegun, StillFresh, TimePlace, DatePlace
  <2>8. InTime'
    BY <2>1, <2>4, <2>5, <2>6, <2>7 DEF InTime, TimePlace
  <2> QED
    BY <2>8 DEF SoFar
<1>4. CASE ~NextIs("AT")
  BY <1>4 DEF ParseAt, Accept, Go, SoFar
<1> QED
  BY <1>3, <1>4

\* The parser goes on with a time or with a date.
LEMMA TimeText ==
  ASSUME TypeInv, TypeInv', SoFar, ParseInt \/ ParseSeparator, pc \in TimePlace, pc' # "error"
  PROVE  SoFar'
<1>1. Steady /\ Seen /\ UNCHANGED times
  BY GrammarSteady DEF TypeInv, ParseInt, ParseSeparator, locals, result
<1>2. /\ tokens[nextTok] \in AnyToken /\ Done' = Grown(Done)
  BY <1>1, StepText
<1>3. PICK x \in Text, c \in Text : Done = x \o c /\ Phrase(x, times) \in Open("AT", Times) /\ TimeBegun(c)
  BY DEF SoFar, AtStart, InTime, AfterTime, InWeekday, AfterWeekday,
     AfterDays, InDate, AfterFrom, AfterTo, Accepted, TimePlace, DayPlace, DatePlace
<1>4. PICK d : d = Grown(c)
  OBVIOUS
<1>5. d \in Text /\ Done' = x \o d
  BY <1>2, <1>3, <1>4, GrownText, GrownType
<1>6. TimeBegun(d)' /\ pc' \in TimePlace
  BY <1>3, <1>4, TimeNumber, TimeSeparator DEF TypeInv
<1>7. InTime'
  BY <1>1, <1>3, <1>5, <1>6 DEF InTime
<1> QED
  BY <1>7 DEF SoFar

\* The first part of a text is no longer than the text.
LEMMA PartFits ==
  ASSUME NEW h \in Text, NEW t \in AnyToken, NEW c \in Text, Len(h \o (<<t>> \o c)) <= MaxTokens
  PROVE  Len(c) <= MaxTokens
<1> DEFINE u == <<t>> \o c
<1>1. u \in Text /\ Len(u) = Len(c) + 1 /\ Len(c) \in Nat
  BY TextAppend, TextConcat
<1> HIDE DEF u
<1>2. Len(h \o u) = Len(h) + Len(u) /\ Len(h) \in Nat
  BY <1>1, TextConcat
<1>3. Len(h \o u) <= MaxTokens /\ MaxTokens \in Nat
  BY GrammarAssumption DEF u
<1> QED
  BY <1>1, <1>2, <1>3

LEMMA DateTokenType == DateToken \in AnyToken /\ <<DateToken>> \in Text
  BY Tokens, TokenNumberText DEF DateToken, Keyword

LEMMA DateText ==
  ASSUME TypeInv, TypeInv', SoFar, ParseInt \/ ParseSeparator, pc \in DatePlace, pc' # "error"
  PROVE  SoFar'
<1>1. Steady /\ Seen /\ UNCHANGED <<end, times, weekdays, range>>
  BY GrammarSteady DEF TypeInv, ParseInt, ParseSeparator, locals, result
<1>2. /\ tokens[nextTok] \in AnyToken /\ Done' = Grown(Done)
      /\ ~Outside' => Len(Grown(Done)) <= MaxTokens
  BY <1>1, StepText
<1>3. PICK h \in Text, c \in Text : Done = h \o (<<DateToken>> \o c) /\ BeforeDate(h) /\ DateBegun(c)
  BY DEF SoFar, AtStart, InTime, AfterTime, InWeekday, AfterWeekday,
     AfterDays, InDate, AfterFrom, AfterTo, Accepted, TimePlace, DayPlace, DatePlace
<1>4. PICK d : d = Grown(c)
  OBVIOUS
<1>5. d \in Text /\ Done' = h \o (<<DateToken>> \o d)
  <2>1. tokens[nextTok] \in AnyToken /\ Done' = Grown(Done)
    BY <1>2
  <2>2. PICK u \in Text : u = <<DateToken>>
    BY DateTokenType
  <2>3. Grown(h \o (u \o c)) = h \o (u \o Grown(c))
    BY <2>1, GrownTexts
  <2>4. Grown(c) \in Text
    BY <2>1, GrownType
  <2> QED
    BY <1>3, <1>4, <2>1, <2>2, <2>3, <2>4
<1>6. ~Outside' 
  BY DEF ParseInt, ParseSeparator, Accept, Take, Go, AfterNumber, DatePlace, Outside
<1>7. Len(d) <= MaxTokens
  <2>1. PICK t \in AnyToken : t = DateToken
    BY DateTokenType
  <2>2. Len(h \o (<<t>> \o d)) <= MaxTokens
    BY <1>2, <1>5, <1>6, <2>1
  <2> QED
    BY <1>5, <2>2, PartFits
<1>8. DateBegun(d)' /\ pc' \in DatePlace
  BY <1>3, <1>4, <1>7, DateNumber, DateSeparator DEF TypeInv
<1>9. BeforeDate(h)' /\ DateToken' = DateToken
  BY <1>1, <1>3 DEF BeforeDate, DateToken
<1>10. InDate'
  BY <1>3, <1>5, <1>8, <1>9 DEF InDate
<1> QED
  BY <1>10 DEF SoFar

\* The place in the functions says which part of the schedule it is.
LEMMA Where ==
  ASSUME SoFar
  PROVE  /\ pc = "at" => AtStart
         /\ pc \in TimePlace => InTime
         /\ pc \in {"moreTimes", "on"} => AfterTime
         /\ pc \in DayPlace => InWeekday
         /\ pc = "moreDays" => AfterWeekday
         /\ pc = "from" => AfterDays
         /\ pc \in DatePlace => InDate
         /\ pc = "to" => AfterFrom
         /\ pc = "eof" => AfterTo
         /\ pc = "ok" => Accepted
  BY DEF SoFar, AtStart, InTime, AfterTime, InWeekday, AfterWeekday, AfterDays, InDate, AfterFrom,
     AfterTo, Accepted, TimePlace, DayPlace, DatePlace

LEMMA MarkText ==
  ASSUME TypeInv, TypeInv', SoFar, ParseMark
  PROVE  SoFar'
<1> DEFINE h == num.hours
           m == num.minutes
           s == num.seconds
           hours == IF NextIs("AM") THEN AM(h) ELSE IF NextIs("PM") THEN PM(h) ELSE h
           t == <<InDay(hours), m, s>>
<1>1. Steady /\ Seen /\ pc = "mark" /\ times' = Append(times, t) /\ pc' = "moreTimes"
  BY GrammarSteady DEF TypeInv, ParseMark, Take, Go
<1>2. /\ tokens[nextTok] \in AnyToken /\ Done' = Grown(Done) /\ nextTok \in Nat
      /\ nextTok <= Len(tokens)
      /\ ~Outside' => Len(Grown(Done)) <= MaxTokens
  BY <1>1, StepText
<1>3. PICK x \in Text, c \in Text : Done = x \o c /\ Phrase(x, times) \in Open("AT", Times) /\ TimeBegun(c)
  BY <1>1, Where DEF InTime, TimePlace
<1>4. Phrase(c, <<h, m, s>>) \in Clock /\ h \in Nat
  BY <1>1, <1>3 DEF TimeBegun, TypeInv, Parsed, Field
<1>5. Phrase(Grown(c), <<t>>) \in Times
  <2>0. /\ Phrase(c, <<<<InDay(h), m, s>>>>) \in Times
        /\ Phrase(Append(c, Tok("AM")), <<<<InDay(AM(h)), m, s>>>>) \in Times
        /\ Phrase(Append(c, Tok("PM")), <<<<InDay(PM(h)), m, s>>>>) \in Times
    BY <1>4, MarkedMade
  <2>1. CASE NextIs("AM")
    <3>1. nextTok' = nextTok + 1 /\ tokens[nextTok] = Tok("AM")
      BY <1>1, <1>2, <2>1, TokenIs DEF ParseMark, Take, TypeInv, Keyword
    <3>2. Grown(c) = Append(c, Tok("AM"))
      BY <1>2, <3>1, TakesToken
    <3> QED
      BY <2>0, <2>1, <3>2
  <2>2. CASE ~NextIs("AM") /\ NextIs("PM")
    <3>1. nextTok' = nextTok + 1 /\ tokens[nextTok] = Tok("PM")
      BY <1>1, <1>2, <2>2, TokenIs DEF ParseMark, Take, TypeInv, Keyword
    <3>2. Grown(c) = Append(c, Tok("PM"))
      BY <1>2, <3>1, TakesToken
    <3> QED
      BY <2>0, <2>2, <3>2
  <2>3. CASE ~NextIs("AM") /\ ~NextIs("PM")
    <3>1. nextTok' = nextTok
      BY <1>1, <2>3 DEF ParseMark, Go
    <3> QED
      BY <2>0, <2>3, <3>1 DEF Grown
  <2> QED
    BY <2>1, <2>2, <2>3
<1> HIDE DEF t
<1>6. Done' = x \o Grown(c) /\ Len(x \o Grown(c)) <= MaxTokens
  <2>1. Grown(x \o c) = x \o Grown(c)
    BY <1>2, <1>3, GrownText
  <2>2. ~Outside'
    BY <1>1 DEF Outside
  <2> QED
    BY <1>2, <1>3, <2>1, <2>2
<1>7. Phrase(x \o Grown(c), times \o <<t>>) \in After("AT", List(Times))
  <2>1. PICK d : d = Grown(c)
    OBVIOUS
  <2>2. Phrase(d, <<t>>) \in Times /\ Len(x \o d) <= MaxTokens /\ "AT" \in Keyword
    BY <1>5, <1>6, <2>1 DEF Keyword
  <2>3. Phrase(x \o d, times \o <<t>>) \in After("AT", List(Times))
    BY <1>3, <2>2, TimesType, OpenClose
  <2> QED
    BY <2>1, <2>3
<1>8. times \o <<t>> = times'
  <2>1. times' \in Seq(Time) /\ times \in Seq(Time)
    BY DEF TypeInv, Parsed
  <2> QED
    BY <1>1, <2>1
<1>9. Phrase(Done', <<times'>>) \in AtTimes
  BY <1>6, <1>7, <1>8, AtTimesList
<1> QED
  BY <1>1, <1>9 DEF SoFar, AfterTime

LEMMA MoreText ==
  ASSUME TypeInv, TypeInv', StillFresh, SoFar, ParseMore
  PROVE  SoFar'
<1> DEFINE more == LooksAhead /\ tokens[nextTok + 1] # Tok("AT")
<1>1. Steady /\ Seen /\ UNCHANGED <<num, times, weekdays>>
  BY GrammarSteady DEF TypeInv, ParseMore, locals, result
<1>2. /\ tokens[nextTok] \in AnyToken /\ Done' = Grown(Done) /\ nextTok \in Nat
      /\ nextTok <= Len(tokens) /\ Done \in Text /\ Len(Done) <= MaxTokens
  BY <1>1, StepText
<1>3. more => tokens[nextTok] = Tok("AND") /\ Tok("AND") \in AnyToken
  BY <1>2, TokenIs, Tokens DEF TypeInv, Keyword, LooksAhead
<1>4. /\ more => nextTok' = nextTok + 1
      /\ ~more => nextTok' = nextTok
  BY DEF ParseMore, Take, Go
<1>5. /\ more => Done' = Append(Done, Tok("AND"))
      /\ ~more => Done' = Done
  <2>1. more => Grown(Done) = Append(Done, tokens[nextTok])
    BY <1>2, <1>4, TakesToken
  <2>2. ~more => Grown(Done) = Done
    BY <1>4 DEF Grown
  <2> QED
    BY <1>2, <1>3, <2>1, <2>2
<1>6. CASE pc = "moreTimes"
  <2>1. Phrase(Done, <<times>>) \in AtTimes
    BY <1>6, Where DEF AfterTime
  <2>2. CASE more
    <3>1. pc' = "hours"
      BY <1>6, <2>2 DEF ParseMore, Take, Go
    <3>2. Phrase(Done, times) \in After("AT", List(Times))
      BY <2>1, AtTimesList
    <3>3. Phrase(Done', times') \in Open("AT", Times)
      BY <1>1, <1>5, <2>2, <3>2, OpenAgain
    <3>4. Done' \in Text /\ Done' = Done' \o <<>> /\ <<>> \in Text
      <4>1. Append(Done, Tok("AND")) \in Text
        BY <1>2, <1>3, <2>2, TextAppend
      <4> QED
        BY <1>5, <2>2, <4>1, TextConcat
    <3>5. TimeBegun(<<>>)'
      BY <1>1, <1>6, <3>1 DEF TimeBegun, StillFresh, TimePlace, DatePlace
    <3>6. InTime'
      BY <3>1, <3>3, <3>4, <3>5 DEF InTime, TimePlace
    <3> QED
      BY <3>6 DEF SoFar
  <2>3. CASE ~more
    <3>1. pc' = "on"
      BY <1>6, <2>3 DEF ParseMore, Take, Go
    <3> QED
      BY <1>1, <1>5, <2>1, <2>3, <3>1 DEF AfterTime, SoFar
  <2> QED
    BY <2>2, <2>3
<1>7. CASE pc = "moreDays"
  <2>1. PICK h \in Text, x \in Text :
          /\ Done = h \o x /\ Phrase(h, <<times>>) \in AtTimes
          /\ Phrase(x, weekdays) \in After("ON", List(Weekdays))
    BY <1>7, Where DEF AfterWeekday
  <2>2. CASE more
    <3>1. pc' = "weekday"
      BY <1>7, <2>2 DEF ParseMore, Take, Go
    <3>2. PICK z : z = Append(x, Tok("AND"))
      OBVIOUS
    <3>3. Phrase(z, weekdays) \in Open("ON", Weekdays) /\ z \in Text /\ <<>> \in Text
      BY <1>3, <2>1, <2>2, <3>2, OpenAgain, TextAppend, TextDef
    <3>4. Done' = h \o (z \o <<>>)
      <4>1. Append(h \o x, Tok("AND")) = h \o Append(x, Tok("AND"))
        BY <1>3, <2>1, <2>2, TextAppendOut
      <4>2. z \o <<>> = z
        BY <3>3, TextConcat
      <4> QED
        BY <1>5, <2>1, <2>2, <3>2, <4>1, <4>2
    <3>5. DayBegun(<<>>)'
      BY <3>1 DEF DayBegun
    <3>6. InWeekday'
      BY <1>1, <2>1, <3>1, <3>3, <3>4, <3>5 DEF InWeekday, DayPlace
    <3> QED
      BY <3>6 DEF SoFar
  <2>3. CASE ~more
    <3>1. pc' = "from"
      BY <1>7, <2>3 DEF ParseMore, Take, Go
    <3>2. Len(h \o x) <= MaxTokens
      BY <1>2, <2>1
    <3>3. Phrase(h \o x, <<times, weekdays>>) \in UpToDays
      BY <2>1, <3>2, DaysMade
    <3> QED
      BY <1>1, <1>5, <2>1, <2>3, <3>1, <3>3 DEF AfterDays, SoFar
  <2> QED
    BY <2>2, <2>3
<1> QED
  BY <1>6, <1>7 DEF ParseMore

LEMMA OnText ==
  ASSUME TypeInv, TypeInv', SoFar, ParseOn
  PROVE  SoFar'
<1>1. Steady /\ Seen /\ pc = "on" /\ UNCHANGED times
  BY GrammarSteady DEF TypeInv, ParseOn
<1>2. /\ tokens[nextTok] \in AnyToken /\ Done' = Grown(Done) /\ nextTok \in Nat
      /\ nextTok <= Len(tokens) /\ Done \in Text /\ Len(Done) <= MaxTokens
  BY <1>1, StepText
<1>3. Phrase(Done, <<times>>) \in AtTimes
  BY <1>1, Where DEF AfterTime
<1>4. CASE NextIs("ON")
  <2>1. pc' = "weekday" /\ nextTok' = nextTok + 1 /\ weekdays' = <<>> /\ tokens[nextTok] = Tok("ON")
    BY <1>2, <1>4, TokenIs DEF ParseOn, Accept, Take, TypeInv, Keyword
  <2>2. Tok("ON") \in AnyToken /\ <<Tok("ON")>> \in Text /\ <<>> \in Text
    BY Tokens, TokenNumberText, TextDef DEF Keyword
  <2>3. Done' = Done \o (<<Tok("ON")>> \o <<>>)
    <3>1. Done' = Append(Done, Tok("ON"))
      BY <1>2, <2>1, TakesToken
    <3>2. Append(Done, Tok("ON")) = Done \o <<Tok("ON")>> /\ <<Tok("ON")>> \o <<>> = <<Tok("ON")>>
      BY <1>2, <2>2, TextAppend, TextConcat
    <3> QED
      BY <3>1, <3>2
  <2>4. Phrase(<<Tok("ON")>>, weekdays') \in Open("ON", Weekdays)
    BY <2>1 DEF Open
  <2>5. DayBegun(<<>>)'
    BY <2>1 DEF DayBegun
  <2>6. InWeekday'
    BY <1>1, <1>2, <1>3, <2>1, <2>2, <2>3, <2>4, <2>5 DEF InWeekday, DayPlace
  <2> QED
    BY <2>6 DEF SoFar
<1>5. CASE ~NextIs("ON")
  <2>1. pc' = "from" /\ nextTok' = nextTok /\ weekdays' = EveryDay
    BY <1>5 DEF ParseOn, Accept, Go
  <2>2. Phrase(Done, <<times, EveryDay>>) \in UpToDays
    BY <1>2, <1>3, DaysMade
  <2>3. Done' = Done
    BY <1>2, <2>1 DEF Grown
  <2> QED
    BY <1>1, <2>1, <2>2, <2>3 DEF AfterDays, SoFar
<1> QED
  BY <1>4, <1>5

\* A weekday, or a span of them, ends.
LEMMA DayEnds ==
  ASSUME NEW h \in Text, NEW x \in Text, NEW c \in Text, NEW m, NEW k,
         Phrase(x, m) \in Open("ON", Weekdays), Phrase(c, k) \in Weekdays,
         Len(h \o (x \o c)) <= MaxTokens
  PROVE  x \o c \in Text /\ Phrase(x \o c, m \o k) \in After("ON", List(Weekdays))
<1>1. x \o c \in Text
  BY TextConcat
<1>2. Len(x \o c) <= MaxTokens
  <2>1. PICK u \in Text : u = x \o c
    BY <1>1
  <2>2. Len(h \o u) = Len(h) + Len(u) /\ Len(h) \in Nat /\ Len(u) \in Nat
    BY TextConcat
  <2>3. Len(h \o u) <= MaxTokens /\ MaxTokens \in Nat
    BY <2>1, GrammarAssumption
  <2> QED
    BY <2>1, <2>2, <2>3
<1>3. "ON" \in Keyword
  BY DEF Keyword
<1>4. Phrase(x \o c, m \o k) \in After("ON", List(Weekdays))
  BY <1>2, <1>3, WeekdaysType, OpenClose
<1> QED
  BY <1>1, <1>4

LEMMA WeekdayText ==
  ASSUME TypeInv, TypeInv', SoFar, ParseWeekday
  PROVE  SoFar'
<1>1. Steady /\ Seen /\ pc \in {"weekday", "throughDay"} /\ UNCHANGED times
  BY GrammarSteady DEF TypeInv, ParseWeekday
<1>2. /\ tokens[nextTok] \in AnyToken /\ Done' = Grown(Done) /\ nextTok \in Nat
      /\ nextTok <= Len(tokens)
      /\ ~Outside' => Len(Grown(Done)) <= MaxTokens
  BY <1>1, StepText
<1>3. PICK h \in Text, x \in Text, c \in Text :
        /\ Done = h \o (x \o c) /\ Phrase(h, <<times>>) \in AtTimes
        /\ Phrase(x, weekdays) \in Open("ON", Weekdays) /\ DayBegun(c)
  BY <1>1, Where DEF InWeekday, DayPlace
<1>4. PICK d : d = Grown(c)
  OBVIOUS
<1>5. d \in Text /\ Done' = h \o (x \o d)
  <2>1. Grown(h \o (x \o c)) = h \o (x \o Grown(c))
    BY <1>2, <1>3, GrownTexts
  <2>2. Grown(c) \in Text
    BY <1>2, GrownType
  <2> QED
    BY <1>2, <1>3, <1>4, <2>1, <2>2
<1>6. CASE ~NextIs("DAY")
  BY <1>6 DEF ParseWeekday, Go, SoFar
<1>7. CASE NextIs("DAY")
  <2> DEFINE e == tokens[nextTok][2]
  <2>1. nextTok' = nextTok + 1 /\ e \in Days /\ tokens[nextTok] = Day(e)
    BY <1>2, <1>7, TokenIs DEF ParseWeekday, Take, TypeInv
  <2>2. d = Append(c, Day(e))
    BY <1>2, <1>4, <2>1, TakesToken
  <2>3. Day(e) \in AnyToken
    BY <1>2, <2>1
  <2>4. CASE pc = "weekday"
    <3>1. weekday' = e /\ pc' = "through" /\ weekdays' = weekdays
      BY <1>7, <2>4 DEF ParseWeekday, Take
    <3>2. c = <<>>
      BY <1>3, <2>4 DEF DayBegun
    <3>3. d = <<Day(e)>>
      BY <2>2, <2>3, <3>2, Single
    <3>4. DayBegun(d)'
      BY <2>1, <3>1, <3>3 DEF DayBegun
    <3>5. InWeekday'
      BY <1>1, <1>3, <1>5, <3>1, <3>4 DEF InWeekday, DayPlace
    <3> QED
      BY <3>5 DEF SoFar
  <2>5. CASE pc = "throughDay"
    <3>1. weekdays' = weekdays \o DaysThrough(weekday, e) /\ pc' = "moreDays"
      BY <1>7, <2>5 DEF ParseWeekday, Take
    <3>2. c = <<Day(weekday), Tok("THROUGH")>> /\ weekday \in Days
      BY <1>3, <2>5 DEF DayBegun
    <3>3. d = <<Day(weekday), Tok("THROUGH"), Day(e)>>
      <4>1. Day(weekday) \in AnyToken /\ Tok("THROUGH") \in AnyToken
        BY <3>2, Tokens DEF Keyword
      <4> QED
        BY <2>2, <2>3, <3>2, <4>1, Triple
    <3>4. Phrase(d, Through(weekday, e)) \in Weekdays
      BY <2>1, <3>2, <3>3, DayMade
    <3>5. DaysThrough(weekday, e) = Through(weekday, e)
      BY <2>1, <3>2, SpanAsMeant, GrammarAssumption
    <3>6. Len(h \o (x \o d)) <= MaxTokens
      <4>1. ~Outside'
        BY <3>1 DEF Outside
      <4> QED
        BY <1>2, <1>5, <4>1
    <3>7. x \o d \in Text /\ Phrase(x \o d, weekdays \o Through(weekday, e)) \in After("ON", List(Weekdays))
      BY <1>3, <1>5, <3>4, <3>6, DayEnds
    <3>8. AfterWeekday'
      BY <1>1, <1>3, <1>5, <3>1, <3>5, <3>7 DEF AfterWeekday
    <3> QED
      BY <3>8 DEF SoFar
  <2> QED
    BY <1>1, <2>4, <2>5
<1> QED
  BY <1>6, <1>7

LEMMA ThroughText ==
  ASSUME TypeInv, TypeInv', SoFar, ParseThrough
  PROVE  SoFar'
<1>1. Steady /\ Seen /\ pc = "through" /\ UNCHANGED <<times, weekday>>
  BY GrammarSteady DEF TypeInv, ParseThrough, locals
<1>2. /\ tokens[nextTok] \in AnyToken /\ Done' = Grown(Done) /\ nextTok \in Nat
      /\ nextTok <= Len(tokens) /\ Len(Done) <= MaxTokens
  BY <1>1, StepText
<1>3. PICK h \in Text, x \in Text, c \in Text :
        /\ Done = h \o (x \o c) /\ Phrase(h, <<times>>) \in AtTimes
        /\ Phrase(x, weekdays) \in Open("ON", Weekdays) /\ DayBegun(c)
  BY <1>1, Where DEF InWeekday, DayPlace
<1>4. c = <<Day(weekday)>> /\ weekday \in Days /\ Day(weekday) \in AnyToken
  BY <1>1, <1>3, Tokens DEF DayBegun
<1>5. PICK d : d = Grown(c)
  OBVIOUS
<1>6. d \in Text /\ Done' = h \o (x \o d)
  <2>1. Grown(h \o (x \o c)) = h \o (x \o Grown(c))
    BY <1>2, <1>3, GrownTexts
  <2>2. Grown(c) \in Text
    BY <1>2, GrownType
  <2> QED
    BY <1>2, <1>3, <1>5, <2>1, <2>2
<1>7. CASE NextIs("THROUGH")
  <2>1. /\ nextTok' = nextTok + 1 /\ tokens[nextTok] = Tok("THROUGH") /\ pc' = "throughDay"
        /\ weekdays' = weekdays
    BY <1>2, <1>7, TokenIs DEF ParseThrough, Accept, Take, TypeInv, Keyword
  <2>2. d = <<Day(weekday), Tok("THROUGH")>>
    <3>1. d = Append(c, Tok("THROUGH")) /\ Tok("THROUGH") \in AnyToken
      BY <1>2, <1>5, <2>1, TakesToken
    <3> QED
      BY <1>4, <3>1, Pair
  <2>3. DayBegun(d)'
    BY <1>1, <1>4, <2>1, <2>2 DEF DayBegun
  <2>4. InWeekday'
    BY <1>1, <1>3, <1>6, <2>1, <2>3 DEF InWeekday, DayPlace
  <2> QED
    BY <2>4 DEF SoFar
<1>8. CASE ~NextIs("THROUGH")
  <2>1. nextTok' = nextTok /\ pc' = "moreDays" /\ weekdays' = Append(weekdays, weekday)
    BY <1>8 DEF ParseThrough, Accept, Go
  <2>2. d = c
    BY <1>5, <2>1 DEF Grown
  <2>3. Phrase(c, <<weekday>>) \in Weekdays
    BY <1>4, DayMade
  <2>4. Len(h \o (x \o c)) <= MaxTokens
    BY <1>2, <1>3
  <2>5. x \o c \in Text /\ Phrase(x \o c, weekdays \o <<weekday>>) \in After("ON", List(Weekdays))
    BY <1>3, <2>3, <2>4, DayEnds
  <2>6. weekdays \o <<weekday>> = Append(weekdays, weekday)
    BY DEF TypeInv, Parsed
  <2>7. AfterWeekday'
    BY <1>1, <1>3, <1>6, <2>1, <2>2, <2>5, <2>6 DEF AfterWeekday
  <2> QED
    BY <2>7 DEF SoFar
<1> QED
  BY <1>7, <1>8

LEMMA RangeText ==
  ASSUME TypeInv, TypeInv', StillFresh, SoFar, ParseRange
  PROVE  SoFar'
<1>1. Steady /\ Seen /\ pc \in {"from", "to"} /\ UNCHANGED <<num, times, weekdays, range>>
  BY GrammarSteady DEF TypeInv, ParseRange, result
<1>2. /\ tokens[nextTok] \in AnyToken /\ Done' = Grown(Done) /\ nextTok \in Nat
      /\ nextTok <= Len(tokens) /\ Done \in Text /\ Len(Done) <= MaxTokens
  BY <1>1, StepText
<1> DEFINE ty == IF pc = "from" THEN "FROM" ELSE "TO"
<1>3. CASE NextIs(ty)
  <2>1. /\ nextTok' = nextTok + 1 /\ pc' = "month" /\ end' = pc
    BY <1>3 DEF ParseRange, Accept, Take
  <2>2. tokens[nextTok] = DateToken'
    BY <1>1, <1>2, <1>3, <2>1, TokenIs DEF TypeInv, DateToken, Keyword
  <2>3. PICK g \in Text : g = Done
    BY <1>2
  <2>4. Done' = g \o (<<DateToken'>> \o <<>>) /\ <<>> \in Text
    <3>1. PICK t \in AnyToken : t = DateToken'
      BY <1>2, <2>2
    <3>2. Done' = Append(g, t)
      BY <1>2, <2>1, <2>2, <2>3, <3>1, TakesToken
    <3>3. Append(g, t) = g \o <<t>> /\ <<t>> \in Text
      BY <1>2, TextAppend
    <3>4. <<t>> \o <<>> = <<t>> /\ <<>> \in Text
      BY <3>3, TextConcat
    <3> QED
      BY <3>1, <3>2, <3>3, <3>4
  <2>5. BeforeDate(g)'
    <3>1. \/ pc = "from" /\ Phrase(g, <<times, weekdays>>) \in UpToDays
          \/ pc = "to" /\ Phrase(g, <<times, weekdays, range.from>>) \in UpToFrom
      BY <1>1, <2>3, Where DEF AfterDays, AfterFrom
    <3> QED
      BY <1>1, <2>1, <3>1 DEF BeforeDate
  <2>6. DateBegun(<<>>)'
    BY <1>1, <2>1 DEF DateBegun, StillFresh, TimePlace, DatePlace
  <2>7. InDate'
    BY <2>1, <2>4, <2>5, <2>6 DEF InDate, DatePlace
  <2> QED
    BY <2>7 DEF SoFar
<1>4. CASE ~NextIs(ty) /\ pc = "from"
  <2>1. nextTok' = nextTok /\ pc' = "to"
    BY <1>4 DEF ParseRange, Accept, Go
  <2>2. Done' = Done
    BY <1>2, <2>1 DEF Grown
  <2>3. range.from = NoDate
    BY <1>4 DEF StillFresh, DatePlace
  <2>4. Phrase(Done, <<times, weekdays>>) \in UpToDays
    BY <1>4, Where DEF AfterDays
  <2>5. Phrase(Done, <<times, weekdays, NoDate>>) \in UpToFrom
    BY <1>2, <2>4, FromMade
  <2>6. AfterFrom'
    BY <1>1, <2>1, <2>2, <2>3, <2>5 DEF AfterFrom
  <2> QED
    BY <2>6 DEF SoFar
<1>5. CASE ~NextIs(ty) /\ pc = "to"
  <2>1. nextTok' = nextTok /\ pc' = "eof"
    BY <1>5 DEF ParseRange, Accept, Go
  <2>2. Done' = Done
    BY <1>2, <2>1 DEF Grown
  <2>3. range.to = NoDate
    BY <1>5 DEF StillFresh
  <2>4. Phrase(Done, <<times, weekdays, range.from>>) \in UpToFrom
    BY <1>5, Where DEF AfterFrom
  <2>5. Phrase(Done, <<times, weekdays, range.from, NoDate>>) \in UpToTo
    BY <1>2, <2>4, ToMade
  <2>6. AfterTo'
    BY <1>1, <2>1, <2>2, <2>3, <2>5 DEF AfterTo, Meaning
  <2> QED
    BY <2>6 DEF SoFar
<1> QED
  BY <1>1, <1>3, <1>4, <1>5

LEMMA EndDateText ==
  ASSUME TypeInv, TypeInv', StillFresh, SoFar, EndDate
  PROVE  SoFar'
<1>1. /\ pc = "endDate" /\ end \in {"from", "to"}
      /\ UNCHANGED <<tokens, nextTok, end, times, weekdays>> /\ ~Outside
      /\ range' = [range EXCEPT ![end] = LongDate]
      /\ pc' = IF end = "from" THEN "to" ELSE "eof"
  BY DEF EndDate, Go, LongDate, Outside, TypeInv, Parsed
<1>2. Done' = Done /\ Done \in Text /\ Len(Done) <= MaxTokens
  BY <1>1, StayText
<1>3. PICK h \in Text, c \in Text : Done = h \o (<<DateToken>> \o c) /\ BeforeDate(h) /\ DateBegun(c)
  BY <1>1, Where DEF InDate, DatePlace
<1>4. Phrase(c, LongDate) \in Dates
  BY <1>1, <1>3 DEF DateBegun
<1>5. PICK y \in Text : y = <<DateToken>> \o c
  BY <1>3, DateTokenType, TextConcat
<1>6. Phrase(y, LongDate) \in After(IF end = "from" THEN "FROM" ELSE "TO", Dates)
  <2> DEFINE a == Phrase(c, LongDate)
  <2>1. a \in Dates /\ a.text = c /\ a.means = LongDate
    BY <1>4, PhraseFields
  <2> HIDE DEF a
  <2>2. \A ty : Phrase(<<Tok(ty)>> \o c, LongDate) \in After(ty, Dates)
    BY <2>1 DEF After
  <2> QED
    BY <1>5, <2>2 DEF DateToken
<1>7. Len(h \o y) <= MaxTokens /\ Done = h \o y
  BY <1>2, <1>3, <1>5
<1>8. range' = IF end = "from" THEN [from |-> LongDate, to |-> range.to]
               ELSE [from |-> range.from, to |-> LongDate]
  <2>1. PICK a, b : range = [from |-> a, to |-> b]
    BY DEF StillFresh
  <2>2. PICK l : l = LongDate
    OBVIOUS
  <2>3. range' = [[from |-> a, to |-> b] EXCEPT ![end] = l]
    BY <1>1, <2>1, <2>2
  <2>4. \A e \in {"from", "to"} : [[from |-> a, to |-> b] EXCEPT ![e] = l]
           = IF e = "from" THEN [from |-> l, to |-> b] ELSE [from |-> a, to |-> l]
    BY EndSet
  <2>5. range' = IF end = "from" THEN [from |-> l, to |-> b] ELSE [from |-> a, to |-> l]
    BY <1>1, <2>3, <2>4, Zenon
  <2> QED
    BY <2>1, <2>2, <2>5
<1>9. CASE end = "from"
  <2>1. Phrase(h, <<times, weekdays>>) \in UpToDays
    BY <1>3, <1>9 DEF BeforeDate
  <2>2. Phrase(h \o y, <<times, weekdays, LongDate>>) \in UpToFrom
    BY <1>6, <1>7, <1>9, <2>1, FromMade
  <2>3. range'.from = LongDate
    BY <1>8, <1>9
  <2>4. AfterFrom'
    BY <1>1, <1>2, <1>7, <1>9, <2>2, <2>3 DEF AfterFrom
  <2> QED
    BY <2>4 DEF SoFar
<1>10. CASE end = "to"
  <2>1. Phrase(h, <<times, weekdays, range.from>>) \in UpToFrom
    BY <1>3, <1>10 DEF BeforeDate
  <2>2. Phrase(h \o y, <<times, weekdays, range.from, LongDate>>) \in UpToTo
    BY <1>6, <1>7, <1>10, <2>1, ToMade
  <2>3. range'.from = range.from /\ range'.to = LongDate
    BY <1>8, <1>10
  <2>4. AfterTo'
    BY <1>1, <1>2, <1>7, <1>10, <2>2, <2>3 DEF AfterTo, Meaning
  <2> QED
    BY <2>4 DEF SoFar
<1> QED
  BY <1>1, <1>9, <1>10

LEMMA EOFText ==
  ASSUME TypeInv, TypeInv', SoFar, ParseEOF
  PROVE  SoFar'
<1>1. Steady /\ Seen /\ pc = "eof" /\ UNCHANGED <<tokens, times, weekdays, range>>
  BY GrammarSteady DEF TypeInv, ParseEOF, result
<1>2. CASE ~NextIs("EOF")
  BY <1>2 DEF ParseEOF, Accept, Go, SoFar
<1>3. CASE NextIs("EOF")
  <2>1. pc' = "ok"
    BY <1>3 DEF ParseEOF, Accept, Take
  <2>2. PositionInv /\ nextTok <= Len(tokens)
    BY <1>1, StepText DEF TypeInv
  <2>3. tokens[nextTok] = Tok("EOF")
    BY <1>3, <2>2, TokenIs DEF Keyword
  <2>4. nextTok = Len(tokens) /\ Len(tokens) \in Nat /\ tokens \in Text /\ nextTok \in 1 .. Len(tokens)
    <3>1. nextTok \in 1 .. Len(tokens) /\ Len(tokens) \in Nat /\ tokens \in Text
      BY <1>1, <2>2, SeenText
    <3>2. nextTok = Len(tokens)
      BY <2>3, <3>1 DEF TypeInv, PositionInv
    <3> QED
      BY <3>1, <3>2
  <2>5. tokens = Done \o <<Tok("EOF")>>
    <3>1. SubSeq(tokens, 1, nextTok) = SubSeq(tokens, 1, nextTok - 1) \o <<tokens[nextTok]>>
      BY <2>4, SubSeqRecursiveSecond DEF Text
    <3>2. SubSeq(tokens, 1, Len(tokens)) = tokens
      BY <2>4, SubSeqFull DEF Text
    <3> QED
      BY <2>3, <2>4, <3>1, <3>2 DEF Done
  <2>6. Phrase(Done, Meaning) \in UpToTo
    BY <1>1, Where DEF AfterTo
  <2>7. Phrase(tokens, Meaning) \in Sentences
    BY <2>5, <2>6, SentenceMade
  <2>8. Accepted'
    BY <1>1, <2>1, <2>7 DEF Accepted, Meaning
  <2> QED
    BY <2>8 DEF SoFar
<1> QED
  BY <1>2, <1>3

LEMMA StutterText ==
  ASSUME SoFar, UNCHANGED vars
  PROVE  SoFar'
<1>1. UNCHANGED <<tokens, nextTok, pc, num, weekday, end, times, weekdays, range>>
  BY DEF vars, locals, result
<1>2. Done' = Done
  BY <1>1 DEF Done
<1>3. ASSUME NEW c
      PROVE  /\ TimeBegun(c) => TimeBegun(c)'
             /\ DayBegun(c) => DayBegun(c)'
             /\ DateBegun(c) => DateBegun(c)'
             /\ BeforeDate(c) => BeforeDate(c)'
             /\ DateToken' = DateToken
  BY <1>1 DEF TimeBegun, DayBegun, DateBegun, BeforeDate, ShortDate, LongDate, DateToken
<1>4. /\ AtStart \/ AfterTime \/ AfterDays \/ AfterFrom \/ AfterTo =>
           (AtStart \/ AfterTime \/ AfterDays \/ AfterFrom \/ AfterTo)'
      /\ AfterWeekday => AfterWeekday'
      /\ Accepted => Accepted'
  BY <1>1, <1>2 DEF AtStart, AfterTime, AfterWeekday, AfterDays, AfterFrom, AfterTo, Accepted,
     Meaning
<1>5. CASE InTime
  <2>1. PICK x \in Text, c \in Text :
          Done = x \o c /\ Phrase(x, times) \in Open("AT", Times) /\ TimeBegun(c)
    BY <1>5 DEF InTime
  <2>2. InTime'
    BY <1>1, <1>2, <1>3, <1>5, <2>1 DEF InTime
  <2> QED
    BY <2>2 DEF SoFar
<1>6. CASE InWeekday
  <2>1. PICK h \in Text, x \in Text, c \in Text :
          /\ Done = h \o (x \o c) /\ Phrase(h, <<times>>) \in AtTimes
          /\ Phrase(x, weekdays) \in Open("ON", Weekdays) /\ DayBegun(c)
    BY <1>6 DEF InWeekday
  <2>2. InWeekday'
    BY <1>1, <1>2, <1>3, <1>6, <2>1 DEF InWeekday
  <2> QED
    BY <2>2 DEF SoFar
<1>7. CASE InDate
  <2>1. PICK h \in Text, c \in Text :
          Done = h \o (<<DateToken>> \o c) /\ BeforeDate(h) /\ DateBegun(c)
    BY <1>7 DEF InDate
  <2>2. InDate'
    BY <1>1, <1>2, <1>3, <1>7, <2>1 DEF InDate
  <2> QED
    BY <2>2 DEF SoFar
<1> QED
  BY <1>1, <1>4, <1>5, <1>6, <1>7 DEF SoFar

LEMMA SoFarStep == TypeInv /\ TypeInv' /\ StillFresh /\ SoFar /\ [Next]_vars => SoFar'
<1> SUFFICES ASSUME TypeInv, TypeInv', StillFresh, SoFar, [Next]_vars
             PROVE  SoFar'
  OBVIOUS
<1>1. CASE pc' = "error"
  BY <1>1 DEF SoFar
<1>2. CASE pc' # "error"
  <2>1. CASE TokenizeFails
    BY <1>2, <2>1 DEF TokenizeFails
  <2>2. CASE ParseInt \/ ParseSeparator
    <3>1. pc \in TimePlace \cup DatePlace
      BY <2>2 DEF ParseInt, ParseSeparator, AfterNumber, TimePlace, DatePlace
    <3> QED
      BY <1>2, <2>2, <3>1, TimeText, DateText
  <2> QED
    BY <2>1, <2>2, StartText, TokenizeText, AtText, MarkText, MoreText, OnText, WeekdayText,
       ThroughText, RangeText, EndDateText, EOFText, StutterText DEF Next
<1> QED
  BY <1>1, <1>2

\* What Parse accepts is a sentence of the grammar, of any length and with any numbers and
\* weekdays in it, and the schedule it returns is what the sentence means.
THEOREM AcceptsAsMeant == Spec => []ParsesAsMeant
<1>1. Init => MeaningInv
  BY PositionInit, TypeInit, FreshInit, SoFarInit DEF MeaningInv, TypeInv
<1>2. MeaningInv /\ [Next]_vars => MeaningInv'
  <2>1. TypeInv /\ [Next]_vars => TypeInv'
    BY PositionStep, BoundedStep, ParsedStep DEF TypeInv
  <2>2. TypeInv /\ StillFresh /\ [Next]_vars => StillFresh'
    BY FreshStep DEF TypeInv
  <2> QED
    BY <2>1, <2>2, SoFarStep DEF MeaningInv
<1>3. MeaningInv => ParsesAsMeant
  BY Where DEF MeaningInv, ParsesAsMeant, Accepted
<1> QED
  BY <1>1, <1>2, <1>3, PTL DEF Spec

-----------------------------------------------------------------------------
(* What may still come: the sentences, cut at the places of the parser.    *)

\* The texts of R behind one more token, behind a number, and behind a weekday.
Word(t, R)    == {<<t>> \o z : z \in R}
NumberThen(R) == UNION {Word(Num(n), R) : n \in Numbers}
DayThen(R)    == UNION {Word(Day(d), R) : d \in Days}

\* What may still come in a list after an element: any number of elements more.
AndMore(A) ==
  UNION {X \in SUBSET Text :
           \A x \in X : x = <<>> \/ \E a \in A, y \in X : x = <<Tok("AND")>> \o (a.text \o y)}
MoreThen(A, R)    == {x \o z : x \in AndMore(A), z \in R}
ElementThen(A, R) == UNION {{a.text \o z : z \in R} : a \in A}

HasTexts(A) == \A a \in A : a.text \in Text

\* What may come at each place of a date that R follows.
YearRest(R)   == NumberThen(R)
Slash2Rest(R) == R \cup Word(Tok("SLASH"), YearRest(R))
DayRest(R)    == NumberThen(Slash2Rest(R))
Slash1Rest(R) == DayRest(R) \cup Word(Tok("SLASH"), DayRest(R))
MonthRest(R)  == NumberThen(Slash1Rest(R))

\* What may come at each other place, from the end of a schedule to its beginning.
EOFRest        == {<<Tok("EOF")>>}
ToRest         == EOFRest \cup Word(Tok("TO"), MonthRest(EOFRest))
FromRest       == ToRest \cup Word(Tok("FROM"), MonthRest(ToRest))
MoreDaysRest   == MoreThen(Weekdays, FromRest)
ThroughDayRest == DayThen(MoreDaysRest)
ThroughRest    == MoreDaysRest \cup Word(Tok("THROUGH"), ThroughDayRest)
WeekdayRest    == DayThen(ThroughRest)
OnRest         == FromRest \cup Word(Tok("ON"), WeekdayRest)
MoreTimesRest  == MoreThen(Times, OnRest)
MarkRest       == MoreTimesRest \cup Word(Tok("AM"), MoreTimesRest) \cup Word(Tok("PM"), MoreTimesRest)
SecondsRest    == NumberThen(MarkRest)
Colon2Rest     == MarkRest \cup Word(Tok("COLON"), SecondsRest)
MinutesRest    == NumberThen(Colon2Rest)
Colon1Rest     == MarkRest \cup Word(Tok("COLON"), MinutesRest)
HoursRest      == NumberThen(Colon1Rest)
AtRest         == Word(Tok("AT"), HoursRest)

\* Texts that are not empty and whose first token is of one of some types.
Begins(R, F) == R \subseteq Text /\ \A r \in R : Len(r) \in Nat \ {0} /\ r[1][1] \in F

LEMMA WordText ==
  ASSUME NEW R, R \subseteq Text, NEW t \in AnyToken, NEW r \in Word(t, R)
  PROVE  /\ r \in Text /\ Len(r) \in Nat \ {0} /\ r[1] = t
         /\ \E z \in R : r = <<t>> \o z
<1>1. PICK z \in R : r = <<t>> \o z
  BY DEF Word
<1>2. r \in Text /\ Len(r) = Len(z) + 1 /\ Len(z) \in Nat
  BY <1>1, TextAppend, TextConcat
<1>3. r[1] = t
  <2>1. z \in Seq(AnyToken)
    BY TextDef
  <2> QED
    BY <1>1, <2>1
<1> QED
  BY <1>1, <1>2, <1>3

LEMMA WordBegins ==
  ASSUME NEW R, R \subseteq Text, NEW ty \in Keyword
  PROVE  Begins(Word(Tok(ty), R), {ty})
<1>1. Tok(ty) \in AnyToken /\ Tok(ty)[1] = ty
  BY Tokens DEF Tok
<1> QED
  BY <1>1, WordText DEF Begins

LEMMA NumberBegins ==
  ASSUME NEW R, R \subseteq Text
  PROVE  Begins(NumberThen(R), {"INT"})
<1>1. ASSUME NEW n \in Numbers
      PROVE  Num(n) \in AnyToken /\ Num(n)[1] = "INT"
  BY Tokens DEF Num
<1>2. ASSUME NEW n \in Numbers, NEW r \in Word(Num(n), R)
      PROVE  r \in Text /\ Len(r) \in Nat \ {0} /\ r[1][1] = "INT"
  <2>1. PICK t \in AnyToken : t = Num(n) /\ t[1] = "INT"
    BY <1>1
  <2>2. r \in Word(t, R)
    BY <2>1
  <2>3. r \in Text /\ Len(r) \in Nat \ {0} /\ r[1] = t
    BY <2>2, WordText
  <2> QED
    BY <2>1, <2>3
<1> QED
  BY <1>2 DEF Begins, NumberThen

LEMMA DayBegins ==
  ASSUME NEW R, R \subseteq Text
  PROVE  Begins(DayThen(R), {"DAY"})
<1>1. ASSUME NEW n \in Days
      PROVE  Day(n) \in AnyToken /\ Day(n)[1] = "DAY"
  BY Tokens DEF Day
<1>2. ASSUME NEW n \in Days, NEW r \in Word(Day(n), R)
      PROVE  r \in Text /\ Len(r) \in Nat \ {0} /\ r[1][1] = "DAY"
  <2>1. PICK t \in AnyToken : t = Day(n) /\ t[1] = "DAY"
    BY <1>1
  <2>2. r \in Word(t, R)
    BY <2>1
  <2>3. r \in Text /\ Len(r) \in Nat \ {0} /\ r[1] = t
    BY <2>2, WordText
  <2> QED
    BY <2>1, <2>3
<1> QED
  BY <1>2 DEF Begins, DayThen

LEMMA EitherBegins ==
  ASSUME NEW R, NEW Q, NEW F, NEW G, Begins(R, F), Begins(Q, G)
  PROVE  Begins(R \cup Q, F \cup G)
  BY DEF Begins

LEMMA BeginsText ==
  ASSUME NEW R, NEW F, Begins(R, F)
  PROVE  R \subseteq Text
  BY DEF Begins

\* Four texts, put together from either end.
Regroups(a, b, c, d) == (a \o (b \o c)) \o d = a \o (b \o (c \o d))

LEMMA FourTexts ==
  ASSUME NEW a \in Text, NEW b \in Text, NEW c \in Text, NEW d \in Text
  PROVE  Regroups(a, b, c, d)
<1>1. (b \o c) \o d = b \o (c \o d)
  BY TextRegroup, SMTT(30)
<1>2. PICK u \in Text : u = b \o c
  BY TextConcat
<1>3. (a \o u) \o d = a \o (u \o d)
  BY TextRegroup, SMTT(30)
<1> QED
  BY <1>1, <1>2, <1>3 DEF Regroups

\* One more element may come at the end of what may come.
LEMMA AndMoreLast ==
  ASSUME NEW A, HasTexts(A), NEW x \in AndMore(A), NEW b \in A
  PROVE  x \o (<<Tok("AND")>> \o b.text) \in AndMore(A)
<1> DEFINE and == <<Tok("AND")>>
           Good(X) == \A u \in X : u = <<>> \/ \E a \in A, y \in X : u = and \o (a.text \o y)
<1>1. PICK X \in SUBSET Text : x \in X /\ Good(X)
  BY DEF AndMore
<1>2. PICK e : e = and \o b.text
  OBVIOUS
<1>3. and \in Text /\ e \in Text /\ <<>> \in Text
  <2>1. and \in Text /\ b.text \in Text /\ <<>> \in Text
    BY TokenNumberText, TextDef DEF Keyword, HasTexts
  <2> QED
    BY <1>2, <2>1, TextConcat
<1> HIDE DEF and
<1> DEFINE Y == {y \o e : y \in X} \cup {<<>>}
<1>4. Y \in SUBSET Text /\ x \o e \in Y
  <2>1. ASSUME NEW y \in X
        PROVE  y \o e \in Text
    <3>1. y \in Text /\ e \in Text
      BY <1>1, <1>3
    <3> QED
      BY <3>1, TextConcat
  <2> QED
    BY <1>1, <1>3, <2>1
<1>5. ASSUME NEW u \in Y
      PROVE  u = <<>> \/ \E a \in A, y \in Y : u = and \o (a.text \o y)
  <2>1. CASE u = <<>>
    BY <2>1
  <2>2. CASE \E y \in X : u = y \o e
    <3>1. PICK y \in X : u = y \o e
      BY <2>2
    <3>2. CASE y = <<>>
      <4>1. u = e /\ b.text \o <<>> = b.text
        BY <1>3, <3>1, <3>2, TextConcat DEF HasTexts
      <4> QED
        BY <1>2, <4>1
    <3>3. CASE y # <<>>
      <4>1. PICK a \in A, z \in X : y = and \o (a.text \o z)
        BY <1>1, <3>3
      <4>2. PICK s \in Text : s = a.text
        BY DEF HasTexts
      <4>3. z \in Text /\ e \in Text /\ and \in Text
        BY <1>1, <1>3, <4>1
      <4>4. Regroups(and, s, z, e)
        BY <4>3, FourTexts
      <4>5. u = and \o (a.text \o (z \o e)) /\ z \o e \in Y
        BY <3>1, <4>1, <4>2, <4>4 DEF Regroups
      <4> QED
        BY <4>1, <4>5
    <3> QED
      BY <3>2, <3>3
  <2> QED
    BY <2>1, <2>2
<1> HIDE DEF Y
<1>6. x \o e \in AndMore(A)
  BY <1>4, <1>5 DEF AndMore, and
<1> QED
  BY <1>2, <1>6 DEF and

LEMMA AndMoreNone ==
  ASSUME NEW A
  PROVE  <<>> \in AndMore(A)
<1>1. {<<>>} \in SUBSET Text
  BY TextDef
<1> QED
  BY <1>1 DEF AndMore

LEMMA AndMoreText ==
  ASSUME NEW A, NEW x \in AndMore(A)
  PROVE  x \in Text
  BY DEF AndMore

LEMMA AndMoreNext ==
  ASSUME NEW A, NEW x \in AndMore(A), x # <<>>
  PROVE  \E a \in A, y \in AndMore(A) : x = <<Tok("AND")>> \o (a.text \o y)
<1>1. PICK X \in SUBSET Text :
        x \in X /\ \A u \in X : u = <<>> \/ \E a \in A, y \in X : u = <<Tok("AND")>> \o (a.text \o y)
  BY DEF AndMore
<1>2. X \subseteq AndMore(A)
  BY <1>1 DEF AndMore
<1> QED
  BY <1>1, <1>2

\* A text of R behind a token, behind a number, and behind a list that goes on.
LEMMA WordMade ==
  ASSUME NEW R, NEW t, NEW z \in R
  PROVE  <<t>> \o z \in Word(t, R)
  BY DEF Word

LEMMA NumberMade ==
  ASSUME NEW R, NEW n \in Numbers, NEW z \in R
  PROVE  <<Num(n)>> \o z \in NumberThen(R)
  BY WordMade DEF NumberThen

LEMMA DayThenMade ==
  ASSUME NEW R, NEW d \in Days, NEW z \in R
  PROVE  <<Day(d)>> \o z \in DayThen(R)
  BY WordMade DEF DayThen

LEMMA ElementMade ==
  ASSUME NEW A, NEW R, NEW a \in A, NEW z \in R
  PROVE  a.text \o z \in ElementThen(A, R)
<1> DEFINE S(b) == {b.text \o y : y \in R}
<1>1. a.text \o z \in S(a)
  OBVIOUS
<1>2. ElementThen(A, R) = UNION {S(b) : b \in A}
  BY DEF ElementThen
<1> HIDE DEF S
<1> QED
  BY <1>1, <1>2

LEMMA MoreThenMade ==
  ASSUME NEW A, NEW R, NEW x \in AndMore(A), NEW z \in R
  PROVE  x \o z \in MoreThen(A, R)
  BY DEF MoreThen

\* Nothing more in the list, or AND and one more element.
LEMMA MoreThenNext ==
  ASSUME NEW A, HasTexts(A), NEW R, R \subseteq Text, NEW r \in MoreThen(A, R), r \notin R
  PROVE  r \in Word(Tok("AND"), ElementThen(A, MoreThen(A, R)))
<1>1. PICK x \in AndMore(A), q \in R : r = x \o q
  BY DEF MoreThen
<1>2. q \in Text /\ x \in Text /\ <<Tok("AND")>> \in Text
  BY AndMoreText, TokenNumberText DEF Keyword
<1>3. CASE x = <<>>
  <2>1. r = q
    BY <1>1, <1>2, <1>3, TextConcat
  <2> QED
    BY <2>1
<1>4. CASE x # <<>>
  <2>1. PICK a \in A, y \in AndMore(A) : x = <<Tok("AND")>> \o (a.text \o y)
    BY <1>4, AndMoreNext
  <2>2. PICK and \in Text : and = <<Tok("AND")>>
    BY <1>2
  <2>3. PICK s \in Text : s = a.text
    BY DEF HasTexts
  <2>4. y \in Text
    BY AndMoreText
  <2>5. Regroups(and, s, y, q)
    BY <1>2, <2>4, FourTexts
  <2>6. y \o q \in MoreThen(A, R)
    BY MoreThenMade
  <2>7. r = <<Tok("AND")>> \o (a.text \o (y \o q))
    BY <1>1, <2>1, <2>2, <2>3, <2>5 DEF Regroups
  <2> QED
    <3>1. a.text \o (y \o q) \in ElementThen(A, MoreThen(A, R))
      BY <2>6, ElementMade
    <3> QED
      BY <2>7, <3>1, WordMade
<1> QED
  BY <1>3, <1>4

LEMMA MoreThenText ==
  ASSUME NEW A, NEW R, R \subseteq Text
  PROVE  MoreThen(A, R) \subseteq Text
<1> SUFFICES ASSUME NEW r \in MoreThen(A, R)
             PROVE  r \in Text
  OBVIOUS
<1>1. PICK x \in AndMore(A), q \in R : r = x \o q
  BY DEF MoreThen
<1>2. x \in Text
  BY AndMoreText
<1> QED
  BY <1>1, <1>2, TextConcat

LEMMA ElementThenText ==
  ASSUME NEW A, HasTexts(A), NEW R, R \subseteq Text
  PROVE  ElementThen(A, R) \subseteq Text
<1> SUFFICES ASSUME NEW r \in ElementThen(A, R)
             PROVE  r \in Text
  OBVIOUS
<1>0. PICK a \in A, z \in R : r = a.text \o z
  BY DEF ElementThen
<1>1. PICK s \in Text : s = a.text
  BY DEF HasTexts
<1>2. s \o z \in Text
  BY TextConcat
<1> QED
  BY <1>0, <1>1, <1>2

LEMMA MoreThenBegins ==
  ASSUME NEW A, HasTexts(A), NEW R, NEW F, Begins(R, F)
  PROVE  Begins(MoreThen(A, R), F \cup {"AND"})
<1>1. R \subseteq Text /\ MoreThen(A, R) \subseteq Text
  BY MoreThenText DEF Begins
<1>2. ASSUME NEW r \in MoreThen(A, R)
      PROVE  Len(r) \in Nat \ {0} /\ r[1][1] \in F \cup {"AND"}
  <2>1. CASE r \in R
    BY <2>1 DEF Begins
  <2>2. CASE r \notin R
    <3>1. r \in Word(Tok("AND"), ElementThen(A, MoreThen(A, R)))
      BY <1>1, <2>2, MoreThenNext
    <3>2. Begins(Word(Tok("AND"), ElementThen(A, MoreThen(A, R))), {"AND"})
      BY <1>1, ElementThenText, WordBegins DEF Keyword
    <3> QED
      BY <3>1, <3>2 DEF Begins
  <2> QED
    BY <2>1, <2>2
<1> QED
  BY <1>1, <1>2 DEF Begins

LEMMA ElementText == HasTexts(Times) /\ HasTexts(Weekdays)
<1>1. ASSUME NEW t \in Times
      PROVE  t.text \in Text
  <2>1. t \in Phrases(Seq(Time))
    BY TimesType
  <2> QED
    BY <2>1, InPhrases
<1>2. ASSUME NEW d \in Weekdays
      PROVE  d.text \in Text
  <2>1. d \in Phrases(Seq(0 .. 6))
    BY WeekdaysType
  <2> QED
    BY <2>1, InPhrases
<1> QED
  BY <1>1, <1>2 DEF HasTexts

\* How the text at each place may begin.
LEMMA DateRestBegins ==
  ASSUME NEW R, NEW F, Begins(R, F)
  PROVE  /\ Begins(YearRest(R), {"INT"}) /\ Begins(Slash2Rest(R), F \cup {"SLASH"})
         /\ Begins(DayRest(R), {"INT"}) /\ Begins(Slash1Rest(R), {"INT", "SLASH"})
         /\ Begins(MonthRest(R), {"INT"})
<1>0. R \subseteq Text /\ "SLASH" \in Keyword
  BY BeginsText DEF Keyword
<1>1. Begins(YearRest(R), {"INT"})
  BY <1>0, NumberBegins DEF YearRest
<1>2. Begins(Slash2Rest(R), F \cup {"SLASH"})
  BY <1>0, <1>1, BeginsText, WordBegins, EitherBegins DEF Slash2Rest
<1>3. Begins(DayRest(R), {"INT"})
  BY <1>2, BeginsText, NumberBegins DEF DayRest
<1>4. Begins(Slash1Rest(R), {"INT"} \cup {"SLASH"})
  BY <1>0, <1>3, BeginsText, WordBegins, EitherBegins DEF Slash1Rest
<1>5. Begins(MonthRest(R), {"INT"})
  BY <1>4, BeginsText, NumberBegins DEF MonthRest
<1>6. {"INT"} \cup {"SLASH"} = {"INT", "SLASH"}
  OBVIOUS
<1> QED
  BY <1>1, <1>2, <1>3, <1>4, <1>5, <1>6

LEMMA EOFRestBegins == Begins(EOFRest, {"EOF"})
<1>1. Tok("EOF") \in AnyToken
  BY Tokens DEF Keyword
<1>2. PICK t \in AnyToken : t = Tok("EOF") /\ t[1] = "EOF"
  BY <1>1 DEF Tok
<1>3. <<t>> \in Text /\ Len(<<t>>) = 1 /\ <<t>>[1] = t
  BY TextAppend, TextDef
<1> QED
  BY <1>2, <1>3 DEF Begins, EOFRest

LEMMA ToRestBegins == Begins(ToRest, {"TO", "EOF"})
<1>1. Begins(Word(Tok("TO"), MonthRest(EOFRest)), {"TO"})
  BY EOFRestBegins, DateRestBegins, BeginsText, WordBegins DEF Keyword
<1>2. Begins(ToRest, {"EOF"} \cup {"TO"})
  BY <1>1, EOFRestBegins, EitherBegins DEF ToRest
<1>3. {"EOF"} \cup {"TO"} = {"TO", "EOF"}
  OBVIOUS
<1> QED
  BY <1>2, <1>3

LEMMA FromRestBegins == Begins(FromRest, {"FROM", "TO", "EOF"})
<1>1. Begins(Word(Tok("FROM"), MonthRest(ToRest)), {"FROM"})
  BY ToRestBegins, DateRestBegins, BeginsText, WordBegins DEF Keyword
<1>2. Begins(FromRest, {"TO", "EOF"} \cup {"FROM"})
  BY <1>1, ToRestBegins, EitherBegins DEF FromRest
<1>3. {"TO", "EOF"} \cup {"FROM"} = {"FROM", "TO", "EOF"}
  OBVIOUS
<1> QED
  BY <1>2, <1>3

LEMMA DaysRestBegins ==
  /\ Begins(MoreDaysRest, {"FROM", "TO", "EOF", "AND"})
  /\ Begins(ThroughDayRest, {"DAY"})
  /\ Begins(ThroughRest, {"FROM", "TO", "EOF", "AND", "THROUGH"})
  /\ Begins(WeekdayRest, {"DAY"})
<1>1. Begins(MoreDaysRest, {"FROM", "TO", "EOF"} \cup {"AND"})
  BY FromRestBegins, ElementText, MoreThenBegins DEF MoreDaysRest
<1>2. {"FROM", "TO", "EOF"} \cup {"AND"} = {"FROM", "TO", "EOF", "AND"}
  OBVIOUS
<1>3. Begins(MoreDaysRest, {"FROM", "TO", "EOF", "AND"})
  BY <1>1, <1>2
<1>4. Begins(ThroughDayRest, {"DAY"})
  BY <1>3, BeginsText, DayBegins DEF ThroughDayRest
<1>5. Begins(ThroughRest, {"FROM", "TO", "EOF", "AND"} \cup {"THROUGH"})
  <2>1. Begins(Word(Tok("THROUGH"), ThroughDayRest), {"THROUGH"})
    BY <1>4, BeginsText, WordBegins DEF Keyword
  <2> QED
    BY <1>3, <2>1, EitherBegins DEF ThroughRest
<1>6. {"FROM", "TO", "EOF", "AND"} \cup {"THROUGH"} = {"FROM", "TO", "EOF", "AND", "THROUGH"}
  OBVIOUS
<1>7. Begins(WeekdayRest, {"DAY"})
  BY <1>5, BeginsText, DayBegins DEF WeekdayRest
<1> QED
  BY <1>3, <1>4, <1>5, <1>6, <1>7

LEMMA OnRestBegins == Begins(OnRest, {"FROM", "TO", "EOF", "ON"})
<1>1. Begins(Word(Tok("ON"), WeekdayRest), {"ON"})
  BY DaysRestBegins, BeginsText, WordBegins DEF Keyword
<1>2. Begins(OnRest, {"FROM", "TO", "EOF"} \cup {"ON"})
  BY <1>1, FromRestBegins, EitherBegins DEF OnRest
<1>3. {"FROM", "TO", "EOF"} \cup {"ON"} = {"FROM", "TO", "EOF", "ON"}
  OBVIOUS
<1> QED
  BY <1>2, <1>3

LEMMA MoreTimesRestBegins == Begins(MoreTimesRest, {"FROM", "TO", "EOF", "ON", "AND"})
<1>1. Begins(MoreTimesRest, {"FROM", "TO", "EOF", "ON"} \cup {"AND"})
  BY OnRestBegins, ElementText, MoreThenBegins DEF MoreTimesRest
<1>2. {"FROM", "TO", "EOF", "ON"} \cup {"AND"} = {"FROM", "TO", "EOF", "ON", "AND"}
  OBVIOUS
<1> QED
  BY <1>1, <1>2

LEMMA MarkRestBegins == Begins(MarkRest, {"FROM", "TO", "EOF", "ON", "AND", "AM", "PM"})
<1>1. /\ Begins(Word(Tok("AM"), MoreTimesRest), {"AM"})
      /\ Begins(Word(Tok("PM"), MoreTimesRest), {"PM"})
  BY MoreTimesRestBegins, BeginsText, WordBegins DEF Keyword
<1>2. Begins(MarkRest, ({"FROM", "TO", "EOF", "ON", "AND"} \cup {"AM"}) \cup {"PM"})
  BY <1>1, MoreTimesRestBegins, EitherBegins DEF MarkRest
<1>3. ({"FROM", "TO", "EOF", "ON", "AND"} \cup {"AM"}) \cup {"PM"}
        = {"FROM", "TO", "EOF", "ON", "AND", "AM", "PM"}
  OBVIOUS
<1> QED
  BY <1>2, <1>3

LEMMA TimeRestBegins ==
  /\ Begins(SecondsRest, {"INT"}) /\ Begins(MinutesRest, {"INT"})
  /\ Begins(Colon2Rest, {"FROM", "TO", "EOF", "ON", "AND", "AM", "PM"} \cup {"COLON"})
  /\ Begins(Colon1Rest, {"FROM", "TO", "EOF", "ON", "AND", "AM", "PM"} \cup {"COLON"})
  /\ Begins(HoursRest, {"INT"}) /\ Begins(AtRest, {"AT"})
<1>0. "COLON" \in Keyword /\ "AT" \in Keyword
  BY DEF Keyword
<1>1. Begins(SecondsRest, {"INT"})
  BY MarkRestBegins, BeginsText, NumberBegins DEF SecondsRest
<1>2. Begins(Colon2Rest, {"FROM", "TO", "EOF", "ON", "AND", "AM", "PM"} \cup {"COLON"})
  <2>1. Begins(Word(Tok("COLON"), SecondsRest), {"COLON"})
    BY <1>0, <1>1, BeginsText, WordBegins
  <2> QED
    BY <2>1, MarkRestBegins, EitherBegins DEF Colon2Rest
<1>3. Begins(MinutesRest, {"INT"})
  BY <1>2, BeginsText, NumberBegins DEF MinutesRest
<1>4. Begins(Colon1Rest, {"FROM", "TO", "EOF", "ON", "AND", "AM", "PM"} \cup {"COLON"})
  <2>1. Begins(Word(Tok("COLON"), MinutesRest), {"COLON"})
    BY <1>0, <1>3, BeginsText, WordBegins
  <2> QED
    BY <2>1, MarkRestBegins, EitherBegins DEF Colon1Rest
<1>5. Begins(HoursRest, {"INT"})
  BY <1>4, BeginsText, NumberBegins DEF HoursRest
<1>6. Begins(AtRest, {"AT"})
  BY <1>0, <1>5, BeginsText, WordBegins DEF AtRest
<1> QED
  BY <1>1, <1>2, <1>3, <1>4, <1>5, <1>6

-----------------------------------------------------------------------------
(* Each part of a sentence leads from what may come before it to what may  *)
(* come behind it.                                                         *)

\* Every phrase of A before a text of R makes a text of Q.
Leads(A, R, Q) == \A a \in A, z \in R : a.text \o z \in Q

\* A tuple of tokens before a text, token by token.
LEMMA TwoThen ==
  ASSUME NEW a \in AnyToken, NEW b \in AnyToken, NEW z \in Text
  PROVE  <<a, b>> \o z = <<a>> \o (<<b>> \o z)
<1>1. <<a>> \in Text
  BY TextAppend, TextDef
<1>2. Append(<<a>>, b) = <<a, b>>
  BY Pair
<1>3. Append(<<a>>, b) \o z = <<a>> \o (<<b>> \o z)
  BY <1>1, TextAppendIn
<1> QED
  BY <1>2, <1>3

LEMMA ThreeThen ==
  ASSUME NEW a \in AnyToken, NEW b \in AnyToken, NEW c \in AnyToken, NEW z \in Text
  PROVE  <<a, b, c>> \o z = <<a>> \o (<<b>> \o (<<c>> \o z))
<1>1. PICK y \in Text : y = <<c>> \o z
  BY TextAppend, TextDef, TextConcat
<1>2. PICK s \in Text : s = <<a, b>>
  <2>1. <<a, b>> \in Text
    BY TextDef
  <2> QED
    BY <2>1
<1>3. Append(s, c) = <<a, b, c>>
  BY <1>2, Triple
<1>4. Append(s, c) \o z = s \o (<<c>> \o z)
  BY TextAppendIn
<1>5. <<a, b>> \o y = <<a>> \o (<<b>> \o y)
  BY TwoThen
<1> QED
  BY <1>1, <1>2, <1>3, <1>4, <1>5

\* The texts of a time on the clock.
LEMMA ClockText ==
  ASSUME NEW p \in Clock
  PROVE  \/ \E h \in Numbers : p.text = <<Num(h)>>
         \/ \E h, m \in Numbers : p.text = <<Num(h), Tok("COLON"), Num(m)>>
         \/ \E h, m, s \in Numbers : p.text = <<Num(h), Tok("COLON"), Num(m), Tok("COLON"), Num(s)>>
<1> DEFINE T1(i)       == <<Num(i)>>
           T2(i, j)    == <<Num(i), Tok("COLON"), Num(j)>>
           T3(i, j, k) == <<Num(i), Tok("COLON"), Num(j), Tok("COLON"), Num(k)>>
           M1(i)       == <<i, 0, 0>>
           M2(i, j)    == <<i, j, 0>>
           M3(i, j, k) == <<i, j, k>>
           C1 == {Phrase(T1(i), M1(i)) : i \in Numbers}
           C2 == {Phrase(T2(i, j), M2(i, j)) : i, j \in Numbers}
           C3 == {Phrase(T3(i, j, k), M3(i, j, k)) : i, j, k \in Numbers}
<1>1. Clock = (C1 \cup C2) \cup C3
  BY DEF Clock
<1>2. p \in C1 \/ p \in C2 \/ p \in C3
  <2> HIDE DEF C1, C2, C3
  <2> QED
    BY <1>1
<1> HIDE DEF T1, T2, T3, M1, M2, M3
<1>3. CASE p \in C1
  <2>1. \E h \in Numbers : p.text = T1(h)
    BY <1>3, PhraseFields
  <2> QED
    BY <2>1 DEF T1
<1>4. CASE p \in C2
  <2>1. \E h, m \in Numbers : p.text = T2(h, m)
    BY <1>4, PhraseFields
  <2> QED
    BY <2>1 DEF T2
<1>5. CASE p \in C3
  <2>1. \E h, m, s \in Numbers : p.text = T3(h, m, s)
    BY <1>5, PhraseFields
  <2> QED
    BY <2>1 DEF T3
<1> QED
  BY <1>2, <1>3, <1>4, <1>5

LEMMA ClockLeads == Leads(Clock, MarkRest, HoursRest)
<1> SUFFICES ASSUME NEW p \in Clock, NEW z \in MarkRest
             PROVE  p.text \o z \in HoursRest
  BY DEF Leads
<1>1. z \in Text
  BY MarkRestBegins, BeginsText
<1>2. PICK colon \in AnyToken : colon = Tok("COLON")
  BY Tokens DEF Keyword
<1>3. \A n \in Numbers : Num(n) \in AnyToken
  BY Tokens
<1>4. z \in Colon1Rest /\ z \in Colon2Rest
  BY DEF Colon1Rest, Colon2Rest
<1>5. CASE \E h \in Numbers : p.text = <<Num(h)>>
  BY <1>4, <1>5, NumberMade DEF HoursRest
<1>6. CASE \E h, m \in Numbers : p.text = <<Num(h), Tok("COLON"), Num(m)>>
  <2>1. PICK h \in Numbers, m \in Numbers : p.text = <<Num(h), colon, Num(m)>>
    BY <1>2, <1>6
  <2>2. PICK y : y = <<Num(m)>> \o z
    OBVIOUS
  <2>3. y \in MinutesRest
    BY <1>4, <2>2, NumberMade DEF MinutesRest
  <2>4. PICK x : x = <<colon>> \o y
    OBVIOUS
  <2>5. x \in Colon1Rest
    BY <1>2, <2>3, <2>4, WordMade DEF Colon1Rest
  <2>6. <<Num(h)>> \o x \in HoursRest
    BY <2>5, NumberMade DEF HoursRest
  <2>7. <<Num(h), colon, Num(m)>> \o z = <<Num(h)>> \o x
    BY <1>1, <1>3, <2>2, <2>4, ThreeThen
  <2> QED
    BY <2>1, <2>6, <2>7
<1>7. CASE \E h, m, s \in Numbers :
             p.text = <<Num(h), Tok("COLON"), Num(m), Tok("COLON"), Num(s)>>
  <2>1. PICK h \in Numbers, m \in Numbers, s \in Numbers :
          p.text = <<Num(h), colon, Num(m), colon, Num(s)>>
    BY <1>2, <1>7
  <2>2. PICK v : v = <<Num(s)>> \o z
    OBVIOUS
  <2>3. v \in SecondsRest
    BY <2>2, NumberMade DEF SecondsRest
  <2>4. PICK w : w = <<colon>> \o v
    OBVIOUS
  <2>5. w \in Colon2Rest
    BY <1>2, <2>3, <2>4, WordMade DEF Colon2Rest
  <2>6. PICK y : y = <<Num(m)>> \o w
    OBVIOUS
  <2>7. y \in MinutesRest
    BY <2>5, <2>6, NumberMade DEF MinutesRest
  <2>8. PICK x : x = <<colon>> \o y
    OBVIOUS
  <2>9. x \in Colon1Rest
    BY <1>2, <2>7, <2>8, WordMade DEF Colon1Rest
  <2>10. <<Num(h)>> \o x \in HoursRest
    BY <2>9, NumberMade DEF HoursRest
  <2>11. <<Num(h), colon, Num(m), colon, Num(s)>> \o z = <<Num(h)>> \o x
    <3>1. PICK a \in AnyToken : a = Num(h)
      BY <1>3
    <3>2. PICK b \in AnyToken : b = Num(m)
      BY <1>3
    <3>3. PICK c \in AnyToken : c = Num(s)
      BY <1>3
    <3>4. PICK z1 \in Text : z1 = z
      BY <1>1
    <3>5. v \in Text /\ w \in Text
      BY <2>2, <2>4, <3>3, <3>4, TextAppend, TextDef, TextConcat
    <3>6. PICK q \in Text : q = <<a, colon, b>>
      <4>1. <<a, colon, b>> \in Text
        BY TextDef
      <4> QED
        BY <4>1
    <3>7. PICK t \in Text : t = <<a, colon, b, colon>>
      <4>1. <<a, colon, b, colon>> \in Text
        BY TextDef
      <4> QED
        BY <4>1
    <3>8. Append(q, colon) = t /\ Append(t, c) = <<a, colon, b, colon, c>>
      BY <3>6, <3>7, Quadruple, Quintuple
    <3>9. Append(t, c) \o z1 = t \o (<<c>> \o z1)
      BY TextAppendIn
    <3>10. Append(q, colon) \o v = q \o (<<colon>> \o v)
      BY <3>5, TextAppendIn
    <3>11. <<a, colon, b>> \o w = <<a>> \o (<<colon>> \o (<<b>> \o w))
      <4>1. w \in Text
        BY <3>5
      <4>2. <<a, colon>> \in Text
        BY TextDef
      <4>3. Append(<<a, colon>>, b) = <<a, colon, b>>
        BY Triple
      <4>4. Append(<<a, colon>>, b) \o w = <<a, colon>> \o (<<b>> \o w)
        BY <4>1, <4>2, TextAppendIn
      <4>5. y \in Text
        BY <2>6, <3>2, <4>1, TextAppend, TextDef, TextConcat
      <4>6. <<a, colon>> \o y = <<a>> \o (<<colon>> \o y)
        BY <4>5, TwoThen
      <4> QED
        BY <2>6, <3>2, <4>3, <4>4, <4>6
    <3>12. <<a, colon, b, colon, c>> \o z1 = <<a>> \o x
      BY <2>2, <2>4, <2>6, <2>8, <3>2, <3>3, <3>4, <3>6, <3>8, <3>9, <3>10, <3>11
    <3> QED
      BY <3>1, <3>2, <3>3, <3>4, <3>12
  <2> QED
    BY <2>1, <2>10, <2>11
<1> QED
  BY <1>5, <1>6, <1>7, ClockText

LEMMA TimesLead == Leads(Times, MoreTimesRest, HoursRest)
<1> SUFFICES ASSUME NEW p \in Times, NEW z \in MoreTimesRest
             PROVE  p.text \o z \in HoursRest
  BY DEF Leads
<1>1. PICK c \in Clock, mark \in Mark : p = Marked(c, mark)
  BY DEF Times
<1>2. PICK m \in Text : m = IF mark = "" THEN <<>> ELSE <<Tok(mark)>>
  BY MarkType
<1>3. p.text = c.text \o m
  BY <1>1, <1>2, PhraseFields DEF Marked
<1>4. z \in Text
  BY MoreTimesRestBegins, BeginsText
<1>5. m \o z \in MarkRest
  <2>1. CASE mark = ""
    <3>1. m \o z = z
      BY <1>2, <1>4, <2>1, TextConcat
    <3> QED
      BY <3>1 DEF MarkRest
  <2>2. CASE mark = "AM"
    <3>1. m = <<Tok("AM")>>
      BY <1>2, <2>2
    <3> QED
      BY <3>1, WordMade DEF MarkRest
  <2>3. CASE mark = "PM"
    <3>1. m = <<Tok("PM")>>
      BY <1>2, <2>3
    <3> QED
      BY <3>1, WordMade DEF MarkRest
  <2> QED
    BY <2>1, <2>2, <2>3 DEF Mark
<1>6. PICK s \in Text : s = c.text
  BY ClockType, InPhrases
<1>7. (s \o m) \o z = s \o (m \o z)
  BY <1>4, TextRegroup
<1>8. c.text \o (m \o z) \in HoursRest
  BY <1>5, ClockLeads DEF Leads
<1> QED
  BY <1>3, <1>6, <1>7, <1>8

LEMMA WeekdaysLead == Leads(Weekdays, MoreDaysRest, WeekdayRest)
<1> SUFFICES ASSUME NEW p \in Weekdays, NEW z \in MoreDaysRest
             PROVE  p.text \o z \in WeekdayRest
  BY DEF Leads
<1>1. z \in Text /\ z \in ThroughRest
  BY DaysRestBegins, BeginsText DEF ThroughRest
<1>2. CASE \E d \in Days : p = Phrase(<<Day(d)>>, <<d>>)
  <2>1. PICK d \in Days : p = Phrase(<<Day(d)>>, <<d>>)
    BY <1>2
  <2>2. p.text = <<Day(d)>>
    BY <2>1, PhraseFields
  <2> QED
    BY <1>1, <2>2, DayThenMade DEF WeekdayRest
<1>3. CASE \E d, e \in Days : p = Phrase(<<Day(d), Tok("THROUGH"), Day(e)>>, Through(d, e))
  <2>1. PICK d \in Days, e \in Days : p = Phrase(<<Day(d), Tok("THROUGH"), Day(e)>>, Through(d, e))
    BY <1>3
  <2>2. p.text = <<Day(d), Tok("THROUGH"), Day(e)>>
    BY <2>1, PhraseFields
  <2>3. PICK y : y = <<Day(e)>> \o z
    OBVIOUS
  <2>4. y \in ThroughDayRest
    BY <2>3, DayThenMade DEF ThroughDayRest
  <2>5. PICK x : x = <<Tok("THROUGH")>> \o y
    OBVIOUS
  <2>6. x \in ThroughRest
    BY <2>4, <2>5, WordMade DEF ThroughRest
  <2>7. <<Day(d)>> \o x \in WeekdayRest
    BY <2>6, DayThenMade DEF WeekdayRest
  <2>8. <<Day(d), Tok("THROUGH"), Day(e)>> \o z = <<Day(d)>> \o x
    <3>1. Day(d) \in AnyToken /\ Day(e) \in AnyToken /\ Tok("THROUGH") \in AnyToken
      BY Tokens DEF Keyword
    <3> QED
      BY <1>1, <2>3, <2>5, <3>1, ThreeThen
  <2> QED
    BY <2>2, <2>7, <2>8
<1>4. p \in {Phrase(<<Day(d)>>, <<d>>) : d \in Days} \/
        \E d, e \in Days : p = Phrase(<<Day(d), Tok("THROUGH"), Day(e)>>, Through(d, e))
  <2> DEFINE One(d)     == Phrase(<<Day(d)>>, <<d>>)
             Span(d, e) == Phrase(<<Day(d), Tok("THROUGH"), Day(e)>>, Through(d, e))
  <2>1. Weekdays = {One(d) : d \in Days} \cup {Span(d, e) : d, e \in Days}
    BY DEF Weekdays
  <2> HIDE DEF One, Span
  <2>2. p \in {One(d) : d \in Days} \/ \E d, e \in Days : p = Span(d, e)
    BY <2>1
  <2> QED
    BY <2>2 DEF One, Span
<1> QED
  BY <1>2, <1>3, <1>4

LEMMA MonthDayText ==
  ASSUME NEW p \in ShortDates
  PROVE  \/ \E m, d \in Numbers : p.text = <<Num(m), Num(d)>>
         \/ \E m, d \in Numbers : p.text = <<Num(m), Tok("SLASH"), Num(d)>>
<1>1. PICK m \in Numbers, slash \in Slash, d \in Numbers : p = MonthDay(m, slash, d)
  BY DEF ShortDates
<1>2. p.text = <<Num(m)>> \o slash \o <<Num(d)>>
  BY <1>1, PhraseFields DEF MonthDay
<1>3. Num(m) \in AnyToken /\ Num(d) \in AnyToken /\ Tok("SLASH") \in AnyToken
  BY Tokens DEF Keyword
<1>4. <<Num(m)>> \in Text
  BY <1>3, TextAppend, TextDef
<1>5. CASE slash = <<>>
  <2>1. <<Num(m)>> \o <<>> = <<Num(m)>>
    BY <1>4, TextConcat
  <2>2. <<Num(m)>> \o <<Num(d)>> = Append(<<Num(m)>>, Num(d))
    BY <1>3, <1>4, TextAppend
  <2>3. Append(<<Num(m)>>, Num(d)) = <<Num(m), Num(d)>>
    BY <1>3, Pair
  <2>4. p.text = <<Num(m), Num(d)>>
    BY <1>2, <1>5, <2>1, <2>2, <2>3
  <2> QED
    BY <2>4
<1>6. CASE slash = <<Tok("SLASH")>>
  <2>1. <<Num(m)>> \o <<Tok("SLASH")>> = Append(<<Num(m)>>, Tok("SLASH"))
    BY <1>3, <1>4, TextAppend
  <2>2. Append(<<Num(m)>>, Tok("SLASH")) = <<Num(m), Tok("SLASH")>>
    BY <1>3, Pair
  <2>3. <<Num(m), Tok("SLASH")>> \in Text
    BY <1>3, TextDef
  <2>4. <<Num(m), Tok("SLASH")>> \o <<Num(d)>> = Append(<<Num(m), Tok("SLASH")>>, Num(d))
    BY <1>3, <2>3, TextAppend
  <2>5. Append(<<Num(m), Tok("SLASH")>>, Num(d)) = <<Num(m), Tok("SLASH"), Num(d)>>
    BY <1>3, Triple
  <2>6. p.text = <<Num(m), Tok("SLASH"), Num(d)>>
    BY <1>2, <1>6, <2>1, <2>2, <2>4, <2>5
  <2> QED
    BY <2>6
<1> QED
  BY <1>5, <1>6 DEF Slash

LEMMA ShortDatesLead ==
  ASSUME NEW R, R \subseteq Text
  PROVE  Leads(ShortDates, Slash2Rest(R), MonthRest(R)) /\ HasTexts(ShortDates)
<1>1. \A n \in Numbers : Num(n) \in AnyToken
  BY Tokens
<1>2. PICK slash \in AnyToken : slash = Tok("SLASH")
  BY Tokens DEF Keyword
<1>3. ASSUME NEW p \in ShortDates, NEW z \in Text
      PROVE  /\ p.text \in Text
             /\ z \in Slash2Rest(R) => p.text \o z \in MonthRest(R)
  <2>1. CASE \E m, d \in Numbers : p.text = <<Num(m), Num(d)>>
    <3>1. PICK m \in Numbers, d \in Numbers : p.text = <<Num(m), Num(d)>>
      BY <2>1
    <3>2. Num(m) \in AnyToken /\ Num(d) \in AnyToken
      BY <1>1
    <3>3. <<Num(m), Num(d)>> \in Text
      BY <3>2, TextDef
    <3>4. ASSUME z \in Slash2Rest(R)
          PROVE  p.text \o z \in MonthRest(R)
      <4>1. PICK y : y = <<Num(d)>> \o z
        OBVIOUS
      <4>2. y \in Slash1Rest(R)
        BY <3>4, <4>1, NumberMade DEF Slash1Rest, DayRest
      <4>3. <<Num(m)>> \o y \in MonthRest(R)
        BY <4>2, NumberMade DEF MonthRest
      <4>4. <<Num(m), Num(d)>> \o z = <<Num(m)>> \o (<<Num(d)>> \o z)
        BY <3>2, TwoThen
      <4> QED
        BY <3>1, <4>1, <4>3, <4>4
    <3> QED
      BY <3>1, <3>3, <3>4
  <2>2. CASE \E m, d \in Numbers : p.text = <<Num(m), Tok("SLASH"), Num(d)>>
    <3>1. PICK m \in Numbers, d \in Numbers : p.text = <<Num(m), slash, Num(d)>>
      BY <1>2, <2>2
    <3>2. Num(m) \in AnyToken /\ Num(d) \in AnyToken
      BY <1>1
    <3>3. <<Num(m), slash, Num(d)>> \in Text
      BY <3>2, TextDef
    <3>4. ASSUME z \in Slash2Rest(R)
          PROVE  p.text \o z \in MonthRest(R)
      <4>1. PICK y : y = <<Num(d)>> \o z
        OBVIOUS
      <4>2. y \in DayRest(R)
        BY <3>4, <4>1, NumberMade DEF DayRest
      <4>3. PICK x : x = <<slash>> \o y
        OBVIOUS
      <4>4. x \in Slash1Rest(R)
        BY <1>2, <4>2, <4>3, WordMade DEF Slash1Rest
      <4>5. <<Num(m)>> \o x \in MonthRest(R)
        BY <4>4, NumberMade DEF MonthRest
      <4>6. <<Num(m), slash, Num(d)>> \o z = <<Num(m)>> \o (<<slash>> \o (<<Num(d)>> \o z))
        BY <3>2, ThreeThen
      <4> QED
        BY <3>1, <4>1, <4>3, <4>5, <4>6
    <3> QED
      BY <3>1, <3>3, <3>4
  <2> QED
    BY <2>1, <2>2, MonthDayText
<1>4. Slash2Rest(R) \subseteq Text
  <2>1. ASSUME NEW r \in Word(slash, YearRest(R))
        PROVE  r \in Text
    <3>1. YearRest(R) \subseteq Text
      BY NumberBegins, BeginsText DEF YearRest
    <3> QED
      BY <3>1, WordText
  <2> QED
    BY <1>2, <2>1 DEF Slash2Rest
<1> QED
  BY <1>3, <1>4, TextDef DEF Leads, HasTexts

LEMMA YearsLead ==
  ASSUME NEW R, R \subseteq Text
  PROVE  Leads(Years, R, Slash2Rest(R)) /\ HasTexts(Years)
<1>1. ASSUME NEW p \in Years
      PROVE  /\ p.text \in Text
             /\ \A z \in R : p.text \o z \in Slash2Rest(R)
  <2>1. PICK y \in Numbers : p = Phrase(<<Tok("SLASH"), Num(y)>>, IF y < 100 THEN y + Century ELSE y)
    BY DEF Years
  <2>2. p.text = <<Tok("SLASH"), Num(y)>>
    BY <2>1, PhraseFields
  <2>3. Tok("SLASH") \in AnyToken /\ Num(y) \in AnyToken
    BY Tokens DEF Keyword
  <2>4. <<Tok("SLASH"), Num(y)>> \in Text
    BY <2>3, TextDef
  <2>5. ASSUME NEW z \in R
        PROVE  p.text \o z \in Slash2Rest(R)
    <3>1. PICK x : x = <<Num(y)>> \o z
      OBVIOUS
    <3>2. x \in YearRest(R)
      BY <3>1, NumberMade DEF YearRest
    <3>3. <<Tok("SLASH")>> \o x \in Slash2Rest(R)
      BY <3>2, WordMade DEF Slash2Rest
    <3>4. <<Tok("SLASH"), Num(y)>> \o z = <<Tok("SLASH")>> \o (<<Num(y)>> \o z)
      BY <2>3, TwoThen
    <3> QED
      BY <2>2, <3>1, <3>3, <3>4
  <2> QED
    BY <2>2, <2>4, <2>5
<1> QED
  BY <1>1 DEF Leads, HasTexts

\* A phrase and one behind it.
LEMMA BothLead ==
  ASSUME NEW A, NEW B, NEW P, NEW Q, NEW R, HasTexts(A), HasTexts(B), R \subseteq Text,
         Leads(B, R, Q), Leads(A, Q, P), NEW a \in A, NEW b \in B, NEW z \in R
  PROVE  (a.text \o b.text) \o z \in P
<1>1. PICK s \in Text : s = a.text
  BY DEF HasTexts
<1>2. PICK t \in Text : t = b.text
  BY DEF HasTexts
<1>3. PICK y : y = t \o z
  OBVIOUS
<1>4. y \in Q
  BY <1>2, <1>3 DEF Leads
<1>5. s \o y \in P
  BY <1>1, <1>4 DEF Leads
<1>6. z \in Text
  OBVIOUS
<1>7. (s \o t) \o z = s \o (t \o z)
  BY <1>6, TextRegroup
<1> QED
  BY <1>1, <1>2, <1>3, <1>5, <1>7

LEMMA BothText ==
  ASSUME NEW A, NEW B, HasTexts(A), HasTexts(B), NEW a \in A, NEW b \in B
  PROVE  a.text \o b.text \in Text
<1>1. PICK s \in Text : s = a.text
  BY DEF HasTexts
<1>2. PICK t \in Text : t = b.text
  BY DEF HasTexts
<1>3. s \o t \in Text
  BY TextConcat
<1> QED
  BY <1>1, <1>2, <1>3

LEMMA DatesLead ==
  ASSUME NEW R, R \subseteq Text
  PROVE  Leads(Dates, R, MonthRest(R)) /\ HasTexts(Dates)
<1>1. Leads(ShortDates, Slash2Rest(R), MonthRest(R)) /\ HasTexts(ShortDates)
  BY ShortDatesLead
<1>2. Leads(Years, R, Slash2Rest(R)) /\ HasTexts(Years)
  BY YearsLead
<1>3. ASSUME NEW p \in Dates
      PROVE  p.text \in Text /\ \A z \in R : p.text \o z \in MonthRest(R)
  <2>1. CASE p \in ShortDates
    <3>1. R \subseteq Slash2Rest(R)
      BY DEF Slash2Rest
    <3> QED
      BY <1>1, <2>1, <3>1 DEF Leads, HasTexts
  <2>2. CASE p \notin ShortDates
    <3>1. PICK a \in ShortDates, b \in Years : p.text = a.text \o b.text
      <4> DEFINE New(d, z) == [d EXCEPT !.year = z]
                 J == {Phrase(q[1].text \o q[2].text, New(q[1].means, q[2].means)) :
                         q \in {r \in ShortDates \X Years : Len(r[1].text) + Len(r[2].text) <= MaxTokens}}
      <4>1. Dates = ShortDates \cup J
        BY DEF Dates, Join
      <4> HIDE DEF New
      <4>2. PICK q \in ShortDates \X Years :
              p = Phrase(q[1].text \o q[2].text, New(q[1].means, q[2].means))
        BY <2>2, <4>1
      <4>3. PICK u, m : u = q[1].text \o q[2].text /\ m = New(q[1].means, q[2].means)
        OBVIOUS
      <4>4. p = Phrase(u, m)
        BY <4>2, <4>3
      <4>5. Phrase(u, m).text = u
        BY PhraseFields
      <4> QED
        BY <4>3, <4>4, <4>5
    <3>2. p.text \in Text
      BY <1>1, <1>2, <3>1, BothText
    <3>3. ASSUME NEW z \in R
          PROVE  p.text \o z \in MonthRest(R)
      <4>1. (a.text \o b.text) \o z \in MonthRest(R)
        BY <1>1, <1>2, BothLead
      <4> QED
        BY <3>1, <4>1
    <3> QED
      BY <3>2, <3>3
  <2> QED
    BY <2>1, <2>2
<1> QED
  BY <1>3 DEF Leads, HasTexts

\* Each list of A is an element of A with any number of elements behind it.
LEMMA ListIsMore ==
  ASSUME NEW A, HasTexts(A), NEW L, L[1] = A,
         \A n \in 2 .. MaxTokens : L[n] = More(A, L[n - 1]),
         NEW k \in 1 .. MaxTokens, NEW p \in L[k]
  PROVE  \E a \in A, x \in AndMore(A) : p.text = a.text \o x
<1> DEFINE Good(n) == \A q \in L[n] : \E a \in A, x \in AndMore(A) : q.text = a.text \o x
           Bad     == {n \in 1 .. MaxTokens : ~Good(n)}
<1> SUFFICES \A n \in 1 .. MaxTokens : Good(n)
  OBVIOUS
<1> SUFFICES ASSUME Bad # {}
             PROVE  FALSE
  OBVIOUS
<1>1. MaxTokens \in Nat
  BY GrammarAssumption
<1>2. PICK m \in Bad : \A n \in Bad : m <= n
  <2>1. Bad \subseteq Nat
    BY <1>1
  <2> HIDE DEF Bad
  <2> QED
    BY <2>1, LeastNat
<1>3. m \in 1 .. MaxTokens /\ ~Good(m)
  OBVIOUS
<1>4. CASE m = 1
  <2>1. ASSUME NEW a \in A
        PROVE  a.text = a.text \o <<>>
    BY TextConcat DEF HasTexts
  <2> QED
    BY <1>3, <1>4, <2>1, AndMoreNone
<1>5. CASE m # 1
  <2>1. m \in 2 .. MaxTokens /\ m - 1 \in 1 .. MaxTokens /\ ~ (m <= m - 1)
    BY <1>1, <1>3, <1>5
  <2>2. Good(m - 1)
    BY <1>2, <2>1
  <2>3. PICK P : P = L[m - 1]
    OBVIOUS
  <2>4. \A q \in P : \E a \in A, x \in AndMore(A) : q.text = a.text \o x
    BY <2>2, <2>3
  <2>5. L[m] = More(A, P)
    BY <2>1, <2>3
  <2>6. ASSUME NEW r \in More(A, P)
        PROVE  \E a \in A, x \in AndMore(A) : r.text = a.text \o x
    <3>1. PICK q \in P, b \in A : r = WithAnd(q, b)
      BY MoreParts
    <3>2. PICK a \in A, x \in AndMore(A) : q.text = a.text \o x
      BY <2>4
    <3>3. PICK e : e = <<Tok("AND")>> \o b.text
      OBVIOUS
    <3>4. x \o e \in AndMore(A)
      BY <3>3, AndMoreLast
    <3>5. PICK s \in Text : s = a.text
      BY DEF HasTexts
    <3>6. x \in Text /\ e \in Text
      <4>1. <<Tok("AND")>> \in Text /\ b.text \in Text
        BY TokenNumberText DEF Keyword, HasTexts
      <4> QED
        BY <3>3, <4>1, AndMoreText, TextConcat
    <3>7. (s \o x) \o e = s \o (x \o e)
      BY <3>6, TextRegroup
    <3>8. r.text = q.text \o e
      BY <3>1, <3>3, PhraseFields DEF WithAnd
    <3> QED
      BY <3>2, <3>4, <3>5, <3>7, <3>8
  <2>7. Good(m)
    <3>1. \A q \in L[m] : q \in More(A, P)
      BY <2>5
    <3> QED
      BY <2>6, <3>1
  <2> QED
    BY <1>3, <2>7
<1> QED
  BY <1>4, <1>5

LEMMA ListLeads ==
  ASSUME NEW A, HasTexts(A), NEW R, R \subseteq Text, NEW Q, Leads(A, MoreThen(A, R), Q)
  PROVE  Leads(List(A), R, Q) /\ HasTexts(List(A))
<1>1. PICK L : /\ List(A) = UNION {L[n] : n \in 1 .. MaxTokens} /\ L[1] = A
               /\ \A n \in 2 .. MaxTokens : L[n] = More(A, L[n - 1])
  BY ListUnfold
<1>2. ASSUME NEW p \in List(A)
      PROVE  p.text \in Text /\ \A z \in R : p.text \o z \in Q
  <2>1. PICK k \in 1 .. MaxTokens : p \in L[k]
    BY <1>1
  <2>2. PICK a \in A, x \in AndMore(A) : p.text = a.text \o x
    BY <1>1, <2>1, ListIsMore
  <2>3. PICK s \in Text : s = a.text
    BY DEF HasTexts
  <2>4. x \in Text
    BY AndMoreText
  <2>5. p.text \in Text
    BY <2>2, <2>3, <2>4, TextConcat
  <2>6. ASSUME NEW z \in R
        PROVE  p.text \o z \in Q
    <3>1. PICK y : y = x \o z
      OBVIOUS
    <3>2. y \in MoreThen(A, R)
      BY <3>1, MoreThenMade
    <3>3. s \o y \in Q
      BY <2>3, <3>2 DEF Leads
    <3>4. (s \o x) \o z = s \o (x \o z)
      BY <2>4, TextRegroup
    <3> QED
      BY <2>2, <2>3, <3>1, <3>3, <3>4
  <2> QED
    BY <2>5, <2>6
<1> QED
  BY <1>2 DEF Leads, HasTexts

\* A part with a keyword before it, and a part that may be absent.
LEMMA AfterLeads ==
  ASSUME NEW A, HasTexts(A), NEW R, R \subseteq Text, NEW Q, Leads(A, R, Q), NEW ty \in Keyword
  PROVE  Leads(After(ty, A), R, Word(Tok(ty), Q)) /\ HasTexts(After(ty, A))
<1>1. PICK key \in Text : key = <<Tok(ty)>>
  BY TokenNumberText
<1>2. ASSUME NEW p \in After(ty, A)
      PROVE  p.text \in Text /\ \A z \in R : p.text \o z \in Word(Tok(ty), Q)
  <2>1. PICK a \in A : p = Phrase(<<Tok(ty)>> \o a.text, a.means)
    BY DEF After
  <2>2. PICK s \in Text : s = a.text
    BY DEF HasTexts
  <2>3. PICK u : u = <<Tok(ty)>> \o a.text
    OBVIOUS
  <2>4. p.text = u
    BY <2>1, <2>3, PhraseFields
  <2>5. u \in Text
    BY <1>1, <2>2, <2>3, TextConcat
  <2>6. ASSUME NEW z \in R
        PROVE  p.text \o z \in Word(Tok(ty), Q)
    <3>1. s \o z \in Q
      BY <2>2 DEF Leads
    <3>2. (key \o s) \o z = key \o (s \o z)
      BY TextRegroup
    <3>3. PICK y \in Q : y = s \o z
      BY <3>1
    <3>4. <<Tok(ty)>> \o y \in Word(Tok(ty), Q)
      BY WordMade
    <3> QED
      BY <1>1, <2>2, <2>3, <2>4, <3>2, <3>3, <3>4
  <2> QED
    BY <2>4, <2>5, <2>6
<1> QED
  BY <1>2 DEF Leads, HasTexts

LEMMA OptionalLeads ==
  ASSUME NEW A, HasTexts(A), NEW R, R \subseteq Text, NEW Q, Leads(A, R, Q), NEW default
  PROVE  Leads(Optional(A, default), R, R \cup Q) /\ HasTexts(Optional(A, default))
<1>1. PICK none : none = Phrase(<<>>, default)
  OBVIOUS
<1>2. none.text = <<>>
  BY <1>1, PhraseFields
<1>3. \A z \in R : <<>> \o z = z
  BY TextConcat
<1>4. Optional(A, default) = A \cup {none}
  BY <1>1 DEF Optional
<1> QED
  BY <1>2, <1>3, <1>4, TextDef DEF Leads, HasTexts

LEMMA JoinLeads ==
  ASSUME NEW A, NEW B, HasTexts(A), HasTexts(B), NEW R, R \subseteq Text, NEW Q, Leads(B, R, Q),
         NEW P, Leads(A, Q, P)
  PROVE  Leads(Join(A, B, Append), R, P) /\ HasTexts(Join(A, B, Append))
<1>1. ASSUME NEW r \in Join(A, B, Append)
      PROVE  r.text \in Text /\ \A z \in R : r.text \o z \in P
  <2>1. PICK a \in A, b \in B : r.text = a.text \o b.text
    <3>1. PICK q \in A \X B : r = Phrase(q[1].text \o q[2].text, Append(q[1].means, q[2].means))
      BY DEF Join
    <3>2. PICK u, m : u = q[1].text \o q[2].text /\ m = Append(q[1].means, q[2].means)
      OBVIOUS
    <3>3. r = Phrase(u, m)
      BY <3>1, <3>2
    <3>4. Phrase(u, m).text = u
      BY PhraseFields
    <3> QED
      BY <3>2, <3>3, <3>4
  <2>2. r.text \in Text
    BY <2>1, BothText
  <2>3. ASSUME NEW z \in R
        PROVE  r.text \o z \in P
    BY <2>1, BothLead
  <2> QED
    BY <2>2, <2>3
<1> QED
  BY <1>1 DEF Leads, HasTexts

\* What a sentence says: each of them may come where the parser begins.
LEMMA SentenceRest ==
  ASSUME NEW s \in Sentences
  PROVE  s.text \in AtRest
<1>1. /\ EOFRest \subseteq Text /\ ToRest \subseteq Text /\ FromRest \subseteq Text
      /\ MoreDaysRest \subseteq Text /\ OnRest \subseteq Text /\ MoreTimesRest \subseteq Text
  BY EOFRestBegins, ToRestBegins, FromRestBegins, DaysRestBegins, OnRestBegins,
     MoreTimesRestBegins, BeginsText
<1>2. Leads(List(Times), OnRest, HoursRest) /\ HasTexts(List(Times))
  BY <1>1, ElementText, TimesLead, ListLeads DEF MoreTimesRest
<1>3. Leads(After("AT", List(Times)), OnRest, AtRest) /\ HasTexts(After("AT", List(Times)))
  BY <1>1, <1>2, AfterLeads DEF AtRest, Keyword
<1>4. Leads(AtTimes, OnRest, AtRest) /\ HasTexts(AtTimes)
  <2>1. ASSUME NEW p \in AtTimes
        PROVE  \E t \in After("AT", List(Times)) : p.text = t.text
    <3>1. PICK t \in After("AT", List(Times)) : p = Phrase(t.text, <<t.means>>)
      BY DEF AtTimes
    <3>2. PICK m : m = <<t.means>>
      OBVIOUS
    <3>3. p.text = t.text
      BY <3>1, <3>2, PhraseFields
    <3> QED
      BY <3>3
  <2> QED
    BY <1>3, <2>1 DEF Leads, HasTexts
<1>5. Leads(List(Weekdays), FromRest, WeekdayRest) /\ HasTexts(List(Weekdays))
  BY <1>1, ElementText, WeekdaysLead, ListLeads DEF MoreDaysRest
<1>6. Leads(OnDays, FromRest, OnRest) /\ HasTexts(OnDays)
  BY <1>1, <1>5, AfterLeads, OptionalLeads DEF OnDays, OnRest, Keyword
<1>7. Leads(FromDate, ToRest, FromRest) /\ HasTexts(FromDate)
  BY <1>1, DatesLead, AfterLeads, OptionalLeads DEF FromDate, FromRest, Keyword
<1>8. Leads(ToDate, EOFRest, ToRest) /\ HasTexts(ToDate)
  BY <1>1, DatesLead, AfterLeads, OptionalLeads DEF ToDate, ToRest, Keyword
<1>9. Leads(UpToDays, FromRest, AtRest) /\ HasTexts(UpToDays)
  BY <1>1, <1>4, <1>6, JoinLeads DEF UpToDays
<1>10. Leads(UpToFrom, ToRest, AtRest) /\ HasTexts(UpToFrom)
  BY <1>1, <1>7, <1>9, JoinLeads DEF UpToFrom
<1>11. Leads(UpToTo, EOFRest, AtRest)
  BY <1>1, <1>8, <1>10, JoinLeads DEF UpToTo
<1>12. PICK p \in UpToTo : s = Phrase(p.text \o <<Tok("EOF")>>, p.means)
  BY DEF Sentences
<1>13. PICK u : u = p.text \o <<Tok("EOF")>>
  OBVIOUS
<1>14. s.text = u
  BY <1>12, <1>13, PhraseFields
<1>15. u \in AtRest
  BY <1>11, <1>13 DEF Leads, EOFRest
<1> QED
  BY <1>14, <1>15

-----------------------------------------------------------------------------
(* No sentence is refused.                                                 *)

\* What may come at a place of the date that is being parsed, when R follows it.
DateMayCome(r, R) ==
  \/ pc = "month" /\ r \in MonthRest(R)
  \/ pc = "slash1" /\ r \in Slash1Rest(R)
  \/ pc = "day" /\ r \in DayRest(R)
  \/ pc = "slash2" /\ r \in Slash2Rest(R)
  \/ pc = "year" /\ r \in YearRest(R)
  \/ pc = "endDate" /\ r \in R

\* What may come where the parser is.
MayCome(r) ==
  \/ pc = "at" /\ r \in AtRest
  \/ pc = "hours" /\ r \in HoursRest
  \/ pc = "colon1" /\ r \in Colon1Rest
  \/ pc = "minutes" /\ r \in MinutesRest
  \/ pc = "colon2" /\ r \in Colon2Rest
  \/ pc = "seconds" /\ r \in SecondsRest
  \/ pc = "mark" /\ r \in MarkRest
  \/ pc = "moreTimes" /\ r \in MoreTimesRest
  \/ pc = "on" /\ r \in OnRest
  \/ pc = "weekday" /\ r \in WeekdayRest
  \/ pc = "through" /\ r \in ThroughRest
  \/ pc = "throughDay" /\ r \in ThroughDayRest
  \/ pc = "moreDays" /\ r \in MoreDaysRest
  \/ pc = "from" /\ r \in FromRest
  \/ end = "from" /\ DateMayCome(r, ToRest)
  \/ pc = "to" /\ r \in ToRest
  \/ end = "to" /\ DateMayCome(r, EOFRest)
  \/ pc = "eof" /\ r \in EOFRest

\* The input agrees with a text as far as it was looked at.
Agrees(w) == \E y \in Text : w = tokens \o y

\* A text the input agrees with is not refused: the rest of it may still come.
StillOpen(w) ==
  Agrees(w) => /\ pc # "error"
               /\ ~Outside => \E r : w = Done \o r /\ MayCome(r)

NoneRefused == \A w \in AtRest : StillOpen(w)

\* r begins with the tokens that the parser sees.
Ahead(r) ==
  /\ r[1] = tokens[nextTok]
  /\ Len(r) >= 2 /\ nextTok + 1 <= Len(tokens) => r[2] = tokens[nextTok + 1]

\* A step that leaves r as what may come, or takes its first token and leaves the rest.
GoesOn(r) ==
  \/ nextTok' = nextTok /\ MayCome(r)'
  \/ nextTok' = nextTok + 1 /\ \E z \in Text : r = <<tokens[nextTok]>> \o z /\ MayCome(z)'

\* What may come is never empty and begins with a token of the grammar.
LEMMA MayComeBegins ==
  ASSUME NEW r, MayCome(r)
  PROVE  r \in Text /\ Len(r) \in Nat \ {0} /\ r[1][1] # "ILLEGAL"
<1> DEFINE G == Keyword \cup {"INT", "DAY"}
<1>1. ASSUME NEW R, NEW F, Begins(R, F), F \subseteq G, r \in R
      PROVE  r \in Text /\ Len(r) \in Nat \ {0} /\ r[1][1] # "ILLEGAL"
  BY <1>1 DEF Begins, Keyword
<1>2. ASSUME NEW R, NEW F, Begins(R, F), F \subseteq G, DateMayCome(r, R)
      PROVE  r \in Text /\ Len(r) \in Nat \ {0} /\ r[1][1] # "ILLEGAL"
  <2>1. {"INT"} \subseteq G /\ {"INT", "SLASH"} \subseteq G /\ F \cup {"SLASH"} \subseteq G
    BY <1>2 DEF Keyword
  <2> HIDE DEF G
  <2> QED
    BY <1>1, <1>2, <2>1, DateRestBegins DEF DateMayCome
<1>3. /\ {"EOF"} \subseteq G /\ {"TO", "EOF"} \subseteq G /\ {"FROM", "TO", "EOF"} \subseteq G
      /\ {"FROM", "TO", "EOF", "AND"} \subseteq G /\ {"DAY"} \subseteq G
      /\ {"FROM", "TO", "EOF", "AND", "THROUGH"} \subseteq G
      /\ {"FROM", "TO", "EOF", "ON"} \subseteq G /\ {"FROM", "TO", "EOF", "ON", "AND"} \subseteq G
      /\ {"FROM", "TO", "EOF", "ON", "AND", "AM", "PM"} \subseteq G /\ {"INT"} \subseteq G
      /\ {"FROM", "TO", "EOF", "ON", "AND", "AM", "PM"} \cup {"COLON"} \subseteq G
      /\ {"AT"} \subseteq G
  BY DEF Keyword
<1> HIDE DEF G
<1>4. CASE r \in AtRest \/ r \in HoursRest \/ r \in Colon1Rest \/ r \in MinutesRest
           \/ r \in Colon2Rest \/ r \in SecondsRest
  BY <1>1, <1>3, <1>4, TimeRestBegins
<1>5. CASE r \in MarkRest \/ r \in MoreTimesRest \/ r \in OnRest
  BY <1>1, <1>3, <1>5, MarkRestBegins, MoreTimesRestBegins, OnRestBegins
<1>6. CASE r \in WeekdayRest \/ r \in ThroughRest \/ r \in ThroughDayRest \/ r \in MoreDaysRest
  BY <1>1, <1>3, <1>6, DaysRestBegins
<1>7. CASE r \in FromRest \/ r \in ToRest \/ r \in EOFRest
  BY <1>1, <1>3, <1>7, FromRestBegins, ToRestBegins, EOFRestBegins
<1>8. CASE DateMayCome(r, ToRest)
  BY <1>2, <1>3, <1>8, ToRestBegins
<1>9. CASE DateMayCome(r, EOFRest)
  BY <1>2, <1>3, <1>9, EOFRestBegins
<1> QED
  BY <1>4, <1>5, <1>6, <1>7, <1>8, <1>9 DEF MayCome

\* Either side of a choice by one token.
LEMMA Splits ==
  ASSUME NEW R, NEW F, Begins(R, F), NEW ty \in Keyword, ty \notin F, NEW Q, Q \subseteq Text,
         NEW r \in R \cup Word(Tok(ty), Q)
  PROVE  IF r[1][1] = ty THEN \E z \in Q : r = <<Tok(ty)>> \o z ELSE r \in R
<1>1. r \in R => r[1][1] # ty
  BY DEF Begins
<1>2. ASSUME r \in Word(Tok(ty), Q)
      PROVE  r[1][1] = ty /\ \E z \in Q : r = <<Tok(ty)>> \o z
  <2>1. Begins(Word(Tok(ty), Q), {ty})
    BY WordBegins
  <2> QED
    BY <1>2, <2>1 DEF Begins, Word
<1> QED
  BY <1>1, <1>2

\* r has behind d the tokens that s has there, as far as s goes.
Continues(d, r, s) == \A i \in 1 .. Len(r) : Len(d) + i <= Len(s) => r[i] = s[Len(d) + i]

\* Two ways to cut one text.
LEMMA RestIs ==
  ASSUME NEW d \in Text, NEW r \in Text, NEW s \in Text, NEW y \in Text, d \o r = s \o y
  PROVE  Continues(d, r, s)
<1> SUFFICES ASSUME NEW i \in 1 .. Len(r), Len(d) + i <= Len(s)
             PROVE  r[i] = s[Len(d) + i]
  BY DEF Continues
<1>0. PICK j : j = Len(d) + i
  OBVIOUS
<1>1. Len(d) \in Nat /\ Len(r) \in Nat /\ Len(s) \in Nat /\ Len(y) \in Nat
  BY TextConcat
<1>2. /\ j \in 1 .. Len(d) + Len(r) /\ j > Len(d) /\ j - Len(d) = i
      /\ j \in 1 .. Len(s) + Len(y) /\ j <= Len(s)
  BY <1>0, <1>1
<1>3. (d \o r)[j] = r[j - Len(d)]
  BY <1>2, ConcatProperties DEF Text
<1>4. (s \o y)[j] = s[j]
  BY <1>2, ConcatProperties DEF Text
<1> QED
  BY <1>0, <1>2, <1>3, <1>4

LEMMA DoneText ==
  ASSUME PositionInv
  PROVE  Done \in Text /\ Len(Done) = nextTok - 1 /\ tokens \in Text
<1>1. /\ tokens \in Text /\ nextTok \in 1 .. Len(tokens) + 1 /\ Len(tokens) \in Nat
      /\ \A i \in 1 .. nextTok - 1 : tokens[i] \in AnyToken
  BY DEF PositionInv, Text
<1> QED
  BY <1>1, SubSeqProperties DEF Text, Done

\* The parser sees what may come.
LEMMA AheadOf ==
  ASSUME PositionInv, Seen, NEW r \in Text, Len(r) \in Nat \ {0}, NEW y \in Text, Done \o r = tokens \o y
  PROVE  Ahead(r)
<1>1. PICK d \in Text : d = Done /\ Len(d) = nextTok - 1
  BY DoneText
<1>2. PICK s \in Text : s = tokens
  BY DoneText
<1>3. Len(s) \in Nat /\ nextTok \in 1 .. Len(s)
  BY <1>2, SeenText
<1>4. d \o r = s \o y
  BY <1>1, <1>2
<1>5. Continues(d, r, s)
  BY <1>4, RestIs
<1>6. Len(d) + 1 = nextTok /\ Len(d) + 2 = nextTok + 1 /\ Len(d) + 1 <= Len(s)
  BY <1>1, <1>3
<1>7. r[1] = s[nextTok]
  BY <1>5, <1>6 DEF Continues
<1>8. Len(r) >= 2 /\ nextTok + 1 <= Len(s) => r[2] = s[nextTok + 1]
  BY <1>5, <1>6 DEF Continues
<1> QED
  BY <1>2, <1>7, <1>8 DEF Ahead

LEMMA NumberTaken ==
  ASSUME NEW R, R \subseteq Text, NEW r \in NumberThen(R), Ahead(r), ParseInt
  PROVE  /\ pc' = AfterNumber[pc] /\ nextTok' = nextTok + 1 /\ end' = end
         /\ \E z \in R : r = <<tokens[nextTok]>> \o z
<1>1. PICK n \in Numbers : r \in Word(Num(n), R)
  BY DEF NumberThen
<1>2. PICK t \in AnyToken : t = Num(n)
  BY Tokens
<1>3. r[1] = t /\ \E z \in R : r = <<t>> \o z
  <2>1. r \in Word(t, R)
    BY <1>1, <1>2
  <2>2. r[1] = t
    BY <2>1, WordText
  <2>3. \E z \in R : r = <<t>> \o z
    BY <2>1 DEF Word
  <2> QED
    BY <2>2, <2>3
<1>4. tokens[nextTok] = t
  BY <1>3 DEF Ahead
<1>5. NextIs("INT") /\ tokens[nextTok][2] # TooBig
  <2>1. t[1] = "INT" /\ t[2] = n
    BY <1>2 DEF Num
  <2> QED
    BY <1>4, <2>1, TooBigAssumption DEF NextIs
<1>6. pc' = AfterNumber[pc] /\ nextTok' = nextTok + 1 /\ end' = end
  BY <1>5 DEF ParseInt, Take
<1> QED
  BY <1>3, <1>4, <1>6

LEMMA RestTexts ==
  /\ EOFRest \subseteq Text /\ ToRest \subseteq Text /\ FromRest \subseteq Text
  /\ MoreDaysRest \subseteq Text /\ ThroughDayRest \subseteq Text /\ ThroughRest \subseteq Text
  /\ WeekdayRest \subseteq Text /\ OnRest \subseteq Text /\ MoreTimesRest \subseteq Text
  /\ MarkRest \subseteq Text /\ SecondsRest \subseteq Text /\ Colon2Rest \subseteq Text
  /\ MinutesRest \subseteq Text /\ Colon1Rest \subseteq Text /\ HoursRest \subseteq Text
  BY EOFRestBegins, ToRestBegins, FromRestBegins, DaysRestBegins, OnRestBegins,
     MoreTimesRestBegins, MarkRestBegins, TimeRestBegins, BeginsText

LEMMA DateTexts ==
  ASSUME NEW R, NEW F, Begins(R, F)
  PROVE  /\ YearRest(R) \subseteq Text /\ Slash2Rest(R) \subseteq Text /\ DayRest(R) \subseteq Text
         /\ Slash1Rest(R) \subseteq Text /\ MonthRest(R) \subseteq Text /\ R \subseteq Text
  BY DateRestBegins, BeginsText

\* The place of a date a step goes to, with what may come there.
DateGoesOn(r, R) ==
  \/ nextTok' = nextTok /\ DateMayCome(r, R)'
  \/ nextTok' = nextTok + 1 /\ \E z \in Text : r = <<tokens[nextTok]>> \o z /\ DateMayCome(z, R)'

LEMMA DateNumberTaken ==
  ASSUME NEW R, NEW F, Begins(R, F), NEW r, DateMayCome(r, R), Ahead(r), ParseInt
  PROVE  pc' # "error" /\ DateGoesOn(r, R) /\ end' = end
<1>1. /\ YearRest(R) \subseteq Text /\ Slash2Rest(R) \subseteq Text /\ DayRest(R) \subseteq Text
      /\ Slash1Rest(R) \subseteq Text /\ MonthRest(R) \subseteq Text /\ R \subseteq Text
  BY DateTexts
<1>2. pc \in DOMAIN AfterNumber
  BY DEF ParseInt
<1>3. CASE pc = "month"
  <2>1. r \in NumberThen(Slash1Rest(R))
    BY <1>3 DEF DateMayCome, MonthRest
  <2>2. /\ pc' = "slash1" /\ nextTok' = nextTok + 1 /\ end' = end
        /\ \E z \in Slash1Rest(R) : r = <<tokens[nextTok]>> \o z
    BY <1>1, <1>3, <2>1, NumberTaken DEF AfterNumber
  <2> QED
    BY <1>1, <2>2 DEF DateGoesOn, DateMayCome
<1>4. CASE pc = "day"
  <2>1. r \in NumberThen(Slash2Rest(R))
    BY <1>4 DEF DateMayCome, DayRest
  <2>2. /\ pc' = "slash2" /\ nextTok' = nextTok + 1 /\ end' = end
        /\ \E z \in Slash2Rest(R) : r = <<tokens[nextTok]>> \o z
    BY <1>1, <1>4, <2>1, NumberTaken DEF AfterNumber
  <2> QED
    BY <1>1, <2>2 DEF DateGoesOn, DateMayCome
<1>5. CASE pc = "year"
  <2>1. r \in NumberThen(R)
    BY <1>5 DEF DateMayCome, YearRest
  <2>2. /\ pc' = "endDate" /\ nextTok' = nextTok + 1 /\ end' = end
        /\ \E z \in R : r = <<tokens[nextTok]>> \o z
    BY <1>1, <1>5, <2>1, NumberTaken DEF AfterNumber
  <2> QED
    BY <1>1, <2>2 DEF DateGoesOn, DateMayCome
<1> QED
  BY <1>2, <1>3, <1>4, <1>5 DEF DateMayCome, AfterNumber

LEMMA NumberOpen ==
  ASSUME NEW r, MayCome(r), Ahead(r), ParseInt
  PROVE  pc' # "error" /\ GoesOn(r)
<1>1. pc \in DOMAIN AfterNumber
  BY DEF ParseInt
<1>2. CASE pc = "hours"
  <2>1. r \in NumberThen(Colon1Rest)
    BY <1>2 DEF MayCome, DateMayCome, HoursRest
  <2>2. /\ pc' = "colon1" /\ nextTok' = nextTok + 1
        /\ \E z \in Colon1Rest : r = <<tokens[nextTok]>> \o z
    BY <1>2, <2>1, RestTexts, NumberTaken DEF AfterNumber
  <2> QED
    BY <2>2, RestTexts DEF GoesOn, MayCome
<1>3. CASE pc = "minutes"
  <2>1. r \in NumberThen(Colon2Rest)
    BY <1>3 DEF MayCome, DateMayCome, MinutesRest
  <2>2. /\ pc' = "colon2" /\ nextTok' = nextTok + 1
        /\ \E z \in Colon2Rest : r = <<tokens[nextTok]>> \o z
    BY <1>3, <2>1, RestTexts, NumberTaken DEF AfterNumber
  <2> QED
    BY <2>2, RestTexts DEF GoesOn, MayCome
<1>4. CASE pc = "seconds"
  <2>1. r \in NumberThen(MarkRest)
    BY <1>4 DEF MayCome, DateMayCome, SecondsRest
  <2>2. /\ pc' = "mark" /\ nextTok' = nextTok + 1
        /\ \E z \in MarkRest : r = <<tokens[nextTok]>> \o z
    BY <1>4, <2>1, RestTexts, NumberTaken DEF AfterNumber
  <2> QED
    BY <2>2, RestTexts DEF GoesOn, MayCome
<1>5. CASE pc \in {"month", "day", "year"}
  <2>1. \/ DateMayCome(r, ToRest) /\ end = "from"
        \/ DateMayCome(r, EOFRest) /\ end = "to"
    BY <1>5 DEF MayCome
  <2>2. CASE DateMayCome(r, ToRest) /\ end = "from"
    <3>1. pc' # "error" /\ DateGoesOn(r, ToRest) /\ end' = end
      BY <2>2, ToRestBegins, DateNumberTaken
    <3> QED
      BY <2>2, <3>1 DEF GoesOn, DateGoesOn, MayCome
  <2>3. CASE DateMayCome(r, EOFRest) /\ end = "to"
    <3>1. pc' # "error" /\ DateGoesOn(r, EOFRest) /\ end' = end
      BY <2>3, EOFRestBegins, DateNumberTaken
    <3> QED
      BY <2>3, <3>1 DEF GoesOn, DateGoesOn, MayCome
  <2> QED
    BY <2>1, <2>2, <2>3
<1> QED
  BY <1>1, <1>2, <1>3, <1>4, <1>5 DEF AfterNumber

LEMMA KeywordTaken ==
  ASSUME NEW R, NEW F, Begins(R, F), NEW ty \in Keyword, ty \notin F, NEW Q, Q \subseteq Text,
         NEW r \in R \cup Word(Tok(ty), Q), Ahead(r)
  PROVE  IF NextIs(ty) THEN \E z \in Q : r = <<tokens[nextTok]>> \o z ELSE r \in R
<1>1. IF r[1][1] = ty THEN \E z \in Q : r = <<Tok(ty)>> \o z ELSE r \in R
  BY Splits
<1>2. NextIs(ty) <=> r[1][1] = ty
  BY DEF NextIs, Ahead
<1>3. PICK t \in AnyToken : t = Tok(ty)
  BY Tokens
<1>4. ASSUME r[1][1] = ty
      PROVE  tokens[nextTok] = t
  <2>1. PICK z \in Q : r = <<t>> \o z
    BY <1>1, <1>3, <1>4
  <2>2. r \in Word(t, Q)
    BY <2>1, WordMade
  <2>3. r[1] = t
    BY <2>2, WordText
  <2> QED
    BY <2>3 DEF Ahead
<1> QED
  BY <1>1, <1>2, <1>3, <1>4

LEMMA AtOpen ==
  ASSUME NEW r, MayCome(r), Ahead(r), ParseAt
  PROVE  pc' # "error" /\ GoesOn(r)
<1>1. pc = "at"
  BY DEF ParseAt
<1>2. r \in {} \cup Word(Tok("AT"), HoursRest)
  BY <1>1 DEF MayCome, DateMayCome, AtRest
<1>3. Begins({}, {}) /\ "AT" \in Keyword
  BY DEF Begins, Keyword
<1>4. IF NextIs("AT") THEN \E z \in HoursRest : r = <<tokens[nextTok]>> \o z ELSE r \in {}
  BY <1>2, <1>3, RestTexts, KeywordTaken
<1> QED
  BY <1>4, RestTexts DEF ParseAt, Accept, Take, GoesOn, MayCome

LEMMA DateSeparatorOpen ==
  ASSUME NEW R, NEW F, Begins(R, F), "SLASH" \notin F, NEW r, DateMayCome(r, R), Ahead(r), ParseSeparator
  PROVE  pc' # "error" /\ DateGoesOn(r, R) /\ end' = end
<1>0. "SLASH" \in Keyword /\ end' = end
  BY DEF Keyword, ParseSeparator, locals
<1>1. CASE pc = "slash1"
  <2>1. r \in DayRest(R) \cup Word(Tok("SLASH"), DayRest(R))
    BY <1>1 DEF DateMayCome, Slash1Rest
  <2>2. Begins(DayRest(R), {"INT"}) /\ "SLASH" \notin {"INT"}
    BY DateRestBegins
  <2>3. IF NextIs("SLASH") THEN \E z \in DayRest(R) : r = <<tokens[nextTok]>> \o z
                           ELSE r \in DayRest(R)
    BY <1>0, <2>1, <2>2, DateTexts, KeywordTaken
  <2>4. DayRest(R) \subseteq Text
    BY DateTexts
  <2>5. pc' = "day" /\ nextTok' = IF NextIs("SLASH") THEN nextTok + 1 ELSE nextTok
    BY <1>1 DEF ParseSeparator, Accept, Take, Go
  <2> QED
    BY <1>0, <2>3, <2>4, <2>5 DEF DateGoesOn, DateMayCome
<1>2. CASE pc = "slash2"
  <2>1. r \in R \cup Word(Tok("SLASH"), YearRest(R))
    BY <1>2 DEF DateMayCome, Slash2Rest
  <2>2. YearRest(R) \subseteq Text
    BY DateTexts
  <2>3. IF NextIs("SLASH") THEN \E z \in YearRest(R) : r = <<tokens[nextTok]>> \o z ELSE r \in R
    BY <1>0, <2>1, <2>2, KeywordTaken
  <2>4. CASE NextIs("SLASH")
    <3>1. pc' = "year" /\ nextTok' = nextTok + 1
      BY <1>2, <2>4 DEF ParseSeparator, Accept, Take
    <3> QED
      BY <1>0, <2>2, <2>3, <2>4, <3>1 DEF DateGoesOn, DateMayCome
  <2>5. CASE ~NextIs("SLASH")
    <3>1. pc' = "endDate" /\ nextTok' = nextTok
      BY <1>2, <2>5 DEF ParseSeparator, Accept, Go
    <3> QED
      BY <1>0, <2>3, <2>5, <3>1 DEF DateGoesOn, DateMayCome
  <2> QED
    BY <2>4, <2>5
<1> QED
  BY <1>1, <1>2 DEF ParseSeparator, DateMayCome

LEMMA SeparatorOpen ==
  ASSUME NEW r, MayCome(r), Ahead(r), ParseSeparator
  PROVE  pc' # "error" /\ GoesOn(r)
<1>0. /\ "COLON" \in Keyword /\ MinutesRest \subseteq Text /\ SecondsRest \subseteq Text
      /\ Begins(MarkRest, {"FROM", "TO", "EOF", "ON", "AND", "AM", "PM"})
      /\ "COLON" \notin {"FROM", "TO", "EOF", "ON", "AND", "AM", "PM"}
  BY RestTexts, MarkRestBegins DEF Keyword
<1>1. CASE pc = "colon1"
  <2>1. r \in MarkRest \cup Word(Tok("COLON"), MinutesRest)
    BY <1>1 DEF MayCome, DateMayCome, Colon1Rest
  <2>2. IF NextIs("COLON") THEN \E z \in MinutesRest : r = <<tokens[nextTok]>> \o z ELSE r \in MarkRest
    BY <1>0, <2>1, KeywordTaken
  <2>3. IF NextIs("COLON") THEN pc' = "minutes" /\ nextTok' = nextTok + 1
                           ELSE pc' = "mark" /\ nextTok' = nextTok
    BY <1>1 DEF ParseSeparator, Accept, Take, Go
  <2> QED
    BY <1>0, <2>2, <2>3 DEF GoesOn, MayCome
<1>2. CASE pc = "colon2"
  <2>1. r \in MarkRest \cup Word(Tok("COLON"), SecondsRest)
    BY <1>2 DEF MayCome, DateMayCome, Colon2Rest
  <2>2. IF NextIs("COLON") THEN \E z \in SecondsRest : r = <<tokens[nextTok]>> \o z ELSE r \in MarkRest
    BY <1>0, <2>1, KeywordTaken
  <2>3. IF NextIs("COLON") THEN pc' = "seconds" /\ nextTok' = nextTok + 1
                           ELSE pc' = "mark" /\ nextTok' = nextTok
    BY <1>2 DEF ParseSeparator, Accept, Take, Go
  <2> QED
    BY <1>0, <2>2, <2>3 DEF GoesOn, MayCome
<1>3. CASE pc \in {"slash1", "slash2"}
  <2>1. \/ DateMayCome(r, ToRest) /\ end = "from"
        \/ DateMayCome(r, EOFRest) /\ end = "to"
    BY <1>3 DEF MayCome
  <2>2. CASE DateMayCome(r, ToRest) /\ end = "from"
    <3>1. pc' # "error" /\ DateGoesOn(r, ToRest) /\ end' = end
      BY <2>2, ToRestBegins, DateSeparatorOpen
    <3> QED
      BY <2>2, <3>1 DEF GoesOn, DateGoesOn, MayCome
  <2>3. CASE DateMayCome(r, EOFRest) /\ end = "to"
    <3>1. pc' # "error" /\ DateGoesOn(r, EOFRest) /\ end' = end
      BY <2>3, EOFRestBegins, DateSeparatorOpen
    <3> QED
      BY <2>3, <3>1 DEF GoesOn, DateGoesOn, MayCome
  <2> QED
    BY <2>1, <2>2, <2>3
<1> QED
  BY <1>1, <1>2, <1>3 DEF ParseSeparator

LEMMA MarkOpen ==
  ASSUME NEW r, MayCome(r), Ahead(r), ParseMark
  PROVE  pc' # "error" /\ GoesOn(r)
<1>0. "AM" \in Keyword /\ "PM" \in Keyword /\ MoreTimesRest \subseteq Text
  BY RestTexts DEF Keyword
<1> DEFINE R == MoreTimesRest \cup Word(Tok("AM"), MoreTimesRest)
           F == {"FROM", "TO", "EOF", "ON", "AND"}
<1>1. r \in R \cup Word(Tok("PM"), MoreTimesRest)
  BY DEF ParseMark, MayCome, DateMayCome, MarkRest
<1>2. Begins(MoreTimesRest, F) /\ Begins(R, F \cup {"AM"})
  <2>1. Begins(Word(Tok("AM"), MoreTimesRest), {"AM"})
    BY <1>0, WordBegins
  <2> QED
    BY <2>1, MoreTimesRestBegins, EitherBegins
<1>3. "PM" \notin F \cup {"AM"} /\ "AM" \notin F
  OBVIOUS
<1> HIDE DEF F
<1>4. IF NextIs("PM") THEN \E z \in MoreTimesRest : r = <<tokens[nextTok]>> \o z ELSE r \in R
  <2> HIDE DEF R
  <2> QED
    BY <1>0, <1>1, <1>2, <1>3, KeywordTaken
<1>5. r \in R =>
        IF NextIs("AM") THEN \E z \in MoreTimesRest : r = <<tokens[nextTok]>> \o z ELSE r \in MoreTimesRest
  BY <1>0, <1>2, <1>3, KeywordTaken
<1>7. CASE NextIs("AM") \/ NextIs("PM")
  <2>1. pc' = "moreTimes" /\ nextTok' = nextTok + 1
    BY <1>7 DEF ParseMark, Take
  <2>2. \E z \in MoreTimesRest : r = <<tokens[nextTok]>> \o z
    <3>1. NextIs("AM") => ~NextIs("PM")
      BY DEF NextIs
    <3> QED
      BY <1>4, <1>5, <1>7, <3>1
  <2> QED
    BY <1>0, <2>1, <2>2 DEF GoesOn, MayCome
<1>8. CASE ~NextIs("AM") /\ ~NextIs("PM")
  <2>1. pc' = "moreTimes" /\ nextTok' = nextTok
    BY <1>8 DEF ParseMark, Go
  <2>2. r \in MoreTimesRest
    BY <1>4, <1>5, <1>8
  <2> QED
    BY <2>1, <2>2 DEF GoesOn, MayCome
<1> QED
  BY <1>7, <1>8

\* The second token of a text.
LEMMA SecondToken ==
  ASSUME NEW t \in AnyToken, NEW z \in Text, Len(z) \in Nat \ {0}, NEW r, r = <<t>> \o z
  PROVE  Len(r) >= 2 /\ r[2] = z[1]
<1>1. PICK s \in Text : s = <<t>>
  BY TextAppend, TextDef
<1>2. Len(s) = 1
  BY <1>1, TextAppend
<1>3. Len(s \o z) = 1 + Len(z)
  BY <1>2, TextConcat
<1>4. Len(s \o z) >= 2 /\ 2 \in 1 .. Len(s) + Len(z) /\ 2 > Len(s) /\ 2 - Len(s) = 1
  BY <1>2, <1>3
<1>5. (s \o z)[2] = z[1]
  BY <1>4, ConcatProperties DEF Text
<1> QED
  BY <1>1, <1>4, <1>5

\* What comes next in a list that goes on.
LEMMA AndThen ==
  ASSUME NEW A, HasTexts(A), NEW R, R \subseteq Text, NEW H, H \subseteq Text,
         Leads(A, MoreThen(A, R), H), NEW r \in MoreThen(A, R), r \notin R
  PROVE  \E z \in H : r = <<Tok("AND")>> \o z
<1>1. r \in Word(Tok("AND"), ElementThen(A, MoreThen(A, R)))
  BY MoreThenNext
<1>2. PICK e \in ElementThen(A, MoreThen(A, R)) : r = <<Tok("AND")>> \o e
  BY <1>1 DEF Word
<1>3. PICK a \in A, y \in MoreThen(A, R) : e = a.text \o y
  BY DEF ElementThen
<1>4. e \in H
  BY <1>3 DEF Leads
<1> QED
  BY <1>2, <1>4

\* Where a list is, the look-ahead tells what comes.
LEMMA MoreTaken ==
  ASSUME NEW A, HasTexts(A), NEW R, NEW F, Begins(R, F), "AND" \notin F,
         NEW H, NEW G, Begins(H, G), "AT" \notin G, Leads(A, MoreThen(A, R), H),
         NEW r \in MoreThen(A, R), Ahead(r), TypeInv, Seen, pc \in {"moreTimes", "moreDays"}
  PROVE  IF LooksAhead /\ tokens[nextTok + 1] # Tok("AT")
         THEN \E z \in H : r = <<tokens[nextTok]>> \o z ELSE r \in R
<1>0. R \subseteq Text /\ H \subseteq Text /\ nextTok \in Nat /\ nextTok <= Len(tokens)
  BY BeginsText, SeenText DEF TypeInv
<1>1. NextIs("AND") <=> r[1][1] = "AND"
  BY DEF NextIs, Ahead
<1>2. r \in R => r[1][1] # "AND"
  BY DEF Begins
<1>3. PICK and \in AnyToken : and = Tok("AND") /\ and[1] = "AND"
  BY Tokens DEF Keyword, Tok
<1>4. ASSUME r \notin R
      PROVE  \E z \in H : r = <<and>> \o z /\ r[1] = and
  <2>1. PICK z \in H : r = <<and>> \o z
    BY <1>0, <1>3, <1>4, AndThen
  <2>2. r \in Word(and, H)
    BY <2>1, WordMade
  <2>3. r[1] = and
    BY <1>0, <2>2, WordText
  <2> QED
    BY <2>1, <2>3
<1>5. CASE r \in R
  <2>1. ~NextIs("AND")
    BY <1>1, <1>2, <1>5
  <2> QED
    BY <1>5, <2>1 DEF LooksAhead
<1>6. CASE r \notin R
  <2>1. PICK z \in H : r = <<and>> \o z /\ r[1] = and
    BY <1>4, <1>6
  <2>2. LooksAhead
    BY <1>1, <1>3, <2>1 DEF LooksAhead
  <2>3. nextTok + 1 <= Len(tokens)
    BY <1>0, <2>2 DEF Seen, Needed
  <2>4. z \in Text /\ Len(z) \in Nat \ {0} /\ z[1][1] # "AT"
    BY DEF Begins
  <2>5. Len(r) >= 2 /\ r[2] = z[1]
    BY <2>1, <2>4, SecondToken
  <2>6. tokens[nextTok + 1] = z[1]
    BY <2>3, <2>5 DEF Ahead
  <2>7. tokens[nextTok + 1] # Tok("AT")
    BY <2>4, <2>6 DEF Tok
  <2>8. tokens[nextTok] = and
    BY <2>1 DEF Ahead
  <2> QED
    BY <2>1, <2>2, <2>7, <2>8
<1> QED
  BY <1>5, <1>6

LEMMA MoreOpen ==
  ASSUME TypeInv, NEW r, MayCome(r), Ahead(r), ParseMore
  PROVE  pc' # "error" /\ GoesOn(r)
<1> DEFINE more == LooksAhead /\ tokens[nextTok + 1] # Tok("AT")
<1>0. Seen
  BY DEF ParseMore
<1>1. CASE pc = "moreTimes"
  <2>1. r \in MoreThen(Times, OnRest)
    BY <1>1 DEF MayCome, DateMayCome, MoreTimesRest
  <2>2. /\ Begins(OnRest, {"FROM", "TO", "EOF", "ON"}) /\ "AND" \notin {"FROM", "TO", "EOF", "ON"}
        /\ Begins(HoursRest, {"INT"}) /\ "AT" \notin {"INT"}
        /\ HasTexts(Times) /\ Leads(Times, MoreThen(Times, OnRest), HoursRest)
    BY OnRestBegins, TimeRestBegins, ElementText, TimesLead DEF MoreTimesRest
  <2>3. IF more THEN \E z \in HoursRest : r = <<tokens[nextTok]>> \o z ELSE r \in OnRest
    BY <1>0, <1>1, <2>1, <2>2, MoreTaken
  <2>4. IF more THEN pc' = "hours" /\ nextTok' = nextTok + 1 ELSE pc' = "on" /\ nextTok' = nextTok
    BY <1>1 DEF ParseMore, Take, Go
  <2> HIDE DEF more
  <2> QED
    BY <2>3, <2>4, RestTexts DEF GoesOn, MayCome
<1>2. CASE pc = "moreDays"
  <2>1. r \in MoreThen(Weekdays, FromRest)
    BY <1>2 DEF MayCome, DateMayCome, MoreDaysRest
  <2>2. /\ Begins(FromRest, {"FROM", "TO", "EOF"}) /\ "AND" \notin {"FROM", "TO", "EOF"}
        /\ Begins(WeekdayRest, {"DAY"}) /\ "AT" \notin {"DAY"}
        /\ HasTexts(Weekdays) /\ Leads(Weekdays, MoreThen(Weekdays, FromRest), WeekdayRest)
    BY FromRestBegins, DaysRestBegins, ElementText, WeekdaysLead DEF MoreDaysRest
  <2>3. IF more THEN \E z \in WeekdayRest : r = <<tokens[nextTok]>> \o z ELSE r \in FromRest
    BY <1>0, <1>2, <2>1, <2>2, MoreTaken
  <2>4. IF more THEN pc' = "weekday" /\ nextTok' = nextTok + 1 ELSE pc' = "from" /\ nextTok' = nextTok
    BY <1>2 DEF ParseMore, Take, Go
  <2> HIDE DEF more
  <2> QED
    BY <2>3, <2>4, RestTexts DEF GoesOn, MayCome
<1> QED
  BY <1>1, <1>2 DEF ParseMore

LEMMA OnOpen ==
  ASSUME NEW r, MayCome(r), Ahead(r), ParseOn
  PROVE  pc' # "error" /\ GoesOn(r)
<1>1. r \in FromRest \cup Word(Tok("ON"), WeekdayRest)
  BY DEF ParseOn, MayCome, DateMayCome, OnRest
<1>2. "ON" \in Keyword /\ "ON" \notin {"FROM", "TO", "EOF"}
  BY DEF Keyword
<1>3. IF NextIs("ON") THEN \E z \in WeekdayRest : r = <<tokens[nextTok]>> \o z ELSE r \in FromRest
  BY <1>1, <1>2, RestTexts, FromRestBegins, KeywordTaken
<1>4. IF NextIs("ON") THEN pc' = "weekday" /\ nextTok' = nextTok + 1
                      ELSE pc' = "from" /\ nextTok' = nextTok
  BY DEF ParseOn, Accept, Take, Go
<1> QED
  BY <1>3, <1>4, RestTexts DEF GoesOn, MayCome

LEMMA DayTaken ==
  ASSUME NEW R, R \subseteq Text, NEW r \in DayThen(R), Ahead(r)
  PROVE  NextIs("DAY") /\ \E z \in R : r = <<tokens[nextTok]>> \o z
<1>1. PICK d \in Days : r \in Word(Day(d), R)
  BY DEF DayThen
<1>2. PICK t \in AnyToken : t = Day(d) /\ t[1] = "DAY"
  BY Tokens DEF Day
<1>3. r \in Word(t, R)
  BY <1>1, <1>2
<1>4. r[1] = t
  BY <1>3, WordText
<1>5. tokens[nextTok] = t
  BY <1>4 DEF Ahead
<1>6. \E z \in R : r = <<t>> \o z
  BY <1>3 DEF Word
<1> QED
  BY <1>2, <1>5, <1>6 DEF NextIs

LEMMA WeekdayOpen ==
  ASSUME NEW r, MayCome(r), Ahead(r), ParseWeekday
  PROVE  pc' # "error" /\ GoesOn(r)
<1>1. CASE pc = "weekday"
  <2>1. r \in DayThen(ThroughRest)
    BY <1>1 DEF MayCome, DateMayCome, WeekdayRest
  <2>2. NextIs("DAY") /\ \E z \in ThroughRest : r = <<tokens[nextTok]>> \o z
    BY <2>1, RestTexts, DayTaken
  <2>3. pc' = "through" /\ nextTok' = nextTok + 1
    BY <1>1, <2>2 DEF ParseWeekday, Take
  <2> QED
    BY <2>2, <2>3, RestTexts DEF GoesOn, MayCome
<1>2. CASE pc = "throughDay"
  <2>1. r \in DayThen(MoreDaysRest)
    BY <1>2 DEF MayCome, DateMayCome, ThroughDayRest
  <2>2. NextIs("DAY") /\ \E z \in MoreDaysRest : r = <<tokens[nextTok]>> \o z
    BY <2>1, RestTexts, DayTaken
  <2>3. pc' = "moreDays" /\ nextTok' = nextTok + 1
    BY <1>2, <2>2 DEF ParseWeekday, Take
  <2> QED
    BY <2>2, <2>3, RestTexts DEF GoesOn, MayCome
<1> QED
  BY <1>1, <1>2 DEF ParseWeekday

LEMMA ThroughOpen ==
  ASSUME NEW r, MayCome(r), Ahead(r), ParseThrough
  PROVE  pc' # "error" /\ GoesOn(r)
<1>1. r \in MoreDaysRest \cup Word(Tok("THROUGH"), ThroughDayRest)
  BY DEF ParseThrough, MayCome, DateMayCome, ThroughRest
<1>2. "THROUGH" \in Keyword /\ "THROUGH" \notin {"FROM", "TO", "EOF", "AND"}
  BY DEF Keyword
<1>3. IF NextIs("THROUGH") THEN \E z \in ThroughDayRest : r = <<tokens[nextTok]>> \o z
                           ELSE r \in MoreDaysRest
  BY <1>1, <1>2, RestTexts, DaysRestBegins, KeywordTaken
<1>4. IF NextIs("THROUGH") THEN pc' = "throughDay" /\ nextTok' = nextTok + 1
                           ELSE pc' = "moreDays" /\ nextTok' = nextTok
  BY DEF ParseThrough, Accept, Take, Go
<1> QED
  BY <1>3, <1>4, RestTexts DEF GoesOn, MayCome

LEMMA RangeOpen ==
  ASSUME NEW r, MayCome(r), Ahead(r), ParseRange
  PROVE  pc' # "error" /\ GoesOn(r)
<1>1. CASE pc = "from"
  <2>1. r \in ToRest \cup Word(Tok("FROM"), MonthRest(ToRest))
    BY <1>1 DEF MayCome, DateMayCome, FromRest
  <2>2. "FROM" \in Keyword /\ "FROM" \notin {"TO", "EOF"} /\ MonthRest(ToRest) \subseteq Text
    BY ToRestBegins, DateTexts DEF Keyword
  <2>3. IF NextIs("FROM") THEN \E z \in MonthRest(ToRest) : r = <<tokens[nextTok]>> \o z
                          ELSE r \in ToRest
    BY <2>1, <2>2, ToRestBegins, KeywordTaken
  <2>4. /\ end' = "from"
        /\ IF NextIs("FROM") THEN pc' = "month" /\ nextTok' = nextTok + 1
                             ELSE pc' = "to" /\ nextTok' = nextTok
    BY <1>1 DEF ParseRange, Accept, Take, Go
  <2> QED
    BY <2>2, <2>3, <2>4 DEF GoesOn, MayCome, DateMayCome
<1>2. CASE pc = "to"
  <2>1. r \in EOFRest \cup Word(Tok("TO"), MonthRest(EOFRest))
    BY <1>2 DEF MayCome, DateMayCome, ToRest
  <2>2. "TO" \in Keyword /\ "TO" \notin {"EOF"} /\ MonthRest(EOFRest) \subseteq Text
    BY EOFRestBegins, DateTexts DEF Keyword
  <2>3. IF NextIs("TO") THEN \E z \in MonthRest(EOFRest) : r = <<tokens[nextTok]>> \o z
                        ELSE r \in EOFRest
    BY <2>1, <2>2, EOFRestBegins, KeywordTaken
  <2>4. /\ end' = "to"
        /\ IF NextIs("TO") THEN pc' = "month" /\ nextTok' = nextTok + 1
                           ELSE pc' = "eof" /\ nextTok' = nextTok
    BY <1>2 DEF ParseRange, Accept, Take, Go
  <2> QED
    BY <2>2, <2>3, <2>4 DEF GoesOn, MayCome, DateMayCome
<1> QED
  BY <1>1, <1>2 DEF ParseRange

LEMMA EndDateOpen ==
  ASSUME NEW r, MayCome(r), EndDate
  PROVE  pc' # "error" /\ nextTok' = nextTok /\ MayCome(r)'
<1>1. pc = "endDate" /\ nextTok' = nextTok /\ pc' = IF end = "from" THEN "to" ELSE "eof"
  BY DEF EndDate, Go
<1>2. \/ end = "from" /\ r \in ToRest
      \/ end = "to" /\ r \in EOFRest
  BY <1>1 DEF MayCome, DateMayCome
<1> QED
  BY <1>1, <1>2 DEF MayCome

LEMMA EOFOpen ==
  ASSUME NEW r, MayCome(r), Ahead(r), ParseEOF
  PROVE  pc' = "ok"
<1>1. r \in EOFRest
  BY DEF ParseEOF, MayCome, DateMayCome
<1>2. NextIs("EOF")
  BY <1>1, EOFRestBegins DEF Begins, NextIs, Ahead
<1> QED
  BY <1>2 DEF ParseEOF, Accept, Take

\* The steps of the grammar at a token.
LEMMA StepOpen ==
  ASSUME PositionInv, NEW r, MayCome(r), Ahead(r), TypeInv,
         \/ ParseAt \/ ParseInt \/ ParseSeparator \/ ParseMark \/ ParseMore \/ ParseOn
         \/ ParseWeekday \/ ParseThrough \/ ParseRange \/ ParseEOF
  PROVE  pc' = "ok" \/ (pc' # "error" /\ GoesOn(r))
  BY AtOpen, NumberOpen, SeparatorOpen, MarkOpen, MoreOpen, OnOpen, WeekdayOpen, ThroughOpen,
     RangeOpen, EOFOpen

LEMMA GrammarOpen ==
  ASSUME TypeInv, TypeInv', NEW w \in Text, StillOpen(w),
         \/ ParseAt \/ ParseInt \/ ParseSeparator \/ ParseMark \/ ParseMore \/ ParseOn
         \/ ParseWeekday \/ ParseThrough \/ ParseRange \/ ParseEOF
  PROVE  StillOpen(w)'
<1>1. PositionInv /\ Steady /\ ~Outside
  BY GrammarSteady DEF TypeInv
<1>2. Seen
  BY DEF ParseAt, ParseInt, ParseSeparator, ParseMark, ParseMore, ParseOn, ParseWeekday,
         ParseThrough, ParseRange, ParseEOF
<1>3. tokens' = tokens
  BY <1>1 DEF Steady
<1> SUFFICES ASSUME NEW y \in Text, w = tokens \o y
             PROVE  /\ pc' # "error"
                    /\ ~Outside' => \E r : w = Done' \o r /\ MayCome(r)'
  BY <1>3 DEF StillOpen, Agrees
<1>4. PICK r : w = Done \o r /\ MayCome(r)
  BY <1>1 DEF StillOpen, Agrees
<1>5. r \in Text /\ Len(r) \in Nat \ {0}
  BY <1>4, MayComeBegins
<1>6. Ahead(r)
  BY <1>1, <1>2, <1>4, <1>5, AheadOf
<1>7. pc' = "ok" \/ (pc' # "error" /\ GoesOn(r))
  BY <1>1, <1>4, <1>6, StepOpen
<1>8. CASE pc' = "ok"
  BY <1>8 DEF Outside
<1>9. CASE pc' # "error" /\ GoesOn(r)
  <2>1. Done' = Grown(Done) /\ tokens[nextTok] \in AnyToken /\ Done \in Text /\ nextTok \in Nat
    BY <1>1, <1>2, StepText
  <2>2. CASE nextTok' = nextTok /\ MayCome(r)'
    <3>1. Done' = Done
      BY <2>1, <2>2 DEF Grown
    <3> QED
      BY <1>4, <1>9, <2>2, <3>1
  <2>3. CASE nextTok' = nextTok + 1 /\ \E z \in Text : r = <<tokens[nextTok]>> \o z /\ MayCome(z)'
    <3>1. PICK z \in Text : r = <<tokens[nextTok]>> \o z /\ MayCome(z)'
      BY <2>3
    <3>2. Done' = Append(Done, tokens[nextTok])
      BY <2>1, <2>3, TakesToken
    <3>3. Append(Done, tokens[nextTok]) \o z = Done \o (<<tokens[nextTok]>> \o z)
      BY <2>1, TextAppendIn
    <3>4. w = Done' \o z
      BY <1>4, <3>1, <3>2, <3>3
    <3> QED
      BY <1>9, <3>1, <3>4
  <2> QED
    BY <1>9, <2>2, <2>3 DEF GoesOn
<1> QED
  BY <1>7, <1>8, <1>9

LEMMA ParseOpen ==
  ASSUME NEW w \in AtRest, Parse
  PROVE  StillOpen(w)'
<1>1. pc' = "at" /\ tokens' = <<>> /\ nextTok' = 1
  BY DEF Parse, First
<1>2. w \in Text
  BY TimeRestBegins, BeginsText
<1>3. w = <<>> \o w
  BY <1>2, TextConcat
<1>4. Done' = <<>>
  BY <1>1 DEF Done
<1>5. MayCome(w)'
  BY <1>1 DEF MayCome
<1> QED
  BY <1>1, <1>3, <1>4, <1>5 DEF StillOpen

\* The input agreed with the text before it was looked at further.
LEMMA AgreedBefore ==
  ASSUME PositionInv, NEW t \in AnyToken, NEW w, NEW y \in Text, w = Append(tokens, t) \o y
  PROVE  Agrees(w)
<1>1. Append(tokens, t) \o y = tokens \o (<<t>> \o y)
  BY DoneText, TextAppendIn
<1>2. <<t>> \o y \in Text
  BY TextAppend
<1> QED
  BY <1>1, <1>2 DEF Agrees

LEMMA TokenizeOpen ==
  ASSUME TypeInv, NEW w, StillOpen(w), NEW t \in Token, Tokenize(t)
  PROVE  StillOpen(w)'
<1>1. /\ tokens' = Append(tokens, t) /\ ~Outside
      /\ UNCHANGED <<nextTok, pc, end>>
  BY DEF Tokenize, locals
<1>2. tokens \in Text /\ nextTok \in 1 .. Len(tokens) + 1 /\ t \in AnyToken /\ PositionInv
  BY DEF TypeInv, PositionInv, AnyToken, Text
<1>3. Done' = Done
  <2>1. nextTok - 1 \in 0 .. Len(tokens) /\ Len(tokens) \in Nat
    BY <1>2 DEF Text
  <2>2. SubSeq(Append(tokens, t), 1, nextTok - 1) = SubSeq(tokens, 1, nextTok - 1)
    BY <1>2, <2>1 DEF Text
  <2> QED
    BY <1>1, <2>2 DEF Done
<1>4. \A r : MayCome(r) => MayCome(r)'
  BY <1>1 DEF MayCome, DateMayCome
<1>5. Agrees(w)' => Agrees(w)
  BY <1>1, <1>2, AgreedBefore DEF Agrees
<1>6. pc' # "error"
  BY <1>1 DEF Outside
<1> QED
  BY <1>1, <1>3, <1>4, <1>5, <1>6 DEF StillOpen

\* No sentence has an illegal token where the parser looks for the next ones.
LEMMA IllegalElsewhere ==
  ASSUME TypeInv, NEW w, StillOpen(w), TokenizeFails
  PROVE  ~ Agrees(w)'
<1> SUFFICES ASSUME Agrees(w)'
             PROVE  FALSE
  OBVIOUS
<1>1. tokens' = Append(tokens, Tok("ILLEGAL")) /\ ~Outside /\ ~Seen /\ PositionInv
  BY DEF TokenizeFails, TypeInv
<1>2. PICK bad \in AnyToken : bad = Tok("ILLEGAL") /\ bad[1] = "ILLEGAL"
  <2>1. Tok("ILLEGAL") \in AnyToken
    BY DEF AnyToken
  <2>2. Tok("ILLEGAL")[1] = "ILLEGAL"
    BY DEF Tok
  <2> QED
    BY <2>1, <2>2
<1>3. PICK y \in Text : w = Append(tokens, bad) \o y
  BY <1>1, <1>2 DEF Agrees
<1>4. Agrees(w)
  BY <1>1, <1>3, AgreedBefore
<1>5. PICK r : w = Done \o r /\ MayCome(r)
  BY <1>1, <1>4 DEF StillOpen
<1>6. r \in Text /\ Len(r) \in Nat \ {0} /\ r[1][1] # "ILLEGAL"
  BY <1>5, MayComeBegins
<1>7. PICK d \in Text : d = Done /\ Len(d) = nextTok - 1
  BY <1>1, DoneText
<1>8. PICK s \in Text : s = Append(tokens, bad)
  BY <1>1, DoneText, TextAppend
<1>9. /\ Len(s) = Len(tokens) + 1 /\ Len(tokens) \in Nat /\ s[Len(tokens) + 1] = bad
      /\ \A i \in 1 .. Len(tokens) : s[i] = tokens[i]
  BY <1>1, <1>8, DoneText DEF Text
<1>10. nextTok \in 1 .. Len(tokens) + 1
  BY <1>1 DEF PositionInv
<1>11. d \o r = s \o y
  BY <1>3, <1>5, <1>7, <1>8
<1>12. Continues(d, r, s)
  BY <1>6, <1>11, RestIs
<1>13. Len(d) + 1 = nextTok /\ Len(d) + 2 = nextTok + 1 /\ Len(d) + 1 <= Len(s)
  BY <1>7, <1>9, <1>10
<1>14. r[1] = s[nextTok]
  BY <1>6, <1>12, <1>13 DEF Continues
<1>15. CASE nextTok = Len(tokens) + 1
  BY <1>2, <1>6, <1>9, <1>14, <1>15
<1>16. CASE nextTok # Len(tokens) + 1
  <2>1. nextTok <= Len(tokens) /\ LooksAhead /\ nextTok = Len(tokens)
    BY <1>1, <1>9, <1>10, <1>16 DEF Seen, Needed
  <2>2. r[1][1] = "AND" /\ pc \in {"moreTimes", "moreDays"}
    BY <1>9, <1>10, <1>14, <2>1 DEF LooksAhead, NextIs
  <2>3. \E z \in Text : r = <<Tok("AND")>> \o z /\ Len(z) \in Nat \ {0} /\ z[1][1] # "ILLEGAL"
    <3>1. CASE pc = "moreTimes"
      <4>1. r \in MoreThen(Times, OnRest)
        BY <1>5, <3>1 DEF MayCome, DateMayCome, MoreTimesRest
      <4>2. r \notin OnRest
        BY <2>2, OnRestBegins DEF Begins
      <4>3. Leads(Times, MoreThen(Times, OnRest), HoursRest)
        BY TimesLead DEF MoreTimesRest
      <4>4. \E z \in HoursRest : r = <<Tok("AND")>> \o z
        BY <4>1, <4>2, <4>3, RestTexts, ElementText, AndThen
      <4> QED
        BY <4>4, TimeRestBegins DEF Begins
    <3>2. CASE pc = "moreDays"
      <4>1. r \in MoreThen(Weekdays, FromRest)
        BY <1>5, <3>2 DEF MayCome, DateMayCome, MoreDaysRest
      <4>2. r \notin FromRest
        BY <2>2, FromRestBegins DEF Begins
      <4>3. Leads(Weekdays, MoreThen(Weekdays, FromRest), WeekdayRest)
        BY WeekdaysLead DEF MoreDaysRest
      <4>4. \E z \in WeekdayRest : r = <<Tok("AND")>> \o z
        BY <4>1, <4>2, <4>3, RestTexts, ElementText, AndThen
      <4> QED
        BY <4>4, DaysRestBegins DEF Begins
    <3> QED
      BY <2>2, <3>1, <3>2
  <2>4. PICK z \in Text : r = <<Tok("AND")>> \o z /\ Len(z) \in Nat \ {0} /\ z[1][1] # "ILLEGAL"
    BY <2>3
  <2>5. Tok("AND") \in AnyToken
    BY Tokens DEF Keyword
  <2>6. Len(r) >= 2 /\ r[2] = z[1]
    BY <2>4, <2>5, SecondToken
  <2>7. r[2] = s[nextTok + 1]
    <3>1. nextTok + 1 <= Len(s)
      BY <1>9, <2>1
    <3> QED
      BY <1>6, <1>12, <1>13, <2>6, <3>1 DEF Continues
  <2> QED
    BY <1>2, <1>9, <2>1, <2>4, <2>6, <2>7
<1> QED
  BY <1>15, <1>16

LEMMA OpenStep ==
  ASSUME TypeInv, TypeInv', NEW w \in AtRest, StillOpen(w), [Next]_vars
  PROVE  StillOpen(w)'
<1>1. w \in Text
  BY TimeRestBegins, BeginsText
<1>2. CASE TokenizeFails
  BY <1>2, IllegalElsewhere DEF StillOpen
<1>3. CASE EndDate
  <2>1. UNCHANGED <<tokens, nextTok>> /\ ~Outside
    BY <1>3 DEF EndDate, Go, Outside
  <2>2. Done' = Done /\ (Agrees(w)' => Agrees(w))
    BY <2>1 DEF Done, Agrees
  <2>3. \A r : MayCome(r) => pc' # "error" /\ MayCome(r)'
    BY <1>3, EndDateOpen
  <2> QED
    BY <2>1, <2>2, <2>3 DEF StillOpen
<1>4. CASE UNCHANGED vars
  <2>1. UNCHANGED <<tokens, nextTok, pc, end>>
    BY <1>4 DEF vars, locals
  <2>2. Done' = Done /\ (Agrees(w)' => Agrees(w)) /\ Outside' = Outside
    BY <2>1 DEF Done, Agrees, Outside
  <2>3. \A r : MayCome(r) => MayCome(r)'
    BY <2>1 DEF MayCome, DateMayCome
  <2> QED
    BY <2>1, <2>2, <2>3 DEF StillOpen
<1> QED
  BY <1>1, <1>2, <1>3, <1>4, ParseOpen, TokenizeOpen, GrammarOpen DEF Next

LEMMA OpenInit == Init => NoneRefused
  BY DEF Init, NoneRefused, StillOpen, Outside

\* A prefix of a sentence agrees with it.
LEMMA PrefixAgrees ==
  ASSUME tokens \in Prefixes
  PROVE  \E w \in AtRest : Agrees(w)
<1>1. PICK p \in Sentences \X (0 .. MaxTokens + 1) :
        p[2] <= Len(p[1].text) /\ tokens = SubSeq(p[1].text, 1, p[2])
  BY DEF Prefixes
<1>2. PICK w : w = p[1].text
  OBVIOUS
<1>3. w \in AtRest
  BY <1>2, SentenceRest
<1>4. w \in Text /\ Len(w) \in Nat
  BY <1>3, TimeRestBegins, BeginsText, TextConcat
<1>5. PICK n \in 0 .. Len(w) : tokens = SubSeq(w, 1, n)
  BY <1>1, <1>2, <1>4, GrammarAssumption
<1>6. SubSeq(w, 1, n) \o SubSeq(w, n + 1, Len(w)) = SubSeq(w, 1, Len(w))
  <2>1. w \in Seq(AnyToken) /\ 1 \in 1 .. Len(w) + 1 /\ n \in 1 - 1 .. Len(w) /\ Len(w) \in n .. Len(w)
    BY <1>4, TextDef
  <2> QED
    BY <2>1, ConcatAdjacentSubSeq
<1>7. SubSeq(w, 1, Len(w)) = w
  BY <1>4, SubSeqFull DEF Text
<1>8. SubSeq(w, n + 1, Len(w)) \in Text
  BY <1>4, SubSeqProperties DEF Text
<1> QED
  BY <1>3, <1>5, <1>6, <1>7, <1>8 DEF Agrees

\* Parse refuses no sentence of the grammar, of any length and with any numbers and weekdays in
\* it: what it has seen of its input when it returns an error begins no sentence.
THEOREM RefusesNone == Spec => []SentencesAccepted
<1>1. Init => TypeInv /\ NoneRefused
  BY PositionInit, TypeInit, OpenInit DEF TypeInv
<1>2. TypeInv /\ NoneRefused /\ [Next]_vars => (TypeInv /\ NoneRefused)'
  <2>1. TypeInv /\ [Next]_vars => TypeInv'
    BY PositionStep, BoundedStep, ParsedStep DEF TypeInv
  <2> QED
    BY <2>1, OpenStep DEF NoneRefused
<1>3. TypeInv /\ NoneRefused => SentencesAccepted
  BY PrefixAgrees DEF SentencesAccepted, NoneRefused, StillOpen
<1> QED
  BY <1>1, <1>2, <1>3, PTL DEF Spec
=============================================================================
