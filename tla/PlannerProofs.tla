----------------------------- MODULE PlannerProofs -----------------------------
(***************************************************************************)
(* Theorems about Planner and the operators of Schedule, for any calendar, *)
(* any schedules, and any lateness of the starter.                         *)
(***************************************************************************)
EXTENDS Planner, TLAPS, WellFoundedInduction

-----------------------------------------------------------------------------
(* Arithmetic with a divisor that is not a number.                         *)

LEMMA DivMod ==
  ASSUME NEW a \in Nat, NEW b \in Nat \ {0}
  PROVE  a \div b \in Nat /\ a % b \in 0 .. b - 1 /\ a = b * (a \div b) + (a % b)
<1>1. a \div b \in Nat
  OBVIOUS
<1>2. a % b \in 0 .. b - 1
  OBVIOUS
<1>3. a = b * (a \div b) + (a % b)
  OBVIOUS
<1> QED
  BY <1>1, <1>2, <1>3

LEMMA TimesMonotone ==
  ASSUME NEW a \in Int, NEW b \in Int, NEW c \in Nat, a <= b
  PROVE  c * a <= c * b
OBVIOUS

LEMMA TimesType ==
  ASSUME NEW a \in Nat, NEW b \in Nat
  PROVE  a * b \in Nat
OBVIOUS

LEMMA ModUnique ==
  ASSUME NEW b \in Nat \ {0}, NEW k \in Nat, NEW r \in 0 .. b - 1
  PROVE  (b * k + r) % b = r
<1> DEFINE a == b * k + r
<1>1. a \in Nat
  OBVIOUS
<1>2. a \div b \in Nat /\ a % b \in 0 .. b - 1 /\ a = b * (a \div b) + (a % b)
  BY <1>1, DivMod
<1>3. ASSUME NEW l \in Nat, NEW s \in 0 .. b - 1, b * k + r = b * l + s
      PROVE  r = s
  BY <1>3
<1> QED
  BY <1>2, <1>3

LEMMA DivMonotone ==
  ASSUME NEW a \in Nat, NEW c \in Nat, a <= c, NEW b \in Nat \ {0}
  PROVE  a \div b <= c \div b
<1> DEFINE k == a \div b
           l == c \div b
<1>1. /\ k \in Nat /\ a % b \in 0 .. b - 1 /\ a = b * k + (a % b)
      /\ l \in Nat /\ c % b \in 0 .. b - 1 /\ c = b * l + (c % b)
  BY DivMod
<1> HIDE DEF k, l
<1>2. ASSUME l + 1 <= k
      PROVE  FALSE
  <2>1. b * (l + 1) <= b * k
    BY <1>1, <1>2, TimesMonotone
  <2>2. b * (l + 1) = b * l + b
    BY <1>1
  <2>3. b * l + b <= b * k
    BY <2>1, <2>2
  <2> QED
    BY <1>1, <2>3, TimesType
<1> QED
  BY <1>1, <1>2 DEF k, l

\* Every set of naturals that is not empty has a least element, which is its Min.
LEMMA LeastNat ==
  ASSUME NEW T, T \subseteq Nat, T # {}
  PROVE  Min(T) \in T /\ \A n \in T : Min(T) <= n
<1> DEFINE R == OpToRel(<, Nat)
<1>1. \E m \in T : \A n \in T : ~ (<<n, m>> \in R)
  <2>1. IsWellFoundedOn(R, Nat)
    BY NatLessThanWellFounded
  <2> HIDE DEF R
  <2> QED
    BY <2>1, WFMin
<1>2. \A m, n \in Nat : <<n, m>> \in R <=> n < m
  BY DEF OpToRel
<1>3. PICK m \in T : \A n \in T : ~ (<<n, m>> \in R)
  BY <1>1
<1>4. ASSUME NEW n \in T
      PROVE  m <= n
  <2>1. ~ (<<n, m>> \in R)
    BY <1>3
  <2>2. m \in Nat /\ n \in Nat
    OBVIOUS
  <2>3. ~ (n < m)
    BY <1>2, <2>1, <2>2
  <2> QED
    BY <2>2, <2>3
<1>5. \E x \in T : \A y \in T : x <= y
  BY <1>4
<1> QED
  BY <1>5 DEF Min

-----------------------------------------------------------------------------
(* Days.                                                                   *)

Day(t) == t \div DayLen

LEMMA DayType ==
  ASSUME NEW t \in Nat
  PROVE  /\ Day(t) \in Nat /\ TimeOfDay(t) \in 0 .. DayLen - 1
         /\ t = DayLen * Day(t) + TimeOfDay(t)
         /\ Weekday(t) \in 0 .. WeekLen - 1
         /\ DayLen \in Nat \ {0}
<1>1. DayLen \in Nat \ {0} /\ WeekLen \in Nat \ {0}
  BY CalendarAssumption
<1>2. /\ Day(t) \in Nat /\ TimeOfDay(t) \in 0 .. DayLen - 1
      /\ t = DayLen * Day(t) + TimeOfDay(t)
  BY <1>1, DivMod DEF Day, TimeOfDay
<1>3. Day(t) % WeekLen \in 0 .. WeekLen - 1
  BY <1>1, <1>2, DivMod
<1> QED
  BY <1>1, <1>2, <1>3 DEF Weekday, Day

\* A day and a time within it.
LEMMA DayAndTime ==
  ASSUME NEW k \in Nat, NEW tod \in 0 .. DayLen - 1
  PROVE  DayLen * k + tod \in Nat /\ TimeOfDay(DayLen * k + tod) = tod
<1>1. DayLen \in Nat \ {0}
  BY CalendarAssumption
<1> QED
  BY <1>1, TimesType, ModUnique DEF TimeOfDay

\* NextDay finds the day of the week it was asked for, in the week from the reference on.
LEMMA NextDayIs ==
  ASSUME NEW ref \in Nat, NEW wd \in 0 .. WeekLen - 1
  PROVE  \E k \in Nat : /\ k >= Day(ref) /\ NextDay(ref, wd) = DayLen * k
                        /\ k % WeekLen = wd /\ (k = Day(ref) => wd = Weekday(ref))
<1> DEFINE n == IF wd < Weekday(ref) THEN wd - Weekday(ref) + WeekLen ELSE wd - Weekday(ref)
           w == Day(ref) \div WeekLen
<1>1. /\ Day(ref) \in Nat /\ TimeOfDay(ref) \in 0 .. DayLen - 1
      /\ ref = DayLen * Day(ref) + TimeOfDay(ref)
      /\ Weekday(ref) \in 0 .. WeekLen - 1 /\ DayLen \in Nat \ {0} /\ WeekLen \in Nat \ {0}
  BY DayType, CalendarAssumption
<1>2. n \in Nat /\ (n = 0 => wd = Weekday(ref))
  <2>1. Weekday(ref) \in Int /\ wd \in Int /\ WeekLen \in Int
    BY <1>1
  <2>2. CASE wd < Weekday(ref)
    <3>1. n = wd - Weekday(ref) + WeekLen
      BY <2>2
    <3> QED
      BY <1>1, <2>1, <2>2, <3>1
  <2>3. CASE ~(wd < Weekday(ref))
    <3>1. n = wd - Weekday(ref)
      BY <2>3
    <3> QED
      BY <1>1, <2>1, <2>3, <3>1
  <2> QED
    BY <2>2, <2>3
<1>3. NextDay(ref, wd) = DayLen * (Day(ref) + n)
  <2>1. NextDay(ref, wd) = (ref - TimeOfDay(ref)) + n * DayLen
    BY DEF NextDay, weeks
  <2> HIDE DEF n
  <2>2. DayLen * (Day(ref) + n) = DayLen * Day(ref) + n * DayLen
    BY <1>1, <1>2
  <2>3. DayLen * Day(ref) \in Nat /\ n * DayLen \in Nat
    BY <1>1, <1>2, TimesType
  <2> QED
    BY <1>1, <2>1, <2>2, <2>3
<1>4. (Day(ref) + n) % WeekLen = wd
  <2>1. w \in Nat /\ Day(ref) = WeekLen * w + Weekday(ref)
    BY <1>1, DivMod DEF Weekday, Day
  <2> HIDE DEF w
  <2>2. WeekLen * w \in Nat /\ WeekLen * (w + 1) = WeekLen * w + WeekLen
    BY <1>1, <2>1, TimesType
  <2>3. Day(ref) + n = WeekLen * w + wd \/ Day(ref) + n = WeekLen * (w + 1) + wd
    BY <1>1, <2>1, <2>2
  <2>4. (WeekLen * w + wd) % WeekLen = wd /\ (WeekLen * (w + 1) + wd) % WeekLen = wd
    <3>1. \A m \in Nat : (WeekLen * m + wd) % WeekLen = wd
      BY <1>1, ModUnique
    <3>2. w + 1 \in Nat
      BY <2>1
    <3> QED
      BY <2>1, <3>1, <3>2
  <2> HIDE DEF n
  <2> QED
    BY <2>3, <2>4
<1> HIDE DEF n
<1> QED
  BY <1>1, <1>2, <1>3, <1>4

\* Whatever the day of the week, a run is planned for the time of day asked for, and not
\* before the reference.
LEMMA RunOnType ==
  ASSUME NEW ref \in Nat, NEW wd \in 0 .. WeekLen - 1, NEW tod \in 0 .. DayLen - 1
  PROVE  LET r == RunOn(NextDay(ref, wd), tod, ref)
         IN  r \in Nat /\ r >= ref /\ TimeOfDay(r) = tod
<1> DEFINE r == RunOn(NextDay(ref, wd), tod, ref)
<1>1. PICK k \in Nat : k >= Day(ref) /\ NextDay(ref, wd) = DayLen * k
  BY NextDayIs
<1>2. /\ Day(ref) \in Nat /\ TimeOfDay(ref) \in 0 .. DayLen - 1
      /\ ref = DayLen * Day(ref) + TimeOfDay(ref) /\ DayLen \in Nat \ {0}
  BY DayType
<1>3. /\ DayLen * Day(ref) \in Nat /\ DayLen * k \in Nat
      /\ DayLen * Day(ref) <= DayLen * k /\ DayLen * (k + 1) = DayLen * k + DayLen
  BY <1>1, <1>2, TimesType, TimesMonotone
<1>4. r = IF DayLen * k + tod < ref THEN DayLen * (k + 1) + tod ELSE DayLen * k + tod
  <2>1. weeks(1) = DayLen
    BY <1>2 DEF weeks
  <2>2. (DayLen * k + tod) + DayLen = (DayLen * k + DayLen) + tod
    BY <1>2, <1>3
  <2> QED
    BY <1>1, <1>3, <2>1, <2>2 DEF RunOn
<1>5. r \in Nat /\ TimeOfDay(r) = tod
  BY <1>4, DayAndTime
<1>6. r >= ref
  <2> HIDE DEF r
  <2>1. ref < DayLen * Day(ref) + DayLen
    BY <1>2, <1>3
  <2> QED
    BY <1>2, <1>3, <1>4, <2>1
<1> QED
  BY <1>5, <1>6

\* Searching the reference's own day of the week finds the first time from the reference
\* on with the time of day asked for: one that has passed is put off by a day.
LEMMA RunOnToday ==
  ASSUME NEW ref \in Nat, NEW t \in Nat, t >= ref
  PROVE  RunOn(NextDay(ref, Weekday(ref)), TimeOfDay(t), ref) <= t
<1> DEFINE tod == TimeOfDay(t)
           m   == DayLen * Day(ref)
           n   == DayLen * Day(t)
<1>1. /\ Day(ref) \in Nat /\ TimeOfDay(ref) \in 0 .. DayLen - 1
      /\ ref = m + TimeOfDay(ref) /\ DayLen \in Nat \ {0}
      /\ Day(t) \in Nat /\ tod \in 0 .. DayLen - 1 /\ t = n + tod
      /\ Weekday(ref) \in 0 .. WeekLen - 1
  BY DayType
<1>2. m \in Nat /\ n \in Nat
  BY <1>1, TimesType
<1>3. NextDay(ref, Weekday(ref)) = m
  <2>1. NextDay(ref, Weekday(ref)) = (ref - TimeOfDay(ref)) + (Weekday(ref) - Weekday(ref)) * DayLen
    BY <1>1 DEF NextDay, weeks
  <2>2. (Weekday(ref) - Weekday(ref)) * DayLen = 0
    BY <1>1
  <2> QED
    BY <1>1, <1>2, <2>1, <2>2
<1>4. weeks(1) = DayLen
  BY <1>1 DEF weeks
<1>5. m <= n
  <2>1. Day(ref) <= Day(t)
    BY <1>1, DivMonotone DEF Day
  <2> QED
    BY <1>1, <2>1, TimesMonotone
<1>6. m < n => m + DayLen <= n
  <2>1. ASSUME m < n
        PROVE  Day(ref) + 1 <= Day(t)
    <3>1. ~ (Day(t) <= Day(ref))
      <4>1. Day(t) <= Day(ref) => n <= m
        BY <1>1, TimesMonotone
      <4> QED
        BY <1>2, <2>1, <4>1
    <3> QED
      BY <1>1, <3>1
  <2>2. ASSUME m < n
        PROVE  DayLen * (Day(ref) + 1) <= n
    BY <1>1, <2>1, <2>2, TimesMonotone
  <2>3. DayLen * (Day(ref) + 1) = m + DayLen
    BY <1>1
  <2> QED
    BY <2>2, <2>3
<1> HIDE DEF m, n, tod
<1>7. RunOn(m, tod, ref) <= t
  BY <1>1, <1>2, <1>4, <1>5, <1>6 DEF RunOn
<1> QED
  BY <1>3, <1>7 DEF tod

-----------------------------------------------------------------------------
(* Dates and ranges.                                                       *)

LEMMA ToTimeType ==
  ASSUME NEW d \in Date
  PROVE  ToTime(d) \in Int
<1>1. d.year \in Nat /\ d.day \in Nat /\ YearLen \in Nat /\ DayLen \in Nat
  BY CalendarAssumption DEF Date
<1>2. (d.year - 1) * YearLen \in Int
  BY <1>1
<1>3. (d.year - 1) * YearLen + d.day - 1 \in Int
  BY <1>1, <1>2
<1> QED
  BY <1>1, <1>3 DEF ToTime

LEMMA YearOfTime ==
  ASSUME NEW t \in Nat
  PROVE  /\ DateFromTime(t) \in Date /\ DateFromTime(t).year >= 1
         /\ (DateFromTime(t).year - 1) * (YearLen * DayLen) <= t
         /\ \A u \in Nat : t <= u => DateFromTime(t).year <= DateFromTime(u).year
<1>1. YearLen \in Nat \ {0} /\ DayLen \in Nat \ {0} /\ YearLen * DayLen \in Nat \ {0}
  BY CalendarAssumption
<1>2. /\ t \div (YearLen * DayLen) \in Nat
      /\ t % (YearLen * DayLen) \in 0 .. YearLen * DayLen - 1
      /\ t = (YearLen * DayLen) * (t \div (YearLen * DayLen)) + (t % (YearLen * DayLen))
  BY <1>1, DivMod
<1>3. (t \div DayLen) % YearLen \in 0 .. YearLen - 1
  BY <1>1, DivMod
<1>4. /\ DateFromTime(t) = [year |-> t \div (YearLen * DayLen) + 1,
                            day  |-> ((t \div DayLen) % YearLen) + 1]
      /\ DateFromTime(t).year = t \div (YearLen * DayLen) + 1
  BY DEF DateFromTime
<1>5. DateFromTime(t) \in Date /\ DateFromTime(t).year >= 1
  BY <1>1, <1>2, <1>3, <1>4 DEF Date
<1>6. (DateFromTime(t).year - 1) * (YearLen * DayLen) <= t
  <2> DEFINE k == t \div (YearLen * DayLen)
             b == YearLen * DayLen
  <2>1. DateFromTime(t).year - 1 = k
    BY <1>2, <1>4
  <2>2. k \in Nat /\ b \in Nat /\ t % b \in Nat /\ t = b * k + (t % b)
    BY <1>1, <1>2
  <2>3. k * b = b * k /\ b * k \in Nat
    BY <2>2
  <2> HIDE DEF k, b
  <2>4. k * b <= t
    BY <2>2, <2>3
  <2> QED
    BY <2>1, <2>4 DEF b
<1>7. ASSUME NEW u \in Nat, t <= u
      PROVE  DateFromTime(t).year <= DateFromTime(u).year
  <2>1. t \div (YearLen * DayLen) <= u \div (YearLen * DayLen)
    BY <1>1, <1>7, DivMonotone
  <2>2. u \div (YearLen * DayLen) \in Nat
    BY <1>1, DivMod
  <2> QED
    BY <1>2, <1>4, <2>1, <2>2 DEF DateFromTime
<1> QED
  BY <1>5, <1>6, <1>7

\* A later date begins at a later time.
LEMMA AfterLater ==
  ASSUME NEW d \in Date, NEW e \in Date, After(d, e)
  PROVE  ToTime(e) < ToTime(d)
<1>1. /\ d.year \in Nat /\ d.day \in 1 .. YearLen /\ e.year \in Nat /\ e.day \in 1 .. YearLen
      /\ YearLen \in Nat \ {0} /\ DayLen \in Nat \ {0}
  BY CalendarAssumption DEF Date
<1> DEFINE m == (e.year - 1) * YearLen + e.day - 1
           n == (d.year - 1) * YearLen + d.day - 1
<1>2. m \in Int /\ n \in Int /\ m + 1 <= n
  <2>1. (e.year - 1) * YearLen \in Int /\ (d.year - 1) * YearLen \in Int
    BY <1>1
  <2>2. CASE d.year > e.year
    <3>1. YearLen * e.year <= YearLen * (d.year - 1)
      BY <1>1, <2>2, TimesMonotone
    <3>2. (e.year - 1) * YearLen + YearLen <= (d.year - 1) * YearLen
      BY <1>1, <3>1
    <3> QED
      BY <1>1, <2>1, <3>2
  <2>3. CASE d.year = e.year /\ d.day > e.day
    BY <1>1, <2>1, <2>3
  <2> QED
    BY <2>2, <2>3 DEF After
<1> HIDE DEF m, n
<1>3. DayLen * (m + 1) <= DayLen * n
  BY <1>1, <1>2, TimesMonotone
<1>4. DayLen * (m + 1) = m * DayLen + DayLen /\ DayLen * n = n * DayLen /\ m * DayLen \in Int
      /\ n * DayLen \in Int
  BY <1>1, <1>2
<1>5. m * DayLen < n * DayLen
  BY <1>1, <1>3, <1>4
<1> QED
  BY <1>5 DEF ToTime, m, n

\* t is in a range of dates whose years are known.
Within(range, t) ==
  /\ range.from # NoDate => ToTime(range.from) <= t
  /\ range.to # NoDate => t <= ToTime(range.to)

LEMMA ScheduleFields ==
  ASSUME NEW s \in ScheduleType
  PROVE  /\ s.times \subseteq 0 .. DayLen - 1 /\ s.weekdays \subseteq 0 .. WeekLen - 1
         /\ s.from \in Date \cup {NoDate} /\ s.to \in Date \cup {NoDate}
BY DEF ScheduleType

LEMMA ResolvedType ==
  ASSUME NEW d \in Date, NEW p \in Nat
  PROVE  /\ WithResolvedYear(d, p) \in Date /\ WithResolvedYear(d, p).year >= 1
         /\ WithResolvedYear(d, p)
              = [year |-> IF d.year = 0 THEN DateFromTime(p).year ELSE d.year, day |-> d.day]
<1>1. DateFromTime(p).year \in Nat /\ DateFromTime(p).year >= 1
  BY YearOfTime DEF Date
<1>2. d = [year |-> d.year, day |-> d.day] /\ d.year \in Nat
  BY DEF Date
<1> QED
  BY <1>1, <1>2 DEF WithResolvedYear, Date

\* What RangeAt does to the ends of a range.
LEMMA RangeCases ==
  ASSUME NEW s \in ScheduleType, NEW p \in Nat
  PROVE  LET f == WithResolvedYear(s.from, p)
             t == WithResolvedYear(s.to, p)
         IN  /\ s.from = NoDate /\ s.to = NoDate => RangeAt(s, p) = [from |-> NoDate, to |-> NoDate]
             /\ s.from = NoDate /\ s.to # NoDate => RangeAt(s, p) = [from |-> NoDate, to |-> t]
             /\ s.from # NoDate /\ s.to = NoDate => RangeAt(s, p) = [from |-> f, to |-> NoDate]
             /\ s.from # NoDate /\ s.to # NoDate => RangeAt(s, p) = Season(f, t, p)
<1> DEFINE f == WithResolvedYear(s.from, p)
           t == WithResolvedYear(s.to, p)
<1>1. /\ s.from # NoDate => f \in Date /\ f # NoDate
      /\ s.to # NoDate => t \in Date /\ t # NoDate
  BY ScheduleFields, ResolvedType, CalendarAssumption
<1> HIDE DEF f, t
<1>2. RangeAt(s, p) =
        LET from == IF s.from = NoDate THEN NoDate ELSE f
            to   == IF s.to = NoDate THEN NoDate ELSE t
        IN  IF NoDate \in {from, to} THEN [from |-> from, to |-> to] ELSE Season(from, to, p)
  BY DEF RangeAt, f, t
<1>3. /\ s.from = NoDate /\ s.to = NoDate => RangeAt(s, p) = [from |-> NoDate, to |-> NoDate]
      /\ s.from = NoDate /\ s.to # NoDate => RangeAt(s, p) = [from |-> NoDate, to |-> t]
      /\ s.from # NoDate /\ s.to = NoDate => RangeAt(s, p) = [from |-> f, to |-> NoDate]
      /\ s.from # NoDate /\ s.to # NoDate => RangeAt(s, p) = Season(f, t, p)
  BY <1>1, <1>2
<1> QED
  BY <1>3 DEF f, t

\* Where a range passes the new year one of its ends is moved.
LEMMA SeasonCases ==
  ASSUME NEW f \in Date, NEW t \in Date, NEW p \in Nat, f.year >= 1
  PROVE  /\ ~After(f, t) => Season(f, t, p) = [from |-> f, to |-> t]
         /\ After(f, t) =>
              \/ Season(f, t, p) = [from |-> [year |-> f.year - 1, day |-> f.day], to |-> t]
              \/ Season(f, t, p) = [from |-> f, to |-> [year |-> t.year + 1, day |-> t.day]]
         /\ Season(f, t, p) \in [from : Date, to : Date]
<1>1. /\ f = [year |-> f.year, day |-> f.day] /\ t = [year |-> t.year, day |-> t.day]
      /\ f.year \in Nat /\ f.day \in 1 .. YearLen /\ t.year \in Nat /\ t.day \in 1 .. YearLen
  BY DEF Date
<1>2. /\ [f EXCEPT !.year = @ - 1] = [year |-> f.year - 1, day |-> f.day]
      /\ [t EXCEPT !.year = @ + 1] = [year |-> t.year + 1, day |-> t.day]
  BY <1>1
<1>3. /\ [year |-> f.year - 1, day |-> f.day] \in Date
      /\ [year |-> t.year + 1, day |-> t.day] \in Date
  BY <1>1 DEF Date
<1>4. \/ Season(f, t, p) = [from |-> f, to |-> t] /\ ~After(f, t)
      \/ Season(f, t, p) = [from |-> [f EXCEPT !.year = @ - 1], to |-> t] /\ After(f, t)
      \/ Season(f, t, p) = [from |-> f, to |-> [t EXCEPT !.year = @ + 1]] /\ After(f, t)
  BY DEF Season
<1> QED
  BY <1>2, <1>3, <1>4

LEMMA RangeType ==
  ASSUME NEW s \in ScheduleType, NEW p \in Nat
  PROVE  /\ RangeAt(s, p) \in [from : Date \cup {NoDate}, to : Date \cup {NoDate}]
         /\ RangeAt(s, p).from # NoDate <=> s.from # NoDate
         /\ RangeAt(s, p).to # NoDate <=> s.to # NoDate
<1>1. /\ s.from # NoDate => s.from \in Date /\ WithResolvedYear(s.from, p) \in Date
                            /\ WithResolvedYear(s.from, p).year >= 1
      /\ s.to # NoDate => s.to \in Date /\ WithResolvedYear(s.to, p) \in Date
  BY ScheduleFields, ResolvedType
<1>2. CASE s.from # NoDate /\ s.to # NoDate
  <2>1. RangeAt(s, p) = Season(WithResolvedYear(s.from, p), WithResolvedYear(s.to, p), p)
    BY <1>2, RangeCases
  <2>2. RangeAt(s, p) \in [from : Date, to : Date]
    BY <1>1, <1>2, <2>1, SeasonCases
  <2> QED
    BY <1>2, <2>2, CalendarAssumption
<1>3. CASE s.from = NoDate \/ s.to = NoDate
  <2>1. \/ s.from = NoDate /\ s.to = NoDate /\ RangeAt(s, p) = [from |-> NoDate, to |-> NoDate]
        \/ /\ s.from = NoDate /\ s.to # NoDate
           /\ RangeAt(s, p) = [from |-> NoDate, to |-> WithResolvedYear(s.to, p)]
        \/ /\ s.from # NoDate /\ s.to = NoDate
           /\ RangeAt(s, p) = [from |-> WithResolvedYear(s.from, p), to |-> NoDate]
    BY <1>3, RangeCases
  <2> QED
    BY <1>1, <2>1, CalendarAssumption
<1> QED
  BY <1>2, <1>3

-----------------------------------------------------------------------------
(* What NextRunAfterTime finds.                                            *)

LEMMA ReferenceType ==
  ASSUME NEW s \in ScheduleType, NEW p \in Nat
  PROVE  LET range == RangeAt(s, p)
             ref   == Reference(range, p)
         IN  /\ ref \in Nat /\ ref >= p
             /\ range.from # NoDate => ToTime(range.from) <= ref
             /\ \A t \in Nat : t >= p /\ Within(range, t) => t >= ref
<1> DEFINE range == RangeAt(s, p)
<1>1. range.from # NoDate => ToTime(range.from) \in Int
  <2>1. range.from \in Date \cup {NoDate}
    BY RangeType
  <2> QED
    BY <2>1, ToTimeType
<1> HIDE DEF range
<1>2. CASE range.from # NoDate /\ ToTime(range.from) > p
  <2>1. Reference(range, p) = ToTime(range.from)
    BY <1>2 DEF Reference
  <2> QED
    BY <1>1, <1>2, <2>1 DEF Within, range
<1>3. CASE ~(range.from # NoDate /\ ToTime(range.from) > p)
  <2>1. Reference(range, p) = p
    BY <1>3 DEF Reference
  <2> QED
    BY <1>1, <1>3, <2>1 DEF Within, range
<1> QED
  BY <1>2, <1>3

\* The runs NextRunAfterTime chooses from.
Runs(s, p) ==
  LET ref == Reference(RangeAt(s, p), p)
  IN  {RunOn(NextDay(ref, wd), tod, ref) : wd \in s.weekdays, tod \in s.times}

Kept(s, p) == {t \in Runs(s, p) : ~TooLate(t, RangeAt(s, p))}

LEMMA NextRunIsLeast ==
  ASSUME NEW s, NEW p
  PROVE  NextRunAfterTime(s, p) = IF Kept(s, p) = {} THEN Never ELSE Min(Kept(s, p))
BY DEF NextRunAfterTime, Kept, Runs

LEMMA KeptType ==
  ASSUME NEW s \in ScheduleType, NEW p \in Nat, NEW r \in Kept(s, p)
  PROVE  r \in Nat /\ r >= p /\ TimeOfDay(r) \in s.times /\ Within(RangeAt(s, p), r)
<1> DEFINE range == RangeAt(s, p)
           ref   == Reference(range, p)
<1>1. ref \in Nat /\ ref >= p /\ (range.from # NoDate => ToTime(range.from) <= ref)
  BY ReferenceType
<1>2. PICK wd \in s.weekdays, tod \in s.times : r = RunOn(NextDay(ref, wd), tod, ref)
  BY DEF Kept, Runs
<1>3. ~TooLate(r, range)
  BY DEF Kept
<1>4. wd \in 0 .. WeekLen - 1 /\ tod \in 0 .. DayLen - 1
  BY ScheduleFields
<1>5. /\ range.from # NoDate => ToTime(range.from) \in Int
      /\ range.to # NoDate => ToTime(range.to) \in Int
  <2>1. range.from \in Date \cup {NoDate} /\ range.to \in Date \cup {NoDate}
    BY RangeType
  <2> QED
    BY <2>1, ToTimeType
<1> HIDE DEF range, ref
<1>6. r \in Nat /\ r >= ref /\ TimeOfDay(r) = tod
  BY <1>1, <1>2, <1>4, RunOnType
<1>7. Within(range, r)
  BY <1>1, <1>3, <1>5, <1>6 DEF Within, TooLate
<1> QED
  BY <1>1, <1>2, <1>6, <1>7 DEF range

\* The next run lies ahead, at a time of day of the schedule, and within the range as it
\* is seen from the reference.
LEMMA NextRunType ==
  ASSUME NEW s \in ScheduleType, NEW p \in Nat, NextRunAfterTime(s, p) # Never
  PROVE  LET r == NextRunAfterTime(s, p)
         IN  r \in Nat /\ r >= p /\ TimeOfDay(r) \in s.times /\ Within(RangeAt(s, p), r)
<1>1. Kept(s, p) # {} /\ NextRunAfterTime(s, p) = Min(Kept(s, p))
  BY NextRunIsLeast
<1>2. Kept(s, p) \subseteq Nat
  BY KeptType
<1>3. Min(Kept(s, p)) \in Kept(s, p)
  BY <1>1, <1>2, LeastNat
<1> QED
  BY <1>1, <1>3, KeptType

\* On a schedule of every day, no time in the range lies before the next run.
LEMMA NextRunFirst ==
  ASSUME NEW s \in ScheduleType, NEW p \in Nat, EveryDay(s),
         NEW t \in Nat, t >= p, TimeOfDay(t) \in s.times, Within(RangeAt(s, p), t)
  PROVE  NextRunAfterTime(s, p) # Never /\ NextRunAfterTime(s, p) <= t
<1> DEFINE range == RangeAt(s, p)
           ref   == Reference(range, p)
           run   == RunOn(NextDay(ref, Weekday(ref)), TimeOfDay(t), ref)
<1>1. ref \in Nat /\ t >= ref
  BY ReferenceType
<1>2. run <= t
  BY <1>1, RunOnToday
<1>3. Weekday(ref) \in s.weekdays
  BY <1>1, DayType DEF EveryDay
<1>4. run \in Runs(s, p)
  BY <1>3 DEF Runs
<1>5. run \in Nat
  <2>1. TimeOfDay(t) \in 0 .. DayLen - 1 /\ Weekday(ref) \in 0 .. WeekLen - 1
    BY <1>1, DayType
  <2> QED
    BY <1>1, <2>1, RunOnType
<1>6. ~TooLate(run, range)
  <2>1. range.to # NoDate => ToTime(range.to) \in Int
    <3>1. range.to \in Date \cup {NoDate}
      BY RangeType
    <3> QED
      BY <3>1, ToTimeType
  <2> HIDE DEF run
  <2>2. range.to # NoDate => t <= ToTime(range.to)
    BY DEF Within
  <2> QED
    BY <1>2, <1>5, <2>1, <2>2 DEF TooLate
<1>7. run \in Kept(s, p)
  BY <1>4, <1>6 DEF Kept
<1> HIDE DEF run, ref, range
<1>8. Kept(s, p) \subseteq Nat
  BY KeptType
<1>9. NextRunAfterTime(s, p) \in Nat /\ NextRunAfterTime(s, p) <= run
  BY <1>7, <1>8, LeastNat, NextRunIsLeast
<1> QED
  BY <1>2, <1>5, <1>9 DEF Never

-----------------------------------------------------------------------------
(* Which day of the week it is on.                                         *)

\* The day and the time of day of a sum are those it was made of.
LEMMA DayOfSum ==
  ASSUME NEW k \in Nat, NEW tod \in 0 .. DayLen - 1
  PROVE  Day(DayLen * k + tod) = k
<1>1. DayLen \in Nat \ {0}
  BY CalendarAssumption
<1> DEFINE t == DayLen * k + tod
<1>2. t \in Nat /\ TimeOfDay(t) = tod
  BY DayAndTime
<1>3. Day(t) \in Nat /\ t = DayLen * Day(t) + TimeOfDay(t)
  BY <1>2, DayType
<1>4. ASSUME NEW d \in Nat, DayLen * k + tod = DayLen * d + tod
      PROVE  d = k
  <2>1. DayLen * k \in Nat /\ DayLen * d \in Nat
    BY <1>1, TimesType
  <2>2. DayLen * k = DayLen * d
    BY <1>4, <2>1
  <2>3. d < k => DayLen * d < DayLen * k
    <3>1. d + 1 <= k => DayLen * (d + 1) <= DayLen * k
      BY <1>1, TimesMonotone
    <3>2. DayLen * (d + 1) = DayLen * d + DayLen
      BY <1>1
    <3> QED
      BY <1>1, <2>1, <3>1, <3>2
  <2>4. k < d => DayLen * k < DayLen * d
    <3>1. k + 1 <= d => DayLen * (k + 1) <= DayLen * d
      BY <1>1, TimesMonotone
    <3>2. DayLen * (k + 1) = DayLen * k + DayLen
      BY <1>1
    <3> QED
      BY <1>1, <2>1, <3>1, <3>2
  <2> QED
    BY <2>1, <2>2, <2>3, <2>4
<1> HIDE DEF t
<1>5. DayLen * k + tod = DayLen * Day(t) + tod
  BY <1>2, <1>3 DEF t
<1> QED
  BY <1>3, <1>4, <1>5 DEF t

\* A run is planned on a day of the week the schedule names, or on the day after one, at a
\* time that had passed there when it was planned: weeks(1) is one day (sched.go:147).  It
\* is never on any other day.
THEOREM OnNamedDayOrTheNext ==
  ASSUME NEW s \in ScheduleType, NEW p \in Nat, NextRunAfterTime(s, p) # Never
  PROVE  LET r   == NextRunAfterTime(s, p)
             ref == Reference(RangeAt(s, p), p)
         IN  \/ Weekday(r) \in s.weekdays
             \/ /\ Weekday(ref) \in s.weekdays /\ Day(r) = Day(ref) + 1
                /\ TimeOfDay(r) < TimeOfDay(ref)
<1> DEFINE r   == NextRunAfterTime(s, p)
           ref == Reference(RangeAt(s, p), p)
<1>1. ref \in Nat
  BY ReferenceType
<1>2. r \in Kept(s, p)
  <2>1. Kept(s, p) # {} /\ r = Min(Kept(s, p))
    BY NextRunIsLeast
  <2>2. Kept(s, p) \subseteq Nat
    BY KeptType
  <2> QED
    BY <2>1, <2>2, LeastNat
<1>3. PICK wd \in s.weekdays, tod \in s.times : r = RunOn(NextDay(ref, wd), tod, ref)
  BY <1>2 DEF Kept, Runs
<1>4. wd \in 0 .. WeekLen - 1 /\ tod \in 0 .. DayLen - 1
  BY ScheduleFields
<1> HIDE DEF r, ref
<1>5. PICK k \in Nat : /\ k >= Day(ref) /\ NextDay(ref, wd) = DayLen * k
                       /\ k % WeekLen = wd /\ (k = Day(ref) => wd = Weekday(ref))
  BY <1>1, <1>4, NextDayIs
<1>6. /\ Day(ref) \in Nat /\ TimeOfDay(ref) \in 0 .. DayLen - 1
      /\ ref = DayLen * Day(ref) + TimeOfDay(ref) /\ DayLen \in Nat \ {0}
  BY <1>1, DayType
<1>7. CASE ~(DayLen * k + tod < ref)
  <2>1. r = DayLen * k + tod
    BY <1>3, <1>5, <1>7 DEF RunOn
  <2>2. Day(r) = k
    BY <1>4, <2>1, DayOfSum
  <2>3. Weekday(r) = wd
    BY <1>5, <2>2 DEF Weekday, Day
  <2> QED
    BY <1>3, <2>3 DEF r, ref
<1>8. CASE DayLen * k + tod < ref
  <2>1. /\ DayLen * k \in Nat /\ DayLen * Day(ref) \in Nat
        /\ DayLen * (k + 1) = DayLen * k + DayLen
    BY <1>6, TimesType
  <2>2. k = Day(ref)
    <3>1. Day(ref) + 1 <= k => DayLen * (Day(ref) + 1) <= DayLen * k
      BY <1>6, TimesMonotone
    <3>2. DayLen * (Day(ref) + 1) = DayLen * Day(ref) + DayLen
      BY <1>6
    <3> QED
      BY <1>4, <1>5, <1>6, <1>8, <2>1, <3>1, <3>2
  <2>3. r = DayLen * (k + 1) + tod
    <3>1. weeks(1) = DayLen
      BY <1>6 DEF weeks
    <3>2. r = DayLen * k + tod + DayLen
      BY <1>3, <1>5, <1>8, <3>1 DEF RunOn
    <3>3. DayLen * k + tod + DayLen = DayLen * k + DayLen + tod
      BY <1>4, <1>6, <2>1
    <3> QED
      BY <2>1, <3>2, <3>3
  <2>4. Day(r) = k + 1 /\ TimeOfDay(r) = tod
    BY <1>4, <2>3, DayOfSum, DayAndTime
  <2>5. tod < TimeOfDay(ref)
    BY <1>4, <1>6, <1>8, <2>1, <2>2
  <2> QED
    BY <1>3, <1>5, <2>2, <2>4, <2>5 DEF r, ref
<1> QED
  BY <1>7, <1>8

-----------------------------------------------------------------------------
(* What a range means and what RangeAt makes of it.                        *)

\* The date d in a year, if it names none.
In(d, year) == IF d.year = 0 THEN [d EXCEPT !.year = year] ELSE d

Wraps(s, y) == NoDate \notin {s.from, s.to} /\ After(In(s.from, y), In(s.to, y))

LEMMA InRangeIs ==
  ASSUME NEW s, NEW t
  PROVE  InRange(s, t) <=>
           \E y \in Years :
             /\ s.from # NoDate => ToTime(In(s.from, y)) <= t
             /\ s.to # NoDate => t <= ToTime(In(s.to, IF Wraps(s, y) THEN y + 1 ELSE y))
BY DEF InRange, In, Wraps

LEMMA InIs ==
  ASSUME NEW d \in Date, NEW y
  PROVE  /\ d.year = 0 => In(d, y) = [year |-> y, day |-> d.day]
         /\ d.year # 0 => In(d, y) = d
<1>1. d = [year |-> d.year, day |-> d.day]
  BY DEF Date
<1> QED
  BY <1>1 DEF In

LEMMA YearsHave ==
  ASSUME NEW p \in Nat, DateFromTime(p).year <= DateFromTime(Horizon).year
  PROVE  LET y == DateFromTime(p).year IN y \in Years /\ y - 1 \in Years /\ 0 \in Years
<1>1. DateFromTime(Horizon).year \in Nat
  BY YearOfTime, PlannerAssumption DEF Date
<1>2. DateFromTime(p).year \in Nat /\ DateFromTime(p).year >= 1
  BY YearOfTime DEF Date
<1> QED
  BY <1>1, <1>2 DEF Years

\* A time in the range as it is seen from p is in the range that was meant.
LEMMA SeenIsMeant ==
  ASSUME NEW s \in ScheduleType, Meant(s), NEW p \in Nat,
         DateFromTime(p).year <= DateFromTime(Horizon).year,
         NEW t, Within(RangeAt(s, p), t)
  PROVE  InRange(s, t)
<1> DEFINE yp == DateFromTime(p).year
           f  == WithResolvedYear(s.from, p)
           to == WithResolvedYear(s.to, p)
<1>1. yp \in Years /\ yp - 1 \in Years /\ 0 \in Years /\ yp \in Nat /\ yp >= 1
  BY YearsHave, YearOfTime DEF Date
<1>2. /\ s.from # NoDate => s.from \in Date /\ f = In(s.from, yp) /\ f \in Date /\ f.year >= 1
      /\ s.to # NoDate => s.to \in Date /\ to = In(s.to, yp) /\ to \in Date
  <2>1. /\ s.from # NoDate => s.from \in Date
        /\ s.to # NoDate => s.to \in Date
    BY ScheduleFields
  <2> QED
    BY <2>1, ResolvedType DEF In, WithResolvedYear
<1> HIDE DEF yp, f, to
<1>3. CASE s.from = NoDate \/ s.to = NoDate
  <2>1. ~Wraps(s, yp)
    BY <1>3 DEF Wraps
  <2>2. /\ s.from # NoDate => RangeAt(s, p) = [from |-> f, to |-> NoDate]
        /\ s.to # NoDate => RangeAt(s, p) = [from |-> NoDate, to |-> to]
    BY <1>3, RangeCases DEF f, to
  <2>3. /\ s.from # NoDate => ToTime(f) <= t
        /\ s.to # NoDate => t <= ToTime(to)
    <3>1. ASSUME s.from # NoDate
          PROVE  ToTime(f) <= t
      <4>1. f # NoDate
        BY <1>2, <3>1, CalendarAssumption
      <4> QED
        BY <2>2, <3>1, <4>1 DEF Within
    <3>2. ASSUME s.to # NoDate
          PROVE  t <= ToTime(to)
      <4>1. to # NoDate
        BY <1>2, <3>2, CalendarAssumption
      <4> QED
        BY <2>2, <3>2, <4>1 DEF Within
    <3> QED
      BY <3>1, <3>2
  <2> QED
    BY <1>1, <1>2, <2>1, <2>3, InRangeIs
<1>4. CASE s.from # NoDate /\ s.to # NoDate
  <2>1. RangeAt(s, p) = Season(f, to, p)
    BY <1>4, RangeCases DEF f, to
  <2>2. Season(f, to, p) \in [from : Date, to : Date]
    BY <1>2, <1>4, SeasonCases
  <2>3. /\ ToTime(Season(f, to, p).from) <= t
        /\ t <= ToTime(Season(f, to, p).to)
    BY <2>1, <2>2, CalendarAssumption DEF Within
  <2>4. \/ ~After(f, to) /\ Season(f, to, p) = [from |-> f, to |-> to]
        \/ /\ After(f, to)
           /\ Season(f, to, p) = [from |-> [year |-> f.year - 1, day |-> f.day], to |-> to]
        \/ /\ After(f, to)
           /\ Season(f, to, p) = [from |-> f, to |-> [year |-> to.year + 1, day |-> to.day]]
    <3>1. f \in Date /\ to \in Date /\ f.year >= 1
      BY <1>2, <1>4
    <3>2. /\ ~After(f, to) => Season(f, to, p) = [from |-> f, to |-> to]
          /\ After(f, to) =>
               \/ Season(f, to, p) = [from |-> [year |-> f.year - 1, day |-> f.day], to |-> to]
               \/ Season(f, to, p) = [from |-> f, to |-> [year |-> to.year + 1, day |-> to.day]]
      BY <3>1, SeasonCases
    <3> QED
      BY <3>2, Zenon
  <2>5. CASE ~After(f, to)
    <3>1. ~Wraps(s, yp)
      BY <1>2, <1>4, <2>5 DEF Wraps
    <3>2. ToTime(f) <= t /\ t <= ToTime(to)
      BY <2>3, <2>4, <2>5
    <3> QED
      BY <1>1, <1>2, <1>4, <3>1, <3>2, InRangeIs
  <2>6. CASE After(f, to)
    <3>1. s.from.year = 0 /\ s.to.year = 0
      <4>1. CASE s.from.year # 0 /\ s.to.year # 0 /\ ~After(s.from, s.to)
        BY <1>2, <1>4, <2>6, <4>1, InIs
      <4> QED
        BY <1>4, <4>1 DEF Meant
    <3>2. \A y : /\ In(s.from, y) = [year |-> y, day |-> s.from.day]
                 /\ In(s.to, y) = [year |-> y, day |-> s.to.day]
      BY <1>2, <1>4, <3>1, InIs
    <3>3. f = [year |-> yp, day |-> s.from.day] /\ to = [year |-> yp, day |-> s.to.day]
      BY <1>2, <1>4, <3>2
    <3>4. s.from.day > s.to.day
      BY <1>1, <2>6, <3>3 DEF After
    <3>5. ASSUME NEW y \in Nat
          PROVE  Wraps(s, y)
      <4>1. After([year |-> y, day |-> s.from.day], [year |-> y, day |-> s.to.day])
        BY <3>4 DEF After
      <4> QED
        BY <1>4, <3>2, <4>1 DEF Wraps
    <3>6. CASE Season(f, to, p) = [from |-> [year |-> f.year - 1, day |-> f.day], to |-> to]
      <4>1. Season(f, to, p).from = In(s.from, yp - 1) /\ Season(f, to, p).to = In(s.to, yp)
        BY <3>2, <3>3, <3>6
      <4>2. Wraps(s, yp - 1) /\ (yp - 1) + 1 = yp
        BY <1>1, <3>5
      <4> QED
        BY <1>1, <2>3, <4>1, <4>2, InRangeIs
    <3>7. CASE Season(f, to, p) = [from |-> f, to |-> [year |-> to.year + 1, day |-> to.day]]
      <4>1. Season(f, to, p).from = In(s.from, yp) /\ Season(f, to, p).to = In(s.to, yp + 1)
        BY <3>2, <3>3, <3>7
      <4> QED
        BY <1>1, <2>3, <3>5, <4>1, InRangeIs
    <3> QED
      BY <2>4, <2>6, <3>6, <3>7
  <2> QED
    BY <2>5, <2>6
<1> QED
  BY <1>3, <1>4

\* A range whose dates name their years is the same wherever it is seen from.
LEMMA MeantIsSeen ==
  ASSUME NEW s \in ScheduleType, ~Seasonal(s), NEW p \in Nat, NEW t \in Nat, InRange(s, t)
  PROVE  Within(RangeAt(s, p), t)
<1>1. /\ s.from # NoDate => s.from \in Date /\ s.from.year # 0
      /\ s.to # NoDate => s.to \in Date /\ s.to.year # 0
  BY ScheduleFields DEF Seasonal
<1>2. /\ s.from # NoDate => WithResolvedYear(s.from, p) = s.from /\ s.from.year >= 1
      /\ s.to # NoDate => WithResolvedYear(s.to, p) = s.to
  BY <1>1 DEF WithResolvedYear, Date
<1>3. /\ s.from # NoDate => ToTime(s.from) <= t
      /\ s.to # NoDate => t <= ToTime(s.to)
  <2>1. PICK y \in Years :
          /\ s.from # NoDate => ToTime(In(s.from, y)) <= t
          /\ s.to # NoDate => t <= ToTime(In(s.to, IF Wraps(s, y) THEN y + 1 ELSE y))
    BY InRangeIs
  <2> QED
    BY <1>1, <2>1, InIs
<1>4. CASE s.from = NoDate \/ s.to = NoDate
  <2>1. RangeAt(s, p) = [from |-> s.from, to |-> s.to]
    BY <1>2, <1>4, RangeCases
  <2> QED
    BY <1>3, <2>1 DEF Within
<1>5. CASE s.from # NoDate /\ s.to # NoDate
  <2>1. RangeAt(s, p) = Season(s.from, s.to, p)
    BY <1>2, <1>5, RangeCases
  <2>2. ~After(s.from, s.to)
    <3>1. After(s.from, s.to) => ToTime(s.to) < ToTime(s.from)
      BY <1>1, <1>5, AfterLater
    <3>2. ToTime(s.to) \in Int /\ ToTime(s.from) \in Int
      BY <1>1, <1>5, ToTimeType
    <3> QED
      BY <1>3, <1>5, <3>1, <3>2
  <2>3. RangeAt(s, p) = [from |-> s.from, to |-> s.to]
    BY <1>1, <1>2, <1>5, <2>1, <2>2, SeasonCases
  <2> QED
    BY <1>3, <2>3 DEF Within
<1> QED
  BY <1>4, <1>5

\* Before either end of a season that passes the new year, it is the season that began
\* last year, and what is left of it ends this year.
LEMMA SeasonOfLastYear ==
  ASSUME NEW s \in ScheduleType, NEW p \in Nat,
         NoDate \notin {s.from, s.to}, s.from.year = 0, s.to.year = 0,
         After(s.from, s.to), DateFromTime(p).day < s.to.day
  PROVE  LET y == DateFromTime(p).year
         IN  /\ RangeAt(s, p) = [from |-> [year |-> y - 1, day |-> s.from.day],
                                 to |-> [year |-> y, day |-> s.to.day]]
             /\ ToTime([year |-> y - 1, day |-> s.from.day]) <= p
<1> DEFINE y  == DateFromTime(p).year
           f  == [year |-> y, day |-> s.from.day]
           to == [year |-> y, day |-> s.to.day]
<1>1. /\ DateFromTime(p) \in Date /\ y \in Nat /\ y >= 1
      /\ DateFromTime(p) = [year |-> y, day |-> DateFromTime(p).day]
  BY YearOfTime DEF Date
<1>2. s.from \in Date /\ s.to \in Date
  BY ScheduleFields
<1>3. WithResolvedYear(s.from, p) = f /\ WithResolvedYear(s.to, p) = to
  BY <1>2, ResolvedType
<1>4. /\ DateFromTime(p).day \in 1 .. YearLen
      /\ s.from.day \in 1 .. YearLen /\ s.to.day \in 1 .. YearLen /\ s.from.day > s.to.day
  BY <1>1, <1>2 DEF After, Date
<1>5. After(f, to) /\ Before(DateFromTime(p), to) /\ Before(DateFromTime(p), f)
  BY <1>1, <1>4, CalendarAssumption DEF After, Before
<1>6. Season(f, to, p) = [from |-> [f EXCEPT !.year = @ - 1], to |-> to]
  BY <1>5 DEF Season
<1>7. [f EXCEPT !.year = @ - 1] = [year |-> y - 1, day |-> s.from.day]
  OBVIOUS
<1>8. RangeAt(s, p) = Season(f, to, p)
  BY <1>3, RangeCases
<1>9. ToTime([year |-> y - 1, day |-> s.from.day]) <= p
  <2> DEFINE d == s.from.day
             k == y - 1
  <2>1. k \in Nat /\ d \in 1 .. YearLen /\ YearLen \in Nat /\ DayLen \in Nat
    BY <1>1, <1>4, CalendarAssumption
  <2>2. k * (YearLen * DayLen) <= p
    BY YearOfTime
  <2>3. ToTime([year |-> y - 1, day |-> s.from.day]) = ((k - 1) * YearLen + d - 1) * DayLen
    BY DEF ToTime
  <2> HIDE DEF d, k
  <2>4. (k - 1) * YearLen = k * YearLen - YearLen /\ k * YearLen \in Nat
    BY <2>1
  <2>5. (k - 1) * YearLen + d - 1 \in Int /\ (k - 1) * YearLen + d - 1 <= k * YearLen
    BY <2>1, <2>4
  <2>6. DayLen * ((k - 1) * YearLen + d - 1) <= DayLen * (k * YearLen)
    BY <2>1, <2>4, <2>5, TimesMonotone
  <2>7. /\ DayLen * ((k - 1) * YearLen + d - 1) = ((k - 1) * YearLen + d - 1) * DayLen
        /\ DayLen * ((k - 1) * YearLen + d - 1) \in Int
    BY <2>1, <2>5
  <2>8. DayLen * (k * YearLen) = k * (YearLen * DayLen) /\ k * (YearLen * DayLen) \in Nat
    BY <2>1
  <2> QED
    BY <2>2, <2>3, <2>6, <2>7, <2>8
<1> QED
  BY <1>6, <1>7, <1>8, <1>9

-----------------------------------------------------------------------------
(* The invariant: what the starter has planned, and that it has seen to    *)
(* every time until it last read the clock.                                *)

\* How far the starter has got: the clock when it last looked for the next run, or looks.
Reached == IF pc = "plan" THEN now ELSE planned

Seen(t) == \E r \in ran \cup dropped : r <= t /\ t < r + MaxLate

PlannerTypeOK ==
  /\ sched \in Schedules /\ pc \in {"plan", "select"} /\ nextRun \in Nat \cup {Never}
  /\ now \in Nat /\ began \in Nat /\ planned \in Nat
  /\ ran \subseteq Nat /\ dropped \subseteq Nat

Clock ==
  /\ began <= planned /\ planned <= now
  /\ DateFromTime(now).year <= DateFromTime(Horizon).year

PlanIsNext ==
  pc = "select" =>
    /\ nextRun = NextRunAfterTime(sched, planned)
    /\ nextRun # Never => now <= nextRun + MaxLate

RanBefore ==
  \A t \in ran : t < Reached /\ (EveryDay(sched) /\ Meant(sched) => Occurs(sched, t))

AllSeen ==
  EveryDay(sched) /\ ~Seasonal(sched) =>
    \A t \in began .. Reached - 1 : Occurs(sched, t) => Seen(t)

PlannerInv == PlannerTypeOK /\ Clock /\ PlanIsNext /\ RanBefore /\ AllSeen

\* On a schedule of every day whose dates name their years, no time that occurs lies
\* between the last plan and the run that was planned.
LEMMA PlanIsFirst ==
  ASSUME PlannerInv, pc = "select", EveryDay(sched), ~Seasonal(sched),
         NEW t \in Nat, planned <= t, Occurs(sched, t)
  PROVE  nextRun \in Nat /\ nextRun <= t /\ now <= nextRun + MaxLate
<1>1. /\ sched \in ScheduleType /\ planned \in Nat
      /\ nextRun = NextRunAfterTime(sched, planned) /\ nextRun \in Nat \cup {Never}
      /\ nextRun # Never => now <= nextRun + MaxLate
  BY PlannerAssumption DEF PlannerInv, PlannerTypeOK, PlanIsNext
<1>2. TimeOfDay(t) \in sched.times /\ InRange(sched, t)
  BY DEF Occurs
<1>3. Within(RangeAt(sched, planned), t)
  BY <1>1, <1>2, MeantIsSeen
<1>4. nextRun # Never /\ nextRun <= t
  BY <1>1, <1>2, <1>3, NextRunFirst
<1> QED
  BY <1>1, <1>4

\* What is planned lies ahead, and is what the schedule means.
LEMMA PlanAhead ==
  ASSUME PlannerInv, pc = "select", nextRun # Never
  PROVE  /\ nextRun \in Nat /\ nextRun >= planned /\ TimeOfDay(nextRun) \in sched.times
         /\ Within(RangeAt(sched, planned), nextRun)
         /\ Meant(sched) => InRange(sched, nextRun)
<1>1. /\ sched \in ScheduleType /\ planned \in Nat /\ now \in Nat /\ planned <= now
      /\ nextRun = NextRunAfterTime(sched, planned)
      /\ DateFromTime(now).year <= DateFromTime(Horizon).year
  BY PlannerAssumption DEF PlannerInv, PlannerTypeOK, PlanIsNext, Clock
<1>2. /\ nextRun \in Nat /\ nextRun >= planned /\ TimeOfDay(nextRun) \in sched.times
      /\ Within(RangeAt(sched, planned), nextRun)
  BY <1>1, NextRunType
<1>3. DateFromTime(planned).year <= DateFromTime(Horizon).year
  <2>1. DateFromTime(planned).year <= DateFromTime(now).year
    BY <1>1, YearOfTime
  <2>2. /\ DateFromTime(planned).year \in Nat /\ DateFromTime(now).year \in Nat
        /\ DateFromTime(Horizon).year \in Nat
    BY <1>1, YearOfTime, PlannerAssumption DEF Date
  <2> QED
    BY <1>1, <2>1, <2>2
<1> QED
  BY <1>1, <1>2, <1>3, SeenIsMeant

LEMMA PlannerInvInit == Init => PlannerInv
<1> SUFFICES ASSUME Init
             PROVE  PlannerInv
  OBVIOUS
<1>1. YearLen * DayLen \in Nat /\ now \in 0 .. YearLen * DayLen - 1
  BY CalendarAssumption, TimesType DEF Init
<1>2. PlannerTypeOK
  BY <1>1 DEF Init, PlannerTypeOK
<1>3. DateFromTime(now).year <= DateFromTime(Horizon).year
  <2>1. now \div (YearLen * DayLen) = 0
    <3> DEFINE b == YearLen * DayLen
               k == now \div b
    <3>1. b \in Nat \ {0} /\ now \in Nat /\ now < b
      BY <1>1
    <3> HIDE DEF b
    <3>2. k \in Nat /\ now % b \in 0 .. b - 1 /\ now = b * k + (now % b)
      BY <3>1, DivMod
    <3> HIDE DEF k
    <3>3. ~(1 <= k)
      <4>1. 1 <= k => b * 1 <= b * k
        BY <3>1, <3>2, TimesMonotone
      <4>2. b * 1 = b /\ b * k \in Nat
        BY <3>1, <3>2
      <4> QED
        BY <3>1, <3>2, <4>1, <4>2
    <3> QED
      BY <3>2, <3>3 DEF b, k
  <2>2. DateFromTime(now).year = 1
    BY <2>1 DEF DateFromTime
  <2>3. DateFromTime(Horizon).year \in Nat /\ DateFromTime(Horizon).year >= 1
    BY YearOfTime, PlannerAssumption DEF Date
  <2> QED
    BY <2>2, <2>3
<1>4. Clock
  BY <1>1, <1>3 DEF Init, Clock
<1>5. PlanIsNext /\ RanBefore
  BY DEF Init, PlanIsNext, RanBefore
<1>6. AllSeen
  BY <1>1 DEF Init, AllSeen, Reached
<1> QED
  BY <1>2, <1>4, <1>5, <1>6 DEF PlannerInv

LEMMA PlannerInvNext == PlannerInv /\ [Next]_vars => PlannerInv'
<1> SUFFICES ASSUME PlannerInv, [Next]_vars
             PROVE  PlannerInv'
  OBVIOUS
<1>0. /\ PlannerTypeOK /\ Clock /\ PlanIsNext /\ RanBefore /\ AllSeen
      /\ sched \in ScheduleType /\ Horizon \in Nat /\ MaxLate \in Nat
  BY PlannerAssumption DEF PlannerInv, PlannerTypeOK
<1>1. ASSUME Plan
      PROVE  PlannerInv'
  <2>1. /\ pc = "plan" /\ pc' = "select" /\ planned' = now
        /\ nextRun' = NextRunAfterTime(sched, now)
        /\ UNCHANGED <<sched, now, began, ran, dropped>>
    BY <1>1 DEF Plan
  <2>2. nextRun' # Never => nextRun' \in Nat /\ nextRun' >= now
    BY <1>0, <2>1, NextRunType DEF PlannerTypeOK
  <2>3. PlannerTypeOK'
    BY <1>0, <2>1, <2>2 DEF PlannerTypeOK
  <2>4. Clock'
    BY <1>0, <2>1 DEF Clock, PlannerTypeOK
  <2>5. PlanIsNext'
    BY <1>0, <2>1, <2>2 DEF PlanIsNext, PlannerTypeOK
  <2>6. Reached' = Reached
    BY <2>1 DEF Reached
  <2>7. RanBefore'
    BY <1>0, <2>1, <2>6 DEF RanBefore
  <2>8. AllSeen'
    BY <1>0, <2>1, <2>6 DEF AllSeen, Seen
  <2> QED
    BY <2>3, <2>4, <2>5, <2>7, <2>8 DEF PlannerInv
<1>2. ASSUME TimerFires
      PROVE  PlannerInv'
  <2>1. /\ pc = "select" /\ pc' = "plan" /\ nextRun # Never /\ now > nextRun
        /\ ran' = ran \cup {nextRun}
        /\ UNCHANGED <<sched, now, nextRun, began, planned, dropped>>
    BY <1>2 DEF TimerFires, Due
  <2>2. /\ nextRun \in Nat /\ nextRun >= planned /\ TimeOfDay(nextRun) \in sched.times
        /\ Meant(sched) => InRange(sched, nextRun)
    BY <2>1, PlanAhead
  <2>3. PlannerTypeOK' /\ Clock' /\ PlanIsNext'
    BY <1>0, <2>1, <2>2 DEF PlannerTypeOK, Clock, PlanIsNext
  <2>4. Reached' = now /\ Reached = planned
    BY <2>1 DEF Reached
  <2>5. RanBefore'
    <3>1. EveryDay(sched) /\ Meant(sched) => Occurs(sched, nextRun)
      <4>1. Weekday(nextRun) \in 0 .. WeekLen - 1
        BY <2>2, DayType
      <4> QED
        BY <2>2, <4>1 DEF Occurs, EveryDay
    <3>2. ASSUME NEW t \in ran
          PROVE  t < now /\ (EveryDay(sched) /\ Meant(sched) => Occurs(sched, t))
      <4>1. t < planned /\ (EveryDay(sched) /\ Meant(sched) => Occurs(sched, t))
        BY <1>0, <2>4 DEF RanBefore
      <4> QED
        BY <1>0, <4>1 DEF PlannerTypeOK, Clock
    <3>3. \A t \in ran' : t < now /\ (EveryDay(sched) /\ Meant(sched) => Occurs(sched, t))
      BY <2>1, <3>1, <3>2
    <3> QED
      BY <2>1, <2>4, <3>3 DEF RanBefore
  <2>6. AllSeen'
    <3>1. ASSUME EveryDay(sched), ~Seasonal(sched),
                 NEW t \in began .. now - 1, Occurs(sched, t)
          PROVE  Seen(t)'
      <4>1. CASE t < planned
        <5>1. t \in began .. planned - 1
          BY <1>0, <4>1 DEF PlannerTypeOK
        <5>2. Seen(t)
          BY <1>0, <2>4, <3>1, <5>1 DEF AllSeen
        <5> QED
          BY <2>1, <5>2 DEF Seen
      <4>2. CASE planned <= t
        <5>1. nextRun <= t /\ now <= nextRun + MaxLate
          <6>1. t \in Nat
            BY <1>0 DEF PlannerTypeOK
          <6> QED
            BY <2>1, <3>1, <4>2, <6>1, PlanIsFirst
        <5>2. t < nextRun + MaxLate
          BY <1>0, <2>2, <5>1 DEF PlannerTypeOK
        <5> QED
          BY <2>1, <5>1, <5>2 DEF Seen
      <4> QED
        BY <1>0, <4>1, <4>2 DEF PlannerTypeOK
    <3> QED
      BY <2>1, <2>4, <3>1 DEF AllSeen
  <2> QED
    BY <2>3, <2>5, <2>6 DEF PlannerInv
<1>3. ASSUME Refresh
      PROVE  PlannerInv'
  <2>1. /\ pc = "select" /\ pc' = "plan"
        /\ dropped' = IF Due THEN dropped \cup {nextRun} ELSE dropped
        /\ UNCHANGED <<sched, now, nextRun, began, planned, ran>>
    BY <1>3 DEF Refresh
  <2>2. Due => nextRun \in Nat
    BY <2>1, PlanAhead DEF Due
  <2>3. PlannerTypeOK' /\ Clock' /\ PlanIsNext'
    BY <1>0, <2>1, <2>2 DEF PlannerTypeOK, Clock, PlanIsNext
  <2>4. Reached' = now /\ Reached = planned
    BY <2>1 DEF Reached
  <2>5. RanBefore'
    <3>1. ASSUME NEW t \in ran
          PROVE  t < now /\ (EveryDay(sched) /\ Meant(sched) => Occurs(sched, t))
      <4>1. t < planned /\ (EveryDay(sched) /\ Meant(sched) => Occurs(sched, t))
        BY <1>0, <2>4 DEF RanBefore
      <4> QED
        BY <1>0, <4>1 DEF PlannerTypeOK, Clock
    <3> QED
      BY <2>1, <2>4, <3>1 DEF RanBefore
  <2>6. AllSeen'
    <3>1. ASSUME EveryDay(sched), ~Seasonal(sched),
                 NEW t \in began .. now - 1, Occurs(sched, t)
          PROVE  Seen(t)'
      <4>1. CASE t < planned
        <5>1. t \in began .. planned - 1
          BY <1>0, <4>1 DEF PlannerTypeOK
        <5>2. Seen(t)
          BY <1>0, <2>4, <3>1, <5>1 DEF AllSeen
        <5> QED
          BY <2>1, <5>2 DEF Seen
      <4>2. CASE planned <= t
        <5>1. nextRun \in Nat /\ nextRun <= t /\ now <= nextRun + MaxLate
          <6>1. t \in Nat
            BY <1>0 DEF PlannerTypeOK
          <6> QED
            BY <2>1, <3>1, <4>2, <6>1, PlanIsFirst
        <5>2. t < nextRun + MaxLate /\ nextRun < now
          BY <1>0, <5>1 DEF PlannerTypeOK
        <5>3. Due
          BY <5>1, <5>2 DEF Due, Never
        <5> QED
          BY <2>1, <5>1, <5>2, <5>3 DEF Seen
      <4> QED
        BY <1>0, <4>1, <4>2 DEF PlannerTypeOK
    <3> QED
      BY <2>1, <2>4, <3>1 DEF AllSeen
  <2> QED
    BY <2>3, <2>5, <2>6 DEF PlannerInv
<1>4. ASSUME Tick
      PROVE  PlannerInv'
  <2>1. /\ pc = "select" /\ now < Horizon /\ now' = now + 1
        /\ nextRun # Never => now < nextRun + MaxLate
        /\ UNCHANGED <<sched, pc, nextRun, began, planned, ran, dropped>>
    BY <1>4 DEF Tick, history
  <2>2. PlannerTypeOK'
    BY <1>0, <2>1 DEF PlannerTypeOK
  <2>3. Clock'
    <3>1. now' \in Nat /\ now' <= Horizon
      BY <1>0, <2>1 DEF PlannerTypeOK
    <3>2. DateFromTime(now').year <= DateFromTime(Horizon).year
      BY <1>0, <3>1, YearOfTime
    <3>3. (DateFromTime(now).year)' = DateFromTime(now').year
      BY DEF DateFromTime
    <3> QED
      BY <1>0, <2>1, <3>2, <3>3 DEF Clock, PlannerTypeOK, DateFromTime
  <2>4. PlanIsNext'
    BY <1>0, <2>1 DEF PlanIsNext, PlannerTypeOK
  <2>5. Reached' = Reached
    BY <2>1 DEF Reached
  <2>6. RanBefore' /\ AllSeen'
    BY <1>0, <2>1, <2>5 DEF RanBefore, AllSeen, Seen
  <2> QED
    BY <2>2, <2>3, <2>4, <2>6 DEF PlannerInv
<1>5. ASSUME UNCHANGED vars
      PROVE  PlannerInv'
  <2>1. UNCHANGED <<sched, now, pc, nextRun, began, planned, ran, dropped>>
    BY <1>5 DEF vars, history
  <2>2. PlannerTypeOK' /\ Clock' /\ PlanIsNext' /\ Reached' = Reached
    BY <1>0, <2>1 DEF PlannerTypeOK, Clock, PlanIsNext, Reached
  <2> QED
    BY <1>0, <2>1, <2>2 DEF PlannerInv, RanBefore, AllSeen, Seen
<1> QED
  BY <1>1, <1>2, <1>3, <1>4, <1>5 DEF Next

\* Planning keeps its invariant: it has seen to every time until it last read the clock.
THEOREM PlannerInvariant == Spec => []PlannerInv
<1> QED
  BY PlannerInvInit, PlannerInvNext, PTL DEF Spec

-----------------------------------------------------------------------------
(* What follows from it.                                                   *)

\* A program on a schedule of every day, whose dates name their years, has run at each
\* time that occurred since it was started, or was late with another run, or took a
\* message when that run was due (NextRunAfterTime and the select of run).
THEOREM NoTimeIsMissed == Spec => []NoneMissed
<1>1. PlannerInv => NoneMissed
  <2> SUFFICES ASSUME PlannerInv, EveryDay(sched), ~Seasonal(sched),
                      NEW t \in began .. now - MaxLate - 1, Occurs(sched, t)
               PROVE  Seen(t)
    BY DEF NoneMissed, Seen
  <2>1. /\ began \in Nat /\ planned \in Nat /\ now \in Nat /\ MaxLate \in Nat
        /\ pc \in {"plan", "select"} /\ AllSeen
    BY PlannerAssumption DEF PlannerInv, PlannerTypeOK
  <2>2. t \in Nat /\ t + MaxLate < now
    BY <2>1
  <2>3. CASE t < Reached
    <3>1. t \in began .. Reached - 1
      BY <2>1, <2>2, <2>3 DEF Reached
    <3> QED
      BY <2>1, <3>1 DEF AllSeen
  <2>4. CASE ~(t < Reached)
    <3>1. pc = "select" /\ planned <= t
      BY <2>1, <2>2, <2>4 DEF Reached
    <3>2. nextRun \in Nat /\ nextRun <= t /\ now <= nextRun + MaxLate
      BY <2>2, <3>1, PlanIsFirst
    <3> QED
      BY <2>1, <2>2, <3>2
  <2> QED
    BY <2>3, <2>4
<1> QED
  BY <1>1, PlannerInvariant, PTL

\* ... and on any schedule of every day whose range has a meaning, at no other times.
THEOREM RunsOnSchedule == Spec => []OnSchedule
<1>1. PlannerInv => OnSchedule
  BY DEF PlannerInv, RanBefore, OnSchedule
<1> QED
  BY <1>1, PlannerInvariant, PTL

\* What NextRunAfterTime plans lies ahead, at a time of day of the schedule and within its
\* range, on either side of the new year.
THEOREM PlansInRange == Spec => []PlanInRange
<1>1. PlannerInv => PlanInRange
  BY PlanAhead DEF PlanInRange
<1> QED
  BY <1>1, PlannerInvariant, PTL

\* A season that passes the new year is still open on the first days of the year: the plan
\* made then is the first time left in it.
THEOREM StillOpenAfterNewYear == Spec => []OpenAfterNewYear
<1>1. PlannerInv => OpenAfterNewYear
  <2> DEFINE y    == DateFromTime(planned).year
             end  == ToTime([year |-> y, day |-> sched.to.day])
             left == {t \in planned .. end : Occurs(sched, t)}
  <2> SUFFICES ASSUME PlannerInv, pc = "select", EveryDay(sched),
                      NoDate \notin {sched.from, sched.to},
                      sched.from.year = 0, sched.to.year = 0, After(sched.from, sched.to),
                      DateFromTime(planned).day < sched.to.day, left # {}
               PROVE  nextRun = Min(left)
    BY DEF OpenAfterNewYear
  <2>1. /\ sched \in ScheduleType /\ planned \in Nat
        /\ nextRun = NextRunAfterTime(sched, planned) /\ Meant(sched)
    BY PlannerAssumption DEF PlannerInv, PlannerTypeOK, PlanIsNext, Meant
  <2>2. /\ RangeAt(sched, planned) = [from |-> [year |-> y - 1, day |-> sched.from.day],
                                      to |-> [year |-> y, day |-> sched.to.day]]
        /\ ToTime([year |-> y - 1, day |-> sched.from.day]) <= planned
    BY <2>1, SeasonOfLastYear
  <2>3. RangeAt(sched, planned).from # NoDate /\ RangeAt(sched, planned).to # NoDate
    BY <2>1, RangeType
  <2>4. end \in Int /\ ToTime([year |-> y - 1, day |-> sched.from.day]) \in Int
    <3>1. RangeAt(sched, planned).from \in Date /\ RangeAt(sched, planned).to \in Date
      BY <2>1, <2>3, RangeType
    <3> QED
      BY <2>2, <3>1, ToTimeType
  <2>5. \A t : /\ Within(RangeAt(sched, planned), t) => t <= end
               /\ t \in Int /\ planned <= t /\ t <= end => Within(RangeAt(sched, planned), t)
    BY <2>1, <2>2, <2>3, <2>4 DEF Within
  <2> HIDE DEF end
  <2>6. ASSUME NEW t \in left
        PROVE  nextRun # Never /\ nextRun <= t
    <3>1. t \in Nat /\ t >= planned /\ TimeOfDay(t) \in sched.times /\ t <= end
      BY <2>1, <2>4 DEF Occurs
    <3> QED
      BY <2>1, <2>5, <3>1, NextRunFirst
  <2>7. nextRun \in left
    <3>1. /\ nextRun \in Nat /\ nextRun >= planned /\ TimeOfDay(nextRun) \in sched.times
          /\ Within(RangeAt(sched, planned), nextRun) /\ InRange(sched, nextRun)
      BY <2>1, <2>6, PlanAhead
    <3>2. Weekday(nextRun) \in sched.weekdays
      BY <3>1, DayType DEF EveryDay
    <3>3. nextRun \in planned .. end
      BY <2>1, <2>4, <2>5, <3>1
    <3> QED
      BY <3>1, <3>2, <3>3 DEF Occurs
  <2>8. left \subseteq Nat
    BY <2>1, <2>4
  <2> HIDE DEF left
  <2>9. Min(left) \in left /\ Min(left) <= nextRun
    BY <2>7, <2>8, LeastNat
  <2>10. nextRun <= Min(left)
    BY <2>6, <2>9
  <2>11. nextRun \in Nat /\ Min(left) \in Nat
    BY <2>7, <2>8, <2>9
  <2> QED
    BY <2>9, <2>10, <2>11
<1> QED
  BY <1>1, PlannerInvariant, PTL

\* No time of the schedule is run at twice: the clock is read again after the timer fired,
\* and the next run is looked for from there on.
THEOREM NoTimeRunTwice == Spec => NeverTwice
<1>1. PlannerInv /\ [Next]_vars => [TimerFires => nextRun \notin ran]_vars
  <2> SUFFICES ASSUME PlannerInv, TimerFires
               PROVE  nextRun \notin ran
    OBVIOUS
  <2>1. pc = "select" /\ nextRun # Never /\ planned \in Nat /\ ran \subseteq Nat
    BY DEF TimerFires, Due, PlannerInv, PlannerTypeOK
  <2>2. nextRun >= planned /\ nextRun \in Nat
    BY <2>1, PlanAhead
  <2>3. \A t \in ran : t < planned
    BY <2>1 DEF PlannerInv, RanBefore, Reached
  <2> QED
    BY <2>1, <2>2, <2>3
<1> QED
  BY <1>1, PlannerInvariant, PTL DEF Spec, NeverTwice
=============================================================================
