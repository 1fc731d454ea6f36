------------------------------- MODULE Schedule -------------------------------
(***************************************************************************)
(* When a program runs next (sched/sched.go), on a calendar scaled down:   *)
(* a year has YearLen days, a week WeekLen, a day DayLen ticks, and a time *)
(* is a number of ticks since the midnight that begins year 1.  A month    *)
(* and its day are one day of the year, counted from 1; year 0 means that  *)
(* the date comes every year.  Leap days and daylight saving are left out. *)
(*                                                                         *)
(* A schedule is a record [times, weekdays, from, to]: ticks of the day,   *)
(* days of the week from 0, and dates [year, day] or NoDate.               *)
(***************************************************************************)
EXTENDS Integers, FiniteSetsExt

CONSTANTS YearLen, WeekLen, DayLen, NoDate

Never == -1  \* the nil time: no next run

Date == [year : Nat, day : 1 .. YearLen]

\* The schedules whose times lie within a day.
ScheduleType == [times : SUBSET (0 .. DayLen - 1), weekdays : SUBSET (0 .. WeekLen - 1),
                 from : Date \cup {NoDate}, to : Date \cup {NoDate}]

ASSUME CalendarAssumption ==
  /\ YearLen \in Nat \ {0} /\ WeekLen \in Nat \ {0} /\ DayLen \in Nat \ {0}
  /\ NoDate \notin Date

-----------------------------------------------------------------------------
(* Dates and times.                                                        *)

DateFromTime(t) == [year |-> t \div (YearLen * DayLen) + 1,
                    day  |-> ((t \div DayLen) % YearLen) + 1]

ToTime(d) == ((d.year - 1) * YearLen + d.day - 1) * DayLen

Weekday(t)   == (t \div DayLen) % WeekLen
TimeOfDay(t) == t % DayLen

\* Takes the year of the reference even if the date names one.
MutantWithResolvedYear(d, ref) == [d EXCEPT !.year = DateFromTime(ref).year]

WithResolvedYear(d, ref) ==
  IF d.year = 0 THEN [d EXCEPT !.year = DateFromTime(ref).year] ELSE d

After(d1, d2)  == d1.year > d2.year \/ (d1.year = d2.year /\ d1.day > d2.day)
Before(d1, d2) == d1 # d2 /\ ~After(d1, d2)

\* The duration `weeks` yields: n times 24 hours.
weeks(n) == n * DayLen

\* A weekday that is over this week is taken from the past.
MutantNextDay(t, wd) == (t - TimeOfDay(t)) + weeks(wd - Weekday(t))

\* Midnight of the first day from t's on that is a wd.
NextDay(t, wd) ==
  (t - TimeOfDay(t)) + weeks(IF wd < Weekday(t) THEN wd - Weekday(t) + WeekLen
                                               ELSE wd - Weekday(t))

-----------------------------------------------------------------------------
(* NextRunAfterTime.                                                       *)

\* Moves the end of a range that passes the new year, never its beginning.
MutantSeason(from, to, ref) ==
  IF After(from, to)
  THEN [from |-> from, to |-> [to EXCEPT !.year = @ + 1]]
  ELSE [from |-> from, to |-> to]

\* A range that passes the new year: which of its two ends is moved a year.
Season(from, to, ref) ==
  LET today == DateFromTime(ref)
  IN  IF ~After(from, to) THEN [from |-> from, to |-> to]
      ELSE IF \/ Before(today, to) /\ Before(today, from)
              \/ After(today, to) /\ After(today, from)
           THEN [from |-> [from EXCEPT !.year = @ - 1], to |-> to]
           ELSE [from |-> from, to |-> [to EXCEPT !.year = @ + 1]]

\* The range of a schedule as seen from ref; either end may be NoDate.
RangeAt(sched, ref) ==
  LET resolved(d) == IF d = NoDate THEN NoDate ELSE WithResolvedYear(d, ref)
      from == resolved(sched.from)
      to   == resolved(sched.to)
  IN  IF NoDate \in {from, to} THEN [from |-> from, to |-> to] ELSE Season(from, to, ref)

\* Searches from the reference even if the range begins later.
MutantReference(range, ref) == ref

Reference(range, ref) ==
  IF range.from # NoDate /\ ToTime(range.from) > ref THEN ToTime(range.from) ELSE ref

\* Plans a time of today even if it has passed.
MutantRunOn(day, tod, ref) == day + tod

\* The run at a time of day on a day; one that has passed is put off by weeks(1).
RunOn(day, tod, ref) == IF day + tod < ref THEN day + tod + weeks(1) ELSE day + tod

TooLate(t, range) == range.to # NoDate /\ t > ToTime(range.to)

NextRunAfterTime(sched, timeReference) ==
  LET range == RangeAt(sched, timeReference)
      ref   == Reference(range, timeReference)
      runs  == {RunOn(NextDay(ref, wd), tod, ref) : wd \in sched.weekdays, tod \in sched.times}
      kept  == {t \in runs : ~TooLate(t, range)}
  IN  IF kept = {} THEN Never ELSE Min(kept)
=============================================================================
