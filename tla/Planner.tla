------------------------------- MODULE Planner -------------------------------
(***************************************************************************)
(* Planning against the clock (logic/program.go:139-174): the starter of   *)
(* an enabled program asks its schedule for the next run, sleeps until the *)
(* timer of that run fires or a message comes, starts the run or handles   *)
(* the message, and plans again from the time it then is.                  *)
(*                                                                         *)
(* The clock only moves forward.  The starter is always a tick late at     *)
(* least: the clock is read again after the timer fired, and by then has   *)
(* moved.  Running the program is module Program.                          *)
(***************************************************************************)
EXTENDS Schedule

CONSTANTS
  Schedules,    \* the schedules to try
  Horizon,      \* bound: the last tick
  MaxLate,      \* bound: how many ticks after its time a run may be started
  MaxRefreshes  \* bound: how often clients send Refresh, as every Update does

ASSUME PlannerAssumption ==
  /\ Schedules \subseteq ScheduleType
  /\ Horizon \in Nat /\ MaxLate \in Nat /\ MaxRefreshes \in Nat

VARIABLES
  sched,    \* the program's schedule
  now,      \* time.Now()
  pc,       \* "plan" or "select"
  nextRun,  \* when the timer is due, or Never if delay is nil
  refreshes,
  began,    \* history: when the program was started
  planned,  \* history: when it last planned
  ran,      \* history: the planned times it ran at
  dropped   \* history: the planned times that were due when a message was taken instead

history == <<began, planned, ran, dropped>>
vars    == <<sched, now, pc, nextRun, refreshes, history>>

Init ==
  /\ sched \in Schedules
  /\ now \in 0 .. YearLen * DayLen - 1
  /\ pc = "plan" /\ nextRun = Never /\ refreshes = 0
  /\ began = now /\ planned = now /\ ran = {} /\ dropped = {}

\* nextRun = prog.Sched.NextRunTime(); delay = time.After(nextRun.Sub(time.Now()))
Plan ==
  /\ pc = "plan"
  /\ nextRun' = NextRunAfterTime(sched, now)
  /\ planned' = now
  /\ pc' = "select"
  /\ UNCHANGED <<sched, now, refreshes, began, ran, dropped>>

Due == nextRun # Never /\ now > nextRun

\* case <-delay: run()
TimerFires ==
  /\ pc = "select" /\ Due
  /\ ran' = ran \cup {nextRun}
  /\ pc' = "plan"
  /\ UNCHANGED <<sched, now, nextRun, refreshes, began, planned, dropped>>

\* case prRefresh, or another message that does not end the starter.  The select may
\* take it when the timer has fired as well: that run is not made up for.
Refresh ==
  /\ pc = "select" /\ refreshes < MaxRefreshes
  /\ refreshes' = refreshes + 1
  /\ dropped' = IF Due THEN dropped \cup {nextRun} ELSE dropped
  /\ pc' = "plan"
  /\ UNCHANGED <<sched, now, nextRun, began, planned, ran>>

Tick ==
  /\ pc = "select" /\ now < Horizon
  /\ nextRun # Never => now < nextRun + MaxLate
  /\ now' = now + 1
  /\ UNCHANGED <<sched, pc, nextRun, refreshes, history>>

Next == Plan \/ TimerFires \/ Refresh \/ Tick

Spec == Init /\ [][Next]_vars

-----------------------------------------------------------------------------
(* What a schedule means, independent of how the next run is found: its    *)
(* days of the week, its times of day, and the range of dates, that comes  *)
(* back every year if its dates name none.                                 *)

Years == 0 .. DateFromTime(Horizon).year

InRange(s, t) ==
  \E y \in Years :
    LET in(d, year) == IF d.year = 0 THEN [d EXCEPT !.year = year] ELSE d
        wraps == NoDate \notin {s.from, s.to} /\ After(in(s.from, y), in(s.to, y))
    IN  /\ s.from # NoDate => ToTime(in(s.from, y)) <= t
        /\ s.to # NoDate => t <= ToTime(in(s.to, IF wraps THEN y + 1 ELSE y))

Occurs(s, t) == Weekday(t) \in s.weekdays /\ TimeOfDay(t) \in s.times /\ InRange(s, t)

EveryDay(s) == s.weekdays = 0 .. WeekLen - 1
Seasonal(s) == \E d \in {s.from, s.to} \ {NoDate} : d.year = 0

\* A range has a meaning: at most one date, two that come every year, or two of named
\* years in their order.
Meant(s) ==
  \/ NoDate \in {s.from, s.to}
  \/ s.from.year = 0 /\ s.to.year = 0
  \/ s.from.year # 0 /\ s.to.year # 0 /\ ~After(s.from, s.to)

\* A program "runs on a schedule": on one that names every day of the week, and no
\* range that comes back every year, it runs at each time, unless a message that came
\* when the run was due was taken first, or the starter was then still late with a run.
NoneMissed ==
  EveryDay(sched) /\ ~Seasonal(sched) =>
    \A t \in began .. now - MaxLate - 1 :
      Occurs(sched, t) => \E r \in ran \cup dropped : r <= t /\ t < r + MaxLate

\* ... and on one that names every day of the week, at no other times.
OnSchedule == EveryDay(sched) /\ Meant(sched) => \A t \in ran : Occurs(sched, t)

\* ... whatever days of the week it names.
OnWeekdays == \A t \in ran : Weekday(t) \in sched.weekdays

\* A range that comes every year is kept in every year, the first and the last of it.
SeasonKept ==
  EveryDay(sched) =>
    \A t \in began .. now - MaxLate - 1 : Occurs(sched, t) => t \in ran \cup dropped

\* No time of the schedule is run at twice.
NeverTwice == [][TimerFires => nextRun \notin ran]_vars

\* Whatever the schedule, what is planned lies ahead, at one of its times of day,
\* within its range: also across the new year, and also right at either end.
PlanInRange ==
  pc = "select" /\ nextRun # Never /\ Meant(sched) =>
    nextRun >= planned /\ TimeOfDay(nextRun) \in sched.times /\ InRange(sched, nextRun)

\* A range that comes every year and passes the new year is still open on the first
\* days of the year: the plan made then is the first time left in it.
OpenAfterNewYear ==
  LET end  == ToTime([year |-> DateFromTime(planned).year, day |-> sched.to.day])
      left == {t \in planned .. end : Occurs(sched, t)}
  IN  pc = "select" /\ EveryDay(sched)
      /\ NoDate \notin {sched.from, sched.to} /\ sched.from.year = 0 /\ sched.to.year = 0
      /\ After(sched.from, sched.to) /\ DateFromTime(planned).day < sched.to.day /\ left # {}
        => nextRun = Min(left)
=============================================================================
