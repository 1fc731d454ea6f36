------------------------------ MODULE MCPlanner ------------------------------
(***************************************************************************)
(* Schedules on a small calendar: a week of 3 days, a day of 4 ticks.      *)
(***************************************************************************)
EXTENDS Planner

Week  == 0 .. WeekLen - 1
Times == {{0}, {2}, {1, 3}}
Dates == {[year |-> y, day |-> d] : y \in {1, 2}, d \in {2, YearLen - 1}}

\* Every day of the week, with or without dates that name their year.
DailySchedules ==
  {s \in [times : Times, weekdays : {Week}, from : Dates \cup {NoDate}, to : Dates \cup {NoDate}] :
     NoDate \in {s.from, s.to} \/ ~After(s.from, s.to)}

\* One day of the week, or all but one.
WeekdaySchedules ==
  [times : Times, weekdays : (SUBSET Week) \ {{}}, from : {NoDate}, to : {NoDate}]

\* A range of dates that comes every year, and may pass the new year.
SeasonDays == {[year |-> 0, day |-> d] : d \in {2, 3, YearLen - 1}}
SeasonSchedules == [times : Times, weekdays : {Week}, from : SeasonDays, to : SeasonDays]

\* The one of TestSchedule_NextRunAfterTime: from late in the year to early in the next.
NewYearSchedule ==
  {[times |-> {1, 3}, weekdays |-> Week,
    from |-> [year |-> 0, day |-> YearLen - 1], to |-> [year |-> 0, day |-> 2]]}

\* All of these, and seasons of one day of the week.
AllSchedules == DailySchedules \cup WeekdaySchedules \cup SeasonSchedules
  \cup [times : Times, weekdays : {{1}}, from : SeasonDays, to : SeasonDays]
=============================================================================
