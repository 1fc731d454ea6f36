SPECIFICATION Spec
CONSTANTS
  NoDate = NoDate
  YearLen = 5
  WeekLen = 3
  DayLen = 4
  Schedules <- AllSchedules
  Horizon = 42
  MaxLate = 1
  MaxRefreshes = 1
INVARIANTS NoneMissed OnSchedule PlanInRange OpenAfterNewYear
PROPERTY NeverTwice
CHECK_DEADLOCK FALSE
