SPECIFICATION Spec
CONSTANTS
  NoDate = NoDate
  YearLen = 7
  WeekLen = 3
  DayLen = 4
  Schedules <- WeekdaySchedules
  Horizon = 80
  MaxLate = 1
  MaxRefreshes = 0
INVARIANT OnWeekdays
CHECK_DEADLOCK FALSE
