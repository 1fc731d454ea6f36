SPECIFICATION Spec
CONSTANTS
  NoDate = NoDate
  YearLen = 7
  WeekLen = 3
  DayLen = 4
  Schedules <- NewYearSchedule
  Horizon = 80
  MaxLate = 1
  MaxRefreshes = 0
INVARIANT SeasonKept
CHECK_DEADLOCK FALSE
