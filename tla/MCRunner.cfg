SPECIFICATION Spec
CONSTANTS
  Nil = Nil
  s1 = s1
  s2 = s2
  Section = {s1, s2}
  Request <- MCRequest
  MaxRuns = 2
  QueueSize = 1
  ChanCap = 1
  MaxLate = 1
  Calls = {"cancelSection", "cancelID", "cancelAll", "pause"}
INVARIANTS TypeOK RunInOnePlace WorkConserving NoReceiverForgotten ValveInterlock TimerArmed WaterAccounted FinishedFull
PROPERTIES CancelSectionClears ImplementsService
