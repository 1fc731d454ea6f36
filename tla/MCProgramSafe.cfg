SPECIFICATION Spec
CONSTANTS
  c1 = c1
  c2 = c2
  b1 = b1
  b2 = b2
  Client = {c1, c2}
  Body = {b1, b2}
  MaxItems = 2
  NewData <- MCNewData
  Calls = {"run", "cancel", "update", "badUpdate", "quit"}
INVARIANTS TypeOK OneBody PlanIsCurrent ProgramInv NothingLeftBehind
CHECK_DEADLOCK FALSE
