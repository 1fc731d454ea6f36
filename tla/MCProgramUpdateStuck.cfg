SPECIFICATION FairSpec
CONSTANTS
  c1 = c1
  c2 = c2
  b1 = b1
  b2 = b2
  Client = {c1}
  Body = {b1}
  MaxItems = 1
  NewData <- MCNewData
  Calls = {"run", "update"}
PROPERTY UpdateReturns
CHECK_DEADLOCK FALSE
