SPECIFICATION FairSpec
CONSTANTS
  Nil = Nil
  s1 = s1
  s2 = s2
  Section = {s1}
  Request <- OneRequest
  MaxRuns = 2
  QueueSize = 2
  ChanCap = 1
  MaxLate = 1
  Calls = {"pause", "cancelOwn", "cancelAll", "cancelSection", "quit"}
PROPERTIES ValveCloses EveryRunEnds
CHECK_DEADLOCK FALSE
