SPECIFICATION Spec
CONSTANTS
  Nil = Nil
  s1 = s1
  s2 = s2
  Section = {s1, s2}
  Request <- OneRequest
  MaxRuns = 3
  QueueSize = 2
  ChanCap = 1
  MaxLate = 1
  Calls = {"cancelAll"}
INVARIANTS DoneOnce
