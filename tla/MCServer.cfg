SPECIFICATION FairSpec
CONSTANTS
  Sections = 2
  Sequence <- MCSequence
  RunCap = 1
  AnnounceCap = 3
  MaxEvents = 2
INVARIANTS TypeOK ValvesKnown ClosedAtExit
PROPERTIES ShutdownEnds RunEnds RequestsAnswered
CHECK_DEADLOCK FALSE
