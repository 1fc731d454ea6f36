SPECIFICATION Spec
CONSTANTS
  s1 = s1
  s2 = s2
  p1 = p1
  p2 = p2
  Section = {s1, s2}
  Program = {p1, p2}
  ChanCap = 2
  MaxChanges = 3
  MaxReconnects = 1
INVARIANTS TypeOK SectionsCurrent RunnerCurrent SavedCoversPublished UpdateAllRepairs
CHECK_DEADLOCK FALSE
