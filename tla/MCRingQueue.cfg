SPECIFICATION Spec
CONSTANTS
  Nil = Nil
  s1 = s1
  s2 = s2
  Item <- MCItem
  Sizes = {1, 2, 3}
  MaxLen = 4
INVARIANTS TypeOK SliceIsLine
PROPERTY ImplementsFifo
