SPECIFICATION Spec
CONSTANTS
  Whole = {w1}
  Governed = {g1}
  Plain = {p1}
  MaxTries = 3
INVARIANT NoUpdateIsOverwritten
CHECK_DEADLOCK FALSE
