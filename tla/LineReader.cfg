SPECIFICATION Spec
CONSTANTS
  Letter = {a, b}
  CR = CR
  LF = LF
  MaxStream = 6
  Chunk = 4
INVARIANT SameLines
CHECK_DEADLOCK FALSE
