SPECIFICATION Spec
CONSTANTS
  Conn = {c1, c2, c3}
  Listen = Listen
  Room = 1
  Talkers = {c1}
  MaxLines = 1
  Unset = {"none", "read", "error"}
  PollCanFail = TRUE
INVARIANT SlotsMatch
INVARIANT NeverStuck
PROPERTY OnlyLeaversRemoved
PROPERTY LastLinesHandled
SYMMETRY ConnSymmetry
CHECK_DEADLOCK FALSE
