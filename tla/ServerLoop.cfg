SPECIFICATION Spec
CONSTANTS
  Conn = {c1, c2}
  Listen = Listen
  Room = 1
  Talkers = {c1, c2}
  MaxLines = 2
  Unset = {"none"}
  PollCanFail = FALSE
PROPERTY LinesGetHandled
PROPERTY LeaversForgotten
PROPERTY QuitEnds
CHECK_DEADLOCK FALSE
