SPECIFICATION Spec
CONSTANTS
  Series = {130, 450, 465}
  ThrottleByte = {61, 93, 150, 210}
  TrainByte = {190}
  EngineByte = {61, 121}
  RotaryByte = {139, 175}
  Speed = {90}
INVARIANT TractionOrBrake
INVARIANT LedShowsCruise
PROPERTY ReportsRead
CHECK_DEADLOCK FALSE
