SPECIFICATION Spec
CONSTANTS
  Client = {c1, c2}
  Name <- NumericNames
  Numeric <- NumericNames
  Event = {}
  Petition <- NumericNames
  Matches <- MCMatches
  Number = {0, 5}
  Text = {}
  Empty = Empty
  Nothing = Nothing
  Margin = 2
SYMMETRY ClientSymmetry
INVARIANT ShownWithinMargin
