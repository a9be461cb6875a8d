SPECIFICATION Spec
CONSTANTS
  Client = {c1, c2}
  Name <- MixedNames
  Numeric <- NumericNames
  Event = {}
  Petition <- MixedNames
  Matches <- MCMatches
  Number = {2, 3, 4}
  Text = {on}
  Empty = Empty
  Nothing = Nothing
  Margin = 2
SYMMETRY ClientSymmetry
INVARIANT SubscriptionComplete
INVARIANT DemandKnown
INVARIANT RecordsTrue
INVARIANT NumberNear
PROPERTY PubSubPromise
