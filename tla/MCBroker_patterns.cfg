SPECIFICATION Spec
CONSTANTS
  Client = {c1, c2}
  Name <- PatternNames
  Numeric = {}
  Event <- EventNames
  Petition <- PatternPetitions
  Matches <- MCMatches
  Number = {}
  Text = {on}
  Empty = Empty
  Nothing = Nothing
  Margin = 1
SYMMETRY ClientSymmetry
INVARIANT TypeOK
INVARIANT Bookkeeping
INVARIANT SubscriberUpToDate
PROPERTY SubscriptionsSurviveOthers
