SPECIFICATION Spec
CONSTANTS
  near = near
  next = next
  far = far
  other = other
  horn = horn
  Near = {near, next}
  Far = {far, other}
  Gives <- MCGives
  Link = Link
  Name = {horn}
  Numeric = {}
  Number = {}
  Text = {on, off}
  Empty = Empty
  Nothing = Nothing
  Margin = 1
  Room = 4
INVARIANT RestDemand
INVARIANT RestAgrees
 
