SPECIFICATION SysSpec
CONSTANTS
  desk = desk
  sim = sim
  horn = horn
  speed = speed
  d1 = d1
  s1 = s1
  s2 = s2
  Client = {d1, s1, s2}
  Program = {desk, sim}
  Of <- MCOf
  Name = {horn, speed}
  Numeric = {speed}
  Event = {}
  Petition = {horn, speed}
  Matches <- MCMatches
  Number = {0, 4}
  Text = {on}
  Empty = Empty
  Nothing = Nothing
  Margin = 2
  Gives <- MCGives
  Shows <- MCShows
  Room = 2
INVARIANT RestFaithful
INVARIANT RestDemand
PROPERTY ComesToRest
CHECK_DEADLOCK FALSE
