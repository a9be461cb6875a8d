SPECIFICATION DiscoverySpec
CONSTANTS
  Client = {c1, c2}
  Server = {s1, s2}
  Nobody = Nobody
  Cast = {{c1, c2, s1}, {c1, s1, s2}}
  Inbox = 1
INVARIANT ServerFound
PROPERTY SearchEnds
PROPERTY FallSilent
PROPERTY ThreadEnds
CHECK_DEADLOCK FALSE
