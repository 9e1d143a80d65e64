SPECIFICATION Spec
CONSTANTS
  a1 = a1
  a2 = a2
  p1 = p1
  NoAccount = NoAccount
  Accounts = {a1, a2}
  Peers = {p1}
  Limit = 2
  MAX_MESSAGES = 4
  AtOf <- TwiceAt
  MaxServer = 6
  OwnAt = 11
  MaxEpoch = 3
  Starts <- Scenes
INVARIANT TimelineSound
PROPERTIES LoadEnds
CHECK_DEADLOCK FALSE
