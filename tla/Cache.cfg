SPECIFICATION MCSpec
CONSTANTS
  a1 = a1
  a2 = a2
  c1 = c1
  c2 = c2
  i1 = i1
  i2 = i2
  Unknown = Unknown
  Accounts = {a1, a2}
  Channels = {c1, c2}
  Owner <- TwoAccounts
  LocalWriters = {lw}
  RemoteWriters = {rw}
  Fills = {f1, f2}
  Gets = {g1}
  RedisErrors = TRUE
  MaxEpoch = 2
  MaxBus = 1
  Ids = {i1, i2}
  Flaky = {i1}
  Always = {}
  Lists <- OneOrNone
  Snaps = {s1}
  Conns = {k1, k2}
  MaxMoves = 2
INVARIANTS
  CacheFresh
  LookupsAgree
  NoOrphanConn
  StoppedMeansGone
SYMMETRY Symmetry
VIEW View
CHECK_DEADLOCK FALSE
