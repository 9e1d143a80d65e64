SPECIFICATION MCFairSpec
CONSTANTS
  j1 = j1
  j2 = j2
  c1 = c1
  c2 = c2
  t1 = t1
  t2 = t2
  x = x
  Parts = {"talks"}
  NoCid = NoCid
  Free = Free
  Accounts = {1, 2, 3}
  Jtis = {j1}
  Channels = {c1}
  Txns = {t1, t2}
  ClientIds = {x}
  Requests <- ReusedAndBack
  Owner <- OwnerOneDevice
  JtiOf <- OneChannel
  LockKey <- DistinctKeys
  TTL = 1
  PageSize = 1
  MaxMsgs = 2
  MaxTime = 0
INVARIANTS
  LockOrder
  OneMessagePerClientId
PROPERTIES
  HandlersFinish
CHECK_DEADLOCK FALSE
