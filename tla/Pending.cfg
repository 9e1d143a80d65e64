SPECIFICATION MCSpec
CONSTANTS
  j1 = j1
  j2 = j2
  c1 = c1
  c2 = c2
  t1 = t1
  t2 = t2
  x = x
  Parts = {"devices", "sync"}
  NoCid = NoCid
  Free = Free
  Accounts = {1, 2}
  Jtis = {j1, j2}
  Channels = {c1, c2}
  Txns = {t1, t2}
  ClientIds = {x}
  Requests <- RetriedOrPlain
  Owner <- OwnerTwoDevices
  JtiOf <- ChannelPerDevice
  LockKey <- DistinctKeys
  TTL = 1
  PageSize = 1
  MaxMsgs = 2
  MaxTime = 3
INVARIANTS
  NoMissedReceipt
  SyncDrained
PROPERTIES
  ImplementsMessageStore
CHECK_DEADLOCK FALSE
