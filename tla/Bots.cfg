SPECIFICATION MCSpec
CONSTANTS
  u1 = u1
  g1 = g1
  d1 = d1
  NoCid = NoCid
  Groups = {g1}
  Members <- GroupOfOne
  Devices = {d1}
  DeviceOwner <- OwnersDevice
  PageCap = 1
  HistoryCap = 9
  Humans = {u1}
  ProfileIds = {p1, p2}
  Configs = {x1}
  Handlers = {h1, h2}
  ClientIds = {c1}
  BOT_MAX_PER_OWNER = 1
  MaxIds = 4
  MaxBots = 3
  MaxOps = 4
  s1 = s1
  s2 = s2
  acc1 = acc1
  acc2 = acc2
  NoAccount = NoAccount
  SpecDevices = {s1, s2}
  Accounts = {acc1, acc2}
  MaxNow = 2
  Skew <- Ahead
  Scenes <- AllScenes
INVARIANTS BotsSound SpecsSynced
PROPERTIES ImplementsMessageStore NewerWins
CHECK_DEADLOCK FALSE
