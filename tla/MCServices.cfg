INIT PartsInit
NEXT PartsNext
CONSTANTS
  ada = ada
  ben = ben
  cal = cal
  l1 = l1
  l2 = l2
  Accounts = {ada, ben, cal}
  Logins = {l1, l2}
  NoSession = NoSession
  PlayerLimit = 1
  SkipQueue = {}
  Tolerance = 0
  RepeatedAck = FALSE
  MaxTime = 0
  ann = ann
  bob = bob
  cid = cid
  sword = sword
  potion = potion
  Traders = {ann, bob, cid}
  TradeItems = {sword, potion}
  Nothing = Nothing
  TradedSlots = 1
  Owner <- MCOwner
  Fragile = {sword}
  Coins <- MCCoins
  Slots <- MCSlots
  MaxMoney = 2
  MaxStateIndices = 4
  t1 = t1
  t2 = t2
  w1 = w1
  w2 = w2
  Tasks = {t1, t2, s, e, d}
  Single = {s}
  Empty = {e}
  Direct = {d, e}
  Length = 2
  Workers = {w1, w2}
  Synch = {c1}
  None = None
  MaxAttempts = 1
  LoopBreaker = 1
  Faults = {"lost", "begin", "commit"}
  MaxFaults = 1
  fay = fay
  gus = gus
  arathi = arathi
  warsong = warsong
  Fighters = {fay, gus}
  Queues = {arathi, warsong}
  MaxPlayers = 2
  InviteWait = 2
  OfflineTime = 1
  MaxBattlegrounds = 2
  MaxClock = 3
  MaxAway = 2
INVARIANTS
  TypesOK
  NoDanglingSession
  NobodyForgotten
  CapacityRespected
  NoIdleSlot
  TradesMutual
  AcceptedAsSeen
  ReportsTruth
  ShutdownIsClean
  InvitationsCounted
PROPERTIES
  NoOvertaking
  ExchangeAsAgreed
  InOrder
  RemovedInTime
