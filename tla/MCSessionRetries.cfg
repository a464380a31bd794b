SPECIFICATION RetriesSpec
CONSTANTS
  l1 = l1
  l2 = l2
  Accounts = {a}
  Logins = {l1, l2}
  NoSession = NoSession
  NoSocket = NoSocket
  PlayerLimit = 0
  SkipQueue = {}
  Tolerance = 0
  RepeatedAck = FALSE
  MaxTime = 0
  Attempts = 2
  MaxKeys = 2
  ExpirePasses = 1
  LateFailure = TRUE
PROPERTIES
  ImplementsWorld
  DroppedSessionRemoved
