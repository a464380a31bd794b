INIT Init
NEXT Next
CONSTANTS
  Accounts = {a}
  Logins = {l1}
  NoSession = NoSession
  NoSocket = NoSocket
  PlayerLimit = 0
  SkipQueue = {}
  Tolerance = 0
  RepeatedAck = FALSE
  MaxTime = 0
  Attempts = 2
  MaxKeys = 2
  ExpirePasses = 1
  LateFailure = TRUE
INVARIANTS
  OneCharacterOnline
