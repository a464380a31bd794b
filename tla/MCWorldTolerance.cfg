SPECIFICATION WorldSpec
CONSTANTS
  Accounts = {a, b}
  Logins = {l1, l2}
  NoSession = NoSession
  PlayerLimit = 1
  SkipQueue = {}
  Tolerance = 1
  RepeatedAck = FALSE
  MaxTime = 2
PROPERTIES
  ToleranceExpires
