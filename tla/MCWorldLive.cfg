SPECIFICATION WorldSpec
CONSTANTS
  Accounts = {a, b}
  Logins = {l1, l2}
  NoSession = NoSession
  PlayerLimit = 1
  SkipQueue = {a}
  Tolerance = 1
  RepeatedAck = FALSE
  MaxTime = 0
PROPERTIES
  EverySessionAnswered
