INIT PartsInit
NEXT PartsNext
CONSTANTS
  Accounts = {a}
  Logins = {l1, l2}
  NoSession = NoSession
  NoSocket = NoSocket
  PlayerLimit = 0
  SkipQueue = {}
  Tolerance = 0
  RepeatedAck = FALSE
  MaxTime = 0
  Attempts = 1
  MaxKeys = 1
  ExpirePasses = 1
  LateFailure = FALSE
  Players = {pat, sue}
  Kinds = {"idBound", "flex", "encounter"}
  Encounters = {boss}
  Absent = Absent
  Deleted = Deleted
  MaxInstanceId = 2
  MaxPeriod = 1
  MaxInterventions <- MCInterventions
  MaxUnwritten = 1
SYMMETRY PartsSymmetry
INVARIANTS
  TypesOK
  ClosedBeforeFreed
  NoGhostPlayer
  OneCharacterOnline
  InstanceIdsAgree
PROPERTIES
  NoEncounterForgotten
  LocksOutliveMaps
CHECK_DEADLOCK FALSE
