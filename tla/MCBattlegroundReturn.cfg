SPECIFICATION BgSpec
CONSTANTS
  Fighters = {fay}
  Queues = {warsong}
  MaxPlayers = 1
  InviteWait = 2
  OfflineTime = 1
  MaxBattlegrounds = 1
  MaxClock = 2
  MaxAway = 2
INVARIANTS
  OnlyOfflineRemoved
