SPECIFICATION PartsSpec
CONSTANTS
  Maps = {m1, m2, m3}
  Workers = {w1, w2}
  NoRequest = NoRequest
  Items = {i1, i2, i3, i4}
  Dummy = Dummy
  Null = Null
  MaxPackets = 3
  BufferSize = 2
  Members = {jan, kim, lou}
  LootItems = {helm}
  Nobody = Nobody
  MaxNumber = 2
  PassOnLoot = {lou}
INVARIANTS
  TypesOK
  MapUpdateIsExclusive
  WorldThreadIsAlone
  FreedUntouched
  NothingLost
  LootedByBest
PROPERTIES
  TickEnds
  ShutdownEnds
  ImplementsTick
  ImplementsFifo
  Drained
  ClosingSocketLeaves
CHECK_DEADLOCK FALSE
