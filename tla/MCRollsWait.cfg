SPECIFICATION LootSpec
CONSTANTS
  Members = {jan, kim, lou}
  LootItems = {helm}
  Nobody = Nobody
  MaxNumber = 2
  PassOnLoot = {lou}
INVARIANTS
  RollsWaitForAnswer
CHECK_DEADLOCK FALSE
