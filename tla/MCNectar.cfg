SPECIFICATION FairSpec
CONSTANTS
  None = None
  Flower = {f1, f2}
  Target = f1
  Modes = {"off", "auto", "test_once"}
  Rewards = {0, 2}
  MaxRestarts = 1
INVARIANTS
  TypeOK
  ClaimedOnce
  RewardsLogged
  TestOnce
PROPERTIES
  EveryFlowerTried
  OffReaches
