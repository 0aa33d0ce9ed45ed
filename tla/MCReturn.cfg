SPECIFICATION FairSpec
CONSTANTS
  None = None
  r1 = r1
  r2 = r2
  Task = {r1, r2}
  Proto <- WalkAndFruit
  Horizon = 2
  Modes = {"off", "one", "batch", "all"}
  Limits = {1, 2}
INVARIANTS
  TypeOK
  CountedAreGone
  OneShotTrue
PROPERTIES
  RefinesBatch
  Drains
