SPECIFICATION FairSpec
CONSTANTS
  NoTask = NoTask
  t2 = t2
  p2 = p2
  Task = {t1, t2}
  Pikmin = {p1}
  Gift = {}
  Owner <- NoOwner
  Manual = {}
  Modes = {"off", "batch"}
  MaxInFlight = 1
  MaxStartsPerScan = 1
  MaxEpoch = 0
  CanHide = FALSE
PROPERTIES
  SentHoldEnds
  LockEnds
