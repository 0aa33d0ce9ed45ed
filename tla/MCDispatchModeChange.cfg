SPECIFICATION Spec
CONSTANTS
  NoTask = NoTask
  t2 = t2
  p2 = p2
  Task = {t1}
  Pikmin = {p1}
  Gift = {}
  Owner <- NoOwner
  Manual = {}
  Modes = {"off", "armed", "route"}
  MaxInFlight = 1
  MaxStartsPerScan = 1
  MaxEpoch = 2
  CanHide = FALSE
INVARIANT ModeChangeDropsSelections
