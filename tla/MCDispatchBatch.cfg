SPECIFICATION Spec
CONSTANTS
  NoTask = NoTask
  t2 = t2
  p2 = p2
  Task = {t1, t2}
  Pikmin = {p1}
  Gift = {}
  Owner <- NoOwner
  Manual = {t1}
  Modes = {"off", "armed", "farm", "batch"}
  MaxInFlight = 1
  MaxStartsPerScan = 1
  MaxEpoch = 1
  CanHide = FALSE
INVARIANTS
  SelectionInv
  BatchOneAtATime
  InFlightBound
PROPERTY SentAsSelected
