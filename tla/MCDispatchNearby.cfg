SPECIFICATION Spec
CONSTANTS
  NoTask = NoTask
  t2 = t2
  p2 = p2
  Task = {t1, t2}
  Pikmin = {p1, p2}
  Gift = {t2}
  Owner <- GiftOwner
  Manual = {p1}
  Modes = {"off", "armed"}
  MaxInFlight = 2
  MaxStartsPerScan = 2
  MaxEpoch = 0
  CanHide = TRUE
INVARIANTS
  TypeOK
  LeaseDiscipline
  NoDuplicateStart
  NoDoubleBooking
  RequestInv
  GiftOnlyOwner
PROPERTY RefinesLease
