SPECIFICATION FairSpec
CONSTANTS
  None = None
  Unseen = Unseen
  s1 = s1
  s2 = s2
  Seed = {s1, s2}
  Slot = {k1}
  Permanent = {k1}
  Special = {}
  Kept = {}
  Rank <- ShortFirst
  Capacity = 2
  Manual = {s2}
  Modes = {"off", "auto"}
  Selections = {{s1, s2}}
INVARIANTS
  TypeOK
  Journaled
PROPERTIES
  RefinesJournal
  SuccessSettles
