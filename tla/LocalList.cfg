SPECIFICATION Spec
CONSTANTS
  h1 = h1
  h2 = h2
  v = v
  w = w
  ver = ver
  ident = ident
  on = on
  t1 = t1
  t2 = t2
  good = good
  blocked = blocked
  leafSub = leafSub
  sectionSub = sectionSub
  Absent = Absent
  Broken = Broken
  NoVal = NoVal
  Nobody = Nobody
  NoTask = NoTask
  Null = Null
  Workers <- MCWorkers
  Handlers = {h1, h2}
  Leaves = {ver, ident, on}
  SectionOf <- MCSectionOf
  Defaults <- MCDefaults
  DefaultFile <- MCDefaultFile
  NewDocs <- MCNewDocs
  Subscribers = {leafSub, sectionSub}
  PathOf <- MCPathOf
  Requests <- MCRequests
  Tags = {t1, t2}
  Infos = {good, blocked}
  Ver = ver
  Enabled = on
  ListMax = 2
  MaxOps = 3
  MaxFaults = 1
  MaxCrashes = 1
  MaxRequests = 2
INVARIANTS TypeOK SavePending NewestDelivered  VersionsAgree
SYMMETRY MCSymmetry
CHECK_DEADLOCK FALSE
