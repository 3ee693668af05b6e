SPECIFICATION Spec
CONSTANTS
  h1 = h1
  h2 = h2
  v = v
  w = w
  ver = ver
  ident = ident
  on = on
  t1 = t1
  t2 = t2
  good = good
  blocked = blocked
  leafSub = leafSub
  sectionSub = sectionSub
  Absent = Absent
  Broken = Broken
  NoVal = NoVal
  Nobody = Nobody
  NoTask = NoTask
  Null = Null
  Workers <- MCWorkers
  Handlers = {h1}
  Leaves = {ver, ident, on}
  SectionOf <- MCSectionOf
  Defaults <- MCDefaults
  DefaultFile <- MCDefaultFile
  NewDocs <- MCNewDocs
  Subscribers = {}
  PathOf <- MCPathOf
  Requests <- MCRequests
  Tags = {t1, t2}
  Infos = {good, blocked}
  Ver = ver
  Enabled = on
  ListMax = 2
  MaxOps = 2
  MaxFaults = 1
  MaxCrashes = 1
  MaxRequests = 2
INVARIANT DifferentialApplied
SYMMETRY MCSymmetry
CHECK_DEADLOCK FALSE
