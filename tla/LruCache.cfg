SPECIFICATION Spec
CONSTANTS
  j = j
  k = k
  l = l
  m = m
  Keys <- MCKeys
  Data <- MCData
  Size <- MCSize
  NodeSize <- MCNodeSize
  MaxKeyNum = 3
  MaxMem = 9
INVARIANTS
  TypeOK
  WithinKeyLimit
  UsedMemExact
  LruOrder
PROPERTIES
  EvictsOldest
