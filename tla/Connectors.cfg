SPECIFICATION Spec
CONSTANTS
  p = p
  q = q
  v = v
  w = w
  tx = tx
  rs = rs
  Null = Null
  None = None
  NoTask = NoTask
  Ids = {0, 1}
  Callers <- MCCallers
  Workers <- MCWorkers
  Targets = {1, 2}
  Transactions = {tx}
  Reservations = {rs}
  Replies = {"Accepted"}
  Availabilities = {"Inoperative"}
  MaxOps = 2
  MaxFaults = 1
  MaxCrashes = 1
INVARIANTS TypeOK SavedAgrees ReportedUnlessCrowded Drained
PROPERTIES Recovered
SYMMETRY MCSymmetry
CHECK_DEADLOCK FALSE
