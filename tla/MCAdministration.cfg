SPECIFICATION MCSpec
CONSTANTS
  None = None
  Processes = {p1, p2}
  Clients = {c1, c2}
  Names = {"admin_email"}
  MAX_FAILURES = 2
  FAILURE_WINDOW = 2
  LastSecond = 3
  MaxRefresh = 1
  Edits = {1, 2}
  Requests = {r1, r2}
  Workers = {w1, w2}
  Planted = {t1, t2}
  Tasks = {k1, k2, k3}
  Callers = {m1, m2, m3}
  Attempts = 2
  Resources = 3
  Drawings = {d1, d2}
  Rules = {rule}
  LastState = 2
SYMMETRY MCSymmetry
INVARIANTS
  AdministrationTypeOK
  RecordsAreTrue
  ProcessStateHolds
  ScreenMatchesState
CHECK_DEADLOCK FALSE
