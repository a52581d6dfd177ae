SPECIFICATION Spec
CONSTANTS
  Callers = {c1, c2, c3}
  Entries = {e1, e2}
  None = None
  MaxId = 4
SYMMETRY CallerSymmetry
INVARIANTS
  BreaksAreExcused
  LinksPointBack
  TamperingIsLocated
PROPERTIES
  BreaksAreForever
