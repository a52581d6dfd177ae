SPECIFICATION AppSpec
CONSTANTS
  None = None
  Drawings = {d1, d2}
  Rules = {rule}
  LastState = 2
INVARIANT
  StagedRulesAreKept
CHECK_DEADLOCK FALSE
