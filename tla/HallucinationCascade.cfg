SPECIFICATION Spec
CONSTANTS
  Domains = {"general", "banking", "healthcare", "finance", "legal", "government", "education", "internal_summary", "creative"}
  NliScores = {0, 1, 15, 16, 50, 64, 65, 84, 85, 97, 100}
  None = None
INVARIANTS
  FlaggedOnEvidence
  HighStakesAreDebated
  WorkerVerdictStands
PROPERTIES
  GatewayAgrees
  Answered
CHECK_DEADLOCK FALSE
