SPECIFICATION Spec
CONSTANTS
  Checks = {c1, c2}
  Traces = {x}
  Reloads = {x}
  Shaps = {x}
  Texts <- MCTexts
  Policies <- MCPolicies
  MaxSize = 1
  Ttl = 0
  MaxTime = 1
  None = None
INVARIANTS
  VerdictsHold
  StrictestRuleDecides
PROPERTIES
  ModelsStayTheirOwn
  ChecksEnd
CHECK_DEADLOCK FALSE
