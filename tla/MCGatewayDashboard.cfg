SPECIFICATION DashboardSpec
CONSTANTS
  Requests = {r1}
  Viewers = {v1, v2}
  Prompts <- MCPrompts
  Answers <- MCAnswers
  Budgets <- MCBudgets
  Faults = {"guardrails", "injection", "provider", "db", "redis", "process", "client"}
  None = None
INVARIANTS
  RejectedNeverForwarded
  RecordsAgree
PROPERTIES
  PromiseKept
  RequestsEnd
  IncidentsGetShown
