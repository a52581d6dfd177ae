SPECIFICATION DashboardSpec
CONSTANTS
  Requests = {r1, r2}
  Viewers = {v1}
  Prompts <- MCPrompts
  Answers <- MCAnswers
  Budgets <- MCBudgets
  Faults = {}
  None = None
INVARIANT
  FlaggedTracesPersisted
