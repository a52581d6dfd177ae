SPECIFICATION MCSpec
CONSTANTS
  None = None
  Requests = {r1, r2, r3}
  Ids = {c1, c2}
  HistoryLimit = 3
  Window = 5
  Tokens <- MCTokens
  Sends = {s1, s2}
  Loads = {l1, l2}
  LastChat = 2
SYMMETRY Symmetry
INVARIANTS
  TypeOK
  MemoryHolds
  ScreenIsTheConversation
CHECK_DEADLOCK FALSE
