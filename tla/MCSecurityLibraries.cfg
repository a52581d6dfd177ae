SPECIFICATION MCSpec
CONSTANTS
  None = None
  Operations = {o1, o2}
  MAX_CONCURRENT_SESSIONS = 2
  LastSession = 3
  Endpoints = {"static", "assets"}
  LimitTypes = {"static"}
  Keys = {a}
  Rates <- MCRates
  Waiters = {w1}
  Timeout = 1
  LastTick = 3
  Spenders = {s1, s2}
  Tiers <- MCTiers
  Price <- MCPrice
  DaysAMonth = 2
  LastMinute = 5
  MaxAnswers = 3
  Evaluations = {e1, e2, e3}
  OPA_CIRCUIT_THRESHOLD = 2
  OPA_CIRCUIT_RESET_SECONDS = 2
  LastInstant = 3
  Texts <- MCTexts
  Confidences <- MCConfidences
  Tools = {"read", "deploy", "exec"}
  Targets = {"staging", "production"}
  Users = {u1}
  Contexts = {"chat_ui", "api_key"}
  RoleNames = {"intern", "senior_developer", "admin", "operator"}
  PolicyFiles <- MCPolicyFiles
  MaxToolCalls = 2
  KeyIds = {k1, k2, k3}
  KeyCalls = {c1, c2, c3}
  Paths = {p1}
  CacheTtl = 2
  LastMoment = 3
  LastChange = 3
  Emails = {m1, m2}
  Authentications = {x1, x2}
  Passwords = {1, 2}
  MaxUserEdits = 3
  Holders = {h1, h2}
  Fields = {f1, f2}
  MaxRotations = 3
  MaxStored = 3
  RuleNames = {"ssn", "email", "ip"}
  DefaultRules <- MCDefaultRules
  MaxIncidents = 1
INVARIANTS
  SecurityTypeOK
  RevocationHolds
  AdmissionIsDue
  ContentIsGuarded
CHECK_DEADLOCK FALSE
