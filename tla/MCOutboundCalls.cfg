SPECIFICATION MCSpec
CONSTANTS
  Calls = {c1}
  Kinds = {"chat", "batch", "health", "upload", "check_stream"}
  MaxRetries = 2
  Durations = {20, 90}
  Requests <- MCRequests
  Tasks = {t1, t2}
  Threshold = 2
  Recent = 2
  MaxHistory = 3
  MaxCalls = 2
  Streams = {s1}
  StreamBodies <- MCBodies
  History <- MCHistory
  MaxLines = 3
  None = None
INVARIANTS
  OutboundTypeOK
  CallsAreSettled
  StreamsAreGuarded
PROPERTIES
  CallsEnd
CHECK_DEADLOCK FALSE
