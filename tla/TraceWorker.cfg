SPECIFICATION WorkerSpec
CONSTANTS
  Workers = {w1, w2}
  Traces = {t1}
  Count = 2
  MaxEntries = 3
  MaxFaults = 2
  None = None
INVARIANTS
  NothingIsLost
  HandledOnce
PROPERTIES
  EveryEntryEnds
CHECK_DEADLOCK FALSE
