CONSTANTS
  Callers = {c1, c2}
  Keys = {"query", "label"}
  WarmKey = "query"
  Warmer = Warmer
  MaxBatch = 2
  Rounds = 2
  MaxCalls = 2
  MaxRestarts = 1
  MaxFailures = 1
SPECIFICATION FairSpec
INVARIANTS OwnRow
PROPERTIES CallsEnd Recovers
CHECK_DEADLOCK FALSE
