CONSTANTS
  Files = {1, 2}
  Versions = {1, 2}
  Names = {"a", "b"}
  Callees = {"a", "b"}
  Symbols <- MCSymbols
  Calls <- MCCalls
  Api = {q1, q2}
  Cli = {c1}
  Free = Free
  MaxRuns = 3
  MaxEdits = 1
  MaxFailures = 1
SPECIFICATION IndexSpec
SYMMETRY Symmetry
INVARIANTS TypeOK IndexedIsFindable RunRepairs
CHECK_DEADLOCK FALSE
