CONSTANTS
  Files = {1}
  Versions = {1, 2}
  Names = {"a", "b", "c"}
  Callees <- MCCallees
  Symbols <- MCSymbols
  Calls <- MCCalls
  Tail <- MCTail
  Api = {q1, q2}
  Cli = {c1}
  Free = Free
  Searchable = {"a", "c"}
  FileTopK = 1
  FunctionTopK = 1
  FinalTopK = 2
  WideTopK = 2
  MaxNodes = 2
  MaxDepth = 2
  Questions <- MCQuestions
  MaxRuns = 2
  MaxEdits = 1
  MaxFailures = 1
  MaxQuestions = 1
SPECIFICATION Spec
SYMMETRY Symmetry
INVARIANTS NamedIsFound GraphIsClosed
CHECK_DEADLOCK FALSE
