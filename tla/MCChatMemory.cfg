CONSTANTS
  Requests = {q1, q2}
  RecentTurns = 1
  HistoryMax = 4
  MaxMessages = 8
  MayBeBlank = {2}
  MaxEvictions = 1
SPECIFICATION Spec
SYMMETRY Symmetry
INVARIANTS ExcludedRemembered PromptComplete RecentKept
