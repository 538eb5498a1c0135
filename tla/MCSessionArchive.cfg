CONSTANTS
  Requests = {t1}
  Workers = {a1, a2}
  Nobody = Nobody
  MaxExchanges = 2
  MaxFailures = 1
  Span = 10
  Ticks = {0, 1}
SPECIFICATION FairSpec
INVARIANTS StateNotBehind
PROPERTIES StreamDrains ImplementsLog
CHECK_DEADLOCK FALSE
