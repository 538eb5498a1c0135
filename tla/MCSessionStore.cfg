CONSTANTS
  Requests = {t1, t2}
  Workers = {a1}
  Nobody = Nobody
  MaxExchanges = 2
  MaxFailures = 2
  Span = 10
  Ticks = {0, 1}
SPECIFICATION Spec
INVARIANTS ExchangeKept NoDuplicates
CHECK_DEADLOCK FALSE
