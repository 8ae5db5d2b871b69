SPECIFICATION FairSpec
CONSTANTS
  t1 = t1  t2 = t2  k1 = k1  k2 = k2
  Tasks = {t1}
  Parents <- Alone
  Tickers = {k1}
  MaxAttempts = 2
  Scenarios <- OneCancel
  Ticking <- TicksOf
PROPERTIES CancelStops
CHECK_DEADLOCK FALSE
