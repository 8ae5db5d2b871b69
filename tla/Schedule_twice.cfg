SPECIFICATION Spec
CONSTANTS
  p1 = p1  p2 = p2
  Tickers = {p1, p2}
  MaxOnce = 2
  MaxInARow = 2
  Scenarios <- PausedAtStart
INVARIANTS OnceRunsOnce
CHECK_DEADLOCK FALSE
