SPECIFICATION FairSpec
CONSTANTS
  p1 = p1  p2 = p2
  Tickers = {p1, p2}
  MaxOnce = 2
  MaxInARow = 2
  Scenarios <- Everything
INVARIANTS TypeOK RunsApart LimitKept ToldOnce
PROPERTIES PersonFinal CancelStopsRuns GoesOn EndingTold
CHECK_DEADLOCK FALSE
