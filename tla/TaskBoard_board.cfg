SPECIFICATION FairSpec
CONSTANTS
  t1 = t1  t2 = t2  k1 = k1  k2 = k2
  Tasks = {t1, t2}
  Parents <- Chain
  Tickers = {k1, k2}
  MaxAttempts = 2
  Scenarios <- Everyday
  Ticking <- TicksOf
INVARIANTS DependenciesRespected CrashesBounded OneAttempt
PROPERTIES SettledStays EveryTaskSettles CoordinatorTold
CHECK_DEADLOCK FALSE
