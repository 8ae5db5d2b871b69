SPECIFICATION FairSpec
CONSTANTS
  t1 = t1  t2 = t2  p1 = p1  p2 = p2
  Tasks = {t1}
  Prints = {p1, p2}
  Threshold = 3
  MaxRetries = 3
  Bound <- Replayed
INVARIANTS StreakBounded TripsOnStreak
PROPERTIES RefusedUntilHuman ReopensForHuman
CHECK_DEADLOCK FALSE
