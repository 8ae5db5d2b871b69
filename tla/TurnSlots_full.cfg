SPECIFICATION FairSpec
CONSTANTS
  t1 = t1  t2 = t2  w1 = w1  k1 = k1
  Workers = {w1}
  Turns = {t1, t2}
  Calls = {k1}
  Child <- Delegating
  MaxConcurrent = 1
  Cap = 1
  Scenarios <- MishapsOrDeath
INVARIANTS SemaphoreConserved WorkHoldsSlots NoHolderLeaks
PROPERTIES EveryTurnEnds
CHECK_DEADLOCK FALSE
