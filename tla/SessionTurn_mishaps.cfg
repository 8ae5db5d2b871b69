SPECIFICATION FairSpec
CONSTANTS
  t1 = t1  t2 = t2  w1 = w1  w2 = w2  c1 = c1  c2 = c2
  Clients = {c1, c2}
  Workers = {w1, w2}
  Tasks = {t1}
  Owner <- OnlyOne
  Sweepers = {w1, w2}
  MaxRetries = 2
  MaxRecoveries = 1
  Stalls = FALSE
  BareEnds = FALSE
  Scenarios <- Mishaps
  Sweeping <- ReplicasOf
INVARIANTS TypeOK NothingSkipped RecoveryBounded
PROPERTIES EveryMessageAnswered MidTurnResumes
CHECK_DEADLOCK FALSE
