SPECIFICATION HungSpec
CONSTANTS
  t1 = t1  t2 = t2  w1 = w1  w2 = w2  c1 = c1  c2 = c2
  Clients = {c1}
  Workers = {w1, w2}
  Tasks = {t1, t2}
  Owner <- TwoOnOne
  Sweepers = {}
  MaxRetries = 2
  MaxRecoveries = 1
  Stalls = FALSE
  BareEnds = FALSE
  Scenarios <- Stopping
  Sweeping <- ReplicasOf
INVARIANTS ExclusiveTurn NothingForgotten
PROPERTIES StopIsHeard ArchivedFinal
CHECK_DEADLOCK FALSE
