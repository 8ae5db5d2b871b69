SPECIFICATION FairSpec
CONSTANTS
  t1 = t1  t2 = t2  w1 = w1  w2 = w2  c1 = c1  c2 = c2
  Clients = {c1}
  Workers = {w1, w2}
  Tasks = {t1}
  Owner <- OnlyOne
  Sweepers = {w2}
  MaxRetries = 2
  MaxRecoveries = 3
  Stalls = FALSE
  BareEnds = FALSE
  Scenarios <- DyingInTool
  Sweeping <- ReplicasOf
PROPERTIES RecoveryContinues
CHECK_DEADLOCK FALSE
