SPECIFICATION Spec
CONSTANTS
  o1 = o1  r1 = r1  c1 = c1  c2 = c2  NoConn = NoConn
  Ops = {o1, r1}
  Requests = {r1}
  Conns = {c1, c2}
  Scenarios <- Days
INVARIANTS RunsAsRecorded
PROPERTIES EveryCallReturns CancelHeard
CHECK_DEADLOCK FALSE
