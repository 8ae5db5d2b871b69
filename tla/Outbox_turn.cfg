SPECIFICATION FairSpec
CONSTANTS
  d1 = d1  d2 = d2
  Loops = {d1, d2}
  MaxText = 2
  Scenarios <- Turns
INVARIANTS NothingLost ShownOnce
PROPERTIES EveryRowSettles
CHECK_DEADLOCK FALSE
