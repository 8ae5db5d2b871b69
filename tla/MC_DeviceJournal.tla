-------------------------- MODULE MC_DeviceJournal --------------------------
(* Instances of DeviceJournal for TLC: an operation of the agent's, one of   *)
(* the user's own, and what goes wrong in each scenario.                     *)
EXTENDS DeviceJournal, TLC
CONSTANTS o1, r1, c1, c2

Of(ops, f) == [ops |-> ops, left |-> [i \in Inputs |-> IF i \in DOMAIN f THEN f[i] ELSE 0]]
Days == {
  Of({o1}, [drops |-> 1, expires |-> 1]),
  Of({o1}, [halts |-> 1, drops |-> 1, lost |-> 1]),
  Of({o1}, [revokes |-> 1, crashes |-> 1]),
  Of({o1}, [revokes |-> 1, lost |-> 1]),
  Of({o1}, [stops |-> 1, lost |-> 1]),
  Of({o1}, [stops |-> 1, fails |-> 1]),
  Of({o1}, [halts |-> 1, fails |-> 1]),
  Of({o1}, [quits |-> 1]),
  Of({r1}, [drops |-> 1]),
  Of({r1}, [revokes |-> 1, dies |-> 1]),
  Of({o1, r1}, [stops |-> 1]),
  Of({r1}, [deletes |-> 1])}
=============================================================================
