--------------------------- MODULE MC_TaskBoard ---------------------------
(* Instances of TaskBoard for TLC: two tasks, the second the first's child,  *)
(* and what goes wrong, or is asked for, in each scenario.                   *)
EXTENDS TaskBoard, TLC
CONSTANTS t1, t2, k1, k2

Chain == (t1 :> {}) @@ (t2 :> {t1})
Alone == (t1 :> {})

\* f gives the inputs that happen; the others do not.
With(f) == [i \in Inputs |-> IF i \in DOMAIN f THEN f[i] ELSE 0]

\* One task, tried to its last attempt ...
Crashing   == With([creates |-> 1, crashes |-> 3])
Failing    == With([creates |-> 1, fails |-> 2, crashes |-> 2])
Refused    == With([creates |-> 1, perms |-> 2, unblocks |-> 2, crashes |-> 1])
Losing     == With([creates |-> 1, losses |-> 2, crashes |-> 1])
Dying      == With([creates |-> 1, deaths |-> 2, crashes |-> 1])
Blocking   == With([creates |-> 1, blocks |-> 1, unblocks |-> 1, crashes |-> 2])
Pausing    == With([creates |-> 1, pauses |-> 1, crashes |-> 1])

\* ... and two, of which the second waits on the first.
CrashTwo   == With([creates |-> 2, crashes |-> 2])
FailTwo    == With([creates |-> 2, fails |-> 1])
BlockTwo   == With([creates |-> 2, blocks |-> 1, unblocks |-> 1])
Cancelling == With([creates |-> 2, cancels |-> 1, crashes |-> 1])
Cascading  == With([creates |-> 2, cascades |-> 1])

OneCancel == {With([creates |-> 1, cancels |-> 1])}

\* Two ticks at once, on one task.
Together == {Crashing,
             With([creates |-> 1, crashes |-> 1, fails |-> 1]),
             With([creates |-> 1, crashes |-> 1, perms |-> 1, unblocks |-> 1]),
             With([creates |-> 1, crashes |-> 1, cancels |-> 1])}

Everyday == {Refused, Failing, Losing, Dying, Blocking, Pausing,
             CrashTwo, FailTwo, BlockTwo, Cancelling, Cascading} \cup Together

TicksOf == [s \in Scenarios |-> IF s \in Together THEN Tickers ELSE Tickers \ {k2}]
=============================================================================
