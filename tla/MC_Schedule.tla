---------------------------- MODULE MC_Schedule ----------------------------
(* Instances of Schedule for TLC: a one-off, a recurring schedule and a      *)
(* dynamic loop, and what goes wrong, or is asked for, in each scenario.     *)
EXTENDS Schedule, TLC
CONSTANTS p1, p2

\* A schedule of kind k with a run limit, made by a chat or not, and the inputs f.
Of(k, limit, alone, f) ==
  [kind |-> k, limit |-> limit, detached |-> alone,
   replicas |-> IF "slows" \in DOMAIN f THEN {p1, p2} ELSE {p1},
   left |-> [i \in Inputs |-> IF i \in DOMAIN f THEN f[i] ELSE 0]]

Once(f)    == Of("once", 1, FALSE, f)
Daily(f)   == Of("recurring", 2, FALSE, f)
Dynamic(f) == Of("dynamic", 0, FALSE, f)

Failures == {
  Once([slots |-> 3, fails |-> 2]),
  Once([slots |-> 1, slows |-> 1]),
  Daily([slots |-> 3, slows |-> 1]),
  Daily([slots |-> 2, fails |-> 1, expiries |-> 1]),
  Dynamic([slots |-> 1, fails |-> 2])}

Deaths == {
  Once([slots |-> 1, deaths |-> 2]),
  Daily([slots |-> 3, deaths |-> 1, overruns |-> 1]),
  Dynamic([slots |-> 1, deaths |-> 1, crashes |-> 1]),
  Of("recurring", 0, TRUE, [slots |-> 1, deaths |-> 1, cancels |-> 1])}

People == {
  Once([slots |-> 1, pauses |-> 1, resumes |-> 1, updates |-> 1]),
  Daily([slots |-> 1, pauses |-> 1, resumes |-> 1, nows |-> 1, updates |-> 1]),
  Daily([slots |-> 2, cancels |-> 1, dones |-> 1, pauses |-> 1]),
  Dynamic([pauses |-> 1, resumes |-> 1, dones |-> 1]),
  Dynamic([slots |-> 1, waits |-> 1, expiries |-> 1]),
  Dynamic([cancels |-> 1, nows |-> 1, updates |-> 1]),
  Dynamic([slots |-> 1, overruns |-> 2]),
  Of("once", 1, TRUE, [slots |-> 1, cancels |-> 1]),
  Of("recurring", 0, TRUE, [slots |-> 2, cancels |-> 1])}

Everything == Failures \cup Deaths \cup People

PausedAtStart == {Once([slots |-> 2, pauses |-> 1, resumes |-> 1])}
=============================================================================
