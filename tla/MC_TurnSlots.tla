--------------------------- MODULE MC_TurnSlots ---------------------------
(* Instances of TurnSlots for TLC: who delegates to whom, and how often a    *)
(* gate call fails, a turn is interrupted or detached, and a worker dies.    *)
EXTENDS TurnSlots, TLC
CONSTANTS t1, t2, w1, k1

Delegating == (t1 :> t2) @@ (t2 :> NoTurn)

Times(fails, stops, cuts, deaths) ==
  ("fails" :> fails) @@ ("stops" :> stops) @@ ("cuts" :> cuts) @@ ("deaths" :> deaths)
Cutting == {Times(1, 0, 1, 0), Times(0, 1, 1, 0)}
Dying == {Times(0, 0, 0, 1)}
MishapsOrDeath == Cutting \cup Dying
=============================================================================
