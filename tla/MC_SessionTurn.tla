-------------------------- MODULE MC_SessionTurn --------------------------
(* Instances of SessionTurn for TLC: which worker runs which task, and how   *)
(* often the environment sends a further message, stops, retries, deletes,   *)
(* calls a tool, replies without an answer, raises an exception and kills a  *)
(* worker.                                                                   *)
EXTENDS SessionTurn, TLC
CONSTANTS t1, t2, w1, w2, c1, c2

OnlyOne   == (t1 :> w1)
OneEach   == (t1 :> w1) @@ (t2 :> w2)
TwoOnOne  == (t1 :> w1) @@ (t2 :> w1)

Times(msgs, stops, retries, deletes, calls, drafts, crashes, deaths) ==
  ("msgs" :> msgs) @@ ("stops" :> stops) @@ ("retries" :> retries) @@
  ("deletes" :> deletes) @@ ("calls" :> calls) @@ ("drafts" :> drafts) @@
  ("crashes" :> crashes) @@ ("deaths" :> deaths)

Chatting     == {Times(1, 0, 0, 0, 1, 0, 0, 0)}
Stopping     == {Times(1, 1, 0, 1, 0, 0, 0, 0), Times(1, 1, 0, 0, 1, 0, 0, 0),
                 Times(1, 1, 0, 0, 0, 1, 0, 0), Times(1, 0, 0, 1, 1, 0, 0, 0)}
Dying        == {Times(0, 0, 0, 0, 0, 0, 0, 1)}
DyingInTool  == {Times(0, 0, 0, 0, 1, 0, 0, 1)}

StopAndGo    == Times(0, 1, 1, 0, 0, 0, 0, 0)
Crashing     == Times(0, 0, 0, 0, 0, 1, 2, 0)
DyingBlind   == Times(0, 0, 0, 0, 0, 0, 1, 1)
DyingInDraft == Times(0, 0, 0, 0, 0, 1, 0, 1)
Mishaps      == {StopAndGo, Crashing, DyingBlind, DyingInDraft} \cup Dying \cup Chatting

\* With one task on each worker, the two pairs may be exchanged.
Exchanged == {p \in Permutations({t1, t2, w1, w2}) :
                \A t \in Tasks : p[t] \in Tasks /\ p[Owner[t]] = Owner[p[t]]}

\* A death with nothing else is what two replicas sweep after; a chat in which nothing
\* goes wrong needs no sweep.
ReplicasOf == [s \in Scenarios |->
                 CASE s \in Dying -> Sweepers [] s \in Chatting -> {}
                   [] OTHER -> Sweepers \ {w1}]
=============================================================================
