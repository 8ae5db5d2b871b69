-------------------------- MODULE TaskBoard_proofs --------------------------
(***************************************************************************)
(* Proofs about TaskBoard, for any tasks and parents and any inputs.  With *)
(* any number of ticks: the types; that no task begins before its parents' *)
(* work is done; that a task's crashes stay within max_attempts, and that  *)
(* it has one attempt at a time, unless two ticks judged it at once.       *)
(***************************************************************************)
EXTENDS TaskBoard, FiniteSetTheorems, TLAPS

(* ------------------------ the inductive invariant ---------------------- *)

Working == {"spawn", "block", "tell", "rollback", "handBack", "wire", "enqueue"}

\* A process that works on a task has claimed it, and a call works on its own.
Held == /\ \A p \in Procs : pc[p] \in Working => job[p] \in begun
        /\ \A t \in Tasks : job[t] = t

\* A task that is done was finished; one that is past waiting, and one a tick has
\* judged to have been tried, had its parents finished.
Freed == /\ \A t \in Tasks : status[t] = "done" => t \in finished
         /\ \A t \in Tasks : status[t] \notin {"absent", "todo", "cancelled"}
                               => Parents[t] \subseteq finished
         /\ \A p \in Tickers, t \in Tasks : seen[p][t] /= "none"
                               => Parents[t] \subseteq finished

Ordered == TypeOK /\ Held /\ Freed /\ DependenciesRespected

(* -------------------------------- types -------------------------------- *)

(* What a session's row holds. *)
LEMMA SessionOf ==
  ASSUME sess \in Seq(Sessions), NEW s \in DOMAIN sess
  PROVE  /\ s \in Nat /\ sess[s] \in Sessions
         /\ sess[s].task \in Tasks /\ sess[s].stage \in Stages
         /\ sess[s].end \in {"completed", "failed"}
<1>1. s \in Nat /\ sess[s] \in Sessions
  OBVIOUS
<1> QED BY <1>1 DEF Sessions

(* A session whose stage changes is still a session. *)
LEMMA StageTyped ==
  ASSUME sess \in Seq(Sessions), NEW s \in Nat, NEW l, s \in DOMAIN sess => l \in Stages
  PROVE  [sess EXCEPT ![s].stage = l] \in Seq(Sessions)
<1>1. CASE s \in DOMAIN sess
  <2>1. sess[s] \in Sessions
    BY <1>1
  <2>2. [sess[s] EXCEPT !.stage = l] \in Sessions
    BY <1>1, <2>1 DEF Sessions
  <2> QED BY <1>1, <2>2
<1>2. CASE s \notin DOMAIN sess
  <2>1. [sess EXCEPT ![s].stage = l] = sess
    BY <1>2
  <2> QED BY <2>1
<1> QED BY <1>1, <1>2

(* An input that happens is counted. *)
LEMMA UseTyped ==
  ASSUME InputOK, NEW i \in Inputs, Use(i)
  PROVE  InputOK'
BY DEF InputOK, Use

(* A write that may be lost leaves the inputs typed. *)
LEMMA TryTyped ==
  ASSUME InputOK, UNCHANGED input \/ Use("losses")
  PROVE  InputOK'
BY UseTyped DEF InputOK, input, Inputs
(* A tick that ends forgets what it found. *)
LEMMA OverTyped ==
  ASSUME FoundOK, NEW p \in Procs, Over(p)
  PROVE  FoundOK'
<1>1. CASE p \in Tasks
  BY <1>1 DEF Over, FoundOK, found
<1>2. CASE p \notin Tasks
  <2>1. NoVerdict \in [Tasks -> Verdicts]
    BY DEF NoVerdict, Verdicts
  <2> QED BY <1>2, <2>1 DEF Over, FoundOK
<1> QED BY <1>1, <1>2

(* Every step keeps the types. *)
LEMMA TypeStep ==
  ASSUME TypeOK, Held, Next
  PROVE  TypeOK'
<1> USE DEF TypeOK, board, held, found, local, history, input
<1>1. ASSUME NEW p \in Tickers, Promote(p) PROVE TypeOK'
  <2>1. BoardOK'
    BY <1>1 DEF Promote, BoardOK, Statuses
  <2>2. ProcsOK'
    BY <1>1 DEF Promote, ProcsOK, Goto, TickPCs, CallPCs, Procs
  <2> QED BY <1>1, <2>1, <2>2 DEF Promote, FoundOK, SeenOK, PastOK, InputOK
<1>2. ASSUME NEW p \in Tickers, FinalizeRead(p) PROVE TypeOK'
  <2>1. ProcsOK'
    BY <1>2 DEF FinalizeRead, ProcsOK, Goto, TickPCs, CallPCs, Procs
  <2>2. FoundOK'
    BY <1>2 DEF FinalizeRead, FoundOK, Verdicts, Verdict
  <2> QED BY <1>2, <2>1, <2>2 DEF FinalizeRead, Crossing, BoardOK, SeenOK, PastOK, InputOK
<1>3. ASSUME NEW p \in Tickers, FinalizeCommit(p) PROVE TypeOK'
  <2>1. BoardOK'
    BY <1>3 DEF FinalizeCommit, BoardOK, Statuses, FoundOK, Verdicts
  <2>2. ProcsOK'
    BY <1>3 DEF FinalizeCommit, ProcsOK, Goto, TickPCs, CallPCs, Procs
  <2>3. FoundOK'
    BY <1>3 DEF FinalizeCommit, FoundOK, Verdicts
  <2>4. PastOK'
    BY <1>3 DEF FinalizeCommit, PastOK
  <2> QED BY <1>3, <2>1, <2>2, <2>3, <2>4 DEF FinalizeCommit, SeenOK, InputOK
<1>4. ASSUME NEW p \in Tickers, Notify(p) PROVE TypeOK'
  <2>1. ProcsOK'
    BY <1>4 DEF Notify, ProcsOK, Goto, TickPCs, CallPCs, Procs
  <2>2. FoundOK'
    BY <1>4 DEF Notify, FoundOK, Verdicts
  <2>3. SeenOK'
    BY <1>4 DEF Notify, SeenOK, Try, Tell
  <2>4. InputOK'
    BY <1>4, TryTyped DEF Notify, Try
  <2> QED BY <1>4, <2>1, <2>2, <2>3, <2>4 DEF Notify, Try, BoardOK, PastOK
<1>5. ASSUME NEW p \in Tickers, TickClaim(p) PROVE TypeOK'
  <2>1. BoardOK'
    BY <1>5 DEF TickClaim, BoardOK, Statuses, Claim
  <2>2. ProcsOK'
    BY <1>5 DEF TickClaim, ProcsOK, Claim, Goto, TickPCs, CallPCs, Procs, BoardOK
  <2>3. SeenOK'
    BY <1>5 DEF TickClaim, SeenOK, Claim
  <2>4. PastOK'
    BY <1>5 DEF TickClaim, PastOK, Claim
  <2> QED BY <1>5, <2>1, <2>2, <2>3, <2>4 DEF TickClaim, Claim, FoundOK, InputOK
<1>6. ASSUME NEW p \in Tickers, TickEnds(p) PROVE TypeOK'
  <2>1. ProcsOK'
    BY <1>6 DEF TickEnds, ProcsOK, Over, Drop, Goto, TickPCs, CallPCs, Procs
  <2>2. FoundOK'
    BY <1>6, OverTyped DEF TickEnds, Procs
  <2> QED BY <1>6, <2>1, <2>2 DEF TickEnds, BoardOK, SeenOK, PastOK, InputOK
<1>7. ASSUME NEW p \in Tickers, BlockClaim(p) PROVE TypeOK'
  <2>1. BoardOK'
    BY <1>7 DEF BlockClaim, BoardOK, Statuses
  <2>2. ProcsOK'
    <3>1. CASE UNCHANGED held
      BY <1>7, <3>1 DEF BlockClaim, ProcsOK, Drop, Goto, TickPCs, Procs
    <3>2. CASE Drop(p, "claim")
      BY <3>2 DEF ProcsOK, Drop, Goto, TickPCs, Procs
    <3> QED BY <1>7, <3>1, <3>2 DEF BlockClaim
  <2>3. InputOK'
    BY <1>7, TryTyped DEF BlockClaim
  <2> QED BY <1>7, <2>1, <2>2, <2>3 DEF BlockClaim, Drop, FoundOK, SeenOK, PastOK
<1>8. ASSUME NEW p \in Tickers, TellBlocked(p) PROVE TypeOK'
  <2>1. ProcsOK'
    BY <1>8 DEF TellBlocked, ProcsOK, Drop, Goto, TickPCs, CallPCs, Procs
  <2>2. SeenOK'
    BY <1>8 DEF TellBlocked, SeenOK, Try, Tell
  <2>3. InputOK'
    BY <1>8, TryTyped DEF TellBlocked, Try
  <2> QED BY <1>8, <2>1, <2>2, <2>3 DEF TellBlocked, Drop, Try, BoardOK, FoundOK, PastOK
<1>9. ASSUME NEW p \in Tickers, Rollback(p) PROVE TypeOK'
  <2>1. BoardOK'
    BY <1>9 DEF Rollback, BoardOK, Statuses, Try
  <2>2. ProcsOK'
    BY <1>9 DEF Rollback, ProcsOK, Drop, Goto, TickPCs, CallPCs, Procs
  <2>3. PastOK'
    BY <1>9 DEF Rollback, PastOK, Try
  <2>4. InputOK'
    BY <1>9, TryTyped DEF Rollback, Try
  <2> QED BY <1>9, <2>1, <2>2, <2>3, <2>4 DEF Rollback, Drop, Try, FoundOK, SeenOK
<1>10. ASSUME NEW t \in Tasks, Insert(t) PROVE TypeOK'
  <2>1. BoardOK'
    BY <1>10 DEF Insert, BoardOK, Statuses
  <2>2. ProcsOK'
    BY <1>10 DEF Insert, ProcsOK, Goto, TickPCs, CallPCs, Procs
  <2>3. InputOK'
    BY <1>10, UseTyped DEF Insert, Inputs
  <2> QED BY <1>10, <2>1, <2>2, <2>3 DEF Insert, FoundOK, SeenOK, PastOK
<1>11. ASSUME NEW t \in Tasks, EagerClaim(t) PROVE TypeOK'
  <2>1. BoardOK'
    BY <1>11 DEF EagerClaim, BoardOK, Statuses, Claim
  <2>2. ProcsOK'
    BY <1>11 DEF EagerClaim, ProcsOK, Claim, Goto, TickPCs, CallPCs, Procs, BoardOK
  <2>3. SeenOK'
    BY <1>11 DEF EagerClaim, SeenOK, Claim
  <2>4. PastOK'
    BY <1>11 DEF EagerClaim, PastOK, Claim
  <2> QED BY <1>11, <2>1, <2>2, <2>3, <2>4 DEF EagerClaim, Claim, FoundOK, InputOK
<1>12. ASSUME NEW t \in Tasks, EagerLost(t) PROVE TypeOK'
  <2>1. ProcsOK'
    BY <1>12 DEF EagerLost, ProcsOK, Goto, TickPCs, CallPCs, Procs
  <2> QED BY <1>12, <2>1 DEF EagerLost, BoardOK, FoundOK, SeenOK, PastOK, InputOK
<1>13. ASSUME NEW t \in Tasks, HandBack(t) PROVE TypeOK'
  <2>1. BoardOK'
    <3>1. attempts[t] - 1 \in Int
      BY <1>13 DEF BoardOK
    <3> QED BY <1>13, <3>1 DEF HandBack, BoardOK, Statuses, Try
  <2>2. ProcsOK'
    BY <1>13 DEF HandBack, ProcsOK, Over, Drop, Goto, TickPCs, CallPCs, Procs
  <2>3. FoundOK'
    BY <1>13 DEF HandBack, FoundOK, Verdicts, Over
  <2>4. InputOK'
    BY <1>13, TryTyped DEF HandBack, Try
  <2> QED BY <1>13, <2>1, <2>2, <2>3, <2>4 DEF HandBack, Try, SeenOK, PastOK
<1>14. ASSUME NEW p \in Procs, Spawn(p) PROVE TypeOK'
  <2>1. sess' \in Seq(Sessions)
    <3>1. NewSession(job[p]) \in Sessions
      BY <1>14 DEF Spawn, NewSession, Sessions, Stages, Held, Working, PastOK
    <3> QED BY <1>14, <3>1 DEF Spawn
  <2>2. ProcsOK'
    BY <1>14 DEF Spawn, ProcsOK, Goto, TickPCs, CallPCs, Procs
  <2> QED BY <1>14, <2>1, <2>2 DEF Spawn, BoardOK, FoundOK, SeenOK, PastOK, InputOK
<1>15. ASSUME NEW p \in Procs, Wire(p) PROVE TypeOK'
  <2>1. BoardOK'
    BY <1>15 DEF Wire, BoardOK, Statuses, Try, ProcsOK
  <2>2. ProcsOK'
    BY <1>15 DEF Wire, ProcsOK, Goto, TickPCs, CallPCs, Procs
  <2>3. InputOK'
    BY <1>15, TryTyped DEF Wire, Try
  <2> QED BY <1>15, <2>1, <2>2, <2>3 DEF Wire, Try, FoundOK, SeenOK, PastOK
<1>16. ASSUME NEW p \in Procs, Enqueue(p) PROVE TypeOK'
  <2>1. sess' \in Seq(Sessions)
    <3> DEFINE s == child[p]
               l == IF sess[s].stage = "idle" THEN "turn" ELSE sess[s].stage
    <3>1. s \in Nat
      BY <1>16 DEF ProcsOK
    <3>2. s \in DOMAIN sess => l \in Stages
      BY SessionOf DEF Stages
    <3>3. sess' = [sess EXCEPT ![s].stage = l]
      BY <1>16 DEF Enqueue
    <3> HIDE DEF s, l
    <3> QED BY <3>1, <3>2, <3>3, StageTyped
  <2>2. ProcsOK'
    BY <1>16 DEF Enqueue, ProcsOK, Drop, Goto, TickPCs, CallPCs, Procs
  <2> QED BY <1>16, <2>1, <2>2 DEF Enqueue, Drop, BoardOK, FoundOK, SeenOK, PastOK, InputOK
<1>17. ASSUME NEW p \in Procs, SpawnFails(p) PROVE TypeOK'
  <2>1. sess' \in Seq(Sessions)
    <3>1. NewSession(job[p]) \in Sessions
      BY <1>17 DEF SpawnFails, NewSession, Sessions, Stages, Held, Working, PastOK
    <3> QED BY <1>17, <3>1 DEF SpawnFails
  <2>2. ProcsOK'
    BY <1>17 DEF SpawnFails, ProcsOK, Goto, TickPCs, CallPCs, Procs
  <2>3. FoundOK'
    <3>1. job[p] \in Tasks
      BY <1>17 DEF SpawnFails, Held, Working, PastOK
    <3> QED BY <1>17, <3>1 DEF SpawnFails, FoundOK
  <2>4. InputOK'
    BY <1>17, UseTyped DEF SpawnFails, Inputs
  <2> QED BY <1>17, <2>1, <2>2, <2>3, <2>4 DEF SpawnFails, BoardOK, SeenOK, PastOK
<1>18. ASSUME NEW p \in Procs, Raises(p) PROVE TypeOK'
  <2>1. ProcsOK'
    BY <1>18 DEF Raises, ProcsOK, Over, Drop, Goto, TickPCs, CallPCs, Procs
  <2>2. FoundOK'
    BY <1>18, OverTyped DEF Raises
  <2>3. InputOK'
    BY <1>18, UseTyped DEF Raises, Inputs
  <2> QED BY <1>18, <2>1, <2>2, <2>3 DEF Raises, BoardOK, SeenOK, PastOK
<1>19. ASSUME NEW p \in Procs, Dies(p) PROVE TypeOK'
  <2>1. ProcsOK'
    BY <1>19 DEF Dies, ProcsOK, Over, Drop, Goto, TickPCs, CallPCs, Procs
  <2>2. FoundOK'
    BY <1>19, OverTyped DEF Dies
  <2>3. InputOK'
    BY <1>19, UseTyped DEF Dies, Inputs
  <2> QED BY <1>19, <2>1, <2>2, <2>3 DEF Dies, BoardOK, SeenOK, PastOK
<1>20. ASSUME NEW s \in DOMAIN sess, WorkerComplete(s) PROVE TypeOK'
  <2>1. BoardOK'
    BY <1>20, SessionOf DEF WorkerComplete, BoardOK, Statuses
  <2>2. sess' \in Seq(Sessions)
    BY <1>20, SessionOf, StageTyped DEF WorkerComplete, Stage, Interrupt, Stages
  <2>3. PastOK'
    BY <1>20, SessionOf DEF WorkerComplete, PastOK
  <2> QED BY <1>20, <2>1, <2>2, <2>3 DEF WorkerComplete, Stage, ProcsOK, FoundOK, SeenOK, InputOK
<1>21. ASSUME NEW s \in DOMAIN sess, WorkerBlock(s) PROVE TypeOK'
  <2>1. BoardOK'
    BY <1>21, SessionOf DEF WorkerBlock, BoardOK, Statuses
  <2>2. sess' \in Seq(Sessions)
    BY <1>21, SessionOf, StageTyped DEF WorkerBlock, Stage, Stages
  <2>3. InputOK'
    BY <1>21, UseTyped DEF WorkerBlock, Inputs
  <2> QED BY <1>21, <2>1, <2>2, <2>3 DEF WorkerBlock, Stage, ProcsOK, FoundOK, SeenOK, PastOK
<1>22. ASSUME NEW s \in DOMAIN sess, WorkerBlockTells(s) PROVE TypeOK'
  <2>1. sess' \in Seq(Sessions)
    BY <1>22, SessionOf, StageTyped DEF WorkerBlockTells, Stage, Interrupt, Stages
  <2>2. SeenOK'
    BY <1>22 DEF WorkerBlockTells, SeenOK, Try, Tell
  <2>3. InputOK'
    BY <1>22, TryTyped DEF WorkerBlockTells, Try
  <2> QED BY <1>22, <2>1, <2>2, <2>3 DEF WorkerBlockTells, Try, Stage, BoardOK, ProcsOK, FoundOK, PastOK
<1>23. ASSUME NEW s \in DOMAIN sess, NEW how \in {"completed", "failed"}, TurnEnds(s, how) PROVE TypeOK'
  <2>1. sess' \in Seq(Sessions)
    <3>1. [sess[s] EXCEPT !.stage = "closing", !.end = how] \in Sessions
      BY <1>23, SessionOf DEF Sessions, Stages
    <3>2. sess' = [sess EXCEPT ![s] = [sess[s] EXCEPT !.stage = "closing", !.end = how]]
      BY <1>23 DEF TurnEnds
    <3> QED BY <1>23, <3>1, <3>2
  <2>2. InputOK'
    BY <1>23, UseTyped DEF TurnEnds, Inputs, InputOK
  <2> QED BY <1>23, <2>1, <2>2 DEF TurnEnds, Stage, BoardOK, ProcsOK, FoundOK, SeenOK, PastOK
<1>24. ASSUME NEW s \in DOMAIN sess, Close(s) PROVE TypeOK'
  <2>1. sess' \in Seq(Sessions)
    <3>1. [sess[s] EXCEPT !.stage = "reporting", !.status = sess[s].end] \in Sessions
      BY <1>24, SessionOf DEF Sessions, Stages
    <3>2. [sess EXCEPT ![s].stage = "reporting", ![s].status = sess[s].end]
            = [sess EXCEPT ![s] = [sess[s] EXCEPT !.stage = "reporting", !.status = sess[s].end]]
      BY <1>24
    <3> QED BY <1>24, <3>1, <3>2, StageTyped DEF Close, Stage, Stages
  <2>2. InputOK'
    BY <1>24, TryTyped DEF Close
  <2> QED BY <1>24, <2>1, <2>2 DEF Close, Stage, BoardOK, ProcsOK, FoundOK, SeenOK, PastOK
<1>25. ASSUME NEW s \in DOMAIN sess, Report(s) PROVE TypeOK'
  <2>1. sess' \in Seq(Sessions)
    BY <1>25, SessionOf, StageTyped DEF Report, Stage, Stages
  <2>2. SeenOK'
    BY <1>25 DEF Report, SeenOK, Try, Tell
  <2>3. InputOK'
    BY <1>25, TryTyped DEF Report, Try
  <2> QED BY <1>25, <2>1, <2>2, <2>3 DEF Report, Try, Stage, BoardOK, ProcsOK, FoundOK, PastOK
<1>26. ASSUME NEW s \in DOMAIN sess, WorkerDies(s) PROVE TypeOK'
  <2>1. sess' \in Seq(Sessions)
    BY <1>26, SessionOf, StageTyped DEF WorkerDies, Stage, Stages
  <2>2. InputOK'
    BY <1>26, UseTyped DEF WorkerDies, Inputs
  <2> QED BY <1>26, <2>1, <2>2 DEF WorkerDies, Stage, BoardOK, ProcsOK, FoundOK, SeenOK, PastOK
<1>27. ASSUME NEW s \in DOMAIN sess, Sweep(s) PROVE TypeOK'
  <2>1. sess' \in Seq(Sessions)
    BY <1>27, SessionOf, StageTyped DEF Sweep, Stage, Stages
  <2> QED BY <1>27, <2>1 DEF Sweep, Stage, BoardOK, ProcsOK, FoundOK, SeenOK, PastOK, InputOK
<1>28. ASSUME NEW s \in DOMAIN sess, Pause(s) PROVE TypeOK'
  <2>1. sess' \in Seq(Sessions)
    <3>1. [sess[s] EXCEPT !.status = "paused", !.stage = "rest"] \in Sessions
      BY <1>28, SessionOf DEF Sessions, Stages
    <3>2. sess' = [sess EXCEPT ![s] = [sess[s] EXCEPT !.status = "paused", !.stage = "rest"]]
      BY <1>28 DEF Pause
    <3> QED BY <1>28, <3>1, <3>2
  <2>2. InputOK'
    BY <1>28, UseTyped DEF Pause, Inputs
  <2> QED BY <1>28, <2>1, <2>2 DEF Pause, Stage, BoardOK, ProcsOK, FoundOK, SeenOK, PastOK
<1>29. ASSUME NEW s \in DOMAIN sess, Resume(s) PROVE TypeOK'
  <2>1. sess' \in Seq(Sessions)
    <3>1. [sess[s] EXCEPT !.status = "active", !.stage = "turn"] \in Sessions
      BY <1>29, SessionOf DEF Sessions, Stages
    <3>2. sess' = [sess EXCEPT ![s] = [sess[s] EXCEPT !.status = "active", !.stage = "turn"]]
      BY <1>29 DEF Resume
    <3> QED BY <1>29, <3>1, <3>2
  <2> QED BY <1>29, <2>1 DEF Resume, Stage, BoardOK, ProcsOK, FoundOK, SeenOK, PastOK, InputOK
<1>30. ASSUME NEW t \in Tasks, Unblock(t) PROVE TypeOK'
  <2>1. BoardOK'
    BY <1>30 DEF Unblock, BoardOK, Statuses
  <2>2. InputOK'
    BY <1>30, UseTyped DEF Unblock, Inputs
  <2> QED BY <1>30, <2>1, <2>2 DEF Unblock, ProcsOK, FoundOK, SeenOK, PastOK
<1>31. ASSUME NEW t \in Tasks, Cancel(t) PROVE TypeOK'
  <2>1. BoardOK'
    BY <1>31 DEF Cancel, BoardOK, Statuses
  <2>2. sess' \in Seq(Sessions)
    <3>1. ASSUME NEW s \in DOMAIN sess
          PROVE  [sess[s] EXCEPT !.stage = Interrupt("prefixid", @)] \in Sessions
      BY SessionOf DEF Interrupt, Sessions, Stages
    <3> QED BY <1>31, <3>1 DEF Cancel
  <2>3. InputOK'
    BY <1>31, UseTyped DEF Cancel, Inputs
  <2> QED BY <1>31, <2>1, <2>2, <2>3 DEF Cancel, ProcsOK, FoundOK, SeenOK, PastOK
<1>32. ASSUME CascadeRead PROVE TypeOK'
  <2>1. SeenOK'
    BY <1>32 DEF CascadeRead, SeenOK, BoardOK
  <2>2. InputOK'
    BY <1>32, UseTyped DEF CascadeRead, Inputs
  <2> QED BY <1>32, <2>1, <2>2 DEF CascadeRead, BoardOK, ProcsOK, FoundOK, PastOK
<1>33. ASSUME CascadeUpdate PROVE TypeOK'
  <2>1. BoardOK'
    BY <1>33 DEF CascadeUpdate, BoardOK, Statuses
  <2>2. SeenOK'
    BY <1>33 DEF CascadeUpdate, SeenOK
  <2> QED BY <1>33, <2>1, <2>2 DEF CascadeUpdate, ProcsOK, FoundOK, PastOK, InputOK
<1>34. ASSUME CascadePublish PROVE TypeOK'
  <2>1. sess' \in Seq(Sessions)
    <3>1. CASE UNCHANGED sess
      BY <3>1
    <3>2. ASSUME NEW s \in cascade.sids, sess' = [sess EXCEPT ![s].stage = Interrupt("prefix:id", @)]
          PROVE  sess' \in Seq(Sessions)
      <4>1. s \in Nat
        BY <3>2 DEF SeenOK
      <4>2. s \in DOMAIN sess => Interrupt("prefix:id", sess[s].stage) \in Stages
        BY SessionOf DEF Interrupt, Stages
      <4> QED BY <3>2, <4>1, <4>2, StageTyped
    <3> QED BY <1>34, <3>1, <3>2 DEF CascadePublish
  <2>2. SeenOK'
    BY <1>34 DEF CascadePublish, SeenOK, AtRest
  <2>3. InputOK'
    BY <1>34, TryTyped DEF CascadePublish
  <2> QED BY <1>34, <2>1, <2>2, <2>3 DEF CascadePublish, BoardOK, ProcsOK, FoundOK, PastOK
<1> QED
  BY <1>1, <1>2, <1>3, <1>4, <1>5, <1>6, <1>7, <1>8, <1>9, <1>10, <1>11, <1>12, <1>13, <1>14, <1>15, <1>16, <1>17, <1>18, <1>19, <1>20, <1>21, <1>22, <1>23, <1>24, <1>25, <1>26, <1>27, <1>28, <1>29, <1>30, <1>31, <1>32, <1>33, <1>34
    DEF Next, Tick, Call, Start, Faults, Work, Coordinate

(* ------------------------------- the order ----------------------------- *)

(* Only these variables matter to the order. *)
LEMMA Untouched ==
  ASSUME Ordered, UNCHANGED <<status, pc, job, seen, begun, finished>>
  PROVE  Held' /\ Freed' /\ DependenciesRespected'
BY DEF Ordered, Held, Freed, DependenciesRespected

(* A process that lets go of its task. *)
LEMMA Dropped ==
  ASSUME Ordered, NEW p \in Procs, NEW l \in {"idle", "claim"}, Drop(p, l), UNCHANGED begun
  PROVE  Held'
BY DEF Ordered, TypeOK, ProcsOK, Held, Drop, Goto, Working, Procs

(* A claim is of a task whose parents are finished. *)
LEMMA ClaimOrdered ==
  ASSUME Ordered, NEW p \in Procs, NEW t \in Tasks, Claim(p, t), p \in Tasks => p = t
  PROVE  Held' /\ Freed' /\ DependenciesRespected'
<1> USE DEF Ordered, TypeOK, BoardOK, ProcsOK, FoundOK, PastOK
<1>1. Parents[t] \subseteq finished
  BY DEF Claim, Freed
<1>2. Held'
  BY DEF Claim, Goto, Held, Procs
<1>3. Freed'
  BY <1>1 DEF Claim, Freed, found
<1>4. DependenciesRespected'
  BY <1>1 DEF Claim, DependenciesRespected
<1> QED BY <1>2, <1>3, <1>4

(* Every step keeps the order. *)
LEMMA OrderStep ==
  ASSUME Ordered, Next
  PROVE  Held' /\ Freed' /\ DependenciesRespected'
<1> USE DEF board, held, found, local, history, input
<1> DEFINE Goal == Held' /\ Freed' /\ DependenciesRespected'
<1>1. ASSUME NEW p \in Tickers, Promote(p) PROVE Goal
  <2>1. \A t \in Tasks : ParentsDone(t) => Parents[t] \subseteq finished
    BY ParentsAssumption DEF ParentsDone, Ordered, Freed
  <2>2. Held'
    BY <1>1 DEF Promote, Ordered, TypeOK, ProcsOK, Held, Goto, Working
  <2>3. Freed'
    BY <1>1, <2>1 DEF Promote, Ordered, TypeOK, BoardOK, Freed
  <2> QED BY <1>1, <2>2, <2>3 DEF Promote, Ordered, DependenciesRespected
<1>2. ASSUME NEW p \in Tickers, FinalizeRead(p) PROVE Goal
  <2>1. Held'
    BY <1>2 DEF FinalizeRead, Ordered, TypeOK, ProcsOK, Held, Goto, Working
  <2>2. \A t \in Tasks : Verdict(t) /= "none" => Parents[t] \subseteq finished
    BY DEF Ordered, Freed, Verdict
  <2>3. Freed'
    BY <1>2, <2>2 DEF FinalizeRead, Ordered, TypeOK, FoundOK, Freed
  <2> QED BY <1>2, <2>1, <2>3 DEF FinalizeRead, Ordered, DependenciesRespected
<1>3. ASSUME NEW p \in Tickers, FinalizeCommit(p) PROVE Goal
  <2>1. Held'
    BY <1>3 DEF FinalizeCommit, Ordered, TypeOK, ProcsOK, Held, Goto, Working
  <2>2. finished \subseteq finished' /\ seen' \in [Tickers -> [Tasks -> Verdicts]]
    BY <1>3 DEF FinalizeCommit, Ordered, TypeOK, FoundOK, Verdicts
  <2>3. \A t \in Tasks : status'[t] = "done" => t \in finished'
    BY <1>3 DEF FinalizeCommit, Ordered, TypeOK, BoardOK, FoundOK, Freed
  <2>4. \A t \in Tasks : status'[t] \notin {"absent", "todo", "cancelled"}
                           => Parents[t] \subseteq finished
    BY <1>3 DEF FinalizeCommit, Ordered, TypeOK, BoardOK, FoundOK, Freed
  <2>5. \A q \in Tickers, t \in Tasks : seen'[q][t] /= "none" => seen[q][t] /= "none"
    BY <1>3 DEF FinalizeCommit, Ordered, TypeOK, FoundOK
  <2>6. Freed'
    BY <2>2, <2>3, <2>4, <2>5 DEF Ordered, Freed
  <2> QED BY <1>3, <2>1, <2>2, <2>6 DEF FinalizeCommit, Ordered, DependenciesRespected
<1>4. ASSUME NEW p \in Tickers, Notify(p) PROVE Goal
  <2>1. Held'
    BY <1>4 DEF Notify, Ordered, TypeOK, ProcsOK, Held, Goto, Working
  <2>2. \A q \in Tickers, t \in Tasks : seen'[q][t] /= "none" => seen[q][t] /= "none"
    BY <1>4 DEF Notify, Ordered, TypeOK, FoundOK
  <2>3. Freed'
    BY <1>4, <2>2 DEF Notify, Ordered, Freed
  <2> QED BY <1>4, <2>1, <2>3 DEF Notify, Ordered, DependenciesRespected
<1>5. ASSUME NEW p \in Tickers, TickClaim(p) PROVE Goal
  BY <1>5, ClaimOrdered, TickersAssumption DEF TickClaim, Procs
<1>6. ASSUME NEW p \in Tickers, TickEnds(p) PROVE Goal
  <2>1. Held'
    BY <1>6, Dropped DEF TickEnds, Over, Procs
  <2>2. Freed'
    BY <1>6 DEF TickEnds, Over, Ordered, TypeOK, FoundOK, Freed, NoVerdict
  <2> QED BY <1>6, <2>1, <2>2 DEF TickEnds, Ordered, DependenciesRespected
<1>7. ASSUME NEW p \in Tickers, BlockClaim(p) PROVE Goal
  <2>1. Held'
    <3>1. CASE UNCHANGED held /\ Goto(p, "tell")
      BY <1>7, <3>1 DEF BlockClaim, Ordered, TypeOK, ProcsOK, Held, Goto, Working, Procs
    <3>2. CASE Drop(p, "claim")
      BY <1>7, <3>2, Dropped DEF BlockClaim, Procs
    <3> QED BY <1>7, <3>1, <3>2 DEF BlockClaim
  <2>2. Parents[job[p]] \subseteq finished
    BY <1>7 DEF BlockClaim, Ordered, Held, Working, Procs, DependenciesRespected
  <2>3. Freed'
    BY <1>7, <2>2 DEF BlockClaim, Ordered, TypeOK, BoardOK, Freed
  <2> QED BY <1>7, <2>1, <2>3 DEF BlockClaim, Ordered, DependenciesRespected
<1>8. ASSUME NEW p \in Tickers, TellBlocked(p) PROVE Goal
  <2>1. Held'
    BY <1>8, Dropped DEF TellBlocked, Procs
  <2> QED BY <1>8, <2>1 DEF TellBlocked, Ordered, Freed, DependenciesRespected
<1>9. ASSUME NEW p \in Tickers, Rollback(p) PROVE Goal
  <2>1. Held'
    BY <1>9, Dropped DEF Rollback, Procs
  <2>2. Parents[job[p]] \subseteq finished
    BY <1>9 DEF Rollback, Ordered, Held, Working, Procs, DependenciesRespected
  <2>3. Freed'
    BY <1>9, <2>2 DEF Rollback, Try, Ordered, TypeOK, BoardOK, Freed
  <2> QED BY <1>9, <2>1, <2>3 DEF Rollback, Ordered, DependenciesRespected
<1>10. ASSUME NEW t \in Tasks, Insert(t) PROVE Goal
  <2>1. ParentsDone(t) => Parents[t] \subseteq finished
    BY ParentsAssumption DEF ParentsDone, Ordered, Freed
  <2>2. Held'
    BY <1>10 DEF Insert, Ordered, TypeOK, ProcsOK, Held, Goto, Working, Procs
  <2>3. Freed'
    BY <1>10, <2>1 DEF Insert, Ordered, TypeOK, BoardOK, Freed
  <2> QED BY <1>10, <2>2, <2>3 DEF Insert, Ordered, DependenciesRespected
<1>11. ASSUME NEW t \in Tasks, EagerClaim(t) PROVE Goal
  BY <1>11, ClaimOrdered DEF EagerClaim, Procs
<1>12. ASSUME NEW t \in Tasks, EagerLost(t) PROVE Goal
  <2>1. Held'
    BY <1>12 DEF EagerLost, Ordered, TypeOK, ProcsOK, Held, Goto, Working, Procs
  <2> QED BY <1>12, <2>1 DEF EagerLost, Ordered, Freed, DependenciesRespected
<1>13. ASSUME NEW t \in Tasks, HandBack(t) PROVE Goal
  <2>1. Held'
    BY <1>13, Dropped DEF HandBack, Over, Procs
  <2>2. Parents[t] \subseteq finished
    BY <1>13 DEF HandBack, Ordered, Held, Working, Procs, DependenciesRespected
  <2>3. Freed'
    BY <1>13, <2>2 DEF HandBack, Over, Try, Ordered, TypeOK, BoardOK, Freed
  <2> QED BY <1>13, <2>1, <2>3 DEF HandBack, Ordered, DependenciesRespected
<1>14. ASSUME NEW p \in Procs, Spawn(p) PROVE Goal
  <2>1. Held'
    BY <1>14 DEF Spawn, Ordered, TypeOK, ProcsOK, Held, Goto, Working, Procs
  <2> QED BY <1>14, <2>1 DEF Spawn, Ordered, Freed, DependenciesRespected
<1>15. ASSUME NEW p \in Procs, Wire(p) PROVE Goal
  <2>1. Held'
    BY <1>15 DEF Wire, Ordered, TypeOK, ProcsOK, Held, Goto, Working, Procs
  <2> QED BY <1>15, <2>1 DEF Wire, Ordered, Freed, DependenciesRespected
<1>16. ASSUME NEW p \in Procs, Enqueue(p) PROVE Goal
  <2>1. Held'
    BY <1>16, Dropped DEF Enqueue
  <2> QED BY <1>16, <2>1 DEF Enqueue, Ordered, Freed, DependenciesRespected
<1>17. ASSUME NEW p \in Procs, SpawnFails(p) PROVE Goal
  <2>1. Held'
    BY <1>17 DEF SpawnFails, Ordered, TypeOK, ProcsOK, Held, Goto, Working, Procs
  <2> QED BY <1>17, <2>1 DEF SpawnFails, Ordered, Freed, DependenciesRespected
<1>18. ASSUME NEW p \in Procs, Raises(p) PROVE Goal
  <2>1. Held'
    BY <1>18, Dropped DEF Raises, Over
  <2>2. \A q \in Tickers, t \in Tasks : seen'[q][t] /= "none" => seen[q][t] /= "none"
    BY <1>18 DEF Raises, Over, Ordered, TypeOK, FoundOK, NoVerdict
  <2>3. Freed'
    BY <1>18, <2>2 DEF Raises, Ordered, Freed
  <2> QED BY <1>18, <2>1, <2>3 DEF Raises, Ordered, DependenciesRespected
<1>19. ASSUME NEW p \in Procs, Dies(p) PROVE Goal
  <2>1. Held'
    BY <1>19, Dropped DEF Dies, Over
  <2>2. \A q \in Tickers, t \in Tasks : seen'[q][t] /= "none" => seen[q][t] /= "none"
    BY <1>19 DEF Dies, Over, Ordered, TypeOK, FoundOK, NoVerdict
  <2>3. Freed'
    BY <1>19, <2>2 DEF Dies, Ordered, Freed
  <2> QED BY <1>19, <2>1, <2>3 DEF Dies, Ordered, DependenciesRespected
<1>20. ASSUME NEW s \in DOMAIN sess, WorkerComplete(s) PROVE Goal
  <2>1. Held'
    BY <1>20 DEF WorkerComplete, Ordered, Held
  <2>2. Freed'
    BY <1>20, SessionOf DEF WorkerComplete, Current, Ordered, TypeOK, BoardOK, Freed
  <2> QED BY <1>20, <2>1, <2>2 DEF WorkerComplete, Ordered, DependenciesRespected
<1>21. ASSUME NEW s \in DOMAIN sess, WorkerBlock(s) PROVE Goal
  <2>1. Held'
    BY <1>21 DEF WorkerBlock, Ordered, Held
  <2>2. Freed'
    BY <1>21, SessionOf DEF WorkerBlock, Current, Ordered, TypeOK, BoardOK, Freed
  <2> QED BY <1>21, <2>1, <2>2 DEF WorkerBlock, Ordered, DependenciesRespected
<1>22. ASSUME NEW s \in DOMAIN sess, WorkerBlockTells(s) PROVE Goal
  BY <1>22, Untouched DEF WorkerBlockTells
<1>23. ASSUME NEW s \in DOMAIN sess, NEW how \in {"completed", "failed"}, TurnEnds(s, how) PROVE Goal
  BY <1>23, Untouched DEF TurnEnds
<1>24. ASSUME NEW s \in DOMAIN sess, Close(s) PROVE Goal
  BY <1>24, Untouched DEF Close
<1>25. ASSUME NEW s \in DOMAIN sess, Report(s) PROVE Goal
  BY <1>25, Untouched DEF Report
<1>26. ASSUME NEW s \in DOMAIN sess, WorkerDies(s) PROVE Goal
  BY <1>26, Untouched DEF WorkerDies
<1>27. ASSUME NEW s \in DOMAIN sess, Sweep(s) PROVE Goal
  BY <1>27, Untouched DEF Sweep
<1>28. ASSUME NEW s \in DOMAIN sess, Pause(s) PROVE Goal
  BY <1>28, Untouched DEF Pause
<1>29. ASSUME NEW s \in DOMAIN sess, Resume(s) PROVE Goal
  BY <1>29, Untouched DEF Resume
<1>30. ASSUME NEW t \in Tasks, Unblock(t) PROVE Goal
  <2>1. Held'
    BY <1>30 DEF Unblock, Ordered, Held
  <2>2. Freed'
    BY <1>30 DEF Unblock, Ordered, TypeOK, BoardOK, Freed
  <2> QED BY <1>30, <2>1, <2>2 DEF Unblock, Ordered, DependenciesRespected
<1>31. ASSUME NEW t \in Tasks, Cancel(t) PROVE Goal
  <2>1. Held'
    BY <1>31 DEF Cancel, Ordered, Held
  <2>2. Freed'
    BY <1>31 DEF Cancel, Ordered, TypeOK, BoardOK, Freed
  <2> QED BY <1>31, <2>1, <2>2 DEF Cancel, Ordered, DependenciesRespected
<1>32. ASSUME CascadeUpdate PROVE Goal
  <2>1. Held'
    BY <1>32 DEF CascadeUpdate, Ordered, Held
  <2>2. Freed'
    BY <1>32 DEF CascadeUpdate, Ordered, TypeOK, BoardOK, Freed
  <2> QED BY <1>32, <2>1, <2>2 DEF CascadeUpdate, Ordered, DependenciesRespected
<1>33. ASSUME CascadeRead PROVE Goal
  BY <1>33, Untouched DEF CascadeRead
<1>34. ASSUME CascadePublish PROVE Goal
  BY <1>34, Untouched DEF CascadePublish
<1> QED
  BY <1>1, <1>2, <1>3, <1>4, <1>5, <1>6, <1>7, <1>8, <1>9, <1>10, <1>11, <1>12, <1>13, <1>14, <1>15, <1>16, <1>17, <1>18, <1>19, <1>20, <1>21, <1>22, <1>23, <1>24, <1>25, <1>26, <1>27, <1>28, <1>29, <1>30, <1>31, <1>32, <1>33, <1>34
    DEF Next, Tick, Call, Start, Faults, Work, Coordinate

(* ------------------------------- theorems ------------------------------ *)

(* The board starts with nothing begun. *)
LEMMA OrderInit ==
  ASSUME Init
  PROVE  Ordered
<1>1. TypeOK
  BY ScenarioAssumption
    DEF Init, TypeOK, BoardOK, ProcsOK, FoundOK, SeenOK, PastOK, InputOK, Statuses, Procs,
        TickPCs, CallPCs, NoVerdict, Verdicts, AtRest
<1>2. Held /\ Freed /\ DependenciesRespected
  BY DEF Init, Held, Working, Freed, DependenciesRespected, Procs, NoVerdict
<1> QED BY <1>1, <1>2 DEF Ordered

(* The inductive invariant. *)
THEOREM InOrder == Spec => []Ordered
<1>1. Init => Ordered
  BY OrderInit
<1>2. Ordered /\ [Next]_vars => Ordered'
  <2>1. CASE Next
    BY <2>1, TypeStep, OrderStep DEF Ordered
  <2>2. ASSUME Ordered, UNCHANGED vars PROVE Ordered'
    <3>1. TypeOK'
      BY <2>2 DEF Ordered, vars, TypeOK, BoardOK, ProcsOK, FoundOK, SeenOK, PastOK, InputOK
    <3> QED BY <2>2, <3>1, Untouched DEF Ordered, vars
  <2> QED BY <2>1, <2>2
<1> QED BY <1>1, <1>2, PTL DEF Spec

(* Every reachable state of the board, the ticks, the calls and the sessions is
   well typed, for any number of them. *)
THEOREM Typed == Spec => []TypeOK
<1>1. Ordered => TypeOK
  BY DEF Ordered
<1> QED BY <1>1, InOrder, PTL

(* No task begins before the work of every parent is done, for any number of ticks
   and calls that claim, judge and write by what they read before. *)
THEOREM ParentsFirst == Spec => []DependenciesRespected
<1>1. Ordered => DependenciesRespected
  BY DEF Ordered
<1> QED BY <1>1, InOrder, PTL

(* ------------------- sessions, and who they belong to ------------------ *)

\* How a session's row may change: not at all; within its turn; from the turn to its
\* last event, its status and its report; and by being stopped and resumed.
Moves(a, b) ==
  /\ b.task = a.task
  /\ \/ b.status = a.status /\ b.stage = a.stage
     \/ a.status = "paused"
     \/ b.status = "paused" /\ "pauses" \in met'
     \/ b.status = a.status /\ {a.stage, b.stage} \subseteq {"idle", "turn", "telling"}
     \/ b.status = a.status /\ a.stage = "turn" /\ b.stage = "closing" /\ pc[a.task] = "idle"
     \/ /\ a.stage \in {"closing", "reporting"} /\ b.stage \in {"reporting", "rest"}
        /\ b.status = a.status \/ b.status \in {"completed", "failed"}

OldMove == \A s \in DOMAIN sess : s \in DOMAIN sess' /\ Moves(sess[s], sess'[s])

\* The new session is the one of a process that spawns it.
NewAre == \/ DOMAIN sess' = DOMAIN sess
          \/ \E p \in Procs :
               /\ pc[p] = "spawn" /\ DOMAIN sess' = DOMAIN sess \cup {Len(sess) + 1}
               /\ Len(sess) + 1 \notin DOMAIN sess
               /\ sess'[Len(sess) + 1] = NewSession(job[p])

(* Rows no step touches do not move. *)
LEMMA SameMove ==
  ASSUME UNCHANGED sess
  PROVE  OldMove /\ NewAre
BY DEF OldMove, NewAre, Moves

(* A session whose stage changes, and no other. *)
LEMMA StageMove ==
  ASSUME sess \in Seq(Sessions), NEW s \in Nat, NEW l, sess' = [sess EXCEPT ![s].stage = l],
         s \in DOMAIN sess => Moves(sess[s], [sess[s] EXCEPT !.stage = l])
  PROVE  OldMove /\ NewAre
<1>1. DOMAIN sess' = DOMAIN sess OBVIOUS
<1>2. ASSUME NEW r \in DOMAIN sess PROVE Moves(sess[r], sess'[r])
  <2>1. CASE r = s BY <2>1
  <2>2. CASE r /= s
    <3>1. sess'[r] = sess[r] BY <2>2
    <3> QED BY <3>1 DEF Moves
  <2> QED BY <2>1, <2>2
<1> QED BY <1>1, <1>2 DEF OldMove, NewAre

(* A session whose row changes, and no other. *)
LEMMA RowMove ==
  ASSUME sess \in Seq(Sessions), NEW s \in DOMAIN sess, NEW r, sess' = [sess EXCEPT ![s] = r],
         Moves(sess[s], r)
  PROVE  OldMove /\ NewAre
<1>1. DOMAIN sess' = DOMAIN sess OBVIOUS
<1>2. ASSUME NEW q \in DOMAIN sess PROVE Moves(sess[q], sess'[q])
  <2>1. CASE q = s BY <2>1
  <2>2. CASE q /= s
    <3>1. sess'[q] = sess[q] BY <2>2
    <3> QED BY <3>1 DEF Moves
  <2> QED BY <2>1, <2>2
<1> QED BY <1>1, <1>2 DEF OldMove, NewAre

(* A session that is created, and no other changed. *)
LEMMA SpawnMove ==
  ASSUME sess \in Seq(Sessions), NEW p \in Procs, pc[p] = "spawn",
         sess' = Append(sess, NewSession(job[p]))
  PROVE  OldMove /\ NewAre
<1>1. DOMAIN sess = 1 .. Len(sess) /\ Len(sess) \in Nat OBVIOUS
<1>2. DOMAIN sess' = 1 .. Len(sess) + 1 OBVIOUS
<1>3. sess'[Len(sess) + 1] = NewSession(job[p]) BY <1>1
<1>4. \A s \in DOMAIN sess : sess'[s] = sess[s] BY <1>1
<1>5. OldMove BY <1>1, <1>2, <1>4 DEF OldMove, Moves
<1>6. DOMAIN sess' = DOMAIN sess \cup {Len(sess) + 1} /\ Len(sess) + 1 \notin DOMAIN sess
  BY <1>1, <1>2
<1> QED BY <1>3, <1>5, <1>6 DEF NewAre

(* What any step does to the sessions. *)
LEMMA SessGoes ==
  ASSUME Ordered, Next
  PROVE  OldMove /\ NewAre
<1> USE DEF Ordered, TypeOK
<1> DEFINE Goal == OldMove /\ NewAre
<1>1. ASSUME NEW p \in Tickers, Tick(p) PROVE Goal
  <2>1. UNCHANGED sess
    BY <1>1 DEF Tick, Promote, FinalizeRead, FinalizeCommit, Notify, TickClaim, Claim, TickEnds,
                BlockClaim, TellBlocked, Rollback
  <2> QED BY <2>1, SameMove
<1>2. ASSUME NEW t \in Tasks, Call(t) PROVE Goal
  <2>1. UNCHANGED sess
    BY <1>2 DEF Call, Insert, EagerClaim, Claim, EagerLost, HandBack
  <2> QED BY <2>1, SameMove
<1>3. ASSUME NEW p \in Procs, Spawn(p) PROVE Goal
  BY <1>3, SpawnMove DEF Spawn
<1>4. ASSUME NEW p \in Procs, Wire(p) PROVE Goal
  BY <1>4, SameMove DEF Wire
<1>5. ASSUME NEW p \in Procs, Enqueue(p) PROVE Goal
  <2> DEFINE s == child[p]
             l == IF sess[s].stage = "idle" THEN "turn" ELSE sess[s].stage
  <2>1. s \in Nat BY DEF ProcsOK
  <2>2. sess' = [sess EXCEPT ![s].stage = l] BY <1>5 DEF Enqueue
  <2>3. ASSUME s \in DOMAIN sess PROVE Moves(sess[s], [sess[s] EXCEPT !.stage = l])
    <3>1. sess[s] \in Sessions BY <2>3, SessionOf
    <3> QED BY <3>1 DEF Moves, Sessions
  <2> HIDE DEF s, l
  <2> QED BY <2>1, <2>2, <2>3, StageMove
<1>6. ASSUME NEW p \in Procs, SpawnFails(p) PROVE Goal
  BY <1>6, SpawnMove, SameMove DEF SpawnFails
<1>7. ASSUME NEW p \in Procs, Raises(p) \/ Dies(p) PROVE Goal
  BY <1>7, SameMove DEF Raises, Dies
<1>8. ASSUME NEW s \in DOMAIN sess, Work(s) PROVE Goal
  <2>1. s \in Nat /\ sess[s] \in Sessions /\ sess[s].stage \in Stages /\ sess[s].end \in {"completed", "failed"}
    BY SessionOf
  <2>2. CASE WorkerComplete(s)
    <3>1. Moves(sess[s], [sess[s] EXCEPT !.stage = Interrupt("prefixid", "turn")])
      BY <2>1, <2>2 DEF WorkerComplete, Moves, Sessions, Interrupt
    <3> QED BY <2>1, <2>2, <3>1, StageMove DEF WorkerComplete, Stage
  <2>3. CASE WorkerBlock(s)
    <3>1. Moves(sess[s], [sess[s] EXCEPT !.stage = "telling"])
      BY <2>1, <2>3 DEF WorkerBlock, Moves, Sessions
    <3> QED BY <2>1, <2>3, <3>1, StageMove DEF WorkerBlock, Stage
  <2>4. CASE WorkerBlockTells(s)
    <3>1. Moves(sess[s], [sess[s] EXCEPT !.stage = Interrupt("prefixid", "turn")])
      BY <2>1, <2>4 DEF WorkerBlockTells, Moves, Sessions, Interrupt
    <3> QED BY <2>1, <2>4, <3>1, StageMove DEF WorkerBlockTells, Stage
  <2>5. ASSUME NEW how \in {"completed", "failed"}, TurnEnds(s, how) PROVE Goal
    <3>1. Moves(sess[s], [sess[s] EXCEPT !.stage = "closing", !.end = how])
      BY <2>1, <2>5 DEF TurnEnds, Moves, Sessions
    <3>2. sess' = [sess EXCEPT ![s] = [sess[s] EXCEPT !.stage = "closing", !.end = how]]
      BY <2>5 DEF TurnEnds
    <3> QED BY <2>1, <3>1, <3>2, RowMove
  <2>6. CASE Close(s)
    <3>1. CASE sess' = [sess EXCEPT ![s].stage = "reporting", ![s].status = sess[s].end]
      <4>1. Moves(sess[s], [sess[s] EXCEPT !.stage = "reporting", !.status = sess[s].end])
        BY <2>1, <2>6 DEF Close, Moves, Sessions
      <4>2. sess' = [sess EXCEPT ![s] = [sess[s] EXCEPT !.stage = "reporting", !.status = sess[s].end]]
        BY <3>1
      <4> QED BY <2>1, <4>1, <4>2, RowMove
    <3>2. CASE Stage(s, "reporting")
      <4>1. Moves(sess[s], [sess[s] EXCEPT !.stage = "reporting"])
        BY <2>1, <2>6 DEF Close, Moves, Sessions
      <4> QED BY <2>1, <3>2, <4>1, StageMove DEF Stage
    <3> QED BY <2>6, <3>1, <3>2 DEF Close
  <2>7. CASE Report(s)
    <3>1. Moves(sess[s], [sess[s] EXCEPT !.stage = "rest"])
      BY <2>1, <2>7 DEF Report, Moves, Sessions
    <3> QED BY <2>1, <2>7, <3>1, StageMove DEF Report, Stage
  <2>8. CASE WorkerDies(s)
    <3> DEFINE l == IF sess[s].stage \in {"turn", "telling"} THEN "idle" ELSE "rest"
    <3>1. Moves(sess[s], [sess[s] EXCEPT !.stage = l])
      BY <2>1, <2>8 DEF WorkerDies, Moves, Sessions
    <3>2. sess' = [sess EXCEPT ![s].stage = l] BY <2>8 DEF WorkerDies, Stage
    <3> HIDE DEF l
    <3> QED BY <2>1, <3>1, <3>2, StageMove
  <2>9. CASE Sweep(s)
    <3>1. Moves(sess[s], [sess[s] EXCEPT !.stage = "turn"])
      BY <2>1, <2>9 DEF Sweep, Moves, Sessions
    <3> QED BY <2>1, <2>9, <3>1, StageMove DEF Sweep, Stage
  <2>10. CASE Pause(s)
    <3>1. Moves(sess[s], [sess[s] EXCEPT !.status = "paused", !.stage = "rest"])
      BY <2>1, <2>10 DEF Pause, Use, Moves, Sessions
    <3>2. sess' = [sess EXCEPT ![s] = [sess[s] EXCEPT !.status = "paused", !.stage = "rest"]]
      BY <2>10 DEF Pause
    <3> QED BY <2>1, <3>1, <3>2, RowMove
  <2>11. CASE Resume(s)
    <3>1. Moves(sess[s], [sess[s] EXCEPT !.status = "active", !.stage = "turn"])
      BY <2>1, <2>11 DEF Resume, Moves, Sessions
    <3>2. sess' = [sess EXCEPT ![s] = [sess[s] EXCEPT !.status = "active", !.stage = "turn"]]
      BY <2>11 DEF Resume
    <3> QED BY <2>1, <3>1, <3>2, RowMove
  <2> QED BY <1>8, <2>2, <2>3, <2>4, <2>5, <2>6, <2>7, <2>8, <2>9, <2>10, <2>11 DEF Work
<1>9. ASSUME NEW t \in Tasks, Cancel(t) PROVE Goal
  <2>1. ASSUME NEW s \in DOMAIN sess PROVE Moves(sess[s], [sess[s] EXCEPT !.stage = Interrupt("prefixid", @)])
    <3>1. sess[s] \in Sessions BY SessionOf
    <3> QED BY <3>1 DEF Moves, Sessions, Interrupt, Subscribed
  <2>2. \A s \in DOMAIN sess : Moves(sess[s], sess[s]) BY DEF Moves
  <2> QED BY <1>9, <2>1, <2>2 DEF Cancel, OldMove, NewAre
<1>10. CASE CascadePublish
  <2>1. ASSUME NEW s \in cascade.sids, sess' = [sess EXCEPT ![s].stage = Interrupt("prefix:id", @)]
        PROVE  Goal
    <3> DEFINE l == Interrupt("prefix:id", sess[s].stage)
    <3>1. s \in Nat BY DEF SeenOK
    <3>2. ASSUME s \in DOMAIN sess PROVE Moves(sess[s], [sess[s] EXCEPT !.stage = l])
      <4>1. sess[s] \in Sessions BY <3>2, SessionOf
      <4> QED BY <4>1 DEF Moves, Sessions, Interrupt
    <3>3. sess' = [sess EXCEPT ![s].stage = l] BY <2>1
    <3> HIDE DEF l
    <3> QED BY <3>1, <3>2, <3>3, StageMove
  <2> QED BY <1>10, <2>1, SameMove DEF CascadePublish
<1>11. ASSUME NEW t \in Tasks, Unblock(t) PROVE Goal
  BY <1>11, SameMove DEF Unblock
<1>12. CASE CascadeRead \/ CascadeUpdate
  BY <1>12, SameMove DEF CascadeRead, CascadeUpdate
<1> QED BY <1>1, <1>2, <1>3, <1>4, <1>5, <1>6, <1>7, <1>8, <1>9, <1>10, <1>11, <1>12
        DEF Next, Start, Faults, Coordinate

\* Neither a spawn nor its refusal has failed yet.
Sure == met \cap {"fails", "perms"} = {}

\* A process works on a session of its task, and a task names a session of its own; a
\* task exists once it was created; what undoes a claim follows a spawn that failed.
Linked == /\ \A p \in Procs : pc[p] \in {"wire", "enqueue"} => child[p] \in Attempts(job[p])
          /\ \A t \in Tasks : cur[t] /= 0 => cur[t] \in Attempts(t)
          /\ \A t \in Tasks : pc[t] = "none" <=> status[t] = "absent"
          /\ \A t \in begun : status[t] /= "absent"
          /\ \A p \in Tickers, t \in Tasks : seen[p][t] /= "none" => status[t] /= "absent"
          /\ \A p \in Procs : pc[p] \in {"block", "tell", "rollback", "handBack"} => ~Sure

\* While no session has been stopped, one that is not active has written its last event
\* and its status, and the call that created its task is over by then.
Ending == "pauses" \notin met => \A s \in DOMAIN sess :
   /\ sess[s].status /= "active"
        => sess[s].stage \in {"reporting", "rest"} /\ sess[s].status /= "paused"
   /\ sess[s].stage \in {"closing", "reporting", "rest"} => pc[sess[s].task] = "idle"

(* Inputs that have happened stay so. *)
LEMMA MetGrows ==
  ASSUME Next
  PROVE  met \subseteq met'
<1> USE DEF input, Use, Try
<1>1. ASSUME NEW p \in Tickers, Tick(p) PROVE met \subseteq met'
  BY <1>1 DEF Tick, Promote, FinalizeRead, FinalizeCommit, Notify, TickClaim, Claim, TickEnds,
              BlockClaim, TellBlocked, Rollback
<1>2. ASSUME NEW t \in Tasks, Call(t) PROVE met \subseteq met'
  BY <1>2 DEF Call, Insert, EagerClaim, Claim, EagerLost, HandBack
<1>3. ASSUME NEW p \in Procs, Start(p) \/ Faults(p) PROVE met \subseteq met'
  BY <1>3 DEF Start, Faults, Spawn, Wire, Enqueue, SpawnFails, Raises, Dies
<1>4. ASSUME NEW s \in DOMAIN sess, Work(s) PROVE met \subseteq met'
  BY <1>4 DEF Work, WorkerComplete, WorkerBlock, WorkerBlockTells, TurnEnds, Close, Report,
              WorkerDies, Sweep, Pause, Resume
<1>5. CASE Coordinate
  BY <1>5 DEF Coordinate, Unblock, Cancel, CascadeRead, CascadeUpdate, CascadePublish
<1> QED BY <1>1, <1>2, <1>3, <1>4, <1>5 DEF Next

(* A call that is over stays over. *)
LEMMA CallOver ==
  ASSUME Ordered, Next, NEW t \in Tasks, pc[t] = "idle"
  PROVE  pc'[t] = "idle"
<1> USE DEF Goto, Drop, Over, local, held, found
<1>1. t \in Procs /\ pc \in [Procs -> TickPCs \cup CallPCs] /\ \A p \in Tickers : p /= t /\ p \in Procs
  BY TickersAssumption DEF Ordered, TypeOK, ProcsOK, Procs
<1>2. ASSUME NEW p \in Tickers, Tick(p) PROVE pc'[t] = "idle"
  BY <1>1, <1>2 DEF Tick, Promote, FinalizeRead, FinalizeCommit, Notify, TickClaim, Claim, TickEnds,
                    BlockClaim, TellBlocked, Rollback
<1>3. ASSUME NEW u \in Tasks, Call(u) PROVE pc'[t] = "idle"
  BY <1>1, <1>3 DEF Call, Insert, EagerClaim, Claim, EagerLost, HandBack
<1>4. ASSUME NEW p \in Procs, Start(p) \/ Faults(p) PROVE pc'[t] = "idle"
  BY <1>1, <1>4 DEF Start, Faults, Spawn, Wire, Enqueue, SpawnFails, Raises, Dies
<1>5. ASSUME NEW s \in DOMAIN sess, Work(s) PROVE pc'[t] = "idle"
  BY <1>5 DEF Work, WorkerComplete, WorkerBlock, WorkerBlockTells, TurnEnds, Close, Report,
              WorkerDies, Sweep, Pause, Resume
<1>6. CASE Coordinate
  BY <1>6 DEF Coordinate, Unblock, Cancel, CascadeRead, CascadeUpdate, CascadePublish
<1> QED BY <1>2, <1>3, <1>4, <1>5, <1>6 DEF Next

(* Every step keeps the sessions' ends in order. *)
LEMMA EndStep ==
  ASSUME Ordered, Ending, Next
  PROVE  Ending'
<1> SUFFICES ASSUME "pauses" \notin met', NEW s \in DOMAIN sess'
             PROVE  /\ sess'[s].status /= "active"
                         => sess'[s].stage \in {"reporting", "rest"} /\ sess'[s].status /= "paused"
                    /\ sess'[s].stage \in {"closing", "reporting", "rest"} => pc'[sess'[s].task] = "idle"
  BY DEF Ending
<1>1. "pauses" \notin met BY MetGrows
<1>2. OldMove /\ NewAre BY SessGoes
<1>3. CASE s \in DOMAIN sess
  <2>1. sess[s] \in Sessions /\ sess[s].task \in Tasks BY <1>3, SessionOf DEF Ordered, TypeOK
  <2>2. Moves(sess[s], sess'[s]) BY <1>2, <1>3 DEF OldMove
  <2>3. /\ sess[s].status /= "active" => sess[s].stage \in {"reporting", "rest"} /\ sess[s].status /= "paused"
        /\ sess[s].stage \in {"closing", "reporting", "rest"} => pc[sess[s].task] = "idle"
    BY <1>1, <1>3 DEF Ending
  <2>4. pc[sess[s].task] = "idle" => pc'[sess[s].task] = "idle" BY <2>1, CallOver
  <2>5. sess[s].status \in {"active", "completed", "failed", "paused"} BY <2>1 DEF Sessions
  <2> QED BY <2>2, <2>3, <2>4, <2>5 DEF Moves
<1>4. CASE s \notin DOMAIN sess
  <2>1. PICK p \in Procs : sess'[s] = NewSession(job[p]) BY <1>2, <1>4 DEF NewAre
  <2> QED BY <2>1 DEF NewSession
<1> QED BY <1>3, <1>4

(* A session keeps its task. *)
LEMMA AttemptsGrow ==
  ASSUME Ordered, Next
  PROVE  \A s \in DOMAIN sess : s \in DOMAIN sess' /\ sess'[s].task = sess[s].task
BY SessGoes DEF OldMove, Moves

(* Every step keeps the links, if the ones to the sessions are kept. *)
LEMMA LinkFrame ==
  ASSUME Ordered, Linked, Next,
         \A p \in Procs : pc'[p] \in {"wire", "enqueue"} =>
            /\ job'[p] \in Tasks
            /\ \/ pc[p] \in {"wire", "enqueue"} /\ job'[p] = job[p] /\ child'[p] = child[p]
               \/ child'[p] \in DOMAIN sess' /\ sess'[child'[p]].task = job'[p],
         \A t \in Tasks : cur'[t] = cur[t] \/ (cur'[t] \in DOMAIN sess' /\ sess'[cur'[t]].task = t),
         \A t \in Tasks : pc'[t] = "none" <=> status'[t] = "absent",
         \A t \in Tasks : status[t] /= "absent" => status'[t] /= "absent",
         \A t \in begun' : t \in begun \/ status[t] /= "absent",
         \A p \in Tickers, t \in Tasks : seen'[p][t] /= "none" => seen[p][t] /= "none" \/ status[t] /= "absent",
         \A p \in Procs : pc'[p] \in {"block", "tell", "rollback", "handBack"}
            => pc[p] \in {"block", "tell", "rollback", "handBack"} \/ ~Sure'
  PROVE  Linked'
<1> USE DEF Ordered, TypeOK, PastOK
<1>1. ASSUME NEW p \in Procs, pc'[p] \in {"wire", "enqueue"} PROVE child'[p] \in DOMAIN sess' /\ sess'[child'[p]].task = job'[p]
  BY <1>1, AttemptsGrow DEF Linked, Attempts
<1>2. ASSUME NEW t \in Tasks, cur'[t] /= 0 PROVE cur'[t] \in DOMAIN sess' /\ sess'[cur'[t]].task = t
  BY <1>2, AttemptsGrow DEF Linked, Attempts
<1>4. TypeOK' BY TypeStep
<1>5. \A t \in begun' : t \in Tasks /\ status'[t] /= "absent"
  BY <1>4 DEF Linked
<1>6. \A p \in Tickers, t \in Tasks : seen'[p][t] /= "none" => status'[t] /= "absent"
  BY DEF Linked
<1>7. ~Sure => ~Sure' BY MetGrows DEF Sure
<1>8. \A p \in Procs : pc'[p] \in {"block", "tell", "rollback", "handBack"} => ~Sure'
  BY <1>7 DEF Linked
<1> QED BY <1>1, <1>2, <1>5, <1>6, <1>8 DEF Linked, Attempts

(* Every step that leaves the board's links alone keeps them. *)
LEMMA LinkSame ==
  ASSUME Ordered, Linked, Next, UNCHANGED <<status, pc, job, child, cur, seen, begun>>
  PROVE  Linked'
<1>1. \A p \in Procs : pc[p] \in {"wire", "enqueue"} => job[p] \in Tasks
  BY DEF Ordered, Held, Working, TypeOK, PastOK
<1> QED BY <1>1, LinkFrame DEF Linked

(* A process that lets go of its task. *)
LEMMA LinkDropped ==
  ASSUME Ordered, Linked, Next, NEW p \in Procs, NEW l \in {"idle", "claim"}, Drop(p, l),
         pc[p] /= "none", UNCHANGED <<cur, begun>>,
         \A t \in Tasks : status[t] /= "absent" <=> status'[t] /= "absent",
         \A q \in Tickers, t \in Tasks : seen'[q][t] /= "none" => seen[q][t] /= "none"
  PROVE  Linked'
<1> USE DEF Ordered, TypeOK, ProcsOK
<1>1. pc' = [pc EXCEPT ![p] = l] /\ \A q \in Procs : q /= p => job'[q] = job[q] /\ child'[q] = child[q]
  BY DEF Drop, Goto
<1>2. \A q \in Procs : pc[q] \in {"wire", "enqueue"} => job[q] \in Tasks
  BY DEF Held, Working, PastOK
<1>3. \A q \in Procs : pc'[q] \in {"wire", "enqueue", "block", "tell", "rollback", "handBack"} => q /= p /\ pc[q] = pc'[q]
  BY <1>1
<1>4. \A t \in Tasks : pc'[t] = "none" <=> pc[t] = "none"
  BY <1>1 DEF Procs
<1>5. \A t \in Tasks : pc'[t] = "none" <=> status'[t] = "absent"
  BY <1>4 DEF Linked
<1>6. \A q \in Procs : pc'[q] \in {"wire", "enqueue"} =>
            /\ job'[q] \in Tasks
            /\ pc[q] \in {"wire", "enqueue"} /\ job'[q] = job[q] /\ child'[q] = child[q]
  BY <1>1, <1>2, <1>3
<1> QED BY <1>3, <1>5, <1>6, LinkFrame

(* A process that goes on with its task. *)
LEMMA LinkGoes ==
  ASSUME Ordered, Linked, Next, NEW p \in Procs, NEW l, Goto(p, l), pc[p] /= "none", l /= "none",
         l \notin {"wire", "enqueue"}, UNCHANGED <<cur, child>>,
         \A q \in Procs : q /= p => job'[q] = job[q],
         l \in {"block", "tell", "rollback", "handBack"} => ~Sure',
         \A t \in Tasks : status[t] /= "absent" <=> status'[t] /= "absent",
         \A t \in begun' : t \in begun \/ status[t] /= "absent",
         \A q \in Tickers, t \in Tasks : seen'[q][t] /= "none" => seen[q][t] /= "none" \/ status[t] /= "absent"
  PROVE  Linked'
<1> USE DEF Ordered, TypeOK, ProcsOK
<1>1. pc' = [pc EXCEPT ![p] = l] /\ \A q \in Procs : child'[q] = child[q]
  BY DEF Goto
<1>2. \A q \in Procs : pc[q] \in {"wire", "enqueue"} => job[q] \in Tasks
  BY DEF Held, Working, PastOK
<1>3. \A q \in Procs : pc'[q] \in {"wire", "enqueue"} => q /= p /\ pc[q] = pc'[q]
  BY <1>1
<1>4. \A t \in Tasks : pc'[t] = "none" <=> pc[t] = "none"
  BY <1>1 DEF Procs
<1>5. \A t \in Tasks : pc'[t] = "none" <=> status'[t] = "absent"
  BY <1>4 DEF Linked
<1>6. \A q \in Procs : pc'[q] \in {"wire", "enqueue"} =>
            /\ job'[q] \in Tasks
            /\ pc[q] \in {"wire", "enqueue"} /\ job'[q] = job[q] /\ child'[q] = child[q]
  BY <1>1, <1>2, <1>3
<1>7. \A q \in Procs : pc'[q] \in {"block", "tell", "rollback", "handBack"}
            => pc[q] \in {"block", "tell", "rollback", "handBack"} \/ ~Sure'
  BY <1>1
<1> QED BY <1>5, <1>6, <1>7, LinkFrame

(* Every step keeps the links. *)
LEMMA LinkStep ==
  ASSUME Ordered, Linked, Next
  PROVE  Linked'
<1> USE DEF board, held, found, local, history, input
<1>0. /\ status \in [Tasks -> Statuses] /\ pc \in [Procs -> TickPCs \cup CallPCs]
      /\ seen \in [Tickers -> [Tasks -> Verdicts]] /\ Tickers \subseteq Procs /\ Tasks \subseteq Procs
      /\ job \in [Procs -> Tasks \cup {NoTask}] /\ child \in [Procs -> Nat] /\ cur \in [Tasks -> Nat]
  BY DEF Ordered, TypeOK, BoardOK, ProcsOK, FoundOK, Procs
<1>00. \A p \in Procs : pc[p] \in Working => job[p] \in Tasks /\ status[job[p]] /= "absent"
  BY DEF Ordered, Held, TypeOK, PastOK, Linked
<1>1. ASSUME NEW p \in Tickers, Promote(p) PROVE Linked'
  <2>1. \A t \in Tasks : status[t] /= "absent" <=> status'[t] /= "absent"
    BY <1>0, <1>1 DEF Promote
  <2> QED BY <1>0, <1>1, <2>1, LinkGoes DEF Promote
<1>2. ASSUME NEW p \in Tickers, FinalizeRead(p) PROVE Linked'
  <2>1. \A q \in Tickers, t \in Tasks : seen'[q][t] /= "none" => seen[q][t] /= "none" \/ status[t] /= "absent"
    BY <1>0, <1>2 DEF FinalizeRead, Verdict
  <2>2. PICK l \in {"claim", "commit"} : Goto(p, l) BY <1>2 DEF FinalizeRead
  <2> QED BY <1>0, <1>2, <2>1, <2>2, LinkGoes DEF FinalizeRead
<1>3. ASSUME NEW p \in Tickers, FinalizeCommit(p) PROVE Linked'
  <2>1. \A t \in Tasks : status[t] /= "absent" <=> status'[t] /= "absent"
    BY <1>0, <1>3 DEF FinalizeCommit, Linked, Verdicts
  <2>2. \A q \in Tickers, t \in Tasks : seen'[q][t] /= "none" => seen[q][t] /= "none"
    BY <1>0, <1>3 DEF FinalizeCommit
  <2> QED BY <1>0, <1>3, <2>1, <2>2, LinkGoes DEF FinalizeCommit
<1>4. ASSUME NEW p \in Tickers, Notify(p) PROVE Linked'
  <2>1. \A q \in Tickers, t \in Tasks : seen'[q][t] /= "none" => seen[q][t] /= "none"
    BY <1>0, <1>4 DEF Notify
  <2>2. CASE UNCHANGED pc
    <3>1. \A q \in Procs : pc[q] \in {"wire", "enqueue"} => job[q] \in Tasks
      BY <1>00 DEF Working
    <3> QED BY <1>4, <2>1, <2>2, <3>1, LinkFrame DEF Notify, Linked
  <2>3. CASE Goto(p, "claim")
    BY <1>0, <1>4, <2>1, <2>3, LinkGoes DEF Notify
  <2> QED BY <1>4, <2>2, <2>3 DEF Notify
<1>5. ASSUME NEW p \in Procs, NEW t \in Tasks, Claim(p, t), pc[p] /= "none" PROVE Linked'
  <2>1. \A u \in Tasks : status[u] /= "absent" <=> status'[u] /= "absent"
    BY <1>0, <1>5 DEF Claim
  <2>2. \A u \in begun' : u \in begun \/ status[u] /= "absent"
    BY <1>5 DEF Claim
  <2>3. \A q \in Procs : q /= p => job'[q] = job[q]
    BY <1>0, <1>5 DEF Claim
  <2> QED BY <1>5, <2>1, <2>2, <2>3, LinkGoes DEF Claim
<1>6. ASSUME NEW p \in Tickers, TickClaim(p) \/ TickEnds(p) PROVE Linked'
  <2>1. CASE TickClaim(p) BY <1>0, <1>5, <2>1 DEF TickClaim
  <2>2. CASE TickEnds(p)
    <3>1. \A q \in Tickers, t \in Tasks : seen'[q][t] /= "none" => seen[q][t] /= "none"
      BY <1>0, <2>2 DEF TickEnds, Over, NoVerdict
    <3> QED BY <1>0, <2>2, <3>1, LinkDropped DEF TickEnds, Over
  <2> QED BY <1>6, <2>1, <2>2
<1>7. ASSUME NEW p \in Tickers, BlockClaim(p) PROVE Linked'
  <2>1. \A t \in Tasks : status[t] /= "absent" <=> status'[t] /= "absent"
    BY <1>0, <1>00, <1>7 DEF BlockClaim, Working
  <2>2. ~Sure' BY <1>0, <1>7, MetGrows DEF BlockClaim, Linked, Sure
  <2>3. CASE Goto(p, "tell") /\ UNCHANGED held
    BY <1>0, <1>7, <2>1, <2>2, <2>3, LinkGoes DEF BlockClaim
  <2>4. CASE Drop(p, "claim")
    BY <1>0, <1>7, <2>1, <2>4, LinkDropped DEF BlockClaim
  <2> QED BY <1>7, <2>3, <2>4 DEF BlockClaim
<1>8. ASSUME NEW p \in Tickers, TellBlocked(p) PROVE Linked'
  BY <1>0, <1>8, LinkDropped DEF TellBlocked
<1>9. ASSUME NEW p \in Tickers, Rollback(p) PROVE Linked'
  <2>1. \A t \in Tasks : status[t] /= "absent" <=> status'[t] /= "absent"
    BY <1>0, <1>00, <1>9 DEF Rollback, Try, Working
  <2> QED BY <1>0, <1>9, <2>1, LinkDropped DEF Rollback
<1>10. ASSUME NEW t \in Tasks, Insert(t) PROVE Linked'
  <2>1. \A u \in Tasks : pc'[u] = "none" <=> status'[u] = "absent"
    BY <1>0, <1>10 DEF Insert, Goto, Linked
  <2>2. \A u \in Tasks : status[u] /= "absent" => status'[u] /= "absent"
    BY <1>0, <1>10 DEF Insert
  <2>3. \A q \in Procs : pc'[q] \in {"wire", "enqueue"} =>
            job'[q] \in Tasks /\ pc[q] \in {"wire", "enqueue"} /\ job'[q] = job[q] /\ child'[q] = child[q]
    BY <1>0, <1>00, <1>10 DEF Insert, Goto, Working
  <2>4. \A q \in Procs : pc'[q] \in {"block", "tell", "rollback", "handBack"}
            => pc[q] \in {"block", "tell", "rollback", "handBack"}
    BY <1>0, <1>10 DEF Insert, Goto
  <2> QED BY <1>10, <2>1, <2>2, <2>3, <2>4, LinkFrame DEF Insert
<1>11. ASSUME NEW t \in Tasks, EagerClaim(t) \/ EagerLost(t) PROVE Linked'
  <2>1. CASE EagerClaim(t) BY <1>0, <1>5, <2>1 DEF EagerClaim
  <2>2. CASE EagerLost(t) BY <1>0, <2>2, LinkGoes DEF EagerLost
  <2> QED BY <1>11, <2>1, <2>2
<1>12. ASSUME NEW t \in Tasks, HandBack(t) PROVE Linked'
  <2>1. status[t] /= "absent" BY <1>0, <1>12 DEF HandBack, Linked
  <2>2. \A u \in Tasks : status[u] /= "absent" <=> status'[u] /= "absent"
    BY <1>0, <1>12, <2>1 DEF HandBack, Try
  <2> QED BY <1>0, <1>12, <2>2, LinkDropped DEF HandBack, Over
<1>13. ASSUME NEW p \in Procs, Spawn(p) PROVE Linked'
  <2>1. \A q \in Procs : q /= p => pc'[q] = pc[q] /\ child'[q] = child[q]
    BY <1>0, <1>13 DEF Spawn, Goto
  <2>2. sess \in Seq(Sessions) /\ sess' = Append(sess, NewSession(job[p])) /\ pc'[p] = "wire"
    BY <1>0, <1>13 DEF Spawn, Goto, Ordered, TypeOK
  <2>3. child'[p] = Len(sess) + 1 BY <1>0, <1>13 DEF Spawn
  <2>4. child'[p] \in DOMAIN sess' /\ sess'[child'[p]].task = job[p] BY <2>2, <2>3 DEF NewSession
  <2>5. job' = job /\ job[p] \in Tasks BY <1>00, <1>13 DEF Spawn, Working
  <2>6. \A q \in Procs : pc'[q] \in {"wire", "enqueue"} =>
            /\ job'[q] \in Tasks
            /\ \/ pc[q] \in {"wire", "enqueue"} /\ job'[q] = job[q] /\ child'[q] = child[q]
               \/ child'[q] \in DOMAIN sess' /\ sess'[child'[q]].task = job'[q]
    BY <1>00, <2>1, <2>4, <2>5 DEF Working
  <2>7. \A t \in Tasks : pc'[t] = "none" <=> status'[t] = "absent"
    BY <1>0, <1>13, <2>1, <2>2 DEF Spawn, Linked
  <2>8. \A q \in Procs : pc'[q] \in {"block", "tell", "rollback", "handBack"}
            => pc[q] \in {"block", "tell", "rollback", "handBack"}
    BY <2>1, <2>2
  <2> QED BY <1>13, <2>6, <2>7, <2>8, LinkFrame DEF Spawn
<1>14. ASSUME NEW p \in Procs, Wire(p) PROVE Linked'
  <2>1. \A q \in Procs : q /= p => pc'[q] = pc[q] BY <1>0, <1>14 DEF Wire, Goto
  <2>2. pc'[p] = "enqueue" BY <1>0, <1>14 DEF Wire, Goto
  <2>3. job[p] \in Tasks /\ child[p] \in DOMAIN sess /\ sess[child[p]].task = job[p]
    BY <1>00, <1>14 DEF Wire, Working, Linked, Attempts
  <2>4. \A t \in Tasks : cur'[t] = cur[t] \/ (t = job[p] /\ cur'[t] = child[p])
    BY <1>0, <1>14 DEF Wire, Try
  <2>5. \A t \in Tasks : cur'[t] = cur[t] \/ (cur'[t] \in DOMAIN sess' /\ sess'[cur'[t]].task = t)
    BY <1>14, <2>3, <2>4 DEF Wire
  <2>6. \A q \in Procs : pc'[q] \in {"wire", "enqueue"} =>
            job'[q] \in Tasks /\ pc[q] \in {"wire", "enqueue"} /\ job'[q] = job[q] /\ child'[q] = child[q]
    BY <1>00, <1>14, <2>1 DEF Wire, Working
  <2>7. \A t \in Tasks : pc'[t] = "none" <=> status'[t] = "absent"
    BY <1>0, <1>14, <2>1, <2>2 DEF Wire, Linked
  <2>8. \A q \in Procs : pc'[q] \in {"block", "tell", "rollback", "handBack"}
            => pc[q] \in {"block", "tell", "rollback", "handBack"}
    BY <2>1, <2>2
  <2> QED BY <1>14, <2>5, <2>6, <2>7, <2>8, LinkFrame DEF Wire
<1>15. ASSUME NEW p \in Procs, Enqueue(p) PROVE Linked'
  <2>1. PICK l \in {"idle", "claim"} : Drop(p, l) BY <1>15 DEF Enqueue
  <2> QED BY <1>15, <2>1, LinkDropped DEF Enqueue
<1>16. ASSUME NEW p \in Procs, SpawnFails(p) PROVE Linked'
  <2>1. ~Sure' BY <1>16 DEF SpawnFails, Use, Sure
  <2>2. PICK l \in {"handBack", "block", "rollback"} : Goto(p, l) BY <1>16 DEF SpawnFails
  <2> QED BY <1>16, <2>1, <2>2, LinkGoes DEF SpawnFails
<1>17. ASSUME NEW p \in Procs, Raises(p) \/ Dies(p) PROVE Linked'
  <2>1. \A q \in Tickers, t \in Tasks : seen'[q][t] /= "none" => seen[q][t] /= "none"
    BY <1>0, <1>17 DEF Raises, Dies, Over, NoVerdict
  <2> QED BY <1>17, <2>1, LinkDropped DEF Raises, Dies, Over
<1>18. ASSUME NEW s \in DOMAIN sess, WorkerComplete(s) \/ WorkerBlock(s) PROVE Linked'
  <2>1. sess[s].task \in Tasks BY SessionOf DEF Ordered, TypeOK
  <2>2. \A t \in Tasks : status[t] /= "absent" <=> status'[t] /= "absent"
    BY <1>0, <1>18, <2>1 DEF WorkerComplete, WorkerBlock, Current
  <2>3. \A q \in Procs : pc[q] \in {"wire", "enqueue"} => job[q] \in Tasks
    BY <1>00 DEF Working
  <2> QED BY <1>18, <2>2, <2>3, LinkFrame DEF WorkerComplete, WorkerBlock, Linked
<1>19. ASSUME NEW s \in DOMAIN sess, Work(s), ~WorkerComplete(s), ~WorkerBlock(s) PROVE Linked'
  BY <1>19, LinkSame DEF Work, WorkerBlockTells, TurnEnds, Close, Report, WorkerDies, Sweep, Pause, Resume
<1>20. CASE Coordinate
  <2>1. CASE CascadeRead \/ CascadePublish
    BY <2>1, LinkSame DEF CascadeRead, CascadePublish
  <2>2. CASE CascadeUpdate \/ \E t \in Tasks : Unblock(t) \/ Cancel(t)
    <3>1. \A t \in Tasks : status[t] /= "absent" <=> status'[t] /= "absent"
      BY <1>0, <2>2 DEF CascadeUpdate, Unblock, Cancel, Linked
    <3>2. UNCHANGED <<pc, job, child, cur, seen, begun>>
      BY <2>2 DEF CascadeUpdate, Unblock, Cancel
    <3>3. \A q \in Procs : pc[q] \in {"wire", "enqueue"} => job[q] \in Tasks
      BY <1>00 DEF Working
    <3> QED BY <3>1, <3>2, <3>3, LinkFrame DEF Linked
  <2> QED BY <1>20, <2>1, <2>2 DEF Coordinate
<1> QED BY <1>1, <1>2, <1>3, <1>4, <1>6, <1>7, <1>8, <1>9, <1>10, <1>11, <1>12, <1>13, <1>14, <1>15, <1>16, <1>17, <1>18, <1>19, <1>20
        DEF Next, Tick, Call, Start, Faults, Work

(* ------------------------- attempts and crashes ------------------------ *)

\* The tasks that no two ticks have judged at once.
Clear == Tasks \ crossed

\* The processes that have claimed a task and may still give the claim back.
Undo == {"spawn", "block", "rollback", "handBack"}

\* Neither a worker's block nor a stopped worker has happened yet.
Quiet == met \cap {"blocks", "pauses"} = {}

\* The tick has judged an attempt of t as crashed, and not written it yet.
Judges(p, t) == pc[p] = "commit" /\ seen[p][t] \in {"ready", "failed"}
Pend(t) == \E p \in Tickers : Judges(p, t)
Holds(p, t) == pc[p] \in Undo /\ job[p] = t

\* t's last claim is yet to be settled, as done, as crashed or as given back.
Open(t) == status[t] = "running" \/ Pend(t) \/ (Quiet /\ \E p \in Procs : Holds(p, t))

\* One tick judges t, and none has claimed it.
Apart(t) == /\ \A q \in Tickers : pc[q] \in Starting => job[q] /= t
            /\ \A p, q \in Tickers : Judges(p, t) /\ Judges(q, t) => p = q

\* What the tick has judged stays so until it writes it.
Judged == \A t \in Clear : Pend(t) =>
   /\ Apart(t)
   /\ status[t] \in {"running", "cancelled", "done"}
   /\ (\E p \in Tickers : pc[p] = "commit" /\ seen[p][t] = "ready") => attempts[t] < MaxAttempts
   /\ "pauses" \notin met => pc[t] = "idle" /\ cur[t] /= 0 /\ sess[cur[t]].status /= "active"

\* Who may still give a claim back is alone with it, and knows its count.
Holding == Quiet => \A p \in Procs : pc[p] \in Undo /\ job[p] \in Clear =>
   /\ status[job[p]] \in {"running", "cancelled", "done"}
   /\ attempts[job[p]] = snap[p]
   /\ pc[p] = "rollback" => snap[p] < MaxAttempts
   /\ ~Pend(job[p])
   /\ \A q \in Procs : Holds(q, job[p]) => q = p

\* A crash, and a claim yet to be settled, has its attempt.
Counted == \A t \in Clear :
   /\ crashed[t] <= attempts[t] /\ (Open(t) => crashed[t] < attempts[t])
   /\ attempts[t] <= MaxAttempts
   /\ status[t] \in {"absent", "todo", "ready", "blocked"} => attempts[t] < MaxAttempts

Tallied == ~Muddled => Judged /\ Holding /\ Counted

Fine == Ordered /\ Linked /\ Ending

\* A step that neither claims, nor judges, nor settles a claim.
Plain ==
  /\ UNCHANGED <<attempts, crashed>>
  /\ \A p \in Procs : pc'[p] \in Undo =>
       /\ pc[p] \in Undo /\ job'[p] = job[p] /\ snap'[p] = snap[p]
       /\ pc'[p] = "rollback" => pc[p] = "rollback" \/ snap[p] < MaxAttempts
  /\ \A p \in Tickers : pc'[p] = "commit" => pc[p] = "commit" /\ seen'[p] = seen[p]
  /\ \A p \in Tickers : pc'[p] \in Starting => pc[p] \in Starting /\ job'[p] = job[p]
  /\ \A t \in Tasks : \/ status'[t] = status[t] \/ status'[t] \in {"cancelled", "done"}
                      \/ status'[t] \in {"ready", "todo"} /\ status[t] \in {"absent", "todo", "blocked"}

(* Two ticks that crossed stay so. *)
LEMMA ClearShrinks ==
  ASSUME Next
  PROVE  \A t \in Clear' : t \in Clear /\ t \in Tasks
<1> USE DEF history, Try
<1>1. ASSUME NEW p \in Tickers, Tick(p) PROVE crossed \subseteq crossed'
  BY <1>1 DEF Tick, Promote, FinalizeRead, FinalizeCommit, Notify, TickClaim, Claim, TickEnds,
              BlockClaim, TellBlocked, Rollback
<1>2. ASSUME NEW t \in Tasks, Call(t) PROVE crossed \subseteq crossed'
  BY <1>2 DEF Call, Insert, EagerClaim, Claim, EagerLost, HandBack
<1>3. ASSUME NEW p \in Procs, Start(p) \/ Faults(p) PROVE crossed \subseteq crossed'
  BY <1>3 DEF Start, Faults, Spawn, Wire, Enqueue, SpawnFails, Raises, Dies
<1>4. ASSUME NEW s \in DOMAIN sess, Work(s) PROVE crossed \subseteq crossed'
  BY <1>4 DEF Work, WorkerComplete, WorkerBlock, WorkerBlockTells, TurnEnds, Close, Report,
              WorkerDies, Sweep, Pause, Resume
<1>5. ASSUME NEW t \in Tasks, Unblock(t) \/ Cancel(t) PROVE crossed \subseteq crossed'
  BY <1>5 DEF Unblock, Cancel
<1>6. ASSUME CascadeRead \/ CascadeUpdate \/ CascadePublish PROVE crossed \subseteq crossed'
  BY <1>6 DEF CascadeRead, CascadeUpdate, CascadePublish
<1>7. crossed \subseteq crossed' BY <1>1, <1>2, <1>3, <1>4, <1>5, <1>6 DEF Next, Coordinate
<1> QED BY <1>7 DEF Clear

(* A step that claims nothing of t's and judges nothing keeps the ticks apart. *)
LEMMA ApartKept ==
  ASSUME NEW t \in Tasks, Apart(t),
         \A p \in Tickers : pc'[p] = "commit" => pc[p] = "commit" /\ seen'[p] = seen[p],
         \A p \in Tickers : pc'[p] \in Starting /\ job'[p] = t => pc[p] \in Starting /\ job[p] = t
  PROVE  Apart(t)'
BY DEF Apart, Judges

(* What no step makes worse. *)
LEMMA MuddledStays ==
  ASSUME Next, ~Muddled'
  PROVE  ~Muddled /\ (Quiet' => Quiet) /\ ("pauses" \notin met' => "pauses" \notin met)
BY MetGrows DEF Muddled, Quiet

(* Only the wiring of a session changes which one a task names. *)
LEMMA CurGoes ==
  ASSUME Ordered, Next
  PROVE  \/ UNCHANGED cur
         \/ \E p \in Procs : pc[p] = "wire" /\ cur' = [cur EXCEPT ![job[p]] = child[p]]
<1> DEFINE Goal == \/ UNCHANGED cur
                   \/ \E p \in Procs : pc[p] = "wire" /\ cur' = [cur EXCEPT ![job[p]] = child[p]]
<1> USE DEF board
<1>1. ASSUME NEW p \in Tickers, Tick(p) PROVE Goal
  BY <1>1 DEF Tick, Promote, FinalizeRead, FinalizeCommit, Notify, TickClaim, Claim, TickEnds,
              BlockClaim, TellBlocked, Rollback
<1>2. ASSUME NEW t \in Tasks, Call(t) PROVE Goal
  BY <1>2 DEF Call, Insert, EagerClaim, Claim, EagerLost, HandBack
<1>3. ASSUME NEW p \in Procs, Start(p) \/ Faults(p) PROVE Goal
  BY <1>3 DEF Start, Faults, Spawn, Wire, Try, Enqueue, SpawnFails, Raises, Dies
<1>4. ASSUME NEW s \in DOMAIN sess, Work(s) PROVE Goal
  BY <1>4 DEF Work, WorkerComplete, WorkerBlock, WorkerBlockTells, TurnEnds, Close, Report,
              WorkerDies, Sweep, Pause, Resume
<1>5. CASE Coordinate
  BY <1>5 DEF Coordinate, Unblock, Cancel, CascadeRead, CascadeUpdate, CascadePublish
<1> QED BY <1>1, <1>2, <1>3, <1>4, <1>5 DEF Next

(* While an attempt is judged, its session stays ended and the task keeps it. *)
LEMMA PendKept ==
  ASSUME Fine, Next, NEW t \in Tasks, Pend(t), Apart(t), "pauses" \notin met',
         pc[t] = "idle" /\ cur[t] /= 0 /\ sess[cur[t]].status /= "active"
  PROVE  pc'[t] = "idle" /\ cur'[t] = cur[t] /\ sess'[cur[t]].status /= "active"
<1>1. "pauses" \notin met BY MetGrows
<1>2. pc'[t] = "idle" BY CallOver DEF Fine
<1>3. cur'[t] = cur[t]
  <2>1. ASSUME NEW p \in Procs, pc[p] = "wire", job[p] = t PROVE FALSE
    BY <2>1 DEF Apart, Starting, Procs, Fine, Ordered, Held
  <2> QED BY <2>1, CurGoes DEF Fine, Ordered, TypeOK, BoardOK
<1>4. cur[t] \in DOMAIN sess BY DEF Fine, Linked, Attempts
<1>5. Moves(sess[cur[t]], sess'[cur[t]]) BY <1>4, SessGoes DEF OldMove, Fine
<1>6. sess[cur[t]].stage \in {"reporting", "rest"} /\ sess[cur[t]].status /= "paused"
  BY <1>1, <1>4 DEF Fine, Ending
<1>7. sess'[cur[t]].status /= "active" BY <1>5, <1>6 DEF Moves
<1> QED BY <1>2, <1>3, <1>7

(* A plain step keeps the tally. *)
LEMMA PlainTally ==
  ASSUME Fine, Next, Tallied, Plain
  PROVE  Tallied'
<1> SUFFICES ASSUME ~Muddled' PROVE Judged' /\ Holding' /\ Counted'
  BY DEF Tallied
<1>1. /\ Judged /\ Holding /\ Counted /\ (Quiet' => Quiet)
      /\ "pauses" \notin met' => "pauses" \notin met
      /\ \A u \in Clear' : u \in Clear /\ u \in Tasks
  BY MuddledStays, ClearShrinks DEF Tallied
<1>2. /\ status \in [Tasks -> Statuses] /\ pc \in [Procs -> TickPCs \cup CallPCs]
      /\ \A p \in Procs : pc[p] \in Undo => job[p] \in Tasks
  BY DEF Fine, Ordered, TypeOK, BoardOK, ProcsOK, Held, Undo, Working, PastOK
<1>3. \A t \in Tasks : Pend(t)' => Pend(t)
  BY DEF Plain, Pend, Judges
<1>4. \A p \in Tickers, t \in Tasks : pc'[p] = "commit" /\ seen'[p][t] = "ready" => pc[p] = "commit" /\ seen[p][t] = "ready"
  BY DEF Plain
<1>5. \A p \in Procs, t \in Tasks : Holds(p, t)' => Holds(p, t)
  BY DEF Plain, Holds
<1>6. \A t \in Tasks : status[t] \in {"running", "cancelled", "done"} => status'[t] \in {"running", "cancelled", "done"}
  BY DEF Plain
<1>7. Judged'
  <2> SUFFICES ASSUME NEW t \in Clear', Pend(t)'
               PROVE  /\ Apart(t)'
                      /\ status'[t] \in {"running", "cancelled", "done"}
                      /\ (\E p \in Tickers : pc'[p] = "commit" /\ seen'[p][t] = "ready") => attempts'[t] < MaxAttempts
                      /\ "pauses" \notin met' => pc'[t] = "idle" /\ cur'[t] /= 0 /\ sess'[cur'[t]].status /= "active"
    BY DEF Judged
  <2>1. Pend(t) /\ t \in Clear /\ t \in Tasks BY <1>1, <1>3
  <2>2. /\ Apart(t)
        /\ status[t] \in {"running", "cancelled", "done"}
        /\ (\E p \in Tickers : pc[p] = "commit" /\ seen[p][t] = "ready") => attempts[t] < MaxAttempts
        /\ "pauses" \notin met => pc[t] = "idle" /\ cur[t] /= 0 /\ sess[cur[t]].status /= "active"
    BY <1>1, <2>1 DEF Judged
  <2>3. status'[t] \in {"running", "cancelled", "done"} BY <1>6, <2>1, <2>2
  <2>4. (\E p \in Tickers : pc'[p] = "commit" /\ seen'[p][t] = "ready") => attempts'[t] < MaxAttempts
    BY <1>4, <2>2 DEF Plain
  <2>5. ASSUME "pauses" \notin met' PROVE pc'[t] = "idle" /\ cur'[t] /= 0 /\ sess'[cur'[t]].status /= "active"
    BY <1>1, <2>1, <2>2, <2>5, PendKept
  <2>6. Apart(t)' BY <2>1, <2>2, ApartKept DEF Plain
  <2> QED BY <2>3, <2>4, <2>5, <2>6
<1>8. Holding'
  <2> SUFFICES ASSUME Quiet', NEW p \in Procs, pc'[p] \in Undo, job'[p] \in Clear'
               PROVE  /\ status'[job'[p]] \in {"running", "cancelled", "done"}
                      /\ attempts'[job'[p]] = snap'[p]
                      /\ pc'[p] = "rollback" => snap'[p] < MaxAttempts
                      /\ ~(\E q \in Tickers : pc'[q] = "commit" /\ seen'[q][job'[p]] \in {"ready", "failed"})
                      /\ \A q \in Procs : pc'[q] \in Undo /\ job'[q] = job'[p] => q = p
    BY DEF Holding, Pend, Judges, Holds
  <2>1. pc[p] \in Undo /\ job'[p] = job[p] /\ snap'[p] = snap[p] /\ job[p] \in Tasks /\ job[p] \in Clear
    BY <1>1, <1>2 DEF Plain
  <2>2. /\ status[job[p]] \in {"running", "cancelled", "done"}
        /\ attempts[job[p]] = snap[p]
        /\ pc[p] = "rollback" => snap[p] < MaxAttempts
        /\ ~Pend(job[p])
        /\ \A q \in Procs : Holds(q, job[p]) => q = p
    BY <1>1, <2>1 DEF Holding
  <2>3. pc'[p] = "rollback" => snap'[p] < MaxAttempts BY <2>1, <2>2 DEF Plain
  <2>4. \A q \in Procs : pc'[q] \in Undo /\ job'[q] = job'[p] => q = p
    BY <2>1, <2>2 DEF Plain, Holds
  <2>5. ~Pend(job[p])' BY <1>3, <2>1, <2>2
  <2> QED BY <1>6, <2>1, <2>2, <2>3, <2>4, <2>5 DEF Plain, Pend, Judges
<1>9. Counted'
  <2>1. \A t \in Tasks : status'[t] = "running" => status[t] = "running" BY DEF Plain
  <2>2. \A t \in Tasks : Open(t)' => Open(t)
    BY <1>1, <1>3, <1>5, <2>1 DEF Open
  <2>3. \A t \in Tasks : status'[t] \in {"absent", "todo", "ready", "blocked"}
          => status[t] \in {"absent", "todo", "ready", "blocked"}
    BY DEF Plain
  <2> QED BY <1>1, <2>2, <2>3 DEF Counted, Plain
<1> QED BY <1>7, <1>8, <1>9

(* A claim opens an attempt of a task that nobody works on. *)
LEMMA ClaimTally ==
  ASSUME Fine, Next, Tallied, NEW p \in Procs, NEW t \in Tasks, Claim(p, t),
         pc[p] \in {"claim", "eager"}
  PROVE  Tallied'
<1> SUFFICES ASSUME ~Muddled' PROVE Judged' /\ Holding' /\ Counted'
  BY DEF Tallied
<1>1. /\ Judged /\ Holding /\ Counted /\ (Quiet' => Quiet) /\ met' = met
      /\ "pauses" \notin met' => "pauses" \notin met
      /\ \A u \in Clear' : u \in Clear /\ u \in Tasks
  BY MuddledStays, ClearShrinks DEF Tallied, Claim, input
<1>2. /\ status \in [Tasks -> Statuses] /\ pc \in [Procs -> TickPCs \cup CallPCs]
      /\ attempts \in [Tasks -> Int] /\ snap \in [Procs -> Int] /\ crashed \in [Tasks -> Nat]
      /\ job \in [Procs -> Tasks \cup {NoTask}]
      /\ \A q \in Procs : pc[q] \in Undo => job[q] \in Tasks
  BY DEF Fine, Ordered, TypeOK, BoardOK, ProcsOK, Held, Undo, Working, PastOK
<1>3. /\ status[t] = "ready" /\ status' = [status EXCEPT ![t] = "running"]
      /\ attempts' = [attempts EXCEPT ![t] = @ + 1] /\ job' = [job EXCEPT ![p] = t]
      /\ snap' = [snap EXCEPT ![p] = attempts[t] + 1] /\ pc' = [pc EXCEPT ![p] = "spawn"]
      /\ seen' = seen /\ cur' = cur /\ sess' = sess /\ crashed' = crashed
  BY <1>2 DEF Claim, Goto, found
<1>4. t \in Clear => ~Pend(t) BY <1>1, <1>3 DEF Judged
<1>5. \A u \in Tasks : Pend(u)' => Pend(u) BY <1>2, <1>3 DEF Pend, Judges
<1>6. Quiet /\ t \in Clear => \A q \in Procs : ~Holds(q, t) BY <1>1, <1>3 DEF Holding, Holds
<1>7. Judged'
  <2> SUFFICES ASSUME NEW u \in Clear', Pend(u)'
               PROVE  /\ Apart(u)'
                      /\ status'[u] \in {"running", "cancelled", "done"}
                      /\ (\E q \in Tickers : pc'[q] = "commit" /\ seen'[q][u] = "ready") => attempts'[u] < MaxAttempts
                      /\ "pauses" \notin met' => pc'[u] = "idle" /\ cur'[u] /= 0 /\ sess'[cur'[u]].status /= "active"
    BY DEF Judged
  <2>1. Pend(u) /\ u /= t /\ u \in Clear /\ u \in Tasks BY <1>1, <1>4, <1>5
  <2>0. Apart(u)'
    <3>1. Apart(u) BY <1>1, <2>1 DEF Judged
    <3>2. \A q \in Tickers : pc'[q] \in Starting /\ job'[q] = u => pc[q] \in Starting /\ job[q] = u
      BY <1>2, <1>3, <2>1 DEF Procs
    <3>3. \A q \in Tickers : pc'[q] = "commit" => pc[q] = "commit" /\ seen'[q] = seen[q]
      BY <1>2, <1>3 DEF Procs
    <3> QED BY <2>1, <3>1, <3>2, <3>3, ApartKept
  <2>2. status'[u] = status[u] /\ attempts'[u] = attempts[u] BY <1>2, <1>3, <2>1
  <2>3. \A q \in Tickers : pc'[q] = "commit" => pc[q] = "commit" BY <1>2, <1>3 DEF Procs
  <2>4. "pauses" \notin met' => pc'[u] = "idle" /\ cur'[u] /= 0 /\ sess'[cur'[u]].status /= "active"
    BY <1>1, <1>3, <2>1, PendKept DEF Judged
  <2> QED BY <1>1, <1>3, <2>0, <2>1, <2>2, <2>3, <2>4 DEF Judged
<1>8. Holding'
  <2> SUFFICES ASSUME Quiet', NEW r \in Procs, pc'[r] \in Undo, job'[r] \in Clear'
               PROVE  /\ status'[job'[r]] \in {"running", "cancelled", "done"}
                      /\ attempts'[job'[r]] = snap'[r]
                      /\ pc'[r] = "rollback" => snap'[r] < MaxAttempts
                      /\ ~(\E q \in Tickers : pc'[q] = "commit" /\ seen'[q][job'[r]] \in {"ready", "failed"})
                      /\ \A q \in Procs : pc'[q] \in Undo /\ job'[q] = job'[r] => q = r
    BY DEF Holding, Pend, Judges, Holds
  <2>1. \A q \in Procs : q /= p => pc'[q] = pc[q] /\ job'[q] = job[q] /\ snap'[q] = snap[q]
    BY <1>2, <1>3
  <2>2. job'[p] = t /\ pc'[p] = "spawn" /\ snap'[p] = attempts[t] + 1
    BY <1>2, <1>3
  <2>3. t \in Clear => \A q \in Procs : q /= p /\ pc[q] \in Undo => job[q] /= t
    BY <1>1, <1>6 DEF Holds
  <2>4. \A u \in Tasks : ~Pend(u) =>
           ~(\E q \in Tickers : pc'[q] = "commit" /\ seen'[q][u] \in {"ready", "failed"})
    BY <1>2, <1>3 DEF Pend, Judges
  <2>5. CASE r = p
    <3>1. status'[t] = "running" /\ attempts'[t] = attempts[t] + 1 /\ t \in Clear BY <1>1, <1>2, <1>3, <2>2, <2>5
    <3> QED BY <1>4, <2>1, <2>2, <2>3, <2>4, <2>5, <3>1
  <2>6. CASE r /= p
    <3>1. pc[r] \in Undo /\ pc'[r] = pc[r] /\ job'[r] = job[r] /\ snap'[r] = snap[r]
          /\ job[r] \in Tasks /\ job[r] \in Clear /\ job[r] /= t
      BY <1>1, <1>2, <2>1, <2>3, <2>6
    <3>2. /\ status[job[r]] \in {"running", "cancelled", "done"}
          /\ attempts[job[r]] = snap[r]
          /\ pc[r] = "rollback" => snap[r] < MaxAttempts
          /\ ~Pend(job[r])
          /\ \A q \in Procs : Holds(q, job[r]) => q = r
      BY <1>1, <3>1 DEF Holding
    <3>3. status'[job[r]] = status[job[r]] /\ attempts'[job[r]] = attempts[job[r]]
      BY <1>2, <1>3, <3>1
    <3>4. \A q \in Procs : pc'[q] \in Undo /\ job'[q] = job[r] => q = r
      BY <2>1, <2>2, <3>1, <3>2 DEF Holds
    <3> QED BY <2>4, <3>1, <3>2, <3>3, <3>4
  <2> QED BY <2>5, <2>6
<1>9. Counted'
  <2>1. t \in Clear => attempts[t] < MaxAttempts /\ crashed[t] <= attempts[t] BY <1>1, <1>3 DEF Counted
  <2>2. \A u \in Tasks : u /= t =>
           /\ status'[u] = status[u] /\ attempts'[u] = attempts[u]
           /\ \A q \in Procs : Holds(q, u)' => Holds(q, u)
    BY <1>2, <1>3 DEF Holds
  <2>3. \A u \in Tasks : u /= t => (Open(u)' => Open(u))
    BY <1>1, <1>5, <2>2 DEF Open
  <2>4. attempts'[t] = attempts[t] + 1 /\ status'[t] = "running" BY <1>2, <1>3
  <2> QED BY <1>1, <1>2, <1>3, <2>1, <2>2, <2>3, <2>4, AttemptsAssumption DEF Counted
<1> QED BY <1>7, <1>8, <1>9

(* A claim that is given back, or spent: it was nobody else's. *)
LEMMA SettleTally ==
  ASSUME Fine, Next, Tallied, NEW p \in Procs, pc[p] \in {"block", "rollback", "handBack"},
         NEW w \in {"ready", "blocked"}, status' = [status EXCEPT ![job[p]] = w],
         NEW l \in {"idle", "claim", "tell"}, pc' = [pc EXCEPT ![p] = l],
         \A q \in Procs : q /= p => job'[q] = job[q] /\ snap'[q] = snap[q], UNCHANGED seen,
         \/ attempts' = [attempts EXCEPT ![job[p]] = @ - 1] /\ UNCHANGED crashed
         \/ /\ UNCHANGED attempts /\ crashed' = [crashed EXCEPT ![job[p]] = @ + 1]
            /\ pc[p] = "rollback"
  PROVE  Tallied'
<1> SUFFICES ASSUME ~Muddled' PROVE Judged' /\ Holding' /\ Counted'
  BY DEF Tallied
<1>1. /\ Judged /\ Holding /\ Counted /\ (Quiet' => Quiet) /\ ~Muddled
      /\ "pauses" \notin met' => "pauses" \notin met
      /\ \A u \in Clear' : u \in Clear /\ u \in Tasks
  BY MuddledStays, ClearShrinks DEF Tallied
<1>2. /\ status \in [Tasks -> Statuses] /\ pc \in [Procs -> TickPCs \cup CallPCs]
      /\ attempts \in [Tasks -> Int] /\ snap \in [Procs -> Int] /\ crashed \in [Tasks -> Nat]
      /\ \A q \in Procs : pc[q] \in Undo => job[q] \in Tasks
  BY DEF Fine, Ordered, TypeOK, BoardOK, ProcsOK, Held, Undo, Working, PastOK
<1>3. Quiet BY <1>1 DEF Fine, Linked, Sure, Quiet, Muddled
<1>4. PICK t \in Tasks : t = job[p] /\ pc[p] \in Undo BY <1>2 DEF Undo
<1>5. t \in Clear =>
      /\ attempts[t] = snap[p] /\ ~Pend(t)
      /\ pc[p] = "rollback" => snap[p] < MaxAttempts
      /\ \A q \in Procs : Holds(q, t) => q = p
  BY <1>1, <1>3, <1>4 DEF Holding
<1>6. Open(t) BY <1>3, <1>4 DEF Open, Holds
<1>7. t \in Clear => crashed[t] < attempts[t] /\ attempts[t] <= MaxAttempts BY <1>1, <1>4, <1>6 DEF Counted
<1>8. \A u \in Tasks : Pend(u)' => Pend(u) BY <1>2 DEF Pend, Judges, Procs
<1>9. /\ \A u \in Tasks : u /= t => status'[u] = status[u] /\ attempts'[u] = attempts[u] /\ crashed'[u] = crashed[u]
      /\ status'[t] = w
      /\ \/ attempts'[t] = attempts[t] - 1 /\ crashed'[t] = crashed[t]
         \/ attempts'[t] = attempts[t] /\ crashed'[t] = crashed[t] + 1 /\ pc[p] = "rollback"
  BY <1>2, <1>4
<1>10. \A q \in Procs : pc'[q] \in Undo => q /= p /\ pc'[q] = pc[q] /\ job'[q] = job[q] /\ snap'[q] = snap[q]
  BY <1>2 DEF Undo
<1>11. Judged'
  <2> SUFFICES ASSUME NEW u \in Clear', Pend(u)'
               PROVE  /\ Apart(u)'
                      /\ status'[u] \in {"running", "cancelled", "done"}
                      /\ (\E q \in Tickers : pc'[q] = "commit" /\ seen'[q][u] = "ready") => attempts'[u] < MaxAttempts
                      /\ "pauses" \notin met' => pc'[u] = "idle" /\ cur'[u] /= 0 /\ sess'[cur'[u]].status /= "active"
    BY DEF Judged
  <2>1. Pend(u) /\ u /= t /\ u \in Clear /\ u \in Tasks BY <1>1, <1>5, <1>8
  <2>0. Apart(u)'
    <3>1. Apart(u) BY <1>1, <2>1 DEF Judged
    <3>2. \A q \in Tickers : pc'[q] \in Starting /\ job'[q] = u => pc[q] \in Starting /\ job[q] = u
      BY <1>2 DEF Procs, Starting
    <3>3. \A q \in Tickers : pc'[q] = "commit" => pc[q] = "commit" /\ seen'[q] = seen[q]
      BY <1>2 DEF Procs
    <3> QED BY <2>1, <3>1, <3>2, <3>3, ApartKept
  <2>2. \A q \in Tickers : pc'[q] = "commit" => pc[q] = "commit" BY <1>2 DEF Procs
  <2>3. "pauses" \notin met' => pc'[u] = "idle" /\ cur'[u] /= 0 /\ sess'[cur'[u]].status /= "active"
    BY <1>1, <2>1, PendKept DEF Judged
  <2> QED BY <1>1, <1>9, <2>0, <2>1, <2>2, <2>3 DEF Judged
<1>12. Holding'
  <2> SUFFICES ASSUME Quiet', NEW r \in Procs, pc'[r] \in Undo, job'[r] \in Clear'
               PROVE  /\ status'[job'[r]] \in {"running", "cancelled", "done"}
                      /\ attempts'[job'[r]] = snap'[r]
                      /\ pc'[r] = "rollback" => snap'[r] < MaxAttempts
                      /\ ~(\E q \in Tickers : pc'[q] = "commit" /\ seen'[q][job'[r]] \in {"ready", "failed"})
                      /\ \A q \in Procs : pc'[q] \in Undo /\ job'[q] = job'[r] => q = r
    BY DEF Holding, Pend, Judges, Holds
  <2>1. /\ pc[r] \in Undo /\ pc'[r] = pc[r] /\ job'[r] = job[r] /\ snap'[r] = snap[r]
        /\ job[r] \in Tasks /\ job[r] \in Clear /\ r /= p
    BY <1>1, <1>2, <1>10
  <2>2. job[r] /= t BY <1>5, <2>1 DEF Holds
  <2>3. /\ status[job[r]] \in {"running", "cancelled", "done"}
        /\ attempts[job[r]] = snap[r]
        /\ pc[r] = "rollback" => snap[r] < MaxAttempts
        /\ ~Pend(job[r])
        /\ \A q \in Procs : Holds(q, job[r]) => q = r
    BY <1>3, <1>1, <2>1 DEF Holding
  <2>4. ~(\E q \in Tickers : pc'[q] = "commit" /\ seen'[q][job[r]] \in {"ready", "failed"})
    BY <1>8, <2>1, <2>3 DEF Pend, Judges
  <2>5. \A q \in Procs : pc'[q] \in Undo /\ job'[q] = job[r] => q = r
    BY <1>10, <2>3 DEF Holds
  <2> QED BY <1>9, <2>1, <2>2, <2>3, <2>4, <2>5
<1>13. Counted'
  <2>1. \A q \in Procs, u \in Tasks : Holds(q, u)' => Holds(q, u) /\ q /= p
    BY <1>10 DEF Holds
  <2>2. \A u \in Tasks : u /= t => (Open(u)' => Open(u))
    BY <1>1, <1>8, <1>9, <2>1 DEF Open
  <2>3. t \in Clear => ~Open(t)' BY <1>4, <1>5, <1>8, <1>9, <2>1 DEF Open
  <2> QED BY <1>1, <1>2, <1>4, <1>5, <1>7, <1>9, <2>2, <2>3, AttemptsAssumption DEF Counted
<1> QED BY <1>11, <1>12, <1>13

(* The tick judges a task by its session, which has ended: no call is at work on it. *)
LEMMA JudgeTally ==
  ASSUME Fine, Next, Tallied, NEW p \in Tickers, FinalizeRead(p)
  PROVE  Tallied'
<1> SUFFICES ASSUME ~Muddled' PROVE Judged' /\ Holding' /\ Counted'
  BY DEF Tallied
<1>1. /\ Judged /\ Holding /\ Counted /\ met' = met
      /\ \A u \in Clear' : u \in Clear /\ u \in Tasks
  BY MuddledStays, ClearShrinks DEF Tallied, FinalizeRead, input
<1>2. /\ status \in [Tasks -> Statuses] /\ pc \in [Procs -> TickPCs \cup CallPCs]
      /\ attempts \in [Tasks -> Int] /\ seen \in [Tickers -> [Tasks -> Verdicts]]
      /\ Tickers \subseteq Procs /\ Tasks \subseteq Procs
      /\ \A q \in Procs : pc[q] \in Undo => job[q] \in Tasks
      /\ \A t \in Tasks : job[t] = t
  BY DEF Fine, Ordered, TypeOK, BoardOK, ProcsOK, FoundOK, Held, Undo, Working, PastOK, Procs
<1>3. /\ pc[p] = "read" /\ pc' \in {[pc EXCEPT ![p] = "claim"], [pc EXCEPT ![p] = "commit"]}
      /\ \A t \in Tasks : seen'[p][t] = Verdict(t)
      /\ UNCHANGED <<status, attempts, cur, sess, job, snap, crashed>>
      /\ crossed' = crossed \cup Crossing(p)
  BY <1>2 DEF FinalizeRead, Goto, board, held, history
<1>4. /\ \A q \in Procs : q /= p => pc'[q] = pc[q]
      /\ pc'[p] \in {"claim", "commit"}
      /\ \A q \in Tickers : q /= p => seen'[q] = seen[q]
  BY <1>2, <1>3 DEF FinalizeRead
<1>5. ASSUME NEW t \in Clear', Judges(p, t)'
      PROVE  /\ status[t] = "running" /\ cur[t] /= 0 /\ sess[cur[t]].status /= "active"
             /\ Verdict(t) = "ready" => attempts[t] < MaxAttempts
             /\ "pauses" \notin met => pc[t] = "idle" /\ pc'[t] = "idle"
             /\ \A q \in Tickers : q /= p => ~Judges(q, t) /\ ~(pc[q] \in Starting /\ job[q] = t)
  <2>0. t \in Tasks BY <1>1
  <2>1. Verdict(t) \in {"ready", "failed"} BY <1>3, <1>5, <2>0 DEF Judges
  <2>2. status[t] = "running" /\ cur[t] /= 0 /\ sess[cur[t]].status /= "active"
    BY <2>1 DEF Verdict, Ended
  <2>3. Verdict(t) = "ready" => attempts[t] < MaxAttempts
    BY <1>2, <2>0, AttemptsAssumption DEF Verdict
  <2>4. ASSUME "pauses" \notin met PROVE pc[t] = "idle"
    <3>1. cur[t] \in DOMAIN sess /\ sess[cur[t]].task = t BY <2>0, <2>2 DEF Fine, Linked, Attempts
    <3> QED BY <2>2, <2>4, <3>1 DEF Fine, Ending
  <2>5. pc[t] = "idle" => pc'[t] = "idle" BY <2>0, CallOver DEF Fine
  <2>6. t \notin Crossing(p) BY <1>3 DEF Clear
  <2>7. \A q \in Tickers : q /= p => ~Judges(q, t) /\ ~(pc[q] \in Starting /\ job[q] = t)
    BY <2>0, <2>1, <2>6 DEF Crossing, Judges
  <2> QED BY <2>2, <2>3, <2>4, <2>5, <2>7
<1>6. \A t \in Tasks : Pend(t)' => Judges(p, t)' \/ \E q \in Tickers \ {p} : Judges(q, t)
  <2>1. \A q \in Tickers, t \in Tasks : q /= p => (Judges(q, t)' <=> Judges(q, t))
    BY <1>2, <1>4 DEF Judges
  <2> QED BY <2>1 DEF Pend
<1>7. \A q \in Procs : pc'[q] \in Undo => q /= p /\ pc'[q] = pc[q]
  BY <1>2, <1>3, <1>4 DEF Procs, Undo
<1>8. Judged'
  <2> SUFFICES ASSUME NEW t \in Clear', Pend(t)'
               PROVE  /\ Apart(t)'
                      /\ status'[t] \in {"running", "cancelled", "done"}
                      /\ (\E q \in Tickers : pc'[q] = "commit" /\ seen'[q][t] = "ready") => attempts'[t] < MaxAttempts
                      /\ "pauses" \notin met' => pc'[t] = "idle" /\ cur'[t] /= 0 /\ sess'[cur'[t]].status /= "active"
    BY DEF Judged
  <2>0. t \in Clear /\ t \in Tasks BY <1>1
  <2>1. CASE Judges(p, t)'
    <3>1. \A q \in Tickers : q /= p => ~Judges(q, t)' /\ ~(pc'[q] \in Starting /\ job'[q] = t)
      BY <1>2, <1>3, <1>4, <1>5, <2>1 DEF Judges
    <3>2. Apart(t)' BY <1>4, <3>1 DEF Apart, Starting
    <3>3. \A q \in Tickers : pc'[q] = "commit" /\ seen'[q][t] = "ready" => q = p
      BY <3>1 DEF Judges
    <3> QED BY <1>1, <1>3, <1>5, <2>0, <2>1, <3>2, <3>3
  <2>2. CASE ~Judges(p, t)'
    <3>1. Pend(t) BY <1>6, <2>0, <2>2 DEF Pend
    <3>2. /\ Apart(t)
          /\ status[t] \in {"running", "cancelled", "done"}
          /\ (\E q \in Tickers : pc[q] = "commit" /\ seen[q][t] = "ready") => attempts[t] < MaxAttempts
          /\ "pauses" \notin met => pc[t] = "idle" /\ cur[t] /= 0 /\ sess[cur[t]].status /= "active"
      BY <1>1, <2>0, <3>1 DEF Judged
    <3>3. Apart(t)'
      <4>1. \A q \in Tickers : pc'[q] \in Starting => pc[q] \in Starting
        BY <1>2, <1>4 DEF Starting
      <4>2. \A q \in Tickers : Judges(q, t)' => Judges(q, t)
        BY <1>2, <1>4, <2>2 DEF Judges
      <4> QED BY <1>3, <3>2, <4>1, <4>2 DEF Apart
    <3>4. \A q \in Tickers : pc'[q] = "commit" /\ seen'[q][t] = "ready" => pc[q] = "commit" /\ seen[q][t] = "ready"
      BY <1>2, <1>4, <2>2 DEF Judges
    <3>5. pc[t] = "idle" => pc'[t] = "idle" BY <2>0, CallOver DEF Fine
    <3> QED BY <1>1, <1>3, <3>2, <3>3, <3>4, <3>5
  <2> QED BY <2>1, <2>2
<1>9. ASSUME Quiet, NEW t \in Clear', Pend(t)', NEW q \in Procs PROVE ~Holds(q, t)'
  <2>0. t \in Clear /\ t \in Tasks BY <1>1
  <2>1. CASE Judges(p, t)'
    <3>1. CASE q \in Tickers
      BY <1>3, <1>5, <1>7, <2>1, <3>1 DEF Holds, Undo, Starting, Fine, Linked, Quiet
    <3>2. CASE q \in Tasks
      BY <1>2, <1>3, <1>5, <1>7, <1>9, <2>1, <3>2 DEF Holds, Quiet, Undo
    <3> QED BY <3>1, <3>2 DEF Procs
  <2>2. CASE ~Judges(p, t)'
    <3>1. Pend(t) BY <1>6, <1>9, <2>0, <2>2 DEF Pend
    <3> QED BY <1>1, <1>3, <1>7, <1>9, <2>0, <3>1 DEF Holds, Holding
  <2> QED BY <2>1, <2>2
<1>10. Holding'
  <2> SUFFICES ASSUME Quiet', NEW r \in Procs, pc'[r] \in Undo, job'[r] \in Clear'
               PROVE  /\ status'[job'[r]] \in {"running", "cancelled", "done"}
                      /\ attempts'[job'[r]] = snap'[r]
                      /\ pc'[r] = "rollback" => snap'[r] < MaxAttempts
                      /\ ~(\E q \in Tickers : pc'[q] = "commit" /\ seen'[q][job'[r]] \in {"ready", "failed"})
                      /\ \A q \in Procs : pc'[q] \in Undo /\ job'[q] = job'[r] => q = r
    BY DEF Holding, Pend, Judges, Holds
  <2>1. Quiet BY <1>1 DEF Quiet
  <2>2. pc'[r] = pc[r] /\ job'[r] = job[r] /\ job[r] \in Clear BY <1>1, <1>3, <1>7
  <2>3. ~(\E q \in Tickers : pc'[q] = "commit" /\ seen'[q][job'[r]] \in {"ready", "failed"})
    <3>1. PICK t \in Clear' : t = job'[r] OBVIOUS
    <3>2. Holds(r, t)' BY <3>1 DEF Holds
    <3>3. ~Pend(t)' BY <1>9, <2>1, <3>2
    <3> QED BY <3>1, <3>3 DEF Pend, Judges
  <2>4. \A q \in Procs : pc'[q] \in Undo /\ job'[q] = job'[r] => q = r
    BY <1>1, <1>3, <1>7, <2>1, <2>2 DEF Holding, Holds
  <2> QED BY <1>1, <1>3, <1>7, <2>1, <2>2, <2>3, <2>4 DEF Holding
<1>11. Counted'
  <2>1. \A q \in Procs, t \in Tasks : Holds(q, t)' => Holds(q, t)
    BY <1>3, <1>7 DEF Holds
  <2>2. \A t \in Clear' : Open(t)' => Open(t)
    BY <1>1, <1>3, <1>5, <1>6, <2>1 DEF Open, Quiet, Pend
  <2> QED BY <1>1, <1>3, <2>2 DEF Counted
<1> QED BY <1>8, <1>10, <1>11

(* The tick writes what it judged: an attempt settled as crashed was open until then. *)
LEMMA WriteTally ==
  ASSUME Fine, Next, Tallied, NEW p \in Tickers, FinalizeCommit(p)
  PROVE  Tallied'
<1> SUFFICES ASSUME ~Muddled' PROVE Judged' /\ Holding' /\ Counted'
  BY DEF Tallied
<1>1. /\ Judged /\ Holding /\ Counted /\ met' = met
      /\ \A u \in Clear' : u \in Clear /\ u \in Tasks
  BY MuddledStays, ClearShrinks DEF Tallied, FinalizeCommit, input
<1>2. /\ status \in [Tasks -> Statuses] /\ pc \in [Procs -> TickPCs \cup CallPCs]
      /\ attempts \in [Tasks -> Int] /\ seen \in [Tickers -> [Tasks -> Verdicts]]
      /\ crashed \in [Tasks -> Nat] /\ Tickers \subseteq Procs
      /\ \A q \in Procs : pc[q] \in Undo => job[q] \in Tasks
  BY DEF Fine, Ordered, TypeOK, BoardOK, ProcsOK, FoundOK, Held, Undo, Working, PastOK, Procs
<1>3. /\ pc[p] = "commit" /\ pc' = [pc EXCEPT ![p] = "notify"]
      /\ \A t \in Tasks : /\ status'[t] = IF seen[p][t] = "none" THEN status[t] ELSE seen[p][t]
                          /\ crashed'[t] = IF seen[p][t] \in {"ready", "failed"} THEN crashed[t] + 1 ELSE crashed[t]
      /\ UNCHANGED <<attempts, job, snap>>
  BY <1>2 DEF FinalizeCommit, Goto, held
<1>4. /\ \A q \in Procs : q /= p => pc'[q] = pc[q]
      /\ pc'[p] = "notify" /\ \A q \in Tickers : q /= p => seen'[q] = seen[q]
  BY <1>2, <1>3 DEF FinalizeCommit
<1>5. \A q \in Tickers, t \in Tasks : Judges(q, t)' => q /= p /\ Judges(q, t)
  BY <1>2, <1>4 DEF Judges
<1>51. \A t \in Tasks : Pend(t)' => Pend(t) /\ \E q \in Tickers : q /= p /\ Judges(q, t)
  BY <1>5 DEF Pend
<1>6. \A t \in Tasks : seen[p][t] \in {"ready", "failed"} => Pend(t) /\ Judges(p, t)
  BY <1>3 DEF Pend, Judges
<1>61. \A t \in Clear' : seen[p][t] \in {"ready", "failed"} => ~Pend(t)'
  BY <1>1, <1>51, <1>6 DEF Judged, Apart
<1>7. \A t \in Tasks : seen[p][t] \in Verdicts BY <1>2
<1>8. \A q \in Procs : pc'[q] \in Undo => pc[q] = pc'[q] BY <1>2, <1>3 DEF Undo
<1>9. Judged'
  <2> SUFFICES ASSUME NEW t \in Clear', Pend(t)'
               PROVE  /\ Apart(t)'
                      /\ status'[t] \in {"running", "cancelled", "done"}
                      /\ (\E q \in Tickers : pc'[q] = "commit" /\ seen'[q][t] = "ready") => attempts'[t] < MaxAttempts
                      /\ "pauses" \notin met' => pc'[t] = "idle" /\ cur'[t] /= 0 /\ sess'[cur'[t]].status /= "active"
    BY DEF Judged
  <2>1. t \in Clear /\ t \in Tasks /\ Pend(t) /\ seen[p][t] \in {"none", "done"}
    BY <1>1, <1>51, <1>61, <1>7 DEF Verdicts
  <2>2. /\ Apart(t) /\ status[t] \in {"running", "cancelled", "done"}
        /\ (\E q \in Tickers : pc[q] = "commit" /\ seen[q][t] = "ready") => attempts[t] < MaxAttempts
        /\ "pauses" \notin met => pc[t] = "idle" /\ cur[t] /= 0 /\ sess[cur[t]].status /= "active"
    BY <1>1, <2>1 DEF Judged
  <2>3. status'[t] \in {"running", "cancelled", "done"} BY <1>3, <2>1, <2>2
  <2>4. \A q \in Tickers : pc'[q] = "commit" => q /= p /\ pc[q] = "commit" /\ seen'[q] = seen[q]
    BY <1>2, <1>4
  <2>5. \A q \in Tickers : pc'[q] \in Starting => pc[q] \in Starting BY <1>2, <1>4 DEF Starting
  <2>6. Apart(t)' BY <1>3, <2>1, <2>2, <2>4, <2>5, ApartKept
  <2>7. "pauses" \notin met' => pc'[t] = "idle" /\ cur'[t] /= 0 /\ sess'[cur'[t]].status /= "active"
    BY <1>1, <2>1, <2>2, PendKept
  <2> QED BY <1>3, <2>2, <2>3, <2>4, <2>6, <2>7
<1>10. Holding'
  <2> SUFFICES ASSUME Quiet', NEW r \in Procs, pc'[r] \in Undo, job'[r] \in Clear'
               PROVE  /\ status'[job'[r]] \in {"running", "cancelled", "done"}
                      /\ attempts'[job'[r]] = snap'[r]
                      /\ pc'[r] = "rollback" => snap'[r] < MaxAttempts
                      /\ ~(\E q \in Tickers : pc'[q] = "commit" /\ seen'[q][job'[r]] \in {"ready", "failed"})
                      /\ \A q \in Procs : pc'[q] \in Undo /\ job'[q] = job'[r] => q = r
    BY DEF Holding, Pend, Judges, Holds
  <2>1. Quiet /\ pc[r] \in Undo /\ pc[r] = pc'[r] /\ job[r] \in Tasks /\ job[r] \in Clear
    BY <1>1, <1>2, <1>3, <1>8 DEF Quiet
  <2>2. /\ status[job[r]] \in {"running", "cancelled", "done"}
        /\ attempts[job[r]] = snap[r]
        /\ pc[r] = "rollback" => snap[r] < MaxAttempts
        /\ ~Pend(job[r])
        /\ \A q \in Procs : Holds(q, job[r]) => q = r
    BY <1>1, <2>1 DEF Holding
  <2>3. status'[job[r]] \in {"running", "cancelled", "done"}
    BY <1>3, <1>6, <1>7, <2>1, <2>2 DEF Verdicts
  <2>4. ~(\E q \in Tickers : pc'[q] = "commit" /\ seen'[q][job[r]] \in {"ready", "failed"})
    BY <1>51, <2>1, <2>2 DEF Pend, Judges
  <2>5. \A q \in Procs : pc'[q] \in Undo /\ job'[q] = job'[r] => q = r
    BY <1>3, <1>8, <2>2 DEF Holds
  <2> QED BY <1>3, <2>1, <2>2, <2>3, <2>4, <2>5
<1>11. Counted'
  <2> SUFFICES ASSUME NEW t \in Clear'
               PROVE  /\ crashed'[t] <= attempts'[t] /\ (Open(t)' => crashed'[t] < attempts'[t])
                      /\ attempts'[t] <= MaxAttempts
                      /\ status'[t] \in {"absent", "todo", "ready", "blocked"} => attempts'[t] < MaxAttempts
    BY DEF Counted
  <2>0. t \in Clear /\ t \in Tasks BY <1>1
  <2>1. \A q \in Procs : Holds(q, t)' => Holds(q, t) BY <1>3, <1>8 DEF Holds
  <2>2. CASE seen[p][t] \in {"ready", "failed"}
    <3>1. Pend(t) /\ ~Pend(t)' BY <1>6, <1>61, <2>0, <2>2
    <3>2. status'[t] = seen[p][t] /\ crashed'[t] = crashed[t] + 1 BY <1>3, <2>0, <2>2
    <3>3. Quiet => \A q \in Procs : ~Holds(q, t) BY <1>1, <2>0, <3>1 DEF Holding, Holds
    <3>4. ~Open(t)' BY <1>1, <2>1, <2>2, <3>1, <3>2, <3>3 DEF Open, Quiet
    <3>5. seen[p][t] = "ready" => attempts[t] < MaxAttempts BY <1>1, <1>3, <2>0, <3>1 DEF Judged
    <3>6. crashed[t] < attempts[t] /\ attempts[t] <= MaxAttempts BY <1>1, <2>0, <3>1 DEF Counted, Open
    <3> QED BY <1>2, <1>3, <2>0, <2>2, <3>2, <3>4, <3>5, <3>6
  <2>3. CASE seen[p][t] \notin {"ready", "failed"}
    <3>1. seen[p][t] \in {"none", "done"} BY <1>7, <2>0, <2>3 DEF Verdicts
    <3>2. crashed'[t] = crashed[t] /\ status'[t] \in {status[t], "done"} BY <1>3, <2>0, <3>1
    <3>3. Open(t)' => Open(t) BY <1>1, <1>51, <2>0, <2>1, <3>2 DEF Open, Quiet
    <3> QED BY <1>1, <1>3, <2>0, <3>2, <3>3 DEF Counted
  <2> QED BY <2>2, <2>3
<1> QED BY <1>9, <1>10, <1>11

(* A worker that blocks gives back its own attempt. *)
LEMMA BlockTally ==
  ASSUME Fine, Next, Tallied, NEW s \in DOMAIN sess, WorkerBlock(s)
  PROVE  Tallied'
<1> SUFFICES ASSUME ~Muddled' PROVE Judged' /\ Holding' /\ Counted'
  BY DEF Tallied
<1>1. /\ Judged /\ Counted
      /\ \A u \in Clear' : u \in Clear /\ u \in Tasks
  BY MuddledStays, ClearShrinks DEF Tallied
<1>2. ~Quiet' /\ "pauses" \notin met' /\ "pauses" \notin met
  BY MetGrows DEF WorkerBlock, Use, Quiet, Muddled
<1>3. /\ status \in [Tasks -> Statuses] /\ attempts \in [Tasks -> Int] /\ crashed \in [Tasks -> Nat]
      /\ sess[s].task \in Tasks
  BY SessionOf DEF Fine, Ordered, TypeOK, BoardOK, PastOK
<1>4. PICK t \in Tasks : t = sess[s].task BY <1>3
<1>5. /\ cur[t] = s /\ status[t] = "running" /\ sess[s].stage = "turn"
      /\ status' = [status EXCEPT ![t] = "blocked"]
      /\ attempts' = [attempts EXCEPT ![t] = @ - 1]
      /\ UNCHANGED <<pc, job, seen, cur, crashed>>
  BY <1>4 DEF WorkerBlock, Current, local, held, found, history
<1>6. t \in Clear => ~Pend(t)
  <2>1. sess[s].status /= "active" => sess[s].stage \in {"reporting", "rest"} BY <1>2 DEF Fine, Ending
  <2> QED BY <1>1, <1>2, <1>5, <2>1 DEF Judged
<1>7. \A u \in Tasks : Pend(u)' <=> Pend(u) BY <1>5 DEF Pend, Judges
<1>8. \A u \in Tasks : u /= t => status'[u] = status[u] /\ attempts'[u] = attempts[u] BY <1>3, <1>5
<1>9. status'[t] = "blocked" /\ attempts'[t] = attempts[t] - 1 BY <1>3, <1>5
<1>10. Judged'
  <2> SUFFICES ASSUME NEW u \in Clear', Pend(u)'
               PROVE  /\ Apart(u)'
                      /\ status'[u] \in {"running", "cancelled", "done"}
                      /\ (\E q \in Tickers : pc'[q] = "commit" /\ seen'[q][u] = "ready") => attempts'[u] < MaxAttempts
                      /\ "pauses" \notin met' => pc'[u] = "idle" /\ cur'[u] /= 0 /\ sess'[cur'[u]].status /= "active"
    BY DEF Judged
  <2>1. Pend(u) /\ u /= t /\ u \in Clear /\ u \in Tasks BY <1>1, <1>6, <1>7
  <2>0. Apart(u)' BY <1>1, <1>5, <2>1, ApartKept DEF Judged
  <2>2. "pauses" \notin met' => pc'[u] = "idle" /\ cur'[u] /= 0 /\ sess'[cur'[u]].status /= "active"
    BY <1>1, <1>2, <2>1, PendKept DEF Judged
  <2> QED BY <1>1, <1>5, <1>8, <2>0, <2>1, <2>2 DEF Judged
<1>11. Holding' BY <1>2 DEF Holding
<1>12. Counted'
  <2>1. \A u \in Tasks : u /= t => (Open(u)' => Open(u)) BY <1>2, <1>7, <1>8 DEF Open
  <2>2. t \in Clear => ~Open(t)' BY <1>2, <1>6, <1>7, <1>9 DEF Open
  <2>3. t \in Clear => crashed[t] < attempts[t] /\ attempts[t] <= MaxAttempts BY <1>1, <1>5 DEF Counted, Open
  <2> QED BY <1>1, <1>3, <1>5, <1>8, <1>9, <2>1, <2>2, <2>3, AttemptsAssumption DEF Counted
<1> QED BY <1>10, <1>11, <1>12

(* A process that lets go of its task, with nothing written of it. *)
LEMMA DropPlain ==
  ASSUME Ordered, NEW p \in Procs, NEW l \in {"idle", "claim"}, Drop(p, l),
         UNCHANGED <<attempts, crashed>>, \A q \in Tickers : q /= p => seen'[q] = seen[q],
         \A t \in Tasks : \/ status'[t] = status[t] \/ status'[t] \in {"cancelled", "done"}
                          \/ status'[t] \in {"ready", "todo"} /\ status[t] \in {"absent", "todo", "blocked"}
  PROVE  Plain
<1>1. /\ pc' = [pc EXCEPT ![p] = l]
      /\ \A q \in Procs : q /= p => job'[q] = job[q] /\ snap'[q] = snap[q]
  BY DEF Drop, Goto, Ordered, TypeOK, ProcsOK
<1>2. \A q \in Procs : pc'[q] \in Undo \cup Starting \/ pc'[q] = "commit" => q /= p /\ pc'[q] = pc[q]
  BY <1>1 DEF Undo, Starting, Ordered, TypeOK, ProcsOK
<1>3. Tickers \subseteq Procs BY DEF Procs
<1> QED BY <1>1, <1>2, <1>3 DEF Plain

(* A process that goes on, without a claim to give back and with nothing to write. *)
LEMMA GotoPlain ==
  ASSUME Ordered, NEW p \in Procs, NEW l, Goto(p, l), l \notin Undo, l /= "commit",
         l \in Starting => pc[p] \in Starting,
         UNCHANGED <<attempts, crashed, job, snap>>, \A q \in Tickers : q /= p => seen'[q] = seen[q],
         \A t \in Tasks : \/ status'[t] = status[t] \/ status'[t] \in {"cancelled", "done"}
                          \/ status'[t] \in {"ready", "todo"} /\ status[t] \in {"absent", "todo", "blocked"}
  PROVE  Plain
<1>1. pc' = [pc EXCEPT ![p] = l] BY DEF Goto
<1>2. \A q \in Procs : pc'[q] \in Undo \/ pc'[q] = "commit" => q /= p /\ pc'[q] = pc[q]
  BY <1>1 DEF Undo, Ordered, TypeOK, ProcsOK
<1>3. Tickers \subseteq Procs BY DEF Procs
<1>4. \A q \in Procs : pc'[q] \in Starting => pc[q] \in Starting
  BY <1>1 DEF Ordered, TypeOK, ProcsOK
<1> QED BY <1>2, <1>3, <1>4 DEF Plain

(* A step of no process. *)
LEMMA AsidePlain ==
  ASSUME UNCHANGED <<attempts, crashed, pc, job, snap, seen>>,
         \A t \in Tasks : \/ status'[t] = status[t] \/ status'[t] \in {"cancelled", "done"}
                          \/ status'[t] \in {"ready", "todo"} /\ status[t] \in {"absent", "todo", "blocked"}
  PROVE  Plain
BY DEF Plain

(* Every step keeps the tally. *)
LEMMA TallyStep ==
  ASSUME Fine, Tallied, Next
  PROVE  Tallied'
<1> USE DEF board, held, found, local, history, input
<1>0. /\ Ordered /\ status \in [Tasks -> Statuses] /\ pc \in [Procs -> TickPCs \cup CallPCs]
      /\ seen \in [Tickers -> [Tasks -> Verdicts]] /\ Tickers \subseteq Procs /\ Tasks \subseteq Procs
      /\ job \in [Procs -> Tasks \cup {NoTask}] /\ snap \in [Procs -> Int]
      /\ \A t \in Tasks : job[t] = t
  BY DEF Fine, Ordered, TypeOK, BoardOK, ProcsOK, FoundOK, Procs, Held
<1>1. ASSUME NEW p \in Tickers, Promote(p) PROVE Tallied'
  <2>1. \A t \in Tasks : status'[t] = status[t] \/ (status'[t] = "ready" /\ status[t] = "todo")
    BY <1>1 DEF Promote
  <2>2. Plain BY <1>0, <1>1, <2>1, GotoPlain DEF Promote, Undo, Starting
  <2> QED BY <2>2, PlainTally
<1>2. ASSUME NEW p \in Tickers, FinalizeRead(p) \/ FinalizeCommit(p) PROVE Tallied'
  BY <1>2, JudgeTally, WriteTally
<1>3. ASSUME NEW p \in Tickers, Notify(p) PROVE Tallied'
  <2>1. CASE UNCHANGED pc
    <3>1. \A q \in Tickers : pc[q] = "commit" => seen'[q] = seen[q] BY <1>0, <1>3 DEF Notify
    <3>2. Plain BY <1>3, <2>1, <3>1 DEF Notify, Plain
    <3> QED BY <3>2, PlainTally
  <2>2. CASE Goto(p, "claim") /\ UNCHANGED seen
    <3>1. Plain BY <1>0, <1>3, <2>2, GotoPlain DEF Notify, Undo, Starting
    <3> QED BY <3>1, PlainTally
  <2> QED BY <1>3, <2>1, <2>2 DEF Notify
<1>4. ASSUME NEW p \in Tickers, TickClaim(p) PROVE Tallied'
  BY <1>0, <1>4, ClaimTally DEF TickClaim
<1>5. ASSUME NEW p \in Tickers, TickEnds(p) PROVE Tallied'
  <2>1. \A q \in Tickers : q /= p => seen'[q] = seen[q] BY <1>0, <1>5 DEF TickEnds, Over
  <2>2. Plain BY <1>0, <1>5, <2>1, DropPlain DEF TickEnds, Over
  <2> QED BY <2>2, PlainTally
<1>6. ASSUME NEW p \in Tickers, BlockClaim(p) PROVE Tallied'
  <2>1. CASE Drop(p, "claim") /\ UNCHANGED <<status, attempts>>
    <3>1. Plain BY <1>0, <1>6, <2>1, DropPlain DEF BlockClaim
    <3> QED BY <3>1, PlainTally
  <2>2. CASE /\ status' = [status EXCEPT ![job[p]] = "blocked"]
             /\ attempts' = [attempts EXCEPT ![job[p]] = @ - 1]
             /\ Goto(p, "tell") /\ UNCHANGED <<held, input>>
    BY <1>0, <1>6, <2>2, SettleTally DEF BlockClaim, Goto
  <2> QED BY <1>6, <2>1, <2>2 DEF BlockClaim
<1>7. ASSUME NEW p \in Tickers, TellBlocked(p) PROVE Tallied'
  <2>1. Plain BY <1>0, <1>7, DropPlain DEF TellBlocked
  <2> QED BY <2>1, PlainTally
<1>8. ASSUME NEW p \in Tickers, Rollback(p) PROVE Tallied'
  <2>1. CASE UNCHANGED <<status, crashed>>
    <3>1. Plain BY <1>0, <1>8, <2>1, DropPlain DEF Rollback
    <3> QED BY <3>1, PlainTally
  <2>2. CASE /\ status' = [status EXCEPT ![job[p]] = "ready"]
             /\ crashed' = [crashed EXCEPT ![job[p]] = @ + 1]
    <3>1. \A q \in Procs : q /= p => job'[q] = job[q] /\ snap'[q] = snap[q]
      BY <1>0, <1>8 DEF Rollback, Drop
    <3> QED BY <1>0, <1>8, <2>2, <3>1, SettleTally DEF Rollback, Drop, Goto
  <2> QED BY <1>8, <2>1, <2>2 DEF Rollback, Try
<1>9. ASSUME NEW t \in Tasks, Insert(t) PROVE Tallied'
  <2>1. status[t] = "absent" BY <1>9 DEF Insert, Fine, Linked
  <2>2. \A u \in Tasks : status'[u] = status[u] \/ (status'[u] \in {"ready", "todo"} /\ status[u] = "absent")
    BY <1>0, <1>9, <2>1 DEF Insert
  <2>3. PICK l \in {"eager", "idle"} : Goto(t, l) BY <1>9 DEF Insert
  <2>4. Plain BY <1>0, <1>9, <2>2, <2>3, GotoPlain DEF Insert, Undo, Starting
  <2> QED BY <2>4, PlainTally
<1>10. ASSUME NEW t \in Tasks, EagerClaim(t) PROVE Tallied'
  BY <1>0, <1>10, ClaimTally DEF EagerClaim
<1>11. ASSUME NEW t \in Tasks, EagerLost(t) PROVE Tallied'
  <2>1. Plain BY <1>0, <1>11, GotoPlain DEF EagerLost, Undo, Starting
  <2> QED BY <2>1, PlainTally
<1>12. ASSUME NEW t \in Tasks, HandBack(t) PROVE Tallied'
  <2>1. CASE UNCHANGED <<status, attempts>>
    <3>1. Plain BY <1>0, <1>12, <2>1, DropPlain DEF HandBack, Over
    <3> QED BY <3>1, PlainTally
  <2>2. CASE /\ status' = [status EXCEPT ![t] = "ready"]
             /\ attempts' = [attempts EXCEPT ![t] = @ - 1]
    <3>1. \A q \in Procs : q /= t => job'[q] = job[q] /\ snap'[q] = snap[q]
      BY <1>0, <1>12 DEF HandBack, Over, Drop
    <3>2. status' = [status EXCEPT ![job[t]] = "ready"] /\ attempts' = [attempts EXCEPT ![job[t]] = @ - 1]
      BY <1>0, <2>2
    <3> QED BY <1>0, <1>12, <3>1, <3>2, SettleTally DEF HandBack, Over, Drop, Goto
  <2> QED BY <1>12, <2>1, <2>2 DEF HandBack, Try
<1>13. ASSUME NEW p \in Procs, Spawn(p) PROVE Tallied'
  <2>1. Plain BY <1>0, <1>13, GotoPlain DEF Spawn, Undo, Starting
  <2> QED BY <2>1, PlainTally
<1>14. ASSUME NEW p \in Procs, Wire(p) PROVE Tallied'
  <2>1. Plain BY <1>0, <1>14, GotoPlain DEF Wire, Undo, Starting
  <2> QED BY <2>1, PlainTally
<1>15. ASSUME NEW p \in Procs, Enqueue(p) PROVE Tallied'
  <2>1. PICK l \in {"idle", "claim"} : Drop(p, l) BY <1>15 DEF Enqueue
  <2>2. Plain BY <1>0, <1>15, <2>1, DropPlain DEF Enqueue
  <2> QED BY <2>2, PlainTally
<1>16. ASSUME NEW p \in Procs, SpawnFails(p) PROVE Tallied'
  <2>1. PICK l \in {"handBack", "block", "rollback"} :
          Goto(p, l) /\ (l = "rollback" => ~(snap[p] >= MaxAttempts))
    BY <1>16 DEF SpawnFails
  <2>2. pc' = [pc EXCEPT ![p] = l] /\ pc[p] = "spawn" BY <1>16, <2>1 DEF SpawnFails, Goto
  <2>3. \A q \in Procs : pc'[q] \in Undo =>
          pc[q] \in Undo /\ (pc'[q] = "rollback" => pc[q] = "rollback" \/ snap[q] < MaxAttempts)
    BY <1>0, <2>1, <2>2, AttemptsAssumption DEF Undo
  <2>4. \A q \in Tickers : /\ pc'[q] = "commit" => pc[q] = "commit"
                           /\ pc'[q] \in Starting => pc[q] \in Starting
    BY <1>0, <2>2 DEF Starting
  <2>5. Plain BY <1>16, <2>3, <2>4 DEF Plain, SpawnFails
  <2> QED BY <2>5, PlainTally
<1>17. ASSUME NEW p \in Procs, Raises(p) \/ Dies(p) PROVE Tallied'
  <2>1. \A q \in Tickers : q /= p => seen'[q] = seen[q] BY <1>0, <1>17 DEF Raises, Dies, Over
  <2>2. Plain BY <1>0, <1>17, <2>1, DropPlain DEF Raises, Dies, Over
  <2> QED BY <2>2, PlainTally
<1>18. ASSUME NEW s \in DOMAIN sess, WorkerBlock(s) PROVE Tallied'
  BY <1>18, BlockTally
<1>19. ASSUME NEW s \in DOMAIN sess, WorkerComplete(s) PROVE Tallied'
  <2>1. \A t \in Tasks : status'[t] \in {status[t], "done"}
    BY <1>0, <1>19 DEF WorkerComplete
  <2>2. Plain BY <1>19, <2>1, AsidePlain DEF WorkerComplete
  <2> QED BY <2>2, PlainTally
<1>20. ASSUME NEW s \in DOMAIN sess, Work(s), ~WorkerComplete(s), ~WorkerBlock(s) PROVE Tallied'
  <2>1. UNCHANGED <<status, attempts, crashed, pc, job, snap, seen>>
    BY <1>20 DEF Work, WorkerBlockTells, TurnEnds, Close, Report, WorkerDies, Sweep, Pause, Resume
  <2>2. Plain BY <2>1, AsidePlain
  <2> QED BY <2>2, PlainTally
<1>21. CASE Coordinate
  <2>1. UNCHANGED <<attempts, crashed, pc, job, snap, seen>>
    BY <1>21 DEF Coordinate, Unblock, Cancel, CascadeRead, CascadeUpdate, CascadePublish
  <2>2. \A t \in Tasks : \/ status'[t] \in {status[t], "cancelled"}
                         \/ status'[t] = "ready" /\ status[t] = "blocked"
    BY <1>0, <1>21 DEF Coordinate, Unblock, Cancel, CascadeRead, CascadeUpdate, CascadePublish
  <2>3. Plain BY <2>1, <2>2, AsidePlain
  <2> QED BY <2>3, PlainTally
<1> QED BY <1>1, <1>2, <1>3, <1>4, <1>5, <1>6, <1>7, <1>8, <1>9, <1>10, <1>11, <1>12, <1>13, <1>14, <1>15, <1>16, <1>17, <1>18, <1>19, <1>20, <1>21
        DEF Next, Tick, Call, Start, Faults, Work

(* The links and the ends hold throughout, with any number of ticks. *)
LEMMA FineAlways == Spec => []Fine
<1>1. Init => Fine
  <2> SUFFICES ASSUME Init PROVE Fine OBVIOUS
  <2>1. Ordered BY OrderInit
  <2>2. Ending BY DEF Init, Ending
  <2>3. /\ \A p \in Procs : pc[p] \in {"idle", "none"}
        /\ \A t \in Tasks : cur[t] = 0 /\ pc[t] = "none" /\ status[t] = "absent"
        /\ begun = {} /\ \A p \in Tickers, t \in Tasks : seen[p][t] = "none"
    <3>1. Ticking[left] \subseteq Tickers BY TickingAssumption DEF Init
    <3> QED BY <3>1, TickersAssumption DEF Init, Procs, NoVerdict
  <2>4. Linked BY <2>3 DEF Linked
  <2> QED BY <2>1, <2>2, <2>4 DEF Fine
<1>2. Fine /\ Ordered' /\ [Next]_vars => Fine'
  <2>1. ASSUME Fine, Ordered', Next PROVE Fine'
    BY <2>1, LinkStep, EndStep DEF Fine
  <2>2. ASSUME Fine, Ordered', UNCHANGED vars PROVE Fine'
    BY <2>2 DEF Fine, Linked, Ending, Attempts, Sure, vars
  <2> QED BY <2>1, <2>2
<1> QED BY <1>1, <1>2, InOrder, PTL DEF Spec

(* A done, failed or cancelled task is changed only by a write that knows it by its id: a
   tick's verdict read before, or a claim given up.  Every other step of every process
   asks for a status first, for any number of ticks, calls and sessions. *)
THEOREM StaySettled == Spec => SettledStays
<1> DEFINE Kept == \A t \in Tasks :
                     status[t] \in Terminal /\ (\A p \in Procs : ~Undoing(p, t)) => status'[t] = status[t]
<1>1. ASSUME Fine, Next PROVE Kept
  <2>0. /\ status \in [Tasks -> Statuses] /\ Tickers \subseteq Procs /\ Tasks \subseteq Procs
        /\ \A t \in Tasks : job[t] = t
    BY <1>1 DEF Fine, Ordered, TypeOK, BoardOK, Held, Procs
  <2>1. ASSUME status' = status PROVE Kept
    BY <2>1
  <2>2. ASSUME NEW p \in Tickers, Tick(p) PROVE Kept
    <3>1. CASE Notify(p) \/ FinalizeRead(p) \/ TickEnds(p) \/ TellBlocked(p)
      BY <2>1, <3>1 DEF Notify, FinalizeRead, TickEnds, TellBlocked, board
    <3>2. CASE Promote(p) \/ TickClaim(p)
      BY <2>0, <3>2 DEF Promote, TickClaim, Claim, Terminal
    <3>3. CASE FinalizeCommit(p)
      BY <2>0, <2>2, <3>3 DEF FinalizeCommit, Undoing
    <3>4. CASE BlockClaim(p) \/ Rollback(p)
      BY <2>0, <2>2, <3>4 DEF BlockClaim, Rollback, Try, Undoing
    <3> QED BY <2>2, <3>1, <3>2, <3>3, <3>4 DEF Tick
  <2>3. ASSUME NEW t \in Tasks, Call(t) PROVE Kept
    <3>1. CASE Insert(t)
      <4>1. status[t] = "absent"
        BY <1>1, <3>1 DEF Insert, Fine, Linked
      <4> QED BY <2>0, <3>1, <4>1 DEF Insert, Terminal
    <3>2. CASE EagerClaim(t)
      BY <2>0, <3>2 DEF EagerClaim, Claim, Terminal
    <3>3. CASE EagerLost(t)
      BY <2>1, <3>3 DEF EagerLost, board
    <3>4. CASE HandBack(t)
      BY <2>0, <3>4 DEF HandBack, Try, Undoing
    <3> QED BY <2>3, <3>1, <3>2, <3>3, <3>4 DEF Call
  <2>4. ASSUME NEW p \in Procs, Start(p) \/ Faults(p) PROVE Kept
    BY <2>1, <2>4 DEF Start, Faults, Spawn, Wire, Enqueue, SpawnFails, Raises, Dies, board
  <2>5. ASSUME NEW s \in DOMAIN sess, Work(s) PROVE Kept
    <3>1. CASE WorkerComplete(s) \/ WorkerBlock(s)
      BY <2>0, <3>1 DEF WorkerComplete, WorkerBlock, Current, Terminal
    <3>2. CASE ~(WorkerComplete(s) \/ WorkerBlock(s))
      BY <2>1, <2>5, <3>2 DEF Work, WorkerBlockTells, TurnEnds, Close, Report, WorkerDies, Sweep,
                              Pause, Resume, board
    <3> QED BY <3>1, <3>2
  <2>6. ASSUME Coordinate PROVE Kept
    BY <2>0, <2>6 DEF Coordinate, Unblock, Cancel, CascadeRead, CascadeUpdate, CascadePublish,
                      Terminal, board
  <2> QED BY <1>1, <2>2, <2>3, <2>4, <2>5, <2>6 DEF Next
<1>2. Fine /\ [Next]_vars => [Kept]_vars
  BY <1>1
<1> QED BY <1>2, FineAlways, PTL DEF Spec, SettledStays

(* The tally holds throughout. *)
LEMMA TalliedAlways == Spec => []Tallied
<1>1. Init => Tallied
  <2> SUFFICES ASSUME Init PROVE Tallied OBVIOUS
  <2>1. /\ \A p \in Procs : pc[p] \in {"idle", "none"}
        /\ \A p \in Tickers, t \in Tasks : seen[p][t] = "none"
        /\ \A t \in Tasks : crashed[t] = 0 /\ attempts[t] = 0 /\ status[t] = "absent"
    BY DEF Init, Procs, NoVerdict
  <2>2. \A t \in Tasks : ~Pend(t) BY <2>1 DEF Pend, Judges
  <2>3. \A p \in Procs : pc[p] \notin Undo BY <2>1 DEF Undo
  <2>4. Judged /\ Holding BY <2>2, <2>3 DEF Judged, Holding, Clear
  <2>5. \A t \in Tasks : ~Open(t) BY <2>1, <2>2, <2>3 DEF Open, Holds
  <2>6. Counted BY <2>1, <2>5, AttemptsAssumption DEF Counted, Clear
  <2> QED BY <2>4, <2>6 DEF Tallied
<1>2. Tallied /\ Fine /\ [Next]_vars => Tallied'
  <2>1. ASSUME Tallied, Fine, Next PROVE Tallied' BY <2>1, TallyStep
  <2>2. ASSUME Tallied, UNCHANGED vars PROVE Tallied'
    BY <2>2 DEF Tallied, Muddled, Judged, Holding, Counted, Pend, Judges, Apart, Clear, Open, Holds,
                Quiet, vars
  <2> QED BY <2>1, <2>2
<1> QED BY <1>1, <1>2, FineAlways, PTL DEF Spec

(* However many ticks run, no task that no two of them judged at once is tried and
   crashes more often than max_attempts allows, for any tasks, calls, cancels and losses,
   as long as the history holds no two of a worker's block, a stopped worker and a failed
   spawn. *)
THEOREM CrashesAreBounded == Spec => []CrashesBounded
<1>1. Tallied /\ Ordered => CrashesBounded
  <2> SUFFICES ASSUME Tallied, Ordered, ~Muddled, NEW t \in Tasks \ crossed PROVE crashed[t] <= MaxAttempts
    BY DEF CrashesBounded
  <2>1. crashed[t] <= attempts[t] /\ attempts[t] <= MaxAttempts BY DEF Tallied, Counted, Clear
  <2>2. crashed[t] \in Nat /\ attempts[t] \in Int BY DEF Ordered, TypeOK, PastOK, BoardOK
  <2> QED BY <2>1, <2>2, AttemptsAssumption
<1> QED BY <1>1, TalliedAlways, InOrder, PTL

(* ------------------------- one attempt at a time ----------------------- *)

\* Nothing was lost, raised or died, and no worker blocked or was stopped.
Smooth == met \cap {"fails", "losses", "blocks", "pauses", "deaths"} = {}

Acts(p, t) == pc[p] \in Starting /\ job[p] = t

\* A task that waits has no session at work and no process; one that runs has the session
\* it names, or a process that is about to give it one.
Waiting == \A t \in Clear : status[t] \in {"absent", "todo", "ready", "blocked"} =>
             /\ \A s \in Attempts(t) : ~Live(s)
             /\ \A p \in Procs : ~Acts(p, t)
Running == \A t \in Clear : status[t] = "running" =>
             \/ \A s \in Attempts(t) : Live(s) => s = cur[t]
             \/ \E p \in Procs : Acts(p, t)

\* A process is alone with the task it has claimed: there is no session at work before it
\* has spawned one, and none but that one after.
Serving == \A p \in Procs : pc[p] \in Starting /\ job[p] \in Clear =>
             /\ \A q \in Procs : Acts(q, job[p]) => q = p
             /\ pc[p] \in Undo => \A s \in Attempts(job[p]) : ~Live(s)
             /\ pc[p] \in {"wire", "enqueue"} => \A s \in Attempts(job[p]) : Live(s) => s = child[p]
             /\ pc[p] = "enqueue" => cur[job[p]] = child[p]

\* A task judged as crashed waits for no other tick, has no session at work, and its call
\* is over.
Dead == \A t \in Clear : Pend(t) =>
          /\ Apart(t) /\ status[t] \in {"running", "cancelled", "done"}
          /\ pc[t] = "idle" /\ \A s \in Attempts(t) : ~Live(s)
Single == \A t \in Clear : \A r, s \in Attempts(t) : Live(r) /\ Live(s) => r = s

Alone == Smooth => Waiting /\ Running /\ Serving /\ Dead /\ Single

\* A step that starts, wires and ends no attempt.
Gentle ==
  /\ \A p \in Procs : pc'[p] \in Starting =>
       /\ pc[p] \in Starting /\ job'[p] = job[p] /\ child'[p] = child[p]
       /\ pc'[p] \in Undo => pc[p] \in Undo
       /\ pc'[p] \in {"wire", "enqueue"} => pc'[p] = pc[p]
  /\ \A p \in Procs : pc[p] \in Starting => pc'[p] \in Starting
  /\ \A p \in Tickers : pc'[p] = "commit" => pc[p] = "commit" /\ seen'[p] = seen[p]
  /\ UNCHANGED cur /\ DOMAIN sess' = DOMAIN sess
  /\ \A t \in Tasks : \/ status'[t] = status[t] \/ status'[t] \in {"cancelled", "done"}
                      \/ status'[t] \in {"ready", "todo"} /\ status[t] \in {"absent", "todo", "blocked"}

(* No session of the past comes to life, and none changes hands. *)
LEMMA LiveFades ==
  ASSUME Fine, Next, Smooth'
  PROVE  /\ Smooth
         /\ \A s \in DOMAIN sess : /\ s \in DOMAIN sess' /\ sess'[s].task = sess[s].task
                                   /\ Live(s)' => Live(s)
<1>1. Smooth /\ "pauses" \notin met /\ "pauses" \notin met' BY MetGrows DEF Smooth
<1>2. OldMove BY SessGoes DEF Fine
<1>3. ASSUME NEW s \in DOMAIN sess, sess'[s].status = "active", sess'[s].stage \in {"idle", "turn", "telling"}
      PROVE  sess[s].status = "active" /\ sess[s].stage \in {"idle", "turn", "telling"}
  <2>1. Moves(sess[s], sess'[s]) BY <1>2 DEF OldMove
  <2>2. sess[s].status /= "active" => sess[s].stage \in {"reporting", "rest"} /\ sess[s].status /= "paused"
    BY <1>1 DEF Fine, Ending
  <2> QED BY <1>3, <2>1, <2>2 DEF Moves
<1> QED BY <1>1, <1>2, <1>3 DEF OldMove, Moves, Live

(* A call that has nothing of t's in hand keeps out of it while it is judged. *)
LEMMA GentleAlone ==
  ASSUME Fine, Next, Alone, Gentle
  PROVE  Alone'
<1> SUFFICES ASSUME Smooth' PROVE Waiting' /\ Running' /\ Serving' /\ Dead' /\ Single'
  BY DEF Alone
<1>0. \A u \in Clear' : u \in Clear /\ u \in Tasks BY ClearShrinks
<1>1. /\ Waiting /\ Running /\ Serving /\ Dead /\ Single
      /\ \A s \in DOMAIN sess : /\ s \in DOMAIN sess' /\ sess'[s].task = sess[s].task
                                /\ Live(s)' => Live(s)
  BY LiveFades DEF Alone
<1>2. \A t \in Tasks : \A s \in Attempts(t)' : s \in Attempts(t) /\ (Live(s)' => Live(s))
  BY <1>1 DEF Attempts, Gentle
<1>3. \A p \in Procs, t \in Tasks : Acts(p, t)' <=> Acts(p, t)
  <2>1. \A p \in Procs, t \in Tasks : pc'[p] \in Starting /\ job'[p] = t <=> pc[p] \in Starting /\ job[p] = t
    BY DEF Gentle
  <2> QED BY <2>1 DEF Acts
<1>4. \A t \in Tasks : Pend(t)' => Pend(t)
  BY DEF Gentle, Pend, Judges
<1>5. \A t \in Tasks : status'[t] \in {"absent", "todo", "ready", "blocked"}
         => status[t] \in {"absent", "todo", "ready", "blocked"}
  BY DEF Gentle
<1>6. \A t \in Tasks : status'[t] = "running" => status[t] = "running" BY DEF Gentle
<1>7. Waiting' BY <1>0, <1>1, <1>2, <1>3, <1>5 DEF Waiting
<1>8. Running' BY <1>0, <1>1, <1>2, <1>3, <1>6 DEF Running, Gentle
<1>9. \A p \in Procs : pc[p] \in Starting => job[p] \in Tasks
  BY DEF Starting, Fine, Ordered, Held, Working, TypeOK, PastOK
<1>10. Serving'
  <2> SUFFICES ASSUME NEW p \in Procs, pc'[p] \in Starting, job'[p] \in Clear'
               PROVE  /\ \A q \in Procs : pc'[q] \in Starting /\ job'[q] = job'[p] => q = p
                      /\ pc'[p] \in Undo => \A s \in DOMAIN sess' : sess'[s].task = job'[p] => ~Live(s)'
                      /\ pc'[p] \in {"wire", "enqueue"} =>
                           \A s \in DOMAIN sess' : sess'[s].task = job'[p] => (Live(s)' => s = child'[p])
                      /\ pc'[p] = "enqueue" => cur'[job'[p]] = child'[p]
    BY DEF Serving, Acts, Attempts
  <2>1. pc[p] \in Starting /\ job'[p] = job[p] /\ child'[p] = child[p] /\ job[p] \in Tasks /\ job[p] \in Clear
    BY <1>0, <1>9 DEF Gentle
  <2>2. \A q \in Procs : pc'[q] \in Starting /\ job'[q] = job'[p] => q = p
    BY <1>1, <2>1 DEF Serving, Acts, Gentle
  <2>3. \A s \in DOMAIN sess' : sess'[s].task = job'[p] => s \in Attempts(job[p]) /\ (Live(s)' => Live(s))
    BY <1>1, <2>1 DEF Gentle, Attempts
  <2> QED BY <1>1, <2>1, <2>2, <2>3 DEF Serving, Gentle
<1>11. Dead'
  <2>1. ASSUME NEW t \in Clear', Pend(t)'
        PROVE  /\ Apart(t)' /\ status'[t] \in {"running", "cancelled", "done"}
               /\ pc'[t] = "idle" /\ \A s \in Attempts(t)' : ~Live(s)'
    <3>1. /\ t \in Tasks /\ Apart(t) /\ status[t] \in {"running", "cancelled", "done"}
          /\ pc[t] = "idle" /\ \A s \in Attempts(t) : ~Live(s)
      BY <1>0, <1>1, <1>4, <2>1 DEF Dead
    <3>2. Tickers \subseteq Procs BY DEF Procs
    <3>3. /\ \A p \in Tickers : pc'[p] = "commit" => pc[p] = "commit" /\ seen'[p] = seen[p]
          /\ \A p \in Tickers : pc'[p] \in Starting /\ job'[p] = t => pc[p] \in Starting /\ job[p] = t
      BY <3>2 DEF Gentle
    <3>4. Apart(t)' BY <3>1, <3>3, ApartKept
    <3>5. status'[t] \in {"running", "cancelled", "done"} BY <3>1 DEF Gentle
    <3> QED BY <1>2, <3>1, <3>4, <3>5, CallOver DEF Fine
  <2> QED BY <2>1 DEF Dead
<1>12. Single' BY <1>0, <1>1, <1>2 DEF Single
<1> QED BY <1>7, <1>8, <1>10, <1>11, <1>12

(* A claim is of a task that waits. *)
LEMMA ClaimAlone ==
  ASSUME Fine, Next, Alone, NEW p \in Procs, NEW t \in Tasks, Claim(p, t),
         pc[p] \in {"claim", "eager"}
  PROVE  Alone'
<1> SUFFICES ASSUME Smooth' PROVE Waiting' /\ Running' /\ Serving' /\ Dead' /\ Single'
  BY DEF Alone
<1>0. \A u \in Clear' : u \in Clear /\ u \in Tasks BY ClearShrinks
<1>1. Waiting /\ Running /\ Serving /\ Dead /\ Single
  BY LiveFades DEF Alone
<1>2. /\ status \in [Tasks -> Statuses] /\ pc \in [Procs -> TickPCs \cup CallPCs]
      /\ job \in [Procs -> Tasks \cup {NoTask}] /\ Tickers \subseteq Procs
      /\ \A q \in Procs : pc[q] \in Starting => job[q] \in Tasks
  BY DEF Fine, Ordered, TypeOK, BoardOK, ProcsOK, Held, Starting, Working, PastOK, Procs
<1>3. /\ status[t] = "ready" /\ status' = [status EXCEPT ![t] = "running"]
      /\ job' = [job EXCEPT ![p] = t] /\ pc' = [pc EXCEPT ![p] = "spawn"]
      /\ UNCHANGED <<seen, cur, sess, child>>
  BY DEF Claim, Goto, found
<1>4. \A q \in Procs : /\ q /= p => pc'[q] = pc[q] /\ job'[q] = job[q]
                       /\ q = p => pc'[q] = "spawn" /\ job'[q] = t
  BY <1>2, <1>3
<1>5. t \in Clear => /\ \A s \in Attempts(t) : ~Live(s)
                     /\ \A q \in Procs : ~Acts(q, t)
  BY <1>1, <1>3 DEF Waiting
<1>6. \A u \in Tasks : Attempts(u)' = Attempts(u) /\ \A s \in DOMAIN sess : Live(s)' = Live(s)
  BY <1>3 DEF Attempts, Live
<1>7. \A u \in Tasks : u /= t => status'[u] = status[u] /\ \A q \in Procs : Acts(q, u)' <=> Acts(q, u)
  BY <1>2, <1>3, <1>4 DEF Acts, Starting
<1>8. status'[t] = "running" /\ Acts(p, t)' BY <1>2, <1>3, <1>4 DEF Acts, Starting
<1>9. Waiting' BY <1>0, <1>1, <1>6, <1>7, <1>8 DEF Waiting, Attempts
<1>10. Running' BY <1>0, <1>1, <1>3, <1>6, <1>7, <1>8 DEF Running, Attempts
<1>11. Serving'
  <2> SUFFICES ASSUME NEW r \in Procs, pc'[r] \in Starting, job'[r] \in Clear'
               PROVE  /\ \A q \in Procs : pc'[q] \in Starting /\ job'[q] = job'[r] => q = r
                      /\ pc'[r] \in Undo => \A s \in DOMAIN sess' : sess'[s].task = job'[r] => ~Live(s)'
                      /\ pc'[r] \in {"wire", "enqueue"} =>
                           \A s \in DOMAIN sess' : sess'[s].task = job'[r] => (Live(s)' => s = child'[r])
                      /\ pc'[r] = "enqueue" => cur'[job'[r]] = child'[r]
    BY DEF Serving, Acts, Attempts
  <2>1. CASE r = p
    <3>0. t \in Clear BY <1>0, <1>4, <2>1
    <3>1. \A q \in Procs : pc'[q] \in Starting /\ job'[q] = t => q = p BY <1>4, <1>5, <3>0 DEF Acts
    <3>2. \A s \in DOMAIN sess' : sess'[s].task = t => ~Live(s)' BY <1>3, <1>5, <1>6, <3>0 DEF Attempts
    <3> QED BY <1>4, <2>1, <3>1, <3>2
  <2>2. CASE r /= p
    <3>1. pc'[r] = pc[r] /\ job'[r] = job[r] /\ job[r] /= t /\ pc[r] \in Starting /\ job[r] \in Clear
      BY <1>0, <1>4, <1>5, <2>2 DEF Acts
    <3>2. \A q \in Procs : pc'[q] \in Starting /\ job'[q] = job'[r] => q = r
      BY <1>1, <1>4, <3>1 DEF Serving, Acts
    <3> QED BY <1>1, <1>3, <1>6, <3>1, <3>2 DEF Serving, Attempts
  <2> QED BY <2>1, <2>2
<1>12. \A u \in Tasks : Pend(u)' => Pend(u) BY <1>2, <1>3 DEF Pend, Judges
<1>13. Dead'
  <2>1. ASSUME NEW u \in Clear', Pend(u)'
        PROVE  /\ Apart(u)' /\ status'[u] \in {"running", "cancelled", "done"}
               /\ pc'[u] = "idle" /\ \A s \in Attempts(u)' : ~Live(s)'
    <3>1. /\ u \in Tasks /\ Apart(u) /\ status[u] \in {"running", "cancelled", "done"}
          /\ pc[u] = "idle" /\ \A s \in Attempts(u) : ~Live(s)
      BY <1>0, <1>1, <1>12, <2>1 DEF Dead
    <3>2. u /= t BY <1>3, <3>1
    <3>3. /\ \A q \in Tickers : pc'[q] = "commit" => pc[q] = "commit" /\ seen'[q] = seen[q]
          /\ \A q \in Tickers : pc'[q] \in Starting /\ job'[q] = u => pc[q] \in Starting /\ job[q] = u
      BY <1>2, <1>3, <1>4, <3>2
    <3>4. Apart(u)' BY <3>1, <3>3, ApartKept
    <3> QED BY <1>6, <1>7, <3>1, <3>2, <3>4, CallOver DEF Attempts, Fine
  <2> QED BY <2>1 DEF Dead
<1>14. Single' BY <1>0, <1>1, <1>6 DEF Single, Attempts
<1> QED BY <1>9, <1>10, <1>11, <1>13, <1>14

(* The tick judges a task whose session has ended: there was no other. *)
LEMMA JudgeAlone ==
  ASSUME Fine, Next, Alone, NEW p \in Tickers, FinalizeRead(p)
  PROVE  Alone'
<1> SUFFICES ASSUME Smooth' PROVE Waiting' /\ Running' /\ Serving' /\ Dead' /\ Single'
  BY DEF Alone
<1>0. \A u \in Clear' : u \in Clear /\ u \in Tasks BY ClearShrinks
<1>1. Waiting /\ Running /\ Serving /\ Dead /\ Single
  BY LiveFades DEF Alone
<1>2. /\ pc \in [Procs -> TickPCs \cup CallPCs] /\ seen \in [Tickers -> [Tasks -> Verdicts]]
      /\ Tickers \subseteq Procs /\ \A t \in Tasks : job[t] = t
  BY DEF Fine, Ordered, TypeOK, ProcsOK, FoundOK, Held, Procs
<1>3. /\ pc[p] = "read" /\ pc' \in {[pc EXCEPT ![p] = "claim"], [pc EXCEPT ![p] = "commit"]}
      /\ \A t \in Tasks : seen'[p][t] = Verdict(t)
      /\ \A q \in Tickers : q /= p => seen'[q] = seen[q]
      /\ crossed' = crossed \cup Crossing(p)
      /\ UNCHANGED <<status, cur, sess, job, child, met>>
  BY <1>2 DEF FinalizeRead, Goto, board, held, input
<1>4. \A q \in Procs : q /= p => pc'[q] = pc[q] BY <1>2, <1>3
<1>5. \A q \in Procs : (pc'[q] \in Starting \/ pc[q] \in Starting) => q /= p /\ pc'[q] = pc[q]
  BY <1>2, <1>3 DEF Starting
<1>6. \A q \in Procs, t \in Tasks : Acts(q, t)' <=> Acts(q, t)
  <2>1. \A q \in Procs, t \in Tasks : pc'[q] \in Starting /\ job'[q] = t <=> pc[q] \in Starting /\ job[q] = t
    BY <1>3, <1>5
  <2> QED BY <2>1 DEF Acts
<1>7. \A t \in Tasks : Attempts(t)' = Attempts(t) /\ \A s \in DOMAIN sess : Live(s)' = Live(s)
  BY <1>3 DEF Attempts, Live
<1>8. Waiting' /\ Running' /\ Single'
  BY <1>0, <1>1, <1>3, <1>6, <1>7 DEF Waiting, Running, Single, Attempts
<1>9. Serving'
  <2> SUFFICES ASSUME NEW r \in Procs, pc'[r] \in Starting, job'[r] \in Clear'
               PROVE  /\ \A q \in Procs : pc'[q] \in Starting /\ job'[q] = job'[r] => q = r
                      /\ pc'[r] \in Undo => \A s \in DOMAIN sess' : sess'[s].task = job'[r] => ~Live(s)'
                      /\ pc'[r] \in {"wire", "enqueue"} =>
                           \A s \in DOMAIN sess' : sess'[s].task = job'[r] => (Live(s)' => s = child'[r])
                      /\ pc'[r] = "enqueue" => cur'[job'[r]] = child'[r]
    BY DEF Serving, Acts, Attempts
  <2>1. pc'[r] = pc[r] /\ job[r] \in Clear BY <1>0, <1>3, <1>5
  <2>2. \A q \in Procs : pc'[q] \in Starting /\ job'[q] = job'[r] => q = r
    BY <1>1, <1>3, <1>5, <2>1 DEF Serving, Acts
  <2>3. \A s \in DOMAIN sess' : sess'[s].task = job'[r] => s \in Attempts(job[r]) /\ (Live(s)' <=> Live(s))
    BY <1>3 DEF Attempts, Live
  <2> QED BY <1>1, <1>3, <2>1, <2>2, <2>3 DEF Serving
<1>10. ASSUME NEW t \in Clear', seen'[p][t] \in {"ready", "failed"}
       PROVE  /\ Apart(t)' /\ status'[t] \in {"running", "cancelled", "done"}
              /\ pc'[t] = "idle" /\ \A s \in Attempts(t)' : ~Live(s)'
  <2>1. t \in Tasks /\ t \in Clear /\ Verdict(t) \in {"ready", "failed"} BY <1>0, <1>3, <1>10
  <2>2. status[t] = "running" /\ cur[t] /= 0 /\ sess[cur[t]].status /= "active"
    BY <2>1 DEF Verdict, Ended
  <2>3. pc[t] = "idle"
    <3>1. cur[t] \in DOMAIN sess /\ sess[cur[t]].task = t BY <2>1, <2>2 DEF Fine, Linked, Attempts
    <3>2. "pauses" \notin met BY <1>3 DEF Smooth
    <3> QED BY <2>2, <3>1, <3>2 DEF Fine, Ending
  <2>4. \A q \in Tickers \ {p} : ~(pc[q] = "commit" /\ seen[q][t] /= "none") /\ ~(pc[q] \in Starting /\ job[q] = t)
    BY <1>3, <1>10, <2>1 DEF Clear, Crossing
  <2>5. \A q \in Procs : ~Acts(q, t)
    BY <1>2, <1>3, <2>3, <2>4 DEF Acts, Starting, Procs
  <2>6. \A s \in Attempts(t) : ~Live(s)
    <3>1. \A s \in Attempts(t) : Live(s) => s = cur[t] BY <1>1, <2>1, <2>2, <2>5 DEF Running
    <3> QED BY <2>2, <3>1 DEF Live
  <2>7. Apart(t)'
    <3>1. \A q \in Tickers : pc'[q] \in Starting => job'[q] /= t
      BY <1>2, <1>3, <1>5, <2>5 DEF Acts
    <3>2. \A q \in Tickers : q /= p => ~(pc'[q] = "commit" /\ seen'[q][t] \in {"ready", "failed"})
      BY <1>2, <1>3, <1>4, <2>4
    <3> QED BY <3>1, <3>2 DEF Apart, Judges
  <2> QED BY <1>3, <1>7, <2>1, <2>2, <2>3, <2>6, <2>7, CallOver DEF Fine, Attempts
<1>11. ASSUME NEW t \in Clear', Pend(t)', seen'[p][t] \notin {"ready", "failed"}
       PROVE  /\ Apart(t)' /\ status'[t] \in {"running", "cancelled", "done"}
              /\ pc'[t] = "idle" /\ \A s \in Attempts(t)' : ~Live(s)'
  <2>1. \A q \in Tickers : Judges(q, t)' => q /= p /\ Judges(q, t)
    <3>1. \A q \in Tickers : pc'[q] = "commit" /\ seen'[q][t] \in {"ready", "failed"}
             => q /= p /\ pc[q] = "commit" /\ seen[q][t] \in {"ready", "failed"}
      BY <1>2, <1>3, <1>4, <1>11
    <3> QED BY <3>1 DEF Judges
  <2>2. Pend(t) BY <1>11, <2>1 DEF Pend
  <2>3. /\ t \in Tasks /\ Apart(t) /\ status[t] \in {"running", "cancelled", "done"}
        /\ pc[t] = "idle" /\ \A s \in Attempts(t) : ~Live(s)
    BY <1>0, <1>1, <2>2 DEF Dead
  <2>4. Apart(t)'
    <3>1. \A q \in Tickers : pc'[q] \in Starting => job'[q] /= t
      BY <1>2, <1>3, <1>5, <2>3 DEF Apart
    <3> QED BY <2>1, <2>3, <3>1 DEF Apart
  <2> QED BY <1>3, <1>7, <2>3, <2>4, CallOver DEF Fine, Attempts
<1>12. Dead' BY <1>10, <1>11 DEF Dead
<1> QED BY <1>8, <1>9, <1>12

(* The tick settles what it judged: the task may wait again. *)
LEMMA WriteAlone ==
  ASSUME Fine, Next, Alone, NEW p \in Tickers, FinalizeCommit(p)
  PROVE  Alone'
<1> SUFFICES ASSUME Smooth' PROVE Waiting' /\ Running' /\ Serving' /\ Dead' /\ Single'
  BY DEF Alone
<1>0. \A u \in Clear' : u \in Clear /\ u \in Tasks BY ClearShrinks
<1>1. Waiting /\ Running /\ Serving /\ Dead /\ Single
  BY LiveFades DEF Alone
<1>2. /\ pc \in [Procs -> TickPCs \cup CallPCs] /\ seen \in [Tickers -> [Tasks -> Verdicts]]
      /\ Tickers \subseteq Procs /\ \A t \in Tasks : job[t] = t
  BY DEF Fine, Ordered, TypeOK, ProcsOK, FoundOK, Held, Procs
<1>3. /\ pc[p] = "commit" /\ pc' = [pc EXCEPT ![p] = "notify"]
      /\ \A t \in Tasks : status'[t] = IF seen[p][t] = "none" THEN status[t] ELSE seen[p][t]
      /\ \A q \in Tickers : q /= p => seen'[q] = seen[q]
      /\ UNCHANGED <<cur, sess, job, child>>
  BY <1>2 DEF FinalizeCommit, Goto, held
<1>4. \A q \in Procs : q /= p => pc'[q] = pc[q] BY <1>2, <1>3
<1>5. \A q \in Procs : (pc'[q] \in Starting \/ pc[q] \in Starting) => q /= p /\ pc'[q] = pc[q]
  BY <1>2, <1>3 DEF Starting
<1>6. \A q \in Procs, t \in Tasks : Acts(q, t)' <=> Acts(q, t)
  <2>1. \A q \in Procs, t \in Tasks : pc'[q] \in Starting /\ job'[q] = t <=> pc[q] \in Starting /\ job[q] = t
    BY <1>3, <1>5
  <2> QED BY <2>1 DEF Acts
<1>7. \A t \in Tasks : Attempts(t)' = Attempts(t) /\ \A s \in DOMAIN sess : Live(s)' = Live(s)
  BY <1>3 DEF Attempts, Live
<1>8. \A t \in Tasks, q \in Tickers : Judges(q, t)' => q /= p /\ Judges(q, t)
  <2>1. \A t \in Tasks, q \in Tickers : pc'[q] = "commit" /\ seen'[q][t] \in {"ready", "failed"}
           => q /= p /\ pc[q] = "commit" /\ seen[q][t] \in {"ready", "failed"}
    BY <1>2, <1>3, <1>4
  <2> QED BY <2>1 DEF Judges
<1>9. ASSUME NEW t \in Clear, seen[p][t] \in {"ready", "failed"}
      PROVE  /\ \A s \in Attempts(t) : ~Live(s)
             /\ \A q \in Procs : ~Acts(q, t)
             /\ \A q \in Tickers : Judges(q, t) => q = p
  <2>1. Pend(t) /\ Judges(p, t) BY <1>3, <1>9 DEF Pend, Judges
  <2>2. Apart(t) /\ pc[t] = "idle" /\ \A s \in Attempts(t) : ~Live(s) BY <1>1, <2>1 DEF Dead
  <2>3. \A q \in Procs : ~Acts(q, t)
    BY <1>2, <2>2 DEF Acts, Apart, Starting, Procs
  <2> QED BY <2>1, <2>2, <2>3 DEF Apart
<1>10. \A t \in Tasks : seen[p][t] \in {"none", "done", "ready", "failed"} BY <1>2 DEF Verdicts
<1>11. Waiting'
  <2>1. ASSUME NEW t \in Clear, t \in Tasks, status'[t] \in {"absent", "todo", "ready", "blocked"}
        PROVE  /\ \A s \in Attempts(t) : ~Live(s)
               /\ \A q \in Procs : ~Acts(q, t)
    BY <1>1, <1>3, <1>9, <1>10, <2>1 DEF Waiting
  <2> QED BY <1>0, <1>6, <1>7, <2>1 DEF Waiting, Attempts
<1>12. Running'
  <2>1. \A t \in Tasks : status'[t] = "running" => status[t] = "running" BY <1>3, <1>10
  <2> QED BY <1>0, <1>1, <1>3, <1>6, <1>7, <2>1 DEF Running, Attempts
<1>13. Serving'
  <2> SUFFICES ASSUME NEW r \in Procs, pc'[r] \in Starting, job'[r] \in Clear'
               PROVE  /\ \A q \in Procs : pc'[q] \in Starting /\ job'[q] = job'[r] => q = r
                      /\ pc'[r] \in Undo => \A s \in DOMAIN sess' : sess'[s].task = job'[r] => ~Live(s)'
                      /\ pc'[r] \in {"wire", "enqueue"} =>
                           \A s \in DOMAIN sess' : sess'[s].task = job'[r] => (Live(s)' => s = child'[r])
                      /\ pc'[r] = "enqueue" => cur'[job'[r]] = child'[r]
    BY DEF Serving, Acts, Attempts
  <2>1. pc'[r] = pc[r] /\ job[r] \in Clear BY <1>0, <1>3, <1>5
  <2>2. \A q \in Procs : pc'[q] \in Starting /\ job'[q] = job'[r] => q = r
    BY <1>1, <1>3, <1>5, <2>1 DEF Serving, Acts
  <2>3. \A s \in DOMAIN sess' : sess'[s].task = job'[r] => s \in Attempts(job[r]) /\ (Live(s)' <=> Live(s))
    BY <1>3 DEF Attempts, Live
  <2> QED BY <1>1, <1>3, <2>1, <2>2, <2>3 DEF Serving
<1>14. Dead'
  <2>1. ASSUME NEW t \in Clear', Pend(t)'
        PROVE  /\ Apart(t)' /\ status'[t] \in {"running", "cancelled", "done"}
               /\ pc'[t] = "idle" /\ \A s \in Attempts(t)' : ~Live(s)'
    <3>1. t \in Tasks /\ t \in Clear BY <1>0
    <3>2. PICK q \in Tickers : q /= p /\ Judges(q, t) BY <1>8, <2>1, <3>1 DEF Pend
    <3>3. /\ Apart(t) /\ status[t] \in {"running", "cancelled", "done"}
          /\ pc[t] = "idle" /\ \A s \in Attempts(t) : ~Live(s)
      BY <1>1, <3>1, <3>2 DEF Dead, Pend
    <3>4. seen[p][t] \in {"none", "done"} BY <1>9, <1>10, <3>1, <3>2
    <3>5. status'[t] \in {"running", "cancelled", "done"} BY <1>3, <3>1, <3>3, <3>4
    <3>6. \A r \in Tickers : pc'[r] \in Starting => job'[r] /= t
      BY <1>2, <1>3, <1>5, <3>3 DEF Apart
    <3>7. Apart(t)' BY <1>8, <3>1, <3>3, <3>6 DEF Apart
    <3> QED BY <1>7, <3>1, <3>3, <3>5, <3>7, CallOver DEF Fine, Attempts
  <2> QED BY <2>1 DEF Dead
<1>15. Single' BY <1>0, <1>1, <1>7 DEF Single, Attempts
<1> QED BY <1>11, <1>12, <1>13, <1>14, <1>15

(* A process lets go of a task it has spawned no session for, or whose session is the one
   the task names. *)
LEMMA LetGoAlone ==
  ASSUME Fine, Next, Alone, NEW p \in Procs, NEW t \in Tasks, Acts(p, t),
         NEW l \in {"idle", "claim", "tell"}, pc' = [pc EXCEPT ![p] = l],
         \A q \in Procs : q /= p => job'[q] = job[q] /\ child'[q] = child[q],
         UNCHANGED <<cur, seen>>, DOMAIN sess' = DOMAIN sess,
         \A u \in Tasks : u /= t => status'[u] = status[u],
         \/ status'[t] = status[t] /\ pc[p] = "enqueue"
         \/ pc[p] \in Undo
  PROVE  Alone'
<1> SUFFICES ASSUME Smooth' PROVE Waiting' /\ Running' /\ Serving' /\ Dead' /\ Single'
  BY DEF Alone
<1>0. \A u \in Clear' : u \in Clear /\ u \in Tasks BY ClearShrinks
<1>1. /\ Waiting /\ Running /\ Serving /\ Dead /\ Single
      /\ \A s \in DOMAIN sess : sess'[s].task = sess[s].task /\ (Live(s)' => Live(s))
  BY LiveFades DEF Alone
<1>2. pc \in [Procs -> TickPCs \cup CallPCs] /\ Tickers \subseteq Procs
  BY DEF Fine, Ordered, TypeOK, ProcsOK, Procs
<1>3. \A q \in Procs : pc'[q] \in Starting => q /= p /\ pc[q] = pc'[q] /\ job'[q] = job[q] /\ child'[q] = child[q]
  BY <1>2 DEF Starting
<1>4. \A q \in Procs : q /= p => pc[q] = pc'[q] /\ job'[q] = job[q] BY <1>2
<1>5. \A u \in Tasks : \A s \in Attempts(u)' : s \in Attempts(u) /\ (Live(s)' => Live(s))
  BY <1>1 DEF Attempts
<1>6. pc[p] \in Starting /\ job[p] = t BY DEF Acts
<1>7. t \in Clear => /\ \A q \in Procs : Acts(q, t) => q = p
                     /\ pc[p] \in Undo => \A s \in Attempts(t) : ~Live(s)
                     /\ pc[p] = "enqueue" => \A s \in Attempts(t) : Live(s) => s = cur[t]
  BY <1>1, <1>6 DEF Serving
<1>8. t \in Clear => \A q \in Procs : ~Acts(q, t)' BY <1>3, <1>7 DEF Acts
<1>9. \A u \in Tasks, q \in Procs : u /= t => (Acts(q, u)' <=> Acts(q, u))
  BY <1>3, <1>4, <1>6 DEF Acts
<1>10. t \in Clear => \A s \in Attempts(t)' : Live(s)' => s = cur'[t] /\ pc[p] = "enqueue"
  BY <1>5, <1>7
<1>11. Waiting'
  <2>1. ASSUME NEW u \in Clear, u \in Tasks, status'[u] \in {"absent", "todo", "ready", "blocked"}
        PROVE  /\ \A s \in Attempts(u)' : ~Live(s)'
               /\ \A q \in Procs : ~Acts(q, u)'
    <3>1. CASE u /= t BY <1>1, <1>5, <1>9, <2>1, <3>1 DEF Waiting
    <3>2. CASE u = t /\ pc[p] \in Undo BY <1>5, <1>7, <1>8, <3>2
    <3>3. CASE u = t /\ status'[t] = status[t]
      <4>1. ~Acts(p, t) BY <1>1, <2>1, <3>3 DEF Waiting
      <4> QED BY <4>1
    <3> QED BY <3>1, <3>2, <3>3
  <2> QED BY <1>0, <2>1 DEF Waiting
<1>12. Running'
  <2>1. ASSUME NEW u \in Clear, u \in Tasks, status'[u] = "running"
        PROVE  (\A s \in Attempts(u)' : Live(s)' => s = cur'[u]) \/ (\E q \in Procs : Acts(q, u)')
    <3>1. CASE u /= t BY <1>1, <1>5, <1>9, <2>1, <3>1 DEF Running
    <3>2. CASE u = t BY <1>10, <3>2
    <3> QED BY <3>1, <3>2
  <2> QED BY <1>0, <2>1 DEF Running
<1>13. Serving'
  <2> SUFFICES ASSUME NEW r \in Procs, pc'[r] \in Starting, job'[r] \in Clear'
               PROVE  /\ \A q \in Procs : pc'[q] \in Starting /\ job'[q] = job'[r] => q = r
                      /\ pc'[r] \in Undo => \A s \in DOMAIN sess' : sess'[s].task = job'[r] => ~Live(s)'
                      /\ pc'[r] \in {"wire", "enqueue"} =>
                           \A s \in DOMAIN sess' : sess'[s].task = job'[r] => (Live(s)' => s = child'[r])
                      /\ pc'[r] = "enqueue" => cur'[job'[r]] = child'[r]
    BY DEF Serving, Acts, Attempts
  <2>1. pc'[r] = pc[r] /\ job'[r] = job[r] /\ child'[r] = child[r] /\ job[r] \in Clear BY <1>0, <1>3
  <2>2. \A q \in Procs : pc'[q] \in Starting /\ job'[q] = job'[r] => q = r
    BY <1>1, <1>3, <2>1 DEF Serving, Acts
  <2>3. \A s \in DOMAIN sess' : sess'[s].task = job'[r] => s \in Attempts(job[r]) /\ (Live(s)' => Live(s))
    BY <1>1, <2>1 DEF Attempts
  <2> QED BY <1>1, <2>1, <2>2, <2>3 DEF Serving
<1>14. \A u \in Tasks : Pend(u)' => Pend(u) BY <1>2 DEF Pend, Judges
<1>15. Dead'
  <2>1. ASSUME NEW u \in Clear', Pend(u)'
        PROVE  /\ Apart(u)' /\ status'[u] \in {"running", "cancelled", "done"}
               /\ pc'[u] = "idle" /\ \A s \in Attempts(u)' : ~Live(s)'
    <3>1. /\ u \in Tasks /\ Apart(u) /\ status[u] \in {"running", "cancelled", "done"}
          /\ pc[u] = "idle" /\ \A s \in Attempts(u) : ~Live(s)
      BY <1>0, <1>1, <1>14, <2>1 DEF Dead
    <3>2. u /= t
      <4>1. u = t => p \notin Tickers BY <1>6, <3>1 DEF Apart
      <4>2. \A v \in Tasks : job[v] = v BY DEF Fine, Ordered, Held
      <4> QED BY <1>6, <3>1, <4>1, <4>2 DEF Procs, Starting
    <3>3. /\ \A q \in Tickers : pc'[q] = "commit" => pc[q] = "commit" /\ seen'[q] = seen[q]
          /\ \A q \in Tickers : pc'[q] \in Starting /\ job'[q] = u => pc[q] \in Starting /\ job[q] = u
      BY <1>2, <1>3
    <3>4. Apart(u)' BY <3>1, <3>3, ApartKept
    <3> QED BY <1>5, <3>1, <3>2, <3>4, CallOver DEF Fine
  <2> QED BY <2>1 DEF Dead
<1>16. Single' BY <1>0, <1>1, <1>5 DEF Single
<1> QED BY <1>11, <1>12, <1>13, <1>15, <1>16

(* A process that works on a task keeps the tick from judging it. *)
LEMMA NotJudged ==
  ASSUME Fine, Dead, NEW p \in Procs, NEW t \in Clear, t \in Tasks, Acts(p, t)
  PROVE  ~Pend(t)
<1>1. \A u \in Tasks : job[u] = u BY DEF Fine, Ordered, Held
<1> QED BY <1>1 DEF Dead, Apart, Acts, Starting, Procs

(* A session is spawned where none was at work. *)
LEMMA SpawnAlone ==
  ASSUME Fine, Next, Alone, NEW p \in Procs, Spawn(p)
  PROVE  Alone'
<1> SUFFICES ASSUME Smooth' PROVE Waiting' /\ Running' /\ Serving' /\ Dead' /\ Single'
  BY DEF Alone
<1>0. \A u \in Clear' : u \in Clear /\ u \in Tasks BY ClearShrinks
<1>1. /\ Waiting /\ Running /\ Serving /\ Dead /\ Single
      /\ \A s \in DOMAIN sess : sess'[s].task = sess[s].task /\ (Live(s)' => Live(s))
  BY LiveFades DEF Alone
<1>2. /\ pc \in [Procs -> TickPCs \cup CallPCs] /\ child \in [Procs -> Nat] /\ Tickers \subseteq Procs
      /\ sess \in Seq(Sessions) /\ \A q \in Procs : pc[q] \in Starting => job[q] \in Tasks
  BY DEF Fine, Ordered, TypeOK, ProcsOK, Held, Starting, Working, PastOK, Procs
<1>3. /\ pc[p] = "spawn" /\ pc' = [pc EXCEPT ![p] = "wire"] /\ UNCHANGED <<status, cur, job, seen>>
      /\ child' = [child EXCEPT ![p] = Len(sess) + 1] /\ sess' = Append(sess, NewSession(job[p]))
  BY DEF Spawn, Goto, board, found
<1>4. PICK t \in Tasks : t = job[p] BY <1>2, <1>3 DEF Starting
<1>5. PICK n : n = Len(sess) + 1 OBVIOUS
<1>6. DOMAIN sess' = DOMAIN sess \cup {n} /\ n \notin DOMAIN sess /\ sess'[n].task = t
  BY <1>2, <1>3, <1>4, <1>5 DEF NewSession
<1>7. Acts(p, t) /\ pc[p] \in Undo BY <1>3, <1>4 DEF Acts, Starting, Undo
<1>8. t \in Clear => /\ \A q \in Procs : Acts(q, t) => q = p
                     /\ \A s \in Attempts(t) : ~Live(s)
  BY <1>1, <1>4, <1>7 DEF Serving, Acts
<1>9. \A u \in Tasks : \A s \in Attempts(u)' : (u = t /\ s = n) \/ (s \in Attempts(u) /\ (Live(s)' => Live(s)))
  BY <1>1, <1>6 DEF Attempts
<1>10. \A q \in Procs : /\ q /= p => pc'[q] = pc[q] /\ child'[q] = child[q]
                        /\ q = p => pc'[q] = "wire" /\ child'[q] = n
  BY <1>2, <1>3, <1>5
<1>11. \A q \in Procs, u \in Tasks : Acts(q, u)' <=> Acts(q, u)
  <2>1. \A q \in Procs, u \in Tasks : pc'[q] \in Starting /\ job'[q] = u <=> pc[q] \in Starting /\ job[q] = u
    BY <1>3, <1>10 DEF Starting
  <2> QED BY <2>1 DEF Acts
<1>12. Waiting'
  <2>1. t \in Clear => status[t] \notin {"absent", "todo", "ready", "blocked"} BY <1>1, <1>7 DEF Waiting
  <2> QED BY <1>0, <1>1, <1>3, <1>9, <1>11, <2>1 DEF Waiting
<1>13. Running' BY <1>0, <1>1, <1>3, <1>7, <1>9, <1>11 DEF Running
<1>14. Serving'
  <2> SUFFICES ASSUME NEW r \in Procs, pc'[r] \in Starting, job'[r] \in Clear'
               PROVE  /\ \A q \in Procs : pc'[q] \in Starting /\ job'[q] = job'[r] => q = r
                      /\ pc'[r] \in Undo => \A s \in DOMAIN sess' : sess'[s].task = job'[r] => ~Live(s)'
                      /\ pc'[r] \in {"wire", "enqueue"} =>
                           \A s \in DOMAIN sess' : sess'[s].task = job'[r] => (Live(s)' => s = child'[r])
                      /\ pc'[r] = "enqueue" => cur'[job'[r]] = child'[r]
    BY DEF Serving, Acts, Attempts
  <2>0. job[r] \in Clear BY <1>0, <1>3
  <2>1. CASE r = p
    <3>1. \A q \in Procs : pc'[q] \in Starting /\ job'[q] = t => q = p BY <1>4, <1>8, <1>11, <2>0, <2>1 DEF Acts
    <3>2. \A s \in DOMAIN sess' : sess'[s].task = t => (Live(s)' => s = n)
      BY <1>1, <1>4, <1>6, <1>8, <2>0, <2>1 DEF Attempts
    <3> QED BY <1>3, <1>4, <1>10, <2>1, <3>1, <3>2 DEF Undo
  <2>2. CASE r /= p
    <3>1. pc'[r] = pc[r] /\ child'[r] = child[r] /\ job'[r] = job[r] /\ pc[r] \in Starting /\ job[r] \in Tasks
      BY <1>2, <1>3, <1>10, <2>2
    <3>2. job[r] /= t BY <1>8, <2>0, <2>2, <3>1 DEF Acts
    <3>3. \A q \in Procs : pc'[q] \in Starting /\ job'[q] = job'[r] => q = r
      BY <1>1, <1>3, <1>10, <1>7, <2>0, <3>1, <3>2, <1>4 DEF Serving, Acts
    <3>4. \A s \in DOMAIN sess' : sess'[s].task = job[r] => s \in Attempts(job[r]) /\ (Live(s)' => Live(s))
      BY <1>1, <1>6, <3>2 DEF Attempts
    <3> QED BY <1>1, <1>3, <2>0, <3>1, <3>3, <3>4 DEF Serving
  <2> QED BY <2>1, <2>2
<1>15. \A u \in Clear : u \in Tasks /\ Pend(u)' => Pend(u) /\ u /= t
  <2>1. \A u \in Tasks : Pend(u)' => Pend(u) BY <1>2, <1>3 DEF Pend, Judges
  <2> QED BY <1>1, <1>7, <2>1, NotJudged
<1>16. Dead'
  <2>1. ASSUME NEW u \in Clear', Pend(u)'
        PROVE  /\ Apart(u)' /\ status'[u] \in {"running", "cancelled", "done"}
               /\ pc'[u] = "idle" /\ \A s \in Attempts(u)' : ~Live(s)'
    <3>1. /\ u \in Tasks /\ u /= t /\ Apart(u) /\ status[u] \in {"running", "cancelled", "done"}
          /\ pc[u] = "idle" /\ \A s \in Attempts(u) : ~Live(s)
      BY <1>0, <1>1, <1>15, <2>1 DEF Dead
    <3>2. /\ \A q \in Tickers : pc'[q] = "commit" => pc[q] = "commit" /\ seen'[q] = seen[q]
          /\ \A q \in Tickers : pc'[q] \in Starting /\ job'[q] = u => pc[q] \in Starting /\ job[q] = u
      BY <1>2, <1>3, <1>10 DEF Starting
    <3>3. Apart(u)' BY <3>1, <3>2, ApartKept
    <3> QED BY <1>3, <1>9, <3>1, <3>3, CallOver DEF Fine, Attempts
  <2> QED BY <2>1 DEF Dead
<1>17. Single'
  <2>1. ASSUME NEW u \in Clear, u \in Tasks, NEW r \in Attempts(u)', NEW s \in Attempts(u)', Live(r)', Live(s)' PROVE r = s
    <3>1. CASE u = t BY <1>8, <1>9, <2>1, <3>1
    <3>2. CASE u /= t BY <1>1, <1>9, <2>1, <3>2 DEF Single
    <3> QED BY <3>1, <3>2
  <2> QED BY <1>0, <2>1 DEF Single
<1> QED BY <1>12, <1>13, <1>14, <1>16, <1>17

(* The session a process has spawned becomes the one its task names. *)
LEMMA WireAlone ==
  ASSUME Fine, Next, Alone, NEW p \in Procs, Wire(p)
  PROVE  Alone'
<1> SUFFICES ASSUME Smooth' PROVE Waiting' /\ Running' /\ Serving' /\ Dead' /\ Single'
  BY DEF Alone
<1>0. \A u \in Clear' : u \in Clear /\ u \in Tasks BY ClearShrinks
<1>1. Waiting /\ Running /\ Serving /\ Dead /\ Single
  BY LiveFades DEF Alone
<1>2. /\ pc \in [Procs -> TickPCs \cup CallPCs] /\ cur \in [Tasks -> Nat] /\ Tickers \subseteq Procs
      /\ \A q \in Procs : pc[q] \in Starting => job[q] \in Tasks
  BY DEF Fine, Ordered, TypeOK, BoardOK, ProcsOK, Held, Starting, Working, PastOK, Procs
<1>3. /\ pc[p] = "wire" /\ pc' = [pc EXCEPT ![p] = "enqueue"]
      /\ UNCHANGED <<status, sess, job, child, seen>>
      /\ cur' = [cur EXCEPT ![job[p]] = child[p]]
  BY DEF Wire, Try, Use, Smooth, Goto, local, held, found
<1>4. PICK t \in Tasks : t = job[p] BY <1>2, <1>3 DEF Starting
<1>5. Acts(p, t) BY <1>3, <1>4 DEF Acts, Starting
<1>6. t \in Clear => /\ \A q \in Procs : Acts(q, t) => q = p
                     /\ \A s \in Attempts(t) : Live(s) => s = child[p]
  BY <1>1, <1>3, <1>4, <1>5 DEF Serving, Acts
<1>7. \A u \in Tasks : Attempts(u)' = Attempts(u) /\ \A s \in DOMAIN sess : Live(s)' = Live(s)
  BY <1>3 DEF Attempts, Live
<1>8. \A q \in Procs : (q /= p => pc'[q] = pc[q]) /\ (q = p => pc'[q] = "enqueue")
  BY <1>2, <1>3
<1>9. \A q \in Procs, u \in Tasks : Acts(q, u)' <=> Acts(q, u)
  <2>1. \A q \in Procs, u \in Tasks : pc'[q] \in Starting /\ job'[q] = u <=> pc[q] \in Starting /\ job[q] = u
    BY <1>3, <1>8 DEF Starting
  <2> QED BY <2>1 DEF Acts
<1>10. \A u \in Tasks : u /= t => cur'[u] = cur[u] BY <1>2, <1>3, <1>4
<1>11. cur'[t] = child[p] BY <1>2, <1>3, <1>4
<1>12. Waiting' BY <1>0, <1>1, <1>3, <1>7, <1>9 DEF Waiting, Attempts
<1>13. Running' BY <1>0, <1>1, <1>3, <1>5, <1>7, <1>9, <1>10 DEF Running, Attempts
<1>14. Serving'
  <2> SUFFICES ASSUME NEW r \in Procs, pc'[r] \in Starting, job'[r] \in Clear'
               PROVE  /\ \A q \in Procs : pc'[q] \in Starting /\ job'[q] = job'[r] => q = r
                      /\ pc'[r] \in Undo => \A s \in DOMAIN sess' : sess'[s].task = job'[r] => ~Live(s)'
                      /\ pc'[r] \in {"wire", "enqueue"} =>
                           \A s \in DOMAIN sess' : sess'[s].task = job'[r] => (Live(s)' => s = child'[r])
                      /\ pc'[r] = "enqueue" => cur'[job'[r]] = child'[r]
    BY DEF Serving, Acts, Attempts
  <2>1. \A s \in DOMAIN sess' : sess'[s].task = job'[r] => s \in Attempts(job[r]) /\ (Live(s)' <=> Live(s))
    BY <1>3 DEF Attempts, Live
  <2>2. pc[r] \in Starting /\ job[r] \in Tasks /\ job[r] \in Clear BY <1>0, <1>2, <1>3, <1>8 DEF Starting
  <2>3. \A q \in Procs : pc'[q] \in Starting /\ job'[q] = job'[r] => q = r
    BY <1>1, <1>3, <1>8, <2>2 DEF Serving, Acts, Starting
  <2>4. CASE r = p BY <1>3, <1>4, <1>6, <1>8, <1>11, <2>1, <2>2, <2>3, <2>4 DEF Undo
  <2>5. CASE r /= p
    <3>1. pc'[r] = pc[r] /\ job[r] /= t BY <1>6, <1>8, <2>2, <2>5 DEF Acts
    <3> QED BY <1>1, <1>3, <1>10, <2>1, <2>2, <2>3, <3>1 DEF Serving
  <2> QED BY <2>4, <2>5
<1>15. \A u \in Clear : u \in Tasks /\ Pend(u)' => Pend(u) /\ u /= t
  <2>1. \A u \in Tasks : Pend(u)' => Pend(u) BY <1>2, <1>3 DEF Pend, Judges
  <2> QED BY <1>1, <1>5, <2>1, NotJudged
<1>16. Dead'
  <2>1. ASSUME NEW u \in Clear', Pend(u)'
        PROVE  /\ Apart(u)' /\ status'[u] \in {"running", "cancelled", "done"}
               /\ pc'[u] = "idle" /\ \A s \in Attempts(u)' : ~Live(s)'
    <3>1. /\ u \in Tasks /\ u /= t /\ Apart(u) /\ status[u] \in {"running", "cancelled", "done"}
          /\ pc[u] = "idle" /\ \A s \in Attempts(u) : ~Live(s)
      BY <1>0, <1>1, <1>15, <2>1 DEF Dead
    <3>2. /\ \A q \in Tickers : pc'[q] = "commit" => pc[q] = "commit" /\ seen'[q] = seen[q]
          /\ \A q \in Tickers : pc'[q] \in Starting /\ job'[q] = u => pc[q] \in Starting /\ job[q] = u
      BY <1>2, <1>3, <1>8 DEF Starting
    <3>3. Apart(u)' BY <3>1, <3>2, ApartKept
    <3> QED BY <1>3, <1>7, <3>1, <3>3, CallOver DEF Fine, Attempts
  <2> QED BY <2>1 DEF Dead
<1>17. Single' BY <1>0, <1>1, <1>7 DEF Single, Attempts
<1> QED BY <1>12, <1>13, <1>14, <1>16, <1>17

(* A process that goes on, before a claim or after it. *)
LEMMA GotoGentle ==
  ASSUME Ordered, NEW p \in Procs, NEW l, Goto(p, l), pc[p] \notin Starting, l \notin Starting, l /= "commit",
         UNCHANGED <<job, child, cur, sess>>, \A q \in Tickers : q /= p => seen'[q] = seen[q],
         \A t \in Tasks : \/ status'[t] = status[t] \/ status'[t] \in {"cancelled", "done"}
                          \/ status'[t] \in {"ready", "todo"} /\ status[t] \in {"absent", "todo", "blocked"}
  PROVE  Gentle
<1>1. pc' = [pc EXCEPT ![p] = l] BY DEF Goto
<1>2. \A q \in Procs : (pc'[q] \in Starting \/ pc[q] \in Starting \/ pc'[q] = "commit") => q /= p /\ pc'[q] = pc[q]
  BY <1>1 DEF Starting, Ordered, TypeOK, ProcsOK
<1>3. Tickers \subseteq Procs BY DEF Procs
<1> QED BY <1>2, <1>3 DEF Gentle

(* A step of no process. *)
LEMMA AsideGentle ==
  ASSUME UNCHANGED <<pc, job, child, seen, cur>>, DOMAIN sess' = DOMAIN sess,
         \A t \in Tasks : \/ status'[t] = status[t] \/ status'[t] \in {"cancelled", "done"}
                          \/ status'[t] \in {"ready", "todo"} /\ status[t] \in {"absent", "todo", "blocked"}
  PROVE  Gentle
BY DEF Gentle

(* Every step keeps the attempts apart. *)
LEMMA AloneStep ==
  ASSUME Fine, Alone, Next
  PROVE  Alone'
<1> USE DEF board, held, found, local, history, input
<1>0. /\ Ordered /\ status \in [Tasks -> Statuses] /\ pc \in [Procs -> TickPCs \cup CallPCs]
      /\ seen \in [Tickers -> [Tasks -> Verdicts]] /\ Tickers \subseteq Procs /\ Tasks \subseteq Procs
      /\ job \in [Procs -> Tasks \cup {NoTask}] /\ child \in [Procs -> Nat] /\ sess \in Seq(Sessions)
      /\ \A t \in Tasks : job[t] = t
      /\ \A p \in Procs : pc[p] \in Starting => job[p] \in Tasks
  BY DEF Fine, Ordered, TypeOK, BoardOK, ProcsOK, FoundOK, Procs, Held, Starting, Working, PastOK
<1> SUFFICES ASSUME Smooth' PROVE Alone' BY DEF Alone
<1>1. ASSUME NEW p \in Tickers, Promote(p) PROVE Alone'
  <2>1. \A t \in Tasks : status'[t] = status[t] \/ (status'[t] = "ready" /\ status[t] = "todo")
    BY <1>1 DEF Promote
  <2>2. Gentle BY <1>0, <1>1, <2>1, GotoGentle DEF Promote, Starting
  <2> QED BY <2>2, GentleAlone
<1>2. ASSUME NEW p \in Tickers, FinalizeRead(p) \/ FinalizeCommit(p) PROVE Alone'
  BY <1>2, JudgeAlone, WriteAlone
<1>3. ASSUME NEW p \in Tickers, Notify(p) PROVE Alone'
  <2>1. CASE UNCHANGED pc
    <3>1. \A q \in Tickers : pc[q] = "commit" => seen'[q] = seen[q] BY <1>0, <1>3 DEF Notify
    <3>2. Gentle BY <1>3, <2>1, <3>1 DEF Notify, Gentle
    <3> QED BY <3>2, GentleAlone
  <2>2. CASE Goto(p, "claim") /\ UNCHANGED seen
    <3>1. Gentle BY <1>0, <1>3, <2>2, GotoGentle DEF Notify, Starting
    <3> QED BY <3>1, GentleAlone
  <2> QED BY <1>3, <2>1, <2>2 DEF Notify
<1>4. ASSUME NEW p \in Tickers, TickClaim(p) PROVE Alone'
  BY <1>0, <1>4, ClaimAlone DEF TickClaim
<1>5. ASSUME NEW p \in Tickers, NEW l \in {"idle", "claim"}, Drop(p, l), pc[p] \in {"claim", "tell"},
             \A q \in Tickers : q /= p => seen'[q] = seen[q], UNCHANGED <<status, cur, sess>>
      PROVE  Alone'
  <2>1. \A q \in Procs : q /= p => pc'[q] = pc[q] /\ job'[q] = job[q] /\ child'[q] = child[q]
    BY <1>0, <1>5 DEF Drop, Goto
  <2>2. pc'[p] = l BY <1>0, <1>5 DEF Drop, Goto
  <2>3. Gentle BY <1>0, <1>5, <2>1, <2>2 DEF Gentle, Starting
  <2> QED BY <2>3, GentleAlone
<1>6. ASSUME NEW p \in Tickers, TickEnds(p) \/ TellBlocked(p) PROVE Alone'
  <2>1. CASE TickEnds(p)
    <3>1. \A q \in Tickers : q /= p => seen'[q] = seen[q] BY <1>0, <2>1 DEF TickEnds, Over
    <3> QED BY <1>5, <2>1, <3>1 DEF TickEnds, Over
  <2>2. CASE TellBlocked(p) BY <1>5, <2>2 DEF TellBlocked
  <2> QED BY <1>6, <2>1, <2>2
<1>7. ASSUME NEW p \in Procs, NEW l \in {"idle", "claim"}, Drop(p, l)
      PROVE  /\ pc' = [pc EXCEPT ![p] = l]
             /\ \A q \in Procs : q /= p => job'[q] = job[q] /\ child'[q] = child[q]
  BY <1>0, <1>7 DEF Drop, Goto
<1>8. ASSUME NEW p \in Tickers, BlockClaim(p) \/ Rollback(p) PROVE Alone'
  <2>1. pc[p] \in Undo /\ pc[p] \in Starting BY <1>8 DEF BlockClaim, Rollback, Undo, Starting
  <2>2. PICK t \in Tasks : t = job[p] /\ Acts(p, t) BY <1>0, <2>1 DEF Acts
  <2>3. \A u \in Tasks : u /= t => status'[u] = status[u]
    BY <1>0, <1>8, <2>2 DEF BlockClaim, Rollback, Try
  <2>4. CASE Goto(p, "tell") /\ UNCHANGED held
    BY <1>0, <1>8, <2>1, <2>2, <2>3, <2>4, LetGoAlone DEF BlockClaim, Rollback, Goto
  <2>5. CASE Drop(p, "claim")
    <3>1. /\ pc' = [pc EXCEPT ![p] = "claim"]
          /\ \A q \in Procs : q /= p => job'[q] = job[q] /\ child'[q] = child[q]
      BY <1>0, <1>7, <2>5
    <3>2. UNCHANGED <<cur, seen, sess>> BY <1>8 DEF BlockClaim, Rollback
    <3> QED BY <1>0, <2>1, <2>2, <2>3, <3>1, <3>2, LetGoAlone
  <2> QED BY <1>8, <2>4, <2>5 DEF BlockClaim, Rollback
<1>9. ASSUME NEW t \in Tasks, Insert(t) PROVE Alone'
  <2>1. status[t] = "absent" BY <1>9 DEF Insert, Fine, Linked
  <2>2. \A u \in Tasks : status'[u] = status[u] \/ (status'[u] \in {"ready", "todo"} /\ status[u] = "absent")
    BY <1>0, <1>9, <2>1 DEF Insert
  <2>3. PICK l \in {"eager", "idle"} : Goto(t, l) BY <1>9 DEF Insert
  <2>4. Gentle BY <1>0, <1>9, <2>2, <2>3, GotoGentle DEF Insert, Starting
  <2> QED BY <2>4, GentleAlone
<1>10. ASSUME NEW t \in Tasks, EagerClaim(t) PROVE Alone'
  BY <1>0, <1>10, ClaimAlone DEF EagerClaim
<1>11. ASSUME NEW t \in Tasks, EagerLost(t) PROVE Alone'
  <2>1. Gentle BY <1>0, <1>11, GotoGentle DEF EagerLost, Starting
  <2> QED BY <2>1, GentleAlone
<1>12. ASSUME NEW t \in Tasks, HandBack(t) PROVE Alone'
  <2>1. t \in Procs /\ Acts(t, t) /\ pc[t] \in Undo BY <1>0, <1>12 DEF HandBack, Undo, Starting, Acts
  <2>2. \A u \in Tasks : u /= t => status'[u] = status[u] BY <1>0, <1>12 DEF HandBack, Try
  <2>3. Drop(t, "idle") /\ UNCHANGED <<seen, cur, sess>> BY <1>12 DEF HandBack, Over
  <2> QED BY <1>7, <2>1, <2>2, <2>3, LetGoAlone
<1>13. ASSUME NEW p \in Procs, Spawn(p) \/ Wire(p) PROVE Alone'
  BY <1>13, SpawnAlone, WireAlone
<1>14. ASSUME NEW p \in Procs, Enqueue(p) PROVE Alone'
  <2>1. PICK t \in Tasks : t = job[p] /\ Acts(p, t) BY <1>0, <1>14 DEF Enqueue, Acts, Starting
  <2>2. PICK l \in {"idle", "claim"} : Drop(p, l) BY <1>14 DEF Enqueue
  <2>3. DOMAIN sess' = DOMAIN sess /\ pc[p] = "enqueue" /\ UNCHANGED <<status, cur, seen>>
    BY <1>14 DEF Enqueue
  <2> QED BY <1>7, <2>1, <2>2, <2>3, LetGoAlone
<1>15. ASSUME NEW p \in Procs, SpawnFails(p) PROVE Alone'
  <2>1. PICK l \in {"handBack", "block"} : Goto(p, l)
    BY <1>15 DEF SpawnFails, Use, Smooth
  <2>2. sess' = sess BY <1>15 DEF SpawnFails, Use, Smooth
  <2>3. pc' = [pc EXCEPT ![p] = l] /\ pc[p] = "spawn" BY <1>15, <2>1 DEF SpawnFails, Goto
  <2>4. \A q \in Procs : /\ q /= p => pc'[q] = pc[q]
                         /\ q = p => pc'[q] = l
    BY <1>0, <2>3
  <2>5. Gentle BY <1>0, <1>15, <2>2, <2>3, <2>4 DEF SpawnFails, Gentle, Starting, Undo
  <2> QED BY <2>5, GentleAlone
<1>16. ASSUME NEW p \in Procs PROVE ~Raises(p) /\ ~Dies(p)
  BY DEF Raises, Dies, Use, Smooth
<1>17. ASSUME NEW s \in DOMAIN sess, Work(s) PROVE Alone'
  <2>1. ~WorkerBlock(s) BY DEF WorkerBlock, Use, Smooth
  <2>2. UNCHANGED <<pc, job, child, seen, cur>>
    BY <1>17 DEF Work, WorkerComplete, WorkerBlock, WorkerBlockTells, TurnEnds, Close, Report,
                 WorkerDies, Sweep, Pause, Resume
  <2>3. DOMAIN sess' = DOMAIN sess
    BY <1>17 DEF Work, WorkerComplete, WorkerBlock, WorkerBlockTells, TurnEnds, Close, Report,
                 WorkerDies, Sweep, Pause, Resume, Stage
  <2>4. \A t \in Tasks : status'[t] \in {status[t], "done"}
    BY <1>0, <1>17, <2>1 DEF Work, WorkerComplete, WorkerBlockTells, TurnEnds, Close, Report,
                             WorkerDies, Sweep, Pause, Resume
  <2>5. Gentle BY <2>2, <2>3, <2>4, AsideGentle
  <2> QED BY <2>5, GentleAlone
<1>18. CASE Coordinate
  <2>1. UNCHANGED <<pc, job, child, seen, cur>>
    BY <1>18 DEF Coordinate, Unblock, Cancel, CascadeRead, CascadeUpdate, CascadePublish
  <2>2. \A t \in Tasks : \/ status'[t] \in {status[t], "cancelled"}
                         \/ status'[t] = "ready" /\ status[t] = "blocked"
    BY <1>0, <1>18 DEF Coordinate, Unblock, Cancel, CascadeRead, CascadeUpdate, CascadePublish
  <2>3. DOMAIN sess' = DOMAIN sess
    BY <1>18 DEF Coordinate, Unblock, Cancel, CascadeRead, CascadeUpdate, CascadePublish
  <2>4. Gentle BY <2>1, <2>2, <2>3, AsideGentle
  <2> QED BY <2>4, GentleAlone
<1> QED BY <1>1, <1>2, <1>3, <1>4, <1>6, <1>8, <1>9, <1>10, <1>11, <1>12, <1>13, <1>14, <1>15, <1>16, <1>17, <1>18
        DEF Next, Tick, Call, Start, Faults

(* However many ticks run, a task that no two of them judged at once has at most one
   session that may still act, for any tasks, crashes, cancels and refusals, while nothing
   is lost, raises, blocks, stops or dies. *)
THEOREM OneAtATime == Spec => []OneAttempt
<1>1. Init => Alone
  <2> SUFFICES ASSUME Init PROVE Alone OBVIOUS
  <2>1. /\ sess = <<>> /\ \A p \in Procs : pc[p] \in {"idle", "none"}
        /\ \A p \in Tickers : pc[p] \in {"idle", "none"}
    BY DEF Init, Procs
  <2>2. \A t \in Tasks : Attempts(t) = {} /\ ~Pend(t) BY <2>1 DEF Attempts, Pend, Judges
  <2>3. \A p \in Procs : pc[p] \notin Starting BY <2>1 DEF Starting
  <2>4. \A p \in Procs, t \in Tasks : ~Acts(p, t) BY <2>3 DEF Acts
  <2> QED BY <2>2, <2>3, <2>4 DEF Alone, Waiting, Running, Serving, Dead, Single, Clear
<1>2. Alone /\ Fine /\ [Next]_vars => Alone'
  <2>1. ASSUME Alone, Fine, Next PROVE Alone' BY <2>1, AloneStep
  <2>2. ASSUME Alone, UNCHANGED vars PROVE Alone'
    BY <2>2 DEF Alone, Smooth, Waiting, Running, Serving, Dead, Single, Acts, Attempts, Live, Pend, Judges, Apart, Clear, vars
  <2> QED BY <2>1, <2>2
<1>3. Alone => OneAttempt
  <2> SUFFICES ASSUME Alone, Smooth, NEW t \in Tasks \ crossed
               PROVE  Cardinality({s \in Attempts(t) : Live(s)}) <= 1
    BY DEF OneAttempt, Smooth
  <2> DEFINE L == {s \in Attempts(t) : Live(s)}
  <2>1. \A r, s \in L : r = s BY DEF Alone, Single, Clear
  <2> HIDE DEF L
  <2>2. Cardinality(L) <= 1
    <3>1. CASE L = {} BY <3>1, FS_EmptySet
    <3>2. CASE L /= {}
      <4>1. PICK x : L = {x} BY <2>1, <3>2
      <4>2. Cardinality({x}) = 1 BY FS_Singleton
      <4> QED BY <4>1, <4>2
    <3> QED BY <3>1, <3>2
  <2> QED BY <2>2 DEF L
<1> QED BY <1>1, <1>2, <1>3, FineAlways, PTL DEF Spec
=============================================================================
