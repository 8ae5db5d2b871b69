------------------------ MODULE SessionTurn_proofs ------------------------
(***************************************************************************)
(* Proofs about SessionTurn, for any clients, workers, tasks and sweepers, *)
(* any owner of each task and any bounds on the environment.  The type     *)
(* invariant and the discipline of the lease are inductive; exclusive      *)
(* turns and the fenced cursor follow from them.  The ceiling of the       *)
(* sweep, that no message is skipped and that none is forgotten have       *)
(* inductive invariants of their own.                                      *)
(***************************************************************************)
EXTENDS SessionTurn, FiniteSetTheorems, WellFoundedInduction, TLAPS

(* Every non-empty set of naturals has a least element. *)
LEMMA NatMin ==
  ASSUME NEW T \in SUBSET Nat, T /= {}
  PROVE  \E x \in T : \A y \in T : x <= y
<1>1. PICK x \in T : \A y \in T : ~ (<<y, x>> \in OpToRel(<, Nat))
  BY NatLessThanWellFounded, WFMin
<1>2. \A y \in T : ~ (y < x)
  BY <1>1 DEF OpToRel
<1> QED BY <1>2

(* LastMessage, the id a turn takes as its steer cursor, is the id of
   the log's last message, or 0. *)
LEMMA LastMessageInLog ==
  ASSUME StoreOK
  PROVE  /\ LastMessage \in Nat /\ LastMessage <= Len(log)
         /\ \A i \in Messages : i <= LastMessage
<1>1. Messages \subseteq 1..Len(log)
  BY DEF Messages, StoreOK
<1>2. CASE Messages = {}
  BY <1>2 DEF LastMessage, StoreOK
<1>3. CASE Messages /= {}
  <2> DEFINE T == {Len(log) - i : i \in Messages}
  <2>0. Len(log) \in Nat
    BY DEF StoreOK
  <2>1. T \in SUBSET Nat
    BY <1>1, <2>0
  <2>2. T /= {}
    BY <1>3
  <2>3. PICK i \in Messages : \A y \in T : Len(log) - i <= y
    <3>1. PICK x \in T : \A y \in T : x <= y
      BY <2>1, <2>2, NatMin
    <3> QED BY <3>1
  <2>6. \A j \in Messages : j <= i
    <3>1. SUFFICES ASSUME NEW j \in Messages PROVE j <= i
      OBVIOUS
    <3>2. Len(log) - j \in T
      OBVIOUS
    <3>3. Len(log) - i <= Len(log) - j
      BY <2>3, <3>2
    <3>4. i \in Nat /\ j \in Nat
      BY <1>1, <2>0
    <3> HIDE DEF T
    <3> QED BY <2>0, <3>3, <3>4
  <2>4. LastMessage = CHOOSE k \in Messages : \A j \in Messages : j <= k
    BY <1>3 DEF LastMessage
  <2>5. LastMessage \in Messages /\ \A j \in Messages : j <= LastMessage
    BY <2>6, <2>4
  <2> QED BY <1>1, <2>5 DEF StoreOK
<1> QED BY <1>2, <1>3

(* emit_event adds one event to the log. *)
LEMMA EmitTyped ==
  ASSUME StoreOK, NEW e \in Events, Emit(e)
  PROVE  log' \in Seq(Events) /\ fresh' \in BOOLEAN /\ Len(log') = Len(log) + 1
BY DEF StoreOK, Emit

(* A bounded input is counted. *)
LEMMA UseTyped ==
  ASSUME UserOK, NEW i \in Inputs, Use(i)
  PROVE  left' \in [Inputs -> Nat]
BY DEF UserOK, Use

(* Every step of the API, a task, a sweep or time keeps the types. *)
LEMMA TypeStep ==
  ASSUME TypeOK, Next
  PROVE  TypeOK'
<1> USE DEF TypeOK
<1>1. ASSUME NEW c \in Clients, Send(c) PROVE TypeOK'
  <2>1. UserOK'
    BY <1>1, UseTyped DEF Send, ApiTo, UserOK, ApiPCs, Inputs
  <2> QED
    BY <1>1, <2>1
      DEF Send, TypeOK, StoreOK, LeaseOK, TasksOK, WorkersOK, store,
          leaseVars, taskVars, workerVars
<1>2. ASSUME NEW c \in Clients, Reactivate(c) PROVE TypeOK'
  <2>1. UserOK'
    BY <1>2, UseTyped DEF Reactivate, ApiTo, UserOK, ApiPCs, Inputs
  <2> QED
    BY <1>2, <2>1
      DEF Reactivate, TypeOK, StoreOK, LeaseOK, TasksOK, WorkersOK, store,
          leaseVars, taskVars, workerVars
<1>3. ASSUME NEW c \in Clients, Pause(c) PROVE TypeOK'
  <2>1. UserOK'
    BY <1>3, UseTyped DEF Pause, ApiTo, UserOK, ApiPCs, Inputs
  <2> QED
    BY <1>3, <2>1
      DEF Pause, TypeOK, StoreOK, LeaseOK, TasksOK, WorkersOK, store,
          leaseVars, taskVars, workerVars
<1>4. ASSUME NEW c \in Clients, Delete(c) PROVE TypeOK'
  <2>1. StoreOK'
    BY <1>4 DEF Delete, StoreOK, Statuses
  <2>2. UserOK'
    BY <1>4, UseTyped DEF Delete, ApiTo, UserOK, ApiPCs, Inputs
  <2> QED
    BY <1>4, <2>1, <2>2
      DEF Delete, TypeOK, LeaseOK, TasksOK, WorkersOK, leaseVars, taskVars,
          workerVars
<1>5. ASSUME NEW c \in Clients, ApiActivate(c) PROVE TypeOK'
  <2>1. StoreOK'
    BY <1>5 DEF ApiActivate, SetStatus, StoreOK, Statuses
  <2>2. UserOK'
    BY <1>5 DEF ApiActivate, ApiTo, UserOK, ApiPCs
  <2> QED
    BY <1>5, <2>1, <2>2
      DEF ApiActivate, TypeOK, LeaseOK, TasksOK, WorkersOK, leaseVars,
          taskVars, workerVars
<1>6. ASSUME NEW c \in Clients, ApiResume(c) PROVE TypeOK'
  <2>1. StoreOK'
    BY <1>6, EmitTyped DEF ApiResume, StoreOK, Events
  <2>2. UserOK'
    BY <1>6 DEF ApiResume, ApiTo, UserOK, ApiPCs
  <2> QED
    BY <1>6, <2>1, <2>2
      DEF ApiResume, TypeOK, LeaseOK, TasksOK, WorkersOK, leaseVars, taskVars,
          workerVars
<1>7. ASSUME NEW c \in Clients, ApiMessage(c) PROVE TypeOK'
  <2>1. StoreOK'
    BY <1>7, EmitTyped DEF ApiMessage, StoreOK, Events
  <2>2. UserOK'
    BY <1>7 DEF ApiMessage, ApiTo, UserOK, ApiPCs
  <2> QED
    BY <1>7, <2>1, <2>2
      DEF ApiMessage, TypeOK, LeaseOK, TasksOK, WorkersOK, leaseVars,
          taskVars, workerVars
<1>8. ASSUME NEW c \in Clients, ApiRefuse(c) PROVE TypeOK'
  <2>1. StoreOK'
    BY <1>8, EmitTyped DEF ApiRefuse, StoreOK, Events
  <2>2. UserOK'
    BY <1>8 DEF ApiRefuse, ApiTo, UserOK, ApiPCs
  <2> QED
    BY <1>8, <2>1, <2>2
      DEF ApiRefuse, TypeOK, LeaseOK, TasksOK, WorkersOK, leaseVars, taskVars,
          workerVars
<1>9. ASSUME NEW c \in Clients, ApiEnqueue(c) PROVE TypeOK'
  <2>1. WorkersOK'
    BY <1>9 DEF ApiEnqueue, WorkersOK, workerVars
  <2>2. UserOK'
    BY <1>9 DEF ApiEnqueue, ApiTo, UserOK, ApiPCs
  <2> QED
    BY <1>9, <2>1, <2>2
      DEF ApiEnqueue, TypeOK, StoreOK, LeaseOK, TasksOK, store, leaseVars,
          taskVars
<1>10. ASSUME NEW c \in Clients, ApiPause(c) PROVE TypeOK'
  <2>1. StoreOK'
    BY <1>10, EmitTyped DEF ApiPause, StoreOK, Statuses, Events
  <2>2. UserOK'
    BY <1>10 DEF ApiPause, ApiTo, UserOK, ApiPCs
  <2> QED
    BY <1>10, <2>1, <2>2
      DEF ApiPause, TypeOK, LeaseOK, TasksOK, WorkersOK, leaseVars, taskVars,
          workerVars
<1>11. ASSUME NEW c \in Clients, ApiPublish(c) PROVE TypeOK'
  <2>1. TasksOK'
    BY <1>11 DEF ApiPublish, TasksOK
  <2>2. UserOK'
    BY <1>11 DEF ApiPublish, ApiTo, UserOK, ApiPCs
  <2> QED
    BY <1>11, <2>1, <2>2
      DEF ApiPublish, TypeOK, StoreOK, LeaseOK, WorkersOK, store, leaseVars,
          workerVars
<1>12. ASSUME NEW t \in Tasks, Pop(t) PROVE TypeOK'
  <2>1. TasksOK'
    BY <1>12 DEF Pop, Goto, TasksOK, PCs, Holding, Turn
  <2>2. WorkersOK'
    BY <1>12 DEF Pop, WorkersOK, workerVars
  <2> QED
    BY <1>12, <2>1, <2>2
      DEF Pop, TypeOK, StoreOK, LeaseOK, UserOK, store, leaseVars
<1>13. ASSUME NEW t \in Tasks, Start(t) PROVE TypeOK'
  <2>1. TasksOK'
    BY <1>13 DEF Start, Goto, TasksOK, PCs, Holding, Turn
  <2>2. WorkersOK'
    BY <1>13, OwnerAssumption DEF Start, OwnerAssumption, WorkersOK
  <2> QED
    BY <1>13, <2>1, <2>2
      DEF Start, TypeOK, StoreOK, LeaseOK, UserOK, store, leaseVars
<1>14. ASSUME NEW t \in Tasks, Probe(t) PROVE TypeOK'
  <2>1. TasksOK'
    BY <1>14 DEF Probe, Goto, TasksOK, PCs, Holding, Turn
  <2>2. WorkersOK'
    BY <1>14, OwnerAssumption DEF Probe, OwnerAssumption, WorkersOK
  <2> QED
    BY <1>14, <2>1, <2>2
      DEF Probe, TypeOK, StoreOK, LeaseOK, UserOK, store, leaseVars
<1>15. ASSUME NEW t \in Tasks, Requeue(t) PROVE TypeOK'
  <2>1. TasksOK'
    BY <1>15 DEF Requeue, Goto, TasksOK, PCs, Holding, Turn
  <2>2. WorkersOK'
    BY <1>15 DEF Requeue, WorkersOK, workerVars
  <2> QED
    BY <1>15, <2>1, <2>2
      DEF Requeue, TypeOK, StoreOK, LeaseOK, UserOK, store, leaseVars
<1>16. ASSUME NEW t \in Tasks, Build(t) PROVE TypeOK'
  <2>1. TasksOK'
    BY <1>16 DEF Build, Goto, TasksOK, PCs, Holding, Turn
  <2>2. WorkersOK'
    BY <1>16, OwnerAssumption DEF Build, OwnerAssumption, WorkersOK
  <2> QED
    BY <1>16, <2>1, <2>2
      DEF Build, TypeOK, StoreOK, LeaseOK, UserOK, store, leaseVars
<1>17. ASSUME NEW t \in Tasks, Settle(t) PROVE TypeOK'
  <2>1. TasksOK'
    BY <1>17 DEF Settle, Goto, TasksOK, PCs, Holding, Turn
  <2>2. WorkersOK'
    BY <1>17, OwnerAssumption DEF Settle, OwnerAssumption, WorkersOK
  <2> QED
    BY <1>17, <2>1, <2>2
      DEF Settle, TypeOK, StoreOK, LeaseOK, UserOK, store, leaseVars
<1>18. ASSUME NEW t \in Tasks, Retry(t) PROVE TypeOK'
  <2>1. TasksOK'
    BY <1>18 DEF Retry, Goto, TasksOK, PCs, Holding, Turn
  <2> QED
    BY <1>18, <2>1
      DEF Retry, TypeOK, StoreOK, LeaseOK, WorkersOK, UserOK, store,
          leaseVars, workerVars
<1>19. ASSUME NEW t \in Tasks, GiveUp(t) PROVE TypeOK'
  <2>1. StoreOK'
    BY <1>19, EmitTyped DEF GiveUp, StoreOK, Events
  <2>2. TasksOK'
    BY <1>19 DEF GiveUp, Goto, TasksOK, PCs, Holding, Turn
  <2>3. UserOK'
    BY <1>19, UseTyped DEF GiveUp, UserOK, Inputs
  <2> QED
    BY <1>19, <2>1, <2>2, <2>3
      DEF GiveUp, TypeOK, LeaseOK, WorkersOK, leaseVars, workerVars
<1>20. ASSUME NEW t \in Tasks, GiveUpStatus(t) PROVE TypeOK'
  <2>1. StoreOK'
    BY <1>20 DEF GiveUpStatus, SetStatus, Try, StoreOK, Statuses
  <2>2. TasksOK'
    BY <1>20 DEF GiveUpStatus, Goto, TasksOK, PCs, Holding, Turn
  <2>3. UserOK'
    BY <1>20, UseTyped DEF GiveUpStatus, Try, UserOK, Inputs
  <2> QED
    BY <1>20, <2>1, <2>2, <2>3
      DEF GiveUpStatus, TypeOK, LeaseOK, WorkersOK, leaseVars, workerVars
<1>21. ASSUME NEW t \in Tasks, ReadStatus(t) PROVE TypeOK'
  <2>1. TasksOK'
    BY <1>21 DEF ReadStatus, Goto, TasksOK, PCs, Holding, Turn
  <2>2. WorkersOK'
    BY <1>21, OwnerAssumption
      DEF ReadStatus, Unregister, OwnerAssumption, WorkersOK
  <2> QED
    BY <1>21, <2>1, <2>2
      DEF ReadStatus, TypeOK, StoreOK, LeaseOK, UserOK, store, leaseVars
<1>22. ASSUME NEW t \in Tasks, Revive(t) PROVE TypeOK'
  <2>1. StoreOK'
    BY <1>22 DEF Revive, SetStatus, StoreOK, Statuses
  <2>2. TasksOK'
    BY <1>22 DEF Revive, Goto, TasksOK, PCs, Holding, Turn
  <2> QED
    BY <1>22, <2>1, <2>2
      DEF Revive, TypeOK, LeaseOK, WorkersOK, UserOK, leaseVars, workerVars
<1>23. ASSUME NEW t \in Tasks, ReviveEvent(t) PROVE TypeOK'
  <2>1. StoreOK'
    BY <1>23, EmitTyped DEF ReviveEvent, StoreOK, Events
  <2>2. TasksOK'
    BY <1>23 DEF ReviveEvent, Goto, TasksOK, PCs, Holding, Turn
  <2> QED
    BY <1>23, <2>1, <2>2
      DEF ReviveEvent, TypeOK, LeaseOK, WorkersOK, UserOK, leaseVars,
          workerVars
<1>24. ASSUME NEW t \in Tasks, Acquire(t) PROVE TypeOK'
  <2>1. LeaseOK'
    <3>1. leaseLive' \in BOOLEAN
      BY <1>24, Zenon DEF Acquire, LeaseOK, leaseVars
    <3>2. \/ UNCHANGED <<leaseToken, issued>>
          \/ leaseToken' = issued + 1 /\ issued' = issued + 1
      BY <1>24 DEF Acquire, leaseVars
    <3> QED BY <3>1, <3>2 DEF LeaseOK
  <2>2. TasksOK'
    <3>1. pc' \in [Tasks -> PCs]
      BY <1>24 DEF Acquire, Goto, TasksOK, PCs, Holding, Turn
    <3>2. tok' \in [Tasks -> Nat]
      BY <1>24 DEF Acquire, TasksOK, LeaseOK
    <3>3. stop' \in [Tasks -> BOOLEAN]
      BY <1>24 DEF Acquire, TasksOK
    <3> QED BY <1>24, <3>1, <3>2, <3>3 DEF Acquire, TasksOK
  <2>3. WorkersOK'
    BY <1>24, OwnerAssumption
      DEF Acquire, Unregister, OwnerAssumption, WorkersOK, workerVars
  <2> QED BY <1>24, <2>1, <2>2, <2>3 DEF Acquire, TypeOK, StoreOK, UserOK, store
<1>25. ASSUME NEW t \in Tasks, Load(t) PROVE TypeOK'
  <2>1. StoreOK'
    BY <1>25, EmitTyped DEF Load, StoreOK, Events
  <2>2. TasksOK'
    BY ZenonT(60), <1>25, LastMessageInLog DEF Load, Goto, TasksOK, PCs, Holding, Turn
  <2> QED
    BY <1>25, <2>1, <2>2
      DEF Load, TypeOK, LeaseOK, WorkersOK, UserOK, leaseVars, workerVars
<1>26. ASSUME NEW t \in Tasks, Iterate(t) PROVE TypeOK'
  <2>1. TasksOK'
    BY ZenonT(60), <1>26, LastMessageInLog DEF Iterate, Goto, TasksOK, PCs, Holding, Turn
  <2> QED
    BY <1>26, <2>1
      DEF Iterate, TypeOK, StoreOK, LeaseOK, WorkersOK, UserOK, store,
          leaseVars, workerVars
<1>27. ASSUME NEW t \in Tasks, Ask(t) PROVE TypeOK'
  <2>1. StoreOK'
    BY <1>27, EmitTyped DEF Ask, StoreOK, Events
  <2>2. TasksOK'
    BY <1>27 DEF Ask, Goto, TasksOK, PCs, Holding, Turn
  <2> QED
    BY <1>27, <2>1, <2>2
      DEF Ask, TypeOK, LeaseOK, WorkersOK, UserOK, leaseVars, workerVars
<1>28. ASSUME NEW t \in Tasks, Respond(t) PROVE TypeOK'
  <2>1. StoreOK'
    BY <1>28, EmitTyped DEF Respond, StoreOK, Events
  <2>2. TasksOK'
    <3>1. \E p \in {"abort", "tool", "iter", "complete", "drain", "failTurn"} : Goto(t, p)
      BY <1>28 DEF Respond
    <3>2. pc' \in [Tasks -> PCs]
      BY <3>1 DEF Goto, TasksOK, PCs, Holding, Turn
    <3>3. through' = through \/ through' = [through EXCEPT ![t] = Len(log) + 1]
      BY <1>28 DEF Respond
    <3>4. Len(log) + 1 \in Nat
      BY DEF StoreOK
    <3>5. through' \in [Tasks -> Nat]
      BY <3>3, <3>4 DEF TasksOK
    <3>6. UNCHANGED <<tok, steer, stop, attempt>>
      BY <1>28 DEF Respond
    <3> QED BY <3>2, <3>5, <3>6 DEF TasksOK
  <2>3. UserOK'
    <3>1. left' \in [Inputs -> Nat]
      <4>1. left' = left \/ Use("calls") \/ Use("drafts")
        BY <1>28 DEF Respond
      <4> QED BY <4>1, UseTyped DEF UserOK, Inputs
    <3>2. heard' = heard \/ heard' = steer[t]
      BY <1>28 DEF Respond, Hear
    <3>3. UNCHANGED <<api, blind>>
      BY <1>28 DEF Respond
    <3> QED BY <3>1, <3>2, <3>3 DEF UserOK, TasksOK
  <2> QED
    BY <1>28, <2>1, <2>2, <2>3
      DEF Respond, TypeOK, LeaseOK, WorkersOK, leaseVars, workerVars
<1>29. ASSUME NEW t \in Tasks, RunTool(t) PROVE TypeOK'
  <2>1. StoreOK'
    BY <1>29, EmitTyped DEF RunTool, StoreOK, Events
  <2>2. TasksOK'
    <3>1. Goto(t, "cursor") \/ Goto(t, "iter")
      BY <1>29 DEF RunTool
    <3>2. pc' \in [Tasks -> PCs]
      BY <3>1 DEF Goto, TasksOK, PCs, Holding, Turn
    <3>3. through' = through \/ through' = [through EXCEPT ![t] = Len(log) + 1]
      BY <1>29 DEF RunTool
    <3>4. through' \in [Tasks -> Nat]
      BY <3>3 DEF TasksOK, StoreOK
    <3> QED BY <1>29, <3>2, <3>4 DEF RunTool, TasksOK
  <2> QED
    BY <1>29, <2>1, <2>2
      DEF RunTool, TypeOK, LeaseOK, WorkersOK, UserOK, leaseVars, workerVars
<1>30. ASSUME NEW t \in Tasks, AfterTool(t) PROVE TypeOK'
  <2>1. StoreOK'
    BY <1>30 DEF AfterTool, AdvanceTo, Try, StoreOK, TasksOK
  <2>2. TasksOK'
    BY <1>30 DEF AfterTool, Goto, TasksOK, PCs, Holding, Turn
  <2>3. UserOK'
    BY <1>30, UseTyped DEF AfterTool, Try, UserOK, Inputs
  <2> QED
    BY <1>30, <2>1, <2>2, <2>3
      DEF AfterTool, TypeOK, LeaseOK, WorkersOK, leaseVars, workerVars
<1>31. ASSUME NEW t \in Tasks, Drain(t) PROVE TypeOK'
  <2>1. TasksOK'
    <3>1. LastMessage \in Nat
      BY LastMessageInLog
    <3>2. steer' \in [Tasks -> Nat] /\ through' \in [Tasks -> Nat]
      BY <1>31, <3>1 DEF Drain, TasksOK
    <3>3. pc' \in [Tasks -> PCs]
      BY <1>31 DEF Drain, Goto, TasksOK, PCs, Holding, Turn
    <3> QED BY <1>31, <3>2, <3>3 DEF Drain, TasksOK
  <2> QED
    BY <1>31, <2>1
      DEF Drain, TypeOK, StoreOK, LeaseOK, WorkersOK, UserOK, store,
          leaseVars, workerVars
<1>32. ASSUME NEW t \in Tasks, Summarize(t) PROVE TypeOK'
  <2>1. StoreOK'
    BY <1>32, EmitTyped DEF Summarize, StoreOK, Events
  <2>2. TasksOK'
    BY <1>32 DEF Summarize, Goto, TasksOK, PCs, Holding, Turn
  <2>3. UserOK'
    BY <1>32 DEF Summarize, Hear, UserOK, TasksOK
  <2> QED
    BY <1>32, <2>1, <2>2, <2>3
      DEF Summarize, TypeOK, LeaseOK, WorkersOK, leaseVars, workerVars
<1>33. ASSUME NEW t \in Tasks, Complete(t) PROVE TypeOK'
  <2>1. StoreOK'
    BY <1>33, EmitTyped DEF Complete, StoreOK, Events
  <2>2. TasksOK'
    BY <1>33 DEF Complete, Goto, TasksOK, PCs, Holding, Turn
  <2> QED
    BY <1>33, <2>1, <2>2
      DEF Complete, TypeOK, LeaseOK, WorkersOK, UserOK, leaseVars, workerVars
<1>34. ASSUME NEW t \in Tasks, CompleteStatus(t) PROVE TypeOK'
  <2>1. StoreOK'
    BY <1>34 DEF CompleteStatus, SetStatus, Try, StoreOK, Statuses
  <2>2. TasksOK'
    BY <1>34 DEF CompleteStatus, Goto, TasksOK, PCs, Holding, Turn
  <2>3. UserOK'
    BY <1>34, UseTyped DEF CompleteStatus, Try, UserOK, Inputs
  <2> QED
    BY <1>34, <2>1, <2>2, <2>3
      DEF CompleteStatus, TypeOK, LeaseOK, WorkersOK, leaseVars, workerVars
<1>35. ASSUME NEW t \in Tasks, FailTurn(t) PROVE TypeOK'
  <2>1. StoreOK'
    BY <1>35, EmitTyped DEF FailTurn, StoreOK, Events
  <2>2. TasksOK'
    BY <1>35 DEF FailTurn, Goto, TasksOK, PCs, Holding, Turn
  <2> QED
    BY <1>35, <2>1, <2>2
      DEF FailTurn, TypeOK, LeaseOK, WorkersOK, UserOK, leaseVars, workerVars
<1>36. ASSUME NEW t \in Tasks, FailStatus(t) PROVE TypeOK'
  <2>1. StoreOK'
    BY <1>36 DEF FailStatus, SetStatus, Try, StoreOK, Statuses
  <2>2. TasksOK'
    BY <1>36 DEF FailStatus, Goto, TasksOK, PCs, Holding, Turn
  <2>3. UserOK'
    BY <1>36, UseTyped DEF FailStatus, Try, UserOK, Inputs
  <2> QED
    BY <1>36, <2>1, <2>2, <2>3
      DEF FailStatus, TypeOK, LeaseOK, WorkersOK, leaseVars, workerVars
<1>37. ASSUME NEW t \in Tasks, AdvanceAtEnd(t) PROVE TypeOK'
  <2>1. StoreOK'
    BY <1>37 DEF AdvanceAtEnd, AdvanceTo, Try, StoreOK, TasksOK
  <2>2. TasksOK'
    BY <1>37 DEF AdvanceAtEnd, Goto, TasksOK, PCs, Holding, Turn
  <2>3. UserOK'
    BY <1>37, UseTyped DEF AdvanceAtEnd, Try, UserOK, Inputs
  <2> QED
    BY <1>37, <2>1, <2>2, <2>3
      DEF AdvanceAtEnd, TypeOK, LeaseOK, WorkersOK, leaseVars, workerVars
<1>38. ASSUME NEW t \in Tasks, Abort(t) PROVE TypeOK'
  <2>1. StoreOK'
    BY <1>38, EmitTyped DEF Abort, StoreOK, Events
  <2>2. TasksOK'
    BY <1>38 DEF Abort, Goto, TasksOK, PCs, Holding, Turn
  <2> QED
    BY <1>38, <2>1, <2>2
      DEF Abort, TypeOK, LeaseOK, WorkersOK, UserOK, leaseVars, workerVars
<1>39. ASSUME NEW t \in Tasks, HarnessCrash(t) PROVE TypeOK'
  <2>1. StoreOK'
    BY <1>39, EmitTyped DEF HarnessCrash, Try, StoreOK, Events
  <2>2. TasksOK'
    BY <1>39 DEF HarnessCrash, Goto, TasksOK, PCs, Holding, Turn
  <2>3. UserOK'
    BY <1>39, UseTyped DEF HarnessCrash, Try, UserOK, Inputs
  <2> QED
    BY <1>39, <2>1, <2>2, <2>3
      DEF HarnessCrash, TypeOK, LeaseOK, WorkersOK, leaseVars, workerVars
<1>40. ASSUME NEW t \in Tasks, Release(t) PROVE TypeOK'
  <2>1. LeaseOK'
    <3>1. (leaseToken' = 0 \/ leaseToken' = leaseToken) /\ issued' = issued
      BY <1>40, Zenon DEF Release, Try
    <3>2. leaseLive' \in BOOLEAN
      BY <1>40, Zenon DEF Release, Try, LeaseOK
    <3> QED BY <3>1, <3>2 DEF LeaseOK
  <2>2. TasksOK'
    BY <1>40 DEF Release, TasksOK
  <2>3. UserOK'
    BY <1>40, UseTyped DEF Release, Try, UserOK, Inputs
  <2> QED
    BY <1>40, <2>1, <2>2, <2>3 DEF Release, TypeOK, StoreOK, WorkersOK, store, workerVars
<1>55. ASSUME NEW t \in Tasks, Return(t) PROVE TypeOK'
  <2>1. TasksOK'
    BY <1>55 DEF Return, Goto, TasksOK, PCs, Holding, Turn
  <2>2. WorkersOK'
    BY <1>55, OwnerAssumption
      DEF Return, Unregister, OwnerAssumption, WorkersOK
  <2> QED
    BY <1>55, <2>1, <2>2 DEF Return, TypeOK, StoreOK, LeaseOK, UserOK, store, leaseVars
<1>41. ASSUME NEW t \in Tasks, Raise(t) PROVE TypeOK'
  <2>1. TasksOK'
    BY <1>41 DEF Raise, Goto, TasksOK, PCs, Holding, Turn
  <2>2. UserOK'
    BY <1>41, UseTyped DEF Raise, UserOK, Inputs
  <2> QED
    BY <1>41, <2>1, <2>2
      DEF Raise, TypeOK, StoreOK, LeaseOK, WorkersOK, store, leaseVars,
          workerVars
<1>42. ASSUME NEW t \in Tasks, BuildFails(t) PROVE TypeOK'
  <2>1. TasksOK'
    BY <1>42 DEF BuildFails, Goto, TasksOK, PCs, Holding, Turn
  <2>2. UserOK'
    BY <1>42, UseTyped DEF BuildFails, UserOK, Inputs
  <2> QED
    BY <1>42, <2>1, <2>2
      DEF BuildFails, TypeOK, StoreOK, LeaseOK, WorkersOK, store, leaseVars,
          workerVars
<1>43. ASSUME NEW t \in Tasks, Renew(t) PROVE TypeOK'
  <2>1. LeaseOK'
    BY <1>43 DEF Renew, LeaseOK
  <2>2. TasksOK'
    BY <1>43 DEF Renew, TasksOK
  <2> QED
    BY <1>43, <2>1, <2>2
      DEF Renew, TypeOK, StoreOK, WorkersOK, UserOK, store, workerVars
<1>44. ASSUME NEW t \in Tasks, Detach(t) PROVE TypeOK'
  <2>1. TasksOK'
    BY <1>44 DEF Detach, Goto, TasksOK, PCs, Holding, Turn
  <2> QED
    BY <1>44, <2>1
      DEF Detach, TypeOK, StoreOK, LeaseOK, WorkersOK, UserOK, store,
          leaseVars, workerVars
<1>45. ASSUME NEW w \in Workers, SweepFind(w) PROVE TypeOK'
  <2>1. WorkersOK'
    BY <1>45 DEF SweepFind, SweepTo, WorkersOK, workerVars, SweepPCs
  <2> QED
    BY <1>45, <2>1
      DEF SweepFind, TypeOK, StoreOK, LeaseOK, TasksOK, UserOK, store,
          leaseVars, taskVars
<1>46. ASSUME NEW w \in Workers, SweepLook(w) PROVE TypeOK'
  <2>1. StoreOK'
    BY <1>46 DEF SweepLook, StoreOK
  <2>2. WorkersOK'
    BY <1>46 DEF SweepLook, SweepTo, WorkersOK, workerVars, SweepPCs
  <2> QED
    BY <1>46, <2>1, <2>2
      DEF SweepLook, TypeOK, LeaseOK, TasksOK, UserOK, leaseVars, taskVars
<1>47. ASSUME NEW w \in Workers, SweepCount(w) PROVE TypeOK'
  <2>1. WorkersOK'
    BY <1>47 DEF SweepCount, SweepTo, WorkersOK, workerVars, SweepPCs
  <2>2. UserOK'
    BY <1>47, UseTyped DEF SweepCount, UserOK, Inputs
  <2> QED
    BY <1>47, <2>1, <2>2
      DEF SweepCount, TypeOK, StoreOK, LeaseOK, TasksOK, store, leaseVars, taskVars
<1>48. ASSUME NEW w \in Workers, SweepRecover(w) PROVE TypeOK'
  <2>1. StoreOK'
    BY <1>48, EmitTyped DEF SweepRecover, StoreOK, Events
  <2>2. WorkersOK'
    BY <1>48 DEF SweepRecover, SweepTo, WorkersOK, workerVars, SweepPCs
  <2> QED
    BY <1>48, <2>1, <2>2
      DEF SweepRecover, TypeOK, LeaseOK, TasksOK, UserOK, leaseVars, taskVars
<1>49. ASSUME NEW w \in Workers, SweepRelease(w) PROVE TypeOK'
  <2>1. LeaseOK'
    BY <1>49 DEF SweepRelease, ReleaseStale, LeaseOK
  <2>2. WorkersOK'
    BY <1>49 DEF SweepRelease, SweepTo, WorkersOK, workerVars, SweepPCs
  <2> QED
    BY <1>49, <2>1, <2>2
      DEF SweepRelease, TypeOK, StoreOK, TasksOK, UserOK, store, taskVars
<1>50. ASSUME NEW w \in Workers, SweepAbandon(w) PROVE TypeOK'
  <2>1. StoreOK'
    BY <1>50 DEF SweepAbandon, StoreOK, Statuses
  <2>2. LeaseOK'
    BY <1>50 DEF SweepAbandon, ReleaseStale, LeaseOK
  <2>3. WorkersOK'
    BY <1>50 DEF SweepAbandon, SweepTo, WorkersOK, workerVars, SweepPCs
  <2> QED
    BY <1>50, <2>1, <2>2, <2>3
      DEF SweepAbandon, TypeOK, TasksOK, UserOK, taskVars
<1>51. ASSUME NEW w \in Workers, SweepFail(w) PROVE TypeOK'
  <2>1. StoreOK'
    BY <1>51, EmitTyped DEF SweepFail, StoreOK, Events
  <2>2. WorkersOK'
    BY <1>51 DEF SweepFail, SweepTo, WorkersOK, workerVars, SweepPCs
  <2> QED
    BY <1>51, <2>1, <2>2
      DEF SweepFail, TypeOK, LeaseOK, TasksOK, UserOK, leaseVars, taskVars
<1>52. ASSUME NEW w \in Workers, Die(w) PROVE TypeOK'
  <2>1. TasksOK'
    BY <1>52 DEF Die, TasksOK, PCs, Holding, Turn
  <2>2. WorkersOK'
    BY <1>52 DEF Die, WorkersOK, SweepPCs
  <2>3. UserOK'
    BY <1>52, UseTyped DEF Die, UserOK, Inputs
  <2> QED
    BY <1>52, <2>1, <2>2, <2>3
      DEF Die, TypeOK, StoreOK, LeaseOK, store, leaseVars
<1>53. CASE Expire
  <2>1. LeaseOK'
    BY <1>53 DEF Expire, LeaseOK
  <2> QED
    BY <1>53, <2>1
      DEF Expire, TypeOK, StoreOK, TasksOK, WorkersOK, UserOK, store,
          taskVars, workerVars
<1>54. CASE Age
  <2>1. StoreOK'
    BY <1>54 DEF Age, StoreOK
  <2> QED
    BY <1>54, <2>1
      DEF Age, TypeOK, LeaseOK, TasksOK, WorkersOK, UserOK, leaseVars,
          taskVars, workerVars
<1> QED
 BY <1>1, <1>2, <1>3, <1>4, <1>5, <1>6, <1>7, <1>8, <1>9, <1>10, <1>11, <1>12,
     <1>13, <1>14, <1>15, <1>16, <1>17, <1>18, <1>19, <1>20, <1>21, <1>22,
     <1>23, <1>24, <1>25, <1>26, <1>27, <1>28, <1>29, <1>30, <1>31, <1>32,
     <1>33, <1>34, <1>35, <1>36, <1>37, <1>38, <1>39, <1>40, <1>41, <1>42,
     <1>43, <1>44, <1>45, <1>46, <1>47, <1>48, <1>49, <1>50, <1>51, <1>52,
     <1>53, <1>54, <1>55, SweepersAssumption
 DEF SweepersAssumption, Next, User, Api, Dispatch, Wake, Sweep

(* Every step keeps the discipline of the lease: only Acquire issues a token and
   only when the row is dead, Release and ReleaseStale only empty it, and no
   action hands a task's token to another. *)
LEMMA LeaseStep ==
  ASSUME TypeOK, LeaseDiscipline, Next
  PROVE  LeaseDiscipline'
<1> USE DEF TypeOK
<1>1. ASSUME NEW c \in Clients, Send(c) PROVE LeaseDiscipline'
  BY <1>1
    DEF Send, store, leaseVars, taskVars, LeaseDiscipline, StoreOK, LeaseOK,
        TasksOK
<1>2. ASSUME NEW c \in Clients, Reactivate(c) PROVE LeaseDiscipline'
  BY <1>2
    DEF Reactivate, store, leaseVars, taskVars, LeaseDiscipline, StoreOK,
        LeaseOK, TasksOK
<1>3. ASSUME NEW c \in Clients, Pause(c) PROVE LeaseDiscipline'
  BY <1>3
    DEF Pause, store, leaseVars, taskVars, LeaseDiscipline, StoreOK, LeaseOK,
        TasksOK
<1>4. ASSUME NEW c \in Clients, Delete(c) PROVE LeaseDiscipline'
  BY <1>4
    DEF Delete, leaseVars, taskVars, LeaseDiscipline, StoreOK, LeaseOK,
        TasksOK
<1>5. ASSUME NEW c \in Clients, ApiActivate(c) PROVE LeaseDiscipline'
  BY <1>5
    DEF ApiActivate, leaseVars, taskVars, LeaseDiscipline, StoreOK, LeaseOK,
        TasksOK
<1>6. ASSUME NEW c \in Clients, ApiResume(c) PROVE LeaseDiscipline'
  BY <1>6, EmitTyped
    DEF ApiResume, leaseVars, taskVars, LeaseDiscipline, StoreOK, LeaseOK,
        TasksOK, Events
<1>7. ASSUME NEW c \in Clients, ApiMessage(c) PROVE LeaseDiscipline'
  BY <1>7, EmitTyped
    DEF ApiMessage, leaseVars, taskVars, LeaseDiscipline, StoreOK, LeaseOK,
        TasksOK, Events
<1>8. ASSUME NEW c \in Clients, ApiRefuse(c) PROVE LeaseDiscipline'
  BY <1>8, EmitTyped
    DEF ApiRefuse, leaseVars, taskVars, LeaseDiscipline, StoreOK, LeaseOK,
        TasksOK, Events
<1>9. ASSUME NEW c \in Clients, ApiEnqueue(c) PROVE LeaseDiscipline'
  BY <1>9
    DEF ApiEnqueue, store, leaseVars, taskVars, LeaseDiscipline, StoreOK,
        LeaseOK, TasksOK
<1>10. ASSUME NEW c \in Clients, ApiPause(c) PROVE LeaseDiscipline'
  BY <1>10, EmitTyped
    DEF ApiPause, leaseVars, taskVars, LeaseDiscipline, StoreOK, LeaseOK,
        TasksOK, Events
<1>11. ASSUME NEW c \in Clients, ApiPublish(c) PROVE LeaseDiscipline'
  BY <1>11
    DEF ApiPublish, store, leaseVars, LeaseDiscipline, StoreOK, LeaseOK,
        TasksOK
<1>12. ASSUME NEW t \in Tasks, Pop(t) PROVE LeaseDiscipline'
  BY <1>12
    DEF Pop, Goto, store, leaseVars, LeaseDiscipline, StoreOK, LeaseOK,
        TasksOK, Turn
<1>13. ASSUME NEW t \in Tasks, Start(t) PROVE LeaseDiscipline'
  BY ZenonT(60), <1>13
    DEF Start, Goto, store, leaseVars, LeaseDiscipline, StoreOK, LeaseOK,
        TasksOK, Turn
<1>14. ASSUME NEW t \in Tasks, Probe(t) PROVE LeaseDiscipline'
  BY ZenonT(60), <1>14
    DEF Probe, Goto, store, leaseVars, LeaseDiscipline, StoreOK, LeaseOK,
        TasksOK, Turn
<1>15. ASSUME NEW t \in Tasks, Requeue(t) PROVE LeaseDiscipline'
  BY <1>15
    DEF Requeue, Goto, store, leaseVars, LeaseDiscipline, StoreOK, LeaseOK,
        TasksOK, Turn
<1>16. ASSUME NEW t \in Tasks, Build(t) PROVE LeaseDiscipline'
  BY <1>16
    DEF Build, Goto, store, leaseVars, LeaseDiscipline, StoreOK, LeaseOK,
        TasksOK, Turn
<1>17. ASSUME NEW t \in Tasks, Settle(t) PROVE LeaseDiscipline'
  BY <1>17
    DEF Settle, Goto, store, leaseVars, LeaseDiscipline, StoreOK, LeaseOK,
        TasksOK, Turn
<1>18. ASSUME NEW t \in Tasks, Retry(t) PROVE LeaseDiscipline'
  BY ZenonT(60), <1>18
    DEF Retry, Goto, store, leaseVars, LeaseDiscipline, StoreOK, LeaseOK,
        TasksOK, Turn
<1>19. ASSUME NEW t \in Tasks, GiveUp(t) PROVE LeaseDiscipline'
  <2>1. Len(log) \in Nat /\ Len(log') \in Nat /\ Len(log) <= Len(log')
    BY <1>19, EmitTyped DEF GiveUp, StoreOK, Events
  <2>2. UNCHANGED <<leaseToken, leaseLive, issued, tok, through>>
    BY <1>19 DEF GiveUp, leaseVars
  <2>3. \A u \in Tasks : pc'[u] = pc[u] \/ pc'[u] \in {"giveUpStatus", "idle"}
    BY <1>19 DEF GiveUp, Goto, TasksOK
  <2>4. \A u \in Tasks : through'[u] <= Len(log')
    BY <2>1, <2>2 DEF LeaseDiscipline, TasksOK
  <2> QED BY <2>2, <2>3, <2>4 DEF LeaseDiscipline, Turn
<1>20. ASSUME NEW t \in Tasks, GiveUpStatus(t) PROVE LeaseDiscipline'
  BY <1>20
    DEF GiveUpStatus, Goto, leaseVars, LeaseDiscipline, StoreOK, LeaseOK,
        TasksOK, Turn
<1>21. ASSUME NEW t \in Tasks, ReadStatus(t) PROVE LeaseDiscipline'
  BY ZenonT(60), <1>21
    DEF ReadStatus, Goto, store, leaseVars, LeaseDiscipline, StoreOK, LeaseOK,
        TasksOK, Turn
<1>22. ASSUME NEW t \in Tasks, Revive(t) PROVE LeaseDiscipline'
  BY <1>22
    DEF Revive, Goto, leaseVars, LeaseDiscipline, StoreOK, LeaseOK, TasksOK,
        Turn
<1>23. ASSUME NEW t \in Tasks, ReviveEvent(t) PROVE LeaseDiscipline'
  BY <1>23, EmitTyped
    DEF ReviveEvent, Goto, leaseVars, LeaseDiscipline, StoreOK, LeaseOK,
        TasksOK, Turn, Events
<1>24. ASSUME NEW t \in Tasks, Acquire(t) PROVE LeaseDiscipline'
  <2>1. CASE leaseLive
    BY <1>24, <2>1
      DEF Acquire, Goto, store, leaseVars, LeaseDiscipline, StoreOK, LeaseOK, TasksOK, Turn
  <2>2. CASE ~leaseLive
    BY <1>24, <2>2
      DEF Acquire, Goto, store, LeaseDiscipline, StoreOK, LeaseOK, TasksOK, Turn
  <2> QED BY <2>1, <2>2 DEF LeaseOK
<1>25. ASSUME NEW t \in Tasks, Load(t) PROVE LeaseDiscipline'
  <2>1. Len(log') \in Nat /\ Len(log) <= Len(log')
    BY <1>25, EmitTyped DEF Load, StoreOK, Events
  <2>2. UNCHANGED <<leaseToken, leaseLive, issued, tok, through>> /\ tok[t] /= 0
    BY <1>25 DEF Load, leaseVars, LeaseDiscipline, Turn
  <2>3. \A u \in Tasks \ {t} : pc'[u] = pc[u]
    BY <1>25 DEF Load, Goto, TasksOK
  <2>4. \A u \in Tasks : through'[u] <= Len(log')
    BY <2>1, <2>2 DEF LeaseDiscipline, StoreOK, TasksOK
  <2> QED BY <2>2, <2>3, <2>4 DEF LeaseDiscipline
<1>26. ASSUME NEW t \in Tasks, Iterate(t) PROVE LeaseDiscipline'
  BY ZenonT(60), <1>26
    DEF Iterate, Goto, store, leaseVars, LeaseDiscipline, StoreOK, LeaseOK,
        TasksOK, Turn
<1>27. ASSUME NEW t \in Tasks, Ask(t) PROVE LeaseDiscipline'
  BY <1>27, EmitTyped
    DEF Ask, Goto, leaseVars, LeaseDiscipline, StoreOK, LeaseOK, TasksOK,
        Turn, Events
<1>28. ASSUME NEW t \in Tasks, Respond(t) PROVE LeaseDiscipline'
  <2>1. Len(log) \in Nat /\ Len(log') \in Nat /\ Len(log) <= Len(log')
    BY <1>28, EmitTyped DEF Respond, StoreOK, Events
  <2>2. through' = through \/ through' = [through EXCEPT ![t] = Len(log')]
    BY <1>28, EmitTyped DEF Respond, Events
  <2>3. \A u \in Tasks : through'[u] <= Len(log')
    <3>1. \A u \in Tasks : through'[u] = through[u] \/ through'[u] = Len(log')
      BY <2>2 DEF TasksOK
    <3>2. \A u \in Tasks : through[u] \in Nat /\ through[u] <= Len(log)
      BY DEF LeaseDiscipline, TasksOK
    <3> QED BY <2>1, <3>1, <3>2
  <2>4. UNCHANGED <<leaseToken, leaseLive, issued, tok>> /\ tok[t] /= 0
    BY <1>28 DEF Respond, leaseVars, LeaseDiscipline, Turn
  <2>5. \A u \in Tasks \ {t} : pc'[u] = pc[u]
    BY <1>28 DEF Respond, Goto, TasksOK
  <2> QED BY <2>3, <2>4, <2>5 DEF LeaseDiscipline
<1>29. ASSUME NEW t \in Tasks, RunTool(t) PROVE LeaseDiscipline'
  <2>1. Len(log) \in Nat /\ Len(log') = Len(log) + 1
    BY <1>29, EmitTyped DEF RunTool, StoreOK, Events
  <2>2. through' = through \/ through' = [through EXCEPT ![t] = Len(log')]
    BY <1>29, <2>1 DEF RunTool
  <2>3. \A u \in Tasks : through'[u] <= Len(log')
    <3>1. \A u \in Tasks : through'[u] = through[u] \/ through'[u] = Len(log')
      BY <2>2 DEF TasksOK
    <3>2. \A u \in Tasks : through[u] \in Nat /\ through[u] <= Len(log)
      BY DEF LeaseDiscipline, TasksOK
    <3> QED BY <2>1, <3>1, <3>2
  <2>4. UNCHANGED <<leaseToken, leaseLive, issued, tok>> /\ tok[t] /= 0
    BY <1>29 DEF RunTool, leaseVars, LeaseDiscipline, Turn
  <2>5. \A u \in Tasks \ {t} : pc'[u] = pc[u]
    BY <1>29 DEF RunTool, Goto, TasksOK
  <2> QED BY <2>3, <2>4, <2>5 DEF LeaseDiscipline
<1>30. ASSUME NEW t \in Tasks, AfterTool(t) PROVE LeaseDiscipline'
  BY <1>30
    DEF AfterTool, Goto, leaseVars, LeaseDiscipline, StoreOK, LeaseOK,
        TasksOK, Turn
<1>31. ASSUME NEW t \in Tasks, Drain(t) PROVE LeaseDiscipline'
  <2>1. \A u \in Tasks : through'[u] = 0 \/ through'[u] = through[u]
    BY <1>31 DEF Drain, TasksOK
  <2>2. \A u \in Tasks : through'[u] <= Len(log')
    BY <1>31, <2>1 DEF Drain, LeaseDiscipline, StoreOK, store
  <2>3. UNCHANGED <<leaseToken, leaseLive, issued, tok>> /\ tok[t] /= 0
    BY <1>31 DEF Drain, leaseVars, LeaseDiscipline, Turn
  <2>4. \A u \in Tasks \ {t} : pc'[u] = pc[u]
    BY <1>31 DEF Drain, Goto, TasksOK
  <2> QED BY <2>2, <2>3, <2>4 DEF LeaseDiscipline
<1>32. ASSUME NEW t \in Tasks, Summarize(t) PROVE LeaseDiscipline'
  BY <1>32, EmitTyped
    DEF Summarize, Goto, leaseVars, LeaseDiscipline, StoreOK, LeaseOK,
        TasksOK, Turn, Events
<1>33. ASSUME NEW t \in Tasks, Complete(t) PROVE LeaseDiscipline'
  BY <1>33, EmitTyped
    DEF Complete, Goto, leaseVars, LeaseDiscipline, StoreOK, LeaseOK, TasksOK,
        Turn, Events
<1>34. ASSUME NEW t \in Tasks, CompleteStatus(t) PROVE LeaseDiscipline'
  BY <1>34
    DEF CompleteStatus, Goto, leaseVars, LeaseDiscipline, StoreOK, LeaseOK,
        TasksOK, Turn
<1>35. ASSUME NEW t \in Tasks, FailTurn(t) PROVE LeaseDiscipline'
  BY <1>35, EmitTyped
    DEF FailTurn, Goto, leaseVars, LeaseDiscipline, StoreOK, LeaseOK, TasksOK,
        Turn, Events
<1>36. ASSUME NEW t \in Tasks, FailStatus(t) PROVE LeaseDiscipline'
  BY <1>36
    DEF FailStatus, Goto, leaseVars, LeaseDiscipline, StoreOK, LeaseOK,
        TasksOK, Turn
<1>37. ASSUME NEW t \in Tasks, AdvanceAtEnd(t) PROVE LeaseDiscipline'
  BY <1>37
    DEF AdvanceAtEnd, Goto, leaseVars, LeaseDiscipline, StoreOK, LeaseOK,
        TasksOK, Turn
<1>38. ASSUME NEW t \in Tasks, Abort(t) PROVE LeaseDiscipline'
  BY <1>38, EmitTyped
    DEF Abort, Goto, leaseVars, LeaseDiscipline, StoreOK, LeaseOK, TasksOK,
        Turn, Events
<1>39. ASSUME NEW t \in Tasks, HarnessCrash(t) PROVE LeaseDiscipline'
  BY <1>39, EmitTyped
    DEF HarnessCrash, Goto, Try, leaseVars, LeaseDiscipline, StoreOK, LeaseOK,
        TasksOK, Turn, Events
<1>40. ASSUME NEW t \in Tasks, Release(t) PROVE LeaseDiscipline'
  BY <1>40
    DEF Release, Try, store, LeaseDiscipline, StoreOK, LeaseOK, TasksOK, Turn
<1>55. ASSUME NEW t \in Tasks, Return(t) PROVE LeaseDiscipline'
  BY <1>55
    DEF Return, Goto, store, leaseVars, LeaseDiscipline, StoreOK, LeaseOK, TasksOK,
        Turn
<1>41. ASSUME NEW t \in Tasks, Raise(t) PROVE LeaseDiscipline'
  BY <1>41
    DEF Raise, Goto, store, leaseVars, LeaseDiscipline, StoreOK, LeaseOK,
        TasksOK, Turn
<1>42. ASSUME NEW t \in Tasks, BuildFails(t) PROVE LeaseDiscipline'
  BY <1>42
    DEF BuildFails, Goto, store, leaseVars, LeaseDiscipline, StoreOK, LeaseOK,
        TasksOK, Turn
<1>43. ASSUME NEW t \in Tasks, Renew(t) PROVE LeaseDiscipline'
  BY <1>43 DEF Renew, store, LeaseDiscipline, StoreOK, LeaseOK, TasksOK
<1>44. ASSUME NEW t \in Tasks, Detach(t) PROVE LeaseDiscipline'
  BY <1>44
    DEF Detach, Goto, store, leaseVars, LeaseDiscipline, StoreOK, LeaseOK,
        TasksOK, Turn
<1>45. ASSUME NEW w \in Workers, SweepFind(w) PROVE LeaseDiscipline'
  BY <1>45
    DEF SweepFind, store, leaseVars, taskVars, LeaseDiscipline, StoreOK,
        LeaseOK, TasksOK
<1>46. ASSUME NEW w \in Workers, SweepLook(w) PROVE LeaseDiscipline'
  BY <1>46
    DEF SweepLook, leaseVars, taskVars, LeaseDiscipline, StoreOK, LeaseOK,
        TasksOK
<1>47. ASSUME NEW w \in Workers, SweepCount(w) PROVE LeaseDiscipline'
  BY <1>47
    DEF SweepCount, store, leaseVars, taskVars, LeaseDiscipline, StoreOK,
        LeaseOK, TasksOK
<1>48. ASSUME NEW w \in Workers, SweepRecover(w) PROVE LeaseDiscipline'
  BY <1>48, EmitTyped
    DEF SweepRecover, leaseVars, taskVars, LeaseDiscipline, StoreOK, LeaseOK,
        TasksOK, Events
<1>49. ASSUME NEW w \in Workers, SweepRelease(w) PROVE LeaseDiscipline'
  BY <1>49
    DEF SweepRelease, ReleaseStale, store, taskVars, LeaseDiscipline, StoreOK,
        LeaseOK, TasksOK
<1>50. ASSUME NEW w \in Workers, SweepAbandon(w) PROVE LeaseDiscipline'
  BY <1>50
    DEF SweepAbandon, ReleaseStale, taskVars, LeaseDiscipline, StoreOK,
        LeaseOK, TasksOK
<1>51. ASSUME NEW w \in Workers, SweepFail(w) PROVE LeaseDiscipline'
  BY <1>51, EmitTyped
    DEF SweepFail, leaseVars, taskVars, LeaseDiscipline, StoreOK, LeaseOK,
        TasksOK, Events
<1>52. ASSUME NEW w \in Workers, Die(w) PROVE LeaseDiscipline'
  BY <1>52
    DEF Die, store, leaseVars, LeaseDiscipline, StoreOK, LeaseOK, TasksOK,
        Turn
<1>53. CASE Expire
  BY <1>53
    DEF Expire, store, taskVars, LeaseDiscipline, StoreOK, LeaseOK, TasksOK
<1>54. CASE Age
  BY <1>54
    DEF Age, leaseVars, taskVars, LeaseDiscipline, StoreOK, LeaseOK, TasksOK
<1> QED
 BY <1>1, <1>2, <1>3, <1>4, <1>5, <1>6, <1>7, <1>8, <1>9, <1>10, <1>11, <1>12,
     <1>13, <1>14, <1>15, <1>16, <1>17, <1>18, <1>19, <1>20, <1>21, <1>22,
     <1>23, <1>24, <1>25, <1>26, <1>27, <1>28, <1>29, <1>30, <1>31, <1>32,
     <1>33, <1>34, <1>35, <1>36, <1>37, <1>38, <1>39, <1>40, <1>41, <1>42,
     <1>43, <1>44, <1>45, <1>46, <1>47, <1>48, <1>49, <1>50, <1>51, <1>52,
     <1>53, <1>54, <1>55, SweepersAssumption
 DEF SweepersAssumption, Next, User, Api, Dispatch, Wake, Sweep

(* Every reachable state is well typed. *)
THEOREM Typed == Spec => []TypeOK
<1>1. ASSUME Init PROVE TypeOK
  <2>1. StoreOK
    BY <1>1 DEF Init, StoreOK, Statuses, Events
  <2>2. LeaseOK
    BY <1>1 DEF Init, LeaseOK
  <2>3. TasksOK
    BY <1>1 DEF Init, TasksOK, PCs
  <2>4. WorkersOK
    BY <1>1 DEF Init, WorkersOK, SweepPCs
  <2>5. UserOK
    BY <1>1, ScenarioAssumption DEF ScenarioAssumption, Init, UserOK, ApiPCs
  <2> QED BY <2>1, <2>2, <2>3, <2>4, <2>5 DEF TypeOK
<1>2. TypeOK /\ [Next]_vars => TypeOK'
  <2>1. CASE Next
    BY <2>1, TypeStep
  <2>2. ASSUME TypeOK, UNCHANGED vars PROVE TypeOK'
    BY <2>2 DEF vars, TypeOK, StoreOK, LeaseOK, TasksOK, WorkersOK, UserOK
  <2> QED BY <2>1, <2>2
<1> QED BY <1>1, <1>2, PTL DEF Spec

(* The lease tokens of session_leases are handled as the turns rely on. *)
THEOREM Disciplined == Spec => []LeaseDiscipline
<1>1. Init => LeaseDiscipline
  BY DEF Init, LeaseDiscipline, Turn
<1>2. TypeOK /\ LeaseDiscipline /\ [Next]_vars => LeaseDiscipline'
  <2>1. CASE Next
    BY <2>1, LeaseStep
  <2>2. ASSUME LeaseDiscipline, UNCHANGED vars PROVE LeaseDiscipline'
    BY <2>2 DEF vars, LeaseDiscipline
  <2> QED BY <2>1, <2>2
<1> QED BY <1>1, <1>2, Typed, PTL DEF Spec

(* Two turns never own the session together: the lease's tokens tell them
   apart, and without stalls the second would find the row alive. *)
THEOREM Exclusive == Spec => []ExclusiveTurn
<1>1. LeaseDiscipline => ExclusiveTurn
  BY SwitchAssumption DEF SwitchAssumption, LeaseDiscipline, ExclusiveTurn
<1> QED BY <1>1, Disciplined, PTL

(* advance_harness_cursor never lets a zombie commit: only AfterTool and
   AdvanceAtEnd move the cursor, under a token that is the row's and so the
   newest, to an id of the log, and only forward. *)
THEOREM Fenced == Spec => CursorFenced
<1> DEFINE Moved == cursor < cursor' /\ cursor' <= Len(log)
                    /\ \E t \in Tasks : tok[t] = issued /\ tok[t] = leaseToken /\ issued /= 0
<1>1. ASSUME TypeOK, LeaseDiscipline, NEW t \in Tasks, AfterTool(t) \/ AdvanceAtEnd(t),
             cursor' /= cursor
      PROVE  Moved
  <2>1. cursor' = through[t] /\ leaseToken = tok[t] /\ cursor < through[t]
    BY <1>1 DEF AfterTool, AdvanceAtEnd, AdvanceTo, Try
  <2>2. tok[t] /= 0 /\ through[t] <= Len(log) /\ leaseToken \in {0, issued}
    BY <1>1 DEF AfterTool, AdvanceAtEnd, LeaseDiscipline, Turn
  <2> QED BY <2>1, <2>2
<1>2. ASSUME TypeOK, LeaseDiscipline, Next, cursor' /= cursor PROVE Moved
  <2>1. ASSUME NEW c \in Clients, User(c) PROVE cursor' = cursor
    BY <2>1
      DEF User, store, Send, Reactivate, Pause, Delete
  <2>2. ASSUME NEW c \in Clients, Api(c) PROVE cursor' = cursor
    BY <2>2
      DEF Api, store, ApiActivate, ApiResume, ApiMessage, ApiRefuse,
          ApiEnqueue, ApiPause, ApiPublish
  <2>3. ASSUME NEW t \in Tasks, Dispatch(t) PROVE cursor' = cursor
    BY <2>3
      DEF Dispatch, store, Start, Probe, Requeue, Build, Settle, Retry,
          GiveUp, GiveUpStatus
  <2>4. ASSUME NEW t \in Tasks, Wake(t) PROVE cursor' = cursor \/ AfterTool(t) \/ AdvanceAtEnd(t)
    BY <2>4
      DEF Wake, store, ReadStatus, Revive, ReviveEvent, Acquire, Load,
          Iterate, Ask, Respond, RunTool, Drain, Summarize, Complete,
          CompleteStatus, FailTurn, FailStatus, Abort, HarnessCrash, Release, Return
  <2>5. ASSUME NEW w \in Sweepers, Sweep(w) PROVE cursor' = cursor
    BY <2>5
      DEF Sweep, store, SweepFind, SweepLook, SweepCount, SweepRecover,
          SweepRelease, SweepAbandon, SweepFail
  <2>6. \E t \in Tasks : AfterTool(t) \/ AdvanceAtEnd(t)
    BY <1>2, <2>1, <2>2, <2>3, <2>4, <2>5
      DEF Next, store, Expire, Age, Pop, Raise, BuildFails, Renew, Detach, Die
  <2> QED BY <1>1, <1>2, <2>6
<1>3. TypeOK /\ LeaseDiscipline /\ [Next]_vars => [cursor' /= cursor => Moved]_vars
  BY <1>2 DEF vars
<1> QED BY <1>3, Typed, Disciplined, PTL DEF Spec, CursorFenced

(* A deleted session stays deleted: every write of the status, by a turn, a
   revival, a sweep or a racing request, respects archived. *)
THEOREM Archived == Spec => ArchivedFinal
<1>1. ASSUME Next, status = "archived" PROVE status' = "archived"
  <2>1. ASSUME NEW c \in Clients, Delete(c) PROVE status' = "archived"
    BY <1>1, <2>1 DEF Delete
  <2>2. ASSUME NEW c \in Clients, ApiActivate(c) PROVE status' = "archived"
    BY <1>1, <2>2 DEF ApiActivate, SetStatus
  <2>3. ASSUME NEW c \in Clients, ApiPause(c) PROVE status' = "archived"
    BY <1>1, <2>3 DEF ApiPause, Emit
  <2>4. ASSUME NEW t \in Tasks, GiveUpStatus(t) PROVE status' = "archived"
    BY <1>1, <2>4 DEF GiveUpStatus, SetStatus, Try
  <2>5. ASSUME NEW t \in Tasks, Revive(t) PROVE status' = "archived"
    BY <1>1, <2>5 DEF Revive, SetStatus
  <2>6. ASSUME NEW t \in Tasks, CompleteStatus(t) PROVE status' = "archived"
    BY <1>1, <2>6 DEF CompleteStatus, SetStatus, Try
  <2>7. ASSUME NEW t \in Tasks, FailStatus(t) PROVE status' = "archived"
    BY <1>1, <2>7 DEF FailStatus, SetStatus, Try
  <2>8. ASSUME NEW w \in Sweepers, SweepAbandon(w) PROVE status' = "archived"
    BY <1>1, <2>8 DEF SweepAbandon
  <2>9. ASSUME NEW c \in Clients, User(c) PROVE status' = "archived"
    BY <1>1, <2>9, <2>1
      DEF User, store, Send, Reactivate, Pause
  <2>10. ASSUME NEW c \in Clients, Api(c) PROVE status' = "archived"
    BY <1>1, <2>10, <2>2, <2>3
      DEF Api, store, ApiResume, ApiMessage, ApiRefuse, ApiEnqueue, ApiPublish
  <2>11. ASSUME NEW t \in Tasks, Dispatch(t) PROVE status' = "archived"
    BY <1>1, <2>11, <2>4
      DEF Dispatch, store, Start, Probe, Requeue, Build, Settle, Retry, GiveUp
  <2>12. ASSUME NEW t \in Tasks, Wake(t) PROVE status' = "archived"
    BY <1>1, <2>12, <2>5, <2>6, <2>7
      DEF Wake, store, ReadStatus, ReviveEvent, Acquire, Load, Iterate, Ask,
          Respond, RunTool, AfterTool, Drain, Summarize, Complete, FailTurn,
          AdvanceAtEnd, Abort, HarnessCrash, Release, Return
  <2>13. ASSUME NEW w \in Sweepers, Sweep(w) PROVE status' = "archived"
    BY <1>1, <2>13, <2>8
      DEF Sweep, store, SweepFind, SweepLook, SweepCount, SweepRecover,
          SweepRelease, SweepFail
  <2> QED
    BY <1>1, <2>9, <2>10, <2>11, <2>12, <2>13
    DEF Next, store, Expire, Age, Pop, Raise, BuildFails, Renew, Detach, Die
<1>2. [Next]_vars => [status = "archived" => status' = "archived"]_vars
  BY <1>1 DEF vars
<1> QED BY <1>2, PTL DEF Spec, ArchivedFinal

(* What every step but the lease's and the cursor's own leaves alone: who owns the
   session and how far it has come; the log is kept, or grows by one event. *)
Quiet == /\ UNCHANGED <<leaseToken, leaseLive, tok, cursor>>
         /\ log' = log \/ \E e \in Events : log' = Append(log, e)

(* A quiet step is a write of the abstract log, or none of its business. *)
LEMMA QuietStep ==
  ASSUME Quiet
  PROVE  [Store!Next]_(Store!vars)
<1>1. Holder' = Holder
  BY DEF Quiet, Holder
<1>2. CASE log' = log
  BY <1>1, <1>2 DEF Quiet, Store!vars
<1>3. CASE \E e \in Events : log' = Append(log, e)
  BY <1>1, <1>3 DEF Quiet, Store!Next, Store!Write
<1> QED BY <1>2, <1>3 DEF Quiet

(* The requests of the API, the dispatcher and the turn's own bookkeeping are quiet. *)
LEMMA MostAreQuiet ==
  ASSUME Next
  PROVE  \/ Quiet
         \/ Expire \/ \E w \in Workers : Die(w)
         \/ \E t \in Tasks : Acquire(t) \/ AfterTool(t) \/ AdvanceAtEnd(t) \/ Release(t) \/ Renew(t)
         \/ \E w \in Sweepers : SweepRelease(w) \/ SweepAbandon(w)
<1>1. ASSUME NEW c \in Clients, User(c) PROVE Quiet
  BY <1>1 DEF User, store, leaseVars, taskVars, Send, Reactivate, Pause, Delete, Quiet
<1>2. ASSUME NEW c \in Clients, Api(c) PROVE Quiet
  BY <1>2
    DEF Api, store, leaseVars, taskVars, ApiActivate, ApiResume, ApiMessage, ApiRefuse,
        ApiEnqueue, ApiPause, ApiPublish, Emit, Events, Quiet
<1>3. ASSUME NEW t \in Tasks, Dispatch(t) PROVE Quiet
  BY <1>3
    DEF Dispatch, store, leaseVars, Start, Probe, Requeue, Build, Settle, Retry,
        GiveUp, GiveUpStatus, Emit, Events, Quiet
<1>4. ASSUME NEW t \in Tasks, Wake(t)
      PROVE  Quiet \/ Acquire(t) \/ AfterTool(t) \/ AdvanceAtEnd(t) \/ Release(t)
  <2>1. ASSUME ReadStatus(t) \/ Revive(t) \/ ReviveEvent(t) \/ Load(t) \/ Iterate(t) PROVE Quiet
    BY <2>1 DEF store, leaseVars, ReadStatus, Revive, ReviveEvent, Load, Iterate, Emit, Events, Quiet
  <2>2. ASSUME Ask(t) \/ Respond(t) \/ RunTool(t) \/ Drain(t) \/ Summarize(t) PROVE Quiet
    BY <2>2 DEF store, leaseVars, Ask, Respond, RunTool, Drain, Summarize, Emit, Events, Quiet
  <2>3. ASSUME Complete(t) \/ CompleteStatus(t) \/ FailTurn(t) \/ FailStatus(t) PROVE Quiet
    BY <2>3 DEF leaseVars, Complete, CompleteStatus, FailTurn, FailStatus, Emit, Events, Quiet
  <2>4. ASSUME Abort(t) \/ HarnessCrash(t) \/ Return(t) PROVE Quiet
    BY <2>4 DEF store, leaseVars, Abort, HarnessCrash, Return, Try, Emit, Events, Quiet
  <2> QED BY <1>4, <2>1, <2>2, <2>3, <2>4 DEF Wake
<1>5. ASSUME NEW w \in Sweepers, Sweep(w) PROVE Quiet \/ SweepRelease(w) \/ SweepAbandon(w)
  BY <1>5
    DEF Sweep, store, leaseVars, taskVars, SweepFind, SweepLook, SweepCount,
        SweepRecover, SweepFail, Emit, Events, Quiet
<1>6. ASSUME NEW t \in Tasks, Pop(t) \/ Raise(t) \/ BuildFails(t) \/ Detach(t) PROVE Quiet
  BY <1>6 DEF store, leaseVars, Pop, Raise, BuildFails, Detach, Quiet
<1>7. ASSUME Age PROVE Quiet
  BY <1>7 DEF Age, leaseVars, taskVars, Quiet
<1> QED BY <1>1, <1>2, <1>3, <1>4, <1>5, <1>6, <1>7 DEF Next

(* A lease is taken only when it is dead, and its new token is no one else's. *)
LEMMA AcquireTakes ==
  ASSUME TypeOK, LeaseDiscipline, NEW t \in Tasks, Acquire(t)
  PROVE  [Store!Next]_(Store!vars)
<1>1. CASE leaseLive
  <2>1. Quiet
    BY <1>1 DEF Acquire, store, leaseVars, Quiet
  <2> QED BY <2>1, QuietStep
<1>2. CASE ~leaseLive
  <2>1. /\ leaseToken' = issued + 1 /\ leaseLive' = TRUE /\ UNCHANGED <<cursor, log>>
        /\ tok' = [tok EXCEPT ![t] = issued + 1]
    BY <1>2 DEF Acquire, store
  <2>2. issued \in Nat /\ \A u \in Tasks : tok[u] \in Nat /\ tok[u] <= issued
    BY DEF TypeOK, LeaseOK, TasksOK, LeaseDiscipline
  <2>3. tok'[t] = issued + 1 /\ \A u \in Tasks \ {t} : tok'[u] = tok[u]
    BY <2>1 DEF TypeOK, TasksOK
  <2>4. Holder' = {t}
    BY <2>1, <2>2, <2>3 DEF Holder
  <2> QED BY <1>2, <2>1, <2>4 DEF Store!Next, Store!Take
<1> QED BY <1>1, <1>2 DEF TypeOK, LeaseOK

(* The cursor moves under the row's own token, within the log, or not at all. *)
LEMMA AdvanceCommits ==
  ASSUME TypeOK, LeaseDiscipline, NEW t \in Tasks, AfterTool(t) \/ AdvanceAtEnd(t)
  PROVE  [Store!Next]_(Store!vars)
<1>1. UNCHANGED <<leaseToken, leaseLive, tok, log>>
  BY DEF AfterTool, AdvanceAtEnd, leaseVars
<1>2. Holder' = Holder
  BY <1>1 DEF Holder
<1>3. CASE cursor' = cursor
  BY <1>1, <1>2, <1>3 DEF Store!vars
<1>4. CASE cursor' /= cursor
  <2>1. cursor' = through[t] /\ leaseToken = tok[t] /\ cursor < through[t]
    BY <1>4 DEF AfterTool, AdvanceAtEnd, AdvanceTo, Try
  <2>2. tok[t] /= 0 /\ through[t] <= Len(log)
    BY DEF AfterTool, AdvanceAtEnd, LeaseDiscipline, Turn
  <2>3. t \in Holder
    BY <2>1, <2>2 DEF Holder
  <2>4. cursor \in Nat /\ through[t] \in Nat /\ Len(log) \in Nat
    BY DEF TypeOK, StoreOK, TasksOK
  <2>5. through[t] \in 1 .. Len(log)
    BY <2>1, <2>2, <2>4
  <2> QED BY <1>1, <1>2, <2>1, <2>2, <2>3, <2>5 DEF Store!Next, Store!Commit
<1> QED BY <1>3, <1>4

(* A turn that ends gives up its token; the row goes with it, if it was its own. *)
LEMMA ReleaseLeaves ==
  ASSUME TypeOK, LeaseDiscipline, NEW t \in Tasks, Release(t)
  PROVE  [Store!Next]_(Store!vars)
<1>1. /\ tok' = [tok EXCEPT ![t] = 0] /\ UNCHANGED <<cursor, log>>
      /\ \/ UNCHANGED <<leaseToken, leaseLive>>
         \/ leaseToken = tok[t] /\ tok[t] /= 0 /\ leaseToken' = 0 /\ leaseLive' = FALSE
  BY DEF Release, Try, store
<1>2. tok'[t] = 0 /\ \A u \in Tasks \ {t} : tok'[u] = tok[u]
  BY <1>1 DEF TypeOK, TasksOK
<1>3. \A u \in Tasks \ {t} : tok[t] /= 0 => tok[t] /= tok[u]
  BY DEF LeaseDiscipline
<1>4. CASE t \in Holder
  <2>1. Holder' = {}
    BY <1>1, <1>2, <1>3, <1>4 DEF Holder
  <2> QED BY <1>1, <1>4, <2>1 DEF Store!Next, Store!Leave
<1>5. CASE t \notin Holder
  <2>1. UNCHANGED <<leaseToken, leaseLive>>
    BY <1>1, <1>5 DEF Holder
  <2>2. Holder' = Holder
    BY <1>2, <1>5, <2>1 DEF Holder
  <2> QED BY <1>1, <2>1, <2>2 DEF Store!vars
<1> QED BY <1>4, <1>5

(* The session keeps the promise of SessionOwner, for any number of workers, turns
   and sweeps, through stalls and deaths. *)
THEOREM Owned == Spec => KeepsOwnership
<1>1. Init => Store!Init
  BY DEF Init, Store!Init, Holder, Events
<1>2. ASSUME TypeOK, LeaseDiscipline, Next PROVE [Store!Next]_(Store!vars)
  <2>1. CASE Quiet
    BY <2>1, QuietStep
  <2>2. CASE Expire
    BY <2>2 DEF Expire, store, taskVars, Holder, Store!Next, Store!Expire
  <2>3. ASSUME NEW w \in Workers, Die(w) PROVE [Store!Next]_(Store!vars)
    <3>1. /\ UNCHANGED <<leaseToken, leaseLive, cursor, log>>
          /\ \A t \in Tasks : tok'[t] \in {0, tok[t]}
      BY <2>3 DEF Die, store, leaseVars
    <3>2. Holder' = {} \/ Holder' = Holder
      <4>1. \A t, u \in Holder : t = u
        BY <1>2 DEF Holder, LeaseDiscipline
      <4>2. Holder' \subseteq Holder
        BY <3>1 DEF Holder
      <4> QED BY <4>1, <4>2
    <3> QED BY <3>1, <3>2 DEF Store!Next, Store!Leave, Store!vars
  <2>4. ASSUME NEW t \in Tasks, Renew(t) PROVE [Store!Next]_(Store!vars)
    <3>1. t \in Holder /\ UNCHANGED <<leaseToken, tok, cursor, log>> /\ leaseLive' = TRUE
      BY <2>4 DEF Renew, Holder, store
    <3>2. Holder' = Holder
      BY <3>1 DEF Holder
    <3> QED BY <3>1, <3>2 DEF Store!Next, Store!Keep
  <2>5. ASSUME NEW w \in Sweepers, SweepRelease(w) \/ SweepAbandon(w) PROVE [Store!Next]_(Store!vars)
    <3>1. /\ UNCHANGED <<leaseLive, tok, cursor, log>>
          /\ leaseToken' = leaseToken \/ leaseToken' = 0
      BY <2>5 DEF SweepRelease, SweepAbandon, ReleaseStale, store, taskVars
    <3>2. Holder' = Holder \/ Holder' = {}
      BY <3>1 DEF Holder
    <3> QED BY <3>1, <3>2 DEF Store!Next, Store!Leave, Store!vars
  <2> QED BY <1>2, <2>1, <2>2, <2>3, <2>4, <2>5, MostAreQuiet, AcquireTakes, AdvanceCommits, ReleaseLeaves
<1>3. ASSUME UNCHANGED vars PROVE UNCHANGED Store!vars
  BY <1>3 DEF vars, Store!vars, Holder
<1>4. TypeOK /\ LeaseDiscipline /\ [Next]_vars => [Store!Next]_(Store!vars)
  BY <1>2, <1>3
<1> QED BY <1>1, <1>4, Typed, Disciplined, PTL DEF Spec, KeepsOwnership, Store!Spec

(* The sweeps that have judged the session worth another recovery and have not
   written it yet. *)
Recovering == {w \in Sweepers : sweep[w] = "recover"}

(* count_recoveries_since_progress counts these events of the log. *)
Recoveries == {i \in DOMAIN log :
                 /\ log[i] = "recovered"
                 /\ \A j \in DOMAIN log :
                      log[j] \in {"answer", "draft", "call", "result", "user"} => j < i}

(* The recoveries written and those decided on together stay under the ceiling of
   RecoveryBounded, which alone does not outlive a sweep that writes late. *)
Foreseen == Streak + Cardinality(Recovering) + 1 <= MaxRecoveries + Cardinality(Replicas) + blind

(* What a step may do to the log and to the sweeps about to write session.recovered:
   only a sweep that is about to writes it, and only one that counted fewer than the
   ceiling, or could not count, becomes about to. *)
Idle == UNCHANGED <<log, blind>> /\ Recovering' \subseteq Recovering
Judges == UNCHANGED <<log, blind>> /\ Streak < MaxRecoveries
Guesses(w) == log' = log /\ blind' = blind + 1 /\ Recovering' = Recovering \cup {w}
Writes(e) == log' = Append(log, e) /\ blind' = blind /\ Recovering' \subseteq Recovering
Recovers(w) == log' = Append(log, "recovered") /\ blind' = blind /\ Recovering' = Recovering \ {w}
Allowed == \/ Idle \/ Judges
           \/ \E w \in Sweepers : Guesses(w)
           \/ \E e \in Events \ {"recovered"} : Writes(e)
           \/ \E w \in Recovering : Recovers(w)

(* The streak is a count. *)
LEMMA StreakIsNat ==
  ASSUME StoreOK
  PROVE  IsFiniteSet(Recoveries) /\ Streak = Cardinality(Recoveries) /\ Streak \in Nat
<1>1. Recoveries \subseteq 1..Len(log) /\ Len(log) \in Nat
  BY DEF Recoveries, StoreOK
<1>2. IsFiniteSet(1..Len(log))
  BY <1>1, FS_Interval
<1>3. IsFiniteSet(Recoveries)
  BY <1>1, <1>2, FS_Subset
<1>4. Streak = Cardinality(Recoveries)
  BY DEF Streak, Recoveries
<1> QED BY <1>3, <1>4, FS_CardinalityType

(* One event more is at most one recovery more, and only if it is a recovery. *)
LEMMA StreakAppend ==
  ASSUME StoreOK, NEW e \in Events, log' = Append(log, e)
  PROVE  Streak' <= Streak + (IF e = "recovered" THEN 1 ELSE 0)
<1> DEFINE n == Len(log) + 1
<1>1. /\ log \in Seq(Events) /\ Len(log) \in Nat
      /\ DOMAIN log = 1..Len(log) /\ DOMAIN log' = 1..n
      /\ log'[n] = e /\ \A i \in 1..Len(log) : log'[i] = log[i]
  BY DEF StoreOK
<1>2. Recoveries' \subseteq Recoveries \cup (IF e = "recovered" THEN {n} ELSE {})
  <2>1. SUFFICES ASSUME NEW i \in Recoveries', i /= n PROVE i \in Recoveries
    BY <1>1 DEF Recoveries
  <2>2. i \in 1..Len(log) /\ log[i] = "recovered"
    BY <1>1, <2>1 DEF Recoveries
  <2>3. ASSUME NEW j \in 1..Len(log), log[j] \in {"answer", "draft", "call", "result", "user"}
        PROVE  j < i
    BY <1>1, <2>1, <2>3 DEF Recoveries
  <2> QED BY <1>1, <2>2, <2>3 DEF Recoveries
<1>3. IsFiniteSet(Recoveries) /\ Streak = Cardinality(Recoveries) /\ Streak \in Nat
  BY StreakIsNat
<1>4. Streak' = Cardinality(Recoveries')
  BY DEF Streak, Recoveries
<1>5. CASE e = "recovered"
  <2>1. /\ IsFiniteSet(Recoveries \cup {n})
        /\ Cardinality(Recoveries \cup {n}) \in {Streak, Streak + 1}
    BY <1>3, FS_AddElement
  <2>2. Recoveries' \in SUBSET (Recoveries \cup {n})
    BY <1>2, <1>5
  <2>3. IsFiniteSet(Recoveries') /\ Cardinality(Recoveries') <= Cardinality(Recoveries \cup {n})
    BY <2>1, <2>2, FS_Subset
  <2>4. Cardinality(Recoveries') \in Nat
    BY <2>3, FS_CardinalityType
  <2> QED BY <1>3, <1>4, <1>5, <2>1, <2>3, <2>4
<1>6. CASE e /= "recovered"
  <2>1. Recoveries' \in SUBSET Recoveries
    BY <1>2, <1>6
  <2>2. IsFiniteSet(Recoveries') /\ Cardinality(Recoveries') <= Cardinality(Recoveries)
    BY <1>3, <2>1, FS_Subset
  <2>3. Cardinality(Recoveries') \in Nat
    BY <2>2, FS_CardinalityType
  <2> QED BY <1>3, <1>4, <1>6, <2>2, <2>3
<1> QED BY <1>5, <1>6

(* Every step of every actor is one of these, and the workers that sweep stay the same. *)
LEMMA RecoveryStep ==
  ASSUME TypeOK, Next
  PROVE  Allowed /\ Replicas' = Replicas
<1> DEFINE Plain == log' = log \/ \E e \in Events \ {"recovered"} : log' = Append(log, e)
<1>0. ASSUME Plain, UNCHANGED <<sweep, blind>> PROVE Allowed /\ Replicas' = Replicas
  BY <1>0 DEF Allowed, Idle, Writes, Recovering, Replicas
<1>1. ASSUME NEW c \in Clients, User(c) PROVE Allowed /\ Replicas' = Replicas
  <2>1. Plain /\ UNCHANGED <<sweep, blind>>
    BY <1>1 DEF User, store, Send, Reactivate, Pause, Delete
  <2> QED BY <2>1, <1>0
<1>2. ASSUME NEW c \in Clients, Api(c) PROVE Allowed /\ Replicas' = Replicas
  <2>1. Plain /\ UNCHANGED <<sweep, blind>>
    BY <1>2
      DEF Api, store, ApiActivate, ApiResume, ApiMessage, ApiRefuse, ApiEnqueue,
          ApiPause, ApiPublish, Emit, Events
  <2> QED BY <2>1, <1>0
<1>3. ASSUME NEW t \in Tasks, Dispatch(t) PROVE Allowed /\ Replicas' = Replicas
  <2>1. Plain /\ UNCHANGED <<sweep, blind>>
    BY <1>3
      DEF Dispatch, store, Start, Probe, Requeue, Build, Settle, Retry, GiveUp,
          GiveUpStatus, Emit, Events
  <2> QED BY <2>1, <1>0
<1>4. ASSUME NEW t \in Tasks, Wake(t) PROVE Allowed /\ Replicas' = Replicas
  <2>1. ASSUME ReadStatus(t) \/ Revive(t) \/ ReviveEvent(t) \/ Acquire(t) \/ Load(t) \/ Iterate(t)
        PROVE  Plain /\ UNCHANGED <<sweep, blind>>
    BY <2>1 DEF store, ReadStatus, Revive, ReviveEvent, Acquire, Load, Iterate, Emit, Events
  <2>2. ASSUME Ask(t) \/ Respond(t) \/ RunTool(t) \/ AfterTool(t) \/ Drain(t) \/ Summarize(t)
        PROVE  Plain /\ UNCHANGED <<sweep, blind>>
    BY <2>2 DEF store, Ask, Respond, RunTool, AfterTool, Drain, Summarize, Emit, Events
  <2>3. ASSUME Complete(t) \/ CompleteStatus(t) \/ FailTurn(t) \/ FailStatus(t)
        PROVE  Plain /\ UNCHANGED <<sweep, blind>>
    BY <2>3 DEF Complete, CompleteStatus, FailTurn, FailStatus, Emit, Events
  <2>4. ASSUME AdvanceAtEnd(t) \/ Abort(t) \/ HarnessCrash(t) \/ Release(t) \/ Return(t)
        PROVE  Plain /\ UNCHANGED <<sweep, blind>>
    BY <2>4 DEF store, AdvanceAtEnd, Abort, HarnessCrash, Release, Return, Try, Emit, Events
  <2> QED BY <1>4, <2>1, <2>2, <2>3, <2>4, <1>0 DEF Wake
<1>5. ASSUME NEW t \in Tasks,
             Pop(t) \/ Raise(t) \/ BuildFails(t) \/ Renew(t) \/ Detach(t)
      PROVE  Allowed /\ Replicas' = Replicas
  <2>1. Plain /\ UNCHANGED <<sweep, blind>>
    BY <1>5 DEF store, Pop, Raise, BuildFails, Renew, Detach
  <2> QED BY <2>1, <1>0
<1>6. ASSUME Expire \/ Age PROVE Allowed /\ Replicas' = Replicas
  <2>1. Plain /\ UNCHANGED <<sweep, blind>>
    BY <1>6 DEF store, Expire, Age
  <2> QED BY <2>1, <1>0
<1>7. ASSUME NEW w \in Workers, Die(w) PROVE Allowed /\ Replicas' = Replicas
  <2>1. /\ UNCHANGED <<log, blind>>
        /\ sweep' = [sweep EXCEPT ![w] = IF @ = "absent" THEN "absent" ELSE "idle"]
    BY <1>7 DEF Die, store
  <2> QED BY <2>1, SweepersAssumption DEF Allowed, Idle, Recovering, Replicas, TypeOK, WorkersOK
<1>8. ASSUME NEW w \in Sweepers, Sweep(w) PROVE Allowed /\ Replicas' = Replicas
  <2>0. w \in Workers /\ sweep \in [Workers -> SweepPCs]
    BY SweepersAssumption DEF TypeOK, WorkersOK
  <2>9. Replicas' = Replicas
    <3>1. sweep[w] /= "absent"
      BY <1>8 DEF Sweep, SweepFind, SweepLook, SweepCount, SweepRecover, SweepRelease,
                  SweepAbandon, SweepFail
    <3>2. \E p \in SweepPCs \ {"absent"} : sweep' = [sweep EXCEPT ![w] = p]
      BY <1>8 DEF Sweep, SweepFind, SweepLook, SweepCount, SweepRecover, SweepRelease,
                  SweepAbandon, SweepFail, SweepTo, SweepPCs
    <3> QED BY <2>0, <3>1, <3>2, SweepersAssumption DEF Replicas
  <2>1. CASE SweepFind(w) \/ SweepLook(w) \/ SweepRelease(w) \/ SweepAbandon(w)
    <3>1. UNCHANGED <<log, blind>> /\ \E p \in SweepPCs \ {"recover"} : sweep' = [sweep EXCEPT ![w] = p]
      BY <2>1 DEF store, SweepFind, SweepLook, SweepRelease, SweepAbandon, SweepTo, SweepPCs
    <3> QED BY <2>9, <2>0, <3>1 DEF Allowed, Idle, Recovering
  <2>2. CASE SweepFail(w)
    <3>1. log' = Append(log, "fail") /\ blind' = blind /\ sweep' = [sweep EXCEPT ![w] = "idle"]
      BY <2>2 DEF SweepFail, SweepTo, Emit
    <3>2. Writes("fail")
      BY <2>0, <3>1 DEF Writes, Recovering
    <3> QED BY <2>9, <3>2 DEF Allowed, Events
  <2>3. CASE SweepCount(w)
    <3>0. log' = log
      BY <2>3 DEF SweepCount, store
    <3>1. CASE sweep' = [sweep EXCEPT ![w] = "abandon"] /\ blind' = blind
      BY <2>0, <2>9, <3>0, <3>1 DEF Allowed, Idle, Recovering
    <3>2. CASE ~(Streak >= MaxRecoveries) /\ blind' = blind
      <4>1. Streak \in Nat
        BY StreakIsNat DEF TypeOK
      <4> QED BY <2>9, <3>0, <3>2, <4>1, RetryAssumption DEF Allowed, Judges
    <3>3. CASE sweep' = [sweep EXCEPT ![w] = "recover"] /\ blind' = blind + 1
      <4>1. Recovering' = Recovering \cup {w}
        BY <1>8, <2>0, <3>3 DEF Recovering
      <4> QED BY <2>9, <1>8, <3>0, <3>3, <4>1 DEF Allowed, Guesses
    <3> QED BY <2>9, <2>3, <3>1, <3>2, <3>3 DEF SweepCount, SweepTo
  <2>4. CASE SweepRecover(w)
    <3>1. /\ sweep[w] = "recover" /\ log' = Append(log, "recovered") /\ blind' = blind
          /\ sweep' = [sweep EXCEPT ![w] = "release"]
      BY <2>4 DEF SweepRecover, SweepTo, Emit
    <3>2. w \in Recovering /\ Recovers(w)
      BY <2>0, <3>1 DEF Recovers, Recovering
    <3> QED BY <2>9, <3>2 DEF Allowed
  <2> QED BY <1>8, <2>1, <2>2, <2>3, <2>4, <2>9 DEF Sweep
<1> QED BY <1>1, <1>2, <1>3, <1>4, <1>5, <1>6, <1>7, <1>8 DEF Next

(* The sweep's ceiling, which every replica compares with the count it read, holds
   up to the replicas that counted at the same time and the recoveries that a failed
   count let pass: for any number of sweeping workers, deaths and stalls. *)
THEOREM RecoveriesEnd ==
  ASSUME IsFiniteSet(Sweepers), \A s \in Scenarios : Sweeping[s] /= {}
  PROVE  Spec => []RecoveryBounded
<1> DEFINE All == Cardinality(Replicas)
<1>0. IsFiniteSet(Replicas) /\ All \in Nat /\ MaxRecoveries \in Nat
  <2>1. Replicas \in SUBSET Sweepers
    BY DEF Replicas
  <2> QED BY <2>1, FS_Subset, FS_CardinalityType, RetryAssumption
<1>1. Init => Foreseen
  <2>1. SUFFICES ASSUME Init PROVE Foreseen
    OBVIOUS
  <2>2. StoreOK
    BY <2>1 DEF Init, StoreOK, Statuses, Events
  <2>3. Recoveries = {}
    BY <2>1 DEF Init, Recoveries
  <2>4. Streak = 0
    BY <2>2, <2>3, StreakIsNat, FS_EmptySet
  <2>5. Recovering = {}
    BY <2>1, SweepersAssumption DEF Init, Recovering
  <2>6. Cardinality(Recovering) = 0
    BY <2>5, FS_EmptySet
  <2>7. blind = 0
    BY <2>1 DEF Init
  <2>8. Replicas = Sweeping[left] /\ left \in Scenarios
    BY <2>1, SweepersAssumption, SweepingAssumption DEF Init, Replicas
  <2>9. All /= 0
    BY <1>0, <2>8, FS_EmptySet
  <2> QED BY <1>0, <2>4, <2>6, <2>7, <2>9 DEF Foreseen
<1>2. ASSUME TypeOK, Foreseen, Next PROVE Foreseen'
  <2> DEFINE R == Cardinality(Recovering)
             R1 == Cardinality(Recovering')
  <2>1. Streak \in Nat /\ StoreOK /\ blind \in Nat
    BY <1>2, StreakIsNat DEF TypeOK, UserOK
  <2>2. Streak' \in Nat
    <3>1. TypeOK'
      BY <1>2, TypeStep
    <3>2. StoreOK'
      BY <3>1 DEF TypeOK
    <3>3. (IsFiniteSet(Recoveries) /\ Streak = Cardinality(Recoveries) /\ Streak \in Nat)'
      BY <3>2, StreakIsNat, PTL
    <3> QED BY <3>3
  <2>3. IsFiniteSet(Recovering) /\ R \in Nat
    <3>1. Recovering \in SUBSET Sweepers
      BY DEF Recovering
    <3> QED BY <3>1, FS_Subset, FS_CardinalityType
  <2>0. Allowed /\ Replicas' = Replicas
    BY <1>2, RecoveryStep
  <2>4. IsFiniteSet(Recovering') /\ R1 \in Nat /\ R1 <= All
    <3>1. Recovering' \in SUBSET Replicas
      BY <2>0 DEF Recovering, Replicas
    <3> QED BY <1>0, <3>1, FS_Subset, FS_CardinalityType
  <2>5. ASSUME Recovering' \subseteq Recovering PROVE R1 <= R
    BY <2>3, <2>5, FS_Subset
  <2>6. Streak + R + 1 <= MaxRecoveries + All + blind
    BY <1>2 DEF Foreseen
  <2>7. SUFFICES Streak' + R1 + 1 <= MaxRecoveries + All + blind'
    BY <2>0 DEF Foreseen
  <2>8. ASSUME log' = log PROVE Streak' = Streak
    BY <2>8 DEF Streak
  <2>9. CASE Idle
    <3>1. Streak' = Streak /\ R1 <= R /\ blind' = blind
      BY <2>5, <2>8, <2>9 DEF Idle
    <3> QED BY <1>0, <2>1, <2>3, <2>4, <2>6, <3>1
  <2>10. CASE Judges
    BY <1>0, <2>1, <2>4, <2>8, <2>10 DEF Judges
  <2>11. ASSUME NEW e \in Events \ {"recovered"}, Writes(e)
         PROVE  Streak' + R1 + 1 <= MaxRecoveries + All + blind'
    <3>1. Streak' <= Streak
      BY <2>1, <2>2, <2>11, StreakAppend DEF Writes
    <3>2. R1 <= R
      BY <2>5, <2>11 DEF Writes
    <3>3. blind' = blind
      BY <2>11 DEF Writes
    <3> QED BY <1>0, <2>1, <2>2, <2>3, <2>4, <2>6, <3>1, <3>2, <3>3
  <2>12. ASSUME NEW w \in Recovering, Recovers(w)
         PROVE  Streak' + R1 + 1 <= MaxRecoveries + All + blind'
    <3>1. Streak' <= Streak + 1
      BY <2>1, <2>2, <2>12, StreakAppend DEF Recovers, Events
    <3>2. R1 = R - 1
      BY <2>3, <2>12, FS_RemoveElement DEF Recovers
    <3>3. blind' = blind
      BY <2>12 DEF Recovers
    <3> QED BY <1>0, <2>1, <2>2, <2>3, <2>4, <2>6, <3>1, <3>2, <3>3
  <2>13. ASSUME NEW w \in Sweepers, Guesses(w)
         PROVE  Streak' + R1 + 1 <= MaxRecoveries + All + blind'
    <3>1. R1 \in {R, R + 1}
      BY <2>3, <2>13, FS_AddElement DEF Guesses
    <3>2. Streak' = Streak /\ blind' = blind + 1
      BY <2>8, <2>13 DEF Guesses
    <3> QED BY <1>0, <2>1, <2>3, <2>4, <2>6, <3>1, <3>2
  <2> QED BY <2>0, <2>9, <2>10, <2>11, <2>12, <2>13 DEF Allowed
<1>3. UNCHANGED vars /\ Foreseen => Foreseen'
  BY DEF vars, Foreseen, Streak, Recovering, Replicas
<1>4. TypeOK /\ Foreseen => RecoveryBounded
  <2>1. SUFFICES ASSUME TypeOK, Foreseen PROVE RecoveryBounded
    OBVIOUS
  <2>2. Streak \in Nat /\ blind \in Nat
    BY <2>1, StreakIsNat DEF TypeOK, UserOK
  <2>3. Cardinality(Recovering) \in Nat
    <3>1. Recovering \in SUBSET Sweepers
      BY DEF Recovering
    <3> QED BY <3>1, FS_Subset, FS_CardinalityType
  <2> QED BY <1>0, <2>1, <2>2, <2>3 DEF Foreseen, RecoveryBounded
<1>5. TypeOK /\ Foreseen /\ [Next]_vars => Foreseen'
  BY <1>2, <1>3
<1> QED BY <1>1, <1>4, <1>5, Typed, PTL DEF Spec

(***************************************************************************)
(* No message is skipped.                                                  *)
(***************************************************************************)

(* Of the messages up to k, each was in a request up to h, or an event of X excuses it
   later: the session.fail of its turn, or nothing at all. *)
Covers(l, h, k, X) ==
  \A i \in DOMAIN l : l[i] = "user" /\ i <= k /\ i > h =>
    \E j \in DOMAIN l : j > i /\ l[j] \in X

(* A turn's end aims the cursor only past messages that were heard or failed; one
   about to drain was asked with all it has read. *)
Last == {"complete", "completeStatus", "failStatus", "advance"}
EndsWell(t, X) ==
  /\ pc[t] \in Last => Covers(log, heard, through[t], X)
  /\ pc[t] \in {"drain", "complete"} => through[t] /= 0
  /\ pc[t] = "drain" => steer[t] <= heard
  /\ pc[t] /= "summary"
EndsInv(X) == cursor <= Len(log) /\ \A t \in Tasks : EndsWell(t, X)

(* Without tool calls the cursor moves at the end of turns only. *)
NoCalls == left["calls"] = 0
Straight(X) == /\ Covers(log, heard, cursor, X)
               /\ \A t \in Tasks : pc[t] \notin {"tool", "cursor"}

(* With them it may pass a message that came while the tool ran; if nothing cuts the
   turn off, the turn itself reads the message before its next request. *)
Uncut(s) == \A i \in {"stops", "deletes", "drafts", "crashes", "deaths"} : s[i] = 0
Calm == ~Stalls /\ Uncut(left)
Unstopped == /\ status \notin {"paused", "archived"}
             /\ \A c \in Clients : api[c] \notin {"pause", "publish"}
             /\ \A t \in Tasks : ~stop[t] /\ pc[t] \notin {"abort", "crash", "unwind"}
WillHear(t) == /\ tok[t] /= 0
               /\ \/ pc[t] = "iter"
                  \/ /\ pc[t] \in {"ask", "llm"}
                     /\ \A i \in Messages : i <= cursor => i <= steer[t]
Smooth(X) == Unstopped /\ (Covers(log, heard, cursor, X) \/ \E t \in Tasks : WillHear(t))

SkipInv(X) == EndsInv(X) /\ ((NoCalls /\ Straight(X)) \/ (Calm /\ Smooth(X)))

(* What covers the messages up to k goes on covering them as the log and what was
   heard grow. *)
LEMMA CoversKept ==
  ASSUME NEW X, NEW l \in Seq(Events), NEW m, m = l \/ \E e \in Events : m = Append(l, e),
         NEW h \in Nat, NEW g \in Nat, h <= g,
         NEW k \in Nat, k <= Len(l), Covers(l, h, k, X)
  PROVE  Covers(m, g, k, X)
<1>1. /\ DOMAIN l = 1..Len(l) /\ Len(l) \in Nat
      /\ DOMAIN m = DOMAIN l \/ DOMAIN m = 1..(Len(l) + 1)
      /\ \A i \in DOMAIN l : m[i] = l[i]
  OBVIOUS
<1>2. SUFFICES ASSUME NEW i \in DOMAIN m, m[i] = "user", i <= k, i > g
               PROVE  \E j \in DOMAIN m : j > i /\ m[j] \in X
  BY DEF Covers
<1>3. i \in DOMAIN l /\ l[i] = "user" /\ i > h
  BY <1>1, <1>2
<1>4. PICK j \in DOMAIN l : j > i /\ l[j] \in X
  BY <1>2, <1>3 DEF Covers
<1> QED BY <1>1, <1>4

(* The log and what was heard only grow, and an input used up stays so. *)
LEMMA Grows ==
  ASSUME TypeOK, Next
  PROVE  /\ log' = log \/ \E e \in Events : log' = Append(log, e)
         /\ heard' \in Nat /\ heard <= heard'
         /\ \A i \in Inputs : left[i] = 0 => left'[i] = 0
<1>1. log' = log \/ \E e \in Events : log' = Append(log, e)
  <2>1. ASSUME NEW t \in Tasks, Acquire(t) \/ AfterTool(t) \/ AdvanceAtEnd(t) \/ Release(t) \/ Renew(t)
        PROVE  log' = log
    BY <2>1 DEF Acquire, AfterTool, AdvanceAtEnd, Release, Renew, store
  <2>2. ASSUME NEW w \in Sweepers, SweepRelease(w) \/ SweepAbandon(w) PROVE log' = log
    BY <2>2 DEF SweepRelease, SweepAbandon, store
  <2>3. ASSUME Expire \/ \E w \in Workers : Die(w) PROVE log' = log
    BY <2>3 DEF Expire, Die, store
  <2> QED BY <2>1, <2>2, <2>3, MostAreQuiet DEF Quiet
<1>2. TypeOK'
  BY TypeStep
<1>3. heard' \in Nat /\ heard \in Nat
  BY <1>2 DEF TypeOK, UserOK
<1>4. heard <= heard'
  <2>1. ASSUME NEW t \in Tasks, Hear(t) PROVE heard <= heard'
    <3>1. steer[t] \in Nat
      BY DEF TypeOK, TasksOK
    <3> QED BY <1>3, <2>1, <3>1 DEF Hear
  <2>2. ASSUME NEW c \in Clients, User(c) \/ Api(c) PROVE heard' = heard
    BY <2>2 DEF User, Api, Send, Reactivate, Pause, Delete, ApiActivate, ApiResume,
        ApiMessage, ApiRefuse, ApiEnqueue, ApiPause, ApiPublish
  <2>3. ASSUME NEW t \in Tasks, Dispatch(t) PROVE heard' = heard
    BY <2>3 DEF Dispatch, Start, Probe, Requeue, Build, Settle, Retry, GiveUp, GiveUpStatus
  <2>4. ASSUME NEW t \in Tasks, Wake(t) PROVE heard' = heard \/ Hear(t)
    BY <2>4
      DEF Wake, ReadStatus, Revive, ReviveEvent, Acquire, Load, Iterate, Ask, Respond,
          RunTool, AfterTool, Drain, Summarize, Complete, CompleteStatus, FailTurn,
          FailStatus, AdvanceAtEnd, Abort, HarnessCrash, Release, Return
  <2>5. ASSUME NEW w \in Sweepers, Sweep(w) PROVE heard' = heard
    BY <2>5
      DEF Sweep, SweepFind, SweepLook, SweepCount, SweepRecover, SweepRelease,
          SweepAbandon, SweepFail
  <2>6. ASSUME NEW t \in Tasks, Pop(t) \/ Raise(t) \/ BuildFails(t) \/ Renew(t) \/ Detach(t)
        PROVE  heard' = heard
    BY <2>6 DEF Pop, Raise, BuildFails, Renew, Detach
  <2>7. ASSUME Expire \/ Age \/ \E w \in Workers : Die(w) PROVE heard' = heard
    BY <2>7 DEF Expire, Age, Die
  <2>8. heard' = heard \/ \E t \in Tasks : Hear(t)
    BY <2>2, <2>3, <2>4, <2>5, <2>6, <2>7 DEF Next
  <2> QED BY <1>3, <2>1, <2>8
<1>5. left' = left \/ \E i \in Inputs : Use(i)
  <2>2. ASSUME NEW c \in Clients, User(c) \/ Api(c) PROVE left' = left \/ \E i \in Inputs : Use(i)
    BY <2>2 DEF User, Api, Send, Reactivate, Pause, Delete, ApiActivate, ApiResume,
        ApiMessage, ApiRefuse, ApiEnqueue, ApiPause, ApiPublish, Inputs
  <2>3. ASSUME NEW t \in Tasks, Dispatch(t) PROVE left' = left \/ \E i \in Inputs : Use(i)
    BY <2>3 DEF Dispatch, Start, Probe, Requeue, Build, Settle, Retry, GiveUp, GiveUpStatus, Try, Inputs
  <2>4. ASSUME NEW t \in Tasks, Wake(t) PROVE left' = left \/ \E i \in Inputs : Use(i)
    BY <2>4
      DEF Wake, ReadStatus, Revive, ReviveEvent, Acquire, Load, Iterate, Ask, Respond,
          RunTool, AfterTool, Drain, Summarize, Complete, CompleteStatus, FailTurn,
          FailStatus, AdvanceAtEnd, Abort, HarnessCrash, Release, Return, Try, Inputs
  <2>5. ASSUME NEW w \in Sweepers, Sweep(w) PROVE left' = left \/ \E i \in Inputs : Use(i)
    BY <2>5
      DEF Sweep, SweepFind, SweepLook, SweepCount, SweepRecover, SweepRelease,
          SweepAbandon, SweepFail, Inputs
  <2> QED BY <2>2, <2>3, <2>4, <2>5
        DEF Next, Expire, Age, Pop, Raise, BuildFails, Renew, Detach, Die, Inputs
<1>6. ASSUME NEW i \in Inputs, left[i] = 0 PROVE left'[i] = 0
  <2>1. CASE left' = left
    BY <1>6, <2>1
  <2>2. ASSUME NEW k \in Inputs, Use(k) PROVE left'[i] = 0
    <3>1. left[k] > 0 /\ left' = [left EXCEPT ![k] = @ - 1]
      BY <2>2 DEF Use
    <3> QED BY <1>6, <3>1 DEF TypeOK, UserOK
  <2> QED BY <1>5, <2>1, <2>2
<1> QED BY <1>1, <1>3, <1>4, <1>6

(* A task that stands still, or leaves for a place that is no end, ends as well as before. *)
LEMMA EndsKept ==
  ASSUME NEW X, TypeOK, LeaseDiscipline, Next, NEW t \in Tasks, EndsWell(t, X),
         \/ pc'[t] = pc[t] /\ through'[t] = through[t] /\ steer'[t] = steer[t]
         \/ pc'[t] \notin Last \cup {"drain", "summary"}
  PROVE  EndsWell(t, X)'
<1>1. CASE pc'[t] \notin Last \cup {"drain", "summary"}
  BY <1>1 DEF EndsWell, Last
<1>2. CASE pc'[t] = pc[t] /\ through'[t] = through[t] /\ steer'[t] = steer[t]
  <2>1. /\ log \in Seq(Events) /\ heard \in Nat /\ heard' \in Nat /\ heard <= heard'
        /\ log' = log \/ \E e \in Events : log' = Append(log, e)
        /\ through[t] \in Nat /\ through[t] <= Len(log) /\ steer[t] \in Nat
    BY Grows DEF TypeOK, StoreOK, TasksOK, UserOK, LeaseDiscipline
  <2>2. Covers(log, heard, through[t], X) => Covers(log', heard', through[t], X)
    BY <2>1, CoversKept
  <2> QED BY <1>2, <2>1, <2>2 DEF EndsWell
<1> QED BY <1>1, <1>2

(* The other tasks stand still while one steps. *)
LEMMA OthersStand ==
  ASSUME TypeOK, NEW t \in Tasks, NEW u \in Tasks \ {t},
         Pop(t) \/ Dispatch(t) \/ Wake(t) \/ Raise(t) \/ BuildFails(t) \/ Renew(t) \/ Detach(t)
  PROVE  pc'[u] = pc[u] /\ through'[u] = through[u] /\ steer'[u] = steer[u] /\ tok'[u] = tok[u]
<1> USE DEF TypeOK, TasksOK, taskVars, Goto
<1>1. CASE Pop(t) \/ Raise(t) \/ BuildFails(t) \/ Renew(t) \/ Detach(t)
  BY <1>1 DEF Pop, Raise, BuildFails, Renew, Detach
<1>2. CASE Dispatch(t)
  BY <1>2 DEF Dispatch, Start, Probe, Requeue, Build, Settle, Retry, GiveUp, GiveUpStatus
<1>3. CASE Wake(t)
  <2>1. CASE ReadStatus(t) \/ Revive(t) \/ ReviveEvent(t) \/ Acquire(t)
    BY <2>1 DEF ReadStatus, Revive, ReviveEvent, Acquire
  <2>2. CASE Load(t) \/ Iterate(t) \/ Ask(t) \/ Respond(t)
    BY <2>2 DEF Load, Iterate, Ask, Respond
  <2>3. CASE RunTool(t) \/ AfterTool(t) \/ Drain(t) \/ Summarize(t)
    BY <2>3 DEF RunTool, AfterTool, Drain, Summarize
  <2>4. CASE Complete(t) \/ CompleteStatus(t) \/ FailTurn(t) \/ FailStatus(t)
    BY <2>4 DEF Complete, CompleteStatus, FailTurn, FailStatus
  <2>5. CASE AdvanceAtEnd(t) \/ Abort(t) \/ HarnessCrash(t) \/ Release(t) \/ Return(t)
    BY <2>5 DEF AdvanceAtEnd, Abort, HarnessCrash, Release, Return
  <2> QED BY <1>3, <2>1, <2>2, <2>3, <2>4, <2>5 DEF Wake
<1> QED BY <1>1, <1>2, <1>3

(* The steps that are not a task's own leave the tasks where they are, or kill them. *)
LEMMA TasksStand ==
  ASSUME TypeOK, NEW u \in Tasks,
         \/ Expire \/ Age
         \/ \E c \in Clients : User(c) \/ Api(c)
         \/ \E w \in Sweepers : Sweep(w)
         \/ \E w \in Workers : Die(w)
  PROVE  \/ pc'[u] = pc[u] /\ through'[u] = through[u] /\ steer'[u] = steer[u] /\ tok'[u] = tok[u]
         \/ pc'[u] = "idle" /\ \E w \in Workers : Die(w)
<1>1. CASE Expire \/ Age
  BY <1>1 DEF Expire, Age, taskVars
<1>2. ASSUME NEW c \in Clients, User(c) \/ Api(c) PROVE UNCHANGED <<pc, through, steer, tok>>
  BY <1>2 DEF User, Api, Send, Reactivate, Pause, Delete, ApiActivate, ApiResume,
        ApiMessage, ApiRefuse, ApiEnqueue, ApiPause, ApiPublish, taskVars
<1>3. ASSUME NEW w \in Sweepers, Sweep(w) PROVE UNCHANGED <<pc, through, steer, tok>>
  BY <1>3 DEF Sweep, SweepFind, SweepLook, SweepCount, SweepRecover, SweepRelease,
        SweepAbandon, SweepFail, taskVars
<1>4. ASSUME NEW w \in Workers, Die(w)
      PROVE  \/ pc'[u] = pc[u] /\ through'[u] = through[u] /\ steer'[u] = steer[u] /\ tok'[u] = tok[u]
             \/ pc'[u] = "idle"
  BY <1>4 DEF Die, TypeOK, TasksOK
<1> QED BY <1>1, <1>2, <1>3, <1>4

(* Only a turn's end, or a tool's, moves the cursor, and to where that task aims. *)
LEMMA CursorMoves ==
  ASSUME TypeOK, LeaseDiscipline, Next
  PROVE  \/ cursor' = cursor
         \/ \E t \in Tasks : (AfterTool(t) \/ AdvanceAtEnd(t)) /\ cursor' = through[t]
<1>1. ASSUME NEW t \in Tasks, AfterTool(t) \/ AdvanceAtEnd(t)
      PROVE  cursor' = cursor \/ cursor' = through[t]
  BY <1>1 DEF AfterTool, AdvanceAtEnd, AdvanceTo, Try
<1>2. ASSUME NEW t \in Tasks, Acquire(t) \/ Release(t) \/ Renew(t) PROVE cursor' = cursor
  BY <1>2 DEF Acquire, Release, Renew, store
<1>3. ASSUME NEW w \in Sweepers, SweepRelease(w) \/ SweepAbandon(w) PROVE cursor' = cursor
  BY <1>3 DEF SweepRelease, SweepAbandon, store
<1>4. ASSUME Expire \/ \E w \in Workers : Die(w) PROVE cursor' = cursor
  BY <1>4 DEF Expire, Die, store
<1> QED BY <1>1, <1>2, <1>3, <1>4, MostAreQuiet DEF Quiet

(* A step of a task's own either ends no worse, or is one of the six on the way to the
   end; each leaves its turn ending well. *)
LEMMA EndsStep ==
  ASSUME NEW X, ~BareEnds, TypeOK, LeaseDiscipline, EndsInv(X), Next,
         "fail" \in X \/ \A t \in Tasks : pc[t] /= "failTurn"
  PROVE  EndsInv(X)'
<1> DEFINE Here(t) == pc'[t] = pc[t] /\ through'[t] = through[t] /\ steer'[t] = steer[t]
           Off(t) == pc'[t] \notin Last \cup {"drain", "summary"}
<1>0. /\ log \in Seq(Events) /\ heard \in Nat /\ heard' \in Nat /\ heard <= heard'
      /\ log' = log \/ \E e \in Events : log' = Append(log, e)
      /\ cursor \in Nat /\ cursor <= Len(log)
      /\ \A t \in Tasks : through[t] \in Nat /\ through[t] <= Len(log) /\ steer[t] \in Nat
  BY Grows DEF TypeOK, StoreOK, TasksOK, UserOK, LeaseDiscipline, EndsInv
<1>1. cursor' <= Len(log')
  <2>1. Len(log') \in Nat /\ Len(log) <= Len(log')
    BY <1>0
  <2>2. cursor' <= Len(log)
    BY <1>0, CursorMoves
  <2>3. cursor' \in Nat
    BY <1>0, CursorMoves
  <2> QED BY <1>0, <2>1, <2>2, <2>3
<1>2. ASSUME NEW t \in Tasks,
             Pop(t) \/ Dispatch(t) \/ Raise(t) \/ BuildFails(t) \/ Renew(t) \/ Detach(t)
      PROVE  Here(t) \/ Off(t)
  <2> USE DEF TypeOK, TasksOK, Last, Goto
  <2>1. CASE Pop(t) \/ Raise(t) \/ BuildFails(t) \/ Renew(t) \/ Detach(t)
    BY <2>1 DEF Pop, Raise, BuildFails, Renew, Detach
  <2>2. CASE Dispatch(t)
    BY <2>2 DEF Dispatch, Start, Probe, Requeue, Build, Settle, Retry, GiveUp, GiveUpStatus
  <2> QED BY <1>2, <2>1, <2>2
<1>3. ASSUME NEW t \in Tasks,
             \/ ReadStatus(t) \/ Revive(t) \/ ReviveEvent(t) \/ Acquire(t) \/ Load(t)
             \/ Iterate(t) \/ Ask(t) \/ RunTool(t) \/ AfterTool(t)
             \/ AdvanceAtEnd(t) \/ Abort(t) \/ HarnessCrash(t) \/ Release(t) \/ Return(t)
      PROVE  Off(t)
  <2> USE DEF TypeOK, TasksOK, Last, Goto
  <2>1. CASE ReadStatus(t) \/ Revive(t) \/ ReviveEvent(t) \/ Acquire(t) \/ Load(t)
    BY <2>1 DEF ReadStatus, Revive, ReviveEvent, Acquire, Load
  <2>2. CASE Iterate(t) \/ Ask(t) \/ RunTool(t) \/ AfterTool(t)
    BY <2>2 DEF Iterate, Ask, RunTool, AfterTool
  <2>3. CASE AdvanceAtEnd(t) \/ Abort(t) \/ HarnessCrash(t)
    BY <2>3 DEF AdvanceAtEnd, Abort, HarnessCrash
  <2>4. CASE Release(t) \/ Return(t)
    BY <2>4 DEF Release, Return
  <2> QED BY <1>3, <2>1, <2>2, <2>3, <2>4
<1>4. ASSUME NEW t \in Tasks, Respond(t) PROVE EndsWell(t, X)'
  <2>1. \/ Off(t)
        \/ /\ pc' = [pc EXCEPT ![t] = "drain"] /\ Hear(t)
           /\ through' = [through EXCEPT ![t] = Len(log) + 1] /\ steer' = steer
    BY <1>4 DEF Respond, Goto, TypeOK, TasksOK, Last
  <2>2. CASE Off(t)
    BY <1>4, <2>2, EndsKept DEF EndsInv
  <2>3. CASE /\ pc' = [pc EXCEPT ![t] = "drain"] /\ Hear(t)
             /\ through' = [through EXCEPT ![t] = Len(log) + 1] /\ steer' = steer
    <3>1. pc'[t] = "drain" /\ through'[t] = Len(log) + 1 /\ steer'[t] = steer[t]
      BY <2>3 DEF TypeOK, TasksOK
    <3>2. steer[t] <= heard'
      BY <1>0, <2>3 DEF Hear
    <3>3. through'[t] /= 0
      BY <1>0, <3>1
    <3> QED BY <3>1, <3>2, <3>3 DEF EndsWell, Last
  <2> QED BY <2>1, <2>2, <2>3
<1>5. ASSUME NEW t \in Tasks, Drain(t) PROVE EndsWell(t, X)'
  <2>1. /\ pc[t] = "drain" /\ UNCHANGED <<log, heard>>
        /\ \/ Off(t)
           \/ pc'[t] = "complete" /\ through'[t] = through[t] /\ ~(LastMessage > steer[t])
    BY <1>5 DEF Drain, Goto, TypeOK, TasksOK, Last, store
  <2>2. CASE Off(t)
    BY <1>5, <2>2, EndsKept DEF EndsInv
  <2>3. CASE pc'[t] = "complete" /\ through'[t] = through[t] /\ ~(LastMessage > steer[t])
    <3>1. steer[t] <= heard /\ through[t] /= 0
      BY <2>1 DEF EndsInv, EndsWell
    <3>2. \A i \in Messages : i <= LastMessage /\ i \in Nat
      BY LastMessageInLog DEF TypeOK, StoreOK, Messages
    <3>3. LastMessage \in Nat
      BY LastMessageInLog DEF TypeOK
    <3>4. \A i \in Messages : i <= heard
      BY <1>0, <2>3, <3>1, <3>2, <3>3
    <3>5. Covers(log, heard, through[t], X)
      BY <1>0, <3>2, <3>4 DEF Covers, Messages
    <3> QED BY <2>1, <2>3, <3>1, <3>5 DEF EndsWell
  <2> QED BY <2>1, <2>2, <2>3
<1>6. ASSUME NEW t \in Tasks, Complete(t) \/ CompleteStatus(t) \/ FailStatus(t) PROVE EndsWell(t, X)'
  <2>1. /\ pc[t] \in Last /\ pc'[t] \in {"completeStatus", "advance"}
        /\ pc[t] = "complete" \/ through'[t] = through[t]
    BY <1>6 DEF Complete, CompleteStatus, FailStatus, Goto, TypeOK, TasksOK, Last
  <2>2. through'[t] = through[t]
    BY <1>6, <2>1 DEF Complete, CompleteStatus, FailStatus, TypeOK, TasksOK, EndsInv, EndsWell
  <2>3. Covers(log, heard, through[t], X)
    BY <2>1 DEF EndsInv, EndsWell
  <2>4. Covers(log', heard', through[t], X)
    BY <1>0, <2>3, CoversKept
  <2> QED BY <2>1, <2>2, <2>4 DEF EndsWell
<1>7. ASSUME NEW t \in Tasks, FailTurn(t) PROVE EndsWell(t, X)'
  <2>1. /\ log' = Append(log, "fail") /\ pc'[t] = "failStatus" /\ through'[t] = Len(log) + 1
    BY <1>7 DEF FailTurn, Emit, Goto, TypeOK, TasksOK
  <2>2. /\ DOMAIN log' = 1..(Len(log) + 1) /\ Len(log) \in Nat
        /\ log'[Len(log) + 1] = "fail"
    BY <1>0, <2>1
  <2>4. "fail" \in X
    BY <1>7 DEF FailTurn
  <2>3. Covers(log', heard', Len(log) + 1, X)
    BY <2>2, <2>4 DEF Covers
  <2> QED BY <2>1, <2>3 DEF EndsWell
<1>8. ASSUME NEW t \in Tasks, Summarize(t) PROVE FALSE
  BY <1>8 DEF Summarize, EndsInv, EndsWell
<1>9. ASSUME NEW t \in Tasks,
             Pop(t) \/ Dispatch(t) \/ Wake(t) \/ Raise(t) \/ BuildFails(t) \/ Renew(t) \/ Detach(t),
             NEW u \in Tasks
      PROVE  EndsWell(u, X)'
  <2>1. CASE u /= t
    BY <1>9, <2>1, OthersStand, EndsKept DEF EndsInv
  <2>2. CASE u = t
    <3>1. \/ Here(t) \/ Off(t)
          \/ Respond(t) \/ Drain(t) \/ Complete(t) \/ CompleteStatus(t) \/ FailStatus(t) \/ FailTurn(t)
      BY <1>2, <1>3, <1>8, <1>9 DEF Wake
    <3> QED BY <1>4, <1>5, <1>6, <1>7, <2>2, <3>1, EndsKept DEF EndsInv
  <2> QED BY <2>1, <2>2
<1>10. ASSUME NEW u \in Tasks PROVE EndsWell(u, X)'
  <2>1. CASE \E t \in Tasks : \/ Pop(t) \/ Dispatch(t) \/ Wake(t) \/ Raise(t) \/ BuildFails(t)
                              \/ Renew(t) \/ Detach(t)
    BY <1>9, <2>1
  <2>2. CASE \/ Expire \/ Age
             \/ \E c \in Clients : User(c) \/ Api(c)
             \/ \E w \in Sweepers : Sweep(w)
             \/ \E w \in Workers : Die(w)
    <3>1. Here(u) \/ Off(u)
      BY <2>2, TasksStand DEF Last
    <3> QED BY <3>1, EndsKept DEF EndsInv
  <2> QED BY <2>1, <2>2 DEF Next
<1> QED BY <1>1, <1>10 DEF EndsInv

(* Without tool calls no step moves the cursor over a message nobody answers for. *)
LEMMA StraightStep ==
  ASSUME NEW X, ~BareEnds, TypeOK, LeaseDiscipline, EndsInv(X), NoCalls, Straight(X), Next
  PROVE  NoCalls' /\ Straight(X)'
<1>0. /\ log \in Seq(Events) /\ heard \in Nat /\ heard' \in Nat /\ heard <= heard'
      /\ log' = log \/ \E e \in Events : log' = Append(log, e)
      /\ cursor \in Nat /\ cursor <= Len(log)
      /\ \A t \in Tasks : through[t] \in Nat /\ through[t] <= Len(log)
  BY Grows DEF TypeOK, StoreOK, TasksOK, UserOK, LeaseDiscipline, EndsInv
<1>1. NoCalls'
  BY Grows DEF NoCalls, Inputs
<1>2. Covers(log', heard', cursor', X)
  <2>1. CASE cursor' = cursor
    BY <1>0, <2>1, CoversKept DEF Straight
  <2>2. ASSUME NEW t \in Tasks, AfterTool(t) \/ AdvanceAtEnd(t), cursor' = through[t]
        PROVE  Covers(log', heard', cursor', X)
    <3>1. AdvanceAtEnd(t)
      BY <2>2 DEF AfterTool, Straight
    <3>2. Covers(log, heard, through[t], X)
      BY <3>1 DEF AdvanceAtEnd, EndsInv, EndsWell, Last
    <3> QED BY <1>0, <2>2, <3>2, CoversKept
  <2> QED BY <2>1, <2>2, CursorMoves
<1>3. ASSUME NEW t \in Tasks,
             Pop(t) \/ Dispatch(t) \/ Wake(t) \/ Raise(t) \/ BuildFails(t) \/ Renew(t) \/ Detach(t)
      PROVE  pc'[t] \notin {"tool", "cursor"}
  <2> USE DEF TypeOK, TasksOK, Goto
  <2>1. CASE Pop(t) \/ Raise(t) \/ BuildFails(t) \/ Renew(t) \/ Detach(t)
    BY <2>1 DEF Pop, Raise, BuildFails, Renew, Detach, Straight
  <2>2. CASE Dispatch(t)
    BY <2>2 DEF Dispatch, Start, Probe, Requeue, Build, Settle, Retry, GiveUp, GiveUpStatus
  <2>3. CASE Wake(t)
    <3>1. CASE ReadStatus(t) \/ Revive(t) \/ ReviveEvent(t) \/ Acquire(t)
      BY <3>1 DEF ReadStatus, Revive, ReviveEvent, Acquire
    <3>2. CASE Load(t) \/ Iterate(t) \/ Ask(t)
      BY <3>2 DEF Load, Iterate, Ask
    <3>3. CASE Respond(t)
      BY <3>3 DEF Respond, Use, NoCalls
    <3>4. CASE RunTool(t) \/ AfterTool(t)
      BY <3>4 DEF RunTool, AfterTool, Straight
    <3>5. CASE Drain(t) \/ Summarize(t) \/ Complete(t) \/ CompleteStatus(t) \/ FailTurn(t) \/ FailStatus(t)
      BY <3>5 DEF Drain, Summarize, Complete, CompleteStatus, FailTurn, FailStatus
    <3>6. CASE AdvanceAtEnd(t) \/ Abort(t) \/ HarnessCrash(t)
      BY <3>6 DEF AdvanceAtEnd, Abort, HarnessCrash
    <3>7. CASE Release(t) \/ Return(t)
      BY <3>7 DEF Release, Return
    <3> QED BY <2>3, <3>1, <3>2, <3>3, <3>4, <3>5, <3>6, <3>7 DEF Wake
  <2> QED BY <1>3, <2>1, <2>2, <2>3
<1>4. ASSUME NEW u \in Tasks PROVE pc'[u] \notin {"tool", "cursor"}
  <2>1. ASSUME NEW t \in Tasks,
               Pop(t) \/ Dispatch(t) \/ Wake(t) \/ Raise(t) \/ BuildFails(t) \/ Renew(t) \/ Detach(t)
        PROVE  pc'[u] \notin {"tool", "cursor"}
    BY <1>3, <2>1, OthersStand DEF Straight
  <2>2. CASE \/ Expire \/ Age
             \/ \E c \in Clients : User(c) \/ Api(c)
             \/ \E w \in Sweepers : Sweep(w)
             \/ \E w \in Workers : Die(w)
    BY <2>2, TasksStand DEF Straight
  <2> QED BY <2>1, <2>2 DEF Next
<1> QED BY <1>1, <1>2, <1>4 DEF Straight

(* Where nobody stops, deletes, kills or fails, nothing cuts a turn off. *)
LEMMA UnstoppedStep ==
  ASSUME TypeOK, LeaseDiscipline, Calm, Unstopped, Next
  PROVE  Calm' /\ Unstopped'
<1>1. Calm'
  BY Grows DEF Calm, Uncut, Inputs
<1>2. ASSUME NEW i \in {"stops", "deletes", "drafts", "crashes", "deaths"}, Use(i) PROVE FALSE
  BY <1>2 DEF Use, Calm, Uncut
<1>3. ASSUME NEW c \in Clients, User(c) PROVE Unstopped'
  BY <1>2, <1>3 DEF User, Send, Reactivate, Pause, Delete, ApiTo, store, taskVars, Unstopped, TypeOK, UserOK
<1>4. ASSUME NEW c \in Clients, Api(c) PROVE Unstopped'
  <2>1. CASE ApiActivate(c) \/ ApiResume(c) \/ ApiMessage(c) \/ ApiRefuse(c) \/ ApiEnqueue(c)
    BY <2>1
      DEF ApiActivate, ApiResume, ApiMessage, ApiRefuse, ApiEnqueue, SetStatus, ApiTo,
          store, taskVars, Unstopped, TypeOK, UserOK
  <2> QED BY <1>4, <2>1 DEF Api, ApiPause, ApiPublish, Unstopped
<1>5. ASSUME NEW w \in Sweepers, Sweep(w) PROVE Unstopped'
  BY <1>5 DEF Sweep, SweepFind, SweepLook, SweepCount, SweepRecover, SweepRelease,
        SweepAbandon, SweepFail, store, taskVars, Unstopped
<1>6. ASSUME NEW w \in Workers, Die(w) PROVE FALSE
  BY <1>2, <1>6 DEF Die
<1>7. ASSUME Expire \/ Age PROVE Unstopped'
  BY <1>7 DEF Expire, Age, store, taskVars, Unstopped
<1>8. ASSUME NEW t \in Tasks,
             Pop(t) \/ Dispatch(t) \/ Wake(t) \/ Raise(t) \/ BuildFails(t) \/ Renew(t) \/ Detach(t)
      PROVE  Unstopped'
  <2> DEFINE Fine == /\ api' = api
                     /\ status' = status \/ status' \in {"active", "completed", "failed"}
                     /\ stop' = stop \/ stop' = [stop EXCEPT ![t] = FALSE]
                     /\ pc'[t] \notin {"abort", "crash", "unwind"}
  <2>0. Fine => Unstopped'
    <3>1. SUFFICES ASSUME Fine PROVE Unstopped'
      OBVIOUS
    <3>2. status' \notin {"paused", "archived"} /\ api' = api
      BY <3>1 DEF Unstopped
    <3>3. \A u \in Tasks : ~stop'[u]
      BY <3>1 DEF Unstopped, TypeOK, TasksOK
    <3>4. \A u \in Tasks : pc'[u] \notin {"abort", "crash", "unwind"}
      BY <1>8, <3>1, OthersStand DEF Unstopped
    <3> QED BY <3>2, <3>3, <3>4 DEF Unstopped
  <2> USE DEF TypeOK, TasksOK, Goto, store, taskVars
  <2>1. CASE Pop(t)
    <3>1. Fine
      BY <2>1 DEF Pop
    <3> QED BY <2>0, <3>1
  <2>2. ASSUME Raise(t) \/ BuildFails(t) PROVE FALSE
    BY <1>2, <2>2 DEF Raise, BuildFails
  <2>3. CASE Renew(t)
    <3>1. leaseLive
      BY <2>3 DEF Renew, Calm, LeaseDiscipline
    <3> QED BY <2>3, <3>1 DEF Renew, Unstopped
  <2>4. ASSUME Detach(t) PROVE FALSE
    BY <2>4 DEF Detach, Calm, LeaseDiscipline
  <2>5. CASE Dispatch(t)
    <3>1. Fine
      BY <1>2, <2>5
        DEF Dispatch, Start, Probe, Requeue, Build, Settle, Retry, GiveUp, GiveUpStatus,
            Try, SetStatus
    <3> QED BY <2>0, <3>1
  <2>6. CASE Wake(t)
    <3>1. CASE ReadStatus(t) \/ Revive(t) \/ ReviveEvent(t) \/ Acquire(t)
      <4>1. Fine
        BY <3>1 DEF ReadStatus, Revive, ReviveEvent, Acquire, SetStatus
      <4> QED BY <2>0, <4>1
    <3>2. CASE Load(t) \/ Iterate(t) \/ Ask(t)
      <4>1. Fine
        BY <3>2 DEF Load, Iterate, Ask, Unstopped
      <4> QED BY <2>0, <4>1
    <3>3. CASE Respond(t)
      <4>1. Fine
        BY <3>3 DEF Respond, Unstopped
      <4> QED BY <2>0, <4>1
    <3>4. CASE RunTool(t) \/ AfterTool(t) \/ Drain(t) \/ Summarize(t)
      <4>1. Fine
        BY <3>4 DEF RunTool, AfterTool, Drain, Summarize
      <4> QED BY <2>0, <4>1
    <3>5. CASE Complete(t) \/ CompleteStatus(t) \/ FailTurn(t) \/ FailStatus(t)
      <4>1. Fine
        BY <3>5 DEF Complete, CompleteStatus, FailTurn, FailStatus, SetStatus, Try
      <4> QED BY <2>0, <4>1
    <3>6. CASE AdvanceAtEnd(t) \/ Release(t) \/ Return(t)
      <4>1. Fine
        BY <3>6 DEF AdvanceAtEnd, Release, Return, Unstopped
      <4> QED BY <2>0, <4>1
    <3>7. CASE Abort(t) \/ HarnessCrash(t)
      BY <3>7 DEF Abort, HarnessCrash, Unstopped
    <3> QED BY <2>6, <3>1, <3>2, <3>3, <3>4, <3>5, <3>6, <3>7 DEF Wake
  <2> QED BY <1>8, <2>1, <2>2, <2>3, <2>4, <2>5, <2>6
<1> QED BY <1>1, <1>3, <1>4, <1>5, <1>6, <1>7, <1>8 DEF Next

(* A turn that runs on hears, in its next request, what a tool's result made the
   cursor pass. *)
LEMMA SmoothStep ==
  ASSUME NEW X, ~BareEnds, TypeOK, LeaseDiscipline, EndsInv(X), Calm, Smooth(X), Next
  PROVE  Calm' /\ Smooth(X)'
<1>0. /\ log \in Seq(Events) /\ heard \in Nat /\ heard' \in Nat /\ heard <= heard'
      /\ log' = log \/ \E e \in Events : log' = Append(log, e)
      /\ cursor \in Nat /\ cursor <= Len(log)
      /\ \A t \in Tasks : /\ through[t] \in Nat /\ through[t] <= Len(log)
                          /\ steer[t] \in Nat /\ tok[t] \in Nat
  BY Grows DEF TypeOK, StoreOK, TasksOK, UserOK, LeaseDiscipline, EndsInv
<1>1. Calm' /\ Unstopped'
  BY UnstoppedStep DEF Smooth
<1>2. SUFFICES Covers(log', heard', cursor', X) \/ \E t \in Tasks : WillHear(t)'
  BY <1>1 DEF Smooth
<1>3. ASSUME NEW t \in Tasks, AfterTool(t) PROVE WillHear(t)'
  <2>1. pc'[t] = "iter" /\ tok'[t] = tok[t] /\ pc[t] = "cursor"
    BY <1>3 DEF AfterTool, Goto, TypeOK, TasksOK
  <2>2. tok[t] /= 0
    BY <2>1 DEF LeaseDiscipline, Turn
  <2> QED BY <2>1, <2>2 DEF WillHear
<1>4. ASSUME NEW t \in Tasks, AdvanceAtEnd(t), cursor' = through[t]
      PROVE  Covers(log', heard', cursor', X)
  <2>1. Covers(log, heard, through[t], X)
    BY <1>4 DEF AdvanceAtEnd, EndsInv, EndsWell, Last
  <2> QED BY <1>0, <1>4, <2>1, CoversKept
<1>5. CASE cursor' /= cursor
  BY <1>3, <1>4, <1>5, CursorMoves
<1>6. CASE cursor' = cursor /\ Covers(log, heard, cursor, X)
  BY <1>0, <1>6, CoversKept
<1>7. ASSUME cursor' = cursor, NEW t \in Tasks, WillHear(t)
      PROVE  Covers(log', heard', cursor', X) \/ WillHear(t)'
  <2>0. \A i \in Messages' : i <= cursor => i \in Messages
    <3>1. /\ DOMAIN log = 1..Len(log) /\ Len(log) \in Nat
          /\ DOMAIN log' = 1..Len(log) \/ DOMAIN log' = 1..(Len(log) + 1)
          /\ \A i \in 1..Len(log) : log'[i] = log[i]
      BY <1>0
    <3> QED BY <1>0, <3>1 DEF Messages
  <2>1. ASSUME pc'[t] = pc[t], steer'[t] = steer[t], tok'[t] = tok[t] PROVE WillHear(t)'
    <3>1. ASSUME \A i \in Messages : i <= cursor => i <= steer[t]
          PROVE  \A i \in Messages' : i <= cursor' => i <= steer'[t]
      BY <1>7, <2>0, <2>1, <3>1
    <3> QED BY <1>7, <2>1, <3>1 DEF WillHear
  <2>2. ASSUME NEW u \in Tasks \ {t},
               Pop(u) \/ Dispatch(u) \/ Wake(u) \/ Raise(u) \/ BuildFails(u) \/ Renew(u) \/ Detach(u)
        PROVE  WillHear(t)'
    <3>1. pc'[t] = pc[t] /\ steer'[t] = steer[t] /\ tok'[t] = tok[t]
      BY <2>2, OthersStand
    <3> QED BY <2>1, <3>1
  <2>3. ASSUME \/ Expire \/ Age
               \/ \E c \in Clients : User(c) \/ Api(c)
               \/ \E w \in Sweepers : Sweep(w)
               \/ \E w \in Workers : Die(w)
        PROVE  WillHear(t)'
    <3>1. ASSUME NEW w \in Workers, Die(w) PROVE FALSE
      BY <3>1 DEF Die, Use, Calm, Uncut
    <3>2. pc'[t] = pc[t] /\ steer'[t] = steer[t] /\ tok'[t] = tok[t]
      BY <2>3, <3>1, TasksStand
    <3> QED BY <2>1, <3>2
  <2>4. ASSUME Iterate(t) PROVE WillHear(t)'
    <3>1. /\ pc'[t] = "ask" /\ tok'[t] = tok[t] /\ steer'[t] = LastMessage /\ log' = log
      BY <2>4 DEF Iterate, Goto, TypeOK, TasksOK, Smooth, Unstopped, store
    <3>2. \A i \in Messages : i <= LastMessage
      BY LastMessageInLog DEF TypeOK
    <3> QED BY <1>7, <3>1, <3>2 DEF WillHear, Messages
  <2>5. ASSUME Ask(t) PROVE WillHear(t)'
    <3>1. pc[t] = "ask" /\ pc'[t] = "llm" /\ tok'[t] = tok[t] /\ steer'[t] = steer[t]
      BY <2>5 DEF Ask, Goto, TypeOK, TasksOK
    <3>2. \A i \in Messages' : i <= cursor' => i <= steer'[t]
      BY <1>7, <2>0, <3>1 DEF WillHear
    <3> QED BY <1>7, <3>1, <3>2 DEF WillHear
  <2>6. ASSUME Respond(t) PROVE Covers(log', heard', cursor', X)
    <3>1. pc[t] = "llm" /\ Hear(t)
      BY <2>6 DEF Respond, Smooth, Unstopped, Calm, Uncut, Use
    <3>2. steer[t] <= heard'
      BY <1>0, <3>1 DEF Hear
    <3>3. \A i \in Messages' : i <= cursor' => i <= steer[t]
      BY <1>7, <2>0, <3>1 DEF WillHear
    <3>4. \A i \in DOMAIN log' : i \in Nat
      BY <1>0
    <3> QED BY <1>0, <3>2, <3>3, <3>4 DEF Covers, Messages
  <2>7. ASSUME Pop(t) \/ Dispatch(t) \/ Raise(t) \/ BuildFails(t) \/ Renew(t) \/ Detach(t)
        PROVE  WillHear(t)'
    <3>1. ASSUME Raise(t) \/ BuildFails(t) PROVE FALSE
      BY <3>1 DEF Raise, BuildFails, Use, Calm, Uncut
    <3>2. ASSUME Detach(t) PROVE FALSE
      BY <3>2 DEF Detach, Calm, LeaseDiscipline
    <3>3. ASSUME Pop(t) \/ Dispatch(t) PROVE FALSE
      BY <1>7, <3>3
        DEF WillHear, Pop, Dispatch, Start, Probe, Requeue, Build, Settle, Retry, GiveUp, GiveUpStatus
    <3>4. Renew(t)
      BY <2>7, <3>1, <3>2, <3>3
    <3> QED BY <2>1, <3>4 DEF Renew
  <2>8. ASSUME Wake(t) PROVE Iterate(t) \/ Ask(t) \/ Respond(t)
    BY <1>7, <2>8
      DEF Wake, WillHear, ReadStatus, Revive, ReviveEvent, Acquire, Load,
          RunTool, AfterTool, Drain, Summarize, Complete, CompleteStatus, FailTurn,
          FailStatus, AdvanceAtEnd, Abort, HarnessCrash, Release, Return
  <2> QED BY <2>2, <2>3, <2>4, <2>5, <2>6, <2>7, <2>8 DEF Next
<1> QED BY <1>5, <1>6, <1>7 DEF Smooth

(* A new session has skipped nothing. *)
LEMMA SkipBegins ==
  ASSUME NEW X, Init, NoCalls \/ Calm
  PROVE  SkipInv(X)
<1>1. EndsInv(X)
  BY DEF Init, EndsInv, EndsWell, Last
<1>2. Covers(log, heard, cursor, X)
  BY DEF Init, Covers
<1>3. Straight(X)
  BY <1>2 DEF Init, Straight
<1>4. Smooth(X)
  BY <1>2 DEF Init, Smooth, Unstopped
<1> QED BY <1>1, <1>3, <1>4 DEF SkipInv

(* No step makes the session skip a message. *)
LEMMA SkipStep ==
  ASSUME NEW X, ~BareEnds, TypeOK, LeaseDiscipline, SkipInv(X), [Next]_vars,
         "fail" \in X \/ \A t \in Tasks : pc[t] /= "failTurn"
  PROVE  SkipInv(X)'
<1>1. CASE Next
  BY <1>1, EndsStep, StraightStep, SmoothStep DEF SkipInv
<1>2. CASE UNCHANGED vars
  BY <1>2 DEF SkipInv, vars, EndsInv, EndsWell, NoCalls, Straight, Calm, Smooth, Unstopped,
         WillHear, Messages
<1> QED BY <1>1, <1>2

(* The cursor never leaves a message behind it between turns: where turns read what
   arrives before they end, and where a session whose turns call tools is not also
   stopped, deleted, killed or failing. *)
THEOREM NoneSkipped ==
  ASSUME ~BareEnds,
         \A s \in Scenarios : s["calls"] = 0 \/ (~Stalls /\ Uncut(s))
  PROVE  Spec => []NothingSkipped
<1> DEFINE Inv == SkipInv({"fail"})
<1>1. Init => Inv
  BY SkipBegins DEF Init, NoCalls, Calm
<1>2. TypeOK /\ LeaseDiscipline /\ Inv /\ [Next]_vars => Inv'
  BY SkipStep
<1>3. Inv => NothingSkipped
  <2>1. SUFFICES ASSUME Inv, \A t \in Tasks : tok[t] = 0 PROVE Covers(log, heard, cursor, {"fail"})
    BY DEF NothingSkipped, Covers, Messages
  <2> QED BY <2>1 DEF SkipInv, Straight, Smooth, WillHear
<1> QED BY <1>1, <1>2, <1>3, Typed, Disciplined, PTL DEF Spec

(***************************************************************************)
(* No message is forgotten.                                                *)
(***************************************************************************)

(* Where no process stalls, crashes or dies, a task is at one of these places; at the
   first of them its worker has it registered. *)
Registered == {"status", "revive", "reviveEvent", "acquire", "load", "iter", "ask", "llm",
               "tool", "cursor", "drain", "complete", "completeStatus", "advance", "abort",
               "release"}
Places == Registered \cup {"idle", "start", "probe", "busy", "build", "settle"}

(* There the registry names only a task at work, and a live lease has its holder. *)
Named == \A w \in Workers : active[w] /= NoTask =>
           Owner[active[w]] = w /\ pc[active[w]] \in Registered
Held == (leaseLive => Holder /= {}) /\ \A t \in Tasks : tok[t] /= 0 => pc[t] \in Holding
Steady == /\ left["drafts"] = 0 /\ left["crashes"] = 0 /\ left["deaths"] = 0
          /\ \A t \in Tasks : pc[t] \in Places
          /\ Named /\ Held

(* What a task does there, and who else steps. *)
Queueing(t) == Pop(t) \/ Start(t) \/ Probe(t) \/ Requeue(t) \/ Build(t) \/ Settle(t)
Waking(t) == ReadStatus(t) \/ Revive(t) \/ ReviveEvent(t) \/ Acquire(t) \/ Load(t)
Turning(t) == \/ Iterate(t) \/ Ask(t) \/ Respond(t) \/ RunTool(t) \/ AfterTool(t) \/ Drain(t)
              \/ Complete(t) \/ CompleteStatus(t) \/ AdvanceAtEnd(t) \/ Abort(t)
Working(t) == Queueing(t) \/ Waking(t) \/ Turning(t) \/ Release(t) \/ Return(t) \/ Renew(t)
Outside == Age \/ (\E c \in Clients : User(c) \/ Api(c)) \/ \E w \in Sweepers : Sweep(w)

(* No other action of Next can be taken there. *)
LEMMA SteadyActs ==
  ASSUME ~Stalls, TypeOK, LeaseDiscipline, Steady, Next
  PROVE  Outside \/ \E t \in Tasks : Working(t)
<1>1. ASSUME NEW i \in {"drafts", "crashes", "deaths"}, Use(i) PROVE FALSE
  BY <1>1 DEF Use, Steady
<1>2. ASSUME Expire PROVE FALSE
  BY <1>2 DEF Expire, Steady, Held, Holder
<1>3. ASSUME NEW w \in Workers, Die(w) PROVE FALSE
  BY <1>1, <1>3 DEF Die
<1>4. ASSUME NEW t \in Tasks, Raise(t) \/ BuildFails(t) \/ Detach(t) PROVE FALSE
  BY <1>1, <1>4 DEF Raise, BuildFails, Detach, LeaseDiscipline
<1>5. ASSUME NEW t \in Tasks, \/ Retry(t) \/ GiveUp(t) \/ GiveUpStatus(t) \/ Summarize(t) \/ FailTurn(t)
                              \/ FailStatus(t) \/ HarnessCrash(t)
      PROVE  FALSE
  BY <1>5 DEF Retry, GiveUp, GiveUpStatus, Summarize, FailTurn, FailStatus, HarnessCrash,
              Steady, Places, Registered
<1>6. ASSUME NEW t \in Tasks, Dispatch(t) \/ Wake(t) PROVE Working(t)
  BY <1>5, <1>6 DEF Dispatch, Wake, Working, Queueing, Waking, Turning
<1> QED BY <1>2, <1>3, <1>4, <1>6 DEF Next, Outside, Working, Queueing

(* The others change nothing of the tasks, the registry or a live lease, and only queue. *)
LEMMA OutsideStands ==
  ASSUME Outside
  PROVE  /\ UNCHANGED <<pc, tok, steer, active, rewake, leaseLive, heard, cursor>>
         /\ leaseLive => leaseToken' = leaseToken
         /\ queued => queued'
<1>1. ASSUME NEW c \in Clients, User(c)
      PROVE  UNCHANGED <<pc, tok, steer, active, rewake, leaseLive, leaseToken, heard, cursor, queued>>
  BY <1>1 DEF User, Send, Reactivate, Pause, Delete, taskVars, workerVars, leaseVars, store
<1>2. ASSUME NEW c \in Clients, Api(c)
      PROVE  /\ UNCHANGED <<pc, tok, steer, active, rewake, leaseLive, leaseToken, heard, cursor>>
             /\ queued => queued'
  BY <1>2 DEF Api, ApiActivate, ApiResume, ApiMessage, ApiRefuse, ApiEnqueue, ApiPause,
              ApiPublish, taskVars, workerVars, leaseVars, store
<1>3. ASSUME NEW w \in Sweepers, Sweep(w)
      PROVE  /\ UNCHANGED <<pc, tok, steer, active, rewake, leaseLive, heard, cursor>>
             /\ leaseLive => leaseToken' = leaseToken
             /\ queued => queued'
  BY <1>3 DEF Sweep, SweepFind, SweepLook, SweepCount, SweepRecover, SweepRelease, SweepAbandon,
              SweepFail, ReleaseStale, taskVars, workerVars, leaseVars, store
<1>4. ASSUME Age
      PROVE  UNCHANGED <<pc, tok, steer, active, rewake, leaseLive, leaseToken, heard, cursor, queued>>
  BY <1>4 DEF Age, taskVars, workerVars, leaseVars
<1> QED BY <1>1, <1>2, <1>3, <1>4 DEF Outside

(* A working task stays at these places; it leaves the registered ones by being taken off
   the registry, and those of the lease by deleting it. *)
LEMMA WorkingMoves ==
  ASSUME ~Stalls, ~BareEnds, TypeOK, LeaseDiscipline, Steady, NEW t \in Tasks, Working(t)
  PROVE  /\ pc'[t] \in Places
         /\ \/ active' = [active EXCEPT ![Owner[t]] = NoTask]
            \/ active' = [active EXCEPT ![Owner[t]] = t] /\ pc'[t] \in Registered
            \/ active' = active /\ (pc[t] \in Registered => pc'[t] \in Registered)
         /\ \/ tok'[t] = 0 /\ (tok[t] /= 0 => ~leaseLive')
            \/ tok'[t] /= 0 /\ tok'[t] = leaseToken' /\ pc'[t] \in Holding
         /\ leaseLive' => (leaseLive /\ leaseToken' = leaseToken) \/ (tok'[t] /= 0)
<1> USE DEF TypeOK, TasksOK, WorkersOK, Goto, Unregister
<1>0. left["drafts"] = 0 /\ left["crashes"] = 0 /\ pc[t] \in Places /\ (tok[t] /= 0 => pc[t] \in Holding)
  BY DEF Steady, Held
<1>1. CASE Queueing(t)
  <2>1. UNCHANGED <<leaseToken, leaseLive, tok>>
    BY <1>1 DEF Queueing, Pop, Start, Probe, Requeue, Build, Settle, leaseVars
  <2>2. pc[t] \notin Holding
    BY <1>1 DEF Queueing, Pop, Start, Probe, Requeue, Build, Settle, Holding, Turn
  <2>3. /\ pc'[t] \in Places
        /\ \/ active' = [active EXCEPT ![Owner[t]] = t] /\ pc'[t] \in Registered
           \/ active' = active /\ pc[t] \notin Registered
    BY <1>1 DEF Queueing, Pop, Start, Probe, Requeue, Build, Settle, Places, Registered, workerVars
  <2> QED BY <1>0, <2>1, <2>2, <2>3
<1>2. CASE Waking(t)
  <2>1. CASE Acquire(t)
    BY <1>0, <2>1 DEF Acquire, Places, Registered, Holding, Turn, leaseVars, workerVars, LeaseOK
  <2>2. CASE Load(t)
    <3>1. tok[t] /= 0 /\ tok[t] = leaseToken
      BY <2>2 DEF Load, LeaseDiscipline, Turn
    <3> QED BY <2>2, <3>1 DEF Load, Places, Registered, Holding, Turn, leaseVars, workerVars
  <2>3. CASE ReadStatus(t) \/ Revive(t) \/ ReviveEvent(t)
    <3>1. pc[t] \notin Holding /\ UNCHANGED <<leaseToken, leaseLive, tok>>
      BY <2>3 DEF ReadStatus, Revive, ReviveEvent, Holding, Turn, leaseVars
    <3>2. /\ pc'[t] \in Places
          /\ \/ active' = [active EXCEPT ![Owner[t]] = NoTask]
             \/ active' = active /\ pc'[t] \in Registered
      BY <2>3 DEF ReadStatus, Revive, ReviveEvent, Places, Registered, workerVars
    <3> QED BY <1>0, <3>1, <3>2
  <2> QED BY <1>2, <2>1, <2>2, <2>3 DEF Waking
<1>3. CASE Turning(t)
  <2>1. pc[t] \in Turn \ {"crash"} /\ UNCHANGED <<leaseToken, leaseLive, tok, active>>
    BY <1>3 DEF Turning, Iterate, Ask, Respond, RunTool, AfterTool, Drain, Complete,
        CompleteStatus, AdvanceAtEnd, Abort, Turn, leaseVars, workerVars
  <2>2. tok[t] /= 0 /\ tok[t] = leaseToken
    BY <2>1 DEF LeaseDiscipline
  <2>3. pc'[t] \in Registered \cap Holding
    <3>1. CASE Respond(t)
      BY <1>0, <3>1 DEF Respond, Use, Registered, Holding, Turn
    <3>2. CASE Iterate(t) \/ Ask(t) \/ RunTool(t) \/ AfterTool(t) \/ Drain(t)
      BY <3>2 DEF Iterate, Ask, RunTool, AfterTool, Drain, Registered, Holding, Turn
    <3>3. CASE Complete(t) \/ CompleteStatus(t) \/ AdvanceAtEnd(t) \/ Abort(t)
      BY <3>3 DEF Complete, CompleteStatus, AdvanceAtEnd, Abort, Registered, Holding, Turn
    <3> QED BY <1>3, <3>1, <3>2, <3>3 DEF Turning
  <2> QED BY <2>1, <2>2, <2>3 DEF Places
<1>4. CASE Release(t)
  <2>1. pc'[t] = pc[t] /\ tok'[t] = 0 /\ active' = active
    BY <1>4 DEF Release, workerVars
  <2>2. ~leaseLive'
    <3>1. tok[t] /= 0 /\ leaseToken = tok[t]
      BY <1>4 DEF Release, LeaseDiscipline
    <3> QED BY <1>0, <1>4, <3>1 DEF Release, Try, Use
  <2> QED BY <1>0, <2>1, <2>2
<1>6. CASE Return(t)
  <2>1. /\ pc'[t] = "settle" /\ tok[t] = 0 /\ UNCHANGED <<tok, leaseToken, leaseLive>>
        /\ active' = [active EXCEPT ![Owner[t]] = NoTask]
    BY <1>0, <1>6 DEF Return, Places, Registered, leaseVars
  <2> QED BY <2>1 DEF Places
<1>5. CASE Renew(t)
  <2>1. tok[t] /= 0 /\ tok[t] = leaseToken /\ leaseLive /\ pc[t] \in Turn
    BY <1>5 DEF Renew, LeaseDiscipline
  <2> QED BY <1>0, <1>5, <2>1 DEF Renew, workerVars, Holding
<1> QED BY <1>1, <1>2, <1>3, <1>4, <1>5, <1>6 DEF Working

(* Every step keeps the registry and the lease honest. *)
LEMMA SteadyStep ==
  ASSUME ~Stalls, ~BareEnds, TypeOK, LeaseDiscipline, Steady, Next
  PROVE  Steady'
<1>1. left'["drafts"] = 0 /\ left'["crashes"] = 0 /\ left'["deaths"] = 0
  BY Grows DEF Steady, Inputs
<1>2. CASE Outside
  <2>1. Holder' = Holder \/ ~leaseLive
    BY <1>2, OutsideStands DEF Holder
  <2> QED BY <1>1, <1>2, <2>1, OutsideStands DEF Steady, Named, Held
<1>3. ASSUME NEW t \in Tasks, Working(t) PROVE Steady'
  <2>1. \A u \in Tasks \ {t} : pc'[u] = pc[u] /\ tok'[u] = tok[u]
    BY <1>3, OthersStand DEF Working, Queueing, Waking, Turning, Dispatch, Wake
  <2>2. \A u \in Tasks : pc'[u] \in Places
    BY <1>3, <2>1, WorkingMoves DEF Steady
  <2>3. Named'
    <3>1. SUFFICES ASSUME NEW w \in Workers, active'[w] /= NoTask
                   PROVE  Owner[active'[w]] = w /\ pc'[active'[w]] \in Registered
      BY DEF Named
    <3>2. active \in [Workers -> Tasks \cup {NoTask}] /\ Owner \in [Tasks -> Workers]
      BY OwnerAssumption DEF TypeOK, WorkersOK, OwnerAssumption
    <3>3. CASE active' = [active EXCEPT ![Owner[t]] = NoTask]
      <4>1. w /= Owner[t] /\ active'[w] = active[w]
        BY <3>1, <3>2, <3>3
      <4> QED BY <2>1, <3>1, <3>2, <4>1 DEF Steady, Named
    <3>4. CASE active' = [active EXCEPT ![Owner[t]] = t] /\ pc'[t] \in Registered
      <4>1. CASE w = Owner[t]
        BY <3>2, <3>4, <4>1
      <4>2. CASE w /= Owner[t]
        <5>1. active'[w] = active[w]
          BY <3>2, <3>4, <4>2
        <5> QED BY <2>1, <3>1, <3>2, <4>2, <5>1 DEF Steady, Named
      <4> QED BY <4>1, <4>2
    <3>5. CASE active' = active /\ (pc[t] \in Registered => pc'[t] \in Registered)
      BY <2>1, <3>1, <3>2, <3>5 DEF Steady, Named
    <3> QED BY <1>3, <3>3, <3>4, <3>5, WorkingMoves
  <2>4. Held'
    <3>1. ASSUME leaseLive' PROVE Holder' /= {}
      <4>1. CASE tok'[t] /= 0
        BY <1>3, <4>1, WorkingMoves DEF Holder
      <4>2. CASE tok'[t] = 0
        <5>1. leaseLive /\ leaseToken' = leaseToken /\ tok[t] = 0
          BY <1>3, <3>1, <4>2, WorkingMoves
        <5>2. PICK u \in Tasks : tok[u] /= 0 /\ tok[u] = leaseToken
          BY <5>1 DEF Steady, Held, Holder
        <5> QED BY <2>1, <5>1, <5>2 DEF Holder
      <4> QED BY <4>1, <4>2
    <3>2. \A u \in Tasks : tok'[u] /= 0 => pc'[u] \in Holding
      BY <1>3, <2>1, WorkingMoves DEF Steady, Held
    <3> QED BY <3>1, <3>2 DEF Held
  <2> QED BY <1>1, <2>2, <2>3, <2>4 DEF Steady
<1> QED BY <1>2, <1>3, SteadyActs

(* A wake is on its way: the session is queued, or a request, a dispatch or a deferred
   wake will queue or wake it. *)
OnItsWay == \/ queued
            \/ \E c \in Clients : api[c] \in {"resume", "enqueue"}
            \/ \E t \in Tasks : pc[t] \in {"start", "probe", "busy"}
            \/ \E t \in Tasks : rewake[Owner[t]] /\ pc[t] \in Registered \cup {"settle"}

(* It stays so until a dispatch finds the lease free and builds a harness. *)
LEMMA WayKept ==
  ASSUME ~Stalls, ~BareEnds, TypeOK, LeaseDiscipline, Steady, Next, OnItsWay
  PROVE  OnItsWay' \/ \E t \in Tasks : Probe(t) /\ ~leaseLive /\ pc'[t] = "build"
<1>0. Owner \in [Tasks -> Workers]
  BY OwnerAssumption DEF OwnerAssumption
<1>1. CASE Outside
  <2>1. ASSUME NEW c \in Clients, api[c] \in {"resume", "enqueue"} PROVE OnItsWay'
    <3>1. CASE api' = api
      BY <2>1, <3>1 DEF OnItsWay
    <3>2. ASSUME NEW d \in Clients, User(d) \/ Api(d) PROVE OnItsWay'
      <4>1. CASE c /= d
        <5>1. api'[c] = api[c]
          BY <3>2, <4>1
            DEF User, Api, Send, Reactivate, Pause, Delete, ApiActivate, ApiResume, ApiMessage,
                ApiRefuse, ApiEnqueue, ApiPause, ApiPublish, ApiTo, TypeOK, UserOK
        <5> QED BY <2>1, <5>1 DEF OnItsWay
      <4>2. CASE c = d
        <5>1. ApiResume(c) \/ ApiEnqueue(c)
          BY <2>1, <3>2, <4>2
            DEF User, Api, Send, Reactivate, Pause, Delete, ApiActivate, ApiMessage,
                ApiRefuse, ApiPause, ApiPublish
        <5>2. api'[c] = "enqueue" \/ queued'
          BY <2>1, <5>1 DEF ApiResume, ApiEnqueue, ApiTo, TypeOK, UserOK
        <5> QED BY <5>2 DEF OnItsWay
      <4> QED BY <4>1, <4>2
    <3>3. ASSUME Age \/ \E w \in Sweepers : Sweep(w) PROVE api' = api
      BY <3>3 DEF Age, Sweep, SweepFind, SweepLook, SweepCount, SweepRecover, SweepRelease,
                  SweepAbandon, SweepFail
    <3> QED BY <1>1, <3>1, <3>2, <3>3 DEF Outside
  <2> QED BY <1>1, <2>1, OutsideStands DEF OnItsWay
<1>2. ASSUME NEW t \in Tasks, Working(t)
      PROVE  OnItsWay' \/ (Probe(t) /\ ~leaseLive /\ pc'[t] = "build")
  <2>0. /\ \A u \in Tasks \ {t} : pc'[u] = pc[u]
        /\ pc[t] \in Places
    BY <1>2, OthersStand DEF Working, Queueing, Waking, Turning, Dispatch, Wake, Steady
  <2> USE DEF TypeOK, TasksOK, WorkersOK, Goto, Unregister
  <2>1. CASE Pop(t) \/ Requeue(t)
    BY <2>1 DEF Pop, Requeue, OnItsWay
  <2>2. CASE Start(t)
    <3>1. CASE active[Owner[t]] = NoTask
      BY <2>2, <3>1 DEF Start, OnItsWay
    <3>2. CASE active[Owner[t]] /= NoTask
      <4> DEFINE u == active[Owner[t]]
      <4>1. u \in Tasks /\ Owner[u] = Owner[t] /\ pc[u] \in Registered
        BY <1>0, <3>2 DEF Steady, Named
      <4>2. u /= t
        BY <2>2, <4>1 DEF Start, Registered
      <4>3. rewake'[Owner[u]] /\ pc'[u] \in Registered
        BY <1>0, <2>0, <2>2, <3>2, <4>1, <4>2 DEF Start
      <4> QED BY <4>1, <4>3 DEF OnItsWay
    <3> QED BY <3>1, <3>2
  <2>3. CASE Probe(t)
    BY <2>3 DEF Probe, OnItsWay
  <2>4. CASE Acquire(t) /\ leaseLive
    BY <2>4 DEF Acquire, OnItsWay
  <2>5. CASE Settle(t)
    <3>1. queued' = (queued \/ rewake[Owner[t]]) /\ api' = api
          /\ pc[t] = "settle" /\ rewake' = [rewake EXCEPT ![Owner[t]] = FALSE]
      BY <2>5 DEF Settle
    <3>2. CASE rewake[Owner[t]] \/ queued
      BY <3>1, <3>2 DEF OnItsWay
    <3>3. CASE ~rewake[Owner[t]]
      <4>1. \A u \in Tasks : rewake[Owner[u]] => rewake'[Owner[u]] /\ u /= t
        BY <1>0, <3>1, <3>3
      <4> QED BY <2>0, <3>1, <4>1 DEF OnItsWay
    <3> QED BY <3>2, <3>3
  <2>6. ASSUME UNCHANGED <<queued, api, rewake>>, pc[t] \notin {"start", "probe", "busy"},
               pc[t] \in Registered \cup {"settle"} => pc'[t] \in Registered \cup {"settle"}
        PROVE  OnItsWay'
    BY <2>0, <2>6 DEF OnItsWay
  <2>7. CASE Build(t)
    BY <2>6, <2>7 DEF Build, Registered
  <2>8. CASE (Acquire(t) /\ ~leaseLive) \/ ReadStatus(t) \/ Revive(t) \/ ReviveEvent(t) \/ Load(t)
    <3>1. UNCHANGED <<queued, api, rewake>> /\ pc[t] \notin {"start", "probe", "busy"}
      BY <2>8 DEF Acquire, ReadStatus, Revive, ReviveEvent, Load, workerVars
    <3>2. pc'[t] \in Registered \cup {"settle"}
      BY <2>8 DEF Acquire, ReadStatus, Revive, ReviveEvent, Load, Registered
    <3> QED BY <2>6, <3>1, <3>2
  <2>9. CASE Turning(t)
    <3>1. UNCHANGED <<queued, api, rewake, active>> /\ pc[t] \in Registered
      BY <2>9 DEF Turning, Iterate, Ask, Respond, RunTool, AfterTool, Drain, Complete,
          CompleteStatus, AdvanceAtEnd, Abort, Registered, workerVars
    <3>2. pc'[t] \in Registered
      <4>1. CASE Respond(t)
        BY <4>1 DEF Respond, Use, Registered, Steady
      <4>2. CASE Iterate(t) \/ Ask(t) \/ RunTool(t) \/ AfterTool(t) \/ Drain(t)
        BY <4>2 DEF Iterate, Ask, RunTool, AfterTool, Drain, Registered
      <4>3. CASE Complete(t) \/ CompleteStatus(t) \/ AdvanceAtEnd(t) \/ Abort(t)
        BY <4>3 DEF Complete, CompleteStatus, AdvanceAtEnd, Abort, Registered
      <4> QED BY <2>9, <4>1, <4>2, <4>3 DEF Turning
    <3>3. pc[t] \notin {"start", "probe", "busy"}
      BY <3>1 DEF Registered
    <3> QED BY <2>6, <3>1, <3>2, <3>3
  <2>10. CASE Release(t) \/ Return(t)
    BY <2>0, <2>6, <2>10 DEF Release, Return, Places, Registered, workerVars
  <2>11. CASE Renew(t)
    BY <2>11 DEF Renew, OnItsWay, workerVars
  <2> QED BY <1>2, <2>1, <2>2, <2>3, <2>4, <2>5, <2>7, <2>8, <2>9, <2>10, <2>11
        DEF Working, Queueing, Waking
<1> QED BY <1>1, <1>2, SteadyActs

(* A turn holds the lease, so no dispatch gets past it: what is on its way stays so. *)
LEMMA WayKeptInTurn ==
  ASSUME ~Stalls, ~BareEnds, TypeOK, LeaseDiscipline, Steady, Next, OnItsWay,
         NEW t \in Tasks, pc[t] \in Turn \ {"crash"}
  PROVE  OnItsWay'
<1>1. leaseLive
  BY DEF LeaseDiscipline
<1> QED BY <1>1, WayKept

(* The events that leave nothing for the orphan sweep to take up. *)
Ends == {"complete", "fail", "answer", "draft"}

(* Only the end of a turn, or of a sweep, writes one of these. *)
LEMMA Writers ==
  ASSUME ~Stalls, ~BareEnds, TypeOK, LeaseDiscipline, Steady, Next
  PROVE  \/ log' = log
         \/ \E c \in Clients : ApiMessage(c)
         \/ \E t \in Tasks : Complete(t) \/ Respond(t)
         \/ \E w \in Sweepers : SweepFail(w)
         \/ \E e \in Events \ (Ends \cup {"user"}) : log' = Append(log, e)
<1> DEFINE Mild == log' = log \/ \E e \in Events \ (Ends \cup {"user"}) : log' = Append(log, e)
<1>1. ASSUME NEW c \in Clients, User(c) \/ Api(c) PROVE Mild \/ ApiMessage(c)
  BY <1>1
    DEF User, Api, Send, Reactivate, Pause, Delete, ApiActivate, ApiResume, ApiRefuse, ApiEnqueue,
        ApiPause, ApiPublish, store, Emit, Events, Ends
<1>2. ASSUME Age PROVE Mild
  BY <1>2 DEF Age
<1>3. ASSUME NEW w \in Sweepers, Sweep(w) PROVE Mild \/ SweepFail(w)
  BY <1>3
    DEF Sweep, SweepFind, SweepLook, SweepCount, SweepRecover, SweepRelease, SweepAbandon,
        store, Emit, Events, Ends
<1>4. ASSUME NEW t \in Tasks, Working(t) PROVE Mild \/ Complete(t) \/ Respond(t)
  <2>1. CASE Queueing(t) \/ Release(t) \/ Return(t) \/ Renew(t)
    BY <2>1 DEF Queueing, Pop, Start, Probe, Requeue, Build, Settle, Release, Return, Renew, store
  <2>2. CASE Waking(t)
    BY <2>2 DEF Waking, ReadStatus, Revive, ReviveEvent, Acquire, Load, store, Emit, Events, Ends
  <2>3. CASE Turning(t)
    BY <2>3
      DEF Turning, Iterate, Ask, RunTool, AfterTool, Drain, CompleteStatus, AdvanceAtEnd, Abort,
          store, Emit, Events, Ends
  <2> QED BY <1>4, <2>1, <2>2, <2>3 DEF Working
<1> QED BY <1>1, <1>2, <1>3, <1>4, SteadyActs DEF Outside

(* A new message is on its way to the queue. *)
LEMMA NewIsOnItsWay ==
  ASSUME ~Stalls, ~BareEnds, TypeOK, LeaseDiscipline, Steady, Next
  PROVE  /\ \A i \in Messages' : i \in Messages \/ OnItsWay'
         /\ Unanswered' => Unanswered \/ OnItsWay'
<1>1. log \in Seq(Events) /\ heard \in Nat /\ heard' \in Nat /\ heard <= heard'
  BY Grows DEF TypeOK, StoreOK, UserOK
<1>2. ASSUME NEW c \in Clients, ApiMessage(c) PROVE OnItsWay'
  BY <1>2 DEF ApiMessage, ApiTo, OnItsWay, TypeOK, UserOK
<1>3. ASSUME NEW e \in Events \ {"user"}, log' = Append(log, e) PROVE \A i \in Messages' : i \in Messages
  <2>1. /\ DOMAIN log = 1..Len(log) /\ Len(log) \in Nat /\ DOMAIN log' = 1..(Len(log) + 1)
        /\ log'[Len(log) + 1] = e /\ \A i \in 1..Len(log) : log'[i] = log[i]
    BY <1>1, <1>3
  <2> QED BY <2>1 DEF Messages
<1>4. ASSUME NEW t \in Tasks, Complete(t) \/ Respond(t)
      PROVE  log' = log \/ \E e \in Events \ {"user"} : log' = Append(log, e)
  BY <1>4 DEF Complete, Respond, Emit, Events
<1>5. ASSUME NEW w \in Sweepers, SweepFail(w) PROVE \E e \in Events \ {"user"} : log' = Append(log, e)
  BY <1>5 DEF SweepFail, Emit, Events
<1>6. ASSUME log' = log PROVE \A i \in Messages' : i \in Messages
  BY <1>6 DEF Messages
<1>7. \A i \in Messages' : i \in Messages \/ OnItsWay'
  BY <1>2, <1>3, <1>4, <1>5, <1>6, Writers
<1>8. \A i \in Messages' : i \in Nat
  <2>1. log' \in Seq(Events)
    BY TypeStep DEF TypeOK, StoreOK
  <2> QED BY <2>1 DEF Messages
<1> QED BY <1>1, <1>7, <1>8 DEF Unanswered

(* A turn still asking has read every message, and one that is ending has answered
   every message, but those on their way. *)
Asking == {"iter", "ask", "llm", "tool", "cursor"}
Ending == {"drain", "complete", "completeStatus"}
Read(t) == \A i \in Messages : i > heard => i <= steer[t] \/ OnItsWay
InSight == \A t \in Tasks : /\ pc[t] \in Asking => Read(t)
                            /\ pc[t] \in Ending => ~Unanswered \/ OnItsWay

(* Every step keeps it so: Load, Iterate and Drain read up to the last message, Respond
   turns what was read into what was answered, and a message that comes later is on its
   way. *)
LEMMA InSightStep ==
  ASSUME ~Stalls, ~BareEnds, TypeOK, LeaseDiscipline, Steady, InSight, Next
  PROVE  InSight'
<1>0. /\ heard \in Nat /\ heard' \in Nat /\ heard <= heard'
      /\ \A i \in Messages' : i \in Messages \/ OnItsWay'
      /\ Unanswered' => Unanswered \/ OnItsWay'
      /\ \A i \in Messages : i \in Nat
      /\ \A t \in Tasks : steer[t] \in Nat
  BY Grows, NewIsOnItsWay DEF TypeOK, StoreOK, UserOK, TasksOK, Messages
<1>1. ASSUME NEW u \in Tasks, pc[u] \in Asking \cup Ending, OnItsWay PROVE OnItsWay'
  BY <1>1, WayKeptInTurn DEF Asking, Ending, Turn
<1>2. ASSUME NEW u \in Tasks, pc[u] \in Asking, steer'[u] = steer[u] PROVE Read(u)'
  <2>1. Read(u)
    BY <1>2 DEF InSight
  <2> QED BY <1>0, <1>1, <1>2, <2>1 DEF Read
<1>3. ASSUME NEW u \in Tasks, pc[u] \in Ending PROVE ~Unanswered' \/ OnItsWay'
  BY <1>0, <1>1, <1>3 DEF InSight
<1>4. ASSUME NEW u \in Tasks, steer'[u] = LastMessage PROVE Read(u)'
  BY <1>0, <1>4, LastMessageInLog DEF Read, TypeOK
<1>5. SUFFICES ASSUME NEW u \in Tasks
               PROVE  /\ pc'[u] \in Asking => Read(u)'
                      /\ pc'[u] \in Ending => ~Unanswered' \/ OnItsWay'
  BY DEF InSight
<1>6. CASE pc'[u] = pc[u] /\ steer'[u] = steer[u]
  BY <1>2, <1>3, <1>6
<1>7. CASE Outside
  BY <1>6, <1>7, OutsideStands
<1>8. ASSUME NEW t \in Tasks, Working(t), t /= u PROVE pc'[u] = pc[u] /\ steer'[u] = steer[u]
  BY <1>8, OthersStand DEF Working, Queueing, Waking, Turning, Dispatch, Wake
<1>9. CASE Working(u)
  <2> USE DEF TypeOK, TasksOK, Goto
  <2>1. CASE Queueing(u)
    <3>1. pc'[u] \notin Asking \cup Ending
      BY <2>1 DEF Queueing, Pop, Start, Probe, Requeue, Build, Settle, Asking, Ending
    <3> QED BY <3>1
  <2>2. CASE Waking(u)
    <3>1. \/ pc'[u] \notin Asking \cup Ending
          \/ pc'[u] = "iter" /\ steer'[u] = LastMessage
      BY <2>2 DEF Waking, ReadStatus, Revive, ReviveEvent, Acquire, Load, Asking, Ending
    <3> QED BY <1>4, <3>1 DEF Ending
  <2>3. CASE Iterate(u)
    <3>1. \/ pc'[u] = "abort"
          \/ pc'[u] = "ask" /\ steer'[u] = LastMessage
      BY <2>3 DEF Iterate
    <3> QED BY <1>4, <3>1 DEF Asking, Ending
  <2>4. CASE Ask(u) \/ RunTool(u) \/ AfterTool(u)
    <3>1. pc[u] \in Asking /\ pc'[u] \in Asking /\ steer'[u] = steer[u]
      BY <2>4 DEF Ask, RunTool, AfterTool, Asking
    <3> QED BY <1>2, <3>1 DEF Asking, Ending
  <2>5. CASE Respond(u)
    <3>1. /\ pc[u] = "llm" /\ steer'[u] = steer[u]
          /\ \/ pc'[u] \in {"abort", "tool", "iter"}
             \/ pc'[u] = "drain" /\ Hear(u)
      BY <2>5 DEF Respond, Use, Steady
    <3>2. CASE pc'[u] \in {"abort", "tool", "iter"}
      BY <1>2, <3>1, <3>2 DEF Asking, Ending
    <3>3. CASE pc'[u] = "drain" /\ Hear(u)
      <4>1. steer[u] <= heard'
        BY <1>0, <3>3 DEF Hear
      <4>2. Read(u)'
        BY <1>2, <3>1 DEF Asking
      <4>3. \A i \in Messages' : i > heard' => OnItsWay'
        BY <1>0, <3>1, <4>1, <4>2 DEF Read
      <4> QED BY <3>3, <4>3 DEF Unanswered, Asking
    <3> QED BY <3>1, <3>2, <3>3
  <2>6. CASE Drain(u)
    <3>1. /\ pc[u] = "drain"
          /\ pc'[u] = "complete" \/ (pc'[u] = "iter" /\ steer'[u] = LastMessage)
      BY <2>6 DEF Drain
    <3> QED BY <1>3, <1>4, <3>1 DEF Asking, Ending
  <2>7. CASE Complete(u) \/ CompleteStatus(u) \/ AdvanceAtEnd(u) \/ Abort(u)
    <3>1. pc'[u] \notin Asking \cup Ending \/ (pc[u] = "complete" /\ pc'[u] = "completeStatus")
      BY <2>7 DEF Complete, CompleteStatus, AdvanceAtEnd, Abort, Asking, Ending
    <3> QED BY <1>3, <3>1 DEF Asking, Ending
  <2>8. CASE Release(u) \/ Return(u)
    <3>1. pc'[u] \notin Asking \cup Ending
      BY <2>8 DEF Release, Return, Asking, Ending
    <3> QED BY <3>1
  <2>9. CASE Renew(u)
    BY <1>6, <2>9 DEF Renew
  <2> QED BY <1>9, <2>1, <2>2, <2>3, <2>4, <2>5, <2>6, <2>7, <2>8, <2>9 DEF Working, Turning
<1> QED BY <1>6, <1>7, <1>8, <1>9, SteadyActs

(* Who writes the status, and what. *)
LEMMA StatusWriters ==
  ASSUME ~Stalls, TypeOK, LeaseDiscipline, Steady, Next
  PROVE  \/ status' = status
         \/ status' \in {"paused", "archived", "failed"}
         \/ status' = "active" /\ \E c \in Clients : ApiActivate(c)
         \/ status' = "active" /\ \E t \in Tasks : Revive(t)
         \/ status' = "completed" /\ \E t \in Tasks : CompleteStatus(t)
<1>1. ASSUME NEW c \in Clients, User(c)
      PROVE  status' = status \/ status' = "archived"
  BY <1>1 DEF User, Send, Reactivate, Pause, Delete, store
<1>2. ASSUME NEW c \in Clients, Api(c)
      PROVE  status' = status \/ status' = "paused" \/ (status' = "active" /\ ApiActivate(c))
  BY <1>2 DEF Api, ApiActivate, ApiResume, ApiMessage, ApiRefuse, ApiEnqueue, ApiPause,
              ApiPublish, SetStatus, store
<1>3. ASSUME NEW w \in Sweepers, Sweep(w) PROVE status' = status \/ status' = "failed"
  BY <1>3 DEF Sweep, SweepFind, SweepLook, SweepCount, SweepRecover, SweepRelease, SweepAbandon,
              SweepFail, store
<1>4. ASSUME Age PROVE status' = status
  BY <1>4 DEF Age
<1>5. ASSUME NEW t \in Tasks, Working(t)
      PROVE  \/ status' = status
             \/ status' = "active" /\ Revive(t)
             \/ status' = "completed" /\ CompleteStatus(t)
  <2>1. CASE Queueing(t) \/ Release(t) \/ Return(t) \/ Renew(t)
    BY <2>1 DEF Queueing, Pop, Start, Probe, Requeue, Build, Settle, Release, Return, Renew, store
  <2>2. CASE Waking(t)
    BY <2>2 DEF Waking, ReadStatus, Revive, ReviveEvent, Acquire, Load, SetStatus, store
  <2>3. CASE Turning(t)
    BY <2>3 DEF Turning, Iterate, Ask, Respond, RunTool, AfterTool, Drain, Complete, CompleteStatus,
          AdvanceAtEnd, Abort, Try, SetStatus, store
  <2> QED BY <1>5, <2>1, <2>2, <2>3 DEF Working
<1> QED BY <1>1, <1>2, <1>3, <1>4, <1>5, SteadyActs DEF Outside

(* Where the cursor passed no unanswered message, a wake finds what is unanswered. *)
LEMMA UnreadIsPending ==
  ASSUME TypeOK, Unanswered, Covers(log, heard, cursor, {})
  PROVE  Stranded /\ Pending
<1>1. PICK i \in Messages : i > heard
  BY DEF Unanswered
<1>2. i \in DOMAIN log /\ log[i] = "user" /\ i \in Nat /\ cursor \in Nat
  BY DEF Messages, TypeOK, StoreOK
<1>3. i > cursor
  BY <1>1, <1>2 DEF Covers
<1> QED BY <1>1, <1>2, <1>3 DEF Stranded, Pending

(* A wake that has not read the log yet goes on towards it. *)
Before == {"build", "status", "revive", "reviveEvent", "acquire", "load"}

(* From each of these places only these moves lead on. *)
LEMMA BeforeMoves ==
  ASSUME ~Stalls, TypeOK, LeaseDiscipline, Steady, Next, NEW t \in Tasks, pc[t] \in Before
  PROVE  \/ pc'[t] = pc[t]
         \/ pc[t] = "build" /\ pc'[t] = "status"
         \/ ReadStatus(t)
         \/ Revive(t) /\ pc'[t] = "reviveEvent" /\ (status /= "archived" => status' = "active")
         \/ pc[t] \in {"reviveEvent", "acquire"} /\ pc'[t] \in {"acquire", "load", "busy"}
         \/ Load(t)
<1>1. CASE Outside
  BY <1>1, OutsideStands
<1>2. ASSUME NEW u \in Tasks \ {t}, Working(u) PROVE pc'[t] = pc[t]
  BY <1>2, OthersStand DEF Working, Queueing, Waking, Turning, Dispatch, Wake
<1>3. CASE Working(t)
  <2> USE DEF TypeOK, TasksOK, Goto
  <2>1. CASE Queueing(t)
    BY <2>1 DEF Queueing, Pop, Start, Probe, Requeue, Build, Settle, Before
  <2>2. CASE Waking(t)
    BY <2>2 DEF Waking, Revive, ReviveEvent, Acquire, SetStatus
  <2>3. ASSUME Turning(t) \/ Release(t) \/ Return(t) PROVE FALSE
    BY <2>3
      DEF Turning, Iterate, Ask, Respond, RunTool, AfterTool, Drain, Complete, CompleteStatus,
          AdvanceAtEnd, Abort, Release, Return, Before
  <2>4. CASE Renew(t)
    BY <2>4 DEF Renew
  <2> QED BY <1>3, <2>1, <2>2, <2>3, <2>4 DEF Working
<1> QED BY <1>1, <1>2, <1>3, SteadyActs

(* A session that may be stopped, but calls no tool and is not swept: while it is active
   with something unanswered, a wake is coming or the sweep would find it; while it is
   completed, a wake is coming that will revive it. *)
Takeable == status = "active" /\ Unanswered =>
              \/ OnItsWay \/ Latest \notin Ends
              \/ \E c \in Clients : api[c] = "sendResume"
              \/ \E t \in Tasks : pc[t] \in Before
Revivable == status = "completed" /\ Unanswered =>
               OnItsWay \/ \E t \in Tasks : pc[t] \in {"build", "status", "revive"}

(* The log's last event is the end of a turn only when everything is answered or on its
   way; a wake that loads finds what is unanswered, and says so in the log. *)
LEMMA TakeableStep ==
  ASSUME ~Stalls, ~BareEnds, Sweepers = {}, TypeOK, LeaseDiscipline, Steady, InSight,
         Covers(log, heard, cursor, {}), Takeable, Next
  PROVE  Takeable'
<1>1. SUFFICES ASSUME status' = "active", Unanswered', ~OnItsWay'
               PROVE  \/ Latest' \notin Ends
                      \/ \E c \in Clients : api'[c] = "sendResume"
                      \/ \E t \in Tasks : pc'[t] \in Before
  BY DEF Takeable
<1>2. Unanswered /\ InSight'
  BY <1>1, NewIsOnItsWay, InSightStep
<1>3. ASSUME NEW e \in Events \ Ends, log' = Append(log, e) PROVE Latest' \notin Ends
  <2>1. log'[Len(log')] = e
    BY <1>3 DEF TypeOK, StoreOK
  <2> QED BY <1>3, <2>1 DEF Latest
<1>4. CASE status /= "active"
  <2>1. CASE \E t \in Tasks : Revive(t)
    BY <2>1 DEF Revive, Goto, Before, TypeOK, TasksOK
  <2>2. ASSUME NEW c \in Clients, ApiActivate(c) PROVE api'[c] = "sendResume"
    <3>1. api'[c] \in {"resume", "sendResume"}
      BY <2>2 DEF ApiActivate, ApiTo, TypeOK, UserOK
    <3> QED BY <1>1, <3>1 DEF OnItsWay
  <2> QED BY <1>1, <1>4, <2>1, <2>2, StatusWriters
<1>5. CASE OnItsWay
  BY <1>1, <1>5, WayKept DEF Before
<1>6. CASE Latest \notin Ends
  <2>1. ASSUME NEW t \in Tasks, Complete(t) PROVE FALSE
    <3>1. pc'[t] = "completeStatus"
      BY <2>1 DEF Complete, Goto, TypeOK, TasksOK
    <3> QED BY <1>1, <1>2, <3>1 DEF InSight, Ending
  <2>2. ASSUME NEW t \in Tasks, Respond(t) PROVE log' = log \/ log' = Append(log, "call")
    <3>1. pc'[t] /= "drain"
      BY <1>1, <1>2 DEF InSight, Ending
    <3> QED BY <2>2, <3>1 DEF Respond, Emit, Use, Steady, Goto, TypeOK, TasksOK
  <2>3. ASSUME NEW c \in Clients, ApiMessage(c) PROVE log' = Append(log, "user")
    BY <2>3 DEF ApiMessage, Emit
  <2>4. log' = log \/ \E e \in Events \ Ends : log' = Append(log, e)
    BY <2>1, <2>2, <2>3, Writers DEF Events, Ends
  <2>5. CASE log' = log
    BY <1>6, <2>5 DEF Latest
  <2> QED BY <1>3, <2>4, <2>5
<1>7. ASSUME NEW c \in Clients, api[c] = "sendResume"
      PROVE  Latest' \notin Ends \/ api'[c] = "sendResume"
  <2>1. CASE api' = api
    BY <1>7, <2>1
  <2>2. ASSUME NEW d \in Clients, User(d) \/ Api(d)
        PROVE  Latest' \notin Ends \/ api'[c] = "sendResume"
    <3>1. CASE c /= d
      BY <1>7, <2>2, <3>1
        DEF User, Api, Send, Reactivate, Pause, Delete, ApiActivate, ApiResume, ApiMessage,
            ApiRefuse, ApiEnqueue, ApiPause, ApiPublish, ApiTo, TypeOK, UserOK
    <3>2. CASE c = d
      <4>1. ApiResume(c)
        BY <1>7, <2>2, <3>2
          DEF User, Api, Send, Reactivate, Pause, Delete, ApiActivate, ApiMessage,
              ApiRefuse, ApiEnqueue, ApiPause, ApiPublish
      <4>2. log' = Append(log, "resume")
        BY <4>1 DEF ApiResume, Emit
      <4> QED BY <1>3, <4>2 DEF Events, Ends
    <3> QED BY <3>1, <3>2
  <2>3. ASSUME Age PROVE api' = api
    BY <2>3 DEF Age
  <2>4. ASSUME NEW t \in Tasks, Working(t) PROVE api' = api
    <3>1. CASE Queueing(t) \/ Release(t) \/ Return(t) \/ Renew(t)
      BY <3>1 DEF Queueing, Pop, Start, Probe, Requeue, Build, Settle, Release, Return, Renew
    <3>2. CASE Waking(t)
      BY <3>2 DEF Waking, ReadStatus, Revive, ReviveEvent, Acquire, Load
    <3>3. CASE Turning(t)
      BY <3>3 DEF Turning, Iterate, Ask, Respond, RunTool, AfterTool, Drain, Complete,
            CompleteStatus, AdvanceAtEnd, Abort
    <3> QED BY <2>4, <3>1, <3>2, <3>3 DEF Working
  <2> QED BY <2>1, <2>2, <2>3, <2>4, SteadyActs DEF Outside
<1>8. ASSUME NEW t \in Tasks, pc[t] \in Before, status = "active"
      PROVE  Latest' \notin Ends \/ pc'[t] \in Before
  <2>1. CASE ReadStatus(t)
    BY <1>8, <2>1 DEF ReadStatus, Goto, Before, TypeOK, TasksOK
  <2>2. CASE Load(t)
    <3>1. Pending
      BY <1>2, UnreadIsPending
    <3>2. log' = Append(log, "wake")
      BY <2>2, <3>1 DEF Load, Emit
    <3> QED BY <1>3, <3>2 DEF Events, Ends
  <2>3. pc'[t] /= "busy"
    BY <1>1 DEF OnItsWay
  <2> QED BY <1>8, <2>1, <2>2, <2>3, BeforeMoves DEF Before
<1> QED BY <1>2, <1>4, <1>5, <1>6, <1>7, <1>8 DEF Takeable

(* A turn completes the session only with everything answered or on its way, and the wake
   that comes finds the message past the cursor. *)
LEMMA RevivableStep ==
  ASSUME ~Stalls, ~BareEnds, TypeOK, LeaseDiscipline, Steady, InSight,
         Covers(log, heard, cursor, {}), Revivable, Next
  PROVE  Revivable'
<1>1. SUFFICES ASSUME status' = "completed", Unanswered', ~OnItsWay'
               PROVE  \E t \in Tasks : pc'[t] \in {"build", "status", "revive"}
  BY DEF Revivable
<1>2. Unanswered
  BY <1>1, NewIsOnItsWay
<1>3. ASSUME NEW t \in Tasks, CompleteStatus(t) PROVE FALSE
  <2>1. pc[t] = "completeStatus"
    BY <1>3 DEF CompleteStatus
  <2>2. OnItsWay
    BY <1>2, <2>1 DEF InSight, Ending
  <2> QED BY <1>1, <2>1, <2>2, WayKeptInTurn DEF Turn
<1>4. status = "completed"
  BY <1>1, <1>3, StatusWriters
<1>5. CASE OnItsWay
  BY <1>1, <1>5, WayKept
<1>6. ASSUME NEW t \in Tasks, pc[t] \in {"build", "status", "revive"}
      PROVE  pc'[t] \in {"build", "status", "revive"}
  <2>1. CASE ReadStatus(t)
    <3>1. Stranded
      BY <1>2, UnreadIsPending
    <3> QED BY <1>4, <2>1, <3>1 DEF ReadStatus, Goto, TypeOK, TasksOK
  <2> QED BY <1>1, <1>4, <1>6, <2>1, BeforeMoves DEF Before, Load
<1> QED BY <1>2, <1>4, <1>5, <1>6 DEF Revivable

(* A session nobody stops or deletes: while something is unanswered, a wake is coming, or
   one is on its way to the log, or a turn is asking. *)
Carried == Unanswered => OnItsWay \/ \E t \in Tasks : pc[t] \in Before \cup Asking

(* A wake that finds nothing to do leaves the unanswered message to the turn that will
   hear it; no turn stops asking before it has answered. *)
LEMMA CarriedStep ==
  ASSUME ~Stalls, ~BareEnds, TypeOK, LeaseDiscipline, Steady, InSight,
         Calm, Smooth({}), Carried, Next
  PROVE  Carried'
<1>1. SUFFICES ASSUME Unanswered', ~OnItsWay' PROVE \E t \in Tasks : pc'[t] \in Before \cup Asking
  BY DEF Carried
<1>2. Unanswered /\ InSight'
  BY <1>1, NewIsOnItsWay, InSightStep
<1>3. CASE OnItsWay
  BY <1>1, <1>3, WayKept DEF Before
<1>4. Unstopped
  BY DEF Smooth
<1>5. ASSUME NEW t \in Tasks, pc[t] \in {"status", "load"}, Working(t), ~(Stranded /\ Pending)
      PROVE  \E u \in Tasks : pc'[u] \in Asking
  <2>1. ~Covers(log, heard, cursor, {})
    BY <1>2, <1>5, UnreadIsPending
  <2>2. PICK u \in Tasks : WillHear(u)
    BY <2>1 DEF Smooth
  <2>3. pc[u] \in Asking /\ u /= t
    BY <1>5, <2>2 DEF WillHear, Asking
  <2>4. pc'[u] = pc[u]
    BY <1>5, <2>3, OthersStand DEF Working, Queueing, Waking, Turning, Dispatch, Wake
  <2> QED BY <2>3, <2>4
<1>6. ASSUME NEW t \in Tasks, pc[t] \in Before
      PROVE  \E u \in Tasks : pc'[u] \in Before \cup Asking
  <2>1. CASE ReadStatus(t)
    <3>1. CASE Stranded /\ Pending
      BY <1>4, <2>1, <3>1 DEF ReadStatus, Goto, Before, TypeOK, TasksOK, StoreOK, Statuses, Unstopped
    <3>2. CASE ~(Stranded /\ Pending)
      BY <1>5, <2>1, <3>2 DEF ReadStatus, Working, Waking
    <3> QED BY <3>1, <3>2
  <2>2. CASE Load(t)
    <3>1. CASE Stranded /\ Pending
      BY <2>2, <3>1 DEF Load, Goto, Asking, TypeOK, TasksOK
    <3>2. CASE ~(Stranded /\ Pending)
      BY <1>5, <2>2, <3>2 DEF Load, Working, Waking
    <3> QED BY <3>1, <3>2
  <2>3. pc'[t] /= "busy"
    BY <1>1 DEF OnItsWay
  <2> QED BY <1>6, <2>1, <2>2, <2>3, BeforeMoves DEF Before
<1>7. ASSUME NEW t \in Tasks, pc[t] \in Asking PROVE pc'[t] \in Asking
  <2>1. CASE Outside
    BY <1>7, <2>1, OutsideStands
  <2>2. ASSUME NEW u \in Tasks \ {t}, Working(u) PROVE pc'[t] = pc[t]
    BY <2>2, OthersStand DEF Working, Queueing, Waking, Turning, Dispatch, Wake
  <2>3. CASE Working(t)
    <3> USE DEF TypeOK, TasksOK, Goto
    <3>1. ASSUME Queueing(t) \/ Waking(t) \/ Release(t) \/ Return(t) PROVE FALSE
      BY <1>7, <3>1
        DEF Queueing, Pop, Start, Probe, Requeue, Build, Settle, Waking, ReadStatus, Revive,
            ReviveEvent, Acquire, Load, Release, Return, Asking
    <3>2. ASSUME Drain(t) \/ Complete(t) \/ CompleteStatus(t) \/ AdvanceAtEnd(t) \/ Abort(t) PROVE FALSE
      BY <1>7, <3>2 DEF Drain, Complete, CompleteStatus, AdvanceAtEnd, Abort, Asking
    <3>3. CASE Iterate(t) \/ Ask(t) \/ RunTool(t) \/ AfterTool(t)
      BY <1>4, <3>3 DEF Iterate, Ask, RunTool, AfterTool, Unstopped, Asking
    <3>4. CASE Respond(t)
      <4>1. pc'[t] /= "drain"
        BY <1>1, <1>2 DEF InSight, Ending
      <4> QED BY <1>4, <3>4, <4>1 DEF Respond, Unstopped, Use, Steady, Asking
    <3>5. CASE Renew(t)
      BY <1>7, <3>5 DEF Renew
    <3> QED BY <2>3, <3>1, <3>2, <3>3, <3>4, <3>5 DEF Working, Turning
  <2> QED BY <1>7, <2>1, <2>2, <2>3, SteadyActs
<1> QED BY <1>2, <1>3, <1>6, <1>7 DEF Carried

(* What holds of a session whose workers neither crash nor die: the tasks are where they
   should be, turns end well, and what is unanswered is cared for. *)
CaredFor == \/ NoCalls /\ Sweepers = {} /\ Straight({}) /\ Takeable /\ Revivable
            \/ Calm /\ Smooth({}) /\ Carried
RestInv == Steady /\ InSight /\ EndsInv({}) /\ CaredFor

(* Every step keeps all of it, each case of CaredFor by its own lemmas. *)
LEMMA RestStep ==
  ASSUME ~Stalls, ~BareEnds, TypeOK, LeaseDiscipline, RestInv, Next
  PROVE  RestInv'
<1>1. Steady' /\ InSight'
  BY SteadyStep, InSightStep DEF RestInv
<1>2. EndsInv({})'
  <2>1. \A t \in Tasks : pc[t] /= "failTurn"
    BY DEF RestInv, Steady, Places, Registered
  <2> QED BY <2>1, EndsStep DEF RestInv
<1>3. ASSUME NoCalls, Sweepers = {}, Straight({}), Takeable, Revivable
      PROVE  NoCalls' /\ Straight({})' /\ Takeable' /\ Revivable'
  <2>1. NoCalls' /\ Straight({})'
    BY <1>3, StraightStep DEF RestInv
  <2>2. Covers(log, heard, cursor, {})
    BY <1>3 DEF Straight
  <2> QED BY <1>3, <2>1, <2>2, TakeableStep, RevivableStep DEF RestInv
<1>4. ASSUME Calm, Smooth({}), Carried PROVE Calm' /\ Smooth({})' /\ Carried'
  BY <1>4, SmoothStep, CarriedStep DEF RestInv
<1> QED BY <1>1, <1>2, <1>3, <1>4 DEF RestInv, CaredFor

(* No message is forgotten: once nobody works on the session, an unanswered message is one
   its user stopped, one that failed, or one the orphan sweep can find.  It holds where no
   worker crashes, dies or stalls, no reply is a draft and turns read what arrives before
   they end: for a session that nobody stops or deletes, whatever the sweepers do; and for
   one that is stopped, retried or deleted as often as its user likes, if it calls no tool
   and no sweep gives it up. *)
THEOREM NoneForgotten ==
  ASSUME ~Stalls, ~BareEnds,
         \A s \in Scenarios :
           /\ s["drafts"] = 0 /\ s["crashes"] = 0 /\ s["deaths"] = 0
           /\ \/ s["stops"] = 0 /\ s["deletes"] = 0
              \/ s["calls"] = 0 /\ Sweepers = {}
  PROVE  Spec => []NothingForgotten
<1>1. Init => RestInv
  <2>1. SUFFICES ASSUME Init PROVE RestInv
    OBVIOUS
  <2>2. EndsInv({})
    BY <2>1 DEF Init, EndsInv, EndsWell, Last
  <2>3. Covers(log, heard, cursor, {})
    BY <2>1 DEF Init, Covers
  <2>4. Straight({}) /\ Smooth({})
    BY <2>1, <2>3 DEF Init, Straight, Smooth, Unstopped
  <2>5. OnItsWay
    BY <2>1 DEF Init, OnItsWay
  <2>6. Takeable /\ Revivable /\ Carried
    BY <2>5 DEF Takeable, Revivable, Carried
  <2>7. (NoCalls /\ Sweepers = {}) \/ Calm
    BY <2>1 DEF Init, NoCalls, Calm, Uncut
  <2>8. InSight
    BY <2>1 DEF Init, InSight, Asking, Ending
  <2>9. Steady
    <3>1. Named /\ Held
      BY <2>1 DEF Init, Named, Held
    <3> QED BY <2>1, <3>1 DEF Init, Steady, Places
  <2> QED BY <2>2, <2>4, <2>6, <2>7, <2>8, <2>9 DEF RestInv, CaredFor
<1>2. TypeOK /\ LeaseDiscipline /\ RestInv /\ [Next]_vars => RestInv'
  <2>1. SUFFICES ASSUME TypeOK, LeaseDiscipline, RestInv, UNCHANGED vars PROVE RestInv'
    BY RestStep
  <2>2. Steady' /\ InSight'
    BY <2>1 DEF RestInv, vars, Steady, Named, Held, Holder, InSight, Read, Messages, Unanswered, OnItsWay
  <2>3. EndsInv({})' /\ Straight({})' = Straight({}) /\ Smooth({})' = Smooth({})
    BY <2>1 DEF RestInv, vars, EndsInv, EndsWell, Straight, Smooth, Unstopped, WillHear, Messages
  <2>4. CaredFor'
    BY <2>1, <2>3 DEF RestInv, CaredFor, vars, NoCalls, Calm, Takeable, Revivable, Carried,
                      Unanswered, Messages, OnItsWay, Latest
  <2> QED BY <2>2, <2>3, <2>4 DEF RestInv
<1>3. TypeOK /\ RestInv => NothingForgotten
  <2>1. SUFFICES ASSUME TypeOK, RestInv, AtRest, Unanswered
                 PROVE  Abandoned \/ status \in {"paused", "archived", "failed"}
    BY DEF NothingForgotten
  <2>2. ~OnItsWay /\ \A t \in Tasks : pc[t] \notin Before \cup Asking
    BY <2>1 DEF AtRest, OnItsWay, Registered, Before, Asking
  <2>3. ~leaseLive
    <3>1. \A t \in Tasks : tok[t] = 0
      BY <2>1 DEF AtRest, RestInv, Steady, Held, Holding, Turn
    <3> QED BY <2>1, <3>1 DEF RestInv, Steady, Held, Holder
  <2>4. NoCalls /\ Takeable /\ Revivable
    BY <2>1, <2>2 DEF RestInv, CaredFor, Carried
  <2>5. status = "active" => Latest \notin Ends
    BY <2>1, <2>2, <2>4 DEF Takeable, AtRest
  <2>6. status /= "completed"
    BY <2>1, <2>2, <2>4 DEF Revivable, Before
  <2> QED BY <2>1, <2>3, <2>5, <2>6 DEF Abandoned, Ends, TypeOK, StoreOK, Statuses
<1> QED BY <1>1, <1>2, <1>3, Typed, Disciplined, PTL DEF Spec
=============================================================================
