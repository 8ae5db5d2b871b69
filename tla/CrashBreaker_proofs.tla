------------------------ MODULE CrashBreaker_proofs ------------------------
(***************************************************************************)
(* Proofs about CrashBreaker, for any threshold, retries, fingerprints and *)
(* posts.  The crash counter is read and then written, with no             *)
(* transaction: two tasks lose each other's counts.  So what the breaker   *)
(* promises is proved for the session that one task works at, and as long  *)
(* as no Redis call or database write fails and the state does not expire. *)
(***************************************************************************)
EXTENDS CrashBreaker, TLAPS

(* ------------------------- the inductive invariant --------------------- *)

\* What a task has read of Redis is what Redis holds, while it decides on it.
Reading(t) == pc[t] \in {"signal", "save"} => seen[t] = state

\* Redis counts the streak, but for the crash a task is about to record and for the
\* end of a wake it is about to note.
Counts(t) ==
  /\ pc[t] \in PCs \ {"record", "save", "settle"} =>
       state.print = streak.print /\ state.count = streak.count
  /\ pc[t] \in {"record", "save"} =>
       mine[t].print = streak.print /\ streak.count = Counted(state, streak.print)
  /\ pc[t] \in {"trip", "saveTrip"} =>
       mine[t].print = streak.print /\ mine[t].count = streak.count
  /\ pc[t] = "settle" => streak = NoState

\* The streak reaches the threshold only where the breaker trips, and from there it
\* does not wake.
Bounded(t) ==
  /\ streak.count <= Threshold
  /\ pc[t] \in {"probe", "wake", "giveUp"} => streak.count < Threshold
  /\ pc[t] \in {"trip", "saveTrip"} => streak.count = Threshold
  /\ pc[t] = "saveTrip" => mine[t].tripped
  /\ pc[t] \in {"idle", "gate", "signal"} => streak.count < Threshold \/ state.tripped

\* A breaker that tripped and that no person has spoken to since is open in Redis, at
\* that failure, or about to be.
Shut(t) ==
  open > 0 /\ ~HumanSince(open) =>
    \/ pc[t] \in {"idle", "gate", "signal"} /\ state.tripped /\ state.since = open
    \/ pc[t] = "saveTrip" /\ mine[t].tripped /\ mine[t].since = open

BreakerInv(t) == Reading(t) /\ Counts(t) /\ Bounded(t) /\ Shut(t)

IInv == TypeOK /\ (Undisturbed => \A t \in Tasks : BreakerInv(t))

(* ------------------------------ lemmas --------------------------------- *)

(* One more of an input. *)
LEMMA UseTyped ==
  ASSUME TypeOK, NEW i \in Inputs, Use(i)
  PROVE  used' \in [Inputs -> Nat] /\ used'[i] > 0
BY DEF TypeOK, Use

(* What a task reads is a state, and the state in Redis if no call fails. *)
LEMMA ReadTyped ==
  ASSUME TypeOK, NEW t \in Tasks, Read(t)
  PROVE  /\ seen' \in [Tasks -> States] /\ used' \in [Inputs -> Nat]
         /\ \A u \in Tasks \ {t} : seen'[u] = seen[u]
         /\ Undisturbed' => seen'[t] = state
<1>1. NoState \in States BY DEF NoState, States
<1>2. CASE seen' = [seen EXCEPT ![t] = state] /\ UNCHANGED used
  BY <1>2 DEF TypeOK
<1>3. CASE seen' = [seen EXCEPT ![t] = NoState] /\ Use("fails")
  <2>1. used' \in [Inputs -> Nat] /\ used'["fails"] > 0
    BY <1>3, UseTyped DEF Inputs
  <2>2. ~Undisturbed'
    BY <2>1 DEF Undisturbed, Inputs
  <2> QED BY <1>1, <1>3, <2>1, <2>2 DEF TypeOK
<1> QED BY <1>2, <1>3 DEF Read

(* A write to Redis is made, unless a call fails. *)
LEMMA TryTyped ==
  ASSUME TypeOK, NEW s \in States, Try(state' = s, state)
  PROVE  /\ state' \in States /\ used' \in [Inputs -> Nat]
         /\ Undisturbed' => state' = s
<1>1. CASE state' = s /\ UNCHANGED used
  BY <1>1 DEF TypeOK
<1>2. CASE Use("fails") /\ UNCHANGED state
  <2>1. used' \in [Inputs -> Nat] /\ used'["fails"] > 0
    BY <1>2, UseTyped DEF Inputs
  <2>2. ~Undisturbed'
    BY <2>1 DEF Undisturbed, Inputs
  <2> QED BY <1>2, <2>1, <2>2 DEF TypeOK
<1> QED BY <1>1, <1>2 DEF Try

(* A count goes one up, or starts again, and stops above the threshold. *)
LEMMA CountedTyped ==
  ASSUME NEW s \in States, NEW p
  PROVE  /\ Counted(s, p) \in Nat
         /\ s.count < Threshold => Counted(s, p) <= Threshold
BY BreakerAssumption DEF Counted, CountCap, States

(* What _record_crash writes. *)
LEMMA TallyTyped ==
  ASSUME TypeOK, NEW t \in Tasks
  PROVE  Tally(t) \in States
<1>1. seen[t] \in States /\ mine[t] \in States BY DEF TypeOK
<1>2. Counted(seen[t], mine[t].print) \in Nat BY <1>1, CountedTyped
<1>3. (seen[t].print = mine[t].print /\ seen[t].tripped) \in BOOLEAN OBVIOUS
<1>4. seen[t].since \in Nat /\ mine[t].print \in Prints \cup {"none"} BY <1>1 DEF States
<1> QED BY <1>2, <1>3, <1>4 DEF Tally, States

(* The log only grows: what a person has said stays said. *)
LEMMA LogGrows ==
  ASSUME TypeOK, NEW e, log' \in {log, Append(log, e)}
  PROVE  \A id : HumanSince(id) => \E i \in DOMAIN log' : i > id /\ log'[i] = "human"
<1>1. log \in Seq({"human", "auto", "fail"}) BY DEF TypeOK
<1>2. \A i \in DOMAIN log : i \in DOMAIN log' /\ log'[i] = log[i]
  <2>1. CASE log' = log BY <2>1
  <2>2. CASE log' = Append(log, e)
    <3>1. DOMAIN log = 1 .. Len(log) /\ Len(log) \in Nat BY <1>1
    <3>2. DOMAIN log' = 1 .. Len(log) + 1 BY <1>1, <2>2
    <3>3. \A i \in 1 .. Len(log) : log'[i] = log[i] BY <1>1, <2>2
    <3> QED BY <3>1, <3>2, <3>3
  <2> QED BY <2>1, <2>2
<1> QED BY <1>2 DEF HumanSince

(* ------------------------- every variable's type ----------------------- *)

(* What comes from outside keeps the types. *)
LEMMA WorldTyped ==
  ASSUME TypeOK, (\E e \in {"human", "auto"} : Post(e)) \/ Rewake \/ Expire
  PROVE  TypeOK'
<1>1. ASSUME NEW e \in {"human", "auto"}, Post(e) PROVE TypeOK'
  <2>1. used' \in [Inputs -> Nat] BY <1>1, UseTyped DEF Post, Inputs
  <2> QED BY <1>1, <2>1 DEF Post, TypeOK, local, history
<1>2. CASE Rewake BY <1>2 DEF Rewake, TypeOK, local, history
<1>3. CASE Expire
  <2>1. used' \in [Inputs -> Nat] BY <1>3, UseTyped DEF Expire, Inputs
  <2>2. NoState \in States BY DEF NoState, States
  <2> QED BY <1>3, <2>1, <2>2 DEF Expire, TypeOK, local, history
<1> QED BY <1>1, <1>2, <1>3

(* So does every step of a task. *)
LEMMA TaskTyped ==
  ASSUME TypeOK, NEW t \in Tasks, Dequeue(t) \/ Process(t) \/ Clean(t)
  PROVE  TypeOK'
<1>1. NoState \in States BY DEF NoState, States
<1>2. ASSUME NEW p \in PCs, Goto(t, p) PROVE pc' \in [Tasks -> PCs]
  BY <1>2 DEF Goto, TypeOK
<1>3. CASE Dequeue(t) BY <1>3 DEF Dequeue, Goto, PCs, TypeOK, history
<1>4. CASE Gate(t)
  <2>1. pc' \in [Tasks -> PCs] BY <1>4 DEF Gate, Goto, PCs, TypeOK
  <2> QED BY <1>4, <2>1, ReadTyped DEF Gate, TypeOK, history
<1>5. CASE Signal(t) BY <1>5 DEF Signal, Goto, PCs, TypeOK, local, history
<1>6. CASE Unlock(t)
  <2>1. state' \in States /\ used' \in [Inputs -> Nat] BY <1>1, <1>6, TryTyped DEF Unlock, Clear
  <2> QED BY <1>1, <1>6, <2>1 DEF Unlock, Goto, PCs, TypeOK, local
<1>7. CASE Probe(t)
  <2>1. queued' \in BOOLEAN /\ awake' \in Nat
    <3>1. Len(log) \in Nat BY DEF TypeOK
    <3> QED BY <1>7, <3>1 DEF Probe, TypeOK
  <2>2. pc' \in [Tasks -> PCs] BY <1>7 DEF Probe, Goto, PCs, TypeOK
  <2> QED BY <1>7, <2>1, <2>2 DEF Probe, TypeOK, local
<1>8. ASSUME NEW p \in Prints, Crash(t, p) PROVE TypeOK'
  <2>1. [NoState EXCEPT !.print = p] \in States BY DEF NoState, States
  <2>2. Counted(streak, p) \in Nat BY CountedTyped DEF TypeOK
  <2>3. [NoState EXCEPT !.print = p, !.count = Counted(streak, p)] \in States
    BY <2>2 DEF NoState, States
  <2> QED BY <1>8, <2>1, <2>3 DEF Crash, Goto, PCs, TypeOK
<1>9. CASE Settle(t)
  <2>1. state' \in States /\ used' \in [Inputs -> Nat] BY <1>1, <1>9, TryTyped DEF Settle, Clear
  <2> QED BY <1>9, <2>1 DEF Settle, Goto, PCs, TypeOK, local, history
<1>10. CASE Record(t)
  BY <1>10, ReadTyped DEF Record, Goto, PCs, TypeOK, history
<1>11. CASE Save(t)
  <2>1. Tally(t) \in States BY TallyTyped
  <2>2. state' \in States /\ used' \in [Inputs -> Nat] BY <1>11, <2>1, TryTyped DEF Save
  <2>3. mine' \in [Tasks -> States] BY <1>11, <2>1 DEF Save, TypeOK
  <2>4. pc' \in [Tasks -> PCs] /\ attempt' \in [Tasks -> Nat]
    <3>1. \E p \in PCs : Goto(t, p) BY <1>11 DEF Save, PCs
    <3>2. attempt' \in [Tasks -> Nat] BY <1>11 DEF Save, TypeOK
    <3> QED BY <1>2, <3>1, <3>2
  <2> QED BY <1>11, <2>2, <2>3, <2>4 DEF Save, TypeOK, history
<1>12. CASE Trip(t)
  <2>1. PICK written \in BOOLEAN :
          /\ IF written THEN UNCHANGED used ELSE Use("writes")
          /\ log' = IF written /\ log[Len(log)] /= "fail" THEN Append(log, "fail") ELSE log
          /\ mine' = [mine EXCEPT ![t] = [@ EXCEPT !.tripped = TRUE,
                        !.since = IF written THEN Len(log') ELSE 0]]
    BY <1>12 DEF Trip
  <2>2. used' \in [Inputs -> Nat] BY <2>1, UseTyped DEF Inputs, TypeOK
  <2>3. log' \in Seq({"human", "auto", "fail"}) BY <2>1 DEF TypeOK
  <2>4. Len(log') \in Nat BY <2>3
  <2>5. mine[t] \in States BY DEF TypeOK
  <2>6. [mine[t] EXCEPT !.tripped = TRUE, !.since = IF written THEN Len(log') ELSE 0] \in States
    BY <2>4, <2>5 DEF States
  <2>7. mine' \in [Tasks -> States] BY <2>1, <2>6 DEF TypeOK
  <2> QED BY <1>12, <2>2, <2>3, <2>4, <2>7 DEF Trip, Goto, PCs, TypeOK
<1>13. CASE SaveTrip(t)
  <2>1. mine[t] \in States BY DEF TypeOK
  <2>2. state' \in States /\ used' \in [Inputs -> Nat] BY <1>13, <2>1, TryTyped DEF SaveTrip
  <2> QED BY <1>13, <2>2 DEF SaveTrip, Goto, PCs, TypeOK, local, history
<1>14. CASE GiveUp(t) BY <1>14 DEF GiveUp, Goto, PCs, TypeOK, local, history
<1>15. CASE Clean(t)
  <2>1. used' \in [Inputs -> Nat] BY <1>15, UseTyped DEF Clean, Inputs
  <2> QED BY <1>1, <1>15, <2>1 DEF Clean, Goto, PCs, TypeOK, local
<1> QED BY <1>3, <1>4, <1>5, <1>6, <1>7, <1>8, <1>9, <1>10, <1>11, <1>12, <1>13, <1>14, <1>15
        DEF Process

(* The types, of any number of tasks. *)
LEMMA NextTyped ==
  ASSUME TypeOK, [Next]_vars
  PROVE  TypeOK'
<1>1. CASE UNCHANGED vars BY <1>1 DEF vars, TypeOK
<1>2. CASE Next BY <1>2, WorldTyped, TaskTyped DEF Next
<1> QED BY <1>1, <1>2

(* At first nothing has been counted. *)
LEMMA InitTyped ==
  ASSUME Init
  PROVE  TypeOK
<1>1. NoState \in States BY DEF NoState, States
<1>2. log \in Seq({"human", "auto", "fail"}) BY DEF Init
<1> QED BY <1>1, <1>2 DEF Init, TypeOK, PCs

(* --------------------------- one task's breaker ------------------------ *)

(* What has failed or run out stays so. *)
LEMMA StaysDisturbed ==
  ASSUME TypeOK, used' \in [Inputs -> Nat], used = used' \/ \E i \in Inputs : Use(i), Undisturbed'
  PROVE  Undisturbed
<1>1. ASSUME NEW i \in Inputs, Use(i) PROVE \A j \in Inputs : used[j] <= used'[j]
  BY <1>1 DEF Use, TypeOK
<1>2. \A j \in Inputs : used[j] <= used'[j] BY <1>1 DEF TypeOK
<1>3. used["fails"] <= used'["fails"] /\ used["writes"] <= used'["writes"]
      /\ used["expiries"] <= used'["expiries"]
  BY <1>2 DEF Inputs
<1> QED BY SMTT(30), <1>3 DEF Undisturbed, TypeOK, Inputs

(* A step uses an input, or none. *)
LEMMA UsesInput ==
  ASSUME [Next]_vars
  PROVE  used = used' \/ \E i \in Inputs : Use(i)
<1>0. \A i \in {"human", "auto", "cleans", "fails", "writes", "expiries"} : i \in Inputs
  BY DEF Inputs
<1>1. ASSUME NEW t \in Tasks, Process(t) PROVE used = used' \/ \E i \in Inputs : Use(i)
  <2>1. CASE Gate(t) \/ Record(t) BY <1>0, <2>1 DEF Gate, Record, Read
  <2>2. CASE Unlock(t) \/ Settle(t) \/ Save(t) \/ SaveTrip(t)
    BY <1>0, <2>2 DEF Unlock, Settle, Save, SaveTrip, Clear, Try
  <2>3. CASE Trip(t) BY <1>0, <2>3 DEF Trip
  <2>4. CASE Signal(t) \/ Probe(t) \/ (\E p \in Prints : Crash(t, p)) \/ GiveUp(t)
    BY <2>4 DEF Signal, Probe, Crash, GiveUp
  <2> QED BY <1>1, <2>1, <2>2, <2>3, <2>4 DEF Process
<1>2. ASSUME NEW t \in Tasks, Dequeue(t) \/ Clean(t) PROVE used = used' \/ \E i \in Inputs : Use(i)
  BY <1>0, <1>2 DEF Dequeue, Clean
<1>3. ASSUME (\E e \in {"human", "auto"} : Post(e)) \/ Rewake \/ Expire
      PROVE  used = used' \/ \E i \in Inputs : Use(i)
  BY <1>0, <1>3 DEF Post, Rewake, Expire
<1>4. CASE UNCHANGED vars BY <1>4 DEF vars
<1> QED BY <1>1, <1>2, <1>3, <1>4 DEF Next

(* A post, or a wake from elsewhere, leaves the breaker alone. *)
LEMMA WorldStep ==
  ASSUME TypeOK, TypeOK', NEW t \in Tasks, BreakerInv(t), Undisturbed',
         (\E e \in {"human", "auto"} : Post(e)) \/ Rewake \/ Expire \/ UNCHANGED vars
  PROVE  BreakerInv(t)'
<1>1. ~Expire
  <2>1. Expire => used'["expiries"] > 0 BY UseTyped DEF Expire, Inputs
  <2> QED BY SMTT(30), <2>1 DEF Undisturbed, TypeOK, Inputs
<1>2. /\ UNCHANGED <<state, pc, attempt, seen, mine, awake, open, streak>>
      /\ \E e \in {"human", "auto"} : log' \in {log, Append(log, e)}
  BY <1>1 DEF Post, Rewake, vars, local, history
<1>3. HumanSince(open) => HumanSince(open)'
  <2>1. \A id : HumanSince(id) => \E i \in DOMAIN log' : i > id /\ log'[i] = "human"
    BY <1>2, LogGrows
  <2> QED BY <1>2, <2>1 DEF HumanSince
<1> QED BY <1>2, <1>3 DEF BreakerInv, Reading, Counts, Counted, Bounded, Shut

(* The task's own steps, up to its wake. *)
LEMMA GateStep ==
  ASSUME TypeOK, TypeOK', NEW t \in Tasks, BreakerInv(t), Undisturbed',
         Dequeue(t) \/ Gate(t) \/ Signal(t) \/ Unlock(t) \/ GiveUp(t)
  PROVE  BreakerInv(t)'
<1>1. CASE Dequeue(t)
  BY <1>1 DEF Dequeue, Goto, PCs, TypeOK, history, BreakerInv, Reading, Counts, Counted, Bounded,
              Shut, HumanSince
<1>2. CASE Gate(t)
  <2>1. /\ seen'[t] = state /\ pc[t] = "gate"
        /\ pc'[t] = IF state.tripped THEN "signal" ELSE "probe"
        /\ UNCHANGED <<log, state, mine, open, streak>>
    BY <1>2, ReadTyped DEF Gate, Goto, TypeOK, history
  <2> QED BY <2>1 DEF BreakerInv, Reading, Counts, Counted, Bounded, Shut, HumanSince, PCs
<1>3. CASE Signal(t)
  <2>1. /\ seen[t] = state /\ pc[t] = "signal"
        /\ pc'[t] = IF HumanSince(state.since) THEN "unlock" ELSE "idle"
        /\ UNCHANGED <<log, state, seen, mine, open, streak>>
    BY <1>3 DEF Signal, Goto, TypeOK, local, history, BreakerInv, Reading
  <2>2. streak.count < Threshold \/ state.tripped
    BY <2>1 DEF BreakerInv, Bounded
  <2> QED BY <2>1, <2>2 DEF BreakerInv, Reading, Counts, Counted, Bounded, Shut, HumanSince, PCs
<1>4. CASE Unlock(t)
  <2>1. /\ state' = NoState /\ streak' = NoState /\ pc[t] = "unlock" /\ pc'[t] = "probe"
        /\ UNCHANGED <<log, seen, mine, open>>
    BY <1>4, TryTyped DEF Unlock, Clear, Goto, TypeOK, local, NoState, States
  <2> QED BY <2>1, BreakerAssumption
          DEF BreakerInv, Reading, Counts, Counted, Bounded, Shut, HumanSince, PCs, NoState
<1>5. CASE GiveUp(t)
  BY <1>5 DEF GiveUp, Goto, PCs, TypeOK, local, history, BreakerInv, Reading, Counts, Counted,
              Bounded, Shut, HumanSince
<1> QED BY <1>1, <1>2, <1>3, <1>4, <1>5

(* Its wake, and the crash or the end of it. *)
LEMMA WakeStep ==
  ASSUME TypeOK, TypeOK', NEW t \in Tasks, Tasks = {t}, BreakerInv(t), Undisturbed',
         Probe(t) \/ Clean(t) \/ Settle(t) \/ \E p \in Prints : Crash(t, p)
  PROVE  BreakerInv(t)'
<1>1. CASE Probe(t)
  <2>1. /\ pc[t] = "probe" /\ pc'[t] = "wake"
        /\ UNCHANGED <<log, state, seen, mine, open, streak>>
    BY <1>1 DEF Probe, Goto, TypeOK, local
  <2> QED BY <2>1 DEF BreakerInv, Reading, Counts, Counted, Bounded, Shut, HumanSince, PCs
<1>2. CASE Clean(t)
  <2>1. /\ pc[t] = "wake" /\ pc'[t] = "settle" /\ open' = 0 /\ streak' = NoState
        /\ UNCHANGED <<log, state, seen, mine>>
    BY <1>2 DEF Clean, Goto, TypeOK, local
  <2> QED BY <2>1, BreakerAssumption
          DEF BreakerInv, Reading, Counts, Counted, Bounded, Shut, PCs, NoState
<1>3. CASE Settle(t)
  <2>1. /\ state' = NoState /\ pc[t] = "settle" /\ pc'[t] = "idle"
        /\ UNCHANGED <<log, seen, mine, open, streak>>
    BY <1>3, TryTyped DEF Settle, Clear, Goto, TypeOK, local, history, NoState, States
  <2>2. streak = NoState BY <2>1 DEF BreakerInv, Counts
  <2> QED BY <2>1, <2>2, BreakerAssumption
          DEF BreakerInv, Reading, Counts, Counted, Bounded, Shut, HumanSince, PCs, NoState
<1>4. ASSUME NEW p \in Prints, Crash(t, p) PROVE BreakerInv(t)'
  <2>1. /\ pc[t] = "wake" /\ pc'[t] = "record" /\ mine'[t].print = p
        /\ streak'.print = p /\ streak'.count = Counted(streak, p)
        /\ UNCHANGED <<log, state, seen, open>>
    BY <1>4 DEF Crash, Goto, TypeOK, NoState
  <2>2. /\ streak.count < Threshold /\ state.print = streak.print /\ state.count = streak.count
        /\ open > 0 => HumanSince(open)
    BY <2>1 DEF BreakerInv, Counts, Bounded, Shut, PCs
  <2>3. streak'.count <= Threshold BY <2>1, <2>2, CountedTyped DEF TypeOK
  <2>4. streak'.count = Counted(state, p) BY <2>1, <2>2 DEF Counted
  <2>5. Counted(state', p) = Counted(state, p) BY <2>1
  <2> QED BY <2>1, <2>2, <2>3, <2>4, <2>5
          DEF BreakerInv, Reading, Counts, Counted, Bounded, Shut, HumanSince, PCs
<1> QED BY <1>1, <1>2, <1>3, <1>4

(* The crash is recorded, and the breaker trips at the threshold. *)
LEMMA RecordStep ==
  ASSUME TypeOK, TypeOK', NEW t \in Tasks, BreakerInv(t), Undisturbed',
         Record(t) \/ Save(t) \/ Trip(t) \/ SaveTrip(t)
  PROVE  BreakerInv(t)'
<1>1. CASE Record(t)
  <2>1. /\ seen'[t] = state /\ pc[t] = "record" /\ pc'[t] = "save"
        /\ UNCHANGED <<log, state, mine, open, streak>>
    BY <1>1, ReadTyped DEF Record, Goto, TypeOK, history
  <2> QED BY <2>1 DEF BreakerInv, Reading, Counts, Counted, Bounded, Shut, HumanSince, PCs
<1>2. CASE Save(t)
  <2>1. /\ state' = Tally(t) /\ mine'[t] = Tally(t) /\ pc[t] = "save"
        /\ pc'[t] \in {"trip", "probe", "giveUp"}
        /\ pc'[t] = "trip" <=> Looping(Tally(t).count)
        /\ UNCHANGED <<log, open, streak>>
    BY <1>2, TallyTyped, TryTyped DEF Save, Goto, TypeOK, history
  <2>2. /\ mine[t].print = streak.print /\ seen[t] = state
        /\ streak.count = Counted(state, streak.print) /\ streak.count <= Threshold
        /\ open > 0 => HumanSince(open)
    BY <2>1 DEF BreakerInv, Counts, Bounded, Shut, Reading
  <2>3. Tally(t).print = streak.print /\ Tally(t).count = streak.count
    BY <2>2 DEF Tally
  <2>4. pc'[t] = "trip" <=> streak.count >= Threshold BY <2>1, <2>3 DEF Looping
  <2>5. streak.count \in Nat BY DEF TypeOK, States
  <2> QED BY <2>1, <2>2, <2>3, <2>4, <2>5, BreakerAssumption
          DEF BreakerInv, Reading, Counts, Bounded, Shut, HumanSince, PCs
<1>3. CASE Trip(t)
  <2>1. PICK written \in BOOLEAN :
          /\ IF written THEN UNCHANGED used ELSE Use("writes")
          /\ log' = IF written /\ log[Len(log)] /= "fail" THEN Append(log, "fail") ELSE log
          /\ mine' = [mine EXCEPT ![t] = [@ EXCEPT !.tripped = TRUE,
                        !.since = IF written THEN Len(log') ELSE 0]]
    BY <1>3 DEF Trip
  <2>2. written
    <3>1. Use("writes") => used'["writes"] > 0 BY UseTyped DEF Inputs
    <3> QED BY SMTT(30), <2>1, <3>1 DEF Undisturbed, TypeOK, Inputs
  <2>3. mine[t] \in States BY DEF TypeOK
  <2>4. /\ pc[t] = "trip" /\ pc'[t] = "saveTrip" /\ open' = Len(log')
        /\ mine'[t].print = mine[t].print /\ mine'[t].count = mine[t].count
        /\ mine'[t].tripped /\ mine'[t].since = open'
        /\ UNCHANGED <<state, seen, streak>>
    BY <1>3, <2>1, <2>2, <2>3 DEF Trip, Goto, TypeOK, States
  <2> QED BY <2>4 DEF BreakerInv, Reading, Counts, Bounded, Shut, PCs
<1>4. CASE SaveTrip(t)
  <2>1. mine[t] \in States BY DEF TypeOK
  <2>2. /\ state' = mine[t] /\ pc[t] = "saveTrip" /\ pc'[t] = "idle"
        /\ UNCHANGED <<log, mine, seen, streak, open>>
    BY <1>4, <2>1, TryTyped DEF SaveTrip, Goto, TypeOK, local, history
  <2> QED BY <2>2 DEF BreakerInv, Reading, Counts, Bounded, Shut, HumanSince, PCs
<1> QED BY <1>1, <1>2, <1>3, <1>4

(* ------------------------------ theorems ------------------------------- *)

(* Every step of a session's one task keeps the invariant. *)
LEMMA NextIInv ==
  ASSUME NEW t \in Tasks, Tasks = {t}, IInv, [Next]_vars
  PROVE  IInv'
<1>1. TypeOK /\ TypeOK' BY NextTyped DEF IInv
<1>2. ASSUME Undisturbed' PROVE BreakerInv(t)'
  <2>1. Undisturbed BY <1>1, <1>2, UsesInput, StaysDisturbed DEF TypeOK
  <2>2. BreakerInv(t) BY <2>1 DEF IInv
  <2>3. CASE (\E e \in {"human", "auto"} : Post(e)) \/ Rewake \/ Expire \/ UNCHANGED vars
    BY <1>1, <1>2, <2>2, <2>3, WorldStep
  <2>4. CASE Dequeue(t) \/ Process(t) \/ Clean(t)
    BY <1>1, <1>2, <2>2, <2>4, GateStep, WakeStep, RecordStep DEF Process
  <2> QED BY <2>3, <2>4 DEF Next
<1> QED BY <1>1, <1>2 DEF IInv

(* It holds at first. *)
LEMMA InitIInv ==
  ASSUME Init
  PROVE  IInv
<1>1. TypeOK BY InitTyped
<1>2. ASSUME NEW t \in Tasks PROVE BreakerInv(t)
  BY BreakerAssumption DEF Init, BreakerInv, Reading, Counts, Bounded, Shut, NoState
<1> QED BY <1>1, <1>2 DEF IInv

(* Every variable keeps its type, however many tasks work at the session. *)
THEOREM Typed == Spec => []TypeOK
<1>1. Init => TypeOK BY InitTyped
<1>2. TypeOK /\ [Next]_vars => TypeOK' BY NextTyped
<1> QED BY <1>1, <1>2, PTL DEF Spec

(* Redis counts the streak of a session that one task works at, and a breaker that  *)
(* is open stays open until a person speaks.                                        *)
THEOREM Invariant ==
  ASSUME NEW t \in Tasks, Tasks = {t}
  PROVE  Spec => []IInv
<1>1. Init => IInv BY InitIInv
<1>2. IInv /\ [Next]_vars => IInv' BY NextIInv
<1> QED BY <1>1, <1>2, PTL DEF Spec

(* A poisoned conversation is not replayed for ever: of a session that one task      *)
(* works at, the crashes that look the same never pass the threshold                 *)
(* (_record_crash, _crash_loop_blocked).                                             *)
THEOREM StopsReplay ==
  ASSUME NEW t \in Tasks, Tasks = {t}
  PROVE  Spec => []StreakBounded
<1>1. IInv => StreakBounded BY DEF IInv, BreakerInv, Bounded, StreakBounded
<1>2. Spec => []IInv BY Invariant
<1> QED BY <1>1, <1>2, PTL

(* The breaker trips on the threshold of one kind of crash, never on crashes that    *)
(* differ or that the end of a wake has come between.                                *)
THEOREM TripsRightly ==
  ASSUME NEW t \in Tasks, Tasks = {t}
  PROVE  Spec => []TripsOnStreak
<1>1. IInv => TripsOnStreak
  <2>1. TypeOK => streak.count \in Nat BY DEF TypeOK, States
  <2> QED BY <2>1, BreakerAssumption DEF IInv, BreakerInv, Bounded, Counts, TripsOnStreak
<1>2. Spec => []IInv BY Invariant
<1> QED BY <1>1, <1>2, PTL

(* A tripped breaker begins no wake until a person has spoken: the failure it        *)
(* remembers is the one the gate compares the log with.                              *)
THEOREM StaysShut ==
  ASSUME NEW u \in Tasks, Tasks = {u}
  PROVE  Spec => RefusedUntilHuman
<1>1. IInv /\ [Next]_vars =>
        [(\E t \in Tasks : pc[t] = "probe" /\ pc'[t] = "wake") /\ open > 0 /\ Undisturbed
           => \E i \in DOMAIN log : i > open /\ log[i] = "human"]_vars
  BY DEF IInv, BreakerInv, Shut, HumanSince
<1>2. Spec => []IInv BY Invariant
<1> QED BY <1>1, <1>2, PTL DEF Spec, RefusedUntilHuman
=============================================================================
