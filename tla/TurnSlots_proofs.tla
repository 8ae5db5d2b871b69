-------------------------- MODULE TurnSlots_proofs --------------------------
(***************************************************************************)
(* Proofs about TurnSlots, for any number of workers, turns and calls and  *)
(* any capacity: no slot of a semaphore is lost or made up, work is done   *)
(* under both slots, and no turn that is over leaves its holder in the     *)
(* gate unless the call that should have released it failed.               *)
(***************************************************************************)
EXTENDS TurnSlots, TLAPS, FiniteSetTheorems

(* ------------------------- the inductive invariant --------------------- *)

Live(t) == phase[t] \in {"running", "ending", "over"}

\* A dispatch loop that is past its poll has a turn of its own, which is nobody
\* else's and is not running yet.
LoopInv ==
  /\ \A w \in Workers : IF at[w] = "poll" THEN loop[w] = NoTurn
                        ELSE loop[w] \in Turns /\ phase[loop[w]] = "taken"
  /\ \A v, w \in Workers : at[v] /= "poll" /\ at[w] /= "poll" /\ loop[v] = loop[w] => v = w

\* A turn that no worker runs has an empty record; one that runs has a worker.
Fresh(t) == IF Live(t) THEN home[t] \in Workers
            ELSE /\ \A a \in Acts : act[t][a] = "idle"
                 /\ lock[t] = NoOne /\ ~gate[t] /\ ~sem[t]

\* release_owned marks the turn as ended before it gives anything back, and a
\* turn that is over has no slot of the semaphore.
Ending(t) == /\ phase[t] \in {"ending", "over"} => ended[t]
             /\ phase[t] = "over" => ~sem[t]

\* Who is inside a critical section, and which slots it has settled so far: a
\* release begins with the semaphore, a take with the gate.
Locked(t) ==
  /\ lock[t] \in Acts => act[t][lock[t]] \in Taking \cup Giving
  /\ lock[t] \in Acts /\ act[t][lock[t]] \in Giving => gate[t] /\ ~sem[t]
  /\ lock[t] \in Acts /\ act[t][lock[t]] \in Taking =>
       phase[t] /= "over" /\ (step[t] = "sem" => gate[t] /\ ~sem[t])
  /\ lock[t] = End => phase[t] = "ending" /\ ~sem[t]

\* WorkHoldsSlots, of one turn.
Working(t) == \A a \in Acts : act[t][a] = "working" /\ ~stopped[t] /\ ~ended[t] => gate[t] /\ sem[t]

\* A turn that runs and counts its gate slot as given back is not in the gate,
\* and one that is over has given it back, unless a release is in doubt.
Gated(t) == /\ Live(t) /\ ~gate[t] /\ Holder(t) \in holders => t \in unsure
            /\ phase[t] = "over" /\ gate[t] => t \in unsure

TurnInv(t) == Fresh(t) /\ Ending(t) /\ Locked(t) /\ Working(t) /\ Gated(t)

\* The slots w's turns hold, counted with the free ones, are all there are.
Held(w) == {t \in Turns : sem[t] /\ home[t] = w}
CountInv ==
  \A w \in Workers : IsFiniteSet(Held(w)) /\ free[w] + Cardinality(Held(w)) = MaxConcurrent

IInv == TypeOK /\ LoopInv /\ (\A t \in Turns : TurnInv(t)) /\ CountInv

(* ------------------------------- frames -------------------------------- *)

\* A step that touches the record of turn t only: the other turns keep theirs,
\* and no holder of theirs appears in the gate.
Local(t) ==
  \A u \in Turns \ {t} :
    /\ phase'[u] = phase[u] /\ home'[u] = home[u] /\ act'[u] = act[u]
    /\ lock'[u] = lock[u] /\ step'[u] = step[u] /\ gate'[u] = gate[u] /\ sem'[u] = sem[u]
    /\ ended'[u] = ended[u] /\ stopped'[u] = stopped[u]
    /\ Holder(u)' = Holder(u) /\ (Holder(u) \in holders' => Holder(u) \in holders)
    /\ u \in unsure => u \in unsure'

(* The other turns' invariants survive a local step. *)
LEMMA LocalStep ==
  ASSUME NEW t \in Turns, Local(t), \A u \in Turns : TurnInv(u), TurnInv(t)'
  PROVE  \A u \in Turns : TurnInv(u)'
<1> SUFFICES ASSUME NEW u \in Turns, u /= t PROVE TurnInv(u)'
  OBVIOUS
<1>1. /\ phase'[u] = phase[u] /\ home'[u] = home[u] /\ act'[u] = act[u]
      /\ lock'[u] = lock[u] /\ step'[u] = step[u] /\ gate'[u] = gate[u] /\ sem'[u] = sem[u]
      /\ ended'[u] = ended[u] /\ stopped'[u] = stopped[u]
      /\ Holder(u)' = Holder(u) /\ (Holder(u) \in holders' => Holder(u) \in holders)
      /\ u \in unsure => u \in unsure'
  BY DEF Local
<1>2. TurnInv(u)
  OBVIOUS
<1>3. Fresh(u)' BY <1>1, <1>2 DEF TurnInv, Fresh, Live
<1>4. Ending(u)' BY <1>1, <1>2 DEF TurnInv, Ending
<1>5. Locked(u)' BY <1>1, <1>2 DEF TurnInv, Locked
<1>6. Working(u)' BY <1>1, <1>2 DEF TurnInv, Working
<1>7. Gated(u)' BY <1>1, <1>2 DEF TurnInv, Gated, Live
<1> QED BY <1>3, <1>4, <1>5, <1>6, <1>7 DEF TurnInv

(* A loop keeps its turn when no turn that is taken leaves it. *)
LEMMA LoopKept ==
  ASSUME LoopInv, UNCHANGED <<loop, at>>,
         \A u \in Turns : phase[u] = "taken" => phase'[u] = "taken"
  PROVE  LoopInv'
BY DEF LoopInv

(* One activity moves, and the others stay where they are. *)
LEMMA ActMoves ==
  ASSUME act \in [Turns -> [Acts -> ActStates]], NEW t \in Turns, NEW a \in Acts,
         NEW s \in ActStates, Becomes(t, a, s)
  PROVE  /\ act' \in [Turns -> [Acts -> ActStates]]
         /\ act'[t][a] = s
         /\ \A b \in Acts : b /= a => act'[t][b] = act[t][b]
         /\ \A u \in Turns : u /= t => act'[u] = act[u]
BY DEF Becomes

\* What one step of activity a does to the activities.
Moved(t, a) == /\ act' \in [Turns -> [Acts -> ActStates]]
               /\ \A b \in Acts : b /= a => act'[t][b] = act[t][b]
               /\ \A u \in Turns : u /= t => act'[u] = act[u]

(* An activity that settles after a take works. *)
LEMMA SettledTake ==
  ASSUME act \in [Turns -> [Acts -> ActStates]], NEW t \in Turns, NEW a \in Acts,
         act[t][a] \in Taking, Settled(t, a)
  PROVE  Moved(t, a) /\ act'[t][a] = "working"
<1>1. Becomes(t, a, "working") /\ "working" \in ActStates
  <2>1. act[t][a] \notin {"joining", "pausing", "leaving"}
    BY DEF Taking
  <2> QED BY <2>1 DEF Settled, ActStates, Counted
<1> QED BY <1>1, ActMoves DEF Moved

(* One that settles after it gave back does not. *)
LEMMA SettledGive ==
  ASSUME act \in [Turns -> [Acts -> ActStates]], NEW t \in Turns, NEW a \in Acts,
         act[t][a] \in Giving, Settled(t, a)
  PROVE  Moved(t, a) /\ act'[t][a] \in {"joined", "waiting", "done"}
<1>1. {"joined", "waiting", "done"} \subseteq ActStates /\ Giving \cap Taking = {}
  BY DEF ActStates, Counted, Giving, Taking
<1>2. CASE act[t][a] = "joining"
  <2>1. Becomes(t, a, "joined") BY <1>1, <1>2 DEF Settled
  <2> QED BY <1>1, <2>1, ActMoves DEF Moved
<1>3. CASE act[t][a] = "pausing"
  <2>1. Becomes(t, a, "waiting") BY <1>1, <1>3 DEF Settled
  <2> QED BY <1>1, <2>1, ActMoves DEF Moved
<1>4. CASE act[t][a] = "leaving"
  <2>1. Becomes(t, a, "done") BY <1>1, <1>4 DEF Settled
  <2> QED BY <1>1, <2>1, ActMoves DEF Moved
<1> QED BY <1>2, <1>3, <1>4 DEF Giving

(* A mishap that happens is counted. *)
LEMMA UseTyped ==
  ASSUME TypeOK, NEW i \in Mishaps, Use(i)
  PROVE  met' \subseteq Mishaps /\ left' \in [Mishaps -> Nat]
BY DEF TypeOK, Use

(* -------------------------- counting the slots ------------------------- *)

(* Nothing moves. *)
LEMMA CountSame ==
  ASSUME CountInv, UNCHANGED <<sem, home, free>>
  PROVE  CountInv'
<1>1. \A w : Held(w)' = Held(w)
  BY DEF Held
<1> QED BY <1>1 DEF CountInv

(* A turn gives back the slot it holds, or had none to give. *)
LEMMA CountReleased ==
  ASSUME TypeOK, CountInv, NEW t \in Turns, home[t] \in Workers, ReleaseSem(t), UNCHANGED home
  PROVE  CountInv' /\ free' \in [Workers -> Nat] /\ sem' \in [Turns -> BOOLEAN]
<1>1. CASE sem[t]
  <2>0. PICK h \in Workers : h = home[t]
    OBVIOUS
  <2>1. free' = [free EXCEPT ![h] = @ + 1] /\ sem' = [sem EXCEPT ![t] = FALSE]
    BY <1>1, <2>0 DEF ReleaseSem, SetSem
  <2>2. Held(h)' = Held(h) \ {t} /\ t \in Held(h)
    BY <1>1, <2>0, <2>1 DEF Held, TypeOK
  <2>3. \A w \in Workers : w /= h => Held(w)' = Held(w)
    BY <1>1, <2>0, <2>1 DEF Held, TypeOK
  <2>4. IsFiniteSet(Held(h)) /\ free[h] + Cardinality(Held(h)) = MaxConcurrent
    BY <2>1 DEF CountInv
  <2>5. /\ IsFiniteSet(Held(h) \ {t}) /\ Cardinality(Held(h)) \in Nat
        /\ Cardinality(Held(h) \ {t}) = Cardinality(Held(h)) - 1
    BY <2>2, <2>4, FS_RemoveElement, FS_CardinalityType
  <2>6. /\ free' \in [Workers -> Nat] /\ free'[h] = free[h] + 1 /\ free[h] \in Nat
        /\ \A w \in Workers : w /= h => free'[w] = free[w]
    BY <2>1 DEF TypeOK
  <2>7. free'[h] + Cardinality(Held(h)') = MaxConcurrent
    BY <2>2, <2>4, <2>5, <2>6, CapacityAssumption
  <2>8. sem' \in [Turns -> BOOLEAN]
    BY <2>1 DEF TypeOK
  <2>9. ASSUME NEW w \in Workers
        PROVE  IsFiniteSet(Held(w)') /\ free'[w] + Cardinality(Held(w)') = MaxConcurrent
    <3>1. CASE w = h BY <3>1, <2>2, <2>5, <2>7
    <3>2. CASE w /= h BY <3>2, <2>3, <2>6 DEF CountInv
    <3> QED BY <3>1, <3>2
  <2> QED BY <2>6, <2>8, <2>9 DEF CountInv
<1>2. CASE ~sem[t]
  <2>1. free' = free /\ sem' = sem
    BY <1>2 DEF ReleaseSem, SetSem, TypeOK
  <2> QED BY <2>1, CountSame DEF TypeOK
<1> QED BY <1>1, <1>2

(* A turn that has none takes a slot of the worker that runs it. *)
LEMMA CountTaken ==
  ASSUME TypeOK, CountInv, NEW t \in Turns, NEW h \in Workers, ~sem[t],
         home'[t] = h, \A u \in Turns : u /= t => home'[u] = home[u],
         free[h] > 0, free' = [free EXCEPT ![h] = @ - 1], SetSem(t, TRUE)
  PROVE  CountInv' /\ free' \in [Workers -> Nat] /\ sem' \in [Turns -> BOOLEAN]
<1>1. sem' = [sem EXCEPT ![t] = TRUE]
  BY DEF SetSem
<1>2. Held(h)' = Held(h) \cup {t} /\ t \notin Held(h)
  BY <1>1 DEF Held, TypeOK
<1>3. \A w \in Workers : w /= h => Held(w)' = Held(w)
  BY <1>1 DEF Held, TypeOK
<1>4. IsFiniteSet(Held(h)) /\ free[h] + Cardinality(Held(h)) = MaxConcurrent
  BY DEF CountInv
<1>5. /\ IsFiniteSet(Held(h) \cup {t}) /\ Cardinality(Held(h)) \in Nat
      /\ Cardinality(Held(h) \cup {t}) = Cardinality(Held(h)) + 1
  BY <1>2, <1>4, FS_AddElement, FS_CardinalityType
<1>6. /\ free' \in [Workers -> Nat] /\ free'[h] = free[h] - 1 /\ free[h] \in Nat
      /\ \A w \in Workers : w /= h => free'[w] = free[w]
  BY DEF TypeOK
<1>7. free'[h] + Cardinality(Held(h)') = MaxConcurrent
  BY <1>2, <1>4, <1>5, <1>6, CapacityAssumption
<1>8. sem' \in [Turns -> BOOLEAN]
  BY <1>1 DEF TypeOK
<1>9. ASSUME NEW w \in Workers
      PROVE  IsFiniteSet(Held(w)') /\ free'[w] + Cardinality(Held(w)') = MaxConcurrent
  <2>1. CASE w = h BY <2>1, <1>2, <1>5, <1>7
  <2>2. CASE w /= h BY <2>2, <1>3, <1>6 DEF CountInv
  <2> QED BY <2>1, <2>2
<1> QED BY <1>6, <1>8, <1>9 DEF CountInv

(* ------------------------ the steps of a turn -------------------------- *)

(* An activity that is inside or before its critical section, or at work, is a
   live turn's. *)
LEMMA Alive ==
  ASSUME IInv, NEW t \in Turns, NEW a \in Acts, act[t][a] /= "idle"
  PROVE  Live(t) /\ home[t] \in Workers /\ TurnInv(t)
BY DEF IInv, TurnInv, Fresh

(* _give_back_if_all_waiting, up to its await. *)
LEMMA GiveStep ==
  ASSUME IInv, NEW t \in Turns, NEW a \in Acts, Give(t, a)
  PROVE  IInv'
<1>1. /\ act[t][a] \in Giving /\ lock[t] = NoOne /\ TypeOK /\ LoopInv /\ CountInv
      /\ UNCHANGED <<phase, home, loop, at, attempt, holders, gate, ended, stopped, cut, unsure, met, left>>
  BY DEF Give, IInv, dispatch, mishaps
<1>2. Live(t) /\ home[t] \in Workers /\ TurnInv(t)
  BY <1>1, Alive DEF Giving
<1>3. CASE ~AllWaiting(t)
  <2>1. Settled(t, a) /\ UNCHANGED <<lock, step, sem, free>>
    BY <1>3 DEF Give
  <2>2. Moved(t, a) /\ act'[t][a] \in {"joined", "waiting", "done"}
    BY <1>1, <2>1, SettledGive DEF TypeOK
  <2>4. TypeOK' BY <1>1, <2>1, <2>2 DEF TypeOK, Moved
  <2>5. Local(t) BY <1>1, <2>1, <2>2 DEF Local, Holder, Moved
  <2>6. TurnInv(t)'
    <3>1. Fresh(t)' /\ Ending(t)' /\ Working(t)' /\ Gated(t)'
      BY <1>1, <1>2, <2>1, <2>2 DEF TurnInv, Fresh, Ending, Working, Gated, Live, Holder, Moved
    <3>2. Locked(t)'
      BY <1>1, <2>1, NamesAssumption DEF Locked, Acts, Main, NoOne, End
    <3> QED BY <3>1, <3>2 DEF TurnInv
  <2> QED BY <1>1, <2>1, <2>4, <2>5, <2>6, LocalStep, LoopKept, CountSame DEF IInv
<1>4. CASE AllWaiting(t)
  <2>1. /\ ReleaseSem(t)
        /\ IF gate[t] THEN Lock(t, a, "gate") /\ UNCHANGED act
                      ELSE Settled(t, a) /\ UNCHANGED <<lock, step>>
    BY <1>4 DEF Give
  <2>2. CountInv' /\ free' \in [Workers -> Nat] /\ sem' \in [Turns -> BOOLEAN]
    BY <1>1, <1>2, <2>1, CountReleased
  <2>3. sem'[t] = FALSE /\ \A u \in Turns : u /= t => sem'[u] = sem[u]
    BY <1>1, <2>1 DEF ReleaseSem, SetSem, TypeOK
  <2>4. \A b \in Acts : act[t][b] /= "working"
    BY <1>4 DEF AllWaiting, Active, Waiting, Counted
  <2>5. /\ act' \in [Turns -> [Acts -> ActStates]]
        /\ \A b \in Acts : act'[t][b] /= "working"
        /\ \A u \in Turns : u /= t => act'[u] = act[u]
        /\ lock'[t] = NoOne \/ (gate[t] /\ lock'[t] = a /\ act'[t][a] \in Giving)
        /\ lock' \in [Turns -> Acts \cup {End, NoOne}] /\ step' \in [Turns -> {"none", "gate", "sem"}]
        /\ \A u \in Turns : u /= t => lock'[u] = lock[u] /\ step'[u] = step[u]
    <3>1. CASE gate[t]
      <4>1. Lock(t, a, "gate") /\ UNCHANGED act
        BY <2>1, <3>1
      <4> QED BY <1>1, <2>4, <3>1, <4>1 DEF Lock, TypeOK
    <3>2. CASE ~gate[t]
      <4>1. Settled(t, a) /\ UNCHANGED <<lock, step>>
        BY <2>1, <3>2
      <4>2. Moved(t, a) /\ act'[t][a] \in {"joined", "waiting", "done"}
        BY <1>1, <4>1, SettledGive DEF TypeOK
      <4> QED BY <1>1, <2>4, <4>1, <4>2 DEF TypeOK, Moved
    <3> QED BY <3>1, <3>2
  <2>6. TypeOK' BY <1>1, <2>2, <2>5 DEF TypeOK
  <2>7. Local(t) BY <1>1, <2>3, <2>5 DEF Local, Holder
  <2>8. TurnInv(t)'
    <3>1. Fresh(t)' /\ Ending(t)' /\ Working(t)' /\ Gated(t)'
      BY <1>1, <1>2, <2>3, <2>5 DEF TurnInv, Fresh, Ending, Working, Gated, Live, Holder
    <3>2. Locked(t)'
      BY <1>1, <2>3, <2>5, NamesAssumption DEF Locked, Acts, Main, NoOne, End, Taking, Giving
    <3> QED BY <3>1, <3>2 DEF TurnInv
  <2> QED BY <1>1, <2>2, <2>6, <2>7, <2>8, LocalStep, LoopKept DEF IInv
<1> QED BY <1>3, <1>4

(* gate.release answers, or fails. *)
LEMMA GiveGateStep ==
  ASSUME IInv, NEW t \in Turns, NEW a \in Acts, GiveGate(t, a)
  PROVE  IInv'
<1>1. /\ act[t][a] \in Giving /\ lock[t] = a /\ TypeOK /\ LoopInv /\ CountInv
      /\ UNCHANGED <<phase, home, loop, at, attempt, free, sem, ended, stopped, cut, unsure>>
      /\ Unlock(t) /\ Settled(t, a)
  BY DEF GiveGate, IInv, dispatch
<1>2. Live(t) /\ home[t] \in Workers /\ TurnInv(t)
  BY <1>1, Alive DEF Giving
<1>3. Moved(t, a) /\ act'[t][a] \in {"joined", "waiting", "done"}
  BY <1>1, SettledGive DEF TypeOK
<1>5. /\ holders' \subseteq holders /\ gate' \in [Turns -> BOOLEAN]
      /\ met' \subseteq Mishaps /\ left' \in [Mishaps -> Nat]
      /\ \A u \in Turns : u /= t => gate'[u] = gate[u]
      /\ gate'[t] = gate[t] \/ (~gate'[t] /\ Holder(t) \notin holders')
  <2>1. CASE holders' = holders \ {Holder(t)} /\ SetGate(t, FALSE) /\ UNCHANGED mishaps
    BY <1>1, <2>1 DEF SetGate, mishaps, TypeOK
  <2>2. CASE Use("fails") /\ holders' \in {holders, holders \ {Holder(t)}} /\ UNCHANGED gate
    <3>1. met' \subseteq Mishaps /\ left' \in [Mishaps -> Nat]
      BY <1>1, <2>2, UseTyped DEF Mishaps
    <3> QED BY <1>1, <2>2, <3>1 DEF TypeOK
  <2> QED BY <2>1, <2>2 DEF GiveGate
<1>6. /\ lock' \in [Turns -> Acts \cup {End, NoOne}] /\ step' \in [Turns -> {"none", "gate", "sem"}]
      /\ \A u \in Turns : u /= t => lock'[u] = lock[u] /\ step'[u] = step[u]
      /\ lock'[t] = NoOne
  BY <1>1 DEF Unlock, TypeOK
<1>7. TypeOK' BY <1>1, <1>3, <1>5, <1>6 DEF TypeOK, Moved
<1>8. Local(t) BY <1>1, <1>3, <1>5, <1>6 DEF Local, Holder, Moved
<1>9. TurnInv(t)'
  <2>1. ~sem[t] /\ (\A b \in Acts : act[t][b] = "working" => stopped[t] \/ ended[t])
    BY <1>1, <1>2 DEF TurnInv, Locked, Working
  <2>2. Fresh(t)' /\ Ending(t)' /\ Working(t)'
    BY <1>1, <1>2, <1>3, <2>1 DEF TurnInv, Fresh, Ending, Working, Live, Moved
  <2>3. Gated(t)'
    BY <1>1, <1>2, <1>5 DEF TurnInv, Gated, Live, Holder
  <2>4. Locked(t)'
    BY <1>6, NamesAssumption DEF Locked, Acts, Main, NoOne, End
  <2> QED BY <2>2, <2>3, <2>4 DEF TurnInv
<1> QED BY <1>1, <1>7, <1>8, <1>9, LocalStep, LoopKept, CountSame DEF IInv

(* _take_back, up to its first await. *)
LEMMA TakeStep ==
  ASSUME IInv, NEW t \in Turns, NEW a \in Acts, Take(t, a)
  PROVE  IInv'
<1>1. /\ act[t][a] \in Taking /\ lock[t] = NoOne /\ TypeOK /\ LoopInv /\ CountInv
      /\ UNCHANGED <<phase, home, loop, at, attempt, free, holders, gate, sem, ended, stopped, cut,
                     unsure, met, left>>
  BY DEF Take, IInv, dispatch, mishaps
<1>2. Live(t) /\ home[t] \in Workers /\ TurnInv(t)
  BY <1>1, Alive DEF Taking
<1>3. CASE Settled(t, a) /\ (ended[t] \/ (gate[t] /\ sem[t])) /\ UNCHANGED <<lock, step>>
  <2>1. Moved(t, a) /\ act'[t][a] = "working"
    BY <1>1, <1>3, SettledTake DEF TypeOK
  <2>3. TypeOK' BY <1>1, <1>3, <2>1 DEF TypeOK, Moved
  <2>4. Local(t) BY <1>1, <1>3, <2>1 DEF Local, Holder, Moved
  <2>5. TurnInv(t)'
    <3>1. Fresh(t)' /\ Ending(t)' /\ Working(t)' /\ Gated(t)'
      BY <1>1, <1>2, <1>3, <2>1 DEF TurnInv, Fresh, Ending, Working, Gated, Live, Holder, Moved
    <3>2. Locked(t)'
      BY <1>1, <1>3, NamesAssumption DEF Locked, Acts, Main, NoOne, End
    <3> QED BY <3>1, <3>2 DEF TurnInv
  <2> QED BY <1>1, <2>3, <2>4, <2>5, LocalStep, LoopKept, CountSame DEF IInv
<1>4. ASSUME NEW s \in {"gate", "sem"}, ~ended[t], s = "sem" => gate[t] /\ ~sem[t],
             Lock(t, a, s), UNCHANGED act
      PROVE  IInv'
  <2>1. /\ lock' \in [Turns -> Acts \cup {End, NoOne}] /\ step' \in [Turns -> {"none", "gate", "sem"}]
        /\ \A u \in Turns : u /= t => lock'[u] = lock[u] /\ step'[u] = step[u]
        /\ lock'[t] = a /\ step'[t] = s
    BY <1>1, <1>4 DEF Lock, TypeOK
  <2>2. TypeOK' BY <1>1, <1>4, <2>1 DEF TypeOK
  <2>3. Local(t) BY <1>1, <1>4, <2>1 DEF Local, Holder
  <2>4. TurnInv(t)'
    <3>1. Fresh(t)' /\ Ending(t)' /\ Working(t)' /\ Gated(t)'
      BY <1>1, <1>2, <1>4 DEF TurnInv, Fresh, Ending, Working, Gated, Live, Holder
    <3>2. Locked(t)'
      BY <1>1, <1>2, <1>4, <2>1, NamesAssumption
         DEF TurnInv, Ending, Live, Locked, Acts, Main, NoOne, End, Taking, Giving
    <3> QED BY <3>1, <3>2 DEF TurnInv
  <2> QED BY <1>1, <2>2, <2>3, <2>4, LocalStep, LoopKept, CountSame DEF IInv
<1> QED BY <1>3, <1>4 DEF Take

(* try_acquire answers, or fails. *)
LEMMA TakeGateStep ==
  ASSUME IInv, NEW t \in Turns, NEW a \in Acts, TakeGate(t, a)
  PROVE  IInv'
<1>1. /\ act[t][a] \in Taking /\ lock[t] = a /\ TypeOK /\ LoopInv /\ CountInv
      /\ UNCHANGED <<phase, home, loop, at, attempt, free, sem, ended, stopped, cut, unsure>>
      /\ IF sem[t] THEN Unlock(t) /\ Settled(t, a) ELSE Lock(t, a, "sem") /\ UNCHANGED act
  BY DEF TakeGate, IInv, dispatch
<1>2. Live(t) /\ home[t] \in Workers /\ TurnInv(t)
  BY <1>1, Alive DEF Taking
<1>3. /\ holders' \subseteq holders \cup {Holder(t)} /\ gate' \in [Turns -> BOOLEAN]
      /\ met' \subseteq Mishaps /\ left' \in [Mishaps -> Nat]
      /\ \A u \in Turns : u /= t => gate'[u] = gate[u]
      /\ gate'[t]
  <2>1. CASE holders' = holders \cup {Holder(t)} /\ UNCHANGED mishaps
    BY <1>1, <2>1 DEF TakeGate, SetGate, mishaps, TypeOK
  <2>2. CASE Use("fails") /\ holders' \in {holders, holders \cup {Holder(t)}}
    <3>1. met' \subseteq Mishaps /\ left' \in [Mishaps -> Nat]
      BY <1>1, <2>2, UseTyped DEF Mishaps
    <3> QED BY <1>1, <2>2, <3>1 DEF TakeGate, SetGate, TypeOK
  <2> QED BY <2>1, <2>2 DEF TakeGate
<1>4. /\ act' \in [Turns -> [Acts -> ActStates]]
      /\ \A b \in Acts : act'[t][b] = "working" => sem[t] \/ act[t][b] = "working"
      /\ \A u \in Turns : u /= t => act'[u] = act[u]
      /\ lock'[t] = NoOne \/ (~sem[t] /\ lock'[t] = a /\ act'[t][a] \in Taking)
      /\ lock' \in [Turns -> Acts \cup {End, NoOne}] /\ step' \in [Turns -> {"none", "gate", "sem"}]
      /\ \A u \in Turns : u /= t => lock'[u] = lock[u] /\ step'[u] = step[u]
  <2>1. CASE sem[t]
    <3>1. Moved(t, a) /\ act'[t][a] = "working"
      BY <1>1, <2>1, SettledTake DEF TypeOK
    <3> QED BY ZenonT(60), <1>1, <2>1, <3>1 DEF Unlock, TypeOK, Moved
  <2>2. CASE ~sem[t]
    BY <1>1, <2>2 DEF Lock, TypeOK
  <2> QED BY <2>1, <2>2
<1>5. TypeOK'
  <2>1. Holder(t) \in Turns \X Nat
    BY <1>1 DEF Holder, TypeOK
  <2> QED BY <1>1, <1>3, <1>4, <2>1 DEF TypeOK
<1>6. Local(t)
  BY <1>1, <1>3, <1>4 DEF Local, Holder
<1>7. TurnInv(t)'
  <2>1. Fresh(t)' /\ Ending(t)' /\ Working(t)'
    BY <1>1, <1>2, <1>3, <1>4 DEF TurnInv, Fresh, Ending, Working, Live
  <2>2. phase[t] /= "over"
    BY <1>1, <1>2 DEF TurnInv, Locked
  <2>3. Gated(t)' BY <1>1, <1>3, <2>2 DEF Gated, Live
  <2>4. Locked(t)'
    BY <1>1, <1>3, <1>4, <2>2, NamesAssumption DEF Locked, Acts, Main, NoOne, End, Taking, Giving
  <2> QED BY <2>1, <2>3, <2>4 DEF TurnInv
<1> QED BY <1>1, <1>5, <1>6, <1>7, LocalStep, LoopKept, CountSame DEF IInv

(* _acquire_semaphore. *)
LEMMA TakeSemStep ==
  ASSUME IInv, NEW t \in Turns, NEW a \in Acts, TakeSem(t, a)
  PROVE  IInv'
<1>1. /\ act[t][a] \in Taking /\ lock[t] = a /\ step[t] = "sem" /\ TypeOK /\ LoopInv /\ CountInv
      /\ UNCHANGED <<phase, home, loop, at, attempt, holders, gate, ended, stopped, cut,
                     unsure, met, left>>
      /\ Unlock(t) /\ Settled(t, a)
  BY DEF TakeSem, IInv, dispatch, mishaps
<1>2. Live(t) /\ home[t] \in Workers /\ TurnInv(t)
  BY <1>1, Alive DEF Taking
<1>3. Moved(t, a) /\ act'[t][a] = "working"
  BY <1>1, SettledTake DEF TypeOK
<1>5. gate[t] /\ ~sem[t] /\ phase[t] /= "over"
  BY <1>1, <1>2 DEF TurnInv, Locked
<1>6. /\ lock' \in [Turns -> Acts \cup {End, NoOne}] /\ step' \in [Turns -> {"none", "gate", "sem"}]
      /\ \A u \in Turns : u /= t => lock'[u] = lock[u] /\ step'[u] = step[u]
      /\ lock'[t] = NoOne
  BY <1>1 DEF Unlock, TypeOK
<1>7. /\ CountInv' /\ free' \in [Workers -> Nat] /\ sem' \in [Turns -> BOOLEAN]
      /\ \A u \in Turns : u /= t => sem'[u] = sem[u]
      /\ sem'[t] \/ stopped[t]
  <2>1. CASE /\ free[home[t]] > 0 /\ SetSem(t, TRUE)
             /\ free' = [free EXCEPT ![home[t]] = @ - 1]
    <3>1. PICK h \in Workers : h = home[t]
      BY <1>2
    <3>2. CountInv' /\ free' \in [Workers -> Nat] /\ sem' \in [Turns -> BOOLEAN]
      BY <1>1, <1>5, <2>1, <3>1, CountTaken
    <3> QED BY <1>1, <2>1, <3>2 DEF SetSem, TypeOK
  <2>2. CASE stopped[t] /\ UNCHANGED <<free, sem>>
    BY <1>1, <2>2, CountSame DEF TypeOK
  <2> QED BY <2>1, <2>2 DEF TakeSem
<1>8. TypeOK' BY <1>1, <1>3, <1>6, <1>7 DEF TypeOK, Moved
<1>9. Local(t) BY <1>1, <1>3, <1>6, <1>7 DEF Local, Holder, Moved
<1>10. TurnInv(t)'
  <2>1. Fresh(t)' /\ Ending(t)' /\ Working(t)' /\ Gated(t)'
    BY <1>1, <1>2, <1>3, <1>5, <1>7 DEF TurnInv, Fresh, Ending, Working, Gated, Live, Holder, Moved
  <2>2. Locked(t)'
    BY <1>6, NamesAssumption DEF Locked, Acts, Main, NoOne, End
  <2> QED BY <2>1, <2>2 DEF TurnInv
<1> QED BY <1>1, <1>7, <1>8, <1>9, <1>10, LocalStep, LoopKept DEF IInv

\* A step of activity a that leaves every slot, and the lock, to whoever has it.
Passes(t, a, s) ==
  /\ Becomes(t, a, s) /\ s \in ActStates \ {"working"} /\ act[t][a] \notin Taking \cup Giving
  /\ UNCHANGED <<home, loop, at, attempt, free, holders, lock, step, gate, sem, ended, stopped, cut,
                 unsure, met, left>>

(* Such a step of a live turn, whether or not it queues another turn on the way. *)
LEMMA PassStep ==
  ASSUME IInv, NEW t \in Turns, NEW a \in Acts, NEW s, Passes(t, a, s), Live(t),
         phase' \in [Turns -> Phases],
         \A u \in Turns : phase'[u] = phase[u] \/ (phase[u] = "new" /\ phase'[u] = "queued")
  PROVE  IInv'
<1>1. /\ TypeOK /\ LoopInv /\ CountInv /\ TurnInv(t) /\ act[t][a] \notin Taking \cup Giving
      /\ Moved(t, a) /\ act'[t][a] = s /\ s /= "working"
      /\ UNCHANGED <<home, loop, at, attempt, free, holders, lock, step, gate, sem, ended, stopped,
                     cut, unsure, met, left>>
  BY ActMoves DEF IInv, Passes, Moved, TypeOK
<1>2. TypeOK' BY <1>1 DEF TypeOK, Moved
<1>3. phase'[t] = phase[t] BY DEF Live
<1>4. TurnInv(t)'
  <2>1. Fresh(t)' /\ Ending(t)' /\ Working(t)' /\ Gated(t)'
    BY <1>1, <1>3 DEF TurnInv, Fresh, Ending, Working, Gated, Live, Holder, Moved
  <2>2. Locked(t)'
    BY <1>1, <1>3 DEF TurnInv, Locked, Moved
  <2> QED BY <2>1, <2>2 DEF TurnInv
<1>5. ASSUME NEW u \in Turns PROVE TurnInv(u)'
  <2>1. CASE u = t BY <1>4, <2>1
  <2>2. CASE u /= t
    <3>1. TurnInv(u) BY DEF IInv
    <3>2. /\ phase'[u] = phase[u] \/ (phase[u] = "new" /\ phase'[u] = "queued")
          /\ act'[u] = act[u]
      BY <1>1, <2>2 DEF Moved
    <3>3. Fresh(u)' /\ Ending(u)' /\ Working(u)' /\ Gated(u)'
      BY <1>1, <3>1, <3>2 DEF TurnInv, Fresh, Ending, Working, Gated, Live, Holder
    <3>4. Locked(u)'
      BY <1>1, <3>1, <3>2 DEF TurnInv, Locked
    <3> QED BY <3>3, <3>4 DEF TurnInv
  <2> QED BY <2>1, <2>2
<1>6. LoopInv' BY <1>1, LoopKept
<1> QED BY <1>1, <1>2, <1>5, <1>6, CountSame DEF IInv

(* The steps of a turn that settle no slot: its calls start, finish, wait and are
   answered; its loop joins them, rejoins, and finishes. *)
LEMMA GoesStep ==
  ASSUME IInv, NEW t \in Turns,
         \/ Join(t) \/ Rejoin(t) \/ Finish(t)
         \/ \E c \in Calls : Call(t, c)
  PROVE  IInv'
<1>0. TypeOK /\ TurnInv(t) /\ Main \in Acts /\ Calls \subseteq Acts
  BY DEF IInv, Acts
<1>1. ASSUME NEW a \in Acts, NEW s \in ActStates \ {"working"}, Goes(t, a, s),
             act[t][a] \notin Taking \cup Giving, Live(t)
      PROVE  IInv'
  <2>1. Passes(t, a, s) /\ phase' = phase
    BY <1>1 DEF Goes, Passes, dispatch, mishaps
  <2> QED BY <1>0, <1>1, <2>1, PassStep DEF TypeOK
<1>2. {"entering", "joining", "rejoining", "leaving", "resuming", "pausing"} \subseteq ActStates \ {"working"}
  BY DEF ActStates, Taking, Giving
<1>3. \A a \in Acts : act[t][a] \in {"working", "joined", "waiting"} =>
                        act[t][a] \notin Taking \cup Giving /\ Live(t)
  <2> SUFFICES ASSUME NEW a \in Acts, act[t][a] \in {"working", "joined", "waiting"}
               PROVE  act[t][a] \notin Taking \cup Giving /\ Live(t)
    OBVIOUS
  <2>1. Live(t) BY Alive
  <2> QED BY <2>1 DEF Taking, Giving
<1>4. CASE Join(t) BY <1>0, <1>1, <1>2, <1>3, <1>4 DEF Join
<1>5. CASE Rejoin(t) BY <1>0, <1>1, <1>2, <1>3, <1>5 DEF Rejoin
<1>6. CASE Finish(t) BY <1>0, <1>1, <1>2, <1>3, <1>6 DEF Finish
<1>7. ASSUME NEW c \in Calls, Call(t, c) PROVE IInv'
  <2>0. c \in Acts BY <1>0
  <2>1. CASE StartCall(t, c)
    <3>1. Live(t) /\ act[t][c] \notin Taking \cup Giving
      BY <2>1 DEF StartCall, Live, Taking, Giving
    <3> QED BY <1>1, <1>2, <2>0, <2>1, <3>1 DEF StartCall
  <2>2. CASE FinishCall(t, c) BY <1>1, <1>2, <1>3, <2>0, <2>2 DEF FinishCall
  <2>3. CASE Answered(t, c) BY <1>1, <1>2, <1>3, <2>0, <2>3 DEF Answered
  <2>4. CASE Wait(t, c)
    <3>1. Passes(t, c, "pausing") /\ Live(t)
      BY <1>2, <1>3, <2>0, <2>4 DEF Wait, Passes, mishaps
    <3>2. /\ phase' \in [Turns -> Phases]
          /\ \A u \in Turns : phase'[u] = phase[u] \/ (phase[u] = "new" /\ phase'[u] = "queued")
      <4>1. CASE Child[t] \in Turns /\ phase[Child[t]] = "new"
        BY <1>0, <2>4, <4>1 DEF Wait, TypeOK, Phases
      <4>2. CASE ~(Child[t] \in Turns /\ phase[Child[t]] = "new")
        BY <1>0, <2>4, <4>2 DEF Wait, TypeOK
      <4> QED BY <4>1, <4>2
    <3> QED BY <2>0, <3>1, <3>2, PassStep
  <2> QED BY <1>7, <2>1, <2>2, <2>3, <2>4 DEF Call
<1> QED BY <1>4, <1>5, <1>6, <1>7

(* An activity is cancelled where it stands. *)
LEMMA CancelledStep ==
  ASSUME IInv, NEW t \in Turns, NEW a \in Acts, Cancelled(t, a)
  PROVE  IInv'
<1>1. /\ act[t][a] \notin {"idle", "done"} /\ TypeOK /\ LoopInv /\ CountInv
      /\ UNCHANGED <<phase, home, loop, at, attempt, free, sem, ended, stopped, cut, met, left>>
      /\ lock[t] = a => Unlock(t)
      /\ lock[t] /= a => UNCHANGED <<lock, step>>
  BY DEF Cancelled, IInv, dispatch, mishaps
<1>2. Live(t) /\ home[t] \in Workers /\ TurnInv(t)
  BY <1>1, Alive
<1>3. Moved(t, a) /\ act'[t][a] \in {"done", "leaving"}
  <2>1. PICK s \in {"done", "leaving"} : Becomes(t, a, s)
    BY DEF Cancelled
  <2>2. s \in ActStates
    BY DEF ActStates, Giving
  <2> QED BY <1>1, <2>1, <2>2, ActMoves DEF Moved, TypeOK
<1>4. /\ lock' \in [Turns -> Acts \cup {End, NoOne}] /\ step' \in [Turns -> {"none", "gate", "sem"}]
      /\ \A u \in Turns : u /= t => lock'[u] = lock[u] /\ step'[u] = step[u]
      /\ lock[t] = a => lock'[t] = NoOne
      /\ lock[t] /= a => lock'[t] = lock[t] /\ step'[t] = step[t]
  BY <1>1 DEF Unlock, TypeOK
<1>5. CASE ~(lock[t] = a /\ step[t] = "gate")
  <2>1. UNCHANGED <<holders, gate, unsure>>
    BY <1>5 DEF Cancelled
  <2>2. TypeOK' BY <1>1, <1>3, <1>4, <2>1 DEF TypeOK, Moved
  <2>3. Local(t) BY <1>1, <1>3, <1>4, <2>1 DEF Local, Holder, Moved
  <2>4. TurnInv(t)'
    <3>1. Fresh(t)' /\ Ending(t)' /\ Working(t)' /\ Gated(t)'
      BY <1>1, <1>2, <1>3, <2>1 DEF TurnInv, Fresh, Ending, Working, Gated, Live, Holder, Moved
    <3>2. Locked(t)'
      BY ZenonT(60), <1>1, <1>2, <1>3, <1>4, <2>1, NamesAssumption
         DEF TurnInv, Locked, Moved, Acts, Main, NoOne, End
    <3> QED BY <3>1, <3>2 DEF TurnInv
  <2> QED BY <1>1, <2>2, <2>3, <2>4, LocalStep, LoopKept, CountSame DEF IInv
<1>6. CASE lock[t] = a /\ step[t] = "gate" /\ act[t][a] \in Taking
  <2>1. /\ holders' \in {holders, holders \cup {Holder(t)}} /\ SetGate(t, TRUE)
        /\ UNCHANGED unsure
    BY <1>6 DEF Cancelled
  <2>2. /\ gate' \in [Turns -> BOOLEAN] /\ gate'[t] /\ \A u \in Turns : u /= t => gate'[u] = gate[u]
        /\ Holder(t) \in Turns \X Nat
    BY <1>1, <2>1 DEF SetGate, TypeOK, Holder
  <2>3. TypeOK' BY <1>1, <1>3, <1>4, <2>1, <2>2 DEF TypeOK, Moved
  <2>4. Local(t) BY <1>1, <1>3, <1>4, <2>1, <2>2 DEF Local, Holder, Moved
  <2>5. TurnInv(t)'
    <3>1. Fresh(t)' /\ Ending(t)' /\ Working(t)'
      BY <1>1, <1>2, <1>3, <2>2 DEF TurnInv, Fresh, Ending, Working, Live, Moved
    <3>2. Gated(t)'
      BY <1>1, <1>2, <1>6, <2>2 DEF TurnInv, Gated, Locked
    <3>3. Locked(t)'
      BY <1>4, <1>6, NamesAssumption DEF Locked, Acts, Main, NoOne, End
    <3> QED BY <3>1, <3>2, <3>3 DEF TurnInv
  <2> QED BY <1>1, <2>3, <2>4, <2>5, LocalStep, LoopKept, CountSame DEF IInv
<1>7. CASE lock[t] = a /\ step[t] = "gate" /\ act[t][a] \notin Taking
  <2>1. /\ holders' \in {holders, holders \ {Holder(t)}} /\ SetGate(t, FALSE)
        /\ unsure' = unsure \cup {t}
    BY <1>7 DEF Cancelled
  <2>2. /\ gate' \in [Turns -> BOOLEAN] /\ ~gate'[t] /\ \A u \in Turns : u /= t => gate'[u] = gate[u]
        /\ holders' \subseteq holders
    BY <1>1, <2>1 DEF SetGate, TypeOK
  <2>3. TypeOK' BY <1>1, <1>3, <1>4, <2>1, <2>2 DEF TypeOK, Moved
  <2>4. Local(t) BY <1>1, <1>3, <1>4, <2>1, <2>2 DEF Local, Holder, Moved
  <2>5. ~sem[t] /\ (\A b \in Acts : act[t][b] = "working" => stopped[t] \/ ended[t])
    BY <1>2, <1>7 DEF TurnInv, Locked, Working
  <2>6. TurnInv(t)'
    <3>1. Fresh(t)' /\ Ending(t)' /\ Working(t)' /\ Gated(t)'
      BY <1>1, <1>2, <1>3, <2>1, <2>2, <2>5 DEF TurnInv, Fresh, Ending, Working, Gated, Live, Moved
    <3>2. Locked(t)'
      BY <1>4, <1>7, NamesAssumption DEF Locked, Acts, Main, NoOne, End
    <3> QED BY <3>1, <3>2 DEF TurnInv
  <2> QED BY <1>1, <2>3, <2>4, <2>6, LocalStep, LoopKept, CountSame DEF IInv
<1> QED BY <1>5, <1>6, <1>7

(* ---------------- interrupts, the end, and recovery -------------------- *)

(* An interrupt, a detach, and the first half of release_owned: flags go up. *)
LEMMA FlagStep ==
  ASSUME IInv, NEW t \in Turns, Interrupt(t) \/ Detach(t) \/ EndTurn(t)
  PROVE  IInv'
<1>1. /\ TypeOK /\ LoopInv /\ CountInv /\ TurnInv(t) /\ phase[t] = "running"
      /\ UNCHANGED <<home, loop, at, attempt, free, holders, act, lock, step, gate, sem, unsure>>
  BY DEF IInv, Interrupt, Detach, EndTurn, dispatch
<1>2. /\ phase' \in [Turns -> Phases] /\ phase'[t] \in {"running", "ending"}
      /\ \A u \in Turns : u /= t => phase'[u] = phase[u]
      /\ ended' \in [Turns -> BOOLEAN] /\ stopped' \in [Turns -> BOOLEAN] /\ cut' \in [Turns -> BOOLEAN]
      /\ \A u \in Turns : u /= t => ended'[u] = ended[u] /\ stopped'[u] = stopped[u]
      /\ (ended[t] => ended'[t]) /\ (stopped[t] => stopped'[t])
      /\ phase'[t] = "ending" => ended'[t]
  <2>1. CASE Interrupt(t) BY <1>1, <2>1 DEF Interrupt, TypeOK, dispatch
  <2>2. CASE Detach(t) BY <1>1, <2>2 DEF Detach, TypeOK, dispatch
  <2>3. CASE EndTurn(t) BY <1>1, <2>3 DEF EndTurn, TypeOK, Phases
  <2> QED BY <2>1, <2>2, <2>3
<1>3. met' \subseteq Mishaps /\ left' \in [Mishaps -> Nat]
  <2>1. CASE Interrupt(t) BY <1>1, <2>1, UseTyped DEF Interrupt, Mishaps
  <2>2. CASE Detach(t) BY <1>1, <2>2, UseTyped DEF Detach, Mishaps
  <2>3. CASE EndTurn(t) BY <1>1, <2>3 DEF EndTurn, TypeOK, mishaps
  <2> QED BY <2>1, <2>2, <2>3
<1>4. TypeOK' BY <1>1, <1>2, <1>3 DEF TypeOK
<1>5. Local(t) BY <1>1, <1>2 DEF Local, Holder
<1>6. TurnInv(t)'
  <2>1. Fresh(t)' /\ Ending(t)' /\ Working(t)' /\ Gated(t)'
    BY <1>1, <1>2 DEF TurnInv, Fresh, Ending, Working, Gated, Live, Holder
  <2>2. Locked(t)' BY <1>1, <1>2 DEF TurnInv, Locked
  <2> QED BY <2>1, <2>2 DEF TurnInv
<1>7. LoopInv' BY <1>1, <1>2, LoopKept
<1> QED BY <1>1, <1>4, <1>5, <1>6, <1>7, LocalStep, CountSame DEF IInv

(* release_owned gives back the semaphore, and goes on to the gate. *)
LEMMA EndGiveStep ==
  ASSUME IInv, NEW t \in Turns, EndGive(t)
  PROVE  IInv'
<1>1. /\ TypeOK /\ LoopInv /\ CountInv /\ TurnInv(t) /\ phase[t] = "ending" /\ lock[t] = NoOne
      /\ UNCHANGED <<home, loop, at, attempt, holders, act, gate, ended, stopped, cut, unsure, met, left>>
      /\ ReleaseSem(t)
  BY DEF IInv, EndGive, mishaps
<1>2. home[t] \in Workers /\ ended[t]
  BY <1>1 DEF TurnInv, Fresh, Ending, Live
<1>3. CountInv' /\ free' \in [Workers -> Nat] /\ sem' \in [Turns -> BOOLEAN]
  BY <1>1, <1>2, CountReleased
<1>4. ~sem'[t] /\ \A u \in Turns : u /= t => sem'[u] = sem[u]
  BY <1>1 DEF ReleaseSem, SetSem, TypeOK
<1>5. /\ phase' \in [Turns -> Phases] /\ \A u \in Turns : u /= t => phase'[u] = phase[u]
      /\ lock' \in [Turns -> Acts \cup {End, NoOne}] /\ step' \in [Turns -> {"none", "gate", "sem"}]
      /\ \A u \in Turns : u /= t => lock'[u] = lock[u] /\ step'[u] = step[u]
      /\ \/ gate[t] /\ lock'[t] = End /\ phase'[t] = "ending"
         \/ ~gate[t] /\ lock'[t] = NoOne /\ phase'[t] = "over"
  <2>1. CASE gate[t]
    BY ZenonT(60), <1>1, <2>1 DEF EndGive, Lock, TypeOK
  <2>2. CASE ~gate[t]
    BY <1>1, <2>2 DEF EndGive, TypeOK, Phases
  <2> QED BY <2>1, <2>2
<1>6. TypeOK' BY <1>1, <1>3, <1>5 DEF TypeOK
<1>7. Local(t) BY <1>1, <1>4, <1>5 DEF Local, Holder
<1>8. TurnInv(t)'
  <2>1. Fresh(t)' /\ Ending(t)' /\ Working(t)' /\ Gated(t)'
    BY <1>1, <1>2, <1>4, <1>5 DEF TurnInv, Fresh, Ending, Working, Gated, Live, Holder
  <2>2. Locked(t)'
    BY <1>4, <1>5, NamesAssumption DEF Locked, Acts, Main, NoOne, End
  <2> QED BY <2>1, <2>2 DEF TurnInv
<1>9. LoopInv' BY <1>1, <1>5, LoopKept
<1> QED BY <1>3, <1>6, <1>7, <1>8, <1>9, LocalStep DEF IInv

(* The gate answers release_owned, or does not. *)
LEMMA EndGateStep ==
  ASSUME IInv, NEW t \in Turns, EndGate(t)
  PROVE  IInv'
<1>1. /\ TypeOK /\ LoopInv /\ CountInv /\ TurnInv(t) /\ phase[t] = "ending" /\ lock[t] = End
      /\ UNCHANGED <<home, loop, at, attempt, free, act, sem, ended, stopped, cut>>
      /\ Unlock(t) /\ phase' = [phase EXCEPT ![t] = "over"]
  BY DEF IInv, EndGate
<1>2. home[t] \in Workers /\ ended[t] /\ ~sem[t]
  BY <1>1 DEF TurnInv, Fresh, Ending, Locked, Live
<1>3. /\ phase' \in [Turns -> Phases] /\ \A u \in Turns : u /= t => phase'[u] = phase[u]
      /\ lock' \in [Turns -> Acts \cup {End, NoOne}] /\ step' \in [Turns -> {"none", "gate", "sem"}]
      /\ \A u \in Turns : u /= t => lock'[u] = lock[u] /\ step'[u] = step[u]
      /\ lock'[t] = NoOne /\ phase'[t] = "over"
  BY <1>1 DEF Unlock, TypeOK, Phases
<1>4. /\ holders' \subseteq holders /\ gate' \in [Turns -> BOOLEAN]
      /\ met' \subseteq Mishaps /\ left' \in [Mishaps -> Nat]
      /\ \A u \in Turns : u /= t => gate'[u] = gate[u]
      /\ unsure \subseteq unsure' /\ unsure' \subseteq Turns
      /\ t \in unsure' \/ (~gate'[t] /\ Holder(t) \notin holders')
  <2>1. CASE /\ holders' = holders \ {Holder(t)} /\ SetGate(t, FALSE) /\ UNCHANGED <<unsure, mishaps>>
    BY <1>1, <2>1 DEF SetGate, mishaps, TypeOK
  <2>2. CASE /\ Use("fails") /\ holders' \in {holders, holders \ {Holder(t)}}
             /\ unsure' = unsure \cup {t} /\ UNCHANGED gate
    <3>1. met' \subseteq Mishaps /\ left' \in [Mishaps -> Nat]
      BY <1>1, <2>2, UseTyped DEF Mishaps
    <3> QED BY <1>1, <2>2, <3>1 DEF TypeOK
  <2> QED BY <2>1, <2>2 DEF EndGate
<1>5. TypeOK' BY <1>1, <1>3, <1>4 DEF TypeOK
<1>6. Local(t) BY <1>1, <1>3, <1>4 DEF Local, Holder
<1>7. TurnInv(t)'
  <2>1. Fresh(t)' /\ Ending(t)' /\ Working(t)' /\ Gated(t)'
    BY <1>1, <1>2, <1>3, <1>4 DEF Fresh, Ending, Working, Gated, Live, Holder
  <2>2. Locked(t)'
    BY <1>3, NamesAssumption DEF Locked, Acts, Main, NoOne, End
  <2> QED BY <2>1, <2>2 DEF TurnInv
<1>8. LoopInv' BY <1>1, <1>3, LoopKept
<1> QED BY <1>1, <1>5, <1>6, <1>7, <1>8, LocalStep, CountSame DEF IInv

(* A turn that no worker runs is queued again or uncounted, its record as empty as before. *)
LEMMA RecoverStep ==
  ASSUME IInv, NEW t \in Turns, Recover(t) \/ Resend(t) \/ LeaveWaiting(t)
  PROVE  IInv'
<1>1. /\ TypeOK /\ LoopInv /\ CountInv /\ TurnInv(t) /\ phase[t] \in {"lost", "queued", "taken"}
      /\ UNCHANGED <<home, loop, at, free, act, lock, step, gate, sem, ended, stopped, cut, unsure>>
      /\ holders' \subseteq holders
  BY DEF IInv, Recover, Resend, LeaveWaiting, record, dispatch
<1>2. /\ phase' \in [Turns -> Phases] /\ attempt' \in [Turns -> Nat]
      /\ \A u \in Turns : u /= t => phase'[u] = phase[u] /\ attempt'[u] = attempt[u]
      /\ phase'[t] \in {"queued", "taken"} /\ (phase[t] = "taken" => phase'[t] = "taken")
  <2>1. CASE Again(t) /\ phase[t] = "lost"
    BY <1>1, <2>1 DEF Again, PhaseTo, TypeOK, Phases
  <2>2. CASE UNCHANGED <<phase, attempt>> /\ phase[t] \in {"queued", "taken"}
    BY <1>1, <2>2 DEF TypeOK
  <2> QED BY <2>1, <2>2 DEF Recover, Resend, LeaveWaiting, dispatch
<1>3. met' \subseteq Mishaps /\ left' \in [Mishaps -> Nat]
  <2>1. CASE Use("fails") BY <1>1, <2>1, UseTyped DEF Mishaps
  <2>2. CASE UNCHANGED mishaps BY <1>1, <2>2 DEF TypeOK, mishaps
  <2> QED BY <2>1, <2>2 DEF Recover, Resend, LeaveWaiting
<1>4. TypeOK' BY <1>1, <1>2, <1>3 DEF TypeOK
<1>5. Local(t) BY <1>1, <1>2 DEF Local, Holder
<1>6. TurnInv(t)'
  <2>1. Fresh(t)' /\ Ending(t)' /\ Working(t)' /\ Gated(t)'
    BY <1>1, <1>2 DEF TurnInv, Fresh, Ending, Working, Gated, Live
  <2>2. Locked(t)' BY <1>1, <1>2 DEF TurnInv, Locked
  <2> QED BY <2>1, <2>2 DEF TurnInv
<1>7. LoopInv' BY <1>1, <1>2, LoopKept
<1> QED BY <1>1, <1>4, <1>5, <1>6, <1>7, LocalStep, CountSame DEF IInv

(* -------------------------- the dispatch loop -------------------------- *)

(* A turn outside any record moves between the queue and a loop: what every step
   of the dispatch loop before Dispatch does. *)
LEMMA QueueStep ==
  ASSUME IInv, NEW t \in Turns, phase[t] \in {"queued", "taken"},
         phase' \in [Turns -> Phases], phase'[t] \in {"queued", "taken", "lost"},
         \A u \in Turns : u /= t => phase'[u] = phase[u],
         holders' \subseteq holders \cup {Holder(t)},
         met' \subseteq Mishaps, left' \in [Mishaps -> Nat],
         loop' \in [Workers -> Turns \cup {NoTurn}],
         at' \in [Workers -> {"poll", "admit", "reject", "slot"}],
         UNCHANGED <<home, attempt, free, act, lock, step, gate, sem, ended, stopped, cut, unsure>>
  PROVE  TypeOK' /\ (\A u \in Turns : TurnInv(u)') /\ CountInv'
<1>1. TypeOK /\ TurnInv(t) /\ CountInv BY DEF IInv
<1>2. Holder(t) \in Turns \X Nat BY <1>1 DEF TypeOK, Holder
<1>3. TypeOK' BY <1>1, <1>2 DEF TypeOK
<1>4. Local(t) BY <1>1 DEF Local, Holder
<1>5. TurnInv(t)'
  <2>1. Fresh(t)' /\ Ending(t)' /\ Working(t)' /\ Gated(t)'
    BY <1>1 DEF TurnInv, Fresh, Ending, Working, Gated, Live
  <2>2. Locked(t)' BY <1>1 DEF TurnInv, Fresh, Live, Locked
  <2> QED BY <2>1, <2>2 DEF TurnInv
<1> QED BY <1>1, <1>3, <1>4, <1>5, LocalStep, CountSame DEF IInv

(* A loop takes a turn off the queue. *)
LEMMA PopStep ==
  ASSUME IInv, NEW w \in Workers, NEW t \in Turns, Pop(w, t)
  PROVE  IInv'
<1>1. /\ TypeOK /\ LoopInv /\ phase[t] = "queued" /\ at[w] = "poll"
      /\ UNCHANGED <<home, attempt, free, holders, act, lock, step, gate, sem, ended, stopped, cut,
                     unsure, met, left>>
      /\ phase' = [phase EXCEPT ![t] = "taken"]
      /\ loop' = [loop EXCEPT ![w] = t] /\ at' = [at EXCEPT ![w] = "admit"]
  BY DEF IInv, Pop, PhaseTo, LoopTo, record, mishaps
<1>2. /\ phase' \in [Turns -> Phases] /\ phase'[t] = "taken"
      /\ \A u \in Turns : u /= t => phase'[u] = phase[u]
      /\ loop' \in [Workers -> Turns \cup {NoTurn}]
      /\ at' \in [Workers -> {"poll", "admit", "reject", "slot"}]
      /\ met' \subseteq Mishaps /\ left' \in [Mishaps -> Nat]
  BY <1>1 DEF TypeOK, Phases
<1>3. TypeOK' /\ (\A u \in Turns : TurnInv(u)') /\ CountInv'
  BY <1>1, <1>2, QueueStep
<1>4. LoopInv'
  BY <1>1, <1>2 DEF LoopInv, TypeOK
<1> QED BY <1>3, <1>4 DEF IInv

(* The gate counts the turn: it stays the loop's. *)
LEMMA AdmitStep ==
  ASSUME IInv, NEW w \in Workers, Admit(w)
  PROVE  IInv'
<1>1. TypeOK /\ LoopInv /\ at[w] = "admit" BY DEF IInv, Admit
<1>2. PICK t \in Turns : t = loop[w] /\ phase[t] = "taken"
  BY <1>1 DEF LoopInv
<1>3. /\ UNCHANGED <<phase, home, attempt, free, act, lock, step, gate, sem, ended, stopped, cut,
                     unsure, met, left>>
      /\ holders' = holders \cup {Holder(t)}
  BY <1>2 DEF Admit, record, mishaps
<1>4. PICK p \in {"reject", "slot"} : loop' = [loop EXCEPT ![w] = t] /\ at' = [at EXCEPT ![w] = p]
  BY <1>2 DEF Admit, LoopTo
<1>5. /\ loop' \in [Workers -> Turns \cup {NoTurn}] /\ loop' = loop
      /\ at' \in [Workers -> {"poll", "admit", "reject", "slot"}]
      /\ \A v \in Workers : at'[v] = "poll" <=> at[v] = "poll"
      /\ phase' \in [Turns -> Phases] /\ phase'[t] = "taken"
      /\ met' \subseteq Mishaps /\ left' \in [Mishaps -> Nat]
  BY <1>1, <1>2, <1>3, <1>4 DEF TypeOK
<1>6. TypeOK' /\ (\A u \in Turns : TurnInv(u)') /\ CountInv'
  BY <1>2, <1>3, <1>5, QueueStep
<1>7. LoopInv'
  BY <1>1, <1>3, <1>5 DEF LoopInv
<1> QED BY <1>6, <1>7 DEF IInv

(* The loop lets go of its turn, whoever gets it next. *)
LEMMA LoopLeaves ==
  ASSUME TypeOK, LoopInv, NEW w \in Workers, NEW t \in Turns, t = loop[w], at[w] /= "poll",
         \A u \in Turns : u /= t => phase'[u] = phase[u], LoopTo(w, NoTurn, "poll")
  PROVE  LoopInv'
<1>1. /\ loop' = [loop EXCEPT ![w] = NoTurn] /\ at' = [at EXCEPT ![w] = "poll"]
      /\ loop'[w] = NoTurn /\ at'[w] = "poll"
      /\ \A v \in Workers : v /= w => loop'[v] = loop[v] /\ at'[v] = at[v]
  BY DEF LoopTo, TypeOK
<1>2. \A v \in Workers : v /= w /\ at[v] /= "poll" => loop[v] /= t
  BY DEF LoopInv
<1> QED BY <1>1, <1>2 DEF LoopInv

(* The gate refuses the turn, or raises. *)
LEMMA RejectStep ==
  ASSUME IInv, NEW w \in Workers, Reject(w) \/ PopLost(w)
  PROVE  IInv'
<1>1. TypeOK /\ LoopInv /\ at[w] /= "poll" /\ LoopTo(w, NoTurn, "poll")
  BY DEF IInv, Reject, PopLost
<1>2. PICK t \in Turns : t = loop[w] /\ phase[t] = "taken"
  BY <1>1 DEF LoopInv
<1>3. /\ UNCHANGED <<home, attempt, free, act, lock, step, gate, sem, ended, stopped, cut, unsure>>
      /\ holders' \subseteq holders \cup {Holder(t)}
      /\ PhaseTo(t, "queued") \/ PhaseTo(t, "lost")
  BY <1>2 DEF Reject, PopLost, record
<1>4. /\ phase' \in [Turns -> Phases] /\ phase'[t] \in {"queued", "taken", "lost"}
      /\ \A u \in Turns : u /= t => phase'[u] = phase[u]
      /\ loop' \in [Workers -> Turns \cup {NoTurn}]
      /\ at' \in [Workers -> {"poll", "admit", "reject", "slot"}]
  BY <1>1, <1>3 DEF TypeOK, PhaseTo, LoopTo, Phases
<1>5. met' \subseteq Mishaps /\ left' \in [Mishaps -> Nat]
  <2>1. CASE Use("fails") BY <1>1, <2>1, UseTyped DEF Mishaps
  <2>2. CASE UNCHANGED mishaps BY <1>1, <2>2 DEF TypeOK, mishaps
  <2> QED BY <2>1, <2>2 DEF Reject, PopLost
<1>6. TypeOK' /\ (\A u \in Turns : TurnInv(u)') /\ CountInv'
  BY <1>2, <1>3, <1>4, <1>5, QueueStep
<1>7. LoopInv'
  BY <1>1, <1>2, <1>4, LoopLeaves
<1> QED BY <1>6, <1>7 DEF IInv

(* The loop has a slot and starts the turn, which then owns both slots. *)
LEMMA DispatchStep ==
  ASSUME IInv, NEW w \in Workers, Dispatch(w)
  PROVE  IInv'
<1>1. /\ TypeOK /\ LoopInv /\ CountInv /\ at[w] = "slot" /\ free[w] > 0 /\ LoopTo(w, NoTurn, "poll")
      /\ free' = [free EXCEPT ![w] = @ - 1]
      /\ UNCHANGED <<attempt, holders, lock, step, ended, stopped, cut, unsure, met, left>>
  BY DEF IInv, Dispatch, mishaps
<1>2. PICK t \in Turns : t = loop[w] /\ phase[t] = "taken"
  BY <1>1 DEF LoopInv
<1>3. TurnInv(t) BY DEF IInv
<1>4. /\ phase' = [phase EXCEPT ![t] = "running"] /\ home' = [home EXCEPT ![t] = w]
      /\ act' = [act EXCEPT ![t] = [a \in Acts |-> IF a = Main THEN "entering" ELSE "idle"]]
      /\ SetGate(t, TRUE) /\ SetSem(t, TRUE)
  BY <1>2 DEF Dispatch, PhaseTo
<1>5. /\ phase' \in [Turns -> Phases] /\ phase'[t] = "running"
      /\ home' \in [Turns -> Workers \cup {NoOne}] /\ home'[t] = w
      /\ gate' \in [Turns -> BOOLEAN] /\ gate'[t] /\ sem' \in [Turns -> BOOLEAN] /\ sem'[t]
      /\ \A u \in Turns : u /= t => /\ phase'[u] = phase[u] /\ home'[u] = home[u]
                                    /\ gate'[u] = gate[u] /\ sem'[u] = sem[u]
      /\ loop' \in [Workers -> Turns \cup {NoTurn}]
      /\ at' \in [Workers -> {"poll", "admit", "reject", "slot"}]
  BY <1>1, <1>4 DEF TypeOK, SetGate, SetSem, LoopTo, Phases
<1>6. /\ act' \in [Turns -> [Acts -> ActStates]]
      /\ \A a \in Acts : act'[t][a] \in {"entering", "idle"}
      /\ \A u \in Turns : u /= t => act'[u] = act[u]
  BY <1>1, <1>4 DEF TypeOK, ActStates, Taking
<1>7. ~sem[t] /\ lock[t] = NoOne
  BY <1>2, <1>3 DEF TurnInv, Fresh, Live
<1>8. CountInv' /\ free' \in [Workers -> Nat]
  BY <1>1, <1>4, <1>5, <1>7, CountTaken
<1>9. TypeOK' BY <1>1, <1>5, <1>6, <1>8 DEF TypeOK
<1>10. Local(t) BY <1>1, <1>5, <1>6 DEF Local, Holder
<1>11. TurnInv(t)'
  <2>1. Fresh(t)' /\ Ending(t)' /\ Working(t)' /\ Gated(t)'
    BY <1>1, <1>5, <1>6 DEF Fresh, Ending, Working, Gated, Live
  <2>2. Locked(t)'
    BY <1>1, <1>7, NamesAssumption DEF Locked, Acts, Main, NoOne, End
  <2> QED BY <2>1, <2>2 DEF TurnInv
<1>12. LoopInv' BY <1>1, <1>2, <1>5, LoopLeaves
<1> QED BY <1>8, <1>9, <1>10, <1>11, <1>12, LocalStep DEF IInv

(* A worker dies with its turns: its records are empty and its semaphore is full. *)
LEMMA DieStep ==
  ASSUME IInv, NEW w \in Workers, Die(w)
  PROVE  IInv'
<1>1. /\ TypeOK /\ LoopInv /\ CountInv /\ Use("deaths") /\ LoopTo(w, NoTurn, "poll")
      /\ UNCHANGED <<home, attempt, holders, unsure>>
      /\ free' = [free EXCEPT ![w] = MaxConcurrent]
  BY DEF IInv, Die
<1>2. ASSUME NEW u \in Turns, Mine(w, u)
      PROVE  /\ phase'[u] = "lost" /\ lock'[u] = NoOne /\ ~gate'[u] /\ ~sem'[u]
             /\ \A a \in Acts : act'[u][a] = "idle"
  BY <1>2 DEF Die
<1>3. ASSUME NEW u \in Turns, ~Mine(w, u)
      PROVE  /\ phase'[u] = phase[u] /\ act'[u] = act[u] /\ lock'[u] = lock[u] /\ step'[u] = step[u]
             /\ gate'[u] = gate[u] /\ sem'[u] = sem[u] /\ ended'[u] = ended[u]
             /\ stopped'[u] = stopped[u]
  BY <1>1, <1>3 DEF Die, TypeOK
<1>4. TypeOK'
  <2>1. met' \subseteq Mishaps /\ left' \in [Mishaps -> Nat]
    BY <1>1, UseTyped DEF Mishaps
  <2>2. /\ phase' \in [Turns -> Phases] /\ lock' \in [Turns -> Acts \cup {End, NoOne}]
        /\ step' \in [Turns -> {"none", "gate", "sem"}]
    BY <1>1 DEF Die, TypeOK, Phases
  <2>3. act' \in [Turns -> [Acts -> ActStates]]
    BY <1>1 DEF Die, TypeOK, ActStates
  <2>4. /\ gate' \in [Turns -> BOOLEAN] /\ sem' \in [Turns -> BOOLEAN] /\ ended' \in [Turns -> BOOLEAN]
        /\ stopped' \in [Turns -> BOOLEAN] /\ cut' \in [Turns -> BOOLEAN]
    BY <1>1 DEF Die, TypeOK
  <2>5. /\ loop' \in [Workers -> Turns \cup {NoTurn}] /\ free' \in [Workers -> Nat]
        /\ at' \in [Workers -> {"poll", "admit", "reject", "slot"}]
    BY <1>1, CapacityAssumption DEF LoopTo, TypeOK
  <2> QED BY <1>1, <2>1, <2>2, <2>3, <2>4, <2>5 DEF TypeOK
<1>5. ASSUME NEW u \in Turns PROVE TurnInv(u)'
  <2>1. CASE Mine(w, u)
    <3>1. Fresh(u)' /\ Ending(u)' /\ Working(u)' /\ Gated(u)'
      BY <1>2, <2>1 DEF Fresh, Ending, Working, Gated, Live
    <3>2. Locked(u)'
      BY <1>2, <2>1, NamesAssumption DEF Locked, Acts, Main, NoOne, End
    <3> QED BY <3>1, <3>2 DEF TurnInv
  <2>2. CASE ~Mine(w, u)
    <3>1. TurnInv(u) BY DEF IInv
    <3>2. Fresh(u)' /\ Ending(u)' /\ Working(u)' /\ Gated(u)'
      BY <1>1, <1>3, <2>2, <3>1 DEF TurnInv, Fresh, Ending, Working, Gated, Live, Holder
    <3>3. Locked(u)'
      BY <1>1, <1>3, <2>2, <3>1 DEF TurnInv, Locked
    <3> QED BY <3>2, <3>3 DEF TurnInv
  <2> QED BY <2>1, <2>2
<1>6. LoopInv'
  <2>1. /\ loop'[w] = NoTurn /\ at'[w] = "poll"
        /\ \A v \in Workers : v /= w => loop'[v] = loop[v] /\ at'[v] = at[v]
    BY <1>1 DEF LoopTo, TypeOK
  <2>2. ASSUME NEW v \in Workers, v /= w, at[v] /= "poll"
        PROVE  loop[v] \in Turns /\ phase'[loop[v]] = "taken"
    <3>1. loop[v] \in Turns /\ phase[loop[v]] = "taken" BY <1>1, <2>2 DEF LoopInv
    <3>2. at[w] = "poll" => loop[w] = NoTurn BY <1>1 DEF LoopInv
    <3>3. loop[w] /= loop[v] BY <1>1, <2>2, <3>1, <3>2, NamesAssumption DEF LoopInv
    <3> QED BY <1>3, <3>1, <3>3 DEF Mine
  <2> QED BY <1>1, <2>1, <2>2 DEF LoopInv
<1>7. CountInv'
  <2>1. \A u \in Turns : sem[u] => phase[u] \in {"running", "ending"}
    BY DEF IInv, TurnInv, Fresh, Ending, Live
  <2>2. \A u \in Turns : loop[w] = u => phase[u] = "taken"
    BY <1>1, NamesAssumption DEF LoopInv
  <2>3. Held(w)' = {}
    BY <1>1, <1>2, <1>3, <2>1 DEF Held, Mine
  <2>4. ASSUME NEW v \in Workers, v /= w PROVE Held(v)' = Held(v)
    <3>1. \A u \in Turns : home[u] = v => sem'[u] = sem[u]
      <4> SUFFICES ASSUME NEW u \in Turns, home[u] = v PROVE sem'[u] = sem[u]
        OBVIOUS
      <4>1. CASE Mine(w, u)
        <5>1. ~sem[u] BY <2>1, <2>2, <2>4, <4>1 DEF Mine
        <5>2. sem[u] \in BOOLEAN /\ sem'[u] \in BOOLEAN BY <1>1, <1>4 DEF TypeOK
        <5> QED BY <1>2, <4>1, <5>1, <5>2
      <4>2. CASE ~Mine(w, u) BY <1>3, <4>2
      <4> QED BY <4>1, <4>2
    <3> QED BY <1>1, <3>1 DEF Held
  <2>5. free'[w] = MaxConcurrent /\ \A v \in Workers : v /= w => free'[v] = free[v]
    BY <1>1 DEF TypeOK
  <2>6. ASSUME NEW v \in Workers
        PROVE  IsFiniteSet(Held(v)') /\ free'[v] + Cardinality(Held(v)') = MaxConcurrent
    <3>1. CASE v = w
      <4>1. IsFiniteSet(Held(v)') /\ Cardinality(Held(v)') = 0 BY <2>3, <3>1, FS_EmptySet
      <4> QED BY <2>5, <3>1, <4>1, CapacityAssumption
    <3>2. CASE v /= w BY <1>1, <2>4, <2>5, <3>2 DEF CountInv
    <3> QED BY <3>1, <3>2
  <2> QED BY <2>6 DEF CountInv
<1> QED BY <1>4, <1>5, <1>6, <1>7 DEF IInv

(* ------------------------------ theorems ------------------------------- *)

(* The turns start with empty records and the semaphores full. *)
LEMMA InitIInv ==
  ASSUME Init
  PROVE  IInv
<1>1. TypeOK
  <2>1. phase \in [Turns -> Phases] BY DEF Init, Phases
  <2>2. act \in [Turns -> [Acts -> ActStates]] BY DEF Init, ActStates
  <2>3. left \in [Mishaps -> Nat] BY MishapAssumption DEF Init
  <2> QED BY <2>1, <2>2, <2>3, CapacityAssumption DEF Init, TypeOK
<1>2. LoopInv BY DEF Init, LoopInv
<1>3. ASSUME NEW t \in Turns PROVE TurnInv(t)
  <2>1. phase[t] \in {"new", "queued"} BY DEF Init
  <2>2. Fresh(t) /\ Ending(t) /\ Working(t) /\ Gated(t)
    BY <2>1 DEF Init, Fresh, Ending, Working, Gated, Live
  <2>3. Locked(t) BY NamesAssumption DEF Init, Locked, Acts, Main, NoOne, End
  <2> QED BY <2>2, <2>3 DEF TurnInv
<1>4. CountInv
  <2> SUFFICES ASSUME NEW w \in Workers
               PROVE  IsFiniteSet(Held(w)) /\ free[w] + Cardinality(Held(w)) = MaxConcurrent
    BY DEF CountInv
  <2>1. Held(w) = {} BY DEF Held, Init
  <2>2. IsFiniteSet(Held(w)) /\ Cardinality(Held(w)) = 0 BY <2>1, FS_EmptySet
  <2> QED BY <2>2, CapacityAssumption DEF Init
<1> QED BY <1>1, <1>2, <1>3, <1>4 DEF IInv

(* Every step keeps the invariant. *)
LEMMA NextIInv ==
  ASSUME IInv, [Next]_vars
  PROVE  IInv'
<1>1. CASE UNCHANGED vars
  <2>1. TypeOK' BY <1>1 DEF IInv, TypeOK, vars
  <2>2. LoopInv' BY <1>1 DEF IInv, LoopInv, vars
  <2>3. ASSUME NEW t \in Turns PROVE TurnInv(t)'
    BY <1>1 DEF IInv, TurnInv, Fresh, Ending, Locked, Working, Gated, Live, Holder, vars
  <2>4. CountInv' BY <1>1, CountSame DEF IInv, vars
  <2> QED BY <2>1, <2>2, <2>3, <2>4 DEF IInv
<1>2. ASSUME NEW t \in Turns, NEW a \in Acts, Section(t, a) \/ Cancelled(t, a) PROVE IInv'
  BY <1>2, GiveStep, GiveGateStep, TakeStep, TakeGateStep, TakeSemStep, CancelledStep DEF Section
<1>3. ASSUME NEW t \in Turns, Turn(t) PROVE IInv'
  BY <1>3, GoesStep, FlagStep, EndGiveStep, EndGateStep DEF Turn
<1>4. ASSUME NEW t \in Turns, \E c \in Calls : Call(t, c) PROVE IInv'
  BY <1>4, GoesStep
<1>5. ASSUME NEW t \in Turns,
             Interrupt(t) \/ Detach(t) \/ Recover(t) \/ Resend(t) \/ LeaveWaiting(t)
      PROVE  IInv'
  BY <1>5, FlagStep, RecoverStep
<1>6. ASSUME NEW w \in Workers,
             \/ \E t \in Turns : Pop(w, t)
             \/ Admit(w) \/ Reject(w) \/ PopLost(w) \/ Dispatch(w) \/ Die(w)
      PROVE  IInv'
  BY <1>6, PopStep, AdmitStep, RejectStep, DispatchStep, DieStep
<1> QED BY <1>1, <1>2, <1>3, <1>4, <1>5, <1>6 DEF Next

(* The inductive invariant holds of every behaviour. *)
THEOREM Invariant == Spec => []IInv
BY InitIInv, NextIInv, PTL DEF Spec

(* Every variable keeps its type, however many workers, turns and calls there are. *)
THEOREM Typed == Spec => []TypeOK
<1>1. IInv => TypeOK BY DEF IInv
<1> QED BY <1>1, Invariant, PTL

(* No slot of a worker's semaphore is lost or made up: give-backs, take-backs,
   cancellations, the turn's end and the worker's death all balance. *)
THEOREM Conserved == Spec => []SemaphoreConserved
<1>1. IInv => SemaphoreConserved BY DEF IInv, CountInv, Held, SemaphoreConserved
<1> QED BY <1>1, Invariant, PTL

(* No activity of a turn that is neither stopped nor ended works without both slots. *)
THEOREM HoldsSlots == Spec => []WorkHoldsSlots
<1>1. IInv => WorkHoldsSlots BY DEF IInv, TurnInv, Working, WorkHoldsSlots
<1> QED BY <1>1, Invariant, PTL

(* A turn that is over is out of the gate, unless the release itself is in doubt. *)
THEOREM NoLeaks == Spec => []NoHolderLeaks
<1>1. IInv => NoHolderLeaks
  BY DEF IInv, TurnInv, Gated, Live, Holder, NoHolderLeaks
<1> QED BY <1>1, Invariant, PTL
=============================================================================
