----------------------------- MODULE TurnSlots -----------------------------
(***************************************************************************)
(* The capacity a turn holds: a slot of its worker's semaphore and a slot  *)
(* of its tenant in the turn gate (runtime/turn_gate.py), both given back  *)
(* while every activity of the turn waits on something outside the worker  *)
(* (runtime/turn_slots.py), and the dispatch loop that hands both out      *)
(* (orchestrator/dispatcher.py).                                           *)
(*                                                                         *)
(* All turns are of one tenant, one turn of a session each; a turn that is *)
(* recovered is attempted again, under a new holder in the gate.  A turn's *)
(* activities are its own task, Main, and its tool calls.  _active and     *)
(* _waiting are counted from where the activities are.  Nested waits,      *)
(* which count once, are left out.                                         *)
(***************************************************************************)
EXTENDS Integers, FiniteSets

CONSTANTS
  Workers, Turns,
  Calls,          \* the tool calls one turn may run
  Child,          \* Child[t]: the turn t's calls wait for, or NoTurn
  MaxConcurrent,  \* slots of each worker's semaphore
  Cap,            \* the tenant's max-concurrent-turns
  Scenarios       \* how often the environment may do each of Mishaps: the choices

Main == "main"
End == "end"
NoTurn == "no turn"
NoOne == "no one"
Acts == Calls \cup {Main}
Mishaps == {"fails", "stops", "cuts", "deaths"}

ASSUME CapacityAssumption == MaxConcurrent \in Nat /\ Cap \in Nat
ASSUME NamesAssumption == /\ {Main, End, NoOne} \cap Calls = {}
                          /\ NoTurn \notin Turns /\ NoOne \notin Workers
ASSUME ChildAssumption == Child \in [Turns -> Turns \cup {NoTurn}]
ASSUME MishapAssumption == Scenarios \subseteq [Mishaps -> Nat]

VARIABLES
  phase,    \* phase[t]: where the dispatcher has the turn
  home,     \* home[t]: the worker that runs it
  loop,     \* loop[w]: the turn w's dispatch loop is starting
  at,       \* at[w]: how far it is
  free,     \* free[w]: slots left in w's semaphore
  attempt,  \* attempt[t]: which attempt at the turn this is
  holders,  \* the tenant's set of turn holders, in Redis
  act,      \* act[t][a]: where activity a of turn t is
  lock,     \* lock[t]: who has the record's asyncio.Lock
  step,     \* step[t]: what its critical section awaits
  gate,     \* gate[t]: _gate_held
  sem,      \* sem[t]: _semaphore_held
  ended,    \* ended[t]: _ended
  stopped,  \* stopped[t]: _stop_waiting is set
  cut,      \* cut[t]: the turn was detached and its task cancelled
  unsure,   \* (history) turns whose last release of the gate failed or was cut off
  met,      \* (history) the mishaps that have happened
  left      \* left[i]: how often mishap i may yet happen

slots == <<holders, gate, sem>>
record == <<act, lock, step, gate, sem, ended, stopped, cut>>
mishaps == <<met, left>>
dispatch == <<phase, home, loop, at, attempt>>
vars == <<phase, home, loop, at, attempt, free, holders, act, lock, step, gate, sem,
          ended, stopped, cut, unsure, met, left>>

Phases == {"new", "queued", "taken", "running", "ending", "over", "lost"}
Taking == {"entering", "rejoining", "resuming"}
Giving == {"joining", "pausing", "leaving"}
Counted == {"working", "pausing", "waiting", "resuming", "rejoining"}
ActStates == Taking \cup Giving \cup Counted \cup {"idle", "joined", "done"}

(* ------------------------------ the record ----------------------------- *)

\* gate_holder: <session_id>:<turn>.
Holder(t) == <<t, attempt[t]>>

\* The members release_session scans for, <session_id>:*, and those left by turns
\* that died.
HoldersOf(t) == {h \in holders : h[1] = t}
DeadHolders(t) == HoldersOf(t) \ {Holder(t)}

\* _active and _waiting, as the activities behind the counts.
Active(t) == {a \in Acts : act[t][a] \in Counted}
Waiting(t) == {a \in Acts : act[t][a] \in {"pausing", "waiting"}}

\* Deviation: a turn waits as soon as one of its activities does.
AllWaitingAny(t) == Waiting(t) /= {}

\* Deviation: a turn never counts as waiting, so it keeps its slots.
AllWaitingNever(t) == Active(t) = {} /\ Waiting(t) /= {}

\* all_waiting.
AllWaiting(t) == Active(t) /= {} /\ Active(t) \subseteq Waiting(t)

Becomes(t, a, s) == act' = [act EXCEPT ![t][a] = s]

\* Where an activity goes on once its slots are settled.
Settled(t, a) ==
  Becomes(t, a, CASE act[t][a] \in Taking -> "working"
                  [] act[t][a] = "joining" -> "joined"
                  [] act[t][a] = "pausing" -> "waiting"
                  [] act[t][a] = "leaving" -> "done")

Unlock(t) == lock' = [lock EXCEPT ![t] = NoOne] /\ step' = [step EXCEPT ![t] = "none"]
Lock(t, a, s) == lock' = [lock EXCEPT ![t] = a] /\ step' = [step EXCEPT ![t] = s]
SetGate(t, b) == gate' = [gate EXCEPT ![t] = b]
SetSem(t, b) == sem' = [sem EXCEPT ![t] = b]
Use(i) == left[i] > 0 /\ left' = [left EXCEPT ![i] = @ - 1] /\ met' = met \cup {i}

\* Deviation: a slot is released whether or not it is held.
ReleaseSemAlways(t) ==
  /\ free' = [free EXCEPT ![home[t]] = @ + 1]
  /\ SetSem(t, FALSE)

\* The semaphore's half of _give_back, before its first await.
ReleaseSem(t) ==
  /\ free' = IF sem[t] THEN [free EXCEPT ![home[t]] = @ + 1] ELSE free
  /\ SetSem(t, FALSE)

\* _give_back_if_all_waiting, up to its await on the gate.
Give(t, a) ==
  /\ act[t][a] \in Giving /\ lock[t] = NoOne
  /\ IF ~AllWaiting(t)
       THEN Settled(t, a) /\ UNCHANGED <<lock, step, sem, free>>
       ELSE /\ ReleaseSem(t)
            /\ IF gate[t] THEN Lock(t, a, "gate") /\ UNCHANGED act
                          ELSE Settled(t, a) /\ UNCHANGED <<lock, step>>
  /\ UNCHANGED <<dispatch, holders, gate, ended, stopped, cut, unsure, mishaps>>

\* gate.release has answered, or has failed with nobody knowing what it did: the
\* slot then counts as held.
GiveGate(t, a) ==
  /\ act[t][a] \in Giving /\ lock[t] = a
  /\ \/ holders' = holders \ {Holder(t)} /\ SetGate(t, FALSE) /\ UNCHANGED mishaps
     \/ Use("fails") /\ holders' \in {holders, holders \ {Holder(t)}} /\ UNCHANGED gate
  /\ Unlock(t) /\ Settled(t, a)
  /\ UNCHANGED <<dispatch, free, sem, ended, stopped, cut, unsure>>

\* _take_back, up to its first await; an ended turn takes nothing.
Take(t, a) ==
  /\ act[t][a] \in Taking /\ lock[t] = NoOne
  /\ \/ /\ ended[t] \/ (gate[t] /\ sem[t])
        /\ Settled(t, a) /\ UNCHANGED <<lock, step>>
     \/ /\ ~ended[t] /\ ~gate[t]
        /\ Lock(t, a, "gate") /\ UNCHANGED act
     \/ /\ ~ended[t] /\ gate[t] /\ ~sem[t]
        /\ Lock(t, a, "sem") /\ UNCHANGED act
  /\ UNCHANGED <<dispatch, free, holders, gate, sem, ended, stopped, cut, unsure, mishaps>>

\* try_acquire without a cap has answered, or has failed: the slot counts as
\* held either way.
TakeGate(t, a) ==
  /\ act[t][a] \in Taking /\ lock[t] = a /\ step[t] = "gate"
  /\ \/ holders' = holders \cup {Holder(t)} /\ UNCHANGED mishaps
     \/ Use("fails") /\ holders' \in {holders, holders \cup {Holder(t)}}
  /\ SetGate(t, TRUE)
  /\ IF sem[t] THEN Unlock(t) /\ Settled(t, a)
               ELSE Lock(t, a, "sem") /\ UNCHANGED act
  /\ UNCHANGED <<dispatch, free, sem, ended, stopped, cut, unsure>>

\* _acquire_semaphore: a slot, or none for a turn that is stopped meanwhile.
TakeSem(t, a) ==
  /\ act[t][a] \in Taking /\ lock[t] = a /\ step[t] = "sem"
  /\ \/ /\ free[home[t]] > 0
        /\ free' = [free EXCEPT ![home[t]] = @ - 1] /\ SetSem(t, TRUE)
     \/ stopped[t] /\ UNCHANGED <<free, sem>>
  /\ Unlock(t) /\ Settled(t, a)
  /\ UNCHANGED <<dispatch, holders, gate, ended, stopped, cut, unsure, mishaps>>

(* -------------------------- what a turn does --------------------------- *)

\* A step of an activity that only starts its own next wait for the slots.
Goes(t, a, s) ==
  /\ Becomes(t, a, s)
  /\ UNCHANGED <<dispatch, free, holders, lock, step, gate, sem, ended, stopped, cut, unsure, mishaps>>

\* A call may start while the answer still streams, or while the loop joins.
StartCall(t, c) == /\ phase[t] = "running" /\ ~ended[t] /\ act[t][c] = "idle"
                   /\ act[t][Main] \in {"working", "joining", "joined"}
                   /\ Goes(t, c, "entering")

\* turn_joining: the loop waits for its calls, and goes on once they are done.
Join(t) == /\ act[t][Main] = "working" /\ \E c \in Calls : act[t][c] /= "done"
           /\ Goes(t, Main, "joining")
Rejoin(t) == /\ act[t][Main] = "joined" /\ \A c \in Calls : act[t][c] = "done"
             /\ Goes(t, Main, "rejoining")

FinishCall(t, c) == act[t][c] = "working" /\ Goes(t, c, "leaving")

\* _process has returned; only a cancelled loop leaves calls running.
Finish(t) == /\ act[t][Main] = "working"
             /\ \A c \in Calls : act[t][c] \in {"idle", "done"}
             /\ Goes(t, Main, "leaving")

\* turn_waiting: a delegated turn is queued, then waited for.
Wait(t, c) ==
  /\ act[t][c] = "working"
  /\ Becomes(t, c, "pausing")
  /\ phase' = IF Child[t] \in Turns /\ phase[Child[t]] = "new"
                THEN [phase EXCEPT ![Child[t]] = "queued"] ELSE phase
  /\ UNCHANGED <<home, loop, at, attempt, free, holders, lock, step, gate, sem, ended, stopped, cut, unsure, mishaps>>

Answered(t, c) == /\ act[t][c] = "waiting"
                  /\ \A u \in Turns : u = Child[t] => phase[u] = "over"
                  /\ Goes(t, c, "resuming")

(* ------------------ interrupts, cancellation, the end ------------------ *)

\* An interrupt the harness heard: interrupt().
Interrupt(t) == /\ phase[t] = "running" /\ ~stopped[t] /\ Use("stops")
                /\ stopped' = [stopped EXCEPT ![t] = TRUE]
                /\ UNCHANGED <<dispatch, free, holders, act, lock, step, gate, sem, ended, cut, unsure>>

\* The turn lost its lease, or its worker hands it over: detach().
Detach(t) == /\ phase[t] = "running" /\ ~cut[t] /\ Use("cuts")
             /\ act[t][Main] \notin {"leaving", "done"}
             /\ cut' = [cut EXCEPT ![t] = TRUE]
             /\ ended' = [ended EXCEPT ![t] = TRUE]
             /\ UNCHANGED <<dispatch, free, holders, act, lock, step, gate, sem, stopped, unsure>>

\* Deviation: a take-back that is cut off counts its slot as not taken.
CancelledForgets(t, a) ==
  /\ cut[t] /\ act[t][a] \notin {"idle", "done", "leaving"}
  /\ Becomes(t, a, IF act[t][a] = "entering" THEN "done" ELSE "leaving")
  /\ IF lock[t] = a /\ step[t] = "gate" /\ act[t][a] \in Taking
       THEN holders' = holders \cup {Holder(t)} /\ UNCHANGED <<gate, unsure>>
       ELSE UNCHANGED <<holders, gate, unsure>>
  /\ IF lock[t] = a THEN Unlock(t) ELSE UNCHANGED <<lock, step>>
  /\ UNCHANGED <<dispatch, free, sem, ended, stopped, cut, mishaps>>

\* A cancelled activity unwinds from where it stands: the loop's of a detached
\* turn, a call's also when the harness discards it or a sibling fails.  A gate
\* call it was in may have landed: a release counts as done, a take as held.
Cancelled(t, a) ==
  /\ act[t][a] \notin {"idle", "done"} /\ (act[t][a] = "leaving" => a \in Calls)
  /\ \/ cut[t]
     \/ a \in Calls /\ (stopped[t] \/ \E c \in Calls \ {a} : act[t][c] = "done")
  /\ Becomes(t, a, IF act[t][a] \in {"entering", "leaving"} THEN "done" ELSE "leaving")
  /\ IF lock[t] = a /\ step[t] = "gate"
       THEN IF act[t][a] \in Taking
              THEN /\ holders' \in {holders, holders \cup {Holder(t)}} /\ SetGate(t, TRUE)
                   /\ UNCHANGED unsure
              ELSE /\ holders' \in {holders, holders \ {Holder(t)}} /\ SetGate(t, FALSE)
                   /\ unsure' = unsure \cup {t}
       ELSE UNCHANGED <<holders, gate, unsure>>
  /\ IF lock[t] = a THEN Unlock(t) ELSE UNCHANGED <<lock, step>>
  /\ UNCHANGED <<dispatch, free, sem, ended, stopped, cut, mishaps>>

\* release_owned: the turn takes nothing any more ...
EndTurn(t) == /\ phase[t] = "running" /\ act[t][Main] = "done"
              /\ phase' = [phase EXCEPT ![t] = "ending"]
              /\ ended' = [ended EXCEPT ![t] = TRUE]
              /\ stopped' = [stopped EXCEPT ![t] = TRUE]
              /\ UNCHANGED <<home, loop, at, attempt, free, holders, act, lock, step, gate, sem, cut, unsure, mishaps>>

\* ... and gives back what it still holds.
EndGive(t) ==
  /\ phase[t] = "ending" /\ lock[t] = NoOne
  /\ ReleaseSem(t)
  /\ IF gate[t] THEN Lock(t, End, "gate") /\ UNCHANGED phase
                ELSE phase' = [phase EXCEPT ![t] = "over"] /\ UNCHANGED <<lock, step>>
  /\ UNCHANGED <<home, loop, at, attempt, holders, act, gate, ended, stopped, cut, unsure, mishaps>>

EndGate(t) ==
  /\ phase[t] = "ending" /\ lock[t] = End
  /\ \/ /\ holders' = holders \ {Holder(t)} /\ SetGate(t, FALSE)
        /\ UNCHANGED <<unsure, mishaps>>
     \/ /\ Use("fails") /\ holders' \in {holders, holders \ {Holder(t)}}
        /\ unsure' = unsure \cup {t} /\ UNCHANGED gate
  /\ Unlock(t)
  /\ phase' = [phase EXCEPT ![t] = "over"]
  /\ UNCHANGED <<home, loop, at, attempt, free, act, sem, ended, stopped, cut>>

(* -------------------------- the dispatch loop -------------------------- *)

LoopTo(w, t, p) == loop' = [loop EXCEPT ![w] = t] /\ at' = [at EXCEPT ![w] = p]
PhaseTo(t, p) == phase' = [phase EXCEPT ![t] = p]

\* dequeue_next_session pops the turn's session ...
Pop(w, t) == /\ at[w] = "poll" /\ phase[t] = "queued"
             /\ PhaseTo(t, "taken") /\ LoopTo(w, t, "admit")
             /\ UNCHANGED <<home, attempt, free, holders, record, unsure, mishaps>>

\* ... counts its holder, all in one Redis transaction ...
Admit(w) ==
  /\ at[w] = "admit"
  /\ holders' = holders \cup {Holder(loop[w])}
  /\ LoopTo(w, loop[w], IF Cardinality(holders') > Cap THEN "reject" ELSE "slot")
  /\ UNCHANGED <<phase, home, attempt, free, record, unsure, mishaps>>

\* ... and over the cap uncounts it and queues the session again.
Reject(w) ==
  /\ at[w] = "reject"
  /\ holders' = holders \ {Holder(loop[w])}
  /\ PhaseTo(loop[w], "queued") /\ LoopTo(w, NoTurn, "poll")
  /\ UNCHANGED <<home, attempt, free, record, unsure, mishaps>>

\* The gate call raises: the loop logs it and polls on, and what it had popped is
\* nobody's until the orphan sweep.
PopLost(w) ==
  /\ at[w] \in {"admit", "reject"} /\ Use("fails")
  /\ holders' \in {holders, holders \cup {Holder(loop[w])}, holders \ {Holder(loop[w])}}
  /\ PhaseTo(loop[w], "lost") /\ LoopTo(w, NoTurn, "poll")
  /\ UNCHANGED <<home, attempt, free, record, unsure>>

\* The loop waits for a slot of the semaphore, then starts _guarded_process.
Dispatch(w) ==
  /\ at[w] = "slot" /\ free[w] > 0
  /\ free' = [free EXCEPT ![w] = @ - 1]
  /\ PhaseTo(loop[w], "running") /\ home' = [home EXCEPT ![loop[w]] = w]
  /\ LoopTo(w, NoTurn, "poll")
  /\ act' = [act EXCEPT ![loop[w]] = [a \in Acts |-> IF a = Main THEN "entering" ELSE "idle"]]
  /\ SetGate(loop[w], TRUE) /\ SetSem(loop[w], TRUE)
  /\ UNCHANGED <<attempt, holders, lock, step, ended, stopped, cut, unsure, mishaps>>

(* ------------------------- death and recovery -------------------------- *)

\* The process is killed and comes back empty; the holders stay in Redis.
Mine(w, t) == (home[t] = w /\ phase[t] \in {"running", "ending"}) \/ loop[w] = t
Die(w) ==
  /\ Use("deaths")
  /\ phase' = [t \in Turns |-> IF Mine(w, t) THEN "lost" ELSE phase[t]]
  /\ act' = [t \in Turns |-> IF Mine(w, t) THEN [a \in Acts |-> "idle"] ELSE act[t]]
  /\ lock' = [t \in Turns |-> IF Mine(w, t) THEN NoOne ELSE lock[t]]
  /\ step' = [t \in Turns |-> IF Mine(w, t) THEN "none" ELSE step[t]]
  /\ gate' = [t \in Turns |-> ~Mine(w, t) /\ gate[t]]
  /\ sem' = [t \in Turns |-> ~Mine(w, t) /\ sem[t]]
  /\ ended' = [t \in Turns |-> ~Mine(w, t) /\ ended[t]]
  /\ stopped' = [t \in Turns |-> ~Mine(w, t) /\ stopped[t]]
  /\ cut' = [t \in Turns |-> ~Mine(w, t) /\ cut[t]]
  /\ free' = [free EXCEPT ![w] = MaxConcurrent]
  /\ LoopTo(w, NoTurn, "poll")
  /\ UNCHANGED <<home, attempt, holders, unsure>>

\* What comes back is a new attempt.
Again(t) == attempt' = [attempt EXCEPT ![t] = @ + 1] /\ PhaseTo(t, "queued")

\* The orphan sweep frees the session's holders, or fails to, and queues it again.
Recover(t) ==
  /\ phase[t] = "lost"
  /\ \/ holders' = holders \ HoldersOf(t) /\ UNCHANGED mishaps
     \/ Use("fails") /\ UNCHANGED holders
  /\ Again(t)
  /\ UNCHANGED <<home, loop, at, free, record, unsure>>

\* Or a message of its user's queues it first, behind its own dead turn ...
Resend(t) == /\ phase[t] = "lost"
             /\ Again(t)
             /\ UNCHANGED <<home, loop, at, free, holders, record, unsure, mishaps>>

\* ... and the sweep, which finds it queued, frees the session's holders all the
\* same.  By then the session may have been taken: its turn is then undercounted.
LeaveWaiting(t) ==
  /\ phase[t] \in {"queued", "taken"} /\ DeadHolders(t) /= {}
  /\ holders' = holders \ HoldersOf(t)
  /\ UNCHANGED <<dispatch, free, record, unsure, mishaps>>

(* ------------------------- the specification --------------------------- *)

\* The delegated turns are not queued yet.
Init ==
  /\ phase = [t \in Turns |-> IF \E p \in Turns : Child[p] = t THEN "new" ELSE "queued"]
  /\ home = [t \in Turns |-> NoOne]
  /\ loop = [w \in Workers |-> NoTurn] /\ at = [w \in Workers |-> "poll"]
  /\ free = [w \in Workers |-> MaxConcurrent]
  /\ attempt = [t \in Turns |-> 0] /\ holders = {}
  /\ act = [t \in Turns |-> [a \in Acts |-> "idle"]]
  /\ lock = [t \in Turns |-> NoOne] /\ step = [t \in Turns |-> "none"]
  /\ gate = [t \in Turns |-> FALSE] /\ sem = [t \in Turns |-> FALSE]
  /\ ended = [t \in Turns |-> FALSE] /\ stopped = [t \in Turns |-> FALSE]
  /\ cut = [t \in Turns |-> FALSE]
  /\ unsure = {}
  /\ met = {} /\ left \in Scenarios

Section(t, a) == Give(t, a) \/ GiveGate(t, a) \/ Take(t, a) \/ TakeGate(t, a) \/ TakeSem(t, a)
Call(t, c) == StartCall(t, c) \/ FinishCall(t, c) \/ Wait(t, c) \/ Answered(t, c)
Turn(t) == Join(t) \/ Rejoin(t) \/ Finish(t) \/ EndTurn(t) \/ EndGive(t) \/ EndGate(t)

Next ==
  \/ \E t \in Turns : \/ Turn(t) \/ Interrupt(t) \/ Detach(t)
                      \/ Recover(t) \/ Resend(t) \/ LeaveWaiting(t)
                      \/ \E a \in Acts : Section(t, a) \/ Cancelled(t, a)
                      \/ \E c \in Calls : Call(t, c)
  \/ \E w \in Workers : \/ \E t \in Turns : Pop(w, t)
                        \/ Admit(w) \/ Reject(w) \/ PopLost(w) \/ Dispatch(w) \/ Die(w)

Spec == Init /\ [][Next]_vars

\* Activities go on, calls are answered and cancellations land ...
Proceeds(t) ==
  \/ Turn(t)
  \/ \E c \in Calls : Call(t, c)
  \/ \E a \in Acts : \/ Give(t, a) \/ GiveGate(t, a) \/ Take(t, a) \/ TakeGate(t, a)
                     \/ (cut[t] /\ Cancelled(t, a))

\* ... calls finish, and the loop keeps polling.  asyncio.Semaphore serves its waiters
\* in order and the queue's backoff brings every session round, so neither passes one
\* over for ever.
FairSpec ==
  /\ Spec
  /\ \A t \in Turns : /\ WF_vars(Proceeds(t)) /\ WF_vars(Recover(t) \/ LeaveWaiting(t))
                      /\ SF_vars(\E a \in Acts : TakeSem(t, a))
                      /\ SF_vars(\E c \in Calls : FinishCall(t, c))
  /\ \A w \in Workers : /\ \A t \in Turns : SF_vars(Pop(w, t))
                        /\ WF_vars(Admit(w) \/ Reject(w)) /\ SF_vars(Dispatch(w))

(* ---------------------------- properties ------------------------------- *)

\* Every variable has its type.
TypeOK ==
  /\ phase \in [Turns -> Phases] /\ home \in [Turns -> Workers \cup {NoOne}]
  /\ loop \in [Workers -> Turns \cup {NoTurn}]
  /\ at \in [Workers -> {"poll", "admit", "reject", "slot"}]
  /\ attempt \in [Turns -> Nat] /\ holders \subseteq Turns \X Nat
  /\ free \in [Workers -> Nat] /\ unsure \subseteq Turns
  /\ act \in [Turns -> [Acts -> ActStates]]
  /\ lock \in [Turns -> Acts \cup {End, NoOne}] /\ step \in [Turns -> {"none", "gate", "sem"}]
  /\ gate \in [Turns -> BOOLEAN] /\ sem \in [Turns -> BOOLEAN]
  /\ ended \in [Turns -> BOOLEAN] /\ stopped \in [Turns -> BOOLEAN]
  /\ cut \in [Turns -> BOOLEAN]
  /\ met \subseteq Mishaps /\ left \in [Mishaps -> Nat]

\* No slot of a worker is lost and none made up, whatever is cancelled,
\* interrupted or given back while another activity takes.
SemaphoreConserved ==
  \A w \in Workers :
    free[w] + Cardinality({t \in Turns : sem[t] /\ home[t] = w}) = MaxConcurrent

\* Work needs the worker: an activity that is past its take-back works under
\* both slots, unless its turn is stopped or has ended.
WorkHoldsSlots ==
  \A t \in Turns : \A a \in Acts :
    act[t][a] = "working" /\ ~stopped[t] /\ ~ended[t] => gate[t] /\ sem[t]

\* The gate has no TTL: a turn that is over stays counted only if the very call
\* that should have released it failed or was cut off.  No other failure, and no
\* cancelled take-back, leaves its holder behind.
NoHolderLeaks ==
  \A t \in Turns : phase[t] = "over" /\ Holder(t) \in holders => t \in unsure

\* Every queued turn runs and ends, a parent's and its child's on a worker and
\* in a tenant with room for one, whoever is stopped, cut off or killed; but not
\* once a gate call failed or was cut off, which may leave the tenant full.
EveryTurnEnds ==
  \A t \in Turns :
    phase[t] = "queued" ~> (phase[t] = "over" \/ "fails" \in met \/ unsure /= {})
=============================================================================
