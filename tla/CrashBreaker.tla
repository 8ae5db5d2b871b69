---------------------------- MODULE CrashBreaker ----------------------------
(***************************************************************************)
(* The crash-loop breaker of the dispatcher (orchestrator/dispatcher.py):  *)
(* what Redis counts of a session's consecutive identical crashes, the     *)
(* failure that trips it, and the wakes it refuses until a person speaks.  *)
(*                                                                         *)
(* A wake is one step that crashes, with some fingerprint, or ends.  The   *)
(* lease lets one task wake at a time; everything a task does around its   *)
(* wake, one Redis or database call a step, may meet another task's.       *)
(***************************************************************************)
EXTENDS Naturals, Sequences

CONSTANTS
  Tasks,          \* _guarded_process tasks, of different workers
  Prints,         \* crash fingerprints
  Threshold,      \* _CRASH_LOOP_THRESHOLD
  MaxRetries,     \* _MAX_RETRIES
  Bound           \* Bound[i]: how often the environment does i \in Inputs

\* "human": a person's message or retry; "auto": a synthetic message; "cleans":
\* wakes that end without a crash; "fails" and "writes": Redis calls and database
\* writes that fail; "expiries".
Inputs == {"human", "auto", "cleans", "fails", "writes", "expiries"}
NoState == [print |-> "none", count |-> 0, tripped |-> FALSE, since |-> 0]

ASSUME BreakerAssumption == /\ Threshold \in Nat \ {0} /\ MaxRetries \in Nat \ {0}
                            /\ "none" \notin Prints
ASSUME BreakerBounds == Bound \in [Inputs -> Nat]

VARIABLES
  log,      \* the events the breaker tells apart: "human", "auto", its own "fail"
  queued,   \* the session is on the work queue
  state,    \* surogates:crash_loop:<session>
  pc,       \* pc[t]: where task t is
  attempt,  \* attempt[t]: the attempt _process is at
  seen,     \* seen[t]: the state t last read
  mine,     \* mine[t]: what t's own last crash makes of it
  awake,    \* (history) Len(log) when the last wake began
  open,     \* (history) Len(log) when the breaker last tripped and no wake has ended since, else 0
  streak,   \* (history) identical crashes since a wake last ended or a person reopened it
  used

vars == <<log, queued, state, pc, attempt, seen, mine, awake, open, streak, used>>
history == <<awake, open, streak>>
local == <<attempt, seen, mine>>

PCs == {"idle", "gate", "signal", "unlock", "probe", "wake", "settle",
        "record", "save", "trip", "saveTrip", "giveUp"}
States == [print : Prints \cup {"none"}, count : Nat, tripped : BOOLEAN, since : Nat]

Use(i) == used[i] < Bound[i] /\ used' = [used EXCEPT ![i] = @ + 1]
Goto(t, p) == pc' = [pc EXCEPT ![t] = p]

\* A Redis call whose failure the code logs and steps over.
Try(call, left) == (call /\ UNCHANGED used) \/ (Use("fails") /\ UNCHANGED left)

\* _crash_loop_state: None when the read fails.
Read(t) == \/ seen' = [seen EXCEPT ![t] = state] /\ UNCHANGED used
           \/ seen' = [seen EXCEPT ![t] = NoState] /\ Use("fails")

\* Deviation: a synthetic message counts as a person's.
HumanSinceAny(id) == \E i \in DOMAIN log : i > id /\ log[i] \in {"human", "auto"}

\* _has_user_signal_since; an id of None takes in the whole log.
HumanSince(id) == \E i \in DOMAIN log : i > id /\ log[i] = "human"

\* A session whose first message is on the queue.
Init ==
  /\ log = <<"human">> /\ queued = TRUE /\ state = NoState
  /\ pc = [t \in Tasks |-> "idle"] /\ attempt = [t \in Tasks |-> 0]
  /\ seen = [t \in Tasks |-> NoState] /\ mine = [t \in Tasks |-> NoState]
  /\ awake = 0 /\ open = 0 /\ streak = NoState
  /\ used = [i \in Inputs |-> 0]

(* ------------------------------ who wakes it --------------------------- *)

Post(e) == /\ Use(e)
           /\ log' = Append(log, e) /\ queued' = TRUE
           /\ UNCHANGED <<state, pc, local, history>>

\* The sweep, a child's report, a schedule: a wake with no event of its own.
Rewake == /\ ~queued /\ queued' = TRUE
          /\ UNCHANGED <<log, state, pc, local, history, used>>

\* The state's TTL passes.
Expire == /\ state /= NoState /\ Use("expiries")
          /\ state' = NoState
          /\ UNCHANGED <<log, queued, pc, local, history>>

(* -------------------------------- _process ----------------------------- *)

Dequeue(t) == /\ pc[t] = "idle" /\ queued
              /\ queued' = FALSE
              /\ attempt' = [attempt EXCEPT ![t] = 0]
              /\ Goto(t, "gate")
              /\ UNCHANGED <<log, state, seen, mine, history, used>>

\* Only the first attempt asks whether the breaker is open ...
Gate(t) == /\ pc[t] = "gate"
           /\ Read(t)
           /\ Goto(t, IF seen'[t].tripped THEN "signal" ELSE "probe")
           /\ UNCHANGED <<log, queued, state, attempt, mine, history>>

\* Deviation: an open breaker refuses everyone.
SignalNever(t) == /\ pc[t] = "signal"
                  /\ Goto(t, "idle")
                  /\ UNCHANGED <<log, queued, state, local, history, used>>

\* ... and then whether a person has spoken since; if not the wake is dropped.
Signal(t) == /\ pc[t] = "signal"
             /\ Goto(t, IF HumanSince(seen[t].since) THEN "unlock" ELSE "idle")
             /\ UNCHANGED <<log, queued, state, local, history, used>>

\* _clear_crash_loop_state, for a person and after a wake that ended.
Clear == Try(state' = NoState, state)

Unlock(t) == /\ pc[t] = "unlock"
             /\ Clear
             /\ Goto(t, "probe")
             /\ streak' = NoState
             /\ UNCHANGED <<log, queued, local, awake, open>>

\* The lease: a task that finds it held queues the session again.
Probe(t) ==
  /\ pc[t] = "probe"
  /\ IF \E u \in Tasks : pc[u] = "wake"
       THEN queued' = TRUE /\ Goto(t, "idle") /\ UNCHANGED awake
       ELSE Goto(t, "wake") /\ awake' = Len(log) /\ UNCHANGED queued
  /\ UNCHANGED <<log, state, local, open, streak, used>>

Clean(t) == /\ pc[t] = "wake" /\ Use("cleans")
            /\ Goto(t, "settle")
            /\ open' = 0 /\ streak' = NoState
            /\ UNCHANGED <<log, queued, state, local, awake>>

Settle(t) == /\ pc[t] = "settle"
             /\ Clear
             /\ Goto(t, "idle")
             /\ UNCHANGED <<log, queued, local, history>>

\* The next count of a crash that looks like p, from what was counted before;
\* counts above the threshold are one, as nothing tells them apart.
CountCap == Threshold + 1
Counted(s, p) == IF s.print /= p THEN 1
                 ELSE IF s.count < CountCap THEN s.count + 1 ELSE CountCap

Crash(t, p) ==
  /\ pc[t] = "wake"
  /\ Goto(t, "record")
  /\ mine' = [mine EXCEPT ![t] = [NoState EXCEPT !.print = p]]
  /\ streak' = [NoState EXCEPT !.print = p, !.count = Counted(streak, p)]
  /\ UNCHANGED <<log, queued, state, attempt, seen, awake, open, used>>

\* _record_crash reads the state, then writes it.
Record(t) == /\ pc[t] = "record"
             /\ Read(t)
             /\ Goto(t, "save")
             /\ UNCHANGED <<log, queued, state, attempt, mine, history>>

\* Deviation: a crash of another kind goes on with the count.
TallyAnyPrint(t) == [print |-> mine[t].print, count |-> seen[t].count + 1,
                     tripped |-> seen[t].tripped, since |-> seen[t].since]

\* What it writes: a new fingerprint starts the count again.
Tally(t) == [print |-> mine[t].print, count |-> Counted(seen[t], mine[t].print),
             tripped |-> seen[t].print = mine[t].print /\ seen[t].tripped,
             since |-> seen[t].since]

\* Deviation: the threshold has to be passed.
LoopingPast(n) == n > Threshold

Looping(n) == n >= Threshold

Save(t) ==
  /\ pc[t] = "save"
  /\ Try(state' = Tally(t), state)
  /\ mine' = [mine EXCEPT ![t] = Tally(t)]
  /\ IF Looping(Tally(t).count)
       THEN Goto(t, "trip") /\ UNCHANGED attempt
       ELSE IF attempt[t] + 1 < MaxRetries
         THEN Goto(t, "probe") /\ attempt' = [attempt EXCEPT ![t] = @ + 1]
         ELSE Goto(t, "giveUp") /\ UNCHANGED attempt
  /\ UNCHANGED <<log, queued, seen, history>>

\* session.fail, whose id the breaker remembers: None (0) when the write failed.
\* Failures with no message between them share one place in the log: no reader
\* of it tells them apart.
Trip(t) ==
  /\ pc[t] = "trip"
  /\ \E written \in BOOLEAN :
       /\ IF written THEN UNCHANGED used ELSE Use("writes")
       /\ log' = IF written /\ log[Len(log)] /= "fail" THEN Append(log, "fail") ELSE log
       /\ mine' = [mine EXCEPT ![t] = [@ EXCEPT !.tripped = TRUE,
                     !.since = IF written THEN Len(log') ELSE 0]]
  /\ open' = Len(log')
  /\ Goto(t, "saveTrip")
  /\ UNCHANGED <<queued, state, attempt, seen, awake, streak>>

SaveTrip(t) == /\ pc[t] = "saveTrip"
               /\ Try(state' = mine[t], state)
               /\ Goto(t, "idle")
               /\ UNCHANGED <<log, queued, local, history>>

\* Out of attempts: the session fails, which the breaker does not look at.
GiveUp(t) == /\ pc[t] = "giveUp"
             /\ Goto(t, "idle")
             /\ UNCHANGED <<log, queued, state, local, history, used>>

(* ------------------------- the specification --------------------------- *)

Process(t) == \/ Gate(t) \/ Signal(t) \/ Unlock(t) \/ Probe(t)
              \/ (\E p \in Prints : Crash(t, p)) \/ Settle(t) \/ Record(t)
              \/ Save(t) \/ Trip(t) \/ SaveTrip(t) \/ GiveUp(t)

Next == \/ (\E e \in {"human", "auto"} : Post(e)) \/ Rewake \/ Expire
        \/ \E t \in Tasks : Dequeue(t) \/ Process(t) \/ Clean(t)

Spec == Init /\ [][Next]_vars

\* The workers keep popping and what they popped they process; a wake comes to
\* an end, but need not be a clean one.
FairSpec == /\ Spec
            /\ WF_vars(\E t \in Tasks : Dequeue(t))
            /\ \A t \in Tasks : WF_vars(Process(t))

(* ---------------------------- properties ------------------------------- *)

\* Every variable has its type.
TypeOK ==
  /\ log \in Seq({"human", "auto", "fail"}) /\ queued \in BOOLEAN
  /\ state \in States /\ streak \in States /\ awake \in Nat /\ open \in Nat
  /\ pc \in [Tasks -> PCs] /\ attempt \in [Tasks -> Nat]
  /\ seen \in [Tasks -> States] /\ mine \in [Tasks -> States]
  /\ used \in [Inputs -> Nat]

\* Nothing the breaker relies on has failed or run out.
Undisturbed == used["fails"] + used["writes"] + used["expiries"] = 0

\* A poisoned conversation is not replayed for ever: until a person reopens it,
\* the crashes that look the same are at most the threshold.
StreakBounded == Undisturbed => streak.count <= Threshold

\* No session is failed for good by crashes that differ, or that a wake which
\* ended has come between: the task that trips saw the threshold of one kind.
TripsOnStreak ==
  Undisturbed => \A t \in Tasks : pc[t] = "trip" =>
                   streak.count >= Threshold /\ streak.print = mine[t].print

\* Once tripped, no wake begins until a person has spoken.
RefusedUntilHuman ==
  [][(\E t \in Tasks : pc[t] = "probe" /\ pc'[t] = "wake") /\ open > 0 /\ Undisturbed
       => \E i \in DOMAIN log : i > open /\ log[i] = "human"]_vars

\* Whoever speaks to a session whose breaker is open is heard, whatever fails.
Unheard(id) == \E i \in DOMAIN log : i > id /\ log[i] = "human" /\ i > awake
ReopensForHuman == (open > 0 /\ Unheard(open)) ~> ~(open > 0 /\ Unheard(open))
=============================================================================
