---------------------------- MODULE SessionTurn ----------------------------
(***************************************************************************)
(* One session of the runtime: its row, event log, lease and cursor in     *)
(* PostgreSQL (session/store.py), its place on the Redis work queue        *)
(* (config.enqueue_session), the worker tasks that dequeue and wake it     *)
(* (orchestrator/dispatcher.py, harness/loop.py), the API routes its user  *)
(* drives it with (api/routes/sessions.py) and the orphan sweepers.        *)
(*                                                                         *)
(* Every action is one database transaction, one Redis command or one      *)
(* stretch of Python between two awaits; another actor may step between    *)
(* any two of them.  The session is an ordinary chat: the rules special to *)
(* project threads, missions, commands, the user's computer and messages   *)
(* held or disclosed on a channel (_nothing_to_answer) are left out.  An   *)
(* event is its type; its id is its position in the log.  The              *)
(* crash-loop breaker is CrashBreaker's: here a dequeue runs out of tries. *)
(***************************************************************************)
EXTENDS Naturals, Sequences, FiniteSets

CONSTANTS
  Clients,        \* the API requests the user may have open at one time
  Workers,        \* worker processes
  Tasks,          \* slots of the workers' _guarded_process tasks
  Owner,          \* Owner[t]: the worker that runs task t
  Sweepers,       \* the workers whose orphan sweep is looked at
  MaxRetries,     \* _MAX_RETRIES: wakes one dequeue may try
  MaxRecoveries,  \* _MAX_RECOVERY_ATTEMPTS
  Stalls,         \* TRUE: a live process may stall longer than leases and staleness last
  BareEnds,       \* TRUE: turns may also end without draining follow-ups
  Scenarios,      \* how often the environment may do each of Inputs: the choices
  Sweeping        \* Sweeping[s]: the sweepers there are in scenario s

Inputs == {"msgs", "stops", "retries", "deletes", "calls", "drafts", "crashes", "deaths"}

ASSUME OwnerAssumption == Owner \in [Tasks -> Workers]
ASSUME SweepersAssumption == Sweepers \subseteq Workers
ASSUME RetryAssumption == MaxRetries \in Nat /\ MaxRecoveries \in Nat
ASSUME SwitchAssumption == Stalls \in BOOLEAN /\ BareEnds \in BOOLEAN
ASSUME ScenarioAssumption == Scenarios \subseteq [Inputs -> Nat]
ASSUME SweepingAssumption == Sweeping \in [Scenarios -> SUBSET Sweepers]

NoTask == "no task"
ASSUME NoTaskAssumption == NoTask \notin Tasks

VARIABLES
  status,      \* sessions.status
  fresh,       \* sessions.updated_at is less than stale_seconds old
  log,         \* the session's events, in id order
  cursor,      \* session_cursors.harness_cursor
  leaseToken,  \* session_leases.lease_token, 0 when the row is absent
  leaseLive,   \* session_leases.expires_at > now()
  issued,      \* lease tokens handed out so far (uuid4: never repeated)
  queued,      \* the session is a member of the shared work queue
  active,      \* active[w]: the task _active_harnesses names for the session
  rewake,      \* rewake[w]: the session is in _rewake_pending
  pc,          \* pc[t]: where task t is
  tok,         \* tok[t]: the lease token of t's wake, 0 before it has one
  steer,       \* steer[t]: the turn's steer cursor
  through,     \* through[t]: through_event_id of the turn's end, 0 for None
  stop,        \* stop[t]: the harness's _interrupt_requested
  attempt,     \* attempt[t]: the attempt _process is at
  api,         \* api[c]: where the API request c is
  sweep,       \* sweep[w]: where w's orphan sweep is
  heard,       \* (history) messages up to this id are in an answered request
  blind,       \* (history) recoveries decided without the count of the earlier ones
  left         \* left[i]: how often the environment may yet do i

store     == <<status, fresh, log, cursor>>
leaseVars == <<leaseToken, leaseLive, issued>>
workerVars == <<active, rewake>>
taskVars  == <<pc, tok, steer, through, stop, attempt>>
vars == <<status, fresh, log, cursor, leaseToken, leaseLive, issued, queued,
          active, rewake, pc, tok, steer, through, stop, attempt, api, sweep,
          heard, blind, left>>

Statuses == {"active", "completed", "failed", "paused", "archived"}

\* "ask" is llm.request; an llm.response is a "call" when it asks for tools, an
\* "answer" when the turn takes it for one, else a "draft".
Events == {"user", "blocked", "resume", "wake", "ask", "call", "result", "answer",
           "draft", "complete", "fail", "pause", "crash", "recovered"}

\* A wake holds its lease and renews it.
Turn == {"load", "iter", "ask", "llm", "tool", "cursor", "drain", "summary",
         "complete", "completeStatus", "advance", "failTurn", "failStatus",
         "abort", "crash"}
Holding == Turn \cup {"release", "releaseCrash"}
PCs == Holding \cup {"idle", "start", "probe", "build", "status", "revive",
         "reviveEvent", "acquire", "settle", "retry", "giveUp",
         "giveUpStatus", "busy", "unwind"}
ApiPCs == {"idle", "sendActivate", "sendResume", "sendMessage", "activate",
           "resume", "enqueue", "pause", "publish"}
SweepPCs == {"absent", "idle", "look", "lookAgain", "count", "recover", "release",
             "abandon", "failEvent"}

(* ----------------------------- the log --------------------------------- *)

Messages == {i \in DOMAIN log : log[i] = "user"}
LastMessage == IF Messages = {} THEN 0
               ELSE CHOOSE i \in Messages : \A j \in Messages : j <= i
Latest == log[Len(log)]

\* _has_stranded_user_message: a message past the durable cursor.
Stranded == \E i \in Messages : i > cursor

\* _actionable_pending_events: any event past the cursor but the harness's own.
Pending == \E i \in DOMAIN log : i > cursor /\ log[i] \notin {"recovered", "wake"}

\* count_recoveries_since_progress.
Streak == Cardinality({i \in DOMAIN log :
            /\ log[i] = "recovered"
            /\ \A j \in DOMAIN log :
                 log[j] \in {"answer", "draft", "call", "result", "user"} => j < i})

\* Deviation: a wake ends a turn.
AbandonedNotWoken == /\ status = "active" /\ ~leaseLive
                     /\ Latest \notin {"complete", "fail", "answer", "draft", "wake"}

\* find_orphaned_sessions, for this session, but for its staleness.
Abandoned == /\ status = "active"
             /\ ~leaseLive
             /\ Latest \notin {"complete", "fail", "answer", "draft"}

\* emit_event, which touches updated_at.
Emit(e) == log' = Append(log, e) /\ fresh' = TRUE

\* Deviations: archived not final; the event's name for the status.
SetStatusUnguarded(s) == status' = s /\ fresh' = TRUE
SetStatusToEvent(s) == status' = "complete" /\ fresh' = TRUE

\* update_session_status: archived is final.
SetStatus(s) == IF status = "archived" THEN UNCHANGED <<status, fresh>>
                ELSE status' = s /\ fresh' = TRUE

Use(i) == left[i] > 0 /\ left' = [left EXCEPT ![i] = @ - 1]

\* A write whose exception the code catches and logs: it happened, or not.
Try(write, kept) == \/ write /\ UNCHANGED left
                    \/ Use("crashes") /\ UNCHANGED kept

\* A session whose first message has been delivered.
Init ==
  /\ status = "active" /\ fresh = TRUE /\ log = <<"user">> /\ cursor = 0
  /\ leaseToken = 0 /\ leaseLive = FALSE /\ issued = 0
  /\ queued = TRUE
  /\ active = [w \in Workers |-> NoTask]
  /\ rewake = [w \in Workers |-> FALSE]
  /\ pc = [t \in Tasks |-> "idle"]
  /\ tok = [t \in Tasks |-> 0]
  /\ steer = [t \in Tasks |-> 0]
  /\ through = [t \in Tasks |-> 0]
  /\ stop = [t \in Tasks |-> FALSE]
  /\ attempt = [t \in Tasks |-> 0]
  /\ api = [c \in Clients |-> "idle"]
  /\ heard = 0 /\ blind = 0
  /\ left \in Scenarios
  /\ sweep = [w \in Workers |-> IF w \in Sweeping[left] THEN "idle" ELSE "absent"]

(* ------------------- the user, through the API ------------------------- *)

ApiTo(c, p) == api' = [api EXCEPT ![c] = p]

\* deliver_message reads the session's status before anything else.
Send(c) == /\ api[c] = "idle" /\ status /= "archived" /\ Use("msgs")
           /\ ApiTo(c, IF status = "active" THEN "sendMessage" ELSE "sendActivate")
           /\ UNCHANGED <<store, leaseVars, queued, workerVars, taskVars, sweep, heard, blind>>

\* The resume and retry routes, on a session read as paused or failed.
Reactivate(c) == /\ api[c] = "idle" /\ status \in {"paused", "failed"} /\ Use("retries")
                 /\ ApiTo(c, "activate")
                 /\ UNCHANGED <<store, leaseVars, queued, workerVars, taskVars, sweep, heard, blind>>

\* update_session_status(active), then session.resume: two transactions.
ApiActivate(c) == /\ api[c] \in {"sendActivate", "activate"}
                  /\ SetStatus("active")
                  /\ ApiTo(c, IF api[c] = "activate" THEN "resume" ELSE "sendResume")
                  /\ UNCHANGED <<log, cursor, leaseVars, queued, workerVars, taskVars, sweep, heard, blind, left>>

ApiResume(c) == /\ api[c] \in {"sendResume", "resume"}
                /\ Emit("resume")
                /\ ApiTo(c, IF api[c] = "resume" THEN "enqueue" ELSE "sendMessage")
                /\ UNCHANGED <<status, cursor, leaseVars, queued, workerVars, taskVars, sweep, heard, blind, left>>

ApiMessage(c) == /\ api[c] = "sendMessage"
                 /\ Emit("user")
                 /\ ApiTo(c, "enqueue")
                 /\ UNCHANGED <<status, cursor, leaseVars, queued, workerVars, taskVars, sweep, heard, blind, left>>

\* A gate refuses the message, and may log that; the session stays reopened.
ApiRefuse(c) == /\ api[c] = "sendMessage"
                /\ Emit("blocked") \/ UNCHANGED <<log, fresh>>
                /\ ApiTo(c, "idle")
                /\ UNCHANGED <<status, cursor, leaseVars, queued, workerVars, taskVars, sweep, heard, blind, left>>

ApiEnqueue(c) == /\ api[c] = "enqueue"
                 /\ queued' = TRUE
                 /\ ApiTo(c, "idle")
                 /\ UNCHANGED <<store, leaseVars, workerVars, taskVars, sweep, heard, blind, left>>

\* pause_session: one already paused is only interrupted again.
Pause(c) == /\ api[c] = "idle" /\ status \in {"active", "paused"} /\ Use("stops")
            /\ ApiTo(c, IF status = "active" THEN "pause" ELSE "publish")
            /\ UNCHANGED <<store, leaseVars, queued, workerVars, taskVars, sweep, heard, blind>>

\* session.pause and the status in one transaction, whatever the status is by now.
ApiPause(c) == /\ api[c] = "pause"
               /\ Emit("pause")
               /\ status' = IF status = "archived" THEN status ELSE "paused"
               /\ ApiTo(c, "publish")
               /\ UNCHANGED <<cursor, leaseVars, queued, workerVars, taskVars, sweep, heard, blind, left>>

\* delete_session archives the session, then interrupts it.
Delete(c) == /\ api[c] = "idle" /\ status /= "archived" /\ Use("deletes")
             /\ status' = "archived" /\ fresh' = TRUE
             /\ ApiTo(c, "publish")
             /\ UNCHANGED <<log, cursor, leaseVars, queued, workerVars, taskVars, sweep, heard, blind>>

\* The interrupt is a pub/sub message: the workers subscribed at that moment
\* hear it, and each stops the harness it has registered for the session.
ApiPublish(c) ==
  /\ api[c] = "publish"
  /\ \E heardBy \in SUBSET Workers :
       stop' = [t \in Tasks |-> \/ stop[t]
                                \/ (Owner[t] \in heardBy /\ active[Owner[t]] = t)]
  /\ ApiTo(c, "idle")
  /\ UNCHANGED <<store, leaseVars, queued, workerVars, pc, tok, steer, through, attempt, sweep, heard, blind, left>>

(* ------------- the dispatcher: from the queue to the wake -------------- *)

Goto(t, p) == pc' = [pc EXCEPT ![t] = p]

\* BZPOPMIN takes the session off the queue.
Pop(t) == /\ pc[t] = "idle" /\ queued
          /\ queued' = FALSE
          /\ Goto(t, "start")
          /\ UNCHANGED <<store, leaseVars, workerVars, tok, steer, through, stop, attempt, api, sweep, heard, blind, left>>

\* A worker already waking the session defers the new wake to that one.
Start(t) ==
  /\ pc[t] = "start"
  /\ IF active[Owner[t]] /= NoTask
       THEN /\ rewake' = [rewake EXCEPT ![Owner[t]] = TRUE]
            /\ Goto(t, "idle")
            /\ attempt' = [attempt EXCEPT ![t] = 0]
       ELSE /\ Goto(t, "probe")
            /\ UNCHANGED <<rewake, attempt>>
  /\ UNCHANGED <<store, leaseVars, queued, active, tok, steer, through, stop, api, sweep, heard, blind, left>>

\* has_live_lease, before a harness is built.
Probe(t) ==
  /\ pc[t] = "probe"
  /\ IF leaseLive
       THEN /\ rewake' = [rewake EXCEPT ![Owner[t]] = FALSE]
            /\ Goto(t, "busy")
       ELSE /\ Goto(t, "build")
            /\ UNCHANGED rewake
  /\ UNCHANGED <<store, leaseVars, queued, active, tok, steer, through, stop, attempt, api, sweep, heard, blind, left>>

\* _requeue_busy_session, after its delay.
Requeue(t) == /\ pc[t] = "busy"
              /\ queued' = TRUE
              /\ Goto(t, "idle")
              /\ attempt' = [attempt EXCEPT ![t] = 0]
              /\ UNCHANGED <<store, leaseVars, workerVars, tok, steer, through, stop, api, sweep, heard, blind, left>>

\* harness_factory has returned: the harness is registered and wake() begins.
Build(t) == /\ pc[t] = "build"
            /\ active' = [active EXCEPT ![Owner[t]] = t]
            /\ Goto(t, "status")
            /\ UNCHANGED <<store, leaseVars, queued, rewake, tok, steer, through, stop, attempt, api, sweep, heard, blind, left>>

\* wake() has returned or raised: _active_harnesses.pop(session_id).
Unregister(t) == active' = [active EXCEPT ![Owner[t]] = NoTask]

\* Deviation: a session at rest is never revived.
ReadStatusNoRevive(t) ==
  /\ pc[t] = "status"
  /\ IF status = "active"
       THEN Goto(t, "acquire") /\ UNCHANGED <<active, stop>>
       ELSE Unregister(t) /\ stop' = [stop EXCEPT ![t] = FALSE] /\ Goto(t, "settle")
  /\ UNCHANGED <<store, leaseVars, queued, rewake, tok, steer, through, attempt, api, sweep, heard, blind, left>>

\* A wake of a stopped session ends here, unless a message no turn has read
\* landed on a session that had come to rest.
ReadStatus(t) ==
  /\ pc[t] = "status"
  /\ \/ /\ status = "active"
        /\ Goto(t, "acquire") /\ UNCHANGED <<active, stop>>
     \/ /\ status \in {"completed", "failed"} /\ Stranded
        /\ Goto(t, "revive") /\ UNCHANGED <<active, stop>>
     \/ /\ status \in {"paused", "archived"} \/ (status /= "active" /\ ~Stranded)
        /\ Unregister(t) /\ stop' = [stop EXCEPT ![t] = FALSE] /\ Goto(t, "settle")
  /\ UNCHANGED <<store, leaseVars, queued, rewake, tok, steer, through, attempt, api, sweep, heard, blind, left>>

Revive(t) == /\ pc[t] = "revive"
             /\ SetStatus("active")
             /\ Goto(t, "reviveEvent")
             /\ UNCHANGED <<log, cursor, leaseVars, queued, workerVars, tok, steer, through, stop, attempt, api, sweep, heard, blind, left>>

ReviveEvent(t) == /\ pc[t] = "reviveEvent"
                  /\ Emit("resume")
                  /\ Goto(t, "acquire")
                  /\ UNCHANGED <<status, cursor, leaseVars, queued, workerVars, tok, steer, through, stop, attempt, api, sweep, heard, blind, left>>

\* Deviations: the lease is taken whoever holds it; its token is always the same.
AcquireAs(t, token) ==
  /\ pc[t] = "acquire"
  /\ issued' = issued + 1
  /\ leaseToken' = token /\ leaseLive' = TRUE
  /\ tok' = [tok EXCEPT ![t] = token]
  /\ Goto(t, "load")
  /\ UNCHANGED <<store, queued, workerVars, steer, through, stop, attempt, api, sweep, heard, blind, left>>
AcquireHeld(t) == AcquireAs(t, issued + 1)
AcquireSameToken(t) == ~leaseLive /\ AcquireAs(t, 1)

\* try_acquire_lease: absent or expired, or the wake is "lease_held".
Acquire(t) ==
  /\ pc[t] = "acquire"
  /\ IF leaseLive
       THEN /\ Unregister(t) /\ stop' = [stop EXCEPT ![t] = FALSE]
            /\ rewake' = [rewake EXCEPT ![Owner[t]] = FALSE]
            /\ Goto(t, "busy")
            /\ UNCHANGED <<leaseVars, tok>>
       ELSE /\ issued' = issued + 1
            /\ leaseToken' = issued + 1 /\ leaseLive' = TRUE
            /\ tok' = [tok EXCEPT ![t] = issued + 1]
            /\ Goto(t, "load")
            /\ UNCHANGED <<workerVars, stop>>
  /\ UNCHANGED <<store, queued, steer, through, attempt, api, sweep, heard, blind, left>>

(* --------------------------- the turn ---------------------------------- *)

\* Cursor and log are read under the lease; with nothing pending the wake
\* ends, else it writes harness.wake and rebuilds the conversation.
Load(t) ==
  /\ pc[t] = "load"
  /\ IF Pending
       THEN /\ Emit("wake")
            /\ steer' = [steer EXCEPT ![t] = LastMessage]
            /\ Goto(t, "iter")
       ELSE /\ Goto(t, "release")
            /\ UNCHANGED <<log, fresh, steer>>
  /\ UNCHANGED <<status, cursor, leaseVars, queued, workerVars, tok, through, stop, attempt, api, sweep, heard, blind, left>>

\* Top of an iteration: a stop wins, then messages typed meanwhile join the
\* turn.  An exhausted budget asks for one last answer instead.
Iterate(t) ==
  /\ pc[t] = "iter"
  /\ \/ /\ stop[t]
        /\ Goto(t, "abort") /\ UNCHANGED steer
     \/ /\ ~stop[t]
        /\ steer' = [steer EXCEPT ![t] = LastMessage]
        /\ Goto(t, "ask")
     \/ /\ BareEnds
        /\ Goto(t, "summary") /\ UNCHANGED steer
  /\ UNCHANGED <<store, leaseVars, queued, workerVars, tok, through, stop, attempt, api, sweep, heard, blind, left>>

\* llm.request is written, then the model is called.
Ask(t) == /\ pc[t] = "ask"
          /\ Emit("ask")
          /\ Goto(t, "llm")
          /\ UNCHANGED <<status, cursor, leaseVars, queued, workerVars, tok, steer, through, stop, attempt, api, sweep, heard, blind, left>>

\* The model was asked with every message up to the steer cursor.
Hear(t) == heard' = IF steer[t] > heard THEN steer[t] ELSE heard

\* The model has answered: a stop heard meanwhile drops the answer.  Malformed
\* tool calls are asked for again, or end the turn.  A reply that is no answer
\* (a provider's error, cut at its length, empty, trailing off, a file or a save
\* only claimed) is kept in the log too; the model is asked on, or the turn fails.
Respond(t) ==
  /\ pc[t] = "llm"
  /\ \/ /\ stop[t]
        /\ Goto(t, "abort")
        /\ UNCHANGED <<log, fresh, through, heard, left>>
     \/ /\ ~stop[t] /\ Use("calls")
        /\ Emit("call") /\ Hear(t)
        /\ \/ /\ Goto(t, "tool") \/ Goto(t, "iter")
              /\ UNCHANGED through
           \/ /\ BareEnds /\ Goto(t, "complete")
              /\ through' = [through EXCEPT ![t] = Len(log) + 1]
     \/ /\ ~stop[t]
        /\ Emit("answer") /\ Hear(t)
        /\ through' = [through EXCEPT ![t] = Len(log) + 1]
        /\ Goto(t, "drain") \/ (BareEnds /\ Goto(t, "complete"))
        /\ UNCHANGED left
     \/ /\ ~stop[t] /\ Use("drafts")
        /\ Emit("draft")
        /\ Goto(t, "iter") \/ Goto(t, "failTurn")
        /\ UNCHANGED <<through, heard>>
  /\ UNCHANGED <<status, cursor, leaseVars, queued, workerVars, tok, steer, stop, attempt, api, sweep, blind>>

\* execute_single_tool: tool.result is written, fenced by no lease.  A call that
\* an interrupt cuts off gets its result too, but moves no cursor.
RunTool(t) ==
  /\ pc[t] = "tool"
  /\ Emit("result")
  /\ \/ /\ through' = [through EXCEPT ![t] = Len(log) + 1]
        /\ Goto(t, "cursor")
     \/ /\ stop[t]
        /\ Goto(t, "iter") /\ UNCHANGED through
  /\ UNCHANGED <<status, cursor, leaseVars, queued, workerVars, tok, steer, stop, attempt, api, sweep, heard, blind, left>>

\* Deviation: no token is compared.
AdvanceUnfenced(t, id) == cursor' = IF cursor < id THEN id ELSE cursor

\* advance_harness_cursor: only under the caller's own token, only forward.
AdvanceTo(t, id) ==
  cursor' = IF leaseToken = tok[t] /\ cursor < id THEN id ELSE cursor

\* A refused advance is only logged; the loop goes on, or a guardrail ends it.
AfterTool(t) ==
  /\ pc[t] = "cursor"
  /\ Try(AdvanceTo(t, through[t]), cursor)
  /\ through' = [through EXCEPT ![t] = 0]
  /\ Goto(t, "iter") \/ (BareEnds /\ Goto(t, "complete"))
  /\ UNCHANGED <<status, fresh, log, leaseVars, queued, workerVars, tok, steer, stop, attempt, api, sweep, heard, blind>>

\* Before the turn completes: a message the answer did not read keeps it going.
Drain(t) ==
  /\ pc[t] = "drain"
  /\ IF LastMessage > steer[t]
       THEN /\ steer' = [steer EXCEPT ![t] = LastMessage]
            /\ through' = [through EXCEPT ![t] = 0]
            /\ Goto(t, "iter")
       ELSE /\ Goto(t, "complete")
            /\ UNCHANGED <<steer, through>>
  /\ UNCHANGED <<store, leaseVars, queued, workerVars, tok, stop, attempt, api, sweep, heard, blind, left>>

\* _request_final_summary: one answer without tools, which may fail.
Summarize(t) ==
  /\ pc[t] = "summary"
  /\ \/ Emit("answer") /\ Hear(t)
     \/ UNCHANGED <<log, fresh, heard>>
  /\ Goto(t, "complete")
  /\ UNCHANGED <<status, cursor, leaseVars, queued, workerVars, tok, steer, through, stop, attempt, api, sweep, blind, left>>

\* Deviation: the cursor always goes to session.complete.
CompleteThroughEnd(t) ==
  /\ pc[t] = "complete"
  /\ Emit("complete")
  /\ through' = [through EXCEPT ![t] = Len(log) + 1]
  /\ Goto(t, "completeStatus")
  /\ UNCHANGED <<status, cursor, leaseVars, queued, workerVars, tok, steer, stop, attempt, api, sweep, heard, blind, left>>

\* _complete_session: session.complete, then the status, then the cursor, to
\* through_event_id or, where there is none, to session.complete itself.
Complete(t) ==
  /\ pc[t] = "complete"
  /\ Emit("complete")
  /\ through' = [through EXCEPT ![t] = IF @ = 0 THEN Len(log) + 1 ELSE @]
  /\ Goto(t, "completeStatus")
  /\ UNCHANGED <<status, cursor, leaseVars, queued, workerVars, tok, steer, stop, attempt, api, sweep, heard, blind, left>>

CompleteStatus(t) ==
  /\ pc[t] = "completeStatus"
  /\ Try(SetStatus("completed"), <<status, fresh>>)
  /\ Goto(t, "advance")
  /\ UNCHANGED <<log, cursor, leaseVars, queued, workerVars, tok, steer, through, stop, attempt, api, sweep, heard, blind>>

\* _fail_session: the same order, and the cursor past session.fail.
FailTurn(t) ==
  /\ pc[t] = "failTurn"
  /\ Emit("fail")
  /\ through' = [through EXCEPT ![t] = Len(log) + 1]
  /\ Goto(t, "failStatus")
  /\ UNCHANGED <<status, cursor, leaseVars, queued, workerVars, tok, steer, stop, attempt, api, sweep, heard, blind, left>>

FailStatus(t) ==
  /\ pc[t] = "failStatus"
  /\ Try(SetStatus("failed"), <<status, fresh>>)
  /\ Goto(t, "advance")
  /\ UNCHANGED <<log, cursor, leaseVars, queued, workerVars, tok, steer, through, stop, attempt, api, sweep, heard, blind>>

AdvanceAtEnd(t) ==
  /\ pc[t] = "advance"
  /\ Try(AdvanceTo(t, through[t]), cursor)
  /\ Goto(t, "release")
  /\ UNCHANGED <<status, fresh, log, leaseVars, queued, workerVars, tok, steer, through, stop, attempt, api, sweep, heard, blind>>

\* _abort_iteration_with_pause: says the pause only if the session is paused.
Abort(t) ==
  /\ pc[t] = "abort"
  /\ IF status = "paused" THEN Emit("pause") ELSE UNCHANGED <<log, fresh>>
  /\ Goto(t, "release")
  /\ UNCHANGED <<status, cursor, leaseVars, queued, workerVars, tok, steer, through, stop, attempt, api, sweep, heard, blind, left>>

\* An exception inside wake(), before or under the lease.
Raise(t) ==
  /\ pc[t] \in (Turn \ {"cursor", "completeStatus", "failStatus", "advance", "crash"})
               \cup {"status", "revive", "reviveEvent", "acquire"}
  /\ Use("crashes")
  /\ Goto(t, "crash")
  /\ UNCHANGED <<store, leaseVars, queued, workerVars, tok, steer, through, stop, attempt, api, sweep, heard, blind>>

\* An exception of _process itself, before wake() begins.
BuildFails(t) ==
  /\ pc[t] \in {"probe", "build"}
  /\ Use("crashes")
  /\ Goto(t, "retry")
  /\ UNCHANGED <<store, leaseVars, queued, workerVars, tok, steer, through, stop, attempt, api, sweep, heard, blind>>

HarnessCrash(t) ==
  /\ pc[t] = "crash"
  /\ Try(Emit("crash"), <<log, fresh>>)
  /\ Goto(t, "releaseCrash")
  /\ UNCHANGED <<status, cursor, leaseVars, queued, workerVars, tok, steer, through, stop, attempt, api, sweep, heard, blind>>

\* wake()'s finally: the lease is deleted only under its own token; one that
\* could not be deleted runs out.
Release(t) ==
  /\ pc[t] \in {"release", "releaseCrash", "unwind"} /\ tok[t] /= 0
  /\ IF leaseToken = tok[t]
       THEN Try(leaseToken' = 0 /\ leaseLive' = FALSE, <<leaseToken, leaseLive>>)
       ELSE UNCHANGED <<leaseToken, leaseLive, left>>
  /\ tok' = [tok EXCEPT ![t] = 0]
  /\ UNCHANGED <<store, issued, queued, workerVars, pc, steer, through, stop, attempt, api, sweep, heard, blind>>

\* Then the dispatcher's: the harness is forgotten.
Return(t) ==
  /\ pc[t] \in {"release", "releaseCrash", "unwind"} /\ tok[t] = 0
  /\ Unregister(t)
  /\ steer' = [steer EXCEPT ![t] = 0]
  /\ through' = [through EXCEPT ![t] = 0]
  /\ stop' = [stop EXCEPT ![t] = FALSE]
  /\ attempt' = [attempt EXCEPT ![t] = IF pc[t] = "unwind" THEN 0 ELSE @]
  /\ Goto(t, CASE pc[t] = "release" -> "settle"
               [] pc[t] = "releaseCrash" -> "retry"
               [] pc[t] = "unwind" -> "idle")
  /\ UNCHANGED <<store, leaseVars, queued, rewake, tok, api, sweep, heard, blind, left>>

\* Deviation: the deferred wake is forgotten.
SettleForgets(t) ==
  /\ pc[t] = "settle"
  /\ rewake' = [rewake EXCEPT ![Owner[t]] = FALSE]
  /\ Goto(t, "idle")
  /\ attempt' = [attempt EXCEPT ![t] = 0]
  /\ UNCHANGED <<store, leaseVars, queued, active, tok, steer, through, stop, api, sweep, heard, blind, left>>

\* _process after a wake that did not crash: a deferred wake is queued now.
Settle(t) ==
  /\ pc[t] = "settle"
  /\ queued' = (queued \/ rewake[Owner[t]])
  /\ rewake' = [rewake EXCEPT ![Owner[t]] = FALSE]
  /\ Goto(t, "idle")
  /\ attempt' = [attempt EXCEPT ![t] = 0]
  /\ UNCHANGED <<store, leaseVars, active, tok, steer, through, stop, api, sweep, heard, blind, left>>

\* _process after a crash: tried again, or failed for good.
Retry(t) ==
  /\ pc[t] = "retry"
  /\ IF attempt[t] + 1 < MaxRetries
       THEN attempt' = [attempt EXCEPT ![t] = @ + 1] /\ Goto(t, "start")
       ELSE attempt' = [attempt EXCEPT ![t] = 0] /\ Goto(t, "giveUp")
  /\ UNCHANGED <<store, leaseVars, queued, workerVars, tok, steer, through, stop, api, sweep, heard, blind, left>>

\* session.fail, then the status: a write that fails is logged, and ends it.
GiveUp(t) ==
  /\ pc[t] = "giveUp"
  /\ \/ Emit("fail") /\ Goto(t, "giveUpStatus") /\ UNCHANGED left
     \/ Use("crashes") /\ Goto(t, "idle") /\ UNCHANGED <<log, fresh>>
  /\ UNCHANGED <<status, cursor, leaseVars, queued, workerVars, tok, steer, through, stop, attempt, api, sweep, heard, blind>>

GiveUpStatus(t) ==
  /\ pc[t] = "giveUpStatus"
  /\ Try(SetStatus("failed"), <<status, fresh>>)
  /\ Goto(t, "idle")
  /\ UNCHANGED <<log, cursor, leaseVars, queued, workerVars, tok, steer, through, stop, attempt, api, sweep, heard, blind>>

(* -------------------- lease renewal, time and death -------------------- *)

\* Deviation: the renewal does not look at the status.
RenewIgnoresStatus(t) ==
  /\ pc[t] \in Turn /\ tok[t] /= 0 /\ leaseToken = tok[t] /\ ~leaseLive
  /\ leaseLive' = TRUE
  /\ UNCHANGED <<store, leaseToken, issued, queued, workerVars, taskVars, api, sweep, heard, blind, left>>

\* _renew_lease_forever, while it has something to change: the expiry, or the
\* stop of a turn whose session is paused or deleted.
Renew(t) ==
  /\ pc[t] \in Turn /\ tok[t] /= 0 /\ leaseToken = tok[t]
  /\ ~leaseLive \/ (status \in {"paused", "archived"} /\ ~stop[t])
  /\ leaseLive' = TRUE
  /\ stop' = [stop EXCEPT ![t] = @ \/ status \in {"paused", "archived"}]
  /\ UNCHANGED <<store, leaseToken, issued, queued, workerVars, pc, tok, steer, through, attempt, api, sweep, heard, blind, left>>

\* ... and when its token is no longer the lease's: the turn is cancelled
\* where it stands.
Detach(t) ==
  /\ pc[t] \in Turn /\ tok[t] /= 0 /\ leaseToken /= tok[t]
  /\ Goto(t, "unwind")
  /\ UNCHANGED <<store, leaseVars, queued, workerVars, tok, steer, through, stop, attempt, api, sweep, heard, blind, left>>

\* The lease's TTL passes: its owner is dead, or (Stalls) only stuck.
Expire ==
  /\ leaseLive
  /\ Stalls \/ \A t \in Tasks : tok[t] /= leaseToken
  /\ leaseLive' = FALSE
  /\ UNCHANGED <<store, leaseToken, issued, queued, workerVars, taskVars, api, sweep, heard, blind, left>>

\* stale_seconds pass with no event: nobody works on the session, or (Stalls)
\* whoever does is stuck.
Age ==
  /\ fresh /\ Abandoned
  /\ \/ Stalls
     \/ (\A t \in Tasks : pc[t] = "idle") /\ (\A c \in Clients : api[c] = "idle")
  /\ fresh' = FALSE
  /\ UNCHANGED <<status, log, cursor, leaseVars, queued, workerVars, taskVars, api, sweep, heard, blind, left>>

\* The process is killed: what it kept in memory is gone, what it wrote stays.
Die(w) ==
  /\ Use("deaths")
  /\ pc' = [t \in Tasks |-> IF Owner[t] = w THEN "idle" ELSE pc[t]]
  /\ tok' = [t \in Tasks |-> IF Owner[t] = w THEN 0 ELSE tok[t]]
  /\ steer' = [t \in Tasks |-> IF Owner[t] = w THEN 0 ELSE steer[t]]
  /\ through' = [t \in Tasks |-> IF Owner[t] = w THEN 0 ELSE through[t]]
  /\ stop' = [t \in Tasks |-> IF Owner[t] = w THEN FALSE ELSE stop[t]]
  /\ attempt' = [t \in Tasks |-> IF Owner[t] = w THEN 0 ELSE attempt[t]]
  /\ active' = [active EXCEPT ![w] = NoTask]
  /\ rewake' = [rewake EXCEPT ![w] = FALSE]
  /\ sweep' = [sweep EXCEPT ![w] = IF @ = "absent" THEN "absent" ELSE "idle"]
  /\ UNCHANGED <<store, leaseVars, queued, api, heard, blind>>

(* ------------------------- the orphan sweep ---------------------------- *)

SweepTo(w, p) == sweep' = [sweep EXCEPT ![w] = p]

SweepFind(w) == /\ sweep[w] = "idle" /\ Abandoned /\ ~fresh
                /\ SweepTo(w, "look")
                /\ UNCHANGED <<store, leaseVars, queued, workerVars, taskVars, api, heard, blind, left>>

\* _waiting_their_turn looks at the queue twice; _leave_waiting leaves a session
\* found there as it is, and touches it.
SweepLook(w) ==
  /\ sweep[w] \in {"look", "lookAgain"}
  /\ IF queued
       THEN SweepTo(w, "idle") /\ fresh' = TRUE
       ELSE /\ SweepTo(w, IF sweep[w] = "look" THEN "lookAgain" ELSE "count")
            /\ UNCHANGED fresh
  /\ UNCHANGED <<status, log, cursor, leaseVars, queued, workerVars, taskVars, api, heard, blind, left>>

\* Deviation: the ceiling is off by one.
SweepCountOff(w) ==
  /\ sweep[w] = "count"
  /\ SweepTo(w, IF Streak > MaxRecoveries THEN "abandon" ELSE "recover")
  /\ UNCHANGED <<store, leaseVars, queued, workerVars, taskVars, api, heard, blind, left>>

\* The recoveries since progress decide; a count that fails lets the session pass.
SweepCount(w) ==
  /\ sweep[w] = "count"
  /\ \/ /\ SweepTo(w, IF Streak >= MaxRecoveries THEN "abandon" ELSE "recover")
        /\ UNCHANGED <<blind, left>>
     \/ /\ Use("crashes")
        /\ SweepTo(w, "recover") /\ blind' = blind + 1
  /\ UNCHANGED <<store, leaseVars, queued, workerVars, taskVars, api, heard>>

SweepRecover(w) ==
  /\ sweep[w] = "recover"
  /\ Emit("recovered")
  /\ SweepTo(w, "release")
  /\ UNCHANGED <<status, cursor, leaseVars, queued, workerVars, taskVars, api, heard, blind, left>>

\* release_stale_lease deletes the row only if it has expired.
ReleaseStale == /\ leaseToken' = IF leaseLive THEN leaseToken ELSE 0
                /\ UNCHANGED <<leaseLive, issued>>

SweepRelease(w) ==
  /\ sweep[w] = "release"
  /\ ReleaseStale
  /\ queued' = TRUE
  /\ SweepTo(w, "idle")
  /\ UNCHANGED <<store, workerVars, taskVars, api, heard, blind, left>>

\* _abandon_unrecoverable_session: fail_if_active, and only then session.fail.
SweepAbandon(w) ==
  /\ sweep[w] = "abandon"
  /\ ReleaseStale
  /\ IF status = "active"
       THEN status' = "failed" /\ fresh' = TRUE /\ SweepTo(w, "failEvent")
       ELSE SweepTo(w, "idle") /\ UNCHANGED <<status, fresh>>
  /\ UNCHANGED <<log, cursor, queued, workerVars, taskVars, api, heard, blind, left>>

SweepFail(w) ==
  /\ sweep[w] = "failEvent"
  /\ Emit("fail")
  /\ SweepTo(w, "idle")
  /\ UNCHANGED <<status, cursor, leaseVars, queued, workerVars, taskVars, api, heard, blind, left>>

(* ------------------------- the specification --------------------------- *)

User(c) == Send(c) \/ Reactivate(c) \/ Pause(c) \/ Delete(c)
Api(c) == \/ ApiActivate(c) \/ ApiResume(c) \/ ApiMessage(c) \/ ApiRefuse(c)
          \/ ApiEnqueue(c) \/ ApiPause(c) \/ ApiPublish(c)
Dispatch(t) == \/ Start(t) \/ Probe(t) \/ Requeue(t) \/ Build(t)
               \/ Settle(t) \/ Retry(t) \/ GiveUp(t) \/ GiveUpStatus(t)
Wake(t) == \/ ReadStatus(t) \/ Revive(t) \/ ReviveEvent(t) \/ Acquire(t) \/ Load(t)
           \/ Iterate(t) \/ Ask(t) \/ Respond(t) \/ RunTool(t) \/ AfterTool(t) \/ Drain(t)
           \/ Summarize(t) \/ Complete(t) \/ CompleteStatus(t) \/ FailTurn(t)
           \/ FailStatus(t) \/ AdvanceAtEnd(t) \/ Abort(t) \/ HarnessCrash(t)
           \/ Release(t) \/ Return(t)
Sweep(w) == \/ SweepFind(w) \/ SweepLook(w) \/ SweepCount(w) \/ SweepRecover(w)
            \/ SweepRelease(w) \/ SweepAbandon(w) \/ SweepFail(w)

Next == \/ Expire \/ Age
        \/ \E c \in Clients : User(c) \/ Api(c)
        \/ \E t \in Tasks : Pop(t) \/ Dispatch(t) \/ Wake(t) \/ Raise(t)
                            \/ BuildFails(t) \/ Renew(t) \/ Detach(t)
        \/ \E w \in Sweepers : Sweep(w)
        \/ \E w \in Workers : Die(w)

Spec == Init /\ [][Next]_vars

\* A request that began is carried through; a worker's loop keeps popping, its
\* renewals and its sweep keep running; time passes, so a dead worker's lease
\* runs out.  Nothing makes the user, an exception or a death happen.
Background ==
  /\ \A c \in Clients : WF_vars(Api(c))
  /\ WF_vars(Expire /\ \A t \in Tasks : tok[t] /= leaseToken)
  /\ WF_vars(Age)
  /\ WF_vars(\E t \in Tasks : Pop(t))
  /\ \A t \in Tasks : WF_vars(Renew(t)) /\ WF_vars(Detach(t))
  /\ \A w \in Sweepers : WF_vars(Sweep(w))

\* Models and tools answer in the end.
FairSpec == /\ Spec /\ Background
            /\ \A t \in Tasks : WF_vars(Dispatch(t) \/ Wake(t))

\* They may hang for ever, but an interrupt cuts them off.
Cuttable(t) == pc[t] \in {"llm", "tool"} => stop[t]
HungSpec == /\ Spec /\ Background
            /\ \A t \in Tasks : WF_vars(Dispatch(t) \/ (Wake(t) /\ Cuttable(t)))

(* ---------------------------- properties ------------------------------- *)

StoreOK == /\ status \in Statuses /\ fresh \in BOOLEAN
           /\ log \in Seq(Events) /\ cursor \in Nat
LeaseOK == leaseToken \in Nat /\ leaseLive \in BOOLEAN /\ issued \in Nat
TasksOK == /\ pc \in [Tasks -> PCs]
           /\ tok \in [Tasks -> Nat] /\ steer \in [Tasks -> Nat] /\ through \in [Tasks -> Nat]
           /\ stop \in [Tasks -> BOOLEAN] /\ attempt \in [Tasks -> Nat]
WorkersOK == /\ queued \in BOOLEAN
             /\ active \in [Workers -> Tasks \cup {NoTask}]
             /\ rewake \in [Workers -> BOOLEAN] /\ sweep \in [Workers -> SweepPCs]
UserOK == /\ api \in [Clients -> ApiPCs] /\ left \in [Inputs -> Nat]
          /\ heard \in Nat /\ blind \in Nat

\* Every variable has its type.
TypeOK == StoreOK /\ LeaseOK /\ TasksOK /\ WorkersOK /\ UserOK

\* The discipline of the lease: a token is issued once and to one task, the row
\* holds the newest or none, a turn has one, and (unless processes stall) the
\* row is its own and alive.  No cursor is aimed past the log.
LeaseDiscipline ==
  /\ leaseToken \in {0, issued}
  /\ leaseLive => leaseToken /= 0
  /\ \A t \in Tasks : /\ tok[t] <= issued
                      /\ pc[t] \in Turn \ {"crash"} => tok[t] /= 0
                      /\ through[t] <= Len(log)
                      /\ tok[t] /= 0 /\ ~Stalls => leaseLive /\ tok[t] = leaseToken
                      /\ \A u \in Tasks \ {t} : tok[t] /= 0 => tok[t] /= tok[u]

\* A zombie never commits: whoever moves the cursor holds the newest lease
\* token ever issued, and moves it forward, to an event of the log.
CursorFenced ==
  [][cursor' /= cursor =>
       /\ cursor < cursor' /\ cursor' <= Len(log)
       /\ \E t \in Tasks : tok[t] = issued /\ tok[t] = leaseToken /\ issued /= 0]_vars

\* Through crashes, stalls, steals and sweeps, the session keeps the promise of
\* SessionOwner: its owner is the task whose token the lease row holds.
Holder == {t \in Tasks : tok[t] /= 0 /\ tok[t] = leaseToken}
Store == INSTANCE SessionOwner WITH
  Turns <- Tasks, Events <- Events, owner <- Holder, alive <- leaseLive,
  done <- cursor, log <- log
KeepsOwnership == Store!Spec

\* Two turns never own the session together.  Where renewals keep up, no two
\* tasks are ever inside a turn; where they do not, at most one of them still
\* holds the lease.
ExclusiveTurn ==
  \A t, u \in Tasks :
    t /= u /\ tok[t] /= 0 /\ tok[u] /= 0 => Stalls /\ tok[t] /= tok[u]

\* A deleted session stays deleted, whatever its turn, its revival, its sweep
\* or a racing API request still writes.
ArchivedFinal == [][status = "archived" => status' = "archived"]_vars

Unanswered == \E i \in Messages : i > heard

\* Between turns the cursor has passed no message that no request of the model's
\* carried, unless its turn failed: neither the next wake nor the
\* stranded-message check would find such a message.
NothingSkipped ==
  (\A t \in Tasks : tok[t] = 0) =>
    \A i \in Messages : i <= cursor /\ i > heard =>
      \E j \in DOMAIN log : j > i /\ log[j] = "fail"

\* No message is forgotten: once nobody works on the session and it is off the
\* queue, an unanswered message is one its user stopped, one that failed, or one
\* the orphan sweep can find, or overlooks: a last reply that was no answer reads
\* to it like one.
AtRest == /\ \A t \in Tasks : pc[t] = "idle"
          /\ \A c \in Clients : api[c] = "idle"
          /\ \A w \in Workers : sweep[w] \in {"absent", "idle"}
          /\ ~queued
Overlooked == AtRest /\ Latest = "draft"
NothingForgotten ==
  AtRest /\ Unanswered => Abandoned \/ Overlooked \/ status \in {"paused", "archived", "failed"}

\* The sweep's ceiling holds up to the replicas that count at the same time and the
\* recoveries decided without a count.
Replicas == {w \in Sweepers : sweep[w] /= "absent"}
RecoveryBounded == Streak + 1 <= MaxRecoveries + Cardinality(Replicas) + blind

\* The log says that what the user last sent ended otherwise, and was not resumed.
Ended == \E i \in DOMAIN log : /\ i > LastMessage /\ log[i] \in {"fail", "pause"}
                              /\ \A j \in DOMAIN log : j > i => log[j] /= "resume"

\* Every message is answered, unless its session is stopped, fails or is overlooked.
EveryMessageAnswered ==
  Unanswered ~> (~Unanswered \/ Ended \/ Overlooked \/ status \in {"paused", "archived", "failed"})

\* A pause or delete ends the turn it finds, even one that hangs and even when
\* its signal is lost.
StopIsHeard ==
  status \in {"paused", "archived"}
    ~> (status \notin {"paused", "archived"} \/ \A t \in Tasks : pc[t] \notin Turn)

\* A session left in the middle of a turn is taken up again, until a turn ends
\* or the session is failed, paused or deleted, unless it is overlooked.
MidTurn == Latest \in {"user", "wake", "ask", "call", "result", "draft", "crash"}
TurnOver == Latest \in {"answer", "complete", "fail"} \/ status /= "active"
MidTurnResumes == (MidTurn /\ status = "active") ~> (TurnOver \/ Overlooked)

\* Crash recovery takes a session on from where it was: what a dead worker left
\* in the middle is answered by another, never given up.
RecoveryContinues ==
  (MidTurn /\ status = "active") ~> (~Unanswered /\ Latest \in {"answer", "complete"})
=============================================================================
