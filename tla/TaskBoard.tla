----------------------------- MODULE TaskBoard -----------------------------
(***************************************************************************)
(* The subagent task layer (surogates/tasks): the tasks of one coordinator,*)
(* a DAG of durable goals, each tried by one worker session at a time.     *)
(*                                                                         *)
(* A task is claimed, and a session spawned for it, by the coordinator's   *)
(* own spawn_task call (tasks/service.py) or by a dispatcher tick, one in  *)
(* every worker process (tasks/dispatcher.py).  The session settles the    *)
(* task with its tools (tasks/tools.py), or the tick does once it ended.   *)
(*                                                                         *)
(* A step is one transaction, one Redis call or one read.  A session is    *)
(* its row's status and what is being done with it: its turns are          *)
(* SessionTurn's.  No step here stalls for as long as a turn takes, or the *)
(* orphan sweep to call a session stale.                                   *)
(***************************************************************************)
EXTENDS Integers, Sequences, FiniteSets

CONSTANTS
  Tasks,        \* the tasks the coordinator may create
  Parents,      \* Parents[t]: the tasks spawn_task names as t's parents
  Tickers,      \* the worker processes, each with its tick
  MaxAttempts,  \* max_attempts
  Scenarios,    \* how often the environment may do each input, the choices
  Ticking       \* Ticking[s]: the processes that tick in scenario s

\* "fails": a call raises; "perms": a spawn that can never succeed; "losses": a
\* write whose failure is logged and stepped over; "deaths": of a worker process.
Inputs == {"fails", "perms", "losses", "deaths", "crashes", "blocks", "unblocks",
           "cancels", "cascades", "pauses", "creates"}

ASSUME ParentsAssumption == Parents \in [Tasks -> SUBSET Tasks]
ASSUME TickersAssumption == Tickers \cap Tasks = {}
ASSUME AttemptsAssumption == MaxAttempts \in Nat \ {0}
ASSUME ScenarioAssumption == Scenarios \subseteq [Inputs -> Nat]
ASSUME TickingAssumption == Ticking \in [Scenarios -> SUBSET Tickers]

NoTask == "no task"
ASSUME NoTaskIsNone == NoTask \notin Tasks

\* The spawn_task call of task t is the process t.
Procs == Tickers \cup Tasks

VARIABLES
  status,    \* tasks.status
  attempts,  \* tasks.attempt_count
  cur,       \* tasks.current_session_id, 0 for NULL
  sess,      \* the worker sessions, in the order they were created
  pc,        \* pc[p]: where the tick, or the spawn_task call, is
  job,       \* job[p]: the task p has claimed
  snap,      \* snap[p]: its attempt_count as the claim returned it
  child,     \* child[p]: the session p created for it
  seen,      \* seen[p][t]: the status p's finalize step is to write for t
  tried,     \* tried[p]: failed_this_tick
  cascade,   \* a mission's cascading cancel: its step and the sessions it read
  told,      \* told[t]: what the coordinator was told of t since its last claim
  begun,     \* (history) the tasks some process has claimed
  finished,  \* (history) the tasks that have been done
  crashed,   \* (history) crashed[t]: t's attempts settled as crashes
  crossed,   \* (history) the tasks two ticks have judged at once
  met,       \* (history) the inputs that have happened
  left       \* left[i]: how often input i may yet happen

board == <<status, attempts, cur>>
held == <<job, snap, child>>
found == <<seen, tried>>
local == <<held, found>>
history == <<begun, finished, crashed, crossed>>
input == <<met, left>>
vars == <<status, attempts, cur, sess, pc, job, snap, child, seen, tried,
          cascade, told, begun, finished, crashed, crossed, met, left>>

Statuses == {"absent", "todo", "ready", "running", "blocked", "done", "failed",
             "cancelled"}
Terminal == {"done", "failed", "cancelled"}

\* stage: "idle", no worker on it and its turn not over; "turn"; "telling", in
\* worker_block after its commit; "closing", its last event written and its status
\* not; "reporting", both written; "rest".
Stages == {"idle", "turn", "telling", "closing", "reporting", "rest"}
Sessions == [task : Tasks, status : {"active", "completed", "failed", "paused"},
             stage : Stages, end : {"completed", "failed"}]

TickPCs == {"idle", "read", "commit", "notify", "claim", "spawn", "block", "rollback",
            "tell", "wire", "enqueue"}
CallPCs == {"none", "eager", "spawn", "handBack", "wire", "enqueue", "idle"}
Verdicts == {"none", "done", "ready", "failed"}
NoVerdict == [t \in Tasks |-> "none"]
AtRest == [pc |-> "idle", sids |-> {}]

Live(s) == sess[s].status = "active" /\ sess[s].stage \in {"idle", "turn", "telling"}
Attempts(t) == {s \in DOMAIN sess : sess[s].task = t}

Use(i) == left[i] > 0 /\ left' = [left EXCEPT ![i] = @ - 1] /\ met' = met \cup {i}
Goto(p, l) == pc' = [pc EXCEPT ![p] = l]

\* p goes on without the task it had claimed; its tick, or call, is over.
Drop(p, l) == /\ Goto(p, l)
              /\ job' = [job EXCEPT ![p] = IF p \in Tasks THEN p ELSE NoTask]
              /\ snap' = [snap EXCEPT ![p] = 0] /\ child' = [child EXCEPT ![p] = 0]
Over(p) == /\ Drop(p, "idle")
           /\ IF p \in Tasks THEN UNCHANGED found
              ELSE /\ seen' = [seen EXCEPT ![p] = NoVerdict]
                   /\ tried' = [tried EXCEPT ![p] = {}]

Tell(t, e) == told' = [told EXCEPT ![t] = @ \cup {e}]
Stage(s, l) == sess' = [sess EXCEPT ![s].stage = l]

\* The workers subscribe to <prefix>:*; cancel_task and the two worker tools publish
\* on <prefix><session>, a mission's cascade on <prefix>:<session>.
Subscribed == {"prefix:id"}

\* The stage an interrupt published on channel leaves a session in: the turn of one
\* that is heard is aborted, its session still active.
Interrupt(channel, stage) ==
  IF channel \in Subscribed /\ stage = "turn" THEN "idle" ELSE stage

\* A write whose failure is logged and stepped over: it happened, or not.
Try(write, kept) == (write /\ UNCHANGED input) \/ (Use("losses") /\ UNCHANGED kept)

Init ==
  /\ status = [t \in Tasks |-> "absent"]
  /\ attempts = [t \in Tasks |-> 0] /\ cur = [t \in Tasks |-> 0]
  /\ sess = <<>>
  /\ job = [p \in Procs |-> IF p \in Tasks THEN p ELSE NoTask]
  /\ snap = [p \in Procs |-> 0] /\ child = [p \in Procs |-> 0]
  /\ seen = [p \in Tickers |-> NoVerdict] /\ tried = [p \in Tickers |-> {}]
  /\ cascade = AtRest
  /\ told = [t \in Tasks |-> {}]
  /\ begun = {} /\ finished = {} /\ crashed = [t \in Tasks |-> 0] /\ crossed = {}
  /\ met = {} /\ left \in Scenarios
  /\ pc = [p \in Procs |-> IF p \in Ticking[left] THEN "idle" ELSE "none"]

ParentsDone(t) == \A q \in Parents[t] : status[q] = "done"

(* ----------------------- spawn_task: create and claim ------------------ *)

\* Every parent must exist; the task is todo while one is not done, and the call over.
Insert(t) ==
  /\ pc[t] = "none" /\ Use("creates")
  /\ \A q \in Parents[t] : status[q] /= "absent"
  /\ status' = [status EXCEPT ![t] = IF ParentsDone(t) THEN "ready" ELSE "todo"]
  /\ Goto(t, IF ParentsDone(t) THEN "eager" ELSE "idle")
  /\ UNCHANGED <<attempts, cur, sess, local, cascade, told, history>>

\* UPDATE ... SET running WHERE status = 'ready' RETURNING, for p.
Claim(p, t) ==
  /\ status[t] = "ready"
  /\ status' = [status EXCEPT ![t] = "running"]
  /\ attempts' = [attempts EXCEPT ![t] = @ + 1]
  /\ job' = [job EXCEPT ![p] = t]
  /\ snap' = [snap EXCEPT ![p] = attempts'[t]]
  /\ told' = [told EXCEPT ![t] = {}]
  /\ begun' = begun \cup {t}
  /\ Goto(p, "spawn")
  /\ UNCHANGED <<cur, sess, child, found, cascade, finished, crashed, crossed, input>>

EagerClaim(t) == pc[t] = "eager" /\ Claim(t, t)

\* The tick has it: it is no longer ready.
EagerLost(t) == /\ pc[t] = "eager" /\ status[t] /= "ready"
                /\ Goto(t, "idle")
                /\ UNCHANGED <<board, sess, local, cascade, told, history, input>>

(* ------------------------------ tasks_tick ------------------------------ *)

\* Deviation: any parent that is over frees its children.
PromoteOver(p) ==
  /\ pc[p] = "idle"
  /\ status' = [t \in Tasks |->
       IF status[t] = "todo" /\ \A q \in Parents[t] : status[q] \in Terminal
       THEN "ready" ELSE status[t]]
  /\ Goto(p, "read")
  /\ UNCHANGED <<attempts, cur, sess, local, cascade, told, history, input>>

\* _promote_todo_to_ready: one UPDATE.
Promote(p) ==
  /\ pc[p] = "idle"
  /\ status' = [t \in Tasks |->
       IF status[t] = "todo" /\ ParentsDone(t) THEN "ready" ELSE status[t]]
  /\ Goto(p, "read")
  /\ UNCHANGED <<attempts, cur, sess, local, cascade, told, history, input>>

\* Deviation: a session at rest counts as ended whatever its status.
EndedAtRest(s) == sess[s].stage \in {"idle", "rest"}

\* Deviation: a paused session is not over.
EndedNotPaused(s) == sess[s].status \in {"completed", "failed"}

\* _ENDED_SESSION_STATUSES
Ended(s) == sess[s].status /= "active"

\* Deviation: the attempt over the limit is tried too.
VerdictLate(t) ==
  IF status[t] /= "running" \/ cur[t] = 0 THEN "none"
  ELSE IF ~Ended(cur[t]) THEN "none"
  ELSE IF sess[cur[t]].status = "completed" THEN "done"
  ELSE IF attempts[t] > MaxAttempts THEN "failed" ELSE "ready"

\* classify_attempt_outcome: the two outcome events go to the coordinator's log,
\* never to the session's own, so its status decides.  The JOIN leaves out a
\* task with no session.
Verdict(t) ==
  IF status[t] /= "running" \/ cur[t] = 0 THEN "none"
  ELSE IF ~Ended(cur[t]) THEN "none"
  ELSE IF sess[cur[t]].status = "completed" THEN "done"
  ELSE IF attempts[t] >= MaxAttempts THEN "failed" ELSE "ready"

\* What p judges while another tick has judged it and not written that yet, or has
\* claimed it again and is starting its new session: p reads the old one.
Starting == {"spawn", "block", "rollback", "handBack", "wire", "enqueue"}
Crossing(p) ==
  {t \in Tasks : Verdict(t) /= "none" /\ \E q \in Tickers \ {p} :
                   \/ pc[q] = "commit" /\ seen[q][t] /= "none"
                   \/ pc[q] \in Starting /\ job[q] = t}

\* _finalize_ended_sessions reads the rows, and then each session's events ...
FinalizeRead(p) ==
  /\ pc[p] = "read"
  /\ seen' = [seen EXCEPT ![p] = [t \in Tasks |-> Verdict(t)]]
  /\ crossed' = crossed \cup Crossing(p)
  /\ Goto(p, IF seen'[p] = NoVerdict THEN "claim" ELSE "commit")
  /\ UNCHANGED <<board, sess, held, tried, cascade, told, begun, finished, crashed, input>>

\* ... and writes what they call for, by the rows' ids alone ...
FinalizeCommit(p) ==
  /\ pc[p] = "commit"
  /\ status' = [t \in Tasks |-> IF seen[p][t] = "none" THEN status[t] ELSE seen[p][t]]
  /\ seen' = [seen EXCEPT ![p] = [t \in Tasks |->
                IF seen[p][t] = "failed" THEN "failed" ELSE "none"]]
  /\ finished' = finished \cup {t \in Tasks : seen[p][t] = "done"}
  /\ crashed' = [t \in Tasks |->
       IF seen[p][t] \in {"ready", "failed"} THEN crashed[t] + 1 ELSE crashed[t]]
  /\ Goto(p, "notify")
  /\ UNCHANGED <<attempts, cur, sess, held, tried, cascade, told, begun, crossed, input>>

\* ... and tells the coordinator of each that failed.
Notify(p) ==
  /\ pc[p] = "notify"
  /\ \/ \E t \in Tasks : /\ seen[p][t] = "failed"
                         /\ Try(Tell(t, "task"), told)
                         /\ seen' = [seen EXCEPT ![p][t] = "none"]
                         /\ UNCHANGED pc
     \/ /\ seen[p] = NoVerdict
        /\ Goto(p, "claim")
        /\ UNCHANGED <<seen, told, input>>
  /\ UNCHANGED <<board, sess, held, tried, cascade, history>>

\* _enqueue_ready_tasks claims one ready task after another ...
TickClaim(p) == \E t \in Tasks \ tried[p] : pc[p] = "claim" /\ Claim(p, t)

\* ... until it finds none, and the tick is over.
TickEnds(p) ==
  /\ pc[p] = "claim"
  /\ \A t \in Tasks \ tried[p] : status[t] /= "ready"
  /\ Over(p)
  /\ UNCHANGED <<board, sess, cascade, told, history, input>>

(* ------------------- the claimed task's session, by either ------------- *)

NewSession(t) == [task |-> t, status |-> "active", stage |-> "idle", end |-> "completed"]

\* _create_session_for_task: the row, its message, the coordinator's event.
Spawn(p) ==
  /\ pc[p] = "spawn"
  /\ sess' = Append(sess, NewSession(job[p]))
  /\ child' = [child EXCEPT ![p] = Len(sess) + 1]
  /\ Goto(p, "wire")
  /\ UNCHANGED <<board, job, snap, found, cascade, told, history, input>>

\* It raises, with or without the session's row left behind.  (tenant_for_task, called
\* first, builds a record from the row and has nothing to raise on.)
SpawnFails(p) ==
  /\ pc[p] = "spawn"
  /\ sess' \in {sess, Append(sess, NewSession(job[p]))}
  /\ \/ Use("fails") /\ Goto(p, IF p \in Tasks THEN "handBack"
                                ELSE IF snap[p] >= MaxAttempts THEN "block" ELSE "rollback")
     \/ Use("perms") /\ sess' = sess /\ Goto(p, IF p \in Tasks THEN "handBack" ELSE "block")
  /\ IF p \in Tickers THEN tried' = [tried EXCEPT ![p] = @ \cup {job[p]}]
     ELSE UNCHANGED tried
  /\ UNCHANGED <<board, held, seen, cascade, told, history>>

\* _block_claim, whatever the status by now ...
BlockClaim(p) ==
  /\ pc[p] = "block"
  /\ \/ /\ status' = [status EXCEPT ![job[p]] = "blocked"]
        /\ attempts' = [attempts EXCEPT ![job[p]] = @ - 1]
        /\ Goto(p, "tell") /\ UNCHANGED <<held, input>>
     \/ /\ Use("losses")
        /\ Drop(p, "claim") /\ UNCHANGED <<status, attempts>>
  /\ UNCHANGED <<cur, sess, found, cascade, told, history>>

\* Deviation: the block is left to the UI.
TellNobody(p) ==
  /\ pc[p] = "tell" /\ Drop(p, "claim")
  /\ UNCHANGED <<board, sess, found, cascade, told, history, input>>

\* ... and TASK_BLOCKED.
TellBlocked(p) ==
  /\ pc[p] = "tell"
  /\ Try(Tell(job[p], "task"), told)
  /\ Drop(p, "claim")
  /\ UNCHANGED <<board, sess, found, cascade, history>>

\* _rollback_claim of the tick: the attempt is spent.
Rollback(p) ==
  /\ pc[p] = "rollback"
  /\ Try(/\ status' = [status EXCEPT ![job[p]] = "ready"]
         /\ crashed' = [crashed EXCEPT ![job[p]] = @ + 1], <<status, crashed>>)
  /\ Drop(p, "claim")
  /\ UNCHANGED <<attempts, cur, sess, found, cascade, told, begun, finished, crossed>>

\* _rollback_claim of the call, which then raises: the attempt is given back.
HandBack(t) ==
  /\ pc[t] = "handBack"
  /\ Try(/\ status' = [status EXCEPT ![t] = "ready"]
         /\ attempts' = [attempts EXCEPT ![t] = @ - 1], <<status, attempts>>)
  /\ Over(t)
  /\ UNCHANGED <<cur, sess, cascade, told, history>>

\* current_session_id, whatever the status by now.
Wire(p) ==
  /\ pc[p] = "wire"
  /\ Try(cur' = [cur EXCEPT ![job[p]] = child[p]], cur)
  /\ Goto(p, "enqueue")
  /\ UNCHANGED <<status, attempts, sess, local, cascade, told, history>>

\* enqueue_session: a worker takes the session up.
Enqueue(p) ==
  /\ pc[p] = "enqueue"
  /\ sess' = [sess EXCEPT ![child[p]].stage = IF @ = "idle" THEN "turn" ELSE @]
  /\ Drop(p, IF p \in Tasks THEN "idle" ELSE "claim")
  /\ UNCHANGED <<board, found, cascade, told, history, input>>

\* An exception nothing catches ends the tick, or the call.
Raises(p) ==
  /\ pc[p] \in {"read", "commit", "claim", "eager", "enqueue"}
  /\ Use("fails")
  /\ Over(p)
  /\ UNCHANGED <<board, sess, cascade, told, history>>

\* The worker process that runs p dies; its tick starts again.
Dies(p) ==
  /\ pc[p] \notin {"idle", "none"}
  /\ Use("deaths")
  /\ Over(p)
  /\ UNCHANGED <<board, sess, cascade, told, history>>

(* -------------------- the worker session and its tools ----------------- *)

\* Deviation: an attempt that is the task's last is current, whatever became of the task.
CurrentAny(s) == cur[sess[s].task] = s

\* What both tools check, under the task's row lock.
Current(s) == cur[sess[s].task] = s /\ status[sess[s].task] = "running"

\* worker_complete, and its interrupt of its own session.
WorkerComplete(s) ==
  /\ sess[s].stage = "turn" /\ Current(s)
  /\ status' = [status EXCEPT ![sess[s].task] = "done"]
  /\ finished' = finished \cup {sess[s].task}
  /\ Stage(s, Interrupt("prefixid", "turn"))
  /\ UNCHANGED <<attempts, cur, pc, local, cascade, told, begun, crashed, crossed, input>>

\* worker_block ...
WorkerBlock(s) ==
  /\ sess[s].stage = "turn" /\ Current(s) /\ Use("blocks")
  /\ status' = [status EXCEPT ![sess[s].task] = "blocked"]
  /\ attempts' = [attempts EXCEPT ![sess[s].task] = @ - 1]
  /\ Stage(s, "telling")
  /\ UNCHANGED <<cur, pc, local, cascade, told, history>>

\* ... which then tells the coordinator and interrupts its own session.
WorkerBlockTells(s) ==
  /\ sess[s].stage = "telling"
  /\ Try(Tell(sess[s].task, "task"), told)
  /\ Stage(s, Interrupt("prefixid", "turn"))
  /\ UNCHANGED <<board, pc, local, cascade, history>>

\* The turn ends, in an answer or by failing: the session's last event ...  A turn
\* outlasts its task's spawn_task call.
TurnEnds(s, how) ==
  /\ sess[s].stage = "turn" /\ pc[sess[s].task] = "idle"
  /\ how = "failed" => Use("crashes")
  /\ how = "completed" => UNCHANGED input
  /\ sess' = [sess EXCEPT ![s].stage = "closing", ![s].end = how]
  /\ UNCHANGED <<board, pc, local, cascade, told, history>>

\* ... its status (_complete_session and _fail_session log a failure) ...
Close(s) ==
  /\ sess[s].stage = "closing"
  /\ \/ /\ sess' = [sess EXCEPT ![s].stage = "reporting", ![s].status = sess[s].end]
        /\ UNCHANGED input
     \/ Use("losses") /\ Stage(s, "reporting")
  /\ UNCHANGED <<board, pc, local, cascade, told, history>>

\* ... and the coordinator's worker.complete or worker.failed.
Report(s) ==
  /\ sess[s].stage = "reporting"
  /\ Try(Tell(sess[s].task, "worker"), told)
  /\ Stage(s, "rest")
  /\ UNCHANGED <<board, pc, local, cascade, history>>

\* Its worker dies.  A turn cut short is an orphan, one whose last event is
\* written is not.
WorkerDies(s) ==
  /\ sess[s].stage \in {"turn", "telling", "closing", "reporting"}
  /\ Use("deaths")
  /\ Stage(s, IF sess[s].stage \in {"turn", "telling"} THEN "idle" ELSE "rest")
  /\ UNCHANGED <<board, pc, local, cascade, told, history>>

\* The orphan sweep queues an active session nobody works on or is spawning.
Sweep(s) ==
  /\ sess[s].stage = "idle" /\ sess[s].status = "active"
  /\ \A p \in Procs : pc[p] \in {"wire", "enqueue"} => child[p] /= s
  /\ Stage(s, "turn")
  /\ UNCHANGED <<board, pc, local, cascade, told, history, input>>

\* A person stops the worker's session, and has it go on.
Pause(s) ==
  /\ sess[s].stage = "turn" /\ sess[s].status = "active" /\ Use("pauses")
  /\ sess' = [sess EXCEPT ![s].status = "paused", ![s].stage = "rest"]
  /\ UNCHANGED <<board, pc, local, cascade, told, history>>

Resume(s) ==
  /\ sess[s].status = "paused"
  /\ sess' = [sess EXCEPT ![s].status = "active", ![s].stage = "turn"]
  /\ UNCHANGED <<board, pc, local, cascade, told, history, input>>

(* --------------------- the coordinator and its mission ----------------- *)

\* The coordinator knows the task by its spawn_task call's answer.
Unblock(t) ==
  /\ pc[t] = "idle" /\ status[t] = "blocked" /\ Use("unblocks")
  /\ status' = [status EXCEPT ![t] = "ready"]
  /\ UNCHANGED <<attempts, cur, sess, pc, local, cascade, told, history>>

\* cancel_task commits and interrupts the session of a running task.
Cancel(t) ==
  /\ pc[t] = "idle" /\ status[t] \notin Terminal /\ Use("cancels")
  /\ status' = [status EXCEPT ![t] = "cancelled"]
  /\ sess' = [s \in DOMAIN sess |->
       IF status[t] = "running" /\ cur[t] = s
       THEN [sess[s] EXCEPT !.stage = Interrupt("prefixid", @)] ELSE sess[s]]
  /\ UNCHANGED <<attempts, cur, pc, local, cascade, told, history>>

\* _cascade_cancel_workers reads the sessions to interrupt ...
CascadeRead ==
  /\ cascade = AtRest /\ Use("cascades")
  /\ cascade' = [pc |-> "update", sids |-> {cur[t] : t \in {u \in Tasks : cur[u] /= 0
       /\ \/ status[u] = "running"
          \/ status[u] = "cancelled" /\ sess[cur[u]].stage \notin {"idle", "rest"}}}]
  /\ UNCHANGED <<board, sess, pc, local, told, history>>

\* ... cancels whatever is not over ...
CascadeUpdate ==
  /\ cascade.pc = "update"
  /\ status' = [t \in Tasks |->
       IF status[t] \in {"todo", "ready", "running", "blocked"} THEN "cancelled"
       ELSE status[t]]
  /\ cascade' = [cascade EXCEPT !.pc = "publish"]
  /\ UNCHANGED <<attempts, cur, sess, pc, local, told, history, input>>

\* ... and interrupts them.
CascadePublish ==
  /\ cascade.pc = "publish"
  /\ \/ \E s \in cascade.sids :
          /\ \/ /\ sess' = [sess EXCEPT ![s].stage = Interrupt("prefix:id", @)]
                /\ UNCHANGED input
             \/ Use("losses") /\ UNCHANGED sess
          /\ cascade' = [cascade EXCEPT !.sids = @ \ {s}]
     \/ cascade.sids = {} /\ cascade' = AtRest /\ UNCHANGED <<sess, input>>
  /\ UNCHANGED <<board, pc, local, told, history>>

(* ------------------------------ the system ------------------------------ *)

Tick(p) == \/ Promote(p) \/ FinalizeRead(p) \/ FinalizeCommit(p) \/ Notify(p)
           \/ TickClaim(p) \/ TickEnds(p)
           \/ BlockClaim(p) \/ TellBlocked(p) \/ Rollback(p)
Call(t) == Insert(t) \/ EagerClaim(t) \/ EagerLost(t) \/ HandBack(t)
Start(p) == Spawn(p) \/ Wire(p) \/ Enqueue(p)
Faults(p) == SpawnFails(p) \/ Raises(p) \/ Dies(p)
Work(s) == \/ WorkerComplete(s) \/ WorkerBlock(s) \/ WorkerBlockTells(s)
           \/ TurnEnds(s, "completed") \/ TurnEnds(s, "failed") \/ Close(s) \/ Report(s)
           \/ WorkerDies(s) \/ Sweep(s) \/ Pause(s) \/ Resume(s)
Coordinate == \/ \E t \in Tasks : Unblock(t) \/ Cancel(t)
              \/ CascadeRead \/ CascadeUpdate \/ CascadePublish

Next == \/ \E p \in Tickers : Tick(p)
        \/ \E t \in Tasks : Call(t)
        \/ \E p \in Procs : Start(p) \/ Faults(p)
        \/ \E s \in DOMAIN sess : Work(s)
        \/ Coordinate

Spec == Init /\ [][Next]_vars

\* A tick runs every few seconds, a call, a tool and a turn's end go on to their
\* end, the sweep comes round, and a turn ends: its iterations are bounded.
FairSpec ==
  /\ Spec
  /\ \A p \in Tickers : WF_vars(Tick(p)) /\ WF_vars(Start(p))
  /\ \A t \in Tasks : WF_vars(EagerClaim(t) \/ EagerLost(t) \/ HandBack(t) \/ Start(t))
  /\ WF_vars(\E s \in DOMAIN sess : WorkerBlockTells(s) \/ Close(s) \/ Report(s))
  /\ WF_vars(\E s \in DOMAIN sess : TurnEnds(s, "completed"))
  /\ WF_vars(\E s \in DOMAIN sess : Sweep(s))
  /\ WF_vars(CascadeUpdate \/ CascadePublish)

(* ------------------------------ properties ------------------------------ *)

BoardOK == /\ status \in [Tasks -> Statuses]
           /\ attempts \in [Tasks -> Int] /\ cur \in [Tasks -> Nat]
ProcsOK == /\ pc \in [Procs -> TickPCs \cup CallPCs]
           /\ job \in [Procs -> Tasks \cup {NoTask}]
           /\ snap \in [Procs -> Int] /\ child \in [Procs -> Nat]
FoundOK == seen \in [Tickers -> [Tasks -> Verdicts]] /\ tried \in [Tickers -> SUBSET Tasks]
SeenOK  == /\ cascade \in [pc : {"idle", "update", "publish"}, sids : SUBSET Nat]
           /\ told \in [Tasks -> SUBSET {"task", "worker"}]
PastOK  == /\ begun \in SUBSET Tasks /\ finished \in SUBSET Tasks
           /\ crashed \in [Tasks -> Nat] /\ crossed \in SUBSET Tasks
InputOK == met \in SUBSET Inputs /\ left \in [Inputs -> Nat]

\* Every variable has its type.
TypeOK == BoardOK /\ sess \in Seq(Sessions) /\ ProcsOK /\ FoundOK /\ SeenOK /\ PastOK /\ InputOK

\* No task is begun before every parent's work has been done: a cancelled or failed
\* parent frees nobody, whatever the ticks, the calls and the cascade do meanwhile
\* (_PROMOTE_SQL; the parents check of create_task_and_spawn).
DependenciesRespected == \A t \in begun : Parents[t] \subseteq finished

\* A retry leaves current_session_id as it was until its own session is wired, so an old
\* worker that is still at work (blocked, with an interrupt nobody hears, or stopped and
\* resumed) passes for the new attempt, and two give back what was claimed once.
Muddled == \/ {"blocks", "pauses"} \subseteq met
           \/ met \cap {"blocks", "pauses"} /= {} /\ met \cap {"fails", "perms"} /= {}

\* However many ticks run, at most max_attempts attempts of a task are settled as crashed,
\* the ones whose spawn failed included, though blocked and refused attempts are given
\* back (the ceilings of _finalize_ended_sessions and _retry_or_block); but not once two
\* ticks judged the task at once, or two of these have met: a worker that blocked, one
\* that was stopped, a spawn that failed.
CrashesBounded == Muddled \/ \A t \in Tasks \ crossed : crashed[t] <= MaxAttempts

\* However many ticks run, a task has at most one attempt that may still act, also
\* when attempts crash and the coordinator, its mission or a refusal step in; but not
\* once two ticks judged the task at once, a write was lost, a call raised, or a worker
\* blocked, was stopped or died (see tasks/dispatcher.py: one claim, one session).
OneAttempt ==
  met \cap {"fails", "losses", "blocks", "pauses", "deaths"} = {} =>
    \A t \in Tasks \ crossed : Cardinality({s \in Attempts(t) : Live(s)}) <= 1

\* A task that is done, failed or cancelled stays so, whatever its worker, whose interrupt
\* nobody hears, its coordinator, a promotion or a claim does; but for the writes by id of a
\* tick that had judged it before and of a process that gives its claim of it up.
Undoing(p, t) == \/ p \in Tickers /\ pc[p] = "commit" /\ seen[p][t] /= "none"
                 \/ pc[p] \in {"block", "rollback", "handBack"} /\ job[p] = t
SettledStays ==
  [][\A t \in Tasks : status[t] \in Terminal /\ (\A p \in Procs : ~Undoing(p, t)) =>
       status'[t] = status[t]]_vars

Calm == met \cap {"losses", "deaths"} = {}
Owing(t) == \/ status[t] \in {"ready", "running"}
            \/ status[t] = "todo" /\ ParentsDone(t)

\* A task whose parents are done is done, failed, blocked or cancelled in the end,
\* unless two ticks judged it at once, a worker process died or a write the code gives
\* up on was lost: every claim, raised call and crashed attempt is taken up again
\* (tasks_tick).
EveryTaskSettles == \A t \in Tasks : Owing(t) ~> (~Owing(t) \/ ~Calm \/ t \in crossed)

\* The coordinator hears of a task that is blocked, failed or done, unless that
\* changes first, two ticks judged the task at once or its session was stopped
\* (notify_parent_of_task_event, notify_parent_on_completion).
CoordinatorTold ==
  /\ \A t \in Tasks : status[t] \in {"blocked", "failed"} ~>
       (status[t] \notin {"blocked", "failed"} \/ "task" \in told[t] \/ ~Calm \/ t \in crossed)
  /\ \A t \in Tasks : status[t] = "done" ~>
       (status[t] /= "done" \/ "worker" \in told[t] \/ ~Calm \/ "pauses" \in met \/ t \in crossed)

\* What is said of cancel_task: it interrupts the turn of a running task's session.
CancelStops ==
  [][\A t \in Tasks : status[t] = "running" /\ status'[t] = "cancelled" /\ cur[t] /= 0 =>
       sess'[cur[t]].stage /= "turn"]_vars
=============================================================================
