------------------------------ MODULE Schedule ------------------------------
(***************************************************************************)
(* Scheduled work (surogates/scheduled): one row of scheduled_sessions, the*)
(* sessions run for it, the ticker replicas that claim it when it is due   *)
(* and sweep it (platform_ticker.py, materialize.py, store.py), the leader *)
(* lock they share (runtime/leader_lock.py), and the person and the runs   *)
(* that change it meanwhile.                                               *)
(*                                                                         *)
(* A step is one transaction or one Redis call.  An instant a run is due   *)
(* at is a number, new for each plan: next_after is later than any instant *)
(* that was due.  A run is its session's status and the prompts it was     *)
(* sent; that it is woken, and re-queued when its worker dies, is          *)
(* SessionTurn's.                                                          *)
(***************************************************************************)
EXTENDS Naturals, Sequences, FiniteSets

CONSTANTS
  Tickers,      \* the replicas of the ticker
  MaxOnce,      \* MAX_ONCE_ATTEMPTS
  MaxInARow,    \* MAX_CONSECUTIVE_FAILURES
  Scenarios     \* the schedules looked at, each with what may happen to it

\* "slots": instants that come; "slows": a lock runs out under a replica that is
\* still at it; "fails": a call raises; "overruns": a run passes its time limit.
Inputs == {"slots", "slows", "fails", "deaths", "expiries", "crashes", "overruns",
           "waits", "dones", "pauses", "resumes", "cancels", "nows", "updates"}
Kinds == {"once", "recurring", "dynamic"}
Scenario == [kind : Kinds, limit : Nat, detached : BOOLEAN, left : [Inputs -> Nat],
             replicas : SUBSET Tickers]

NoOne == "no one"
ASSUME CeilingAssumption == MaxOnce \in Nat \ {0} /\ MaxInARow \in Nat \ {0}
ASSUME ScenariosAssumption == Scenarios \subseteq Scenario
ASSUME NoOneAssumption == NoOne \notin Tickers

VARIABLES
  row,       \* the scheduled_sessions row
  due,       \* row.next_run_at has come
  passed,    \* row.expires_at has come
  detached,  \* the row has no created_from_session_id
  planned,   \* how many instants have been planned
  runs,      \* the sessions made for it, in the order they were created
  leader,    \* whose name the leader lock holds
  pc,        \* pc[p]: where replica p is
  claim,     \* claim[p]: next_run_at and last_session_id as p claimed them
  run,       \* run[p]: the run p is starting, or has just failed
  told,      \* (history) how often the chat was told that the schedule ended
  met,       \* (history) the inputs that have happened
  left       \* left[i]: how often input i may yet happen

clock == <<due, passed, planned>>
ticker == <<pc, claim, run>>
input == <<met, left>>
vars == <<row, due, passed, detached, planned, runs, leader, pc, claim, run,
          told, met, left>>

Statuses == {"active", "paused", "cancelled", "completed", "failed"}
Reasons == {"none", "cancelled", "done", "limit", "expired", "failed"}
Rows == [kind : Kinds, limit : Nat, status : Statuses, reason : Reasons, next : Nat,
         locked : BOOLEAN, failures : Nat, count : Nat, last : Nat, announced : BOOLEAN]

\* asked: how often it was sent the prompt; late: past its time limit; closing: its
\* status is written, and _finalize_dynamic_loop_if_needed has yet to look or to write.
Runs == [key : Nat, status : {"active", "completed", "failed", "paused"},
         asked : Nat, late : BOOLEAN, closing : {"no", "look", "write"}]

PCs == {"absent", "idle", "beat", "beatSet", "plan", "stop", "overdue", "timedOut", "expire",
        "announce", "tell", "terminal", "claim", "beat2", "beat2Set", "look", "skip",
        "create", "ask", "enqueue", "mark", "fail", "release", "delete"}
Claimed == {"beat2", "beat2Set", "look", "skip", "create", "ask", "enqueue", "mark", "fail"}
NoClaim == [next |-> 0, last |-> 0]

Use(i) == left[i] > 0 /\ left' = [left EXCEPT ![i] = @ - 1] /\ met' = met \cup {i}
Goto(p, l) == pc' = [pc EXCEPT ![p] = l]

\* The row with next_run_at at a new instant, which has come (now) or not.
Planned(r) == [r EXCEPT !.next = planned + 1]
Plans(now) == planned' = planned + 1 /\ due' = now
NoPlan == UNCHANGED planned /\ due' = FALSE

Unlocked(r) == [r EXCEPT !.locked = FALSE]

\* Whether the row, read again under its lock, is still active.
StillActiveUnread == TRUE
StillActive == row.status = "active"

\* _end
EndedAsReason(r, reason) == [r EXCEPT !.status = reason, !.reason = reason, !.next = 0]
Ended(r, reason) == [r EXCEPT !.status = IF reason = "failed" THEN "failed" ELSE "completed",
                              !.reason = reason, !.next = 0]

\* A row the control plane made has no next run yet.
Init ==
  \E s \in Scenarios, first \in {0, 1} :
    /\ row = [kind |-> s.kind, limit |-> s.limit, status |-> "active", reason |-> "none",
              next |-> first, locked |-> FALSE, failures |-> 0, count |-> 0, last |-> 0,
              announced |-> FALSE]
    /\ detached = s.detached /\ left = s.left
    /\ due = (s.kind = "dynamic" /\ first = 1) /\ passed = FALSE /\ planned = 1
    /\ runs = <<>> /\ leader = NoOne
    /\ pc = [p \in Tickers |-> IF p \in s.replicas THEN "idle" ELSE "absent"]
    /\ claim = [p \in Tickers |-> NoClaim]
    /\ run = [p \in Tickers |-> 0]
    /\ told = 0 /\ met = {}

(* ------------------------- the leader and its tick --------------------- *)

Acquire(p) ==
  /\ pc[p] = "idle" /\ leader = NoOne
  /\ leader' = p /\ Goto(p, "beat")
  /\ UNCHANGED <<row, clock, detached, runs, claim, run, told, input>>

\* heartbeat: GET ...
Beat(p) ==
  /\ pc[p] \in {"beat", "beat2"}
  /\ Goto(p, IF leader /= p THEN "release" ELSE IF pc[p] = "beat" THEN "beatSet" ELSE "beat2Set")
  /\ UNCHANGED <<row, clock, detached, runs, leader, claim, run, told, input>>

\* ... and SET XX, over whoever has the lock by then.
BeatSet(p) ==
  /\ pc[p] \in {"beatSet", "beat2Set"}
  /\ IF leader = NoOne
       THEN Goto(p, "release") /\ UNCHANGED leader
       ELSE leader' = p /\ Goto(p, IF pc[p] = "beatSet" THEN "plan" ELSE "look")
  /\ UNCHANGED <<row, clock, detached, runs, claim, run, told, input>>

\* release: GET, and DELETE if the name was p's.
Release(p) ==
  /\ pc[p] = "release"
  /\ Goto(p, IF leader = p THEN "delete" ELSE "idle")
  /\ claim' = [claim EXCEPT ![p] = NoClaim] /\ run' = [run EXCEPT ![p] = 0]
  /\ UNCHANGED <<row, clock, detached, runs, leader, told, input>>
Delete(p) ==
  /\ pc[p] = "delete"
  /\ leader' = NoOne /\ Goto(p, "idle")
  /\ UNCHANGED <<row, clock, detached, runs, claim, run, told, input>>

(* --------------------- recover_stalled_loops, the sweep ---------------- *)

\* The step after a sweep's; a step that raises is logged and stepped over.
After(l) == CASE l = "plan" -> "stop" [] l = "stop" -> "overdue"
              [] l \in {"overdue", "timedOut"} -> "expire" [] l = "expire" -> "announce"
              [] l \in {"announce", "tell"} -> "terminal" [] l = "terminal" -> "claim"
SweepFails(p) ==
  /\ pc[p] \in {"plan", "stop", "overdue", "timedOut", "expire", "announce", "tell", "terminal"}
  /\ Use("fails")
  /\ Goto(p, After(pc[p]))
  /\ UNCHANGED <<row, clock, detached, runs, leader, claim, run, told>>

\* _planned_run: a dynamic loop, or a one-off whose time has come, runs now.
PlannedRun(now) == (row.kind = "dynamic" => now) /\ (row.kind = "recurring" => ~now)

\* plan_unscheduled: an active row without a next run gets one, or ends if none can be
\* told, but not a dynamic loop that waits on its run.
Plan(p) ==
  /\ pc[p] = "plan" /\ Goto(p, "stop")
  /\ IF row.status = "active" /\ row.next = 0 /\ ~(row.kind = "dynamic" /\ row.last /= 0)
       THEN \/ \E now \in BOOLEAN : PlannedRun(now) /\ row' = Planned(row) /\ Plans(now)
                                    /\ UNCHANGED input
            \/ Use("fails") /\ row' = Ended(row, "failed") /\ NoPlan
       ELSE UNCHANGED <<row, due, planned, input>>
  /\ UNCHANGED <<passed, detached, runs, leader, claim, run, told>>

\* stop_runs_of_cancelled: found as children of the chat, or as the last run.
StoppedByParent == [r \in DOMAIN runs |->
  IF row.status = "cancelled" /\ runs[r].status = "active" /\ ~detached
  THEN [runs[r] EXCEPT !.status = "paused"] ELSE runs[r]]
Stopped == [r \in DOMAIN runs |->
  IF row.status = "cancelled" /\ runs[r].status = "active" /\ (~detached \/ r = row.last)
  THEN [runs[r] EXCEPT !.status = "paused"] ELSE runs[r]]
StopCancelled(p) ==
  /\ pc[p] = "stop" /\ Goto(p, "overdue")
  /\ runs' = Stopped
  /\ UNCHANGED <<row, clock, detached, leader, claim, run, told, input>>

\* fail_overdue_scheduled_runs ...
Overdue(r) == r /= 0 /\ runs[r].status \in {"active", "paused"} /\ runs[r].late
FailOverdue(p) ==
  /\ pc[p] = "overdue"
  /\ IF row.last /= 0 /\ Overdue(row.last)
       THEN /\ runs' = [runs EXCEPT ![row.last].status = "failed"]
            /\ run' = [run EXCEPT ![p] = row.last] /\ Goto(p, "timedOut")
       ELSE Goto(p, "expire") /\ UNCHANGED <<runs, run>>
  /\ UNCHANGED <<row, clock, detached, leader, claim, told, input>>

\* ... and mark_run_timed_out, if that run is still the last.
MarkTimedOut(p) ==
  /\ pc[p] = "timedOut" /\ Goto(p, "expire")
  /\ run' = [run EXCEPT ![p] = 0]
  /\ LET failed == [row EXCEPT !.failures = @ + 1]
     IN row' = IF row.last /= run[p] \/ ~StillActive THEN row
               ELSE IF failed.failures >= MaxInARow THEN Ended(failed, "failed") ELSE failed
  /\ due' = (due /\ row'.next /= 0)
  /\ UNCHANGED <<passed, planned, detached, runs, leader, claim, told, input>>

\* expire_active_schedules
ExpireActive(p) ==
  /\ pc[p] = "expire" /\ Goto(p, "announce")
  /\ IF row.status = "active" /\ passed
       THEN row' = Unlocked(Ended(row, "expired")) /\ NoPlan
       ELSE UNCHANGED <<row, due, planned>>
  /\ UNCHANGED <<passed, detached, runs, leader, claim, run, told, input>>

\* claim_unannounced_endings marks an ending that was nobody's decision ...
UnannouncedOrNot == row.reason \in {"expired", "limit", "failed"}
UnannouncedFailure == row.status = "failed" /\ ~row.announced
Unannounced == /\ row.status \in {"completed", "failed"}
               /\ row.reason \in {"expired", "limit", "failed"} /\ ~row.announced
ClaimEnding(p) ==
  /\ pc[p] = "announce"
  /\ IF Unannounced THEN row' = [row EXCEPT !.announced = TRUE] /\ Goto(p, "tell")
                    ELSE Goto(p, "terminal") /\ UNCHANGED row
  /\ UNCHANGED <<clock, detached, runs, leader, claim, run, told, input>>

\* ... and its chat is told, if it has one.
Announce(p) ==
  /\ pc[p] = "tell" /\ Goto(p, "terminal")
  /\ told' = IF detached THEN told ELSE told + 1
  /\ UNCHANGED <<row, clock, detached, runs, leader, claim, run, input>>

\* recover_stalled_dynamic_loops: the run ended and chose no next one.
RunOverWell(r) == runs[r].status = "completed"
RunOver(r) == runs[r].status \in {"completed", "failed"}
RecoverTerminal(p) ==
  /\ pc[p] = "terminal" /\ Goto(p, "claim")
  /\ IF /\ row.status = "active" /\ row.next = 0 /\ row.last /= 0 /\ row.kind = "dynamic"
        /\ ~passed /\ RunOver(row.last)
       THEN row' = Unlocked(Planned(row)) /\ Plans(FALSE)
       ELSE UNCHANGED <<row, due, planned>>
  /\ UNCHANGED <<passed, detached, runs, leader, claim, run, told, input>>

(* --------------------------- claim and materialize --------------------- *)

\* find_due_across_tenants
Due == row.status = "active" /\ row.next /= 0 /\ due /\ ~row.locked /\ ~passed
Claim(p) ==
  /\ pc[p] = "claim"
  /\ IF Due
       THEN /\ row' = [row EXCEPT !.locked = TRUE]
            /\ claim' = [claim EXCEPT ![p] = [next |-> row.next, last |-> row.last]]
            /\ Goto(p, "beat2")
       ELSE Goto(p, "release") /\ UNCHANGED <<row, claim>>
  /\ UNCHANGED <<clock, detached, runs, leader, run, told, input>>

\* _still_going, of the previous run the claim names.
StillGoingLate(r) == r /= 0 /\ runs[r].status = "active" /\ runs[r].late
StillGoing(r) == r /= 0 /\ runs[r].status = "active" /\ ~runs[r].late
Look(p) ==
  /\ pc[p] = "look"
  /\ Goto(p, IF StillGoing(claim[p].last) THEN "skip" ELSE "create")
  /\ UNCHANGED <<row, clock, detached, runs, leader, claim, run, told, input>>

\* mark_run_skipped
MarkSkipped(p) ==
  /\ pc[p] = "skip" /\ Goto(p, "release")
  /\ IF StillActive
       THEN row' = Unlocked(Planned(row)) /\ Plans(FALSE)
       ELSE row' = Unlocked(row) /\ UNCHANGED <<due, planned>>
  /\ UNCHANGED <<passed, detached, runs, leader, claim, run, told, input>>

\* The runs with the idempotency key of this instant.
KeyedAnew(p) == {}
Keyed(p) == {r \in DOMAIN runs : runs[r].key = claim[p].next}

\* The run of this instant, made or, its key taken, adopted.
Create(p) ==
  /\ pc[p] = "create" /\ Goto(p, "ask")
  /\ \/ /\ Keyed(p) = {}
        /\ runs' = Append(runs, [key |-> claim[p].next, status |-> "active", asked |-> 0,
                                 late |-> FALSE, closing |-> "no"])
        /\ run' = [run EXCEPT ![p] = Len(runs) + 1]
     \/ \E r \in Keyed(p) : run' = [run EXCEPT ![p] = r] /\ UNCHANGED runs
  /\ UNCHANGED <<row, clock, detached, leader, claim, told, input>>

\* Its prompt, as a user.message ...
Ask(p) ==
  /\ pc[p] = "ask" /\ Goto(p, "enqueue")
  /\ runs' = [runs EXCEPT ![run[p]].asked = @ + 1]
  /\ UNCHANGED <<row, clock, detached, leader, claim, run, told, input>>

\* ... and its wake, which takes up even a run that had ended.
Enqueue(p) ==
  /\ pc[p] = "enqueue" /\ Goto(p, "mark")
  /\ runs' = [runs EXCEPT ![run[p]].status = IF @ = "paused" THEN @ ELSE "active"]
  /\ UNCHANGED <<row, clock, detached, leader, claim, run, told, input>>

\* mark_run_created, on the row as it is by now.
MarkCreated(p) ==
  /\ pc[p] = "mark" /\ Goto(p, "release")
  /\ LET started == [Unlocked(row) EXCEPT !.count = @ + 1, !.last = run[p],
           !.failures = IF row.last /= 0 /\ runs[row.last].status = "failed" THEN @ ELSE 0]
         over == IF started.limit /= 0 /\ started.count >= started.limit THEN "limit"
                 ELSE IF passed THEN "expired"
                 ELSE IF row.kind = "once" THEN "done" ELSE "none"
     IN IF ~StillActive THEN row' = started /\ UNCHANGED <<due, planned>>
        ELSE IF over /= "none" THEN row' = Ended(started, over) /\ NoPlan
        ELSE IF row.kind = "dynamic" THEN row' = [started EXCEPT !.next = 0] /\ NoPlan
        ELSE row' = Planned(started) /\ Plans(FALSE)
  /\ UNCHANGED <<passed, detached, runs, leader, claim, run, told, input>>

\* A step of the materialization raises.
RunFails(p) ==
  /\ pc[p] \in {"look", "skip", "create", "ask", "enqueue", "mark"}
  /\ Use("fails")
  /\ Goto(p, "fail")
  /\ UNCHANGED <<row, clock, detached, runs, leader, claim, run, told>>

\* mark_run_failed, which may itself fail.
MarkFailed(p) ==
  /\ pc[p] = "fail" /\ Goto(p, "release")
  /\ \/ Use("fails") /\ UNCHANGED <<row, due, planned>>
     \/ /\ UNCHANGED input
        /\ LET failed == [Unlocked(row) EXCEPT !.failures = @ + 1]
               most == IF row.kind = "once" THEN MaxOnce ELSE MaxInARow
           IN IF ~StillActive THEN row' = Unlocked(row) /\ UNCHANGED <<due, planned>>
              ELSE IF failed.failures >= most THEN row' = Ended(failed, "failed") /\ NoPlan
              ELSE row' = Planned(failed) /\ Plans(FALSE)
  /\ UNCHANGED <<passed, detached, runs, leader, claim, run, told>>

(* ------------------------ time, deaths, and slowness ------------------- *)

\* A lock runs out under nobody, or under a replica that takes longer than it.
LockExpires ==
  /\ row.locked
  /\ IF \E p \in Tickers : pc[p] \in Claimed THEN Use("slows") ELSE UNCHANGED input
  /\ row' = Unlocked(row)
  /\ UNCHANGED <<clock, detached, runs, leader, ticker, told>>

LeaderExpires ==
  /\ leader /= NoOne
  /\ IF pc[leader] /= "idle" THEN Use("slows") ELSE UNCHANGED input
  /\ leader' = NoOne
  /\ UNCHANGED <<row, clock, detached, runs, ticker, told>>

Dies(p) ==
  /\ pc[p] \notin {"absent", "idle"} /\ Use("deaths")
  /\ Goto(p, "idle")
  /\ claim' = [claim EXCEPT ![p] = NoClaim] /\ run' = [run EXCEPT ![p] = 0]
  /\ UNCHANGED <<row, clock, detached, runs, leader, told>>

Elapse == /\ row.next /= 0 /\ ~due /\ Use("slots")
          /\ due' = TRUE
          /\ UNCHANGED <<row, passed, planned, detached, runs, leader, ticker, told>>
Expiry == /\ ~passed /\ Use("expiries")
          /\ passed' = TRUE
          /\ UNCHANGED <<row, due, planned, detached, runs, leader, ticker, told>>

(* -------------------------------- the runs ----------------------------- *)

RunStep == UNCHANGED <<passed, detached, leader, ticker, told>>

\* The run's turn ends: its status ...
RunEnds(r, how) ==
  /\ runs[r].status = "active" /\ runs[r].asked > 0
  /\ IF how = "failed" THEN Use("crashes") ELSE UNCHANGED input
  /\ runs' = [runs EXCEPT ![r].status = how,
                          ![r].closing = IF row.kind = "dynamic" THEN "look" ELSE "no"]
  /\ UNCHANGED <<row, due, planned>> /\ RunStep

\* ... and _finalize_dynamic_loop_if_needed: does the loop wait on this run ...
FinalizeLook(r) ==
  /\ runs[r].closing = "look"
  /\ runs' = [runs EXCEPT ![r].closing =
       IF row.status = "active" /\ row.next = 0 /\ row.last = r THEN "write" ELSE "no"]
  /\ UNCHANGED <<row, due, planned, input>> /\ RunStep

\* mark_dynamic_run_finished: the run's choice, if the loop is still its own.
Chosen(r, done) ==
  IF row.status = "active" /\ row.last = r
    THEN IF done \/ passed
           THEN row' = Unlocked(Ended(row, IF done THEN "done" ELSE "expired")) /\ NoPlan
           ELSE row' = Unlocked(Planned(row)) /\ Plans(FALSE)
    ELSE UNCHANGED <<row, due, planned>>

\* ... then it is given the fallback delay.
FinalizeWrite(r) ==
  /\ runs[r].closing = "write"
  /\ runs' = [runs EXCEPT ![r].closing = "no"]
  /\ Chosen(r, FALSE)
  /\ UNCHANGED input /\ RunStep

\* The run's worker dies before that.
FinalizeLost(r) ==
  /\ runs[r].closing /= "no" /\ Use("deaths")
  /\ runs' = [runs EXCEPT ![r].closing = "no"]
  /\ UNCHANGED <<row, due, planned>> /\ RunStep

\* loop_wait: the run chooses its loop's next instant, or says that it is done.
AtWork(r) == runs[r].status = "active" /\ runs[r].asked > 0
LoopWait(r, done) ==
  /\ AtWork(r) /\ row.kind = "dynamic"
  /\ Use(IF done THEN "dones" ELSE "waits")
  /\ Chosen(r, done)
  /\ UNCHANGED runs /\ RunStep

\* loop_complete, of a fixed loop's run.
LoopComplete(r) ==
  /\ AtWork(r) /\ row.kind /= "dynamic" /\ row.last = r /\ row.status = "active"
  /\ Use("dones")
  /\ row' = Unlocked(Ended(row, "done")) /\ NoPlan
  /\ UNCHANGED runs /\ RunStep

\* Its time limit passes: of a run that takes too long, or that is stopped.
RunLate(r) ==
  /\ ~runs[r].late
  /\ IF runs[r].status = "paused" THEN UNCHANGED input
     ELSE runs[r].status = "active" /\ Use("overruns")
  /\ runs' = [runs EXCEPT ![r].late = TRUE]
  /\ UNCHANGED <<row, due, planned>> /\ RunStep

(* ------------------------------- the person ---------------------------- *)

PersonStep == UNCHANGED <<passed, detached, leader, ticker, told>>

Pause ==
  /\ row.status = "active" /\ Use("pauses")
  /\ row' = Unlocked([row EXCEPT !.status = "paused", !.next = 0]) /\ NoPlan
  /\ UNCHANGED runs /\ PersonStep

Resume(now) ==
  /\ row.status = "paused" /\ Use("resumes")
  /\ PlannedRun(now)
  /\ row' = Unlocked(Planned([row EXCEPT !.status = "active"])) /\ Plans(now)
  /\ UNCHANGED runs /\ PersonStep

\* The control plane writes only the status, and leaves the next run to plan_unscheduled.
ResumeUnplanned ==
  /\ row.status = "paused" /\ Use("resumes")
  /\ row' = [row EXCEPT !.status = "active"]
  /\ UNCHANGED <<due, planned, runs>> /\ PersonStep

\* The API stops the runs too; the other writers leave that to the sweep.
Cancel ==
  /\ row.status \in {"active", "paused"} /\ Use("cancels")
  /\ row' = Unlocked([row EXCEPT !.status = "cancelled", !.reason = "cancelled", !.next = 0])
  /\ NoPlan
  /\ UNCHANGED runs /\ PersonStep
StopNow ==
  /\ row.status = "cancelled" /\ runs' = Stopped /\ runs' /= runs
  /\ UNCHANGED <<row, due, planned, input>> /\ PersonStep

\* run_now leaves the lock alone.
RunNow ==
  /\ row.status = "active" /\ Use("nows")
  /\ row' = Planned(row) /\ Plans(TRUE)
  /\ UNCHANGED runs /\ PersonStep

\* update to another cadence: a one-off's limit is one run, a recurring one's none.
Update(k) ==
  /\ row.status \in {"active", "paused"} /\ row.kind /= "dynamic" /\ k /= "dynamic"
  /\ Use("updates")
  /\ LET changed == [Unlocked(row) EXCEPT !.kind = k,
           !.limit = IF k = row.kind THEN @ ELSE IF k = "once" THEN 1 ELSE 0]
     IN IF row.status = "active" THEN row' = Planned(changed) /\ Plans(FALSE)
        ELSE row' = changed /\ UNCHANGED <<due, planned>>
  /\ UNCHANGED runs /\ PersonStep

\* update of a name, a prompt or a limit of time alone: the next run stays, the claim goes.
Edit ==
  /\ row.status \in {"active", "paused"} /\ Use("updates")
  /\ row' = Unlocked(row)
  /\ UNCHANGED <<due, planned, runs>> /\ PersonStep

(* ------------------------------ the system ----------------------------- *)

Tick(p) == \/ Acquire(p) \/ Beat(p) \/ BeatSet(p) \/ Release(p) \/ Delete(p)
           \/ Plan(p) \/ StopCancelled(p) \/ FailOverdue(p) \/ MarkTimedOut(p)
           \/ ExpireActive(p) \/ ClaimEnding(p) \/ Announce(p) \/ RecoverTerminal(p)
           \/ Claim(p) \/ Look(p) \/ MarkSkipped(p) \/ Create(p) \/ Ask(p) \/ Enqueue(p)
           \/ MarkCreated(p) \/ MarkFailed(p)
Faults(p) == SweepFails(p) \/ RunFails(p) \/ Dies(p)
Time == LockExpires \/ LeaderExpires \/ Elapse \/ Expiry
Run(r) == \/ RunEnds(r, "completed") \/ RunEnds(r, "failed")
          \/ FinalizeLook(r) \/ FinalizeWrite(r) \/ FinalizeLost(r)
          \/ LoopWait(r, TRUE) \/ LoopWait(r, FALSE) \/ LoopComplete(r) \/ RunLate(r)
Person == \/ Pause \/ Resume(TRUE) \/ Resume(FALSE) \/ ResumeUnplanned
          \/ Cancel \/ StopNow \/ RunNow \/ Edit \/ \E k \in Kinds : Update(k)

Next == \/ \E p \in Tickers : Tick(p) \/ Faults(p)
        \/ Time \/ Person
        \/ \E r \in DOMAIN runs : Run(r)

Spec == Init /\ [][Next]_vars

\* The replicas keep ticking, locks whose holder is gone run out, and a stopped run
\* passes its time limit.  Nothing makes an instant come, a run end, a person act or a
\* call fail.
FairSpec ==
  /\ Spec
  /\ \A p \in Tickers : WF_vars(Tick(p))
  /\ WF_vars(LockExpires) /\ WF_vars(LeaderExpires)
  /\ WF_vars(\E r \in DOMAIN runs : runs[r].status = "paused" /\ RunLate(r))

(* ------------------------------ properties ----------------------------- *)

RowOK == /\ row \in Rows /\ due \in BOOLEAN /\ passed \in BOOLEAN /\ detached \in BOOLEAN
         /\ planned \in Nat
TickerOK == /\ leader \in Tickers \cup {NoOne} /\ pc \in [Tickers -> PCs]
            /\ claim \in [Tickers -> [next : Nat, last : Nat]] /\ run \in [Tickers -> Nat]
InputOK == met \in SUBSET Inputs /\ left \in [Inputs -> Nat]

\* Every variable has its type.
TypeOK == RowOK /\ runs \in Seq(Runs) /\ TickerOK /\ told \in Nat /\ InputOK

\* A person's decision is final: a paused or cancelled schedule has no next run, and
\* only the person takes it out of that state, whatever a tick that claimed it before
\* does with it after (_transition against mark_run_created, mark_run_failed,
\* mark_run_skipped, mark_run_timed_out and the sweep).
Decided == row.status \in {"paused", "cancelled"}
PersonFinal ==
  [][/\ Decided' => row'.next = 0
     /\ Decided /\ row'.status /= row.status =>
          left'["resumes"] < left["resumes"] \/ left'["cancels"] < left["cancels"]]_vars

\* A run that was started and then not recorded: a call of the start raised, two replicas
\* were at it at once, or its instant was replaced after its replica died, by a person or,
\* in a dynamic loop, by the late choice of the run before it.
Strayed == \/ met \cap {"fails", "slows"} /= {}
           \/ /\ "deaths" \in met
              /\ met \cap {"resumes", "nows", "updates"} /= {} \/ row.kind = "dynamic"

\* Runs of one schedule do not overlap (_still_going, the claim's lock and the run's
\* idempotency key), through deaths, pauses and extra runs, unless a run strayed or
\* passed its time limit.
RunsApart ==
  \A r, s \in DOMAIN runs : AtWork(r) /\ AtWork(s) /\ r /= s =>
    Strayed \/ "overruns" \in met

\* A schedule that is to run so many times makes no more runs than that: a replica that
\* dies between making a run and recording it is followed by one that adopts that run
\* (the idempotency key of materialize_scheduled_run).  A pause taken back is another
\* matter: see OnceRunsOnce.
LimitKept ==
  row.limit /= 0 /\ met \cap {"updates", "resumes"} = {} => Len(runs) <= row.limit \/ Strayed

\* "A one-off has run once" (mark_run_created): it makes one run.  Not one that is
\* paused while its run is being started: that run is recorded, the schedule stays
\* paused, and resume plans it again.
OnceRunsOnce == row.kind = "once" => Len(runs) <= 1

\* A cancelled schedule's runs stop, those a claimed tick was starting at that moment
\* too, unless a run strayed from a schedule that has no chat to find it by
\* (stop_runs_of_cancelled, mark_run_created on a row that is no longer active).
Going == \E r \in DOMAIN runs : runs[r].status = "active"
CancelStopsRuns ==
  (row.status = "cancelled" /\ Going) ~>
    (~Going \/ (detached /\ (Strayed \/ "deaths" \in met)))

\* An active schedule goes on: a due run is started or passed over, an expired schedule
\* ends, a dynamic loop whose run is over gets its next one, through failures of any
\* call, the death of a replica or of the run's worker, and slow replicas
\* (_tick_once, recover_stalled_loops).
Waiting == /\ row.status = "active"
           /\ \/ due \/ passed
              \/ row.next = 0 /\ (row.last = 0 \/ runs[row.last].status /= "active")
GoesOn == Waiting ~> ~Waiting

\* The chat is told of an ending at most once, whatever leadership the replicas believe
\* they have (claim_unannounced_endings marks the row as it reads it).
ToldOnce == told <= 1

\* The chat is told that its schedule ended on its own, whatever ended it, unless the
\* telling failed or its replica died (recover_stalled_loops, _announce_ending).
EndedAlone == row.status \in {"completed", "failed"} /\ row.reason \in {"expired", "limit", "failed"}
EndingTold == EndedAlone ~> (told = 1 \/ detached \/ met \cap {"fails", "deaths"} /= {})
=============================================================================
