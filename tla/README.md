# Surogates: a TLA+ model of the session runtime

Surogates runs managed agents.  A *session* is a conversation whose event log,
lease and cursor live in PostgreSQL; stateless workers pull sessions off a
Redis queue and *wake* them, and a wake runs one *turn* of the agent loop.
Whether every message is answered exactly by one turn, through crashes,
interrupts and races, is decided by a few hundred lines spread over the store,
the dispatcher, the harness and the API.  This directory models those lines.

All source paths below are relative to `src/surogates/`.

## 1. Inventory

| Component | State it keeps | Operations | Hard behaviours | What makes it correct |
|---|---|---|---|---|
| Session store (`session/store.py`) | session row and status, event log, lease row, harness cursor | append event, write status, acquire / renew / release lease, advance cursor, find orphans, count recoveries | fencing, a stalled holder, final statuses | one owner; the cursor moves only under the newest lease; archived is final |
| Orchestrator (`orchestrator/dispatcher.py`) | `_active_harnesses`, `_rewake_pending`, retry count; the crash breaker in Redis | pop, process, defer, retry, give up, interrupt, orphan sweep | re-wakes in memory, lost pub/sub, several replicas, death at any await | no message forgotten; recovery bounded; crash loops stopped |
| Harness (`harness/loop.py`, `loop_artifact_completion.py`, `loop_pending.py`) | the turn: steer cursor, interrupt flag, lease token | wake, revive, iterate, ask, drain, complete, fail, abort, release, renew | messages arriving mid-turn, Stop, status read before an await | no message skipped by the cursor; a stop ends the turn |
| Tool execution (`harness/tool_exec.py`, `streaming_executor.py`) | running calls | run, commit the result, cancel | cursor advance from inside the turn, cancellation | as above |
| API routes (`api/routes/sessions.py`) | none | deliver message, pause, resume, retry, delete | each is several transactions | racing requests leave a state someone acts on |
| Work queue (`config.py`) | a Redis sorted set of sessions | enqueue, pop | an entry exists in nobody's books between pop and lease | a popped session comes back |
| Turn gate and slots (`runtime/turn_gate.py`, `turn_slots.py`) | the tenant's set of holders, the worker's semaphore, the turn record | take, give back while waiting, take again, release, detach | nested activities, cancellation inside a Redis call, dead holders | no deadlock of parent and child; capacity neither lost nor invented |
| Delegation (`tools/builtin/delegate.py`) | child sessions | spawn, wait | parent waits on child under a full tenant | both end |
| Tasks (`tasks/`, `harness/worker_notify.py`) | task rows: status, attempt count, current session | create, claim (by the call or by a tick), spawn, wire, finalize, promote, block, retry, complete, cancel, notify | claims from every worker process, verdicts written long after they were read, spawns that fail half way, a session and its task out of step | parents first; one attempt at a time; a bounded number of crashes; every task settles and its coordinator hears |
| Schedules (`scheduled/`, `runtime/leader_lock.py`, `tools/builtin/loop_control.py`) | schedule rows, the runs' sessions, a leader lock | plan, claim, start, record, skip, fail, time out, expire, announce, recover; pause, resume, cancel, edit, run now | a person or a run writing between a tick's claim and its record; slow, failing and dying tickers | a person's decision is final; runs apart and within their number; an active schedule goes on |
| Channel outbox (`channels/delivery.py`, `dispatcher.py`, `channel_progress.py`, `platforms/slack.py`) | outbox rows, the progress record in Redis, the chat itself | enqueue, claim, fold, send or edit, upload, mark, retry, give up | a message sent and not recorded, sent in part, or posted again after a refused edit; a record read and stale | nothing shown twice, nothing delivered lost, every row settles |
| Missions (`missions/commands.py`) | mission rows | cascade, grade, nudge | a cascade racing the board | the cascade is part of the board's model; the rest is not modelled |
| Saga (`governance/saga/`) | checkpoints | do, compensate | partial failure | not modelled, section 7 |
| Device operations (`devices/operations.py`, `link.py`, `presence.py`, `store.py`) | operation rows, credential generation, the presence key, per connection what was sent | record or join, wait, cancel, complete, deliver, reconcile, claim, refresh, revoke, reauthorize | a computer away for days, two connections of one app, lost announcements, a stop racing a delivery | an operation runs at most once and its recorded outcome is what happened; every call returns |
| Desktop app (`desktop/src/link/client.ts`, `device.ts`, `operations/runner.ts`, `journal/journal.ts`) | a journal of operations and outcomes, the prompts, the link | connect, receive, ask, start, finish, resend, cancel, suspend, quit, recover, retire, restore | dies while it acts on files; answers twice; reconnects under a new token | what a crash cut off is not run again; what is cancelled is dropped |
| Sandboxes, browser, MCP proxy, voice, memory, tenants, web client | external processes, files, configuration | I/O, CRUD | mostly outside the process | not modelled |

Components talk through the store (status, log, lease, cursor: durable), the
queue (a set: enqueueing twice is enqueueing once), Redis pub/sub (interrupts:
may be lost) and worker memory (deferred re-wakes, the interrupt flag: lost
with the worker).  `PROJECT.json` lists the hazards line by line.

## 2. Modules

| Module | Role |
|---|---|
| `SessionTurn` | one session: store, queue, dispatch, wake, turn, API, interrupts, renewal, sweep, worker death |
| `SessionOwner` | abstract: what the store promises of a session's owner, cursor and log; `SessionTurn` implements it |
| `SessionTurn_proofs` | theorems about `SessionTurn`, checked by TLAPS |
| `TurnSlots`, `TurnSlots_proofs` | a tenant's turns competing for gate and semaphore slots, with tool calls, delegation, cancellation, death |
| `CrashBreaker`, `CrashBreaker_proofs` | the crash-loop breaker around the wakes of one session |
| `TaskBoard` | the tasks of one coordinator, the ticks and calls that start them, the worker sessions that settle them |
| `TaskBoard_proofs` | theorems about `TaskBoard` |
| `Schedule` | one schedule, its runs, the ticker replicas and their leader lock |
| `Schedule_proofs`, `ScheduleRuns_proofs` | theorems about `Schedule`: its row and its person; its runs |
| `Outbox`, `Outbox_proofs` | the delivery of one session's rows to a chat platform that can edit |
| `DeviceJournal`, `DeviceJournal_proofs` | one session's operations on one computer: the server's journal, the link and presence, the app's journal and runner |
| `MC_*` | instances for TLC: model values, and the scenarios, that is how often the environment does what |

The components meet at a session: `TaskBoard` and `Schedule` see it as a status
and what is being done with it, `Outbox` as the order of its rows, `DeviceJournal`
as whether it is stopped; that its turns
end, are answered, stopped and recovered is `SessionTurn`'s.

### SessionTurn

One action is one transaction, one Redis command, or one stretch of Python
between two awaits.  State: `status`, `fresh` (is `updated_at` recent), `log`,
`cursor` (the rows); `leaseToken`, `leaseLive`, `issued` (the lease; a token is
a number where the code draws a UUID); `queued`; per worker `active` and
`rewake`; per task `pc`, `tok`, `steer`, `through`, `stop`, `attempt`; per API
request `api`; per sweeper `sweep`; and the history variables `heard`, the
newest message some answered request carried, and `blind`, the recoveries a sweep
decided on without the count of the earlier ones.

* API: `Send`, `Reactivate`, `Pause`, `Delete` start a request; `ApiActivate`,
  `ApiResume`, `ApiMessage` / `ApiRefuse`, `ApiEnqueue`, `ApiPause`,
  `ApiPublish` are its transactions.  Two requests may be open at once.
* Dispatch: `Pop`, `Start` (defer to the active wake), `Probe` and `Requeue`
  (lease held elsewhere), `Build`, `Unregister`, `Settle`, `Retry`, `GiveUp`,
  `GiveUpStatus`.
* Wake: `ReadStatus`, `Revive`, `ReviveEvent`, `Acquire`, `Load`, then the
  turn: `Iterate`, `Ask`, `Hear`, `Respond`, `RunTool`, `AfterTool`, `Drain`,
  `Summarize`, `Complete`, `CompleteStatus`, `AdvanceAtEnd`, `FailTurn`,
  `FailStatus`, `Abort`, `Release` (the lease), `Return` (the harness is
  forgotten); `Raise`, `BuildFails` and `HarnessCrash` are exceptions; `Renew` and `Detach` are the renewal task.
* Time and death: `Expire`, `Age`, `Die`; sweep: `SweepFind`, `SweepLook`,
  `SweepCount` (which lets the session pass when the count raises), `SweepRecover`, `SweepRelease`, `SweepAbandon`, `SweepFail`.

An event is its type and its id its place in the log.  An `llm.response` is
told apart by what becomes of it: it calls tools, it is the answer, or it is a
`draft`, one without tool calls from which the turn goes on or fails (a provider's
error, a text cut at its length, an empty one, one that trails off or only claims a
file or a save).  The orphan query cannot tell a draft from an answer.  One
response calls one tool.  The session is an ordinary chat: missions, project
threads, commands, `ask_user_question` answers, messages that a channel holds or
that need only a disclosure (`_nothing_to_answer`) and the user's devices have rules
of their own; the last are `DeviceJournal`'s.

### SessionOwner

Four variables: who owns the session, whether its lease is alive, how far the
owners have come, and the log.  `SessionTurn` maps `owner` to the set of tasks
whose token the lease row holds, `alive` to `leaseLive`, `done` to `cursor` and
`log` to itself; `KeepsOwnership` is `Store!Spec` under that mapping.  A step of
the code that breaks the promise (a lease taken while alive, a cursor moved by a
task that lost it, moved back or past the log) has no step of `SessionOwner` to
map to.

### TurnSlots

`phase`, `home`, `loop` and `at` are the dispatch loop; `holders` is the
tenant's Redis set; `free` the semaphores; `act`, `lock`, `step`, `gate`,
`sem`, `ended`, `stopped`, `cut` are the fields of `TurnSlots` and where its
activities stand.  `Give` / `GiveGate` and `Take` / `TakeGate` / `TakeSem` are
the critical sections under the record's `asyncio.Lock`, split at their awaits;
`Cancelled` is a cancellation delivered inside one of them.  `Recover`,
`LeaveWaiting` and `Resend` are the ways a dead turn's session comes back.

### CrashBreaker

A wake is one step that crashes with a fingerprint or ends.  Everything
`_process` does around it, one Redis or database call a step, is an action:
`Gate`, `Signal`, `Unlock`, `Probe`, `Record`, `Save`, `Trip`, `SaveTrip`,
`Settle`, `GiveUp`.  The log keeps what the breaker tells apart (a person's
message, a synthetic one, its own `session.fail`; failures with nothing between
them share a place), and the count saturates one above the threshold, the only
number it is compared with.  `SessionTurn` leaves the breaker out and lets a
dequeue run out of tries instead; the two are not composed yet.

### TaskBoard

The columns of `tasks` (`status`, `attempts`, `cur`), the worker sessions
(`sess`: a status and a stage), and per process (a ticker, or the `spawn_task`
call of a task) where it is and what it holds.  `Insert`, `EagerClaim`,
`EagerLost` and `HandBack` are the call (`tasks/service.py`); `Promote`,
`FinalizeRead`, `FinalizeCommit`, `Notify`, `TickClaim`, `TickEnds`,
`BlockClaim`, `TellBlocked`, `Rollback` the tick (`tasks/dispatcher.py`);
`Spawn`, `SpawnFails`, `Wire`, `Enqueue` belong to both; `WorkerComplete`,
`WorkerBlock`, `Unblock`, `Cancel` are tools (`tasks/tools.py`);
`CascadeRead`, `CascadeUpdate`, `CascadePublish` a mission's cascading cancel.
`TurnEnds`, `Close`, `Report`, `WorkerDies`, `Sweep`, `Pause` and `Resume` are
what a worker session does as seen from here.  `Interrupt` knows the two
channel names in use and the one that is subscribed to.  `Cancel` publishes in the
same step as it commits: nobody hears that channel, so the gap between the two shows
nowhere.  The history variable `crossed` collects the tasks that two ticks judged at
once: one reads a verdict on an attempt that another has judged and not written yet,
or that another has claimed again and is starting anew.

### Schedule

`row` is the `scheduled_sessions` row; `due` and `passed` say whether its next
instant and its expiry have come, instants being numbers that are never used
twice; `runs` are the sessions made for it.  Each replica walks the tick
(`platform_ticker.py`): the leader lock (`Acquire`, `Beat`, `BeatSet`,
`Release`, `Delete`), the sweep (`Plan`, `StopCancelled`, `FailOverdue`,
`MarkTimedOut`, `ExpireActive`, `ClaimEnding`, `Announce`, `RecoverTerminal`),
then `Claim`, `Look`, `MarkSkipped` or `Create`, `Ask`, `Enqueue`,
`MarkCreated`, or `MarkFailed`.  Runs end, finalize or choose (`RunEnds`,
`FinalizeLook`, `FinalizeWrite`, `LoopWait`, `LoopComplete`), and a person
pauses, resumes, cancels, edits (`Update` a cadence, `Edit` a name or a prompt, which
keeps the plan) or runs the schedule between any two steps.  The control plane, which
is not in this repository, makes rows without a next run and resumes them by writing
only the status (`ResumeUnplanned`); `Plan` (`plan_unscheduled`) is there for both.

### Outbox

Rows of three kinds (narration, an answer, a file), the chat as the sequence of
messages a reader sees, each the rows it shows, and `place`, the progress record
in Redis.  A delivery loop claims, folds narration (`Bursts`: adjacent rows of
narration, and a burst may be cut at any gap, as the time that separates two rows
is left open), keeps what it has claimed and not yet sent as the group at hand
and the rest, reads the record
(`Take`), sends or edits (`Send`, `Upload`, `Tidy`, `ClearPlaceholder`), marks
(`MarkDelivered`, `RecordFailure`, `Settle`) and writes the record (`Progress`), each
a step; a send may be refused, or raise although it arrived.  The adapter is Slack's
(`platforms/slack.py`): an edit that raised, applied or not, is followed by a fresh
post of the whole text (`EditRefused`), and a text in several chunks counts as sent
once the first has landed (`Parts`, `Send`).  The history variables `cut` and
`reposted` name the rows whose text was in a refused chunk and those a fresh post
repeats; `gone` are the deleted messages, which cannot be edited.

### DeviceJournal

Two journals of the same operations and the link between them.  The server's:
`row[o]` (none, open, or how it was closed), the session's `status`, the device's
`gen` and `revoked`, the worker's `call[o]` of `run`, what is cancelled and not
announced (`toTell`).  The link's: for each connection where its server side is
(`st`), the generation of its token (`as`), the hello's list (`reported`), what
it sent (`delivered`), what it has read and not sent (`batch`), what the control
channel holds for it (`live`), the frames each way (`down`, `up`, in order), and
the presence key (`holder`).  The app's: `app`, `tok`, `sock`, `jrn[o]` and
`ans[o]` (its SQLite rows), `job[o]` (what the runner does about `o`: asks, runs).

* Worker: `Ask`, `Record`, `Await`, `Halt` and `CancelOwn` (a stopped call), `Die`
  (a worker that dies or hands its turn over leaves the row as it is).
* Session and device: `Stop`, `Delete`, then `Cancel` (a transaction of its own,
  which may fail), `Tell` (each announcement, which may be lost), `Revoke`.
* Server side of a connection: `Authenticate`, `Subscribe`, `Claim`, `Supersede`,
  `Welcome`, `Reconcile`; then four tasks at once: deliveries (`Recheck`, `Query`,
  `Deliver`), control (`Control`,
  `Expelled`), heartbeats (`Refresh`, `Result`) and the end (`Disconnect`).
* App: `Connect`, one action per frame (`OnWelcome`, `OnOp`, `OnCancel`, `OnAck`,
  `OnClose`), the prompt (`Allow`, `Refuse`), `Finish`, `Settle` (what the end of the link
  stopped has come to rest and is recorded), `Drop`, `Quit`, `Crash`,
  `Launch` (with the journal's `recover`), `Retire`, `Restore`, `Restart`.

A result is one frame.  `runs` counts how often an operation was started; `dead`
collects those that must not start any more: closed before anything of them
reached the computer, or revoked before access was restored; `missed` those whose
cancel was announced in vain while the app held them from an earlier connection, past
the one look at the hello's list.

## 3. Runs

Every run ends in seconds to under three minutes on two cores.

| Run | Shows |
|---|---|
| `turn_stop` (@stop@) | Stop, follow-up and delete against a turn that may hang or reply without an answer, and a signal that may be lost: `ExclusiveTurn`, `StopIsHeard`, `ArchivedFinal`, `NothingForgotten` |
| `turn_mishaps` (@mishaps@) | a follow-up typed while a turn runs and calls a tool; an interrupt that hits the turn of a session reactivated meanwhile; a reply that is no answer with two exceptions, in the wake or in the error path of the one before, or with a worker's death; a death and a recovery count that fails; a death that two replicas sweep after, counting together: `NothingSkipped`, `EveryMessageAnswered`, `MidTurnResumes`, `RecoveryBounded` |
| `turn_stall` (@stall@) | processes stall past their lease: `LeaseDiscipline`, `CursorFenced`, and the refinement `KeepsOwnership` |
| `turn_tool_gap` (violated) | `RecoveryContinues` when a worker dies after a tool |
| `slots_full` (@full@) | parent and child on one slot and a cap of one, with a failing gate call, an interrupt, a detach or a death: `WorkHoldsSlots`, `NoHolderLeaks`, `SemaphoreConserved`, `EveryTurnEnds` |
| `breaker_loop` (@loop@) | crashes of two kinds, unlimited automatic wakes, failures: `StreakBounded`, `TripsOnStreak`, `RefusedUntilHuman`, `ReopensForHuman` |
| `tasks_board` (@board@) | eleven scenarios of a task and its child with one tick beside the calls, and four of a task with two ticks at once, which crashes, is refused, fails to spawn or is cancelled: `DependenciesRespected`, `CrashesBounded`, `OneAttempt`, `SettledStays`, `EveryTaskSettles`, `CoordinatorTold` |
| `tasks_deaf_cancel` (violated) | `CancelStops`: the interrupt of `cancel_task` is heard by nobody |
| `schedule_day` (@sday@) | eighteen scenarios of the three kinds of schedule, each with and without a first plan: `RunsApart`, `LimitKept`, `PersonFinal`, `CancelStopsRuns`, `GoesOn`, `ToldOnce`, `EndingTold` |
| `schedule_twice` (violated) | `OnceRunsOnce`: a one-off paused while it starts |
| `outbox_turn` (@turn@) | scenarios of rows, loops and failures, with refused edits and cut texts in each: `NothingLost`, `ShownOnce`, `EveryRowSettles` |
| `device_day` (@dday@) | scenarios of an agent's operation and a user's request: `RunsAsRecorded`, `EveryCallReturns`, `CancelHeard` |

The violated runs state what a document or a comment promises and show an
execution of the code that breaks it; section 6 tells the stories.  Each
property is also shown to be breakable: `PROJECT.json` names, for each, a
definition and a deviation from it (marked *Deviation* in the modules, or placed
before the definition) that a plausible bug would be, under which TLC finds the
property violated.

A property that holds only short of some fault says so in its own formula, with
history variables: `met`, the inputs that have happened, and those that name
exactly what went wrong.  `OneAttempt` is not claimed once a call raised, nor of a task
in `crossed`; `CrashesBounded` not once two of a block, a stopped worker and a failed
spawn have met, nor of a task in `crossed`; `SettledStays` not of a task that a tick has
judged and not written yet, or whose claim is being given up; `RecoveryBounded` allows
for the recoveries in `blind`; `NothingForgotten`, `EveryMessageAnswered` and
`MidTurnResumes` excuse a session at rest whose log ends in a draft (`Overlooked`);
`NothingLost` the rows in `cut`, `ShownOnce` those in `reposted`, `EveryRowSettles` a
loop that died, and `CancelHeard` the operations in `missed`.  The runs reach the
excused states.  What is excused is what the code does not handle: the hazards of
`PROJECT.json` say so at the line, and section 6 says which document promises more.

### Bounds

A scenario says how often the environment may do each input (`Inputs`, or
`Mishaps` in `TurnSlots`): messages, stops, retries, deletes, tool calls,
exceptions, deaths, failed calls, lost writes, instants that come, and so on.
`Scenarios` is a set of them, one chosen in `Init`, so that one run covers many
small combinations where a single large one is out of reach: the questions are
about pairs of races (a follow-up with a tool, a stop with a follow-up, a death
with a turn, a pause with a start).  The platform's own steps are never bounded:
ticks, sweeps, polls and retries go on for ever, and in `CrashBreaker` automatic
re-wakes are unlimited, which is what makes `StreakBounded` mean something.

Two tasks on one worker exercise the deferred re-wake, on two workers the lease;
a third adds no new pair.  `MaxRetries` and `MaxRecoveries` are 1 or 2 where the
code has 3, `MaxAttempts`, `MaxOnce` and `MaxInARow` are 2, so that exhaustion is
reached; the breaker keeps the code's 3 and 3, and one task: with two, the race
on the counter (section 6) breaks its refusal.  `Sweeping` and `Ticking` say who sweeps
and who ticks in each scenario.  The board has a task and its child with one ticker
beside the calls, or one task with two tickers; two replicas sweep after a death with
nothing else, one sweeps in the other mishaps, and a chat in which nothing goes wrong
is answered without a sweep.  A schedule has two
replicas in the scenarios about slowness and one in the others.  Two rows fit
into one message (`MaxText`), so that narration overflows.  A device has two
connection names, the live one and one its server has not given up yet, and one
or two operations (they meet only in what a pause or a deletion cancels).  Runs say
`CHECK_DEADLOCK FALSE`: a chat at rest, with its inputs used up, stops.

### Fairness

`FairSpec` of `SessionTurn` assumes that a request that began runs to its end,
that workers keep popping, that the renewal and the sweep loops keep running,
that a lease nobody renews runs out and that models and tools answer.  The code
justifies these: the loops are `while` loops that log and go on after an
exception, provider calls have timeouts, the lease has a TTL.  Nothing makes a
user act or an exception happen.  `HungSpec` drops the assumption on models and
tools: only an interrupted call is certain to return.  In `TurnSlots` the
semaphore (`TakeSem`, `Dispatch`) and the pop are strongly fair: an asyncio
semaphore wakes its waiters in order, and a rejected queue entry is put back
with a backoff so that others are tried.  In `CrashBreaker` tasks finish what
they popped, but no wake need ever end well.  In
`TaskBoard` ticks, calls, tools and the sweep go on and turns end, as iterations
are bounded; in `Schedule` replicas keep ticking, the TTLs of the two locks run
out, and a paused run passes its time limit; in `Outbox` the loops keep
going and time passes, but a platform may refuse every send.  In `DeviceJournal`
`Spec` has every process go on (the recheck of a wait, a ping's refresh and
delivery, reconnecting with backoff), and has the user start the app again and
restore its access; `Attended`, the premise of `EveryCallReturns`, has them answer
prompts too, without which an operation may be asked about for ever and its call
rightly waits.  `CancelHeard` does without it.

## 4. What is proved

`SessionTurn_proofs` proves, for any number of workers, tasks, requests and
sweepers and any bounds, from the named assumptions of `SessionTurn` only:

* `Typed`: `Spec => []TypeOK`.
* `Disciplined`: `Spec => []LeaseDiscipline`, the inductive invariant.
  `ExclusiveTurn` is not inductive: that two tasks do not own the session
  follows only if no two tasks hold one token and if, without stalls, a
  holder's token is the one in the lease row and the row is alive, so that
  `Acquire` is disabled.  `LeaseDiscipline` adds that the row holds the newest
  token or none, that every step inside a turn has a token, and that no turn's
  end aims its cursor past the log.
* `Exclusive`: `Spec => []ExclusiveTurn`.
* `Fenced`: `Spec => CursorFenced`.  Whoever moves the cursor holds the newest
  token ever issued, moves it forward and stays inside the log: this holds with
  `Stalls` true, that is for zombies too.
* `Archived`: `Spec => ArchivedFinal`.
* `Owned`: `Spec => KeepsOwnership`, the refinement of `SessionOwner`.  The
  initial states map to initial states, and each action of `Next` maps to the
  step of the store that it takes, or to a stutter; the invariant supplies that
  a holder's token is the row's, that the cursor is inside the log, and that the
  log only grows.
* `RecoveriesEnd`: `Spec => []RecoveryBounded`, for finitely many sweepers, at least
  one in each scenario, deaths, stalls and failing counts included.  A sweep writes what it decided earlier, so the inductive invariant
  (`Foreseen`) counts the sweeps that have decided and not written together with
  the recoveries in the log.  `RecoveryStep` shows that every step leaves the log,
  adds another event to it, judges under the ceiling, judges without a count (`blind`),
  or is a sweep's write, and that nobody joins or leaves the sweepers.
* `NoneSkipped`: `Spec => []NothingSkipped`, when turns end only after draining
  (`~BareEnds`, see section 6) and each scenario either has no tool calls, or no
  stalls, stops, deletes, drafts, exceptions and deaths.  `EndsInv` says that a turn near
  its end aims the cursor only past messages that were heard or failed; without
  tools the cursor is moved by nothing else.  With tools it may pass a message that
  came while the tool ran, and then (`WillHear`) the holder of the lease is on its
  way to a request that includes it.  The premise is the truth about the code: a
  turn cut off in that window does skip the message (section 6).
* `NoneForgotten`: `Spec => []NothingForgotten`, when no process stalls, crashes or
  dies, no reply is a draft, turns end only after draining, and each scenario either has no stops and
  deletes (tools, retries and any number of sweepers allowed), or has no tool calls
  and no sweepers (stops, retries and deletes allowed).  `AtRest` is a state of rest,
  so the invariant, `RestInv`, must say of every state on the way there who will look
  at an unanswered message.  `Steady`: every task is where a wake without exceptions
  can be, `_active_harnesses` names only a task at work, and a live lease has its
  holder.  `OnItsWay`: the queue, a request about to enqueue, a dispatch before its
  probe or after a busy one, or a deferred wake with its harness still to settle;
  `WayKept` shows that no step loses it but a dispatch that found the lease free and
  builds a harness, which a turn under way rules out.  `InSight`: a turn still asking
  has read every message, and one that is ending has answered every message, but those
  on their way.  Then (`CaredFor`) in a session that is stopped, an active one with
  something unanswered has a wake coming or a log that the sweep selects, a completed
  one has a wake coming that revives it; in a session that is not, a wake is coming or
  a turn is asking.  That the coming wake finds the message rests on the invariant of
  `NoneSkipped`, with nothing excused (`Covers` with the empty set).  Each thing the
  premise leaves out has a counterexample (section 6).

The step lemmas `TypeStep` and `LeaseStep` go through `Next` action by action;
`EmitTyped`, `UseTyped`, `NatMin`, `LastMessageInLog`, `Grows`, `OthersStand` and
`TasksStand` are what they share.  `SteadyActs` leaves of `Next` what can happen
without exceptions and deaths; `Writers` and `StatusWriters` say who writes which
event and which status.

`TurnSlots_proofs` proves, for any turns, workers, activities, cap and slots, from
`TurnSlots`' named assumptions:

* `Conserved`: `Spec => []SemaphoreConserved`; `HoldsSlots`: `Spec =>
  []WorkHoldsSlots`; `NoLeaks`: `Spec => []NoHolderLeaks`.

They share the inductive invariant `IInv`: the types; that a dispatch loop's turn is
its own and not running yet (`LoopInv`); what each place in a critical section
implies of the turn's record (`TurnInv`: a release has given the semaphore and still
has the gate, a take that is at the semaphore has the gate, an ended turn takes
nothing, a gate slot given back is out of the set unless the call is in doubt); and
that the free slots with those the turns hold are all of them (`CountInv`).  None of
the three is inductive without what the record says in the middle of `Give` and
`Take`.

`CrashBreaker_proofs` proves, for any threshold and retries:

* `Typed`: `Spec => []TypeOK`, for any tasks;
* `StopsReplay`: `Spec => []StreakBounded`, `TripsRightly`: `Spec =>
  []TripsOnStreak`, `StaysShut`: `Spec => RefusedUntilHuman`, for one task.

One task is not a convenience: with two, the counter that is read and written back
loses counts and trips (section 6).  The properties themselves are claimed while no
Redis call or write fails and the state in Redis does not expire (`Undisturbed`).
The invariant says that what a task has read is what Redis holds (`Reading`), that
the count is the real streak of the history variable but for the crash or the end a
task is about to note (`Counts`), that the threshold is reached only where the
breaker trips (`Bounded`), and that a trip no person has answered is in Redis, at
its place in the log, or about to be (`Shut`).

`TaskBoard_proofs` proves, for any tasks, any parents among them and any number
of ticks at once, from `TaskBoard`'s named assumptions:

* `InOrder`: `Spec => []Ordered`, the inductive invariant.
  `DependenciesRespected` alone says nothing of a task that is only `ready`, nor
  of the verdict a slow tick has read and not written; `Freed` adds that a task
  past waiting, or one a tick has judged, has its parents finished, and `Held`
  that a process working on a task has claimed it.  `TypeOK` itself needs
  `Held`: `Spawn` makes a session of the task that its process holds.
* `Typed`: `Spec => []TypeOK`.
* `ParentsFirst`: `Spec => []DependenciesRespected`.
* `StaySettled`: `Spec => SettledStays`.  Every step but the writes by id asks for a
  status that is not settled; `Fine` (below) supplies that a task not yet created is
  absent and that a call gives back its own task.
* `CrashesAreBounded`: `Spec => []CrashesBounded`.  `Fine` (what a process, a
  verdict and a session may hold of a task at each stage) and, until `Muddled` and for
  the tasks that are not in `crossed`, `Tallied`: a task's attempts exceed its crashes
  by one while a claim of it is open or a verdict on it is pending, so that what is
  given back was claimed and what is counted as a crash was under the ceiling.  Such a
  task has at most one tick with a verdict on it, and none while another starts it.
* `OneAtATime`: `Spec => []OneAttempt`.  `Alone` says, until one of the excused
  inputs happens and for the tasks that are not in `crossed`, what a task's sessions
  may be while it waits, is being claimed, runs, and is settled: all but the wired one
  are dead, the wired one is its last, and nobody else is about to make one.

`Schedule_proofs` proves, for any replicas, ceilings and scenarios:

* `Typed`: `Spec => []TypeOK`.
* `PersonsWord`: `Spec => PersonFinal`.  The lemma `RowStep` shows that every
  step of every actor makes one of five kinds of change to the row (`Writes`):
  it leaves status and plan alone, keeps or ends an active schedule, unplans an
  active one, or is a person's cancel or resume.  The invariant (a paused or
  cancelled schedule has no next run) and both halves of `PersonFinal` follow
  from that alone.
* `ToldAtMostOnce`: `Spec => []ToldOnce`, by the invariant `Told`: a replica
  about to tell is the only one, the row is marked, and nobody has told.

`ScheduleRuns_proofs` adds:

* `OneRun`: `Spec => []RunsApart`, and `KeepsLimit`: `Spec => []LimitKept`, by
  `TypeOK` and, until `Strayed`, `RunsInv`.  Runs have different instants, and a
  replica that starts a run has the one of the instant it claimed (`Instants`); what
  is not active has no plan (`Resting`); one replica at a time holds a claim, which
  is still the row's unless a person or a run planned another (`Leading`); the last
  recorded run is of neither the row's instant nor the claimed one, so that a claim
  adopts its own run and no other (`Recorded`); a run is past its limit only if one
  overran (`Punctual`); the one run that is going is the last recorded, the one being
  started, or the one a dead replica left at the row's instant (`Apart`, `InOrder`);
  and the runs are those counted, and at most one more (`Limited`).

`Outbox_proofs` proves, for any rows, loops, message size, attempts and scenarios:

* `NothingIsShownTwice`: `Spec => []ShownOnce`, for any number of loops, deaths
  included, until a call raised after its message arrived (`Calm`), but for the rows
  that a refused edit posted afresh (`reposted`), and these once in each message.  A loop has a
  group of rows exactly while it is at it (`Places`); while `Calm` no two loops have
  one row (`Owned`), each row is at home in one message and once in it (`Homes`,
  `Clean`), and what is yet to be sent is nowhere (`Unsent`, `OnlyIn`).
* `NothingIsLost`: `Spec => []NothingLost`, for one loop and no lost note of an edit
  (`Alone`), and the rows that were in no refused chunk (`cut`): the message a loop has sent is as it sent it (`AsSent`), and what was
  delivered is in a message that no edit under way leaves it out of (`Safe`).

`DeviceJournal_proofs` proves, for any operations and connections, any crashes,
lost frames and lost announcements:

* `TrueRecord`: `Spec => []RunsAsRecorded`.  `RowsInv` relates the two journals
  (how often an operation was started, what the app's rows say of it, and what the
  server recorded); `UpInv` says that every result under way to the server is true;
  `LinkInv` that an app that is not up has no connection, and that nothing on the
  app's connection, nor about to be sent on it, starts an operation that must not
  start any more.  `OpsAssumption`: the operations are finitely many.

## 5. What is only model-checked

Liveness under fairness (`EveryMessageAnswered`, `StopIsHeard`,
`MidTurnResumes`, `EveryTurnEnds`, `ReopensForHuman`, `EveryTaskSettles`,
`CoordinatorTold`, `CancelStopsRuns`, `GoesOn`, `EveryRowSettles`,
`EndingTold`, `EveryCallReturns`, `CancelHeard`), because the prover has neither `ENABLED` nor fairness.
Every other property that a passing run checks is stated by a theorem.  Outside a
theorem's premises TLC still speaks for the instances of the runs: `turn_stop` checks
`NothingForgotten` with a tool and a stop in one session, on one worker and without a
retry, which no theorem covers.

## 6. Disagreements found

1. `turn_tool_gap`: a death between the tool result's cursor advance and the
   next request leaves nothing pending; recovery finds nothing to do and gives
   the session up, where the architecture page says it "continues from where it
   left off".
2. `tasks_deaf_cancel`: `cancel_task`, `worker_complete` and `worker_block`
   publish their interrupt on `<prefix><id>`; workers subscribe to `<prefix>:*`.
   The cancelled task's session works on.  (With the colon, the property holds.)
3. `schedule_twice`: a one-off paused between its claim and `mark_run_created`
   keeps its run and stays paused; resuming plans it again, so it runs twice.

Further windows met while modelling have no run of their own and are recorded as
hazards:

* a turn that ends on its iteration budget moves the cursor past an unread
  follow-up (`harness/loop.py:6190`), which the steering design says "is handled
  on the next wake";
* a message that re-queues a dead turn's session before the sweep sees it may
  leave the dead holder counted for ever (`runtime/turn_gate.py:16`);
* a message that arrives during a tool which a Stop follows: the tool's result has
  moved the cursor past it (`harness/tool_exec.py:2278`) and the turn ends before
  it reads it; with a retry and two workers, a late interrupt cuts off the turn that
  has just skipped the message, and the session completes without it;
* a sweep that gave the session up writes `session.fail` (`dispatcher.py:1235`) after
  the status, and maybe after the user's retry: if a late interrupt then aborts the
  new turn, the session is active, its message unanswered and its log ends in
  `session.fail`, so that no sweep selects it (found by TLC while looking for the
  inductive invariant of `NothingForgotten`, with two stops and three retries);
* a dispatch that runs out of tries beside another worker's turn writes
  `session.fail` and `failed` (`dispatcher.py:890`), and the turn's own `completed`
  replaces it: a message that came after that turn's last drain has lost its wake (one
  exception and `MaxRetries` 1 are enough);
* a pause undone by a revival that read the status before it;
* a deferred re-wake (`dispatcher.py:708`) that dies with its worker, or is left in
  `_rewake_pending` by the turn it was deferred to when that turn stalled, lost its
  lease and is cancelled: `_process` settles it only after a wake that returned (TLC
  finds it with two messages and three tasks, two on the worker that stalled);
* two workers that overwrite each other's trip of the breaker; a message during
  the wake whose crash trips it;
* a reply without tool calls from which the turn goes on (a length continuation, an
  empty retry, a nudge, a provider's error; `harness/loop.py:3724-3967`) followed by
  the worker's death: `find_orphaned_sessions` reads it as a clean end
  (`session/store.py:3402`), and nobody finds the session, where
  `docs/operations/index.md:243` says that "crash recovery is automatic".
  `turn_mishaps` reaches it (`Overlooked`);
* a recovery count that raises lets the session pass as if it had none
  (`orchestrator/dispatcher.py:1083`), past the ceiling (`blind`);
* two task ticks at once: the finalize step writes by id, so a slow tick writes
  its verdict over the other's newer claim, and two attempts act or one crash counts
  twice, where `tasks/dispatcher.py:571` and `docs/tasks/index.md:98` say that
  concurrent ticks do no-ops "at worst" (`crossed`: without that excuse `OneAttempt`,
  `CrashesBounded`, `EveryTaskSettles` and `CoordinatorTold` fail in the scenarios with
  two ticks);
* one tick is enough to undo a cancel: it has judged a crashed attempt, `cancel_task`
  commits, and the tick writes `ready` by id, where `docs/tasks/index.md:63` says
  "Cancelled and failed are terminal" (`Undoing`);
* a retried task's `current_session_id` is the old worker's until the new one is
  wired (`tasks/dispatcher.py:301`): an old worker still at work, because it blocked
  and nobody heard its interrupt, or because it was stopped and resumed, passes
  `worker_block`'s check (`tasks/tools.py:765`) and gives the attempt back a second
  time, so that more attempts crash than `max_attempts` (`Muddled`; found by the
  proof of `CrashesBounded`);
* a task whose `current_session_id` was not written stays running for ever: the
  finalize step joins on it (`tasks/service.py:208`);
* a scheduled start that raises after it made the session is retried at a new
  instant, with a new key, and makes another; and in a dynamic loop the former run
  may choose its next instant after a replica died starting the next run: the
  choice replaces the instant, the started run is not found again under its key, and
  two runs overlap (`Strayed`; found by the proof of `RunsApart`);
* two delivery loops that work on one progress message write over each other's
  narration, and a row claimed by a loop that died stays claimed;
* a text posted in several chunks of which a later one is refused counts as sent
  (`channels/platforms/slack.py:1103`), and the rows folded into it as delivered,
  where `channels/dispatcher.py:854` says that text beside a tool call "is never
  dropped" (`cut`);
* an edit that is refused, or raises although it was applied, is followed by a fresh
  post of the whole text (`slack.py:1080`): the narration before it stands in two
  messages (`reposted`);
* a device operation the app holds from a former connection, closed between the
  look at the hello's list (`devices/link.py:650`) and the first delivery, with
  its announcement lost: no reconcile names it, since `deliver` repeats cancels
  only for what this connection sent, where `link.py:85` says "the next reconcile
  sends it once more for each operation the app was sent".  The app goes on
  asking and, if allowed, runs it.  `CancelHeard` excuses exactly these (`missed`);
  `device_day` has a drop, a stopped call and a lost announcement in one scenario;
* the server's side of a connection whose app has gone reads nothing between
  hello and welcome, so it may claim the device after the app's next connection
  did; that one is closed with 4409, which the app takes as final
  (`desktop/src/link/client.ts:70`), where `presence.py:62` says a claim tells
  "any older one to close".  One broken socket is enough: the state is `app =
  "ended"`, and `Restart`, the user's, leaves it.

## 7. Not modelled

In `SessionTurn`: prompt building, compaction, token budgets as numbers,
streaming deltas, parallel tool calls of one response, missions, project threads,
commands, `ask_user_question`, the one-hour horizon of the sweep.
In `TurnSlots`: the delegation timeout and nested waits.  The graceful drain of a
worker.  In `TaskBoard`: the nudging of idle missions, the cap on claims of one
tick, comments and listings.  In `Schedule`: the batch of several schedules a
tick claims (rows do not interact), cadence arithmetic, creation limits.  In
`Outbox`: platforms that cannot edit, code-run heartbeats, the size limit of a
burst, and the order of `UPDATE ... RETURNING`, taken to be the order of the ids.
The saga (used when workstreams and history land) runs its compensations in
sequence over file and git operations and keeps no state another actor writes.
In `DeviceJournal`: the chunks of a transfer, bindings and their folders, thread
landings and put-backs, the limits on open operations, the reaping of closed rows
(a reply for one is acknowledged and dropped), a full disk, the links that only
verify or revoke a token, and two devices.  Sandboxes, browsers, the MCP proxy
and voice are I/O against external processes; memory, skills, tenants, storage
and the web client are CRUD, configuration and presentation.

The modules are not composed: each takes of the others what it needs as steps of
its environment.  Two dispatch loops over a full tenant can reject each other in
lockstep for ever; real timing breaks the tie, so `slots_full` has one worker.

## 8. Plan

Done: (1) `SessionTurn` with its runs, (2) its lease proofs, (3) `TurnSlots`,
(4) `CrashBreaker`, (5) `TaskBoard`, (6) `SessionOwner` and its refinement,
checked and proved, (7) `Outbox`, (8) `Schedule`, (9) the first proofs about the
board and the schedule, (10) `DeviceJournal`, (11) the proofs of `TurnSlots`,
`CrashBreaker`, `Outbox` and `DeviceJournal`, of the schedule's runs, of the board's
crashes and attempts, of the sweep's ceiling, of `NothingSkipped` and of
`NothingForgotten`.

Theorems to come: none of the safety properties; the liveness properties wait for a
prover of fairness.
Models to come: the graceful drain, added to `SessionTurn` and `TurnSlots`, with
the hand-over of a waiting device call to another worker, and the transfers of
`DeviceJournal`.
