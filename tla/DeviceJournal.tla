---------------------------- MODULE DeviceJournal ----------------------------
(***************************************************************************)
(* Operations on a user's computer: the server's journal of them           *)
(* (surogates/devices/operations.py, store.py), the link that carries them *)
(* (surogates/devices/link.py, presence.py; desktop/src/link/client.ts,    *)
(* device.ts) and the app's own journal and runner                         *)
(* (desktop/src/journal/journal.ts, operations/runner.ts).                 *)
(*                                                                         *)
(* One device and one session.  An operation is its row: one invocation    *)
(* and ordinal.  A result is one frame: the chunks of a transfer are not   *)
(* modelled, nor are bindings, landings and the limits on open operations. *)
(* A socket delivers in order what it delivers; a step of the server is    *)
(* one transaction or one Redis call with the frames sent on its word, a   *)
(* step of the app is one callback.                                        *)
(***************************************************************************)
EXTENDS Naturals, Sequences, FiniteSets, SequencesExt

CONSTANTS
  Ops,         \* the operations the session's calls ask for
  Requests,    \* those among them that are the user's own, not the agent's
  Conns,       \* names of connections
  NoConn,      \* no connection
  Scenarios    \* the operations that are asked for, and what may happen

\* "dies": a worker dies, or hands its turn over; "halts": a call is cancelled; "stops": the
\* session is paused or fails; "deletes": it is deleted; "fails": a cancelling transaction
\* fails; "lost": an announcement does not arrive; "expires": the presence key is lost;
\* "drops": a socket breaks; "quits", "crashes": the app ends; "revokes": the user revokes.
Inputs == {"dies", "halts", "stops", "deletes", "fails", "lost", "expires", "drops",
           "quits", "crashes", "revokes"}

ASSUME OpsAssumption == IsFiniteSet(Ops)
ASSUME RequestsAssumption == Requests \subseteq Ops
ASSUME ConnsAssumption == NoConn \notin Conns
Scenario == [ops : SUBSET Ops, left : [Inputs -> Nat]]

ASSUME ScenariosAssumption == Scenarios \subseteq Scenario

VARIABLES
  row,        \* row[o]: the journal's row: none, open, or how it was closed
  status,     \* the session: active, stopped (paused or failed), deleted
  ending,     \* a stop has set the status and is about to cancel: its kind, or "none"
  toTell,     \* the operations cancelled and not yet announced
  gen,        \* credential_generation
  revoked,    \* revoked_at is set
  call,       \* call[o]: the worker's (or the request's) call of run
  st,         \* st[c]: where the server's side of connection c is
  as,         \* as[c]: the generation of the token c authenticated with
  reported,   \* reported[c]: what its hello lists as open
  holder,     \* the connection the presence key names
  delivered,  \* delivered[c]: sent on c and not answered
  batch,      \* batch[c]: read by pending() and not yet sent
  live,       \* live[c]: cancels, and claims of others, on the control channel for c
  down,       \* down[c]: the frames on their way to the app, in order
  up,         \* up[c]: the results on their way to the server, in order
  app,        \* the app: up, ended (another link took over), cut (no access), retired, down
  tok,        \* the generation its token is of; 0 is none
  sock,       \* the app's connection
  welcomed,   \* it has had its welcome
  jrn,        \* jrn[o]: the state of the app's row for o
  ans,        \* ans[o]: the outcome in that row
  job,        \* job[o]: what the runner is doing about o
  runs,       \* (history) how often o was started on the computer
  dead,       \* (history) operations that must not start any more
  missed,     \* (history) cancels whose loss nothing makes up for: see HeldOver
  left        \* left[i]: how often input i may yet happen

journal == <<row, status, ending, toTell>>
access == <<gen, revoked>>
server == <<st, as, reported, holder, delivered, batch, live>>
frames == <<down, up>>
client == <<app, tok, sock, welcomed>>
runner == <<jrn, ans, job>>
history == <<runs, dead, missed>>
vars == <<row, status, ending, toTell, gen, revoked, call, st, as, reported, holder, delivered,
          batch, live, down, up, app, tok, sock, welcomed, jrn, ans, job, runs, dead,
          missed, left>>

Answers == {"ok", "refused", "interrupted"}
Closed == Answers \cup {"cancelled", "revoked"}

Frame(t, o) == [type |-> t, op |-> o]
Use(i) == left[i] > 0 /\ left' = [left EXCEPT ![i] = @ - 1]
Open(o) == row[o] = "open"
Shut(os, how) == [o \in Ops |-> IF o \in os THEN how ELSE row[o]]

\* Nothing of o has reached the computer, nor is on its way there.
Unsent(o) == /\ jrn[o] = "none"
             /\ \A c \in Conns : o \notin batch[c] /\ Frame("op", o) \notin ToSet(down[c])
\* Close these rows; one the computer has not heard of can start no more.
Close(os, how) == /\ row' = Shut(os, how)
                  /\ dead' = dead \cup {o \in os : Unsent(o)}

(* ------------------------------ the worker ----------------------------- *)

Ask(o) == /\ call[o] = "idle" /\ call' = [call EXCEPT ![o] = "record"]
          /\ UNCHANGED <<journal, access, server, frames, client, runner, history, left>>

\* Whether the session is stopped for this operation (_check_session).
StoppedFor(o) == IF o \in Requests THEN status = "deleted" ELSE status /= "active"

\* _record: a new row, closed at once on a revoked device and none for a stopped session,
\* or the one recorded before, whose outcome may be known.
Record(o) ==
  /\ call[o] = "record"
  /\ \/ /\ row[o] = "none" /\ StoppedFor(o)
        /\ call' = [call EXCEPT ![o] = "done"] /\ UNCHANGED <<row, dead>>
     \/ /\ row[o] = "none" /\ ~StoppedFor(o) /\ revoked
        /\ Close({o}, "revoked") /\ call' = [call EXCEPT ![o] = "done"]
     \/ /\ row[o] = "none" /\ ~StoppedFor(o) /\ ~revoked
        /\ row' = Shut({o}, "open") /\ call' = [call EXCEPT ![o] = "wait"] /\ UNCHANGED dead
     \/ /\ row[o] /= "none"
        /\ call' = [call EXCEPT ![o] = IF Open(o) THEN "wait" ELSE "done"]
        /\ UNCHANGED <<row, dead>>
  /\ UNCHANGED <<status, ending, toTell, access, server, frames, client, runner, runs, missed,
                 left>>

\* The wait's recheck of the row, which an announcement only makes sooner.
Await(o) == /\ call[o] = "wait" /\ row[o] \in Closed
            /\ call' = [call EXCEPT ![o] = "done"]
            /\ UNCHANGED <<journal, access, server, frames, client, runner, history, left>>

\* The worker dies, loses the lease or hands its turn over; a request's HTTP wait ends.  The
\* row stays as it is, for whoever asks again.
Die(o) == /\ call[o] \in {"record", "wait"} /\ Use("dies")
          /\ call' = [call EXCEPT ![o] = "idle"]
          /\ UNCHANGED <<journal, access, server, frames, client, runner, history>>

\* A call that is stopped, and closes its own operation.
Halt(o) == /\ call[o] \in {"record", "wait"} /\ o \notin Requests /\ Use("halts")
           /\ call' = [call EXCEPT ![o] = "halt"]
           /\ UNCHANGED <<journal, access, server, frames, client, runner, history>>
CancelOwn(o) ==
  /\ call[o] = "halt" /\ call' = [call EXCEPT ![o] = "done"]
  /\ \/ /\ LET mine == {p \in {o} : Open(p)}
           IN Close(mine, "cancelled") /\ toTell' = toTell \cup mine
        /\ UNCHANGED left
     \/ Use("fails") /\ UNCHANGED <<row, dead, toTell>>
  /\ UNCHANGED <<status, ending, access, server, frames, client, runner, runs, missed>>

(* ------------------- stopping a session, revoking a device ------------------- *)

Stop == /\ status = "active" /\ ending = "none" /\ Use("stops")
        /\ status' = "stopped" /\ ending' = "stop"
        /\ UNCHANGED <<row, toTell, access, call, server, frames, client, runner, history>>
Delete == /\ status /= "deleted" /\ ending = "none" /\ Use("deletes")
          /\ status' = "deleted" /\ ending' = "delete"
          /\ UNCHANGED <<row, toTell, access, call, server, frames, client, runner, history>>

\* cancel: a pause stops the agent's operations, a deletion the user's requests too.
Cancelled == {o \in Ops : Open(o) /\ (ending = "delete" \/ o \notin Requests)}
Cancel ==
  /\ ending /= "none" /\ ending' = "none"
  /\ \/ Close(Cancelled, "cancelled") /\ toTell' = toTell \cup Cancelled /\ UNCHANGED left
     \/ Use("fails") /\ UNCHANGED <<row, dead, toTell>>
  /\ UNCHANGED <<status, access, call, server, frames, client, runner, runs, missed>>

\* The connections whose subscription to the control channel is up, and what it brings them.
Listening == {c \in Conns : st[c] \in {"subscribed", "claimed", "announced", "welcomed", "serve"}}
Announce(m) == live' = [c \in Conns |-> IF c \in Listening THEN live[c] \cup {m} ELSE live[c]]
\* The computer holds o from an earlier connection: the one it has now is past the cancels for
\* what the hello lists and has not sent o, so neither of the two that repeat a cancel names it.
HeldOver(o) == /\ sock /= NoConn /\ st[sock] = "serve" /\ job[o] /= "idle"
               /\ o \notin delivered[sock] \cup batch[sock]
Tell(o) ==
  /\ o \in toTell /\ toTell' = toTell \ {o}
  /\ \/ Announce(Frame("cancel", o)) /\ UNCHANGED <<missed, left>>
     \/ /\ Use("lost") /\ UNCHANGED live
        /\ missed' = IF HeldOver(o) THEN missed \cup {o} ELSE missed
  /\ UNCHANGED <<row, status, ending, access, call, st, as, reported, holder, delivered, batch,
                 frames, client, runner, runs, dead>>

\* _revoke: every open operation of the device closes with it.
Revoke == /\ ~revoked /\ Use("revokes") /\ revoked' = TRUE
          /\ Close({o \in Ops : Open(o)}, "revoked")
          /\ UNCHANGED <<status, ending, toTell, gen, call, server, frames, client, runner, runs,
                         missed>>

(* ------------------------- the link, server side ------------------------ *)

\* What the server sends is lost once the app has left the socket.
Send(c, fs) == down' = IF sock = c THEN [down EXCEPT ![c] = @ \o fs] ELSE down
Frames(t, os) == SetToSeq({Frame(t, o) : o \in os})
Set(f, c, v) == [f EXCEPT ![c] = v]

\* The server's side of c ends: what it kept is gone, and its own claim with it.
Gone(c) == /\ st' = Set(st, c, "off") /\ as' = Set(as, c, 0)
           /\ reported' = Set(reported, c, {}) /\ delivered' = Set(delivered, c, {})
           /\ batch' = Set(batch, c, {}) /\ live' = Set(live, c, {})
           /\ up' = Set(up, c, <<>>)
           /\ holder' = IF holder = c THEN NoConn ELSE holder
CloseWith(c, code) == Gone(c) /\ Send(c, <<[type |-> "close", code |-> code]>>)

\* The token, read before the hello: one of an older generation is unknown.
Authenticate(c) ==
  /\ st[c] = "opened"
  /\ \/ /\ as[c] = gen /\ ~revoked
        /\ st' = Set(st, c, "hello")
        /\ UNCHANGED <<as, reported, holder, delivered, batch, live, frames>>
     \/ as[c] /= gen /\ CloseWith(c, "unauthenticated")
     \/ as[c] = gen /\ revoked /\ CloseWith(c, "revoked")
  /\ UNCHANGED <<journal, access, call, client, runner, history, left>>

\* It listens before it claims: then the key is c's, and then whoever had it is told.
Subscribe(c) == /\ st[c] = "hello" /\ st' = Set(st, c, "subscribed")
                /\ UNCHANGED <<journal, access, call, as, reported, holder, delivered, batch, live,
                               frames, client, runner, history, left>>
Claim(c) == /\ st[c] = "subscribed" /\ st' = Set(st, c, "claimed") /\ holder' = c
            /\ UNCHANGED <<journal, access, call, as, reported, delivered, batch, live, frames,
                           client, runner, history, left>>
Supersede(c) == /\ st[c] = "claimed" /\ st' = Set(st, c, "announced")
                /\ Announce([type |-> "superseded"])
                /\ UNCHANGED <<journal, access, call, as, reported, holder, delivered, batch, frames,
                               client, runner, history, left>>

Current(c) == as[c] = gen /\ ~revoked
Welcome(c) ==
  /\ st[c] = "announced"
  /\ \/ /\ Current(c) /\ st' = Set(st, c, "welcomed")
        /\ Send(c, <<[type |-> "welcome"]>>)
        /\ UNCHANGED <<as, reported, holder, delivered, batch, live, up>>
     \/ ~Current(c) /\ CloseWith(c, "revoked")
  /\ UNCHANGED <<journal, access, call, client, runner, history, left>>

\* closed_among: those of these operations that the server has closed.
\* Deviation (RevokedAmong): a session's own cancels are left out.
RevokedAmong(os) == {o \in os : row[o] = "revoked"}
ClosedAmong(os) == {o \in os : row[o] \in Closed}
Reconcile(c) ==
  /\ st[c] = "welcomed" /\ st' = Set(st, c, "serve")
  /\ Send(c, Frames("cancel", ClosedAmong(reported[c]))) /\ reported' = Set(reported, c, {})
  /\ UNCHANGED <<journal, access, call, as, holder, delivered, batch, live, up, client, runner,
                 history, left>>

\* pending: the operations with no outcome, for the current credentials alone.
Pending(c) == IF Current(c) THEN {o \in Ops \ delivered[c] : Open(o)} ELSE {}

\* deliver: cancels again for what was sent and is closed since, then reads what to send.  What
\* closes between the two reads is left to the next delivery, so a read of what to send may
\* find such rows or not.
Recheck(c) ==
  /\ st[c] = "serve" /\ batch[c] = {} /\ holder = c
  /\ LET over == ClosedAmong(delivered[c])
     IN /\ over /= {} /\ Send(c, Frames("cancel", over))
        /\ delivered' = Set(delivered, c, delivered[c] \ over)
  /\ UNCHANGED <<journal, access, call, st, as, reported, holder, batch, live, up, client, runner,
                 history, left>>
Query(c) ==
  /\ st[c] = "serve" /\ batch[c] = {} /\ holder = c
  /\ Pending(c) /= {} /\ batch' = Set(batch, c, Pending(c))
  /\ UNCHANGED <<journal, access, call, st, as, reported, holder, delivered, live, frames, client,
                 runner, history, left>>
Deliver(c, o) ==
  /\ o \in batch[c] /\ batch' = Set(batch, c, batch[c] \ {o})
  /\ Send(c, <<Frame("op", o)>>) /\ delivered' = Set(delivered, c, delivered[c] \cup {o})
  /\ UNCHANGED <<journal, access, call, st, as, reported, holder, live, up, client, runner,
                 history, left>>

\* _control: a cancel is sent on as it is announced; at the claim of another, the one that
\* does not hold the device steps down.
Control(c, m) ==
  /\ st[c] = "serve" /\ m \in live[c]
  /\ \/ /\ m.type = "cancel" /\ live' = Set(live, c, live[c] \ {m})
        /\ delivered' = Set(delivered, c, delivered[c] \ {m.op}) /\ Send(c, <<m>>)
        /\ UNCHANGED <<st, as, reported, holder, batch, up>>
     \/ /\ m.type = "superseded" /\ holder = c /\ live' = Set(live, c, live[c] \ {m})
        /\ UNCHANGED <<st, as, reported, holder, delivered, batch, frames>>
     \/ m.type = "superseded" /\ holder /= c /\ CloseWith(c, "superseded")
  /\ UNCHANGED <<journal, access, call, client, runner, history, left>>

\* complete: the outcome of an open row, under current credentials; a duplicate is as good.
Completed(c, r) == IF Open(r.op) THEN Shut({r.op}, r.answer) ELSE row
Result(c) ==
  /\ st[c] = "serve" /\ up[c] /= <<>>
  /\ \/ /\ Current(c)
        /\ LET r == Head(up[c])
           IN /\ row' = Completed(c, r) /\ Send(c, <<Frame("ack", r.op)>>)
              /\ delivered' = Set(delivered, c, delivered[c] \ {r.op})
        /\ up' = Set(up, c, Tail(up[c]))
        /\ UNCHANGED <<st, as, reported, holder, batch, live>>
     \/ ~Current(c) /\ CloseWith(c, "revoked") /\ UNCHANGED row
  /\ UNCHANGED <<status, ending, toTell, access, call, client, runner, history, left>>

\* A revocation or rotation is announced, or found at the next look at the device's row.
Expelled(c) == /\ st[c] = "serve" /\ ~Current(c) /\ CloseWith(c, "revoked")
               /\ UNCHANGED <<journal, access, call, client, runner, history, left>>

\* A ping refreshes the presence key: an expired one is taken, another's ends this connection.
Expire == /\ holder /= NoConn /\ Use("expires") /\ holder' = NoConn
          /\ UNCHANGED <<journal, access, call, st, as, reported, delivered, batch, live, frames,
                         client, runner, history>>
\* Deviation (RefreshOwn): an expired key is taken back by nobody.
RefreshOwn(c) ==
  /\ st[c] = "serve" /\ holder \notin {c, NoConn} /\ CloseWith(c, "superseded")
  /\ UNCHANGED <<journal, access, call, client, runner, history, left>>
Refresh(c) ==
  /\ st[c] = "serve"
  /\ \/ /\ holder = NoConn /\ holder' = c
        /\ UNCHANGED <<st, as, reported, delivered, batch, live, frames>>
     \/ holder \notin {c, NoConn} /\ CloseWith(c, "superseded")
  /\ UNCHANGED <<journal, access, call, client, runner, history, left>>

\* The socket broke on the app's side, and the server finds out.
Disconnect(c) == /\ st[c] /= "off" /\ sock /= c /\ Gone(c) /\ UNCHANGED down
                 /\ UNCHANGED <<journal, access, call, client, runner, history, left>>

(* ------------------------------- the app -------------------------------- *)

\* connect: the hello says what the journal holds unfinished.  The name is any that is free.
Connect(c) ==
  /\ app = "up" /\ sock = NoConn /\ st[c] = "off" /\ c = CHOOSE d \in Conns : st[d] = "off"
  /\ sock' = c /\ st' = Set(st, c, "opened") /\ as' = Set(as, c, tok)
  /\ reported' = Set(reported, c, {o \in Ops : jrn[o] \in {"received", "started"}})
  /\ down' = Set(down, c, <<>>) /\ up' = Set(up, c, <<>>)
  /\ UNCHANGED <<journal, access, call, holder, delivered, batch, live, app, tok, welcomed,
                 runner, history, left>>

\* What the runner sends goes out on a welcomed connection, or stays in the journal.
Reply(os, of) == up' = IF welcomed THEN [up EXCEPT ![sock] = @ \o SetToSeq(
                           {[op |-> o, answer |-> of[o]] : o \in os})] ELSE up

Read(c, t) == sock = c /\ down[c] /= <<>> /\ Head(down[c]).type = t
Taken(c) == down' = [down EXCEPT ![c] = Tail(@)]

OnWelcome(c) ==
  /\ Read(c, "welcome") /\ Taken(c) /\ welcomed' = TRUE
  /\ up' = [up EXCEPT ![c] = @ \o SetToSeq({[op |-> o, answer |-> ans[o]] :
                                              o \in {p \in Ops : jrn[p] = "finished"}})]
  /\ UNCHANGED <<journal, access, call, server, app, tok, sock, runner, history, left>>

\* receive: a new operation is asked about, one answered is answered again, any other ignored.
OnOp(c) ==
  /\ Read(c, "op") /\ Taken(c)
  /\ LET o == Head(down[c]).op
     IN \/ /\ jrn[o] \in {"none", "received"}
           /\ jrn' = [jrn EXCEPT ![o] = "received"]
           /\ job' = [job EXCEPT ![o] = IF @ = "idle" THEN "admit" ELSE @]
           /\ UNCHANGED up
        \/ jrn[o] \in {"finished", "acknowledged"} /\ Reply({o}, ans) /\ UNCHANGED <<jrn, job>>
        \/ jrn[o] \in {"started", "cancelled"} /\ UNCHANGED <<jrn, job, up>>
  /\ UNCHANGED <<journal, access, call, server, client, ans, history, left>>

OnCancel(c) ==
  /\ Read(c, "cancel") /\ Taken(c)
  /\ LET o == Head(down[c]).op
     IN /\ jrn' = [jrn EXCEPT ![o] = IF @ \in {"none", "received", "started"} THEN "cancelled" ELSE @]
        /\ job' = [job EXCEPT ![o] = IF @ = "admit" THEN "idle" ELSE @]
  /\ UNCHANGED <<journal, access, call, server, up, client, ans, history, left>>

OnAck(c) ==
  /\ Read(c, "ack") /\ Taken(c)
  /\ LET o == Head(down[c]).op
     IN jrn' = [jrn EXCEPT ![o] = IF @ = "finished" THEN "acknowledged" ELSE @]
  /\ UNCHANGED <<journal, access, call, server, up, client, ans, job, history, left>>

\* admit: the executor, or the user it asks, refuses the operation or lets it start.
Refuse(o) ==
  /\ job[o] = "admit" /\ jrn[o] = "received" /\ job' = [job EXCEPT ![o] = "idle"]
  /\ jrn' = [jrn EXCEPT ![o] = "finished"] /\ ans' = [ans EXCEPT ![o] = "refused"]
  /\ Reply({o}, ans')
  /\ UNCHANGED <<journal, access, call, server, down, client, history, left>>
Allow(o) ==
  /\ job[o] = "admit" /\ jrn[o] = "received"
  /\ jrn' = [jrn EXCEPT ![o] = "started"] /\ job' = [job EXCEPT ![o] = "run"]
  /\ runs' = [runs EXCEPT ![o] = @ + 1]
  /\ UNCHANGED <<journal, access, call, server, frames, client, ans, dead, missed, left>>

\* execute: the outcome is recorded unless the operation was cancelled meanwhile.
Finish(o) ==
  /\ job[o] = "run" /\ job' = [job EXCEPT ![o] = "idle"]
  /\ IF jrn[o] = "started"
       THEN /\ jrn' = [jrn EXCEPT ![o] = "finished"] /\ ans' = [ans EXCEPT ![o] = "ok"]
            /\ Reply({o}, ans')
       ELSE UNCHANGED <<jrn, ans, up>>
  /\ UNCHANGED <<journal, access, call, server, down, client, history, left>>

\* The app's socket c is gone, with the frames it had not read.
Hangup(c) == /\ sock' = NoConn /\ welcomed' = FALSE /\ down' = Set(down, c, <<>>)

\* The link has ended: a request still asked about is dismissed, and where the computer lost
\* its access (suspend) all that goes on is stopped.  Each is recorded once what was going on
\* has settled, unless it was cancelled meanwhile: the request as not run, what ran as
\* interrupted; what was only asked about stays as it is.
Dismissed == {o \in Requests : job[o] = "admit"}
Ended(suspend) ==
  job' = [o \in Ops |-> IF o \in Dismissed THEN "dismiss"
                        ELSE IF suspend /\ job[o] \in {"admit", "run"} THEN "suspend" ELSE job[o]]
Settle(o) ==
  /\ job[o] \in {"dismiss", "suspend"} /\ job' = [job EXCEPT ![o] = "idle"]
  /\ \/ /\ job[o] = "dismiss" /\ jrn[o] = "received"
        /\ jrn' = [jrn EXCEPT ![o] = "finished"] /\ ans' = [ans EXCEPT ![o] = "refused"]
        /\ Reply({o}, ans')
     \/ /\ job[o] = "suspend" /\ jrn[o] = "started"
        /\ jrn' = [jrn EXCEPT ![o] = "finished"] /\ ans' = [ans EXCEPT ![o] = "interrupted"]
        /\ Reply({o}, ans')
     \/ /\ jrn[o] /= IF job[o] = "dismiss" THEN "received" ELSE "started"
        /\ UNCHANGED <<jrn, ans, up>>
  /\ UNCHANGED <<journal, access, call, server, down, client, history, left>>
Settled == \A o \in Ops : job[o] \notin {"dismiss", "suspend"}

\* A final close ends the link for good; a revoked or unknown token is forgotten.
OnClose(c) ==
  /\ Read(c, "close") /\ Hangup(c) /\ Ended(TRUE)
  /\ LET code == Head(down[c]).code
     IN /\ app' = IF code = "superseded" THEN "ended" ELSE "cut"
        /\ tok' = IF code = "superseded" THEN tok ELSE 0
  /\ UNCHANGED <<journal, access, call, server, up, jrn, ans, history, left>>

\* The socket breaks, or the server's process ends: the app will connect again.
Drop(c) == /\ sock = c /\ Use("drops") /\ Hangup(c) /\ Ended(FALSE)
           /\ UNCHANGED <<journal, access, call, server, up, app, tok, jrn, ans, history>>

\* retire: with the token gone and what ran settled, nothing the journal holds is sent or run
\* again.
Retire == /\ app = "cut" /\ Settled /\ app' = "retired"
          /\ jrn' = [o \in Ops |-> IF jrn[o] \in {"received", "started", "finished"}
                                     THEN "cancelled" ELSE jrn[o]]
          /\ UNCHANGED <<journal, access, call, server, frames, tok, sock, welcomed, ans, job,
                         history, left>>

\* quit records what runs as interrupted; a crash leaves it to the next launch.
Quit == /\ app \in {"up", "ended"} /\ Settled /\ Use("quits")
        /\ app' = "down" /\ sock' = NoConn /\ welcomed' = FALSE
        /\ down' = [c \in Conns |-> IF c = sock THEN <<>> ELSE down[c]]
        /\ job' = [o \in Ops |-> "idle"]
        /\ jrn' = [o \in Ops |-> IF jrn[o] = "started" THEN "finished" ELSE jrn[o]]
        /\ ans' = [o \in Ops |-> IF jrn[o] = "started" THEN "interrupted" ELSE ans[o]]
        /\ UNCHANGED <<journal, access, call, server, up, tok, history>>
Crash == /\ app /= "down" /\ Use("crashes")
         /\ app' = "down" /\ sock' = NoConn /\ welcomed' = FALSE
         /\ down' = [c \in Conns |-> IF c = sock THEN <<>> ELSE down[c]]
         /\ job' = [o \in Ops |-> "idle"]
         /\ UNCHANGED <<journal, access, call, server, up, tok, jrn, ans, history>>

\* recover: what a crash cut off is answered interrupted, and never run again.
\* Deviation (RecoveredAnew): it is taken as not started.
RecoveredAnew(o) == IF jrn[o] = "started" THEN "received" ELSE jrn[o]
Recovered(o) == IF jrn[o] = "started" THEN "finished" ELSE jrn[o]
Launch ==
  /\ app = "down" /\ app' = IF tok = 0 THEN "retired" ELSE "up"
  /\ jrn' = [o \in Ops |-> Recovered(o)]
  /\ ans' = [o \in Ops |-> IF jrn[o] = "started" THEN "interrupted" ELSE ans[o]]
  /\ UNCHANGED <<journal, access, call, server, frames, tok, sock, welcomed, job, history, left>>

\* A link that ended as superseded is not opened again by itself: the user starts the app anew.
Restart == /\ app = "ended" /\ Settled /\ app' = "up"
           /\ UNCHANGED <<journal, access, call, server, frames, tok, sock, welcomed, runner,
                          history, left>>

\* The user restores access: a new token, of the next generation (reauthorize), whose answer
\* the app may not get.  What was revoked and has not started must not.
Restore ==
  /\ app = "retired" /\ gen' = gen + 1 /\ revoked' = FALSE
  /\ \/ tok' = gen' /\ app' = "up" /\ UNCHANGED left
     \/ Use("lost") /\ UNCHANGED <<tok, app>>
  /\ dead' = dead \cup {o \in Ops : row[o] = "revoked" /\ runs[o] = 0}
  /\ UNCHANGED <<journal, call, server, frames, sock, welcomed, runner, runs, missed>>

(* ---------------------------- the specification ---------------------------- *)

Init ==
  /\ row = [o \in Ops |-> "none"] /\ status = "active" /\ ending = "none" /\ toTell = {}
  /\ gen = 1 /\ revoked = FALSE
  /\ \E s \in Scenarios : /\ call = [o \in Ops |-> IF o \in s.ops THEN "idle" ELSE "absent"]
                          /\ left = s.left
  /\ st = [c \in Conns |-> "off"] /\ as = [c \in Conns |-> 0] /\ holder = NoConn
  /\ reported = [c \in Conns |-> {}] /\ delivered = reported /\ batch = reported /\ live = reported
  /\ down = [c \in Conns |-> <<>>] /\ up = down
  /\ app = "up" /\ tok = 1 /\ sock = NoConn /\ welcomed = FALSE
  /\ jrn = [o \in Ops |-> "none"] /\ ans = jrn /\ job = [o \in Ops |-> "idle"]
  /\ runs = [o \in Ops |-> 0] /\ dead = {} /\ missed = {}

Handshake(c) == \/ Authenticate(c) \/ Subscribe(c) \/ Claim(c) \/ Supersede(c) \/ Welcome(c)
                \/ Reconcile(c)
Delivery(c) == Query(c) \/ \E o \in Ops : Deliver(c, o)
OnFrame(c) == OnWelcome(c) \/ OnOp(c) \/ OnCancel(c) \/ OnAck(c) \/ OnClose(c)
Worker(o) == Ask(o) \/ Record(o) \/ Await(o) \/ CancelOwn(o)

Next ==
  \/ \E o \in Ops : Worker(o) \/ Die(o) \/ Halt(o) \/ Tell(o)
                    \/ Refuse(o) \/ Allow(o) \/ Finish(o) \/ Settle(o)
  \/ Stop \/ Delete \/ Cancel \/ Revoke \/ Expire
  \/ \E c \in Conns : Handshake(c) \/ Recheck(c) \/ Delivery(c) \/ Result(c) \/ Expelled(c) \/ Refresh(c)
                      \/ Disconnect(c) \/ Connect(c) \/ OnFrame(c) \/ Drop(c)
                      \/ \E m \in live[c] : Control(c, m)
  \/ Retire \/ Quit \/ Crash \/ Launch \/ Restart \/ Restore

\* Every process goes on with what it can do, what is stopped settles (Executor: "Settle once
\* `signal` aborts"), and the user keeps the computer: starts the app
\* again, and restores its access.  The user need not answer a prompt.
Spec ==
  /\ Init /\ [][Next]_vars
  /\ WF_vars(Cancel) /\ WF_vars(Retire) /\ WF_vars(\E c \in Conns : Connect(c))
  /\ WF_vars(Launch) /\ WF_vars(Restart) /\ WF_vars(Restore)
  /\ \A o \in Ops : WF_vars(Worker(o)) /\ WF_vars(Tell(o)) /\ WF_vars(Finish(o))
                     /\ WF_vars(Settle(o))
  /\ \A c \in Conns : /\ WF_vars(Handshake(c)) /\ WF_vars(Recheck(c)) /\ WF_vars(Delivery(c))
                      /\ WF_vars(Result(c))
                      /\ WF_vars(Expelled(c) \/ Refresh(c)) /\ WF_vars(Disconnect(c))
                      /\ WF_vars(OnFrame(c)) /\ WF_vars(\E m \in live[c] : Control(c, m))

\* The user answers every prompt.
Attended == \A o \in Ops : WF_vars(Refuse(o) \/ Allow(o))

(* ------------------------------ properties ----------------------------- *)

\* What runs on the computer is what its journal and the server's say.  Whatever reconnects,
\* restarts and is sent again, an operation starts at most once (journal.start), never once it
\* was closed before the computer heard of it or revoked before access was restored (pending,
\* closed_among, retire), and an outcome the server records as the computer's is what happened:
\* one that ran, or one that did not and will not.
RunsAsRecorded ==
  \A o \in Ops :
    /\ runs[o] <= 1
    /\ o \in dead => runs[o] = 0
    /\ row[o] \in {"ok", "interrupted"} => runs[o] = 1
    /\ row[o] = "refused" => runs[o] = 0

\* Every call of run comes back (DeviceOperations.run: "however long that takes"), with the
\* computer away, its app restarted, announcements lost or its access revoked meanwhile, as
\* long as the user keeps the computer and answers what it asks.
EveryCallReturns ==
  Attended => \A o \in Ops : call[o] \in {"record", "wait", "halt"} ~> call[o] = "done"

\* What the server has cancelled or revoked the computer stops asking about, or doing, even
\* if its user never answers: the cancel is announced, or sent again by the next reconcile for
\* what this connection sent, or sent on connect for what the hello lists (link.py).  Not where
\* the announcement is lost of an operation that the app holds from an earlier connection.
CancelHeard ==
  \A o \in Ops : row[o] \in {"cancelled", "revoked"} ~> (job[o] = "idle" \/ o \in missed)
=============================================================================
