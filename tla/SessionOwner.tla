---------------------------- MODULE SessionOwner ----------------------------
(***************************************************************************)
(* What the session store promises the turns that work on a session        *)
(* (surogates/session/store.py: the event log, session_leases and          *)
(* session_cursors), whatever they do and wherever they die or stall: one  *)
(* turn owns the session at a time, ownership is never taken while the     *)
(* lease is alive, only an owner moves the cursor, only forward and never  *)
(* past the log, and the log only grows.  SessionTurn implements it.       *)
(***************************************************************************)
EXTENDS Naturals, Sequences

CONSTANTS Turns, Events

VARIABLES
  owner,   \* the turn that owns the session, if any
  alive,   \* its lease has not run out
  done,    \* how far into the log the owners have come
  log      \* the session's events

vars == <<owner, alive, done, log>>

Init == owner = {} /\ alive = FALSE /\ done = 0 /\ log \in Seq(Events)

Take(t) == /\ ~alive
           /\ owner' = {t} /\ alive' = TRUE
           /\ UNCHANGED <<done, log>>

\* The owner prolongs its lease.
Keep == owner /= {} /\ alive' = TRUE /\ UNCHANGED <<owner, done, log>>

\* Its time runs out: it still owns the session until another takes it.
Expire == alive /\ alive' = FALSE /\ UNCHANGED <<owner, done, log>>

\* It gives the session back, dies, or is swept away once its lease has run out.
Leave == owner /= {} /\ owner' = {} /\ alive' \in {alive, FALSE} /\ UNCHANGED <<done, log>>

Commit(n) == /\ owner /= {}
             /\ done < n /\ n <= Len(log) /\ done' = n
             /\ UNCHANGED <<owner, alive, log>>

Write(e) == log' = Append(log, e) /\ UNCHANGED <<owner, alive, done>>

Next == \/ \E t \in Turns : Take(t)
        \/ Keep \/ Expire \/ Leave
        \/ \E n \in 1 .. Len(log) : Commit(n)
        \/ \E e \in Events : Write(e)

Spec == Init /\ [][Next]_vars
=============================================================================
