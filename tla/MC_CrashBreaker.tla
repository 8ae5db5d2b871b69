-------------------------- MODULE MC_CrashBreaker --------------------------
(* Instances of CrashBreaker for TLC: how often a person or the platform      *)
(* posts, a wake ends, a call fails and the state expires.                    *)
EXTENDS CrashBreaker, TLC
CONSTANTS t1, t2, p1, p2

Times(human, auto, cleans, fails, writes, expiries) ==
  ("human" :> human) @@ ("auto" :> auto) @@ ("cleans" :> cleans) @@
  ("fails" :> fails) @@ ("writes" :> writes) @@ ("expiries" :> expiries)

Replayed == Times(1, 1, 1, 1, 1, 1)
=============================================================================
