----------------------------- MODULE MC_Outbox -----------------------------
(* Instances of Outbox for TLC: narration, an answer and a file, one loop or *)
(* two, and what goes wrong in each scenario.                                *)
EXTENDS Outbox, TLC
CONSTANTS d1, d2

Of(rows, loops, f) ==
  [rows |-> rows, loops |-> loops,
   left |-> [i \in Inputs |-> IF i \in DOMAIN f THEN f[i] ELSE 0]]

Turns == {
  Of(<<"note", "note", "answer">>, {d1}, <<>>),
  Of(<<"note", "note">>, {d1}, [asks |-> 1]),
  Of(<<"answer", "note">>, {d1}, [asks |-> 1]),
  Of(<<"note", "answer">>, {d1}, [unsure |-> 1]),
  Of(<<"note", "note", "note">>, {d1}, [lapses |-> 1]),
  Of(<<"note", "file">>, {d1}, [asks |-> 1, lapses |-> 1]),
  Of(<<"note", "answer">>, {d1}, [fails |-> 1, asks |-> 1]),
  Of(<<"file">>, {d1}, [fails |-> 1, asks |-> 1]),
  Of(<<"note", "note">>, {d1}, [fails |-> 1, deaths |-> 1]),
  Of(<<"note", "note">>, {d1, d2}, [asks |-> 1]),
  Of(<<"note", "answer">>, {d1, d2}, [deaths |-> 1])}
=============================================================================
