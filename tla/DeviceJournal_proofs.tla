------------------------ MODULE DeviceJournal_proofs ------------------------
(***************************************************************************)
(* Proofs about DeviceJournal, for any operations, connections, crashes,   *)
(* reconnects and announcements: what ran on the computer is what its      *)
(* journal and the server's say.                                           *)
(***************************************************************************)
EXTENDS DeviceJournal, TLAPS, FiniteSetTheorems, SequenceTheorems

(* ------------------------- the inductive invariant --------------------- *)

\* An operation the computer is done with: its row in the app's journal never leads
\* to a start again.
Final == {"finished", "acknowledged", "cancelled"}

\* Answer a is what happened to o, and what will have happened.
Told(o, a) == /\ a = "refused" => runs[o] = 0 /\ jrn[o] \in Final
              /\ a \in {"ok", "interrupted"} => runs[o] = 1

\* The frames to the app, those of them that start no dead operation, and the
\* results that are true.
DownFrames == [type : {"op", "cancel", "ack"}, op : Ops] \cup [type : {"welcome"}]
                \cup [type : {"close"}, code : {"unauthenticated", "revoked", "superseded"}]
Harmless == {f \in DownFrames : f.type = "op" => f.op \notin dead}
Replies == {r \in [op : Ops, answer : Answers] : Told(r.op, r.answer)}

\* What the runner may be doing about an operation, what of it is stopping or over, and where
\* the server's side of a connection may be.
Jobs == {"idle", "admit", "run", "dismiss", "suspend"}
Stopping == {"idle", "dismiss", "suspend"}
Places == {"off", "opened", "hello", "subscribed", "claimed", "announced", "welcomed", "serve"}

\* What becomes of the app's jobs: once it is not up nothing new is started, and once its
\* access is gone for good, or it is down, nothing goes on.
Halted == /\ app /= "up" => \A o \in Ops : job[o] \in Stopping
          /\ app \in {"retired", "down"} => \A o \in Ops : job[o] = "idle"

\* The journals' types.
RowTypes == /\ row \in [Ops -> {"none", "open"} \cup Closed]
            /\ jrn \in [Ops -> {"none", "received", "started"} \cup Final]
            /\ ans \in [Ops -> {"none"} \cup Answers]
            /\ job \in [Ops -> Jobs]
            /\ runs \in [Ops -> {0, 1}] /\ dead \subseteq Ops

\* The app's journal counts the starts: none before "started", one there, and what
\* the app answers and the server records agree with it.  A prompt belongs to a row
\* that has not started.  What must not start any more is closed and not asked about.
RowOK(o) ==
  /\ jrn[o] \in {"none", "received"} => runs[o] = 0
  /\ jrn[o] = "started" => runs[o] = 1
  /\ jrn[o] \in {"finished", "acknowledged"} => ans[o] \in Answers /\ Told(o, ans[o])
  /\ row[o] \in Answers => Told(o, row[o])
  /\ job[o] = "admit" => jrn[o] = "received"
  /\ o \in dead => runs[o] = 0 /\ row[o] \in Closed /\ job[o] /= "admit"
RowsInv == RowTypes /\ \A o \in Ops : RowOK(o)

\* Every result on its way to the server is true.
UpInv == up \in [Conns -> Seq(Replies)]

\* The link's types.
LinkTypes == /\ st \in [Conns -> Places]
             /\ reported \in [Conns -> SUBSET Ops] /\ delivered \in [Conns -> SUBSET Ops]
             /\ batch \in [Conns -> SUBSET Ops]
             /\ live \in [Conns -> SUBSET ([type : {"cancel"}, op : Ops] \cup [type : {"superseded"}])]
             /\ down \in [Conns -> Seq(DownFrames)]
             /\ sock \in Conns \cup {NoConn} /\ welcomed \in BOOLEAN
             /\ app \in {"up", "ended", "cut", "retired", "down"}

\* An app that is not up has no connection and starts nothing; nothing on the app's
\* connection, nor about to be sent on it, starts a dead operation, and a new
\* connection starts with nothing.
LinkInv ==
  /\ LinkTypes
  /\ app /= "up" => sock = NoConn
  /\ Halted
  /\ welcomed => sock \in Conns
  /\ \A c \in Conns : st[c] = "off" => batch[c] = {}
  /\ \A c \in Conns : sock = c => down[c] \in Seq(Harmless) /\ batch[c] \cap dead = {}

IInv == RowsInv /\ UpInv /\ LinkInv

(* ---------------------- sequences made of sets ------------------------- *)

(* The elements of a set, in some order. *)
LEMMA SeqOfSet ==
  ASSUME NEW S, IsFiniteSet(S)
  PROVE  SetToSeq(S) \in Seq(S)
<1> DEFINE n == Cardinality(S)
<1>1. n \in Nat /\ ExistsBijection(1..n, S)
  BY FS_CardinalityType
<1>2. \E f \in [1..n -> S] : IsInjective(f)
  BY <1>1 DEF ExistsBijection, Bijection, Injection, Surjection, IsInjective
<1>3. SetToSeq(S) \in [1..n -> S]
  BY <1>2 DEF SetToSeq
<1> QED BY <1>1, <1>3

(* A set of operations is finite, and so is one of frames about them. *)
LEMMA FramesSeq ==
  ASSUME NEW t, NEW os \in SUBSET Ops
  PROVE  Frames(t, os) \in Seq({Frame(t, o) : o \in os})
<1> DEFINE S == {Frame(t, o) : o \in os}
           f == [o \in os |-> Frame(t, o)]
<1>1. IsFiniteSet(os)
  BY OpsAssumption, FS_Subset
<1>2. f \in Surjection(os, S)
  BY DEF Surjection
<1>3. IsFiniteSet(S)
  BY <1>1, <1>2, FS_Surjection
<1> QED BY <1>3, SeqOfSet DEF Frames

(* The same of the results of operations. *)
LEMMA RepliesSeq ==
  ASSUME NEW of, NEW os \in SUBSET Ops
  PROVE  SetToSeq({[op |-> o, answer |-> of[o]] : o \in os})
           \in Seq({[op |-> o, answer |-> of[o]] : o \in os})
<1> DEFINE S == {[op |-> o, answer |-> of[o]] : o \in os}
           f == [o \in os |-> [op |-> o, answer |-> of[o]]]
<1>1. IsFiniteSet(os)
  BY OpsAssumption, FS_Subset
<1>2. f \in Surjection(os, S)
  BY DEF Surjection
<1>3. IsFiniteSet(S)
  BY <1>1, <1>2, FS_Surjection
<1> QED BY <1>3, SeqOfSet

(* A sequence without some elements is one of the others. *)
LEMMA SeqWithout ==
  ASSUME NEW A, NEW B, NEW s \in Seq(A), \A x \in ToSet(s) : x \in B
  PROVE  s \in Seq(B)
<1>1. Len(s) \in Nat /\ DOMAIN s = 1..Len(s) /\ s \in [1..Len(s) -> A]
  BY LenProperties
<1>2. \A i \in 1..Len(s) : s[i] \in B
  BY <1>1 DEF ToSet
<1>3. s \in [1..Len(s) -> B]
  BY <1>1, <1>2
<1> QED BY <1>1, <1>3

(* ------------------------------- frames -------------------------------- *)

\* What a step may never do to an operation's row in the app: take it back from where
\* it was done, or forget that it started.
Keeps(o) == /\ jrn[o] \in Final => jrn'[o] \in Final /\ runs'[o] = runs[o]
            /\ runs[o] = 1 => runs'[o] = 1

(* What was true of an operation stays true of it. *)
LEMMA ToldStays ==
  ASSUME NEW o \in Ops, NEW a, Keeps(o), Told(o, a)
  PROVE  Told(o, a)'
BY DEF Keeps, Told

(* So the results on their way stay true. *)
LEMMA UpStays ==
  ASSUME UpInv, \A o \in Ops : Keeps(o)
  PROVE  Replies \subseteq Replies' /\ up \in [Conns -> Seq(Replies')]
<1>1. ASSUME NEW r \in Replies PROVE r \in Replies'
  <2>1. r \in [op : Ops, answer : Answers] /\ Told(r.op, r.answer) /\ r.op \in Ops
    BY DEF Replies
  <2>2. Told(r.op, r.answer)'
    BY <2>1, ToldStays
  <2> QED BY <2>1, <2>2 DEF Replies
<1>2. ASSUME NEW c \in Conns PROVE up[c] \in Seq(Replies')
  <2>1. up[c] \in Seq(Replies) BY DEF UpInv
  <2> QED BY <1>1, <2>1, SeqMonotonic
<1>3. up = [c \in Conns |-> up[c]]
  BY DEF UpInv
<1> QED BY <1>1, <1>2, <1>3

(* Nothing of the rows moves, so every result stays true. *)
LEMMA RowsSame ==
  ASSUME RowsInv, UNCHANGED <<row, jrn, ans, job, runs, dead>>
  PROVE  RowsInv' /\ Replies' = Replies /\ Harmless' = Harmless
BY DEF RowsInv, RowTypes, RowOK, Told, Replies, Harmless

(* Nothing of the link moves. *)
LEMMA LinkSame ==
  ASSUME LinkInv, UNCHANGED <<st, reported, delivered, batch, live, down, sock, welcomed, app, job, dead>>
  PROVE  LinkInv'
BY DEF LinkInv, LinkTypes, Harmless, Halted

(* The server sends harmless frames. *)
LEMMA SendOK ==
  ASSUME LinkInv, NEW c \in Conns, NEW fs \in Seq(Harmless), Send(c, fs)
  PROVE  /\ down' \in [Conns -> Seq(DownFrames)]
         /\ \A d \in Conns : sock = d => down'[d] \in Seq(Harmless)
<1>0. down \in [Conns -> Seq(DownFrames)] BY DEF LinkInv, LinkTypes
<1>1. CASE sock /= c
  BY <1>0, <1>1 DEF Send, LinkInv
<1>2. CASE sock = c
  <2>1. down' = [down EXCEPT ![c] = down[c] \o fs] BY <1>2 DEF Send
  <2>2. down[c] \in Seq(Harmless) BY <1>2 DEF LinkInv
  <2>3. down[c] \o fs \in Seq(Harmless) BY <2>2, ConcatProperties
  <2>4. Harmless \subseteq DownFrames BY DEF Harmless
  <2>5. down[c] \o fs \in Seq(DownFrames) BY <2>3, <2>4, SeqMonotonic
  <2> QED BY <1>0, <1>2, <2>1, <2>3, <2>5
<1> QED BY <1>1, <1>2

(* A step of the server's side of the link. *)
LEMMA ServerStep ==
  ASSUME IInv, UNCHANGED <<row, jrn, ans, job, runs, dead, sock, welcomed, app>>,
         st' \in [Conns -> Places],
         reported' \in [Conns -> SUBSET Ops], delivered' \in [Conns -> SUBSET Ops],
         batch' \in [Conns -> SUBSET Ops],
         live' \in [Conns -> SUBSET ([type : {"cancel"}, op : Ops] \cup [type : {"superseded"}])],
         down' \in [Conns -> Seq(DownFrames)],
         \A d \in Conns : sock = d => down'[d] \in Seq(Harmless),
         \A d \in Conns : st'[d] = "off" => batch'[d] = {},
         \A d \in Conns : batch'[d] \cap dead \subseteq batch[d],
         up' \in [Conns -> Seq(Replies)]
  PROVE  IInv'
<1>1. RowsInv' /\ Replies' = Replies /\ Harmless' = Harmless
  BY RowsSame DEF IInv
<1>2. UpInv' BY <1>1 DEF UpInv
<1>3. LinkTypes' BY DEF IInv, LinkInv, LinkTypes
<1>4. ASSUME NEW d \in Conns, sock' = d
      PROVE  down'[d] \in Seq(Harmless') /\ batch'[d] \cap dead' = {}
  <2>1. down'[d] \in Seq(Harmless) BY <1>4
  <2>2. batch[d] \cap dead = {} BY <1>4 DEF IInv, LinkInv
  <2> QED BY <1>1, <2>1, <2>2
<1>5. LinkInv' BY <1>3, <1>4 DEF IInv, LinkInv, Halted
<1> QED BY <1>1, <1>2, <1>5 DEF IInv

(* The frames that start nothing. *)
LEMMA HarmlessFrames ==
  /\ \A o \in Ops : Frame("cancel", o) \in Harmless /\ Frame("ack", o) \in Harmless
  /\ [type |-> "welcome"] \in Harmless
  /\ \A code \in {"unauthenticated", "revoked", "superseded"} :
       [type |-> "close", code |-> code] \in Harmless
  /\ \A o \in Ops \ dead : Frame("op", o) \in Harmless
BY DEF Harmless, DownFrames, Frame

(* Cancels are among them. *)
LEMMA CancelFrames ==
  ASSUME NEW os \in SUBSET Ops
  PROVE  Frames("cancel", os) \in Seq(Harmless)
<1>1. {Frame("cancel", o) : o \in os} \subseteq Harmless BY HarmlessFrames
<1> QED BY <1>1, FramesSeq, SeqMonotonic

(* The server's side of a connection ends, with a close frame or without. *)
LEMMA GoneStep ==
  ASSUME IInv, NEW c \in Conns, Gone(c),
         UNCHANGED <<row, jrn, ans, job, runs, dead, sock, welcomed, app>>,
         \/ UNCHANGED down
         \/ \E code \in {"unauthenticated", "revoked", "superseded"} :
              Send(c, <<[type |-> "close", code |-> code]>>)
  PROVE  IInv'
<1>1. LinkInv /\ LinkTypes /\ UpInv BY DEF IInv, LinkInv
<1>2. /\ st' = [st EXCEPT ![c] = "off"] /\ reported' = [reported EXCEPT ![c] = {}]
      /\ delivered' = [delivered EXCEPT ![c] = {}] /\ batch' = [batch EXCEPT ![c] = {}]
      /\ live' = [live EXCEPT ![c] = {}] /\ up' = [up EXCEPT ![c] = <<>>]
  BY DEF Gone, Set
<1>3. /\ st' \in [Conns -> Places]
      /\ reported' \in [Conns -> SUBSET Ops] /\ delivered' \in [Conns -> SUBSET Ops]
      /\ batch' \in [Conns -> SUBSET Ops]
      /\ live' \in [Conns -> SUBSET ([type : {"cancel"}, op : Ops] \cup [type : {"superseded"}])]
      /\ \A d \in Conns : st'[d] = "off" => batch'[d] = {}
      /\ \A d \in Conns : batch'[d] \subseteq batch[d]
  BY <1>1, <1>2 DEF LinkInv, LinkTypes, Places
<1>4. up' \in [Conns -> Seq(Replies)]
  BY <1>1, <1>2 DEF UpInv
<1>5. /\ down' \in [Conns -> Seq(DownFrames)]
      /\ \A d \in Conns : sock = d => down'[d] \in Seq(Harmless)
  <2>1. CASE UNCHANGED down BY <1>1, <2>1 DEF LinkInv, LinkTypes
  <2>2. ASSUME NEW code \in {"unauthenticated", "revoked", "superseded"},
               Send(c, <<[type |-> "close", code |-> code]>>)
        PROVE  /\ down' \in [Conns -> Seq(DownFrames)]
               /\ \A d \in Conns : sock = d => down'[d] \in Seq(Harmless)
    <3>1. <<[type |-> "close", code |-> code]>> \in Seq(Harmless) BY HarmlessFrames
    <3> QED BY <1>1, <2>2, <3>1, SendOK
  <2> QED BY <2>1, <2>2
<1> QED BY <1>3, <1>4, <1>5, ServerStep

(* Rows that had no outcome are closed; the ones the computer has not heard of are dead. *)
LEMMA CloseStep ==
  ASSUME IInv, NEW os \in SUBSET Ops, NEW how \in {"cancelled", "revoked"}, Close(os, how),
         \A o \in os : row[o] \in {"none", "open"},
         UNCHANGED <<jrn, ans, job, runs, up, st, reported, delivered, batch, live, down, sock,
                     welcomed, app>>
  PROVE  IInv'
<1>1. /\ RowsInv /\ RowTypes /\ LinkInv /\ UpInv
      /\ row' = [o \in Ops |-> IF o \in os THEN how ELSE row[o]]
      /\ dead' = dead \cup {o \in os : Unsent(o)}
  BY DEF IInv, RowsInv, Close, Shut
<1>2. RowTypes' BY <1>1 DEF RowTypes, Closed
<1>3. ASSUME NEW o \in Ops PROVE RowOK(o)'
  <2>1. RowOK(o) BY <1>1 DEF RowsInv
  <2>2. row'[o] = row[o] \/ (o \in os /\ row'[o] = how) BY <1>1
  <2>3. how \in Closed /\ how \notin Answers BY DEF Closed, Answers
  <2>4. o \in dead' => o \in dead \/ (o \in os /\ jrn[o] = "none") BY <1>1 DEF Unsent
  <2>5. /\ (jrn[o] \in {"none", "received"} => runs[o] = 0)'
        /\ (jrn[o] = "started" => runs[o] = 1)'
        /\ (jrn[o] \in {"finished", "acknowledged"} => ans[o] \in Answers /\ Told(o, ans[o]))'
        /\ (job[o] = "admit" => jrn[o] = "received")'
    BY <2>1 DEF RowOK, Told
  <2>6. (row[o] \in Answers => Told(o, row[o]))'
    BY <2>1, <2>2, <2>3 DEF RowOK, Told
  <2>7. (o \in dead => runs[o] = 0 /\ row[o] \in Closed /\ job[o] /= "admit")'
    <3>1. CASE o \in os
      <4>1. row'[o] \in Closed /\ o \notin dead
        BY <1>1, <2>1, <2>3, <3>1 DEF RowOK, Closed, Answers
      <4> QED BY <2>1, <2>4, <4>1 DEF RowOK
    <3>2. CASE o \notin os BY <1>1, <2>1, <3>2 DEF RowOK
    <3> QED BY <3>1, <3>2
  <2> QED BY <2>5, <2>6, <2>7 DEF RowOK
<1>4. UpInv'
  <2>1. Replies' = Replies BY DEF Replies, Told
  <2> QED BY <1>1, <2>1 DEF UpInv
<1>5. LinkInv'
  <2>1. ASSUME NEW c \in Conns, sock' = c
        PROVE  down'[c] \in Seq(Harmless') /\ batch'[c] \cap dead' = {}
    <3>1. down[c] \in Seq(Harmless) /\ batch[c] \cap dead = {}
      BY <1>1, <2>1 DEF LinkInv
    <3>2. \A o \in os : Unsent(o) => o \notin batch[c] /\ Frame("op", o) \notin ToSet(down[c])
      BY DEF Unsent
    <3>3. ASSUME NEW f \in ToSet(down[c]) PROVE f \in Harmless'
      <4>1. f \in Harmless
        <5>1. DOMAIN down[c] = 1..Len(down[c]) BY <3>1, LenProperties
        <5>2. PICK i \in 1..Len(down[c]) : f = down[c][i] BY <3>3, <5>1 DEF ToSet
        <5> QED BY <3>1, <5>2, ElementOfSeq
      <4>2. f.type = "op" => f = Frame("op", f.op) /\ f.op \in Ops
        BY <4>1 DEF Harmless, DownFrames, Frame
      <4> QED BY <1>1, <3>2, <3>3, <4>1, <4>2 DEF Harmless
    <3>4. down[c] \in Seq(Harmless') BY <3>1, <3>3, SeqWithout
    <3> QED BY <1>1, <3>1, <3>2, <3>4
  <2>2. LinkTypes' BY <1>1 DEF LinkInv, LinkTypes
  <2> QED BY <1>1, <2>1, <2>2 DEF LinkInv, Halted
<1> QED BY <1>2, <1>3, <1>4, <1>5 DEF IInv, RowsInv

(* --------------------- the worker, stops and revocations --------------- *)

(* Steps that touch no row, no frame and nothing of the app's. *)
LEMMA IdleStep ==
  ASSUME IInv, UNCHANGED <<row, jrn, ans, job, runs, dead, up, st, reported, delivered, batch, live,
                           down, sock, welcomed, app>>
  PROVE  IInv'
<1>1. RowsInv' /\ Replies' = Replies BY RowsSame DEF IInv
<1>2. UpInv' BY <1>1 DEF IInv, UpInv
<1>3. LinkInv' BY LinkSame DEF IInv
<1> QED BY <1>1, <1>2, <1>3 DEF IInv

(* A call goes on, dies or halts; a session stops or is deleted; the presence key
   expires; a superseded app is started anew. *)
LEMMA QuietStep ==
  ASSUME IInv,
         \/ \E o \in Ops : Ask(o) \/ Await(o) \/ Die(o) \/ Halt(o)
         \/ Stop \/ Delete \/ Expire
  PROVE  IInv'
<1>1. UNCHANGED <<row, jrn, ans, job, runs, dead, up, st, reported, delivered, batch, live,
                  down, sock, welcomed, app>>
  BY DEF Ask, Await, Die, Halt, Stop, Delete, Expire, journal, server, frames, client, runner, history
<1> QED BY <1>1, IdleStep

(* _record: a row is written once. *)
LEMMA RecordStep ==
  ASSUME IInv, NEW o \in Ops, Record(o)
  PROVE  IInv'
<1>1. UNCHANGED <<jrn, ans, job, runs, up, st, reported, delivered, batch, live, down, sock,
                  welcomed, app>>
  BY DEF Record, server, frames, client, runner
<1>2. CASE UNCHANGED <<row, dead>>
  BY <1>1, <1>2, IdleStep
<1>3. CASE row[o] = "none" /\ Close({o}, "revoked")
  BY <1>1, <1>3, CloseStep
<1>4. CASE row[o] = "none" /\ row' = Shut({o}, "open") /\ UNCHANGED dead
  <2>1. RowTypes /\ RowsInv /\ UpInv /\ LinkInv BY DEF IInv, RowsInv
  <2>2. row' = [p \in Ops |-> IF p = o THEN "open" ELSE row[p]] BY <1>4 DEF Shut
  <2>3. RowTypes' BY <1>1, <1>4, <2>1, <2>2 DEF RowTypes
  <2>4. ASSUME NEW p \in Ops PROVE RowOK(p)'
    <3>1. RowOK(p) BY <2>1 DEF RowsInv
    <3>2. row'[p] = row[p] \/ (row'[p] = "open" /\ row[p] = "none") BY <1>4, <2>2
    <3>3. {"open", "none"} \cap Answers = {} /\ {"open", "none"} \cap Closed = {} BY DEF Answers, Closed
    <3> QED BY <1>1, <1>4, <3>1, <3>2, <3>3 DEF RowOK, Told
  <2>5. UpInv'
    <3>1. Replies' = Replies BY <1>1 DEF Replies, Told
    <3> QED BY <1>1, <2>1, <3>1 DEF UpInv
  <2>6. LinkInv' BY <1>1, <1>4, <2>1, LinkSame
  <2> QED BY <2>3, <2>4, <2>5, <2>6 DEF IInv, RowsInv
<1> QED BY <1>2, <1>3, <1>4 DEF Record

(* A stopped call, a stopped session and a revoked device close what is open. *)
LEMMA CancelStep ==
  ASSUME IInv, (\E o \in Ops : CancelOwn(o)) \/ Cancel \/ Revoke
  PROVE  IInv'
<1>1. UNCHANGED <<jrn, ans, job, runs, up, st, reported, delivered, batch, live, down, sock,
                  welcomed, app>>
  BY DEF CancelOwn, Cancel, Revoke, server, frames, client, runner
<1>2. CASE UNCHANGED <<row, dead>>
  BY <1>1, <1>2, IdleStep
<1>3. CASE \E os \in SUBSET {o \in Ops : Open(o)}, how \in {"cancelled", "revoked"} : Close(os, how)
  <2>1. PICK os \in SUBSET {o \in Ops : Open(o)}, how \in {"cancelled", "revoked"} : Close(os, how)
    BY <1>3
  <2>2. os \in SUBSET Ops /\ \A o \in os : row[o] \in {"none", "open"} BY DEF Open
  <2> QED BY <1>1, <2>1, <2>2, CloseStep
<1>4. ASSUME NEW o \in Ops, CancelOwn(o) PROVE IInv'
  <2>1. {p \in {o} : Open(p)} \in SUBSET {p \in Ops : Open(p)} OBVIOUS
  <2> QED BY <1>2, <1>3, <1>4, <2>1 DEF CancelOwn
<1>5. CASE Cancel
  <2>1. Cancelled \in SUBSET {p \in Ops : Open(p)} BY DEF Cancelled
  <2> QED BY <1>2, <1>3, <1>5, <2>1 DEF Cancel
<1>6. CASE Revoke BY <1>3, <1>6 DEF Revoke
<1> QED BY <1>4, <1>5, <1>6

(* ---------------------- the link, server side -------------------------- *)

\* The facts about the link that the server's steps start from.
LEMMA LinkFacts ==
  ASSUME IInv
  PROVE  /\ LinkInv /\ up \in [Conns -> Seq(Replies)]
         /\ st \in [Conns -> Places]
         /\ reported \in [Conns -> SUBSET Ops] /\ delivered \in [Conns -> SUBSET Ops]
         /\ batch \in [Conns -> SUBSET Ops]
         /\ live \in [Conns -> SUBSET ([type : {"cancel"}, op : Ops] \cup [type : {"superseded"}])]
         /\ down \in [Conns -> Seq(DownFrames)]
         /\ \A d \in Conns : sock = d => down[d] \in Seq(Harmless)
         /\ \A d \in Conns : st[d] = "off" => batch[d] = {}
BY DEF IInv, LinkInv, LinkTypes, UpInv

(* An announcement reaches the connections that listen. *)
LEMMA AnnounceOK ==
  ASSUME IInv, NEW m \in [type : {"cancel"}, op : Ops] \cup [type : {"superseded"}], Announce(m)
  PROVE  live' \in [Conns -> SUBSET ([type : {"cancel"}, op : Ops] \cup [type : {"superseded"}])]
BY LinkFacts DEF Announce

(* A cancel is announced, or its announcement is lost. *)
LEMMA TellStep ==
  ASSUME IInv, NEW o \in Ops, Tell(o)
  PROVE  IInv'
<1>1. UNCHANGED <<row, jrn, ans, job, runs, dead, up, st, reported, delivered, batch, down, sock,
                  welcomed, app>>
  BY DEF Tell, frames, client, runner, history
<1>2. live' \in [Conns -> SUBSET ([type : {"cancel"}, op : Ops] \cup [type : {"superseded"}])]
  <2>1. CASE UNCHANGED live BY <2>1, LinkFacts
  <2>2. CASE Announce(Frame("cancel", o))
    <3>1. Frame("cancel", o) \in [type : {"cancel"}, op : Ops] \cup [type : {"superseded"}]
      BY DEF Frame
    <3> QED BY <2>2, <3>1, AnnounceOK
  <2> QED BY <2>1, <2>2 DEF Tell
<1> QED BY <1>1, <1>2, LinkFacts, ServerStep

(* Token, claim, welcome, and the cancels for what the hello lists. *)
LEMMA HandshakeStep ==
  ASSUME IInv, NEW c \in Conns, Handshake(c)
  PROVE  IInv'
<1>1. UNCHANGED <<row, jrn, ans, job, runs, dead, sock, welcomed, app>>
  BY DEF Handshake, Authenticate, Subscribe, Claim, Supersede, Welcome, Reconcile, journal, client, runner, history
<1>2. ASSUME NEW code \in {"unauthenticated", "revoked", "superseded"}, CloseWith(c, code)
      PROVE  IInv'
  BY <1>1, <1>2, GoneStep DEF CloseWith
<1>3. ASSUME NEW s \in Places \ {"off"}, st' = [st EXCEPT ![c] = s]
      PROVE  /\ st' \in [Conns -> Places]
             /\ \A d \in Conns : st'[d] = "off" => st[d] = "off"
  BY <1>3, LinkFacts
<1>4. CASE /\ \E s \in {"hello", "subscribed", "claimed"} : st' = [st EXCEPT ![c] = s]
           /\ UNCHANGED <<reported, delivered, batch, live, down, up>>
  <2>1. PICK s \in {"hello", "subscribed", "claimed"} : st' = [st EXCEPT ![c] = s] BY <1>4
  <2>2. s \in Places \ {"off"} BY DEF Places
  <2> QED BY <1>1, <1>3, <1>4, <2>1, <2>2, LinkFacts, ServerStep
<1>5. CASE Supersede(c)
  <2>1. live' \in [Conns -> SUBSET ([type : {"cancel"}, op : Ops] \cup [type : {"superseded"}])]
    <3>1. [type |-> "superseded"] \in [type : {"cancel"}, op : Ops] \cup [type : {"superseded"}]
      OBVIOUS
    <3> QED BY <1>5, <3>1, AnnounceOK DEF Supersede
  <2>2. st' = [st EXCEPT ![c] = "announced"] /\ UNCHANGED <<reported, delivered, batch, down, up>>
    BY <1>5 DEF Supersede, Set, frames
  <2>3. "announced" \in Places \ {"off"} BY DEF Places
  <2> QED BY <1>1, <1>3, <2>1, <2>2, <2>3, LinkFacts, ServerStep
<1>6. CASE /\ st' = [st EXCEPT ![c] = "welcomed"] /\ Send(c, <<[type |-> "welcome"]>>)
           /\ UNCHANGED <<reported, delivered, batch, live, up>>
  <2>1. <<[type |-> "welcome"]>> \in Seq(Harmless) BY HarmlessFrames
  <2>2. /\ down' \in [Conns -> Seq(DownFrames)]
        /\ \A d \in Conns : sock = d => down'[d] \in Seq(Harmless)
    BY <1>6, <2>1, LinkFacts, SendOK
  <2>3. "welcomed" \in Places \ {"off"} BY DEF Places
  <2> QED BY <1>1, <1>3, <1>6, <2>2, <2>3, LinkFacts, ServerStep
<1>7. CASE Reconcile(c)
  <2>1. /\ st' = [st EXCEPT ![c] = "serve"] /\ reported' = [reported EXCEPT ![c] = {}]
        /\ Send(c, Frames("cancel", ClosedAmong(reported[c])))
        /\ UNCHANGED <<delivered, batch, live, up>>
    BY <1>7 DEF Reconcile, Set
  <2>2. ClosedAmong(reported[c]) \in SUBSET Ops BY LinkFacts DEF ClosedAmong
  <2>3. /\ down' \in [Conns -> Seq(DownFrames)]
        /\ \A d \in Conns : sock = d => down'[d] \in Seq(Harmless)
    BY <2>1, <2>2, CancelFrames, LinkFacts, SendOK
  <2>4. reported' \in [Conns -> SUBSET Ops] BY <2>1, LinkFacts
  <2>5. "serve" \in Places \ {"off"} BY DEF Places
  <2> QED BY <1>1, <1>3, <2>1, <2>3, <2>4, <2>5, LinkFacts, ServerStep
<1> QED BY <1>2, <1>4, <1>5, <1>6, <1>7
     DEF Handshake, Authenticate, Subscribe, Claim, Welcome, Set, frames

(* Cancels again for what was sent and is closed since. *)
LEMMA RecheckStep ==
  ASSUME IInv, NEW c \in Conns, Recheck(c)
  PROVE  IInv'
<1>1. UNCHANGED <<row, jrn, ans, job, runs, dead, sock, welcomed, app, st, reported, batch, live, up>>
  BY DEF Recheck, journal, client, runner, history
<1>2. PICK over \in SUBSET Ops : /\ Send(c, Frames("cancel", over))
                                 /\ delivered' = [delivered EXCEPT ![c] = delivered[c] \ over]
  <2>1. ClosedAmong(delivered[c]) \in SUBSET Ops BY LinkFacts DEF ClosedAmong
  <2> QED BY <2>1 DEF Recheck, Set
<1>3. delivered' \in [Conns -> SUBSET Ops] BY <1>2, LinkFacts
<1>4. /\ down' \in [Conns -> Seq(DownFrames)]
      /\ \A d \in Conns : sock = d => down'[d] \in Seq(Harmless)
  BY <1>2, CancelFrames, LinkFacts, SendOK
<1> QED BY <1>1, <1>3, <1>4, LinkFacts, ServerStep

(* What is read to be sent is open, so it is not dead. *)
LEMMA QueryStep ==
  ASSUME IInv, NEW c \in Conns, Query(c)
  PROVE  IInv'
<1>1. /\ UNCHANGED <<row, jrn, ans, job, runs, dead, sock, welcomed, app, st, reported, delivered,
                     live, down, up>>
      /\ st[c] = "serve" /\ batch' = [batch EXCEPT ![c] = Pending(c)]
  BY DEF Query, journal, client, runner, history, frames, Set
<1>2. Pending(c) \in SUBSET Ops /\ \A o \in Pending(c) : row[o] = "open"
  BY DEF Pending, Open
<1>3. Pending(c) \cap dead = {}
  BY <1>2 DEF IInv, RowsInv, RowOK, Closed, Answers
<1>4. /\ batch' \in [Conns -> SUBSET Ops]
      /\ \A d \in Conns : batch'[d] \cap dead \subseteq batch[d]
      /\ \A d \in Conns : st[d] = "off" => batch'[d] = {}
  BY <1>1, <1>2, <1>3, LinkFacts
<1> QED BY <1>1, <1>4, LinkFacts, ServerStep

(* What is sent was read to be sent: on the app's connection it is not dead. *)
LEMMA DeliverStep ==
  ASSUME IInv, NEW c \in Conns, NEW o \in Ops, Deliver(c, o)
  PROVE  IInv'
<1>1. /\ UNCHANGED <<row, jrn, ans, job, runs, dead, sock, welcomed, app, st, reported, live, up>>
      /\ o \in batch[c] /\ Send(c, <<Frame("op", o)>>)
      /\ batch' = [batch EXCEPT ![c] = batch[c] \ {o}]
      /\ delivered' = [delivered EXCEPT ![c] = delivered[c] \cup {o}]
  BY DEF Deliver, journal, client, runner, history, Set
<1>2. /\ delivered' \in [Conns -> SUBSET Ops] /\ batch' \in [Conns -> SUBSET Ops]
      /\ \A d \in Conns : batch'[d] \subseteq batch[d]
  BY <1>1, LinkFacts
<1>3. /\ down' \in [Conns -> Seq(DownFrames)]
      /\ \A d \in Conns : sock = d => down'[d] \in Seq(Harmless)
  <2>1. CASE sock /= c BY <1>1, <2>1, LinkFacts DEF Send
  <2>2. CASE sock = c
    <3>1. o \notin dead BY <1>1, <2>2 DEF IInv, LinkInv
    <3>2. <<Frame("op", o)>> \in Seq(Harmless) BY <3>1, HarmlessFrames
    <3> QED BY <1>1, <3>2, LinkFacts, SendOK
  <2> QED BY <2>1, <2>2
<1> QED BY <1>1, <1>2, <1>3, LinkFacts, ServerStep

(* An announced cancel is passed on; whoever lost the device steps down. *)
LEMMA ControlStep ==
  ASSUME IInv, NEW c \in Conns, NEW m \in live[c], Control(c, m)
  PROVE  IInv'
<1>1. UNCHANGED <<row, jrn, ans, job, runs, dead, sock, welcomed, app>>
  BY DEF Control, journal, client, runner, history
<1>2. m \in [type : {"cancel"}, op : Ops] \cup [type : {"superseded"}]
  BY LinkFacts
<1>3. CASE /\ m.type = "cancel" /\ live' = [live EXCEPT ![c] = live[c] \ {m}]
           /\ delivered' = [delivered EXCEPT ![c] = delivered[c] \ {m.op}] /\ Send(c, <<m>>)
           /\ UNCHANGED <<st, reported, batch, up>>
  <2>1. m \in Harmless BY <1>2, <1>3 DEF Harmless, DownFrames
  <2>2. <<m>> \in Seq(Harmless) BY <2>1
  <2>3. /\ down' \in [Conns -> Seq(DownFrames)]
        /\ \A d \in Conns : sock = d => down'[d] \in Seq(Harmless)
    BY <1>3, <2>2, LinkFacts, SendOK
  <2>4. /\ live' \in [Conns -> SUBSET ([type : {"cancel"}, op : Ops] \cup [type : {"superseded"}])]
        /\ delivered' \in [Conns -> SUBSET Ops]
    BY <1>3, LinkFacts
  <2> QED BY <1>1, <1>3, <2>3, <2>4, LinkFacts, ServerStep
<1>4. CASE /\ live' = [live EXCEPT ![c] = live[c] \ {m}]
           /\ UNCHANGED <<st, reported, delivered, batch, down, up>>
  <2>1. live' \in [Conns -> SUBSET ([type : {"cancel"}, op : Ops] \cup [type : {"superseded"}])]
    BY <1>4, LinkFacts
  <2> QED BY <1>1, <1>4, <2>1, LinkFacts, ServerStep
<1>5. CASE CloseWith(c, "superseded")
  BY <1>1, <1>5, GoneStep DEF CloseWith
<1> QED BY <1>3, <1>4, <1>5 DEF Control, Set, frames

(* The connection is ended, or its claim refreshed. *)
LEMMA LeaveStep ==
  ASSUME IInv, NEW c \in Conns, Expelled(c) \/ Refresh(c) \/ Disconnect(c)
  PROVE  IInv'
<1>1. UNCHANGED <<row, jrn, ans, job, runs, dead, sock, welcomed, app>>
  BY DEF Expelled, Refresh, Disconnect, journal, client, runner, history
<1>2. CASE Gone(c) /\ UNCHANGED down
  BY <1>1, <1>2, GoneStep
<1>3. ASSUME NEW code \in {"revoked", "superseded"}, CloseWith(c, code) PROVE IInv'
  BY <1>1, <1>3, GoneStep DEF CloseWith
<1>4. CASE UNCHANGED <<st, reported, delivered, batch, live, down, up>>
  BY <1>1, <1>4, IdleStep
<1> QED BY <1>2, <1>3, <1>4 DEF Expelled, Refresh, Disconnect, frames

(* complete: what the server records is what the computer answered. *)
LEMMA ResultStep ==
  ASSUME IInv, NEW c \in Conns, Result(c)
  PROVE  IInv'
<1>1. /\ UNCHANGED <<jrn, ans, job, runs, dead, sock, welcomed, app>> /\ up[c] /= <<>>
  BY DEF Result, client, runner, history
<1>2. CASE CloseWith(c, "revoked") /\ UNCHANGED row
  BY <1>1, <1>2, GoneStep DEF CloseWith
<1>3. CASE /\ row' = Completed(c, Head(up[c])) /\ Send(c, <<Frame("ack", Head(up[c]).op)>>)
           /\ delivered' = [delivered EXCEPT ![c] = delivered[c] \ {Head(up[c]).op}]
           /\ up' = [up EXCEPT ![c] = Tail(up[c])]
           /\ UNCHANGED <<st, reported, batch, live>>
  <2>1. up[c] \in Seq(Replies) BY LinkFacts
  <2>2. PICK r \in Replies : r = Head(up[c]) BY <1>1, <2>1, HeadTailProperties
  <2>3. Tail(up[c]) \in Seq(Replies) BY <1>1, <2>1, HeadTailProperties
  <2>4. r.op \in Ops /\ r.answer \in Answers /\ Told(r.op, r.answer) BY DEF Replies
  <2>5. RowsInv /\ RowTypes /\ LinkInv BY DEF IInv, RowsInv
  <2>6. \A o \in Ops : \/ row'[o] = row[o]
                       \/ o = r.op /\ row'[o] = r.answer /\ row[o] = "open"
    BY <1>3, <2>2 DEF Completed, Shut, Open
  <2>7. RowsInv'
    <3>1. row' \in [Ops -> {"none", "open"} \cup Closed]
      <4>1. CASE Open(r.op) BY <1>3, <2>2, <2>4, <2>5, <4>1 DEF Completed, Shut, RowTypes, Closed
      <4>2. CASE ~Open(r.op) BY <1>3, <2>2, <2>5, <4>2 DEF Completed, RowTypes
      <4> QED BY <4>1, <4>2
    <3>2. RowTypes' BY <1>1, <2>5, <3>1 DEF RowTypes
    <3>3. ASSUME NEW o \in Ops PROVE RowOK(o)'
      <4>1. RowOK(o) BY <2>5 DEF RowsInv
      <4>2. CASE row'[o] = row[o] BY <1>1, <4>1, <4>2 DEF RowOK, Told
      <4>3. CASE o = r.op /\ row'[o] = r.answer /\ row[o] = "open"
        <5>1. o \notin dead /\ r.answer \in Closed BY <2>4, <4>1, <4>3 DEF RowOK, Closed, Answers
        <5> QED BY <1>1, <2>4, <4>1, <4>3, <5>1 DEF RowOK, Told
      <4> QED BY <2>6, <4>2, <4>3
    <3> QED BY <3>2, <3>3 DEF RowsInv
  <2>8. UpInv'
    <3>1. Replies' = Replies BY <1>1 DEF Replies, Told
    <3>2. up' \in [Conns -> Seq(Replies)] BY <1>3, <2>3, LinkFacts
    <3> QED BY <3>1, <3>2 DEF UpInv
  <2>9. LinkInv'
    <3>1. <<Frame("ack", r.op)>> \in Seq(Harmless) BY <2>4, HarmlessFrames
    <3>2. /\ down' \in [Conns -> Seq(DownFrames)]
          /\ \A d \in Conns : sock = d => down'[d] \in Seq(Harmless)
      BY <1>3, <2>2, <2>5, <3>1, SendOK
    <3>3. delivered' \in [Conns -> SUBSET Ops] BY <1>3, LinkFacts
    <3>4. Harmless' = Harmless BY <1>1 DEF Harmless
    <3>5. LinkTypes' BY <1>1, <1>3, <2>5, <3>2, <3>3 DEF LinkInv, LinkTypes
    <3> QED BY <1>1, <1>3, <2>5, <3>2, <3>4, <3>5 DEF LinkInv, Halted
  <2> QED BY <2>7, <2>8, <2>9 DEF IInv
<1> QED BY <1>2, <1>3 DEF Result, Set

(* ------------------------------- the app ------------------------------- *)

\* How one operation may move in the app, its row, answer, job and starts together.
Moves(o) ==
  \/ /\ jrn'[o] = jrn[o] /\ ans'[o] = ans[o] /\ job'[o] \in {job[o]} \cup Stopping
     /\ runs'[o] = runs[o]
  \/ /\ jrn[o] \in {"none", "received"} /\ jrn'[o] = "received" /\ job'[o] \in {job[o], "admit"}
     /\ ans'[o] = ans[o] /\ runs'[o] = runs[o] /\ o \notin dead
  \/ /\ jrn[o] = "received" /\ jrn'[o] = "started" /\ job[o] = "admit" /\ job'[o] = "run"
     /\ ans'[o] = ans[o] /\ runs'[o] = runs[o] + 1
  \/ /\ jrn[o] = "received" /\ jrn'[o] = "finished" /\ job'[o] = "idle"
     /\ ans'[o] = "refused" /\ runs'[o] = runs[o]
  \/ /\ jrn[o] = "started" /\ jrn'[o] = "finished" /\ job'[o] \in {job[o], "idle"}
     /\ ans'[o] \in {"ok", "interrupted"} /\ runs'[o] = runs[o]
  \/ /\ jrn[o] = "finished" /\ jrn'[o] = "acknowledged" /\ job'[o] = job[o]
     /\ ans'[o] = ans[o] /\ runs'[o] = runs[o]
  \/ /\ jrn'[o] = "cancelled" /\ job'[o] \in {job[o], "idle"} /\ job'[o] /= "admit"
     /\ ans'[o] = ans[o] /\ runs'[o] = runs[o]

(* Every such move keeps the journals true, whatever they said before. *)
LEMMA RowsMove ==
  ASSUME RowsInv, \A o \in Ops : Moves(o), UNCHANGED <<row, dead>>,
         DOMAIN jrn' = Ops, DOMAIN ans' = Ops, DOMAIN job' = Ops, DOMAIN runs' = Ops,
         jrn' = [o \in DOMAIN jrn' |-> jrn'[o]], ans' = [o \in DOMAIN ans' |-> ans'[o]],
         job' = [o \in DOMAIN job' |-> job'[o]], runs' = [o \in DOMAIN runs' |-> runs'[o]]
  PROVE  RowsInv' /\ \A o \in Ops : Keeps(o)
<1>0. RowTypes BY DEF RowsInv
<1>1. ASSUME NEW o \in Ops
      PROVE  /\ jrn'[o] \in {"none", "received", "started"} \cup Final
             /\ ans'[o] \in {"none"} \cup Answers /\ job'[o] \in Jobs
             /\ runs'[o] \in {0, 1} /\ Keeps(o) /\ RowOK(o)'
  <2>1. /\ RowOK(o) /\ Moves(o) /\ row'[o] = row[o]
        /\ jrn[o] \in {"none", "received", "started"} \cup Final
        /\ ans[o] \in {"none"} \cup Answers /\ job[o] \in Jobs
        /\ runs[o] \in {0, 1}
    BY <1>0 DEF RowsInv, RowTypes
  <2>2. /\ jrn'[o] \in {"none", "received", "started"} \cup Final
        /\ ans'[o] \in {"none"} \cup Answers /\ job'[o] \in Jobs
        /\ runs'[o] \in {0, 1}
    BY <2>1 DEF Moves, RowOK, Final, Answers, Jobs, Stopping
  <2>3. Keeps(o)
    BY <2>1 DEF Moves, RowOK, Keeps, Final
  <2>4. /\ (jrn[o] \in {"none", "received"} => runs[o] = 0)'
        /\ (jrn[o] = "started" => runs[o] = 1)'
        /\ (job[o] = "admit" => jrn[o] = "received")'
        /\ (o \in dead => runs[o] = 0 /\ row[o] \in Closed /\ job[o] /= "admit")'
    BY <2>1 DEF Moves, RowOK, Final, Stopping
  <2>5. (jrn[o] \in {"finished", "acknowledged"} => ans[o] \in Answers /\ Told(o, ans[o]))'
    BY <2>1 DEF Moves, RowOK, Final, Told, Answers
  <2>6. (row[o] \in Answers => Told(o, row[o]))'
    BY <2>1, <2>3, ToldStays DEF RowOK
  <2> QED BY <2>2, <2>3, <2>4, <2>5, <2>6 DEF RowOK
<1>2. RowTypes' BY <1>0, <1>1 DEF RowTypes
<1> QED BY <1>1, <1>2 DEF RowsInv

(* The app answers with what is true. *)
LEMMA ReplyOK ==
  ASSUME NEW R, up \in [Conns -> Seq(R)], welcomed => sock \in Conns, NEW os \in SUBSET Ops, NEW of,
         \A o \in os : [op |-> o, answer |-> of[o]] \in R, Reply(os, of)
  PROVE  up' \in [Conns -> Seq(R)]
<1>1. CASE ~welcomed BY <1>1 DEF Reply
<1>2. CASE welcomed
  <2> DEFINE S == {[op |-> o, answer |-> of[o]] : o \in os}
  <2>1. up' = [up EXCEPT ![sock] = up[sock] \o SetToSeq(S)] /\ sock \in Conns
    BY <1>2 DEF Reply
  <2>2. SetToSeq(S) \in Seq(S) BY RepliesSeq
  <2>3. S \subseteq R OBVIOUS
  <2> HIDE DEF S
  <2>4. SetToSeq(S) \in Seq(R) BY <2>2, <2>3, SeqMonotonic
  <2>5. up[sock] \o SetToSeq(S) \in Seq(R) BY <2>1, <2>4, ConcatProperties
  <2> QED BY <2>1, <2>5
<1> QED BY <1>1, <1>2

(* The app reads a frame: it is a harmless one, and so are those left. *)
LEMMA ReadOK ==
  ASSUME IInv, NEW c \in Conns, NEW t, Read(c, t)
  PROVE  /\ sock = c /\ app = "up" /\ Head(down[c]) \in Harmless /\ Head(down[c]).type = t
         /\ t \in {"op", "cancel", "ack"} => Head(down[c]).op \in Ops
         /\ t = "op" => Head(down[c]).op \notin dead
         /\ Taken(c) => /\ down' \in [Conns -> Seq(DownFrames)] /\ down'[c] \in Seq(Harmless)
                        /\ \A d \in Conns : d /= c => down'[d] = down[d]
<1>1. sock = c /\ down[c] /= <<>> /\ Head(down[c]).type = t BY DEF Read
<1>2. down[c] \in Seq(Harmless) /\ down \in [Conns -> Seq(DownFrames)] BY <1>1, LinkFacts
<1>3. Head(down[c]) \in Harmless /\ Tail(down[c]) \in Seq(Harmless)
  BY <1>1, <1>2, HeadTailProperties
<1>4. Tail(down[c]) \in Seq(DownFrames)
  <2>1. Harmless \subseteq DownFrames BY DEF Harmless
  <2> QED BY <1>3, <2>1, SeqMonotonic
<1>5. app = "up" BY <1>1, ConnsAssumption DEF IInv, LinkInv
<1>6. Taken(c) => /\ down' \in [Conns -> Seq(DownFrames)] /\ down'[c] \in Seq(Harmless)
                  /\ \A d \in Conns : d /= c => down'[d] = down[d]
  BY <1>2, <1>3, <1>4 DEF Taken
<1>7. /\ t \in {"op", "cancel", "ack"} => Head(down[c]).op \in Ops
      /\ t = "op" => Head(down[c]).op \notin dead
  BY <1>1, <1>3 DEF Harmless, DownFrames
<1> QED BY <1>1, <1>3, <1>5, <1>6, <1>7

(* The link after a step of the app's runner: at most a frame was read. *)
LEMMA LinkReads ==
  ASSUME IInv, UNCHANGED <<st, reported, delivered, batch, live, sock, app, dead>>,
         welcomed' \in BOOLEAN, welcomed' => sock \in Conns,
         down' \in [Conns -> Seq(DownFrames)],
         \A c \in Conns : sock = c => down'[c] \in Seq(Harmless),
         Halted'
  PROVE  LinkInv'
<1>1. Harmless' = Harmless BY DEF Harmless
<1>2. LinkTypes' BY DEF IInv, LinkInv, LinkTypes
<1> QED BY <1>1, <1>2 DEF IInv, LinkInv

(* connect: a new connection has nothing on it. *)
LEMMA ConnectStep ==
  ASSUME IInv, NEW c \in Conns, Connect(c)
  PROVE  IInv'
<1>1. /\ UNCHANGED <<row, jrn, ans, job, runs, dead, delivered, batch, live, welcomed, app>>
      /\ app = "up" /\ sock = NoConn /\ st[c] = "off" /\ sock' = c
      /\ st' = [st EXCEPT ![c] = "opened"] /\ down' = [down EXCEPT ![c] = <<>>]
      /\ up' = [up EXCEPT ![c] = <<>>]
      /\ reported' = [reported EXCEPT ![c] = {o \in Ops : jrn[o] \in {"received", "started"}}]
  BY DEF Connect, journal, runner, history, Set
<1>2. RowsInv' /\ Replies' = Replies /\ Harmless' = Harmless BY <1>1, RowsSame DEF IInv
<1>3. UpInv'
  <2>1. up' \in [Conns -> Seq(Replies)] BY <1>1, LinkFacts
  <2> QED BY <1>2, <2>1 DEF UpInv
<1>4. LinkInv'
  <2>1. /\ st' \in [Conns -> Places]
        /\ reported' \in [Conns -> SUBSET Ops] /\ down' \in [Conns -> Seq(DownFrames)]
        /\ down'[c] = <<>> /\ \A d \in Conns : st'[d] = "off" => st[d] = "off"
    BY <1>1, LinkFacts DEF Places
  <2>2. batch[c] = {} BY <1>1, LinkFacts
  <2>3. LinkTypes' BY <1>1, <2>1 DEF IInv, LinkInv, LinkTypes
  <2>4. <<>> \in Seq(Harmless) OBVIOUS
  <2> QED BY <1>1, <1>2, <2>1, <2>2, <2>3, <2>4 DEF IInv, LinkInv, Halted
<1> QED BY <1>2, <1>3, <1>4 DEF IInv

(* The welcome brings every answer not yet acknowledged. *)
LEMMA OnWelcomeStep ==
  ASSUME IInv, NEW c \in Conns, OnWelcome(c)
  PROVE  IInv'
<1>1. /\ UNCHANGED <<row, jrn, ans, job, runs, dead, st, reported, delivered, batch, live, sock, app>>
      /\ Read(c, "welcome") /\ Taken(c) /\ welcomed' = TRUE
  BY DEF OnWelcome, journal, server, runner, history
<1>2. RowsInv' /\ Replies' = Replies BY <1>1, RowsSame DEF IInv
<1>3. PICK os \in SUBSET Ops : os = {p \in Ops : jrn[p] = "finished"} OBVIOUS
<1>4. up' = [up EXCEPT ![c] = up[c] \o SetToSeq({[op |-> o, answer |-> ans[o]] : o \in os})]
  BY <1>3 DEF OnWelcome
<1>5. {[op |-> o, answer |-> ans[o]] : o \in os} \subseteq Replies
  BY <1>3 DEF IInv, RowsInv, RowOK, Replies
<1>6. SetToSeq({[op |-> o, answer |-> ans[o]] : o \in os}) \in Seq(Replies)
  BY <1>5, RepliesSeq, SeqMonotonic
<1>7. up[c] \o SetToSeq({[op |-> o, answer |-> ans[o]] : o \in os}) \in Seq(Replies)
  BY <1>6, LinkFacts, ConcatProperties
<1>8. UpInv' BY <1>2, <1>4, <1>7, LinkFacts DEF UpInv
<1>9. LinkInv'
  <2>1. Halted' BY <1>1 DEF IInv, LinkInv, Halted
  <2> QED BY <1>1, <2>1, LinkFacts, ReadOK, LinkReads
<1> QED BY <1>2, <1>8, <1>9 DEF IInv

(* Moves of the rows, with the results and the link they leave. *)
LEMMA RunnerStep ==
  ASSUME IInv, \A o \in Ops : Moves(o), UNCHANGED <<row, dead>>,
         DOMAIN jrn' = Ops, DOMAIN ans' = Ops, DOMAIN job' = Ops, DOMAIN runs' = Ops,
         jrn' = [o \in DOMAIN jrn' |-> jrn'[o]], ans' = [o \in DOMAIN ans' |-> ans'[o]],
         job' = [o \in DOMAIN job' |-> job'[o]], runs' = [o \in DOMAIN runs' |-> runs'[o]]
  PROVE  /\ RowsInv' /\ up \in [Conns -> Seq(Replies')]
         /\ \A o \in Ops : jrn'[o] \in {"finished", "acknowledged"} =>
                             [op |-> o, answer |-> ans'[o]] \in Replies'
<1>1. RowsInv' /\ \A o \in Ops : Keeps(o) BY RowsMove DEF IInv
<1>2. up \in [Conns -> Seq(Replies')] BY <1>1, UpStays DEF IInv
<1>3. \A o \in Ops : jrn'[o] \in {"finished", "acknowledged"} =>
                       [op |-> o, answer |-> ans'[o]] \in Replies'
  BY <1>1 DEF RowsInv, RowOK, Replies
<1> QED BY <1>1, <1>2, <1>3

(* The app's rows are functions on the operations, all of them. *)
LEMMA RowFacts ==
  ASSUME IInv
  PROVE  /\ jrn \in [Ops -> {"none", "received", "started"} \cup Final]
         /\ ans \in [Ops -> {"none"} \cup Answers]
         /\ job \in [Ops -> Jobs] /\ runs \in [Ops -> {0, 1}]
         /\ dead \subseteq Ops /\ RowsInv /\ UpInv /\ LinkInv
         /\ welcomed => sock \in Conns
         /\ sock \in Conns => app = "up"
         /\ app /= "up" => sock = NoConn
         /\ Halted
         /\ \A o \in Ops : RowOK(o)
BY ConnsAssumption DEF IInv, RowsInv, RowTypes, LinkInv

(* receive, cancel and acknowledge. *)
LEMMA OnFrameStep ==
  ASSUME IInv, NEW c \in Conns, OnOp(c) \/ OnCancel(c) \/ OnAck(c)
  PROVE  IInv'
<1>1. /\ UNCHANGED <<row, ans, runs, dead, st, reported, delivered, batch, live, sock, welcomed, app>>
      /\ Taken(c)
  BY DEF OnOp, OnCancel, OnAck, journal, server, client, history
<1>2. PICK t \in {"op", "cancel", "ack"} : Read(c, t) BY DEF OnOp, OnCancel, OnAck
<1>3. PICK o \in Ops : o = Head(down[c]).op BY <1>2, ReadOK
<1>4. /\ DOMAIN jrn' = Ops /\ DOMAIN job' = Ops
      /\ jrn' = [p \in DOMAIN jrn' |-> jrn'[p]] /\ job' = [p \in DOMAIN job' |-> job'[p]]
      /\ \A p \in Ops : p /= o => jrn'[p] = jrn[p] /\ job'[p] = job[p]
  <2>1. CASE OnOp(c) BY <1>3, <2>1, RowFacts DEF OnOp
  <2>2. CASE OnCancel(c) BY <1>3, <2>2, RowFacts DEF OnCancel
  <2>3. CASE OnAck(c) BY <1>3, <2>3, RowFacts DEF OnAck
  <2> QED BY <2>1, <2>2, <2>3
<1>5. Moves(o)
  <2>0. RowOK(o) /\ jrn[o] \in {"none", "received", "started"} \cup Final
        /\ job[o] \in Jobs
    BY RowFacts
  <2>1. CASE OnOp(c)
    <3>1. o \notin dead BY <1>3, <2>1, ReadOK DEF OnOp
    <3>2. \/ /\ jrn[o] \in {"none", "received"} /\ jrn'[o] = "received"
             /\ job'[o] \in {job[o], "admit"}
          \/ UNCHANGED <<jrn, job>>
      BY <1>3, <2>1, RowFacts DEF OnOp
    <3> QED BY <1>1, <3>1, <3>2 DEF Moves
  <2>2. CASE OnCancel(c)
    <3>1. /\ jrn'[o] = IF jrn[o] \in {"none", "received", "started"} THEN "cancelled" ELSE jrn[o]
          /\ job'[o] = IF job[o] = "admit" THEN "idle" ELSE job[o]
      BY <1>3, <2>2, RowFacts DEF OnCancel
    <3> QED BY <1>1, <3>1 DEF Moves, Stopping
  <2>3. CASE OnAck(c)
    <3>1. /\ jrn'[o] = IF jrn[o] = "finished" THEN "acknowledged" ELSE jrn[o]
          /\ job' = job
      BY <1>3, <2>3, RowFacts DEF OnAck
    <3> QED BY <1>1, <3>1 DEF Moves
  <2> QED BY <2>1, <2>2, <2>3
<1>6. \A p \in Ops : Moves(p) BY <1>1, <1>4, <1>5 DEF Moves
<1>7. /\ RowsInv' /\ up \in [Conns -> Seq(Replies')]
      /\ \A p \in Ops : jrn'[p] \in {"finished", "acknowledged"} =>
                          [op |-> p, answer |-> ans'[p]] \in Replies'
  BY <1>1, <1>4, <1>6, RowFacts, RunnerStep
<1>8. up' \in [Conns -> Seq(Replies')]
  <2>1. CASE UNCHANGED up BY <1>7, <2>1
  <2>2. CASE jrn[o] \in {"finished", "acknowledged"} /\ Reply({o}, ans) /\ UNCHANGED <<jrn, job>>
    <3>1. \A p \in {o} : [op |-> p, answer |-> ans[p]] \in Replies' BY <1>1, <1>7, <2>2
    <3>2. {o} \in SUBSET Ops OBVIOUS
    <3> QED BY <1>7, <2>2, <3>1, <3>2, RowFacts, ReplyOK
  <2> QED BY <1>3, <2>1, <2>2 DEF OnOp, OnCancel, OnAck
<1>9. LinkInv'
  <2>1. app = "up" /\ sock = c /\ Halted' BY <1>1, <1>2, ReadOK DEF Halted
  <2>2. down' \in [Conns -> Seq(DownFrames)] /\ down'[c] \in Seq(Harmless) BY <1>1, <1>2, ReadOK
  <2>3. welcomed \in BOOLEAN /\ (welcomed => sock \in Conns) BY DEF IInv, LinkInv, LinkTypes
  <2> QED BY <1>1, <2>1, <2>2, <2>3, LinkReads
<1> QED BY <1>7, <1>8, <1>9 DEF IInv, UpInv

(* admit and execute: the one step that starts an operation is Allow. *)
LEMMA RunStep ==
  ASSUME IInv, NEW o \in Ops, Refuse(o) \/ Allow(o) \/ Finish(o) \/ Settle(o)
  PROVE  IInv'
<1>1. /\ UNCHANGED <<row, dead, st, reported, delivered, batch, live, down, sock, welcomed, app>>
      /\ job[o] /= "idle"
  BY DEF Refuse, Allow, Finish, Settle, journal, server, frames, client, history
<1>3. /\ DOMAIN jrn' = Ops /\ DOMAIN job' = Ops /\ DOMAIN ans' = Ops /\ DOMAIN runs' = Ops
      /\ jrn' = [p \in DOMAIN jrn' |-> jrn'[p]] /\ job' = [p \in DOMAIN job' |-> job'[p]]
      /\ ans' = [p \in DOMAIN ans' |-> ans'[p]] /\ runs' = [p \in DOMAIN runs' |-> runs'[p]]
      /\ \A p \in Ops : p /= o => /\ jrn'[p] = jrn[p] /\ job'[p] = job[p]
                                  /\ ans'[p] = ans[p] /\ runs'[p] = runs[p]
  <2>1. CASE Refuse(o) BY <2>1, RowFacts DEF Refuse, history
  <2>2. CASE Allow(o) BY <2>2, RowFacts DEF Allow
  <2>3. CASE Finish(o) BY <2>3, RowFacts DEF Finish, history
  <2>4. CASE Settle(o) BY <2>4, RowFacts DEF Settle, history
  <2> QED BY <2>1, <2>2, <2>3, <2>4
<1>2. Halted'
  <2>1. CASE job'[o] = "idle" BY <1>1, <1>3, <2>1, RowFacts DEF Halted, Stopping
  <2>2. CASE Allow(o)
    <3>1. app = "up" BY <2>2, RowFacts DEF Allow, Halted, Stopping
    <3> QED BY <1>1, <3>1 DEF Halted
  <2>3. Refuse(o) \/ Finish(o) \/ Settle(o) => job'[o] = "idle"
    BY RowFacts DEF Refuse, Finish, Settle
  <2> QED BY <2>1, <2>2, <2>3
<1>4. Moves(o)
  <2>1. CASE Refuse(o) BY <2>1, RowFacts DEF Refuse, Moves, history
  <2>2. CASE Allow(o) BY <2>2, RowFacts DEF Allow, Moves
  <2>3. CASE Finish(o) BY <2>3, RowFacts DEF Finish, Moves, history, Stopping
  <2>4. CASE Settle(o) BY <2>4, RowFacts DEF Settle, Moves, history, Stopping
  <2> QED BY <2>1, <2>2, <2>3, <2>4
<1>5. \A p \in Ops : Moves(p) BY <1>1, <1>3, <1>4 DEF Moves
<1>6. /\ RowsInv' /\ up \in [Conns -> Seq(Replies')]
      /\ \A p \in Ops : jrn'[p] \in {"finished", "acknowledged"} =>
                          [op |-> p, answer |-> ans'[p]] \in Replies'
  BY <1>1, <1>3, <1>5, RunnerStep
<1>7. up' \in [Conns -> Seq(Replies')]
  <2>1. CASE UNCHANGED up BY <1>6, <2>1
  <2>2. CASE jrn'[o] = "finished" /\ Reply({o}, ans')
    <3>1. \A p \in {o} : [op |-> p, answer |-> ans'[p]] \in Replies' BY <1>6, <2>2
    <3>2. {o} \in SUBSET Ops OBVIOUS
    <3> QED BY <1>6, <2>2, <3>1, <3>2, RowFacts, ReplyOK
  <2>3. Refuse(o) \/ Finish(o) \/ Settle(o) =>
          UNCHANGED up \/ (jrn'[o] = "finished" /\ Reply({o}, ans'))
    BY RowFacts DEF Refuse, Finish, Settle
  <2>4. Allow(o) => UNCHANGED up BY DEF Allow, frames
  <2> QED BY <2>1, <2>2, <2>3, <2>4
<1>8. LinkInv'
  <2>1. welcomed \in BOOLEAN /\ (welcomed => sock \in Conns) BY DEF IInv, LinkInv, LinkTypes
  <2> QED BY <1>1, <1>2, <2>1, LinkFacts, LinkReads
<1> QED BY <1>6, <1>7, <1>8 DEF IInv, UpInv

(* The app loses its connection: what was on it is gone. *)
LEMMA LinkEnds ==
  ASSUME IInv, UNCHANGED <<st, reported, delivered, batch, live>>,
         sock' = NoConn, welcomed' = FALSE,
         \A c \in Conns : down'[c] \in {down[c], <<>>}, down' = [c \in Conns |-> down'[c]],
         app' \in {"up", "ended", "cut", "retired", "down"}, Halted'
  PROVE  LinkInv'
<1>1. down' \in [Conns -> Seq(DownFrames)]
  <2>1. <<>> \in Seq(DownFrames) OBVIOUS
  <2>2. \A c \in Conns : down'[c] \in Seq(DownFrames)
    BY <2>1 DEF IInv, LinkInv, LinkTypes
  <2> QED BY <2>2
<1>2. LinkTypes' BY <1>1 DEF IInv, LinkInv, LinkTypes
<1> QED BY <1>2, ConnsAssumption DEF IInv, LinkInv

(* The jobs once the link has ended. *)
LEMMA EndedMoves ==
  ASSUME IInv, NEW suspend \in BOOLEAN, Ended(suspend), UNCHANGED <<jrn, ans, runs>>
  PROVE  /\ \A o \in Ops : Moves(o)
         /\ DOMAIN job' = Ops /\ job' = [p \in DOMAIN job' |-> job'[p]]
         /\ suspend => \A o \in Ops : job'[o] \in Stopping
<1>1. DOMAIN job' = Ops /\ job' = [p \in DOMAIN job' |-> job'[p]]
  BY DEF Ended
<1>2. ASSUME NEW o \in Ops
      PROVE  job'[o] \in {job[o]} \cup Stopping /\ (suspend => job'[o] \in Stopping)
  <2>1. job[o] \in Jobs BY RowFacts
  <2> QED BY <2>1 DEF Ended, Stopping, Jobs
<1>3. \A o \in Ops : Moves(o) BY <1>2 DEF Moves
<1> QED BY <1>1, <1>2, <1>3

(* A final close, or a broken socket. *)
LEMMA HangupStep ==
  ASSUME IInv, NEW c \in Conns, OnClose(c) \/ Drop(c)
  PROVE  IInv'
<1>1. /\ UNCHANGED <<row, jrn, ans, dead, runs, st, reported, delivered, batch, live, up>>
      /\ Hangup(c) /\ sock = c
  BY DEF OnClose, Drop, journal, server, history, Read
<1>2. PICK suspend \in BOOLEAN :
        /\ Ended(suspend) /\ app' \in {"up", "ended", "cut"} /\ (app' /= "up" => suspend)
  <2>1. CASE OnClose(c)
    <3>1. Ended(TRUE) /\ app' \in {"up", "ended", "cut"} BY <2>1 DEF OnClose
    <3> QED BY <3>1
  <2>2. CASE Drop(c)
    <3>1. Ended(FALSE) /\ app' = app BY <2>2 DEF Drop
    <3>2. app = "up" BY <1>1, RowFacts
    <3> QED BY <3>1, <3>2
  <2> QED BY <2>1, <2>2
<1>3. RowsInv' /\ up \in [Conns -> Seq(Replies')]
  BY <1>1, <1>2, RowFacts, EndedMoves, RunnerStep
<1>4. UpInv' BY <1>1, <1>3 DEF UpInv
<1>5. LinkInv'
  <2>1. sock' = NoConn /\ welcomed' = FALSE /\ down' = [down EXCEPT ![c] = <<>>]
    BY <1>1 DEF Hangup, Set
  <2>2. (\A d \in Conns : down'[d] \in {down[d], <<>>}) /\ down' = [d \in Conns |-> down'[d]]
    BY <2>1, LinkFacts
  <2>3. Halted' BY <1>1, <1>2, EndedMoves DEF Halted
  <2> QED BY <1>1, <1>2, <2>1, <2>2, <2>3, LinkEnds
<1> QED BY <1>3, <1>4, <1>5 DEF IInv

(* quit and a crash, the next launch, retire, and a start after another link took over. *)
LEMMA LifeStep ==
  ASSUME IInv, Quit \/ Crash \/ Launch \/ Retire \/ Restart
  PROVE  IInv'
<1>1. UNCHANGED <<row, dead, runs, st, reported, delivered, batch, live, up>>
  BY DEF Quit, Crash, Launch, Retire, Restart, journal, server, history, frames, runner
<1>2. /\ \A o \in Ops : Moves(o)
      /\ DOMAIN jrn' = Ops /\ DOMAIN job' = Ops /\ DOMAIN ans' = Ops
      /\ jrn' = [p \in DOMAIN jrn' |-> jrn'[p]] /\ job' = [p \in DOMAIN job' |-> job'[p]]
      /\ ans' = [p \in DOMAIN ans' |-> ans'[p]]
      /\ Halted'
  <2>1. CASE Quit BY <1>1, <2>1, RowFacts DEF Quit, Moves, Halted, Stopping
  <2>2. CASE Crash BY <1>1, <2>2, RowFacts DEF Crash, Moves, Halted, Stopping
  <2>3. CASE Launch
    <3>1. \A o \in Ops : job'[o] = "idle" /\ job[o] = "idle" BY <2>3, RowFacts DEF Launch, Halted
    <3> QED BY <1>1, <2>3, <3>1, RowFacts DEF Launch, Moves, Recovered, Halted, Stopping
  <2>4. CASE Retire
    <3>1. \A o \in Ops : job'[o] = "idle" /\ job[o] = "idle" 
      BY <2>4, RowFacts DEF Retire, Halted, Settled, Stopping
    <3> QED BY <1>1, <2>4, <3>1, RowFacts DEF Retire, Moves, Halted, Stopping
  <2>5. CASE Restart BY <1>1, <2>5, RowFacts DEF Restart, Moves, runner, Halted
  <2> QED BY <2>1, <2>2, <2>3, <2>4, <2>5
<1>3. RowsInv' /\ up \in [Conns -> Seq(Replies')]
  BY <1>1, <1>2, RowFacts, RunnerStep
<1>4. UpInv' BY <1>1, <1>3 DEF UpInv
<1>5. LinkInv'
  <2>1. CASE Quit \/ Crash
    <3>1. /\ sock' = NoConn /\ welcomed' = FALSE /\ app' = "down"
          /\ down' = [c \in Conns |-> IF c = sock THEN <<>> ELSE down[c]]
      BY <2>1 DEF Quit, Crash
    <3> QED BY <1>1, <1>2, <3>1, LinkEnds
  <2>2. CASE Launch \/ Retire \/ Restart
    <3>1. app /= "up" /\ app' \in {"up", "retired"} /\ UNCHANGED <<sock, welcomed, down>>
      BY <2>2 DEF Launch, Retire, Restart, frames
    <3>2. sock' = NoConn /\ welcomed' = FALSE
      BY <3>1, ConnsAssumption DEF IInv, LinkInv, LinkTypes
    <3>3. (\A d \in Conns : down'[d] \in {down[d], <<>>}) /\ down' = [d \in Conns |-> down'[d]]
      BY <3>1, LinkFacts
    <3> QED BY <1>1, <1>2, <3>1, <3>2, <3>3, LinkEnds
  <2> QED BY <2>1, <2>2
<1> QED BY <1>3, <1>4, <1>5 DEF IInv

(* Access is restored: what was revoked before it started is dead from here on. *)
LEMMA RestoreStep ==
  ASSUME IInv, Restore
  PROVE  IInv'
<1>1. /\ UNCHANGED <<row, jrn, ans, job, runs, st, reported, delivered, batch, live, down, up, sock,
                     welcomed>>
      /\ app = "retired" /\ app' \in {"up", "retired"}
      /\ dead' = dead \cup {o \in Ops : row[o] = "revoked" /\ runs[o] = 0}
  BY DEF Restore, journal, server, frames, runner
<1>2. sock = NoConn /\ welcomed = FALSE /\ \A o \in Ops : job[o] = "idle"
  BY <1>1, ConnsAssumption DEF IInv, LinkInv, LinkTypes, Halted
<1>3. RowsInv'
  <2>1. RowTypes' BY <1>1 DEF IInv, RowsInv, RowTypes
  <2>2. ASSUME NEW o \in Ops PROVE RowOK(o)'
    <3>1. RowOK(o) /\ job[o] = "idle" BY <1>2, RowFacts
    <3>2. o \in dead' => o \in dead \/ (row[o] \in Closed /\ runs[o] = 0) BY <1>1 DEF Closed
    <3> QED BY <1>1, <3>1, <3>2 DEF RowOK, Told
  <2> QED BY <2>1, <2>2 DEF RowsInv
<1>4. UpInv'
  <2>1. Replies' = Replies BY <1>1 DEF Replies, Told
  <2> QED BY <1>1, <2>1 DEF IInv, UpInv
<1>5. LinkInv'
  <2>1. (\A d \in Conns : down'[d] \in {down[d], <<>>}) /\ down' = [d \in Conns |-> down'[d]]
    BY <1>1, LinkFacts
  <2>2. Halted' BY <1>1, <1>2 DEF Halted, Stopping
  <2> QED BY <1>1, <1>2, <2>1, <2>2, LinkEnds
<1> QED BY <1>3, <1>4, <1>5 DEF IInv

(* ------------------------------ theorems ------------------------------- *)

(* Nothing is recorded, sent or started at first. *)
LEMMA InitIInv ==
  ASSUME Init
  PROVE  IInv
<1>1. RowsInv BY DEF Init, RowsInv, RowTypes, RowOK, Answers, Closed, Jobs
<1>2. UpInv BY DEF Init, UpInv
<1>3. LinkInv
  <2>1. LinkTypes
    <3>1. down \in [Conns -> Seq(DownFrames)] BY DEF Init
    <3>2. /\ reported = [c \in Conns |-> {}] /\ delivered = [c \in Conns |-> {}]
          /\ batch = [c \in Conns |-> {}] /\ live = [c \in Conns |-> {}]
      BY DEF Init
    <3>3. /\ st \in [Conns -> Places]
          /\ sock = NoConn /\ welcomed = FALSE /\ app = "up"
      BY DEF Init, Places
    <3> QED BY <3>1, <3>2, <3>3 DEF LinkTypes
  <2> QED BY <2>1, ConnsAssumption DEF Init, LinkInv, Halted
<1> QED BY <1>1, <1>2, <1>3 DEF IInv

(* Every step keeps the invariant. *)
LEMMA NextIInv ==
  ASSUME IInv, [Next]_vars
  PROVE  IInv'
<1>1. CASE UNCHANGED vars BY <1>1, IdleStep DEF vars
<1>2. ASSUME NEW o \in Ops,
             \/ Worker(o) \/ Die(o) \/ Halt(o) \/ Tell(o) \/ Refuse(o) \/ Allow(o) \/ Finish(o)
             \/ Settle(o)
      PROVE  IInv'
  BY <1>2, QuietStep, RecordStep, CancelStep, TellStep, RunStep DEF Worker
<1>3. CASE Stop \/ Delete \/ Cancel \/ Revoke \/ Expire BY <1>3, QuietStep, CancelStep
<1>4. ASSUME NEW c \in Conns,
             \/ Handshake(c) \/ Recheck(c) \/ Delivery(c) \/ Result(c) \/ Expelled(c) \/ Refresh(c)
             \/ Disconnect(c) \/ Connect(c) \/ OnFrame(c) \/ Drop(c)
             \/ \E m \in live[c] : Control(c, m)
      PROVE  IInv'
  <2>1. CASE Handshake(c) \/ Result(c) \/ Expelled(c) \/ Refresh(c) \/ Disconnect(c)
    BY <2>1, HandshakeStep, ResultStep, LeaveStep
  <2>2. CASE Recheck(c) \/ Delivery(c) BY <2>2, RecheckStep, QueryStep, DeliverStep DEF Delivery
  <2>3. CASE \E m \in live[c] : Control(c, m) BY <2>3, ControlStep
  <2>4. CASE Connect(c) \/ OnFrame(c) \/ Drop(c)
    BY <2>4, ConnectStep, OnWelcomeStep, OnFrameStep, HangupStep DEF OnFrame
  <2> QED BY <1>4, <2>1, <2>2, <2>3, <2>4
<1>5. CASE Retire \/ Quit \/ Crash \/ Launch \/ Restart \/ Restore BY <1>5, LifeStep, RestoreStep
<1> QED BY <1>1, <1>2, <1>3, <1>4, <1>5 DEF Next

(* The inductive invariant holds of every behaviour. *)
THEOREM Invariant == Spec => []IInv
<1>1. Init => IInv BY InitIInv
<1>2. IInv /\ [Next]_vars => IInv' BY NextIInv
<1> QED BY <1>1, <1>2, PTL DEF Spec

(* Whatever reconnects, restarts, is lost, sent again, cancelled or revoked: an operation
   starts at most once, never after it must not, and the server's record of it is true. *)
THEOREM TrueRecord == Spec => []RunsAsRecorded
<1>1. IInv => RunsAsRecorded
  <2> SUFFICES ASSUME IInv, NEW o \in Ops
               PROVE  /\ runs[o] <= 1 /\ (o \in dead => runs[o] = 0)
                      /\ row[o] \in {"ok", "interrupted"} => runs[o] = 1
                      /\ row[o] = "refused" => runs[o] = 0
    BY DEF RunsAsRecorded
  <2>1. RowOK(o) /\ runs[o] \in {0, 1} BY RowFacts
  <2>2. {"ok", "interrupted", "refused"} \subseteq Answers BY DEF Answers
  <2> QED BY <2>1, <2>2 DEF RowOK, Told
<1> QED BY <1>1, Invariant, PTL
=============================================================================
