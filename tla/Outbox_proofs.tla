--------------------------- MODULE Outbox_proofs ---------------------------
(***************************************************************************)
(* Proofs about Outbox, for any loops, rows and inputs: what was delivered *)
(* can be read, and nothing is shown twice.                                *)
(***************************************************************************)
EXTENDS Outbox, FiniteSetTheorems, SequenceTheorems, TLAPS

(* ------------------------- the inductive invariant --------------------- *)

NoRepeat(s) == \A j, k \in DOMAIN s : s[j] = s[k] => j = k

\* Where row i may come to be shown: in message m as it is, unless a refused edit left it
\* there, or as somebody remembers it.
Bears(i, m) == \/ m \in DOMAIN chat /\ i \in Range(chat[m]) /\ i \notin reposted
               \/ place.msg = m /\ i \in Range(place.text)
               \/ \E d \in Loops : seen[d].msg = m /\ i \in Range(seen[d].text)
Unseen(i) == \A m \in Nat : ~Bears(i, m)

\* The rows that loop d has to settle, and those of them that it has not shown.
Absorbed(d) == {Group(d)[k] : k \in 2 .. Len(Group(d))}
Own(d) == Range(batch[d].rest) \cup (IF pc[d] = "settle" THEN Absorbed(d) ELSE Range(Group(d)))
Yet(d) == Range(batch[d].rest) \cup
  (IF pc[d] \in {"take", "send", "post", "fail"} THEN Range(Group(d))
   ELSE IF pc[d] = "settle" /\ outcome[d] /= "delivered" THEN Absorbed(d) ELSE {})

\* A loop has a group exactly while it is at it; a burst of several is narration.
Places == \A d \in Loops :
  /\ pc[d] \in {"claim", "absent"} => batch[d] = NoBatch
  /\ pc[d] \notin {"claim", "absent"} => Group(d) /= <<>>
  /\ Len(Group(d)) > 1 => kind[Row(d)] = "note"
  /\ pc[d] = "fail" => outcome[d] \in {"transient", "permanent"}
  /\ pc[d] \in {"tidy", "clear", "markFile"} => kind[Row(d)] = "file"
  /\ pc[d] = "tidy" => seen[d].msg /= 0

\* Each row that is not posted again is at home in one message, and each once in each text.
Homes == \A i \in Rows \ reposted : \A m, n \in Nat : Bears(i, m) /\ Bears(i, n) => m = n
Clean == /\ \A m \in DOMAIN chat : NoRepeat(chat[m])
         /\ NoRepeat(place.text)
         /\ \A d \in Loops : NoRepeat(seen[d].text)

\* No two loops have the same row, nor one a row twice, and it is marked as claimed.
Sole(d) == /\ NoRepeat(Group(d)) /\ NoRepeat(batch[d].rest)
           /\ Range(Group(d)) \cap Range(batch[d].rest) = {}
Marked(d) == \A i \in Own(d) :
  status[i] = IF pc[d] = "progress" /\ i = Row(d) THEN "delivered" ELSE "claimed"
Owned == /\ \A d \in Loops : Sole(d) /\ Marked(d)
         /\ \A c, d \in Loops : c /= d => Own(c) \cap Own(d) = {}

\* A row that is not out, or that a loop has yet to send, is nowhere.
Unsent == /\ \A i \in Rows : status[i] \in {"none", "pending", "waiting"} => Unseen(i)
          /\ \A d \in Loops : \A i \in Yet(d) : Unseen(i)

\* What a loop has sent and is to note is only in the message it sent, and what it sent
\* again is counted so.
OnlyIn(d) ==
  /\ pc[d] = "post" => Range(seen[d].text) \subseteq reposted
  /\ pc[d] \in {"mark", "progress"} =>
       /\ sent[d] /= 0
       /\ Edits(d) => /\ sent[d] = seen[d].msg \/ Range(seen[d].text) \subseteq reposted
                      /\ Range(seen[d].text) \cap Range(Group(d)) = {}
       /\ \A i \in Range(Group(d)) \ reposted, m \in Nat : Bears(i, m) => m = sent[d]
  /\ pc[d] = "progress" => outcome[d] = "delivered"

OnceInv == Homes /\ Clean /\ Owned /\ Unsent /\ \A d \in Loops : OnlyIn(d)

\* A message shows row i, and who would write over it has read it there, or is the loop
\* that will note it.
Safe(i) == \E m \in DOMAIN chat :
  /\ i \in Range(chat[m])
  /\ m = place.msg => \/ i \in Range(place.text)
                      \/ \E d \in Loops : pc[d] = "progress" /\ sent[d] = m /\ i \in Range(Group(d))
  /\ \A d \in Loops : pc[d] \in {"send", "tidy"} /\ seen[d].msg = m => i \in Range(seen[d].text)

\* The message a loop has sent shows what was not cut.
AsSent == \A d \in Loops :
  /\ pc[d] \in {"mark", "progress"} =>
       /\ sent[d] \in DOMAIN chat /\ Range(Text(d)) \ cut \subseteq Range(chat[sent[d]])
       /\ Range(chat[sent[d]]) \subseteq Range(Text(d))
       /\ seen[d].msg = 0 => place.msg /= sent[d]
  /\ pc[d] \in {"tidy", "clear", "markFile"} =>
       /\ sent[d] \in DOMAIN chat /\ chat[sent[d]] = Group(d) /\ place.msg /= sent[d]
  /\ pc[d] = "tidy" => seen[d].text = <<>> /\ seen[d].msg /= sent[d] /\ seen[d].msg /= 0
  /\ pc[d] = "settle" /\ outcome[d] = "delivered" => \A i \in Range(Group(d)) \ cut : Safe(i)

LostInv == AsSent /\ \A i \in Rows \ cut : status[i] = "delivered" => Safe(i)

Alone == ~Crowded /\ met \cap {"fails", "deaths"} = {}
Calm == met \cap {"fails", "unsure"} = {}
IInv == TypeOK /\ Places /\ (Calm => OnceInv) /\ (Alone => LostInv)

(* --------------------------- texts and bursts -------------------------- *)

(* What a text that is added to shows. *)
LEMMA Concat ==
  ASSUME NEW S, NEW s \in Seq(S), NEW t \in Seq(S)
  PROVE  /\ s \o t \in Seq(S) /\ Range(s \o t) = Range(s) \cup Range(t)
         /\ NoRepeat(s) /\ NoRepeat(t) /\ Range(s) \cap Range(t) = {} => NoRepeat(s \o t)
<1> DEFINE u == s \o t
<1>1. /\ u \in Seq(S) /\ DOMAIN u = 1 .. Len(s) + Len(t) /\ Len(s) \in Nat /\ Len(t) \in Nat
      /\ DOMAIN s = 1 .. Len(s) /\ DOMAIN t = 1 .. Len(t)
  OBVIOUS
<1>2. \A k \in 1 .. Len(s) : u[k] = s[k]
  OBVIOUS
<1>3. ASSUME NEW k \in 1 .. Len(t) PROVE u[Len(s) + k] = t[k]
  <2>1. Len(s) + k \in 1 .. Len(s) + Len(t) /\ ~(Len(s) + k <= Len(s)) /\ (Len(s) + k) - Len(s) = k
    BY <1>1
  <2> QED BY <2>1, ConcatProperties
<1>4. \A k \in DOMAIN u : \/ k \in 1 .. Len(s)
                          \/ \E j \in 1 .. Len(t) : k = Len(s) + j
  <2> SUFFICES ASSUME NEW k \in DOMAIN u, k \notin 1 .. Len(s)
               PROVE  \E j \in 1 .. Len(t) : k = Len(s) + j
    OBVIOUS
  <2>1. k - Len(s) \in 1 .. Len(t) /\ k = Len(s) + (k - Len(s)) BY <1>1
  <2> QED BY <2>1
<1>5. \A k \in 1 .. Len(t) : Len(s) + k \in DOMAIN u BY <1>1
<1>6. \A k \in 1 .. Len(s) : k \in DOMAIN u BY <1>1
<1> HIDE DEF u
<1>7. Range(u) = Range(s) \cup Range(t)
  <2>1. ASSUME NEW x \in Range(u) PROVE x \in Range(s) \cup Range(t)
    <3>1. PICK k \in DOMAIN u : u[k] = x BY DEF Range
    <3>2. CASE k \in 1 .. Len(s) BY <1>1, <1>2, <3>1, <3>2 DEF Range
    <3>3. ASSUME NEW j \in 1 .. Len(t), k = Len(s) + j PROVE x \in Range(t)
      <4>1. t[j] = x /\ j \in DOMAIN t BY <1>1, <1>3, <3>1, <3>3
      <4> QED BY <4>1 DEF Range
    <3> QED BY <1>4, <3>2, <3>3
  <2>2. ASSUME NEW x \in Range(s) PROVE x \in Range(u)
    BY <1>1, <1>2, <1>6 DEF Range
  <2>3. ASSUME NEW x \in Range(t) PROVE x \in Range(u)
    <3>1. PICK k \in 1 .. Len(t) : t[k] = x BY <1>1 DEF Range
    <3>2. u[Len(s) + k] = x /\ Len(s) + k \in DOMAIN u BY <1>3, <1>5, <3>1
    <3> QED BY <3>2 DEF Range
  <2> QED BY <2>1, <2>2, <2>3
<1>8. ASSUME NoRepeat(s), NoRepeat(t), Range(s) \cap Range(t) = {} PROVE NoRepeat(u)
  <2>1. \A j \in 1 .. Len(s), k \in 1 .. Len(t) : s[j] /= t[k] BY <1>1, <1>8 DEF Range
  <2>2. ASSUME NEW j \in DOMAIN u, NEW k \in DOMAIN u, u[j] = u[k] PROVE j = k
    <3>1. CASE j \in 1 .. Len(s) /\ k \in 1 .. Len(s)
      BY <1>1, <1>2, <1>8, <2>2, <3>1 DEF NoRepeat
    <3>2. CASE j \in 1 .. Len(s) /\ \E l \in 1 .. Len(t) : k = Len(s) + l
      BY <1>2, <1>3, <2>1, <2>2, <3>2
    <3>3. CASE k \in 1 .. Len(s) /\ \E l \in 1 .. Len(t) : j = Len(s) + l
      BY <1>2, <1>3, <2>1, <2>2, <3>3
    <3>4. ASSUME NEW a \in 1 .. Len(t), NEW b \in 1 .. Len(t), j = Len(s) + a, k = Len(s) + b
          PROVE  j = k
      BY <1>1, <1>3, <1>8, <2>2, <3>4 DEF NoRepeat
    <3> QED BY <1>4, <3>1, <3>2, <3>3, <3>4
  <2> QED BY <2>2 DEF NoRepeat
<1> QED BY <1>1, <1>7, <1>8 DEF u

(* What the start and the rest of a sequence hold. *)
LEMMA Split ==
  ASSUME NEW S, NEW s \in Seq(S), NEW k \in 1 .. Len(s)
  PROVE  LET a == SubSeq(s, 1, k)  b == SubSeq(s, k + 1, Len(s))
         IN /\ a \in Seq(S) /\ b \in Seq(S) /\ Len(a) = k /\ a[1] = s[1]
            /\ Range(a) \cup Range(b) \subseteq Range(s)
            /\ NoRepeat(s) => NoRepeat(a) /\ NoRepeat(b) /\ Range(a) \cap Range(b) = {}
<1> DEFINE a == SubSeq(s, 1, k)
           b == SubSeq(s, k + 1, Len(s))
<1>1. k \in Nat /\ Len(s) \in Nat /\ k >= 1 /\ k <= Len(s) /\ DOMAIN s = 1 .. Len(s) OBVIOUS
<1>2. a \in Seq(S) /\ Len(a) = k /\ DOMAIN a = 1 .. k /\ \A j \in 1 .. k : a[j] = s[j]
  <2>1. \A j \in 1 .. k : s[j] \in S BY <1>1
  <2>2. a = [j \in 1 .. k |-> s[j]] BY <1>1
  <2> QED BY <1>1, <2>1, <2>2
<1>3. /\ b \in Seq(S) /\ Len(b) = Len(s) - k /\ DOMAIN b = 1 .. Len(s) - k
      /\ \A j \in 1 .. Len(s) - k : b[j] = s[k + j]
  <2> DEFINE n == Len(s) - k
  <2>0. n \in Nat /\ n = Len(s) - k BY <1>1
  <2>1. \A j \in 1 .. n : s[k + j] \in S BY <1>1
  <2>2. b = [j \in 1 .. n |-> s[k + j]] BY <1>1
  <2> HIDE DEF b, n
  <2>3. b \in Seq(S) /\ Len(b) = n /\ DOMAIN b = 1 .. n /\ \A j \in 1 .. n : b[j] = s[k + j]
    BY <2>0, <2>1, <2>2
  <2> QED BY <2>0, <2>3
<1>4. /\ \A j \in DOMAIN a : j \in DOMAIN s /\ j <= k
      /\ \A j \in DOMAIN b : j \in Nat /\ k + j \in DOMAIN s /\ ~(k + j <= k)
  <2> HIDE DEF a, b
  <2> QED BY <1>1, <1>2, <1>3
<1> HIDE DEF a, b
<1>5. Range(a) \cup Range(b) \subseteq Range(s) BY <1>2, <1>3, <1>4 DEF Range
<1>6. ASSUME NoRepeat(s) PROVE NoRepeat(a) /\ NoRepeat(b) /\ Range(a) \cap Range(b) = {}
  <2>1. NoRepeat(a) BY <1>2, <1>4, <1>6 DEF NoRepeat
  <2>2. \A i, j \in DOMAIN b : k + i = k + j => i = j BY <1>1, <1>4
  <2>3. NoRepeat(b) BY <1>3, <1>4, <1>6, <2>2 DEF NoRepeat
  <2>4. \A i \in DOMAIN a, j \in DOMAIN b : a[i] /= b[j]
    BY <1>2, <1>3, <1>4, <1>6 DEF NoRepeat
  <2> QED BY <2>1, <2>3, <2>4 DEF Range
<1>7. a[1] = s[1] BY <1>1, <1>2
<1> QED BY <1>2, <1>3, <1>5, <1>6, <1>7 DEF a, b

(* A burst and what comes after it. *)
LEMMA BurstOf ==
  ASSUME NEW S, NEW rows \in Seq(S), NEW b \in Bursts(rows)
  PROVE  /\ b \in [group : Seq(S), rest : Seq(S)]
         /\ Range(b.group) \cup Range(b.rest) \subseteq Range(rows)
         /\ NoRepeat(rows) => /\ NoRepeat(b.group) /\ NoRepeat(b.rest)
                              /\ Range(b.group) \cap Range(b.rest) = {}
         /\ rows = <<>> => b = NoBatch
         /\ rows /= <<>> => b.group /= <<>>
         /\ Len(b.group) > 1 => kind[Head(b.group)] = "note"
<1>1. CASE rows = <<>>
  <2>1. b = NoBatch BY <1>1 DEF Bursts
  <2>2. b.group = <<>> /\ b.rest = <<>> /\ b = [group |-> <<>>, rest |-> <<>>] BY <2>1 DEF NoBatch
  <2>3. Range(<<>>) = {} /\ NoRepeat(<<>>) /\ <<>> \in Seq(S) /\ ~(Len(<<>>) > 1)
    BY DEF Range, NoRepeat
  <2> QED BY <1>1, <2>1, <2>2, <2>3
<1>2. CASE rows /= <<>>
  <2>1. PICK k \in 1 .. Len(rows) :
          /\ OneBurst(rows, k)
          /\ b = [group |-> SubSeq(rows, 1, k), rest |-> SubSeq(rows, k + 1, Len(rows))]
    BY <1>2 DEF Bursts
  <2>2. b.group = SubSeq(rows, 1, k) /\ b.rest = SubSeq(rows, k + 1, Len(rows)) BY <2>1
  <2>3. /\ b.group \in Seq(S) /\ b.rest \in Seq(S) /\ Len(b.group) = k /\ b.group[1] = rows[1]
        /\ Range(b.group) \cup Range(b.rest) \subseteq Range(rows)
        /\ NoRepeat(rows) => /\ NoRepeat(b.group) /\ NoRepeat(b.rest)
                             /\ Range(b.group) \cap Range(b.rest) = {}
    BY <2>2, Split
  <2>4. b.group /= <<>> /\ Head(b.group) = rows[1] BY <2>3
  <2>5. k > 1 => kind[rows[1]] = "note" BY <2>1 DEF OneBurst
  <2>6. b \in [group : Seq(S), rest : Seq(S)] BY <2>1, <2>2, <2>3
  <2> QED BY <1>2, <2>3, <2>4, <2>5, <2>6
<1> QED BY <1>1, <1>2

(* The rows of a claim, in order. *)
LEMMA IdOrder ==
  ASSUME TypeOK, NEW S \in SUBSET Rows, NEW rows \in InIdOrder(S)
  PROVE  rows \in Seq(Rows) /\ Range(rows) \subseteq S /\ NoRepeat(rows)
           /\ (S /= {} => rows /= <<>>)
<1>1. Rows = 1 .. Len(kind) /\ Len(kind) \in Nat BY DEF TypeOK, Rows
<1>2. IsFiniteSet(S)
  <2>1. IsFiniteSet(1 .. Len(kind)) BY <1>1, FS_Interval
  <2> QED BY <1>1, <2>1, FS_Subset
<1>3. Cardinality(S) \in Nat /\ (Cardinality(S) = 0 <=> S = {})
  BY <1>2, FS_CardinalityType, FS_EmptySet
<1>4. /\ rows \in [1 .. Cardinality(S) -> S]
      /\ \A j, k \in DOMAIN rows : j < k => rows[j] < rows[k]
  BY DEF InIdOrder
<1>5. rows \in Seq(Rows) /\ DOMAIN rows = 1 .. Cardinality(S) /\ Len(rows) = Cardinality(S)
  BY <1>3, <1>4
<1>6. \A j \in DOMAIN rows : rows[j] \in S /\ rows[j] \in Nat /\ j \in Nat BY <1>1, <1>4, <1>5
<1>7. NoRepeat(rows)
  <2> SUFFICES ASSUME NEW j \in DOMAIN rows, NEW k \in DOMAIN rows, rows[j] = rows[k], j /= k
               PROVE  FALSE
    BY DEF NoRepeat
  <2>1. j < k \/ k < j BY <1>6
  <2>2. rows[j] < rows[k] \/ rows[k] < rows[j] BY <1>4, <2>1
  <2> QED BY <1>6, <2>2
<1>8. S /= {} => rows /= <<>> BY <1>3, <1>5
<1> QED BY <1>5, <1>6, <1>7, <1>8 DEF Range

(* -------------------------------- the types ---------------------------- *)

Texts == Seq(Rows)
Marks(n) == [msg : 0 .. n, text : Texts]

(* A message edited, and one posted. *)
LEMMA Edited ==
  ASSUME NEW S, NEW s \in Seq(S), NEW m, NEW v \in S
  PROVE  /\ [s EXCEPT ![m] = v] \in Seq(S) /\ Len([s EXCEPT ![m] = v]) = Len(s)
         /\ DOMAIN [s EXCEPT ![m] = v] = DOMAIN s
         /\ \A k \in DOMAIN s : [s EXCEPT ![m] = v][k] = IF k = m THEN v ELSE s[k]
<1> DEFINE t == [s EXCEPT ![m] = v]
<1>1. DOMAIN s = 1 .. Len(s) /\ Len(s) \in Nat /\ \A k \in 1 .. Len(s) : s[k] \in S OBVIOUS
<1>2. DOMAIN t = DOMAIN s /\ \A k \in DOMAIN s : t[k] = IF k = m THEN v ELSE s[k] OBVIOUS
<1>3. t = [k \in 1 .. Len(s) |-> IF k = m THEN v ELSE s[k]] BY <1>1
<1> HIDE DEF t
<1>4. t \in Seq(S) /\ Len(t) = Len(s) BY <1>1, <1>2, <1>3
<1> QED BY <1>2, <1>4 DEF t

LEMMA Posted ==
  ASSUME NEW S, NEW s \in Seq(S), NEW v \in S
  PROVE  /\ Append(s, v) \in Seq(S) /\ Len(Append(s, v)) = Len(s) + 1
         /\ DOMAIN Append(s, v) = DOMAIN s \cup {Len(s) + 1} /\ Len(s) + 1 \notin DOMAIN s
         /\ Append(s, v)[Len(s) + 1] = v /\ \A k \in DOMAIN s : Append(s, v)[k] = s[k]
<1> DEFINE t == Append(s, v)
<1>1. /\ t \in Seq(S) /\ Len(t) = Len(s) + 1 /\ t[Len(s) + 1] = v
      /\ \A k \in 1 .. Len(s) : t[k] = s[k]
  BY AppendProperties
<1>2. DOMAIN s = 1 .. Len(s) /\ DOMAIN t = 1 .. Len(t) /\ Len(s) \in Nat BY <1>1
<1> HIDE DEF t
<1>3. DOMAIN t = DOMAIN s \cup {Len(s) + 1} /\ Len(s) + 1 \notin DOMAIN s BY <1>1, <1>2
<1> QED BY <1>1, <1>2, <1>3 DEF t

(* What a loop holds and is about to show. *)
LEMMA LoopTypes ==
  ASSUME TypeOK, Places, NEW d \in Loops
  PROVE  /\ Group(d) \in Texts /\ batch[d].rest \in Texts /\ Text(d) \in Texts
         /\ pc[d] \notin {"claim", "absent"} => Row(d) \in Rows /\ Row(d) \in Range(Group(d))
         /\ Range(Group(d)) \subseteq Rows
         /\ seen[d] \in Marks(Len(chat)) /\ seen[d].text \in Texts /\ seen[d].msg \in 0 .. Len(chat)
         /\ pc[d] \in PCs /\ sent[d] \in 0 .. Len(chat) /\ Len(chat) \in Nat
         /\ DOMAIN chat = 1 .. Len(chat)
<1>1. /\ Group(d) \in Texts /\ batch[d].rest \in Texts /\ seen[d] \in Marks(Len(chat))
      /\ pc[d] \in PCs /\ sent[d] \in 0 .. Len(chat) /\ Len(chat) \in Nat
      /\ DOMAIN chat = 1 .. Len(chat)
  BY DEF TypeOK, Group, Texts, Marks
<1>2. seen[d].text \in Texts /\ seen[d].msg \in 0 .. Len(chat) BY <1>1 DEF Marks
<1>3. seen[d].text \o Group(d) \in Texts BY <1>1, <1>2, Concat DEF Texts
<1>4. Text(d) \in Texts BY <1>1, <1>3 DEF Text
<1>5. Range(Group(d)) \subseteq Rows BY <1>1 DEF Range, Texts
<1>6. ASSUME pc[d] \notin {"claim", "absent"} PROVE Row(d) \in Rows /\ Row(d) \in Range(Group(d))
  <2>1. Group(d) /= <<>> BY <1>6 DEF Places
  <2>2. 1 \in DOMAIN Group(d) /\ Row(d) = Group(d)[1] BY <1>1, <2>1 DEF Texts, Row
  <2> QED BY <1>5, <2>2 DEF Range
<1> QED BY <1>1, <1>2, <1>4, <1>5, <1>6

(* The text a loop shows, and what is in it. *)
LEMMA TextHas ==
  ASSUME TypeOK, Places, NEW d \in Loops
  PROVE  /\ Range(Group(d)) \subseteq Range(Text(d))
         /\ Edits(d) => /\ Range(seen[d].text) \subseteq Range(Text(d))
                        /\ seen[d].msg \in DOMAIN chat
<1>1. /\ seen[d].text \in Texts /\ Group(d) \in Texts /\ seen[d].msg \in 0 .. Len(chat)
      /\ DOMAIN chat = 1 .. Len(chat) /\ Len(chat) \in Nat
  BY LoopTypes
<1>2. Range(seen[d].text \o Group(d)) = Range(seen[d].text) \cup Range(Group(d))
  BY <1>1, Concat DEF Texts
<1>3. Edits(d) => seen[d].msg \in DOMAIN chat BY <1>1 DEF Edits
<1> QED BY <1>2, <1>3 DEF Text

(* A part of the text a loop shows. *)
LEMMA PartsOf ==
  ASSUME TypeOK, Places, NEW d \in Loops, pc[d] \notin {"claim", "absent"}, NEW text \in Parts(d)
  PROVE  /\ text \in Texts /\ Range(text) \subseteq Range(Text(d))
         /\ NoRepeat(Text(d)) => NoRepeat(text)
         /\ Edits(d) => Range(seen[d].text) \subseteq Range(text)
<1>1. Text(d) \in Texts /\ seen[d].text \in Texts /\ Group(d) \in Texts BY LoopTypes
<1>2. Range(<<>>) = {} /\ NoRepeat(<<>>) /\ <<>> \in Texts BY DEF Range, NoRepeat, Texts
<1>3. Edits(d) => Range(seen[d].text) \subseteq Range(Text(d)) BY TextHas
<1>4. CASE text = Text(d) BY <1>1, <1>3, <1>4
<1>5. CASE text = <<>> /\ kind[Row(d)] = "answer"
  <2>1. Edits(d) => seen[d].text = <<>> BY <1>5 DEF Edits
  <2> QED BY <1>2, <1>5, <2>1
<1>6. ASSUME NEW n \in MaxText .. Len(Text(d)), text = SubSeq(Text(d), 1, n), text /= Text(d)
      PROVE  /\ text \in Texts /\ Range(text) \subseteq Range(Text(d))
             /\ NoRepeat(Text(d)) => NoRepeat(text)
             /\ Edits(d) => Range(seen[d].text) \subseteq Range(text)
  <2>1. n \in 1 .. Len(Text(d)) /\ MaxText \in Nat /\ Len(Text(d)) \in Nat
    BY <1>1, <1>6, TextAssumption DEF Texts
  <2>2. text \in Texts /\ Range(text) \subseteq Range(Text(d)) /\ (NoRepeat(Text(d)) => NoRepeat(text))
    BY <1>1, <1>6, <2>1, Split DEF Texts
  <2>3. n /= Len(Text(d))
    <3>1. SubSeq(Text(d), 1, Len(Text(d))) = Text(d) BY <1>1 DEF Texts
    <3> QED BY <1>6, <3>1
  <2>4. Len(Text(d)) > MaxText BY <2>1, <2>3
  <2>5. Edits(d) => Len(Text(d)) = Len(seen[d].text) + Len(Group(d)) BY <1>1 DEF Text, Texts
  <2>6. Edits(d) => seen[d].text = <<>> BY <2>1, <2>4, <2>5 DEF Edits
  <2> QED BY <1>2, <2>2, <2>6
<1> QED BY <1>4, <1>5, <1>6 DEF Parts

(* The rows are given, and how each went has its type. *)
LEMMA RowTypes ==
  ASSUME TypeOK, Next
  PROVE  /\ kind' = kind /\ Rows' = Rows
         /\ status' \in [Rows -> Statuses] /\ old' \in [Rows -> BOOLEAN] /\ asking' \in BOOLEAN
<1>1. kind' = kind
  BY DEF Next, Deliver, Claim, Take, Send, EditRefused, Upload, Tidy, ClearPlaceholder,
         MarkDelivered, Progress, RecordFailure, Settle,
         Refused, SendUnsure, MarkRaises, Dies, Enqueue, BackedOff, Ages, Ask, PostPlaceholder, Lapse
<1>2. status' = status \/ \E rs, s : s \in Statuses /\ status' = Set(rs, s)
  <2>1. ASSUME NEW d \in Loops, Deliver(d) \/ SendUnsure(d) \/ MarkRaises(d) \/ Dies(d)
        PROVE  status' = status \/ \E rs, s : s \in Statuses /\ status' = Set(rs, s)
    <3>1. CASE Take(d) \/ Send(d) \/ EditRefused(d) \/ Upload(d) \/ Tidy(d) \/ ClearPlaceholder(d)
               \/ Progress(d) \/ SendUnsure(d) \/ MarkRaises(d) \/ Dies(d)
               \/ Refused(d, "transient") \/ Refused(d, "permanent")
      BY <3>1 DEF Take, Send, EditRefused, Upload, Tidy, ClearPlaceholder, Progress, SendUnsure,
                  MarkRaises, Dies, Refused
    <3>2. CASE Claim(d) BY <3>2 DEF Claim, Statuses
    <3>3. CASE MarkDelivered(d) BY <3>3 DEF MarkDelivered, Statuses
    <3>4. CASE RecordFailure(d)
      <4>1. PICK s \in {"failed", "waiting"} : status' = Set({Row(d)}, s) \/ status' = status
        BY <3>4 DEF RecordFailure
      <4>2. s \in Statuses BY DEF Statuses
      <4> QED BY <4>1, <4>2
    <3>5. CASE Settle(d)
      <4>1. PICK s \in {"delivered", "waiting"} : status' = Set(Absorbed(d), s) \/ status' = status
        BY <3>5 DEF Settle, Absorbed
      <4>2. s \in Statuses BY DEF Statuses
      <4> QED BY <4>1, <4>2
    <3> QED BY <2>1, <3>1, <3>2, <3>3, <3>4, <3>5 DEF Deliver
  <2>2. ASSUME NEW i \in Rows, Enqueue(i) \/ BackedOff(i) \/ Ages(i)
        PROVE  status' = status \/ \E rs, s : s \in Statuses /\ status' = Set(rs, s)
    BY <2>2 DEF Enqueue, BackedOff, Ages, Statuses
  <2>3. CASE Ask \/ PostPlaceholder \/ Lapse BY <2>3 DEF Ask, PostPlaceholder, Lapse
  <2> QED BY <2>1, <2>2, <2>3 DEF Next
<1>3. status' \in [Rows -> Statuses]
  <2>1. ASSUME NEW rs, NEW s \in Statuses PROVE Set(rs, s) \in [Rows -> Statuses]
    BY DEF Set, TypeOK
  <2> QED BY <1>2, <2>1 DEF TypeOK
<1>4. old' \in [Rows -> BOOLEAN] /\ asking' \in BOOLEAN
  <2>1. ASSUME NEW d \in Loops, Deliver(d) \/ SendUnsure(d) \/ MarkRaises(d) \/ Dies(d)
        PROVE  old' = old /\ asking' = asking
    BY <2>1 DEF Deliver, Claim, Take, Send, EditRefused, Upload, Tidy, ClearPlaceholder,
         MarkDelivered, Progress, RecordFailure, Settle,
                Refused, SendUnsure, MarkRaises, Dies
  <2>2. ASSUME NEW i \in Rows, Enqueue(i) \/ BackedOff(i) \/ Ages(i)
        PROVE  asking' = asking /\ (old' = old \/ old' = [old EXCEPT ![i] = TRUE])
    BY <2>2 DEF Enqueue, BackedOff, Ages
  <2>3. CASE Ask BY <2>3, Zenon DEF Ask, TypeOK
  <2>4. CASE PostPlaceholder \/ Lapse BY <2>4 DEF PostPlaceholder, Lapse, TypeOK
  <2> QED BY <2>1, <2>2, <2>3, <2>4 DEF Next, TypeOK
<1> QED BY <1>1, <1>3, <1>4 DEF Rows

(* What happens to the inputs. *)
LEMMA InputTypes ==
  ASSUME TypeOK, Next
  PROVE  met' \subseteq Inputs /\ left' \in [Inputs -> Nat] /\ met \subseteq met'
<1>1. UNCHANGED input \/ \E i \in Inputs : Use(i)
  <2>1. ASSUME NEW d \in Loops, Deliver(d) \/ SendUnsure(d) \/ MarkRaises(d) \/ Dies(d)
        PROVE  UNCHANGED input \/ \E i \in Inputs : Use(i)
    BY <2>1 DEF Deliver, Claim, Take, Send, EditRefused, Upload, Tidy, ClearPlaceholder,
         MarkDelivered, Progress, RecordFailure, Settle,
                Refused, SendUnsure, MarkRaises, Dies, Inputs
  <2>2. CASE \/ \E i \in Rows : Enqueue(i) \/ BackedOff(i) \/ Ages(i)
             \/ Ask \/ PostPlaceholder \/ Lapse
    BY <2>2 DEF Enqueue, BackedOff, Ages, Ask, PostPlaceholder, Lapse, Inputs
  <2> QED BY <2>1, <2>2 DEF Next
<1>2. CASE UNCHANGED input BY <1>2 DEF input, TypeOK
<1>3. ASSUME NEW i \in Inputs, Use(i)
      PROVE  met' \subseteq Inputs /\ left' \in [Inputs -> Nat] /\ met \subseteq met'
  BY <1>3 DEF Use, TypeOK
<1> QED BY <1>1, <1>2, <1>3

Step(d) == Deliver(d) \/ SendUnsure(d) \/ MarkRaises(d) \/ Dies(d)
Outside == (\E i \in Rows : Enqueue(i) \/ BackedOff(i) \/ Ages(i)) \/ Ask \/ PostPlaceholder \/ Lapse

(* The messages keep their type and their numbers. *)
LEMMA ChatTypes ==
  ASSUME TypeOK, Places, Next
  PROVE  /\ chat' \in Seq(Texts) /\ Len(chat') \in Nat /\ Len(chat) \in Nat
         /\ Len(chat) <= Len(chat') /\ place' \in Marks(Len(chat'))
<1>1. chat \in Seq(Texts) /\ <<>> \in Texts /\ Len(chat) \in Nat /\ place \in Marks(Len(chat))
  BY DEF TypeOK, Texts, Marks
<1>2. NoPlace \in Marks(Len(chat)) BY <1>1 DEF NoPlace, Marks
<1>3. ASSUME UNCHANGED chat, place' \in Marks(Len(chat))
      PROVE  /\ chat' \in Seq(Texts) /\ Len(chat') \in Nat /\ Len(chat) \in Nat
             /\ Len(chat) <= Len(chat') /\ place' \in Marks(Len(chat'))
  BY <1>1, <1>3
<1>4. ASSUME NEW m, NEW v \in Texts, chat' = [chat EXCEPT ![m] = v], place' \in Marks(Len(chat))
      PROVE  /\ chat' \in Seq(Texts) /\ Len(chat') \in Nat /\ Len(chat) \in Nat
             /\ Len(chat) <= Len(chat') /\ place' \in Marks(Len(chat'))
  BY <1>1, <1>4, Edited
<1>5. ASSUME NEW v \in Texts, chat' = Append(chat, v), place' \in Marks(Len(chat) + 1)
      PROVE  /\ chat' \in Seq(Texts) /\ Len(chat') \in Nat /\ Len(chat) \in Nat
             /\ Len(chat) <= Len(chat') /\ place' \in Marks(Len(chat'))
  <2>1. chat' \in Seq(Texts) /\ Len(chat') = Len(chat) + 1 BY <1>1, <1>5, Posted
  <2> QED BY <1>1, <1>5, <2>1
<1>6. place \in Marks(Len(chat) + 1) BY <1>1 DEF Marks
<1>7. ASSUME NEW d \in Loops, Step(d)
      PROVE  /\ chat' \in Seq(Texts) /\ Len(chat') \in Nat /\ Len(chat) \in Nat
             /\ Len(chat) <= Len(chat') /\ place' \in Marks(Len(chat'))
  <2>0. Group(d) \in Texts /\ Text(d) \in Texts BY LoopTypes
  <2>1. CASE \/ Claim(d) \/ Take(d) \/ MarkDelivered(d) \/ RecordFailure(d) \/ Settle(d) \/ MarkRaises(d)
             \/ Dies(d) \/ Refused(d, "transient") \/ Refused(d, "permanent")
    <3>1. UNCHANGED <<chat, place>>
      BY <2>1 DEF Claim, Take, MarkDelivered, RecordFailure, Settle, MarkRaises, Dies, Refused
    <3> QED BY <1>1, <1>3, <3>1
  <2>2. CASE Send(d) \/ SendUnsure(d)
    <3>1. PICK text \in Parts(d) :
            /\ place' = place
            /\ chat' = [chat EXCEPT ![seen[d].msg] = text] \/ chat' = Append(chat, text)
      BY <2>2 DEF Send, SendUnsure, Arrives
    <3>2. text \in Texts BY <2>2, PartsOf DEF Send, SendUnsure
    <3> QED BY <1>1, <1>4, <1>5, <1>6, <3>1, <3>2
  <2>3. CASE Upload(d)
    <3>1. place' = place /\ chat' = Append(chat, Group(d)) BY <2>3 DEF Upload
    <3> QED BY <1>5, <1>6, <2>0, <3>1
  <2>4. CASE Tidy(d)
    <3>1. place' = place /\ (chat' = chat \/ chat' = [chat EXCEPT ![seen[d].msg] = <<>>])
      BY <2>4 DEF Tidy
    <3> QED BY <1>1, <1>3, <1>4, <3>1
  <2>5. CASE Progress(d)
    <3>1. chat' = chat /\ place' \in {place, NoPlace, [msg |-> sent[d], text |-> Text(d)]}
      BY <2>5 DEF Progress, ProgressOf
    <3>2. [msg |-> sent[d], text |-> Text(d)] \in Marks(Len(chat)) BY LoopTypes DEF Marks
    <3> QED BY <1>1, <1>2, <1>3, <3>1, <3>2
  <2>6. CASE ClearPlaceholder(d)
    <3>1. chat' = chat /\ place' \in {place, NoPlace} BY <2>6 DEF ClearPlaceholder
    <3> QED BY <1>1, <1>2, <1>3, <3>1
  <2>7. CASE EditRefused(d)
    <3>1. /\ place' = place
          /\ chat' = chat \/ \E text \in Parts(d) : chat' = [chat EXCEPT ![seen[d].msg] = text]
      BY <2>7 DEF EditRefused
    <3>2. \A text \in Parts(d) : text \in Texts BY <2>7, PartsOf DEF EditRefused
    <3> QED BY <1>1, <1>3, <1>4, <3>1, <3>2
  <2> QED BY <1>7, <2>1, <2>2, <2>3, <2>4, <2>5, <2>6, <2>7 DEF Step, Deliver
<1>8. CASE PostPlaceholder
  <2>1. chat' = Append(chat, <<>>) /\ place' = [msg |-> Len(chat) + 1, text |-> <<>>]
    BY <1>8 DEF PostPlaceholder
  <2>2. place' \in Marks(Len(chat) + 1) BY <1>1, <2>1 DEF Marks
  <2> QED BY <1>1, <1>5, <2>1, <2>2
<1>9. CASE Lapse \/ Ask \/ \E i \in Rows : Enqueue(i) \/ BackedOff(i) \/ Ages(i)
  <2>1. chat' = chat /\ place' \in {place, NoPlace} BY <1>9 DEF Lapse, Ask, Enqueue, BackedOff, Ages
  <2> QED BY <1>1, <1>2, <1>3, <2>1
<1> QED BY <1>7, <1>8, <1>9 DEF Next, Step

(* What is told of the messages keeps its type, and is never forgotten. *)
LEMMA Trails ==
  ASSUME TypeOK, Places, Next
  PROVE  /\ gone' \subseteq 1 .. Len(chat') /\ cut' \subseteq Rows /\ reposted' \subseteq Rows
         /\ cut \subseteq cut' /\ reposted \subseteq reposted'
<1>1. /\ gone \subseteq 1 .. Len(chat) /\ cut \subseteq Rows /\ reposted \subseteq Rows
      /\ Len(chat) \in Nat /\ Len(chat') \in Nat /\ Len(chat) <= Len(chat')
  BY ChatTypes DEF TypeOK
<1>2. 1 .. Len(chat) \subseteq 1 .. Len(chat') BY <1>1
<1>3. ASSUME NEW d \in Loops, Step(d)
      PROVE  /\ gone' \subseteq 1 .. Len(chat') /\ cut' \subseteq Rows /\ reposted' \subseteq Rows
             /\ cut \subseteq cut' /\ reposted \subseteq reposted'
  <2>1. Range(Text(d)) \subseteq Rows /\ Range(seen[d].text) \subseteq Rows
    BY LoopTypes DEF Texts, Range
  <2>2. CASE Send(d)
    <3>1. UNCHANGED <<gone, reposted>> /\ cut \subseteq cut' /\ cut' \subseteq cut \cup Range(Text(d))
      BY <2>2 DEF Send
    <3> QED BY <1>1, <1>2, <2>1, <3>1
  <2>3. CASE EditRefused(d)
    <3>1. /\ UNCHANGED <<gone, cut>> /\ reposted \subseteq reposted'
          /\ reposted' \subseteq reposted \cup Range(Text(d)) \cup Range(seen[d].text)
      BY <2>3 DEF EditRefused
    <3> QED BY <1>1, <1>2, <2>1, <3>1
  <2>4. CASE Tidy(d)
    <3>1. UNCHANGED <<cut, reposted>> /\ (gone' = gone \/ gone' = gone \cup {seen[d].msg})
      BY <2>4 DEF Tidy
    <3>2. seen[d].msg \in 1 .. Len(chat) BY <2>4, LoopTypes DEF Tidy, Places
    <3> QED BY <1>1, <1>2, <3>1, <3>2
  <2>5. CASE ~Send(d) /\ ~EditRefused(d) /\ ~Tidy(d)
    <3>1. UNCHANGED <<gone, cut, reposted>>
      BY <1>3, <2>5 DEF Step, Deliver, Claim, Take, Upload, ClearPlaceholder, MarkDelivered, Progress,
                        RecordFailure, Settle, Refused, SendUnsure, MarkRaises, Dies, trail
    <3> QED BY <1>1, <1>2, <3>1
  <2> QED BY <2>2, <2>3, <2>4, <2>5
<1>4. CASE Outside
  <2>1. UNCHANGED <<gone, cut, reposted>>
    BY <1>4 DEF Outside, Enqueue, BackedOff, Ages, Ask, PostPlaceholder, Lapse, trail
  <2> QED BY <1>1, <1>2, <2>1
<1> QED BY <1>3, <1>4 DEF Next, Step, Outside

(* A loop's step is its own. *)
LEMMA OthersStay ==
  ASSUME TypeOK, NEW d \in Loops, Step(d)
  PROVE  /\ \A e \in Loops : e /= d =>
              /\ pc'[e] = pc[e] /\ batch'[e] = batch[e] /\ seen'[e] = seen[e] /\ sent'[e] = sent[e]
              /\ outcome'[e] = outcome[e]
         /\ pc' = [e \in Loops |-> pc'[e]] /\ batch' = [e \in Loops |-> batch'[e]]
         /\ seen' = [e \in Loops |-> seen'[e]] /\ sent' = [e \in Loops |-> sent'[e]]
         /\ outcome' = [e \in Loops |-> outcome'[e]]
<1> DEFINE At(f) == f' = f \/ \E v : f' = [f EXCEPT ![d] = v]
<1>1. At(pc)
  BY DEF Step, Deliver, Claim, Take, Send, EditRefused, Upload, Tidy, ClearPlaceholder,
         MarkDelivered, Progress, RecordFailure, Settle,
         Refused, SendUnsure, MarkRaises, Dies, Goto
<1>2. At(batch)
  BY DEF Step, Deliver, Claim, Take, Send, EditRefused, Upload, Tidy, ClearPlaceholder,
         MarkDelivered, Progress, RecordFailure, Settle,
         Refused, SendUnsure, MarkRaises, Dies
<1>3. At(seen) /\ At(outcome)
  BY DEF Step, Deliver, Claim, Take, Send, EditRefused, Upload, Tidy, ClearPlaceholder,
         MarkDelivered, Progress, RecordFailure, Settle,
         Refused, SendUnsure, MarkRaises, Dies
<1>4. At(sent)
  BY DEF Step, Deliver, Claim, Take, Send, EditRefused, Upload, Tidy, ClearPlaceholder,
         MarkDelivered, Progress, RecordFailure, Settle,
         Refused, SendUnsure, MarkRaises, Dies, Arrives
<1>5. \A f \in {pc, outcome, sent, seen, batch} : f = [e \in Loops |-> f[e]]
  BY DEF TypeOK
<1>6. ASSUME NEW f, NEW g, f = [e \in Loops |-> f[e]], g = f \/ \E v : g = [f EXCEPT ![d] = v]
      PROVE  g = [e \in Loops |-> g[e]] /\ \A e \in Loops : e /= d => g[e] = f[e]
  BY <1>6
<1> HIDE DEF At
<1>7. pc' = [e \in Loops |-> pc'[e]] /\ \A e \in Loops : e /= d => pc'[e] = pc[e]
  BY <1>1, <1>5, <1>6 DEF At
<1>8. batch' = [e \in Loops |-> batch'[e]] /\ \A e \in Loops : e /= d => batch'[e] = batch[e]
  BY <1>2, <1>5, <1>6 DEF At
<1>9. seen' = [e \in Loops |-> seen'[e]] /\ \A e \in Loops : e /= d => seen'[e] = seen[e]
  BY <1>3, <1>5, <1>6 DEF At
<1>10. outcome' = [e \in Loops |-> outcome'[e]] /\ \A e \in Loops : e /= d => outcome'[e] = outcome[e]
  BY <1>3, <1>5, <1>6 DEF At
<1>11. sent' = [e \in Loops |-> sent'[e]] /\ \A e \in Loops : e /= d => sent'[e] = sent[e]
  BY <1>4, <1>5, <1>6 DEF At
<1> QED BY <1>7, <1>8, <1>9, <1>10, <1>11

(* Nobody else moves a loop. *)
LEMMA LoopsStay ==
  ASSUME Outside
  PROVE  UNCHANGED <<pc, batch, seen, sent, outcome, gone, cut, reposted>>
BY DEF Outside, Enqueue, BackedOff, Ages, Ask, PostPlaceholder, Lapse, loop, trail

(* What each step of a loop does to it. *)
LEMMA Moves ==
  ASSUME TypeOK, NEW d \in Loops
  PROVE  /\ Claim(d) => /\ pc[d] = "claim" /\ pc'[d] = "take" /\ Claimable /= {}
                        /\ status' = Set(Claimable, "claimed")
                        /\ \E rows \in InIdOrder(Claimable) : batch'[d] \in Bursts(rows)
                        /\ UNCHANGED <<chat, place, seen, sent, outcome, met>>
         /\ Take(d) => /\ pc[d] = "take" /\ pc'[d] = "send" /\ seen'[d] = place
                       /\ UNCHANGED <<status, chat, place, batch, sent, outcome, met>>
         /\ Send(d) => /\ pc[d] \in {"send", "post"} /\ pc'[d] = "mark"
                       /\ \E text \in Parts(d) : /\ Arrives(d, text)
                                                 /\ cut' = cut \cup (Range(Text(d)) \ Range(text))
                       /\ UNCHANGED <<status, place, batch, seen, outcome, reposted, met>>
         /\ SendUnsure(d) => /\ pc[d] \in {"send", "post"} /\ pc'[d] = "fail" /\ "unsure" \in met'
                             /\ ~Editing(d) /\ \E text \in Parts(d) : Arrives(d, text)
                             /\ outcome'[d] = "transient"
                             /\ UNCHANGED <<status, place, batch, seen, cut, reposted>>
         /\ EditRefused(d) => /\ pc[d] = "send" /\ pc'[d] = "post" /\ Edits(d)
                              /\ \/ chat' = chat /\ reposted' = reposted \cup Range(seen[d].text)
                                 \/ /\ reposted' = reposted \cup Range(Text(d))
                                    /\ \E text \in Parts(d) : chat' = [chat EXCEPT ![seen[d].msg] = text]
                              /\ UNCHANGED <<status, place, batch, seen, sent, outcome, cut, met>>
         /\ \A how \in {"transient", "permanent"} : Refused(d, how) =>
              /\ pc[d] \in {"take", "send", "post"} /\ pc'[d] = "fail" /\ outcome'[d] = how
              /\ UNCHANGED <<status, chat, place, batch, seen, sent, met>>
         /\ Upload(d) => /\ pc[d] = "send" /\ pc'[d] = IF Edits(d) THEN "tidy" ELSE "markFile"
                         /\ kind[Row(d)] = "file" /\ chat' = Append(chat, Group(d))
                         /\ sent'[d] = Len(chat) + 1
                         /\ UNCHANGED <<status, place, batch, seen, outcome, met>>
         /\ Tidy(d) => /\ pc[d] = "tidy" /\ pc'[d] = "clear"
                       /\ chat' = chat \/ chat' = [chat EXCEPT ![seen[d].msg] = <<>>]
                       /\ UNCHANGED <<status, place, batch, seen, sent, outcome, cut, reposted, met>>
         /\ ClearPlaceholder(d) => /\ pc[d] = "clear" /\ pc'[d] = "markFile"
                                   /\ \/ place' = NoPlace /\ met' = met
                                      \/ place' = place /\ "fails" \in met'
                                   /\ UNCHANGED <<status, chat, batch, seen, sent, outcome>>
         /\ MarkDelivered(d) => /\ pc[d] \in {"mark", "markFile"} /\ outcome'[d] = "delivered"
                                /\ pc'[d] = IF pc[d] = "mark" THEN "progress" ELSE "settle"
                                /\ status' = Set({Row(d)}, "delivered")
                                /\ UNCHANGED <<chat, place, batch, seen, sent, met>>
         /\ MarkRaises(d) => /\ pc[d] \in {"mark", "markFile"} /\ pc'[d] = "fail" /\ "fails" \in met'
                             /\ outcome'[d] = "transient"
                             /\ UNCHANGED <<status, chat, place, batch, seen, sent>>
<1>1. \A f \in {pc, outcome, sent, seen, batch} : DOMAIN f = Loops
  BY DEF TypeOK
<1> USE <1>1 DEF Goto, input
<1>2. Claim(d) => /\ pc[d] = "claim" /\ pc'[d] = "take" /\ Claimable /= {}
                  /\ status' = Set(Claimable, "claimed")
                  /\ \E rows \in InIdOrder(Claimable) : batch'[d] \in Bursts(rows)
                  /\ UNCHANGED <<chat, place, seen, sent, outcome, met>>
  <2> SUFFICES ASSUME Claim(d) PROVE \E rows \in InIdOrder(Claimable) : batch'[d] \in Bursts(rows)
    BY DEF Claim
  <2>1. PICK rows \in InIdOrder(Claimable) :
          \E b \in Bursts(rows) : batch' = [batch EXCEPT ![d] = b]
    BY DEF Claim
  <2> QED BY <2>1
<1>3. Take(d) => /\ pc[d] = "take" /\ pc'[d] = "send" /\ seen'[d] = place
                 /\ UNCHANGED <<status, chat, place, batch, sent, outcome, met>>
  BY DEF Take
<1>4. Send(d) => /\ pc[d] \in {"send", "post"} /\ pc'[d] = "mark"
                 /\ \E text \in Parts(d) : /\ Arrives(d, text)
                                           /\ cut' = cut \cup (Range(Text(d)) \ Range(text))
                 /\ UNCHANGED <<status, place, batch, seen, outcome, reposted, met>>
  BY DEF Send
<1>5. SendUnsure(d) => /\ pc[d] \in {"send", "post"} /\ pc'[d] = "fail" /\ "unsure" \in met'
                       /\ ~Editing(d) /\ \E text \in Parts(d) : Arrives(d, text)
                       /\ outcome'[d] = "transient"
                       /\ UNCHANGED <<status, place, batch, seen, cut, reposted>>
  BY DEF SendUnsure, Use, trail
<1>11. EditRefused(d) => /\ pc[d] = "send" /\ pc'[d] = "post" /\ Edits(d)
                        /\ \/ chat' = chat /\ reposted' = reposted \cup Range(seen[d].text)
                           \/ /\ reposted' = reposted \cup Range(Text(d))
                              /\ \E text \in Parts(d) : chat' = [chat EXCEPT ![seen[d].msg] = text]
                        /\ UNCHANGED <<status, place, batch, seen, sent, outcome, cut, met>>
  BY DEF EditRefused
<1>6. \A how \in {"transient", "permanent"} : Refused(d, how) =>
        /\ pc[d] \in {"take", "send", "post"} /\ pc'[d] = "fail" /\ outcome'[d] = how
        /\ UNCHANGED <<status, chat, place, batch, seen, sent, met>>
  BY DEF Refused
<1>7. Upload(d) => /\ pc[d] = "send" /\ pc'[d] = IF Edits(d) THEN "tidy" ELSE "markFile"
                   /\ kind[Row(d)] = "file" /\ chat' = Append(chat, Group(d))
                   /\ sent'[d] = Len(chat) + 1
                   /\ UNCHANGED <<status, place, batch, seen, outcome, met>>
  BY DEF Upload
<1>8. Tidy(d) => /\ pc[d] = "tidy" /\ pc'[d] = "clear"
                 /\ chat' = chat \/ chat' = [chat EXCEPT ![seen[d].msg] = <<>>]
                 /\ UNCHANGED <<status, place, batch, seen, sent, outcome, cut, reposted, met>>
  BY DEF Tidy
<1>12. ClearPlaceholder(d) => /\ pc[d] = "clear" /\ pc'[d] = "markFile"
                             /\ \/ place' = NoPlace /\ met' = met
                                \/ place' = place /\ "fails" \in met'
                             /\ UNCHANGED <<status, chat, batch, seen, sent, outcome>>
  BY DEF ClearPlaceholder, Use
<1>9. MarkDelivered(d) => /\ pc[d] \in {"mark", "markFile"} /\ outcome'[d] = "delivered"
                          /\ pc'[d] = IF pc[d] = "mark" THEN "progress" ELSE "settle"
                          /\ status' = Set({Row(d)}, "delivered")
                          /\ UNCHANGED <<chat, place, batch, seen, sent, met>>
  BY DEF MarkDelivered
<1>10. MarkRaises(d) => /\ pc[d] \in {"mark", "markFile"} /\ pc'[d] = "fail" /\ "fails" \in met'
                        /\ outcome'[d] = "transient"
                        /\ UNCHANGED <<status, chat, place, batch, seen, sent>>
  BY DEF MarkRaises, Use
<1> QED BY <1>2, <1>3, <1>4, <1>5, <1>6, <1>7, <1>8, <1>9, <1>10, <1>11, <1>12

(* What arrives, where, and what the last steps of a group do. *)
LEMMA Ends ==
  ASSUME TypeOK, NEW d \in Loops
  PROVE  /\ \A text : Arrives(d, text) =>
              \/ Editing(d) /\ sent'[d] = seen[d].msg /\ chat' = [chat EXCEPT ![seen[d].msg] = text]
              \/ ~Editing(d) /\ sent'[d] = Len(chat) + 1 /\ chat' = Append(chat, text)
         /\ Progress(d) => /\ pc[d] = "progress" /\ pc'[d] = "settle"
                           /\ \/ place' = ProgressOf(d) /\ met' = met
                              \/ place' = place /\ "fails" \in met'
                           /\ UNCHANGED <<status, chat, batch, seen, sent, outcome>>
         /\ RecordFailure(d) => /\ pc[d] = "fail" /\ pc'[d] = "settle"
                                /\ \/ status' = status /\ "fails" \in met'
                                   \/ met' = met /\ \E s \in {"failed", "waiting"} :
                                                       status' = Set({Row(d)}, s)
                                /\ UNCHANGED <<chat, place, batch, seen, sent, outcome>>
         /\ Settle(d) => /\ pc[d] = "settle"
                         /\ \/ status' = status /\ "fails" \in met'
                            \/ met' = met /\ status' = Set(Absorbed(d),
                                 IF outcome[d] = "delivered" THEN "delivered" ELSE "waiting")
                         /\ batch'[d] \in Bursts(batch[d].rest)
                         /\ pc'[d] = IF batch[d].rest = <<>> THEN "claim" ELSE "take"
                         /\ seen'[d] = NoPlace /\ sent'[d] = 0 /\ outcome'[d] = "none"
                         /\ UNCHANGED <<chat, place>>
         /\ Dies(d) => /\ pc'[d] = "claim" /\ batch'[d] = NoBatch /\ seen'[d] = NoPlace /\ sent'[d] = 0
                       /\ outcome'[d] = "none" /\ met' = met \cup {"deaths"}
                       /\ UNCHANGED <<status, chat, place>>
<1>1. \A f \in {pc, outcome, sent, seen, batch} : DOMAIN f = Loops
  BY DEF TypeOK
<1> USE <1>1 DEF Goto, input
<1>2. \A text : Arrives(d, text) =>
        \/ Editing(d) /\ sent'[d] = seen[d].msg /\ chat' = [chat EXCEPT ![seen[d].msg] = text]
        \/ ~Editing(d) /\ sent'[d] = Len(chat) + 1 /\ chat' = Append(chat, text)
  BY DEF Arrives
<1>3. Progress(d) => /\ pc[d] = "progress" /\ pc'[d] = "settle"
                     /\ \/ place' = ProgressOf(d) /\ met' = met
                        \/ place' = place /\ "fails" \in met'
                     /\ UNCHANGED <<status, chat, batch, seen, sent, outcome>>
  BY DEF Progress, Use
<1>4. RecordFailure(d) => /\ pc[d] = "fail" /\ pc'[d] = "settle"
                          /\ \/ status' = status /\ "fails" \in met'
                             \/ met' = met /\ \E s \in {"failed", "waiting"} :
                                                 status' = Set({Row(d)}, s)
                          /\ UNCHANGED <<chat, place, batch, seen, sent, outcome>>
  BY DEF RecordFailure, Use
<1>5. Settle(d) => /\ pc[d] = "settle"
                   /\ \/ status' = status /\ "fails" \in met'
                      \/ met' = met /\ status' = Set(Absorbed(d),
                           IF outcome[d] = "delivered" THEN "delivered" ELSE "waiting")
                   /\ batch'[d] \in Bursts(batch[d].rest)
                   /\ pc'[d] = IF batch[d].rest = <<>> THEN "claim" ELSE "take"
                   /\ seen'[d] = NoPlace /\ sent'[d] = 0 /\ outcome'[d] = "none"
                   /\ UNCHANGED <<chat, place>>
  <2> SUFFICES ASSUME Settle(d)
               PROVE  /\ \/ status' = status /\ "fails" \in met'
                         \/ met' = met /\ status' = Set(Absorbed(d),
                              IF outcome[d] = "delivered" THEN "delivered" ELSE "waiting")
                      /\ batch'[d] \in Bursts(batch[d].rest)
    BY DEF Settle
  <2>1. PICK b \in Bursts(batch[d].rest) : batch' = [batch EXCEPT ![d] = b]
    BY DEF Settle
  <2>2. batch'[d] \in Bursts(batch[d].rest) BY <2>1
  <2>3. \/ status' = status /\ "fails" \in met'
        \/ met' = met /\ status' = Set(Absorbed(d),
             IF outcome[d] = "delivered" THEN "delivered" ELSE "waiting")
    BY DEF Settle, Absorbed, Use
  <2> QED BY <2>2, <2>3
<1>6. Dies(d) => /\ pc'[d] = "claim" /\ batch'[d] = NoBatch /\ seen'[d] = NoPlace /\ sent'[d] = 0
                 /\ outcome'[d] = "none" /\ met' = met \cup {"deaths"}
                 /\ UNCHANGED <<status, chat, place>>
  BY DEF Dies, Use
<1> QED BY <1>2, <1>3, <1>4, <1>5, <1>6

\* What Places says of one loop.
AtPlace(d) ==
  /\ pc[d] \in {"claim", "absent"} => batch[d] = NoBatch
  /\ pc[d] \notin {"claim", "absent"} => Group(d) /= <<>>
  /\ Len(Group(d)) > 1 => kind[Row(d)] = "note"
  /\ pc[d] = "fail" => outcome[d] \in {"transient", "permanent"}
  /\ pc[d] \in {"tidy", "clear", "markFile"} => kind[Row(d)] = "file"
  /\ pc[d] = "tidy" => seen[d].msg /= 0

(* A loop's step keeps its types and its place. *)
LEMMA OwnTypes ==
  ASSUME TypeOK, Places, NEW d \in Loops, Step(d), Len(chat') \in Nat, Len(chat) <= Len(chat'),
         kind' = kind
  PROVE  /\ pc'[d] \in PCs /\ outcome'[d] \in Outcomes /\ seen'[d] \in Marks(Len(chat'))
         /\ sent'[d] \in 0 .. Len(chat') /\ batch'[d] \in [group : Texts, rest : Texts]
         /\ AtPlace(d)'
<1>1. /\ batch[d] \in [group : Texts, rest : Texts] /\ outcome[d] \in Outcomes /\ pc[d] \in PCs
      /\ seen[d] \in Marks(Len(chat)) /\ sent[d] \in 0 .. Len(chat) /\ Len(chat) \in Nat
      /\ place \in Marks(Len(chat)) /\ chat \in Seq(Texts)
  BY DEF TypeOK, Texts, Marks
<1>2. /\ seen[d] \in Marks(Len(chat')) /\ sent[d] \in 0 .. Len(chat') /\ place \in Marks(Len(chat'))
      /\ NoPlace \in Marks(Len(chat')) /\ 0 \in 0 .. Len(chat')
  BY <1>1 DEF Marks, NoPlace, Texts
<1>3. NoBatch \in [group : Texts, rest : Texts] /\ ~(Len(NoBatch.group) > 1) BY DEF NoBatch, Texts
<1>4. AtPlace(d) BY DEF Places, AtPlace
<1>5. ASSUME batch'[d] = batch[d] PROVE Group(d)' = Group(d) /\ Row(d)' = Row(d)
  BY <1>5 DEF Group, Row
<1>6. ASSUME NEW rows \in Texts, batch'[d] \in Bursts(rows)
      PROVE  /\ batch'[d] \in [group : Texts, rest : Texts]
             /\ rows = <<>> => batch'[d] = NoBatch
             /\ rows /= <<>> => Group(d)' /= <<>>
             /\ Len(Group(d)') > 1 => kind[Row(d)'] = "note"
  BY <1>6, BurstOf DEF Texts, Group, Row
<1>7. "none" \in Outcomes /\ "delivered" \in Outcomes /\ "transient" \in Outcomes /\ "permanent" \in Outcomes
  BY DEF Outcomes
<1>8. CASE Claim(d)
  <2>1. PICK rows \in InIdOrder(Claimable) : batch'[d] \in Bursts(rows) BY <1>8, Moves
  <2>2. rows \in Texts /\ rows /= <<>> BY <1>8, IdOrder, Moves DEF Claimable, Texts
  <2>3. pc'[d] = "take" /\ UNCHANGED <<seen, sent, outcome>> BY <1>8, Moves
  <2> QED BY <1>1, <1>2, <1>6, <2>1, <2>2, <2>3 DEF AtPlace, PCs
<1>9. CASE Take(d) BY <1>1, <1>2, <1>4, <1>5, <1>9, Moves DEF AtPlace, PCs
<1>10. CASE Send(d) \/ SendUnsure(d)
  <2>1. /\ pc[d] \in {"send", "post"} /\ pc'[d] \in {"mark", "fail"} /\ UNCHANGED <<batch, seen>>
        /\ pc'[d] = "fail" => outcome'[d] = "transient"
        /\ outcome'[d] \in {outcome[d], "transient"} /\ \E text \in Parts(d) : Arrives(d, text)
    BY <1>10, Moves
  <2>2. sent'[d] \in 0 .. Len(chat')
    <3>0. PICK text \in Parts(d) : Arrives(d, text) BY <2>1
    <3>1. CASE sent'[d] = seen[d].msg BY <1>2, <3>1 DEF Marks
    <3>2. CASE sent'[d] = Len(chat) + 1 /\ chat' = Append(chat, text)
      <4>1. text \in Texts BY <2>1, PartsOf
      <4>2. Len(chat') = Len(chat) + 1 BY <1>1, <3>2, <4>1, Posted
      <4> QED BY <1>1, <3>2, <4>2
    <3> QED BY <3>0, <3>1, <3>2, Ends
  <2> QED BY <1>1, <1>2, <1>4, <1>5, <1>7, <2>1, <2>2 DEF AtPlace, PCs
<1>11. CASE Upload(d)
  <2>1. /\ pc[d] = "send" /\ pc'[d] \in {"tidy", "markFile"} /\ kind[Row(d)] = "file"
        /\ chat' = Append(chat, Group(d)) /\ sent'[d] = Len(chat) + 1 /\ UNCHANGED <<batch, seen, outcome>>
    BY <1>11, Moves
  <2>2. Group(d) \in Texts BY LoopTypes
  <2>3. Len(chat') = Len(chat) + 1 BY <1>1, <2>1, <2>2, Posted
  <2>4. sent'[d] \in 0 .. Len(chat') BY <1>1, <2>1, <2>3
  <2>5. pc'[d] = "tidy" => seen[d].msg /= 0 BY <1>11, Moves DEF Edits
  <2> QED BY <1>1, <1>2, <1>4, <1>5, <2>1, <2>4, <2>5 DEF AtPlace, PCs
<1>12. CASE Tidy(d) \/ ClearPlaceholder(d)
  BY <1>1, <1>2, <1>4, <1>5, <1>12, Moves DEF AtPlace, PCs
<1>18. CASE EditRefused(d) BY <1>1, <1>2, <1>4, <1>5, <1>18, Moves DEF AtPlace, PCs
<1>13. CASE MarkDelivered(d) \/ MarkRaises(d)
  <2>1. /\ pc[d] \in {"mark", "markFile"} /\ pc'[d] \in {"progress", "settle", "fail"}
        /\ outcome'[d] \in {"delivered", "transient"} /\ UNCHANGED <<batch, seen, sent>>
        /\ pc'[d] = "fail" => outcome'[d] = "transient"
    BY <1>13, Moves
  <2> QED BY <1>1, <1>2, <1>4, <1>5, <1>7, <2>1 DEF AtPlace, PCs
<1>14. CASE Refused(d, "transient") \/ Refused(d, "permanent")
  <2>1. /\ pc[d] \in {"take", "send", "post"} /\ pc'[d] = "fail"
        /\ outcome'[d] \in {"transient", "permanent"}
        /\ UNCHANGED <<batch, seen, sent>>
    BY <1>14, Moves
  <2> QED BY <1>1, <1>2, <1>4, <1>5, <1>7, <2>1 DEF AtPlace, PCs
<1>15. CASE Progress(d) \/ RecordFailure(d)
  <2>1. pc[d] \in {"progress", "fail"} /\ pc'[d] = "settle" /\ UNCHANGED <<batch, seen, sent, outcome>>
    BY <1>15, Ends
  <2> QED BY <1>1, <1>2, <1>4, <1>5, <2>1 DEF AtPlace, PCs
<1>16. CASE Settle(d)
  <2>1. /\ batch'[d] \in Bursts(batch[d].rest) /\ seen'[d] = NoPlace /\ sent'[d] = 0 /\ outcome'[d] = "none"
        /\ pc'[d] = IF batch[d].rest = <<>> THEN "claim" ELSE "take"
    BY <1>16, Ends
  <2>2. batch[d].rest \in Texts BY LoopTypes
  <2> QED BY <1>2, <1>6, <1>7, <2>1, <2>2 DEF AtPlace, PCs
<1>17. CASE Dies(d)
  <2>1. /\ pc'[d] = "claim" /\ batch'[d] = NoBatch /\ seen'[d] = NoPlace /\ sent'[d] = 0
        /\ outcome'[d] = "none"
    BY <1>17, Ends
  <2>2. Group(d)' = NoBatch.group BY <2>1 DEF Group
  <2> QED BY <1>2, <1>3, <1>7, <2>1, <2>2 DEF AtPlace, PCs
<1> QED BY <1>8, <1>9, <1>10, <1>11, <1>12, <1>13, <1>14, <1>15, <1>16, <1>17, <1>18
   DEF Step, Deliver

(* Every step keeps the types and the places. *)
LEMMA FrameStep ==
  ASSUME TypeOK, Places, Next
  PROVE  TypeOK' /\ Places'
<1>1. /\ kind' = kind /\ Rows' = Rows /\ kind \in Seq(Kinds) /\ Texts' = Texts
      /\ status' \in [Rows -> Statuses] /\ old' \in [Rows -> BOOLEAN] /\ asking' \in BOOLEAN
  BY RowTypes DEF TypeOK, Texts
<1>2. /\ chat' \in Seq(Texts) /\ Len(chat') \in Nat /\ Len(chat) \in Nat
      /\ Len(chat) <= Len(chat') /\ place' \in Marks(Len(chat'))
  BY ChatTypes
<1>3. /\ met' \subseteq Inputs /\ left' \in [Inputs -> Nat]
      /\ gone' \subseteq 1 .. Len(chat') /\ cut' \subseteq Rows /\ reposted' \subseteq Rows
  BY InputTypes, Trails
<1>4. ASSUME NEW d \in Loops
      PROVE  /\ pc[d] \in PCs /\ outcome[d] \in Outcomes /\ seen[d] \in Marks(Len(chat'))
             /\ sent[d] \in 0 .. Len(chat') /\ batch[d] \in [group : Texts, rest : Texts]
             /\ AtPlace(d)
  <2>1. /\ pc[d] \in PCs /\ outcome[d] \in Outcomes /\ seen[d] \in Marks(Len(chat))
        /\ sent[d] \in 0 .. Len(chat) /\ batch[d] \in [group : Texts, rest : Texts]
    BY DEF TypeOK, Texts, Marks
  <2>2. seen[d] \in Marks(Len(chat')) /\ sent[d] \in 0 .. Len(chat') BY <1>2, <2>1 DEF Marks
  <2> QED BY <2>1, <2>2 DEF Places, AtPlace
<1>5. CASE Outside
  <2>1. UNCHANGED <<pc, batch, seen, sent, outcome>> BY <1>5, LoopsStay
  <2>2. Places' BY <1>1, <2>1 DEF Places, Group, Row
  <2>3. /\ pc' \in [Loops -> PCs] /\ batch' \in [Loops -> [group : Texts, rest : Texts]]
        /\ seen' \in [Loops -> Marks(Len(chat'))] /\ sent' \in [Loops -> 0 .. Len(chat')]
        /\ outcome' \in [Loops -> Outcomes]
    BY <1>4, <2>1 DEF TypeOK
  <2> QED BY <1>1, <1>2, <1>3, <2>2, <2>3 DEF TypeOK, Texts, Marks
<1>6. ASSUME NEW d \in Loops, Step(d) PROVE TypeOK' /\ Places'
  <2>1. /\ pc'[d] \in PCs /\ outcome'[d] \in Outcomes /\ seen'[d] \in Marks(Len(chat'))
        /\ sent'[d] \in 0 .. Len(chat') /\ batch'[d] \in [group : Texts, rest : Texts]
        /\ AtPlace(d)'
    BY <1>1, <1>2, <1>6, OwnTypes
  <2>2. /\ \A e \in Loops : e /= d =>
             /\ pc'[e] = pc[e] /\ batch'[e] = batch[e] /\ seen'[e] = seen[e] /\ sent'[e] = sent[e]
             /\ outcome'[e] = outcome[e]
        /\ pc' = [e \in Loops |-> pc'[e]] /\ batch' = [e \in Loops |-> batch'[e]]
        /\ seen' = [e \in Loops |-> seen'[e]] /\ sent' = [e \in Loops |-> sent'[e]]
        /\ outcome' = [e \in Loops |-> outcome'[e]]
    BY <1>6, OthersStay
  <2>3. \A e \in Loops : e /= d => AtPlace(e)'
    BY <1>1, <1>4, <2>2 DEF AtPlace, Group, Row
  <2>4. Places' BY <2>1, <2>3 DEF Places, AtPlace
  <2>5. \A e \in Loops : /\ pc'[e] \in PCs /\ outcome'[e] \in Outcomes /\ seen'[e] \in Marks(Len(chat'))
                         /\ sent'[e] \in 0 .. Len(chat') /\ batch'[e] \in [group : Texts, rest : Texts]
    BY <1>4, <2>1, <2>2
  <2>6. /\ pc' \in [Loops -> PCs] /\ batch' \in [Loops -> [group : Texts, rest : Texts]]
        /\ seen' \in [Loops -> Marks(Len(chat'))] /\ sent' \in [Loops -> 0 .. Len(chat')]
        /\ outcome' \in [Loops -> Outcomes]
    BY <2>2, <2>5
  <2> QED BY <1>1, <1>2, <1>3, <2>4, <2>6 DEF TypeOK, Texts, Marks
<1> QED BY <1>5, <1>6 DEF Next, Step, Outside

(* --------------------- what was delivered can be read ------------------ *)

\* Safe of row i in message m, where d is the only loop, and AsSent of that loop.
SafeAt(d, i, m) ==
  /\ m \in DOMAIN chat /\ i \in Range(chat[m])
  /\ m = place.msg => \/ i \in Range(place.text)
                      \/ pc[d] = "progress" /\ sent[d] = m /\ i \in Range(Group(d))
  /\ pc[d] \in {"send", "tidy"} /\ seen[d].msg = m => i \in Range(seen[d].text)
SentBy(d) ==
  /\ pc[d] \in {"mark", "progress"} =>
       /\ sent[d] \in DOMAIN chat /\ Range(Text(d)) \ cut \subseteq Range(chat[sent[d]])
       /\ Range(chat[sent[d]]) \subseteq Range(Text(d))
       /\ seen[d].msg = 0 => place.msg /= sent[d]
  /\ pc[d] \in {"tidy", "clear", "markFile"} =>
       /\ sent[d] \in DOMAIN chat /\ chat[sent[d]] = Group(d) /\ place.msg /= sent[d]
  /\ pc[d] = "tidy" => seen[d].text = <<>> /\ seen[d].msg /= sent[d] /\ seen[d].msg /= 0

(* A loop is there or not, for good. *)
LEMMA StaysAlone ==
  ASSUME TypeOK, Next, Alone'
  PROVE  Alone /\ met' \cap {"fails", "deaths"} = {}
<1>1. \A d \in Loops : pc'[d] = "absent" <=> pc[d] = "absent"
  <2>1. CASE Outside BY <2>1, LoopsStay
  <2>2. ASSUME NEW d \in Loops, Step(d) PROVE \A e \in Loops : pc'[e] = "absent" <=> pc[e] = "absent"
    <3>1. pc[d] /= "absent" /\ pc'[d] /= "absent"
      <4>1. CASE \/ Claim(d) \/ Take(d) \/ Send(d) \/ SendUnsure(d) \/ EditRefused(d) \/ Upload(d)
                 \/ Tidy(d) \/ ClearPlaceholder(d) \/ MarkDelivered(d) \/ MarkRaises(d)
                 \/ Refused(d, "transient") \/ Refused(d, "permanent")
        BY <4>1, Moves
      <4>2. CASE Progress(d) \/ RecordFailure(d) \/ Settle(d) BY <4>2, Ends
      <4>3. CASE Dies(d) BY <4>3, Ends DEF Dies
      <4> QED BY <2>2, <4>1, <4>2, <4>3 DEF Step, Deliver
    <3> QED BY <2>2, <3>1, OthersStay
  <2> QED BY <2>1, <2>2 DEF Next, Step, Outside
<1>2. met \subseteq met' BY InputTypes
<1> QED BY <1>1, <1>2 DEF Alone, Crowded

(* The only loop's step keeps what was delivered to be read. *)
LEMMA LostStep ==
  ASSUME TypeOK, Places, Next, TypeOK', Alone, LostInv, met' \cap {"fails", "deaths"} = {},
         NEW d \in Loops, Step(d), kind' = kind
  PROVE  LostInv'
<1>1. /\ chat \in Seq(Texts) /\ DOMAIN chat = 1 .. Len(chat) /\ Len(chat) \in Nat /\ <<>> \in Texts
      /\ place.msg \in 0 .. Len(chat) /\ place.text \in Texts /\ status \in [Rows -> Statuses]
      /\ Rows' = Rows
  BY SMTT(30) DEF TypeOK, Texts, Rows
<1>2. /\ Group(d) \in Texts /\ Text(d) \in Texts /\ seen[d].msg \in 0 .. Len(chat)
      /\ Range(Group(d)) \subseteq Range(Text(d)) /\ sent[d] \in 0 .. Len(chat)
  BY LoopTypes, TextHas
<1>3. pc[d] /= "absent"
  BY DEF Step, Deliver, Claim, Take, Send, EditRefused, Upload, Tidy, ClearPlaceholder,
         MarkDelivered, Progress, RecordFailure, Settle,
         Refused, SendUnsure, MarkRaises, Dies
<1>4. \A e \in Loops : e /= d => pc[e] = "absent" /\ pc'[e] = "absent"
  BY <1>3, OthersStay DEF Alone, Crowded
<1>5. \A i : Safe(i) <=> \E m \in DOMAIN chat : SafeAt(d, i, m)
  BY <1>4 DEF Safe, SafeAt
<1>6. \A i : Safe(i)' <=> \E m \in DOMAIN chat' : SafeAt(d, i, m)'
  BY <1>4 DEF Safe, SafeAt
<1>7. SentBy(d) /\ (pc[d] = "settle" /\ outcome[d] = "delivered" => \A i \in Range(Group(d)) \ cut : Safe(i))
  BY DEF LostInv, AsSent, SentBy
<1>0. cut \subseteq cut' BY Trails
<1>8. ASSUME \A i, m : i \notin cut' /\ SafeAt(d, i, m) => SafeAt(d, i, m)', SentBy(d)',
             pc'[d] = "settle" /\ outcome'[d] = "delivered" => \A i \in Range(Group(d)') \ cut' : Safe(i)',
             \A i \in Rows \ cut' :
               status'[i] = "delivered" => status[i] = "delivered" \/ Safe(i) \/ Safe(i)'
      PROVE  LostInv'
  <2>1. \A i : i \notin cut' /\ Safe(i) => Safe(i)' BY <1>5, <1>6, <1>8 DEF SafeAt
  <2>2. AsSent' BY <1>4, <1>8 DEF AsSent, SentBy
  <2> QED BY <1>0, <1>1, <1>8, <2>1, <2>2 DEF LostInv
<1>9. ASSUME UNCHANGED batch PROVE Group(d)' = Group(d) BY <1>9 DEF Group
<1>10. ASSUME UNCHANGED <<batch, seen>> PROVE Text(d)' = Text(d)
  BY <1>10 DEF Text, Edits, Group, Row
<1>11. ASSUME NEW v \in Texts, chat' = Append(chat, v)
       PROVE  /\ DOMAIN chat' = DOMAIN chat \cup {Len(chat) + 1} /\ chat'[Len(chat) + 1] = v
              /\ \A m \in DOMAIN chat : chat'[m] = chat[m]
  BY <1>1, <1>11, Posted
<1>12. ASSUME NEW rs, NEW s, status' = Set(rs, s), NEW i \in Rows
       PROVE  status'[i] = IF i \in rs THEN s ELSE status[i]
  BY <1>12 DEF Set
<1>13. CASE Claim(d)
  <2>1. /\ pc[d] = "claim" /\ pc'[d] = "take" /\ status' = Set(Claimable, "claimed")
        /\ UNCHANGED <<chat, place, seen, sent>>
    BY <1>13, Moves
  <2>2. \A i, m : SafeAt(d, i, m) => SafeAt(d, i, m)' BY <2>1 DEF SafeAt
  <2>3. SentBy(d)' BY <2>1 DEF SentBy
  <2> QED BY <1>8, <1>12, <2>1, <2>2, <2>3
<1>14. CASE Take(d)
  <2>1. /\ pc[d] = "take" /\ pc'[d] = "send" /\ seen'[d] = place
        /\ UNCHANGED <<status, chat, place, sent>>
    BY <1>14, Moves
  <2>2. \A i, m : SafeAt(d, i, m) => SafeAt(d, i, m)' BY <2>1 DEF SafeAt
  <2>3. SentBy(d)' BY <2>1 DEF SentBy
  <2> QED BY <1>8, <2>1, <2>2, <2>3
<1>15. CASE Send(d) \/ SendUnsure(d)
  <2>1. /\ pc[d] \in {"send", "post"} /\ pc'[d] \in {"mark", "fail"}
        /\ UNCHANGED <<status, place, batch, seen>>
    BY <1>15, Moves
  <2>2. PICK text \in Parts(d) :
          Arrives(d, text) /\ (pc'[d] = "mark" => cut' = cut \cup (Range(Text(d)) \ Range(text)))
    BY <1>15, Moves
  <2>3. /\ text \in Texts /\ Range(text) \subseteq Range(Text(d))
        /\ Edits(d) => Range(seen[d].text) \subseteq Range(text)
    BY <2>1, PartsOf
  <2>4. /\ DOMAIN chat \subseteq DOMAIN chat' /\ sent'[d] \in DOMAIN chat' /\ chat'[sent'[d]] = text
        /\ \A m \in DOMAIN chat : m /= sent'[d] => chat'[m] = chat[m]
        /\ sent'[d] \in DOMAIN chat => Editing(d) /\ sent'[d] = seen[d].msg
        /\ seen[d].msg = 0 => place.msg /= sent'[d]
    <3>1. CASE Editing(d) /\ sent'[d] = seen[d].msg /\ chat' = [chat EXCEPT ![seen[d].msg] = text]
      <4>1. seen[d].msg \in DOMAIN chat BY <3>1, TextHas DEF Editing
      <4> QED BY <1>1, <2>3, <3>1, <4>1, Edited
    <3>2. CASE ~Editing(d) /\ sent'[d] = Len(chat) + 1 /\ chat' = Append(chat, text)
      BY <1>1, <1>11, <2>3, <3>2
    <3> QED BY <2>2, <3>1, <3>2, Ends
  <2>5. ASSUME NEW i, NEW m, SafeAt(d, i, m) PROVE SafeAt(d, i, m)'
    <3>1. i \in Range(chat'[m])
      <4>1. CASE m = sent'[d]
        BY <2>3, <2>4, <2>5, <4>1 DEF SafeAt, Editing
      <4>2. CASE m /= sent'[d] BY <2>4, <2>5, <4>2 DEF SafeAt
      <4> QED BY <4>1, <4>2
    <3> QED BY <2>1, <2>4, <2>5, <3>1 DEF SafeAt
  <2>6. SentBy(d)' BY <1>10, <2>1, <2>2, <2>3, <2>4 DEF SentBy
  <2> QED BY <1>8, <2>1, <2>5, <2>6
<1>24. CASE EditRefused(d)
  <2>1. /\ pc[d] = "send" /\ pc'[d] = "post" /\ Edits(d) /\ UNCHANGED <<status, place, batch, seen, sent>>
    BY <1>24, Moves
  <2>2. chat' = chat \/ \E text \in Parts(d) : chat' = [chat EXCEPT ![seen[d].msg] = text]
    BY <1>24, Moves
  <2>3. /\ DOMAIN chat' = DOMAIN chat /\ \A m \in DOMAIN chat : m /= seen[d].msg => chat'[m] = chat[m]
        /\ chat' = chat \/ Range(seen[d].text) \subseteq Range(chat'[seen[d].msg])
    <3>1. ASSUME NEW text \in Parts(d), chat' = [chat EXCEPT ![seen[d].msg] = text]
          PROVE  /\ DOMAIN chat' = DOMAIN chat
                 /\ \A m \in DOMAIN chat : m /= seen[d].msg => chat'[m] = chat[m]
                 /\ Range(seen[d].text) \subseteq Range(chat'[seen[d].msg])
      <4>1. text \in Texts /\ Range(seen[d].text) \subseteq Range(text) BY <2>1, PartsOf
      <4>2. seen[d].msg \in DOMAIN chat BY <2>1, TextHas
      <4> QED BY <1>1, <3>1, <4>1, <4>2, Edited
    <3> QED BY <2>2, <3>1
  <2>4. \A i, m : SafeAt(d, i, m) => SafeAt(d, i, m)' BY <2>1, <2>3 DEF SafeAt
  <2>5. SentBy(d)' BY <2>1 DEF SentBy
  <2> QED BY <1>8, <2>1, <2>4, <2>5
<1>16. CASE Refused(d, "transient") \/ Refused(d, "permanent")
  <2>1. /\ pc[d] \in {"take", "send", "post"} /\ pc'[d] = "fail"
        /\ UNCHANGED <<status, chat, place, seen, sent>>
    BY <1>16, Moves
  <2>2. \A i, m : SafeAt(d, i, m) => SafeAt(d, i, m)' BY <2>1 DEF SafeAt
  <2>3. SentBy(d)' BY <2>1 DEF SentBy
  <2> QED BY <1>8, <2>1, <2>2, <2>3
<1>17. CASE Upload(d)
  <2>1. /\ pc[d] = "send" /\ pc'[d] \in {"tidy", "markFile"} /\ kind[Row(d)] = "file"
        /\ pc'[d] = "tidy" => Edits(d)
        /\ chat' = Append(chat, Group(d)) /\ sent'[d] = Len(chat) + 1
        /\ UNCHANGED <<status, place, batch, seen>>
    BY <1>17, Moves
  <2>2. /\ DOMAIN chat' = DOMAIN chat \cup {sent'[d]} /\ chat'[sent'[d]] = Group(d)
        /\ \A m \in DOMAIN chat : chat'[m] = chat[m]
        /\ place.msg /= sent'[d] /\ seen[d].msg /= sent'[d]
    BY <1>1, <1>2, <1>11, <2>1
  <2>3. \A i, m : SafeAt(d, i, m) => SafeAt(d, i, m)' BY <2>1, <2>2 DEF SafeAt
  <2>4. SentBy(d)' BY <1>9, <2>1, <2>2 DEF SentBy, Edits
  <2> QED BY <1>8, <2>1, <2>3, <2>4
<1>18. CASE Tidy(d)
  <2>1. /\ pc[d] = "tidy" /\ pc'[d] = "clear" /\ UNCHANGED <<status, place, batch, seen, sent>>
        /\ chat' = chat \/ chat' = [chat EXCEPT ![seen[d].msg] = <<>>]
    BY <1>18, Moves
  <2>2. DOMAIN chat' = DOMAIN chat /\ \A m \in DOMAIN chat : m /= seen[d].msg => chat'[m] = chat[m]
    BY <1>1, <2>1, Edited
  <2>3. Range(<<>>) = {} BY DEF Range
  <2>4. \A i, m : SafeAt(d, i, m) => SafeAt(d, i, m)'
    BY <1>7, <2>1, <2>2, <2>3 DEF SafeAt, SentBy
  <2>5. SentBy(d)' BY <1>7, <1>9, <2>1, <2>2 DEF SentBy
  <2> QED BY <1>8, <2>1, <2>4, <2>5
<1>25. CASE ClearPlaceholder(d)
  <2>1. /\ pc[d] = "clear" /\ pc'[d] = "markFile" /\ UNCHANGED <<status, chat, batch, seen, sent>>
        /\ place' = place \/ place' = NoPlace
    BY <1>25, Moves
  <2>2. NoPlace.msg = 0 /\ 0 \notin DOMAIN chat BY <1>1 DEF NoPlace
  <2>3. \A i, m : SafeAt(d, i, m) => SafeAt(d, i, m)' BY <2>1, <2>2 DEF SafeAt
  <2>4. SentBy(d)' BY <1>7, <1>9, <2>1, <2>2 DEF SentBy
  <2> QED BY <1>8, <2>1, <2>3, <2>4
<1>19. CASE MarkDelivered(d)
  <2>1. /\ pc[d] \in {"mark", "markFile"} /\ pc'[d] = IF pc[d] = "mark" THEN "progress" ELSE "settle"
        /\ status' = Set({Row(d)}, "delivered") /\ UNCHANGED <<chat, place, batch, seen, sent>>
    BY <1>19, Moves
  <2>2. \A i, m : SafeAt(d, i, m) => SafeAt(d, i, m)' BY <1>9, <2>1 DEF SafeAt
  <2>3. SentBy(d)' BY <1>0, <1>7, <1>10, <2>1 DEF SentBy
  <2>4. ASSUME NEW i \in Range(Group(d)) \ cut' PROVE Safe(i)'
    <3>1. SafeAt(d, i, sent[d])'
      BY <1>0, <1>2, <1>7, <1>9, <2>1, <2>4 DEF SafeAt, SentBy
    <3> QED BY <1>6, <2>1, <3>1 DEF SafeAt
  <2>5. Row(d) \in Range(Group(d)) BY <2>1, LoopTypes
  <2> QED BY <1>8, <1>9, <1>12, <2>1, <2>2, <2>3, <2>4, <2>5
<1>20. CASE Progress(d)
  <2>1. /\ pc[d] = "progress" /\ pc'[d] = "settle" /\ place' = ProgressOf(d)
        /\ UNCHANGED <<status, chat, batch, seen, sent, outcome>>
    BY <1>20, Ends
  <2>2. \/ place'.msg = sent[d] /\ place'.text = Text(d)
        \/ place'.msg = 0
        \/ place' = place /\ place.msg /= sent[d]
    BY <1>7, <2>1 DEF ProgressOf, NoPlace, SentBy
  <2>3. /\ 0 \notin DOMAIN chat /\ sent[d] \in DOMAIN chat
        /\ Range(Text(d)) \ cut \subseteq Range(chat[sent[d]]) /\ Range(chat[sent[d]]) \subseteq Range(Text(d))
    BY <1>1, <1>7, <2>1 DEF SentBy
  <2>4. \A i, m : SafeAt(d, i, m) => SafeAt(d, i, m)' BY <2>1, <2>2, <2>3 DEF SafeAt
  <2>5. SentBy(d)' BY <2>1 DEF SentBy
  <2>6. ASSUME NEW i \in Range(Group(d)) \ cut' PROVE Safe(i)'
    <3>1. SafeAt(d, i, sent[d])' BY <1>0, <1>2, <2>1, <2>2, <2>3, <2>6 DEF SafeAt
    <3> QED BY <1>6, <2>1, <2>3, <3>1
  <2> QED BY <1>8, <1>9, <2>1, <2>4, <2>5, <2>6
<1>21. CASE RecordFailure(d)
  <2>1. /\ pc[d] = "fail" /\ pc'[d] = "settle" /\ UNCHANGED <<chat, place, batch, seen, sent, outcome>>
        /\ \E s \in {"failed", "waiting"} : status' = Set({Row(d)}, s)
    BY <1>21, Ends
  <2>2. \A i, m : SafeAt(d, i, m) => SafeAt(d, i, m)' BY <2>1 DEF SafeAt
  <2>3. SentBy(d)' BY <2>1 DEF SentBy
  <2>4. outcome[d] /= "delivered" BY <2>1 DEF Places
  <2>5. \A i \in Rows : status'[i] = "delivered" => status[i] = "delivered" BY <1>12, <2>1
  <2> QED BY <1>8, <2>1, <2>2, <2>3, <2>4, <2>5
<1>22. CASE Settle(d)
  <2>1. /\ pc[d] = "settle" /\ pc'[d] \in {"claim", "take"} /\ UNCHANGED <<chat, place>>
        /\ status' = Set(Absorbed(d), IF outcome[d] = "delivered" THEN "delivered" ELSE "waiting")
    BY <1>22, Ends
  <2>2. \A i, m : SafeAt(d, i, m) => SafeAt(d, i, m)' BY <2>1 DEF SafeAt
  <2>3. SentBy(d)' BY <2>1 DEF SentBy
  <2>4. Absorbed(d) \subseteq Range(Group(d)) BY <1>2 DEF Absorbed, Range, Texts
  <2>5. \A i \in Rows \ cut' : status'[i] = "delivered" => status[i] = "delivered" \/ Safe(i)
    BY <1>0, <1>7, <1>12, <2>1, <2>4
  <2> QED BY <1>8, <2>1, <2>2, <2>3, <2>5
<1>23. ~MarkRaises(d) /\ ~Dies(d)
  <2>1. ~MarkRaises(d) BY Moves
  <2>2. ~Dies(d) BY Ends
  <2> QED BY <2>1, <2>2
<1> QED
  BY <1>13, <1>14, <1>15, <1>16, <1>17, <1>18, <1>19, <1>20, <1>21, <1>22, <1>23, <1>24,
     <1>25 DEF Step, Deliver

(* What nobody's loop does keeps it, too. *)
LEMMA LostOutside ==
  ASSUME TypeOK, Places, TypeOK', LostInv, Outside, kind' = kind
  PROVE  LostInv'
<1>1. /\ chat \in Seq(Texts) /\ DOMAIN chat = 1 .. Len(chat) /\ Len(chat) \in Nat /\ <<>> \in Texts
      /\ place.msg \in 0 .. Len(chat) /\ status \in [Rows -> Statuses] /\ Rows' = Rows
  BY DEF TypeOK, Texts, Rows
<1>2. UNCHANGED <<pc, batch, seen, sent, outcome, cut>> BY LoopsStay
<1>3. \A d \in Loops : Group(d)' = Group(d) /\ Text(d)' = Text(d)
  BY <1>2 DEF Text, Edits, Group, Row
<1>4. /\ DOMAIN chat \subseteq DOMAIN chat' /\ \A m \in DOMAIN chat : chat'[m] = chat[m]
      /\ place' = place \/ place'.msg \notin DOMAIN chat
      /\ \A i \in Rows : status'[i] = "delivered" => status[i] = "delivered"
  <2>1. CASE \/ Ask \/ \E i \in Rows : Enqueue(i) \/ BackedOff(i) \/ Ages(i)
    <3>1. UNCHANGED <<chat, place>> BY <2>1 DEF Ask, Enqueue, BackedOff, Ages
    <3>2. UNCHANGED status \/ \E i \in Rows : status' = Set({i}, "pending")
      BY <2>1 DEF Ask, Enqueue, BackedOff, Ages
    <3> QED BY <1>1, <3>1, <3>2 DEF Set
  <2>2. CASE Lapse
    <3>1. UNCHANGED <<chat, status>> /\ place' = NoPlace BY <2>2 DEF Lapse
    <3>2. place'.msg = 0 BY <3>1 DEF NoPlace
    <3> QED BY <1>1, <3>1, <3>2
  <2>3. CASE PostPlaceholder
    <3>1. UNCHANGED status /\ chat' = Append(chat, <<>>) /\ place'.msg = Len(chat) + 1
      BY <2>3 DEF PostPlaceholder
    <3> QED BY <1>1, <3>1, Posted
  <2> QED BY <2>1, <2>2, <2>3 DEF Outside
<1>5. \A i : Safe(i) => Safe(i)'
  BY <1>2, <1>3, <1>4 DEF Safe
<1>6. ASSUME NEW d \in Loops, NEW m \in DOMAIN chat, place.msg /= m PROVE place'.msg /= m
  BY <1>4, <1>6
<1>7. AsSent'
  BY <1>2, <1>3, <1>4, <1>5, <1>6 DEF LostInv, AsSent
<1> QED BY <1>1, <1>2, <1>4, <1>5, <1>7 DEF LostInv

(* ------------------------- nothing is shown twice ---------------------- *)

(* A loop's step that shows the rows new of its group, in message h or nowhere, keeps the
   rest of what keeps rows from being shown twice, if it does its own part. *)
LEMMA OnceMove ==
  ASSUME TypeOK, Places, TypeOK', OnceInv, kind' = kind, NEW d \in Loops, Step(d),
         NEW h, NEW new \in SUBSET Range(Group(d)), reposted \subseteq reposted',
         \A i \in Rows, m \in Nat : Bears(i, m)' => \/ Bears(i, m)
                                                  \/ (i \in new /\ m = h)
                                                  \/ (i \in reposted /\ ~Unseen(i)),
         \A i \in new \ reposted, m \in Nat : Bears(i, m) => m = h,
         new \subseteq Own(d), new \cap Yet(d)' = {},
         \A i \in new : status'[i] \notin {"none", "pending", "waiting"},
         Clean', Sole(d)', Marked(d)', OnlyIn(d)',
         \A e \in Loops : e /= d => Own(d)' \cap Own(e) = {},
         \A e \in Loops, i \in Rows : e /= d /\ i \in Own(e) => status'[i] = status[i],
         \A i \in Yet(d)' : Unseen(i) /\ i \in Rows,
         \A i \in Rows : status'[i] \in {"none", "pending", "waiting"} => Unseen(i)
  PROVE  OnceInv'
<1>1. Rows' = Rows BY DEF Rows
<1>2. \A i \in Rows : Unseen(i) /\ i \notin new => Unseen(i)' BY DEF Unseen
<1>3. ASSUME NEW e \in Loops, e /= d
      PROVE  /\ pc'[e] = pc[e] /\ batch'[e] = batch[e] /\ seen'[e] = seen[e] /\ sent'[e] = sent[e]
             /\ outcome'[e] = outcome[e]
             /\ Group(e)' = Group(e) /\ Row(e)' = Row(e) /\ Own(e)' = Own(e) /\ Yet(e)' = Yet(e)
             /\ Edits(e)' = Edits(e) /\ Absorbed(e)' = Absorbed(e)
  <2>1. /\ pc'[e] = pc[e] /\ batch'[e] = batch[e] /\ seen'[e] = seen[e] /\ sent'[e] = sent[e]
        /\ outcome'[e] = outcome[e]
    BY <1>3, OthersStay
  <2>2. Group(e)' = Group(e) BY <2>1 DEF Group
  <2>3. Row(e)' = Row(e) /\ Absorbed(e)' = Absorbed(e) BY <2>2 DEF Row, Absorbed
  <2>4. Own(e)' = Own(e) /\ Yet(e)' = Yet(e) BY <2>1, <2>2, <2>3 DEF Own, Yet
  <2>5. Edits(e)' = Edits(e) BY <2>1, <2>2, <2>3 DEF Edits
  <2> QED BY <2>1, <2>2, <2>3, <2>4, <2>5
<1>4. \A e \in Loops : Range(batch[e].rest) \subseteq Rows /\ Range(Group(e)) \subseteq Rows
  BY LoopTypes DEF Texts, Range
<1>5. \A e \in Loops : Absorbed(e) \subseteq Range(Group(e))
  BY LoopTypes DEF Absorbed, Range, Texts
<1>6. \A e \in Loops : Own(e) \subseteq Rows /\ Yet(e) \subseteq Own(e)
  BY <1>4, <1>5 DEF Own, Yet
<1>7. Homes'
  <2> SUFFICES ASSUME NEW i \in Rows \ reposted, NEW m \in Nat, NEW n \in Nat, Bears(i, m)', Bears(i, n)'
               PROVE  m = n
    BY <1>1 DEF Homes
  <2>1. Bears(i, m) \/ (i \in new /\ m = h) OBVIOUS
  <2>2. Bears(i, n) \/ (i \in new /\ n = h) OBVIOUS
  <2>3. i \in new => m = h /\ n = h BY <2>1, <2>2
  <2> QED BY <2>1, <2>2, <2>3 DEF OnceInv, Homes
<1>8. Owned'
  <2>1. ASSUME NEW e \in Loops, e /= d PROVE Sole(e)' /\ Marked(e)'
    <3>1. Sole(e)' BY <1>3, <2>1 DEF OnceInv, Owned, Sole
    <3>2. Marked(e)' BY <1>3, <1>6, <2>1 DEF OnceInv, Owned, Marked
    <3> QED BY <3>1, <3>2
  <2>2. \A b, c \in Loops : b /= c => Own(b)' \cap Own(c)' = {}
    BY <1>3 DEF OnceInv, Owned
  <2> QED BY <2>1, <2>2 DEF Owned
<1>9. Unsent'
  <2>1. \A i \in Rows : status'[i] \in {"none", "pending", "waiting"} => Unseen(i)' BY <1>2
  <2>2. ASSUME NEW e \in Loops, NEW i \in Yet(e)' PROVE Unseen(i)'
    <3>1. CASE e = d BY <1>2, <2>2, <3>1
    <3>2. CASE e /= d
      <4>1. i \in Yet(e) /\ i \in Own(e) /\ i \in Rows BY <1>3, <1>6, <2>2, <3>2
      <4>2. i \notin new BY <3>2, <4>1 DEF OnceInv, Owned
      <4> QED BY <1>2, <4>1, <4>2 DEF OnceInv, Unsent
    <3> QED BY <3>1, <3>2
  <2> QED BY <1>1, <2>1, <2>2 DEF Unsent
<1>10. ASSUME NEW e \in Loops, e /= d PROVE OnlyIn(e)'
  <2>1. OnlyIn(e) BY DEF OnceInv
  <2>2. ASSUME pc[e] \in {"mark", "progress"}, NEW i \in Range(Group(e)) \ reposted', NEW m \in Nat,
               Bears(i, m)'
        PROVE  m = sent[e]
    <3>1. i \in Own(e) /\ i \in Rows BY <1>4, <2>2 DEF Own
    <3>2. i \notin new BY <1>10, <3>1 DEF OnceInv, Owned
    <3>3. Bears(i, m) BY <2>2, <3>1, <3>2
    <3> QED BY <2>1, <2>2, <3>3 DEF OnlyIn
  <2> QED BY <1>3, <1>10, <2>1, <2>2 DEF OnlyIn
<1> QED BY <1>7, <1>8, <1>9, <1>10 DEF OnceInv

(* What is in nobody's loop is not owned, and the first of a group is not absorbed. *)
LEMMA OwnFacts ==
  ASSUME TypeOK, Places, OnceInv, NEW d \in Loops
  PROVE  /\ Own(d) \subseteq Rows /\ Yet(d) \subseteq Own(d) /\ Absorbed(d) \subseteq Range(Group(d))
         /\ Range(batch[d].rest) \subseteq Rows /\ Range(Group(d)) \subseteq Rows
         /\ \A i \in Own(d) : status[i] \in {"claimed", "delivered"}
         /\ pc[d] \notin {"claim", "absent"} =>
              Row(d) \notin Absorbed(d) /\ Row(d) \notin Range(batch[d].rest)
         /\ pc[d] \in {"claim", "absent"} => Own(d) = {} /\ Yet(d) = {}
<1>1. Group(d) \in Texts /\ batch[d].rest \in Texts BY LoopTypes
<1>2. Range(batch[d].rest) \subseteq Rows /\ Range(Group(d)) \subseteq Rows
      /\ Absorbed(d) \subseteq Range(Group(d))
  BY <1>1 DEF Texts, Range, Absorbed
<1>3. Own(d) \subseteq Rows /\ Yet(d) \subseteq Own(d) BY <1>2 DEF Own, Yet
<1>4. \A i \in Own(d) : status[i] \in {"claimed", "delivered"} BY DEF OnceInv, Owned, Marked
<1>5. ASSUME pc[d] \notin {"claim", "absent"}
      PROVE  Row(d) \notin Absorbed(d) /\ Row(d) \notin Range(batch[d].rest)
  <2>1. Group(d) /= <<>> BY <1>5 DEF Places
  <2>2. 1 \in DOMAIN Group(d) /\ Row(d) = Group(d)[1] BY <1>1, <2>1 DEF Texts, Row
  <2>3. NoRepeat(Group(d)) /\ Range(Group(d)) \cap Range(batch[d].rest) = {}
    BY DEF OnceInv, Owned, Sole
  <2>4. \A k \in 2 .. Len(Group(d)) : k \in DOMAIN Group(d) /\ k /= 1 BY <1>1 DEF Texts
  <2>5. Row(d) \notin Absorbed(d) BY <2>2, <2>3, <2>4 DEF Absorbed, NoRepeat
  <2> QED BY <2>2, <2>3, <2>5 DEF Range
<1>6. ASSUME pc[d] \in {"claim", "absent"} PROVE Own(d) = {} /\ Yet(d) = {}
  <2>1. Group(d) = <<>> /\ batch[d].rest = <<>> BY <1>6 DEF Places, NoBatch, Group
  <2> QED BY <1>6, <2>1 DEF Own, Yet, Range
<1> QED BY <1>2, <1>3, <1>4, <1>5, <1>6

(* What a loop forgets or reads in Redis puts no row in another place. *)
LEMMA Quiet ==
  ASSUME TypeOK, OnceInv, kind' = kind, NEW d \in Loops, Step(d), UNCHANGED <<chat, place>>,
         seen'[d] \in {seen[d], place, NoPlace}, reposted \subseteq reposted'
  PROVE  (\A i \in Rows, m \in Nat : Bears(i, m)' => Bears(i, m)) /\ Clean'
<1>1. \A e \in Loops : e /= d => seen'[e] = seen[e] BY OthersStay
<1>2. Range(NoPlace.text) = {} /\ NoRepeat(NoPlace.text) BY DEF NoPlace, Range, NoRepeat
<1>3. ASSUME NEW i \in Rows, NEW m \in Nat, Bears(i, m)' PROVE Bears(i, m)
  <2>1. ASSUME NEW e \in Loops, seen'[e].msg = m, i \in Range(seen'[e].text) PROVE Bears(i, m)
    <3>1. CASE seen'[e] = seen[e] BY <2>1, <3>1 DEF Bears
    <3>2. CASE seen'[e] = place BY <2>1, <3>2 DEF Bears
    <3> QED BY <1>1, <1>2, <2>1, <3>1, <3>2
  <2> QED BY <1>3, <2>1 DEF Bears
<1>4. Clean'
  <2>1. \A e \in Loops : NoRepeat(seen'[e].text) BY <1>1, <1>2 DEF OnceInv, Clean
  <2> QED BY <2>1 DEF OnceInv, Clean
<1> QED BY <1>3, <1>4

(* A step of a loop that shows nothing, and settles no more than what is its own. *)
LEMMA OnceQuiet ==
  ASSUME TypeOK, Places, TypeOK', OnceInv, kind' = kind, NEW d \in Loops, Step(d),
         reposted \subseteq reposted',
         \A i \in Rows, m \in Nat : Bears(i, m)' => Bears(i, m),
         Clean', Sole(d)', Marked(d)', OnlyIn(d)',
         Own(d)' \subseteq Own(d), Yet(d)' \subseteq Yet(d),
         \A i \in Rows : \/ status'[i] = status[i]
                         \/ i \in Own(d) /\ (status'[i] \in {"delivered", "failed"} \/ i \in Yet(d))
  PROVE  OnceInv'
<1>1. /\ {} \in SUBSET Range(Group(d)) /\ {} \subseteq Own(d) /\ {} \cap Yet(d)' = {}
      /\ \A i \in Rows, m \in Nat : Bears(i, m)' => Bears(i, m) \/ (i \in {} /\ m = 0)
      /\ \A i \in {} \ reposted, m \in Nat : Bears(i, m) => m = 0
      /\ \A i \in {} : status'[i] \notin {"none", "pending", "waiting"}
  OBVIOUS
<1>2. Own(d) \subseteq Rows /\ Yet(d) \subseteq Own(d) BY OwnFacts
<1>3. \A e \in Loops : e /= d => Own(d)' \cap Own(e) = {} BY DEF OnceInv, Owned
<1>4. \A e \in Loops, i \in Rows : e /= d /\ i \in Own(e) => status'[i] = status[i]
  BY DEF OnceInv, Owned
<1>5. \A i \in Yet(d)' : Unseen(i) /\ i \in Rows BY <1>2 DEF OnceInv, Unsent
<1>6. \A i \in Rows : status'[i] \in {"none", "pending", "waiting"} => Unseen(i)
  BY DEF OnceInv, Unsent
<1> QED BY <1>1, <1>3, <1>4, <1>5, <1>6, OnceMove

(* A step of a loop that shows its group in message h. *)
LEMMA OnceShows ==
  ASSUME TypeOK, Places, TypeOK', OnceInv, kind' = kind, NEW d \in Loops, Step(d), NEW h,
         reposted \subseteq reposted',
         \A i \in Rows, m \in Nat : Bears(i, m)' => \/ Bears(i, m)
                                                  \/ (i \in Range(Group(d)) /\ m = h)
                                                  \/ (i \in reposted /\ ~Unseen(i)),
         \A i \in Range(Group(d)) \ reposted, m \in Nat : Bears(i, m) => m = h,
         Range(Group(d)) \subseteq Own(d), Own(d)' \subseteq Own(d), Yet(d)' = Range(batch[d].rest),
         UNCHANGED status, Clean', Sole(d)', Marked(d)', OnlyIn(d)'
  PROVE  OnceInv'
<1>1. Own(d) \subseteq Rows /\ \A i \in Own(d) : status[i] \in {"claimed", "delivered"} BY OwnFacts
<1>2. Range(Group(d)) \cap Yet(d)' = {} BY DEF OnceInv, Owned, Sole
<1>3. Yet(d)' \subseteq Yet(d) BY DEF Yet
<1>4. \A e \in Loops : e /= d => Own(d)' \cap Own(e) = {} BY DEF OnceInv, Owned
<1>5. \A i \in Yet(d)' : Unseen(i) /\ i \in Rows
  <2>1. Yet(d) \subseteq Own(d) BY OwnFacts
  <2> QED BY <1>1, <1>3, <2>1 DEF OnceInv, Unsent
<1>6. \A i \in Rows : status'[i] \in {"none", "pending", "waiting"} => Unseen(i)
  BY DEF OnceInv, Unsent
<1>7. \A i \in Range(Group(d)) : status'[i] \notin {"none", "pending", "waiting"} BY <1>1
<1>8. \A e \in Loops, i \in Rows : e /= d /\ i \in Own(e) => status'[i] = status[i] OBVIOUS
<1>9. Range(Group(d)) \in SUBSET Range(Group(d)) OBVIOUS
<1> QED BY <1>2, <1>4, <1>5, <1>6, <1>7, <1>8, <1>9, OnceMove

(* A loop's step shows nothing twice. *)
LEMMA OnceStep ==
  ASSUME TypeOK, Places, Next, TypeOK', Places', OnceInv, kind' = kind, met' \cap {"fails", "unsure"} = {},
         NEW d \in Loops, Step(d)
  PROVE  OnceInv'
<1>1. /\ chat \in Seq(Texts) /\ DOMAIN chat = 1 .. Len(chat) /\ Len(chat) \in Nat /\ <<>> \in Texts
      /\ place.msg \in 0 .. Len(chat) /\ place.text \in Texts /\ status \in [Rows -> Statuses]
  BY SMTT(30) DEF TypeOK, Texts
<1>2. /\ Group(d) \in Texts /\ batch[d].rest \in Texts /\ seen[d].text \in Texts
      /\ seen[d].msg \in 0 .. Len(chat) /\ sent[d] \in 0 .. Len(chat) /\ pc[d] \in PCs
      /\ pc[d] \notin {"claim", "absent"} => Row(d) \in Rows /\ Row(d) \in Range(Group(d))
  BY LoopTypes
<1>3. /\ Own(d) \subseteq Rows /\ Yet(d) \subseteq Own(d) /\ Absorbed(d) \subseteq Range(Group(d))
      /\ Range(batch[d].rest) \subseteq Rows /\ Range(Group(d)) \subseteq Rows
      /\ pc[d] \notin {"claim", "absent"} =>
           Row(d) \notin Absorbed(d) /\ Row(d) \notin Range(batch[d].rest)
      /\ pc[d] \in {"claim", "absent"} => Own(d) = {} /\ Yet(d) = {}
  BY OwnFacts
<1>4. /\ NoRepeat(Group(d)) /\ NoRepeat(batch[d].rest) /\ Range(Group(d)) \cap Range(batch[d].rest) = {}
      /\ Marked(d) /\ OnlyIn(d) /\ \A i \in Yet(d) : Unseen(i)
      /\ \A m \in DOMAIN chat : NoRepeat(chat[m])
      /\ NoRepeat(place.text) /\ \A e \in Loops : NoRepeat(seen[e].text)
  BY DEF OnceInv, Clean, Owned, Sole, Unsent
<1>5. ASSUME UNCHANGED batch
      PROVE  /\ Group(d)' = Group(d) /\ Row(d)' = Row(d) /\ Absorbed(d)' = Absorbed(d) /\ Sole(d)'
             /\ batch'[d] = batch[d]
  <2>1. Group(d)' = Group(d) BY <1>5 DEF Group
  <2> QED BY <1>4, <1>5, <2>1 DEF Row, Absorbed, Sole
<1>6. ASSUME UNCHANGED <<batch, seen>> PROVE Edits(d)' = Edits(d) BY <1>5, <1>6 DEF Edits
<1>7. ASSUME NEW rs, NEW s, status' = Set(rs, s), NEW i \in Rows
      PROVE  status'[i] = IF i \in rs THEN s ELSE status[i]
  BY <1>7 DEF Set
<1>8. ASSUME NEW rows \in Texts, NoRepeat(rows), batch'[d] \in Bursts(rows)
      PROVE  Sole(d)' /\ Range(Group(d)') \cup Range(batch'[d].rest) \subseteq Range(rows)
  BY <1>8, BurstOf DEF Texts, Sole, Group
<1>9. \A e \in Loops : e /= d => seen'[e] = seen[e] BY OthersStay
<1>0. reposted \subseteq reposted' BY Trails
<1>10. CASE Claim(d)
  <2>1. /\ pc[d] = "claim" /\ pc'[d] = "take" /\ status' = Set(Claimable, "claimed")
        /\ UNCHANGED <<chat, place, seen, sent>>
    BY <1>10, Moves
  <2>2. PICK rows \in InIdOrder(Claimable) : batch'[d] \in Bursts(rows) BY <1>10, Moves
  <2>3. rows \in Texts /\ Range(rows) \subseteq Claimable /\ NoRepeat(rows)
    BY <2>2, IdOrder DEF Claimable, Texts
  <2>4. Sole(d)' /\ Range(Group(d)') \cup Range(batch'[d].rest) \subseteq Claimable
    BY <1>8, <2>2, <2>3
  <2>5. Own(d)' \subseteq Claimable /\ Yet(d)' \subseteq Claimable BY <2>1, <2>4 DEF Own, Yet
  <2>6. Marked(d)' BY <1>7, <2>1, <2>5 DEF Marked, Claimable
  <2>7. OnlyIn(d)' BY <2>1 DEF OnlyIn
  <2>8. (\A i \in Rows, m \in Nat : Bears(i, m)' => Bears(i, m)) /\ Clean' BY <2>1, <1>0, Quiet
  <2>9. \A i \in Claimable : i \in Rows /\ status[i] = "pending" /\ Unseen(i)
    BY DEF Claimable, OnceInv, Unsent
  <2>10. \A e \in Loops : \A i \in Own(e) : i \notin Claimable
    <3>1. \A e \in Loops : \A i \in Own(e) : status[i] \in {"claimed", "delivered"} BY OwnFacts
    <3> QED BY <2>9, <3>1
  <2>11. \A e \in Loops : e /= d => Own(d)' \cap Own(e) = {} BY <2>5, <2>10
  <2>12. \A e \in Loops, i \in Rows : e /= d /\ i \in Own(e) => status'[i] = status[i]
    BY <1>7, <2>1, <2>10
  <2>13. \A i \in Yet(d)' : Unseen(i) /\ i \in Rows BY <2>5, <2>9
  <2>14. \A i \in Rows : status'[i] \in {"none", "pending", "waiting"} => Unseen(i)
    BY <1>7, <2>1 DEF OnceInv, Unsent
  <2>15. /\ {} \in SUBSET Range(Group(d)) /\ {} \subseteq Own(d) /\ {} \cap Yet(d)' = {}
         /\ \A i \in Rows, m \in Nat : Bears(i, m)' => Bears(i, m) \/ (i \in {} /\ m = 0)
         /\ \A i \in {} \ reposted, m \in Nat : Bears(i, m) => m = 0
         /\ \A i \in {} : status'[i] \notin {"none", "pending", "waiting"}
    BY <2>8
  <2> QED BY <2>4, <2>6, <2>7, <2>8, <2>11, <2>12, <2>13, <2>14, <2>15, <1>0, OnceMove
<1>11. CASE Take(d) \/ Refused(d, "transient") \/ Refused(d, "permanent")
  <2>1. /\ pc[d] \in {"take", "send", "post"} /\ pc'[d] \in {"send", "fail"}
        /\ UNCHANGED <<status, chat, place, batch>> /\ seen'[d] \in {seen[d], place, NoPlace}
    BY <1>11, Moves
  <2>2. Own(d)' = Own(d) /\ Yet(d)' = Yet(d) BY <1>5, <2>1 DEF Own, Yet
  <2>3. Marked(d)' BY <1>4, <1>5, <2>1, <2>2 DEF Marked
  <2>4. OnlyIn(d)' BY <2>1 DEF OnlyIn
  <2>5. (\A i \in Rows, m \in Nat : Bears(i, m)' => Bears(i, m)) /\ Clean' BY <1>0, <2>1, Quiet
  <2>6. Sole(d)' BY <1>5, <2>1
  <2> QED BY <1>0, <2>1, <2>2, <2>3, <2>4, <2>5, <2>6, OnceQuiet
<1>21. ASSUME pc[d] \in {"send", "post"}
       PROVE  /\ \A i \in Range(Group(d)) : Unseen(i)
              /\ Range(seen[d].text) \cap Range(Group(d)) = {} /\ NoRepeat(Text(d))
              /\ \A text \in Parts(d) :
                   /\ text \in Texts /\ NoRepeat(text)
                   /\ \A i \in Range(text) : i \in Range(Group(d)) \/ (Edits(d) /\ i \in Range(seen[d].text))
  <2>1. \A i \in Range(Group(d)) : Unseen(i) BY <1>4, <1>21 DEF Yet
  <2>2. Range(seen[d].text) \cap Range(Group(d)) = {} BY <1>1, <1>2, <2>1 DEF Unseen, Bears
  <2>3. /\ NoRepeat(seen[d].text \o Group(d))
        /\ Range(seen[d].text \o Group(d)) = Range(seen[d].text) \cup Range(Group(d))
    BY <1>2, <1>4, <2>2, Concat DEF Texts
  <2>4. /\ NoRepeat(Text(d))
        /\ \A i \in Range(Text(d)) : i \in Range(Group(d)) \/ (Edits(d) /\ i \in Range(seen[d].text))
    BY <1>4, <2>3 DEF Text
  <2>5. \A text \in Parts(d) : text \in Texts /\ Range(text) \subseteq Range(Text(d)) /\ NoRepeat(text)
    BY <1>21, <2>4, PartsOf
  <2> QED BY <2>1, <2>2, <2>4, <2>5
<1>12. CASE Send(d)
  <2>1. /\ pc[d] \in {"send", "post"} /\ pc'[d] = "mark"
        /\ UNCHANGED <<status, place, batch, seen, reposted>>
    BY <1>12, Moves
  <2>2. Own(d)' = Own(d) /\ Yet(d)' = Range(batch[d].rest) /\ Range(Group(d)) \subseteq Own(d)
    BY <1>5, <2>1 DEF Own, Yet
  <2>3. PICK text \in Parts(d) : Arrives(d, text) BY <1>12, Moves
  <2>4. /\ text \in Texts /\ NoRepeat(text)
        /\ \A i \in Range(text) : i \in Range(Group(d)) \/ (Edits(d) /\ i \in Range(seen[d].text))
    BY <1>21, <2>1
  <2>5. /\ DOMAIN chat \subseteq DOMAIN chat' /\ DOMAIN chat' \subseteq DOMAIN chat \cup {sent'[d]}
        /\ \A m \in DOMAIN chat : m /= sent'[d] => chat'[m] = chat[m]
        /\ sent'[d] \in DOMAIN chat' /\ chat'[sent'[d]] = text /\ sent'[d] /= 0
        /\ Edits(d) => sent'[d] = seen[d].msg \/ Range(seen[d].text) \subseteq reposted
    <3>1. CASE Editing(d) /\ sent'[d] = seen[d].msg /\ chat' = [chat EXCEPT ![seen[d].msg] = text]
      <4>1. seen[d].msg \in DOMAIN chat /\ seen[d].msg /= 0 BY <3>1, TextHas DEF Editing, Edits
      <4> QED BY <1>1, <2>4, <3>1, <4>1, Edited
    <3>2. CASE ~Editing(d) /\ sent'[d] = Len(chat) + 1 /\ chat' = Append(chat, text)
      <4>1. /\ DOMAIN chat' = DOMAIN chat \cup {Len(chat) + 1} /\ chat'[Len(chat) + 1] = text
            /\ \A m \in DOMAIN chat : chat'[m] = chat[m]
        BY <1>1, <2>4, <3>2, Posted
      <4>2. Len(chat) + 1 /= 0 BY <1>1
      <4>3. Edits(d) => Range(seen[d].text) \subseteq reposted BY <1>4, <2>1, <3>2 DEF Editing, OnlyIn
      <4> QED BY <3>2, <4>1, <4>2, <4>3
    <3> QED BY <2>3, <3>1, <3>2, Ends
  <2>6. ASSUME NEW i \in Rows, NEW m \in Nat, Bears(i, m)'
        PROVE  Bears(i, m) \/ (i \in Range(Group(d)) /\ m = sent'[d])
    <3>1. CASE m \in DOMAIN chat' /\ i \in Range(chat'[m]) /\ i \notin reposted
      <4>1. CASE m /= sent'[d] BY <2>5, <3>1, <4>1 DEF Bears
      <4>2. CASE m = sent'[d] /\ i \notin Range(Group(d))
        <5>1. Edits(d) /\ i \in Range(seen[d].text) BY <2>4, <2>5, <3>1, <4>2
        <5>2. m = seen[d].msg BY <2>5, <3>1, <4>2, <5>1
        <5> QED BY <5>1, <5>2 DEF Bears
      <4> QED BY <4>1, <4>2
    <3>2. CASE ~(m \in DOMAIN chat' /\ i \in Range(chat'[m]) /\ i \notin reposted)
      BY <2>1, <2>6, <3>2 DEF Bears
    <3> QED BY <3>1, <3>2
  <2>7. \A i \in Range(Group(d)), m \in Nat : Bears(i, m) => m = sent'[d] BY <1>21, <2>1 DEF Unseen
  <2>8. Clean' BY <1>4, <2>1, <2>4, <2>5 DEF Clean
  <2>9. Sole(d)' BY <1>5, <2>1
  <2>10. Marked(d)' BY <1>4, <1>5, <2>1, <2>2 DEF Marked
  <2>11. OnlyIn(d)'
    <3>1. \A i \in Range(Group(d)), m \in Nat : Bears(i, m)' => m = sent'[d] BY <1>3, <2>6, <2>7
    <3>2. Range(seen[d].text) \cap Range(Group(d)) = {} BY <1>21, <2>1
    <3> QED BY <1>5, <1>6, <2>1, <2>5, <3>1, <3>2 DEF OnlyIn
  <2> QED BY <1>0, <2>1, <2>2, <2>6, <2>7, <2>8, <2>9, <2>10, <2>11, OnceShows
<1>22. CASE EditRefused(d)
  <2>1. /\ pc[d] = "send" /\ pc'[d] = "post" /\ Edits(d)
        /\ UNCHANGED <<status, place, batch, seen, sent, outcome>>
    BY <1>22, Moves
  <2>2. Own(d)' = Own(d) /\ Yet(d)' = Yet(d) BY <1>5, <2>1 DEF Own, Yet
  <2>3. Marked(d)' BY <1>4, <1>5, <2>1, <2>2 DEF Marked
  <2>4. Sole(d)' BY <1>5, <2>1
  <2>5. Range(seen[d].text) \subseteq Range(Text(d)) BY <2>1, TextHas
  <2>6. Range(seen[d].text) \subseteq reposted' BY <1>22, <2>5, Moves
  <2>7. OnlyIn(d)' BY <2>1, <2>6 DEF OnlyIn
  <2>8. CASE UNCHANGED chat
    <3>1. (\A i \in Rows, m \in Nat : Bears(i, m)' => Bears(i, m)) /\ Clean' BY <1>0, <2>1, <2>8, Quiet
    <3> QED BY <1>0, <2>1, <2>2, <2>3, <2>4, <2>7, <3>1, OnceQuiet
  <2>9. ASSUME NEW text \in Parts(d), chat' = [chat EXCEPT ![seen[d].msg] = text],
               reposted' = reposted \cup Range(Text(d))
        PROVE  OnceInv'
    <3>1. text \in Texts /\ NoRepeat(text) /\ Range(text) \subseteq Range(Text(d))
      BY <1>21, <2>1, PartsOf
    <3>2. /\ DOMAIN chat' = DOMAIN chat
          /\ \A m \in DOMAIN chat : chat'[m] = chat[m] \/ chat'[m] = text
      BY <1>1, <2>9, <3>1, Edited
    <3>3. \A i \in Rows, m \in Nat : Bears(i, m)' => Bears(i, m)
      BY <1>0, <2>1, <2>9, <3>1, <3>2 DEF Bears
    <3>4. Clean' BY <1>4, <2>1, <3>1, <3>2 DEF Clean
    <3> QED BY <1>0, <2>1, <2>2, <2>3, <2>4, <2>7, <3>3, <3>4, OnceQuiet
  <2> QED BY <1>22, <2>8, <2>9, Moves
<1>13. CASE Upload(d)
  <2>1. /\ pc[d] = "send" /\ pc'[d] \in {"tidy", "markFile"} /\ chat' = Append(chat, Group(d))
        /\ UNCHANGED <<status, place, batch, seen>>
    BY <1>13, Moves
  <2>2. Own(d)' = Own(d) /\ Yet(d)' = Range(batch[d].rest) /\ Range(Group(d)) \subseteq Own(d)
    BY <1>5, <2>1 DEF Own, Yet
  <2>3. \A i \in Range(Group(d)) : Unseen(i) BY <1>4, <2>1 DEF Yet
  <2>4. PICK h : /\ DOMAIN chat' = DOMAIN chat \cup {h} /\ chat'[h] = Group(d)
                 /\ \A m \in DOMAIN chat : chat'[m] = chat[m]
    BY <1>1, <1>2, <2>1, Posted
  <2>5. ASSUME NEW i \in Rows, NEW m \in Nat, Bears(i, m)'
        PROVE  Bears(i, m) \/ (i \in Range(Group(d)) /\ m = h)
    BY <1>0, <2>1, <2>4, <2>5 DEF Bears
  <2>6. \A i \in Range(Group(d)) \ reposted, m \in Nat : Bears(i, m) => m = h
    BY <2>3 DEF Unseen
  <2>7. Clean' BY <1>4, <2>1, <2>4 DEF Clean
  <2>8. Sole(d)' BY <1>5, <2>1
  <2>9. Marked(d)' BY <1>4, <1>5, <2>1, <2>2 DEF Marked
  <2>10. OnlyIn(d)' BY <2>1 DEF OnlyIn
  <2>11. \A i \in Rows, m \in Nat : Bears(i, m)' => \/ Bears(i, m)
                                                   \/ (i \in Range(Group(d)) /\ m = h)
                                                   \/ (i \in reposted /\ ~Unseen(i))
    BY <2>5
  <2>12. UNCHANGED status /\ Own(d)' \subseteq Own(d) BY <2>1, <2>2
  <2> QED BY <1>0, <2>2, <2>6, <2>7, <2>8, <2>9, <2>10, <2>11, <2>12, OnceShows
<1>14. CASE Tidy(d) \/ ClearPlaceholder(d)
  <2>1. /\ pc[d] \in {"tidy", "clear"} /\ pc'[d] \in {"clear", "markFile"}
        /\ place' = place \/ place' = NoPlace
        /\ chat' = chat \/ chat' = [chat EXCEPT ![seen[d].msg] = <<>>]
        /\ UNCHANGED <<status, batch, seen>>
    BY <1>14, Moves
  <2>2. DOMAIN chat' = DOMAIN chat /\ \A m \in DOMAIN chat : chat'[m] \in {chat[m], <<>>}
    BY <1>1, <2>1, Edited
  <2>3. Range(<<>>) = {} /\ NoRepeat(<<>>) /\ NoPlace.text = <<>> BY DEF Range, NoRepeat, NoPlace
  <2>4. \A i \in Rows, m \in Nat : Bears(i, m)' => Bears(i, m) BY <1>0, <2>1, <2>2, <2>3 DEF Bears
  <2>5. Clean' BY <1>4, <2>1, <2>2, <2>3 DEF Clean
  <2>6. Own(d)' = Own(d) /\ Yet(d)' = Yet(d) BY <1>5, <2>1 DEF Own, Yet
  <2>7. Marked(d)' BY <1>4, <1>5, <2>1, <2>6 DEF Marked
  <2>8. OnlyIn(d)' BY <2>1 DEF OnlyIn
  <2>9. Sole(d)' BY <1>5, <2>1
  <2> QED BY <1>0, <2>1, <2>4, <2>5, <2>6, <2>7, <2>8, <2>9, OnceQuiet
<1>15. CASE MarkDelivered(d)
  <2>1. /\ pc[d] \in {"mark", "markFile"} /\ pc'[d] = IF pc[d] = "mark" THEN "progress" ELSE "settle"
        /\ status' = Set({Row(d)}, "delivered") /\ outcome'[d] = "delivered"
        /\ UNCHANGED <<chat, place, batch, seen, sent>>
    BY <1>15, Moves
  <2>2. (\A i \in Rows, m \in Nat : Bears(i, m)' => Bears(i, m)) /\ Clean' BY <2>1, <1>0, Quiet
  <2>3. /\ Own(d)' \subseteq Own(d) /\ Yet(d)' \subseteq Yet(d) /\ Row(d) \in Own(d)
        /\ pc'[d] = "settle" => Row(d) \notin Own(d)'
    BY <1>2, <1>3, <1>5, <2>1 DEF Own, Yet
  <2>4. \A i \in Rows : status'[i] = IF i = Row(d) THEN "delivered" ELSE status[i] BY <1>7, <2>1
  <2>5. Marked(d)' BY <1>3, <1>4, <1>5, <2>1, <2>3, <2>4 DEF Marked
  <2>6. OnlyIn(d)'
    <3>1. ASSUME pc[d] = "mark", NEW i \in Range(Group(d)) \ reposted', NEW m \in Nat, Bears(i, m)'
          PROVE  m = sent[d]
      BY <1>0, <1>3, <1>4, <2>2, <3>1 DEF OnlyIn
    <3> QED BY <1>0, <1>4, <1>5, <1>6, <2>1, <3>1 DEF OnlyIn
  <2>7. Sole(d)' BY <1>5, <2>1
  <2>8. \A i \in Rows : \/ status'[i] = status[i]
                        \/ i \in Own(d) /\ (status'[i] \in {"delivered", "failed"} \/ i \in Yet(d))
    BY <2>3, <2>4
  <2> QED BY <2>2, <2>3, <2>5, <2>6, <2>7, <2>8, <1>0, OnceQuiet
<1>16. CASE Progress(d)
  <2>1. /\ pc[d] = "progress" /\ pc'[d] = "settle" /\ place' = ProgressOf(d)
        /\ UNCHANGED <<status, chat, batch, seen, sent, outcome>>
    BY <1>16, Ends
  <2>2. /\ sent[d] /= 0 /\ outcome[d] = "delivered"
        /\ Edits(d) => /\ sent[d] = seen[d].msg \/ Range(seen[d].text) \subseteq reposted
                       /\ Range(seen[d].text) \cap Range(Group(d)) = {}
        /\ \A i \in Range(Group(d)) \ reposted, m \in Nat : Bears(i, m) => m = sent[d]
    BY <1>4, <2>1 DEF OnlyIn
  <2>3. /\ Own(d)' \subseteq Own(d) /\ Yet(d)' = Range(batch[d].rest) /\ Range(Group(d)) \subseteq Own(d)
        /\ Row(d) \notin Own(d)'
    BY <1>3, <1>5, <2>1, <2>2 DEF Own, Yet
  <2>4. /\ NoRepeat(Text(d))
        /\ \A i \in Range(Text(d)) : \/ i \in Range(Group(d))
                                      \/ Bears(i, sent[d])
                                      \/ (i \in reposted /\ ~Unseen(i))
    <3>1. CASE Edits(d)
      <4>1. /\ NoRepeat(seen[d].text \o Group(d))
            /\ Range(seen[d].text \o Group(d)) = Range(seen[d].text) \cup Range(Group(d))
        BY <1>2, <1>4, <2>2, <3>1, Concat DEF Texts
      <4>2. \A i \in Range(seen[d].text) : Bears(i, sent[d]) \/ (i \in reposted /\ ~Unseen(i))
        <5>1. \A i \in Range(seen[d].text) : Bears(i, seen[d].msg) /\ seen[d].msg \in Nat
          BY <1>1, <1>2 DEF Bears
        <5> QED BY <2>2, <3>1, <5>1 DEF Unseen
      <4> QED BY <3>1, <4>1, <4>2 DEF Text
    <3>2. CASE ~Edits(d) BY <1>4, <3>2 DEF Text
    <3> QED BY <3>1, <3>2
  <2>5. Range(NoPlace.text) = {} /\ NoRepeat(NoPlace.text) BY DEF NoPlace, Range, NoRepeat
  <2>6. \/ place'.msg = sent[d] /\ place'.text = Text(d)
        \/ place' = NoPlace
        \/ place' = place
    BY <2>1 DEF ProgressOf
  <2>7. ASSUME NEW i \in Rows, NEW m \in Nat, Bears(i, m)'
        PROVE  \/ Bears(i, m)
               \/ (i \in Range(Group(d)) /\ m = sent[d])
               \/ (i \in reposted /\ ~Unseen(i))
    <3>1. CASE place'.msg = m /\ i \in Range(place'.text)
      BY <2>4, <2>5, <2>6, <3>1 DEF Bears
    <3>2. CASE ~(place'.msg = m /\ i \in Range(place'.text)) BY <1>0, <2>1, <2>7, <3>2 DEF Bears
    <3> QED BY <3>1, <3>2
  <2>8. Clean' BY <1>4, <2>1, <2>4, <2>5, <2>6 DEF Clean
  <2>9. Sole(d)' BY <1>5, <2>1
  <2>10. Marked(d)' BY <1>4, <2>1, <2>3 DEF Marked
  <2>11. OnlyIn(d)' BY <2>1 DEF OnlyIn
  <2> QED BY <2>1, <2>2, <2>3, <2>7, <2>8, <2>9, <2>10, <2>11, <1>0, OnceShows
<1>17. CASE RecordFailure(d)
  <2>1. /\ pc[d] = "fail" /\ pc'[d] = "settle" /\ UNCHANGED <<chat, place, batch, seen, sent, outcome>>
        /\ \E s \in {"failed", "waiting"} : status' = Set({Row(d)}, s)
    BY <1>17, Ends
  <2>2. (\A i \in Rows, m \in Nat : Bears(i, m)' => Bears(i, m)) /\ Clean' BY <2>1, <1>0, Quiet
  <2>3. /\ Own(d)' \subseteq Own(d) /\ Yet(d)' \subseteq Yet(d) /\ Row(d) \in Yet(d)
        /\ Row(d) \notin Own(d)'
    BY <1>2, <1>3, <1>5, <2>1 DEF Own, Yet
  <2>4. \A i \in Rows : i = Row(d) \/ status'[i] = status[i] BY <1>7, <2>1
  <2>5. Marked(d)' BY <1>3, <1>4, <2>1, <2>3, <2>4 DEF Marked
  <2>6. OnlyIn(d)' BY <2>1 DEF OnlyIn
  <2>7. Sole(d)' BY <1>5, <2>1
  <2>8. \A i \in Rows : \/ status'[i] = status[i]
                        \/ i \in Own(d) /\ (status'[i] \in {"delivered", "failed"} \/ i \in Yet(d))
    BY <1>3, <2>3, <2>4
  <2> QED BY <2>2, <2>3, <2>5, <2>6, <2>7, <2>8, <1>0, OnceQuiet
<1>18. CASE Settle(d)
  <2>1. /\ pc[d] = "settle" /\ pc'[d] \in {"claim", "take"} /\ seen'[d] = NoPlace
        /\ status' = Set(Absorbed(d), IF outcome[d] = "delivered" THEN "delivered" ELSE "waiting")
        /\ batch'[d] \in Bursts(batch[d].rest) /\ UNCHANGED <<chat, place>>
    BY <1>18, Ends
  <2>2. (\A i \in Rows, m \in Nat : Bears(i, m)' => Bears(i, m)) /\ Clean' BY <2>1, <1>0, Quiet
  <2>3. Sole(d)' /\ Range(Group(d)') \cup Range(batch'[d].rest) \subseteq Range(batch[d].rest)
    BY <1>2, <1>4, <1>8, <2>1
  <2>4. Own(d)' \subseteq Range(batch[d].rest) /\ Yet(d)' \subseteq Range(batch[d].rest)
    BY <2>1, <2>3 DEF Own, Yet
  <2>5. Range(batch[d].rest) \subseteq Own(d) /\ Range(batch[d].rest) \subseteq Yet(d)
    BY DEF Own, Yet
  <2>6. /\ Absorbed(d) \subseteq Own(d)
        /\ outcome[d] /= "delivered" => Absorbed(d) \subseteq Yet(d)
    BY <2>1 DEF Own, Yet
  <2>7. \A i \in Rows : i \in Absorbed(d) \/ status'[i] = status[i] BY <1>7, <2>1
  <2>8. \A i \in Absorbed(d) \cap Rows : outcome[d] = "delivered" => status'[i] = "delivered"
    BY <1>7, <2>1
  <2>9. Marked(d)'
    <3>1. \A i \in Own(d)' : i \in Rows /\ i \notin Absorbed(d) /\ i \in Own(d)
      BY <1>3, <1>4, <2>4, <2>5
    <3> QED BY <1>4, <2>1, <2>7, <3>1 DEF Marked
  <2>10. OnlyIn(d)' BY <2>1 DEF OnlyIn
  <2>11. \A i \in Rows : \/ status'[i] = status[i]
                         \/ i \in Own(d) /\ (status'[i] \in {"delivered", "failed"} \/ i \in Yet(d))
    BY <2>6, <2>7, <2>8
  <2>12. Own(d)' \subseteq Own(d) /\ Yet(d)' \subseteq Yet(d) BY <2>4, <2>5
  <2> QED BY <2>2, <2>3, <2>9, <2>10, <2>11, <2>12, <1>0, OnceQuiet
<1>19. CASE Dies(d)
  <2>1. /\ pc'[d] = "claim" /\ batch'[d] = NoBatch /\ seen'[d] = NoPlace /\ UNCHANGED <<status, chat, place>>
    BY <1>19, Ends
  <2>2. (\A i \in Rows, m \in Nat : Bears(i, m)' => Bears(i, m)) /\ Clean' BY <2>1, <1>0, Quiet
  <2>3. Group(d)' = <<>> /\ batch'[d].rest = <<>> BY <2>1 DEF Group, NoBatch
  <2>4. Range(<<>>) = {} /\ NoRepeat(<<>>) BY DEF Range, NoRepeat
  <2>5. Own(d)' = {} /\ Yet(d)' = {} /\ Sole(d)' BY <2>1, <2>3, <2>4 DEF Own, Yet, Sole
  <2>6. Marked(d)' /\ OnlyIn(d)' BY <2>1, <2>5 DEF Marked, OnlyIn
  <2> QED BY <2>1, <2>2, <2>5, <2>6, <1>0, OnceQuiet
<1>20. ~SendUnsure(d) /\ ~MarkRaises(d) BY Moves
<1> QED
  BY <1>10, <1>11, <1>12, <1>13, <1>14, <1>15, <1>16, <1>17, <1>18, <1>19, <1>20, <1>22
   DEF Step, Deliver

(* What nobody's loop does shows nothing. *)
LEMMA OnceOutside ==
  ASSUME TypeOK, Places, OnceInv, Outside, kind' = kind
  PROVE  OnceInv'
<1>1. /\ chat \in Seq(Texts) /\ DOMAIN chat = 1 .. Len(chat) /\ Len(chat) \in Nat /\ <<>> \in Texts
      /\ status \in [Rows -> Statuses] /\ Rows' = Rows
  BY DEF TypeOK, Texts, Rows
<1>2. UNCHANGED <<pc, batch, seen, sent, outcome, reposted>> BY LoopsStay
<1>3. ASSUME NEW d \in Loops
      PROVE  /\ Group(d)' = Group(d) /\ Row(d)' = Row(d) /\ Own(d)' = Own(d) /\ Yet(d)' = Yet(d)
             /\ Edits(d)' = Edits(d) /\ Sole(d)' = Sole(d)
  <2>1. Group(d)' = Group(d) BY <1>2 DEF Group
  <2>2. Row(d)' = Row(d) /\ Absorbed(d)' = Absorbed(d) BY <2>1 DEF Row, Absorbed
  <2>3. Own(d)' = Own(d) /\ Yet(d)' = Yet(d) BY <1>2, <2>1, <2>2 DEF Own, Yet
  <2>4. Edits(d)' = Edits(d) BY <1>2, <2>1, <2>2 DEF Edits
  <2> QED BY <1>2, <2>1, <2>2, <2>3, <2>4 DEF Sole
<1>4. /\ \A m \in DOMAIN chat' : (m \in DOMAIN chat /\ chat'[m] = chat[m]) \/ chat'[m] = <<>>
      /\ place' = place \/ place'.text = <<>>
      /\ \A i \in Rows : \/ status'[i] = status[i]
                         \/ status'[i] = "pending" /\ status[i] \in {"none", "waiting"}
  <2>1. ASSUME NEW i \in Rows, Enqueue(i) \/ BackedOff(i)
        PROVE  UNCHANGED <<chat, place>> /\ status[i] \in {"none", "waiting"}
                 /\ \A j \in Rows : status'[j] = IF j = i THEN "pending" ELSE status[j]
    BY <2>1 DEF Enqueue, BackedOff, Set
  <2>2. CASE Ask \/ \E i \in Rows : Ages(i) BY <2>2 DEF Ask, Ages
  <2>3. CASE Lapse
    <3>1. UNCHANGED <<chat, status>> /\ place' = NoPlace BY <2>3 DEF Lapse
    <3> QED BY <3>1 DEF NoPlace
  <2>4. CASE PostPlaceholder
    <3>1. UNCHANGED status /\ chat' = Append(chat, <<>>) /\ place'.text = <<>>
      BY <2>4 DEF PostPlaceholder
    <3> QED BY <1>1, <3>1, Posted
  <2> QED BY <2>1, <2>2, <2>3, <2>4 DEF Outside
<1>5. Range(<<>>) = {} /\ NoRepeat(<<>>) BY DEF Range, NoRepeat
<1>6. \A i, m : Bears(i, m)' => Bears(i, m) BY <1>2, <1>4, <1>5 DEF Bears
<1>7. \A i : Unseen(i) => Unseen(i)' BY <1>6 DEF Unseen
<1>8. Clean' BY <1>2, <1>4, <1>5 DEF OnceInv, Clean
<1>9. Homes' BY <1>1, <1>2, <1>6 DEF OnceInv, Homes
<1>10. Owned'
  <2>1. ASSUME NEW d \in Loops PROVE Marked(d)'
    <3>1. \A i \in Own(d) : i \in Rows /\ status[i] \in {"claimed", "delivered"} BY OwnFacts
    <3>2. \A i \in Own(d) : status'[i] = status[i] BY <1>4, <3>1
    <3> QED BY <1>2, <1>3, <3>2 DEF OnceInv, Owned, Marked
  <2> QED BY <1>3, <2>1 DEF OnceInv, Owned
<1>11. Unsent' BY <1>1, <1>3, <1>4, <1>7 DEF OnceInv, Unsent
<1>12. \A d \in Loops : OnlyIn(d)' BY <1>2, <1>3, <1>6 DEF OnceInv, OnlyIn
<1> QED BY <1>8, <1>9, <1>10, <1>11, <1>12 DEF OnceInv

(* ------------------------------ the theorems --------------------------- *)

(* At the start nothing has been sent and nobody holds a row. *)
LEMMA InitIInv == Init => IInv
<1> SUFFICES ASSUME Init PROVE IInv OBVIOUS
<1>1. PICK s \in Scenarios :
        /\ kind = s.rows /\ left = s.left /\ met = {}
        /\ status = [i \in DOMAIN s.rows |-> "none"] /\ old = [i \in DOMAIN s.rows |-> FALSE]
        /\ chat = <<>> /\ place = NoPlace /\ asking = FALSE
        /\ pc = [d \in Loops |-> IF d \in s.loops THEN "claim" ELSE "absent"]
        /\ batch = [d \in Loops |-> NoBatch] /\ seen = [d \in Loops |-> NoPlace]
        /\ sent = [d \in Loops |-> 0] /\ outcome = [d \in Loops |-> "none"]
        /\ gone = {} /\ cut = {} /\ reposted = {}
  BY DEF Init
<1>2. s.rows \in Seq(Kinds) /\ s.left \in [Inputs -> Nat] BY ScenariosAssumption DEF Scenario
<1>3. /\ NoPlace.text = <<>> /\ NoPlace.msg = 0 /\ NoBatch.group = <<>> /\ NoBatch.rest = <<>>
      /\ Range(<<>>) = {} /\ NoRepeat(<<>>) /\ Len(<<>>) = 0 /\ DOMAIN <<>> = {}
      /\ NoPlace \in [msg : 0 .. 0, text : Seq(Rows)] /\ NoBatch \in [group : Seq(Rows), rest : Seq(Rows)]
      /\ <<>> \in Seq(Seq(Rows))
  BY DEF NoPlace, NoBatch, Range, NoRepeat
<1>4. TypeOK
  <2>1. /\ kind \in Seq(Kinds) /\ left \in [Inputs -> Nat] /\ status \in [Rows -> Statuses]
        /\ old \in [Rows -> BOOLEAN] /\ asking \in BOOLEAN /\ met \subseteq Inputs
    BY <1>1, <1>2 DEF Rows, Statuses
  <2>2. pc \in [Loops -> PCs] BY <1>1 DEF PCs
  <2>3. outcome \in [Loops -> Outcomes] /\ sent \in [Loops -> 0 .. Len(chat)]
    BY <1>1, <1>3 DEF Outcomes
  <2>4. /\ chat \in Seq(Seq(Rows)) /\ place \in [msg : 0 .. Len(chat), text : Seq(Rows)]
        /\ batch \in [Loops -> [group : Seq(Rows), rest : Seq(Rows)]]
        /\ seen \in [Loops -> [msg : 0 .. Len(chat), text : Seq(Rows)]]
    BY <1>1, <1>3
  <2> QED BY <1>1, <2>1, <2>2, <2>3, <2>4 DEF TypeOK
<1>5. \A d \in Loops : /\ pc[d] \in {"claim", "absent"} /\ batch[d] = NoBatch /\ seen[d] = NoPlace
                       /\ Group(d) = <<>> /\ batch[d].rest = <<>>
  BY <1>1, <1>3 DEF Group
<1>6. Places BY <1>3, <1>5 DEF Places
<1>7. OnceInv
  <2>1. \A i, m : ~Bears(i, m) BY <1>1, <1>3, <1>5 DEF Bears
  <2>2. \A d \in Loops : Own(d) = {} /\ Yet(d) = {} BY <1>3, <1>5 DEF Own, Yet
  <2>3. Homes /\ Unsent BY <2>1, <2>2 DEF Homes, Unsent, Unseen
  <2>4. Clean BY <1>1, <1>3, <1>5 DEF Clean
  <2>5. Owned BY <1>3, <1>5, <2>2 DEF Owned, Sole, Marked
  <2>6. \A d \in Loops : OnlyIn(d) BY <1>5 DEF OnlyIn
  <2> QED BY <2>3, <2>4, <2>5, <2>6 DEF OnceInv
<1>8. LostInv
  <2>1. \A i \in Rows : status[i] = "none" BY <1>1 DEF Rows
  <2> QED BY <1>5, <2>1 DEF LostInv, AsSent
<1> QED BY <1>4, <1>6, <1>7, <1>8 DEF IInv

(* Every step keeps the invariant. *)
LEMMA NextIInv == IInv /\ [Next]_vars => IInv'
<1> SUFFICES ASSUME IInv, [Next]_vars PROVE IInv' OBVIOUS
<1>1. TypeOK /\ Places BY DEF IInv
<1>2. CASE Next
  <2>1. TypeOK' /\ Places' /\ kind' = kind BY <1>1, <1>2, FrameStep, RowTypes
  <2>2. ASSUME Calm' PROVE OnceInv'
    <3>1. Calm /\ met' \cap {"fails", "unsure"} = {} BY <1>1, <1>2, <2>2, InputTypes DEF Calm
    <3>2. OnceInv BY <3>1 DEF IInv
    <3>3. CASE Outside BY <1>1, <2>1, <3>2, <3>3, OnceOutside
    <3>4. ASSUME NEW d \in Loops, Step(d) PROVE OnceInv'
      BY <1>1, <1>2, <2>1, <3>1, <3>2, <3>4, OnceStep
    <3> QED BY <1>2, <3>3, <3>4 DEF Next, Step, Outside
  <2>3. ASSUME Alone' PROVE LostInv'
    <3>1. Alone /\ met' \cap {"fails", "deaths"} = {} BY <1>1, <1>2, <2>3, StaysAlone
    <3>2. LostInv BY <3>1 DEF IInv
    <3>3. CASE Outside BY <1>1, <2>1, <3>2, <3>3, LostOutside
    <3>4. ASSUME NEW d \in Loops, Step(d) PROVE LostInv'
      BY <1>1, <1>2, <2>1, <3>1, <3>2, <3>4, LostStep
    <3> QED BY <1>2, <3>3, <3>4 DEF Next, Step, Outside
  <2> QED BY <2>1, <2>2, <2>3 DEF IInv
<1>3. CASE UNCHANGED vars
  <2>1. UNCHANGED <<kind, status, old, chat, place, asking, pc, batch, seen, sent, outcome,
                  gone, cut, reposted, met, left>>
    BY <1>3 DEF vars
  <2>2. TypeOK' /\ Places'
    BY <1>1, <2>1 DEF TypeOK, Places, Rows, Group, Row
  <2>3. OnceInv' = OnceInv
    BY <2>1 DEF OnceInv, Homes, Clean, Owned, Unsent, OnlyIn, Unseen, Bears, Sole, Marked, Own, Yet, Absorbed,
                Edits, Rows, Group, Row
  <2>4. LostInv' = LostInv
    BY <2>1 DEF LostInv, AsSent, Safe, Text, Edits, Rows, Group, Row
  <2>5. (Calm' <=> Calm) /\ (Alone' <=> Alone) BY <2>1 DEF Calm, Alone, Crowded
  <2> QED BY <2>2, <2>3, <2>4, <2>5 DEF IInv
<1> QED BY <1>2, <1>3

(* The types, the places of the loops, that each row is at home in one message while no call
   raises after its effect, and that a delivered row is safe where one loop runs. *)
THEOREM Invariant == Spec => []IInv
BY InitIInv, NextIInv, PTL DEF Spec

(* What was delivered and not cut off can be read, for any rows and however many refused edits,
   retries, lapsed records and placeholders, with one loop and no lost note of an edit. *)
THEOREM NothingIsLost == Spec => []NothingLost
<1>1. IInv => NothingLost
  <2> SUFFICES ASSUME IInv, ~Crowded, met \cap {"fails", "deaths"} = {},
                      NEW i \in Rows \ cut, status[i] = "delivered"
               PROVE  Showing(i) /= {}
    BY DEF NothingLost
  <2>1. Safe(i) BY DEF IInv, Alone, LostInv
  <2> QED BY <2>1 DEF Safe, Showing
<1>2. Spec => []IInv BY Invariant
<1> QED BY <1>1, <1>2, PTL

(* No row but those of a refused edit is shown in two messages, and none twice in one, by any
   number of loops, deaths included, while no call raises after the message has arrived. *)
THEOREM NothingIsShownTwice == Spec => []ShownOnce
<1>1. IInv => ShownOnce
  <2> SUFFICES ASSUME IInv, met \cap {"fails", "unsure"} = {}, NEW i \in Rows
               PROVE  /\ i \notin reposted => Cardinality(Showing(i)) <= 1
                      /\ \A m \in Showing(i) : Cardinality({k \in DOMAIN chat[m] : chat[m][k] = i}) = 1
    BY DEF ShownOnce
  <2>1. OnceInv /\ TypeOK BY DEF IInv, Calm
  <2>2. \A m \in Showing(i) : m \in DOMAIN chat /\ m \in Nat /\ (i \notin reposted => Bears(i, m))
    BY <2>1 DEF TypeOK, Showing, Bears
  <2>4. ASSUME i \notin reposted PROVE Cardinality(Showing(i)) <= 1
    <3>0. \A m, n \in Showing(i) : m = n BY <2>1, <2>2, <2>4 DEF OnceInv, Homes
    <3>1. CASE Showing(i) = {}
      <4>1. Cardinality(Showing(i)) = 0 BY <3>1, FS_EmptySet
      <4> QED BY <4>1
    <3>2. ASSUME NEW m \in Showing(i) PROVE Cardinality(Showing(i)) <= 1
      <4>1. Showing(i) = {m} BY <3>0, <3>2
      <4>2. Cardinality({m}) = 1 BY FS_Singleton
      <4> QED BY <4>1, <4>2
    <3> QED BY <3>1, <3>2
  <2>5. ASSUME NEW m \in Showing(i) PROVE Cardinality({k \in DOMAIN chat[m] : chat[m][k] = i}) = 1
    <3>1. NoRepeat(chat[m]) BY <2>1, <2>2 DEF OnceInv, Clean
    <3>2. PICK k \in DOMAIN chat[m] : chat[m][k] = i BY DEF Showing, Range
    <3>3. {j \in DOMAIN chat[m] : chat[m][j] = i} = {k} BY <3>1, <3>2 DEF NoRepeat
    <3> QED BY <3>3, FS_Singleton
  <2> QED BY <2>4, <2>5
<1>2. Spec => []IInv BY Invariant
<1> QED BY <1>1, <1>2, PTL
=============================================================================
