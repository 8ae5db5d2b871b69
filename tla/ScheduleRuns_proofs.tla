------------------------- MODULE ScheduleRuns_proofs -------------------------
(***************************************************************************)
(* Proofs about the runs of Schedule, for any replicas, ceilings, kinds of *)
(* schedule and inputs: they do not overlap, and there are no more of them *)
(* than the schedule's limit.                                              *)
(***************************************************************************)
EXTENDS Schedule_proofs

(* ------------------------- the inductive invariant --------------------- *)

\* Where a replica has claimed an instant and not yet looked at the run before it, and
\* where it starts the run.
Before == {"beat2", "beat2Set", "look"}
Starting == {"create", "ask", "enqueue", "mark"}
Nobody == \A p \in Tickers : pc[p] \notin Starting

\* The instants are numbers up to planned, and runs have different ones.  A replica that
\* starts a run has that of the instant it claimed.  Only a dynamic loop's runs have a
\* next instant to choose.
Instants ==
  /\ row.next <= planned
  /\ \A r \in DOMAIN runs : /\ runs[r].key > 0 /\ runs[r].key <= planned
                            /\ runs[r].closing /= "no" => row.kind = "dynamic"
  /\ \A r, s \in DOMAIN runs : runs[r].key = runs[s].key => r = s
  /\ \A p \in Tickers : /\ claim[p].next <= planned
                        /\ pc[p] \in Claimed => claim[p].next > 0
                        /\ pc[p] \in {"ask", "enqueue", "mark"} =>
                             run[p] \in DOMAIN runs /\ runs[run[p]].key = claim[p].next

\* What has no plan, and what was stopped.
Resting == /\ row.status /= "active" => row.next = 0
           /\ \A r \in DOMAIN runs : runs[r].status = "paused" => row.status = "cancelled"

\* One replica at a time; what it claimed is still the row's last run and, unless a
\* person or a run planned another, the row's instant.
Leading ==
  /\ \A p \in Tickers : pc[p] \notin {"idle", "absent"} => leader = p
  /\ \A p \in Tickers :
       /\ pc[p] /= "fail"
       /\ pc[p] \in Claimed => claim[p].last = row.last
       /\ pc[p] \in Claimed /\ row.status = "active" /\ row.kind /= "dynamic"
            /\ met \cap {"resumes", "nows", "updates"} = {} => claim[p].next = row.next

\* The row's last run is one that was recorded: its instant is neither the row's nor one
\* that is being started.
Recorded ==
  row.last /= 0 =>
    /\ row.last \in DOMAIN runs /\ runs[row.last].key /= row.next
    /\ \A p \in Tickers : pc[p] \in Claimed => runs[row.last].key /= claim[p].next

\* A run past its time limit is at work only if one overran.
Punctual ==
  \A r \in DOMAIN runs : runs[r].late /\ "overruns" \notin met =>
    /\ row.status = "cancelled"
    /\ \/ runs[r].status = "paused"
       \/ runs[r].status = "failed" /\ \A p \in Tickers : pc[p] \notin Claimed

\* One run is going; it is the last recorded, or the one that is being started, or the
\* one that a dead replica has left at the instant that is still the row's.
Apart ==
  /\ \A r, s \in DOMAIN runs : StillGoing(r) /\ StillGoing(s) => r = s
  /\ Nobody => \A r \in DOMAIN runs : StillGoing(r) =>
       /\ "deaths" \notin met => r = row.last
       /\ row.status = "active" => r = row.last \/ runs[r].key = row.next
  /\ \A p \in Tickers, r \in DOMAIN runs : StillGoing(r) =>
       /\ pc[p] \in Before => r = row.last \/ runs[r].key = claim[p].next
       /\ pc[p] \in Starting => runs[r].key = claim[p].next
       /\ pc[p] = "skip" => r = row.last

\* The last recorded run was over when the one that was left was made.
InOrder ==
  StillGoing(row.last) =>
    /\ Nobody /\ row.status = "active" => \A r \in DOMAIN runs : runs[r].key /= row.next
    /\ \A p \in Tickers : pc[p] \in Before => Keyed(p) = {}

\* The runs are those counted, and one that is being started or was left; a schedule that
\* goes on has not reached its limit.
Within ==
  /\ Len(runs) <= row.limit
  /\ Nobody => /\ row.status = "active" => row.count < row.limit
               /\ \/ Len(runs) <= row.count
                  \/ /\ "deaths" \in met /\ Len(runs) <= row.count + 1
                     /\ row.status = "active" => \E r \in DOMAIN runs : runs[r].key = row.next
  /\ \A p \in Tickers :
       /\ pc[p] \in Before \cup Starting =>
            /\ row.count < row.limit /\ Len(runs) <= row.count + 1
            /\ Keyed(p) = {} => Len(runs) <= row.count
       /\ pc[p] = "skip" => Len(runs) <= row.count
Limited == row.limit /= 0 /\ met \cap {"updates", "resumes"} = {} => Within

RunsInv == Instants /\ Resting /\ Leading /\ Recorded /\ Punctual /\ Apart /\ InOrder /\ Limited
IInv == TypeOK /\ (~Strayed => RunsInv)

(* --------------------------- steps that start nothing ------------------ *)

\* What has happened stays so, and a schedule is a dynamic loop or it is not.
Grows == met \subseteq met' /\ (row.kind = "dynamic" <=> row'.kind = "dynamic")

\* The row keeps its plan, ends or is put aside, or is planned anew: because it had no
\* plan, because its run is passed over, by a person, or by a run of a dynamic loop.
Kept == row'.status = row.status /\ row'.next = row.next /\ planned' = planned
Over == row'.status /= "active" /\ row'.next = 0 /\ planned' = planned
Replanned ==
  /\ row'.status = "active" /\ row'.next = planned + 1 /\ planned' = planned + 1
  /\ \/ "deaths" \notin met' \/ (row.status = "active" /\ row.next = 0)
     \/ \E p \in Tickers : pc[p] = "skip"
  /\ \/ row.kind = "dynamic" \/ met' \cap {"resumes", "nows", "updates"} /= {}
     \/ \A p \in Tickers : pc'[p] \notin Claimed
\* The control plane resumes it and plans nothing.
Woken == /\ row.status = "paused" /\ row.next = 0 /\ row'.status = "active" /\ row'.next = 0
         /\ planned' = planned /\ "resumes" \in met'
RowTame ==
  /\ row'.last = row.last /\ row'.count = row.count /\ planned' \in Nat
  /\ met' \cap {"updates", "resumes"} = {} =>
       row'.limit = row.limit /\ (row'.status = "active" => row.status = "active")
  /\ row.status = "cancelled" => row'.status = "cancelled"
  /\ Kept \/ Over \/ Replanned \/ Woken

\* No run is made or set going.
RunTame(r) ==
  /\ runs'[r].key = runs[r].key /\ (StillGoing(r)' => StillGoing(r))
  /\ runs'[r].closing /= "no" => runs[r].closing /= "no" \/ row.kind = "dynamic"
  /\ runs'[r].status = "paused" => runs[r].status = "paused" \/ row.status = "cancelled"
  /\ runs'[r].late /\ "overruns" \notin met' =>
       \/ runs[r].late /\ runs'[r].status = runs[r].status
       \/ row.status = "cancelled" /\ runs'[r].status = "paused"
       \/ row.status = "cancelled" /\ runs'[r].status = "failed"
            /\ \A p \in Tickers : pc'[p] \notin Claimed
RunsTame == /\ DOMAIN runs' = DOMAIN runs /\ Len(runs') = Len(runs)
            /\ \A r \in DOMAIN runs : RunTame(r)

\* No replica claims an instant or gets to, or past, starting its run.
TickTame ==
  \A p \in Tickers :
    /\ pc'[p] \notin {"idle", "absent"} => leader' = p
    /\ pc'[p] /= "fail" /\ claim'[p] \in {claim[p], NoClaim}
    /\ pc'[p] \in Claimed => pc[p] \in Claimed /\ claim'[p] = claim[p]
    /\ pc'[p] \in Starting <=> pc[p] \in Starting
    /\ pc'[p] \in Before => pc[p] \in Before
    /\ pc'[p] = "skip" => pc[p] = "skip"
    /\ pc'[p] \in {"ask", "enqueue", "mark"} =>
         pc[p] \in {"ask", "enqueue", "mark"} /\ run'[p] = run[p]
Tame == Grows /\ ("deaths" \in met' => "deaths" \in met) /\ RowTame /\ RunsTame /\ TickTame

(* The types, of one row, run or replica. *)
LEMMA Types ==
  ASSUME TypeOK
  PROVE  /\ planned \in Nat /\ row.next \in Nat /\ row.last \in Nat /\ row.count \in Nat
         /\ row.limit \in Nat /\ Len(runs) \in Nat /\ DOMAIN runs = 1..Len(runs)
         /\ \A r \in DOMAIN runs : runs[r] \in Runs /\ runs[r].key \in Nat /\ r \in Nat /\ r /= 0
         /\ \A p \in Tickers : claim[p].next \in Nat /\ claim[p].last \in Nat /\ run[p] \in Nat
<1>1. /\ planned \in Nat /\ row.next \in Nat /\ row.last \in Nat /\ row.count \in Nat
      /\ row.limit \in Nat
  BY DEF TypeOK, RowOK, Rows
<1>2. runs \in Seq(Runs) BY DEF TypeOK
<1>3. Len(runs) \in Nat /\ DOMAIN runs = 1..Len(runs) BY <1>2
<1>4. ASSUME NEW r \in DOMAIN runs
      PROVE  runs[r] \in Runs /\ runs[r].key \in Nat /\ r \in Nat /\ r /= 0
  <2>1. runs[r] \in Runs /\ r \in Nat /\ r /= 0 BY <1>2, <1>3
  <2> QED BY <2>1 DEF Runs
<1>5. \A p \in Tickers : claim[p].next \in Nat /\ claim[p].last \in Nat /\ run[p] \in Nat
  BY DEF TypeOK, TickerOK
<1> QED BY <1>1, <1>3, <1>4, <1>5

(* What has strayed stays so. *)
LEMMA StaysCalm ==
  ASSUME Grows, ~Strayed'
  PROVE  ~Strayed
BY DEF Grows, Strayed

(* A tame step keeps the instants, and the one replica. *)
LEMMA TameFrame ==
  ASSUME TypeOK, TypeOK', RunsInv, Tame, ~Strayed'
  PROVE  Instants' /\ Resting' /\ Leading' /\ Recorded' /\ Punctual'
<1> USE DEF Tame
<1>0. /\ planned \in Nat /\ planned' \in Nat /\ planned <= planned' /\ row'.next <= planned'
      /\ \A r \in DOMAIN runs : runs[r].key \in Nat
  BY Types DEF RowTame, Kept, Over, Replanned, Woken, RunsInv, Instants
<1>1. Instants'
  <2>1. \A r \in DOMAIN runs' : /\ runs'[r].key > 0 /\ runs'[r].key <= planned'
                                /\ runs'[r].closing /= "no" => row'.kind = "dynamic"
    BY <1>0 DEF RunsTame, RunTame, RunsInv, Instants, Grows
  <2>2. \A r, s \in DOMAIN runs' : runs'[r].key = runs'[s].key => r = s
    BY DEF RunsTame, RunTame, RunsInv, Instants
  <2>3. \A p \in Tickers : /\ claim'[p].next <= planned'
                           /\ pc'[p] \in Claimed => claim'[p].next > 0
    <3>1. \A p \in Tickers : claim[p].next <= planned' /\ NoClaim.next <= planned'
      BY <1>0, Types DEF RunsInv, Instants, NoClaim
    <3> QED BY <3>1 DEF RunsInv, Instants, TickTame
  <2>4. \A p \in Tickers : pc'[p] \in {"ask", "enqueue", "mark"} =>
           run'[p] \in DOMAIN runs' /\ runs'[run'[p]].key = claim'[p].next
    BY DEF RunsInv, Instants, TickTame, RunsTame, RunTame, Claimed
  <2> QED BY <1>0, <2>1, <2>2, <2>3, <2>4 DEF Instants
<1>2. Resting'
  <2>1. row'.status /= "active" => row'.next = 0
    BY DEF RunsInv, Resting, RowTame, Kept, Over, Replanned, Woken
  <2>2. \A r \in DOMAIN runs' : runs'[r].status = "paused" => row'.status = "cancelled"
    BY DEF RunsInv, Resting, RowTame, RunsTame, RunTame
  <2> QED BY <2>1, <2>2 DEF Resting
<1>3. Leading'
  <2>1. ASSUME NEW p \in Tickers, pc'[p] \in Claimed, row'.status = "active",
               row'.kind /= "dynamic", met' \cap {"resumes", "nows", "updates"} = {}
        PROVE  claim'[p].next = row'.next
    <3>1. Kept BY <2>1 DEF RowTame, Over, Replanned, Woken, Grows
    <3>2. row.kind /= "dynamic" /\ met \cap {"resumes", "nows", "updates"} = {}
      BY <2>1 DEF Grows
    <3> QED BY <2>1, <3>1, <3>2 DEF RunsInv, Leading, Kept, TickTame
  <2> QED BY <2>1 DEF RunsInv, Leading, TickTame, RowTame
<1>4. Recorded'
  <2> SUFFICES ASSUME row'.last /= 0 PROVE Recorded' BY DEF Recorded
  <2>1. /\ row.last \in DOMAIN runs /\ runs[row.last].key /= row.next
        /\ \A p \in Tickers : pc[p] \in Claimed => runs[row.last].key /= claim[p].next
    BY DEF RunsInv, Recorded, RowTame
  <2>2. runs'[row'.last].key = runs[row.last].key /\ row'.last \in DOMAIN runs'
    BY <2>1 DEF RowTame, RunsTame, RunTame
  <2>3. runs[row.last].key > 0 /\ runs[row.last].key <= planned
    BY <2>1 DEF RunsInv, Instants
  <2>4. runs'[row'.last].key /= row'.next
    BY <1>0, <2>1, <2>2, <2>3 DEF RowTame, Kept, Over, Replanned, Woken
  <2> QED BY <2>1, <2>2, <2>4 DEF Recorded, TickTame
<1>5. Punctual'
  <2> SUFFICES ASSUME NEW r \in DOMAIN runs, runs'[r].late, "overruns" \notin met'
               PROVE  /\ row'.status = "cancelled"
                      /\ \/ runs'[r].status = "paused"
                         \/ runs'[r].status = "failed" /\ \A p \in Tickers : pc'[p] \notin Claimed
    BY DEF Punctual, RunsTame
  <2>1. "overruns" \notin met BY DEF Grows
  <2> QED BY <2>1 DEF RunsInv, Punctual, RunsTame, RunTame, RowTame, TickTame
<1> QED BY <1>1, <1>2, <1>3, <1>4, <1>5

(* It keeps the runs apart, and within the limit. *)
LEMMA TameApart ==
  ASSUME TypeOK, TypeOK', RunsInv, Tame, ~Strayed'
  PROVE  Apart' /\ InOrder' /\ Limited'
<1> USE DEF Tame
<1>1. \A r \in DOMAIN runs : runs[r].key > 0 /\ runs[r].key <= planned /\ runs[r].key \in Nat
  BY Types DEF RunsInv, Instants
<1>2. Nobody' <=> Nobody
  BY DEF Nobody, TickTame
<1>3. planned \in Nat /\ row.next \in Nat BY Types
<1>4. ASSUME NEW r \in DOMAIN runs, runs[r].key = row'.next
      PROVE  Kept
  BY <1>1, <1>3, <1>4 DEF RowTame, Over, Replanned, Woken
<1>5. ASSUME NEW p \in Tickers, pc[p] = "skip" PROVE Nobody
  <2>1. \A q \in Tickers : q /= p => pc[q] \in {"idle", "absent"}
    BY <1>5 DEF RunsInv, Leading
  <2> QED BY <1>5, <2>1 DEF Nobody, Starting
<1>6. Apart'
  <2>1. \A r, s \in DOMAIN runs' : StillGoing(r)' /\ StillGoing(s)' => r = s
    BY DEF RunsInv, Apart, RunsTame, RunTame
  <2>2. ASSUME Nobody', NEW r \in DOMAIN runs', StillGoing(r)'
        PROVE  /\ "deaths" \notin met' => r = row'.last
               /\ row'.status = "active" => r = row'.last \/ runs'[r].key = row'.next
    <3>1. r \in DOMAIN runs /\ StillGoing(r) /\ runs'[r].key = runs[r].key /\ Nobody
      BY <1>2, <2>2 DEF RunsTame, RunTame
    <3>2. /\ "deaths" \notin met => r = row.last
          /\ row.status = "active" => r = row.last \/ runs[r].key = row.next
      BY <3>1 DEF RunsInv, Apart
    <3>3. "deaths" \notin met' => r = row'.last
      BY <3>2 DEF Grows, RowTame
    <3>4. CASE Kept BY <3>1, <3>2, <3>3, <3>4 DEF Kept, RowTame
    <3>5. CASE Over BY <3>3, <3>5 DEF Over
    <3>6. CASE Replanned
      <4>1. CASE "deaths" \notin met' BY <3>3, <4>1
      <4>2. CASE row.status = "active" /\ row.next = 0
        BY <1>1, <3>1, <3>2, <3>3, <4>2 DEF RowTame
      <4>3. CASE \E p \in Tickers : pc[p] = "skip"
        BY <3>1, <3>3, <4>3 DEF RunsInv, Apart, RowTame
      <4> QED BY <3>6, <4>1, <4>2, <4>3 DEF Replanned
    <3>7. CASE Woken
      <4>1. "deaths" \notin met' BY <3>7 DEF Woken, Strayed
      <4> QED BY <3>3, <4>1
    <3> QED BY <3>4, <3>5, <3>6, <3>7 DEF RowTame
  <2>3. ASSUME NEW p \in Tickers, NEW r \in DOMAIN runs', StillGoing(r)'
        PROVE  /\ pc'[p] \in Before => r = row'.last \/ runs'[r].key = claim'[p].next
               /\ pc'[p] \in Starting => runs'[r].key = claim'[p].next
               /\ pc'[p] = "skip" => r = row'.last
    <3>1. r \in DOMAIN runs /\ StillGoing(r) /\ runs'[r].key = runs[r].key
      BY <2>3 DEF RunsTame, RunTame
    <3>2. pc'[p] \in Before \cup Starting => claim'[p] = claim[p]
      BY DEF TickTame, Before, Starting, Claimed
    <3> QED BY <3>1, <3>2 DEF RunsInv, Apart, TickTame, RowTame
  <2> QED BY <2>1, <2>2, <2>3 DEF Apart
<1>7. ASSUME NEW p \in Tickers, pc'[p] \in Before \cup Starting PROVE Keyed(p)' = Keyed(p)
  <2>1. claim'[p] = claim[p] BY <1>7 DEF TickTame, Before, Starting, Claimed
  <2> QED BY <2>1 DEF Keyed, RunsTame, RunTame
<1>8. InOrder'
  <2> SUFFICES ASSUME StillGoing(row.last)'
               PROVE  /\ Nobody' /\ row'.status = "active" =>
                           \A r \in DOMAIN runs' : runs'[r].key /= row'.next
                      /\ \A p \in Tickers : pc'[p] \in Before => Keyed(p)' = {}
    BY DEF InOrder
  <2>1. StillGoing(row.last)
    <3>1. PICK l \in Nat : l = row.last BY Types
    <3>2. row'.last = l BY <3>1 DEF RowTame
    <3>3. StillGoing(l)' BY <3>2 DEF StillGoing
    <3>4. l /= 0 BY <3>3 DEF StillGoing
    <3>5. l \in DOMAIN runs BY <3>1, <3>4 DEF RunsInv, Recorded
    <3> QED BY <3>1, <3>3, <3>5 DEF RunsTame, RunTame
  <2>2. ASSUME Nobody', row'.status = "active", NEW r \in DOMAIN runs', runs'[r].key = row'.next
        PROVE  FALSE
    <3>1. r \in DOMAIN runs /\ runs[r].key = row'.next BY <2>2 DEF RunsTame, RunTame
    <3>2. Kept BY <1>4, <3>1
    <3> QED BY <1>2, <2>1, <2>2, <3>1, <3>2 DEF Kept, RunsInv, InOrder
  <2>3. ASSUME NEW p \in Tickers, pc'[p] \in Before PROVE Keyed(p)' = {}
    BY <1>7, <2>1, <2>3 DEF RunsInv, InOrder, TickTame
  <2> QED BY <2>2, <2>3
<1>9. Limited'
  <2> SUFFICES ASSUME row'.limit /= 0, met' \cap {"updates", "resumes"} = {} PROVE Within'
    BY DEF Limited
  <2>1. /\ row'.limit = row.limit /\ row'.count = row.count /\ Len(runs') = Len(runs) /\ Within
        /\ row'.status = "active" => row.status = "active"
    BY DEF RowTame, RunsTame, Grows, RunsInv, Limited
  <2>2. ASSUME Nobody' PROVE /\ row'.status = "active" => row'.count < row'.limit
                             /\ \/ Len(runs') <= row'.count
                                \/ /\ "deaths" \in met' /\ Len(runs') <= row'.count + 1
                                   /\ row'.status = "active" =>
                                        \E r \in DOMAIN runs' : runs'[r].key = row'.next
    <3>1. Nobody BY <1>2, <2>2
    <3>2. row'.status = "active" => row'.count < row'.limit BY <2>1, <3>1 DEF Within
    <3>3. CASE Len(runs) <= row.count BY <2>1, <3>2, <3>3
    <3>4. CASE /\ "deaths" \in met /\ Len(runs) <= row.count + 1 /\ ~(Len(runs) <= row.count)
               /\ row.status = "active" => \E r \in DOMAIN runs : runs[r].key = row.next
      <4>1. "deaths" \in met' BY <3>4 DEF Grows
      <4>2. ASSUME row'.status = "active" PROVE \E r \in DOMAIN runs' : runs'[r].key = row'.next
        <5>1. row.status = "active" BY <2>1, <4>2
        <5>2. PICK r \in DOMAIN runs : runs[r].key = row.next BY <3>4, <5>1
        <5>3. row.next /= 0 BY <1>1, <5>2
        <5>4. \A p \in Tickers : pc[p] /= "skip" BY <2>1, <3>4 DEF Within
        <5>5. Kept BY <4>1, <4>2, <5>1, <5>3, <5>4 DEF RowTame, Over, Replanned, Woken
        <5> QED BY <5>2, <5>5 DEF Kept, RunsTame, RunTame
      <4> QED BY <2>1, <3>2, <3>4, <4>1, <4>2
    <3> QED BY <2>1, <3>1, <3>3, <3>4 DEF Within
  <2>3. ASSUME NEW p \in Tickers
        PROVE  /\ pc'[p] \in Before \cup Starting =>
                    /\ row'.count < row'.limit /\ Len(runs') <= row'.count + 1
                    /\ Keyed(p)' = {} => Len(runs') <= row'.count
               /\ pc'[p] = "skip" => Len(runs') <= row'.count
    <3>1. pc'[p] \in Before \cup Starting => pc[p] \in Before \cup Starting BY DEF TickTame
    <3> QED BY <1>7, <2>1, <3>1 DEF Within, TickTame
  <2> QED BY <2>1, <2>2, <2>3 DEF Within
<1> QED BY <1>6, <1>8, <1>9

(* ------------------- what a step does to the row, again ---------------- *)

\* Row x is row r but for its status, its plan and its lock.
Like(x, r) == /\ x \in Rows /\ x.kind = r.kind /\ x.limit = r.limit
              /\ x.count = r.count /\ x.last = r.last

(* The fields of a row that is unlocked, planned or ended. *)
LEMMA Fields ==
  ASSUME TypeOK, NEW r \in Rows
  PROVE  /\ Like(Unlocked(r), r) /\ Unlocked(r).status = r.status /\ Unlocked(r).next = r.next
         /\ Like(Planned(r), r) /\ Planned(r).status = r.status /\ Planned(r).next = planned + 1
         /\ \A reason \in {"done", "limit", "expired", "failed"} :
              /\ Like(Ended(r, reason), r) /\ Ended(r, reason).next = 0
              /\ Ended(r, reason).status \in {"completed", "failed"}
<1>1. Like(Unlocked(r), r) /\ Unlocked(r).status = r.status /\ Unlocked(r).next = r.next
  BY DEF Rows, Unlocked, Like
<1>2. Like(Planned(r), r) /\ Planned(r).status = r.status /\ Planned(r).next = planned + 1
  <2>1. planned + 1 \in Nat BY DEF TypeOK, RowOK
  <2> QED BY <2>1 DEF Rows, Planned, Like
<1>3. ASSUME NEW reason \in {"done", "limit", "expired", "failed"}
      PROVE  /\ Like(Ended(r, reason), r) /\ Ended(r, reason).next = 0
             /\ Ended(r, reason).status \in {"completed", "failed"}
  <2> DEFINE s == IF reason = "failed" THEN "failed" ELSE "completed"
  <2>1. s \in {"completed", "failed"} /\ s \in Statuses /\ reason \in Reasons
    BY DEF Statuses, Reasons
  <2>2. Ended(r, reason) = [r EXCEPT !.status = s, !.reason = reason, !.next = 0]
    BY DEF Ended
  <2> HIDE DEF s
  <2> DEFINE x == [r EXCEPT !.status = s, !.reason = reason, !.next = 0]
  <2>3. x \in Rows BY <2>1 DEF Rows
  <2>4. x.kind = r.kind /\ x.limit = r.limit /\ x.count = r.count /\ x.last = r.last BY DEF Rows
  <2>5. x.next = 0 /\ x.status = s BY DEF Rows
  <2> QED BY <2>1, <2>2, <2>3, <2>4, <2>5 DEF Like
<1> QED BY <1>1, <1>2, <1>3

(* The same of what follows one another: planned and unlocked, ended and unlocked. *)
LEMMA Fields2 ==
  ASSUME TypeOK, NEW r \in Rows
  PROVE  /\ Like(Unlocked(Planned(r)), r) /\ Unlocked(Planned(r)).status = r.status
         /\ Unlocked(Planned(r)).next = planned + 1
         /\ \A reason \in {"done", "limit", "expired", "failed"} :
              /\ Like(Unlocked(Ended(r, reason)), r) /\ Unlocked(Ended(r, reason)).next = 0
              /\ Unlocked(Ended(r, reason)).status \in {"completed", "failed"}
<1>1. Planned(r) \in Rows /\ Like(Planned(r), r) /\ Planned(r).status = r.status
        /\ Planned(r).next = planned + 1
  BY Fields DEF Like
<1>2. Like(Unlocked(Planned(r)), Planned(r)) /\ Unlocked(Planned(r)).status = Planned(r).status
        /\ Unlocked(Planned(r)).next = Planned(r).next
  BY <1>1, Fields
<1>3. ASSUME NEW reason \in {"done", "limit", "expired", "failed"}
      PROVE  /\ Like(Unlocked(Ended(r, reason)), r) /\ Unlocked(Ended(r, reason)).next = 0
             /\ Unlocked(Ended(r, reason)).status \in {"completed", "failed"}
  <2> DEFINE e == Ended(r, reason)
  <2>1. e \in Rows /\ Like(e, r) /\ e.next = 0 /\ e.status \in {"completed", "failed"}
    BY Fields DEF Like
  <2> HIDE DEF e
  <2>2. Like(Unlocked(e), e) /\ Unlocked(e).status = e.status /\ Unlocked(e).next = e.next
    BY <2>1, Fields
  <2>3. Like(Unlocked(e), r) /\ Unlocked(e).next = 0 /\ Unlocked(e).status \in {"completed", "failed"}
    BY <2>1, <2>2 DEF Like
  <2> QED BY <2>3 DEF e
<1> QED BY <1>1, <1>2, <1>3 DEF Like

(* The row that mark_run_created starts from. *)
LEMMA StartedRow ==
  ASSUME TypeOK, NEW n \in Nat, NEW f \in Nat
  PROVE  LET x == [Unlocked(row) EXCEPT !.count = Unlocked(row).count + 1, !.last = n, !.failures = f]
         IN /\ x \in Rows /\ x.kind = row.kind /\ x.limit = row.limit /\ x.status = row.status
            /\ x.next = row.next /\ x.count = row.count + 1 /\ x.last = n
<1>1. row \in Rows BY DEF TypeOK, RowOK
<1>2. Unlocked(row) \in Rows /\ Like(Unlocked(row), row) /\ Unlocked(row).status = row.status
        /\ Unlocked(row).next = row.next
  BY <1>1, Fields DEF Like
<1> HIDE DEF Unlocked
<1>3. Unlocked(row).count + 1 \in Nat BY <1>2 DEF Rows
<1> QED BY <1>2, <1>3 DEF Rows, Like

(* A row one of whose failures is counted. *)
LEMMA FailedRow ==
  ASSUME TypeOK, NEW r \in Rows
  PROVE  LET x == [r EXCEPT !.failures = r.failures + 1]
         IN Like(x, r) /\ x.status = r.status /\ x.next = r.next
<1>1. r.failures + 1 \in Nat BY DEF Rows
<1> QED BY <1>1 DEF Rows, Like

(* A run's choice: planned anew, or ended, if the loop is still its own. *)
LEMMA ChosenRow ==
  ASSUME TypeOK, NEW r, NEW done \in BOOLEAN, Chosen(r, done)
  PROVE  /\ Like(row', row)
         /\ \/ Kept
            \/ row.status = "active" /\ Over
            \/ /\ row.status = "active" /\ row'.status = "active"
               /\ row'.next = planned + 1 /\ planned' = planned + 1
<1>1. row \in Rows /\ Like(row, row) BY DEF TypeOK, RowOK, Like
<1>2. CASE ~(row.status = "active" /\ row.last = r)
  BY <1>1, <1>2 DEF Chosen, Kept
<1>3. CASE row.status = "active" /\ row.last = r /\ (done \/ passed)
  <2>1. PICK reason \in {"done", "expired"} : row' = Unlocked(Ended(row, reason)) /\ planned' = planned
    BY <1>3 DEF Chosen, NoPlan
  <2>2. Like(row', row) /\ row'.next = 0 /\ row'.status \in {"completed", "failed"}
    BY <1>1, <2>1, Fields2
  <2> QED BY <1>3, <2>1, <2>2 DEF Over
<1>4. CASE row.status = "active" /\ row.last = r /\ ~(done \/ passed)
  <2>1. row' = Unlocked(Planned(row)) /\ planned' = planned + 1
    BY <1>4 DEF Chosen, Plans
  <2> QED BY <1>1, <1>4, <2>1, Fields2
<1> QED BY <1>2, <1>3, <1>4

(* What a person makes of the row. *)
LEMMA PersonRow ==
  ASSUME TypeOK
  PROVE  /\ Pause => Like(row', row) /\ Over /\ row.status = "active"
         /\ Cancel => Like(row', row) /\ Over /\ row'.status = "cancelled"
         /\ \A now \in BOOLEAN : Resume(now) =>
              /\ Like(row', row) /\ row.status = "paused" /\ row'.status = "active"
              /\ row'.next = planned + 1 /\ planned' = planned + 1
         /\ ResumeUnplanned => /\ Like(row', row) /\ row.status = "paused" /\ row'.status = "active"
                               /\ row'.next = row.next /\ planned' = planned
         /\ Edit => Like(row', row) /\ Kept
         /\ RunNow => /\ Like(row', row) /\ row.status = "active" /\ row'.status = "active"
                      /\ row'.next = planned + 1 /\ planned' = planned + 1
         /\ \A k \in Kinds : Update(k) =>
              /\ row'.last = row.last /\ row'.count = row.count
              /\ row.kind /= "dynamic" /\ row'.kind /= "dynamic"
              /\ \/ Kept /\ row.status = "paused"
                 \/ /\ row.status = "active" /\ row'.status = "active"
                    /\ row'.next = planned + 1 /\ planned' = planned + 1
<1>1. row \in Rows BY DEF TypeOK, RowOK
<1>2. ASSUME NEW st \in Statuses, NEW reason \in Reasons
      PROVE  LET x == [row EXCEPT !.status = st, !.reason = reason, !.next = 0]
             IN Like(x, row) /\ x.status = st /\ x.next = 0
  BY <1>1 DEF Rows, Like
<1>3. ASSUME Pause PROVE Like(row', row) /\ Over /\ row.status = "active"
  <2> DEFINE x == [row EXCEPT !.status = "paused", !.next = 0]
  <2>1. Like(x, row) /\ x.status = "paused" /\ x.next = 0
    BY <1>1 DEF Rows, Like, Statuses
  <2>2. row' = Unlocked(x) /\ planned' = planned /\ row.status = "active"
    BY <1>3 DEF Pause, NoPlan
  <2> HIDE DEF x
  <2>3. x \in Rows BY <2>1 DEF Like
  <2>4. Like(row', x) /\ row'.status = x.status /\ row'.next = x.next BY <2>2, <2>3, Fields
  <2> QED BY <2>1, <2>2, <2>4 DEF Over, Like
<1>4. ASSUME Cancel PROVE Like(row', row) /\ Over /\ row'.status = "cancelled"
  <2> DEFINE x == [row EXCEPT !.status = "cancelled", !.reason = "cancelled", !.next = 0]
  <2>1. Like(x, row) /\ x.status = "cancelled" /\ x.next = 0
    BY <1>2 DEF Statuses, Reasons
  <2>2. row' = Unlocked(x) /\ planned' = planned
    BY <1>4 DEF Cancel, NoPlan
  <2> HIDE DEF x
  <2>3. x \in Rows BY <2>1 DEF Like
  <2>4. Like(row', x) /\ row'.status = x.status /\ row'.next = x.next BY <2>2, <2>3, Fields
  <2> QED BY <2>1, <2>2, <2>4 DEF Over, Like
<1>5. ASSUME NEW now \in BOOLEAN, Resume(now)
      PROVE  /\ Like(row', row) /\ row.status = "paused" /\ row'.status = "active"
             /\ row'.next = planned + 1 /\ planned' = planned + 1
  <2> DEFINE x == [row EXCEPT !.status = "active"]
  <2>1. Like(x, row) /\ x.status = "active" BY <1>1 DEF Rows, Like, Statuses
  <2>2. row' = Unlocked(Planned(x)) /\ planned' = planned + 1 /\ row.status = "paused"
    BY <1>5 DEF Resume, Plans
  <2> HIDE DEF x
  <2>3. x \in Rows BY <2>1 DEF Like
  <2>4. Like(row', x) /\ row'.status = x.status /\ row'.next = planned + 1
    BY <2>2, <2>3, Fields2
  <2> QED BY <2>1, <2>2, <2>4 DEF Like
<1>8. ASSUME ResumeUnplanned
      PROVE  /\ Like(row', row) /\ row.status = "paused" /\ row'.status = "active"
             /\ row'.next = row.next /\ planned' = planned
  <2> DEFINE x == [row EXCEPT !.status = "active"]
  <2>1. Like(x, row) /\ x.status = "active" /\ x.next = row.next
    BY <1>1 DEF Rows, Like, Statuses
  <2>2. row' = x /\ planned' = planned /\ row.status = "paused"
    BY <1>8 DEF ResumeUnplanned
  <2> QED BY <2>1, <2>2
<1>9. ASSUME Edit PROVE Like(row', row) /\ Kept
  BY <1>1, <1>9, Fields DEF Edit, Kept
<1>6. ASSUME RunNow
      PROVE  /\ Like(row', row) /\ row.status = "active" /\ row'.status = "active"
             /\ row'.next = planned + 1 /\ planned' = planned + 1
  BY <1>1, <1>6, Fields DEF RunNow, Plans
<1>7. ASSUME NEW k \in Kinds, Update(k)
      PROVE  /\ row'.last = row.last /\ row'.count = row.count
             /\ row.kind /= "dynamic" /\ row'.kind /= "dynamic"
             /\ \/ Kept /\ row.status = "paused"
                \/ /\ row.status = "active" /\ row'.status = "active"
                   /\ row'.next = planned + 1 /\ planned' = planned + 1
  <2> DEFINE l == IF k = row.kind THEN Unlocked(row).limit ELSE IF k = "once" THEN 1 ELSE 0
             x == [Unlocked(row) EXCEPT !.kind = k, !.limit = l]
  <2>1. Unlocked(row) \in Rows /\ Like(Unlocked(row), row) /\ Unlocked(row).status = row.status
          /\ Unlocked(row).next = row.next
    BY <1>1, Fields DEF Like
  <2>2. l \in Nat BY <2>1 DEF Rows
  <2>3. x \in Rows /\ x.status = row.status /\ x.next = row.next /\ x.kind = k
          /\ x.count = row.count /\ x.last = row.last
    <3> HIDE DEF l
    <3> QED BY <2>1, <2>2 DEF Rows, Like
  <2>4. /\ row.status \in {"active", "paused"} /\ row.kind /= "dynamic" /\ k /= "dynamic"
        /\ \/ row.status = "active" /\ row' = Planned(x) /\ planned' = planned + 1
           \/ row.status = "paused" /\ row' = x /\ planned' = planned
    BY <1>7 DEF Update, Plans
  <2> HIDE DEF x
  <2>5. CASE row.status = "active" /\ row' = Planned(x) /\ planned' = planned + 1
    <3>1. Like(row', x) /\ row'.status = x.status /\ row'.next = planned + 1
      BY <2>3, <2>5, Fields
    <3> QED BY <2>3, <2>4, <2>5, <3>1 DEF Like
  <2>6. CASE row.status = "paused" /\ row' = x /\ planned' = planned
    BY <2>3, <2>4, <2>6 DEF Kept
  <2> QED BY <2>4, <2>5, <2>6
<1> QED BY <1>3, <1>4, <1>5, <1>6, <1>7, <1>8, <1>9

(* What a replica's sweep makes of it. *)
LEMMA SweepRow ==
  ASSUME TypeOK, NEW p \in Tickers
  PROVE  /\ Plan(p) \/ RecoverTerminal(p) =>
              /\ Like(row', row)
              /\ \/ Kept
                 \/ /\ row.status = "active" /\ row.next = 0 /\ row'.status = "active"
                    /\ row'.next = planned + 1 /\ planned' = planned + 1
                 \/ row.status = "active" /\ Over /\ "fails" \in met'
         /\ MarkTimedOut(p) \/ ExpireActive(p) =>
              Like(row', row) /\ (Kept \/ (row.status = "active" /\ Over))
         /\ ClaimEnding(p) \/ Claim(p) => Like(row', row) /\ Kept
         /\ MarkSkipped(p) =>
              /\ Like(row', row)
              /\ \/ Kept
                 \/ /\ row.status = "active" /\ row'.status = "active"
                    /\ row'.next = planned + 1 /\ planned' = planned + 1
<1>1. row \in Rows /\ Like(row, row) BY DEF TypeOK, RowOK, Like
<1>2. ASSUME Plan(p) \/ RecoverTerminal(p)
      PROVE  /\ Like(row', row)
             /\ \/ Kept
                \/ /\ row.status = "active" /\ row.next = 0 /\ row'.status = "active"
                   /\ row'.next = planned + 1 /\ planned' = planned + 1
                \/ row.status = "active" /\ Over /\ "fails" \in met'
  <2>1. \/ row' = row /\ planned' = planned
        \/ /\ row.status = "active" /\ row.next = 0 /\ planned' = planned + 1
           /\ row' \in {Planned(row), Unlocked(Planned(row))}
        \/ /\ row.status = "active" /\ row' = Ended(row, "failed") /\ planned' = planned
           /\ "fails" \in met'
    BY <1>2 DEF Plan, RecoverTerminal, Plans, NoPlan, Use
  <2> QED BY <1>1, <2>1, Fields, Fields2 DEF Kept, Over
<1>3. ASSUME MarkTimedOut(p) PROVE Like(row', row) /\ (Kept \/ (row.status = "active" /\ Over))
  <2> DEFINE failed == [row EXCEPT !.failures = row.failures + 1]
  <2>1. /\ planned' = planned
        /\ \/ row' = row
           \/ row.status = "active" /\ row' \in {failed, Ended(failed, "failed")}
    BY <1>3 DEF MarkTimedOut, StillActive
  <2>2. Like(failed, row) /\ failed.status = row.status /\ failed.next = row.next
    BY <1>1, FailedRow
  <2> HIDE DEF failed
  <2>3. /\ Like(Ended(failed, "failed"), failed) /\ Ended(failed, "failed").next = 0
        /\ Ended(failed, "failed").status \in {"completed", "failed"}
    BY <2>2, Fields DEF Like
  <2>4. CASE row' = row BY <1>1, <2>1, <2>4 DEF Kept
  <2>5. CASE row' = failed BY <2>1, <2>2, <2>5 DEF Kept
  <2>6. CASE row.status = "active" /\ row' = Ended(failed, "failed")
    BY <2>1, <2>2, <2>3, <2>6 DEF Over, Like
  <2> QED BY <2>1, <2>4, <2>5, <2>6
<1>4. ASSUME ExpireActive(p) PROVE Like(row', row) /\ (Kept \/ (row.status = "active" /\ Over))
  <2>1. /\ planned' = planned
        /\ row' = row \/ (row.status = "active" /\ row' = Unlocked(Ended(row, "expired")))
    BY <1>4 DEF ExpireActive, NoPlan
  <2> QED BY <1>1, <2>1, Fields2 DEF Kept, Over
<1>5. ASSUME ClaimEnding(p) \/ Claim(p) PROVE Like(row', row) /\ Kept
  <2>1. /\ planned' = planned
        /\ row' \in {row, [row EXCEPT !.announced = TRUE], [row EXCEPT !.locked = TRUE], Unlocked(row)}
    BY <1>5 DEF ClaimEnding, Claim, clock
  <2>2. \A x \in {[row EXCEPT !.announced = TRUE], [row EXCEPT !.locked = TRUE]} :
          Like(x, row) /\ x.status = row.status /\ x.next = row.next
    BY <1>1 DEF Rows, Like
  <2> QED BY <1>1, <2>1, <2>2, Fields DEF Kept
<1>6. ASSUME MarkSkipped(p)
      PROVE  /\ Like(row', row)
             /\ \/ Kept
                \/ /\ row.status = "active" /\ row'.status = "active"
                   /\ row'.next = planned + 1 /\ planned' = planned + 1
  <2>1. \/ row' = Unlocked(row) /\ planned' = planned
        \/ row.status = "active" /\ row' = Unlocked(Planned(row)) /\ planned' = planned + 1
    BY <1>6 DEF MarkSkipped, StillActive, Plans
  <2> QED BY <1>1, <2>1, Fields, Fields2 DEF Kept
<1> QED BY <1>2, <1>3, <1>4, <1>5, <1>6

(* What the end of a start makes of it: recorded, or counted as a failure. *)
LEMMA EndOfStart ==
  ASSUME TypeOK, NEW p \in Tickers
  PROVE  /\ MarkFailed(p) => row'.kind = row.kind
         /\ MarkCreated(p) =>
              /\ row'.kind = row.kind /\ row'.limit = row.limit
              /\ row'.count = row.count + 1 /\ row'.last = run[p]
              /\ row.status = "cancelled" => row'.status = "cancelled"
              /\ row'.status = "active" =>
                   row.status = "active" /\ (row.limit = 0 \/ row.count + 1 < row.limit)
              /\ \/ row'.next = row.next /\ planned' = planned /\ row.status /= "active"
                 \/ row'.next = 0 /\ planned' = planned
                 \/ row'.next = planned + 1 /\ planned' = planned + 1 /\ row'.status = "active"
<1>1. row \in Rows /\ run[p] \in Nat /\ row.count \in Nat /\ row.limit \in Nat /\ row.failures \in Nat
  BY DEF TypeOK, RowOK, TickerOK, Rows
<1>2. Unlocked(row) \in Rows /\ Like(Unlocked(row), row) /\ Unlocked(row).status = row.status
        /\ Unlocked(row).next = row.next
  BY <1>1, Fields DEF Like
<1>3. ASSUME MarkFailed(p) PROVE row'.kind = row.kind
  <2> DEFINE failed == [Unlocked(row) EXCEPT !.failures = Unlocked(row).failures + 1]
  <2>1. row' \in {row, Unlocked(row), Ended(failed, "failed"), Planned(failed)}
    BY <1>3 DEF MarkFailed
  <2>2. Like(failed, Unlocked(row)) BY <1>2, FailedRow
  <2> HIDE DEF failed
  <2>3. Like(Ended(failed, "failed"), failed) /\ Like(Planned(failed), failed)
    BY <2>2, Fields DEF Like
  <2> QED BY <1>2, <2>1, <2>2, <2>3 DEF Like
<1>4. ASSUME MarkCreated(p)
      PROVE   /\ row'.kind = row.kind /\ row'.limit = row.limit
              /\ row'.count = row.count + 1 /\ row'.last = run[p]
              /\ row.status = "cancelled" => row'.status = "cancelled"
              /\ row'.status = "active" =>
                   row.status = "active" /\ (row.limit = 0 \/ row.count + 1 < row.limit)
              /\ \/ row'.next = row.next /\ planned' = planned /\ row.status /= "active"
                 \/ row'.next = 0 /\ planned' = planned
                 \/ row'.next = planned + 1 /\ planned' = planned + 1 /\ row'.status = "active"
  <2> DEFINE f == IF row.last /= 0 /\ runs[row.last].status = "failed"
                  THEN Unlocked(row).failures ELSE 0
             x == [Unlocked(row) EXCEPT !.count = Unlocked(row).count + 1, !.last = run[p],
                                        !.failures = f]
  <2>1. f \in Nat BY <1>2 DEF Rows
  <2>2. /\ x \in Rows /\ x.kind = row.kind /\ x.limit = row.limit /\ x.status = row.status
        /\ x.next = row.next /\ x.count = row.count + 1 /\ x.last = run[p]
    <3> HIDE DEF f
    <3> QED BY <1>1, <2>1, StartedRow
  <2>3. \/ row.status /= "active" /\ row' = x /\ planned' = planned
        \/ /\ row.status = "active" /\ planned' = planned
           /\ row' \in {Ended(x, "limit"), Ended(x, "expired"), Ended(x, "done")}
        \/ /\ row.status = "active" /\ planned' = planned /\ row' = [x EXCEPT !.next = 0]
           /\ ~(x.limit /= 0 /\ x.count >= x.limit)
        \/ /\ row.status = "active" /\ planned' = planned + 1 /\ row' = Planned(x)
           /\ ~(x.limit /= 0 /\ x.count >= x.limit)
    BY <1>4 DEF MarkCreated, StillActive, Plans, NoPlan
  <2> HIDE DEF x
  <2>4. CASE row.status /= "active" /\ row' = x /\ planned' = planned
    BY <2>2, <2>4
  <2>5. CASE /\ row.status = "active" /\ planned' = planned
             /\ row' \in {Ended(x, "limit"), Ended(x, "expired"), Ended(x, "done")}
    <3>1. Like(row', x) /\ row'.next = 0 /\ row'.status \in {"completed", "failed"}
      BY <2>2, <2>5, Fields
    <3> QED BY <2>2, <2>5, <3>1 DEF Like
  <2>6. CASE /\ row.status = "active" /\ planned' = planned /\ row' = [x EXCEPT !.next = 0]
             /\ ~(x.limit /= 0 /\ x.count >= x.limit)
    <3>1. Like(row', x) /\ row'.next = 0 /\ row'.status = x.status
      BY <2>2, <2>6 DEF Rows, Like
    <3> QED BY <1>1, <2>2, <2>6, <3>1 DEF Like
  <2>7. CASE /\ row.status = "active" /\ planned' = planned + 1 /\ row' = Planned(x)
             /\ ~(x.limit /= 0 /\ x.count >= x.limit)
    <3>1. Like(row', x) /\ row'.next = planned + 1 /\ row'.status = x.status
      BY <2>2, <2>7, Fields
    <3> QED BY <1>1, <2>2, <2>7, <3>1 DEF Like
  <2> QED BY <2>3, <2>4, <2>5, <2>6, <2>7
<1> QED BY <1>3, <1>4

(* What has happened stays so, and a loop stays what it is. *)
LEMMA AllGrow ==
  ASSUME TypeOK, Next
  PROVE  Grows
<1>3. ASSUME NEW p \in Tickers, Tick(p) PROVE Grows
  <2>1. CASE \/ Acquire(p) \/ Beat(p) \/ BeatSet(p) \/ Release(p) \/ Delete(p) \/ StopCancelled(p)
             \/ FailOverdue(p) \/ Announce(p) \/ Look(p) \/ Create(p) \/ Ask(p) \/ Enqueue(p)
    BY <2>1 DEF Acquire, Beat, BeatSet, Release, Delete, StopCancelled, FailOverdue, Announce, Look,
                Create, Ask, Enqueue, input, Grows
  <2>2. CASE Plan(p) \/ MarkTimedOut(p) \/ ExpireActive(p) \/ ClaimEnding(p) \/ RecoverTerminal(p)
             \/ Claim(p) \/ MarkSkipped(p)
    <3>1. row'.kind = row.kind BY <2>2, SweepRow DEF Like
    <3>2. met \subseteq met'
      BY <2>2 DEF Plan, MarkTimedOut, ExpireActive, ClaimEnding, RecoverTerminal, Claim, MarkSkipped,
                  Use, input
    <3> QED BY <3>1, <3>2 DEF Grows
  <2>3. CASE MarkCreated(p)
    <3>1. met' = met BY <2>3 DEF MarkCreated, input
    <3> QED BY <2>3, <3>1, EndOfStart DEF Grows
  <2>4. CASE MarkFailed(p)
    <3>1. met \subseteq met' BY <2>4 DEF MarkFailed, Use, input
    <3> QED BY <2>4, <3>1, EndOfStart DEF Grows
  <2> QED BY <1>3, <2>1, <2>2, <2>3, <2>4 DEF Tick
<1>4. ASSUME NEW p \in Tickers, Faults(p) PROVE Grows
  BY <1>4 DEF Faults, SweepFails, RunFails, Dies, Use, Grows
<1>5. ASSUME Time PROVE Grows
  <2>1. CASE LockExpires
    <3>2. row'.kind = row.kind
      <4>1. row' = Unlocked(row) /\ row \in Rows BY <2>1 DEF LockExpires, TypeOK, RowOK
      <4> QED BY <4>1, Fields DEF Like
    <3>3. met \subseteq met' BY <2>1 DEF LockExpires, Use, input
    <3> QED BY <3>2, <3>3 DEF Grows
  <2>2. CASE LeaderExpires \/ Elapse \/ Expiry
    BY <2>2 DEF LeaderExpires, Elapse, Expiry, Use, input, Grows
  <2> QED BY <1>5, <2>1, <2>2 DEF Time
<1>6. ASSUME Person PROVE Grows
  <2>1. CASE \/ Pause \/ Resume(TRUE) \/ Resume(FALSE) \/ ResumeUnplanned \/ Cancel \/ RunNow
             \/ Edit
    <3>1. row'.kind = row.kind BY <2>1, PersonRow DEF Like
    <3>2. met \subseteq met'
      BY <2>1 DEF Pause, Resume, ResumeUnplanned, Cancel, RunNow, Edit, Use
    <3> QED BY <3>1, <3>2 DEF Grows
  <2>2. CASE StopNow BY <2>2 DEF StopNow, input, Grows
  <2>3. ASSUME NEW k \in Kinds, Update(k) PROVE Grows
    <3>1. met \subseteq met' BY <2>3 DEF Update, Use
    <3> QED BY <2>3, <3>1, PersonRow DEF Grows
  <2> QED BY <1>6, <2>1, <2>2, <2>3 DEF Person
<1>7. ASSUME NEW r \in DOMAIN runs, Run(r) PROVE Grows
  <2>1. CASE RunEnds(r, "completed") \/ RunEnds(r, "failed") \/ FinalizeLook(r) \/ FinalizeLost(r)
             \/ RunLate(r)
    BY <2>1 DEF RunEnds, FinalizeLook, FinalizeLost, RunLate, Use, input, Grows
  <2>2. CASE FinalizeWrite(r) \/ LoopWait(r, TRUE) \/ LoopWait(r, FALSE)
    <3>1. Chosen(r, TRUE) \/ Chosen(r, FALSE) BY <2>2 DEF FinalizeWrite, LoopWait
    <3>2. row'.kind = row.kind BY <3>1, ChosenRow DEF Like
    <3>3. met \subseteq met' BY <2>2 DEF FinalizeWrite, LoopWait, Use, input
    <3> QED BY <3>2, <3>3 DEF Grows
  <2>3. CASE LoopComplete(r)
    <3>1. row \in Rows BY DEF TypeOK, RowOK
    <3>2. row'.kind = row.kind BY <2>3, <3>1, Fields2 DEF LoopComplete, Like
    <3>3. met \subseteq met' BY <2>3 DEF LoopComplete, Use
    <3> QED BY <3>2, <3>3 DEF Grows
  <2> QED BY <1>7, <2>1, <2>2, <2>3 DEF Run
<1> QED BY <1>3, <1>4, <1>5, <1>6, <1>7 DEF Next

(* --------------------------- which steps are tame ---------------------- *)

(* Who is at it is the leader, and the only one at it. *)
LEMMA Alone ==
  ASSUME TypeOK, RunsInv, NEW p \in Tickers, pc[p] \notin {"idle", "absent"}
  PROVE  leader = p /\ \A q \in Tickers : q /= p => pc[q] \in {"idle", "absent"}
BY DEF RunsInv, Leading

(* No replica moves. *)
LEMMA TicksSame ==
  ASSUME RunsInv, UNCHANGED <<leader, pc, claim, run>>
  PROVE  TickTame
BY DEF RunsInv, Leading, TickTame

\* From k a replica may go to l without claiming or starting anything.
Onward(k, l) == /\ l \in PCs \ {"fail", "absent"} /\ (l \in Claimed => k \in Claimed)
                /\ (l \in Starting <=> k \in Starting) /\ (l \in Before => k \in Before)
                /\ l /= "skip"
                /\ l \in {"ask", "enqueue", "mark"} => k \in {"ask", "enqueue", "mark"}

(* The one replica that is at it moves. *)
LEMMA TickMoves ==
  ASSUME TypeOK, RunsInv, NEW p \in Tickers, NEW l, Goto(p, l), Onward(pc[p], l),
         \A q \in Tickers : q /= p => pc[q] \in {"idle", "absent"},
         l /= "idle" => leader' = p,
         \A q \in Tickers : q /= p => claim'[q] = claim[q] /\ run'[q] = run[q],
         l \in Claimed => claim'[p] = claim[p] /\ run'[p] = run[p],
         claim'[p] \in {claim[p], NoClaim}
  PROVE  TickTame
<1>1. pc \in [Tickers -> PCs] BY DEF TypeOK, TickerOK
<1>2. pc'[p] = l /\ \A q \in Tickers : q /= p => pc'[q] = pc[q] BY <1>1 DEF Goto
<1>3. pc[p] /= "fail" BY DEF RunsInv, Leading
<1>4. {"ask", "enqueue", "mark"} \subseteq Claimed BY DEF Claimed
<1> QED BY <1>2, <1>3, <1>4 DEF TickTame, Onward, Claimed, Before, Starting

(* No run moves. *)
LEMMA RunsSame ==
  ASSUME UNCHANGED runs
  PROVE  RunsTame
BY DEF RunsTame, RunTame, StillGoing

(* One run is put down, or something of it that no other looks at. *)
LEMMA RunMoves ==
  ASSUME TypeOK, NEW r \in DOMAIN runs, NEW v, runs' = [runs EXCEPT ![r] = v],
         v.key = runs[r].key,
         (v.status = "active" /\ ~v.late) => StillGoing(r),
         v.closing /= "no" => runs[r].closing /= "no" \/ row.kind = "dynamic",
         v.status = "paused" => runs[r].status = "paused" \/ row.status = "cancelled",
         v.late /\ "overruns" \notin met' =>
           \/ runs[r].late /\ v.status = runs[r].status
           \/ row.status = "cancelled" /\ v.status = "paused"
           \/ row.status = "cancelled" /\ v.status = "failed"
                /\ \A p \in Tickers : pc'[p] \notin Claimed
  PROVE  RunsTame
<1>1. runs \in Seq(Runs) /\ r \in 1..Len(runs) BY Types DEF TypeOK
<1>2. DOMAIN runs' = DOMAIN runs /\ Len(runs') = Len(runs) BY <1>1
<1>3. runs'[r] = v /\ \A s \in DOMAIN runs : s /= r => runs'[s] = runs[s] BY <1>1
<1>4. RunTame(r) BY <1>3 DEF RunTame, StillGoing
<1>5. \A s \in DOMAIN runs : s /= r => RunTame(s) BY <1>3 DEF RunTame, StillGoing
<1> QED BY <1>2, <1>4, <1>5 DEF RunsTame

(* The runs of a cancelled schedule are stopped. *)
LEMMA StoppedTame ==
  ASSUME TypeOK, runs' = Stopped
  PROVE  RunsTame
<1>1. runs \in Seq(Runs) BY DEF TypeOK
<1>2. DOMAIN runs' = DOMAIN runs BY DEF Stopped
<1>3. Len(runs') = Len(runs)
  <2>1. Len(runs) \in Nat /\ DOMAIN runs' = 1..Len(runs) BY <1>1, <1>2
  <2> QED BY <2>1
<1>4. ASSUME NEW r \in DOMAIN runs PROVE RunTame(r)
  <2> DEFINE v == [runs[r] EXCEPT !.status = "paused"]
  <2>1. runs[r] \in Runs BY <1>1
  <2>2. /\ v.key = runs[r].key /\ v.late = runs[r].late /\ v.closing = runs[r].closing
        /\ v.status = "paused"
    BY <2>1 DEF Runs
  <2>3. runs'[r] = runs[r] \/ (runs'[r] = v /\ row.status = "cancelled") BY DEF Stopped
  <2> HIDE DEF v
  <2> QED BY <2>2, <2>3 DEF RunTame, StillGoing
<1> QED BY <1>2, <1>3, <1>4 DEF RunsTame

(* The row keeps its plan. *)
LEMMA RowKept ==
  ASSUME TypeOK, TypeOK', row' = row \/ Like(row', row), Kept
  PROVE  RowTame
BY DEF RowTame, Like, Kept, TypeOK, RowOK

(* It has none any more. *)
LEMMA RowOver ==
  ASSUME TypeOK, TypeOK', Like(row', row), Over, row.status = "cancelled" => row'.status = "cancelled"
  PROVE  RowTame
BY DEF RowTame, Like, Over, TypeOK, RowOK

(* It gets a new one. *)
LEMMA RowReplanned ==
  ASSUME TypeOK, TypeOK', row'.last = row.last, row'.count = row.count,
         met' \cap {"updates", "resumes"} /= {} \/ (row.status = "active" /\ row'.limit = row.limit),
         row'.status = "active", row'.next = planned + 1, planned' = planned + 1,
         row.status /= "cancelled",
         \/ "deaths" \notin met' \/ (row.status = "active" /\ row.next = 0)
         \/ \E p \in Tickers : pc[p] = "skip",
         \/ row.kind = "dynamic" \/ met' \cap {"resumes", "nows", "updates"} /= {}
         \/ \A p \in Tickers : pc'[p] \notin Claimed
  PROVE  RowTame
BY DEF RowTame, Replanned, TypeOK, RowOK

(* A replica's turns at the leader's lock. *)
LEMMA LockTame ==
  ASSUME TypeOK, TypeOK', RunsInv, Grows, NEW p \in Tickers,
         Acquire(p) \/ Beat(p) \/ BeatSet(p) \/ Release(p) \/ Delete(p)
  PROVE  Tame
<1>1. UNCHANGED <<row, planned, runs, met>>
  BY DEF Acquire, Beat, BeatSet, Release, Delete, clock, input
<1>2. pc[p] \in PCs /\ claim \in [Tickers -> [next : Nat, last : Nat]] /\ run \in [Tickers -> Nat]
  BY DEF TypeOK, TickerOK
<1>3. TickTame
  <2>1. CASE Acquire(p)
    <3>1. \A q \in Tickers : pc[q] \in {"idle", "absent"}
      BY <2>1, NoOneAssumption DEF Acquire, RunsInv, Leading
    <3>2. Goto(p, "beat") /\ leader' = p /\ UNCHANGED <<claim, run>> BY <2>1 DEF Acquire
    <3>3. Onward(pc[p], "beat") BY <2>1 DEF Acquire, Onward, PCs, Claimed, Starting, Before
    <3> QED BY <3>1, <3>2, <3>3, TickMoves
  <2>2. CASE Beat(p)
    <3>1. leader = p /\ \A q \in Tickers : q /= p => pc[q] \in {"idle", "absent"}
      BY <2>2, Alone DEF Beat
    <3>2. PICK l \in {"beatSet", "beat2Set"} :
            /\ Goto(p, l) /\ UNCHANGED <<leader, claim, run>>
            /\ l = "beat2Set" => pc[p] = "beat2"
            /\ pc[p] \in {"beat", "beat2"}
      BY <2>2, <3>1 DEF Beat
    <3>3. Onward(pc[p], l) BY <3>2 DEF Onward, PCs, Claimed, Starting, Before
    <3> QED BY <3>1, <3>2, <3>3, TickMoves
  <2>3. CASE BeatSet(p)
    <3>1. leader = p /\ \A q \in Tickers : q /= p => pc[q] \in {"idle", "absent"}
      BY <2>3, Alone DEF BeatSet
    <3>2. PICK l \in {"plan", "look"} :
            /\ Goto(p, l) /\ UNCHANGED <<leader, claim, run>>
            /\ l = "look" => pc[p] = "beat2Set"
            /\ pc[p] \in {"beatSet", "beat2Set"}
      BY <2>3, <3>1, NoOneAssumption DEF BeatSet
    <3>3. Onward(pc[p], l) BY <3>2 DEF Onward, PCs, Claimed, Starting, Before
    <3> QED BY <3>1, <3>2, <3>3, TickMoves
  <2>4. CASE Release(p)
    <3>1. leader = p /\ \A q \in Tickers : q /= p => pc[q] \in {"idle", "absent"}
      BY <2>4, Alone DEF Release
    <3>2. /\ Goto(p, "delete") /\ UNCHANGED leader /\ pc[p] = "release" /\ claim'[p] = NoClaim
          /\ \A q \in Tickers : q /= p => claim'[q] = claim[q] /\ run'[q] = run[q]
      BY <1>2, <2>4, <3>1 DEF Release
    <3>3. Onward(pc[p], "delete") BY <3>2 DEF Onward, PCs, Claimed, Starting, Before
    <3>4. "delete" \notin Claimed BY DEF Claimed
    <3> QED BY <3>1, <3>2, <3>3, <3>4, TickMoves
  <2>5. CASE Delete(p)
    <3>1. \A q \in Tickers : q /= p => pc[q] \in {"idle", "absent"}
      BY <2>5, Alone DEF Delete
    <3>2. Goto(p, "idle") /\ UNCHANGED <<claim, run>> /\ pc[p] = "delete" BY <2>5 DEF Delete
    <3>3. Onward(pc[p], "idle") BY <3>2 DEF Onward, PCs, Claimed, Starting, Before
    <3> QED BY <3>1, <3>2, <3>3, TickMoves
  <2> QED BY <2>1, <2>2, <2>3, <2>4, <2>5
<1>4. RowTame BY <1>1, RowKept DEF Kept
<1>5. RunsTame BY <1>1, RunsSame
<1> QED BY <1>1, <1>3, <1>4, <1>5 DEF Tame

(* A replica's sweep. *)
LEMMA SweepTame ==
  ASSUME TypeOK, TypeOK', RunsInv, Grows, ~Strayed', NEW p \in Tickers,
         \/ Plan(p) \/ StopCancelled(p) \/ FailOverdue(p) \/ MarkTimedOut(p) \/ ExpireActive(p)
         \/ ClaimEnding(p) \/ Announce(p) \/ RecoverTerminal(p)
  PROVE  Tame
<1>0. "fails" \notin met' BY DEF Strayed
<1>1. /\ UNCHANGED <<leader, claim, met>>
      /\ pc[p] \in {"plan", "stop", "overdue", "timedOut", "expire", "announce", "tell", "terminal"}
      /\ \E l \in {"stop", "overdue", "timedOut", "expire", "announce", "tell", "terminal", "claim"} :
           Goto(p, l)
  BY <1>0 DEF Plan, StopCancelled, FailOverdue, MarkTimedOut, ExpireActive, ClaimEnding, Announce,
              RecoverTerminal, Use, input
<1>2. run \in [Tickers -> Nat] /\ pc \in [Tickers -> PCs] BY DEF TypeOK, TickerOK
<1>3. \A q \in Tickers : q /= p => run'[q] = run[q]
  BY <1>2 DEF Plan, StopCancelled, FailOverdue, MarkTimedOut, ExpireActive, ClaimEnding, Announce,
              RecoverTerminal
<1>4. leader = p /\ \A q \in Tickers : q /= p => pc[q] \in {"idle", "absent"}
  BY <1>1, Alone
<1>5. PICK l \in {"stop", "overdue", "timedOut", "expire", "announce", "tell", "terminal", "claim"} :
        Goto(p, l)
  BY <1>1
<1>6. TickTame
  <2>1. Onward(pc[p], l) /\ l \notin Claimed BY <1>1 DEF Onward, PCs, Claimed, Starting, Before
  <2> QED BY <1>1, <1>3, <1>4, <1>5, <2>1, TickMoves
<1>7. \A q \in Tickers : pc'[q] \notin Claimed
  BY <1>2, <1>4, <1>5 DEF Goto, Claimed
<1>8. RowTame
  <2>1. CASE StopCancelled(p) \/ FailOverdue(p) \/ Announce(p)
    <3>1. UNCHANGED <<row, planned>> BY <2>1 DEF StopCancelled, FailOverdue, Announce, clock
    <3> QED BY <3>1, RowKept DEF Kept
  <2>2. CASE ClaimEnding(p) BY <2>2, SweepRow, RowKept
  <2>3. CASE MarkTimedOut(p) \/ ExpireActive(p)
    <3>1. Like(row', row) /\ (Kept \/ (row.status = "active" /\ Over)) BY <2>3, SweepRow
    <3> QED BY <3>1, RowKept, RowOver
  <2>4. CASE Plan(p) \/ RecoverTerminal(p)
    <3>1. /\ Like(row', row)
          /\ \/ Kept
             \/ /\ row.status = "active" /\ row.next = 0 /\ row'.status = "active"
                /\ row'.next = planned + 1 /\ planned' = planned + 1
      BY <1>0, <2>4, SweepRow
    <3>2. CASE Kept BY <3>1, <3>2, RowKept
    <3>3. CASE /\ row.status = "active" /\ row.next = 0 /\ row'.status = "active"
               /\ row'.next = planned + 1 /\ planned' = planned + 1
      <4>1. row'.last = row.last /\ row'.count = row.count /\ row'.limit = row.limit
        BY <3>1 DEF Like
      <4> QED BY <1>7, <3>3, <4>1, RowReplanned
    <3> QED BY <3>1, <3>2, <3>3
  <2> QED BY <2>1, <2>2, <2>3, <2>4
<1>9. RunsTame
  <2>1. CASE StopCancelled(p) BY <2>1, StoppedTame DEF StopCancelled
  <2>2. CASE FailOverdue(p) /\ row.last /= 0 /\ Overdue(row.last)
    <3>1. PICK r \in Nat : r = row.last BY Types
    <3> DEFINE v == [runs[r] EXCEPT !.status = "failed"]
    <3>2. r \in DOMAIN runs BY <2>2, <3>1 DEF RunsInv, Recorded
    <3>3. runs' = [runs EXCEPT ![r] = v] /\ runs[r].late BY <2>2, <3>1 DEF FailOverdue, Overdue
    <3>4. runs[r] \in Runs BY <3>2, Types
    <3>5. /\ v.key = runs[r].key /\ v.late = runs[r].late /\ v.closing = runs[r].closing
          /\ v.status = "failed"
      BY <3>4 DEF Runs
    <3> HIDE DEF v
    <3>6. "overruns" \notin met => row.status = "cancelled"
      BY <3>2, <3>3 DEF RunsInv, Punctual
    <3> QED BY <1>1, <1>7, <3>2, <3>3, <3>5, <3>6, RunMoves
  <2>3. CASE ~StopCancelled(p) /\ ~(FailOverdue(p) /\ row.last /= 0 /\ Overdue(row.last))
    <3>1. UNCHANGED runs
      BY <2>3 DEF Plan, FailOverdue, MarkTimedOut, ExpireActive, ClaimEnding, Announce, RecoverTerminal
    <3> QED BY <3>1, RunsSame
  <2> QED BY <2>1, <2>2, <2>3
<1> QED BY <1>1, <1>6, <1>8, <1>9 DEF Tame

(* A replica's claim that finds nothing, its run that is passed over, and the prompt. *)
LEMMA TickTames ==
  ASSUME TypeOK, TypeOK', RunsInv, Grows, NEW p \in Tickers,
         (Claim(p) /\ ~Due) \/ MarkSkipped(p) \/ Ask(p)
  PROVE  Tame
<1>1. UNCHANGED <<leader, claim, run, met>> BY DEF Claim, MarkSkipped, Ask, input
<1>2. leader = p /\ \A q \in Tickers : q /= p => pc[q] \in {"idle", "absent"}
  BY Alone DEF Claim, MarkSkipped, Ask
<1>3. PICK l \in {"release", "enqueue"} :
        /\ Goto(p, l) /\ (l = "enqueue" => Ask(p))
        /\ l = "release" => pc[p] \in {"claim", "skip"}
  BY DEF Claim, MarkSkipped, Ask
<1>4. TickTame
  <2>1. Onward(pc[p], l) BY <1>3 DEF Onward, PCs, Claimed, Starting, Before, Ask
  <2> QED BY <1>1, <1>2, <1>3, <2>1, TickMoves
<1>5. RowTame
  <2>1. CASE Claim(p) BY <2>1, SweepRow, RowKept
  <2>2. CASE Ask(p)
    <3>1. UNCHANGED <<row, planned>> BY <2>2 DEF Ask, clock
    <3> QED BY <3>1, RowKept DEF Kept
  <2>3. CASE MarkSkipped(p)
    <3>1. pc[p] = "skip" /\ Goto(p, "release") BY <2>3 DEF MarkSkipped
    <3>2. /\ Like(row', row)
          /\ \/ Kept
             \/ /\ row.status = "active" /\ row'.status = "active"
                /\ row'.next = planned + 1 /\ planned' = planned + 1
      BY <2>3, SweepRow
    <3>3. \A q \in Tickers : pc'[q] \notin Claimed
      BY <1>2, <3>1 DEF Goto, Claimed, TypeOK, TickerOK
    <3>4. row'.last = row.last /\ row'.count = row.count /\ row'.limit = row.limit
      BY <3>2 DEF Like
    <3> QED BY <3>1, <3>2, <3>3, <3>4, RowKept, RowReplanned
  <2> QED BY <2>1, <2>2, <2>3
<1>6. RunsTame
  <2>1. CASE Ask(p)
    <3>1. PICK r \in DOMAIN runs : r = run[p]
      BY <2>1 DEF Ask, RunsInv, Instants
    <3> DEFINE v == [runs[r] EXCEPT !.asked = runs[r].asked + 1]
    <3>2. runs' = [runs EXCEPT ![r] = v] BY <2>1, <3>1 DEF Ask
    <3>3. runs[r] \in Runs BY Types
    <3>4. /\ v.key = runs[r].key /\ v.late = runs[r].late /\ v.closing = runs[r].closing
          /\ v.status = runs[r].status
      BY <3>3 DEF Runs
    <3>5. r /= 0 BY Types
    <3> HIDE DEF v
    <3> QED BY <3>2, <3>4, <3>5, RunMoves DEF StillGoing
  <2>2. CASE ~Ask(p)
    <3>1. UNCHANGED runs BY <2>2 DEF Claim, MarkSkipped
    <3> QED BY <3>1, RunsSame
  <2> QED BY <2>1, <2>2
<1> QED BY <1>1, <1>4, <1>5, <1>6 DEF Tame

(* Time passes: the locks of nobody run out, instants come. *)
LEMMA TimeTame ==
  ASSUME TypeOK, TypeOK', RunsInv, Grows, ~Strayed', Time
  PROVE  Tame
<1>1. UNCHANGED <<runs, pc, claim, run>>
  BY DEF Time, LockExpires, LeaderExpires, Elapse, Expiry, ticker
<1>2. "slows" \notin met' BY DEF Strayed
<1>3. "deaths" \in met' => "deaths" \in met
  BY DEF Time, LockExpires, LeaderExpires, Elapse, Expiry, Use, input
<1>4. RowTame
  <2>1. CASE LockExpires
    <3>1. row' = Unlocked(row) /\ row \in Rows /\ planned' = planned
      BY <2>1 DEF LockExpires, clock, TypeOK, RowOK
    <3> QED BY <3>1, Fields, RowKept DEF Kept
  <2>2. CASE LeaderExpires \/ Elapse \/ Expiry
    <3>1. UNCHANGED <<row, planned>> BY <2>2 DEF LeaderExpires, Elapse, Expiry, clock
    <3> QED BY <3>1, RowKept DEF Kept
  <2> QED BY <2>1, <2>2 DEF Time
<1>5. TickTame
  <2>1. CASE LeaderExpires
    <3>1. pc[leader] = "idle" BY <1>2, <2>1 DEF LeaderExpires, Use
    <3>2. \A q \in Tickers : pc[q] \in {"idle", "absent"} BY <3>1 DEF RunsInv, Leading
    <3> QED BY <1>1, <3>2 DEF TickTame, Claimed, RunsInv, Leading
  <2>2. CASE ~LeaderExpires
    <3>1. UNCHANGED leader BY <2>2 DEF Time, LockExpires, Elapse, Expiry
    <3> QED BY <1>1, <3>1, TicksSame
  <2> QED BY <2>1, <2>2
<1>6. RunsTame BY <1>1, RunsSame
<1> QED BY <1>3, <1>4, <1>5, <1>6 DEF Tame

(* What a person asks for. *)
LEMMA PersonTame ==
  ASSUME TypeOK, TypeOK', RunsInv, Grows, ~Strayed', Person
  PROVE  Tame
<1>1. UNCHANGED <<leader, pc, claim, run>>
  BY DEF Person, Pause, Resume, ResumeUnplanned, Cancel, StopNow, RunNow, Edit, Update, PersonStep,
         ticker
<1>2. TickTame BY <1>1, TicksSame
<1>3. RunsTame
  <2>1. CASE StopNow BY <2>1, StoppedTame DEF StopNow
  <2>2. CASE ~StopNow
    <3>1. UNCHANGED runs
      BY <2>2 DEF Person, Pause, Resume, ResumeUnplanned, Cancel, RunNow, Edit, Update
    <3> QED BY <3>1, RunsSame
  <2> QED BY <2>1, <2>2
<1>4. "deaths" \in met' => "deaths" \in met
  <2>1. met' = met \/ \E i \in {"pauses", "resumes", "cancels", "nows", "updates"} : Use(i)
    BY DEF Person, Pause, Resume, ResumeUnplanned, Cancel, StopNow, RunNow, Edit, Update, input
  <2> QED BY <2>1 DEF Use
<1>5. RowTame
  <2>1. CASE Pause BY <2>1, PersonRow, RowOver
  <2>2. CASE Cancel BY <2>2, PersonRow, RowOver
  <2>3. CASE StopNow
    <3>1. UNCHANGED <<row, planned>> BY <2>3 DEF StopNow
    <3> QED BY <3>1, RowKept DEF Kept
  <2>4. ASSUME NEW now \in BOOLEAN, Resume(now) PROVE RowTame
    <3>1. "resumes" \in met' BY <2>4 DEF Resume, Use
    <3>2. "deaths" \notin met' BY <3>1 DEF Strayed
    <3>3. met' \cap {"resumes", "nows", "updates"} /= {} /\ met' \cap {"updates", "resumes"} /= {}
      BY <3>1
    <3>4. /\ row'.last = row.last /\ row'.count = row.count /\ row.status = "paused"
          /\ row'.status = "active" /\ row'.next = planned + 1 /\ planned' = planned + 1
      BY <2>4, PersonRow DEF Like
    <3> QED BY <3>2, <3>3, <3>4, RowReplanned
  <2>5. CASE RunNow
    <3>1. "nows" \in met' BY <2>5 DEF RunNow, Use
    <3>2. "deaths" \notin met' BY <3>1 DEF Strayed
    <3>3. met' \cap {"resumes", "nows", "updates"} /= {} BY <3>1
    <3>4. /\ row'.last = row.last /\ row'.count = row.count /\ row'.limit = row.limit
          /\ row.status = "active"
          /\ row'.status = "active" /\ row'.next = planned + 1 /\ planned' = planned + 1
      BY <2>5, PersonRow DEF Like
    <3> QED BY <3>2, <3>3, <3>4, RowReplanned
  <2>6. ASSUME NEW k \in Kinds, Update(k) PROVE RowTame
    <3>1. "updates" \in met' BY <2>6 DEF Update, Use
    <3>2. "deaths" \notin met' BY <3>1 DEF Strayed
    <3>3. met' \cap {"resumes", "nows", "updates"} /= {} /\ met' \cap {"updates", "resumes"} /= {}
      BY <3>1
    <3>4. /\ row'.last = row.last /\ row'.count = row.count
          /\ \/ Kept
             \/ /\ row.status = "active" /\ row'.status = "active"
                /\ row'.next = planned + 1 /\ planned' = planned + 1
      BY <2>6, PersonRow
    <3>5. CASE Kept BY <3>3, <3>4, <3>5 DEF RowTame, Kept, TypeOK, RowOK
    <3>6. CASE /\ row.status = "active" /\ row'.status = "active"
               /\ row'.next = planned + 1 /\ planned' = planned + 1
      BY <3>2, <3>3, <3>4, <3>6, RowReplanned
    <3> QED BY <3>4, <3>5, <3>6
  <2>7. CASE Edit BY <2>7, PersonRow, RowKept
  <2>8. CASE ResumeUnplanned
    <3>1. "resumes" \in met' BY <2>8 DEF ResumeUnplanned, Use
    <3>2. /\ Like(row', row) /\ row.status = "paused" /\ row'.status = "active"
          /\ row'.next = row.next /\ planned' = planned
      BY <2>8, PersonRow
    <3>3. row.next = 0 BY <3>2 DEF RunsInv, Resting
    <3> QED BY <3>1, <3>2, <3>3 DEF RowTame, Woken, Like, TypeOK, RowOK
  <2> QED BY <2>1, <2>2, <2>3, <2>4, <2>5, <2>6, <2>7, <2>8 DEF Person
<1> QED BY <1>2, <1>3, <1>4, <1>5 DEF Tame

(* What a run does. *)
LEMMA RunStepTame ==
  ASSUME TypeOK, TypeOK', RunsInv, Grows, ~Strayed', NEW r \in DOMAIN runs, Run(r)
  PROVE  Tame
<1>0. runs[r] \in Runs /\ r /= 0 BY Types
<1>1. UNCHANGED <<leader, pc, claim, run>>
  BY DEF Run, RunEnds, FinalizeLook, FinalizeWrite, FinalizeLost, LoopWait, LoopComplete, RunLate,
         RunStep, ticker
<1>2. TickTame BY <1>1, TicksSame
<1>3. ~FinalizeLost(r)
  <2> SUFFICES ASSUME FinalizeLost(r) PROVE FALSE OBVIOUS
  <2>1. row.kind = "dynamic" /\ "deaths" \in met'
    BY DEF FinalizeLost, Use, RunsInv, Instants
  <2> QED BY <2>1 DEF Grows, Strayed
<1>4. "deaths" \in met' => "deaths" \in met
  <2>1. met' = met \/ \E i \in {"crashes", "waits", "dones", "overruns"} : Use(i)
    <3>1. CASE RunEnds(r, "completed") \/ RunEnds(r, "failed") \/ RunLate(r)
      BY <3>1 DEF RunEnds, RunLate, input
    <3>2. CASE LoopWait(r, TRUE) \/ LoopWait(r, FALSE) \/ LoopComplete(r)
      BY <3>2 DEF LoopWait, LoopComplete
    <3>3. CASE FinalizeLook(r) \/ FinalizeWrite(r)
      BY <3>3 DEF FinalizeLook, FinalizeWrite, input
    <3> QED BY <1>3, <3>1, <3>2, <3>3 DEF Run
  <2> QED BY <2>1 DEF Use
<1>5. RowTame
  <2>1. CASE RunEnds(r, "completed") \/ RunEnds(r, "failed") \/ FinalizeLook(r) \/ RunLate(r)
    <3>1. UNCHANGED <<row, planned>> BY <2>1 DEF RunEnds, FinalizeLook, RunLate
    <3> QED BY <3>1, RowKept DEF Kept
  <2>2. CASE FinalizeWrite(r) \/ LoopWait(r, TRUE) \/ LoopWait(r, FALSE)
    <3>1. Chosen(r, TRUE) \/ Chosen(r, FALSE) BY <2>2 DEF FinalizeWrite, LoopWait
    <3>2. /\ Like(row', row)
          /\ \/ Kept
             \/ row.status = "active" /\ Over
             \/ /\ row.status = "active" /\ row'.status = "active"
                /\ row'.next = planned + 1 /\ planned' = planned + 1
      BY <3>1, ChosenRow
    <3>3. row.kind = "dynamic" BY <2>2 DEF FinalizeWrite, LoopWait, RunsInv, Instants
    <3>4. "deaths" \notin met' BY <3>3 DEF Grows, Strayed
    <3>5. row'.last = row.last /\ row'.count = row.count /\ row'.limit = row.limit
      BY <3>2 DEF Like
    <3> QED BY <3>2, <3>3, <3>4, <3>5, RowKept, RowOver, RowReplanned
  <2>3. CASE LoopComplete(r)
    <3>1. /\ row \in Rows /\ row.status = "active" /\ row' = Unlocked(Ended(row, "done"))
          /\ planned' = planned
      BY <2>3 DEF LoopComplete, NoPlan, TypeOK, RowOK
    <3>2. Like(row', row) /\ Over BY <3>1, Fields2 DEF Over
    <3> QED BY <3>1, <3>2, RowOver
  <2> QED BY <1>3, <2>1, <2>2, <2>3 DEF Run
<1>6. RunsTame
  <2>1. ASSUME NEW how \in {"completed", "failed"}, RunEnds(r, how) PROVE RunsTame
    <3> DEFINE c == IF row.kind = "dynamic" THEN "look" ELSE "no"
               v == [runs[r] EXCEPT !.status = how, !.closing = c]
    <3>1. runs' = [runs EXCEPT ![r] = v] /\ runs[r].status = "active" BY <2>1 DEF RunEnds
    <3>2. c \in {"look", "no"} /\ (c /= "no" => row.kind = "dynamic") OBVIOUS
    <3>3. v.key = runs[r].key /\ v.late = runs[r].late /\ v.closing = c /\ v.status = how
      <4> HIDE DEF c
      <4> QED BY <1>0 DEF Runs
    <3>4. "overruns" \notin met' => ~runs[r].late
      BY <3>1 DEF RunsInv, Punctual, Grows
    <3> HIDE DEF v, c
    <3> QED BY <3>1, <3>2, <3>3, <3>4, RunMoves
  <2>2. CASE FinalizeLook(r) \/ FinalizeWrite(r)
    <3>1. PICK c \in {"no", "write"} :
            /\ runs' = [runs EXCEPT ![r] = [runs[r] EXCEPT !.closing = c]]
            /\ c /= "no" => runs[r].closing /= "no"
      BY <2>2 DEF FinalizeLook, FinalizeWrite
    <3> DEFINE v == [runs[r] EXCEPT !.closing = c]
    <3>2. /\ v.key = runs[r].key /\ v.late = runs[r].late /\ v.closing = c
          /\ v.status = runs[r].status
      BY <1>0 DEF Runs
    <3>3. runs' = [runs EXCEPT ![r] = v] BY <3>1
    <3> HIDE DEF v
    <3>4. (v.status = "active" /\ ~v.late) => StillGoing(r) BY <1>0, <3>2 DEF StillGoing
    <3>5. v.closing /= "no" => runs[r].closing /= "no" \/ row.kind = "dynamic" BY <3>1, <3>2
    <3> QED BY <3>2, <3>3, <3>4, <3>5, RunMoves
  <2>3. CASE RunLate(r)
    <3> DEFINE v == [runs[r] EXCEPT !.late = TRUE]
    <3>1. /\ runs' = [runs EXCEPT ![r] = v]
          /\ runs[r].status = "paused" \/ "overruns" \in met'
      BY <2>3 DEF RunLate, Use
    <3>2. /\ v.key = runs[r].key /\ v.late = TRUE /\ v.closing = runs[r].closing
          /\ v.status = runs[r].status
      BY <1>0 DEF Runs
    <3>3. runs[r].status = "paused" => row.status = "cancelled" BY DEF RunsInv, Resting
    <3> HIDE DEF v
    <3> QED BY <3>1, <3>2, <3>3, RunMoves
  <2>4. CASE LoopWait(r, TRUE) \/ LoopWait(r, FALSE) \/ LoopComplete(r)
    <3>1. UNCHANGED runs BY <2>4 DEF LoopWait, LoopComplete
    <3> QED BY <3>1, RunsSame
  <2> QED BY <1>3, <2>1, <2>2, <2>3, <2>4 DEF Run
<1> QED BY <1>2, <1>4, <1>5, <1>6 DEF Tame

(* ------------------------ claiming and starting a run ------------------ *)

(* The one replica that is at it goes on; the others are idle. *)
LEMMA OneMoves ==
  ASSUME TypeOK, RunsInv, NEW p \in Tickers, NEW l, Goto(p, l), pc[p] \notin {"idle", "absent"}
  PROVE  /\ leader = p /\ pc'[p] = l
         /\ \A q \in Tickers : q /= p =>
              /\ pc[q] \in {"idle", "absent"} /\ pc'[q] = pc[q]
              /\ pc[q] \notin Claimed \cup Before \cup Starting
         /\ Nobody <=> pc[p] \notin Starting
         /\ Nobody' <=> l \notin Starting
<1>1. pc \in [Tickers -> PCs] BY DEF TypeOK, TickerOK
<1>2. pc'[p] = l /\ \A q \in Tickers : q /= p => pc'[q] = pc[q] BY <1>1 DEF Goto
<1>3. leader = p /\ \A q \in Tickers : q /= p => pc[q] \in {"idle", "absent"} BY Alone
<1> QED BY <1>2, <1>3 DEF Nobody, Claimed, Before, Starting

(* Nothing but the place of a replica, its claim and the row's lock changes: the rest of
   the invariant that does not speak of them holds. *)
LEMMA SamePlan ==
  ASSUME RunsInv, UNCHANGED <<runs, planned>>, row' = row \/ Like(row', row), Kept
  PROVE  /\ row'.next = row.next /\ row'.last = row.last /\ row'.count = row.count
         /\ row'.status = row.status /\ row'.limit = row.limit /\ row'.kind = row.kind
         /\ \A r \in DOMAIN runs : StillGoing(r)' <=> StillGoing(r)
         /\ StillGoing(row.last)' <=> StillGoing(row.last)
         /\ Resting'
<1>1. /\ row'.next = row.next /\ row'.last = row.last /\ row'.count = row.count
      /\ row'.status = row.status /\ row'.limit = row.limit /\ row'.kind = row.kind
  BY DEF Like, Kept
<1> QED BY <1>1 DEF StillGoing, RunsInv, Resting

(* A replica claims the instant that is due. *)
LEMMA ClaimStep ==
  ASSUME TypeOK, TypeOK', RunsInv, ~Strayed', NEW p \in Tickers, Claim(p), Due
  PROVE  RunsInv'
<1>1. /\ Goto(p, "beat2") /\ pc[p] = "claim" /\ UNCHANGED <<runs, planned, leader, run, met>>
      /\ claim'[p] = [next |-> row.next, last |-> row.last]
      /\ \A q \in Tickers : q /= p => claim'[q] = claim[q]
  BY DEF Claim, clock, input, TypeOK, TickerOK
<1>2. /\ leader = p /\ pc'[p] = "beat2" /\ Nobody /\ Nobody'
      /\ \A q \in Tickers : q /= p =>
           pc[q] \in {"idle", "absent"} /\ pc'[q] = pc[q] /\ pc[q] \notin Claimed \cup Before \cup Starting
  BY <1>1, OneMoves DEF Starting
<1>3. /\ row'.next = row.next /\ row'.last = row.last /\ row'.count = row.count
      /\ row'.status = row.status /\ row'.limit = row.limit /\ row'.kind = row.kind
      /\ \A r \in DOMAIN runs : StillGoing(r)' <=> StillGoing(r)
      /\ StillGoing(row.last)' <=> StillGoing(row.last)
      /\ Resting'
  BY <1>1, SweepRow, SamePlan
<1>4. row.status = "active" /\ row.next > 0 BY Types DEF Due
<1>5. claim'[p].next = row.next /\ claim'[p].last = row.last BY <1>1
<1>6. Instants'
  <2>1. \A q \in Tickers : pc'[q] \in {"ask", "enqueue", "mark"} => FALSE
    BY <1>2 DEF Starting
  <2>2. \A q \in Tickers : claim'[q].next <= planned /\ (pc'[q] \in Claimed => claim'[q].next > 0)
    BY <1>1, <1>2, <1>4, <1>5 DEF RunsInv, Instants
  <2> QED BY <1>1, <1>3, <2>1, <2>2 DEF RunsInv, Instants
<1>7. Leading' BY <1>1, <1>2, <1>3, <1>5 DEF RunsInv, Leading
<1>8. Recorded' BY <1>1, <1>2, <1>3, <1>5 DEF RunsInv, Recorded
<1>9. Punctual' BY <1>1, <1>4 DEF RunsInv, Punctual
<1>10. Apart'
  <2>1. ASSUME NEW r \in DOMAIN runs, StillGoing(r) PROVE r = row.last \/ runs[r].key = row.next
    BY <1>2, <1>4, <2>1 DEF RunsInv, Apart
  <2> QED BY <1>1, <1>2, <1>3, <1>5, <2>1 DEF RunsInv, Apart, Starting
<1>11. Keyed(p)' = {r \in DOMAIN runs : runs[r].key = row.next} BY <1>1, <1>5 DEF Keyed
<1>12. InOrder' BY <1>1, <1>2, <1>3, <1>4, <1>11 DEF RunsInv, InOrder
<1>13. Limited'
  <2> SUFFICES ASSUME row.limit /= 0, met \cap {"updates", "resumes"} = {} PROVE Within'
    BY <1>1, <1>3 DEF Limited
  <2>1. Within BY DEF RunsInv, Limited
  <2>2. /\ row.count < row.limit /\ row.count \in Nat /\ Len(runs) \in Nat
        /\ \/ Len(runs) <= row.count
           \/ /\ "deaths" \in met /\ Len(runs) <= row.count + 1
              /\ \E r \in DOMAIN runs : runs[r].key = row.next
    BY <1>2, <1>4, <2>1, Types DEF Within
  <2> QED BY <1>1, <1>2, <1>3, <1>11, <2>1, <2>2 DEF Within, Before, Starting
<1> QED BY <1>3, <1>6, <1>7, <1>8, <1>9, <1>10, <1>12, <1>13 DEF RunsInv

(* It looks at the run before. *)
LEMMA LookStep ==
  ASSUME TypeOK, TypeOK', RunsInv, ~Strayed', NEW p \in Tickers, Look(p)
  PROVE  RunsInv'
<1>1. /\ pc[p] = "look" /\ UNCHANGED <<row, runs, planned, leader, claim, run, met>>
      /\ Goto(p, IF StillGoing(claim[p].last) THEN "skip" ELSE "create")
  BY DEF Look, clock, input
<1>2. claim[p].last = row.last BY <1>1 DEF RunsInv, Leading, Claimed
<1>3. PICK l \in {"skip", "create"} : Goto(p, l) /\ (l = "skip" <=> StillGoing(row.last))
  BY <1>1, <1>2
<1>4. /\ leader = p /\ pc'[p] = l /\ Nobody /\ (Nobody' <=> l = "skip")
      /\ \A q \in Tickers : q /= p =>
           pc[q] \in {"idle", "absent"} /\ pc'[q] = pc[q] /\ pc[q] \notin Claimed \cup Before \cup Starting
  BY <1>1, <1>3, OneMoves DEF Starting
<1>5. /\ \A r \in DOMAIN runs : StillGoing(r)' <=> StillGoing(r)
      /\ StillGoing(row.last)' <=> StillGoing(row.last)
      /\ Resting'
  BY <1>1, SamePlan DEF Kept
<1>6. pc[p] \in Claimed /\ pc'[p] \in Claimed /\ pc[p] \in Before /\ pc'[p] \notin Before
  BY <1>1, <1>4 DEF Claimed, Before
<1>7. Keyed(p)' = Keyed(p) BY <1>1 DEF Keyed
<1>8. Instants' BY <1>1, <1>4, <1>6 DEF RunsInv, Instants
<1>9. Leading' BY <1>1, <1>4, <1>6 DEF RunsInv, Leading
<1>10. Recorded' BY <1>1, <1>4, <1>6 DEF RunsInv, Recorded
<1>11. Punctual' BY <1>1, <1>4, <1>6 DEF RunsInv, Punctual
<1>12. Apart'
  <2>1. ASSUME NEW r \in DOMAIN runs, StillGoing(r)
        PROVE  IF l = "skip" THEN r = row.last ELSE runs[r].key = claim[p].next
    <3>1. r = row.last \/ runs[r].key = claim[p].next BY <1>6, <2>1 DEF RunsInv, Apart
    <3>2. CASE l = "skip"
      <4>1. StillGoing(row.last) /\ row.last \in DOMAIN runs
        BY <1>3, <3>2 DEF StillGoing, RunsInv, Recorded
      <4> QED BY <2>1, <3>2, <4>1 DEF RunsInv, Apart
    <3> QED BY <1>3, <2>1, <3>1, <3>2
  <2> QED BY <1>1, <1>4, <1>5, <1>6, <2>1 DEF RunsInv, Apart, Starting
<1>13. InOrder' BY <1>1, <1>4, <1>5, <1>6 DEF RunsInv, InOrder
<1>14. Limited'
  <2> SUFFICES ASSUME row.limit /= 0, met \cap {"updates", "resumes"} = {} PROVE Within'
    BY <1>1 DEF Limited
  <2>1. Within BY DEF RunsInv, Limited
  <2>2. /\ row.count < row.limit /\ Len(runs) <= row.count + 1
        /\ Keyed(p) = {} => Len(runs) <= row.count
    BY <1>6, <2>1 DEF Within
  <2>3. l = "skip" => Len(runs) <= row.count
    BY <1>3, <1>6, <2>2 DEF RunsInv, InOrder
  <2> QED BY <1>1, <1>4, <1>6, <1>7, <2>1, <2>2, <2>3 DEF Within, Before, Starting
<1> QED BY <1>5, <1>8, <1>9, <1>10, <1>11, <1>12, <1>13, <1>14 DEF RunsInv

(* It makes the run of the instant, or adopts the one that was left. *)
LEMMA CreateStep ==
  ASSUME TypeOK, TypeOK', RunsInv, ~Strayed', NEW p \in Tickers, Create(p)
  PROVE  RunsInv'
<1>1. /\ pc[p] = "create" /\ UNCHANGED <<row, planned, leader, claim, met>> /\ Goto(p, "ask")
      /\ \A q \in Tickers : q /= p => run'[q] = run[q]
  BY DEF Create, clock, input, TypeOK, TickerOK
<1>2. /\ leader = p /\ pc'[p] = "ask" /\ ~Nobody /\ ~Nobody'
      /\ \A q \in Tickers : q /= p =>
           pc[q] \in {"idle", "absent"} /\ pc'[q] = pc[q] /\ pc[q] \notin Claimed \cup Before \cup Starting
  BY <1>1, OneMoves DEF Starting
<1>3. /\ pc[p] \in Claimed /\ pc'[p] \in Claimed /\ pc[p] \in Starting /\ pc'[p] \in Starting
      /\ pc'[p] \notin Before /\ pc'[p] /= "skip"
  BY <1>1, <1>2 DEF Claimed, Starting, Before
<1>4. /\ claim[p].next > 0 /\ claim[p].next <= planned /\ runs \in Seq(Runs)
      /\ row.count \in Nat /\ row.limit \in Nat /\ Len(runs) \in Nat /\ DOMAIN runs = 1..Len(runs)
  BY <1>3, Types DEF RunsInv, Instants, TypeOK
<1>5. ASSUME NEW r \in DOMAIN runs, StillGoing(r) PROVE runs[r].key = claim[p].next
  BY <1>3, <1>5 DEF RunsInv, Apart
<1>6. ~StillGoing(row.last)
  BY <1>3, <1>5 DEF StillGoing, RunsInv, Recorded
<1>7. CASE Keyed(p) = {} /\ run'[p] = Len(runs) + 1
             /\ runs' = Append(runs, [key |-> claim[p].next, status |-> "active", asked |-> 0,
                                      late |-> FALSE, closing |-> "no"])
  <2> DEFINE n == Len(runs) + 1
             new == [key |-> claim[p].next, status |-> "active", asked |-> 0, late |-> FALSE,
                     closing |-> "no"]
  <2>1. /\ DOMAIN runs' = DOMAIN runs \cup {n} /\ n \notin DOMAIN runs /\ Len(runs') = n
        /\ runs'[n] = new /\ \A r \in DOMAIN runs : runs'[r] = runs[r]
    BY <1>4, <1>7
  <2>2. /\ new.key = claim[p].next /\ new.status = "active" /\ new.late = FALSE /\ new.closing = "no"
    OBVIOUS
  <2> HIDE DEF new
  <2>3. \A r \in DOMAIN runs : runs[r].key /= claim[p].next /\ ~StillGoing(r)
    BY <1>5, <1>7 DEF Keyed
  <2>4. \A r \in DOMAIN runs : ~StillGoing(r)' BY <2>1, <2>3 DEF StillGoing
  <2>5. Instants'
    <3>1. \A r, s \in DOMAIN runs' : runs'[r].key = runs'[s].key => r = s
      BY <2>1, <2>2, <2>3 DEF RunsInv, Instants
    <3>2. \A r \in DOMAIN runs' : /\ runs'[r].key > 0 /\ runs'[r].key <= planned
                                  /\ runs'[r].closing /= "no" => row.kind = "dynamic"
      BY <1>4, <2>1, <2>2 DEF RunsInv, Instants
    <3>3. \A q \in Tickers : pc'[q] \in {"ask", "enqueue", "mark"} =>
            run'[q] \in DOMAIN runs' /\ runs'[run'[q]].key = claim[q].next
      BY <1>2, <1>7, <2>1, <2>2
    <3>4. \A q \in Tickers : claim[q].next <= planned /\ (pc'[q] \in Claimed => claim[q].next > 0)
      BY <1>2, <1>4 DEF RunsInv, Instants
    <3> QED BY <1>1, <3>1, <3>2, <3>3, <3>4 DEF RunsInv, Instants
  <2>6. Resting' BY <1>1, <2>1, <2>2 DEF RunsInv, Resting
  <2>7. Leading' BY <1>1, <1>2, <1>3 DEF RunsInv, Leading
  <2>8. Recorded' BY <1>1, <1>2, <1>3, <2>1 DEF RunsInv, Recorded
  <2>9. Punctual' BY <1>1, <1>2, <1>3, <2>1, <2>2 DEF RunsInv, Punctual
  <2>10. Apart' BY <1>1, <1>2, <1>3, <2>1, <2>2, <2>4 DEF Apart
  <2>11. InOrder'
    <3>1. ~StillGoing(row.last)'
      BY <1>1, <1>6, <2>1, <2>4 DEF StillGoing, RunsInv, Recorded
    <3> QED BY <3>1 DEF InOrder
  <2>12. n \in Keyed(p)' BY <1>1, <2>1, <2>2 DEF Keyed
  <2>13. Limited'
    <3> SUFFICES ASSUME row.limit /= 0, met \cap {"updates", "resumes"} = {} PROVE Within'
      BY <1>1 DEF Limited
    <3>1. Within BY DEF RunsInv, Limited
    <3>2. row.count < row.limit /\ Len(runs) <= row.count
      BY <1>3, <1>7, <3>1 DEF Within
    <3>3. Len(runs') <= row.count + 1 /\ Len(runs') <= row.limit BY <1>4, <2>1, <3>2
    <3> QED BY <1>1, <1>2, <1>3, <2>12, <3>2, <3>3 DEF Within
  <2> QED BY <2>5, <2>6, <2>7, <2>8, <2>9, <2>10, <2>11, <2>13 DEF RunsInv
<1>8. ASSUME NEW r \in Keyed(p), run'[p] = r, UNCHANGED runs PROVE RunsInv'
  <2>1. r \in DOMAIN runs /\ runs[r].key = claim[p].next BY DEF Keyed
  <2>2. /\ \A s \in DOMAIN runs : StillGoing(s)' <=> StillGoing(s)
        /\ StillGoing(row.last)' <=> StillGoing(row.last)
        /\ Resting'
    BY <1>1, <1>8, SamePlan DEF Kept
  <2>3. Keyed(p)' = Keyed(p) BY <1>1, <1>8 DEF Keyed
  <2>4. Instants' BY <1>1, <1>2, <1>3, <1>8, <2>1 DEF RunsInv, Instants
  <2>5. Leading' BY <1>1, <1>2, <1>3 DEF RunsInv, Leading
  <2>6. Recorded' BY <1>1, <1>2, <1>3, <1>8 DEF RunsInv, Recorded
  <2>7. Punctual' BY <1>1, <1>2, <1>3, <1>8 DEF RunsInv, Punctual
  <2>8. Apart' BY <1>1, <1>2, <1>3, <1>5, <1>8, <2>2 DEF RunsInv, Apart
  <2>9. InOrder' BY <1>6, <2>2 DEF InOrder
  <2>10. Limited'
    <3> SUFFICES ASSUME row.limit /= 0, met \cap {"updates", "resumes"} = {} PROVE Within'
      BY <1>1 DEF Limited
    <3>1. Within BY DEF RunsInv, Limited
    <3> QED BY <1>1, <1>2, <1>3, <1>8, <2>3, <3>1 DEF Within
  <2> QED BY <2>2, <2>4, <2>5, <2>6, <2>7, <2>8, <2>9, <2>10 DEF RunsInv
<1>9. \/ Keyed(p) = {} /\ run'[p] = Len(runs) + 1
           /\ runs' = Append(runs, [key |-> claim[p].next, status |-> "active", asked |-> 0,
                                    late |-> FALSE, closing |-> "no"])
      \/ \E r \in Keyed(p) : run'[p] = r /\ UNCHANGED runs
  BY DEF Create, TypeOK, TickerOK
<1> QED BY <1>7, <1>8, <1>9

(* It wakes the run. *)
LEMMA EnqueueStep ==
  ASSUME TypeOK, TypeOK', RunsInv, ~Strayed', NEW p \in Tickers, Enqueue(p)
  PROVE  RunsInv'
<1>1. /\ pc[p] = "enqueue" /\ UNCHANGED <<row, planned, leader, claim, run, met>> /\ Goto(p, "mark")
  BY DEF Enqueue, clock, input
<1>2. /\ leader = p /\ pc'[p] = "mark" /\ ~Nobody /\ ~Nobody'
      /\ \A q \in Tickers : q /= p =>
           pc[q] \in {"idle", "absent"} /\ pc'[q] = pc[q] /\ pc[q] \notin Claimed \cup Before \cup Starting
  BY <1>1, OneMoves DEF Starting
<1>3. /\ pc[p] \in Claimed /\ pc'[p] \in Claimed /\ pc[p] \in Starting /\ pc'[p] \in Starting
      /\ pc'[p] \notin Before /\ pc'[p] /= "skip"
  BY <1>1, <1>2 DEF Claimed, Starting, Before
<1>4. PICK r \in DOMAIN runs : r = run[p] /\ runs[r].key = claim[p].next
  BY <1>1 DEF RunsInv, Instants
<1> DEFINE s == IF runs[r].status = "paused" THEN "paused" ELSE "active"
           v == [runs[r] EXCEPT !.status = s]
<1>5. runs' = [runs EXCEPT ![r] = v] BY <1>4 DEF Enqueue
<1>6. runs[r] \in Runs /\ runs \in Seq(Runs) /\ r \in 1..Len(runs) BY <1>4, Types DEF TypeOK
<1>7. v.key = runs[r].key /\ v.late = runs[r].late /\ v.closing = runs[r].closing /\ v.status = s
  BY <1>6 DEF Runs
<1>8. s \in {"paused", "active"} /\ (s = "paused" <=> runs[r].status = "paused") OBVIOUS
<1> HIDE DEF v, s
<1>9. /\ DOMAIN runs' = DOMAIN runs /\ Len(runs') = Len(runs) /\ runs'[r] = v
      /\ \A q \in DOMAIN runs : q /= r => runs'[q] = runs[q]
  BY <1>5, <1>6
<1>10. /\ \A q \in DOMAIN runs : runs'[q].key = runs[q].key
       /\ \A q \in DOMAIN runs : runs'[q].late = runs[q].late /\ runs'[q].closing = runs[q].closing
       /\ \A q \in DOMAIN runs : runs'[q].status = "paused" <=> runs[q].status = "paused"
  BY <1>7, <1>8, <1>9
<1>11. \A q \in DOMAIN runs : StillGoing(q) => runs[q].key = claim[p].next
  BY <1>3 DEF RunsInv, Apart
<1>12. \A q \in DOMAIN runs : StillGoing(q)' => q = r
  <2>1. ASSUME NEW q \in DOMAIN runs, StillGoing(q)', q /= r PROVE FALSE
    <3>1. StillGoing(q) BY <1>9, <2>1 DEF StillGoing
    <3>2. runs[q].key = runs[r].key BY <1>4, <1>11, <3>1
    <3> QED BY <2>1, <3>2 DEF RunsInv, Instants
  <2> QED BY <2>1
<1>13. ~StillGoing(row.last)'
  BY <1>1, <1>3, <1>4, <1>12 DEF StillGoing, RunsInv, Recorded
<1>14. Keyed(p)' = Keyed(p) BY <1>1, <1>9, <1>10 DEF Keyed
<1>15. Instants'
  <2>1. \A a, b \in DOMAIN runs' : runs'[a].key = runs'[b].key => a = b
    BY <1>9, <1>10 DEF RunsInv, Instants
  <2>2. \A a \in DOMAIN runs' : /\ runs'[a].key > 0 /\ runs'[a].key <= planned
                                /\ runs'[a].closing /= "no" => row.kind = "dynamic"
    BY <1>9, <1>10 DEF RunsInv, Instants
  <2>3. \A q \in Tickers : pc'[q] \in {"ask", "enqueue", "mark"} =>
          run[q] \in DOMAIN runs' /\ runs'[run[q]].key = claim[q].next
    BY <1>2, <1>4, <1>9, <1>10
  <2>4. \A q \in Tickers : claim[q].next <= planned /\ (pc'[q] \in Claimed => claim[q].next > 0)
    BY <1>2, <1>3 DEF RunsInv, Instants
  <2> QED BY <1>1, <2>1, <2>2, <2>3, <2>4 DEF RunsInv, Instants
<1>16. Resting' BY <1>1, <1>9, <1>10 DEF RunsInv, Resting
<1>17. Leading' BY <1>1, <1>2, <1>3 DEF RunsInv, Leading
<1>18. Recorded' BY <1>1, <1>2, <1>3, <1>9, <1>10 DEF RunsInv, Recorded
<1>19. Punctual' BY <1>1, <1>2, <1>3, <1>9, <1>10 DEF RunsInv, Punctual
<1>20. Apart'
  <2>1. runs'[r].key = claim'[p].next BY <1>1, <1>4, <1>10
  <2> QED BY <1>1, <1>2, <1>3, <1>9, <1>12, <2>1 DEF Apart
<1>21. InOrder' BY <1>13 DEF InOrder
<1>22. Limited'
  <2> SUFFICES ASSUME row.limit /= 0, met \cap {"updates", "resumes"} = {} PROVE Within'
    BY <1>1 DEF Limited
  <2>1. Within BY DEF RunsInv, Limited
  <2> QED BY <1>1, <1>2, <1>3, <1>9, <1>14, <2>1 DEF Within
<1> QED BY <1>15, <1>16, <1>17, <1>18, <1>19, <1>20, <1>21, <1>22 DEF RunsInv

(* It records the run, on the row as it is by now. *)
LEMMA MarkCreatedStep ==
  ASSUME TypeOK, TypeOK', RunsInv, ~Strayed', NEW p \in Tickers, MarkCreated(p)
  PROVE  RunsInv'
<1>1. pc[p] = "mark" /\ UNCHANGED <<runs, leader, claim, run, met>> /\ Goto(p, "release")
  BY DEF MarkCreated, input
<1>2. /\ leader = p /\ pc'[p] = "release" /\ ~Nobody /\ Nobody'
      /\ \A q \in Tickers : q /= p =>
           pc[q] \in {"idle", "absent"} /\ pc'[q] = pc[q] /\ pc[q] \notin Claimed \cup Before \cup Starting
  BY <1>1, OneMoves DEF Starting
<1>3. pc[p] \in Claimed /\ pc[p] \in Starting BY <1>1 DEF Claimed, Starting
<1>4. \A q \in Tickers : /\ pc'[q] \notin Claimed \cup Before \cup Starting /\ pc'[q] /= "skip"
                         /\ pc'[q] \notin {"ask", "enqueue", "mark", "fail"}
  <2>1. pc'[p] \notin Claimed \cup Before \cup Starting BY <1>2 DEF Claimed, Before, Starting
  <2> QED BY <1>2, <2>1 DEF Claimed
<1>5. PICK r \in DOMAIN runs : r = run[p] /\ runs[r].key = claim[p].next
  BY <1>1 DEF RunsInv, Instants
<1>6. /\ row'.kind = row.kind /\ row'.limit = row.limit
      /\ row'.count = row.count + 1 /\ row'.last = r
      /\ row.status = "cancelled" => row'.status = "cancelled"
      /\ row'.status = "active" =>
           row.status = "active" /\ (row.limit = 0 \/ row.count + 1 < row.limit)
  BY <1>5, EndOfStart
<1>7. /\ planned \in Nat /\ planned' \in Nat /\ planned <= planned' /\ row'.next \in Nat
      /\ row'.next = 0 \/ (row'.next = planned + 1 /\ row'.next = planned' /\ row'.status = "active")
  BY SMTT(30), EndOfStart, Types DEF RunsInv, Resting, TypeOK, RowOK, Rows
<1>8. \A q \in DOMAIN runs : runs[q].key \in Nat /\ runs[q].key > 0 /\ runs[q].key <= planned
  BY Types DEF RunsInv, Instants
<1>9. \A q \in DOMAIN runs : runs[q].key /= row'.next BY <1>7, <1>8
<1>10. \A q \in DOMAIN runs : StillGoing(q)' => q = r
  <2>1. ASSUME NEW q \in DOMAIN runs, StillGoing(q)' PROVE q = r
    <3>1. StillGoing(q) BY <1>1, <2>1 DEF StillGoing
    <3>2. runs[q].key = claim[p].next BY <1>3, <3>1 DEF RunsInv, Apart
    <3> QED BY <1>5, <3>2 DEF RunsInv, Instants
  <2> QED BY <2>1
<1>11. Instants'
  <2>1. \A q \in DOMAIN runs : runs[q].key > 0 /\ runs[q].key <= planned' BY <1>7, <1>8
  <2>2. \A q \in Tickers : claim[q].next <= planned'
    BY <1>7, Types DEF RunsInv, Instants
  <2>3. row'.next <= planned' BY <1>7
  <2> QED BY <1>1, <1>4, <1>6, <2>1, <2>2, <2>3 DEF RunsInv, Instants
<1>12. Resting'
  <2>1. row'.status /= "active" => row'.next = 0 BY <1>7
  <2> QED BY <1>1, <1>6, <2>1 DEF RunsInv, Resting
<1>13. Leading' BY <1>1, <1>2, <1>4 DEF RunsInv, Leading
<1>14. Recorded' BY <1>1, <1>4, <1>5, <1>6, <1>9 DEF Recorded
<1>15. Punctual' BY <1>1, <1>4, <1>6 DEF RunsInv, Punctual
<1>16. Apart' BY <1>1, <1>4, <1>6, <1>10 DEF Apart
<1>17. InOrder' BY <1>1, <1>4, <1>9 DEF InOrder
<1>18. Limited'
  <2> SUFFICES ASSUME row.limit /= 0, met \cap {"updates", "resumes"} = {} PROVE Within'
    BY <1>1, <1>6 DEF Limited
  <2>1. Within BY DEF RunsInv, Limited
  <2>2. /\ row.count < row.limit /\ Len(runs) <= row.count + 1 /\ Len(runs) <= row.limit
    BY <1>3, <2>1 DEF Within
  <2> QED BY <1>1, <1>4, <1>6, <2>2 DEF Within
<1> QED BY <1>11, <1>12, <1>13, <1>14, <1>15, <1>16, <1>17, <1>18 DEF RunsInv

(* It dies: the run it was starting keeps the instant, and that stays the row's. *)
LEMMA DiesStep ==
  ASSUME TypeOK, TypeOK', RunsInv, ~Strayed', NEW p \in Tickers, Dies(p)
  PROVE  RunsInv'
<1>1. /\ pc[p] \notin {"idle", "absent"} /\ UNCHANGED <<row, runs, planned, leader>>
      /\ Goto(p, "idle") /\ met' = met \cup {"deaths"}
      /\ claim'[p] = NoClaim /\ run'[p] = 0
      /\ \A q \in Tickers : q /= p => claim'[q] = claim[q] /\ run'[q] = run[q]
  BY DEF Dies, Use, clock, TypeOK, TickerOK
<1>2. /\ leader = p /\ pc'[p] = "idle" /\ Nobody' /\ (Nobody <=> pc[p] \notin Starting)
      /\ \A q \in Tickers : q /= p =>
           pc[q] \in {"idle", "absent"} /\ pc'[q] = pc[q] /\ pc[q] \notin Claimed \cup Before \cup Starting
  BY <1>1, OneMoves DEF Starting
<1>3. \A q \in Tickers : /\ pc'[q] \notin Claimed \cup Before \cup Starting /\ pc'[q] /= "skip"
                         /\ pc'[q] \in {"idle", "absent"}
  <2>1. pc'[p] \notin Claimed \cup Before \cup Starting BY <1>2 DEF Claimed, Before, Starting
  <2> QED BY <1>2, <2>1 DEF Claimed
<1>4. row.kind /= "dynamic" /\ met \cap {"resumes", "nows", "updates"} = {}
  BY <1>1 DEF Strayed
<1>5. /\ \A r \in DOMAIN runs : StillGoing(r)' <=> StillGoing(r)
      /\ StillGoing(row.last)' <=> StillGoing(row.last)
      /\ Resting'
  BY <1>1, SamePlan DEF Kept
<1>6. ASSUME pc[p] \in Starting
      PROVE  /\ row.status = "active" => claim[p].next = row.next
             /\ \A r \in DOMAIN runs : StillGoing(r) => runs[r].key = claim[p].next
             /\ ~StillGoing(row.last)
  <2>1. pc[p] \in Claimed BY <1>6 DEF Starting, Claimed
  <2>2. row.status = "active" => claim[p].next = row.next BY <1>4, <2>1 DEF RunsInv, Leading
  <2>3. \A r \in DOMAIN runs : StillGoing(r) => runs[r].key = claim[p].next
    BY <1>6 DEF RunsInv, Apart
  <2> QED BY <2>1, <2>2, <2>3 DEF StillGoing, RunsInv, Recorded
<1>7. Instants'
  <2>1. NoClaim.next = 0 /\ planned \in Nat BY Types DEF NoClaim
  <2>2. \A q \in Tickers : claim'[q].next <= planned
    BY <1>1, <2>1 DEF RunsInv, Instants
  <2>3. \A q \in Tickers : pc'[q] \notin {"ask", "enqueue", "mark"} BY <1>3
  <2> QED BY <1>1, <1>3, <2>2, <2>3 DEF RunsInv, Instants
<1>8. Leading' BY <1>3 DEF Leading
<1>9. Recorded' BY <1>1, <1>3 DEF RunsInv, Recorded
<1>10. Punctual' BY <1>1, <1>3 DEF RunsInv, Punctual
<1>11. Apart'
  <2>1. ASSUME NEW r \in DOMAIN runs, StillGoing(r), row.status = "active"
        PROVE  r = row.last \/ runs[r].key = row.next
    <3>1. CASE pc[p] \in Starting BY <1>6, <2>1, <3>1
    <3>2. CASE Nobody BY <2>1, <3>2 DEF RunsInv, Apart
    <3> QED BY <1>2, <3>1, <3>2
  <2> QED BY <1>1, <1>3, <1>5, <2>1 DEF RunsInv, Apart
<1>12. InOrder'
  <2>1. StillGoing(row.last) => Nobody BY <1>2, <1>6
  <2> QED BY <1>1, <1>3, <1>5, <2>1 DEF RunsInv, InOrder
<1>13. Limited'
  <2> SUFFICES ASSUME row.limit /= 0, met \cap {"updates", "resumes"} = {} PROVE Within'
    BY <1>1 DEF Limited
  <2>1. Within BY DEF RunsInv, Limited
  <2>2. /\ row.status = "active" => row.count < row.limit
        /\ \/ Len(runs) <= row.count
           \/ /\ Len(runs) <= row.count + 1
              /\ row.status = "active" => \E r \in DOMAIN runs : runs[r].key = row.next
    <3>1. CASE pc[p] \in Starting
      <4>1. /\ row.count < row.limit /\ Len(runs) <= row.count + 1
            /\ Keyed(p) = {} => Len(runs) <= row.count
        BY <2>1, <3>1 DEF Within
      <4>2. Keyed(p) /= {} /\ row.status = "active" => \E r \in DOMAIN runs : runs[r].key = row.next
        BY <1>6, <3>1 DEF Keyed
      <4> QED BY <4>1, <4>2
    <3>2. CASE Nobody BY <2>1, <3>2 DEF Within
    <3> QED BY <1>2, <3>1, <3>2
  <2>3. Len(runs) <= row.limit BY <2>1 DEF Within
  <2> QED BY <1>1, <1>3, <2>2, <2>3 DEF Within
<1> QED BY <1>5, <1>7, <1>8, <1>9, <1>10, <1>11, <1>12, <1>13 DEF RunsInv

(* ------------------------------ the theorems --------------------------- *)

(* A tame step keeps the whole invariant. *)
LEMMA TameStep ==
  ASSUME TypeOK, TypeOK', RunsInv, Tame, ~Strayed'
  PROVE  RunsInv'
BY TameFrame, TameApart DEF RunsInv

(* Every step keeps the invariant, while no run has strayed: most are tame, five move a
   start on, one leaves it, and one that raises has strayed. *)
LEMMA NextRuns ==
  ASSUME TypeOK, TypeOK', Next, ~Strayed', ~Strayed => RunsInv
  PROVE  RunsInv'
<1>1. Grows BY AllGrow
<1>2. RunsInv BY <1>1, StaysCalm
<1>3. ASSUME NEW p \in Tickers, Tick(p) PROVE RunsInv'
  <2>1. CASE Acquire(p) \/ Beat(p) \/ BeatSet(p) \/ Release(p) \/ Delete(p)
    BY <1>1, <1>2, <2>1, LockTame, TameStep
  <2>2. CASE \/ Plan(p) \/ StopCancelled(p) \/ FailOverdue(p) \/ MarkTimedOut(p) \/ ExpireActive(p)
             \/ ClaimEnding(p) \/ Announce(p) \/ RecoverTerminal(p)
    BY <1>1, <1>2, <2>2, SweepTame, TameStep
  <2>3. CASE (Claim(p) /\ ~Due) \/ MarkSkipped(p) \/ Ask(p)
    BY <1>1, <1>2, <2>3, TickTames, TameStep
  <2>4. CASE Claim(p) /\ Due BY <1>2, <2>4, ClaimStep
  <2>5. CASE Look(p) BY <1>2, <2>5, LookStep
  <2>6. CASE Create(p) BY <1>2, <2>6, CreateStep
  <2>7. CASE Enqueue(p) BY <1>2, <2>7, EnqueueStep
  <2>8. CASE MarkCreated(p) BY <1>2, <2>8, MarkCreatedStep
  <2>9. CASE MarkFailed(p) BY <1>2, <2>9 DEF MarkFailed, RunsInv, Leading
  <2> QED BY <1>3, <2>1, <2>2, <2>3, <2>4, <2>5, <2>6, <2>7, <2>8, <2>9 DEF Tick
<1>4. ASSUME NEW p \in Tickers, Faults(p) PROVE RunsInv'
  <2>1. CASE SweepFails(p) \/ RunFails(p) BY <2>1 DEF SweepFails, RunFails, Use, Strayed
  <2>2. CASE Dies(p) BY <1>2, <2>2, DiesStep
  <2> QED BY <1>4, <2>1, <2>2 DEF Faults
<1>5. ASSUME Time PROVE RunsInv' BY <1>1, <1>2, <1>5, TimeTame, TameStep
<1>6. ASSUME Person PROVE RunsInv' BY <1>1, <1>2, <1>6, PersonTame, TameStep
<1>7. ASSUME NEW r \in DOMAIN runs, Run(r) PROVE RunsInv'
  BY <1>1, <1>2, <1>7, RunStepTame, TameStep
<1> QED BY <1>3, <1>4, <1>5, <1>6, <1>7 DEF Next

(* At first nothing is started, and the first instant is planned or is yet to be. *)
LEMMA InitRuns ==
  ASSUME TypeOK, Init
  PROVE  RunsInv
<1>1. PICK s \in Scenarios, first \in {0, 1} : Init!(s, first)
  BY DEF Init
<1>2. /\ row.status = "active" /\ row.next \in {0, 1} /\ row.last = 0 /\ row.count = 0 /\ planned = 1
      /\ runs = <<>> /\ row.limit \in Nat
  BY <1>1, Types
<1>3. DOMAIN runs = {} /\ Len(runs) = 0 BY <1>2
<1>4. \A p \in Tickers : /\ pc[p] \in {"idle", "absent"} /\ claim[p] = NoClaim
                         /\ pc[p] \notin Claimed \cup Before \cup Starting
  BY <1>1 DEF Claimed, Before, Starting
<1>5. Instants BY <1>2, <1>3, <1>4 DEF Instants, NoClaim
<1>6. Resting BY <1>2, <1>3 DEF Resting
<1>7. Leading BY <1>4 DEF Leading
<1>8. Recorded BY <1>2 DEF Recorded
<1>9. Punctual BY <1>3 DEF Punctual
<1>10. Apart BY <1>3 DEF Apart
<1>11. InOrder BY <1>2 DEF InOrder, StillGoing
<1>12. Limited BY <1>2, <1>3, <1>4 DEF Limited, Within
<1> QED BY <1>5, <1>6, <1>7, <1>8, <1>9, <1>10, <1>11, <1>12 DEF RunsInv

(* The inductive invariant holds throughout. *)
THEOREM RunsInvariant == Spec => []IInv
<1>1. TypeOK /\ Init => IInv
  BY InitRuns DEF IInv
<1>2. IInv /\ TypeOK' /\ [Next]_vars => IInv'
  <2> SUFFICES ASSUME IInv, TypeOK', [Next]_vars PROVE IInv'
    OBVIOUS
  <2>1. CASE Next BY <2>1, NextRuns DEF IInv
  <2>2. CASE UNCHANGED vars
    <3>1. Strayed' <=> Strayed BY <2>2 DEF vars, Strayed
    <3>2. RunsInv => RunsInv'
      <4>1. \A r \in DOMAIN runs : StillGoing(r)' <=> StillGoing(r) BY <2>2 DEF vars, StillGoing
      <4>2. StillGoing(row.last)' <=> StillGoing(row.last) BY <2>2 DEF vars, StillGoing
      <4>3. Nobody' <=> Nobody BY <2>2 DEF vars, Nobody
      <4>4. \A p \in Tickers : Keyed(p)' = Keyed(p) BY <2>2 DEF vars, Keyed
      <4>5. Instants => Instants' BY <2>2 DEF vars, Instants
      <4>6. Resting => Resting' BY <2>2 DEF vars, Resting
      <4>7. Leading => Leading' BY <2>2 DEF vars, Leading
      <4>8. Recorded => Recorded' BY <2>2 DEF vars, Recorded
      <4>9. Punctual => Punctual' BY <2>2 DEF vars, Punctual
      <4>10. Apart => Apart' BY <2>2, <4>1, <4>3 DEF vars, Apart
      <4>11. InOrder => InOrder' BY <2>2, <4>2, <4>3, <4>4 DEF vars, InOrder
      <4>12. Limited => Limited' BY <2>2, <4>3, <4>4 DEF vars, Limited, Within
      <4> QED BY <4>5, <4>6, <4>7, <4>8, <4>9, <4>10, <4>11, <4>12 DEF RunsInv
    <3> QED BY <3>1, <3>2 DEF IInv
  <2> QED BY <2>1, <2>2
<1>3. Spec => []TypeOK
  BY Typed
<1> QED BY <1>1, <1>2, <1>3, PTL DEF Spec

(* Runs of one schedule do not overlap (RunsApart): a run that is at work in time is still
   going, and the claim's lock, the look at the run before and the instant's idempotency
   key leave at most one such, through the deaths of replicas and everything people do. *)
THEOREM OneRun == Spec => []RunsApart
<1>1. IInv => RunsApart
  <2> SUFFICES ASSUME IInv, NEW r \in DOMAIN runs, NEW s \in DOMAIN runs,
                      AtWork(r), AtWork(s), r /= s, ~Strayed, "overruns" \notin met
               PROVE  FALSE
    BY DEF RunsApart
  <2>1. RunsInv BY DEF IInv
  <2>2. r /= 0 /\ s /= 0 /\ runs[r] \in Runs /\ runs[s] \in Runs BY Types DEF IInv
  <2>3. ~runs[r].late /\ ~runs[s].late BY <2>1 DEF RunsInv, Punctual, AtWork
  <2>4. StillGoing(r) /\ StillGoing(s) BY <2>2, <2>3 DEF StillGoing, AtWork
  <2> QED BY <2>1, <2>4 DEF RunsInv, Apart
<1>2. Spec => []IInv
  BY RunsInvariant
<1> QED BY <1>1, <1>2, PTL

(* A schedule that is to run so many times makes no more runs than that (LimitKept): a run
   that a dead replica left is adopted under its key and not made again. *)
THEOREM KeepsLimit == Spec => []LimitKept
<1>1. IInv => LimitKept
  BY DEF IInv, RunsInv, Limited, Within, LimitKept
<1>2. Spec => []IInv
  BY RunsInvariant
<1> QED BY <1>1, <1>2, PTL
=============================================================================
