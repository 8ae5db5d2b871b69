--------------------------- MODULE Schedule_proofs ---------------------------
(***************************************************************************)
(* Proofs about Schedule, for any number of ticker replicas, any kind of   *)
(* schedule and any inputs: the types, that a person's decision is final,  *)
(* and that no chat is told of an ending twice.                            *)
(***************************************************************************)
EXTENDS Schedule, TLAPS

(* --------------------------- what rows and runs are -------------------- *)

(* The row after each of the helpers that change it. *)
LEMMA RowHelpers ==
  ASSUME NEW r \in Rows, planned \in Nat
  PROVE  /\ Unlocked(r) \in Rows /\ Unlocked(r).status = r.status
         /\ Unlocked(r).next = r.next /\ Unlocked(r).announced = r.announced
         /\ Planned(r) \in Rows /\ Planned(r).status = r.status
         /\ Planned(r).announced = r.announced
<1>1. /\ Unlocked(r) \in Rows /\ Unlocked(r).status = r.status
      /\ Unlocked(r).next = r.next /\ Unlocked(r).announced = r.announced
  BY DEF Rows, Unlocked
<1>2. /\ Planned(r) \in Rows /\ Planned(r).status = r.status
      /\ Planned(r).announced = r.announced
  BY DEF Rows, Planned
<1> QED BY <1>1, <1>2

(* The row of a schedule that has ended. *)
LEMMA EndedRow ==
  ASSUME NEW r \in Rows, NEW reason \in Reasons
  PROVE  /\ Ended(r, reason) \in Rows
         /\ Ended(r, reason).status \in {"completed", "failed"}
         /\ Ended(r, reason).announced = r.announced
<1> DEFINE s == IF reason = "failed" THEN "failed" ELSE "completed"
<1>1. s \in {"completed", "failed"} /\ s \in Statuses
  BY DEF Statuses
<1>2. Ended(r, reason) = [r EXCEPT !.status = s, !.reason = reason, !.next = 0]
  BY DEF Ended
<1> HIDE DEF s
<1>3. [r EXCEPT !.status = s, !.reason = reason, !.next = 0] \in Rows
  BY <1>1 DEF Rows
<1>4. /\ [r EXCEPT !.status = s, !.reason = reason, !.next = 0].status = s
      /\ [r EXCEPT !.status = s, !.reason = reason, !.next = 0].announced = r.announced
  BY DEF Rows
<1> QED BY <1>1, <1>2, <1>3, <1>4

(* A run that is replaced by a run leaves a sequence of runs. *)
LEMMA RunsKept ==
  ASSUME runs \in Seq(Runs), NEW r \in Nat, NEW v, r \in DOMAIN runs => v \in Runs
  PROVE  [runs EXCEPT ![r] = v] \in Seq(Runs)
<1>1. CASE r \in DOMAIN runs
  BY <1>1
<1>2. CASE r \notin DOMAIN runs
  <2>1. [runs EXCEPT ![r] = v] = runs
    BY <1>2
  <2> QED BY <2>1
<1> QED BY <1>1, <1>2

(* A run with one field changed. *)
LEMMA RunOf ==
  ASSUME runs \in Seq(Runs), NEW r \in DOMAIN runs
  PROVE  /\ r \in Nat /\ runs[r] \in Runs
         /\ \A s \in {"active", "completed", "failed", "paused"} :
              /\ [runs[r] EXCEPT !.status = s] \in Runs
              /\ \A c \in {"no", "look", "write"} :
                   [runs[r] EXCEPT !.status = s, !.closing = c] \in Runs
         /\ \A c \in {"no", "look", "write"} : [runs[r] EXCEPT !.closing = c] \in Runs
         /\ [runs[r] EXCEPT !.asked = runs[r].asked + 1] \in Runs
         /\ [runs[r] EXCEPT !.late = TRUE] \in Runs
         /\ runs[r].status \in {"active", "completed", "failed", "paused"}
<1>1. r \in Nat /\ runs[r] \in Runs
  OBVIOUS
<1>2. [runs[r] EXCEPT !.asked = runs[r].asked + 1] \in Runs
  <2>1. runs[r].asked + 1 \in Nat
    BY <1>1 DEF Runs
  <2> QED BY <1>1, <2>1 DEF Runs
<1>4. [runs[r] EXCEPT !.late = TRUE] \in Runs
  BY <1>1 DEF Runs
<1>5. runs[r].status \in {"active", "completed", "failed", "paused"}
  BY <1>1 DEF Runs
<1>3. ASSUME NEW s \in {"active", "completed", "failed", "paused"}, NEW c \in {"no", "look", "write"}
      PROVE  /\ [runs[r] EXCEPT !.status = s] \in Runs
             /\ [runs[r] EXCEPT !.status = s, !.closing = c] \in Runs
             /\ [runs[r] EXCEPT !.closing = c] \in Runs
  BY <1>1, <1>3 DEF Runs
<1> QED BY <1>1, <1>2, <1>3, <1>4, <1>5

(* An input that happens is counted, and there is one less of it to come. *)
LEMMA UseTyped ==
  ASSUME InputOK, NEW i \in Inputs, Use(i)
  PROVE  InputOK' /\ left'[i] < left[i]
BY DEF InputOK, Use

(* ------------------------ what a step does to the row ------------------ *)

\* A step leaves the plan alone, or plans or ends an active schedule, or is a person's;
\* and an ending that was announced stays so.
Writes ==
  /\ row' \in Rows
  /\ row.announced => row'.announced
  /\ \/ row'.status = row.status /\ row'.next = row.next
     \/ row.status = "active" /\ row'.status \in {"active", "completed", "failed"}
     \/ row.status = "active" /\ row'.next = 0
     \/ row'.next = 0 /\ left'["cancels"] < left["cancels"]
     \/ row'.status = "active" /\ left'["resumes"] < left["resumes"]

(* A row whose failures are counted keeps its status, plan and announcement. *)
LEMMA Failing ==
  ASSUME NEW r \in Rows, NEW f \in Nat
  PROVE  LET x == [r EXCEPT !.failures = f]
         IN x \in Rows /\ x.status = r.status /\ x.next = r.next /\ x.announced = r.announced
BY DEF Rows

(* Every step writes the row lawfully. *)
LEMMA RowStep ==
  ASSUME TypeOK, Next
  PROVE  Writes
<1> USE DEF TypeOK, RowOK
<1>0. /\ row.failures \in Nat /\ row.count \in Nat /\ row.next \in Nat
      /\ row.failures + 1 \in Nat /\ row.count + 1 \in Nat /\ row.announced \in BOOLEAN
      /\ {"expired", "limit", "done", "failed"} \subseteq Reasons
  BY DEF Rows, Reasons
<1>1. ASSUME UNCHANGED row PROVE Writes
  BY <1>1 DEF Writes
<1>2. ASSUME NEW x \in Rows, x.announced = row.announced, row.status = "active",
             NEW reason \in {"expired", "limit", "done", "failed"},
             row' \in {Ended(x, reason), Unlocked(Ended(x, reason))}
      PROVE  Writes
  <2>1. reason \in Reasons
    BY DEF Reasons
  <2>2. /\ Ended(x, reason) \in Rows /\ Ended(x, reason).announced = row.announced
        /\ Ended(x, reason).status \in {"completed", "failed"}
    BY <1>2, <2>1, EndedRow
  <2>3. LET y == Unlocked(Ended(x, reason))
        IN y \in Rows /\ y.announced = row.announced /\ y.status \in {"completed", "failed"}
    BY <2>2, RowHelpers
  <2> QED BY <1>2, <2>2, <2>3 DEF Writes
<1>3. ASSUME NEW p \in Tickers, Acquire(p) PROVE Writes
  BY <1>3, <1>1 DEF Acquire
<1>4. ASSUME NEW p \in Tickers, Beat(p) PROVE Writes
  BY <1>4, <1>1 DEF Beat
<1>5. ASSUME NEW p \in Tickers, BeatSet(p) PROVE Writes
  BY <1>5, <1>1 DEF BeatSet
<1>6. ASSUME NEW p \in Tickers, Release(p) PROVE Writes
  BY <1>6, <1>1 DEF Release
<1>7. ASSUME NEW p \in Tickers, Delete(p) PROVE Writes
  BY <1>7, <1>1 DEF Delete
<1>8. ASSUME NEW p \in Tickers, StopCancelled(p) PROVE Writes
  BY <1>8, <1>1 DEF StopCancelled
<1>9. ASSUME NEW p \in Tickers, FailOverdue(p) PROVE Writes
  BY <1>9, <1>1 DEF FailOverdue
<1>10. ASSUME NEW p \in Tickers, Announce(p) PROVE Writes
  BY <1>10, <1>1 DEF Announce
<1>11. ASSUME NEW p \in Tickers, Look(p) PROVE Writes
  BY <1>11, <1>1 DEF Look
<1>12. ASSUME NEW p \in Tickers, Create(p) PROVE Writes
  BY <1>12, <1>1 DEF Create
<1>13. ASSUME NEW p \in Tickers, Ask(p) PROVE Writes
  BY <1>13, <1>1 DEF Ask
<1>14. ASSUME NEW p \in Tickers, Enqueue(p) PROVE Writes
  BY <1>14, <1>1 DEF Enqueue
<1>15. ASSUME NEW p \in Tickers, SweepFails(p) PROVE Writes
  BY <1>15, <1>1 DEF SweepFails
<1>16. ASSUME NEW p \in Tickers, RunFails(p) PROVE Writes
  BY <1>16, <1>1 DEF RunFails
<1>17. ASSUME NEW p \in Tickers, Dies(p) PROVE Writes
  BY <1>17, <1>1 DEF Dies
<1>18. ASSUME NEW p \in Tickers, Plan(p) PROVE Writes
  <2>1. row' = row \/ (row.status = "active" /\ row' \in {Planned(row), Ended(row, "failed")})
    BY <1>18 DEF Plan
  <2>2. ASSUME row.status = "active", row' = Planned(row) PROVE Writes
    BY <2>2, RowHelpers DEF Writes
  <2> QED BY <1>1, <1>2, <2>1, <2>2
<1>19. ASSUME NEW p \in Tickers, MarkTimedOut(p) PROVE Writes
  <2> DEFINE failed == [row EXCEPT !.failures = row.failures + 1]
  <2>1. failed \in Rows /\ failed.status = row.status /\ failed.next = row.next
          /\ failed.announced = row.announced
    BY <1>0, Failing
  <2>2. row' = row \/ (StillActive /\ row' \in {Ended(failed, "failed"), failed})
    BY <1>19 DEF MarkTimedOut
  <2> HIDE DEF failed
  <2>3. ASSUME StillActive, row' = failed PROVE Writes
    BY <2>1, <2>3 DEF StillActive, Writes
  <2>4. ASSUME StillActive, row' = Ended(failed, "failed") PROVE Writes
    BY <1>2, <2>1, <2>4 DEF StillActive
  <2> QED BY <1>1, <2>2, <2>3, <2>4
<1>20. ASSUME NEW p \in Tickers, ExpireActive(p) PROVE Writes
  <2>1. row' = row \/ (row.status = "active" /\ row' = Unlocked(Ended(row, "expired")))
    BY <1>20 DEF ExpireActive
  <2> QED BY <1>1, <1>2, <2>1
<1>21. ASSUME NEW p \in Tickers, ClaimEnding(p) PROVE Writes
  <2>1. row' = row \/ row' = [row EXCEPT !.announced = TRUE]
    BY <1>21 DEF ClaimEnding
  <2> QED BY <1>0, <1>1, <2>1 DEF Rows, Writes
<1>22. ASSUME NEW p \in Tickers, RecoverTerminal(p) PROVE Writes
  <2>1. row' = row \/ (row.status = "active" /\ row' = Unlocked(Planned(row)))
    BY <1>22 DEF RecoverTerminal
  <2> QED BY <1>1, <2>1, RowHelpers DEF Writes
<1>23. ASSUME NEW p \in Tickers, Claim(p) PROVE Writes
  <2>1. row' = row \/ row' = [row EXCEPT !.locked = TRUE]
    BY <1>23 DEF Claim
  <2> QED BY <1>1, <2>1 DEF Rows, Writes
<1>24. ASSUME NEW p \in Tickers, MarkSkipped(p) PROVE Writes
  <2>1. row' = Unlocked(row) \/ (row.status = "active" /\ row' = Unlocked(Planned(row)))
    BY <1>24 DEF MarkSkipped, StillActive
  <2> QED BY <1>0, <2>1, RowHelpers DEF Writes
<1>25. ASSUME NEW p \in Tickers, MarkCreated(p) PROVE Writes
  <2> DEFINE u == Unlocked(row)
             c == u.count + 1
             f == IF row.last /= 0 /\ runs[row.last].status = "failed" THEN u.failures ELSE 0
             started == [u EXCEPT !.count = c, !.last = run[p], !.failures = f]
  <2>1. /\ u \in Rows /\ u.status = row.status /\ u.next = row.next
        /\ u.announced = row.announced
    BY RowHelpers
  <2>2. started \in Rows /\ started.status = row.status /\ started.next = row.next
          /\ started.announced = row.announced
    <3> HIDE DEF u
    <3>1. c \in Nat /\ f \in Nat
      BY <2>1 DEF Rows
    <3>2. run[p] \in Nat
      BY DEF TickerOK
    <3> HIDE DEF c, f
    <3> QED BY <2>1, <3>1, <3>2 DEF Rows
  <2>3. \/ row' = started
        \/ /\ row.status = "active"
           /\ row' \in {Ended(started, "limit"), Ended(started, "expired"), Ended(started, "done"),
                        [started EXCEPT !.next = 0], Planned(started)}
    BY <1>25 DEF MarkCreated, StillActive
  <2> HIDE DEF started
  <2>4. LET x == [started EXCEPT !.next = 0]
        IN x \in Rows /\ x.status = started.status /\ x.announced = started.announced
    BY <2>2 DEF Rows
  <2>5. ASSUME row.status = "active", row' \in {[started EXCEPT !.next = 0], Planned(started)}
        PROVE  Writes
    BY ZenonT(60), <2>2, <2>4, <2>5, RowHelpers DEF Writes
  <2>6. ASSUME row' = started PROVE Writes
    BY <2>2, <2>6 DEF Writes
  <2> QED BY <1>2, <2>2, <2>3, <2>5, <2>6
<1>26. ASSUME NEW p \in Tickers, MarkFailed(p) PROVE Writes
  <2> DEFINE failed == [Unlocked(row) EXCEPT !.failures = Unlocked(row).failures + 1]
  <2>1. failed \in Rows /\ failed.status = row.status /\ failed.next = row.next
          /\ failed.announced = row.announced
    <3>1. Unlocked(row).failures + 1 \in Nat
      BY SMTT(30), RowHelpers DEF Rows
    <3> QED BY <3>1, Failing, RowHelpers
  <2>2. \/ row' = row \/ row' = Unlocked(row)
        \/ row.status = "active" /\ row' \in {Ended(failed, "failed"), Planned(failed)}
    BY <1>26 DEF MarkFailed, StillActive
  <2> HIDE DEF failed
  <2>3. ASSUME row' = Unlocked(row) \/ (row.status = "active" /\ row' = Planned(failed))
        PROVE  Writes
    BY <1>0, <2>1, <2>3, RowHelpers DEF Writes
  <2> QED BY <1>1, <1>2, <2>1, <2>2, <2>3
<1>27. ASSUME LockExpires PROVE Writes
  BY <1>27, <1>0, RowHelpers DEF LockExpires, Writes
<1>28. ASSUME LeaderExpires PROVE Writes
  BY <1>28, <1>1 DEF LeaderExpires
<1>29. ASSUME Elapse PROVE Writes
  BY <1>29, <1>1 DEF Elapse
<1>30. ASSUME Expiry PROVE Writes
  BY <1>30, <1>1 DEF Expiry
<1>31. ASSUME StopNow PROVE Writes
  BY <1>31, <1>1 DEF StopNow
<1>32. ASSUME Pause PROVE Writes
  <2>1. LET x == [row EXCEPT !.status = "paused", !.next = 0]
        IN x \in Rows /\ x.next = 0 /\ x.announced = row.announced
    BY DEF Rows, Statuses
  <2> QED BY <1>32, <1>0, <2>1, RowHelpers DEF Pause, Writes
<1>33. ASSUME NEW now \in BOOLEAN, Resume(now) PROVE Writes
  <2> DEFINE x == [row EXCEPT !.status = "active"]
  <2>1. x \in Rows /\ x.status = "active" /\ x.announced = row.announced
    BY DEF Rows, Statuses
  <2>2. left'["resumes"] < left["resumes"]
    BY <1>33, UseTyped DEF Resume, Inputs
  <2>3. row' = Unlocked(Planned(x))
    BY <1>33 DEF Resume
  <2> HIDE DEF x
  <2> QED BY <1>0, <2>1, <2>2, <2>3, RowHelpers DEF Writes
<1>34. ASSUME Cancel PROVE Writes
  <2> DEFINE x == [row EXCEPT !.status = "cancelled", !.reason = "cancelled", !.next = 0]
  <2>1. x \in Rows /\ x.next = 0 /\ x.announced = row.announced
    BY DEF Rows, Statuses, Reasons
  <2>2. left'["cancels"] < left["cancels"]
    BY <1>34, UseTyped DEF Cancel, Inputs
  <2>3. row' = Unlocked(x)
    BY <1>34 DEF Cancel
  <2> HIDE DEF x
  <2> QED BY <1>0, <2>1, <2>2, <2>3, RowHelpers DEF Writes
<1>35. ASSUME RunNow PROVE Writes
  BY <1>35, <1>0, RowHelpers DEF RunNow, Writes
<1>36. ASSUME NEW k \in Kinds, Update(k) PROVE Writes
  <2> DEFINE l == IF k = row.kind THEN Unlocked(row).limit ELSE IF k = "once" THEN 1 ELSE 0
             x == [Unlocked(row) EXCEPT !.kind = k, !.limit = l]
  <2>1. l \in Nat
    BY RowHelpers DEF Rows
  <2>2. x \in Rows /\ x.status = row.status /\ x.next = row.next /\ x.announced = row.announced
    <3> HIDE DEF l
    <3> QED BY <2>1, RowHelpers DEF Rows
  <2>3. row' = x \/ (row.status = "active" /\ row' = Planned(x))
    BY <1>36 DEF Update
  <2> HIDE DEF x
  <2> QED BY <1>0, <2>2, <2>3, RowHelpers DEF Writes
<1>37. ASSUME NEW r \in DOMAIN runs, NEW how \in {"completed", "failed"}, RunEnds(r, how) PROVE Writes
  BY <1>37, <1>1 DEF RunEnds
<1>38. ASSUME NEW r \in DOMAIN runs, FinalizeLook(r) PROVE Writes
  BY <1>38, <1>1 DEF FinalizeLook
<1>39. ASSUME NEW r \in DOMAIN runs, FinalizeLost(r) PROVE Writes
  BY <1>39, <1>1 DEF FinalizeLost
<1>40. ASSUME NEW r \in DOMAIN runs, RunLate(r) PROVE Writes
  BY <1>40, <1>1 DEF RunLate
<1>41. ASSUME NEW r \in DOMAIN runs, FinalizeWrite(r) PROVE Writes
  <2>1. \/ row' = row
        \/ row.status = "active" /\ row' = Unlocked(Planned(row))
        \/ row.status = "active" /\ row' \in {Unlocked(Ended(row, "done")), Unlocked(Ended(row, "expired"))}
    <3>1. CASE FALSE \/ passed
      BY <1>41, <3>1 DEF FinalizeWrite, Chosen
    <3>2. CASE ~(FALSE \/ passed)
      BY <1>41, <3>2 DEF FinalizeWrite, Chosen
    <3> QED BY <3>1, <3>2
  <2>2. ASSUME row.status = "active", row' = Unlocked(Planned(row)) PROVE Writes
    BY <2>2, RowHelpers DEF Writes
  <2> QED BY <1>1, <1>2, <2>1, <2>2
<1>42. ASSUME NEW r \in DOMAIN runs, NEW done \in BOOLEAN, LoopWait(r, done) PROVE Writes
  <2>1. \/ row' = row
        \/ row.status = "active" /\ row' = Unlocked(Planned(row))
        \/ row.status = "active" /\ row' \in {Unlocked(Ended(row, "done")), Unlocked(Ended(row, "expired"))}
    <3>1. CASE done \/ passed
      BY <1>42, <3>1 DEF LoopWait, Chosen
    <3>2. CASE ~(done \/ passed)
      BY <1>42, <3>2 DEF LoopWait, Chosen
    <3> QED BY <3>1, <3>2
  <2>2. ASSUME row.status = "active", row' = Unlocked(Planned(row)) PROVE Writes
    BY <2>2, RowHelpers DEF Writes
  <2> QED BY <1>1, <1>2, <2>1, <2>2
<1>44. ASSUME ResumeUnplanned PROVE Writes
  <2> DEFINE x == [row EXCEPT !.status = "active"]
  <2>1. x \in Rows /\ x.status = "active" /\ x.announced = row.announced
    BY DEF Rows, Statuses
  <2>2. left'["resumes"] < left["resumes"]
    BY <1>44, UseTyped DEF ResumeUnplanned, Inputs
  <2>3. row' = x
    BY <1>44 DEF ResumeUnplanned
  <2> HIDE DEF x
  <2> QED BY <1>0, <2>1, <2>2, <2>3 DEF Writes
<1>45. ASSUME Edit PROVE Writes
  BY <1>45, <1>0, RowHelpers DEF Edit, Writes
<1>43. ASSUME NEW r \in DOMAIN runs, LoopComplete(r) PROVE Writes
  <2>1. \/ row' = row
        \/ row.status = "active" /\ row' = Unlocked(Planned(row))
        \/ row.status = "active" /\ row' \in {Unlocked(Ended(row, "done")), Unlocked(Ended(row, "expired"))}
    BY <1>43 DEF LoopComplete
  <2>2. ASSUME row.status = "active", row' = Unlocked(Planned(row)) PROVE Writes
    BY <2>2, RowHelpers DEF Writes
  <2> QED BY <1>1, <1>2, <2>1, <2>2
<1> QED
  BY <1>3, <1>4, <1>5, <1>6, <1>7, <1>8, <1>9, <1>10, <1>11, <1>12, <1>13, <1>14, <1>15, <1>16, <1>17, <1>18, <1>19, <1>20, <1>21, <1>22, <1>23, <1>24, <1>25, <1>26, <1>27, <1>28, <1>29, <1>30, <1>31, <1>32, <1>33, <1>34, <1>35, <1>36, <1>37, <1>38, <1>39, <1>40, <1>41, <1>42, <1>43, <1>44, <1>45
    DEF Next, Tick, Faults, Time, Run, Person

(* ------------------------------- the types ----------------------------- *)

\* Every variable but the row has its type.
OthersOK == /\ due \in BOOLEAN /\ passed \in BOOLEAN /\ detached \in BOOLEAN /\ planned \in Nat
            /\ runs \in Seq(Runs) /\ TickerOK /\ told \in Nat /\ InputOK

(* A replica that goes on to another place, with another run or claim or without. *)
LEMMA TickerMoves ==
  ASSUME TickerOK, NEW p \in Tickers, NEW l \in PCs, NEW n \in Nat
  PROVE  /\ [pc EXCEPT ![p] = l] \in [Tickers -> PCs]
         /\ [run EXCEPT ![p] = n] \in [Tickers -> Nat]
         /\ [claim EXCEPT ![p] = NoClaim] \in [Tickers -> [next : Nat, last : Nat]]
         /\ pc[p] \in PCs /\ run[p] \in Nat /\ claim[p] \in [next : Nat, last : Nat]
BY DEF TickerOK, NoClaim

(* Every step keeps the types. *)
LEMMA TypeStep ==
  ASSUME TypeOK, [Next]_vars
  PROVE  TypeOK'
<1> USE DEF TypeOK, RowOK
<1>0. SUFFICES ASSUME Next PROVE OthersOK'
  <2>1. CASE Next
    <3>1. row' \in Rows
      BY <2>1, RowStep DEF Writes
    <3> QED BY <2>1, <1>0, <3>1 DEF OthersOK
  <2>2. CASE UNCHANGED vars
    BY <2>2 DEF vars, TickerOK, InputOK
  <2> QED BY <2>1, <2>2
<1>1. row.next \in Nat /\ row.last \in Nat
  BY DEF Rows
<1>2. ASSUME NEW p \in Tickers, Acquire(p) PROVE OthersOK'
  <2>1. due' \in BOOLEAN /\ passed' \in BOOLEAN /\ detached' \in BOOLEAN /\ planned' \in Nat
    BY <1>2 DEF Acquire, clock, Plans, NoPlan
  <2>2. runs' \in Seq(Runs)
    BY <1>2 DEF Acquire
  <2>3. TickerOK'
    BY <1>2, TickerMoves DEF Acquire, Goto, PCs, TickerOK
  <2>4. told' \in Nat
    BY <1>2 DEF Acquire
  <2>5. InputOK'
    BY <1>2 DEF Acquire, InputOK, input
  <2> QED BY <2>1, <2>2, <2>3, <2>4, <2>5 DEF OthersOK
<1>3. ASSUME NEW p \in Tickers, Beat(p) PROVE OthersOK'
  <2>1. due' \in BOOLEAN /\ passed' \in BOOLEAN /\ detached' \in BOOLEAN /\ planned' \in Nat
    BY <1>3 DEF Beat, clock, Plans, NoPlan
  <2>2. runs' \in Seq(Runs)
    BY <1>3 DEF Beat
  <2>3. TickerOK'
    BY <1>3, TickerMoves DEF Beat, Goto, PCs, TickerOK
  <2>4. told' \in Nat
    BY <1>3 DEF Beat
  <2>5. InputOK'
    BY <1>3 DEF Beat, InputOK, input
  <2> QED BY <2>1, <2>2, <2>3, <2>4, <2>5 DEF OthersOK
<1>4. ASSUME NEW p \in Tickers, BeatSet(p) PROVE OthersOK'
  <2>1. due' \in BOOLEAN /\ passed' \in BOOLEAN /\ detached' \in BOOLEAN /\ planned' \in Nat
    BY <1>4 DEF BeatSet, clock, Plans, NoPlan
  <2>2. runs' \in Seq(Runs)
    BY <1>4 DEF BeatSet
  <2>3. TickerOK'
    <3>1. PICK l \in PCs : pc' = [pc EXCEPT ![p] = l]
      BY <1>4 DEF BeatSet, Goto, PCs
    <3>2. pc' \in [Tickers -> PCs]
      BY <3>1, TickerMoves
    <3>3. leader' \in Tickers \cup {NoOne}
      BY <1>4 DEF BeatSet, TickerOK
    <3>4. run' \in [Tickers -> Nat] /\ claim' \in [Tickers -> [next : Nat, last : Nat]]
      BY <1>4, <1>1, TickerMoves DEF BeatSet, TickerOK
    <3> QED BY <3>2, <3>3, <3>4 DEF TickerOK
  <2>4. told' \in Nat
    BY <1>4 DEF BeatSet
  <2>5. InputOK'
    BY <1>4 DEF BeatSet, InputOK, input
  <2> QED BY <2>1, <2>2, <2>3, <2>4, <2>5 DEF OthersOK
<1>5. ASSUME NEW p \in Tickers, Release(p) PROVE OthersOK'
  <2>1. due' \in BOOLEAN /\ passed' \in BOOLEAN /\ detached' \in BOOLEAN /\ planned' \in Nat
    BY <1>5 DEF Release, clock, Plans, NoPlan
  <2>2. runs' \in Seq(Runs)
    BY <1>5 DEF Release
  <2>3. TickerOK'
    BY <1>5, TickerMoves DEF Release, Goto, PCs, TickerOK, NoClaim
  <2>4. told' \in Nat
    BY <1>5 DEF Release
  <2>5. InputOK'
    BY <1>5 DEF Release, InputOK, input
  <2> QED BY <2>1, <2>2, <2>3, <2>4, <2>5 DEF OthersOK
<1>6. ASSUME NEW p \in Tickers, Delete(p) PROVE OthersOK'
  <2>1. due' \in BOOLEAN /\ passed' \in BOOLEAN /\ detached' \in BOOLEAN /\ planned' \in Nat
    BY <1>6 DEF Delete, clock, Plans, NoPlan
  <2>2. runs' \in Seq(Runs)
    BY <1>6 DEF Delete
  <2>3. TickerOK'
    BY <1>6, TickerMoves DEF Delete, Goto, PCs, TickerOK
  <2>4. told' \in Nat
    BY <1>6 DEF Delete
  <2>5. InputOK'
    BY <1>6 DEF Delete, InputOK, input
  <2> QED BY <2>1, <2>2, <2>3, <2>4, <2>5 DEF OthersOK
<1>7. ASSUME NEW p \in Tickers, Plan(p) PROVE OthersOK'
  <2>1. due' \in BOOLEAN /\ passed' \in BOOLEAN /\ detached' \in BOOLEAN /\ planned' \in Nat
    <3>1. /\ \/ UNCHANGED <<due, planned>> \/ NoPlan \/ \E now \in BOOLEAN : Plans(now)
          /\ UNCHANGED <<passed, detached>>
      BY <1>7 DEF Plan
    <3>2. planned' \in Nat
      BY <3>1 DEF Plans, NoPlan
    <3>3. due' \in BOOLEAN /\ passed' \in BOOLEAN /\ detached' \in BOOLEAN
      BY <3>1, Zenon DEF Plans, NoPlan
    <3> QED BY <3>2, <3>3
  <2>2. runs' \in Seq(Runs)
    BY <1>7 DEF Plan
  <2>3. TickerOK'
    BY <1>7, TickerMoves DEF Plan, Goto, PCs, TickerOK
  <2>4. told' \in Nat
    BY <1>7 DEF Plan
  <2>5. InputOK'
    BY <1>7, UseTyped DEF Plan, Inputs, InputOK, input
  <2> QED BY <2>1, <2>2, <2>3, <2>4, <2>5 DEF OthersOK
<1>8. ASSUME NEW p \in Tickers, StopCancelled(p) PROVE OthersOK'
  <2>1. due' \in BOOLEAN /\ passed' \in BOOLEAN /\ detached' \in BOOLEAN /\ planned' \in Nat
    BY <1>8 DEF StopCancelled, clock, Plans, NoPlan
  <2>2. runs' \in Seq(Runs)
    <3>1. \A r \in DOMAIN runs : Stopped[r] \in Runs
      BY RunOf DEF Stopped
    <3>2. Stopped \in Seq(Runs)
      BY <3>1 DEF Stopped
    <3> QED BY <1>8, <3>2 DEF StopCancelled
  <2>3. TickerOK'
    BY SMTT(30), <1>8, TickerMoves DEF StopCancelled, Goto, PCs, TickerOK
  <2>4. told' \in Nat
    BY <1>8 DEF StopCancelled
  <2>5. InputOK'
    BY <1>8 DEF StopCancelled, InputOK, input
  <2> QED BY <2>1, <2>2, <2>3, <2>4, <2>5 DEF OthersOK
<1>9. ASSUME NEW p \in Tickers, FailOverdue(p) PROVE OthersOK'
  <2>1. due' \in BOOLEAN /\ passed' \in BOOLEAN /\ detached' \in BOOLEAN /\ planned' \in Nat
    BY <1>9 DEF FailOverdue, clock, Plans, NoPlan
  <2>2. runs' \in Seq(Runs)
    <3>1. row.last \in DOMAIN runs => [runs[row.last] EXCEPT !.status = "failed"] \in Runs
      BY RunOf
    <3>2. [runs EXCEPT ![row.last] = [runs[row.last] EXCEPT !.status = "failed"]] \in Seq(Runs)
      BY <1>1, <3>1, RunsKept
    <3> QED BY <1>9, <3>2 DEF FailOverdue
  <2>3. TickerOK'
    <3>1. PICK l \in PCs : pc' = [pc EXCEPT ![p] = l]
      BY <1>9 DEF FailOverdue, Goto, PCs
    <3>2. pc' \in [Tickers -> PCs]
      BY <3>1, TickerMoves
    <3>3. leader' \in Tickers \cup {NoOne}
      BY <1>9 DEF FailOverdue, TickerOK
    <3>4. run' \in [Tickers -> Nat] /\ claim' \in [Tickers -> [next : Nat, last : Nat]]
      BY <1>9, <1>1, TickerMoves DEF FailOverdue, TickerOK
    <3> QED BY <3>2, <3>3, <3>4 DEF TickerOK
  <2>4. told' \in Nat
    BY <1>9 DEF FailOverdue
  <2>5. InputOK'
    BY <1>9 DEF FailOverdue, InputOK, input
  <2> QED BY <2>1, <2>2, <2>3, <2>4, <2>5 DEF OthersOK
<1>10. ASSUME NEW p \in Tickers, MarkTimedOut(p) PROVE OthersOK'
  <2>1. due' \in BOOLEAN /\ passed' \in BOOLEAN /\ detached' \in BOOLEAN /\ planned' \in Nat
    BY <1>10 DEF MarkTimedOut, clock, Plans, NoPlan
  <2>2. runs' \in Seq(Runs)
    BY <1>10 DEF MarkTimedOut
  <2>3. TickerOK'
    BY <1>10, TickerMoves DEF MarkTimedOut, Goto, PCs, TickerOK
  <2>4. told' \in Nat
    BY <1>10 DEF MarkTimedOut
  <2>5. InputOK'
    BY <1>10 DEF MarkTimedOut, InputOK, input
  <2> QED BY <2>1, <2>2, <2>3, <2>4, <2>5 DEF OthersOK
<1>11. ASSUME NEW p \in Tickers, ExpireActive(p) PROVE OthersOK'
  <2>1. due' \in BOOLEAN /\ passed' \in BOOLEAN /\ detached' \in BOOLEAN /\ planned' \in Nat
    BY <1>11 DEF ExpireActive, clock, Plans, NoPlan
  <2>2. runs' \in Seq(Runs)
    BY <1>11 DEF ExpireActive
  <2>3. TickerOK'
    BY <1>11, TickerMoves DEF ExpireActive, Goto, PCs, TickerOK
  <2>4. told' \in Nat
    BY <1>11 DEF ExpireActive
  <2>5. InputOK'
    BY <1>11 DEF ExpireActive, InputOK, input
  <2> QED BY <2>1, <2>2, <2>3, <2>4, <2>5 DEF OthersOK
<1>12. ASSUME NEW p \in Tickers, ClaimEnding(p) PROVE OthersOK'
  <2>1. due' \in BOOLEAN /\ passed' \in BOOLEAN /\ detached' \in BOOLEAN /\ planned' \in Nat
    BY <1>12 DEF ClaimEnding, clock, Plans, NoPlan
  <2>2. runs' \in Seq(Runs)
    BY <1>12 DEF ClaimEnding
  <2>3. TickerOK'
    <3>1. PICK l \in PCs : pc' = [pc EXCEPT ![p] = l]
      BY <1>12 DEF ClaimEnding, Goto, PCs
    <3>2. pc' \in [Tickers -> PCs]
      BY <3>1, TickerMoves
    <3>3. leader' \in Tickers \cup {NoOne}
      BY <1>12 DEF ClaimEnding, TickerOK
    <3>4. run' \in [Tickers -> Nat] /\ claim' \in [Tickers -> [next : Nat, last : Nat]]
      BY <1>12, <1>1, TickerMoves DEF ClaimEnding, TickerOK
    <3> QED BY <3>2, <3>3, <3>4 DEF TickerOK
  <2>4. told' \in Nat
    BY <1>12 DEF ClaimEnding
  <2>5. InputOK'
    BY <1>12 DEF ClaimEnding, InputOK, input
  <2> QED BY <2>1, <2>2, <2>3, <2>4, <2>5 DEF OthersOK
<1>13. ASSUME NEW p \in Tickers, Announce(p) PROVE OthersOK'
  <2>1. due' \in BOOLEAN /\ passed' \in BOOLEAN /\ detached' \in BOOLEAN /\ planned' \in Nat
    BY <1>13 DEF Announce, clock, Plans, NoPlan
  <2>2. runs' \in Seq(Runs)
    BY <1>13 DEF Announce
  <2>3. TickerOK'
    BY <1>13, TickerMoves DEF Announce, Goto, PCs, TickerOK
  <2>4. told' \in Nat
    BY <1>13 DEF Announce
  <2>5. InputOK'
    BY <1>13 DEF Announce, InputOK, input
  <2> QED BY <2>1, <2>2, <2>3, <2>4, <2>5 DEF OthersOK
<1>14. ASSUME NEW p \in Tickers, RecoverTerminal(p) PROVE OthersOK'
  <2>1. due' \in BOOLEAN /\ passed' \in BOOLEAN /\ detached' \in BOOLEAN /\ planned' \in Nat
    <3>1. /\ \/ UNCHANGED <<due, planned>> \/ Plans(FALSE)
          /\ UNCHANGED <<passed, detached>>
      BY <1>14 DEF RecoverTerminal
    <3>2. planned' \in Nat
      BY <3>1 DEF Plans, NoPlan
    <3>3. due' \in BOOLEAN /\ passed' \in BOOLEAN /\ detached' \in BOOLEAN
      BY <3>1, Zenon DEF Plans, NoPlan
    <3> QED BY <3>2, <3>3
  <2>2. runs' \in Seq(Runs)
    BY <1>14 DEF RecoverTerminal
  <2>3. TickerOK'
    BY <1>14, TickerMoves DEF RecoverTerminal, Goto, PCs, TickerOK
  <2>4. told' \in Nat
    BY <1>14 DEF RecoverTerminal
  <2>5. InputOK'
    BY <1>14 DEF RecoverTerminal, InputOK, input
  <2> QED BY <2>1, <2>2, <2>3, <2>4, <2>5 DEF OthersOK
<1>15. ASSUME NEW p \in Tickers, Claim(p) PROVE OthersOK'
  <2>1. due' \in BOOLEAN /\ passed' \in BOOLEAN /\ detached' \in BOOLEAN /\ planned' \in Nat
    BY <1>15 DEF Claim, clock, Plans, NoPlan
  <2>2. runs' \in Seq(Runs)
    BY <1>15 DEF Claim
  <2>3. TickerOK'
    <3>1. [next |-> row.next, last |-> row.last] \in [next : Nat, last : Nat]
      BY <1>1
    <3>2. claim' \in [Tickers -> [next : Nat, last : Nat]]
      BY <1>15, <3>1 DEF Claim, TickerOK
    <3>3. PICK l \in PCs : pc' = [pc EXCEPT ![p] = l]
      BY <1>15 DEF Claim, Goto, PCs
    <3>4. pc' \in [Tickers -> PCs]
      BY <3>3, TickerMoves
    <3> QED BY <1>15, <3>2, <3>4 DEF Claim, TickerOK
  <2>4. told' \in Nat
    BY <1>15 DEF Claim
  <2>5. InputOK'
    BY <1>15 DEF Claim, InputOK, input
  <2> QED BY <2>1, <2>2, <2>3, <2>4, <2>5 DEF OthersOK
<1>16. ASSUME NEW p \in Tickers, Look(p) PROVE OthersOK'
  <2>1. due' \in BOOLEAN /\ passed' \in BOOLEAN /\ detached' \in BOOLEAN /\ planned' \in Nat
    BY <1>16 DEF Look, clock, Plans, NoPlan
  <2>2. runs' \in Seq(Runs)
    BY <1>16 DEF Look
  <2>3. TickerOK'
    BY <1>16, TickerMoves DEF Look, Goto, PCs, TickerOK
  <2>4. told' \in Nat
    BY <1>16 DEF Look
  <2>5. InputOK'
    BY <1>16 DEF Look, InputOK, input
  <2> QED BY <2>1, <2>2, <2>3, <2>4, <2>5 DEF OthersOK
<1>17. ASSUME NEW p \in Tickers, MarkSkipped(p) PROVE OthersOK'
  <2>1. due' \in BOOLEAN /\ passed' \in BOOLEAN /\ detached' \in BOOLEAN /\ planned' \in Nat
    <3>1. /\ \/ UNCHANGED <<due, planned>> \/ Plans(FALSE)
          /\ UNCHANGED <<passed, detached>>
      BY <1>17 DEF MarkSkipped
    <3>2. planned' \in Nat
      BY <3>1 DEF Plans, NoPlan
    <3>3. due' \in BOOLEAN /\ passed' \in BOOLEAN /\ detached' \in BOOLEAN
      BY <3>1, Zenon DEF Plans, NoPlan
    <3> QED BY <3>2, <3>3
  <2>2. runs' \in Seq(Runs)
    BY <1>17 DEF MarkSkipped
  <2>3. TickerOK'
    BY <1>17, TickerMoves DEF MarkSkipped, Goto, PCs, TickerOK
  <2>4. told' \in Nat
    BY <1>17 DEF MarkSkipped
  <2>5. InputOK'
    BY <1>17 DEF MarkSkipped, InputOK, input
  <2> QED BY <2>1, <2>2, <2>3, <2>4, <2>5 DEF OthersOK
<1>18. ASSUME NEW p \in Tickers, Create(p) PROVE OthersOK'
  <2>1. due' \in BOOLEAN /\ passed' \in BOOLEAN /\ detached' \in BOOLEAN /\ planned' \in Nat
    BY <1>18 DEF Create, clock, Plans, NoPlan
  <2>2. runs' \in Seq(Runs)
    <3> DEFINE new == [key |-> claim[p].next, status |-> "active", asked |-> 0,
                       late |-> FALSE, closing |-> "no"]
    <3>1. claim[p].next \in Nat
      BY DEF TickerOK
    <3>2. new \in Runs
      BY <3>1 DEF Runs
    <3>3. runs' = Append(runs, new) \/ runs' = runs
      BY <1>18 DEF Create
    <3> QED BY <3>2, <3>3
  <2>3. TickerOK'
    <3>1. PICK n \in Nat : run' = [run EXCEPT ![p] = n]
      <4>1. Len(runs) + 1 \in Nat /\ \A r \in DOMAIN runs : r \in Nat
        OBVIOUS
      <4> QED BY <1>18, <4>1 DEF Create, Keyed
    <3> QED BY <1>18, <3>1, TickerMoves DEF Create, Goto, PCs, TickerOK
  <2>4. told' \in Nat
    BY <1>18 DEF Create
  <2>5. InputOK'
    BY <1>18 DEF Create, InputOK, input
  <2> QED BY <2>1, <2>2, <2>3, <2>4, <2>5 DEF OthersOK
<1>19. ASSUME NEW p \in Tickers, Ask(p) PROVE OthersOK'
  <2>1. due' \in BOOLEAN /\ passed' \in BOOLEAN /\ detached' \in BOOLEAN /\ planned' \in Nat
    BY <1>19 DEF Ask, clock, Plans, NoPlan
  <2>2. runs' \in Seq(Runs)
    <3> DEFINE v == [runs[run[p]] EXCEPT !.asked = runs[run[p]].asked + 1]
    <3>1. run[p] \in Nat
      BY DEF TickerOK
    <3>2. run[p] \in DOMAIN runs => v \in Runs
      BY RunOf
    <3>3. runs' = [runs EXCEPT ![run[p]] = v]
      BY <1>19 DEF Ask
    <3> HIDE DEF v
    <3> QED BY <3>1, <3>2, <3>3, RunsKept
  <2>3. TickerOK'
    BY <1>19, TickerMoves DEF Ask, Goto, PCs, TickerOK
  <2>4. told' \in Nat
    BY <1>19 DEF Ask
  <2>5. InputOK'
    BY <1>19 DEF Ask, InputOK, input
  <2> QED BY <2>1, <2>2, <2>3, <2>4, <2>5 DEF OthersOK
<1>20. ASSUME NEW p \in Tickers, Enqueue(p) PROVE OthersOK'
  <2>1. due' \in BOOLEAN /\ passed' \in BOOLEAN /\ detached' \in BOOLEAN /\ planned' \in Nat
    BY <1>20 DEF Enqueue, clock, Plans, NoPlan
  <2>2. runs' \in Seq(Runs)
    <3> DEFINE v == [runs[run[p]] EXCEPT !.status = IF runs[run[p]].status = "paused" THEN runs[run[p]].status ELSE "active"]
    <3>1. run[p] \in Nat
      BY DEF TickerOK
    <3>2. run[p] \in DOMAIN runs => v \in Runs
      BY RunOf
    <3>3. runs' = [runs EXCEPT ![run[p]] = v]
      BY <1>20 DEF Enqueue
    <3> HIDE DEF v
    <3> QED BY <3>1, <3>2, <3>3, RunsKept
  <2>3. TickerOK'
    BY <1>20, TickerMoves DEF Enqueue, Goto, PCs, TickerOK
  <2>4. told' \in Nat
    BY <1>20 DEF Enqueue
  <2>5. InputOK'
    BY <1>20 DEF Enqueue, InputOK, input
  <2> QED BY <2>1, <2>2, <2>3, <2>4, <2>5 DEF OthersOK
<1>21. ASSUME NEW p \in Tickers, MarkCreated(p) PROVE OthersOK'
  <2>1. due' \in BOOLEAN /\ passed' \in BOOLEAN /\ detached' \in BOOLEAN /\ planned' \in Nat
    <3>1. /\ \/ UNCHANGED <<due, planned>> \/ NoPlan \/ Plans(FALSE)
          /\ UNCHANGED <<passed, detached>>
      BY <1>21 DEF MarkCreated
    <3>2. planned' \in Nat
      BY <3>1 DEF Plans, NoPlan
    <3>3. due' \in BOOLEAN /\ passed' \in BOOLEAN /\ detached' \in BOOLEAN
      BY <3>1, Zenon DEF Plans, NoPlan
    <3> QED BY <3>2, <3>3
  <2>2. runs' \in Seq(Runs)
    BY <1>21 DEF MarkCreated
  <2>3. TickerOK'
    BY <1>21, TickerMoves DEF MarkCreated, Goto, PCs, TickerOK
  <2>4. told' \in Nat
    BY <1>21 DEF MarkCreated
  <2>5. InputOK'
    BY <1>21 DEF MarkCreated, InputOK, input
  <2> QED BY <2>1, <2>2, <2>3, <2>4, <2>5 DEF OthersOK
<1>22. ASSUME NEW p \in Tickers, MarkFailed(p) PROVE OthersOK'
  <2>1. due' \in BOOLEAN /\ passed' \in BOOLEAN /\ detached' \in BOOLEAN /\ planned' \in Nat
    <3>1. /\ \/ UNCHANGED <<due, planned>> \/ NoPlan \/ Plans(FALSE)
          /\ UNCHANGED <<passed, detached>>
      BY <1>22 DEF MarkFailed
    <3>2. planned' \in Nat
      BY <3>1 DEF Plans, NoPlan
    <3>3. due' \in BOOLEAN /\ passed' \in BOOLEAN /\ detached' \in BOOLEAN
      BY <3>1, Zenon DEF Plans, NoPlan
    <3> QED BY <3>2, <3>3
  <2>2. runs' \in Seq(Runs)
    BY <1>22 DEF MarkFailed
  <2>3. TickerOK'
    BY <1>22, TickerMoves DEF MarkFailed, Goto, PCs, TickerOK
  <2>4. told' \in Nat
    BY <1>22 DEF MarkFailed
  <2>5. InputOK'
    BY <1>22, UseTyped DEF MarkFailed, Inputs, InputOK, input
  <2> QED BY <2>1, <2>2, <2>3, <2>4, <2>5 DEF OthersOK
<1>23. ASSUME NEW p \in Tickers, SweepFails(p) PROVE OthersOK'
  <2>1. due' \in BOOLEAN /\ passed' \in BOOLEAN /\ detached' \in BOOLEAN /\ planned' \in Nat
    BY <1>23 DEF SweepFails, clock, Plans, NoPlan
  <2>2. runs' \in Seq(Runs)
    BY <1>23 DEF SweepFails
  <2>3. TickerOK'
    BY <1>23, TickerMoves DEF SweepFails, Goto, PCs, TickerOK, After
  <2>4. told' \in Nat
    BY <1>23 DEF SweepFails
  <2>5. InputOK'
    BY <1>23, UseTyped DEF SweepFails, Inputs
  <2> QED BY <2>1, <2>2, <2>3, <2>4, <2>5 DEF OthersOK
<1>24. ASSUME NEW p \in Tickers, RunFails(p) PROVE OthersOK'
  <2>1. due' \in BOOLEAN /\ passed' \in BOOLEAN /\ detached' \in BOOLEAN /\ planned' \in Nat
    BY <1>24 DEF RunFails, clock, Plans, NoPlan
  <2>2. runs' \in Seq(Runs)
    BY <1>24 DEF RunFails
  <2>3. TickerOK'
    BY <1>24, TickerMoves DEF RunFails, Goto, PCs, TickerOK
  <2>4. told' \in Nat
    BY <1>24 DEF RunFails
  <2>5. InputOK'
    BY <1>24, UseTyped DEF RunFails, Inputs
  <2> QED BY <2>1, <2>2, <2>3, <2>4, <2>5 DEF OthersOK
<1>25. ASSUME NEW p \in Tickers, Dies(p) PROVE OthersOK'
  <2>1. due' \in BOOLEAN /\ passed' \in BOOLEAN /\ detached' \in BOOLEAN /\ planned' \in Nat
    BY <1>25 DEF Dies, clock, Plans, NoPlan
  <2>2. runs' \in Seq(Runs)
    BY <1>25 DEF Dies
  <2>3. TickerOK'
    BY <1>25, TickerMoves DEF Dies, Goto, PCs, TickerOK, NoClaim
  <2>4. told' \in Nat
    BY <1>25 DEF Dies
  <2>5. InputOK'
    BY <1>25, UseTyped DEF Dies, Inputs
  <2> QED BY <2>1, <2>2, <2>3, <2>4, <2>5 DEF OthersOK
<1>26. ASSUME LockExpires PROVE OthersOK'
  <2>1. due' \in BOOLEAN /\ passed' \in BOOLEAN /\ detached' \in BOOLEAN /\ planned' \in Nat
    BY <1>26 DEF LockExpires, clock, Plans, NoPlan
  <2>2. runs' \in Seq(Runs)
    BY <1>26 DEF LockExpires
  <2>3. TickerOK'
    BY <1>26 DEF LockExpires, ticker, TickerOK
  <2>4. told' \in Nat
    BY <1>26 DEF LockExpires
  <2>5. InputOK'
    BY <1>26, UseTyped DEF LockExpires, Inputs, InputOK, input
  <2> QED BY <2>1, <2>2, <2>3, <2>4, <2>5 DEF OthersOK
<1>27. ASSUME LeaderExpires PROVE OthersOK'
  <2>1. due' \in BOOLEAN /\ passed' \in BOOLEAN /\ detached' \in BOOLEAN /\ planned' \in Nat
    BY <1>27 DEF LeaderExpires, clock, Plans, NoPlan
  <2>2. runs' \in Seq(Runs)
    BY <1>27 DEF LeaderExpires
  <2>3. TickerOK'
    BY <1>27 DEF LeaderExpires, ticker, TickerOK
  <2>4. told' \in Nat
    BY <1>27 DEF LeaderExpires
  <2>5. InputOK'
    BY <1>27, UseTyped DEF LeaderExpires, Inputs, InputOK, input
  <2> QED BY <2>1, <2>2, <2>3, <2>4, <2>5 DEF OthersOK
<1>28. ASSUME Elapse PROVE OthersOK'
  <2>1. due' \in BOOLEAN /\ passed' \in BOOLEAN /\ detached' \in BOOLEAN /\ planned' \in Nat
    BY <1>28 DEF Elapse, clock, Plans, NoPlan
  <2>2. runs' \in Seq(Runs)
    BY <1>28 DEF Elapse
  <2>3. TickerOK'
    BY <1>28 DEF Elapse, ticker, TickerOK
  <2>4. told' \in Nat
    BY <1>28 DEF Elapse
  <2>5. InputOK'
    BY <1>28, UseTyped DEF Elapse, Inputs
  <2> QED BY <2>1, <2>2, <2>3, <2>4, <2>5 DEF OthersOK
<1>29. ASSUME Expiry PROVE OthersOK'
  <2>1. due' \in BOOLEAN /\ passed' \in BOOLEAN /\ detached' \in BOOLEAN /\ planned' \in Nat
    BY <1>29 DEF Expiry, clock, Plans, NoPlan
  <2>2. runs' \in Seq(Runs)
    BY <1>29 DEF Expiry
  <2>3. TickerOK'
    BY <1>29 DEF Expiry, ticker, TickerOK
  <2>4. told' \in Nat
    BY <1>29 DEF Expiry
  <2>5. InputOK'
    BY <1>29, UseTyped DEF Expiry, Inputs
  <2> QED BY <2>1, <2>2, <2>3, <2>4, <2>5 DEF OthersOK
<1>30. ASSUME Pause PROVE OthersOK'
  <2>1. due' \in BOOLEAN /\ passed' \in BOOLEAN /\ detached' \in BOOLEAN /\ planned' \in Nat
    BY <1>30 DEF Pause, PersonStep, clock, Plans, NoPlan
  <2>2. runs' \in Seq(Runs)
    BY <1>30 DEF Pause, PersonStep
  <2>3. TickerOK'
    BY <1>30 DEF Pause, PersonStep, ticker, TickerOK
  <2>4. told' \in Nat
    BY <1>30 DEF Pause, PersonStep
  <2>5. InputOK'
    BY <1>30, UseTyped DEF Pause, Inputs
  <2> QED BY <2>1, <2>2, <2>3, <2>4, <2>5 DEF OthersOK
<1>31. ASSUME NEW now \in BOOLEAN, Resume(now) PROVE OthersOK'
  <2>1. due' \in BOOLEAN /\ passed' \in BOOLEAN /\ detached' \in BOOLEAN /\ planned' \in Nat
    BY <1>31 DEF Resume, PersonStep, clock, Plans, NoPlan
  <2>2. runs' \in Seq(Runs)
    BY <1>31 DEF Resume, PersonStep
  <2>3. TickerOK'
    BY <1>31 DEF Resume, PersonStep, ticker, TickerOK
  <2>4. told' \in Nat
    BY <1>31 DEF Resume, PersonStep
  <2>5. InputOK'
    BY <1>31, UseTyped DEF Resume, Inputs
  <2> QED BY <2>1, <2>2, <2>3, <2>4, <2>5 DEF OthersOK
<1>32. ASSUME Cancel PROVE OthersOK'
  <2>1. due' \in BOOLEAN /\ passed' \in BOOLEAN /\ detached' \in BOOLEAN /\ planned' \in Nat
    BY <1>32 DEF Cancel, PersonStep, clock, Plans, NoPlan
  <2>2. runs' \in Seq(Runs)
    BY <1>32 DEF Cancel, PersonStep
  <2>3. TickerOK'
    BY <1>32 DEF Cancel, PersonStep, ticker, TickerOK
  <2>4. told' \in Nat
    BY <1>32 DEF Cancel, PersonStep
  <2>5. InputOK'
    BY <1>32, UseTyped DEF Cancel, Inputs
  <2> QED BY <2>1, <2>2, <2>3, <2>4, <2>5 DEF OthersOK
<1>33. ASSUME StopNow PROVE OthersOK'
  <2>1. due' \in BOOLEAN /\ passed' \in BOOLEAN /\ detached' \in BOOLEAN /\ planned' \in Nat
    BY <1>33 DEF StopNow, PersonStep, clock, Plans, NoPlan
  <2>2. runs' \in Seq(Runs)
    <3>1. \A r \in DOMAIN runs : Stopped[r] \in Runs
      BY RunOf DEF Stopped
    <3>2. Stopped \in Seq(Runs)
      BY <3>1 DEF Stopped
    <3> QED BY <1>33, <3>2 DEF StopNow
  <2>3. TickerOK'
    BY <1>33 DEF StopNow, PersonStep, ticker, TickerOK
  <2>4. told' \in Nat
    BY <1>33 DEF StopNow, PersonStep
  <2>5. InputOK'
    BY <1>33 DEF StopNow, InputOK, input
  <2> QED BY <2>1, <2>2, <2>3, <2>4, <2>5 DEF OthersOK
<1>34. ASSUME RunNow PROVE OthersOK'
  <2>1. due' \in BOOLEAN /\ passed' \in BOOLEAN /\ detached' \in BOOLEAN /\ planned' \in Nat
    BY <1>34 DEF RunNow, PersonStep, clock, Plans, NoPlan
  <2>2. runs' \in Seq(Runs)
    BY <1>34 DEF RunNow, PersonStep
  <2>3. TickerOK'
    BY <1>34 DEF RunNow, PersonStep, ticker, TickerOK
  <2>4. told' \in Nat
    BY <1>34 DEF RunNow, PersonStep
  <2>5. InputOK'
    BY <1>34, UseTyped DEF RunNow, Inputs
  <2> QED BY <2>1, <2>2, <2>3, <2>4, <2>5 DEF OthersOK
<1>35. ASSUME NEW k \in Kinds, Update(k) PROVE OthersOK'
  <2>1. due' \in BOOLEAN /\ passed' \in BOOLEAN /\ detached' \in BOOLEAN /\ planned' \in Nat
    <3>1. /\ \/ UNCHANGED <<due, planned>> \/ Plans(FALSE)
          /\ UNCHANGED <<passed, detached>>
      BY <1>35 DEF Update, PersonStep
    <3>2. planned' \in Nat
      BY <3>1 DEF Plans, NoPlan
    <3>3. due' \in BOOLEAN /\ passed' \in BOOLEAN /\ detached' \in BOOLEAN
      BY <3>1, Zenon DEF Plans, NoPlan
    <3> QED BY <3>2, <3>3
  <2>2. runs' \in Seq(Runs)
    BY <1>35 DEF Update, PersonStep
  <2>3. TickerOK'
    BY <1>35 DEF Update, PersonStep, ticker, TickerOK
  <2>4. told' \in Nat
    BY <1>35 DEF Update, PersonStep
  <2>5. InputOK'
    BY <1>35, UseTyped DEF Update, Inputs
  <2> QED BY <2>1, <2>2, <2>3, <2>4, <2>5 DEF OthersOK
<1>43. ASSUME ResumeUnplanned PROVE OthersOK'
  <2>1. due' \in BOOLEAN /\ passed' \in BOOLEAN /\ detached' \in BOOLEAN /\ planned' \in Nat
    BY <1>43 DEF ResumeUnplanned, PersonStep
  <2>2. runs' \in Seq(Runs)
    BY <1>43 DEF ResumeUnplanned, PersonStep
  <2>3. TickerOK'
    BY <1>43 DEF ResumeUnplanned, PersonStep, ticker, TickerOK
  <2>4. told' \in Nat
    BY <1>43 DEF ResumeUnplanned, PersonStep
  <2>5. InputOK'
    BY <1>43, UseTyped DEF ResumeUnplanned, Inputs
  <2> QED BY <2>1, <2>2, <2>3, <2>4, <2>5 DEF OthersOK
<1>44. ASSUME Edit PROVE OthersOK'
  <2>1. due' \in BOOLEAN /\ passed' \in BOOLEAN /\ detached' \in BOOLEAN /\ planned' \in Nat
    BY <1>44 DEF Edit, PersonStep
  <2>2. runs' \in Seq(Runs)
    BY <1>44 DEF Edit, PersonStep
  <2>3. TickerOK'
    BY <1>44 DEF Edit, PersonStep, ticker, TickerOK
  <2>4. told' \in Nat
    BY <1>44 DEF Edit, PersonStep
  <2>5. InputOK'
    BY <1>44, UseTyped DEF Edit, Inputs
  <2> QED BY <2>1, <2>2, <2>3, <2>4, <2>5 DEF OthersOK
<1>36. ASSUME NEW r \in DOMAIN runs, NEW how \in {"completed", "failed"}, RunEnds(r, how) PROVE OthersOK'
  <2>1. due' \in BOOLEAN /\ passed' \in BOOLEAN /\ detached' \in BOOLEAN /\ planned' \in Nat
    BY <1>36 DEF RunEnds, RunStep, clock, Plans, NoPlan
  <2>2. runs' \in Seq(Runs)
    <3> DEFINE v == [runs[r] EXCEPT !.status = how, !.closing = IF row.kind = "dynamic" THEN "look" ELSE "no"]
    <3>1. r \in Nat /\ v \in Runs
      BY RunOf
    <3>2. runs' = [runs EXCEPT ![r] = v]
      BY <1>36 DEF RunEnds
    <3> HIDE DEF v
    <3> QED BY <3>1, <3>2, RunsKept
  <2>3. TickerOK'
    BY <1>36 DEF RunEnds, RunStep, ticker, TickerOK
  <2>4. told' \in Nat
    BY <1>36 DEF RunEnds, RunStep
  <2>5. InputOK'
    BY <1>36, UseTyped DEF RunEnds, Inputs, InputOK, input
  <2> QED BY <2>1, <2>2, <2>3, <2>4, <2>5 DEF OthersOK
<1>37. ASSUME NEW r \in DOMAIN runs, FinalizeLook(r) PROVE OthersOK'
  <2>1. due' \in BOOLEAN /\ passed' \in BOOLEAN /\ detached' \in BOOLEAN /\ planned' \in Nat
    BY <1>37 DEF FinalizeLook, RunStep, clock, Plans, NoPlan
  <2>2. runs' \in Seq(Runs)
    <3> DEFINE v == [runs[r] EXCEPT !.closing =
                       IF row.status = "active" /\ row.next = 0 /\ row.last = r THEN "write" ELSE "no"]
    <3>1. r \in Nat /\ v \in Runs
      BY RunOf
    <3>2. runs' = [runs EXCEPT ![r] = v]
      BY <1>37 DEF FinalizeLook
    <3> HIDE DEF v
    <3> QED BY <3>1, <3>2, RunsKept
  <2>3. TickerOK'
    BY <1>37 DEF FinalizeLook, RunStep, ticker, TickerOK
  <2>4. told' \in Nat
    BY <1>37 DEF FinalizeLook, RunStep
  <2>5. InputOK'
    BY <1>37 DEF FinalizeLook, InputOK, input
  <2> QED BY <2>1, <2>2, <2>3, <2>4, <2>5 DEF OthersOK
<1>38. ASSUME NEW r \in DOMAIN runs, FinalizeWrite(r) PROVE OthersOK'
  <2>1. due' \in BOOLEAN /\ passed' \in BOOLEAN /\ detached' \in BOOLEAN /\ planned' \in Nat
    <3>1. /\ \/ UNCHANGED <<due, planned>> \/ NoPlan \/ Plans(FALSE)
          /\ UNCHANGED <<passed, detached>>
      BY <1>38 DEF FinalizeWrite, RunStep, Chosen
    <3>2. planned' \in Nat
      BY <3>1 DEF Plans, NoPlan
    <3>3. due' \in BOOLEAN /\ passed' \in BOOLEAN /\ detached' \in BOOLEAN
      BY <3>1, Zenon DEF Plans, NoPlan
    <3> QED BY <3>2, <3>3
  <2>2. runs' \in Seq(Runs)
    <3> DEFINE v == [runs[r] EXCEPT !.closing = "no"]
    <3>1. r \in Nat /\ v \in Runs
      BY RunOf
    <3>2. runs' = [runs EXCEPT ![r] = v]
      BY <1>38 DEF FinalizeWrite
    <3> HIDE DEF v
    <3> QED BY <3>1, <3>2, RunsKept
  <2>3. TickerOK'
    BY <1>38 DEF FinalizeWrite, RunStep, Chosen, ticker, TickerOK
  <2>4. told' \in Nat
    BY <1>38 DEF FinalizeWrite, RunStep, Chosen
  <2>5. InputOK'
    BY <1>38 DEF FinalizeWrite, InputOK, input
  <2> QED BY <2>1, <2>2, <2>3, <2>4, <2>5 DEF OthersOK
<1>39. ASSUME NEW r \in DOMAIN runs, FinalizeLost(r) PROVE OthersOK'
  <2>1. due' \in BOOLEAN /\ passed' \in BOOLEAN /\ detached' \in BOOLEAN /\ planned' \in Nat
    BY <1>39 DEF FinalizeLost, RunStep, clock, Plans, NoPlan
  <2>2. runs' \in Seq(Runs)
    <3> DEFINE v == [runs[r] EXCEPT !.closing = "no"]
    <3>1. r \in Nat /\ v \in Runs
      BY RunOf
    <3>2. runs' = [runs EXCEPT ![r] = v]
      BY <1>39 DEF FinalizeLost
    <3> HIDE DEF v
    <3> QED BY <3>1, <3>2, RunsKept
  <2>3. TickerOK'
    BY <1>39 DEF FinalizeLost, RunStep, ticker, TickerOK
  <2>4. told' \in Nat
    BY <1>39 DEF FinalizeLost, RunStep
  <2>5. InputOK'
    BY <1>39, UseTyped DEF FinalizeLost, Inputs
  <2> QED BY <2>1, <2>2, <2>3, <2>4, <2>5 DEF OthersOK
<1>40. ASSUME NEW r \in DOMAIN runs, NEW done \in BOOLEAN, LoopWait(r, done) PROVE OthersOK'
  <2>1. due' \in BOOLEAN /\ passed' \in BOOLEAN /\ detached' \in BOOLEAN /\ planned' \in Nat
    <3>1. /\ \/ UNCHANGED <<due, planned>> \/ NoPlan \/ Plans(FALSE)
          /\ UNCHANGED <<passed, detached>>
      BY <1>40 DEF LoopWait, RunStep, Chosen
    <3>2. planned' \in Nat
      BY <3>1 DEF Plans, NoPlan
    <3>3. due' \in BOOLEAN /\ passed' \in BOOLEAN /\ detached' \in BOOLEAN
      BY <3>1, Zenon DEF Plans, NoPlan
    <3> QED BY <3>2, <3>3
  <2>2. runs' \in Seq(Runs)
    BY <1>40 DEF LoopWait, RunStep, Chosen
  <2>3. TickerOK'
    BY <1>40 DEF LoopWait, RunStep, Chosen, ticker, TickerOK
  <2>4. told' \in Nat
    BY <1>40 DEF LoopWait, RunStep, Chosen
  <2>5. InputOK'
    BY <1>40, UseTyped DEF LoopWait, Inputs
  <2> QED BY <2>1, <2>2, <2>3, <2>4, <2>5 DEF OthersOK
<1>41. ASSUME NEW r \in DOMAIN runs, LoopComplete(r) PROVE OthersOK'
  <2>1. due' \in BOOLEAN /\ passed' \in BOOLEAN /\ detached' \in BOOLEAN /\ planned' \in Nat
    BY <1>41 DEF LoopComplete, RunStep, clock, Plans, NoPlan
  <2>2. runs' \in Seq(Runs)
    BY <1>41 DEF LoopComplete, RunStep
  <2>3. TickerOK'
    BY <1>41 DEF LoopComplete, RunStep, ticker, TickerOK
  <2>4. told' \in Nat
    BY <1>41 DEF LoopComplete, RunStep
  <2>5. InputOK'
    BY <1>41, UseTyped DEF LoopComplete, Inputs
  <2> QED BY <2>1, <2>2, <2>3, <2>4, <2>5 DEF OthersOK
<1>42. ASSUME NEW r \in DOMAIN runs, RunLate(r) PROVE OthersOK'
  <2>1. due' \in BOOLEAN /\ passed' \in BOOLEAN /\ detached' \in BOOLEAN /\ planned' \in Nat
    BY <1>42 DEF RunLate, RunStep, clock, Plans, NoPlan
  <2>2. runs' \in Seq(Runs)
    <3> DEFINE v == [runs[r] EXCEPT !.late = TRUE]
    <3>1. r \in Nat /\ v \in Runs
      BY RunOf
    <3>2. runs' = [runs EXCEPT ![r] = v]
      BY <1>42 DEF RunLate
    <3> HIDE DEF v
    <3> QED BY <3>1, <3>2, RunsKept
  <2>3. TickerOK'
    BY <1>42 DEF RunLate, RunStep, ticker, TickerOK
  <2>4. told' \in Nat
    BY <1>42 DEF RunLate, RunStep
  <2>5. InputOK'
    BY <1>42, UseTyped DEF RunLate, Inputs, InputOK, input
  <2> QED BY <2>1, <2>2, <2>3, <2>4, <2>5 DEF OthersOK
<1> QED
  BY <1>0, <1>2, <1>3, <1>4, <1>5, <1>6, <1>7, <1>8, <1>9, <1>10, <1>11, <1>12, <1>13, <1>14, <1>15, <1>16, <1>17, <1>18, <1>19, <1>20, <1>21, <1>22, <1>23, <1>24, <1>25, <1>26, <1>27, <1>28, <1>29, <1>30, <1>31, <1>32, <1>33, <1>34, <1>35, <1>36, <1>37, <1>38, <1>39, <1>40, <1>41, <1>42, <1>43, <1>44
    DEF Next, Tick, Faults, Time, Run, Person

(* Every variable has its type, for any replicas, ceilings and scenarios. *)
THEOREM Typed == Spec => []TypeOK
<1>1. Init => TypeOK
  <2> SUFFICES ASSUME Init PROVE TypeOK
    OBVIOUS
  <2>1. PICK s \in Scenarios, first \in {0, 1} : Init!(s, first)
    BY DEF Init
  <2>2. s \in Scenario
    BY ScenariosAssumption
  <2>3. s.kind \in Kinds /\ s.limit \in Nat /\ s.detached \in BOOLEAN /\ s.left \in [Inputs -> Nat]
    BY <2>2 DEF Scenario
  <2>4. row \in Rows /\ planned \in Nat
    BY <2>1, <2>3 DEF Rows, Statuses, Reasons
  <2>5. due \in BOOLEAN /\ passed \in BOOLEAN /\ detached \in BOOLEAN
    BY <2>1, <2>3, Zenon
  <2>6. runs \in Seq(Runs) /\ told \in Nat
    BY <2>1
  <2>7. TickerOK
    BY <2>1 DEF TickerOK, PCs, NoClaim
  <2>8. InputOK
    BY <2>1, <2>3 DEF InputOK
  <2> QED BY <2>4, <2>5, <2>6, <2>7, <2>8 DEF TypeOK, RowOK
<1>2. TypeOK /\ [Next]_vars => TypeOK'
  BY TypeStep
<1> QED BY <1>1, <1>2, PTL DEF Spec

(* -------------------------- the person's decision ---------------------- *)

\* A paused or cancelled schedule has no next run.
Unplanned == Decided => row.next = 0

(* A person's decision is final (PersonFinal): Writes lists what a step may do to the row,
   whoever takes it and however old its claim, and none of it but the person's own acts
   on a schedule that is paused or cancelled. *)
THEOREM PersonsWord == Spec => PersonFinal
<1> DEFINE Kept == /\ Decided' => row'.next = 0
                   /\ Decided /\ row'.status /= row.status =>
                        left'["resumes"] < left["resumes"] \/ left'["cancels"] < left["cancels"]
<1>1. Init => Unplanned
  <2> SUFFICES ASSUME Init PROVE Unplanned
    OBVIOUS
  <2>1. row.status = "active"
    BY DEF Init
  <2> QED BY <2>1 DEF Unplanned, Decided
<1>2. TypeOK /\ Unplanned /\ [Next]_vars => Unplanned' /\ (Kept \/ UNCHANGED vars)
  <2> SUFFICES ASSUME TypeOK, Unplanned, [Next]_vars PROVE Unplanned' /\ (Kept \/ UNCHANGED vars)
    OBVIOUS
  <2>1. CASE Next
    <3>1. Writes
      BY <2>1, RowStep
    <3>2. Decided' => row'.next = 0
      BY <3>1 DEF Writes, Unplanned, Decided
    <3>3. Decided /\ row'.status /= row.status =>
            left'["resumes"] < left["resumes"] \/ left'["cancels"] < left["cancels"]
      BY <3>1 DEF Writes, Decided
    <3> QED BY <3>2, <3>3 DEF Unplanned
  <2>2. CASE UNCHANGED vars
    BY <2>2 DEF vars, Unplanned, Decided
  <2> QED BY <2>1, <2>2
<1>3. Spec => []TypeOK
  BY Typed
<1> QED BY <1>1, <1>2, <1>3, PTL DEF Spec, PersonFinal

(* ------------------------------ the telling ---------------------------- *)

\* Who is about to tell of an ending has claimed it, is the only one, and nobody has.
Told == /\ told \in {0, 1} /\ (told = 1 => row.announced)
        /\ \A p \in Tickers : pc[p] = "tell" =>
             told = 0 /\ row.announced /\ \A q \in Tickers : pc[q] = "tell" => q = p

(* Every step keeps that: only claim_unannounced_endings leads to the telling. *)
LEMMA ToldStep ==
  ASSUME TypeOK, Told, Next
  PROVE  Told'
<1>1. row.announced => row'.announced
  BY RowStep DEF Writes
<1>2. pc \in [Tickers -> PCs]
  BY DEF TypeOK, TickerOK
<1>3. ASSUME told' = told, \A q \in Tickers : pc'[q] = "tell" => pc[q] = "tell"
      PROVE  Told'
  BY <1>1, <1>3 DEF Told
<1>4. ASSUME NEW p \in Tickers, Acquire(p) PROVE Told'
  BY <1>4, <1>2, <1>3 DEF Acquire, Goto
<1>5. ASSUME NEW p \in Tickers, Beat(p) PROVE Told'
  BY <1>5, <1>2, <1>3 DEF Beat, Goto
<1>6. ASSUME NEW p \in Tickers, BeatSet(p) PROVE Told'
  BY <1>6, <1>2, <1>3 DEF BeatSet, Goto
<1>7. ASSUME NEW p \in Tickers, Release(p) PROVE Told'
  BY <1>7, <1>2, <1>3 DEF Release, Goto
<1>8. ASSUME NEW p \in Tickers, Delete(p) PROVE Told'
  BY <1>8, <1>2, <1>3 DEF Delete, Goto
<1>9. ASSUME NEW p \in Tickers, Plan(p) PROVE Told'
  BY <1>9, <1>2, <1>3 DEF Plan, Goto
<1>10. ASSUME NEW p \in Tickers, StopCancelled(p) PROVE Told'
  BY <1>10, <1>2, <1>3 DEF StopCancelled, Goto
<1>11. ASSUME NEW p \in Tickers, FailOverdue(p) PROVE Told'
  BY <1>11, <1>2, <1>3 DEF FailOverdue, Goto
<1>12. ASSUME NEW p \in Tickers, MarkTimedOut(p) PROVE Told'
  BY <1>12, <1>2, <1>3 DEF MarkTimedOut, Goto
<1>13. ASSUME NEW p \in Tickers, ExpireActive(p) PROVE Told'
  BY <1>13, <1>2, <1>3 DEF ExpireActive, Goto
<1>14. ASSUME NEW p \in Tickers, RecoverTerminal(p) PROVE Told'
  BY <1>14, <1>2, <1>3 DEF RecoverTerminal, Goto
<1>15. ASSUME NEW p \in Tickers, Claim(p) PROVE Told'
  BY <1>15, <1>2, <1>3 DEF Claim, Goto
<1>16. ASSUME NEW p \in Tickers, Look(p) PROVE Told'
  BY <1>16, <1>2, <1>3 DEF Look, Goto
<1>17. ASSUME NEW p \in Tickers, MarkSkipped(p) PROVE Told'
  BY <1>17, <1>2, <1>3 DEF MarkSkipped, Goto
<1>18. ASSUME NEW p \in Tickers, Create(p) PROVE Told'
  BY <1>18, <1>2, <1>3 DEF Create, Goto
<1>19. ASSUME NEW p \in Tickers, Ask(p) PROVE Told'
  BY <1>19, <1>2, <1>3 DEF Ask, Goto
<1>20. ASSUME NEW p \in Tickers, Enqueue(p) PROVE Told'
  BY <1>20, <1>2, <1>3 DEF Enqueue, Goto
<1>21. ASSUME NEW p \in Tickers, MarkCreated(p) PROVE Told'
  BY <1>21, <1>2, <1>3 DEF MarkCreated, Goto
<1>22. ASSUME NEW p \in Tickers, MarkFailed(p) PROVE Told'
  BY <1>22, <1>2, <1>3 DEF MarkFailed, Goto
<1>23. ASSUME NEW p \in Tickers, RunFails(p) PROVE Told'
  BY <1>23, <1>2, <1>3 DEF RunFails, Goto
<1>24. ASSUME NEW p \in Tickers, Dies(p) PROVE Told'
  BY <1>24, <1>2, <1>3 DEF Dies, Goto
<1>25. ASSUME NEW p \in Tickers, SweepFails(p) PROVE Told'
  BY <1>25, <1>2, <1>3 DEF SweepFails, Goto, After
<1>26. ASSUME NEW p \in Tickers, ClaimEnding(p) PROVE Told'
  <2>1. CASE Unannounced
    <3>1. row' = [row EXCEPT !.announced = TRUE] /\ pc' = [pc EXCEPT ![p] = "tell"] /\ told' = told
      BY <1>26, <2>1 DEF ClaimEnding, Goto
    <3>2. told = 0 /\ \A q \in Tickers : pc[q] /= "tell"
      BY <2>1 DEF Unannounced, Told
    <3>3. row'.announced
      BY <3>1 DEF TypeOK, RowOK, Rows
    <3> QED BY <1>2, <3>1, <3>2, <3>3 DEF Told
  <2>2. CASE ~Unannounced
    BY <1>26, <1>2, <1>3, <2>2 DEF ClaimEnding, Goto
  <2> QED BY <2>1, <2>2
<1>27. ASSUME NEW p \in Tickers, Announce(p) PROVE Told'
  <2>1. told = 0 /\ row.announced /\ \A q \in Tickers : pc[q] = "tell" => q = p
    BY <1>27 DEF Announce, Told
  <2>2. told' \in {0, 1} /\ row' = row /\ pc' = [pc EXCEPT ![p] = "terminal"]
    BY <1>27, <2>1 DEF Announce, Goto
  <2> QED BY <1>2, <2>1, <2>2 DEF Told
<1>28. ASSUME LockExpires PROVE Told'
  BY <1>28, <1>2, <1>3 DEF LockExpires, ticker
<1>29. ASSUME LeaderExpires PROVE Told'
  BY <1>29, <1>2, <1>3 DEF LeaderExpires, ticker
<1>30. ASSUME Elapse PROVE Told'
  BY <1>30, <1>2, <1>3 DEF Elapse, ticker
<1>31. ASSUME Expiry PROVE Told'
  BY <1>31, <1>2, <1>3 DEF Expiry, ticker
<1>32. ASSUME Pause PROVE Told'
  BY <1>32, <1>2, <1>3 DEF Pause, PersonStep, ticker
<1>33. ASSUME NEW now \in BOOLEAN, Resume(now) PROVE Told'
  BY <1>33, <1>2, <1>3 DEF Resume, PersonStep, ticker
<1>34. ASSUME Cancel PROVE Told'
  BY <1>34, <1>2, <1>3 DEF Cancel, PersonStep, ticker
<1>35. ASSUME StopNow PROVE Told'
  BY <1>35, <1>2, <1>3 DEF StopNow, PersonStep, ticker
<1>36. ASSUME RunNow PROVE Told'
  BY <1>36, <1>2, <1>3 DEF RunNow, PersonStep, ticker
<1>37. ASSUME NEW k \in Kinds, Update(k) PROVE Told'
  BY <1>37, <1>2, <1>3 DEF Update, PersonStep, ticker
<1>45. ASSUME ResumeUnplanned PROVE Told'
  BY <1>45, <1>2, <1>3 DEF ResumeUnplanned, PersonStep, ticker
<1>46. ASSUME Edit PROVE Told'
  BY <1>46, <1>2, <1>3 DEF Edit, PersonStep, ticker
<1>38. ASSUME NEW r \in DOMAIN runs, NEW how \in {"completed", "failed"}, RunEnds(r, how) PROVE Told'
  BY <1>38, <1>2, <1>3 DEF RunEnds, RunStep, ticker
<1>39. ASSUME NEW r \in DOMAIN runs, FinalizeLook(r) PROVE Told'
  BY <1>39, <1>2, <1>3 DEF FinalizeLook, RunStep, ticker
<1>40. ASSUME NEW r \in DOMAIN runs, FinalizeWrite(r) PROVE Told'
  BY <1>40, <1>2, <1>3 DEF FinalizeWrite, RunStep, ticker
<1>41. ASSUME NEW r \in DOMAIN runs, FinalizeLost(r) PROVE Told'
  BY <1>41, <1>2, <1>3 DEF FinalizeLost, RunStep, ticker
<1>42. ASSUME NEW r \in DOMAIN runs, NEW done \in BOOLEAN, LoopWait(r, done) PROVE Told'
  BY <1>42, <1>2, <1>3 DEF LoopWait, RunStep, ticker
<1>43. ASSUME NEW r \in DOMAIN runs, LoopComplete(r) PROVE Told'
  BY <1>43, <1>2, <1>3 DEF LoopComplete, RunStep, ticker
<1>44. ASSUME NEW r \in DOMAIN runs, RunLate(r) PROVE Told'
  BY <1>44, <1>2, <1>3 DEF RunLate, RunStep, ticker
<1> QED
  BY <1>4, <1>5, <1>6, <1>7, <1>8, <1>9, <1>10, <1>11, <1>12, <1>13, <1>14, <1>15, <1>16, <1>17, <1>18, <1>19, <1>20, <1>21, <1>22, <1>23, <1>24, <1>25, <1>26, <1>27, <1>28, <1>29, <1>30, <1>31, <1>32, <1>33, <1>34, <1>35, <1>36, <1>37, <1>38, <1>39, <1>40, <1>41, <1>42, <1>43, <1>44, <1>45, <1>46
    DEF Next, Tick, Faults, Time, Run, Person

(* The chat is told of an ending at most once (ToldOnce), however many replicas believe
   that they lead: claim_unannounced_endings marks the row in the transaction that reads
   it, and only the replica that marked it goes on to tell. *)
THEOREM ToldAtMostOnce == Spec => []ToldOnce
<1>1. Init => Told
  <2> SUFFICES ASSUME Init PROVE Told
    OBVIOUS
  <2>1. told = 0 /\ \A p \in Tickers : pc[p] /= "tell"
    BY DEF Init
  <2> QED BY <2>1 DEF Told
<1>2. TypeOK /\ Told /\ [Next]_vars => Told'
  <2>1. ASSUME Told, UNCHANGED vars PROVE Told'
    BY <2>1 DEF Told, vars
  <2> QED BY <2>1, ToldStep
<1>3. Told => ToldOnce
  BY DEF Told, ToldOnce
<1> QED BY <1>1, <1>2, <1>3, Typed, PTL DEF Spec

=============================================================================
