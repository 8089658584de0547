--------------------------- MODULE JobTableProofs ---------------------------
(***************************************************************************)
(* Lemmas about a job row, used for both job tables.                        *)
(***************************************************************************)
EXTENDS JobTable, TLAPS

\* The statements on a job row keep it a job row.
LEMMA JobRowTypes ==
  ASSUME NEW j \in JobRow, NEW seenAt \in Nat, NEW max \in Nat
  PROVE  /\ Claimed(j) \in JobRow /\ Completed(j) \in JobRow
         /\ FailedAttempt(j, seenAt, max) \in JobRow
         /\ Lapsed(j) \in JobRow /\ BackedOff(j) \in JobRow
<1>1. Claimed(j) \in JobRow
  <2>1. j.attempts + 1 \in Nat
    BY DEF JobRow
  <2>. QED
    BY <2>1 DEF JobRow, JobStatus, Claimed
<1>2. Completed(j) \in JobRow
  BY DEF JobRow, JobStatus, Completed
<1>3. FailedAttempt(j, seenAt, max) \in JobRow
  BY DEF JobRow, JobStatus, FailedAttempt
<1>4. Lapsed(j) \in JobRow
  BY DEF JobRow, Lapsed
<1>5. BackedOff(j) \in JobRow
  BY DEF JobRow, BackedOff
<1>. QED
  BY <1>1, <1>2, <1>3, <1>4, <1>5
=============================================================================
