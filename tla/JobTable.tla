------------------------------ MODULE JobTable ------------------------------
(***************************************************************************)
(* A row of classify_jobs or push_page_jobs, and what the statements that   *)
(* claim, complete and fail a job do to it.  The two tables have the same   *)
(* lease columns and the same statements.                                   *)
(*                                                                         *)
(* Instants are abstracted to the two comparisons the statements make:      *)
(*   leased  lease_until >= now(), and                                      *)
(*   due     run_after <= now().                                            *)
(* Time passes by steps of the environment, Lapsed and BackedOff.           *)
(***************************************************************************)
EXTENDS Naturals

JobStatus == {"queued", "running", "done", "failed"}

JobRow ==
  [status : JobStatus, attempts : Nat, leased : BOOLEAN, due : BOOLEAN]

NewJob == [status |-> "queued", attempts |-> 0, leased |-> FALSE, due |-> TRUE]

\* Mutant: the claim forgets the running jobs whose lease has lapsed.
MutClaimQueuedOnly(j) == j.due /\ j.status = "queued"

\* Mutant: the claim forgets the jobs that were requeued, done or not.
MutClaimNewOnly(j) ==
  j.due /\ (IF j.status = "queued" THEN j.attempts = 0
            ELSE j.status = "running" /\ ~j.leased)

\* The WHERE clause of the two claim statements.
Claimable(j) ==
  j.due /\ (j.status = "queued" \/ (j.status = "running" /\ ~j.leased))

\* The claim takes a new lease; run_after keeps its value.
Claimed(j) ==
  [j EXCEPT !.status = "running", !.leased = TRUE, !.attempts = @ + 1]

\* complete_*_job: unconditional, whoever holds the lease by now.
Completed(j) == [j EXCEPT !.status = "done", !.leased = FALSE]

\* Mutant: the attempts are counted from zero.
MutFailedAttempt(j, seen, maxAttempts) ==
  [j EXCEPT !.status = IF seen + 1 >= maxAttempts THEN "failed" ELSE "queued",
            !.due = FALSE,
            !.leased = FALSE]

\* fail_*_job: unconditional too, and it decides on the attempts the worker
\* saw when it claimed the job, not on those the row has by now.
FailedAttempt(j, seen, maxAttempts) ==
  [j EXCEPT !.status = IF seen >= maxAttempts THEN "failed" ELSE "queued",
            !.due = FALSE,
            !.leased = FALSE]

\* Time passes beyond lease_until, or beyond run_after.
Lapsed(j) == [j EXCEPT !.leased = FALSE]
BackedOff(j) == [j EXCEPT !.due = TRUE]
=============================================================================
