------------------------------ MODULE JobQueue ------------------------------
(***************************************************************************)
(* The fenced job table of the version 4 control plane: the rows of `jobs` *)
(* and the transactions of Repository                                      *)
(* (src/qt/persistence/repository.py) on them.  Experiments and Research   *)
(* build their workers on this module.                                     *)
(*                                                                         *)
(* A method is one transaction under a row lock, so it is one action or an *)
(* operator used inside one.  lease_token is a fresh UUID per claim and    *)
(* every claim adds one to attempts, so the attempt number IS the token:   *)
(* two claims of a job never share it.  lease_until_ns and deadline_ns are *)
(* kept as the time left, so "<= now" reads "= 0".  created_ns orders      *)
(* claims only among jobs that are all claimable, and SKIP LOCKED breaks   *)
(* that order: a claim takes any of them.                                  *)
(***************************************************************************)
EXTENDS Integers, FiniteSets

CONSTANTS
    Jobs,         \* job_id, the checksum of tenant, kind and idempotency key
    MaxAttempts,  \* the 3 of Repository.claim
    Lease,        \* lease_seconds, in ticks
    Deadline      \* deadline_ns of a new job, in ticks

ASSUME JobAssumption ==
    /\ MaxAttempts \in Nat \ {0}
    /\ Lease \in Nat \ {0}
    /\ Deadline \in Nat \ {0}

VARIABLE job  \* the table, one row per job_id

JobStatus == {"ABSENT", "QUEUED", "RUNNING",
              "COMPLETED", "FAILED", "CANCELLED", "EXHAUSTED"}
Open == {"QUEUED", "RUNNING"}
Ended == {"COMPLETED", "FAILED", "CANCELLED", "EXHAUSTED"}

JobRow == [status : JobStatus, attempts : 0..MaxAttempts, lease : 0..Lease,
           left : 0..Deadline, cancel : BOOLEAN]

JobTypeOK == job \in [Jobs -> JobRow]

Absent == [status |-> "ABSENT", attempts |-> 0, lease |-> 0, left |-> 0, cancel |-> FALSE]
Queued == [Absent EXCEPT !.status = "QUEUED", !.left = Deadline]

InitJobs == job = [j \in Jobs |-> Absent]

(***************************************************************************)
(* Repository.assert_job_fence: only the latest claim, while it is         *)
(* running, not cancelled, and inside its lease and its deadline, may      *)
(* write.                                                                  *)
(***************************************************************************)
Fenced(j, token) ==
    /\ job[j].status = "RUNNING"
    /\ job[j].attempts = token
    /\ ~job[j].cancel
    /\ job[j].lease > 0
    /\ job[j].left > 0

\* Repository.enqueue: insert_once, so an existing row is left alone.
Enqueue(j) == job' = IF job[j].status = "ABSENT" THEN [job EXCEPT ![j] = Queued] ELSE job

(***************************************************************************)
(* Repository.claim.  It first ends every open row whose lease has run out *)
(* and that nobody may claim again, then hands one claimable row out.      *)
(***************************************************************************)
Lapsed(r) == r.status \in Open /\ r.lease = 0
UsedUp(r) == r.left = 0 \/ r.attempts >= MaxAttempts \/ r.cancel
\* Variant: a passed deadline does not end a row.
ClosedUnlessLate(r) ==
    IF Lapsed(r) /\ (r.attempts >= MaxAttempts \/ r.cancel)
    THEN [r EXCEPT !.status = IF r.cancel THEN "CANCELLED" ELSE "EXHAUSTED"]
    ELSE r

Closed(r) ==
    IF Lapsed(r) /\ UsedUp(r)
    THEN [r EXCEPT !.status = IF r.cancel THEN "CANCELLED" ELSE "EXHAUSTED"]
    ELSE r
Claimable(r) == Lapsed(r) /\ ~UsedUp(r)
Claimed(r) == [r EXCEPT !.status = "RUNNING", !.lease = Lease, !.attempts = @ + 1]

ClaimJob(j) ==
    /\ Claimable(job[j])
    /\ job' = [k \in Jobs |-> IF k = j THEN Claimed(job[k]) ELSE Closed(job[k])]

ClaimNothing ==
    /\ \A j \in Jobs : ~Claimable(job[j])
    /\ job' = [j \in Jobs |-> Closed(job[j])]

\* Repository.heartbeat: the fence again, and then a full lease.
Heartbeat(j, token) == Fenced(j, token) /\ job' = [job EXCEPT ![j].lease = Lease]

(***************************************************************************)
(* Repository.finish: a fence that a cancellation request does not close;  *)
(* the request turns the outcome into CANCELLED instead.                   *)
(***************************************************************************)
MayFinish(j, token) ==
    /\ job[j].status = "RUNNING"
    /\ job[j].attempts = token
    /\ job[j].lease > 0
    /\ job[j].left > 0

FinishJob(j, token, outcome) ==
    /\ MayFinish(j, token)
    /\ job' = [job EXCEPT ![j].status = IF job[j].cancel THEN "CANCELLED" ELSE outcome,
                          ![j].lease = 0]

\* Repository.cancel: a queued job ends at once, a running one is flagged.
CancelJob(j) ==
    /\ job[j].status \in Open
    /\ job' = [job EXCEPT ![j].cancel = TRUE,
                          ![j].status = IF @ = "QUEUED" THEN "CANCELLED" ELSE @]

\* A tick of the clock, for the rows whose lease or deadline still matters.
Down(n) == IF n = 0 THEN 0 ELSE n - 1
TickJobs ==
    /\ \E j \in Jobs : job[j].status \in Open /\ job[j].lease + job[j].left > 0
    /\ job' = [j \in Jobs |->
                  IF job[j].status \in Open
                  THEN [job[j] EXCEPT !.lease = Down(@), !.left = Down(@)]
                  ELSE job[j]]
=============================================================================
