-------------------------- MODULE ExperimentsProofs --------------------------
(***************************************************************************)
(* The safety properties of Experiments for every number of workers,       *)
(* trials, keys and attempts, every lease and every deadline.              *)
(***************************************************************************)
EXTENDS Experiments, TLAPS

-----------------------------------------------------------------------------
(***************************************************************************)
(* What every transaction of Repository does to the rows: they keep their  *)
(* type and none is deleted; only finish makes one COMPLETED.              *)
(***************************************************************************)
JobsKept ==
    /\ JobTypeOK'
    /\ \A j \in Jobs : job[j].status # "ABSENT" => job'[j].status # "ABSENT"
NoneCompleted == \A j \in Jobs : job'[j].status = "COMPLETED" => job[j].status = "COMPLETED"
NoneAdded == \A j \in Jobs : job'[j].status # "ABSENT" => job[j].status # "ABSENT"

LEMMA EnqueueKeepsJobs ==
    ASSUME JobTypeOK, NEW j \in Jobs, Enqueue(j)
    PROVE  /\ JobsKept /\ NoneCompleted
           /\ \A k \in Jobs \ {j} : job'[k] = job[k]
           /\ job'[j].status # "ABSENT"
PROOF
  <1>1. Queued \in JobRow /\ Queued.status = "QUEUED"
    <2>1. /\ 0 \in 0..MaxAttempts /\ 0 \in 0..Lease
          /\ Deadline \in 0..Deadline
      BY JobAssumption
    <2>2. Absent \in JobRow
      BY <2>1 DEF Absent, JobRow, JobStatus
    <2> QED
      BY <2>1, <2>2 DEF Queued, JobRow, JobStatus
  <1>2. job[j].status = "ABSENT" => job' = [job EXCEPT ![j] = Queued]
    BY DEF Enqueue
  <1>3. job[j].status # "ABSENT" => job' = job
    BY DEF Enqueue
  <1> QED
    BY <1>1, <1>2, <1>3 DEF JobTypeOK, JobsKept, NoneCompleted

\* Closing changes the status of an open row only, and completes none.
LEMMA ClosedRow ==
    ASSUME NEW r \in JobRow
    PROVE  /\ Closed(r) \in JobRow
           /\ Closed(r).status = "ABSENT" <=> r.status = "ABSENT"
           /\ Closed(r).status = "COMPLETED" => r.status = "COMPLETED"
PROOF
  <1>1. CASE Lapsed(r) /\ UsedUp(r)
    <2> DEFINE s == IF r.cancel THEN "CANCELLED" ELSE "EXHAUSTED"
    <2>1. Closed(r) = [r EXCEPT !.status = s]
      BY <1>1 DEF Closed
    <2>2. r.status # "ABSENT"
      BY <1>1 DEF Lapsed, Open
    <2>3. s \in {"CANCELLED", "EXHAUSTED"}
      OBVIOUS
    <2> HIDE DEF s
    <2> QED
      BY <2>1, <2>2, <2>3 DEF JobRow, JobStatus
  <1>2. CASE ~(Lapsed(r) /\ UsedUp(r))
    BY <1>2 DEF Closed
  <1> QED
    BY <1>1, <1>2

LEMMA ClaimedRow ==
    ASSUME NEW r \in JobRow, Claimable(r)
    PROVE  /\ Claimed(r) \in JobRow
           /\ Claimed(r).status = "RUNNING"
           /\ r.status # "ABSENT"
           /\ r.attempts + 1 \in 1..MaxAttempts
PROOF
  <1>1. r.attempts \in 0..MaxAttempts /\ r.attempts < MaxAttempts
    BY JobAssumption DEF JobRow, Claimable, UsedUp
  <1>2. r.attempts + 1 \in 1..MaxAttempts
    BY <1>1, JobAssumption
  <1>3. r.status # "ABSENT"
    BY DEF Claimable, Lapsed, Open
  <1>4. Claimed(r) = [r EXCEPT !.status = "RUNNING", !.lease = Lease,
                               !.attempts = r.attempts + 1]
    BY DEF Claimed
  <1>5. Lease \in 0..Lease /\ r.attempts + 1 \in 0..MaxAttempts
    BY <1>2, JobAssumption
  <1> QED
    BY <1>2, <1>3, <1>4, <1>5 DEF JobRow, JobStatus

LEMMA ClaimKeepsJobs ==
    ASSUME JobTypeOK, NEW j \in Jobs, ClaimJob(j)
    PROVE  /\ JobsKept /\ NoneCompleted /\ NoneAdded
           /\ job[j].attempts + 1 \in 1..MaxAttempts
           /\ job[j].status # "ABSENT"
PROOF
  <1>1. /\ Claimable(job[j])
        /\ job' = [k \in Jobs |-> IF k = j THEN Claimed(job[k]) ELSE Closed(job[k])]
    BY DEF ClaimJob
  <1>2. \A k \in Jobs : job[k] \in JobRow
    BY DEF JobTypeOK
  <1> QED
    BY <1>1, <1>2, ClosedRow, ClaimedRow DEF JobTypeOK, JobsKept, NoneCompleted, NoneAdded

LEMMA ClaimNothingKeepsJobs ==
    ASSUME JobTypeOK, ClaimNothing
    PROVE  JobsKept /\ NoneCompleted /\ NoneAdded
PROOF
  <1>1. job' = [k \in Jobs |-> Closed(job[k])]
    BY DEF ClaimNothing
  <1>2. \A k \in Jobs : job[k] \in JobRow
    BY DEF JobTypeOK
  <1> QED
    BY <1>1, <1>2, ClosedRow DEF JobTypeOK, JobsKept, NoneCompleted, NoneAdded

LEMMA HeartbeatKeepsJobs ==
    ASSUME JobTypeOK, NEW j \in Jobs, NEW token, Heartbeat(j, token)
    PROVE  JobsKept /\ NoneCompleted /\ NoneAdded
  BY JobAssumption
  DEF JobTypeOK, JobRow, JobStatus, Heartbeat, Fenced, JobsKept, NoneCompleted, NoneAdded

LEMMA FinishKeepsJobs ==
    ASSUME JobTypeOK, NEW j \in Jobs, NEW token, NEW outcome \in {"COMPLETED", "FAILED"},
           FinishJob(j, token, outcome)
    PROVE  /\ JobsKept /\ NoneAdded
           /\ \A k \in Jobs \ {j} : job'[k] = job[k]
           /\ outcome = "FAILED" => NoneCompleted
  BY JobAssumption
  DEF JobTypeOK, JobRow, JobStatus, FinishJob, MayFinish, JobsKept, NoneCompleted, NoneAdded

LEMMA CancelKeepsJobs ==
    ASSUME JobTypeOK, NEW j \in Jobs, CancelJob(j)
    PROVE  JobsKept /\ NoneCompleted /\ NoneAdded
  BY DEF JobTypeOK, JobRow, JobStatus, CancelJob, Open, JobsKept, NoneCompleted, NoneAdded

LEMMA TickKeepsJobs ==
    ASSUME JobTypeOK, TickJobs
    PROVE  JobsKept /\ NoneCompleted /\ NoneAdded
PROOF
  <1>1. \A b \in Nat : \A n \in 0..b : Down(n) \in 0..b
    BY DEF Down
  <1>2. \A j \in Jobs : job[j] \in JobRow
    BY DEF JobTypeOK
  <1>3. ASSUME NEW j \in Jobs
        PROVE  job'[j] \in JobRow /\ job'[j].status = job[j].status
    <2> DEFINE l == Down(job[j].lease)
               d == Down(job[j].left)
    <2>1. l \in 0..Lease /\ d \in 0..Deadline
      BY <1>1, <1>2, JobAssumption DEF JobRow
    <2>2. job'[j] = job[j] \/ job'[j] = [job[j] EXCEPT !.lease = l, !.left = d]
      BY DEF TickJobs
    <2> HIDE DEF l, d
    <2> QED
      BY <1>2, <2>1, <2>2 DEF JobRow
  <1>4. job' = [j \in Jobs |-> job'[j]]
    BY DEF TickJobs
  <1> QED
    BY <1>3, <1>4 DEF JobTypeOK, JobsKept, NoneCompleted, NoneAdded

-----------------------------------------------------------------------------
(* The inductive invariant.                                                *)

\* A job was requested for a registered trial, and a trial has one job only.
JobsRequested ==
    \A j \in Jobs :
        /\ job[j].status # "ABSENT" => request[j] \in Trials
        /\ request[j] \in Trials => trial[request[j]].status # "ABSENT"
OneJobPerTrial ==
    \A j, k \in Jobs :
        job[j].status # "ABSENT" /\ job[k].status # "ABSENT" /\ request[j] = request[k] => j = k

\* A worker past its claim has a job and a token, and it replays and finishes
\* only what has a result.
WorkersHaveTrials ==
    \A w \in Workers :
        /\ worker[w].pc \notin {"idle", "reconcile"} \/ worker[w].job # NoJob =>
              /\ worker[w].job \in Jobs
              /\ job[worker[w].job].status # "ABSENT"
              /\ worker[w].token # 0
        /\ worker[w].pc \in {"replay", "finish"} => result[request[worker[w].job]] # 0

\* ResultIffCompleted, and a verdict that names a result is a completed one.
VerdictsNameResults ==
    /\ ResultIffCompleted
    /\ \A t \in Trials : trial[t].verdict[1] = "result" => trial[t].status = "completed"

GrantedIsDecided == granted => \A t \in Trials : trial[t].status # "submitted"

ExpInv ==
    /\ TypeOK
    /\ JobsRequested
    /\ OneJobPerTrial
    /\ WorkersHaveTrials
    /\ VerdictsNameResults
    /\ CompletedJobHasResult
    /\ GrantedIsDecided

(***************************************************************************)
(* Before the first request nothing is registered and nobody works.        *)
(***************************************************************************)
LEMMA ExpInvInit == Init => ExpInv
PROOF
  <1> SUFFICES ASSUME Init PROVE ExpInv
    OBVIOUS
  <1> USE JobAssumption, ExperimentAssumption
  <1>1. TypeOK
    <2>1. 0 \in 0..MaxAttempts /\ 0 \in 0..Lease /\ 0 \in 0..Deadline
      OBVIOUS
    <2>2. Absent \in JobRow /\ Idle \in WorkerType
      BY <2>1 DEF Absent, JobRow, JobStatus, Idle, WorkerType, Steps
    <2>3. Unregistered \in [status : TrialStatus, verdict : Verdicts]
      BY DEF Unregistered, TrialStatus, Verdicts
    <2> QED
      BY <2>1, <2>2, <2>3 DEF Init, InitJobs, TypeOK, JobTypeOK
  <1>2. JobsRequested /\ OneJobPerTrial
    BY DEF Init, InitJobs, JobsRequested, OneJobPerTrial, Absent
  <1>3. WorkersHaveTrials
    BY DEF Init, WorkersHaveTrials, Idle
  <1>4. VerdictsNameResults /\ GrantedIsDecided
    BY DEF Init, VerdictsNameResults, ResultIffCompleted, Unregistered, GrantedIsDecided
  <1>5. CompletedJobHasResult
    BY DEF Init, InitJobs, CompletedJobHasResult, Absent
  <1> QED
    BY <1>1, <1>2, <1>3, <1>4, <1>5 DEF ExpInv

-----------------------------------------------------------------------------
(* Each action preserves the invariant.                                    *)

(***************************************************************************)
(* Cancellations, heartbeats and the clock touch nothing but the queue.    *)
(***************************************************************************)
LEMMA QueueStepKeepsExpInv ==
    ASSUME ExpInv, JobsKept, NoneCompleted, NoneAdded,
           UNCHANGED <<request, trial, result, granted, worker>>
    PROVE  ExpInv'
PROOF
  <1>1. TypeOK'
    BY DEF ExpInv, TypeOK, JobsKept
  <1>2. JobsRequested' /\ OneJobPerTrial'
    BY DEF ExpInv, JobsRequested, OneJobPerTrial, NoneAdded
  <1>3. WorkersHaveTrials'
    BY DEF ExpInv, WorkersHaveTrials, JobsKept
  <1>4. VerdictsNameResults' /\ GrantedIsDecided'
    BY DEF ExpInv, VerdictsNameResults, ResultIffCompleted, GrantedIsDecided
  <1>5. CompletedJobHasResult'
    BY DEF ExpInv, CompletedJobHasResult, NoneCompleted
  <1> QED
    BY <1>1, <1>2, <1>3, <1>4, <1>5 DEF ExpInv

LEMMA CancelKeepsExpInv ==
    ASSUME ExpInv, NEW j \in Cancellable, Cancel(j)
    PROVE  ExpInv'
  BY CancelKeepsJobs, QueueStepKeepsExpInv, ExperimentAssumption DEF ExpInv, TypeOK, Cancel

LEMMA TickKeepsExpInv ==
    ASSUME ExpInv, Tick
    PROVE  ExpInv'
  BY TickKeepsJobs, QueueStepKeepsExpInv DEF ExpInv, TypeOK, Tick

LEMMA RenewKeepsExpInv ==
    ASSUME ExpInv, NEW w \in Workers, Renew(w)
    PROVE  ExpInv'
PROOF
  <1>1. worker[w].job \in Jobs
    BY DEF ExpInv, WorkersHaveTrials, Renew, Working
  <1> QED
    BY <1>1, HeartbeatKeepsJobs, QueueStepKeepsExpInv DEF ExpInv, TypeOK, Renew

(***************************************************************************)
(* A claim gives the worker a job that was requested, under a new token.   *)
(***************************************************************************)
LEMMA ClaimKeepsExpInv ==
    ASSUME ExpInv, NEW w \in Workers, Claim(w)
    PROVE  ExpInv'
PROOF
  <1>1. JobTypeOK /\ worker[w] \in WorkerType
    BY DEF ExpInv, TypeOK
  <1>2. JobsKept /\ NoneCompleted /\ NoneAdded
    BY <1>1, ClaimKeepsJobs, ClaimNothingKeepsJobs DEF Claim
  <1>3. PICK m \in WorkerType :
           /\ worker' = [worker EXCEPT ![w] = m]
           /\ m.pc = "reconcile"
           /\ m.job # NoJob => /\ m.job \in Jobs /\ m.token # 0
                               /\ job[m.job].status # "ABSENT"
    <2>1. CASE \E j \in Jobs :
                 /\ ClaimJob(j)
                 /\ worker' = [worker EXCEPT ![w] = [Idle EXCEPT !.pc = "reconcile", !.job = j,
                                                        !.token = job[j].attempts + 1]]
      <3>1. PICK j \in Jobs :
                 /\ ClaimJob(j)
                 /\ worker' = [worker EXCEPT ![w] = [Idle EXCEPT !.pc = "reconcile", !.job = j,
                                                        !.token = job[j].attempts + 1]]
        BY <2>1
      <3>2. job[j].attempts + 1 \in 1..MaxAttempts /\ job[j].status # "ABSENT"
        BY <1>1, <3>1, ClaimKeepsJobs
      <3> DEFINE m == [Idle EXCEPT !.pc = "reconcile", !.job = j,
                                   !.token = job[j].attempts + 1]
      <3>3. Idle \in WorkerType
        BY JobAssumption DEF Idle, WorkerType, Steps
      <3>4. job[j].attempts + 1 \in 0..MaxAttempts /\ job[j].attempts + 1 # 0
        BY <3>2, JobAssumption
      <3>5. m \in WorkerType
        BY <3>3, <3>4 DEF WorkerType, Steps
      <3>6. m.pc = "reconcile" /\ m.job = j /\ m.token = job[j].attempts + 1
        BY <3>3 DEF WorkerType
      <3>7. worker' = [worker EXCEPT ![w] = m]
        BY <3>1
      <3> HIDE DEF m
      <3> QED
        BY <3>2, <3>4, <3>5, <3>6, <3>7
    <2>2. CASE Goto(w, "reconcile") /\ At(w, "idle")
      <3>1. [worker[w] EXCEPT !.pc = "reconcile"] \in WorkerType
        BY <1>1 DEF WorkerType, Steps
      <3>2. worker' = [worker EXCEPT ![w] = [worker[w] EXCEPT !.pc = "reconcile"]]
        BY <2>2 DEF Goto
      <3> DEFINE m == [worker[w] EXCEPT !.pc = "reconcile"]
      <3>3. m.job = worker[w].job /\ m.token = worker[w].token /\ m.pc = "reconcile"
        BY <1>1 DEF WorkerType
      <3>4. worker[w].job # NoJob => /\ worker[w].job \in Jobs /\ worker[w].token # 0
                                     /\ job[worker[w].job].status # "ABSENT"
        BY DEF ExpInv, WorkersHaveTrials
      <3> HIDE DEF m
      <3> QED
        BY <3>1, <3>2, <3>3, <3>4 DEF m
    <2> QED
      BY <2>1, <2>2 DEF Claim
  <1>4. UNCHANGED <<request, trial, result, granted>>
    BY DEF Claim
  <1>5. TypeOK'
    BY <1>2, <1>3, <1>4 DEF ExpInv, TypeOK, JobsKept
  <1>6. JobsRequested' /\ OneJobPerTrial'
    BY <1>2, <1>4 DEF ExpInv, JobsRequested, OneJobPerTrial, NoneAdded
  <1>7. WorkersHaveTrials'
    BY <1>2, <1>3, <1>4 DEF ExpInv, TypeOK, WorkersHaveTrials, JobsKept
  <1>8. VerdictsNameResults' /\ GrantedIsDecided'
    BY <1>4 DEF ExpInv, VerdictsNameResults, ResultIffCompleted, GrantedIsDecided
  <1>9. CompletedJobHasResult'
    BY <1>2, <1>4 DEF ExpInv, CompletedJobHasResult, NoneCompleted
  <1> QED
    BY <1>5, <1>6, <1>7, <1>8, <1>9 DEF ExpInv

(***************************************************************************)
(* The memory of one worker changes: it is idle again, or at another step  *)
(* of the same run, and a replay or the end of a run needs a result.       *)
(***************************************************************************)
MovesTo(w, m) ==
    /\ worker' = [worker EXCEPT ![w] = m]
    /\ m \in WorkerType
    /\ \/ m.job = NoJob /\ m.pc \in {"idle", "reconcile"}
       \/ /\ m.job = worker[w].job /\ m.job \in Jobs /\ m.token = worker[w].token
          /\ m.pc \in {"replay", "finish"} => result'[request[m.job]] # 0

LEMMA GotoMoves ==
    ASSUME ExpInv, NEW w \in Workers, NEW pc \in Steps, Goto(w, pc), worker[w].job \in Jobs,
           pc \in {"replay", "finish"} => result'[MyTrial(w)] # 0
    PROVE  \E m : MovesTo(w, m)
PROOF
  <1> DEFINE m == [worker[w] EXCEPT !.pc = pc]
  <1>1. worker[w] \in WorkerType
    BY DEF ExpInv, TypeOK
  <1>2. m \in WorkerType /\ m.job = worker[w].job /\ m.token = worker[w].token /\ m.pc = pc
    BY <1>1 DEF WorkerType
  <1>3. worker' = [worker EXCEPT ![w] = m]
    BY DEF Goto
  <1> HIDE DEF m
  <1>4. MovesTo(w, m)
    BY <1>2, <1>3 DEF MovesTo, MyTrial
  <1> QED
    BY <1>4

LEMMA ReturnMoves ==
    ASSUME ExpInv, NEW w \in Workers, Return(w)
    PROVE  \E m : MovesTo(w, m)
PROOF
  <1>1. Idle \in WorkerType /\ Idle.job = NoJob /\ Idle.pc = "idle"
    BY JobAssumption DEF Idle, WorkerType, Steps
  <1>2. MovesTo(w, Idle)
    BY <1>1 DEF MovesTo, Return
  <1> QED
    BY <1>2

LEMMA MovedWorkersHaveTrials ==
    ASSUME ExpInv, NEW w \in Workers, NEW m, MovesTo(w, m),
           \A j \in Jobs : job[j].status # "ABSENT" => job'[j].status # "ABSENT",
           \A t \in Trials : result[t] # 0 => result'[t] # 0,
           UNCHANGED request
    PROVE  WorkersHaveTrials' /\ worker' \in [Workers -> WorkerType]
PROOF
  <1>1. worker \in [Workers -> WorkerType]
    BY DEF ExpInv, TypeOK
  <1>2. worker' \in [Workers -> WorkerType]
    BY <1>1 DEF MovesTo
  <1>3. ASSUME NEW v \in Workers
        PROVE  /\ worker'[v].pc \notin {"idle", "reconcile"} \/ worker'[v].job # NoJob =>
                     /\ worker'[v].job \in Jobs
                     /\ job'[worker'[v].job].status # "ABSENT"
                     /\ worker'[v].token # 0
               /\ worker'[v].pc \in {"replay", "finish"} =>
                     result'[request'[worker'[v].job]] # 0
    <2>1. CASE v # w
      <3>1. worker'[v] = worker[v]
        BY <1>1, <2>1 DEF MovesTo
      <3>2. worker[v].pc \in {"replay", "finish"} => request[worker[v].job] \in Trials
        BY DEF ExpInv, WorkersHaveTrials, JobsRequested
      <3> QED
        BY <3>1, <3>2 DEF ExpInv, WorkersHaveTrials
    <2>2. CASE v = w
      <3>1. worker'[w] = m
        BY <1>1 DEF MovesTo
      <3>2. worker[w].job \in Jobs => worker[w].job # NoJob
        BY ExperimentAssumption
      <3> QED
        BY <2>2, <3>1, <3>2 DEF ExpInv, WorkersHaveTrials, MovesTo
    <2> QED
      BY <2>1, <2>2
  <1> QED
    BY <1>2, <1>3 DEF WorkersHaveTrials

\* Steps that change the worker's memory only.
LEMMA WorkerOnlyKeepsExpInv ==
    ASSUME ExpInv, NEW w \in Workers, \E m : MovesTo(w, m),
           UNCHANGED <<job, request, trial, result, granted>>
    PROVE  ExpInv'
PROOF
  <1>1. PICK m : MovesTo(w, m)
    OBVIOUS
  <1>2. WorkersHaveTrials' /\ worker' \in [Workers -> WorkerType]
    BY <1>1, MovedWorkersHaveTrials
  <1>3. TypeOK'
    BY <1>2 DEF ExpInv, TypeOK, JobTypeOK
  <1>4. JobsRequested' /\ OneJobPerTrial' /\ VerdictsNameResults'
    BY DEF ExpInv, JobsRequested, OneJobPerTrial, VerdictsNameResults, ResultIffCompleted
  <1>5. CompletedJobHasResult' /\ GrantedIsDecided'
    BY DEF ExpInv, CompletedJobHasResult, GrantedIsDecided
  <1> QED
    BY <1>2, <1>3, <1>4, <1>5 DEF ExpInv

LEMMA RunningHasTrial ==
    ASSUME ExpInv, NEW w \in Workers, worker[w].pc \notin {"idle", "reconcile"} \/ HasTrial(w)
    PROVE  /\ worker[w].job \in Jobs /\ MyTrial(w) \in Trials
           /\ job[worker[w].job].status # "ABSENT"
           /\ worker[w].token \in 1..MaxAttempts
PROOF
  <1>1. worker[w].job \in Jobs => worker[w].job # NoJob
    BY ExperimentAssumption
  <1>2. worker[w].job \in Jobs /\ job[worker[w].job].status # "ABSENT" /\ worker[w].token # 0
    BY <1>1 DEF ExpInv, WorkersHaveTrials, HasTrial
  <1>3. worker[w].token \in 0..MaxAttempts
    BY DEF ExpInv, TypeOK, WorkerType
  <1> QED
    BY <1>2, <1>3, JobAssumption DEF ExpInv, JobsRequested, MyTrial

LEMMA BeginKeepsExpInv ==
    ASSUME ExpInv, NEW w \in Workers, Begin(w)
    PROVE  ExpInv'
PROOF
  <1>1. worker[w].job \in Jobs
    BY RunningHasTrial DEF Begin, At
  <1>2. PICK pc \in {"replay", "compute"} :
           Goto(w, pc) /\ (pc = "replay" => result[MyTrial(w)] # 0)
    BY DEF Begin
  <1>3. \E m : MovesTo(w, m)
    BY <1>1, <1>2, GotoMoves DEF Begin, Steps
  <1> QED
    BY <1>3, WorkerOnlyKeepsExpInv DEF Begin

LEMMA RaiseKeepsExpInv ==
    ASSUME ExpInv, NEW w \in Workers, Raise(w)
    PROVE  ExpInv'
PROOF
  <1>1. worker[w].job \in Jobs
    BY RunningHasTrial DEF Raise, Working
  <1>2. \E m : MovesTo(w, m)
    BY <1>1, GotoMoves DEF Raise, Steps
  <1> QED
    BY <1>2, WorkerOnlyKeepsExpInv DEF Raise

LEMMA CrashKeepsExpInv ==
    ASSUME ExpInv, NEW w \in Workers, Crash(w)
    PROVE  ExpInv'
  BY ReturnMoves, WorkerOnlyKeepsExpInv DEF Crash

(***************************************************************************)
(* create_experiment registers an absent trial only while the holdout is   *)
(* closed, and enqueues a job only for a trial that has none.              *)
(***************************************************************************)
LEMMA RequestKeepsExpInv ==
    ASSUME ExpInv, NEW t \in Trials, NEW j \in Jobs, Request(t, j)
    PROVE  ExpInv'
PROOF
  <1>1. TypeOK
    BY DEF ExpInv
  <1>2. /\ request' = [request EXCEPT ![j] = t]
        /\ request[j] \in {NoTrial, t}
        /\ UNCHANGED <<result, granted, worker>>
    BY DEF Request
  <1>3. JobsKept /\ NoneCompleted
        /\ \A k \in Jobs : job'[k].status # "ABSENT" =>
              job[k].status # "ABSENT" \/ (k = j /\ JobsOf(t) = {})
    <2>1. CASE JobsOf(t) # {}
      BY <1>1, <2>1 DEF Request, JobsKept, NoneCompleted, TypeOK, JobTypeOK
    <2>2. CASE JobsOf(t) = {}
      BY <1>1, <2>2, EnqueueKeepsJobs DEF Request, TypeOK
    <2> QED
      BY <2>1, <2>2
  <1>4. \A k \in Jobs : job[k].status # "ABSENT" => request'[k] = request[k]
    BY <1>1, <1>2, ExperimentAssumption DEF ExpInv, JobsRequested, TypeOK
  <1>5. \/ trial' = trial /\ trial[t].status # "ABSENT"
        \/ /\ trial' = [trial EXCEPT ![t] = Submitted]
           /\ trial[t].status = "ABSENT" /\ ~granted
    BY DEF Request, MayRegister
  <1>6. Submitted \in [status : TrialStatus, verdict : Verdicts]
        /\ Submitted.status = "submitted" /\ Submitted.verdict[1] = "none"
    BY DEF Submitted, TrialStatus, Verdicts
  <1>7. TypeOK'
    BY <1>1, <1>2, <1>3, <1>5, <1>6 DEF TypeOK, JobsKept
  <1>8. \A u \in Trials : trial[u].status # "ABSENT" => trial'[u] = trial[u]
    BY <1>1, <1>5 DEF TypeOK
  <1>9. trial'[t].status # "ABSENT"
    BY <1>1, <1>5, <1>6 DEF TypeOK
  <1>10. JobsRequested'
    BY <1>1, <1>2, <1>3, <1>4, <1>8, <1>9, ExperimentAssumption
    DEF ExpInv, JobsRequested, TypeOK
  <1>11. OneJobPerTrial'
    <2> SUFFICES ASSUME NEW k \in Jobs, NEW l \in Jobs,
                        job'[k].status # "ABSENT", job'[l].status # "ABSENT",
                        request'[k] = request'[l]
                 PROVE  k = l
      BY DEF OneJobPerTrial
    <2>1. CASE job[k].status # "ABSENT" /\ job[l].status # "ABSENT"
      BY <2>1, <1>4 DEF ExpInv, OneJobPerTrial
    <2>2. CASE JobsOf(t) = {}
      <3>1. \A i \in Jobs : job[i].status # "ABSENT" => request[i] # t
        BY <2>2 DEF JobsOf
      <3>2. request'[j] = t
        BY <1>1, <1>2 DEF TypeOK
      <3> QED
        BY <1>3, <1>4, <3>1, <3>2 DEF ExpInv, OneJobPerTrial
    <2> QED
      BY <1>3, <2>1, <2>2
  <1>12. WorkersHaveTrials'
    <2>1. \A v \in Workers : worker[v].pc \in {"replay", "finish"} =>
             worker[v].job \in Jobs /\ job[worker[v].job].status # "ABSENT"
      BY DEF ExpInv, WorkersHaveTrials
    <2> QED
      BY <1>2, <1>3, <1>4, <2>1 DEF ExpInv, WorkersHaveTrials, JobsKept
  <1>13. VerdictsNameResults'
    BY <1>1, <1>2, <1>5, <1>6
    DEF ExpInv, VerdictsNameResults, ResultIffCompleted, TypeOK
  <1>14. CompletedJobHasResult'
    <2>1. \A k \in Jobs : job'[k].status = "COMPLETED" =>
             job[k].status = "COMPLETED" /\ request'[k] = request[k]
      BY <1>3, <1>4 DEF NoneCompleted
    <2> QED
      BY <1>2, <2>1 DEF ExpInv, CompletedJobHasResult
  <1>15. GrantedIsDecided'
    BY <1>1, <1>2, <1>5 DEF ExpInv, GrantedIsDecided
  <1> QED
    BY <1>7, <1>10, <1>11, <1>12, <1>13, <1>14, <1>15 DEF ExpInv

\* The holdout is opened over decided trials.
LEMMA UnlockKeepsExpInv ==
    ASSUME ExpInv, Unlock
    PROVE  ExpInv'
PROOF
  <1>1. TypeOK'
    BY DEF ExpInv, Unlock, TypeOK, JobTypeOK
  <1>2. JobsRequested' /\ OneJobPerTrial' /\ WorkersHaveTrials'
    BY DEF ExpInv, Unlock, JobsRequested, OneJobPerTrial, WorkersHaveTrials
  <1>3. VerdictsNameResults' /\ CompletedJobHasResult'
    BY DEF ExpInv, Unlock, VerdictsNameResults, ResultIffCompleted, CompletedJobHasResult
  <1>4. GrantedIsDecided'
    BY DEF Unlock, GrantedIsDecided, Registered
  <1> QED
    BY <1>1, <1>2, <1>3, <1>4 DEF ExpInv

(***************************************************************************)
(* What a transaction of the registry does: decided trials and results     *)
(* that are there stay as they are, and no trial is unregistered.          *)
(***************************************************************************)
DecidedKept ==
    /\ trial' \in [Trials -> [status : TrialStatus, verdict : Verdicts]]
    /\ result' \in [Trials -> 0..MaxAttempts]
    /\ \A t \in Trials :
          /\ trial[t].status # "submitted" => trial'[t] = trial[t]
          /\ trial'[t].status = "ABSENT" => trial[t].status = "ABSENT"
          /\ result[t] # 0 => result'[t] = result[t]

LEMMA RegistryStepKeepsExpInv ==
    ASSUME ExpInv, NEW w \in Workers, \E m : MovesTo(w, m),
           DecidedKept, VerdictsNameResults', UNCHANGED <<job, request, granted>>
    PROVE  ExpInv'
PROOF
  <1>1. PICK m : MovesTo(w, m)
    OBVIOUS
  <1>2. WorkersHaveTrials' /\ worker' \in [Workers -> WorkerType]
    BY <1>1, MovedWorkersHaveTrials DEF DecidedKept
  <1>3. TypeOK'
    BY <1>2 DEF ExpInv, TypeOK, JobTypeOK, DecidedKept
  <1>4. JobsRequested' /\ OneJobPerTrial'
    BY DEF ExpInv, JobsRequested, OneJobPerTrial, DecidedKept
  <1>5. CompletedJobHasResult' /\ GrantedIsDecided'
    BY DEF ExpInv, CompletedJobHasResult, GrantedIsDecided, DecidedKept
  <1> QED
    BY <1>2, <1>3, <1>4, <1>5 DEF ExpInv

\* finish_trial with a verdict that names no result, of a trial without one.
LEMMA ReconcileKeepsExpInv ==
    ASSUME ExpInv, NEW w \in Workers, Reconcile(w)
    PROVE  ExpInv'
PROOF
  <1> DEFINE q(t) == QueueVerdict(CHOOSE j \in Abandoned(t) : TRUE)
  <1>1. \A t \in Trials : trial'[t] = IF Abandoned(t) = {} THEN trial[t] ELSE q(t)
    BY DEF Reconcile
  <1>2. ASSUME NEW t \in Trials, Abandoned(t) # {}
        PROVE  /\ trial[t].status = "submitted"
               /\ q(t) \in [status : TrialStatus, verdict : Verdicts]
               /\ q(t).status \in {"failed", "aborted"} /\ q(t).verdict[1] = "queue"
    <2> DEFINE j == CHOOSE j \in Abandoned(t) : TRUE
    <2>1. j \in Abandoned(t)
      BY <1>2
    <2>2. j \in Jobs /\ trial[t].status = "submitted"
      BY <2>1 DEF Abandoned, JobsOf
    <2>3. job[j].attempts \in 0..MaxAttempts
      BY <2>2 DEF ExpInv, TypeOK, JobTypeOK, JobRow
    <2> HIDE DEF j
    <2>4. /\ QueueVerdict(j) \in [status : TrialStatus, verdict : Verdicts]
          /\ QueueVerdict(j).status \in {"failed", "aborted"}
          /\ QueueVerdict(j).verdict[1] = "queue"
      BY <2>3 DEF QueueVerdict, Decided, TrialStatus, Verdicts
    <2> QED
      BY <2>2, <2>4 DEF j
  <1> HIDE DEF q
  <1>3. DecidedKept
    <2>1. trial' = [t \in Trials |-> trial'[t]]
      BY DEF Reconcile
    <2> QED
      BY <1>1, <1>2, <2>1 DEF Reconcile, ExpInv, TypeOK, DecidedKept
  <1>4. VerdictsNameResults'
    BY <1>1, <1>2
    DEF Reconcile, ExpInv, TypeOK, VerdictsNameResults, ResultIffCompleted
  <1>5. \E m : MovesTo(w, m)
    BY GotoMoves, ReturnMoves DEF Reconcile, HasTrial, Steps
  <1> QED
    BY <1>3, <1>4, <1>5, RegistryStepKeepsExpInv DEF Reconcile

\* A decided trial accepts the verdict it has only.
LEMMA FinishTrialDecides ==
    ASSUME ExpInv, NEW t \in Trials, NEW status \in TrialStatus \ {"ABSENT", "submitted"},
           NEW verdict \in Verdicts, FinishTrial(t, status, verdict)
    PROVE  /\ trial' \in [Trials -> [status : TrialStatus, verdict : Verdicts]]
           /\ \A u \in Trials \ {t} : trial'[u] = trial[u]
           /\ \/ /\ trial[t].status = "submitted"
                 /\ trial'[t] = [status |-> status, verdict |-> verdict]
              \/ /\ trial[t].status # "submitted" /\ trial[t].verdict = verdict
                 /\ trial' = trial
  BY DEF ExpInv, TypeOK, FinishTrial, Finishable, Decided

LEMMA ReplayKeepsExpInv ==
    ASSUME ExpInv, NEW w \in Workers, Replay(w)
    PROVE  ExpInv'
PROOF
  <1> DEFINE t == MyTrial(w)
             verdict == <<"result", result[t]>>
  <1>1. worker[w].job \in Jobs /\ t \in Trials
    BY RunningHasTrial DEF Replay, At
  <1>2. result[t] # 0 /\ result[t] \in 0..MaxAttempts
    BY <1>1 DEF Replay, At, ExpInv, WorkersHaveTrials, TypeOK, MyTrial
  <1>3. verdict \in Verdicts
    BY <1>2 DEF Verdicts
  <1>4. trial[t].status = "completed" /\ trial[t].verdict = verdict
    BY <1>1, <1>2 DEF ExpInv, VerdictsNameResults, ResultIffCompleted
  <1>5. trial' = trial
    BY <1>4 DEF Replay, FinishTrial
  <1>6. \E m : MovesTo(w, m)
    BY <1>1, <1>2, GotoMoves DEF Replay, Steps
  <1> QED
    BY <1>5, <1>6, WorkerOnlyKeepsExpInv DEF Replay

\* The result and the verdict that names it appear in one transaction.
LEMMA CommitKeepsExpInv ==
    ASSUME ExpInv, NEW w \in Workers, Commit(w)
    PROVE  ExpInv'
PROOF
  <1> DEFINE t == MyTrial(w)
             n == worker[w].token
             verdict == <<"result", n>>
  <1>1. worker[w].job \in Jobs /\ t \in Trials /\ n \in 1..MaxAttempts
    BY RunningHasTrial DEF Commit, At
  <1>2. CASE /\ result[t] \in {0, n} /\ FinishTrial(t, "completed", verdict)
             /\ result' = [result EXCEPT ![t] = n] /\ Goto(w, "finish")
    <2>1. verdict \in Verdicts
      BY <1>1, JobAssumption DEF Verdicts
    <2>2. /\ trial' \in [Trials -> [status : TrialStatus, verdict : Verdicts]]
          /\ \A u \in Trials \ {t} : trial'[u] = trial[u]
          /\ \/ /\ trial[t].status = "submitted"
                /\ trial'[t] = [status |-> "completed", verdict |-> verdict]
             \/ /\ trial[t].status # "submitted" /\ trial[t].verdict = verdict
                /\ trial' = trial
      BY <1>1, <1>2, <2>1, FinishTrialDecides DEF TrialStatus
    <2>3. /\ result' \in [Trials -> 0..MaxAttempts]
          /\ result'[t] = n /\ n # 0
          /\ \A u \in Trials \ {t} : result'[u] = result[u]
      BY <1>1, <1>2, JobAssumption DEF ExpInv, TypeOK
    <2>4. trial[t].status # "submitted" => trial[t].status = "completed"
      BY <1>1, <2>2 DEF ExpInv, VerdictsNameResults
    <2>5. DecidedKept
      BY <1>1, <1>2, <2>2, <2>3 DEF DecidedKept
    <2>6. VerdictsNameResults'
      BY <1>1, <2>2, <2>3, <2>4 DEF ExpInv, VerdictsNameResults, ResultIffCompleted
    <2>7. \E m : MovesTo(w, m)
      BY <1>1, <1>2, <2>3, GotoMoves DEF Steps
    <2> QED
      BY <2>5, <2>6, <2>7, RegistryStepKeepsExpInv DEF Commit
  <1>3. CASE Goto(w, "error") /\ UNCHANGED <<trial, result>>
    <2>1. \E m : MovesTo(w, m)
      BY <1>1, <1>3, GotoMoves DEF Steps
    <2> QED
      BY <1>3, <2>1, WorkerOnlyKeepsExpInv DEF Commit
  <1> QED
    BY <1>2, <1>3 DEF Commit

LEMMA FailTrialKeepsExpInv ==
    ASSUME ExpInv, NEW w \in Workers, FailTrial(w)
    PROVE  ExpInv'
PROOF
  <1> DEFINE t == MyTrial(w)
  <1>1. worker[w].job \in Jobs /\ t \in Trials
    BY RunningHasTrial DEF FailTrial, At
  <1>2. \E m : MovesTo(w, m)
    BY <1>1, GotoMoves DEF FailTrial, Steps
  <1>3. CASE FinishTrial(t, "failed", <<"error", 0>>)
    <2>1. <<"error", 0>> \in Verdicts
      BY DEF Verdicts
    <2>2. /\ trial' \in [Trials -> [status : TrialStatus, verdict : Verdicts]]
          /\ \A u \in Trials \ {t} : trial'[u] = trial[u]
          /\ \/ /\ trial[t].status = "submitted"
                /\ trial'[t] = [status |-> "failed", verdict |-> <<"error", 0>>]
             \/ trial' = trial
      BY <1>1, <1>3, <2>1, FinishTrialDecides DEF TrialStatus
    <2>3. DecidedKept
      BY <1>1, <2>2 DEF FailTrial, ExpInv, TypeOK, DecidedKept
    <2>4. VerdictsNameResults'
      BY <1>1, <2>2 DEF FailTrial, ExpInv, VerdictsNameResults, ResultIffCompleted
    <2> QED
      BY <1>2, <2>3, <2>4, RegistryStepKeepsExpInv DEF FailTrial
  <1>4. CASE UNCHANGED trial
    BY <1>2, <1>4, WorkerOnlyKeepsExpInv DEF FailTrial
  <1> QED
    BY <1>3, <1>4 DEF FailTrial

(***************************************************************************)
(* run_once ends the job: COMPLETED after a result, FAILED by the handler. *)
(***************************************************************************)
LEMMA EndJobKeepsExpInv ==
    ASSUME ExpInv, NEW w \in Workers, worker[w].job \in Jobs,
           NEW outcome \in {"COMPLETED", "FAILED"},
           outcome = "COMPLETED" => worker[w].pc = "finish",
           FinishJob(worker[w].job, worker[w].token, outcome),
           \E m : MovesTo(w, m), UNCHANGED <<request, trial, result, granted>>
    PROVE  ExpInv'
PROOF
  <1> DEFINE j == worker[w].job
  <1>1. JobsKept /\ NoneAdded /\ (\A k \in Jobs \ {j} : job'[k] = job[k])
        /\ (outcome = "FAILED" => NoneCompleted)
    BY FinishKeepsJobs DEF ExpInv, TypeOK
  <1>2. PICK m : MovesTo(w, m)
    OBVIOUS
  <1>3. WorkersHaveTrials' /\ worker' \in [Workers -> WorkerType]
    BY <1>1, <1>2, MovedWorkersHaveTrials DEF JobsKept
  <1>4. TypeOK'
    BY <1>1, <1>3 DEF ExpInv, TypeOK, JobsKept
  <1>5. JobsRequested' /\ OneJobPerTrial'
    BY <1>1 DEF ExpInv, JobsRequested, OneJobPerTrial, NoneAdded
  <1>6. VerdictsNameResults' /\ GrantedIsDecided'
    BY DEF ExpInv, VerdictsNameResults, ResultIffCompleted, GrantedIsDecided
  <1>7. outcome = "COMPLETED" => request[j] \in Trials /\ result[request[j]] # 0
    BY DEF ExpInv, WorkersHaveTrials, JobsRequested
  <1>8. CompletedJobHasResult'
    BY <1>1, <1>7 DEF ExpInv, CompletedJobHasResult, NoneCompleted
  <1> QED
    BY <1>3, <1>4, <1>5, <1>6, <1>8 DEF ExpInv

LEMMA FinishKeepsExpInv ==
    ASSUME ExpInv, NEW w \in Workers, Finish(w)
    PROVE  ExpInv'
PROOF
  <1>1. worker[w].job \in Jobs
    BY RunningHasTrial DEF Finish, At
  <1>2. \E m : MovesTo(w, m)
    BY <1>1, GotoMoves, ReturnMoves DEF Finish, Steps
  <1> QED
    BY <1>1, <1>2, EndJobKeepsExpInv, WorkerOnlyKeepsExpInv DEF Finish, At

LEMMA FailJobKeepsExpInv ==
    ASSUME ExpInv, NEW w \in Workers, FailJob(w)
    PROVE  ExpInv'
PROOF
  <1>1. worker[w].job \in Jobs
    BY RunningHasTrial DEF FailJob, EndAfterError, At
  <1>2. \E m : MovesTo(w, m)
    <2> DEFINE m == [Idle EXCEPT !.pc = "reconcile"]
    <2>1. Idle \in WorkerType /\ Idle.job = NoJob
      BY JobAssumption DEF Idle, WorkerType, Steps
    <2>2. m \in WorkerType /\ m.job = NoJob /\ m.pc = "reconcile"
      BY <2>1 DEF WorkerType, Steps
    <2>3. CASE worker' = [worker EXCEPT ![w] = m]
      BY <2>2, <2>3 DEF MovesTo
    <2>4. CASE Return(w)
      BY <2>4, ReturnMoves
    <2> QED
      BY <2>3, <2>4 DEF FailJob, EndAfterError
  <1> QED
    BY <1>1, <1>2, EndJobKeepsExpInv, WorkerOnlyKeepsExpInv DEF FailJob, EndAfterError

-----------------------------------------------------------------------------
(***************************************************************************)
(* The invariant is inductive.                                             *)
(***************************************************************************)
LEMMA ExpInvNext ==
    ASSUME ExpInv, [Next]_vars
    PROVE  ExpInv'
PROOF
  <1>1. CASE \E r \in Requests : Request(r[1], r[2])
    <2>1. PICK r \in Requests : Request(r[1], r[2])
      BY <1>1
    <2>2. r[1] \in Trials /\ r[2] \in Jobs
      BY ExperimentAssumption
    <2> QED
      BY <2>1, <2>2, RequestKeepsExpInv
  <1>2. CASE \E j \in Cancellable : Cancel(j)
    BY <1>2, CancelKeepsExpInv
  <1>3. CASE Unlock
    BY <1>3, UnlockKeepsExpInv
  <1>4. CASE Tick
    BY <1>4, TickKeepsExpInv
  <1>5. CASE \E w \in Workers : WorkerStep(w) \/ Raise(w) \/ Crash(w) \/ Renew(w)
    BY <1>5, ClaimKeepsExpInv, ReconcileKeepsExpInv, BeginKeepsExpInv, ReplayKeepsExpInv,
       CommitKeepsExpInv, FinishKeepsExpInv, FailTrialKeepsExpInv, FailJobKeepsExpInv,
       RaiseKeepsExpInv, CrashKeepsExpInv, RenewKeepsExpInv
    DEF WorkerStep
  <1>6. CASE UNCHANGED vars
    <2>1. TypeOK' /\ JobsRequested' /\ OneJobPerTrial' /\ WorkersHaveTrials'
      BY <1>6 DEF vars, ExpInv, TypeOK, JobTypeOK, JobsRequested, OneJobPerTrial,
                  WorkersHaveTrials
    <2>2. VerdictsNameResults' /\ CompletedJobHasResult' /\ GrantedIsDecided'
      BY <1>6 DEF vars, ExpInv, VerdictsNameResults, ResultIffCompleted,
                  CompletedJobHasResult, GrantedIsDecided
    <2> QED
      BY <2>1, <2>2 DEF ExpInv
  <1> QED
    BY <1>1, <1>2, <1>3, <1>4, <1>5, <1>6 DEF Next

LEMMA ExpInvAlways == Spec => []ExpInv
  BY ExpInvInit, ExpInvNext, PTL DEF Spec

(***************************************************************************)
(* Type correctness: the attempt counter stays within MaxAttempts however  *)
(* often workers crash and claim again.                                    *)
(***************************************************************************)
THEOREM TypeCorrect == Spec => []TypeOK
PROOF
  <1>1. ExpInv => TypeOK
    BY DEF ExpInv
  <1> QED
    BY <1>1, ExpInvAlways, PTL

(***************************************************************************)
(* A trial is completed exactly when its result is stored, and it names    *)
(* that result.                                                            *)
(***************************************************************************)
THEOREM ResultsAreNamed == Spec => []ResultIffCompleted
PROOF
  <1>1. ExpInv => ResultIffCompleted
    BY DEF ExpInv, VerdictsNameResults
  <1> QED
    BY <1>1, ExpInvAlways, PTL

(***************************************************************************)
(* A COMPLETED job has a published result.                                 *)
(***************************************************************************)
THEOREM CompletedJobsHaveResults == Spec => []CompletedJobHasResult
PROOF
  <1>1. ExpInv => CompletedJobHasResult
    BY DEF ExpInv
  <1> QED
    BY <1>1, ExpInvAlways, PTL

-----------------------------------------------------------------------------
(* What a step may never do.                                               *)

(***************************************************************************)
(* With an open holdout no transaction of the registry finds anything      *)
(* left to decide.                                                         *)
(***************************************************************************)
LEMMA FrozenStep ==
    ASSUME ExpInv, granted, Next
    PROVE  UNCHANGED <<trial, result, granted>>
PROOF
  <1>1. \A t \in Trials : trial[t].status # "submitted"
    BY DEF ExpInv, GrantedIsDecided
  <1>2. ASSUME NEW t \in Trials, NEW j \in Jobs, Request(t, j)
        PROVE  UNCHANGED <<trial, result, granted>>
    BY <1>2 DEF Request, MayRegister
  <1>3. ASSUME NEW w \in Workers, WorkerStep(w)
        PROVE  UNCHANGED <<trial, result, granted>>
    <2>1. CASE Reconcile(w)
      <3>1. \A t \in Trials : Abandoned(t) = {}
        BY <1>1 DEF Abandoned
      <3>2. trial' = [t \in Trials |-> trial[t]]
        BY <2>1, <3>1 DEF Reconcile
      <3> QED
        BY <2>1, <3>2 DEF ExpInv, TypeOK, Reconcile
    <2>2. CASE Replay(w)
      <3>1. MyTrial(w) \in Trials
        BY <2>2, RunningHasTrial DEF Replay, At
      <3> QED
        BY <1>1, <2>2, <3>1 DEF Replay, FinishTrial
    <2>3. CASE Commit(w)
      <3> DEFINE t == MyTrial(w)
                 n == worker[w].token
      <3>1. t \in Trials /\ n \in 1..MaxAttempts
        BY <2>3, RunningHasTrial DEF Commit, At
      <3>2. CASE /\ result[t] \in {0, n} /\ FinishTrial(t, "completed", <<"result", n>>)
                 /\ result' = [result EXCEPT ![t] = n]
        <4>1. trial' = trial /\ trial[t].verdict = <<"result", n>>
          BY <1>1, <3>1, <3>2 DEF FinishTrial, Finishable
        <4>2. trial[t].status = "completed"
          BY <3>1, <4>1 DEF ExpInv, VerdictsNameResults
        <4>3. result[t] = n
          BY <3>1, <3>2, <4>2 DEF ExpInv, VerdictsNameResults, ResultIffCompleted
        <4> QED
          BY <2>3, <3>1, <3>2, <4>1, <4>3 DEF ExpInv, TypeOK, Commit
      <3> QED
        BY <2>3, <3>2 DEF Commit
    <2>4. CASE FailTrial(w)
      <3>1. MyTrial(w) \in Trials
        BY <2>4, RunningHasTrial DEF FailTrial, At
      <3> QED
        BY <1>1, <2>4, <3>1 DEF FailTrial, FinishTrial
    <2>5. CASE Claim(w) \/ Begin(w) \/ Finish(w) \/ FailJob(w)
      BY <2>5 DEF Claim, Begin, Finish, FailJob, EndAfterError
    <2> QED
      BY <1>3, <2>1, <2>2, <2>3, <2>4, <2>5 DEF WorkerStep
  <1>4. ASSUME NEW w \in Workers, Raise(w) \/ Crash(w) \/ Renew(w)
        PROVE  UNCHANGED <<trial, result, granted>>
    BY <1>4 DEF Raise, Crash, Renew
  <1>5. ASSUME Tick \/ Unlock \/ \E j \in Cancellable : Cancel(j)
        PROVE  UNCHANGED <<trial, result, granted>>
    BY <1>5 DEF Tick, Unlock, Cancel
  <1>6. ASSUME \E r \in Requests : Request(r[1], r[2])
        PROVE  UNCHANGED <<trial, result, granted>>
    <2>1. PICK r \in Requests : Request(r[1], r[2])
      BY <1>6
    <2>2. r[1] \in Trials /\ r[2] \in Jobs
      BY ExperimentAssumption
    <2> QED
      BY <1>2, <2>1, <2>2
  <1> QED
    BY <1>3, <1>4, <1>5, <1>6 DEF Next

(***************************************************************************)
(* Once the holdout is open neither the population nor a verdict nor a     *)
(* result changes.                                                         *)
(***************************************************************************)
THEOREM HoldoutStaysFrozen == Spec => HoldoutFrozen
PROOF
  <1>1. ASSUME ExpInv, [Next]_vars
        PROVE  [granted => UNCHANGED <<trial, result, granted>>]_vars
    BY <1>1, FrozenStep
  <1> QED
    BY <1>1, ExpInvAlways, PTL DEF Spec, HoldoutFrozen

\* Only Commit stores a result, for the one job of the trial, and not after
\* its cancellation.
LEMMA CancelledStep ==
    ASSUME ExpInv, Next, NEW j \in Jobs, job[j].cancel, NEW t \in Trials, j \in JobsOf(t)
    PROVE  result'[t] = result[t]
PROOF
  <1>1. ASSUME NEW w \in Workers, Commit(w)
        PROVE  result'[t] = result[t]
    <2>1. /\ worker[w].job \in Jobs /\ MyTrial(w) \in Trials
          /\ job[worker[w].job].status # "ABSENT"
      BY <1>1, RunningHasTrial DEF Commit, At
    <2>2. CASE MyFence(w) /\ result' = [result EXCEPT ![MyTrial(w)] = worker[w].token]
      <3>1. worker[w].job # j
        BY <2>2 DEF MyFence, Fenced
      <3>2. MyTrial(w) # t
        BY <2>1, <3>1 DEF ExpInv, OneJobPerTrial, JobsOf, MyTrial
      <3> QED
        BY <2>1, <2>2, <3>2 DEF ExpInv, TypeOK
    <2> QED
      BY <1>1, <2>2 DEF Commit
  <1>2. ASSUME NEW w \in Workers, WorkerStep(w), ~Commit(w)
        PROVE  result'[t] = result[t]
    BY <1>2 DEF WorkerStep, Claim, Reconcile, Begin, Replay, Finish, FailTrial, FailJob,
               EndAfterError
  <1>3. ASSUME NEW w \in Workers, Raise(w) \/ Crash(w) \/ Renew(w)
        PROVE  result'[t] = result[t]
    BY <1>3 DEF Raise, Crash, Renew
  <1>4. ASSUME \/ Tick \/ Unlock
               \/ \E k \in Cancellable : Cancel(k)
               \/ \E r \in Requests : Request(r[1], r[2])
        PROVE  result'[t] = result[t]
    BY <1>4 DEF Tick, Unlock, Cancel, Request
  <1> QED
    BY <1>1, <1>2, <1>3, <1>4 DEF Next

(***************************************************************************)
(* After a cancellation is recorded no result of that trial is published.  *)
(***************************************************************************)
THEOREM CancelledStaysWithoutResult == Spec => NoResultAfterCancel
PROOF
  <1>1. ASSUME ExpInv, [Next]_vars
        PROVE  [\A j \in Jobs : job[j].cancel =>
                   \A t \in Trials : j \in JobsOf(t) => result'[t] = result[t]]_vars
    BY <1>1, CancelledStep
  <1> QED
    BY <1>1, ExpInvAlways, PTL DEF Spec, NoResultAfterCancel
=============================================================================
