---------------------------- MODULE Experiments ----------------------------
(***************************************************************************)
(* Experiment campaigns: ExperimentRegistry (experiments/registry.py),     *)
(* ControlService.create_experiment (control/service.py) and the           *)
(* experiment worker (run_once and native_experiment, control/worker.py),  *)
(* all under src/qt, on the job table of JobQueue.                         *)
(*                                                                         *)
(* One campaign is modelled.  A trial is the frozen specification a job    *)
(* runs.  Two attempts at a trial may compute different results (another   *)
(* image, another clock), so a result is named by the attempt that         *)
(* computed it.  A worker is a process: it loses its memory when it        *)
(* crashes, keeps running after its lease has gone, and talks to the       *)
(* database in the separate transactions the code uses.                    *)
(***************************************************************************)
EXTENDS JobQueue

CONSTANTS
    Workers,         \* worker processes of kind "experiment"
    Trials,          \* trial_id, the content hash of a specification
    Requests,        \* the <<trial, key>> pairs clients may post
    Cancellable,     \* the jobs clients may cancel
    CandidateLimit,  \* candidate_limit of the campaign
    NoJob, NoTrial

ASSUME ExperimentAssumption ==
    /\ Requests \subseteq Trials \X Jobs
    /\ Cancellable \subseteq Jobs
    /\ CandidateLimit \in Nat \ {0}
    /\ NoJob \notin Jobs
    /\ NoTrial \notin Trials
    /\ IsFiniteSet(Trials)

VARIABLES
    request,  \* the experiment_request artifact of a key: the trial it stands for
    trial,    \* experiment_trials: status and result_sha256
    result,   \* the experiment_result artifact: the attempt it is from, 0 for none
    granted,  \* a row of campaign_holdout_grants exists
    worker    \* the memory of each worker process

vars == <<job, request, trial, result, granted, worker>>

TrialStatus == {"ABSENT", "submitted", "completed", "failed", "aborted"}
\* What a result_sha256 tells apart: the result, an error, or queue facts.
Verdicts == ({"none"} \X {0}) \union ({"error"} \X {0})
            \union ({"result", "queue"} \X (0..MaxAttempts))
Unregistered == [status |-> "ABSENT", verdict |-> <<"none", 0>>]
Submitted == [status |-> "submitted", verdict |-> <<"none", 0>>]

Steps == {"idle", "reconcile", "run", "replay", "compute", "finish", "error", "failJob"}
Idle == [pc |-> "idle", job |-> NoJob, token |-> 0]
WorkerType == [pc : Steps, job : Jobs \union {NoJob}, token : 0..MaxAttempts]

\* The type invariant.
TypeOK ==
    /\ JobTypeOK
    /\ request \in [Jobs -> Trials \union {NoTrial}]
    /\ trial \in [Trials -> [status : TrialStatus, verdict : Verdicts]]
    /\ result \in [Trials -> 0..MaxAttempts]
    /\ granted \in BOOLEAN
    /\ worker \in [Workers -> WorkerType]

Init ==
    /\ InitJobs
    /\ request = [j \in Jobs |-> NoTrial]
    /\ trial = [t \in Trials |-> Unregistered]
    /\ result = [t \in Trials |-> 0]
    /\ granted = FALSE
    /\ worker = [w \in Workers |-> Idle]

Registered == {t \in Trials : trial[t].status # "ABSENT"}
\* A key may stand for a trial that runs under an earlier key's job.
JobsOf(t) == {j \in Jobs : request[j] = t /\ job[j].status # "ABSENT"}

(***************************************************************************)
(* ExperimentRegistry.register_trial: a known trial is returned as it is;  *)
(* a new one needs an unopened holdout and a free candidate slot.          *)
(***************************************************************************)
\* Variant: the grant is not looked up.
MayRegisterLate(t) == Cardinality(Registered) < CandidateLimit
MayRegister(t) == ~granted /\ Cardinality(Registered) < CandidateLimit

(***************************************************************************)
(* ControlService.create_experiment with idempotency key j: the trial and  *)
(* its job appear in one transaction, and a trial that has a job keeps it. *)
(***************************************************************************)
Request(t, j) ==
    /\ trial[t].status # "ABSENT" \/ MayRegister(t)
    /\ request[j] \in {NoTrial, t}
    /\ trial' = IF trial[t].status = "ABSENT" THEN [trial EXCEPT ![t] = Submitted] ELSE trial
    /\ request' = [request EXCEPT ![j] = t]
    /\ IF JobsOf(t) # {} THEN UNCHANGED job ELSE Enqueue(j)
    /\ UNCHANGED <<result, granted, worker>>

\* POST /jobs/<id>/cancel, for a job of any status that can still end.
Cancel(j) == CancelJob(j) /\ UNCHANGED <<request, trial, result, granted, worker>>

\* ExperimentRegistry.unlock_holdout: one grant, over a decided population.
\* Variant: trials still running do not keep the holdout closed.
UnlockEarly ==
    /\ ~granted /\ Registered # {}
    /\ granted' = TRUE
    /\ UNCHANGED <<job, request, trial, result, worker>>

Unlock ==
    /\ ~granted
    /\ Registered # {}
    /\ \A t \in Registered : trial[t].status # "submitted"
    /\ granted' = TRUE
    /\ UNCHANGED <<job, request, trial, result, worker>>

(***************************************************************************)
(* ExperimentRegistry.finish_trial: a submitted trial takes the verdict; a *)
(* decided one accepts only the verdict it already has.                    *)
(***************************************************************************)
Decided(status, verdict) == [status |-> status, verdict |-> verdict]
Finishable(t, verdict) == trial[t].status = "submitted" \/ trial[t].verdict = verdict
FinishTrial(t, status, verdict) ==
    /\ Finishable(t, verdict)
    /\ trial' = IF trial[t].status = "submitted"
                THEN [trial EXCEPT ![t] = Decided(status, verdict)]
                ELSE trial

(***************************************************************************)
(* ExperimentRegistry.reconcile_terminal_jobs: a trial whose job ended     *)
(* without completing, and that no open job still runs, takes the queue's  *)
(* verdict.                                                                *)
(***************************************************************************)
\* Variant: exhausted jobs are forgotten.
AbandonedUnlessExhausted(t) ==
    {j \in JobsOf(t) : /\ job[j].status \in {"CANCELLED", "FAILED"}
                       /\ trial[t].status = "submitted"}
Abandoned(t) ==
    {j \in JobsOf(t) : /\ job[j].status \in {"CANCELLED", "EXHAUSTED", "FAILED"}
                       /\ trial[t].status = "submitted"
                       /\ \A k \in JobsOf(t) : job[k].status \notin Open}
QueueVerdict(j) ==
    Decided(IF job[j].status = "FAILED" THEN "failed" ELSE "aborted",
            <<"queue", job[j].attempts>>)

-----------------------------------------------------------------------------
(***************************************************************************)
(* The worker.  run_once claims, reconciles abandoned trials, runs, and    *)
(* reports; each is a transaction of its own.                              *)
(***************************************************************************)
At(w, step) == worker[w].pc = step
Goto(w, step) == worker' = [worker EXCEPT ![w].pc = step]
Return(w) == worker' = [worker EXCEPT ![w] = Idle]
HasTrial(w) == worker[w].job \in Jobs
MyTrial(w) == request[worker[w].job]
MyFence(w) == Fenced(worker[w].job, worker[w].token)

Claim(w) ==
    /\ At(w, "idle")
    /\ \/ \E j \in Jobs :
            /\ ClaimJob(j)
            /\ worker' = [worker EXCEPT ![w] = [Idle EXCEPT !.pc = "reconcile", !.job = j,
                                                            !.token = job[j].attempts + 1]]
       \/ ClaimNothing /\ Goto(w, "reconcile")
    /\ UNCHANGED <<request, trial, result, granted>>

Reconcile(w) ==
    /\ At(w, "reconcile")
    /\ trial' = [t \in Trials |->
                    IF Abandoned(t) = {} THEN trial[t]
                    ELSE QueueVerdict(CHOOSE j \in Abandoned(t) : TRUE)]
    /\ IF HasTrial(w) THEN Goto(w, "run") ELSE Return(w)
    /\ UNCHANGED <<job, request, result, granted>>

\* native_experiment looks for the result of an earlier attempt first.
Begin(w) ==
    /\ At(w, "run")
    /\ Goto(w, IF result[MyTrial(w)] # 0 THEN "replay" ELSE "compute")
    /\ UNCHANGED <<job, request, trial, result, granted>>

\* native_experiment finds the result: it only reports it to the registry.
Replay(w) ==
    /\ At(w, "replay")
    /\ LET verdict == <<"result", result[MyTrial(w)]>> IN
       IF MyFence(w) /\ Finishable(MyTrial(w), verdict)
       THEN FinishTrial(MyTrial(w), "completed", verdict) /\ Goto(w, "finish")
       ELSE Goto(w, "error") /\ UNCHANGED trial
    /\ UNCHANGED <<job, request, result, granted>>

(***************************************************************************)
(* The end of native_experiment: the result and the trial's verdict, both  *)
(* fenced, in one transaction.                                             *)
(***************************************************************************)
Commit(w) ==
    /\ At(w, "compute")
    /\ LET t == MyTrial(w)
           verdict == <<"result", worker[w].token>>
       IN  IF MyFence(w) /\ result[t] \in {0, worker[w].token} /\ Finishable(t, verdict)
           THEN /\ result' = [result EXCEPT ![t] = worker[w].token]
                /\ FinishTrial(t, "completed", verdict)
                /\ Goto(w, "finish")
           ELSE Goto(w, "error") /\ UNCHANGED <<trial, result>>
    /\ UNCHANGED <<job, request, granted>>

\* run_once: the job is finished after its result, in another transaction.
Finish(w) ==
    /\ At(w, "finish")
    /\ IF MayFinish(worker[w].job, worker[w].token)
       THEN FinishJob(worker[w].job, worker[w].token, "COMPLETED") /\ Return(w)
       ELSE Goto(w, "error") /\ UNCHANGED job
    /\ UNCHANGED <<request, trial, result, granted>>

Working == {"run", "replay", "compute", "finish"}

\* Any error of the run: a bad request, an irreproducible replay, validation,
\* or InterruptedError from the cancellation poll.
Raise(w) ==
    /\ worker[w].pc \in Working
    /\ Goto(w, "error")
    /\ UNCHANGED <<job, request, trial, result, granted>>

(***************************************************************************)
(* The process ends, or run_once returns "interrupted" (shutdown),         *)
(* "lease_lost" (its heartbeat stopped) or "retry_pending" (database and   *)
(* I/O errors): nothing more is written.  A process without a job has      *)
(* nothing to lose but one pass of the reconciliation; that it does not    *)
(* lose every one of them is fairness, and so it does not crash here.      *)
(***************************************************************************)
Crash(w) ==
    /\ HasTrial(w)
    /\ Return(w)
    /\ UNCHANGED <<job, request, trial, result, granted>>

\* The handler of run_once reports the trial failed; a refusal is suppressed.
FailTrial(w) ==
    /\ At(w, "error")
    /\ Goto(w, "failJob")
    /\ IF MyFence(w) /\ Finishable(MyTrial(w), <<"error", 0>>)
       THEN FinishTrial(MyTrial(w), "failed", <<"error", 0>>)
       ELSE UNCHANGED trial
    /\ UNCHANGED <<job, request, result, granted>>

\* The handler ends the job and reconciles, or finds its lease gone.
EndAfterError(w, outcome) ==
    /\ At(w, "failJob")
    /\ IF MayFinish(worker[w].job, worker[w].token)
       THEN /\ FinishJob(worker[w].job, worker[w].token, outcome)
            /\ worker' = [worker EXCEPT ![w] = [Idle EXCEPT !.pc = "reconcile"]]
       ELSE Return(w) /\ UNCHANGED job
    /\ UNCHANGED <<request, trial, result, granted>>

\* Variant: the handler forgets failed=True.
FailJobAsDone(w) == EndAfterError(w, "COMPLETED")
FailJob(w) == EndAfterError(w, "FAILED")

(***************************************************************************)
(* The heartbeat thread, _JobLease.renew.  A refused or failing heartbeat  *)
(* sets `stopped`, which may happen at any time and only makes run_once    *)
(* return without writing: that is Crash.                                  *)
(***************************************************************************)
Renew(w) ==
    /\ worker[w].pc \in Working \union {"error", "failJob"}
    /\ Heartbeat(worker[w].job, worker[w].token)
    /\ UNCHANGED <<request, trial, result, granted, worker>>

Tick == TickJobs /\ UNCHANGED <<request, trial, result, granted, worker>>

WorkerStep(w) ==
    Claim(w) \/ Reconcile(w) \/ Begin(w) \/ Replay(w) \/ Commit(w) \/ Finish(w)
    \/ FailTrial(w) \/ FailJob(w)

Next ==
    \/ \E r \in Requests : Request(r[1], r[2])
    \/ \E j \in Cancellable : Cancel(j)
    \/ Unlock
    \/ \E w \in Workers : WorkerStep(w) \/ Raise(w) \/ Crash(w) \/ Renew(w)
    \/ Tick

Spec == Init /\ [][Next]_vars

(***************************************************************************)
(* Fairness: the clock runs and the loop of a worker process goes on; a    *)
(* run ends, though it may end by an error or a crash.  No heartbeat,      *)
(* request, cancellation or grant is ever assumed.                         *)
(***************************************************************************)
FairSpec ==
    /\ Spec
    /\ WF_vars(Tick)
    /\ \A w \in Workers : WF_vars(WorkerStep(w))

-----------------------------------------------------------------------------
(***************************************************************************)
(* A trial is completed exactly when its result is stored, and it names    *)
(* that very result: whatever two attempts, a cancellation, a crash or the *)
(* reconciliation of abandoned jobs do in between (the transaction at the  *)
(* end of native_experiment).                                              *)
(***************************************************************************)
ResultIffCompleted ==
    \A t \in Trials :
        /\ (result[t] # 0) <=> (trial[t].status = "completed")
        /\ result[t] # 0 => trial[t].verdict = <<"result", result[t]>>

(***************************************************************************)
(* A COMPLETED job has a published result, although run_once finishes the  *)
(* job in a later transaction than the result, another attempt may have    *)
(* published it, and the error handler ends jobs too.                      *)
(***************************************************************************)
CompletedJobHasResult ==
    \A j \in Jobs : job[j].status = "COMPLETED" =>
        /\ request[j] \in Trials
        /\ result[request[j]] # 0

(***************************************************************************)
(* Once the holdout is opened the population it was opened for never       *)
(* changes: no candidate is added and no verdict is, whichever worker,     *)
(* request or reconciliation is still in flight (unlock_holdout,           *)
(* register_trial, finish_trial).                                          *)
(***************************************************************************)
HoldoutFrozen == [][granted => UNCHANGED <<trial, result, granted>>]_vars

(***************************************************************************)
(* After a cancellation is recorded no result of that trial is published,  *)
(* by the attempt that was running or by any other (assert_job_fence reads *)
(* cancel_requested in the publishing transaction).                        *)
(***************************************************************************)
NoResultAfterCancel ==
    [][\A j \in Jobs : job[j].cancel =>
           \A t \in Trials : j \in JobsOf(t) => result'[t] = result[t]]_vars

(***************************************************************************)
(* No registered trial stays submitted for good: cancelled before a claim, *)
(* past its deadline, out of attempts or failed in the handler, it is      *)
(* decided in the end (reconcile_terminal_jobs: "without staying           *)
(* 'submitted' forever").                                                  *)
(***************************************************************************)
TrialDecided ==
    \A t \in Trials : trial[t].status = "submitted" ~> trial[t].status # "submitted"
=============================================================================
