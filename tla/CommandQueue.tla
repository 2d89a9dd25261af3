---------------------------- MODULE CommandQueue ----------------------------
(***************************************************************************)
(* The durable command queue of the trading platform: the rows of          *)
(* platform_commands, the transactions of CommandRepository                *)
(* (src/qt/platform/commands.py) and the workers that drive it             *)
(* (TradingWorker, src/qt/platform/worker.py).                             *)
(*                                                                         *)
(* Every repository method is one database transaction under a row lock,   *)
(* so it is one action.  A worker is NOT atomic: it claims in one          *)
(* transaction, runs the handler outside any transaction, and reports in   *)
(* another one; it may stall or crash between the two, and its claim may   *)
(* expire and be given to somebody else meanwhile.                         *)
(*                                                                         *)
(* Time.  claim_expires_at and available_at are kept as the time that is   *)
(* left until then, so "claim_expires_at <= now" reads claimLeft = 0 and   *)
(* no bound on the clock is needed.  What is lost is the order             *)
(* (available_at, created_at) among commands that are due: ClaimNext picks *)
(* any of them.                                                            *)
(***************************************************************************)
EXTENDS Integers, FiniteSets

CONSTANTS
    Commands,     \* the (owner_id, idempotency_key) pairs clients may use
    Workers,      \* worker processes
    MaxAttempts,  \* PlatformCommand.max_attempts
    Lease,        \* command_lease_seconds, in ticks
    RetryBase,    \* retry_base_seconds, in ticks
    RetryMax,     \* retry_max_seconds, in ticks
    NoCommand     \* a worker that holds nothing

ASSUME QueueAssumption ==
    /\ MaxAttempts \in Nat \ {0}
    /\ Lease \in Nat \ {0}
    /\ RetryBase \in Nat \ {0}
    /\ RetryMax \in Nat
    /\ RetryBase <= RetryMax
    /\ NoCommand \notin Commands
    /\ IsFiniteSet(Commands)

VARIABLES
    status,     \* PlatformCommand.status; "ABSENT" before the row exists
    attempts,   \* PlatformCommand.attempts
    token,      \* PlatformCommand.claim_token, 0 for NULL
    claimLeft,  \* time until claim_expires_at
    waitLeft,   \* time until available_at
    nextToken,  \* the supply of fresh UUIDs
    job,        \* what each worker process has in memory
    starts      \* history: how often a handler was started for a command

rows == <<status, attempts, token, claimLeft, waitLeft>>
vars == <<status, attempts, token, claimLeft, waitLeft, nextToken, job, starts>>

CommandStatus == {"ABSENT", "PENDING", "PROCESSING", "RETRY_WAIT", "SUCCEEDED", "FAILED"}
Terminal == {"SUCCEEDED", "FAILED"}

(***************************************************************************)
(* TradingWorker._retry_delay: base doubled once per earlier attempt,      *)
(* never above the maximum.                                                *)
(***************************************************************************)
RetryDelay[n \in Nat] ==
    IF n <= 1 THEN RetryBase
    ELSE IF RetryDelay[n - 1] >= RetryMax THEN RetryMax
    ELSE IF 2 * RetryDelay[n - 1] <= RetryMax THEN 2 * RetryDelay[n - 1]
    ELSE RetryMax

Idle == [cmd |-> NoCommand, token |-> 0, attempt |-> 0]
Busy(w) == job[w].cmd # NoCommand

RowTypes ==
    /\ status \in [Commands -> CommandStatus]
    /\ attempts \in [Commands -> 0..MaxAttempts]
    /\ token \in [Commands -> Nat]
    /\ claimLeft \in [Commands -> 0..Lease]
    /\ nextToken \in Nat \ {0}
    /\ job \in [Workers -> [cmd : Commands \union {NoCommand},
                            token : Nat, attempt : 0..MaxAttempts]]
    /\ starts \in [Commands -> Nat]

\* The type invariant.  A wait is also within the bound of the back-off.
TypeOK == RowTypes /\ waitLeft \in [Commands -> 0..RetryMax]

Init ==
    /\ status = [c \in Commands |-> "ABSENT"]
    /\ attempts = [c \in Commands |-> 0]
    /\ token = [c \in Commands |-> 0]
    /\ claimLeft = [c \in Commands |-> 0]
    /\ waitLeft = [c \in Commands |-> 0]
    /\ nextToken = 1
    /\ job = [w \in Workers |-> Idle]
    /\ starts = [c \in Commands |-> 0]

(***************************************************************************)
(* enqueue.  A second request with the same owner and key, also one that   *)
(* loses the race to the unique index, returns the row that is there.      *)
(***************************************************************************)
Enqueue(c) ==
    /\ status[c] = "ABSENT"
    /\ status' = [status EXCEPT ![c] = "PENDING"]
    /\ UNCHANGED <<attempts, token, claimLeft, waitLeft, nextToken, job, starts>>

\* Variant (lost claims): claim_next without its branch for expired claims.
DueOnlyWaiting(c) ==
    /\ status[c] \in {"PENDING", "RETRY_WAIT"}
    /\ waitLeft[c] = 0
    /\ attempts[c] < MaxAttempts

\* The WHERE clause of claim_next.
Due(c) ==
    \/ /\ status[c] \in {"PENDING", "RETRY_WAIT"}
       /\ waitLeft[c] = 0
       /\ attempts[c] < MaxAttempts
    \/ /\ status[c] = "PROCESSING"
       /\ claimLeft[c] = 0

\* The claim that just expired was for the last permitted attempt.
UsedUp(c) == status[c] = "PROCESSING" /\ attempts[c] >= MaxAttempts

(***************************************************************************)
(* The first branch of claim_next: the claim of the last permitted attempt *)
(* expired without a report.  The loop in claim_next then looks again,     *)
(* which is this worker's next step.                                       *)
(***************************************************************************)
Exhaust(w, c) ==
    /\ ~Busy(w)
    /\ Due(c)
    /\ UsedUp(c)
    /\ status' = [status EXCEPT ![c] = "FAILED"]
    /\ token' = [token EXCEPT ![c] = 0]
    /\ claimLeft' = [claimLeft EXCEPT ![c] = 0]
    /\ UNCHANGED <<attempts, waitLeft, nextToken, job, starts>>

\* Row c becomes attempt n of worker w under claim token t.
HandOut(w, c, t, n) ==
    /\ status' = [status EXCEPT ![c] = "PROCESSING"]
    /\ attempts' = [attempts EXCEPT ![c] = n]
    /\ token' = [token EXCEPT ![c] = t]
    /\ claimLeft' = [claimLeft EXCEPT ![c] = Lease]
    /\ nextToken' = nextToken + 1
    /\ job' = [job EXCEPT ![w] = [cmd |-> c, token |-> t, attempt |-> n]]
    /\ starts' = [starts EXCEPT ![c] = @ + 1]
    /\ UNCHANGED waitLeft

\* Variant: taking over an expired claim is not counted as an attempt.
ClaimNotCounted(w, c) ==
    /\ ~Busy(w) /\ Due(c) /\ ~UsedUp(c)
    /\ HandOut(w, c, nextToken,
               IF status[c] = "PROCESSING" THEN attempts[c] ELSE attempts[c] + 1)

(***************************************************************************)
(* The second branch of claim_next, and the start of the handler.          *)
(***************************************************************************)
Claim(w, c) ==
    /\ ~Busy(w)
    /\ Due(c)
    /\ ~UsedUp(c)
    /\ HandOut(w, c, nextToken, attempts[c] + 1)

\* Variant: the report is checked against the row's state, not its token.
ActiveClaimAnyToken(w) ==
    LET c == job[w].cmd IN
    /\ status[c] = "PROCESSING"
    /\ claimLeft[c] > 0

\* CommandRepository._require_active_claim for the claim worker w remembers.
ActiveClaim(w) ==
    LET c == job[w].cmd IN
    /\ status[c] = "PROCESSING"
    /\ token[c] = job[w].token
    /\ claimLeft[c] > 0

\* _clear_claim with the new status, and the worker is free again.
Settle(w, c, s) ==
    /\ status' = [status EXCEPT ![c] = s]
    /\ token' = [token EXCEPT ![c] = 0]
    /\ claimLeft' = [claimLeft EXCEPT ![c] = 0]
    /\ job' = [job EXCEPT ![w] = Idle]
    /\ UNCHANGED <<attempts, nextToken, starts>>

\* Variant: complete updates the row without _require_active_claim.
CompleteUnchecked(w) ==
    /\ Busy(w)
    /\ Settle(w, job[w].cmd, "SUCCEEDED")
    /\ UNCHANGED waitLeft

(***************************************************************************)
(* complete, called by _execute when the handler returned a result.        *)
(***************************************************************************)
Complete(w) ==
    /\ Busy(w)
    /\ ActiveClaim(w)
    /\ Settle(w, job[w].cmd, "SUCCEEDED")
    /\ UNCHANGED waitLeft

(***************************************************************************)
(* fail: with a retry delay when the handler raised, without one when no   *)
(* handler is configured for the command type.                             *)
(***************************************************************************)
Fail(w, retry) ==
    LET c == job[w].cmd IN
    /\ Busy(w)
    /\ ActiveClaim(w)
    /\ IF retry /\ attempts[c] < MaxAttempts
       THEN /\ Settle(w, c, "RETRY_WAIT")
            /\ waitLeft' = [waitLeft EXCEPT ![c] = RetryDelay[job[w].attempt]]
       ELSE /\ Settle(w, c, "FAILED")
            /\ UNCHANGED waitLeft

(***************************************************************************)
(* StaleCommandClaimError: the report of a worker whose claim is gone is   *)
(* dropped (_record_claim_lost) and the worker polls again.                *)
(***************************************************************************)
ClaimLost(w) ==
    /\ Busy(w)
    /\ ~ActiveClaim(w)
    /\ job' = [job EXCEPT ![w] = Idle]
    /\ UNCHANGED <<rows, nextToken, starts>>

(***************************************************************************)
(* The process dies before it reported, or its report raised (the store    *)
(* was unreachable) and run_forever went on to its next poll.              *)
(***************************************************************************)
Crash(w) ==
    /\ Busy(w)
    /\ job' = [job EXCEPT ![w] = Idle]
    /\ UNCHANGED <<rows, nextToken, starts>>

Down(n) == IF n > 0 THEN n - 1 ELSE 0

\* Time passes for every deadline that lies ahead.
Tick ==
    /\ \E c \in Commands : claimLeft[c] > 0 \/ waitLeft[c] > 0
    /\ claimLeft' = [c \in Commands |-> Down(claimLeft[c])]
    /\ waitLeft' = [c \in Commands |-> Down(waitLeft[c])]
    /\ UNCHANGED <<status, attempts, token, nextToken, job, starts>>

Poll(w) == \E c \in Commands : Exhaust(w, c) \/ Claim(w, c)
Report(w) == Complete(w) \/ Fail(w, TRUE) \/ Fail(w, FALSE) \/ ClaimLost(w)

Next ==
    \/ \E c \in Commands : Enqueue(c)
    \/ \E w \in Workers :
          \/ \E c \in Commands : Exhaust(w, c) \/ Claim(w, c)
          \/ Complete(w)
          \/ \E retry \in BOOLEAN : Fail(w, retry)
          \/ ClaimLost(w)
          \/ Crash(w)
    \/ Tick

Spec == Init /\ [][Next]_vars

(***************************************************************************)
(* Fairness.  run_forever polls until it is stopped, so a free worker that *)
(* could claim something eventually does; time passes; and the handlers    *)
(* return: the only one that is installed, _handle_noop, returns at once.  *)
(* A worker may still crash after every single claim.                      *)
(***************************************************************************)
FairSpec ==
    /\ Spec
    /\ \A w \in Workers : WF_vars(Poll(w)) /\ WF_vars(Report(w))
    /\ WF_vars(Tick)

-----------------------------------------------------------------------------
(* Properties.                                                             *)

(***************************************************************************)
(* Two workers never both believe in a claim that the repository would     *)
(* honour: a claim that expired and was given away stops being honoured,   *)
(* because claim_next replaces the claim_token.                            *)
(***************************************************************************)
ClaimExclusive ==
    \A v, w \in Workers :
        /\ Busy(v) /\ Busy(w)
        /\ job[v].cmd = job[w].cmd
        /\ ActiveClaim(v) /\ ActiveClaim(w)
        => v = w

(***************************************************************************)
(* A handler is started at most max_attempts times for a command, whatever *)
(* expires, crashes or is retried: claim_next counts the attempt in the    *)
(* same transaction that hands the command out.                            *)
(***************************************************************************)
StartsBounded ==
    \A c \in Commands : starts[c] = attempts[c] /\ starts[c] <= MaxAttempts

(***************************************************************************)
(* A command that waits can be claimed again.  claim_next ignores waiting  *)
(* rows whose attempts are used up, so a row that fail() parked in         *)
(* RETRY_WAIT after its last attempt would stay there for ever.            *)
(***************************************************************************)
WaitingIsClaimable ==
    \A c \in Commands :
        status[c] \in {"PENDING", "RETRY_WAIT"} => attempts[c] < MaxAttempts

(***************************************************************************)
(* The recorded outcome of a command is written once: no late report and   *)
(* no expired claim reopens or rewrites a SUCCEEDED or FAILED row.         *)
(***************************************************************************)
OutcomeFinal ==
    [][\A c \in Commands :
          status[c] \in Terminal => status'[c] = status[c] /\ attempts'[c] = attempts[c]]_vars

(***************************************************************************)
(* While a claim has not expired, only the worker that holds it moves the  *)
(* row: reports of former holders (StaleCommandClaimError) and polls of    *)
(* other workers leave it alone.                                           *)
(***************************************************************************)
LiveClaimProtected ==
    [][\A c \in Commands :
          /\ status[c] = "PROCESSING"
          /\ claimLeft[c] > 0
          /\ (status'[c] # status[c] \/ token'[c] # token[c])
          => \E w \in Workers : /\ job[w].cmd = c
                                /\ job[w].token = token[c]
                                /\ job'[w] = Idle]_vars

(***************************************************************************)
(* Every accepted command is decided in the end: retries are bounded and   *)
(* an abandoned claim is taken over or exhausted by a later claim_next.    *)
(***************************************************************************)
EveryCommandDecided ==
    \A c \in Commands : status[c] = "PENDING" ~> status[c] \in Terminal
=============================================================================
