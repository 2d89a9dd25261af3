------------------------- MODULE CommandQueueProofs -------------------------
(***************************************************************************)
(* The safety properties of CommandQueue for every number of commands,     *)
(* workers and attempts and every lease and back-off.                      *)
(***************************************************************************)
EXTENDS CommandQueue, TLAPS

-----------------------------------------------------------------------------
(* The inductive invariant.                                                *)

\* Claim tokens are handed out once, from below nextToken.
TokensFresh ==
    /\ \A c \in Commands : token[c] < nextToken
    /\ \A w \in Workers : Busy(w) => job[w].token \in 1..(nextToken - 1)
    /\ \A v, w \in Workers :
          Busy(v) /\ Busy(w) /\ job[v].token = job[w].token => v = w

\* A row carries a token exactly while it is being processed.
TokenWhileProcessing ==
    \A c \in Commands : token[c] # 0 <=> status[c] = "PROCESSING"

\* An attempt is counted whenever a handler starts, and only then.
AttemptsCounted ==
    \A c \in Commands : /\ starts[c] = attempts[c]
                        /\ status[c] = "ABSENT" => attempts[c] = 0

QueueInv == /\ RowTypes
            /\ TokensFresh
            /\ TokenWhileProcessing
            /\ AttemptsCounted
            /\ WaitingIsClaimable

(***************************************************************************)
(* The initial queue is empty.                                             *)
(***************************************************************************)
LEMMA QueueInvInit == Init => QueueInv
  BY QueueAssumption
  DEF Init, QueueInv, RowTypes, TokensFresh, TokenWhileProcessing, AttemptsCounted,
      WaitingIsClaimable, CommandStatus, Idle, Busy

(***************************************************************************)
(* claim_next hands a row out under a token nobody has seen before, and    *)
(* only while attempts are left.                                           *)
(***************************************************************************)
LEMMA ClaimKeepsQueueInv ==
    ASSUME QueueInv, NEW w \in Workers, NEW c \in Commands, Claim(w, c)
    PROVE  QueueInv'
PROOF
  <1>1. attempts[c] < MaxAttempts
    BY QueueAssumption DEF QueueInv, RowTypes, Claim, Due, UsedUp
  <1> DEFINE j == [cmd |-> c, token |-> nextToken, attempt |-> attempts[c] + 1]
  <1>2. j \in [cmd : Commands \union {NoCommand}, token : Nat, attempt : 0..MaxAttempts]
    BY <1>1, QueueAssumption DEF QueueInv, RowTypes
  <1>3. RowTypes'
    BY <1>1, <1>2, QueueAssumption
    DEF QueueInv, RowTypes, Claim, HandOut, CommandStatus
  <1>4. TokensFresh'
    BY <1>1, <1>2, QueueAssumption
    DEF QueueInv, RowTypes, TokensFresh, Claim, HandOut, Busy
  <1>5. TokenWhileProcessing'
    BY <1>1 DEF QueueInv, RowTypes, TokenWhileProcessing, Claim, HandOut
  <1>6. AttemptsCounted'
    BY <1>1 DEF QueueInv, RowTypes, AttemptsCounted, Claim, HandOut
  <1>7. WaitingIsClaimable'
    BY <1>1 DEF QueueInv, RowTypes, WaitingIsClaimable, Claim, HandOut
  <1> QED
    BY <1>3, <1>4, <1>5, <1>6, <1>7 DEF QueueInv

(***************************************************************************)
(* A report settles the row of the worker's claim with one of the three    *)
(* outcomes; RETRY_WAIT needs an attempt that is left.                     *)
(***************************************************************************)
LEMMA SettleKeepsQueueInv ==
    ASSUME QueueInv, NEW w \in Workers, Busy(w),
           NEW s \in {"SUCCEEDED", "FAILED", "RETRY_WAIT"},
           s = "RETRY_WAIT" => attempts[job[w].cmd] < MaxAttempts,
           Settle(w, job[w].cmd, s)
    PROVE  QueueInv'
PROOF
  <1> DEFINE c == job[w].cmd
  <1>1. c \in Commands
    BY DEF QueueInv, RowTypes, Busy
  <1>2. RowTypes'
    BY <1>1, QueueAssumption DEF QueueInv, RowTypes, Settle, CommandStatus, Idle
  <1>3. TokensFresh'
    BY <1>1, QueueAssumption DEF QueueInv, RowTypes, TokensFresh, Settle, Idle, Busy
  <1>4. TokenWhileProcessing'
    BY <1>1 DEF QueueInv, RowTypes, TokenWhileProcessing, Settle
  <1>5. AttemptsCounted'
    BY <1>1 DEF QueueInv, RowTypes, AttemptsCounted, Settle
  <1>6. WaitingIsClaimable'
    BY <1>1 DEF QueueInv, RowTypes, WaitingIsClaimable, Settle
  <1> QED
    BY <1>2, <1>3, <1>4, <1>5, <1>6 DEF QueueInv

(***************************************************************************)
(* Every step of the queue preserves the inductive invariant.              *)
(***************************************************************************)
LEMMA QueueInvStep == QueueInv /\ [Next]_vars => QueueInv'
PROOF
  <1> SUFFICES ASSUME QueueInv, [Next]_vars PROVE QueueInv'
    OBVIOUS
  <1> USE QueueAssumption
  <1>1. ASSUME NEW c \in Commands, Enqueue(c) PROVE QueueInv'
    BY <1>1
    DEF Enqueue, QueueInv, RowTypes, TokensFresh, TokenWhileProcessing,
        AttemptsCounted, WaitingIsClaimable, CommandStatus, Busy
  <1>2. ASSUME NEW w \in Workers, NEW c \in Commands, Exhaust(w, c) PROVE QueueInv'
    BY <1>2
    DEF Exhaust, QueueInv, RowTypes, TokensFresh, TokenWhileProcessing,
        AttemptsCounted, WaitingIsClaimable, CommandStatus, Busy
  <1>3. ASSUME NEW w \in Workers, NEW c \in Commands, Claim(w, c) PROVE QueueInv'
    BY <1>3, ClaimKeepsQueueInv
  <1>4. ASSUME NEW w \in Workers, Complete(w) PROVE QueueInv'
    BY <1>4, SettleKeepsQueueInv DEF Complete
  <1>5. ASSUME NEW w \in Workers, NEW retry \in BOOLEAN, Fail(w, retry) PROVE QueueInv'
    BY <1>5, SettleKeepsQueueInv DEF Fail
  <1>6. ASSUME NEW w \in Workers, ClaimLost(w) \/ Crash(w) PROVE QueueInv'
    BY <1>6
    DEF ClaimLost, Crash, QueueInv, RowTypes, TokensFresh, TokenWhileProcessing,
        AttemptsCounted, WaitingIsClaimable, Busy, Idle, rows
  <1>7. CASE Tick
    BY <1>7
    DEF Tick, Down, QueueInv, RowTypes, TokensFresh, TokenWhileProcessing,
        AttemptsCounted, WaitingIsClaimable, Busy
  <1>8. CASE UNCHANGED vars
    BY <1>8
    DEF vars, QueueInv, RowTypes, TokensFresh, TokenWhileProcessing,
        AttemptsCounted, WaitingIsClaimable, Busy
  <1> QED
    BY <1>1, <1>2, <1>3, <1>4, <1>5, <1>6, <1>7, <1>8 DEF Next

(***************************************************************************)
(* The inductive invariant holds throughout.                               *)
(***************************************************************************)
THEOREM QueueInvariant == Spec => []QueueInv
  BY QueueInvInit, QueueInvStep, PTL DEF Spec

-----------------------------------------------------------------------------
(* The theorems.                                                           *)

(***************************************************************************)
(* An expired claim that was given to another worker is not honoured any   *)
(* more, for any number of workers (claim_next draws a new claim_token,    *)
(* _require_active_claim compares it).                                     *)
(***************************************************************************)
THEOREM ClaimsAreExclusive == Spec => []ClaimExclusive
PROOF
  <1>1. QueueInv => ClaimExclusive
    BY DEF QueueInv, TokensFresh, ClaimExclusive, ActiveClaim
  <1> QED
    BY <1>1, QueueInvariant, PTL

(***************************************************************************)
(* No command starts its handler more than max_attempts times.             *)
(***************************************************************************)
THEOREM HandlerStartsBounded == Spec => []StartsBounded
PROOF
  <1>1. QueueInv => StartsBounded
    BY QueueAssumption DEF QueueInv, RowTypes, AttemptsCounted, StartsBounded
  <1> QED
    BY <1>1, QueueInvariant, PTL

(***************************************************************************)
(* fail never parks a command where claim_next would not look for it.      *)
(***************************************************************************)
THEOREM WaitingStaysClaimable == Spec => []WaitingIsClaimable
PROOF
  <1>1. QueueInv => WaitingIsClaimable
    BY DEF QueueInv
  <1> QED
    BY <1>1, QueueInvariant, PTL

(***************************************************************************)
(* A SUCCEEDED or FAILED row is never reopened or rewritten.               *)
(***************************************************************************)
THEOREM OutcomesAreFinal == Spec => OutcomeFinal
PROOF
  <1> DEFINE Kept == \A c \in Commands :
        status[c] \in Terminal => status'[c] = status[c] /\ attempts'[c] = attempts[c]
  <1>1. QueueInv /\ [Next]_vars => [Kept]_vars
    <2> SUFFICES ASSUME QueueInv, Next, NEW d \in Commands, status[d] \in Terminal
                 PROVE  status'[d] = status[d] /\ attempts'[d] = attempts[d]
      OBVIOUS
    <2> USE DEF Terminal, QueueInv, RowTypes
    <2>1. ASSUME NEW c \in Commands, Enqueue(c)
          PROVE  status'[d] = status[d] /\ attempts'[d] = attempts[d]
      BY <2>1 DEF Enqueue
    <2>2. ASSUME NEW w \in Workers, NEW c \in Commands, Exhaust(w, c) \/ Claim(w, c)
          PROVE  status'[d] = status[d] /\ attempts'[d] = attempts[d]
      BY <2>2 DEF Exhaust, Claim, Due, HandOut
    <2>3. ASSUME NEW w \in Workers, Complete(w)
          PROVE  status'[d] = status[d] /\ attempts'[d] = attempts[d]
      BY <2>3 DEF Complete, ActiveClaim, Settle
    <2>4. ASSUME NEW w \in Workers, NEW retry \in BOOLEAN, Fail(w, retry)
          PROVE  status'[d] = status[d] /\ attempts'[d] = attempts[d]
      BY <2>4 DEF Fail, ActiveClaim, Settle
    <2>5. ASSUME NEW w \in Workers, ClaimLost(w) \/ Crash(w)
          PROVE  status'[d] = status[d] /\ attempts'[d] = attempts[d]
      BY <2>5 DEF ClaimLost, Crash, rows
    <2>6. CASE Tick
      BY <2>6 DEF Tick
    <2> QED
      BY <2>1, <2>2, <2>3, <2>4, <2>5, <2>6 DEF Next
  <1> QED
    BY <1>1, QueueInvariant, PTL DEF Spec, OutcomeFinal

(***************************************************************************)
(* While a claim is live only its holder moves the row.                    *)
(***************************************************************************)
THEOREM LiveClaimsAreProtected == Spec => LiveClaimProtected
PROOF
  <1> DEFINE ByHolder(c) == \E w \in Workers : /\ job[w].cmd = c
                                              /\ job[w].token = token[c]
                                              /\ job'[w] = Idle
             Protected == \A c \in Commands :
                 /\ status[c] = "PROCESSING"
                 /\ claimLeft[c] > 0
                 /\ (status'[c] # status[c] \/ token'[c] # token[c])
                 => \E w \in Workers : /\ job[w].cmd = c
                                       /\ job[w].token = token[c]
                                       /\ job'[w] = Idle
  <1>1. QueueInv /\ [Next]_vars => [Protected]_vars
    <2> SUFFICES ASSUME QueueInv, Next, NEW d \in Commands,
                        status[d] = "PROCESSING", claimLeft[d] > 0,
                        status'[d] # status[d] \/ token'[d] # token[d]
                 PROVE  ByHolder(d)
      OBVIOUS
    <2> USE DEF QueueInv, RowTypes
    <2>1. ASSUME NEW c \in Commands, Enqueue(c) PROVE ByHolder(d)
      BY <2>1 DEF Enqueue
    <2>2. ASSUME NEW w \in Workers, NEW c \in Commands, Exhaust(w, c) \/ Claim(w, c)
          PROVE  ByHolder(d)
      BY <2>2 DEF Exhaust, Claim, Due, HandOut
    <2>3. ASSUME NEW w \in Workers, Complete(w) PROVE ByHolder(d)
      BY <2>3 DEF Complete, ActiveClaim, Settle
    <2>4. ASSUME NEW w \in Workers, NEW retry \in BOOLEAN, Fail(w, retry)
          PROVE  ByHolder(d)
      BY <2>4 DEF Fail, ActiveClaim, Settle
    <2>5. ASSUME NEW w \in Workers, ClaimLost(w) \/ Crash(w) PROVE ByHolder(d)
      BY <2>5 DEF ClaimLost, Crash, rows
    <2>6. CASE Tick
      BY <2>6 DEF Tick
    <2> QED
      BY <2>1, <2>2, <2>3, <2>4, <2>5, <2>6 DEF Next
  <1> QED
    BY <1>1, QueueInvariant, PTL DEF Spec, LiveClaimProtected
=============================================================================
