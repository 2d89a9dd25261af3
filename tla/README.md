# A TLA+ specification of the QT trading core

QT is a BTC quantitative trading platform. This directory specifies its
concurrent core: how a bar becomes a decision and a decision at most one order at
a venue, how the money behind it is accounted for, who may stop the account, how
job queues hand work to workers that may crash, what the workers that run
experiments, research and the agent hub's trading may leave behind, and what the BTC
monitor tells its reader.

Paths below are relative to the repository (`src/qt/...`, `docs/...`).

## 1. Inventory

### 1.1 Components

| Component | State it keeps | Operations | Hard part |
|---|---|---|---|
| **OMS** `src/qt/execution/oms.py` | rows `accounts` (mode, `reserved_quote`, wallet, `lease_token`), `orders`, `fills`, journal | `reserve`, `claim_account`, `submit`, `cancel`, `query`, `reconcile`, `apply_fill`, `set_mode` | one call is several transactions with an await of the venue between them; the lease may change hands, the process may die, the venue may act in between |
| **RiskGuard** `src/qt/operations/risk.py` | `accounts.mode`, `risk_states` | `check`, `evaluate_locked`, `ensure_new_risk_locked`, `stop` | writes the mode concurrently with the OMS, the watchdog and the operator |
| **Deployment registry** `src/qt/operations/releases.py` | `deployment_heads`, manifests | `activate`, `deactivate`, `rollback` | may only change while the account is flat; intents of an old head must not get through |
| **Watchdog** `src/qt/operations/watchdog.py` | none (reads heartbeats, leases, marks) | `check_deployment` | an independent process that stops the account |
| **Venue adapter** `src/qt/contracts/protocols.py`, `execution/simulated.py` | the venue's orders and fills | `submit`, `cancel`, `query`, `reconcile` | answers are late, lost or stale |
| **Command queue** `src/qt/platform/commands.py`, `worker.py` | rows `platform_commands` (status, attempts, `claim_token`, `claim_expires_at`, `available_at`) | `enqueue`, `claim_next`, `complete`, `fail`, worker loop | a claim expires while its worker is alive; two workers run the same command |
| **Trading runtime** `src/qt/execution/runtime.py`, `strategies/native_bridge.py` | `trading_step`, `trading_step_complete`, the head row; in memory lease token, head, strategy history | `process`, `_execute`, `_checkpoint`, `_restore`, `_halt` | replays one event after a crash; lease change in the middle of it; two processes receive the same bar |
| **Job queue** `src/qt/persistence/repository.py` | rows `jobs` (status, attempts, `lease_token`, deadline, `cancel_requested`) | `enqueue`, `claim`, `heartbeat`, `finish`, `cancel`, the fence | deadline, cancellation and lease expiry race with the result |
| **Experiment registry and worker** `src/qt/experiments/registry.py`, `control/service.py`, `control/worker.py` | trials, results, the holdout grant | `create_experiment`, `register_trial`, `finish_trial`, `reconcile_terminal_jobs`, `unlock_holdout`, `run_once` | result, trial and job are written in different transactions by attempts that overlap |
| **Research graph and usage ledger** `src/qt/research/graph.py`, `operations/budgets.py` | `model_calls`, `usage_budgets`, `model_result`, LangGraph's checkpoint | the nodes of the graph, `reserve`, `complete` | a paid call between two transactions; three overlapping budgets; a checkpoint without a fence |
| **Agent hub trading** `src/qt/agent_hub/trading.py` | `hub_trade_orders`, `hub_trade_accounts`, `hub_trade_positions`, the risk mode | `submit`, `reconcile`, `set_risk_mode` | concurrent calls with the network between transactions; answers late, lost or twice |
| Runtime leases `src/qt/platform/leases.py` | rows `runtime_leases` with a fencing token | `acquire`, `renew`, `release` | two runtimes believe in the same lease |
| **BTC monitor** `src/qt/btc_monitor/` | tables `decisions`, `outbox`, `state`; in memory the events, the assessment and the pending notices | `_anomaly`, `reset`, `snapshot`, `_persist`, `run_once`, `restore` | a notice waits while its subject changes; Telegram may answer late or never; a crash between decision, commit, export and request |
| Rest of the agent hub, BTC agent, BTC alerts | sessions, approvals, jobs, deliveries | services around model calls | retries of external calls |
| Strategies, indicators, forecasting, backtest, market data, datasets, reports, dashboards, web | files and read models | numerical code and I/O | no shared mutable state |

`PROJECT.json` lists every component with its status, also those that are not
modelled.

### 1.2 How they interact

The trading runtime saves a step (strategy state and intents), then calls `reserve`
(intent → `RESERVED` row and reserved budget) and `submit` (claim → recheck →
adapter → result). A reconciliation loop calls `reconcile`, the operator `cancel`,
`set_mode` and the releases; the watchdog calls `RiskGuard.check` and `stop`. They
share one database: every transaction locks the account row first, so a
transaction is atomic, and nothing else is. They do not call each other; each reads
what the others wrote.

Requests of the control API put experiments and research runs into the job table;
workers claim them, heartbeat in a thread, write results under the fence
`assert_job_fence` and finish the job. The agent hub has its own SQLite tables and
venues; API requests and workers call its trading service concurrently, and a
monitor job repeats `reconcile`.

The BTC monitor is a process of its own. Feed consumer, publisher and sender are tasks
of one event loop; all of them go through the one thread of `SnapshotStore`, which
executes a request at a time. Docker starts the process again when it ends.

### 1.3 What makes it hard, and what correctness means

* *Send once.* A crash, a timeout or a second runtime between the claim and the
  side effect must never send an intent twice, and never send two intents at
  once. (OMS: `AtMostOneSend`, `OneSenderPerAccount`, `NeverSentStays`.)
* *Never close what is open.* A timeout or a stale view must not release the
  budget of an order the venue may still fill. (`ClosedAtVenue`,
  `TerminalFinal`.)
* *Money.* Two tables of reservations and the wallet are kept by different
  transactions and must agree through partial, late, repeated and expensive
  fills. (`BudgetHeld`, `LedgerMatchesFills`, `ShortfallHalts`.)
* *Stops.* Four writers of the mode; a weaker stop must not overwrite a stronger
  one, and `ACTIVE` must mean that nothing is unresolved. (`StopsLatch`,
  `ActiveIsHealthy`.)
* *Heads.* A replaced deployment has no open order. (`OpenOrdersBelongToHead`.)
* *Progress.* What is unknown becomes known. (`UnknownResolved`.)
* *Recovery.* Strategy state, step and order on record belong together, whichever
  process dies or stalls where, and a bar is traded once. (`HistoryOnRecord`,
  `OnlyHeadUnfinished`, `OneOrderPerBar`, `SentAsSaved`, `SendsAtHead`.)
* *Queues.* Claims are exclusive, attempts bounded, outcomes final, every command
  and every run decided. (`CommandQueue`: `ClaimExclusive`, `StartsBounded`,
  `OutcomeFinal`, `LiveClaimProtected`, `EveryCommandDecided`; `RunEnds`.)
* *Evidence.* A trial, its result and its job tell the same story; nothing appears
  after a cancellation; a population is frozen with its holdout grant; no trial is
  forgotten. (`ResultIffCompleted`, `CompletedJobHasResult`, `NoResultAfterCancel`,
  `HoldoutFrozen`, `TrialDecided`, `NothingAfterCancel`.)
* *Spend.* A model call is paid once, and the day, the month and the run stay within
  their limits whatever was lost. (`CallPaidOnce`, `BudgetIsTheSum`,
  `SpendWithinLimits`.)
* *Hub orders.* Sent once, booked once, as the venue executed them, within the daily
  risk, and in the end. (`SentOnce`, `BooksMatchVenue`, `RejectedNeverFilled`,
  `DayRiskWithinLimit`, `OneFillMissing`, `AccountedIsFinal`, `ExecutedIsAccounted`.)
* *Notices.* A message arrives once at most, every end is told, nothing is announced
  after it was taken back or by a process that did not see it, and the record agrees
  with what is recomputed after a crash. (`AcceptedOnce`, `AttemptsBounded`,
  `EndingsAreTold`, `NothingAfterTakenBack`, `OldOpportunitiesSilent`,
  `RevisionsAgree`, `NoticesSettle`.)

`PROJECT.json` has the hazards one by one with the line where each bites, also
those that no property covers and why.

## 2. Plan

The order in which the modules were written, each with its run, its mutants and
its proofs before the next:

1. `CommandQueue`, `CommandQueueProofs`.
2. `TradingAccount` (what one transaction does) and `OMS` (the processes and the
   venue); `OrderOutbox`, the abstract promise, and `OMSRefinement`; `OMSProofs`
   (sending, then modes, closed orders and heads, then the refinement).
3. `JobQueue`, and on it `Experiments` and `Research`, with proofs.
4. `HubTrading`, with proofs.
5. `TradingRuntime`, which keeps of the OMS what its loop can tell apart, with proofs.
6. `Monitor`, with proofs.
7. `Sums` (the `SUM()` of the queries) and `SumProofs`; on them the proofs about money
   in `OMSProofs`, `ResearchProofs` and `HubTradingProofs`.

What would come next: the agent hub's approvals and SQLite job store; one instance of
the OMS with settlements and cancellations together; the runtime leases of
`src/qt/platform/leases.py`, once something in the repository acquires them.

## 3. Modules and their correspondence to the code

### 3.1 `CommandQueue`

Variables `status`, `attempts`, `token`, `claimLeft`, `waitLeft` are the columns
of `PlatformCommand`; the two deadlines are kept as the time left, so no bound on
the clock is needed. `job[w]` is what worker `w` has in memory between its claim
and its report. `Enqueue`, `Exhaust` / `Claim` (the two branches of `claim_next`),
`Complete`, `Fail` and `ClaimLost` are one transaction each; `Crash` is the end of
a worker, or a report that raised. `starts` is a history variable.

Abstracted: the order among due commands (any is claimed), the result payload,
the error text, heartbeats and audit rows.

### 3.2 `TradingAccount`

State and transactions of one account. `mode`, `reserved`, `quote`, `base` are the
account's row and wallet buckets; `status`, `filled`, `res`, `settlement` the
columns of `orders`; `trades` the trade identities in `fills`; `unsent` the orders
that have an event proving they were never sent (`apply_fill` refuses their
fills); `expired` the orders whose `valid_until_ns` has passed; `head`, `past` the
deployment head and the manifests that were activated.

Money is abstracted to units: price and quantity are one, so a reservation, a
notional and a quantity are the same number, and a fill that is worse than the
order's terms (limit or fee schedule) costs `Extra` more. Daily entry budget,
position limits, precision and the version checks of `_verify` only refuse a
reservation, which `ReserveRefused` may do at any time. A market and the limits
are a *verdict*: `good`, `breach` (loss or exposure limit), `superseded` (older
than the last mark), `stale` (also refused by `_verify`), `mismatch` (refused by
the evaluation only). Which verdict an evaluation gives is a free choice at every
evaluation.

### 3.3 `OMS`

`at[p]` is the program counter of process `p` inside its current call and what the
call remembers; `view[p]` is what `reconcile` or `query` read from the venue and
has not applied yet, with the order of reads and writes that `asof_ns`,
`updated_ns` and `last_reconciled_ns` encode (`old`, `gone`, `after`). `lease` is
the account's execution lease. `venue`, `wire` and `cancelReq` are outside the
repository.

| Call | Actions in order |
|---|---|
| `reserve` | `CheckReserve` (risk check) → `Reserve`, `ReserveOverBudget` → `StopNewRisk`, or `ReserveRefused` |
| `submit` | `CheckSubmit` or `NoTrustedMarket` → `ClaimOrder`, `ClaimExpired`, `ClaimOverBudget` → `StopNewRisk`, or `ClaimRefused` → `Recheck` → `SendOrder` → `SubmitAnswered` or `SubmitRaises` → `RecordSubmit` or `MarkUncertain` |
| `cancel` | `StartCancel` → `CancelAnswered` or `CancelRaises` → `RecordCancel` or `MarkUncertain` |
| `reconcile` | `StartReconcile` → `IngestFill`* → `ApplySnapshot`* |
| `query` | `StartQuery` → `ApplySnapshot` or `MarkUncertain` |
| `claim_account` | `ClaimLease`; the lease ends by `LeaseExpires` |
| others | `SetMode`, `RiskCheck`, `WatchdogStop`, `Activate`, `Deactivate`, `Expire` of `TradingAccount`, in `Elsewhere` |

A transaction is one action because it takes the account's row lock first. Between
two actions of a call anything may happen. `Crash` ends a call anywhere; rows,
venue and network stay, and the restarted process has no lease token.

External, modelled from the `ExecutionAdapter` contract and how `oms.py` uses it:
a request arrives once, late or never; the venue opens or rejects it, fills it
piece by piece, ends it by itself or by a cancellation; an answer is truthful but
may be lost (`unknown` or an exception); what a read returns was true when it was
read.

### 3.4 `OrderOutbox` and `OMSRefinement`

`OrderOutbox` is what the OMS promises without leases, locks, answers or
reconciliation: an order is held before it leaves, leaves at most once, alone, and
is settled only if it never left or has ended at the venue. `OMSRefinement`
maps the rows, the processes and the venue of `OMS` to its three variables:
`leaving` while some process stands between claim and side effect, `held` while the
row is open, `settled` when it is terminal.

### 3.5 `JobQueue`

The table `jobs`; a method of `Repository` is one transaction and one operator.
`lease_token` is a fresh UUID per claim and every claim counts an attempt, so the
attempt number stands for the token; lease and deadline are the time left.
`Experiments` and `Research` EXTEND the module and conjoin their own changes to its
operators.

### 3.6 `Experiments`

One campaign. `trial` is status and `result_sha256` of a trial, `result` the
artifact (named by the attempt that computed it, since two attempts may differ),
`request` the idempotency record of a key, `granted` the holdout grant. A worker
claims (`Claim`), decides abandoned trials (`Reconcile`), then replays a stored
result (`Begin` → `Replay`) or computes and commits result and trial together
(`Commit`), and finishes the job (`Finish`). Any error goes to the handler of
`run_once`: `FailTrial`, then `FailJob`, then `Reconcile` again. `Crash` is the end of
the process and the branches of the handler that leave the job alone; `Renew` is the
heartbeat thread. The simulation itself is a choice of its outcome.

### 3.7 `Research`

`checkpoint[j]` is LangGraph's saved walk of a run, written after every node by
`Save` without a fence. A node that calls the model goes through `Enter`,
`ReserveCall` (`UsageLedger.reserve`), `Send`, `Settle` (`UsageLedger.complete`),
`Store` and `Check`; `Route`, `Tools`, `Publish` and `Report` are the rest of the
graph. `sent` and `spent` are history: what the provider received and charged.
Money is in units, one allocation per call; a settled cost may exceed it.

### 3.8 `HubTrading`

`order`, `cash`, `held` are the tables, `mode` the risk mode. A call of `submit` is
`Request` (checks and quotes before the transaction) → `Prepare` or `Refuse` → `Arm` →
`Guard` → `Post` → `Book`, with `Block` for a lost lease or a freeze, `Unready` and
`Doubt` for exceptions, and `Die` anywhere. `reconcile` is `List` → (`Find`,
`FindPending` or `Miss` → `Record`)*, with what it listed in `auditor`. Binance is asked
by the client id, Polymarket by the exchange id of its answer. `Finish` is `_finish`
with all its early returns; prices are 1 and every fill costs `Fee`, so cost basis
and profit are left out.

### 3.9 `TradingRuntime`

`step`, `complete`, `head` are the rows of the checkpoint, `order` the order of an
event as far as this loop sees it, `rt` the attributes of each process. `process` is
`Receive` (lease) → `Sync` (reconcile, restore) → `_execute` of the head step →
`Replay` or `Decide` (`on_event`, which changes the strategy in memory) →
`Checkpoint` → `_execute` of the new step. `_execute` is `Duplicate`,
`NothingToSend`, `Reserve`, `ReserveBlocked`, `Submit`, `Send`, `Answer`, `Finish`.
`Distrust`, `Fail` and `Block` are the ways out; `Restart` ends a process anywhere.
Everybody else (lease expiry, order expiry, the reconciliation worker, watchdog,
operator) is one action each. An event is a received bar: two processes receive the
same bar as two events.

### 3.10 `Monitor`

`rev` is what the engine remembers of each event: the revisions of the wick events, and
those of the one assessment each process makes (`Grid(boot)`). `decisions`, `row` and
`barrier` are the tables, `exported` and `projection` what `_persist` leaves outside
of its transaction. `Impulse`, `Trade` and `Reset` are the engine's consumer;
`Snapshot` is `_publish` with `snapshot`, `_assessment` and `drain_notifications`,
which run without an await. It hands a `job` to the store, which is `Commit` (the
transaction) and then `Export`; the process may die in between. `run_once` is `Fetch`
→ (`CheckItem` → `Claim` → `Post` → one of `Accepted`, `Limited`, `Rejected`,
`Unclear`)*, each a request to the store, none of them while it is between commit and
export (`Free`). Telegram is external: `Deliver` and `Lose` are a request whose answer
does not arrive. `Crash` ends the process anywhere, `Stop` → `LastSnapshot` → `Exit`
is SIGTERM, and `Start` is `_initialize`, `_load_checkpoint` and `restore`.

Which prices come, and which gates they pass, is the market's choice. Expiry, retry
time and the age of a projection are events of their own that may happen at any time,
so no clock is kept.

### 3.11 `Sums`

`SumOf(r, S)` is the sum of a column over a set of rows, a fold of the community
modules. The OMS, the usage ledger and the hub state their totals with it.

### 3.12 The `MC` modules

Values for the constants that are functions, and the symmetry of the processes. The
instances of `Research` and `Monitor` need none.

Operators whose comment begins with "Variant" state a plausible mistake in the
definition that follows them. No specification uses them; they are what the
properties are tested against (`PROJECT.json`, `mutants`).

## 4. Runs

| Run | Instance | Shows |
|---|---|---|
| `queue` | 2 commands, 2 workers, 3 attempts, lease 2, back-off 1–3 ticks; fair | at most three starts, outcomes final, live claims protected; every command is decided although a worker may crash after each claim |
| `oms_submit` | 2 buys, one of which may expire, cash for both, 2 processes; submit, cancel, crash | an intent leaves at most once, one at a time; `OMS` implements `OrderOutbox` |
| `oms_money` | 2 buys of quantity 2 that compete for the same cash (one with expensive fills), 2 sells, 3 deployments (one shadow, one only later), settlements that may be reorganised, 1 process; submit, cancel, reconcile, release, watchdog, operator | both reservation tables, wallet and fills agree; a shortfall halts; a head is replaced only when flat; an active account is healthy; only the operator loosens a stop |
| `oms_race` | 1 buy of quantity 2, 2 processes; submit, cancel, query, reconcile, crash; fair | stale views and lost answers neither close what is open at the venue nor reopen what is closed; an unknown order the venue knows is resolved |
| `experiments` | 2 trials, 2 keys of which one may ask for either trial, 1 cancellable job, 2 workers, 2 attempts, lease 1, deadline 2; fair | a completed job has its result; the population is frozen; every trial is decided |
| `research` | 1 run, 2 workers, 2 rounds, 2 attempts, lease 1, deadline 3, 2 days, calls of cost 1 or 3 for an allocation of 2; fair | a call is paid once; the budgets are the sum and bound the spend; nothing after a cancellation; the run ends |
| `hub_trading` | a buy of 2 and a sell on Binance, a buy on Polymarket, 2 callers, 1 reconciler, modes active and frozen, cash 4, daily limit 4; fair | sent once, booked once and truly, within the daily risk, accounted in the end |
| `trading_runtime` | 2 processes, 2 bars of which the second is received by both, orders on both receipts (one a sell, one that may expire) | history, head and orders on record agree; a bar is traded once; what is sent is the head's decision |
| `monitor_restart` | 2 processes, 3 assessments, 2 attempts, no wicks; fair | a message is accepted once at most; no candidate is announced after its withdrawal; the second process announces nothing of the first; every notice settles |
| `monitor_wick` | 2 processes, 3 snapshots, 1 wick event of 3 revisions, 2 attempts, no candidates | the record agrees with memory; every invalidation has its notice |
| `oms_old_lease_sends`, `trading_runtime_orphan` | minimal | what a document says and the code does not do (section 7) |

`ClaimExclusive`, `NeverSentStays`, `ResultIffCompleted`, `NoResultAfterCancel`,
`AccountedIsFinal`, `SentAsSaved` and `AttemptsBounded` have no run: they are proved for
every value of the constants (section 5).

**Bounds.** Two processes are enough for every pair of calls to interleave, and
one is left out only in the money run, where the interleaving that matters is
between a call, the venue, the watchdog and the operator. Quantity 2 is the smallest with a partial
fill; quantity 1 is used where partial fills play no part. Capital is chosen so
that the orders compete in `oms_money` and `hub_trading` and do not elsewhere. Two
buys are needed for any property about "the other orders"; two deployments for a
head change. Three attempts let a command be claimed first, taken over, and claimed
for the last time; two attempts of a job overlap and exhaust it. In `experiments`
the deadline passes before the attempts are used up, in `research` (deadline 3) the
attempts run out first, so both ends of a job occur. In `research` the second day
makes a call settle on another day than it was reserved, the day's limit refuses a
second call of a day, and a cost of 3 exceeds the allocation. In `trading_runtime`
the same bar arrives twice and the first has no order, so that a history exists
before there is something to lose. The guards have no bound except
`LastDay` and those of the monitor: every order ends, fills are bounded by the
quantity, tokens by the attempts, bars are finite, and the OMS lease is a holder and a
flag. The monitor runs for ever, so `MaxSnapshots`, `MaxBoots`, `Wicks` and `MaxRev`
bound it. The first assessment of a process is never ready, so three of them are unready,
candidate and withdrawal: the notice of the second may still be retried when that of the
third is out. A candidate that comes back takes a fourth, and is left to `TakenBackIsFinal`. Two processes are a crash and what
follows it; three revisions are a wick that is seen, confirmed and invalidated. Wicks
and candidates share nothing but the store and the sender, so they have runs of their own;
the proofs are about both together.

**Symmetry** of the processes is used in safety runs only; the runs that check
liveness go without.

**Deadlock** is checked in the OMS runs and in `trading_runtime`. In the others it
is not: when all commands, jobs or orders are decided, or the snapshots of the monitor
are used up, there is nothing left to do.

**Fairness.** `CommandQueue`: a free worker that could claim something does
(`run_forever` polls until it is stopped), a report is made (the handlers return),
time passes; each weakly fair. `OMS`: a call that waits for the venue has a timeout
(`asyncio.wait_for`), so submissions and cancellations in progress end (weak); a
reconciliation is started again and again, by `TradingRuntime` before each event and
by the control worker, and its steps get through although crashes and other
calls interrupt them (strong). Each condition is about all processes together: it
does not matter which of them gets through. The venue does not have to do anything,
and no crash is excluded. `Experiments` and `Research`: the clock runs and a worker
process goes on, both weakly fair; a run ends, if only by an error or a crash.
No heartbeat, request or cancellation is assumed. `HubTrading`: the monitor job
repeats `reconcile` (agent_hub/runtime.py:350; docs/agent-hub-architecture.md:176), and a lookup
that can succeed is answered and recorded one day (strong); no caller is fair. Strong fairness of the
steps is a statement about the loop as a whole: a reconciliation that dies at the
same step for ever resolves nothing, in the model and in the program.
`TradingRuntime` has no fairness: a halt is final until an operator acts. `Monitor`:
Docker starts the process again (`restart: unless-stopped`), a stop goes through to its end,
the store's thread takes the next request, the sender's loop goes on and its client has a
timeout of ten seconds, and the time of a retry comes; each weakly fair. Telegram need
not answer, and no crash is excluded.

## 5. What is proved

All proofs are for arbitrary sets of commands, jobs, trials, bars, workers, orders and
processes (finite where something is summed over them), and for every value of the
limits. Each component has a chain of inductive invariants, each proved on top of the
ones before, and every theorem follows from them. Every safety property of the passing
runs is the statement of a theorem. The strengthened invariants about money, and about
what processes still hold of the venue, were checked with TLC on the instances of
section 4 before they were proved.

**`SumProofs`** has the lemmas about totals. `SumOf` is a fold, and a fold is a
recursive function that `CHOOSE` picks by its equation, so nothing is known of it until
such a function is shown to exist. Induction over the set would give that and is not
available; instead the proofs take a smallest counterexample: strict inclusion among
the subsets of a finite set is well founded, so a nonempty collection of subsets on
which a statement fails has a minimal member (`SmallestBadSubset`), and that one is
refuted by the recursion equation. In this way two tables of partial sums agree
(`TablesAgree`), a table exists (`TableExists`), and a sum can be unfolded at *any* of
its members, not only at the one the fold takes first (`SumRemove`). From there:
how a sum changes with one entry (`SumChange`), with one more row (`SumAdd`), with a
larger column (`SumMonotone`) or a larger set (`SumSubset`), and what one entry can be
at most (`SumEntry`).

**`CommandQueueProofs`**, from `QueueAssumption`. The inductive invariant
`QueueInv` adds to the types that every token in memory was drawn before the next
one and that no two workers hold the same (`TokensFresh`), that only `PROCESSING`
rows have a token (`TokenWhileProcessing`) and that attempts count starts
(`AttemptsCounted`). It is needed because exclusiveness rests on tokens that were
handed out in the past. Theorems: `ClaimsAreExclusive`, `HandlerStartsBounded`,
`WaitingStaysClaimable`, `OutcomesAreFinal`, `LiveClaimsAreProtected`.

**`OMSProofs`**, from `AccountAssumption` and `OMSAssumption`. `AtMostOneSend`,
`NeverSentStays` and `OneSenderPerAccount` are not inductive. A sender that is
stalled for an hour relies on its row not having moved meanwhile, which rests on
nobody outside knowing the order; and nobody outside knows it because it was not
sent. `SenderInv` closes the circle: a claimed row never looks claimable
(`ClaimedRow`), two processes never act on one order (`OneActor`), before the send
the row is `SUBMITTING` or `UNKNOWN` and so blocks every other submission
(`BlockingRow`), an unclaimed order was not sent (`UnclaimedUnsent`), the venue, the
network and every view are ignorant of what was not sent (`OutsideKnows`,
`TodoKnown`), and what the log calls unsent is closed (`UnsentClosed`). There is
one lemma per call step; frames (`CallStep`, `QuietStep`, `RowStep`,
`EndUnsentStep`) carry what the steps have in common. The lease is never used:
sending once does not depend on it. Theorems: `SentAtMostOnce`,
`UnsentWasNotSent`, `SendersAreAlone`.

The second part of the module is about modes, closed orders and heads. `StopsLatch` needs no invariant:
every writer of the mode keeps it, halts, or writes `REDUCE_ONLY` over a mode that
is not `HALTED` (`ProcessLatches`, `ModeStep`). The rest goes through one statement
about a step, `RowStepOK`: how a row moves (`RowMoves`), that the head only moves
while the account is flat (`HeadMoves`), and that what could make an account
unhealthy halts it (`HealthKept`). A late view, a late fill or a late error could
break `RowMoves` by writing the row of an order that was never claimed; that they
cannot is `SenderInv` again (`SeenRow`) together with what a call may be about to
record (`AnswerTypes`). The inductive invariant is `RowInv`, proved relative to
`SenderInv`. Theorems: `ModesLatch`, `ActiveMeansHealthy`, `OpenUnderHead`,
`ClosedStaysClosed`.

The third part is about money and about being closed. `OutsideInv` says how far what
a process holds can be from the venue: a view only falls behind and shows an end only
if it is final (`ViewsTrue`), an answer not yet recorded is still true (`AnswersTrue`),
an order under way has not arrived (`VenueTrue`). `MoneyInv` ties each row to its
trades and those to the venue (`TradesTrue`), and adds `BudgetHeld` and
`LedgerMatchesFills` themselves: with the rows and the totals in one invariant the
totals are inductive. A step changes the money of one order at most (`MoneyMoves`): it
takes a reservation (`Taking`), frees the rest of one (`Closing`), books one trade
(`Filling`) or does nothing (`Still`); one lemma per action says which, and one per kind
what it does to the sums. Theorems: `BudgetStaysHeld`, `LedgerIsTheFills`. From the same
invariants: a row closed after a send was closed on an end the venue had reported or on
its last trade (`ClosedOnlyAtVenue`), and a fill that costs more than was reserved halts
(`ShortfallsHalt`).

The last part is the refinement. Whether an order is about to leave depends on the
calls alone (`StaysAt`, `Claims`, `LetsGo`), its row moves with the money, the venue
moves by itself; `OutboxMoves` says that every step of `OMS` changes one of the three
for one order, with the guard the abstract action has, and `OutboxAllows` that these
are the steps of `OrderOutbox`. Theorems: `OMSImplementsOutbox`, and `OMSTypeCorrect`
with the types nothing else needed.

**`ExperimentsProofs`**, from `JobAssumption` and `ExperimentAssumption`. At its head
stand lemmas on the job table: what each transaction keeps of the rows (`JobsKept`),
that only `finish` completes a job (`NoneCompleted`) and only `enqueue` adds one
(`NoneAdded`). `ExpInv`:
a job has a registered trial and a trial one job (`JobsRequested`, `OneJobPerTrial`), a
worker past its claim has a job and a token and finishes only what has a result
(`WorkersHaveTrials`), verdicts name results (`VerdictsNameResults`), and a granted
holdout has no undecided trial (`GrantedIsDecided`). The last is what freezes the
population: every writer after the grant finds its trial decided. Theorems:
`TypeCorrect`, `ResultsAreNamed`, `CompletedJobsHaveResults`, `HoldoutStaysFrozen`,
`CancelledStaysWithoutResult`. `OneJobPerTrial` is why a cancelled job closes its
trial: no other job could publish it.

**`ResearchProofs`**, from `JobAssumption` and `ResearchAssumption`. `ResearchInv`:
who is inside a call is at a node that calls, with a round left
(`WorkersOnCourse`), and a request that is about to leave has a reservation which
nobody else is sending (`RequestsReserved`). A reservation is never given up, so the
checkpoint may go back as far as it likes: the call it repeats is refused. Theorems:
`CallsPaidOnce`, `CancelledStaysSilent`. `SpendWithinLimits` is not inductive, because a
call is charged before it is settled. `MoneyInv` counts every call that is not settled
with its whole allocation (`Held`, `HeldWithinLimits`), knows that what was settled is
what the provider charged (`CostsKnown`), and that the counters are the sums
(`BudgetIsTheSum`): the ledger grants a reservation by its counters, and only as sums
do they bound anything. Theorems: `BudgetAddsUp`, `ChargesWithinLimits`,
`ResearchTypeCorrect`.

**`HubTradingProofs`**, from `HubTradingAssumption`. `HubInv`: a key was reserved by
one call (`CallersOwnKeys`), nobody outside knows what has not been sent
(`UnpostedIsOpen`), rows and venue agree (`RowsMatchVenue`), answers in hand are true
(`AnswersAreTrue`), and a tenant has one open order (`OneOpen`). Theorems:
`HubTypeCorrect`, `PostedAtMostOnce`, `RejectedIsNotFilled`, `AtMostOneFillMissing`,
`AccountedStays`. `MoneyInv` adds that a final result in hand carries exactly the fill
the venue executed (`AnswersAreExact`), that an open row reserves the whole order and a
booked one what it cost (`RowsReserve`), the books (`BooksMatchVenue`) and the limit on
what the rows reserve. A step touches a row, adds one, books one or moves the venue
(`Touched`, `Added`, `Booked`, `VenueMoved`). Theorems: `BooksAddUp`,
`DayStaysWithinLimit`.

**`TradingRuntimeProofs`**, from `RuntimeAssumption`. `RuntimeInv` is a statement
about every instance's memory (`Memories`: its token, what it knows of the head, what
it carries out, and that the strategy of an instance that could still save is the one
on record), the head (`Heads`) and the orders (`Sendings`), with the three properties
themselves. The memory of an instance that lost its lease may be anything; what keeps
it out is that `Checkpoint` compares lease and head in one transaction and that a
changed token blocks the instance (`Receive`). Theorems: `RuntimeTypeCorrect`,
`HistoryIsOnRecord`, `OneStepUnderWay`, `BarsAreTradedOnce`, `OrdersLeaveAsSaved`,
`SendingsAreAtTheHead`.

**`MonitorProofs`**, from `MonitorAssumption`, in three invariants. `OutboxInv`
relates, notice by notice, the row, the sender's memory, the requests under way and the
messages accepted: a row that may still be claimed has no request that could be
accepted (`SentSafely`), and the claim counts before the request leaves (`Counted`).
`RecordInv`: the stored revisions are a beginning of the queued ones and these of those
in memory (`Memory`); the notice of every end is stored, queued or pending (`Telling`);
the barrier covers every withdrawal of the latest grid (`Barred`); and once a process
has stored a snapshot, nothing an earlier one left is still open (`Renewed`), because
`restore` invalidates what it finds. `SendInv`: what `_is_current` established at the
claim still holds when the request leaves, since a commit in between only appends
revisions. Theorems: `NoticesAcceptedOnce`, `RequestsAreBounded`, `RecordAgrees`,
`EveryEndIsTold`, `OldStaySilent`, `TakenBackIsFinal`: all the safety properties of the
two runs, and the bound on requests.

## 6. What is only model-checked

* Liveness: `EveryCommandDecided`, `UnknownResolved`, `TrialDecided`, `RunEnds`,
  `ExecutedIsAccounted`, `NoticesSettle`. They need fairness, and with it `ENABLED`,
  which the prover does not handle.
* `RetryDelay` of the command queue is a function defined by recursion on the number of
  attempts. That it yields a delay for every number needs induction over the naturals,
  so of the queue's `TypeOK` only `RowTypes` is proved. No other theorem depends on it.

## 7. Where the code and its documents differ

* `docs/production-v4-implementation.md`, trading rule 4, says that an old lease
  cannot send. The lease is checked in the last transaction before the side effect;
  it may end between that commit and `adapter.submit`. `SendUnderLease` is violated.
  Sending twice is prevented by the row, not by the lease.
* Trading rule 4 also says that strategy state, checkpoint and original order are
  recovered together. When an instance dies between `reserve` and `submit` and the
  account is tightened meanwhile, the recovered step is refused by the risk check and
  completed as `blocked` (`runtime.py:295-302`), while its order stays `RESERVED`, with its
  budget, and nothing cancels it: nothing under `src/qt` calls `OMS.cancel`.
  `CompletedLeavesNoReservation` is violated.

More places were met while modelling and are described here without a run of their own:

* The same document says that a run of research ends with a skeptic who sees proposal
  and evidence (`:97`). A worker that finds its lease gone is routed to `finish` past the
  skeptic (`graph.py:195`); it publishes nothing itself, but the checkpoint of that step is
  not fenced, and the next attempt resumes there with a lease that is alive and publishes.
  `Research` has these steps: its `published` does not imply an answer of the skeptic.
* `docs/btc-monitor.md:109` says that the latest revision and the expiry are checked
  again before a notice is sent. `_is_current` compares positives only with the latest
  revision (`store.py:489`): a withdrawal that waits for its retry after a 429 is sent
  although the candidate has come back and was announced meanwhile. The reader's last
  message is then the withdrawal; `NothingAfterTakenBack` is what holds.
* A confirmed cancellation frees the whole reservation although a fill may not be
  ingested yet (`oms.py:680`; trading rule 3 says late fills keep their budget);
  `ShortfallHalts` is what holds.
* A cancellation that timed out is `UNKNOWN`, so an open snapshot clears it
  (`oms.py:821`, against the comment below it). While the order is `CANCEL_PENDING` the
  open snapshot is ignored with its settlement status, so a reorganisation it reports is
  recorded by a later one.
* A stalled sender whose lease check fails writes `UNKNOWN` and halts the account
  (`oms.py:612`; the comment at 556 says that it leaves `SUBMITTING`).

## 8. What is not modelled

Within the modelled components: the valuation inside the risk guard (equity, drawdown,
day boundaries), decimal rounding, the contents of intents, manifests, signatures and
quotes, the pages of a reconciliation batch (`complete = False`), the paper adapter's
order book, shadow deployments in the trading runtime, what model answers and
evidence say, paper mode of the agent hub (its submission is one transaction), and of the
monitor the feed, the arithmetic of bars and gates, configuration, the read-only API, the
self test and retention (seven days, 1000 rows: a full disk or outbox ends the process,
which is a `Crash`).

Components left out, and why:

* the agent hub's approvals, sessions and job store: the approvals are a table with a
  single read-then-update (of two decisions that cross, the later overwrites the other,
  `approvals.py:121`), the store is one more queue with a lease;
* runtime leases, health, watch lists, BTC alerts: one conditional update or one sequential
  loop each, without a state that several steps build up;
* strategies, indicators, statistics, backtest engines, market data, forecasting, the
  lab and the older research executor: numerical functions of their inputs, which
  belong to numerical tests and not to a model checker;
* dashboards, workbench, reports, web and deployment: readers and renderers;
* `legacy`: retired code.

These are most of the repository's lines, and modelling them line by line would say
nothing about an order of events: the parts where several actors change shared state
are the ones of section 1.1 in bold.
