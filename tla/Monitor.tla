------------------------------ MODULE Monitor ------------------------------
(***************************************************************************)
(* The BTC monitor (btc_monitor under src/qt): MonitorEngine revises wick  *)
(* events and one grid assessment per process and writes notices about     *)
(* them; the publisher saves a snapshot with its notices through the one   *)
(* thread of SnapshotStore; AsyncTelegram sends the outbox.  Notices that  *)
(* call for action (CONFIRMED, CANDIDATE) are positive, the others take    *)
(* one back.  The process may crash or be stopped anywhere and is started  *)
(* again from the database; Telegram may answer late, wrongly or never.    *)
(*                                                                         *)
(* Prices and gates are a choice of the market.  Time is the set of        *)
(* decisions that have expired, retries that are due and projections that  *)
(* are too old.  Retention (seven days, 1000 rows) is left out; a full     *)
(* disk or outbox fails the transaction and stops the process: a crash.    *)
(***************************************************************************)
EXTENDS Integers, Sequences, FiniteSetsExt

CONSTANTS
    Wicks,          \* how many wick events the market makes
    MaxRev,         \* revisions of a wick event
    MaxSnapshots,   \* snapshots on record
    MaxBoots,       \* starts of the process
    MaxAttempts,    \* max_attempts
    Passes          \* whether the market may pass the gates of the grid

ASSUME MonitorAssumption ==
    /\ Wicks \in Nat /\ MaxRev \in Nat /\ MaxSnapshots \in Nat /\ MaxBoots \in Nat
    /\ MaxAttempts \in Nat \ {0}
    /\ Passes \in BOOLEAN

VARIABLES
    boot, mode,   \* boot_id, and where the process is in its life
    rev,          \* engine memory: the revisions of each event
    covered,      \* the trade path since the last reset is long enough
    pending,      \* pending_notifications
    job,          \* the snapshot that is being persisted
    decisions,    \* table decisions, the checkpoint included
    barrier,      \* state.assessment_barrier
    exported,     \* latest.json
    projection,   \* _latest_projection: may a positive go out by its health?
    row, rowid,   \* table outbox, and its rows in the order of insertion
    lapsed,       \* per event, the last revision that has expired
    sender,       \* the memory of run_once
    wire,         \* requests Telegram has yet to handle
    posts, heard  \* history: requests made, and messages Telegram accepted

engine == <<rev, covered, pending>>
store == <<decisions, barrier, exported, projection>>
outbox == <<row, rowid>>
telegram == <<wire, posts, heard>>
vars == <<boot, mode, engine, job, store, outbox, lapsed, sender, telegram>>

Wick(k) == [kind |-> "wick", n |-> k]
Grid(b) == [kind |-> "grid", n |-> b]
WickIds == {Wick(k) : k \in 1..Wicks}
Ids == WickIds \union {Grid(b) : b \in 1..MaxBoots}
Last(i) == IF i.kind = "wick" THEN MaxRev ELSE MaxSnapshots
Notices == {n \in [id : Ids, rev : 1..MaxRev \union 1..MaxSnapshots] : n.rev <= Last(n.id)}
Notice(id, r) == [id |-> id, rev |-> r]

OpenEvent == {"WATCH", "CONFIRMED"}
Positives == {"CONFIRMED", "CANDIDATE"}
States == OpenEvent \union {"INVALIDATED", "EXPIRED", "CANDIDATE", "NONE"}
Revision == [state : States, by : 1..MaxBoots]
Revisions == [Ids -> Seq(Revision)]
Latest(revs) == revs[Len(revs)].state

RowStatus == {"absent", "pending", "sending", "accepted", "expired", "obsolete",
              "failed", "unknown"}
Row == [status : RowStatus, attempts : 0..MaxAttempts, due : BOOLEAN]

NoJob == [phase |-> "none", rev |-> [i \in Ids |-> <<>>], ready |-> FALSE, notes |-> <<>>]
Idle == [pc |-> "idle", batch |-> <<>>, attempts |-> 0]

\* The type invariant.
TypeOK ==
    /\ boot \in 0..MaxBoots
    /\ mode \in {"up", "stopping", "final", "down"}
    /\ rev \in Revisions /\ covered \in BOOLEAN /\ pending \in Seq(Notices)
    /\ job \in [phase : {"none", "queued", "committed"}, rev : Revisions,
                ready : BOOLEAN, notes : Seq(Notices)]
    /\ decisions \in Revisions /\ exported \in Revisions
    /\ barrier \in [boot : 0..MaxBoots, rev : 0..MaxSnapshots]
    /\ projection \in {"none", "unready", "ready"}
    /\ row \in [Notices -> Row] /\ rowid \in Seq(Notices)
    /\ \A i \in Ids : lapsed[i] \in 0..Last(i)
    /\ sender \in [pc : {"idle", "item", "claim", "post", "wait"},
                   batch : Seq(Notices), attempts : 0..MaxAttempts]
    /\ wire \subseteq Notices
    /\ posts \in [Notices -> Nat] /\ heard \in [Notices -> Nat]

Init ==
    /\ boot = 0 /\ mode = "down"
    /\ rev = [i \in Ids |-> <<>>] /\ covered = FALSE /\ pending = <<>>
    /\ job = NoJob
    /\ decisions = [i \in Ids |-> <<>>] /\ exported = [i \in Ids |-> <<>>]
    /\ barrier = [boot |-> 0, rev |-> 0]
    /\ projection = "none"
    /\ row = [n \in Notices |-> [status |-> "absent", attempts |-> 0, due |-> TRUE]]
    /\ rowid = <<>>
    /\ lapsed = [i \in Ids |-> 0]
    /\ sender = Idle
    /\ wire = {}
    /\ posts = [n \in Notices |-> 0] /\ heard = [n \in Notices |-> 0]

-----------------------------------------------------------------------------
(***************************************************************************)
(* The engine.                                                             *)
(***************************************************************************)

\* The wick events under way in revs: one at most.
Active(revs) == {i \in WickIds : revs[i] # <<>> /\ Latest(revs[i]) \in OpenEvent}

\* _revise.
Revised(revs, i, s, b) == [revs EXCEPT ![i] = Append(@, [state |-> s, by |-> b])]
Told(notes, revs, i, s) ==
    IF s \in {"CONFIRMED", "INVALIDATED"}
    THEN Append(notes, Notice(i, Len(revs[i]) + 1))
    ELSE notes

Revise(i, s) ==
    /\ s \in OpenEvent => Len(rev[i]) + 1 < MaxRev   \* its end has room
    /\ rev' = Revised(rev, i, s, boot)
    /\ pending' = Told(pending, rev, i, s)

Over(i) == lapsed[i] = MaxRev

\* _anomaly on an impulse: a new event when the last one is over and expired.
Impulse(k) ==
    /\ mode = "up"
    /\ rev[Wick(k)] = <<>>
    /\ \A j \in 1..(k - 1) : rev[Wick(j)] # <<>> /\ Over(Wick(j))
    /\ Active(rev) = {}
    /\ Revise(Wick(k), "WATCH")
    /\ UNCHANGED <<boot, mode, covered, job, store, outbox, lapsed, sender, telegram>>

\* _anomaly on a trade during an event.
Trade(i, s) ==
    /\ mode = "up"
    /\ i \in Active(rev)
    /\ \/ Over(i) /\ s = "EXPIRED"
       \/ ~Over(i) /\ Latest(rev[i]) = "WATCH" /\ s \in {"WATCH", "CONFIRMED"}
       \/ ~Over(i) /\ Latest(rev[i]) = "CONFIRMED" /\ s = "INVALIDATED"
    /\ Revise(i, s)
    /\ UNCHANGED <<boot, mode, covered, job, store, outbox, lapsed, sender, telegram>>

\* Invalidate what is under way: reset, restore and an unhealthy snapshot.
Withdraw(revs, b) ==
    [i \in Ids |-> IF i \in Active(revs)
                   THEN Append(revs[i], [state |-> "INVALIDATED", by |-> b])
                   ELSE revs[i]]
Withdrawals(notes, revs) ==
    IF Active(revs) = {} THEN notes
    ELSE LET i == CHOOSE i \in Active(revs) : TRUE
         IN  Append(notes, Notice(i, Len(revs[i]) + 1))

\* reset: a gap, disorder, a delay or a reconnection of the feed.
Reset ==
    /\ mode = "up"
    /\ rev' = Withdraw(rev, boot)
    /\ pending' = Withdrawals(pending, rev)
    /\ covered' = FALSE
    /\ UNCHANGED <<boot, mode, job, store, outbox, lapsed, sender, telegram>>

-----------------------------------------------------------------------------
(***************************************************************************)
(* The publisher.                                                          *)
(***************************************************************************)

IsPositive(revs, n) == revs[n.id][n.rev].state \in Positives

\* Variant: every notice of the job is dropped.
KeptIfReady(n) == job.ready

\* The notices of the job that are kept when the data is not ready.
Kept(n) == job.ready \/ ~IsPositive(job.rev, n)

\* _assessment: the next revision of the grid, and a notice where it changes.
Assessed(revs, g, candidate) ==
    Revised(revs, g, IF candidate THEN "CANDIDATE" ELSE "NONE", boot)
AssessmentNotes(notes, revs, g, candidate) ==
    LET was == revs[g] # <<>> /\ Latest(revs[g]) = "CANDIDATE"
    IN  IF was # candidate THEN Append(notes, Notice(g, Len(revs[g]) + 1)) ELSE notes

\* MaxSnapshots bounds the revisions of this process, and those of all.
Snapshots(revs) ==
    Len(revs[Grid(boot)])
      + MapThenSumSet(LAMBDA b : Len(decisions[Grid(b)]), 1..(boot - 1))
Room(revs) == Len(revs[Grid(boot)]) < MaxSnapshots /\ Snapshots(revs) < MaxSnapshots

Publish(revs, notes, ready, candidate) ==
    LET g == Grid(boot)
        next == Assessed(revs, g, candidate)
    IN  /\ Room(revs)
        /\ rev' = next
        /\ job' = [phase |-> "queued", rev |-> next, ready |-> ready,
                   notes |-> AssessmentNotes(notes, revs, g, candidate)]
        /\ pending' = <<>>

\* _publish: snapshot, drain_notifications and the request to the store.
Snapshot(channels, ready, candidate) ==
    /\ mode = "up" /\ job.phase = "none"
    /\ ready => channels /\ covered
    /\ candidate => ready /\ Passes
    /\ IF \E i \in Active(rev) : Over(i)
       THEN LET i == CHOOSE i \in Active(rev) : TRUE
            IN  Publish(Revised(rev, i, "EXPIRED", boot), pending, ready, candidate)
       ELSE IF channels THEN Publish(rev, pending, ready, candidate)
       ELSE Publish(Withdraw(rev, boot), Withdrawals(pending, rev), ready, candidate)
    /\ covered' = TRUE
    /\ UNCHANGED <<boot, mode, store, outbox, lapsed, sender, telegram>>

-----------------------------------------------------------------------------
(***************************************************************************)
(* The store.  One thread executes one request after the other.            *)
(***************************************************************************)

Free == job.phase # "committed"

HasLapsed(n) == n.rev <= lapsed[n.id]

\* Variant: a notice is judged by its expiry alone.
IsCurrentUntilExpiry(n) ==
    /\ ~HasLapsed(n)
    /\ IsPositive(decisions, n) => projection = "ready"

\* _is_current.
IsCurrent(n) ==
    LET revs == decisions[n.id]
    IN  /\ ~HasLapsed(n)
        /\ IsPositive(decisions, n) =>
              /\ projection = "ready"
              /\ ~HasLapsed(Notice(n.id, Len(revs)))
              /\ \/ /\ Latest(revs) = "CANDIDATE"
                    /\ n.id = Grid(barrier.boot)
                    /\ barrier.rev < n.rev /\ n.rev <= Len(revs)
                 \/ Latest(revs) = "CONFIRMED" /\ n.rev = Len(revs)
\* A revision is never stored with another content than it had.
Conflicts(i) ==
    \E r \in DOMAIN job.rev[i] \intersect DOMAIN decisions[i] :
       job.rev[i][r] # decisions[i][r]

\* Rows that wait beyond their time.
Expired(rows) ==
    [n \in Notices |-> IF rows[n].status = "pending" /\ HasLapsed(n)
                       THEN [rows[n] EXCEPT !.status = "expired"]
                       ELSE rows[n]]

\* _persist up to the commit, with _retain.
Commit ==
    LET new(n) == /\ \E k \in DOMAIN job.notes : job.notes[k] = n
                  /\ Kept(n)
                  /\ row[n].status = "absent"
        added == [n \in Notices |->
                    IF new(n) THEN [row[n] EXCEPT !.status = "pending"] ELSE row[n]]
        grid == job.rev[Grid(boot)]
    IN  /\ job.phase = "queued"
        /\ \A i \in Ids : ~Conflicts(i)
        /\ decisions' = [i \in Ids |-> IF Len(job.rev[i]) > Len(decisions[i])
                                       THEN job.rev[i] ELSE decisions[i]]
        /\ row' = Expired(added)
        /\ rowid' = rowid \o SelectSeq(job.notes, LAMBDA n : new(n))
        /\ barrier' = [boot |-> boot,
                       rev |-> IF Latest(grid) # "CANDIDATE" THEN Len(grid)
                               ELSE IF barrier.boot = boot THEN barrier.rev ELSE 0]
        /\ job' = [job EXCEPT !.phase = "committed"]
        /\ UNCHANGED <<boot, mode, engine, exported, projection, lapsed, sender, telegram>>

\* _atomic_export, and the projection that positives are judged by.
Export ==
    /\ job.phase = "committed"
    /\ exported' = job.rev
    /\ projection' = IF job.ready THEN "ready" ELSE "unready"
    /\ job' = NoJob
    /\ UNCHANGED <<boot, mode, engine, decisions, barrier, outbox, lapsed, sender, telegram>>

-----------------------------------------------------------------------------
(***************************************************************************)
(* The sender.                                                             *)
(***************************************************************************)

Item == Head(sender.batch)
NextItem ==
    sender' = IF Tail(sender.batch) = <<>> THEN Idle
              ELSE [Idle EXCEPT !.pc = "item", !.batch = Tail(sender.batch)]

\* update_outbox, and on to the next item of the batch.
Update(status, n) ==
    /\ Free
    /\ row' = [row EXCEPT ![Item] = [status |-> status, attempts |-> n,
                                     due |-> status # "pending"]]
    /\ NextItem

\* fetch_outbox: expire, list what is due, and drop what is not current.
Fetch ==
    LET alive == Expired(row)
        due(n) == alive[n].status = "pending" /\ alive[n].due
        batch == SelectSeq(rowid, LAMBDA n : due(n) /\ IsCurrent(n))
    IN  /\ mode = "up" /\ sender.pc = "idle" /\ Free
        /\ row' = [n \in Notices |-> IF due(n) /\ ~IsCurrent(n)
                                     THEN [alive[n] EXCEPT !.status = "obsolete"]
                                     ELSE alive[n]]
        /\ sender' = IF batch = <<>> THEN Idle
                     ELSE [Idle EXCEPT !.pc = "item", !.batch = batch]
        /\ UNCHANGED <<boot, mode, engine, job, store, rowid, lapsed, telegram>>

\* notification_is_current, and the limit of attempts.
CheckItem ==
    /\ sender.pc = "item" /\ Free
    /\ IF ~IsCurrent(Item) THEN Update("obsolete", row[Item].attempts)
       ELSE IF row[Item].attempts >= MaxAttempts THEN Update("failed", row[Item].attempts)
       ELSE row' = row /\ sender' = [sender EXCEPT !.pc = "claim"]
    /\ UNCHANGED <<boot, mode, engine, job, store, rowid, lapsed, telegram>>

\* claim_outbox.
Claim ==
    /\ sender.pc = "claim" /\ Free
    /\ IF IsCurrent(Item) /\ row[Item].status = "pending" /\ row[Item].due
       THEN /\ row' = [row EXCEPT ![Item].status = "sending", ![Item].attempts = @ + 1]
            /\ sender' = [sender EXCEPT !.pc = "post", !.attempts = row[Item].attempts + 1]
       ELSE row' = row /\ NextItem
    /\ UNCHANGED <<boot, mode, engine, job, store, rowid, lapsed, telegram>>

\* client.post leaves.
Post ==
    /\ sender.pc = "post"
    /\ wire' = wire \union {Item}
    /\ posts' = [posts EXCEPT ![Item] = @ + 1]
    /\ sender' = [sender EXCEPT !.pc = "wait"]
    /\ UNCHANGED <<boot, mode, engine, job, store, outbox, lapsed, heard>>

(***************************************************************************)
(* The branches of run_once on the answer, each with what Telegram did.    *)
(* The answer and the update of the row are one step: nobody else writes   *)
(* a row that is being sent, and a crash between them is Deliver or Lose   *)
(* before the crash.                                                       *)
(***************************************************************************)
Answered ==
    /\ sender.pc = "wait" /\ Item \in wire
    /\ wire' = wire \ {Item}
    /\ UNCHANGED <<boot, mode, engine, job, store, rowid, lapsed, posts>>

Accepted ==
    /\ Answered
    /\ heard' = [heard EXCEPT ![Item] = @ + 1]
    /\ Update("accepted", sender.attempts)

\* 429: the horizon, the expiry of the notice, or another attempt.
Limited(status) ==
    /\ Answered /\ heard' = heard
    /\ IF sender.attempts >= MaxAttempts THEN status = "failed"
       ELSE status \in {"failed", "expired", "pending"}
    /\ Update(status, sender.attempts)
Rejected == Answered /\ heard' = heard /\ Update("failed", sender.attempts)

\* Variant: an unclear outcome is tried again.
UnclearRetried ==
    /\ sender.pc = "wait"
    /\ Update(IF sender.attempts < MaxAttempts THEN "pending" ELSE "unknown", sender.attempts)
    /\ UNCHANGED <<boot, mode, engine, job, store, rowid, lapsed, telegram>>

\* A timeout, a broken connection, a 5xx or a body that is not Telegram's.
Unclear ==
    /\ sender.pc = "wait"
    /\ Update("unknown", sender.attempts)
    /\ UNCHANGED <<boot, mode, engine, job, store, rowid, lapsed, telegram>>
\* Telegram handles a request whose answer does not arrive, perhaps after
\* its sender gave up or died; or the request is lost.
Deliver(n) ==
    /\ n \in wire
    /\ wire' = wire \ {n}
    /\ heard' = [heard EXCEPT ![n] = @ + 1]
    /\ UNCHANGED <<boot, mode, engine, job, store, outbox, lapsed, sender, posts>>

Lose(n) ==
    /\ n \in wire
    /\ wire' = wire \ {n}
    /\ UNCHANGED <<boot, mode, engine, job, store, outbox, lapsed, sender, posts, heard>>

-----------------------------------------------------------------------------
(***************************************************************************)
(* Time.                                                                   *)
(***************************************************************************)

\* A wick event expires with all its revisions, an assessment by itself.
Lapse(i) ==
    /\ rev[i] # <<>> \/ decisions[i] # <<>>
    /\ IF i \in WickIds
       THEN lapsed[i] = 0 /\ lapsed' = [lapsed EXCEPT ![i] = MaxRev]
       ELSE /\ lapsed[i] < Len(rev[i]) \/ lapsed[i] < Len(decisions[i])
            /\ lapsed' = [lapsed EXCEPT ![i] = @ + 1]
    /\ UNCHANGED <<boot, mode, engine, job, store, outbox, sender, telegram>>

RetryDue(n) ==
    /\ row[n].status = "pending" /\ ~row[n].due
    /\ row' = [row EXCEPT ![n].due = TRUE]
    /\ UNCHANGED <<boot, mode, engine, job, store, rowid, lapsed, sender, telegram>>

\* _positive_eligible: the projection, or a channel in it, is too old.
Age ==
    /\ projection = "ready"
    /\ projection' = "unready"
    /\ UNCHANGED <<boot, mode, engine, job, decisions, barrier, exported, outbox, lapsed,
                   sender, telegram>>

-----------------------------------------------------------------------------
(***************************************************************************)
(* The life of the process.                                                *)
(***************************************************************************)

\* What was never stored did not happen: its wick events have no expiry yet.
Remembered == [i \in Ids |-> IF decisions[i] = <<>> THEN 0 ELSE lapsed[i]]

\* Variant: the readiness on record is trusted after a restart.
ForgetButReady ==
    /\ mode' = "down"
    /\ lapsed' = Remembered
    /\ rev' = [i \in Ids |-> <<>>] /\ pending' = <<>> /\ covered' = FALSE
    /\ job' = NoJob
    /\ sender' = Idle
    /\ UNCHANGED <<boot, decisions, barrier, exported, projection, outbox, telegram>>

Forget ==
    /\ mode' = "down"
    /\ lapsed' = Remembered
    /\ rev' = [i \in Ids |-> <<>>] /\ pending' = <<>> /\ covered' = FALSE
    /\ job' = NoJob
    /\ projection' = "none"
    /\ sender' = Idle
    /\ UNCHANGED <<boot, decisions, barrier, exported, outbox, telegram>>
\* The process dies, also by a failure of the store or by its watchdog.
Crash == mode # "down" /\ boot < MaxBoots /\ Forget

\* SIGTERM: the tasks are cancelled, a queued snapshot is still stored.
Stop ==
    /\ mode = "up" /\ boot < MaxBoots /\ Room(rev)
    /\ mode' = "stopping"
    /\ sender' = Idle
    /\ UNCHANGED <<boot, engine, job, store, outbox, lapsed, telegram>>

\* The last snapshot, after reset.
LastSnapshot ==
    /\ mode = "stopping" /\ job.phase = "none"
    /\ Publish(Withdraw(rev, boot), Withdrawals(pending, rev), FALSE, FALSE)
    /\ mode' = "final"
    /\ covered' = FALSE
    /\ UNCHANGED <<boot, store, outbox, lapsed, sender, telegram>>

Exit == mode = "final" /\ job.phase = "none" /\ Forget

\* Variant: it is left as it was.
InterruptedKept(r) == r

\* _initialize: what was being sent at the crash is never sent again.
Interrupted(r) == IF r.status = "sending" THEN [r EXCEPT !.status = "unknown"] ELSE r
\* Variant: as of the last export.
CheckpointExported == [i \in Ids |-> IF i \in WickIds THEN exported[i] ELSE <<>>]

\* load_checkpoint: recent_events as of the last commit.
Checkpoint == [i \in Ids |-> IF i \in WickIds THEN decisions[i] ELSE <<>>]
\* start of the store, load_checkpoint and MonitorEngine.restore.
Start ==
    /\ mode = "down" /\ boot < MaxBoots
    /\ boot' = boot + 1
    /\ mode' = "up"
    /\ row' = [n \in Notices |-> Interrupted(row[n])]
    /\ rev' = Withdraw(Checkpoint, boot + 1)
    /\ pending' = Withdrawals(<<>>, Checkpoint)
    /\ UNCHANGED <<covered, job, store, rowid, lapsed, sender, telegram>>

-----------------------------------------------------------------------------
Engine ==
    \/ \E k \in 1..Wicks : Impulse(k)
    \/ \E i \in WickIds : \E s \in States : Trade(i, s)
    \/ Reset
    \/ \E channels, ready, candidate \in BOOLEAN :
          Snapshot(channels, ready, candidate)

Sending ==
    \/ Fetch \/ CheckItem \/ Claim \/ Post
    \/ Accepted \/ (\E s \in RowStatus : Limited(s)) \/ Rejected \/ Unclear

Next ==
    \/ Engine
    \/ Commit \/ Export
    \/ Sending
    \/ \E n \in Notices : Deliver(n) \/ Lose(n) \/ RetryDue(n)
    \/ \E i \in Ids : Lapse(i)
    \/ Age
    \/ Crash \/ Stop \/ LastSnapshot \/ Exit \/ Start

Spec == Init /\ [][Next]_vars

(***************************************************************************)
(* Docker restarts the process, the store's thread and the sender's loop   *)
(* run on, the client has a timeout, and time passes.                      *)
(***************************************************************************)
FairSpec ==
    /\ Spec
    /\ WF_vars(Start) /\ WF_vars(LastSnapshot) /\ WF_vars(Exit)
    /\ WF_vars(Commit) /\ WF_vars(Export)
    /\ WF_vars(Sending)
    /\ \A n \in Notices : WF_vars(RetryDue(n))

-----------------------------------------------------------------------------
(***************************************************************************)
(* Properties.                                                             *)
(***************************************************************************)

\* A message reaches the reader at most once, whatever is lost, late or
\* interrupted: an unclear outcome is final.
AcceptedOnce == \A n \in Notices : heard[n] <= 1

\* max_attempts bounds the requests for a notice over all restarts.
AttemptsBounded == \A n \in Notices : posts[n] <= MaxAttempts

\* m takes n back: a later revision of the same event that is not positive.
TakesBack(m, n) ==
    /\ m.id = n.id /\ m.rev > n.rev
    /\ row[m].status # "absent" /\ ~IsPositive(decisions, m)

Posting(n) == posts'[n] # posts[n]

\* After the reader was told that an opportunity is over, a request that
\* announces it does not leave any more, not even on a retry.
NothingAfterTakenBack ==
    [][\A n, m \in Notices :
          Posting(n) /\ IsPositive(decisions, n) /\ TakesBack(m, n) => posts[m] = 0]_vars

\* An opportunity seen by an earlier process is never announced by this one,
\* whose market data had to start anew.
OldOpportunitiesSilent ==
    [][\A n \in Notices :
          Posting(n) /\ IsPositive(decisions, n) => decisions[n.id][n.rev].by = boot]_vars

\* The process never computes another content for a revision on record; the
\* store would refuse every further snapshot.
RevisionsAgree == job.phase = "queued" => \A i \in Ids : ~Conflicts(i)

\* With every invalidation and every end of a candidate on record goes its
\* notice; there is no crash between them.
Ended(i, r) ==
    \/ decisions[i][r].state = "INVALIDATED"
    \/ decisions[i][r].state = "NONE" /\ r > 1 /\ decisions[i][r - 1].state = "CANDIDATE"
EndingsAreTold ==
    \A i \in Ids : \A r \in DOMAIN decisions[i] :
       Ended(i, r) => row[Notice(i, r)].status # "absent"

\* No notice waits or is being sent for ever.
NoticesSettle ==
    \A n \in Notices :
       row[n].status \in {"pending", "sending"} ~> row[n].status \notin {"pending", "sending"}
=============================================================================
