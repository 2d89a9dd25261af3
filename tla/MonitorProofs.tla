--------------------------- MODULE MonitorProofs ---------------------------
(***************************************************************************)
(* What the monitor keeps for every number of events, revisions, restarts  *)
(* and attempts, in three inductive invariants.                            *)
(*                                                                         *)
(* OutboxInv, for the requests: that a message is accepted once is not     *)
(* inductive, since a notice may only be waiting for a request when no     *)
(* earlier request for it can still be accepted.  So the status of a row,  *)
(* the sender's memory, the requests under way and the messages accepted   *)
(* are related notice by notice; the requests follow the attempts on the   *)
(* row, which the claim raises before the request leaves.                  *)
(*                                                                         *)
(* RecordInv, for the record: the revisions that are stored are a          *)
(* beginning of those that are queued, and these of those in memory, and   *)
(* the notice of every end is in the outbox, with the queued snapshot or   *)
(* among the pending ones.                                                 *)
(*                                                                         *)
(* SendInv, for what is announced: IsCurrent is judged at the claim, and   *)
(* a commit before the request leaves changes no revision a row is about.  *)
(***************************************************************************)
EXTENDS Monitor, TLAPS

OutboxTypes ==
    /\ row \in [Notices -> [status : RowStatus, attempts : Nat, due : BOOLEAN]]
    /\ posts \in [Notices -> Nat] /\ heard \in [Notices -> Nat]
    /\ sender = [pc |-> sender.pc, batch |-> sender.batch, attempts |-> sender.attempts]

\* No request for n can be accepted, now or later.
Unsent(n) == n \notin wire /\ heard[n] = 0
Handles(n, pc) == sender.pc = pc /\ Item = n

SentSafely(n) ==
    /\ n \in wire => heard[n] = 0
    /\ heard[n] <= 1
    /\ row[n].status \in {"absent", "pending"} => Unsent(n)
    /\ Handles(n, "post") => row[n].status = "sending" /\ Unsent(n)
    /\ Handles(n, "wait") => row[n].status = "sending"

Counted(n) ==
    /\ posts[n] <= MaxAttempts
    /\ row[n].status \in {"absent", "pending"} => posts[n] <= row[n].attempts
    /\ Handles(n, "claim") => row[n].attempts < MaxAttempts
    /\ Handles(n, "post") => /\ sender.attempts = row[n].attempts
                             /\ row[n].attempts <= MaxAttempts
                             /\ posts[n] < row[n].attempts
    /\ Handles(n, "wait") => /\ sender.attempts = row[n].attempts
                             /\ row[n].attempts <= MaxAttempts
                             /\ posts[n] <= row[n].attempts

\* Only a process that is up sends.
SenderUp == sender.pc # "idle" => mode = "up"

OutboxInv == OutboxTypes /\ SenderUp /\ \A n \in Notices : SentSafely(n) /\ Counted(n)

Undisturbed == UNCHANGED <<row, sender, telegram>>

LEMMA UndisturbedKeeps ==
    ASSUME OutboxInv, Undisturbed, mode = "up" => mode' = "up"
    PROVE  OutboxInv'
  BY DEF OutboxInv, OutboxTypes, SentSafely, Counted, Unsent, Handles, Item, Undisturbed,
         SenderUp, telegram

LEMMA InitOutbox == Init => OutboxInv
  BY MonitorAssumption
     DEF Init, OutboxInv, OutboxTypes, SentSafely, Counted, Unsent, Handles, Idle, RowStatus,
         SenderUp

(***************************************************************************)
(* What the store writes on its own: rows that were not there wait, rows   *)
(* that wait expire, rows that were being sent become unknown.             *)
(***************************************************************************)
Retained(n) ==
    /\ row'[n].attempts = row[n].attempts
    /\ row'[n] \in [status : RowStatus, attempts : Nat, due : BOOLEAN]
    /\ \/ row'[n].status = row[n].status
       \/ row[n].status \in {"absent", "pending"} /\ row'[n].status # "sending"

LEMMA RetainedKeeps ==
    ASSUME OutboxInv, SenderUp', UNCHANGED telegram,
           row' = [n \in Notices |-> row'[n]],
           \A n \in Notices : Retained(n),
           sender' = sender \/ (sender' = [pc |-> sender'.pc, batch |-> sender'.batch,
                                           attempts |-> sender'.attempts]
                                /\ sender'.pc \in {"idle", "item"})
    PROVE  OutboxInv'
PROOF
  <1>1. OutboxTypes'
    BY DEF OutboxInv, OutboxTypes, Retained, telegram
  <1>2. ASSUME NEW n \in Notices PROVE SentSafely(n)' /\ Counted(n)'
    <2>1. SentSafely(n) /\ Counted(n) /\ Retained(n)
      BY DEF OutboxInv
    <2> QED
      BY <2>1 DEF SentSafely, Counted, Retained, Unsent, Handles, Item, telegram
  <1> QED
    BY <1>1, <1>2 DEF OutboxInv

LEMMA ExpiredRow ==
    ASSUME NEW rows, rows \in [Notices -> [status : RowStatus, attempts : Nat, due : BOOLEAN]],
           NEW n \in Notices
    PROVE  /\ Expired(rows)[n] \in [status : RowStatus, attempts : Nat, due : BOOLEAN]
           /\ Expired(rows)[n].attempts = rows[n].attempts
           /\ \/ Expired(rows)[n].status = rows[n].status
              \/ rows[n].status = "pending" /\ Expired(rows)[n].status = "expired"
  BY DEF Expired, RowStatus

LEMMA CommitKeeps ==
    ASSUME OutboxInv, Commit
    PROVE  OutboxInv'
PROOF
  <1> DEFINE added == [n \in Notices |->
                         IF /\ \E k \in DOMAIN job.notes : job.notes[k] = n
                            /\ Kept(n)
                            /\ row[n].status = "absent"
                         THEN [row[n] EXCEPT !.status = "pending"] ELSE row[n]]
  <1>1. row' = Expired(added) /\ sender' = sender /\ UNCHANGED <<mode, telegram>>
    BY DEF Commit
  <1>2. /\ added \in [Notices -> [status : RowStatus, attempts : Nat, due : BOOLEAN]]
        /\ \A n \in Notices :
              /\ added[n].attempts = row[n].attempts
              /\ \/ added[n].status = row[n].status
                 \/ row[n].status = "absent" /\ added[n].status = "pending"
    BY DEF OutboxInv, OutboxTypes, RowStatus
  <1> HIDE DEF added
  <1>3. ASSUME NEW n \in Notices PROVE Retained(n)
    BY <1>1, <1>2, ExpiredRow DEF Retained
  <1>4. row' = [n \in Notices |-> row'[n]]
    BY <1>1 DEF Expired
  <1> QED
    BY <1>1, <1>3, <1>4, RetainedKeeps DEF OutboxInv, SenderUp

LEMMA FetchKeeps ==
    ASSUME OutboxInv, Fetch
    PROVE  OutboxInv'
PROOF
  <1> DEFINE alive == Expired(row)
             drop(n) == alive[n].status = "pending" /\ alive[n].due /\ ~IsCurrent(n)
             batch == SelectSeq(rowid, LAMBDA n : (alive[n].status = "pending" /\ alive[n].due)
                                                     /\ IsCurrent(n))
  <1>1. /\ row' = [n \in Notices |-> IF drop(n) THEN [alive[n] EXCEPT !.status = "obsolete"]
                                     ELSE alive[n]]
        /\ sender' = IF batch = <<>> THEN Idle
                     ELSE [Idle EXCEPT !.pc = "item", !.batch = batch]
        /\ mode = "up" /\ mode' = mode
        /\ UNCHANGED telegram
    BY DEF Fetch
  <1>2. \A n \in Notices :
           /\ alive[n] \in [status : RowStatus, attempts : Nat, due : BOOLEAN]
           /\ alive[n].attempts = row[n].attempts
           /\ \/ alive[n].status = row[n].status
              \/ row[n].status = "pending" /\ alive[n].status = "expired"
    BY ExpiredRow DEF OutboxInv, OutboxTypes
  <1>3. /\ sender' = [pc |-> sender'.pc, batch |-> sender'.batch, attempts |-> sender'.attempts]
        /\ sender'.pc \in {"idle", "item"}
    BY <1>1 DEF Idle
  <1> HIDE DEF alive, batch
  <1>4. ASSUME NEW n \in Notices PROVE Retained(n)
    <2>1. CASE drop(n)
      <3>1. row'[n] = [alive[n] EXCEPT !.status = "obsolete"]
        BY <1>1, <2>1
      <3> QED
        BY <3>1, <1>2, <2>1 DEF Retained, RowStatus
    <2>2. CASE ~drop(n)
      <3>1. row'[n] = alive[n]
        BY <1>1, <2>2
      <3> QED
        BY <3>1, <1>2 DEF Retained
    <2> QED
      BY <2>1, <2>2
  <1>5. row' = [n \in Notices |-> row'[n]]
    BY <1>1
  <1> QED
    BY <1>1, <1>3, <1>4, <1>5, RetainedKeeps DEF SenderUp

LEMMA StartKeeps ==
    ASSUME OutboxInv, Start
    PROVE  OutboxInv'
PROOF
  <1>1. /\ row' = [n \in Notices |-> Interrupted(row[n])]
        /\ sender' = sender /\ sender.pc = "idle" /\ UNCHANGED telegram
    BY DEF Start, OutboxInv, SenderUp
  <1>2. ASSUME NEW n \in Notices
        PROVE  /\ row'[n] \in [status : RowStatus, attempts : Nat, due : BOOLEAN]
               /\ row'[n].attempts = row[n].attempts
               /\ row'[n].status = row[n].status \/ row'[n].status = "unknown"
    BY <1>1 DEF Interrupted, OutboxInv, OutboxTypes, RowStatus
  <1>3. OutboxTypes' /\ SenderUp'
    BY <1>1, <1>2 DEF OutboxInv, OutboxTypes, SenderUp, telegram
  <1>4. ASSUME NEW n \in Notices PROVE SentSafely(n)' /\ Counted(n)'
    <2>1. SentSafely(n) /\ Counted(n)
      BY DEF OutboxInv
    <2> QED
      BY <1>1, <1>2, <2>1 DEF SentSafely, Counted, Unsent, Handles, telegram
  <1> QED
    BY <1>3, <1>4 DEF OutboxInv

\* The process that is gone handles nothing.
LEMMA ForgetKeeps ==
    ASSUME OutboxInv, sender' = Idle, UNCHANGED <<row, telegram>>
    PROVE  OutboxInv'
PROOF
  <1>1. OutboxTypes' /\ SenderUp'
    BY DEF OutboxInv, OutboxTypes, SenderUp, Idle, telegram
  <1>2. ASSUME NEW n \in Notices PROVE SentSafely(n)' /\ Counted(n)'
    <2>1. SentSafely(n) /\ Counted(n)
      BY DEF OutboxInv
    <2> QED
      BY <2>1 DEF SentSafely, Counted, Unsent, Handles, Idle, telegram
  <1> QED
    BY <1>1, <1>2 DEF OutboxInv

-----------------------------------------------------------------------------
\* Histories are counted up one notice at a time.
LEMMA CountedUp ==
    ASSUME NEW S, NEW f \in [S -> Nat], NEW k
    PROVE  /\ [f EXCEPT ![k] = @ + 1] \in [S -> Nat]
           /\ \A n \in S : [f EXCEPT ![k] = @ + 1][n] = IF n = k THEN f[n] + 1 ELSE f[n]
PROOF
  <1>1. \A n \in S : [f EXCEPT ![k] = @ + 1][n] = IF n = k THEN f[n] + 1 ELSE f[n]
    OBVIOUS
  <1>2. \A n \in S : f[n] + 1 \in Nat
    OBVIOUS
  <1> QED
    BY <1>1, <1>2

(***************************************************************************)
(* What the sender does with its item.                                     *)
(***************************************************************************)

LEMMA NextItemHandlesNone ==
    ASSUME NextItem
    PROVE  /\ sender' = [pc |-> sender'.pc, batch |-> sender'.batch,
                         attempts |-> sender'.attempts]
           /\ sender'.pc \in {"idle", "item"}
  BY DEF NextItem, Idle

\* A row is closed for good, or waits again when no request can be accepted.
LEMMA UpdateKeeps ==
    ASSUME OutboxInv, sender.pc \in {"item", "wait"}, mode' = mode,
           NEW st \in RowStatus \ {"absent", "sending"}, NEW a, Update(st, a),
           Item \in Notices => a = row[Item].attempts,
           st = "pending" => /\ Item \notin wire' /\ sender.pc = "wait"
                             /\ Item \in Notices => heard'[Item] = 0,
           wire' \subseteq wire, posts' = posts,
           heard' \in [Notices -> Nat],
           \A n \in Notices : \/ heard'[n] = heard[n]
                              \/ n \in wire \ wire' /\ heard'[n] = heard[n] + 1 /\ n = Item
    PROVE  OutboxInv'
PROOF
  <1>1. /\ row' = [row EXCEPT ![Item] = [status |-> st, attempts |-> a, due |-> st # "pending"]]
        /\ NextItem
    BY DEF Update
  <1>2. OutboxTypes'
    BY <1>1, NextItemHandlesNone DEF OutboxInv, OutboxTypes
  <1>3. SenderUp'
    BY DEF OutboxInv, SenderUp
  <1>4. ASSUME NEW n \in Notices PROVE SentSafely(n)' /\ Counted(n)'
    <2>1. /\ SentSafely(n) /\ Counted(n)
          /\ row[n] \in [status : RowStatus, attempts : Nat, due : BOOLEAN]
          /\ heard[n] \in Nat /\ posts[n] \in Nat
      BY DEF OutboxInv, OutboxTypes
    <2>2. sender'.pc \in {"idle", "item"}
      BY <1>1, NextItemHandlesNone
    <2>3. CASE n = Item
      <3>1. row'[n].status = st /\ row'[n].attempts = row[n].attempts
        BY <1>1, <2>3 DEF OutboxInv, OutboxTypes
      <3> QED
        BY <2>1, <2>2, <2>3, <3>1 DEF SentSafely, Counted, Unsent, Handles
    <2>4. CASE n # Item
      <3>1. row'[n] = row[n]
        BY <1>1, <2>4 DEF OutboxInv, OutboxTypes
      <3> QED
        BY <2>1, <2>2, <2>4, <3>1 DEF SentSafely, Counted, Unsent, Handles
    <2> QED
      BY <2>3, <2>4
  <1> QED
    BY <1>2, <1>3, <1>4 DEF OutboxInv

LEMMA CheckItemKeeps ==
    ASSUME OutboxInv, CheckItem
    PROVE  OutboxInv'
PROOF
  <1>1. sender.pc = "item" /\ mode' = mode /\ UNCHANGED telegram
    BY DEF CheckItem
  <1>2. CASE \E st \in {"obsolete", "failed"} : Update(st, row[Item].attempts)
    <2>1. PICK st \in {"obsolete", "failed"} : Update(st, row[Item].attempts)
      BY <1>2
    <2>2. st \in RowStatus \ {"absent", "sending"} /\ st # "pending"
      BY DEF RowStatus
    <2>3. heard' \in [Notices -> Nat] /\ heard' = heard /\ wire' = wire /\ posts' = posts
      BY <1>1 DEF OutboxInv, OutboxTypes, telegram
    <2> QED
      BY <1>1, <2>1, <2>2, <2>3, UpdateKeeps
  <1>3. CASE /\ row[Item].attempts < MaxAttempts \/ Item \notin Notices
             /\ row' = row /\ sender' = [sender EXCEPT !.pc = "claim"]
    <2>1. OutboxTypes' /\ SenderUp'
      BY <1>1, <1>3 DEF OutboxInv, OutboxTypes, SenderUp, telegram
    <2>2. ASSUME NEW n \in Notices PROVE SentSafely(n)' /\ Counted(n)'
      <3>1. SentSafely(n) /\ Counted(n) /\ OutboxTypes
        BY DEF OutboxInv
      <3> QED
        BY <1>1, <1>3, <3>1
           DEF OutboxTypes, SentSafely, Counted, Unsent, Handles, Item, telegram
    <2> QED
      BY <2>1, <2>2 DEF OutboxInv
  <1>4. Item \in Notices => row[Item].attempts \in Nat
    BY DEF OutboxInv, OutboxTypes
  <1> QED
    BY <1>2, <1>3, <1>4, MonitorAssumption DEF CheckItem

LEMMA ClaimKeeps ==
    ASSUME OutboxInv, Claim
    PROVE  OutboxInv'
PROOF
  <1>1. sender.pc = "claim" /\ mode' = mode /\ UNCHANGED telegram
    BY DEF Claim
  <1>2. CASE row' = row /\ NextItem
    <2>1. /\ sender' = [pc |-> sender'.pc, batch |-> sender'.batch,
                        attempts |-> sender'.attempts]
          /\ sender'.pc \in {"idle", "item"}
      BY <1>2, NextItemHandlesNone
    <2>2. OutboxTypes' /\ SenderUp'
      BY <1>1, <1>2, <2>1 DEF OutboxInv, OutboxTypes, SenderUp, telegram
    <2>3. ASSUME NEW n \in Notices PROVE SentSafely(n)' /\ Counted(n)'
      <3>1. SentSafely(n) /\ Counted(n)
        BY DEF OutboxInv
      <3> QED
        BY <1>1, <1>2, <2>1, <3>1 DEF SentSafely, Counted, Unsent, Handles, telegram
    <2> QED
      BY <2>2, <2>3 DEF OutboxInv
  <1>3. CASE /\ row[Item].status = "pending"
             /\ row' = [row EXCEPT ![Item].status = "sending", ![Item].attempts = @ + 1]
             /\ sender' = [sender EXCEPT !.pc = "post", !.attempts = row[Item].attempts + 1]
    <2>1. OutboxTypes' /\ SenderUp'
      <3>1. row \in [Notices -> [status : RowStatus, attempts : Nat, due : BOOLEAN]]
        BY DEF OutboxInv, OutboxTypes
      <3>2. ASSUME NEW n \in Notices
            PROVE  row'[n] \in [status : RowStatus, attempts : Nat, due : BOOLEAN]
        BY <1>3, <3>1, <3>2 DEF RowStatus
      <3>3. row' = [n \in Notices |-> row'[n]]
        BY <1>3, <3>1
      <3>4. row' \in [Notices -> [status : RowStatus, attempts : Nat, due : BOOLEAN]]
        BY <3>2, <3>3
      <3>5. /\ sender' = [pc |-> sender'.pc, batch |-> sender'.batch,
                           attempts |-> sender'.attempts]
            /\ mode = "up"
        BY <1>1, <1>3 DEF OutboxInv, OutboxTypes, SenderUp
      <3> QED
        BY <1>1, <3>4, <3>5 DEF OutboxInv, OutboxTypes, SenderUp, telegram
    <2>2. ASSUME NEW n \in Notices PROVE SentSafely(n)' /\ Counted(n)'
      <3>1. /\ SentSafely(n) /\ Counted(n)
            /\ row[n] \in [status : RowStatus, attempts : Nat, due : BOOLEAN]
            /\ heard[n] \in Nat /\ posts[n] \in Nat
        BY DEF OutboxInv, OutboxTypes
      <3>2. Item' = Item /\ sender'.pc = "post"
        BY <1>3 DEF Item, OutboxInv, OutboxTypes
      <3>3. CASE n = Item
        <4>1. /\ row'[n].status = "sending" /\ row'[n].attempts = row[n].attempts + 1
              /\ sender'.attempts = row[n].attempts + 1
          BY <1>3, <3>3 DEF OutboxInv, OutboxTypes
        <4> QED
          BY <1>1, <1>3, <3>1, <3>2, <3>3, <4>1, MonitorAssumption
             DEF SentSafely, Counted, Unsent, Handles, telegram
      <3>4. CASE n # Item
        <4>1. row'[n] = row[n]
          BY <1>3, <3>4 DEF OutboxInv, OutboxTypes
        <4> QED
          BY <1>1, <3>1, <3>2, <3>4, <4>1 DEF SentSafely, Counted, Unsent, Handles, telegram
      <3> QED
        BY <3>3, <3>4
    <2> QED
      BY <2>1, <2>2 DEF OutboxInv
  <1> QED
    BY <1>2, <1>3 DEF Claim

LEMMA PostKeeps ==
    ASSUME OutboxInv, Post
    PROVE  OutboxInv'
PROOF
  <1>1. /\ sender.pc = "post" /\ mode' = mode /\ row' = row /\ heard' = heard
        /\ wire' = wire \union {Item}
        /\ posts' = [posts EXCEPT ![Item] = @ + 1]
        /\ sender' = [sender EXCEPT !.pc = "wait"]
    BY DEF Post, outbox
  <1>2. OutboxTypes' /\ SenderUp'
    <2>1. posts \in [Notices -> Nat]
      BY DEF OutboxInv, OutboxTypes
    <2>2. posts' \in [Notices -> Nat]
      BY <1>1, <2>1, CountedUp
    <2> QED
      BY <1>1, <2>2 DEF OutboxInv, OutboxTypes, SenderUp
  <1>3. Item' = Item /\ sender'.pc = "wait" /\ sender'.attempts = sender.attempts
    BY <1>1 DEF Item, OutboxInv, OutboxTypes
  <1>4. ASSUME NEW n \in Notices PROVE SentSafely(n)' /\ Counted(n)'
    <2>1. /\ SentSafely(n) /\ Counted(n)
          /\ row[n] \in [status : RowStatus, attempts : Nat, due : BOOLEAN]
          /\ heard[n] \in Nat /\ posts[n] \in Nat
      BY DEF OutboxInv, OutboxTypes
    <2>2. posts'[n] = IF n = Item THEN posts[n] + 1 ELSE posts[n]
      BY <1>1 DEF OutboxInv, OutboxTypes
    <2> QED
      BY <1>1, <1>3, <2>1, <2>2, MonitorAssumption DEF SentSafely, Counted, Unsent, Handles
  <1> QED
    BY <1>2, <1>4 DEF OutboxInv

\* The answers to a request.
LEMMA AnswersKeep ==
    ASSUME OutboxInv, Accepted \/ (\E st \in RowStatus : Limited(st)) \/ Rejected \/ Unclear
    PROVE  OutboxInv'
PROOF
  <1>1. CASE Unclear
    <2>1. /\ sender.pc = "wait" /\ mode' = mode /\ Update("unknown", sender.attempts)
          /\ wire' = wire /\ posts' = posts /\ heard' = heard
      BY <1>1 DEF Unclear, telegram
    <2>2. /\ "unknown" \in RowStatus \ {"absent", "sending"}
          /\ heard' \in [Notices -> Nat]
          /\ Item \in Notices => sender.attempts = row[Item].attempts
      BY <2>1 DEF RowStatus, OutboxInv, OutboxTypes, Counted, Handles
    <2> QED
      BY <2>1, <2>2, UpdateKeeps
  <1>2. ASSUME Answered
        PROVE  /\ sender.pc = "wait" /\ mode' = mode /\ posts' = posts
               /\ Item \in wire /\ wire' = wire \ {Item}
               /\ Item \in Notices => /\ sender.attempts = row[Item].attempts
                                      /\ heard[Item] = 0
    BY <1>2 DEF Answered, OutboxInv, SentSafely, Counted, Handles
  <1>3. CASE Accepted
    <2>1. /\ Answered /\ Update("accepted", sender.attempts)
          /\ heard' = [heard EXCEPT ![Item] = @ + 1]
      BY <1>3 DEF Accepted
    <2>2. /\ "accepted" \in RowStatus \ {"absent", "sending"}
          /\ heard' \in [Notices -> Nat]
          /\ \A n \in Notices : \/ heard'[n] = heard[n]
                                \/ n \in wire \ wire' /\ heard'[n] = heard[n] + 1 /\ n = Item
      <3>1. heard \in [Notices -> Nat]
        BY DEF OutboxInv, OutboxTypes
      <3>2. /\ heard' \in [Notices -> Nat]
            /\ \A n \in Notices : heard'[n] = IF n = Item THEN heard[n] + 1 ELSE heard[n]
        BY <2>1, <3>1, CountedUp
      <3> QED
        BY <1>2, <2>1, <3>2 DEF RowStatus
    <2> QED
      BY <1>2, <2>1, <2>2, UpdateKeeps
  <1>4. ASSUME Answered, heard' = heard,
               NEW st \in RowStatus \ {"absent", "sending"}, Update(st, sender.attempts)
        PROVE  OutboxInv'
    <2>1. heard' \in [Notices -> Nat]
      BY <1>4 DEF OutboxInv, OutboxTypes
    <2> QED
      BY <1>2, <1>4, <2>1, UpdateKeeps
  <1>5. CASE \E st \in RowStatus : Limited(st)
    <2>1. PICK st \in RowStatus : Limited(st)
      BY <1>5
    <2>2. st \in RowStatus \ {"absent", "sending"}
      BY <2>1 DEF Limited
    <2> QED
      BY <1>4, <2>1, <2>2 DEF Limited
  <1>6. CASE Rejected
    <2>1. "failed" \in RowStatus \ {"absent", "sending"}
      BY DEF RowStatus
    <2> QED
      BY <1>4, <1>6, <2>1 DEF Rejected
  <1> QED
    BY <1>1, <1>3, <1>5, <1>6

\* Requests handled in silence.
LEMMA TelegramKeeps ==
    ASSUME OutboxInv, NEW k \in Notices, Deliver(k) \/ Lose(k)
    PROVE  OutboxInv'
PROOF
  <1>1. /\ k \in wire /\ wire' = wire \ {k}
        /\ UNCHANGED <<mode, row, sender, posts>>
        /\ heard' = heard \/ heard' = [heard EXCEPT ![k] = @ + 1]
    BY DEF Deliver, Lose, outbox
  <1>2. OutboxTypes' /\ SenderUp'
    BY <1>1 DEF OutboxInv, OutboxTypes, SenderUp
  <1>3. ASSUME NEW n \in Notices PROVE SentSafely(n)' /\ Counted(n)'
    <2>1. SentSafely(n) /\ Counted(n) /\ heard[n] \in Nat
      BY DEF OutboxInv, OutboxTypes
    <2>2. heard'[n] = heard[n] \/ (n = k /\ heard'[n] = heard[n] + 1)
      BY <1>1 DEF OutboxInv, OutboxTypes
    <2> QED
      BY <1>1, <2>1, <2>2 DEF SentSafely, Counted, Unsent, Handles, Item
  <1> QED
    BY <1>2, <1>3 DEF OutboxInv

LEMMA RetryDueKeeps ==
    ASSUME OutboxInv, NEW k \in Notices, RetryDue(k)
    PROVE  OutboxInv'
PROOF
  <1>1. /\ row' = [row EXCEPT ![k].due = TRUE]
        /\ UNCHANGED <<mode, sender, telegram>>
    BY DEF RetryDue
  <1>2. \A n \in Notices : Retained(n)
    BY <1>1 DEF Retained, OutboxInv, OutboxTypes
  <1>3. row' = [n \in Notices |-> row'[n]] /\ SenderUp'
    BY <1>1 DEF OutboxInv, OutboxTypes, SenderUp
  <1> QED
    BY <1>1, <1>2, <1>3, RetainedKeeps

-----------------------------------------------------------------------------
LEMMA NextKeepsOutbox ==
    ASSUME OutboxInv, [Next]_vars
    PROVE  OutboxInv'
PROOF
  <1>1. CASE Engine
    <2>1. UNCHANGED <<mode, outbox, sender, telegram>>
      BY <1>1 DEF Engine, Impulse, Trade, Reset, Snapshot
    <2> QED
      BY <2>1, UndisturbedKeeps DEF Undisturbed, outbox
  <1>2. CASE Export
    BY <1>2, UndisturbedKeeps DEF Export, Undisturbed, outbox
  <1>3. CASE Age
    BY <1>3, UndisturbedKeeps DEF Age, Undisturbed, outbox
  <1>4. ASSUME NEW i \in Ids, Lapse(i) PROVE OutboxInv'
    BY <1>4, UndisturbedKeeps DEF Lapse, Undisturbed, outbox
  <1>5. CASE LastSnapshot
    BY <1>5, UndisturbedKeeps DEF LastSnapshot, Undisturbed, outbox
  <1>6. CASE Crash \/ Exit \/ Stop
    BY <1>6, ForgetKeeps DEF Crash, Exit, Stop, Forget, outbox
  <1>7. CASE UNCHANGED vars
    BY <1>7, UndisturbedKeeps DEF vars, Undisturbed, outbox
  <1> QED
    BY <1>1, <1>2, <1>3, <1>4, <1>5, <1>6, <1>7, CommitKeeps, FetchKeeps, StartKeeps,
       CheckItemKeeps, ClaimKeeps, PostKeeps, AnswersKeep, TelegramKeeps, RetryDueKeeps
       DEF Next, Sending

(***************************************************************************)
(* Telegram accepts each notice at most once, whatever times out, arrives  *)
(* late, is limited or dies between claim and answer.                      *)
(***************************************************************************)
THEOREM NoticesAcceptedOnce == Spec => []AcceptedOnce
PROOF
  <1>1. OutboxInv => AcceptedOnce
    BY DEF OutboxInv, SentSafely, AcceptedOnce
  <1> QED
    BY <1>1, InitOutbox, NextKeepsOutbox, PTL DEF Spec

(***************************************************************************)
(* A notice is requested at most max_attempts times over all restarts.     *)
(***************************************************************************)
THEOREM RequestsAreBounded == Spec => []AttemptsBounded
PROOF
  <1>1. OutboxInv => AttemptsBounded
    BY DEF OutboxInv, Counted, AttemptsBounded
  <1> QED
    BY <1>1, InitOutbox, NextKeepsOutbox, PTL DEF Spec

-----------------------------------------------------------------------------
(***************************************************************************)
(* What is on record.                                                      *)
(***************************************************************************)
Entry == [state : States, by : Nat]
Revs == [Ids -> Seq(Entry)]
NotesIn(notes) == {notes[k] : k \in DOMAIN notes}
Stored == {n \in Notices : row[n].status # "absent"}
Mine(b) == WickIds \union {Grid(b)}
OpenIn(revs, i) == revs[i] # <<>> /\ Latest(revs[i]) \in OpenEvent

\* One event is under way at most, and there is room for its end.
Sound(revs) ==
    /\ revs \in Revs
    /\ \A i \in Ids : Len(revs[i]) <= Last(i)
    /\ \A i \in WickIds : OpenIn(revs, i) => Len(revs[i]) < MaxRev
    /\ \A i, j \in Active(revs) : i = j

Prefix(a, b) == Len(a) <= Len(b) /\ \A r \in 1..Len(a) : a[r] = b[r]

EndedIn(revs, i, r) ==
    \/ revs[i][r].state = "INVALIDATED"
    \/ revs[i][r].state = "NONE" /\ r > 1 /\ revs[i][r - 1].state = "CANDIDATE"
AllTold(revs, told) ==
    \A i \in Ids : \A r \in DOMAIN revs[i] : EndedIn(revs, i, r) => Notice(i, r) \in told
Known(notes, revs) == \A n \in NotesIn(notes) : n.rev \in DOMAIN revs[n.id]

\* What is open is from process b; each grid has the revisions of its process.
Young(revs, b) == \A i \in WickIds : OpenIn(revs, i) => revs[i][Len(revs[i])].by = b
OwnGrids(revs) ==
    \A c \in 1..MaxBoots : \A r \in DOMAIN revs[Grid(c)] :
       revs[Grid(c)][r].by = c /\ revs[Grid(c)][r].state \in {"CANDIDATE", "NONE"}

\* A step of process b adds one revision to each of some events, and told
\* has the notices of what ends.
Advance(old, new, told, b) ==
    \A i \in Ids :
       \/ new[i] = old[i]
       \/ /\ i \in Mine(b)
          /\ \E s \in States :
                /\ i \in WickIds \/ s \in {"CANDIDATE", "NONE"}
                /\ new[i] = Append(old[i], [state |-> s, by |-> b])
                /\ \/ s = "INVALIDATED"
                   \/ s = "NONE" /\ old[i] # <<>> /\ Latest(old[i]) = "CANDIDATE"
                   => Notice(i, Len(old[i]) + 1) \in told

-----------------------------------------------------------------------------
LEMMA IdsFacts ==
    /\ \A i \in WickIds : i \in Ids /\ i.kind = "wick" /\ Last(i) = MaxRev
    /\ \A b \in 1..MaxBoots : /\ Grid(b) \in Ids /\ Grid(b) \notin WickIds
                              /\ Last(Grid(b)) = MaxSnapshots
                              /\ Grid(b).kind = "grid" /\ Grid(b).n = b
    /\ \A i \in Ids : i \in WickIds \/ \E b \in 1..MaxBoots : i = Grid(b)
    /\ \A i \in Ids : Last(i) \in Nat
PROOF
  <1>1. ASSUME NEW i \in WickIds PROVE i \in Ids /\ i.kind = "wick" /\ Last(i) = MaxRev
    BY DEF Ids, WickIds, Wick, Last
  <1>2. ASSUME NEW b \in 1..MaxBoots
        PROVE  /\ Grid(b) \in Ids /\ Grid(b).kind = "grid" /\ Grid(b).n = b
               /\ Last(Grid(b)) = MaxSnapshots
    BY DEF Ids, Grid, Last
  <1>3. ASSUME NEW b \in 1..MaxBoots PROVE Grid(b) \notin WickIds
    BY <1>1, <1>2
  <1>4. ASSUME NEW i \in Ids PROVE i \in WickIds \/ \E b \in 1..MaxBoots : i = Grid(b)
    BY DEF Ids
  <1>5. ASSUME NEW i \in Ids PROVE Last(i) \in Nat
    BY MonitorAssumption DEF Last
  <1> QED
    BY <1>1, <1>2, <1>3, <1>4, <1>5

LEMMA NoticeFacts ==
    ASSUME NEW i \in Ids, NEW r \in 1..Last(i)
    PROVE  Notice(i, r) \in Notices /\ Notice(i, r).id = i /\ Notice(i, r).rev = r
  BY MonitorAssumption, IdsFacts DEF Notices, Notice, Last

LEMMA PrefixFacts ==
    /\ \A a \in Seq(Entry) : Prefix(a, a)
    /\ \A a, b, c \in Seq(Entry) : Prefix(a, b) /\ Prefix(b, c) => Prefix(a, c)
    /\ \A a \in Seq(Entry), x \in Entry : Prefix(a, Append(a, x))
    /\ \A a \in Seq(Entry) : Prefix(<<>>, a)
  BY DEF Prefix

LEMMA AdvancePrefix ==
    ASSUME NEW old \in Revs, NEW new \in Revs, NEW told, NEW b \in Nat,
           Advance(old, new, told, b)
    PROVE  \A i \in Ids : Prefix(old[i], new[i])
PROOF
  <1> SUFFICES ASSUME NEW i \in Ids PROVE Prefix(old[i], new[i])
    OBVIOUS
  <1>1. old[i] \in Seq(Entry)
    BY DEF Revs
  <1>2. \A s \in States : [state |-> s, by |-> b] \in Entry
    BY DEF Entry
  <1> QED
    BY <1>1, <1>2, PrefixFacts DEF Advance

\* What a step ends is told, what had ended stays told.
LEMMA AdvanceTold ==
    ASSUME NEW old \in Revs, NEW new \in Revs, NEW told, NEW b \in Nat,
           Advance(old, new, told, b), NEW before, AllTold(old, before)
    PROVE  AllTold(new, before \union told)
PROOF
  <1> SUFFICES ASSUME NEW i \in Ids, NEW r \in DOMAIN new[i], EndedIn(new, i, r)
               PROVE  Notice(i, r) \in before \union told
    BY DEF AllTold
  <1>1. old[i] \in Seq(Entry) /\ new[i] \in Seq(Entry)
    BY DEF Revs
  <1>2. CASE new[i] = old[i]
    BY <1>2 DEF AllTold, EndedIn
  <1>3. ASSUME NEW s \in States, new[i] = Append(old[i], [state |-> s, by |-> b]),
               \/ s = "INVALIDATED"
               \/ s = "NONE" /\ old[i] # <<>> /\ Latest(old[i]) = "CANDIDATE"
               => Notice(i, Len(old[i]) + 1) \in told
        PROVE  Notice(i, r) \in before \union told
    <2>1. /\ Len(new[i]) = Len(old[i]) + 1
          /\ \A q \in 1..Len(old[i]) : new[i][q] = old[i][q]
          /\ new[i][Len(old[i]) + 1].state = s
          /\ Len(old[i]) \in Nat
      BY <1>1, <1>3
    <2>2. CASE r = Len(old[i]) + 1
      <3>1. s = "NONE" /\ r > 1 => old[i] # <<>> /\ new[i][r - 1].state = Latest(old[i])
        BY <1>1, <2>1, <2>2 DEF Latest
      <3> QED
        BY <1>3, <2>1, <2>2, <3>1 DEF EndedIn
    <2>3. CASE r # Len(old[i]) + 1
      <3>1. r \in 1..Len(old[i])
        BY <1>1, <2>1, <2>3
      <3>2. EndedIn(old, i, r)
        <4>1. new[i][r] = old[i][r] /\ (r > 1 => new[i][r - 1] = old[i][r - 1])
          BY <2>1, <3>1
        <4> QED
          BY <4>1 DEF EndedIn
      <3> QED
        BY <1>1, <3>1, <3>2 DEF AllTold
    <2> QED
      BY <2>2, <2>3
  <1> QED
    BY <1>2, <1>3 DEF Advance

LEMMA AdvanceYoung ==
    ASSUME NEW old \in Revs, NEW new \in Revs, NEW told, NEW b \in Nat,
           Advance(old, new, told, b)
    PROVE  /\ Young(old, b) => Young(new, b)
           /\ OwnGrids(old) => OwnGrids(new)
PROOF
  <1>1. \A i \in Ids : old[i] \in Seq(Entry) /\ new[i] \in Seq(Entry)
    BY DEF Revs
  <1>2. ASSUME Young(old, b), NEW i \in WickIds, OpenIn(new, i)
        PROVE  new[i][Len(new[i])].by = b
    <2>1. i \in Ids
      BY IdsFacts
    <2>2. CASE new[i] = old[i]
      BY <1>2, <2>2 DEF Young, OpenIn
    <2>3. ASSUME NEW s \in States, new[i] = Append(old[i], [state |-> s, by |-> b])
          PROVE  new[i][Len(new[i])].by = b
      BY <1>1, <2>1, <2>3
    <2> QED
      BY <2>1, <2>2, <2>3 DEF Advance
  <1>3. ASSUME OwnGrids(old), NEW c \in 1..MaxBoots, NEW r \in DOMAIN new[Grid(c)]
        PROVE  new[Grid(c)][r].by = c /\ new[Grid(c)][r].state \in {"CANDIDATE", "NONE"}
    <2>1. Grid(c) \in Ids /\ Grid(c) \notin WickIds /\ (Grid(c) \in Mine(b) => c = b)
      BY IdsFacts DEF Mine, Grid
    <2>2. CASE new[Grid(c)] = old[Grid(c)]
      BY <1>3, <2>2 DEF OwnGrids
    <2>3. ASSUME Grid(c) \in Mine(b), NEW s \in {"CANDIDATE", "NONE"},
                 new[Grid(c)] = Append(old[Grid(c)], [state |-> s, by |-> b])
          PROVE  new[Grid(c)][r].by = c /\ new[Grid(c)][r].state \in {"CANDIDATE", "NONE"}
      <3>1. old[Grid(c)] \in Seq(Entry) /\ c = b
        BY <1>1, <2>1, <2>3
      <3>2. CASE r = Len(old[Grid(c)]) + 1
        BY <2>3, <3>1, <3>2
      <3>3. CASE r # Len(old[Grid(c)]) + 1
        <4>1. r \in DOMAIN old[Grid(c)] /\ new[Grid(c)][r] = old[Grid(c)][r]
          BY <2>3, <3>1, <3>3
        <4> QED
          BY <1>3, <4>1 DEF OwnGrids
      <3> QED
        BY <3>2, <3>3
    <2> QED
      BY <2>1, <2>2, <2>3 DEF Advance
  <1> QED
    BY <1>2, <1>3 DEF Young, OwnGrids

-----------------------------------------------------------------------------
\* The engine goes from old with notes to new with more notes.
Moves(old, notes, new, more, b) ==
    /\ Sound(new)
    /\ Advance(old, new, NotesIn(more), b)
    /\ more \in Seq(Notices) /\ NotesIn(notes) \subseteq NotesIn(more)
    /\ Known(notes, old) => Known(more, new)

LEMMA OneNoteMore ==
    ASSUME NEW notes \in Seq(Notices), NEW n \in Notices
    PROVE  /\ Append(notes, n) \in Seq(Notices)
           /\ NotesIn(Append(notes, n)) = NotesIn(notes) \union {n}
PROOF
  <1>1. \A k \in 1..(Len(notes) + 1) :
           Append(notes, n)[k] = IF k = Len(notes) + 1 THEN n ELSE notes[k]
    OBVIOUS
  <1>2. DOMAIN Append(notes, n) = 1..(Len(notes) + 1) /\ DOMAIN notes = 1..Len(notes)
    OBVIOUS
  <1>3. Len(notes) + 1 \in 1..(Len(notes) + 1) /\ Len(notes) \in Nat
    OBVIOUS
  <1> QED
    BY <1>1, <1>2, <1>3 DEF NotesIn

\* Whatever is told of what was known is known of what has grown.
LEMMA KnownGrows ==
    ASSUME NEW old \in Revs, NEW new \in Revs, \A i \in Ids : Prefix(old[i], new[i]),
           NEW notes \in Seq(Notices), Known(notes, old)
    PROVE  Known(notes, new)
PROOF
  <1> SUFFICES ASSUME NEW n \in NotesIn(notes) PROVE n.rev \in DOMAIN new[n.id]
    BY DEF Known
  <1>1. n \in Notices
    BY DEF NotesIn
  <1>2. n.id \in Ids /\ n.rev \in DOMAIN old[n.id]
    BY <1>1 DEF Notices, Known
  <1>3. old[n.id] \in Seq(Entry) /\ new[n.id] \in Seq(Entry) /\ Prefix(old[n.id], new[n.id])
    BY <1>2 DEF Revs
  <1> QED
    BY <1>2, <1>3 DEF Prefix

LEMMA Appended ==
    ASSUME NEW a \in Seq(Entry), NEW x \in Entry
    PROVE  /\ Append(a, x) \in Seq(Entry) /\ Append(a, x) # <<>>
           /\ Len(Append(a, x)) = Len(a) + 1 /\ Len(a) \in Nat
           /\ Append(a, x)[Len(a) + 1] = x
           /\ DOMAIN Append(a, x) = 1..(Len(a) + 1)
  OBVIOUS

LEMMA Overridden ==
    ASSUME NEW S, NEW T, NEW f \in [S -> T], NEW i \in S, NEW x \in T
    PROVE  /\ [f EXCEPT ![i] = x] \in [S -> T]
           /\ \A j \in S : [f EXCEPT ![i] = x][j] = IF j = i THEN x ELSE f[j]
  OBVIOUS

LEMMA ActiveFacts ==
    ASSUME NEW revs \in Revs
    PROVE  \A i : i \in Active(revs) <=> i \in WickIds /\ OpenIn(revs, i)
  BY DEF Active, OpenIn

LEMMA WithdrawMoves ==
    ASSUME NEW revs, Sound(revs), NEW b \in Nat, NEW notes \in Seq(Notices)
    PROVE  /\ Moves(revs, notes, Withdraw(revs, b), Withdrawals(notes, revs), b)
           /\ Active(Withdraw(revs, b)) = {}
           /\ \A c \in 1..MaxBoots : Withdraw(revs, b)[Grid(c)] = revs[Grid(c)]
PROOF
  <1> DEFINE new == Withdraw(revs, b)
             last == [state |-> "INVALIDATED", by |-> b]
             more == Withdrawals(notes, revs)
  <1>1. /\ revs \in Revs
        /\ \A i \in Ids : revs[i] \in Seq(Entry) /\ Len(revs[i]) <= Last(i)
        /\ \A i \in Active(revs) : i \in WickIds /\ OpenIn(revs, i) /\ Len(revs[i]) < MaxRev
        /\ last \in Entry
    BY ActiveFacts DEF Sound, Revs, Entry, States
  <1>2. \A i \in Ids : new[i] = IF i \in Active(revs) THEN Append(revs[i], last) ELSE revs[i]
    BY DEF Withdraw
  <1>3. new \in Revs
    BY <1>1, <1>2 DEF Revs, Withdraw
  <1>4. \A i \in WickIds : ~OpenIn(new, i)
    <2> SUFFICES ASSUME NEW i \in WickIds PROVE ~OpenIn(new, i)
      OBVIOUS
    <2>1. i \in Ids
      BY IdsFacts
    <2>2. CASE i \in Active(revs)
      <3>1. new[i] = Append(revs[i], last) /\ revs[i] \in Seq(Entry)
        BY <1>1, <1>2, <2>1, <2>2
      <3>2. Latest(new[i]) = "INVALIDATED"
        BY <3>1 DEF Latest
      <3> QED
        BY <3>2 DEF OpenIn, OpenEvent
    <2>3. CASE i \notin Active(revs)
      <3>1. new[i] = revs[i] /\ ~OpenIn(revs, i)
        BY <1>1, <1>2, <2>1, <2>3, ActiveFacts
      <3> QED
        BY <3>1 DEF OpenIn
    <2> QED
      BY <2>2, <2>3
  <1>5. Active(new) = {}
    BY <1>3, <1>4, ActiveFacts
  <1>6. Sound(new)
    <2>1. ASSUME NEW i \in Ids PROVE Len(new[i]) <= Last(i)
      <3>1. CASE i \in Active(revs)
        <4>1. /\ revs[i] \in Seq(Entry) /\ Len(revs[i]) < MaxRev
              /\ Last(i) = MaxRev /\ MaxRev \in Nat
          BY <1>1, <3>1, IdsFacts, MonitorAssumption
        <4>2. new[i] = Append(revs[i], last)
          BY <1>2, <3>1
        <4> HIDE DEF new, last
        <4>3. Len(new[i]) = Len(revs[i]) + 1 /\ Len(revs[i]) \in Nat
          BY <4>1, <4>2
        <4> QED
          BY <4>1, <4>3
      <3>2. CASE i \notin Active(revs)
        BY <1>1, <1>2, <3>2
      <3> QED
        BY <3>1, <3>2
    <2> QED
      BY <1>3, <1>4, <1>5, <2>1 DEF Sound
  <1>7. \A c \in 1..MaxBoots : new[Grid(c)] = revs[Grid(c)]
    BY <1>1, <1>2, IdsFacts
  <1>8. CASE Active(revs) = {}
    <2>1. more = notes /\ \A i \in Ids : new[i] = revs[i]
      BY <1>2, <1>8 DEF Withdrawals
    <2>2. new = revs
      BY <1>1, <1>3, <2>1 DEF Revs
    <2> QED
      BY <1>5, <1>6, <1>7, <2>1, <2>2 DEF Moves, Advance
  <1>9. CASE Active(revs) # {}
    <2> DEFINE i == CHOOSE i \in Active(revs) : TRUE
               n == Notice(i, Len(revs[i]) + 1)
    <2>1. i \in Active(revs) /\ \A j \in Active(revs) : j = i
      BY <1>9 DEF Sound
    <2>2. i \in Ids /\ i \in WickIds /\ Len(revs[i]) + 1 \in 1..Last(i)
      BY <1>1, <2>1, IdsFacts, MonitorAssumption
    <2>3. n \in Notices /\ n.id = i /\ n.rev = Len(revs[i]) + 1
      BY <2>2, NoticeFacts
    <2>4. more = Append(notes, n)
      BY <1>9 DEF Withdrawals
    <2> HIDE DEF i, n, more, new
    <2>5. more \in Seq(Notices) /\ NotesIn(more) = NotesIn(notes) \union {n}
      BY <2>3, <2>4, OneNoteMore
    <2>6. Advance(revs, new, NotesIn(more), b)
      <3> SUFFICES ASSUME NEW j \in Ids, new[j] # revs[j]
                   PROVE  /\ j \in Mine(b) /\ j \in WickIds
                          /\ new[j] = Append(revs[j], last)
                          /\ Notice(j, Len(revs[j]) + 1) \in NotesIn(more)
        BY DEF Advance, States
      <3>1. j = i
        BY <1>2, <2>1
      <3> QED
        BY <1>2, <2>1, <2>2, <2>5, <3>1 DEF n, Mine
    <2>7. ASSUME Known(notes, revs) PROVE Known(more, new)
      <3>1. Known(notes, new)
        BY <1>1, <1>3, <2>6, <2>7, AdvancePrefix, KnownGrows
      <3>2. n.rev \in DOMAIN new[n.id]
        <4>1. new[i] = Append(revs[i], last) /\ revs[i] \in Seq(Entry)
          BY <1>1, <1>2, <2>1, <2>2
        <4> QED
          BY <2>3, <4>1
      <3> QED
        BY <2>5, <3>1, <3>2 DEF Known
    <2> QED
      BY <1>5, <1>6, <1>7, <2>5, <2>6, <2>7 DEF Moves, new, more
  <1> QED
    BY <1>8, <1>9

\* A revision of the one event under way, or of a new one.
LEMMA ReviseMoves ==
    ASSUME NEW revs, Sound(revs), NEW b \in Nat, NEW notes \in Seq(Notices),
           NEW i \in WickIds, NEW s \in States \ {"CANDIDATE", "NONE"},
           \A j \in Active(revs) : j = i,
           Len(revs[i]) < MaxRev,
           s \in OpenEvent => Len(revs[i]) + 1 < MaxRev
    PROVE  /\ Moves(revs, notes, Revised(revs, i, s, b), Told(notes, revs, i, s), b)
           /\ \A c \in 1..MaxBoots : Revised(revs, i, s, b)[Grid(c)] = revs[Grid(c)]
PROOF
  <1> DEFINE new == Revised(revs, i, s, b)
             last == [state |-> s, by |-> b]
             n == Notice(i, Len(revs[i]) + 1)
             more == Told(notes, revs, i, s)
  <1>1. /\ revs \in Revs /\ i \in Ids /\ revs[i] \in Seq(Entry) /\ last \in Entry
        /\ Last(i) = MaxRev /\ MaxRev \in Nat
        /\ \A j \in Ids : Len(revs[j]) <= Last(j)
        /\ \A j \in WickIds : OpenIn(revs, j) => Len(revs[j]) < MaxRev
    BY IdsFacts, MonitorAssumption DEF Sound, Revs, Entry
  <1>2. new = [revs EXCEPT ![i] = Append(revs[i], last)]
    BY DEF Revised
  <1> HIDE DEF new, last
  <1>20. /\ Append(revs[i], last) \in Seq(Entry) /\ Append(revs[i], last) # <<>>
         /\ Len(Append(revs[i], last)) = Len(revs[i]) + 1 /\ Len(revs[i]) \in Nat
         /\ Append(revs[i], last)[Len(revs[i]) + 1] = last
    BY <1>1, Appended
  <1>21. new \in Revs /\ \A j \in Ids : new[j] = IF j = i THEN Append(revs[i], last) ELSE revs[j]
    BY <1>1, <1>2, <1>20, Overridden DEF Revs
  <1>3. /\ Len(new[i]) = Len(revs[i]) + 1 /\ Len(revs[i]) \in Nat
        /\ new[i][Len(new[i])] = last /\ new[i] # <<>>
    BY <1>1, <1>20, <1>21
  <1>4. last.state = s
    BY DEF last
  <1>5. \A j \in WickIds : OpenIn(new, j) => j = i /\ s \in OpenEvent
    <2> SUFFICES ASSUME NEW j \in WickIds, OpenIn(new, j) PROVE j = i /\ s \in OpenEvent
      OBVIOUS
    <2>1. CASE j = i
      BY <1>3, <1>4, <2>1 DEF OpenIn, Latest
    <2>2. CASE j # i
      <3>1. new[j] = revs[j]
        BY <1>21, <2>2, IdsFacts
      <3>2. j \in Active(revs)
        BY <1>1, <3>1, ActiveFacts DEF OpenIn
      <3> QED
        BY <2>2, <3>2
    <2> QED
      BY <2>1, <2>2
  <1>6. Sound(new)
    <2>1. ASSUME NEW j \in Ids PROVE Len(new[j]) <= Last(j)
      BY <1>1, <1>21, <1>3
    <2>2. ASSUME NEW j \in WickIds, OpenIn(new, j) PROVE Len(new[j]) < MaxRev
      BY <1>3, <1>5, <2>2
    <2>3. \A j, k \in Active(new) : j = k
      BY <1>21, <1>5, ActiveFacts
    <2> QED
      BY <1>21, <2>1, <2>2, <2>3 DEF Sound
  <1>7. n \in Notices /\ n.id = i /\ n.rev = Len(revs[i]) + 1
    BY <1>1, <1>3, NoticeFacts
  <1> HIDE DEF n
  <1>8. /\ more \in Seq(Notices) /\ NotesIn(notes) \subseteq NotesIn(more)
        /\ NotesIn(more) \subseteq NotesIn(notes) \union {n}
        /\ s = "INVALIDATED" => n \in NotesIn(more)
    <2>1. CASE s \in {"CONFIRMED", "INVALIDATED"}
      <3>1. more = Append(notes, n)
        BY <2>1 DEF Told, n
      <3> QED
        BY <1>7, <3>1, OneNoteMore
    <2>2. CASE s \notin {"CONFIRMED", "INVALIDATED"}
      BY <2>2 DEF Told
    <2> QED
      BY <2>1, <2>2
  <1> HIDE DEF more
  <1>9. Advance(revs, new, NotesIn(more), b)
    <2> SUFFICES ASSUME NEW j \in Ids, new[j] # revs[j]
                 PROVE  /\ j \in Mine(b) /\ j \in WickIds
                        /\ new[j] = Append(revs[j], last)
                        /\ s = "INVALIDATED" => Notice(j, Len(revs[j]) + 1) \in NotesIn(more)
      BY DEF Advance, last
    <2>1. j = i
      BY <1>21
    <2> QED
      BY <1>21, <1>8, <2>1 DEF Mine, n
  <1>10. ASSUME Known(notes, revs) PROVE Known(more, new)
    <2>1. Known(notes, new)
      BY <1>1, <1>21, <1>9, <1>10, AdvancePrefix, KnownGrows
    <2>2. n.rev \in DOMAIN new[n.id]
      BY <1>1, <1>21, <1>3, <1>7
    <2> QED
      BY <1>8, <2>1, <2>2 DEF Known
  <1>11. \A c \in 1..MaxBoots : new[Grid(c)] = revs[Grid(c)]
    BY <1>21, IdsFacts
  <1> QED
    BY <1>6, <1>8, <1>9, <1>10, <1>11 DEF Moves, new, more

\* The next revision of the grid.
LEMMA AssessMoves ==
    ASSUME NEW revs, Sound(revs), boot \in 1..MaxBoots, NEW notes \in Seq(Notices),
           NEW candidate \in BOOLEAN, Len(revs[Grid(boot)]) < MaxSnapshots
    PROVE  /\ Moves(revs, notes, Assessed(revs, Grid(boot), candidate),
                    AssessmentNotes(notes, revs, Grid(boot), candidate), boot)
           /\ Len(Assessed(revs, Grid(boot), candidate)[Grid(boot)]) = Len(revs[Grid(boot)]) + 1
           /\ \A i \in WickIds : Assessed(revs, Grid(boot), candidate)[i] = revs[i]
PROOF
  <1> DEFINE g == Grid(boot)
             s == IF candidate THEN "CANDIDATE" ELSE "NONE"
             new == Assessed(revs, g, candidate)
             last == [state |-> s, by |-> boot]
             n == Notice(g, Len(revs[g]) + 1)
             more == AssessmentNotes(notes, revs, g, candidate)
  <1>1. /\ revs \in Revs /\ g \in Ids /\ g \notin WickIds /\ revs[g] \in Seq(Entry)
        /\ Last(g) = MaxSnapshots /\ MaxSnapshots \in Nat
        /\ s \in States
        /\ \A j \in Ids : Len(revs[j]) <= Last(j)
        /\ \A j \in WickIds : OpenIn(revs, j) => Len(revs[j]) < MaxRev
        /\ \A j, k \in Active(revs) : j = k
    BY IdsFacts, MonitorAssumption DEF Sound, Revs, States
  <1>2. last \in Entry
    BY <1>1, MonitorAssumption DEF Entry
  <1> HIDE DEF s
  <1>30. new = [revs EXCEPT ![g] = Append(revs[g], last)]
    BY DEF Revised, Assessed, s
  <1> HIDE DEF new, last
  <1>31. /\ Append(revs[g], last) \in Seq(Entry)
         /\ Len(Append(revs[g], last)) = Len(revs[g]) + 1 /\ Len(revs[g]) \in Nat
    BY <1>1, <1>2, Appended
  <1>3. new \in Revs /\ \A j \in Ids : new[j] = IF j = g THEN Append(revs[g], last) ELSE revs[j]
    BY <1>1, <1>30, <1>31, Overridden DEF Revs
  <1>4. \A j \in WickIds : new[j] = revs[j]
    BY <1>1, <1>3, IdsFacts
  <1> HIDE DEF new, last
  <1>5. Len(new[g]) = Len(revs[g]) + 1 /\ Len(revs[g]) \in Nat
    BY <1>1, <1>3, <1>31
  <1>6. Sound(new)
    <2>1. ASSUME NEW j \in Ids PROVE Len(new[j]) <= Last(j)
      <3>1. CASE j = g
        BY <1>1, <1>5, <3>1
      <3>2. CASE j # g
        BY <1>1, <1>3, <3>2
      <3> QED
        BY <3>1, <3>2
    <2>2. \A j \in WickIds : OpenIn(new, j) <=> OpenIn(revs, j)
      BY <1>4 DEF OpenIn
    <2>3. Active(new) = Active(revs)
      BY <1>1, <1>3, <2>2, ActiveFacts
    <2> QED
      BY <1>1, <1>3, <1>4, <2>1, <2>2, <2>3 DEF Sound
  <1>7. n \in Notices /\ n.id = g /\ n.rev = Len(revs[g]) + 1
    BY <1>1, <1>5, NoticeFacts
  <1> HIDE DEF n
  <1>8. /\ more \in Seq(Notices) /\ NotesIn(notes) \subseteq NotesIn(more)
        /\ NotesIn(more) \subseteq NotesIn(notes) \union {n}
        /\ s = "NONE" /\ revs[g] # <<>> /\ Latest(revs[g]) = "CANDIDATE" => n \in NotesIn(more)
    <2> DEFINE was == revs[g] # <<>> /\ Latest(revs[g]) = "CANDIDATE"
    <2>1. CASE was # candidate
      <3>1. more = Append(notes, n)
        BY <2>1 DEF AssessmentNotes, n
      <3> QED
        BY <1>7, <3>1, OneNoteMore
    <2>2. CASE was = candidate
      <3>1. more = notes
        BY <2>2 DEF AssessmentNotes
      <3>2. ~(s = "NONE" /\ was)
        BY <2>2 DEF s
      <3> QED
        BY <3>1, <3>2
    <2> QED
      BY <2>1, <2>2
  <1> HIDE DEF more
  <1>9. Advance(revs, new, NotesIn(more), boot)
    <2> SUFFICES ASSUME NEW j \in Ids, new[j] # revs[j]
                 PROVE  /\ j \in Mine(boot)
                        /\ new[j] = Append(revs[j], last)
                        /\ s \in {"CANDIDATE", "NONE"}
                        /\ s = "NONE" /\ revs[j] # <<>> /\ Latest(revs[j]) = "CANDIDATE"
                           => Notice(j, Len(revs[j]) + 1) \in NotesIn(more)
      BY <1>1 DEF Advance, last
    <2>1. j = g
      BY <1>3
    <2> QED
      BY <1>3, <1>8, <2>1 DEF Mine, n, s
  <1>10. ASSUME Known(notes, revs) PROVE Known(more, new)
    <2>1. boot \in Nat
      BY MonitorAssumption
    <2>2. Known(notes, new)
      BY <1>1, <1>3, <1>9, <1>10, <2>1, AdvancePrefix, KnownGrows
    <2>3. n.rev \in DOMAIN new[n.id]
      BY <1>1, <1>2, <1>3, <1>5, <1>7
    <2> QED
      BY <1>8, <2>2, <2>3 DEF Known
  <1> QED
    BY <1>4, <1>5, <1>6, <1>8, <1>9, <1>10 DEF Moves, new, more

-----------------------------------------------------------------------------
(***************************************************************************)
(* The invariant of the record: what is stored is a beginning of what is   *)
(* queued, and that of what is in memory; every end is told in one of the  *)
(* three places.                                                           *)
(***************************************************************************)
Up == mode # "down"
Queued == job.phase = "queued"
Recorded(i) == IF Queued THEN job.rev[i] ELSE decisions[i]

RecordTypes ==
    /\ boot \in 0..MaxBoots /\ (Up => boot \in 1..MaxBoots)
    /\ ~Up => job.phase = "none" /\ projection = "none"
    /\ job = [phase |-> job.phase, rev |-> job.rev, ready |-> job.ready, notes |-> job.notes]
    /\ Sound(rev) /\ OwnGrids(rev) /\ pending \in Seq(Notices) /\ Known(pending, rev)
    /\ Sound(decisions) /\ OwnGrids(decisions)
    /\ Queued => /\ Sound(job.rev) /\ OwnGrids(job.rev)
                 /\ job.notes \in Seq(Notices) /\ Known(job.notes, job.rev)

\* Nothing that is stored is ever computed differently.
Memory ==
    Up => /\ \A i \in Mine(boot) : Prefix(Recorded(i), rev[i])
          /\ Queued => \A i \in Mine(boot) : Prefix(decisions[i], job.rev[i])
          /\ Len(Recorded(Grid(boot))) = Len(rev[Grid(boot)])
          /\ Queued => Len(job.rev[Grid(boot)]) = Len(decisions[Grid(boot)]) + 1
          /\ \A i \in Ids \ Mine(boot) : rev[i] = <<>> /\ (Queued => job.rev[i] = <<>>)
          /\ Young(rev, boot) /\ (Queued => Young(job.rev, boot))

UnderWay == IF Queued THEN NotesIn(job.notes) ELSE {}
Telling ==
    /\ AllTold(decisions, Stored)
    /\ Queued => AllTold(job.rev, Stored \union UnderWay)
    /\ Up => AllTold(rev, (Stored \union UnderWay) \union NotesIn(pending))

\* The barrier covers every withdrawal of the latest grid.
Barred ==
    /\ barrier.boot \in 0..boot /\ barrier.rev \in Nat
    /\ \A b \in 1..MaxBoots : b > barrier.boot => decisions[Grid(b)] = <<>>
    /\ barrier.boot # 0 =>
          \A r \in DOMAIN decisions[Grid(barrier.boot)] :
             decisions[Grid(barrier.boot)][r].state # "CANDIDATE" => r <= barrier.rev

\* Once the process has stored a snapshot, nothing of an earlier one is open.
Renewed ==
    Up /\ (projection # "none" \/ job.phase = "committed") =>
       Young(decisions, boot) /\ barrier.boot = boot

RecordInv == RecordTypes /\ Memory /\ Telling /\ Barred /\ Renewed

LEMMA ToldMonotone ==
    ASSUME NEW revs, NEW S, NEW T, S \subseteq T, AllTold(revs, S)
    PROVE  AllTold(revs, T)
  BY DEF AllTold

LEMMA InitRecord == Init => RecordInv
PROOF
  <1> SUFFICES ASSUME Init PROVE RecordInv
    OBVIOUS
  <1> DEFINE empty == [i \in Ids |-> <<>>]
  <1>1. /\ rev = empty /\ decisions = empty /\ pending = <<>> /\ job = NoJob /\ boot = 0
        /\ mode = "down" /\ barrier = [boot |-> 0, rev |-> 0] /\ projection = "none"
    BY DEF Init
  <1>2. empty \in Revs /\ \A i \in Ids : empty[i] = <<>>
    BY DEF Revs
  <1> HIDE DEF empty
  <1>3. \A i \in Ids : Len(empty[i]) = 0 /\ DOMAIN empty[i] = {}
    BY <1>2
  <1>4. \A i \in WickIds : ~OpenIn(empty, i)
    BY <1>2, IdsFacts DEF OpenIn
  <1>5. Sound(empty)
    BY <1>2, <1>3, <1>4, ActiveFacts, IdsFacts DEF Sound
  <1>6. OwnGrids(empty)
    BY <1>3, IdsFacts DEF OwnGrids
  <1>7. AllTold(empty, Stored)
    BY <1>3 DEF AllTold
  <1>8. pending \in Seq(Notices) /\ NotesIn(pending) = {}
    BY <1>1 DEF NotesIn
  <1>9. RecordTypes
    BY <1>1, <1>5, <1>6, <1>8, MonitorAssumption DEF RecordTypes, NoJob, Known, Up, Queued
  <1>10. Barred
    BY <1>1, <1>2, IdsFacts DEF Barred
  <1>11. Telling
    BY <1>1, <1>7 DEF Telling, NoJob, Up, Queued
  <1> QED
    BY <1>1, <1>9, <1>10, <1>11 DEF RecordInv, Memory, Renewed, Up

\* What stays of the record when only rows, or the life of the process, move on.
LEMMA RecordFrame ==
    ASSUME RecordInv, UNCHANGED <<boot, rev, pending, job, decisions, barrier>>,
           mode' = mode \/ (Up /\ Up'),
           projection' = projection \/ (projection # "none" /\ projection' # "none"),
           Stored \subseteq Stored'
    PROVE  RecordInv'
PROOF
  <1>1. (Up' <=> Up) /\ (Queued' <=> Queued)
    BY DEF Up, Queued
  <1>2. RecordTypes'
    BY <1>1 DEF RecordInv, RecordTypes, Up
  <1>3. Memory'
    BY <1>1 DEF RecordInv, Memory, Recorded, Queued
  <1>4. Telling'
    <2>1. UnderWay' = UnderWay /\ NotesIn(pending)' = NotesIn(pending)
      BY <1>1 DEF UnderWay
    <2>2. AllTold(decisions, Stored')
      BY ToldMonotone DEF RecordInv, Telling
    <2>3. Queued => AllTold(job.rev, Stored' \union UnderWay)
      <3>1. Stored \union UnderWay \subseteq Stored' \union UnderWay
        OBVIOUS
      <3> QED
        BY <3>1, ToldMonotone DEF RecordInv, Telling
    <2>4. Up => AllTold(rev, (Stored' \union UnderWay) \union NotesIn(pending))
      <3>1. (Stored \union UnderWay) \union NotesIn(pending)
               \subseteq (Stored' \union UnderWay) \union NotesIn(pending)
        OBVIOUS
      <3> QED
        BY <3>1, ToldMonotone DEF RecordInv, Telling
    <2> QED
      BY <1>1, <2>1, <2>2, <2>3, <2>4 DEF Telling
  <1>5. Barred' /\ Renewed'
    BY <1>1 DEF RecordInv, Barred, Renewed
  <1> QED
    BY <1>2, <1>3, <1>4, <1>5 DEF RecordInv

LEMMA MovesKeep ==
    ASSUME NEW old, NEW new, NEW notes \in Seq(Notices), NEW more, NEW b \in Nat,
           Sound(old), Moves(old, notes, new, more, b)
    PROVE  /\ \A i \in Ids : Prefix(old[i], new[i])
           /\ \A i \in Ids \ Mine(b) : new[i] = old[i]
           /\ OwnGrids(old) => OwnGrids(new)
           /\ Young(old, b) => Young(new, b)
           /\ \A S : AllTold(old, S \union NotesIn(notes))
                        => AllTold(new, S \union NotesIn(more))
PROOF
  <1>1. old \in Revs /\ new \in Revs /\ Advance(old, new, NotesIn(more), b)
    BY DEF Sound, Moves
  <1>2. ASSUME NEW S, AllTold(old, S \union NotesIn(notes))
        PROVE  AllTold(new, S \union NotesIn(more))
    <2>1. AllTold(new, (S \union NotesIn(notes)) \union NotesIn(more))
      BY <1>1, <1>2, AdvanceTold
    <2>2. (S \union NotesIn(notes)) \union NotesIn(more) \subseteq S \union NotesIn(more)
      BY DEF Moves
    <2> QED
      BY <2>1, <2>2, ToldMonotone
  <1> QED
    BY <1>1, <1>2, AdvancePrefix, AdvanceYoung DEF Advance

\* A step of the engine alone.
LEMMA EngineKeepsRecord ==
    ASSUME RecordInv, Up, Moves(rev, pending, rev', pending', boot),
           rev'[Grid(boot)] = rev[Grid(boot)],
           UNCHANGED <<boot, mode, job, decisions, barrier, projection, row>>
    PROVE  RecordInv'
PROOF
  <1>1. /\ boot \in 1..MaxBoots /\ boot \in Nat /\ Sound(rev) /\ pending \in Seq(Notices)
        /\ OwnGrids(rev) /\ Known(pending, rev) /\ Young(rev, boot)
        /\ rev \in Revs /\ decisions \in Revs /\ (Queued => job.rev \in Revs)
    BY MonitorAssumption DEF RecordInv, RecordTypes, Memory, Sound
  <1>0. Sound(rev) /\ boot \in Nat /\ pending \in Seq(Notices) /\ OwnGrids(rev) /\ Young(rev, boot)
        /\ Moves(rev, pending, rev', pending', boot)
    BY <1>1
  <1>2. /\ \A i \in Ids : Prefix(rev[i], rev'[i])
        /\ \A i \in Ids \ Mine(boot) : rev'[i] = rev[i]
        /\ OwnGrids(rev') /\ Young(rev', boot)
        /\ \A S : AllTold(rev, S \union NotesIn(pending))
                     => AllTold(rev', S \union NotesIn(pending'))
    BY <1>0, MovesKeep
  <1>3. Sound(rev') /\ pending' \in Seq(Notices) /\ Known(pending', rev')
    BY <1>1 DEF Moves
  <1>4. Up' /\ (Queued' <=> Queued)
    BY DEF Up, Queued
  <1>5. RecordTypes'
    BY <1>1, <1>2, <1>3, <1>4 DEF RecordInv, RecordTypes
  <1>6. Memory'
    <2>1. \A i \in Mine(boot) : i \in Ids
      BY <1>1, IdsFacts DEF Mine
    <2>2. ASSUME NEW i \in Mine(boot) PROVE Prefix(Recorded(i), rev'[i])
      <3>1. Prefix(Recorded(i), rev[i]) /\ Prefix(rev[i], rev'[i])
        BY <1>2, <2>1 DEF RecordInv, Memory
      <3>2. Recorded(i) \in Seq(Entry) /\ rev[i] \in Seq(Entry) /\ rev'[i] \in Seq(Entry)
        BY <1>1, <1>3, <2>1 DEF Recorded, Revs, Sound
      <3> QED
        BY <3>1, <3>2, PrefixFacts
    <2>3. \A i \in Mine(boot) : Recorded(i)' = Recorded(i)
      BY <1>4 DEF Recorded
    <2>4. Grid(boot) \in Mine(boot)
      BY DEF Mine
    <2> QED
      BY <1>2, <1>4, <2>1, <2>2, <2>3, <2>4 DEF RecordInv, Memory
  <1>7. Telling'
    <2>1. UnderWay' = UnderWay /\ Stored' = Stored
      BY <1>4 DEF UnderWay, Stored
    <2>2. AllTold(rev', (Stored \union UnderWay) \union NotesIn(pending'))
      BY <1>2 DEF RecordInv, Telling
    <2> QED
      BY <1>4, <2>1, <2>2 DEF RecordInv, Telling
  <1>8. Barred' /\ Renewed'
    BY <1>4 DEF RecordInv, Barred, Renewed
  <1> QED
    BY <1>5, <1>6, <1>7, <1>8 DEF RecordInv

\* A snapshot.
LEMMA PublishKeepsRecord ==
    ASSUME RecordInv, Up, Up', job.phase = "none",
           NEW revs, NEW notes, NEW ready, NEW candidate \in BOOLEAN,
           Moves(rev, pending, revs, notes, boot), revs[Grid(boot)] = rev[Grid(boot)],
           Publish(revs, notes, ready, candidate),
           UNCHANGED <<boot, decisions, barrier, projection, row>>
    PROVE  RecordInv'
PROOF
  <1> DEFINE g == Grid(boot)
             new == Assessed(revs, g, candidate)
             more == AssessmentNotes(notes, revs, g, candidate)
  <1>1. /\ boot \in 1..MaxBoots /\ boot \in Nat /\ Sound(rev) /\ pending \in Seq(Notices)
        /\ OwnGrids(rev) /\ Known(pending, rev) /\ Young(rev, boot)
        /\ rev \in Revs /\ decisions \in Revs /\ ~Queued
    BY MonitorAssumption DEF RecordInv, RecordTypes, Memory, Sound, Queued
  <1>2. /\ rev' = new /\ pending' = <<>>
        /\ job' = [phase |-> "queued", rev |-> new, ready |-> ready, notes |-> more]
        /\ Len(revs[g]) < MaxSnapshots
    BY DEF Publish, Room
  <1> HIDE DEF new, more
  <1>0. Sound(rev) /\ boot \in Nat /\ pending \in Seq(Notices) /\ OwnGrids(rev) /\ Young(rev, boot)
        /\ Moves(rev, pending, revs, notes, boot)
    BY <1>1
  <1>3. /\ \A i \in Ids : Prefix(rev[i], revs[i])
        /\ \A i \in Ids \ Mine(boot) : revs[i] = rev[i]
        /\ OwnGrids(revs) /\ Young(revs, boot)
        /\ \A S : AllTold(rev, S \union NotesIn(pending))
                     => AllTold(revs, S \union NotesIn(notes))
    <2>0. /\ rev \in Revs /\ revs \in Revs /\ boot \in Nat
          /\ Advance(rev, revs, NotesIn(notes), boot)
      BY <1>0 DEF Moves, Sound
    <2>1. \A i \in Ids : Prefix(rev[i], revs[i])
      BY <2>0, AdvancePrefix
    <2>2. \A i \in Ids \ Mine(boot) : revs[i] = rev[i]
      BY <2>0 DEF Advance
    <2>3. OwnGrids(revs) /\ Young(revs, boot)
      BY <1>0, <2>0, AdvanceYoung
    <2>4. \A S : AllTold(rev, S \union NotesIn(pending))
                    => AllTold(revs, S \union NotesIn(notes))
      BY <1>0, MovesKeep
    <2> QED
      BY <2>1, <2>2, <2>3, <2>4
  <1>4. Sound(revs) /\ notes \in Seq(Notices) /\ Known(notes, revs)
    BY <1>1 DEF Moves
  <1>5. /\ Moves(revs, notes, new, more, boot)
        /\ Len(new[g]) = Len(revs[g]) + 1
    BY <1>1, <1>2, <1>4, AssessMoves DEF new, more
  <1>6. /\ \A i \in Ids : Prefix(revs[i], new[i])
        /\ \A i \in Ids \ Mine(boot) : new[i] = revs[i]
        /\ OwnGrids(new) /\ Young(new, boot)
        /\ \A S : AllTold(revs, S \union NotesIn(notes))
                     => AllTold(new, S \union NotesIn(more))
    BY <1>1, <1>3, <1>4, <1>5, MovesKeep
  <1>7. Sound(new) /\ more \in Seq(Notices) /\ Known(more, new) /\ new \in Revs /\ revs \in Revs
    BY <1>4, <1>5 DEF Moves, Sound
  <1>8. Queued' /\ job'.rev = new /\ job'.notes = more /\ job'.phase = "queued"
    BY <1>2 DEF Queued
  <1>9. pending' \in Seq(Notices) /\ NotesIn(pending') = {}
    BY <1>2 DEF NotesIn
  <1>10. RecordTypes'
    BY <1>1, <1>2, <1>6, <1>7, <1>8, <1>9 DEF RecordInv, RecordTypes, Known
  <1>11. Memory'
    <2>1. \A i \in Mine(boot) : i \in Ids
      BY <1>1, IdsFacts DEF Mine
    <2>2. ASSUME NEW i \in Mine(boot) PROVE Prefix(decisions[i], new[i]) /\ Prefix(new[i], new[i])
      <3>1. Prefix(decisions[i], rev[i]) /\ Prefix(rev[i], revs[i]) /\ Prefix(revs[i], new[i])
        BY <1>1, <1>3, <1>6, <2>1 DEF RecordInv, Memory, Recorded
      <3>2. /\ decisions[i] \in Seq(Entry) /\ rev[i] \in Seq(Entry)
            /\ revs[i] \in Seq(Entry) /\ new[i] \in Seq(Entry)
        BY <1>1, <1>7, <2>1 DEF Revs
      <3>3. Prefix(decisions[i], revs[i])
        BY <3>1, <3>2, PrefixFacts
      <3> QED
        BY <3>1, <3>2, <3>3, PrefixFacts
    <2>3. \A i : Recorded(i)' = new[i]
      BY <1>8 DEF Recorded
    <2>4. Len(new[g]) = Len(decisions[g]) + 1
      BY <1>1, <1>5 DEF RecordInv, Memory, Recorded
    <2>5. ASSUME NEW i \in Ids \ Mine(boot) PROVE new[i] = <<>>
      BY <1>3, <1>6 DEF RecordInv, Memory
    <2> QED
      BY <1>2, <1>6, <1>8, <2>2, <2>3, <2>4, <2>5 DEF Memory
  <1>12. Telling'
    <2>1. Stored' = Stored /\ UnderWay' = NotesIn(more) /\ UnderWay = {}
      BY <1>1, <1>8 DEF UnderWay, Stored
    <2>2. AllTold(rev, Stored \union NotesIn(pending))
      <3>1. (Stored \union UnderWay) \union NotesIn(pending) = Stored \union NotesIn(pending)
        BY <2>1
      <3> QED
        BY <3>1 DEF RecordInv, Telling
    <2>3. AllTold(new, Stored \union NotesIn(more))
      BY <1>3, <1>6, <2>2
    <2>4. (Stored \union NotesIn(more)) \union {} = Stored \union NotesIn(more)
      OBVIOUS
    <2> QED
      BY <1>2, <1>8, <1>9, <2>1, <2>3, <2>4 DEF RecordInv, Telling
  <1>13. Barred' /\ Renewed'
    BY <1>8 DEF RecordInv, Barred, Renewed
  <1> QED
    BY <1>10, <1>11, <1>12, <1>13 DEF RecordInv

-----------------------------------------------------------------------------
LEMMA PrefixEntry ==
    ASSUME NEW a \in Seq(Entry), NEW b, Prefix(a, b), NEW r \in DOMAIN a
    PROVE  a[r] = b[r] /\ (r > 1 => a[r - 1] = b[r - 1])
PROOF
  <1>1. r \in 1..Len(a) /\ Len(a) \in Nat /\ Len(a) <= Len(b)
    BY DEF Prefix
  <1>2. r > 1 => r - 1 \in 1..Len(a)
    BY <1>1
  <1>3. \A q \in 1..Len(a) : a[q] = b[q]
    BY DEF Prefix
  <1>4. a[r] = b[r] /\ (r > 1 => a[r - 1] = b[r - 1])
    BY <1>1, <1>2, <1>3
  <1> QED
    BY <1>4

LEMMA PrefixWhole ==
    ASSUME NEW a \in Seq(Entry), NEW b \in Seq(Entry), Prefix(a, b), ~(Len(b) > Len(a))
    PROVE  a = b
PROOF
  <1>1. Len(a) = Len(b) /\ Len(a) \in Nat
    BY DEF Prefix
  <1>2. \A r \in 1..Len(a) : a[r] = b[r]
    BY DEF Prefix
  <1> QED
    BY <1>1, <1>2

\* The rows that a commit adds, and those it leaves.
LEMMA CommitStores ==
    ASSUME OutboxInv, RecordTypes, Commit
    PROVE  /\ Stored \subseteq Stored'
           /\ \A n \in NotesIn(job.notes) : ~IsPositive(job.rev, n) => n \in Stored'
PROOF
  <1> DEFINE new(n) == /\ \E k \in DOMAIN job.notes : job.notes[k] = n
                       /\ Kept(n)
                       /\ row[n].status = "absent"
             added == [n \in Notices |->
                         IF new(n) THEN [row[n] EXCEPT !.status = "pending"] ELSE row[n]]
  <1>1. row' = Expired(added) /\ job.phase = "queued"
    BY DEF Commit
  <1>2. row \in [Notices -> [status : RowStatus, attempts : Nat, due : BOOLEAN]]
    BY DEF OutboxInv, OutboxTypes
  <1>3. \A n \in Notices : added[n].status = IF new(n) THEN "pending" ELSE row[n].status
    BY <1>2
  <1>4. \A n \in Notices : row'[n].status \in {added[n].status, "expired"}
    BY <1>1, <1>2 DEF Expired
  <1>5. \A n \in NotesIn(job.notes) :
           n \in Notices /\ \E k \in DOMAIN job.notes : job.notes[k] = n
    BY <1>1 DEF RecordTypes, Queued, NotesIn
  <1> HIDE DEF added
  <1>6. Stored \subseteq Stored'
    BY <1>3, <1>4 DEF Stored
  <1>7. ASSUME NEW n \in NotesIn(job.notes), ~IsPositive(job.rev, n)
        PROVE  n \in Stored'
    <2>1. n \in Notices /\ Kept(n) /\ (new(n) \/ row[n].status # "absent")
      BY <1>5, <1>7 DEF Kept
    <2>2. added[n].status # "absent"
      BY <1>3, <2>1
    <2> QED
      BY <1>4, <2>1, <2>2 DEF Stored
  <1> QED
    BY <1>6, <1>7

LEMMA CommitKeepsRecord ==
    ASSUME OutboxInv, RecordInv, Commit
    PROVE  /\ RecordInv'
           /\ \A i \in Ids : Prefix(decisions[i], decisions'[i])
PROOF
  <1> DEFINE g == Grid(boot)
  <1>1. /\ Queued /\ Up /\ boot \in 1..MaxBoots
        /\ boot' = boot /\ mode' = mode /\ rev' = rev /\ pending' = pending
        /\ projection' = projection
        /\ job' = [job EXCEPT !.phase = "committed"]
        /\ barrier' = [boot |-> boot,
                       rev |-> IF Latest(job.rev[g]) # "CANDIDATE" THEN Len(job.rev[g])
                               ELSE IF barrier.boot = boot THEN barrier.rev ELSE 0]
        /\ decisions' = [i \in Ids |-> IF Len(job.rev[i]) > Len(decisions[i])
                                       THEN job.rev[i] ELSE decisions[i]]
    BY DEF Commit, engine, RecordInv, RecordTypes, Queued, Up
  <1>2. /\ Sound(rev) /\ Sound(decisions) /\ Sound(job.rev)
        /\ rev \in Revs /\ decisions \in Revs /\ job.rev \in Revs
        /\ \A i \in Mine(boot) : i \in Ids
        /\ g \in Ids /\ g \in Mine(boot)
    BY <1>1, IdsFacts DEF RecordInv, RecordTypes, Sound, Mine
  <1>3. \A i \in Ids : /\ rev[i] \in Seq(Entry) /\ decisions[i] \in Seq(Entry)
                       /\ job.rev[i] \in Seq(Entry)
    BY <1>2 DEF Revs
  <1>4. \A i \in Mine(boot) : Prefix(decisions[i], job.rev[i]) /\ Prefix(job.rev[i], rev[i])
    BY <1>1 DEF RecordInv, Memory, Recorded
  <1>5. \A i \in Ids \ Mine(boot) : job.rev[i] = <<>> /\ rev[i] = <<>>
    BY <1>1 DEF RecordInv, Memory
  <1>6. \A i \in Mine(boot) : decisions'[i] = job.rev[i]
    <2> SUFFICES ASSUME NEW i \in Mine(boot) PROVE decisions'[i] = job.rev[i]
      OBVIOUS
    <2>1. CASE Len(job.rev[i]) > Len(decisions[i])
      BY <1>1, <1>2, <2>1
    <2>2. CASE ~(Len(job.rev[i]) > Len(decisions[i]))
      <3>1. decisions'[i] = decisions[i]
        BY <1>1, <1>2, <2>2
      <3>2. decisions[i] = job.rev[i]
        BY <1>2, <1>3, <1>4, <2>2, PrefixWhole
      <3> QED
        BY <3>1, <3>2
    <2> QED
      BY <2>1, <2>2
  <1>7. \A i \in Ids \ Mine(boot) : decisions'[i] = decisions[i]
    <2> SUFFICES ASSUME NEW i \in Ids \ Mine(boot) PROVE decisions'[i] = decisions[i]
      OBVIOUS
    <2>1. job.rev[i] = <<>> /\ decisions[i] \in Seq(Entry)
      BY <1>3, <1>5
    <2>2. ~(Len(job.rev[i]) > Len(decisions[i]))
      BY <2>1
    <2>3. decisions'[i] = IF Len(job.rev[i]) > Len(decisions[i])
                          THEN job.rev[i] ELSE decisions[i]
      BY <1>1
    <2> QED
      BY <2>2, <2>3
  <1>8. \A i \in WickIds : decisions'[i] = job.rev[i]
    BY <1>6 DEF Mine
  <1>9. decisions' \in Revs
    <2>1. \A i \in Ids : decisions'[i] \in Seq(Entry)
      BY <1>3, <1>6, <1>7
    <2>2. decisions' = [i \in Ids |-> decisions'[i]]
      BY <1>1
    <2> QED
      BY <2>1, <2>2 DEF Revs
  <1>10. Sound(decisions')
    <2>1. \A i \in Ids : Len(decisions'[i]) <= Last(i)
      BY <1>2, <1>6, <1>7 DEF Sound
    <2>2. \A i \in WickIds : OpenIn(decisions', i) <=> OpenIn(job.rev, i)
      BY <1>8 DEF OpenIn
    <2>3. Active(decisions') = Active(job.rev)
      BY <1>2, <1>9, <2>2, ActiveFacts
    <2> QED
      BY <1>2, <1>8, <1>9, <2>1, <2>2, <2>3 DEF Sound
  <1>11. OwnGrids(decisions')
    <2>1. ASSUME NEW c \in 1..MaxBoots
          PROVE  decisions'[Grid(c)] = job.rev[Grid(c)] \/ decisions'[Grid(c)] = decisions[Grid(c)]
      BY <1>6, <1>7, IdsFacts
    <2>2. OwnGrids(job.rev) /\ OwnGrids(decisions)
      BY <1>1 DEF RecordInv, RecordTypes
    <2> QED
      BY <2>1, <2>2 DEF OwnGrids
  <1>12. ~Queued' /\ Up' /\ job'.phase = "committed"
    BY <1>1 DEF Queued, Up, RecordInv, RecordTypes
  <1>13. RecordTypes'
    BY <1>1, <1>10, <1>11, <1>12 DEF RecordInv, RecordTypes
  <1>14. Memory'
    <2>1. \A i : Recorded(i)' = decisions'[i]
      BY <1>12 DEF Recorded
    <2>2. Len(job.rev[g]) = Len(rev[g]) /\ Young(rev, boot)
      BY <1>1 DEF RecordInv, Memory, Recorded
    <2> QED
      BY <1>1, <1>2, <1>4, <1>5, <1>6, <1>12, <2>1, <2>2 DEF Memory
  <1>15. /\ Stored \subseteq Stored'
         /\ \A n \in NotesIn(job.notes) : ~IsPositive(job.rev, n) => n \in Stored'
    BY CommitStores DEF RecordInv
  <1>16. ASSUME NEW i \in Mine(boot), NEW r \in DOMAIN job.rev[i], EndedIn(job.rev, i, r),
                Notice(i, r) \in NotesIn(job.notes)
         PROVE  Notice(i, r) \in Stored'
    <2>1. i \in Ids /\ r \in 1..Last(i)
      <3>1. job.rev[i] \in Seq(Entry) /\ Len(job.rev[i]) <= Last(i) /\ Last(i) \in Nat
        BY <1>2, <1>3, IdsFacts DEF Sound
      <3> QED
        BY <1>2, <3>1
    <2>2. Notice(i, r).id = i /\ Notice(i, r).rev = r
      BY <2>1, NoticeFacts
    <2>3. ~IsPositive(job.rev, Notice(i, r))
      BY <1>16, <2>2 DEF IsPositive, EndedIn, Positives
    <2> QED
      BY <1>15, <1>16, <2>3
  <1>17. Telling'
    <2>1. AllTold(decisions', Stored')
      <3> SUFFICES ASSUME NEW i \in Ids, NEW r \in DOMAIN decisions'[i], EndedIn(decisions', i, r)
                   PROVE  Notice(i, r) \in Stored'
        BY DEF AllTold
      <3>1. CASE i \in Mine(boot)
        <4>1. r \in DOMAIN job.rev[i] /\ EndedIn(job.rev, i, r)
          BY <1>6, <3>1 DEF EndedIn
        <4>2. Notice(i, r) \in Stored \union NotesIn(job.notes)
          BY <1>1, <4>1 DEF RecordInv, Telling, AllTold, UnderWay
        <4> QED
          BY <1>15, <1>16, <3>1, <4>1, <4>2
      <3>2. CASE i \notin Mine(boot)
        <4>1. r \in DOMAIN decisions[i] /\ EndedIn(decisions, i, r)
          BY <1>7, <3>2 DEF EndedIn
        <4> QED
          BY <1>15, <4>1 DEF RecordInv, Telling, AllTold
      <3> QED
        BY <3>1, <3>2
    <2>2. AllTold(rev, Stored' \union NotesIn(pending))
      <3> SUFFICES ASSUME NEW i \in Ids, NEW r \in DOMAIN rev[i], EndedIn(rev, i, r)
                   PROVE  Notice(i, r) \in Stored' \union NotesIn(pending)
        BY DEF AllTold
      <3>1. Notice(i, r) \in (Stored \union NotesIn(job.notes)) \union NotesIn(pending)
        BY <1>1 DEF RecordInv, Telling, AllTold, UnderWay
      <3>2. i \in Mine(boot)
        <4>1. rev[i] # <<>>
          BY <1>3
        <4> QED
          BY <1>5, <4>1
      <3>3. ASSUME Notice(i, r) \in NotesIn(job.notes)
            PROVE  Notice(i, r) \in Stored'
        <4>1. Notice(i, r).rev \in DOMAIN job.rev[Notice(i, r).id]
          BY <1>1, <3>3 DEF RecordInv, RecordTypes, Known
        <4>2. r \in 1..Last(i)
          <5>1. rev[i] \in Seq(Entry) /\ Len(rev[i]) <= Last(i) /\ Last(i) \in Nat
            BY <1>2, <1>3, IdsFacts DEF Sound
          <5>2. r \in 1..Len(rev[i]) /\ Len(rev[i]) \in Nat
            BY <5>1
          <5> QED
            BY <5>1, <5>2
        <4>3. r \in DOMAIN job.rev[i]
          BY <4>1, <4>2, NoticeFacts
        <4>4. job.rev[i][r] = rev[i][r] /\ (r > 1 => job.rev[i][r - 1] = rev[i][r - 1])
          <5>1. Prefix(job.rev[i], rev[i]) /\ job.rev[i] \in Seq(Entry)
            BY <1>3, <1>4, <3>2
          <5> QED
            BY <4>3, <5>1, PrefixEntry
        <4>5. EndedIn(job.rev, i, r)
          BY <4>4 DEF EndedIn
        <4> QED
          BY <1>16, <3>2, <3>3, <4>3, <4>5
      <3> QED
        BY <1>15, <3>1, <3>3
    <2>3. UnderWay' = {} /\ pending' = pending
      BY <1>1, <1>12 DEF UnderWay
    <2>4. (Stored' \union {}) \union NotesIn(pending) = Stored' \union NotesIn(pending)
      OBVIOUS
    <2> QED
      BY <1>1, <1>12, <2>1, <2>2, <2>3, <2>4 DEF Telling
  <1>18. Barred'
    <2>1. barrier'.boot = boot /\ barrier'.rev \in Nat /\ barrier.boot \in 0..boot /\ boot \in Nat
      BY <1>1, <1>2, <1>3, MonitorAssumption DEF RecordInv, Barred
    <2>2. ASSUME NEW b \in 1..MaxBoots, b > boot PROVE decisions'[Grid(b)] = <<>>
      <3>1. Grid(b) \in Ids \ Mine(boot)
        BY <1>1, <2>2, IdsFacts DEF Mine
      <3>2. b > barrier.boot
        BY <2>1, <2>2
      <3> QED
        BY <1>7, <3>1, <3>2 DEF RecordInv, Barred
    <2>3. ASSUME NEW r \in DOMAIN job.rev[g], job.rev[g][r].state # "CANDIDATE"
          PROVE  r <= barrier'.rev
      <3>1. /\ job.rev[g] \in Seq(Entry) /\ decisions[g] \in Seq(Entry)
            /\ Len(job.rev[g]) = Len(decisions[g]) + 1
            /\ Prefix(decisions[g], job.rev[g])
        BY <1>1, <1>2, <1>3, <1>4 DEF RecordInv, Memory
      <3>2. CASE Latest(job.rev[g]) # "CANDIDATE"
        <4>1. barrier'.rev = Len(job.rev[g])
          BY <1>1, <3>2
        <4> QED
          BY <3>1, <4>1
      <3>3. CASE Latest(job.rev[g]) = "CANDIDATE"
        <4>1. r # Len(job.rev[g])
          BY <2>3, <3>3 DEF Latest
        <4>2. r \in DOMAIN decisions[g] /\ decisions[g][r] = job.rev[g][r]
          BY <3>1, <4>1 DEF Prefix
        <4>3. barrier.boot = boot
          <5> SUFFICES ASSUME barrier.boot # boot PROVE FALSE
            OBVIOUS
          <5>1. boot > barrier.boot
            BY <2>1
          <5>2. decisions[g] = <<>>
            BY <1>1, <5>1 DEF RecordInv, Barred
          <5> QED
            BY <4>2, <5>2
        <4>4. barrier'.rev = barrier.rev
          BY <1>1, <3>3, <4>3
        <4>5. barrier.boot # 0
          BY <1>1, <4>3
        <4>6. r <= barrier.rev
          BY <2>3, <4>2, <4>3, <4>5 DEF RecordInv, Barred
        <4> QED
          BY <4>4, <4>6
      <3> QED
        BY <3>2, <3>3
    <2>4. boot' = boot /\ decisions'[g] = job.rev[g]
      BY <1>1, <1>2, <1>6
    <2> QED
      BY <2>1, <2>2, <2>3, <2>4 DEF Barred
  <1>19. Renewed'
    <2>1. Young(decisions', boot)
      BY <1>1, <1>8 DEF RecordInv, Memory, Young, OpenIn
    <2> QED
      BY <1>1, <2>1 DEF Renewed
  <1>20. \A i \in Ids : Prefix(decisions[i], decisions'[i])
    BY <1>3, <1>4, <1>6, <1>7, PrefixFacts
  <1> QED
    BY <1>13, <1>14, <1>17, <1>18, <1>19, <1>20 DEF RecordInv

LEMMA ExportKeepsRecord ==
    ASSUME RecordInv, Export
    PROVE  RecordInv'
PROOF
  <1>1. /\ job.phase = "committed" /\ job' = NoJob /\ ~Queued /\ ~Queued'
        /\ UNCHANGED <<boot, mode, rev, pending, decisions, barrier, row>>
    BY DEF Export, NoJob, Queued, engine, outbox
  <1>2. Up /\ Up' /\ Stored' = Stored
    BY <1>1 DEF RecordInv, RecordTypes, Up, Stored
  <1>3. RecordTypes'
    <2>1. job' = [phase |-> job'.phase, rev |-> job'.rev, ready |-> job'.ready,
                  notes |-> job'.notes]
      BY <1>1 DEF NoJob
    <2> QED
      BY <1>1, <1>2, <2>1 DEF RecordInv, RecordTypes
  <1>4. Memory'
    BY <1>1, <1>2 DEF RecordInv, Memory, Recorded
  <1>5. Telling'
    <2>1. UnderWay = {} /\ UnderWay' = {}
      BY <1>1 DEF UnderWay
    <2> QED
      BY <1>1, <1>2, <2>1 DEF RecordInv, Telling
  <1>6. Barred' /\ Renewed'
    BY <1>1, <1>2 DEF RecordInv, Barred, Renewed
  <1> QED
    BY <1>3, <1>4, <1>5, <1>6 DEF RecordInv

LEMMA ForgetKeepsRecord ==
    ASSUME RecordInv, Forget
    PROVE  RecordInv'
PROOF
  <1> DEFINE empty == [i \in Ids |-> <<>>]
  <1>1. /\ mode' = "down" /\ rev' = empty /\ pending' = <<>> /\ job' = NoJob
        /\ projection' = "none" /\ UNCHANGED <<boot, decisions, barrier, row>>
    BY DEF Forget, outbox
  <1>2. ~Up' /\ ~Queued' /\ Stored' = Stored
    BY <1>1 DEF Up, Queued, NoJob, Stored
  <1>3. empty \in Revs /\ \A i \in Ids : empty[i] = <<>>
    BY DEF Revs
  <1> HIDE DEF empty
  <1>4. \A i \in Ids : Len(empty[i]) = 0 /\ DOMAIN empty[i] = {}
    BY <1>3
  <1>5. \A i \in WickIds : ~OpenIn(empty, i)
    BY <1>3, IdsFacts DEF OpenIn
  <1>6. Sound(empty) /\ OwnGrids(empty)
    BY <1>3, <1>4, <1>5, ActiveFacts, IdsFacts DEF Sound, OwnGrids
  <1>7. pending' \in Seq(Notices) /\ Known(pending', rev')
    BY <1>1 DEF Known, NotesIn
  <1>8. RecordTypes'
    <2>1. /\ job'.phase = "none"
          /\ job' = [phase |-> job'.phase, rev |-> job'.rev, ready |-> job'.ready,
                     notes |-> job'.notes]
      BY <1>1 DEF NoJob
    <2> QED
      BY <1>1, <1>2, <1>6, <1>7, <2>1 DEF RecordInv, RecordTypes
  <1>9. Memory' /\ Telling' /\ Barred' /\ Renewed'
    BY <1>1, <1>2 DEF RecordInv, Memory, Telling, Barred, Renewed
  <1> QED
    BY <1>8, <1>9 DEF RecordInv

\* No row goes away.
LEMMA SendingStores ==
    ASSUME OutboxInv, Sending
    PROVE  /\ Stored \subseteq Stored'
           /\ UNCHANGED <<boot, mode, rev, pending, job, decisions, barrier, projection>>
PROOF
  <1>1. row \in [Notices -> [status : RowStatus, attempts : Nat, due : BOOLEAN]]
    BY DEF OutboxInv, OutboxTypes
  <1>2. ASSUME NEW status, NEW k, Update(status, k), status # "absent"
        PROVE  Stored \subseteq Stored'
    BY <1>1, <1>2 DEF Update, Stored
  <1>3. CASE Fetch
    <2>1. \A n \in Notices : row[n].status # "absent" => row'[n].status # "absent"
      BY <1>1, <1>3 DEF Fetch, Expired
    <2> QED
      BY <1>3, <2>1 DEF Fetch, Stored, engine, store
  <1>4. CASE CheckItem
    BY <1>2, <1>4 DEF CheckItem, Stored, engine, store
  <1>5. CASE Claim
    <2>1. \A n \in Notices : row[n].status # "absent" => row'[n].status # "absent"
      BY <1>1, <1>5 DEF Claim
    <2> QED
      BY <1>5, <2>1 DEF Claim, Stored, engine, store
  <1>6. CASE Post
    BY <1>6 DEF Post, Stored, engine, store, outbox
  <1>7. CASE Accepted
    BY <1>2, <1>7 DEF Accepted, Answered, engine, store
  <1>8. ASSUME NEW s \in RowStatus, Limited(s)
        PROVE  /\ Stored \subseteq Stored'
               /\ UNCHANGED <<boot, mode, rev, pending, job, decisions, barrier, projection>>
    <2>1. s # "absent" /\ Update(s, sender.attempts)
      BY <1>8 DEF Limited
    <2> QED
      BY <1>2, <1>8, <2>1 DEF Limited, Answered, engine, store
  <1>9. CASE Rejected
    BY <1>2, <1>9 DEF Rejected, Answered, engine, store
  <1>10. CASE Unclear
    BY <1>2, <1>10 DEF Unclear, engine, store
  <1> QED
    BY <1>3, <1>4, <1>5, <1>6, <1>7, <1>8, <1>9, <1>10 DEF Sending

LEMMA CheckpointFacts ==
    ASSUME Sound(decisions)
    PROVE  /\ Sound(Checkpoint) /\ OwnGrids(Checkpoint)
           /\ \A i \in WickIds : Checkpoint[i] = decisions[i]
           /\ \A b \in 1..MaxBoots : Checkpoint[Grid(b)] = <<>>
           /\ \A S : AllTold(decisions, S) => AllTold(Checkpoint, S)
PROOF
  <1> DEFINE c == Checkpoint
  <1>1. decisions \in Revs /\ \A i \in Ids : decisions[i] \in Seq(Entry)
    BY DEF Sound, Revs
  <1>2. /\ \A i \in WickIds : c[i] = decisions[i]
        /\ \A b \in 1..MaxBoots : c[Grid(b)] = <<>>
        /\ \A i \in Ids : c[i] = decisions[i] \/ c[i] = <<>>
    BY IdsFacts DEF Checkpoint
  <1>3. c \in Revs
    BY <1>1 DEF Checkpoint, Revs
  <1> HIDE DEF c
  <1>4. \A i \in WickIds : OpenIn(c, i) <=> OpenIn(decisions, i)
    BY <1>2 DEF OpenIn
  <1>5. Active(c) = Active(decisions)
    BY <1>1, <1>3, <1>4, ActiveFacts
  <1>6. ASSUME NEW i \in Ids PROVE Len(c[i]) <= Last(i)
    BY <1>2, IdsFacts DEF Sound
  <1>7. Sound(c)
    BY <1>2, <1>3, <1>4, <1>5, <1>6 DEF Sound
  <1>8. OwnGrids(c)
    BY <1>2 DEF OwnGrids
  <1>9. ASSUME NEW S, AllTold(decisions, S) PROVE AllTold(c, S)
    <2> SUFFICES ASSUME NEW i \in Ids, NEW r \in DOMAIN c[i], EndedIn(c, i, r)
                 PROVE  Notice(i, r) \in S
      BY DEF AllTold
    <2>1. c[i] = decisions[i]
      BY <1>2
    <2> QED
      BY <1>9, <2>1 DEF AllTold, EndedIn
  <1> QED
    BY <1>2, <1>7, <1>8, <1>9 DEF c

LEMMA StartKeepsRecord ==
    ASSUME OutboxInv, RecordInv, Start
    PROVE  RecordInv' /\ Stored \subseteq Stored'
PROOF
  <1> DEFINE b == boot + 1
  <1>1. /\ mode = "down" /\ boot' = b /\ mode' = "up" /\ b \in 1..MaxBoots /\ boot \in Nat
        /\ row' = [n \in Notices |-> Interrupted(row[n])]
        /\ rev' = Withdraw(Checkpoint, b) /\ pending' = Withdrawals(<<>>, Checkpoint)
        /\ UNCHANGED <<job, decisions, barrier, projection>>
    BY MonitorAssumption DEF Start, store, RecordInv, RecordTypes
  <1>2. /\ Sound(decisions) /\ OwnGrids(decisions) /\ ~Up /\ Up' /\ ~Queued /\ ~Queued'
        /\ job.phase = "none" /\ projection = "none" /\ b \in Nat
    BY <1>1 DEF RecordInv, RecordTypes, Up, Queued
  <1>3. Stored \subseteq Stored'
    <2>1. \A n \in Notices : row[n].status # "absent" => row'[n].status # "absent"
      BY <1>1 DEF Interrupted, OutboxInv, OutboxTypes
    <2> QED
      BY <2>1 DEF Stored
  <1> HIDE DEF b
  <1>4. /\ Moves(Checkpoint, <<>>, rev', pending', b)
        /\ Active(rev') = {}
        /\ \A c \in 1..MaxBoots : rev'[Grid(c)] = Checkpoint[Grid(c)]
    <2>1. <<>> \in Seq(Notices) /\ Sound(Checkpoint)
      BY <1>2, CheckpointFacts
    <2> QED
      BY <1>1, <1>2, <2>1, WithdrawMoves
  <1>5. /\ \A i \in Ids : Prefix(Checkpoint[i], rev'[i])
        /\ OwnGrids(rev')
        /\ AllTold(rev', Stored \union NotesIn(pending'))
    <2>1. /\ <<>> \in Seq(Notices) /\ Sound(Checkpoint) /\ OwnGrids(Checkpoint)
          /\ AllTold(Checkpoint, Stored)
      BY <1>2, CheckpointFacts DEF RecordInv, Telling
    <2>2. Stored \union NotesIn(<<>>) = Stored
      BY DEF NotesIn
    <2>3. AllTold(Checkpoint, Stored \union NotesIn(<<>>))
      BY <2>1, <2>2
    <2> QED
      BY <1>2, <1>4, <2>1, <2>3, MovesKeep
  <1>6. Sound(rev') /\ pending' \in Seq(Notices) /\ Known(pending', rev') /\ rev' \in Revs
    <2>1. Known(<<>>, Checkpoint)
      BY DEF Known, NotesIn
    <2> QED
      BY <1>4, <2>1 DEF Moves, Sound
  <1>7. RecordTypes'
    BY <1>1, <1>2, <1>5, <1>6 DEF RecordInv, RecordTypes
  <1>8. Memory'
    <2>1. decisions[Grid(b)] = <<>>
      BY <1>1 DEF RecordInv, Barred, b
    <2>2. rev'[Grid(b)] = <<>>
      BY <1>1, <1>2, <1>4, CheckpointFacts
    <2>3. ASSUME NEW i \in Mine(b) PROVE Prefix(decisions[i], rev'[i])
      <3>1. CASE i \in WickIds
        BY <1>2, <1>5, <3>1, CheckpointFacts, IdsFacts
      <3>2. CASE i = Grid(b)
        <4>1. <<>> \in Seq(Entry)
          OBVIOUS
        <4>2. Prefix(<<>>, <<>>)
          BY <4>1, PrefixFacts
        <4> QED
          BY <2>1, <2>2, <3>2, <4>2
      <3> QED
        BY <3>1, <3>2 DEF Mine
    <2>4. ASSUME NEW i \in Ids \ Mine(b) PROVE rev'[i] = <<>>
      <3>1. PICK c \in 1..MaxBoots : i = Grid(c)
        BY IdsFacts DEF Mine
      <3> QED
        BY <1>2, <1>4, <3>1, CheckpointFacts
    <2>5. Young(rev', b)
      BY <1>4, <1>6, ActiveFacts DEF Young
    <2>6. \A i : Recorded(i)' = decisions[i]
      BY <1>1, <1>2 DEF Recorded
    <2>7. Len(decisions[Grid(b)]) = Len(rev'[Grid(b)])
      BY <2>1, <2>2
    <2> QED
      BY <1>1, <1>2, <2>3, <2>4, <2>5, <2>6, <2>7 DEF Memory
  <1>9. Telling'
    <2>1. UnderWay' = {}
      BY <1>2 DEF UnderWay
    <2>2. AllTold(decisions, Stored')
      BY <1>3, ToldMonotone DEF RecordInv, Telling
    <2>3. AllTold(rev', (Stored' \union {}) \union NotesIn(pending'))
      <3>1. Stored \union NotesIn(pending') \subseteq (Stored' \union {}) \union NotesIn(pending')
        BY <1>3
      <3> QED
        BY <1>5, <3>1, ToldMonotone
    <2> QED
      BY <1>1, <1>2, <2>1, <2>2, <2>3 DEF Telling
  <1>10. Barred'
    <2>1. barrier.boot \in 0..boot'
      BY <1>1 DEF RecordInv, Barred, b
    <2> QED
      BY <1>1, <2>1 DEF RecordInv, Barred
  <1>11. Renewed'
    BY <1>1, <1>2 DEF Renewed
  <1> QED
    BY <1>3, <1>7, <1>8, <1>9, <1>10, <1>11 DEF RecordInv

-----------------------------------------------------------------------------
LEMMA StayMoves ==
    ASSUME NEW revs, Sound(revs), NEW notes \in Seq(Notices), NEW b
    PROVE  Moves(revs, notes, revs, notes, b)
  BY DEF Moves, Advance

LEMMA EngineKeeps ==
    ASSUME RecordInv, Engine
    PROVE  RecordInv' /\ Stored' = Stored /\ UNCHANGED <<boot, decisions>>
PROOF
  <1>1. /\ boot \in 0..MaxBoots /\ (Up => boot \in 1..MaxBoots) /\ Sound(rev)
        /\ pending \in Seq(Notices)
        /\ \A i \in Ids : rev[i] \in Seq(Entry)
        /\ MaxRev \in Nat
    BY MonitorAssumption DEF RecordInv, RecordTypes, Sound, Revs
  <1>2. ASSUME mode = "up", Moves(rev, pending, rev', pending', boot),
               rev'[Grid(boot)] = rev[Grid(boot)],
               UNCHANGED <<boot, mode, job, store, outbox>>
        PROVE  RecordInv' /\ Stored' = Stored /\ UNCHANGED <<boot, decisions>>
    <2>1. Up /\ UNCHANGED <<boot, mode, job, decisions, barrier, projection, row>>
      BY <1>2 DEF Up, store, outbox
    <2>2. RecordInv'
      BY <1>2, <2>1, EngineKeepsRecord
    <2> QED
      BY <2>1, <2>2 DEF Stored
  <1>3. ASSUME NEW k \in 1..Wicks, Impulse(k)
        PROVE  RecordInv' /\ Stored' = Stored /\ UNCHANGED <<boot, decisions>>
    <2>1. /\ mode = "up" /\ Active(rev) = {} /\ rev[Wick(k)] = <<>>
          /\ 1 < MaxRev
          /\ rev' = Revised(rev, Wick(k), "WATCH", boot)
          /\ pending' = Told(pending, rev, Wick(k), "WATCH")
          /\ UNCHANGED <<boot, mode, job, store, outbox>>
      BY <1>3 DEF Impulse, Revise, OpenEvent
    <2>2. Wick(k) \in WickIds
      BY DEF WickIds
    <2>3. boot \in 1..MaxBoots
      BY <1>1, <2>1 DEF Up
    <2>4. /\ Moves(rev, pending, rev', pending', boot)
          /\ \A c \in 1..MaxBoots : rev'[Grid(c)] = rev[Grid(c)]
      <3>1. /\ "WATCH" \in States \ {"CANDIDATE", "NONE"}
            /\ \A j \in Active(rev) : j = Wick(k)
            /\ Len(rev[Wick(k)]) < MaxRev /\ Len(rev[Wick(k)]) + 1 < MaxRev
            /\ boot \in Nat
        BY <1>1, <2>1, <2>3 DEF States, OpenEvent
      <3> QED
        BY <1>1, <2>1, <2>2, <3>1, ReviseMoves
    <2> QED
      BY <1>2, <2>1, <2>3, <2>4
  <1>4. ASSUME NEW i \in WickIds, NEW s \in States, Trade(i, s)
        PROVE  RecordInv' /\ Stored' = Stored /\ UNCHANGED <<boot, decisions>>
    <2>1. /\ mode = "up" /\ i \in Active(rev)
          /\ s \in {"EXPIRED", "WATCH", "CONFIRMED", "INVALIDATED"}
          /\ s \in OpenEvent => Len(rev[i]) + 1 < MaxRev
          /\ rev' = Revised(rev, i, s, boot)
          /\ pending' = Told(pending, rev, i, s)
          /\ UNCHANGED <<boot, mode, job, store, outbox>>
      BY <1>4 DEF Trade, Revise
    <2>2. boot \in 1..MaxBoots
      BY <1>1, <2>1 DEF Up
    <2>3. /\ Moves(rev, pending, rev', pending', boot)
          /\ \A c \in 1..MaxBoots : rev'[Grid(c)] = rev[Grid(c)]
      <3>1. /\ s \in States \ {"CANDIDATE", "NONE"} /\ boot \in Nat
            /\ \A j \in Active(rev) : j = i
            /\ Len(rev[i]) < MaxRev
        BY <1>1, <2>1, <2>2, ActiveFacts DEF Sound
      <3> QED
        BY <1>1, <2>1, <3>1, ReviseMoves
    <2> QED
      BY <1>2, <2>1, <2>2, <2>3
  <1>5. ASSUME mode = "up" \/ mode = "stopping"
        PROVE  /\ boot \in 1..MaxBoots /\ boot \in Nat
               /\ Moves(rev, pending, Withdraw(rev, boot), Withdrawals(pending, rev), boot)
               /\ Withdraw(rev, boot)[Grid(boot)] = rev[Grid(boot)]
    BY <1>1, <1>5, WithdrawMoves DEF Up
  <1>6. CASE Reset
    <2>1. /\ mode = "up" /\ rev' = Withdraw(rev, boot) /\ pending' = Withdrawals(pending, rev)
          /\ UNCHANGED <<boot, mode, job, store, outbox>>
      BY <1>6 DEF Reset
    <2> QED
      BY <1>2, <1>5, <2>1
  <1>7. ASSUME NEW channels \in BOOLEAN, NEW ready \in BOOLEAN, NEW candidate \in BOOLEAN,
               Snapshot(channels, ready, candidate)
        PROVE  RecordInv' /\ Stored' = Stored /\ UNCHANGED <<boot, decisions>>
    <2>1. /\ mode = "up" /\ job.phase = "none" /\ Up /\ Up'
          /\ UNCHANGED <<boot, decisions, barrier, projection, row>>
      BY <1>7 DEF Snapshot, Up, store, outbox
    <2>2. boot \in 1..MaxBoots /\ boot \in Nat
      BY <1>5, <2>1
    <2>3. ASSUME NEW revs, NEW notes, Publish(revs, notes, ready, candidate),
                 Moves(rev, pending, revs, notes, boot), revs[Grid(boot)] = rev[Grid(boot)]
          PROVE  RecordInv'
      BY <2>1, <2>3, PublishKeepsRecord
    <2>4. CASE \E i \in Active(rev) : Over(i)
      <3> DEFINE i == CHOOSE i \in Active(rev) : TRUE
      <3>1. i \in Active(rev)
        BY <2>4
      <3>2. Publish(Revised(rev, i, "EXPIRED", boot), pending, ready, candidate)
        BY <1>7, <2>4 DEF Snapshot
      <3> HIDE DEF i
      <3>3. /\ i \in WickIds /\ "EXPIRED" \in States \ {"CANDIDATE", "NONE"}
            /\ "EXPIRED" \notin OpenEvent
            /\ \A j \in Active(rev) : j = i
            /\ Len(rev[i]) < MaxRev
        BY <1>1, <3>1, ActiveFacts DEF Sound, States, OpenEvent
      <3>4. Told(pending, rev, i, "EXPIRED") = pending
        BY DEF Told
      <3>5. /\ Moves(rev, pending, Revised(rev, i, "EXPIRED", boot),
                     Told(pending, rev, i, "EXPIRED"), boot)
            /\ Revised(rev, i, "EXPIRED", boot)[Grid(boot)] = rev[Grid(boot)]
        BY <1>1, <2>2, <3>3, ReviseMoves
      <3>6. Moves(rev, pending, Revised(rev, i, "EXPIRED", boot), pending, boot)
        BY <3>4, <3>5
      <3> QED
        BY <2>1, <2>3, <3>2, <3>5, <3>6 DEF Stored
    <2>5. CASE Publish(rev, pending, ready, candidate)
      BY <1>1, <2>1, <2>3, <2>5, StayMoves DEF Stored
    <2>6. CASE Publish(Withdraw(rev, boot), Withdrawals(pending, rev), ready, candidate)
      BY <1>5, <2>1, <2>3, <2>6 DEF Stored
    <2> QED
      BY <1>7, <2>4, <2>5, <2>6 DEF Snapshot
  <1> QED
    BY <1>3, <1>4, <1>6, <1>7 DEF Engine

LEMMA NextKeepsRecord ==
    ASSUME OutboxInv, RecordInv, [Next]_vars
    PROVE  /\ RecordInv' /\ Stored \subseteq Stored'
           /\ \A i \in Ids : Prefix(decisions[i], decisions'[i])
PROOF
  <1>1. decisions \in Revs /\ \A i \in Ids : Prefix(decisions[i], decisions[i])
    BY PrefixFacts DEF RecordInv, RecordTypes, Sound, Revs
  <1>2. ASSUME UNCHANGED <<boot, rev, pending, job, decisions, barrier>>,
               mode' = mode \/ (Up /\ Up'),
               projection' = projection \/ (projection # "none" /\ projection' # "none"),
               Stored \subseteq Stored'
        PROVE  RecordInv' /\ decisions' = decisions
    BY <1>2, RecordFrame
  <1>3. CASE Engine
    BY <1>1, <1>3, EngineKeeps
  <1>4. CASE Commit
    BY <1>4, CommitKeepsRecord, CommitStores DEF RecordInv
  <1>5. CASE Export
    BY <1>1, <1>5, ExportKeepsRecord DEF Export, outbox, Stored
  <1>6. CASE Sending
    BY <1>1, <1>2, <1>6, SendingStores
  <1>7. ASSUME NEW n \in Notices, Deliver(n) \/ Lose(n)
        PROVE  RecordInv' /\ Stored' = Stored /\ decisions' = decisions
    BY <1>2, <1>7 DEF Deliver, Lose, engine, store, outbox, Stored
  <1>8. ASSUME NEW n \in Notices, RetryDue(n)
        PROVE  RecordInv' /\ Stored \subseteq Stored' /\ decisions' = decisions
    <2>1. \A m \in Notices : row[m].status # "absent" => row'[m].status # "absent"
      BY <1>8 DEF RetryDue, OutboxInv, OutboxTypes
    <2> QED
      BY <1>2, <1>8, <2>1 DEF RetryDue, engine, store, Stored
  <1>9. ASSUME NEW i \in Ids, Lapse(i)
        PROVE  RecordInv' /\ Stored' = Stored /\ decisions' = decisions
    BY <1>2, <1>9 DEF Lapse, engine, store, outbox, Stored
  <1>10. CASE Age
    BY <1>1, <1>2, <1>10 DEF Age, engine, outbox, Stored
  <1>11. CASE Crash \/ Exit
    <2>1. Forget
      BY <1>11 DEF Crash, Exit
    <2> QED
      BY <1>1, <2>1, ForgetKeepsRecord DEF Forget, outbox, Stored
  <1>12. CASE Stop
    BY <1>1, <1>2, <1>12 DEF Stop, engine, store, outbox, Stored, Up
  <1>13. CASE LastSnapshot
    <2>1. /\ mode = "stopping" /\ job.phase = "none" /\ Up /\ Up'
          /\ Publish(Withdraw(rev, boot), Withdrawals(pending, rev), FALSE, FALSE)
          /\ UNCHANGED <<boot, decisions, barrier, projection, row>>
      BY <1>13 DEF LastSnapshot, Up, store, outbox
    <2>2. boot \in 1..MaxBoots /\ boot \in Nat /\ Sound(rev) /\ pending \in Seq(Notices)
      BY <2>1, MonitorAssumption DEF RecordInv, RecordTypes
    <2>3. /\ Moves(rev, pending, Withdraw(rev, boot), Withdrawals(pending, rev), boot)
          /\ Withdraw(rev, boot)[Grid(boot)] = rev[Grid(boot)]
      BY <2>2, WithdrawMoves
    <2>4. RecordInv'
      BY <2>1, <2>3, PublishKeepsRecord
    <2> QED
      BY <1>1, <2>1, <2>4 DEF Stored
  <1>14. CASE Start
    BY <1>1, <1>14, StartKeepsRecord DEF Start, store
  <1>15. CASE UNCHANGED vars
    BY <1>1, <1>2, <1>15 DEF vars, engine, store, outbox, Stored
  <1> QED
    BY <1>1, <1>3, <1>4, <1>5, <1>6, <1>7, <1>8, <1>9, <1>10, <1>11, <1>12, <1>13, <1>14,
       <1>15 DEF Next

LEMMA RecordKept == Spec => [](OutboxInv /\ RecordInv)
PROOF
  <1>1. Init => OutboxInv /\ RecordInv
    BY InitOutbox, InitRecord
  <1>2. OutboxInv /\ RecordInv /\ [Next]_vars => (OutboxInv /\ RecordInv)'
    BY NextKeepsOutbox, NextKeepsRecord
  <1> QED
    BY <1>1, <1>2, PTL DEF Spec

\* RevisionsAgree: what the process recomputes is what is stored, so the store
\* never refuses a snapshot for a revision with another content (_persist).
THEOREM RecordAgrees == Spec => []RevisionsAgree
PROOF
  <1>1. RecordInv => RevisionsAgree
    <2> SUFFICES ASSUME RecordInv, Queued, NEW i \in Ids,
                        NEW r \in DOMAIN job.rev[i] \intersect DOMAIN decisions[i]
                 PROVE  job.rev[i][r] = decisions[i][r]
      BY DEF RevisionsAgree, Conflicts, Queued
    <2>1. Up /\ job.rev[i] \in Seq(Entry) /\ decisions[i] \in Seq(Entry)
      BY DEF RecordInv, RecordTypes, Sound, Revs, Queued
    <2>2. CASE i \in Mine(boot)
      <3>1. Prefix(decisions[i], job.rev[i])
        BY <2>1, <2>2 DEF RecordInv, Memory
      <3> QED
        BY <2>1, <3>1, PrefixEntry
    <2>3. CASE i \notin Mine(boot)
      <3>1. job.rev[i] = <<>>
        BY <2>1, <2>3 DEF RecordInv, Memory
      <3> QED
        BY <3>1
    <2> QED
      BY <2>2, <2>3
  <1> QED
    BY <1>1, RecordKept, PTL

\* EndingsAreTold: the record of an end and its notice are one transaction,
\* also when the process dies between the two, or the data is not ready.
THEOREM EveryEndIsTold == Spec => []EndingsAreTold
PROOF
  <1>1. RecordInv => EndingsAreTold
    <2> SUFFICES ASSUME RecordInv, NEW i \in Ids, NEW r \in DOMAIN decisions[i],
                        EndedIn(decisions, i, r)
                 PROVE  row[Notice(i, r)].status # "absent"
      BY DEF EndingsAreTold, Ended, EndedIn
    <2>1. Notice(i, r) \in Stored
      BY DEF RecordInv, Telling, AllTold
    <2> QED
      BY <2>1 DEF Stored
  <1> QED
    BY <1>1, RecordKept, PTL

-----------------------------------------------------------------------------
(***************************************************************************)
(* What is announced.  IsCurrent is judged at the claim; between the claim *)
(* and the request only a commit can change the record, and it changes no  *)
(* revision that a row is about.                                           *)
(***************************************************************************)
Live(n) == row[n].status \in {"pending", "sending"} \/ posts[n] # 0
Announces(n) == Handles(n, "post") /\ IsPositive(decisions, n)

SendInv ==
    \A n \in Notices :
       /\ Live(n) => n.rev \in DOMAIN decisions[n.id]
       /\ Announces(n) =>
             /\ decisions[n.id][n.rev].by = boot
             /\ \A m \in Notices : m.id = n.id /\ m.rev > n.rev /\ posts[m] # 0
                                      => IsPositive(decisions, m)

LEMMA SendFrame ==
    ASSUME OutboxInv, RecordInv, SendInv, RecordInv',
           \A i \in Ids : Prefix(decisions[i], decisions'[i]),
           \A n \in Notices : Live(n)' => Live(n) \/ n.rev \in DOMAIN decisions'[n.id],
           posts' = posts,
           UNCHANGED <<boot, sender>> \/ sender'.pc # "post"
    PROVE  SendInv'
PROOF
  <1>1. \A i \in Ids : decisions[i] \in Seq(Entry) /\ decisions'[i] \in Seq(Entry)
    BY DEF RecordInv, RecordTypes, Sound, Revs
  <1>2. ASSUME NEW n \in Notices, Live(n)
        PROVE  /\ n.rev \in DOMAIN decisions[n.id] /\ n.rev \in DOMAIN decisions'[n.id]
               /\ decisions'[n.id][n.rev] = decisions[n.id][n.rev]
    <2>1. n.id \in Ids /\ n.rev \in DOMAIN decisions[n.id]
      BY <1>2 DEF SendInv, Notices
    <2>2. /\ decisions[n.id] \in Seq(Entry) /\ decisions'[n.id] \in Seq(Entry)
          /\ Prefix(decisions[n.id], decisions'[n.id])
      BY <1>1, <2>1
    <2>3. n.rev \in DOMAIN decisions'[n.id]
      BY <2>1, <2>2 DEF Prefix
    <2> QED
      BY <2>1, <2>2, <2>3, PrefixEntry
  <1>3. ASSUME NEW n \in Notices, Live(n)' PROVE n.rev \in DOMAIN decisions'[n.id]
    BY <1>2, <1>3
  <1>4. ASSUME NEW n \in Notices, Announces(n)'
        PROVE  /\ decisions'[n.id][n.rev].by = boot'
               /\ \A m \in Notices : m.id = n.id /\ m.rev > n.rev /\ posts[m] # 0
                                        => IsPositive(decisions', m)
    <2>1. Handles(n, "post") /\ UNCHANGED <<boot, sender>>
      BY <1>4 DEF Announces, Handles, Item
    <2>2. Live(n)
      BY <2>1 DEF OutboxInv, SentSafely, Live
    <2>3. Announces(n)
      BY <1>2, <1>4, <2>1, <2>2 DEF Announces, IsPositive
    <2>4. \A m \in Notices : posts[m] # 0 => Live(m)
      BY DEF Live
    <2> QED
      BY <1>2, <2>1, <2>2, <2>3, <2>4 DEF SendInv, IsPositive
  <1> QED
    BY <1>3, <1>4 DEF SendInv

\* The claim.
LEMMA ClaimKeepsSend ==
    ASSUME OutboxInv, RecordInv, SendInv, Claim
    PROVE  SendInv'
PROOF
  <1>1. /\ UNCHANGED <<boot, mode, decisions, barrier, projection, posts>>
        /\ sender.pc = "claim" /\ mode = "up"
        /\ row \in [Notices -> [status : RowStatus, attempts : Nat, due : BOOLEAN]]
        /\ \A i \in Ids : decisions[i] \in Seq(Entry)
    BY DEF Claim, engine, store, telegram, OutboxInv, SenderUp, OutboxTypes, RecordInv,
           RecordTypes, Sound, Revs
  <1>2. ASSUME NEW n \in Notices, Live(n)' PROVE Live(n)
    BY <1>1, <1>2 DEF Claim, Live
  <1>3. ASSUME NEW n \in Notices, Announces(n)'
        PROVE  /\ decisions[n.id][n.rev].by = boot
               /\ \A m \in Notices : m.id = n.id /\ m.rev > n.rev /\ posts[m] # 0
                                        => IsPositive(decisions, m)
    <2>1. sender'.pc = "post" /\ Item' = n /\ IsPositive(decisions, n)
      BY <1>1, <1>3 DEF Announces, Handles
    <2>2. IsCurrent(Item) /\ row[Item].status = "pending" /\ sender'.batch = sender.batch
      <3>1. ~NextItem
        <4> SUFFICES ASSUME NextItem PROVE FALSE
          OBVIOUS
        <4>1. sender'.pc \in {"idle", "item"}
          BY NextItemHandlesNone
        <4> QED
          BY <2>1, <4>1
      <3>2. /\ IsCurrent(Item) /\ row[Item].status = "pending"
            /\ sender' = [sender EXCEPT !.pc = "post", !.attempts = row[Item].attempts + 1]
        BY <3>1 DEF Claim
      <3>3. sender = [pc |-> sender.pc, batch |-> sender.batch, attempts |-> sender.attempts]
        BY DEF OutboxInv, OutboxTypes
      <3>4. sender'.batch = sender.batch
        BY <3>2, <3>3
      <3> QED
        BY <3>2, <3>4
    <2>3. Item = n
      BY <2>1, <2>2 DEF Item
    <2>4. /\ n.id \in Ids /\ n.rev \in DOMAIN decisions[n.id]
          /\ n.rev \in 1..Len(decisions[n.id]) /\ Len(decisions[n.id]) \in Nat
          /\ decisions[n.id] # <<>>
      BY <1>1, <2>2, <2>3 DEF SendInv, Live, Notices
    <2>5. /\ projection = "ready"
          /\ \/ /\ n.id = Grid(barrier.boot)
                /\ barrier.rev < n.rev
             \/ Latest(decisions[n.id]) = "CONFIRMED" /\ n.rev = Len(decisions[n.id])
      BY <2>1, <2>2, <2>3 DEF IsCurrent
    <2>6. /\ Young(decisions, boot) /\ barrier.boot = boot /\ OwnGrids(decisions)
          /\ boot \in 1..MaxBoots /\ barrier.rev \in Nat
      BY <1>1, <2>5 DEF RecordInv, RecordTypes, Renewed, Barred, Up
    <2>7. \A m \in Notices : posts[m] # 0 => m.rev \in DOMAIN decisions[m.id]
      BY DEF SendInv, Live
    <2>8. CASE n.id = Grid(barrier.boot) /\ barrier.rev < n.rev
      <3>1. decisions[n.id][n.rev].by = boot
        BY <2>4, <2>6, <2>8 DEF OwnGrids
      <3>2. ASSUME NEW m \in Notices, m.id = n.id, m.rev > n.rev, posts[m] # 0
            PROVE  IsPositive(decisions, m)
        <4>1. m.rev \in DOMAIN decisions[Grid(barrier.boot)] /\ m.rev \in Nat /\ n.rev \in Nat
          BY <1>1, <2>4, <2>7, <2>8, <3>2
        <4>2. ~(m.rev <= barrier.rev) /\ barrier.boot # 0
          BY <2>6, <2>8, <3>2, <4>1
        <4>3. decisions[m.id][m.rev].state = "CANDIDATE"
          BY <2>8, <3>2, <4>1, <4>2 DEF RecordInv, Barred
        <4> QED
          BY <4>3 DEF IsPositive, Positives
      <3> QED
        BY <3>1, <3>2
    <2>9. CASE Latest(decisions[n.id]) = "CONFIRMED" /\ n.rev = Len(decisions[n.id])
      <3>1. n.id \in WickIds
        <4> SUFFICES ASSUME NEW c \in 1..MaxBoots, n.id = Grid(c) PROVE FALSE
          BY <2>4, IdsFacts
        <4>1. decisions[Grid(c)][n.rev].state = "CONFIRMED"
          BY <2>9 DEF Latest
        <4>2. decisions[Grid(c)][n.rev].state \in {"CANDIDATE", "NONE"}
          BY <2>4, <2>6 DEF OwnGrids
        <4> QED
          BY <4>1, <4>2
      <3>2. OpenIn(decisions, n.id)
        BY <2>4, <2>9 DEF OpenIn, OpenEvent
      <3>3. decisions[n.id][n.rev].by = boot
        BY <2>6, <2>9, <3>1, <3>2 DEF Young
      <3>4. ASSUME NEW m \in Notices, m.id = n.id, m.rev > n.rev, posts[m] # 0
            PROVE  FALSE
        <4>1. m.rev \in 1..Len(decisions[n.id])
          BY <1>1, <2>4, <2>7, <3>4
        <4> QED
          BY <2>4, <2>9, <3>4, <4>1
      <3> QED
        BY <3>3, <3>4
    <2> QED
      BY <2>5, <2>8, <2>9
  <1> QED
    BY <1>1, <1>2, <1>3 DEF SendInv

\* The request leaves.
LEMMA PostKeepsSend ==
    ASSUME OutboxInv, SendInv, Post
    PROVE  SendInv'
PROOF
  <1>1. /\ UNCHANGED <<boot, decisions, row>> /\ sender.pc = "post" /\ sender'.pc = "wait"
        /\ posts' = [posts EXCEPT ![Item] = @ + 1] /\ posts \in [Notices -> Nat]
    BY DEF Post, store, outbox, OutboxInv, OutboxTypes
  <1>2. ASSUME NEW n \in Notices, Live(n)' PROVE Live(n)
    <2>1. CASE Item = n
      BY <1>1, <2>1 DEF OutboxInv, SentSafely, Handles, Live
    <2>2. CASE Item # n
      BY <1>1, <1>2, <2>2 DEF Live
    <2> QED
      BY <2>1, <2>2
  <1> QED
    BY <1>1, <1>2 DEF SendInv, Announces, Handles

\* The other steps of the sender announce nothing.
LEMMA SendingIsQuiet ==
    ASSUME OutboxInv, Sending, ~Claim, ~Post
    PROVE  /\ posts' = posts /\ sender'.pc # "post"
           /\ \A n \in Notices : Live(n)' => Live(n)
PROOF
  <1>1. row \in [Notices -> [status : RowStatus, attempts : Nat, due : BOOLEAN]]
    BY DEF OutboxInv, OutboxTypes
  <1>2. ASSUME NEW status, NEW k, Update(status, k), posts' = posts,
               \/ status \notin {"pending", "sending"}
               \/ sender.pc = "wait"
        PROVE  sender'.pc # "post" /\ \A n \in Notices : Live(n)' => Live(n)
    <2>1. sender'.pc # "post"
      BY <1>2 DEF Update, NextItem, Idle
    <2>2. ASSUME NEW n \in Notices, Live(n)' PROVE Live(n)
      <3>1. CASE n # Item
        BY <1>1, <1>2, <2>2, <3>1 DEF Update, Live
      <3>2. CASE n = Item /\ sender.pc = "wait"
        BY <3>2 DEF OutboxInv, SentSafely, Handles, Live
      <3>3. CASE n = Item /\ status \notin {"pending", "sending"}
        BY <1>1, <1>2, <2>2, <3>3 DEF Update, Live
      <3> QED
        BY <1>2, <3>1, <3>2, <3>3
    <2> QED
      BY <2>1, <2>2
  <1>3. CASE Fetch
    <2>1. \A n \in Notices : row'[n].status \in {"pending", "sending"}
                                => row[n].status \in {"pending", "sending"}
      BY <1>1, <1>3 DEF Fetch, Expired
    <2>2. posts' = posts /\ sender'.pc # "post"
      BY <1>3 DEF Fetch, telegram, Idle
    <2> QED
      BY <2>1, <2>2 DEF Live
  <1>4. CASE CheckItem
    <2>1. posts' = posts
      BY <1>4 DEF CheckItem, telegram
    <2>2. CASE row' = row /\ sender' = [sender EXCEPT !.pc = "claim"]
      BY <2>1, <2>2 DEF Live, OutboxInv, OutboxTypes
    <2> QED
      BY <1>2, <1>4, <2>1, <2>2 DEF CheckItem
  <1>5. CASE Accepted
    BY <1>2, <1>5 DEF Accepted, Answered
  <1>6. ASSUME NEW s \in RowStatus, Limited(s)
        PROVE  /\ posts' = posts /\ sender'.pc # "post"
               /\ \A n \in Notices : Live(n)' => Live(n)
    BY <1>2, <1>6 DEF Limited, Answered
  <1>7. CASE Rejected
    BY <1>2, <1>7 DEF Rejected, Answered
  <1>8. CASE Unclear
    BY <1>2, <1>8 DEF Unclear, telegram
  <1> QED
    BY <1>3, <1>4, <1>5, <1>6, <1>7, <1>8 DEF Sending

LEMMA NextKeepsSend ==
    ASSUME OutboxInv, RecordInv, SendInv, [Next]_vars
    PROVE  SendInv'
PROOF
  <1>1. RecordInv' /\ \A i \in Ids : Prefix(decisions[i], decisions'[i])
    BY NextKeepsRecord
  <1>2. ASSUME posts' = posts,
               \A n \in Notices : Live(n)' => Live(n) \/ n.rev \in DOMAIN decisions'[n.id],
               UNCHANGED <<boot, sender>> \/ sender'.pc # "post"
        PROVE  SendInv'
    BY <1>1, <1>2, SendFrame
  <1>3. CASE UNCHANGED <<row, posts>> /\ (UNCHANGED <<boot, sender>> \/ sender'.pc # "post")
    BY <1>2, <1>3 DEF Live
  <1>4. CASE Engine
    BY <1>3, <1>4 DEF Engine, Impulse, Trade, Reset, Snapshot, outbox, telegram
  <1>5. CASE Commit
    <2>1. /\ UNCHANGED <<boot, mode, sender, posts>>
          /\ decisions' = [i \in Ids |-> IF Len(job.rev[i]) > Len(decisions[i])
                                         THEN job.rev[i] ELSE decisions[i]]
          /\ Queued /\ Up
      BY <1>5 DEF Commit, telegram, Queued, RecordInv, RecordTypes, Up
    <2>2. ASSUME NEW n \in Notices, Live(n)', ~Live(n)
          PROVE  n.rev \in DOMAIN decisions'[n.id]
      <3>1. n \in NotesIn(job.notes)
        <4> DEFINE new(m) == /\ \E k \in DOMAIN job.notes : job.notes[k] = m
                             /\ Kept(m)
                             /\ row[m].status = "absent"
                   added == [m \in Notices |->
                               IF new(m) THEN [row[m] EXCEPT !.status = "pending"] ELSE row[m]]
        <4>1. row' = Expired(added)
          BY <1>5 DEF Commit
        <4>2. row'[n].status \in {"pending", "sending"} /\ ~(row[n].status \in {"pending", "sending"})
          BY <2>1, <2>2 DEF Live
        <4>3. added[n].status \in {"pending", "sending"}
          BY <4>1, <4>2 DEF Expired
        <4>4. new(n)
          BY <4>2, <4>3
        <4> QED
          BY <4>4 DEF NotesIn
      <3>2. /\ n.id \in Ids /\ n.rev \in DOMAIN job.rev[n.id]
            /\ job.rev[n.id] \in Seq(Entry) /\ decisions[n.id] \in Seq(Entry)
        BY <2>1, <3>1 DEF RecordInv, RecordTypes, Known, Notices, Sound, Revs
      <3>3. CASE Len(job.rev[n.id]) > Len(decisions[n.id])
        BY <2>1, <3>2, <3>3
      <3>4. CASE ~(Len(job.rev[n.id]) > Len(decisions[n.id]))
        <4>1. decisions'[n.id] = decisions[n.id]
          BY <2>1, <3>2, <3>4
        <4>2. n.rev \in 1..Len(job.rev[n.id]) /\ Len(job.rev[n.id]) \in Nat
              /\ Len(decisions[n.id]) \in Nat
          BY <3>2
        <4> QED
          BY <3>2, <3>4, <4>1, <4>2
      <3> QED
        BY <3>3, <3>4
    <2> QED
      BY <1>2, <2>1, <2>2
  <1>6. CASE Export \/ Age \/ Stop
    BY <1>3, <1>6 DEF Export, Age, Stop, outbox, telegram, Idle
  <1>7. CASE Claim
    BY <1>7, ClaimKeepsSend
  <1>8. CASE Post
    BY <1>8, PostKeepsSend
  <1>9. CASE Sending /\ ~Claim /\ ~Post
    BY <1>2, <1>9, SendingIsQuiet
  <1>10. ASSUME NEW n \in Notices, Deliver(n) \/ Lose(n) \/ RetryDue(n)
         PROVE  SendInv'
    <2>1. CASE Deliver(n) \/ Lose(n)
      BY <1>3, <2>1 DEF Deliver, Lose, outbox
    <2>2. CASE RetryDue(n)
      <3>1. UNCHANGED <<boot, sender, posts>>
        BY <2>2 DEF RetryDue, telegram
      <3>2. \A m \in Notices : row'[m].status = row[m].status
        BY <2>2 DEF RetryDue, OutboxInv, OutboxTypes
      <3> QED
        BY <1>2, <3>1, <3>2 DEF Live
    <2> QED
      BY <1>10, <2>1, <2>2
  <1>11. CASE \E i \in Ids : Lapse(i)
    BY <1>3, <1>11 DEF Lapse, outbox, telegram
  <1>12. CASE Crash \/ Exit
    BY <1>3, <1>12 DEF Crash, Exit, Forget, outbox, telegram, Idle
  <1>13. CASE LastSnapshot
    BY <1>3, <1>13 DEF LastSnapshot, outbox, telegram
  <1>14. CASE Start
    <2>1. sender'.pc # "post" /\ posts' = posts
      BY <1>14 DEF Start, telegram, OutboxInv, SenderUp
    <2>2. \A n \in Notices : row'[n].status \in {"pending", "sending"}
                                => row[n].status \in {"pending", "sending"}
      BY <1>14 DEF Start, Interrupted, OutboxInv, OutboxTypes
    <2> QED
      BY <1>2, <2>1, <2>2 DEF Live
  <1>15. CASE UNCHANGED vars
    BY <1>3, <1>15 DEF vars, outbox, telegram
  <1> QED
    BY <1>4, <1>5, <1>6, <1>7, <1>8, <1>9, <1>10, <1>11, <1>12, <1>13, <1>14, <1>15 DEF Next

\* The three invariants hold together.
LEMMA AnnouncedKept == Spec => [](OutboxInv /\ RecordInv /\ SendInv)
PROOF
  <1>1. Init => OutboxInv /\ RecordInv /\ SendInv
    <2>1. Init => SendInv
      BY DEF Init, SendInv, Live, Announces, Handles, Idle
    <2> QED
      BY <2>1, InitOutbox, InitRecord
  <1>2. OutboxInv /\ RecordInv /\ SendInv /\ [Next]_vars => (OutboxInv /\ RecordInv /\ SendInv)'
    BY NextKeepsOutbox, NextKeepsRecord, NextKeepsSend
  <1> QED
    BY <1>1, <1>2, PTL DEF Spec

\* A request is made for what the sender has claimed.
LEMMA PostsTheClaim ==
    ASSUME OutboxInv, SendInv, [Next]_vars, NEW n \in Notices, Posting(n)
    PROVE  Handles(n, "post") /\ n.rev \in DOMAIN decisions[n.id]
PROOF
  <1>1. Post
    BY SendingIsQuiet
       DEF Posting, Next, vars, Engine, Impulse, Trade, Reset, Snapshot, Commit, Export, Claim,
           Deliver, Lose, RetryDue, Lapse, Age, Crash, Exit, Forget, Stop, LastSnapshot, Start,
           telegram
  <1>2. Handles(n, "post")
    BY <1>1 DEF Post, Posting, Handles, OutboxInv, OutboxTypes
  <1> QED
    BY <1>2 DEF OutboxInv, SentSafely, SendInv, Live

\* OldOpportunitiesSilent: what an earlier process saw is not announced by
\* this one, although its decisions and its rows are still on record.
THEOREM OldStaySilent == Spec => OldOpportunitiesSilent
PROOF
  <1>1. OutboxInv /\ RecordInv /\ SendInv /\ [Next]_vars
           => [\A n \in Notices : Posting(n) /\ IsPositive(decisions, n)
                                    => decisions[n.id][n.rev].by = boot]_vars
    BY PostsTheClaim DEF SendInv, Announces
  <1> QED
    BY <1>1, AnnouncedKept, PTL DEF Spec, OldOpportunitiesSilent

\* NothingAfterTakenBack: no announcement after the message that takes it
\* back, for any number of revisions, restarts and retries.
THEOREM TakenBackIsFinal == Spec => NothingAfterTakenBack
PROOF
  <1>1. OutboxInv /\ RecordInv /\ SendInv /\ [Next]_vars
           => [\A n, m \in Notices :
                  Posting(n) /\ IsPositive(decisions, n) /\ TakesBack(m, n)
                     => posts[m] = 0]_vars
    BY PostsTheClaim DEF SendInv, Announces, TakesBack
  <1> QED
    BY <1>1, AnnouncedKept, PTL DEF Spec, NothingAfterTakenBack
=============================================================================
