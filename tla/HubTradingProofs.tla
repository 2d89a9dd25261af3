--------------------------- MODULE HubTradingProofs ---------------------------
(***************************************************************************)
(* HubTrading for every number of orders, callers and reconcilers, any     *)
(* quantities, limits and fees.                                            *)
(*                                                                         *)
(* HubInv comes first: what callers, rows and venue know of one another.   *)
(* MoneyInv builds on it: what the rows reserve, and the books.            *)
(***************************************************************************)
EXTENDS HubTrading, SumProofs

-----------------------------------------------------------------------------
(* The inductive invariant.                                                *)

\* A caller past its reservation, and one whose POST has not left.
Past == {"prepared", "armed", "sending", "answered", "blocked", "failed"}
Unposted == {"prepared", "armed", "sending", "blocked"}

\* A key was reserved by one call only.
CallersOwnKeys ==
    /\ \A c \in Callers :
          /\ caller[c].pc # "idle" => caller[c].key \in Orders
          /\ caller[c].pc \in Past => order[caller[c].key].status # "ABSENT"
    /\ \A c, d \in Callers :
          caller[c].pc \in Past /\ caller[d].pc \in Past /\ caller[c].key = caller[d].key => c = d

\* While the call has not sent, the venue knows nothing and nobody can have
\* accounted the order.
UnpostedIsOpen ==
    \A c \in Callers : caller[c].pc \in Unposted =>
        venue[caller[c].key].posts = 0 /\ ~order[caller[c].key].accounted

\* The rows against the venue.
RowsMatchVenue ==
    \A k \in Orders :
        /\ venue[k].posts <= 1
        /\ venue[k].posts = 0 => venue[k].state = "none"
        /\ order[k].status = "ABSENT" => venue[k].posts = 0
        /\ order[k].accounted <=> order[k].status \in Terminal
        /\ order[k].status = "REJECTED" => venue[k].state # "executed"

\* What callers and reconcilers hold in their hands is true at the venue.
AnswersAreTrue ==
    /\ \A c \in Callers :
          caller[c].pc = "answered" /\ caller[c].result.status = "REJECTED" =>
              venue[caller[c].key].state # "executed"
    /\ \A r \in Reconcilers :
          /\ \A k \in auditor[r].todo : order[k].status # "ABSENT"
          /\ auditor[r].pc = "asked" =>
                /\ auditor[r].key \in Orders /\ order[auditor[r].key].status # "ABSENT"
                /\ auditor[r].result.status # "REJECTED"
                /\ auditor[r].result.status # "NONE" => venue[auditor[r].key].state = "executed"

\* The tenant has one open order.
OneOpen ==
    \A j, k \in Orders : order[j].status \in Open /\ order[k].status \in Open => j = k

HubInv ==
    /\ TypeOK
    /\ CallersOwnKeys
    /\ UnpostedIsOpen
    /\ RowsMatchVenue
    /\ AnswersAreTrue
    /\ OneOpen

CallerType == [pc : {"idle", "quoted"} \union Past, key : Orders \union {NoOrder}, result : Result]
AuditorType == [pc : {"idle", "listed", "asked"}, todo : SUBSET Orders, ids : SUBSET Orders,
                key : Orders \union {NoOrder}, result : Result]

(***************************************************************************)
(* A new tenant has no orders.                                             *)
(***************************************************************************)
LEMMA HubInvInit == Init => HubInv
PROOF
  <1> SUFFICES ASSUME Init PROVE HubInv
    OBVIOUS
  <1> USE HubTradingAssumption
  <1>1. TypeOK
    BY DEF Init, TypeOK, RiskModes, OrderRow, Absent, IdleCaller, IdleAuditor, Result, NoResult
  <1>2. CallersOwnKeys /\ UnpostedIsOpen
    BY DEF Init, CallersOwnKeys, UnpostedIsOpen, IdleCaller, Past, Unposted
  <1>3. RowsMatchVenue /\ OneOpen
    BY DEF Init, RowsMatchVenue, OneOpen, Absent, Terminal, Open
  <1>4. AnswersAreTrue
    BY DEF Init, AnswersAreTrue, IdleCaller, IdleAuditor
  <1> QED
    BY <1>1, <1>2, <1>3, <1>4 DEF HubInv

-----------------------------------------------------------------------------
(* What the transactions on the book do to a row.                          *)

(***************************************************************************)
(* The row of k is rewritten: an accounted one is left alone, an open one  *)
(* stays open or is accounted, and REJECTED is told of no executed order.  *)
(***************************************************************************)
RowKept(k) ==
    /\ order' \in [Orders -> OrderRow]
    /\ cash' \in [Venues -> Int] /\ held' \in [Venues -> Int]
    /\ \A j \in Orders \ {k} : order'[j] = order[j]
    /\ order[k].status # "ABSENT" /\ order'[k].status # "ABSENT"
    /\ order[k].accounted => order'[k] = order[k]
    /\ order'[k].accounted <=> order'[k].status \in Terminal
    /\ order'[k].status = "REJECTED" => venue[k].state # "executed"

LEMMA SaveKeepsRow ==
    ASSUME HubInv, NEW k \in Orders, order[k].status # "ABSENT", ~order[k].accounted,
           NEW s \in Open, SaveStatus(k, s)
    PROVE  RowKept(k) /\ ~order'[k].accounted
PROOF
  <1>1. order' = [order EXCEPT ![k] = [order[k] EXCEPT !.status = s]]
    BY DEF SaveStatus
  <1>2. order[k] \in OrderRow
    BY DEF HubInv, TypeOK
  <1>3. /\ [order[k] EXCEPT !.status = s] \in OrderRow
        /\ [order[k] EXCEPT !.status = s].status = s
        /\ [order[k] EXCEPT !.status = s].accounted = order[k].accounted
    BY <1>2 DEF OrderRow
  <1>4. s # "ABSENT" /\ s \notin Terminal /\ s # "REJECTED"
    BY DEF Open, Terminal
  <1> QED
    BY <1>1, <1>3, <1>4 DEF HubInv, TypeOK, SaveStatus, RowKept

LEMMA PayKeepsTypes ==
    ASSUME HubInv, NEW k \in Orders, NEW n \in Nat, Pay(k, n)
    PROVE  cash' \in [Venues -> Int] /\ held' \in [Venues -> Int]
PROOF
  <1>1. FeeOf(n) \in Nat
    BY HubTradingAssumption DEF FeeOf
  <1>2. Market(k) \in Venues
    BY DEF Market, Venues
  <1> QED
    BY <1>1, <1>2 DEF HubInv, TypeOK, Pay

LEMMA FinishKeepsRow ==
    ASSUME HubInv, NEW k \in Orders, order[k].status # "ABSENT",
           NEW r \in Result, Finish(k, r),
           r.status = "REJECTED" => venue[k].state # "executed"
    PROVE  RowKept(k)
PROOF
  <1>1. order[k] \in OrderRow /\ r.filled \in Nat
    BY DEF HubInv, TypeOK, Result
  <1>2. CASE order[k].accounted /\ UNCHANGED book
    BY <1>2 DEF HubInv, TypeOK, RowsMatchVenue, book, RowKept
  <1>3. CASE /\ ~order[k].accounted /\ r.status \in Open
             /\ order' = [order EXCEPT ![k].status = r.status, ![k].known = TRUE]
             /\ UNCHANGED <<cash, held>>
    <2> DEFINE row == [order[k] EXCEPT !.status = r.status, !.known = TRUE]
    <2>1. order' = [order EXCEPT ![k] = row]
      BY <1>3
    <2>2. row \in OrderRow /\ row.status = r.status /\ row.accounted = FALSE
      BY <1>1, <1>3 DEF OrderRow
    <2>3. r.status # "ABSENT" /\ r.status \notin Terminal /\ r.status # "REJECTED"
      BY <1>3 DEF Open, Terminal
    <2> HIDE DEF row
    <2>4. order' \in [Orders -> OrderRow] /\ order'[k] = row
      BY <2>1, <2>2 DEF HubInv, TypeOK
    <2>5. cash' \in [Venues -> Int] /\ held' \in [Venues -> Int]
      BY <1>3 DEF HubInv, TypeOK
    <2>6. \A j \in Orders \ {k} : order'[j] = order[j]
      BY <2>1 DEF HubInv, TypeOK
    <2> QED
      BY <1>3, <2>2, <2>3, <2>4, <2>5, <2>6 DEF RowKept
  <1>4. CASE /\ ~order[k].accounted /\ r.status \in Terminal
             /\ Pay(k, r.filled)
             /\ order' = [order EXCEPT ![k] = [@ EXCEPT !.status = r.status, !.accounted = TRUE,
                              !.filled = r.filled, !.reserved = r.filled + FeeOf(r.filled)]]
    <2> DEFINE spent == r.filled + FeeOf(r.filled)
               row == [order[k] EXCEPT !.status = r.status, !.accounted = TRUE,
                                       !.filled = r.filled, !.reserved = spent]
    <2>1. order' = [order EXCEPT ![k] = row]
      BY <1>4
    <2>2. spent \in Nat
      BY <1>1, HubTradingAssumption DEF FeeOf
    <2>3. r.status \in Open \union Terminal \union {"ABSENT"}
      BY <1>4
    <2>4. row \in OrderRow
      BY <1>1, <2>2, <2>3 DEF OrderRow
    <2>5. row.status = r.status /\ row.accounted = TRUE
      BY <1>1 DEF OrderRow
    <2>6. cash' \in [Venues -> Int] /\ held' \in [Venues -> Int]
      BY <1>1, <1>4, PayKeepsTypes
    <2>7. r.status # "ABSENT"
      BY <1>4 DEF Terminal
    <2> HIDE DEF row
    <2> QED
      BY <1>4, <2>1, <2>4, <2>5, <2>6, <2>7 DEF HubInv, TypeOK, RowKept
  <1> QED
    BY <1>2, <1>3, <1>4 DEF Finish

\* The same of all rows: no row is added.
RowsKept ==
    /\ order' \in [Orders -> OrderRow]
    /\ cash' \in [Venues -> Int] /\ held' \in [Venues -> Int]
    /\ \A j \in Orders :
          /\ order[j].status = "ABSENT" => order'[j] = order[j]
          /\ order[j].status # "ABSENT" => order'[j].status # "ABSENT"
          /\ order[j].accounted => order'[j] = order[j]
          /\ order'[j].accounted <=> order'[j].status \in Terminal
          /\ order'[j].status = "REJECTED" => venue[j].state # "executed"
          /\ order'[j].status \in Open => order[j].status \in Open

LEMMA RowKeptRowsKept ==
    ASSUME HubInv, NEW k \in Orders, RowKept(k)
    PROVE  RowsKept
PROOF
  <1>1. ASSUME NEW j \in Orders
        PROVE  /\ order[j].status = "ABSENT" => order'[j] = order[j]
               /\ order[j].status # "ABSENT" => order'[j].status # "ABSENT"
               /\ order[j].accounted => order'[j] = order[j]
               /\ order'[j].accounted <=> order'[j].status \in Terminal
               /\ order'[j].status = "REJECTED" => venue[j].state # "executed"
    BY DEF HubInv, RowsMatchVenue, RowKept
  <1>2. ASSUME NEW j \in Orders, order'[j].status \in Open
        PROVE  order[j].status \in Open
    <2>1. CASE j # k
      BY <1>2, <2>1 DEF RowKept
    <2>2. CASE j = k
      <3>1. ~order'[k].accounted
        BY <1>2, <2>2 DEF RowKept, Open, Terminal
      <3>2. ~order[k].accounted
        BY <3>1 DEF RowKept
      <3>3. order[k].status \notin Terminal /\ order[k].status # "ABSENT"
        BY <3>2 DEF HubInv, RowsMatchVenue, RowKept
      <3> QED
        BY <2>2, <3>3 DEF HubInv, TypeOK, OrderRow
    <2> QED
      BY <2>1, <2>2
  <1> QED
    BY <1>1, <1>2 DEF RowKept, RowsKept

LEMMA SameRowsKept ==
    ASSUME HubInv, UNCHANGED book
    PROVE  RowsKept
  BY DEF HubInv, TypeOK, RowsMatchVenue, book, RowsKept

LEMMA CallerTypes ==
    ASSUME HubInv
    PROVE  caller \in [Callers -> CallerType] /\ auditor \in [Reconcilers -> AuditorType]
PROOF
  <1>1. CallerType = [pc : {"idle", "quoted", "prepared", "armed", "sending", "answered",
                            "blocked", "failed"},
                      key : Orders \union {NoOrder}, result : Result]
    BY DEF CallerType, Past
  <1> QED
    BY <1>1 DEF HubInv, TypeOK, AuditorType

-----------------------------------------------------------------------------
(* The steps of a call and of a reconciliation, apart from the POST.       *)

(***************************************************************************)
(* A call goes on with its own order; only a call that has sent, or never  *)
(* will, accounts it.                                                      *)
(***************************************************************************)
LEMMA CallerStep ==
    ASSUME HubInv, NEW c \in Callers, NEW m \in CallerType,
           caller' = [caller EXCEPT ![c] = m],
           \/ m.pc = "idle"
           \/ m.pc = "quoted" /\ m.key \in Orders
           \/ /\ m.key = caller[c].key /\ caller[c].pc \in Past /\ m.pc \in Past
              /\ m.pc \in Unposted => caller[c].pc \in Unposted
              /\ m.pc = "answered" /\ m.result.status = "REJECTED" =>
                    venue[m.key].state # "executed",
           RowsKept,
           \A k \in Orders : order'[k].accounted /\ ~order[k].accounted =>
               caller[c].pc \in Past /\ caller[c].key = k /\ m.pc \notin Unposted,
           UNCHANGED <<mode, venue, auditor>>
    PROVE  HubInv'
PROOF
  <1>1. caller \in [Callers -> CallerType]
    BY CallerTypes
  <1>2. /\ caller' \in [Callers -> CallerType] /\ caller'[c] = m
        /\ \A d \in Callers \ {c} : caller'[d] = caller[d]
    BY <1>1
  <1>3. TypeOK'
    BY <1>2 DEF HubInv, TypeOK, RowsKept, CallerType, Past
  <1>4. CallersOwnKeys'
    BY <1>2 DEF HubInv, CallersOwnKeys, RowsKept, Past
  <1>5. UnpostedIsOpen'
    <2>1. ASSUME NEW d \in Callers, caller'[d].pc \in Unposted
          PROVE  venue[caller'[d].key].posts = 0 /\ ~order'[caller'[d].key].accounted
      <3>1. /\ caller'[d].key = caller[d].key /\ caller[d].pc \in Unposted
            /\ caller[d].pc \in Past
        BY <1>2, <2>1 DEF Unposted, Past
      <3>2. caller[d].key \in Orders
        BY <3>1 DEF HubInv, CallersOwnKeys, Unposted
      <3>3. venue[caller[d].key].posts = 0 /\ ~order[caller[d].key].accounted
        BY <3>1 DEF HubInv, UnpostedIsOpen
      <3>4. ~order'[caller[d].key].accounted
        <4>1. CASE d = c
          BY <1>2, <2>1, <3>2, <3>3, <4>1
        <4>2. CASE d # c
          BY <3>1, <3>2, <3>3, <4>2 DEF HubInv, CallersOwnKeys
        <4> QED
          BY <4>1, <4>2
      <3> QED
        BY <3>1, <3>3, <3>4
    <2> QED
      BY <2>1 DEF UnpostedIsOpen
  <1>6. RowsMatchVenue'
    BY DEF HubInv, RowsMatchVenue, RowsKept
  <1>7. AnswersAreTrue'
    <2>1. \A d \in Callers : caller'[d].pc = "answered" /\ caller'[d].result.status = "REJECTED"
             => venue[caller'[d].key].state # "executed"
      BY <1>2 DEF HubInv, AnswersAreTrue
    <2>2. \A r \in Reconcilers : auditor[r].todo \subseteq Orders
      BY CallerTypes DEF AuditorType
    <2> QED
      BY <2>1, <2>2 DEF HubInv, AnswersAreTrue, RowsKept
  <1>8. OneOpen'
    BY DEF HubInv, OneOpen, RowsKept
  <1> QED
    BY <1>3, <1>4, <1>5, <1>6, <1>7, <1>8 DEF HubInv

(***************************************************************************)
(* A reconciliation goes on; it accounts only what the venue executed.     *)
(***************************************************************************)
LEMMA AuditorStep ==
    ASSUME HubInv, NEW r \in Reconcilers, NEW m \in AuditorType,
           auditor' = [auditor EXCEPT ![r] = m],
           \A k \in m.todo : order[k].status # "ABSENT",
           m.pc = "asked" => /\ m.key \in Orders /\ order[m.key].status # "ABSENT"
                             /\ m.result.status # "REJECTED"
                             /\ m.result.status # "NONE" => venue[m.key].state = "executed",
           RowsKept,
           \A k \in Orders : order'[k].accounted /\ ~order[k].accounted =>
               venue[k].state = "executed",
           UNCHANGED <<mode, venue, caller>>
    PROVE  HubInv'
PROOF
  <1>1. caller \in [Callers -> CallerType] /\ auditor \in [Reconcilers -> AuditorType]
    BY CallerTypes
  <1>2. /\ auditor' \in [Reconcilers -> AuditorType] /\ auditor'[r] = m
        /\ \A q \in Reconcilers \ {r} : auditor'[q] = auditor[q]
    BY <1>1
  <1>3. TypeOK'
    BY <1>2 DEF HubInv, TypeOK, RowsKept, AuditorType
  <1>4. CallersOwnKeys'
    BY DEF HubInv, CallersOwnKeys, RowsKept, Past
  <1>5. UnpostedIsOpen'
    <2>1. ASSUME NEW d \in Callers, caller[d].pc \in Unposted
          PROVE  /\ caller[d].key \in Orders
                 /\ venue[caller[d].key].posts = 0 /\ ~order'[caller[d].key].accounted
      <3>1. caller[d].key \in Orders
        BY <2>1 DEF HubInv, CallersOwnKeys, Unposted
      <3>2. /\ venue[caller[d].key].posts = 0 /\ ~order[caller[d].key].accounted
            /\ venue[caller[d].key].state = "none"
        BY <2>1, <3>1 DEF HubInv, UnpostedIsOpen, RowsMatchVenue
      <3> QED
        BY <3>1, <3>2
    <2> QED
      BY <2>1 DEF UnpostedIsOpen
  <1>6. RowsMatchVenue' /\ OneOpen'
    BY DEF HubInv, RowsMatchVenue, OneOpen, RowsKept
  <1>7. AnswersAreTrue'
    <2>1. \A q \in Reconcilers : auditor'[q].todo \subseteq Orders
      BY <1>2 DEF AuditorType
    <2>2. ASSUME NEW q \in Reconcilers
          PROVE  /\ \A k \in auditor'[q].todo : order'[k].status # "ABSENT"
                 /\ auditor'[q].pc = "asked" =>
                       /\ auditor'[q].key \in Orders
                       /\ order'[auditor'[q].key].status # "ABSENT"
                       /\ auditor'[q].result.status # "REJECTED"
                       /\ auditor'[q].result.status # "NONE" =>
                             venue[auditor'[q].key].state = "executed"
      <3>1. CASE q = r
        BY <1>2, <2>1, <3>1 DEF RowsKept
      <3>2. CASE q # r
        BY <1>2, <2>1, <3>2 DEF HubInv, AnswersAreTrue, RowsKept
      <3> QED
        BY <3>1, <3>2
    <2> QED
      BY <2>2 DEF HubInv, AnswersAreTrue
  <1> QED
    BY <1>3, <1>4, <1>5, <1>6, <1>7 DEF HubInv

LEMMA IdleTypes == IdleCaller \in CallerType /\ IdleAuditor \in AuditorType /\ NoResult \in Result
                   /\ Refusal \in Result
  BY DEF IdleCaller, IdleAuditor, CallerType, AuditorType, NoResult, Refusal, Result, Open,
         Terminal

LEMMA CallerAt ==
    ASSUME HubInv, NEW c \in Callers, NEW pc \in {"idle", "quoted"} \union Past
    PROVE  LET m == [caller[c] EXCEPT !.pc = pc] IN
           m \in CallerType /\ m.pc = pc /\ m.key = caller[c].key /\ m.result = caller[c].result
  BY CallerTypes DEF CallerType

LEMMA MyKey ==
    ASSUME HubInv, NEW c \in Callers, caller[c].pc # "idle"
    PROVE  /\ caller[c].key \in Orders
           /\ caller[c].pc \in Past => order[caller[c].key].status # "ABSENT"
  BY DEF HubInv, CallersOwnKeys

LEMMA RequestKeepsHubInv ==
    ASSUME HubInv, NEW c \in Callers, NEW k \in Orders, Request(c, k)
    PROVE  HubInv'
PROOF
  <1> DEFINE m == [IdleCaller EXCEPT !.pc = "quoted", !.key = k]
  <1>1. m \in CallerType /\ m.pc = "quoted" /\ m.key = k
    BY IdleTypes DEF CallerType
  <1>2. caller' = [caller EXCEPT ![c] = m] /\ UNCHANGED <<mode, book, venue, auditor>>
    BY DEF Request
  <1> HIDE DEF m
  <1>3. RowsKept
    BY <1>2, SameRowsKept
  <1> QED
    BY <1>1, <1>2, <1>3, CallerStep DEF book

\* Steps of a call that leave the book alone.
LEMMA CallerOnlyStep ==
    ASSUME HubInv, NEW c \in Callers, NEW m \in CallerType,
           caller' = [caller EXCEPT ![c] = m],
           \/ m.pc = "idle"
           \/ /\ m.key = caller[c].key /\ caller[c].pc \in Past /\ m.pc \in Past
              /\ m.pc \in Unposted => caller[c].pc \in Unposted
              /\ m.pc # "answered",
           UNCHANGED <<mode, book, venue, auditor>>
    PROVE  HubInv'
PROOF
  <1>1. RowsKept
    BY SameRowsKept
  <1> QED
    BY <1>1, CallerStep DEF book

LEMMA GoOnKeepsHubInv ==
    ASSUME HubInv, NEW c \in Callers, Refuse(c) \/ Guard(c) \/ Unready(c) \/ Die(c)
    PROVE  HubInv'
PROOF
  <1>1. CASE Refuse(c) \/ Die(c)
    <2>1. IdleCaller \in CallerType /\ IdleCaller.pc = "idle"
      BY IdleTypes DEF IdleCaller
    <2> QED
      BY <1>1, <2>1, CallerOnlyStep DEF Refuse, Die
  <1>2. CASE Guard(c) \/ Unready(c)
    <2>1. PICK pc \in {"sending", "blocked", "failed"} :
             caller' = [caller EXCEPT ![c] = [caller[c] EXCEPT !.pc = pc]]
      BY <1>2 DEF Guard, Unready
    <2> DEFINE m == [caller[c] EXCEPT !.pc = pc]
    <2>2. m \in CallerType /\ m.pc = pc /\ m.key = caller[c].key
      BY CallerAt DEF Past
    <2>3. caller[c].pc = "armed" /\ UNCHANGED <<mode, book, venue, auditor>>
      BY <1>2 DEF Guard, Unready
    <2>4. caller' = [caller EXCEPT ![c] = m]
      BY <2>1
    <2> HIDE DEF m
    <2> QED
      BY <2>2, <2>3, <2>4, CallerOnlyStep DEF Past, Unposted
  <1> QED
    BY <1>1, <1>2

\* A call ends with the final result of its order, which it has not sent or
\* which the venue answered.
LEMMA CallEnds ==
    ASSUME HubInv, NEW c \in Callers, caller[c].pc \in Past,
           NEW r \in Result, Finish(caller[c].key, r),
           r.status = "REJECTED" => venue[caller[c].key].state # "executed",
           caller' = [caller EXCEPT ![c] = IdleCaller],
           UNCHANGED <<mode, venue, auditor>>
    PROVE  HubInv'
PROOF
  <1>1. caller[c].key \in Orders /\ order[caller[c].key].status # "ABSENT"
    BY MyKey DEF Past
  <1>2. RowKept(caller[c].key)
    BY <1>1, FinishKeepsRow
  <1>3. RowsKept
    BY <1>1, <1>2, RowKeptRowsKept
  <1>4. IdleCaller \in CallerType /\ IdleCaller.pc = "idle" /\ "idle" \notin Unposted
    BY IdleTypes DEF IdleCaller, Unposted
  <1>5. \A k \in Orders : order'[k].accounted /\ ~order[k].accounted => caller[c].key = k
    BY <1>2 DEF RowKept
  <1> QED
    BY <1>3, <1>4, <1>5, CallerStep

LEMMA UnsentIsRefused ==
    ASSUME HubInv, NEW c \in Callers, caller[c].pc \in Unposted
    PROVE  /\ caller[c].key \in Orders /\ order[caller[c].key].status # "ABSENT"
           /\ venue[caller[c].key].state = "none" /\ ~order[caller[c].key].accounted
  BY MyKey DEF HubInv, UnpostedIsOpen, RowsMatchVenue, Unposted, Past

LEMMA BlockKeepsHubInv ==
    ASSUME HubInv, NEW c \in Callers, Block(c)
    PROVE  HubInv'
  BY UnsentIsRefused, CallEnds, IdleTypes DEF Block, Past, Unposted

LEMMA ArmKeepsHubInv ==
    ASSUME HubInv, NEW c \in Callers, Arm(c)
    PROVE  HubInv'
PROOF
  <1> DEFINE k == caller[c].key
             m == [caller[c] EXCEPT !.pc = "armed"]
  <1>1. caller[c].pc = "prepared" /\ UNCHANGED <<mode, venue, auditor>>
    BY DEF Arm
  <1>2. /\ k \in Orders /\ order[k].status # "ABSENT"
        /\ venue[k].state = "none" /\ ~order[k].accounted
    BY <1>1, UnsentIsRefused DEF Unposted
  <1>3. CASE SaveStatus(k, "SUBMITTING") /\ caller' = [caller EXCEPT ![c].pc = "armed"]
    <2>1. RowKept(k) /\ ~order'[k].accounted
      BY <1>2, <1>3, SaveKeepsRow DEF Open
    <2>2. RowsKept
      BY <1>2, <2>1, RowKeptRowsKept
    <2>3. \A j \in Orders : ~(order'[j].accounted /\ ~order[j].accounted)
      BY <2>1 DEF RowKept
    <2>4. m \in CallerType /\ m.pc = "armed" /\ m.key = k
      BY CallerAt DEF Past
    <2>5. caller' = [caller EXCEPT ![c] = m]
      BY <1>3
    <2> HIDE DEF m
    <2> QED
      BY <1>1, <2>2, <2>3, <2>4, <2>5, CallerStep DEF Past, Unposted
  <1>4. CASE Finish(k, Refusal) /\ caller' = [caller EXCEPT ![c] = IdleCaller]
    BY <1>1, <1>2, <1>4, CallEnds, IdleTypes DEF Past
  <1> QED
    BY <1>3, <1>4 DEF Arm

LEMMA BookKeepsHubInv ==
    ASSUME HubInv, NEW c \in Callers, Book(c)
    PROVE  HubInv'
PROOF
  <1> DEFINE k == caller[c].key
             r == caller[c].result
             m == [caller[c] EXCEPT !.pc = "failed"]
  <1>1. caller[c].pc = "answered" /\ UNCHANGED <<mode, venue, auditor>>
    BY DEF Book
  <1>2. r \in Result /\ (r.status = "REJECTED" => venue[k].state # "executed")
    BY <1>1, CallerTypes DEF CallerType, HubInv, AnswersAreTrue
  <1>3. CASE Finish(k, r) /\ caller' = [caller EXCEPT ![c] = IdleCaller]
    BY <1>1, <1>2, <1>3, CallEnds DEF Past
  <1>4. CASE caller' = [caller EXCEPT ![c].pc = "failed"] /\ UNCHANGED book
    <2>1. m \in CallerType /\ m.pc = "failed" /\ m.key = k
      BY CallerAt DEF Past
    <2>2. caller' = [caller EXCEPT ![c] = m]
      BY <1>4
    <2> HIDE DEF m
    <2> QED
      BY <1>1, <1>4, <2>1, <2>2, CallerOnlyStep DEF Past, Unposted
  <1> QED
    BY <1>3, <1>4 DEF Book

LEMMA DoubtKeepsHubInv ==
    ASSUME HubInv, NEW c \in Callers, Doubt(c)
    PROVE  HubInv'
PROOF
  <1> DEFINE k == caller[c].key
  <1>1. /\ caller[c].pc = "failed" /\ UNCHANGED <<mode, venue, auditor>>
        /\ caller' = [caller EXCEPT ![c] = IdleCaller]
    BY DEF Doubt
  <1>2. IdleCaller \in CallerType /\ IdleCaller.pc = "idle"
    BY IdleTypes DEF IdleCaller
  <1>3. CASE UNCHANGED book
    BY <1>1, <1>2, <1>3, CallerOnlyStep
  <1>4. CASE ~order[k].accounted /\ SaveStatus(k, "UNKNOWN")
    <2>1. k \in Orders /\ order[k].status # "ABSENT"
      BY <1>1, MyKey DEF Past
    <2>2. RowKept(k) /\ ~order'[k].accounted
      BY <1>4, <2>1, SaveKeepsRow DEF Open
    <2>3. RowsKept
      BY <2>1, <2>2, RowKeptRowsKept
    <2>4. \A j \in Orders : ~(order'[j].accounted /\ ~order[j].accounted)
      BY <2>2 DEF RowKept
    <2> QED
      BY <1>1, <1>2, <2>3, <2>4, CallerStep
  <1> QED
    BY <1>3, <1>4 DEF Doubt

(***************************************************************************)
(* The reservation: the first row of its key, while no order is open.      *)
(***************************************************************************)
LEMMA PrepareKeepsHubInv ==
    ASSUME HubInv, NEW c \in Callers, Prepare(c)
    PROVE  HubInv'
PROOF
  <1> DEFINE k == caller[c].key
             m == [caller[c] EXCEPT !.pc = "prepared"]
             row == [Absent EXCEPT !.status = "PREPARING", !.reserved = Reserve(k)]
  <1>1. /\ caller[c].pc = "quoted" /\ order[k].status = "ABSENT" /\ Unresolved = {}
        /\ order' = [order EXCEPT ![k] = row]
        /\ caller' = [caller EXCEPT ![c] = m]
        /\ UNCHANGED <<mode, cash, held, venue, auditor>>
    BY DEF Prepare, RiskAllows
  <1>2. k \in Orders
    BY <1>1, MyKey
  <1>3. Reserve(k) \in Nat
    BY <1>2, HubTradingAssumption DEF Reserve
  <1>4. Absent \in OrderRow
    BY DEF Absent, OrderRow
  <1>5. row \in OrderRow /\ row.status = "PREPARING" /\ row.accounted = FALSE
    <2>1. "PREPARING" \in Open /\ Absent.accounted = FALSE
      BY DEF Open, Absent
    <2> QED
      BY <1>3, <1>4, <2>1 DEF OrderRow
  <1>6. m \in CallerType /\ m.pc = "prepared" /\ m.key = k /\ m.result = caller[c].result
    BY CallerAt DEF Past
  <1>7. caller \in [Callers -> CallerType] /\ order \in [Orders -> OrderRow]
    BY CallerTypes DEF HubInv, TypeOK
  <1> HIDE DEF m, row
  <1>8. /\ order' \in [Orders -> OrderRow] /\ order'[k] = row
        /\ \A j \in Orders \ {k} : order'[j] = order[j]
    BY <1>1, <1>2, <1>5, <1>7
  <1>9. /\ caller' \in [Callers -> CallerType] /\ caller'[c] = m
        /\ \A d \in Callers \ {c} : caller'[d] = caller[d]
    BY <1>1, <1>6, <1>7
  <1>10. \A d \in Callers : caller[d].pc \in Past => caller[d].key \in Orders \ {k}
    BY <1>1, MyKey DEF Past
  <1>11. TypeOK'
    BY <1>1, <1>8, <1>9 DEF HubInv, TypeOK, CallerType, Past
  <1>12. CallersOwnKeys'
    BY <1>2, <1>5, <1>6, <1>8, <1>9, <1>10 DEF HubInv, CallersOwnKeys, Past
  <1>13. venue[k].posts = 0 /\ venue[k].state = "none"
    BY <1>1, <1>2 DEF HubInv, RowsMatchVenue
  <1>14. UnpostedIsOpen'
    <2>1. ASSUME NEW d \in Callers, caller'[d].pc \in Unposted
          PROVE  venue[caller'[d].key].posts = 0 /\ ~order'[caller'[d].key].accounted
      <3>1. CASE d = c
        BY <1>5, <1>6, <1>8, <1>9, <1>13, <3>1
      <3>2. CASE d # c
        <4>1. caller'[d] = caller[d] /\ caller[d].pc \in Past
          BY <1>9, <2>1, <3>2 DEF Unposted, Past
        <4>2. order'[caller[d].key] = order[caller[d].key]
          BY <1>8, <1>10, <4>1
        <4> QED
          BY <2>1, <4>1, <4>2 DEF HubInv, UnpostedIsOpen
      <3> QED
        BY <3>1, <3>2
    <2> QED
      BY <1>1, <2>1 DEF UnpostedIsOpen
  <1>15. RowsMatchVenue'
    <2>1. "PREPARING" \notin Terminal /\ "PREPARING" # "REJECTED"
      BY DEF Terminal
    <2> QED
      BY <1>1, <1>5, <1>8, <2>1 DEF HubInv, RowsMatchVenue
  <1>16. AnswersAreTrue'
    <2>1. \A d \in Callers : caller'[d].pc = "answered" => caller'[d] = caller[d]
      BY <1>6, <1>9
    <2>2. \A r \in Reconcilers : auditor[r].todo \subseteq Orders
      BY CallerTypes DEF AuditorType
    <2>3. \A j \in Orders : order[j].status # "ABSENT" => order'[j].status # "ABSENT"
      BY <1>5, <1>8
    <2> QED
      BY <1>1, <2>1, <2>2, <2>3 DEF HubInv, AnswersAreTrue
  <1>17. OneOpen'
    <2>1. \A j \in Orders \ {k} : order'[j].status \notin Open
      BY <1>1, <1>8 DEF Unresolved
    <2> QED
      BY <2>1 DEF OneOpen
  <1> QED
    BY <1>11, <1>12, <1>14, <1>15, <1>16, <1>17 DEF HubInv

(***************************************************************************)
(* The POST: the first one of its key, which the venue does not know yet.  *)
(***************************************************************************)
LEMMA FinalResult ==
    ASSUME NEW k \in Orders, NEW n \in 0..Qty[k]
    PROVE  /\ Answers(k, n) \subseteq Result /\ n \in Nat
           /\ \A r \in Answers(k, n) : r.status # "REJECTED"
PROOF
  <1>1. n \in Nat
    BY HubTradingAssumption
  <1>2. Final(k, n) \in Result /\ Final(k, n).status # "REJECTED"
    BY <1>1 DEF Final, Result, Terminal
  <1> QED
    BY <1>1, <1>2 DEF Answers, NoResult, Result, Open

LEMMA PostKeepsHubInv ==
    ASSUME HubInv, NEW c \in Callers, Post(c)
    PROVE  HubInv'
PROOF
  <1> DEFINE k == caller[c].key
  <1>1. caller[c].pc = "sending" /\ UNCHANGED <<mode, book, auditor>>
    BY DEF Post
  <1>2. /\ k \in Orders /\ order[k].status # "ABSENT" /\ ~order[k].accounted
        /\ venue[k].state = "none" /\ venue[k].posts = 0
    BY <1>1, UnsentIsRefused DEF Unposted, HubInv, UnpostedIsOpen
  <1>3. venue[k] \in [state : {"none", "refused", "executed"}, filled : Nat, posts : Nat]
    BY <1>2 DEF HubInv, TypeOK
  <1> DEFINE VenueRow == [state : {"none", "refused", "executed"}, filled : Nat, posts : Nat]
  <1>4. /\ venue' \in [Orders -> VenueRow]
        /\ \A j \in Orders \ {k} : venue'[j] = venue[j]
        /\ venue'[k].posts <= 1
        /\ venue'[k].posts = 0 => venue'[k].state = "none"
        /\ \E r \in Result :
              Answered(c, r) /\ (r.status = "REJECTED" => venue'[k].state # "executed")
    <2>1. NoResult \in Result /\ NoResult.status # "REJECTED"
      BY IdleTypes DEF NoResult
    <2>2. venue \in [Orders -> VenueRow]
      BY DEF HubInv, TypeOK
    <2>3. CASE Answered(c, NoResult) /\ UNCHANGED venue
      BY <1>2, <1>3, <2>1, <2>2, <2>3
    <2>4. CASE /\ venue' = [venue EXCEPT ![k] =
                      [state |-> "refused", filled |-> 0, posts |-> @.posts + 1]]
               /\ \E r \in {NoResult, Refusal} : Answered(c, r)
      <3>1. /\ venue'[k] = [state |-> "refused", filled |-> 0, posts |-> 1]
            /\ \A j \in Orders \ {k} : venue'[j] = venue[j]
            /\ venue' \in [Orders -> VenueRow]
        BY <1>2, <2>2, <2>4
      <3>2. /\ venue'[k].state = "refused" /\ venue'[k].posts = 1
        BY <3>1
      <3> QED
        BY <2>4, <3>1, <3>2, IdleTypes
    <2>5. CASE \E n \in 0..Qty[k] :
                /\ venue' = [venue EXCEPT ![k] =
                      [state |-> "executed", filled |-> n, posts |-> @.posts + 1]]
                /\ \E r \in Answers(k, n) : Answered(c, r)
      <3>1. PICK n \in 0..Qty[k] :
                /\ venue' = [venue EXCEPT ![k] =
                      [state |-> "executed", filled |-> n, posts |-> @.posts + 1]]
                /\ \E r \in Answers(k, n) : Answered(c, r)
        BY <2>5
      <3>2. /\ Answers(k, n) \subseteq Result /\ n \in Nat
            /\ \A r \in Answers(k, n) : r.status # "REJECTED"
        BY <1>2, FinalResult
      <3>3. /\ venue'[k] = [state |-> "executed", filled |-> n, posts |-> 1]
            /\ \A j \in Orders \ {k} : venue'[j] = venue[j]
            /\ venue' \in [Orders -> VenueRow]
        BY <1>2, <2>2, <3>1, <3>2
      <3>4. venue'[k].posts = 1
        BY <3>3
      <3> QED
        BY <3>1, <3>2, <3>3, <3>4
    <2> QED
      BY <1>2, <2>3, <2>4, <2>5 DEF Post
  <1>5. PICK r \in Result :
            Answered(c, r) /\ (r.status = "REJECTED" => venue'[k].state # "executed")
    BY <1>4
  <1>6. PICK m \in CallerType :
           /\ caller' = [caller EXCEPT ![c] = m]
           /\ m.key = k /\ m.pc \in {"answered", "failed"} /\ m.result = r
    <2>1. caller[c] \in CallerType
      BY CallerTypes
    <2>2. PICK pc \in {"answered", "failed"} :
             caller' = [caller EXCEPT ![c] = [caller[c] EXCEPT !.pc = pc, !.result = r]]
      BY <1>5 DEF Answered
    <2> DEFINE m == [caller[c] EXCEPT !.pc = pc, !.result = r]
    <2>3. m \in CallerType /\ m.key = k /\ m.pc = pc /\ m.result = r
      BY <2>1 DEF CallerType, Past
    <2>4. caller' = [caller EXCEPT ![c] = m]
      BY <2>2
    <2> HIDE DEF m
    <2> QED
      BY <2>3, <2>4
  <1>7. /\ caller' \in [Callers -> CallerType] /\ caller'[c] = m
        /\ \A d \in Callers \ {c} : caller'[d] = caller[d]
    BY <1>6, CallerTypes
  <1>8. UNCHANGED <<mode, order, cash, held, auditor>>
    BY <1>1 DEF book
  <1>9. \A d \in Callers \ {c} : caller[d].pc \in Past => caller[d].key \in Orders \ {k}
    BY <1>1, MyKey DEF HubInv, CallersOwnKeys, Past
  <1>10. TypeOK'
    BY <1>4, <1>7, <1>8 DEF HubInv, TypeOK, CallerType, Past
  <1>11. CallersOwnKeys'
    BY <1>1, <1>2, <1>6, <1>7, <1>8 DEF HubInv, CallersOwnKeys, Past
  <1>12. UnpostedIsOpen'
    BY <1>4, <1>6, <1>7, <1>8, <1>9 DEF HubInv, UnpostedIsOpen, Unposted, Past
  <1>13. RowsMatchVenue'
    <2>1. order[k].status # "REJECTED"
      BY <1>2 DEF HubInv, RowsMatchVenue, Terminal
    <2>2. ASSUME NEW j \in Orders
          PROVE  /\ venue'[j].posts <= 1
                 /\ venue'[j].posts = 0 => venue'[j].state = "none"
                 /\ order[j].status = "ABSENT" => venue'[j].posts = 0
                 /\ order[j].status = "REJECTED" => venue'[j].state # "executed"
      BY <1>2, <1>4, <2>1 DEF HubInv, RowsMatchVenue
    <2> QED
      BY <1>8, <2>2 DEF HubInv, RowsMatchVenue
  <1>14. AnswersAreTrue'
    <2>1. m.result.status = "REJECTED" => venue'[m.key].state # "executed"
      BY <1>5, <1>6
    <2>2. \A d \in Callers : caller'[d].pc = "answered" /\ caller'[d].result.status = "REJECTED"
             => venue'[caller'[d].key].state # "executed"
      BY <1>4, <1>7, <1>9, <2>1 DEF HubInv, AnswersAreTrue, Past
    <2>3. \A j \in Orders : venue[j].state = "executed" => venue'[j].state = "executed"
      BY <1>2, <1>4
    <2> QED
      BY <1>8, <2>2, <2>3 DEF HubInv, AnswersAreTrue
  <1>15. OneOpen'
    BY <1>8 DEF HubInv, OneOpen
  <1> QED
    BY <1>10, <1>11, <1>12, <1>13, <1>14, <1>15 DEF HubInv

-----------------------------------------------------------------------------
(* Reconciliation.                                                         *)

LEMMA ListKeepsHubInv ==
    ASSUME HubInv, NEW r \in Reconcilers, List(r)
    PROVE  HubInv'
PROOF
  <1> DEFINE ids == {k \in Unresolved : order[k].known}
             m == [IdleAuditor EXCEPT !.pc = "listed", !.todo = Unresolved, !.ids = ids]
  <1>1. Unresolved \in SUBSET Orders /\ ids \in SUBSET Orders
    BY DEF Unresolved
  <1>2. m \in AuditorType /\ m.pc = "listed" /\ m.todo = Unresolved
    BY <1>1, IdleTypes DEF AuditorType
  <1>3. auditor' = [auditor EXCEPT ![r] = m] /\ UNCHANGED <<mode, book, venue, caller>>
    BY DEF List
  <1>4. \A k \in Unresolved : order[k].status # "ABSENT"
    BY DEF Unresolved, Open
  <1> HIDE DEF m
  <1>5. RowsKept
    BY <1>3, SameRowsKept
  <1> QED
    BY <1>2, <1>3, <1>4, <1>5, AuditorStep DEF book

\* Each lookup brings home what the venue executed, or nothing.
LEMMA AskKeepsHubInv ==
    ASSUME HubInv, NEW r \in Reconcilers, NEW k \in Orders, NEW answer \in Result,
           Ask(r, k, answer),
           answer.status # "REJECTED",
           answer.status # "NONE" => venue[k].state = "executed"
    PROVE  HubInv'
PROOF
  <1> DEFINE m == [auditor[r] EXCEPT !.pc = "asked", !.key = k, !.result = answer]
  <1>1. auditor[r] \in AuditorType
    BY CallerTypes
  <1>2. /\ m \in AuditorType /\ m.pc = "asked" /\ m.key = k /\ m.result = answer
        /\ m.todo = auditor[r].todo
    BY <1>1 DEF AuditorType
  <1>3. /\ auditor' = [auditor EXCEPT ![r] = m] /\ k \in auditor[r].todo
        /\ UNCHANGED <<mode, book, venue, caller>>
    BY DEF Ask
  <1>4. \A j \in auditor[r].todo : order[j].status # "ABSENT"
    BY DEF HubInv, AnswersAreTrue
  <1> HIDE DEF m
  <1>5. RowsKept
    BY <1>3, SameRowsKept
  <1> QED
    BY <1>2, <1>3, <1>4, <1>5, AuditorStep DEF book

LEMMA LookupKeepsHubInv ==
    ASSUME HubInv, NEW r \in Reconcilers, Lookup(r)
    PROVE  HubInv'
PROOF
  <1>1. PICK k \in Orders : Find(r, k) \/ FindPending(r, k) \/ Miss(r, k)
    BY DEF Lookup
  <1>2. CASE Find(r, k)
    <2>1. venue[k].state = "executed" /\ venue[k].filled \in Nat
      BY <1>2 DEF Find, Visible, HubInv, TypeOK
    <2>2. /\ Final(k, venue[k].filled) \in Result
          /\ Final(k, venue[k].filled).status # "REJECTED"
      BY <2>1 DEF Final, Result, Terminal
    <2> QED
      BY <1>2, <2>1, <2>2, AskKeepsHubInv DEF Find
  <1>3. CASE FindPending(r, k)
    <2>1. [status |-> "NEW", filled |-> 0] \in Result
      BY DEF Result, Open
    <2> QED
      BY <1>3, <2>1, AskKeepsHubInv DEF FindPending, Visible
  <1>4. CASE Miss(r, k)
    BY <1>4, AskKeepsHubInv, IdleTypes DEF Miss, NoResult
  <1> QED
    BY <1>1, <1>2, <1>3, <1>4

LEMMA RecordKeepsHubInv ==
    ASSUME HubInv, NEW r \in Reconcilers, Record(r)
    PROVE  HubInv'
PROOF
  <1> DEFINE k == auditor[r].key
             answer == auditor[r].result
  <1>1. auditor[r].pc = "asked" /\ Proceed(r) /\ UNCHANGED <<mode, venue, caller>>
    BY DEF Record
  <1>2. auditor[r] \in AuditorType
    BY CallerTypes
  <1>3. /\ k \in Orders /\ order[k].status # "ABSENT"
        /\ answer.status # "REJECTED"
        /\ answer.status # "NONE" => venue[k].state = "executed"
        /\ \A j \in auditor[r].todo : order[j].status # "ABSENT"
    BY <1>1 DEF HubInv, AnswersAreTrue
  <1>4. answer \in Result
    BY <1>2 DEF AuditorType
  <1> DEFINE rest == Rest(r)
             next == [auditor[r] EXCEPT !.pc = "listed", !.todo = rest]
  <1>5. PICK m \in AuditorType :
           /\ auditor' = [auditor EXCEPT ![r] = m]
           /\ m.pc # "asked" /\ m.todo \subseteq auditor[r].todo
    <2>1. CASE rest = {}
      <3>1. auditor' = [auditor EXCEPT ![r] = IdleAuditor]
        BY <1>1, <2>1 DEF Proceed
      <3>2. IdleAuditor.pc = "idle" /\ IdleAuditor.todo = {}
        BY DEF IdleAuditor
      <3> QED
        BY <3>1, <3>2, IdleTypes
    <2>2. CASE rest # {}
      <3>1. auditor' = [auditor EXCEPT ![r] = next]
        BY <1>1, <2>2 DEF Proceed
      <3>2. rest \in SUBSET Orders /\ rest \subseteq auditor[r].todo
        BY <1>2 DEF AuditorType, Rest
      <3>3. next \in AuditorType /\ next.pc = "listed" /\ next.todo = rest
        BY <1>2, <3>2 DEF AuditorType
      <3> HIDE DEF next
      <3> QED
        BY <3>1, <3>2, <3>3
    <2> QED
      BY <2>1, <2>2
  <1>6. RowsKept /\ (\A j \in Orders : order'[j].accounted /\ ~order[j].accounted =>
                        venue[j].state = "executed")
    <2>1. CASE UNCHANGED book
      BY <2>1, SameRowsKept DEF book
    <2>2. CASE ~order[k].accounted /\ answer # NoResult /\ Finish(k, answer)
      <3>1. RowKept(k)
        BY <1>3, <1>4, <2>2, FinishKeepsRow
      <3>2. CASE answer.status = "NONE"
        <4>1. answer.status \notin Open /\ answer.status \notin Terminal
          BY <3>2 DEF Open, Terminal
        <4>2. FALSE
          BY <2>2, <4>1 DEF Finish
        <4> QED
          BY <4>2
      <3>3. CASE answer.status # "NONE"
        BY <1>3, <3>1, <3>3, RowKeptRowsKept DEF RowKept
      <3> QED
        BY <3>2, <3>3
    <2>3. CASE ~order[k].accounted /\ SaveStatus(k, "UNKNOWN")
      <3>1. RowKept(k) /\ ~order'[k].accounted
        BY <1>3, <2>3, SaveKeepsRow DEF Open
      <3> QED
        BY <1>3, <3>1, RowKeptRowsKept DEF RowKept
    <2> QED
      BY <2>1, <2>2, <2>3 DEF Record
  <1> QED
    BY <1>1, <1>3, <1>5, <1>6, AuditorStep

LEMMA AbandonKeepsHubInv ==
    ASSUME HubInv, NEW r \in Reconcilers, Abandon(r)
    PROVE  HubInv'
PROOF
  <1>1. IdleAuditor \in AuditorType /\ IdleAuditor.pc = "idle" /\ IdleAuditor.todo = {}
    BY IdleTypes DEF IdleAuditor
  <1>2. RowsKept
    BY SameRowsKept DEF Abandon
  <1> QED
    BY <1>1, <1>2, AuditorStep DEF Abandon, book

-----------------------------------------------------------------------------
(***************************************************************************)
(* The invariant is inductive.                                             *)
(***************************************************************************)
LEMMA HubInvNext ==
    ASSUME HubInv, [Next]_vars
    PROVE  HubInv'
PROOF
  <1>1. CASE \E c \in Callers : Submit(c) \/ Die(c)
    BY <1>1, RequestKeepsHubInv, PrepareKeepsHubInv, GoOnKeepsHubInv, ArmKeepsHubInv,
       PostKeepsHubInv, BookKeepsHubInv, BlockKeepsHubInv, DoubtKeepsHubInv
    DEF Submit
  <1>2. CASE \E r \in Reconcilers : Reconcile(r) \/ Abandon(r)
    BY <1>2, ListKeepsHubInv, LookupKeepsHubInv, RecordKeepsHubInv, AbandonKeepsHubInv
    DEF Reconcile
  <1>3. CASE \/ \E m \in Modes : SetRiskMode(m)
             \/ UNCHANGED vars
    <2>1. mode' \in RiskModes /\ UNCHANGED <<order, cash, held, venue, caller, auditor>>
      BY <1>3, HubTradingAssumption DEF SetRiskMode, vars, book, HubInv, TypeOK
    <2>2. TypeOK' /\ OneOpen'
      BY <2>1 DEF HubInv, TypeOK, OneOpen
    <2>3. CallersOwnKeys' /\ UnpostedIsOpen'
      BY <2>1 DEF HubInv, CallersOwnKeys, UnpostedIsOpen
    <2>4. RowsMatchVenue' /\ AnswersAreTrue'
      BY <2>1 DEF HubInv, RowsMatchVenue, AnswersAreTrue
    <2> QED
      BY <2>2, <2>3, <2>4 DEF HubInv
  <1> QED
    BY <1>1, <1>2, <1>3 DEF Next

LEMMA HubInvAlways == Spec => []HubInv
  BY HubInvInit, HubInvNext, PTL DEF Spec

(***************************************************************************)
(* Type correctness of the four tables and of all memories.                *)
(***************************************************************************)
THEOREM HubTypeCorrect == Spec => []TypeOK
PROOF
  <1>1. HubInv => TypeOK
    BY DEF HubInv
  <1> QED
    BY <1>1, HubInvAlways, PTL

(***************************************************************************)
(* Whatever calls, crashes and reconciliations meet, an order is POSTed    *)
(* once.                                                                   *)
(***************************************************************************)
THEOREM PostedAtMostOnce == Spec => []SentOnce
PROOF
  <1>1. HubInv => SentOnce
    BY DEF HubInv, RowsMatchVenue, SentOnce
  <1> QED
    BY <1>1, HubInvAlways, PTL

(***************************************************************************)
(* A row that says REJECTED is of an order the venue does not execute.     *)
(***************************************************************************)
THEOREM RejectedIsNotFilled == Spec => []RejectedNeverFilled
PROOF
  <1>1. HubInv => RejectedNeverFilled
    BY DEF HubInv, RowsMatchVenue, RejectedNeverFilled
  <1> QED
    BY <1>1, HubInvAlways, PTL

(***************************************************************************)
(* At most one executed order is missing in the books.                     *)
(***************************************************************************)
THEOREM AtMostOneFillMissing == Spec => []OneFillMissing
PROOF
  <1>1. ASSUME HubInv PROVE OneFillMissing
    <2> DEFINE S == {k \in Orders : venue[k].state = "executed" /\ ~order[k].accounted}
    <2>1. \A k \in S : order[k].status \in Open
      BY <1>1 DEF HubInv, RowsMatchVenue, TypeOK, OrderRow
    <2>2. \A j, k \in S : j = k
      BY <1>1, <2>1 DEF HubInv, OneOpen
    <2>3. S = {} \/ \E k \in S : S = {k}
      BY <2>2
    <2> HIDE DEF S
    <2>4. CASE S = {}
      <3>1. Cardinality(S) = 0
        BY <2>4, FS_EmptySet
      <3> QED
        BY <3>1 DEF S, OneFillMissing
    <2>5. CASE \E k \in S : S = {k}
      <3>1. Cardinality(S) = 1
        BY <2>5, FS_Singleton
      <3> QED
        BY <3>1 DEF S, OneFillMissing
    <2> QED
      BY <2>3, <2>4, <2>5
  <1> QED
    BY <1>1, HubInvAlways, PTL

(***************************************************************************)
(* Nothing rewrites the row of an accounted order.                         *)
(***************************************************************************)
LEMMA AccountedStep ==
    ASSUME HubInv, Next, NEW k \in Orders, order[k].accounted
    PROVE  order'[k] = order[k]
PROOF
  <1>1. ASSUME NEW j \in Orders, NEW s, ~order[j].accounted, SaveStatus(j, s)
        PROVE  order'[k] = order[k]
    BY <1>1 DEF SaveStatus, HubInv, TypeOK
  <1>2. ASSUME NEW j \in Orders, NEW r, Finish(j, r)
        PROVE  order'[k] = order[k]
    BY <1>2 DEF Finish, HubInv, TypeOK, book
  <1>3. ASSUME NEW c \in Callers, Submit(c) \/ Die(c)
        PROVE  order'[k] = order[k]
    <2>1. CASE Prepare(c)
      <3>1. order[k].status # "ABSENT"
        BY DEF HubInv, RowsMatchVenue, Terminal
      <3> QED
        BY <2>1, <3>1 DEF Prepare, HubInv, TypeOK
    <2>2. CASE Arm(c)
      <3>1. caller[c].key \in Orders /\ ~order[caller[c].key].accounted
        BY <2>2, UnsentIsRefused DEF Arm, Unposted
      <3> QED
        BY <1>1, <1>2, <2>2, <3>1 DEF Arm
    <2>3. CASE Book(c) \/ Block(c) \/ Doubt(c)
      <3>1. caller[c].key \in Orders
        BY <2>3, MyKey DEF Book, Block, Doubt
      <3> QED
        BY <1>1, <1>2, <2>3, <3>1 DEF Book, Block, Doubt, book
    <2>4. CASE \/ \E j \in Orders : Request(c, j)
               \/ Refuse(c) \/ Guard(c) \/ Unready(c) \/ Post(c) \/ Die(c)
      BY <2>4 DEF Request, Refuse, Guard, Unready, Post, Die, book
    <2> QED
      BY <1>3, <2>1, <2>2, <2>3, <2>4 DEF Submit
  <1>4. ASSUME NEW r \in Reconcilers, Reconcile(r) \/ Abandon(r)
        PROVE  order'[k] = order[k]
    <2>1. CASE Record(r)
      <3>1. auditor[r].key \in Orders
        BY <2>1 DEF Record, HubInv, AnswersAreTrue
      <3> QED
        BY <1>1, <1>2, <2>1, <3>1 DEF Record, book
    <2>2. CASE List(r) \/ Abandon(r)
      BY <2>2 DEF List, Abandon, book
    <2>3. CASE Lookup(r)
      BY <2>3 DEF Lookup, Find, FindPending, Miss, Ask, book
    <2> QED
      BY <1>4, <2>1, <2>2, <2>3 DEF Reconcile
  <1>5. ASSUME NEW m \in Modes, SetRiskMode(m)
        PROVE  order'[k] = order[k]
    BY <1>5 DEF SetRiskMode, book
  <1> QED
    BY <1>3, <1>4, <1>5 DEF Next

(***************************************************************************)
(* What was accounted is final.                                            *)
(***************************************************************************)
THEOREM AccountedStays == Spec => AccountedIsFinal
PROOF
  <1>1. ASSUME HubInv, [Next]_vars
        PROVE  [\A k \in Orders : order[k].accounted => order'[k] = order[k]]_vars
    BY <1>1, AccountedStep
  <1> QED
    BY <1>1, HubInvAlways, PTL DEF Spec, AccountedIsFinal

-----------------------------------------------------------------------------
(* The money.                                                              *)

\* An execution is of no more than was ordered, and only an execution fills.
VenueFills ==
    \A k \in Orders :
        /\ venue[k].filled <= Qty[k]
        /\ venue[k].state # "executed" => venue[k].filled = 0

\* Whoever holds a final result holds the fill the venue executed.
AnswersAreExact ==
    /\ \A c \in Callers :
          caller[c].pc = "answered" /\ caller[c].result.status \in Terminal =>
              caller[c].result.filled = venue[caller[c].key].filled
    /\ \A r \in Reconcilers :
          auditor[r].pc = "asked" /\ auditor[r].result.status \in Terminal =>
              auditor[r].result.filled = venue[auditor[r].key].filled

\* An open row reserves the whole order with its fee, an accounted one what
\* the venue executed.
Cost == [k \in Orders |-> venue[k].filled + FeeOf(venue[k].filled)]
RowsReserve ==
    \A k \in Orders :
        order[k].status # "ABSENT" =>
            order[k].reserved = IF order[k].accounted THEN Cost[k] ELSE Reserve(k)

MoneyInv ==
    /\ VenueFills
    /\ AnswersAreExact
    /\ RowsReserve
    /\ BooksMatchVenue
    /\ DayRisk <= MaxDaily

LEMMA MarketIn == \A k \in Orders : Market(k) \in Venues
  BY DEF Market, Venues

\* The amounts of an order.
LEMMA Amounts ==
    ASSUME HubInv
    PROVE  \A k \in Orders :
              /\ Executed[k] \in Nat /\ FeesPaid[k] \in Nat /\ Cost[k] \in Nat
              /\ Executed[k] = venue[k].filled /\ FeesPaid[k] = FeeOf(venue[k].filled)
              /\ Cost[k] = venue[k].filled + FeeOf(venue[k].filled)
              /\ Reserve(k) \in Nat /\ order[k].reserved \in Nat
PROOF
  <1>1. \A k \in Orders : venue[k].filled \in Nat /\ order[k].reserved \in Nat
    BY DEF HubInv, TypeOK, OrderRow
  <1>2. Fee \in Nat /\ \A k \in Orders : Qty[k] \in Nat
    BY HubTradingAssumption
  <1> QED
    BY <1>1, <1>2 DEF Executed, FeesPaid, Cost, Reserve, FeeOf

\* What an execution of at most the whole order costs is covered.
LEMMA CostCovered ==
    ASSUME HubInv, VenueFills
    PROVE  \A k \in Orders : Cost[k] <= Reserve(k)
PROOF
  <1>1. \A k \in Orders : venue[k].filled \in Nat /\ venue[k].filled <= Qty[k]
    BY DEF HubInv, TypeOK, VenueFills
  <1>2. Fee \in Nat /\ \A k \in Orders : Qty[k] \in Nat
    BY HubTradingAssumption
  <1> QED
    BY <1>1, <1>2 DEF Cost, Reserve, FeeOf

LEMMA RowSetsFinite ==
    /\ \A v, S : S \subseteq Orders => IsFiniteSet(Accounted(v, S))
    /\ IsFiniteSet({k \in Buys : order[k].status # "ABSENT"})
    /\ IsFiniteSet(Buys)
PROOF
  <1>1. \A S : S \subseteq Orders => IsFiniteSet(S)
    BY HubTradingAssumption, FS_Subset
  <1> QED
    BY <1>1, HubTradingAssumption DEF Accounted

LEMMA MoneyInvInit == Init => MoneyInv
PROOF
  <1> SUFFICES ASSUME Init PROVE MoneyInv
    OBVIOUS
  <1>1. VenueFills /\ AnswersAreExact /\ RowsReserve
    BY HubTradingAssumption
    DEF Init, VenueFills, AnswersAreExact, RowsReserve, IdleCaller, IdleAuditor, Absent
  <1>2. \A v, S : S \subseteq Orders => Accounted(v, S) = {}
    BY DEF Init, Accounted, Absent
  <1>3. BooksMatchVenue
    <2>1. \A r : SumOf(r, {}) = 0
      BY SumEmpty
    <2>2. StartCash \in Nat /\ Buys \subseteq Orders
      BY HubTradingAssumption
    <2>3. \A v \in Venues : held[v] = 0 /\ cash[v] = StartCash
      BY DEF Init
    <2>4. ASSUME NEW v \in Venues
          PROVE  /\ Accounted(v, Buys) = {} /\ Accounted(v, Orders \ Buys) = {}
                 /\ Accounted(v, Orders) = {}
      BY <1>2, <2>2
    <2>5. SumOf(Executed, {}) = 0 /\ SumOf(FeesPaid, {}) = 0
      BY <2>1
    <2> QED
      BY <2>2, <2>3, <2>4, <2>5 DEF BooksMatchVenue
  <1>4. DayRisk = 0
    <2>1. {k \in Buys : order[k].status # "ABSENT"} = {}
      BY HubTradingAssumption DEF Init, Absent
    <2> QED
      BY <2>1, SumEmpty DEF DayRisk
  <1> QED
    BY <1>1, <1>3, <1>4, HubTradingAssumption DEF MoneyInv

-----------------------------------------------------------------------------
(***************************************************************************)
(* What the steps do to the money: an open row changes its status, a row   *)
(* is added, a row is booked, or the venue executes an order whose row is  *)
(* open.                                                                   *)
(***************************************************************************)
Touched ==
    /\ UNCHANGED <<cash, held, venue>>
    /\ \A k \in Orders :
          /\ order'[k].status = "ABSENT" <=> order[k].status = "ABSENT"
          /\ order'[k].accounted = order[k].accounted
          /\ order'[k].reserved = order[k].reserved

Added(k) ==
    /\ UNCHANGED <<cash, held, venue>>
    /\ \A j \in Orders \ {k} : order'[j] = order[j]
    /\ order[k].status = "ABSENT" /\ order'[k].status # "ABSENT"
    /\ ~order'[k].accounted /\ order'[k].reserved = Reserve(k)
    /\ k \in Buys => DayRisk + Reserve(k) <= MaxDaily

Booked(k) ==
    /\ UNCHANGED venue
    /\ \A j \in Orders \ {k} : order'[j] = order[j]
    /\ order[k].status # "ABSENT" /\ order'[k].status # "ABSENT"
    /\ ~order[k].accounted /\ order'[k].accounted
    /\ order'[k].reserved = Cost[k]
    /\ Pay(k, Executed[k])

VenueMoved ==
    /\ UNCHANGED <<order, cash, held>>
    /\ \A k \in Orders : order[k].accounted => venue'[k] = venue[k]

MoneyMoves == Touched \/ (\E k \in Orders : Added(k) \/ Booked(k)) \/ VenueMoved

LEMMA TouchedKeepsMoney ==
    ASSUME HubInv, HubInv', MoneyInv, Touched
    PROVE  RowsReserve' /\ BooksMatchVenue' /\ DayRisk' <= MaxDaily
PROOF
  <1>1. RowsReserve'
    BY DEF MoneyInv, Touched, RowsReserve, Cost
  <1>2. \A v, S : S \subseteq Orders => Accounted(v, S)' = Accounted(v, S)
    BY DEF Touched, Accounted
  <1>3. BooksMatchVenue'
    <2>1. Executed' = Executed /\ FeesPaid' = FeesPaid
      BY DEF Touched, Executed, FeesPaid
    <2>2. \A v : /\ Accounted(v, Buys)' = Accounted(v, Buys)
                 /\ Accounted(v, Orders \ Buys)' = Accounted(v, Orders \ Buys)
                 /\ Accounted(v, Orders)' = Accounted(v, Orders)
      BY <1>2, HubTradingAssumption
    <2> QED
      BY <2>1, <2>2 DEF MoneyInv, BooksMatchVenue, Touched
  <1>4. DayRisk' = DayRisk
    <2>1. [k \in Orders |-> order'[k].reserved] = [k \in Orders |-> order[k].reserved]
      BY DEF Touched
    <2>2. {k \in Buys : order'[k].status # "ABSENT"} = {k \in Buys : order[k].status # "ABSENT"}
      BY HubTradingAssumption DEF Touched
    <2> QED
      BY <2>1, <2>2 DEF DayRisk
  <1> QED
    BY <1>1, <1>3, <1>4 DEF MoneyInv

LEMMA VenueMovedKeepsMoney ==
    ASSUME HubInv, HubInv', MoneyInv, VenueMoved
    PROVE  RowsReserve' /\ BooksMatchVenue' /\ DayRisk' <= MaxDaily
PROOF
  <1>1. RowsReserve'
    BY DEF MoneyInv, VenueMoved, RowsReserve, Cost
  <1>2. ASSUME NEW v, NEW S, S \subseteq Orders
        PROVE  /\ Accounted(v, S)' = Accounted(v, S)
               /\ SumOf(Executed', Accounted(v, S)) = SumOf(Executed, Accounted(v, S))
               /\ SumOf(FeesPaid', Accounted(v, S)) = SumOf(FeesPaid, Accounted(v, S))
    <2> DEFINE A == Accounted(v, S)
    <2>1. A' = A
      BY DEF VenueMoved, Accounted
    <2>2. IsFiniteSet(A)
      BY <1>2, RowSetsFinite
    <2>3. \A k \in A : Executed'[k] = Executed[k] /\ FeesPaid'[k] = FeesPaid[k]
      BY <1>2 DEF VenueMoved, Accounted, Executed, FeesPaid
    <2> HIDE DEF A
    <2>4. SumOf(Executed', A) = SumOf(Executed, A)
      BY <2>2, <2>3, SumAgree
    <2>5. SumOf(FeesPaid', A) = SumOf(FeesPaid, A)
      BY <2>2, <2>3, SumAgree
    <2> QED
      BY <2>1, <2>4, <2>5 DEF A
  <1>3. BooksMatchVenue'
    <2> SUFFICES ASSUME NEW v \in Venues
                 PROVE  /\ held'[v] = SumOf(Executed', Accounted(v, Buys)')
                                        - SumOf(Executed', Accounted(v, Orders \ Buys)')
                        /\ cash'[v] = StartCash - held'[v] - SumOf(FeesPaid', Accounted(v, Orders)')
      BY DEF BooksMatchVenue
    <2>1. /\ Buys \subseteq Orders /\ Orders \ Buys \subseteq Orders /\ Orders \subseteq Orders
      BY HubTradingAssumption
    <2> QED
      BY <1>2, <2>1 DEF MoneyInv, BooksMatchVenue, VenueMoved
  <1>4. DayRisk' = DayRisk
    BY DEF DayRisk, VenueMoved
  <1> QED
    BY <1>1, <1>3, <1>4 DEF MoneyInv

LEMMA AddedKeepsMoney ==
    ASSUME HubInv, HubInv', MoneyInv, NEW k \in Orders, Added(k)
    PROVE  RowsReserve' /\ BooksMatchVenue' /\ DayRisk' <= MaxDaily
PROOF
  <1>1. RowsReserve'
    BY DEF MoneyInv, Added, RowsReserve, Cost
  <1>2. ~order[k].accounted
    BY DEF HubInv, RowsMatchVenue, Added, Terminal
  <1>3. BooksMatchVenue'
    <2>1. Executed' = Executed /\ FeesPaid' = FeesPaid
      BY DEF Added, Executed, FeesPaid
    <2>2. \A v, S : S \subseteq Orders => Accounted(v, S)' = Accounted(v, S)
      BY <1>2 DEF Added, Accounted
    <2>3. \A v : /\ Accounted(v, Buys)' = Accounted(v, Buys)
                 /\ Accounted(v, Orders \ Buys)' = Accounted(v, Orders \ Buys)
                 /\ Accounted(v, Orders)' = Accounted(v, Orders)
      BY <2>2, HubTradingAssumption
    <2> QED
      BY <2>1, <2>3 DEF MoneyInv, BooksMatchVenue, Added
  <1>4. DayRisk' <= MaxDaily
    <2> DEFINE R == [j \in Orders |-> order[j].reserved]
               Q == [j \in Orders |-> order'[j].reserved]
               S == {j \in Buys : order[j].status # "ABSENT"}
               T == {j \in Buys : order'[j].status # "ABSENT"}
    <2>1. DayRisk = SumOf(R, S) /\ DayRisk' = SumOf(Q, T)
      BY DEF DayRisk
    <2>2. IsFiniteSet(S) /\ S \subseteq Orders /\ k \notin S
      BY RowSetsFinite, HubTradingAssumption DEF Added
    <2>3. \A j \in S : R[j] \in Int /\ Q[j] = R[j]
      BY <2>2, Amounts DEF Added
    <2>4. Q[k] = Reserve(k) /\ Q[k] \in Int
      BY Amounts DEF Added
    <2>5. T = IF k \in Buys THEN S \union {k} ELSE S
      BY <2>2, HubTradingAssumption DEF Added
    <2> HIDE DEF R, Q, S, T
    <2>6. CASE k \in Buys
      <3>1. SumOf(Q, S \union {k}) = SumOf(R, S) + Q[k]
        BY <2>2, <2>3, <2>4, SumAdd
      <3>2. DayRisk + Reserve(k) <= MaxDaily
        BY <2>6 DEF Added
      <3> QED
        BY <2>1, <2>4, <2>5, <2>6, <3>1, <3>2
    <2>7. CASE k \notin Buys
      <3>1. SumOf(Q, S) = SumOf(R, S)
        BY <2>2, <2>3, SumAgree
      <3> QED
        BY <2>1, <2>5, <2>7, <3>1 DEF MoneyInv
    <2> QED
      BY <2>6, <2>7
  <1> QED
    BY <1>1, <1>3, <1>4

\* One row joins the accounted rows of its venue.
LEMMA SumOfBooked ==
    ASSUME HubInv, NEW k \in Orders, Booked(k), NEW v, NEW S, S \subseteq Orders,
           NEW r, \A j \in Orders : r[j] \in Nat
    PROVE  /\ SumOf(r, Accounted(v, S)) \in Int
           /\ SumOf(r, Accounted(v, S)') =
                 IF k \in S /\ Market(k) = v THEN SumOf(r, Accounted(v, S)) + r[k]
                 ELSE SumOf(r, Accounted(v, S))
PROOF
  <1> DEFINE A == Accounted(v, S)
  <1>1. IsFiniteSet(A) /\ A \subseteq Orders /\ k \notin A
    BY RowSetsFinite DEF Booked, Accounted
  <1>2. Accounted(v, S)' = IF k \in S /\ Market(k) = v THEN A \union {k} ELSE A
    BY DEF Booked, Accounted, Market
  <1>3. (\A j \in A : r[j] \in Int) /\ r[k] \in Int
    BY <1>1
  <1> HIDE DEF A
  <1>4. SumOf(r, A) \in Int
    BY <1>1, <1>3, SumInt
  <1>5. SumOf(r, A \union {k}) = SumOf(r, A) + r[k]
    BY <1>1, <1>3, SumAdd
  <1> QED
    BY <1>2, <1>4, <1>5 DEF A

LEMMA BookedKeepsMoney ==
    ASSUME HubInv, HubInv', MoneyInv, NEW k \in Orders, Booked(k)
    PROVE  RowsReserve' /\ BooksMatchVenue' /\ DayRisk' <= MaxDaily
PROOF
  <1>1. RowsReserve'
    <2>1. Cost' = Cost
      BY DEF Booked, Cost
    <2> QED
      BY <2>1 DEF MoneyInv, Booked, RowsReserve
  <1> DEFINE n == Executed[k]
             fee == FeesPaid[k]
             m == Market(k)
  <1>2. n \in Nat /\ fee \in Nat /\ FeeOf(n) = fee /\ m \in Venues
    BY Amounts, MarketIn
  <1>3. cash \in [Venues -> Int] /\ held \in [Venues -> Int]
    BY DEF HubInv, TypeOK
  <1>4. /\ cash' = [cash EXCEPT ![m] = IF k \in Buys THEN cash[m] - (n + fee) ELSE cash[m] + n - fee]
        /\ held' = [held EXCEPT ![m] = IF k \in Buys THEN held[m] + n ELSE held[m] - n]
    BY <1>2 DEF Booked, Pay
  <1>5. Executed' = Executed /\ FeesPaid' = FeesPaid
    BY DEF Booked, Executed, FeesPaid
  <1>6. BooksMatchVenue'
    <2> SUFFICES ASSUME NEW v \in Venues
                 PROVE  /\ held'[v] = SumOf(Executed', Accounted(v, Buys)')
                                        - SumOf(Executed', Accounted(v, Orders \ Buys)')
                        /\ cash'[v] = StartCash - held'[v] - SumOf(FeesPaid', Accounted(v, Orders)')
      BY DEF BooksMatchVenue
    <2> DEFINE B == SumOf(Executed, Accounted(v, Buys))
               S == SumOf(Executed, Accounted(v, Orders \ Buys))
               F == SumOf(FeesPaid, Accounted(v, Orders))
    <2>1. Buys \subseteq Orders /\ Orders \ Buys \subseteq Orders /\ Orders \subseteq Orders
      BY HubTradingAssumption
    <2>2. (\A j \in Orders : Executed[j] \in Nat) /\ (\A j \in Orders : FeesPaid[j] \in Nat)
      BY Amounts
    <2>3. /\ B \in Int
          /\ SumOf(Executed, Accounted(v, Buys)') = IF k \in Buys /\ m = v THEN B + n ELSE B
      BY <2>1, <2>2, SumOfBooked
    <2>4. /\ S \in Int
          /\ SumOf(Executed, Accounted(v, Orders \ Buys)') =
                IF k \in Orders \ Buys /\ m = v THEN S + n ELSE S
      BY <2>1, <2>2, SumOfBooked
    <2>5. /\ F \in Int
          /\ SumOf(FeesPaid, Accounted(v, Orders)') = IF k \in Orders /\ m = v THEN F + fee ELSE F
      BY <2>1, <2>2, SumOfBooked
    <2>6. held[v] = B - S /\ cash[v] = StartCash - held[v] - F
      BY DEF MoneyInv, BooksMatchVenue
    <2>7. StartCash \in Int
      BY HubTradingAssumption
    <2> HIDE DEF B, S, F, n, fee, m
    <2>8. CASE m # v
      <3>1. held'[v] = held[v] /\ cash'[v] = cash[v]
        BY <1>2, <1>3, <1>4, <2>8
      <3> QED
        BY <1>5, <2>3, <2>4, <2>5, <2>6, <2>8, <3>1
    <2>9. CASE m = v /\ k \in Buys
      <3>1. held'[v] = held[v] + n /\ cash'[v] = cash[v] - (n + fee)
        BY <1>2, <1>3, <1>4, <2>9
      <3>2. held'[v] = (B + n) - S
        BY <1>2, <2>3, <2>4, <2>6, <3>1
      <3>3. cash'[v] = StartCash - held'[v] - (F + fee)
        BY <1>2, <2>3, <2>4, <2>5, <2>6, <2>7, <3>1
      <3> QED
        BY <1>5, <2>3, <2>4, <2>5, <2>9, <3>2, <3>3
    <2>10. CASE m = v /\ k \notin Buys
      <3>1. held'[v] = held[v] - n /\ cash'[v] = cash[v] + n - fee
        BY <1>2, <1>3, <1>4, <2>10
      <3>2. held'[v] = B - (S + n)
        BY <1>2, <2>3, <2>4, <2>6, <3>1
      <3>3. cash'[v] = StartCash - held'[v] - (F + fee)
        BY <1>2, <2>3, <2>4, <2>5, <2>6, <2>7, <3>1
      <3> QED
        BY <1>5, <2>3, <2>4, <2>5, <2>10, <3>2, <3>3
    <2> QED
      BY <2>8, <2>9, <2>10
  <1>7. DayRisk' <= MaxDaily
    <2> DEFINE R == [j \in Orders |-> order[j].reserved]
               Q == [j \in Orders |-> order'[j].reserved]
               S == {j \in Buys : order[j].status # "ABSENT"}
    <2>1. DayRisk = SumOf(R, S)
      BY DEF DayRisk
    <2>2. DayRisk' = SumOf(Q, S)
      <3>1. S = {j \in Buys : order'[j].status # "ABSENT"}
        BY HubTradingAssumption DEF Booked
      <3> QED
        BY <3>1 DEF DayRisk
    <2>3. IsFiniteSet(S) /\ S \subseteq Orders
      BY RowSetsFinite, HubTradingAssumption
    <2>4. order[k].reserved = Reserve(k) /\ order'[k].reserved = Cost[k] /\ Cost[k] <= Reserve(k)
      BY CostCovered DEF MoneyInv, RowsReserve, Booked
    <2>5. ASSUME NEW j \in S PROVE R[j] \in Int /\ Q[j] \in Int /\ Q[j] <= R[j]
      <3>1. j \in Orders
        BY <2>3
      <3>2. R[j] \in Nat /\ R[j] = order[j].reserved /\ Q[j] = order'[j].reserved
        BY <3>1, Amounts
      <3>3. Cost[k] \in Nat
        BY Amounts
      <3>4. j # k => Q[j] = R[j]
        BY <3>1, <3>2 DEF Booked
      <3> HIDE DEF R, Q
      <3> QED
        BY <2>4, <3>2, <3>3, <3>4
    <2> HIDE DEF R, Q, S
    <2>6. SumOf(Q, S) <= SumOf(R, S)
      BY <2>3, <2>5, SumMonotone
    <2>7. SumOf(Q, S) \in Int /\ SumOf(R, S) \in Int /\ MaxDaily \in Int
      BY <2>3, <2>5, SumInt, HubTradingAssumption
    <2> QED
      BY <2>1, <2>2, <2>6, <2>7 DEF MoneyInv
  <1> QED
    BY <1>1, <1>6, <1>7

-----------------------------------------------------------------------------
(* The steps make these moves.                                             *)

LEMMA SavedTouches ==
    ASSUME HubInv, NEW k \in Orders, order[k].status # "ABSENT", NEW s \in Open,
           SaveStatus(k, s), UNCHANGED venue
    PROVE  Touched
PROOF
  <1> DEFINE row == [order[k] EXCEPT !.status = s]
  <1>1. order' = [order EXCEPT ![k] = row] /\ UNCHANGED <<cash, held>>
    BY DEF SaveStatus
  <1>2. order[k] \in OrderRow /\ s # "ABSENT" /\ order \in [Orders -> OrderRow]
    BY DEF HubInv, TypeOK, Open
  <1>3. /\ row.status = s /\ row.accounted = order[k].accounted
        /\ row.reserved = order[k].reserved
    BY <1>2 DEF OrderRow
  <1> HIDE DEF row
  <1> QED
    BY <1>1, <1>2, <1>3 DEF Touched

LEMMA FinishMoves ==
    ASSUME HubInv, NEW k \in Orders, order[k].status # "ABSENT", NEW r \in Result,
           Finish(k, r), UNCHANGED venue,
           r.status \in Terminal /\ ~order[k].accounted => r.filled = venue[k].filled
    PROVE  Touched \/ Booked(k)
PROOF
  <1>1. order[k] \in OrderRow /\ order \in [Orders -> OrderRow]
    BY DEF HubInv, TypeOK
  <1>2. CASE UNCHANGED book
    BY <1>2 DEF Touched, book
  <1>3. CASE /\ ~order[k].accounted /\ r.status \in Open
             /\ order' = [order EXCEPT ![k].status = r.status, ![k].known = TRUE]
             /\ UNCHANGED <<cash, held>>
    <2> DEFINE row == [order[k] EXCEPT !.status = r.status, !.known = TRUE]
    <2>1. order' = [order EXCEPT ![k] = row]
      BY <1>3
    <2>2. /\ row.status = r.status /\ row.accounted = order[k].accounted
          /\ row.reserved = order[k].reserved
      BY <1>1 DEF OrderRow
    <2>3. r.status # "ABSENT"
      BY <1>3 DEF Open
    <2> HIDE DEF row
    <2> QED
      BY <1>1, <1>3, <2>1, <2>2, <2>3 DEF Touched
  <1>4. CASE /\ ~order[k].accounted /\ r.status \in Terminal
             /\ Pay(k, r.filled)
             /\ order' = [order EXCEPT ![k] = [@ EXCEPT !.status = r.status, !.accounted = TRUE,
                              !.filled = r.filled, !.reserved = r.filled + FeeOf(r.filled)]]
    <2> DEFINE spent == r.filled + FeeOf(r.filled)
               row == [order[k] EXCEPT !.status = r.status, !.accounted = TRUE,
                                       !.filled = r.filled, !.reserved = spent]
    <2>1. order' = [order EXCEPT ![k] = row]
      BY <1>4
    <2>2. row.status = r.status /\ row.accounted = TRUE /\ row.reserved = spent
      BY <1>1 DEF OrderRow
    <2>3. r.status # "ABSENT" /\ r.filled = Executed[k] /\ spent = Cost[k]
      BY <1>4 DEF Terminal, Executed, Cost
    <2> HIDE DEF row, spent
    <2>4. order'[k] = row /\ \A j \in Orders \ {k} : order'[j] = order[j]
      BY <1>1, <2>1
    <2> QED
      BY <1>4, <2>2, <2>3, <2>4 DEF Booked
  <1> QED
    BY <1>2, <1>3, <1>4 DEF Finish

\* An order that was not sent is refused with the fill the venue executed: none.
LEMMA UnsentHasNoFill ==
    ASSUME HubInv, MoneyInv, NEW c \in Callers, caller[c].pc \in Unposted
    PROVE  /\ caller[c].key \in Orders /\ order[caller[c].key].status # "ABSENT"
           /\ Refusal \in Result /\ Refusal.filled = venue[caller[c].key].filled
  BY UnsentIsRefused DEF MoneyInv, VenueFills, Refusal, Result, Terminal

LEMMA CallerMovesMoney ==
    ASSUME HubInv, MoneyInv, NEW c \in Callers, Submit(c) \/ Die(c)
    PROVE  MoneyMoves
PROOF
  <1> DEFINE k == caller[c].key
  <1>1. CASE UNCHANGED <<order, cash, held, venue>>
    BY <1>1 DEF MoneyMoves, Touched
  <1>2. CASE Prepare(c)
    <2> DEFINE row == [Absent EXCEPT !.status = "PREPARING", !.reserved = Reserve(k)]
    <2>1. /\ order' = [order EXCEPT ![k] = row] /\ UNCHANGED <<cash, held, venue>>
          /\ order[k].status = "ABSENT" /\ RiskAllows(k) /\ k \in Orders
      BY <1>2, MyKey DEF Prepare
    <2>2. row.status = "PREPARING" /\ row.accounted = FALSE /\ row.reserved = Reserve(k)
      BY DEF Absent
    <2>3. order'[k] = row /\ \A j \in Orders \ {k} : order'[j] = order[j]
      BY <2>1 DEF HubInv, TypeOK
    <2> HIDE DEF row
    <2>4. Added(k)
      BY <2>1, <2>2, <2>3 DEF Added, RiskAllows
    <2> QED
      BY <2>1, <2>4 DEF MoneyMoves
  <1>3. CASE Arm(c)
    <2>1. UNCHANGED venue /\ caller[c].pc \in Unposted
      BY <1>3 DEF Arm, Unposted
    <2>2. CASE SaveStatus(k, "SUBMITTING")
      BY <2>1, <2>2, UnsentHasNoFill, SavedTouches DEF MoneyMoves, Open
    <2>3. CASE Finish(k, Refusal)
      BY <2>1, <2>3, UnsentHasNoFill, FinishMoves DEF MoneyMoves
    <2> QED
      BY <1>3, <2>2, <2>3 DEF Arm
  <1>4. CASE Post(c)
    <2>1. UNCHANGED <<order, cash, held>> /\ k \in Orders /\ ~order[k].accounted
      BY <1>4, UnsentIsRefused DEF Post, book, Unposted
    <2>2. \A j \in Orders \ {k} : venue'[j] = venue[j]
      BY <1>4 DEF Post, HubInv, TypeOK
    <2> QED
      BY <2>1, <2>2 DEF VenueMoved, MoneyMoves
  <1>5. CASE Book(c)
    <2>1. UNCHANGED venue /\ caller[c].pc = "answered"
      BY <1>5 DEF Book
    <2>2. k \in Orders /\ order[k].status # "ABSENT" /\ caller[c].result \in Result
      BY <2>1, MyKey, CallerTypes DEF Past, CallerType
    <2>3. CASE Finish(k, caller[c].result)
      BY <2>1, <2>2, <2>3, FinishMoves DEF MoneyMoves, MoneyInv, AnswersAreExact
    <2> QED
      BY <1>1, <1>5, <2>1, <2>3 DEF Book, book
  <1>6. CASE Block(c)
    <2>1. UNCHANGED venue /\ caller[c].pc \in Unposted /\ Finish(k, Refusal)
      BY <1>6 DEF Block, Unposted
    <2> QED
      BY <2>1, UnsentHasNoFill, FinishMoves DEF MoneyMoves
  <1>7. CASE Doubt(c)
    <2>1. UNCHANGED venue /\ k \in Orders /\ order[k].status # "ABSENT"
      BY <1>7, MyKey DEF Doubt, Past
    <2>2. CASE SaveStatus(k, "UNKNOWN")
      BY <2>1, <2>2, SavedTouches DEF MoneyMoves, Open
    <2> QED
      BY <1>1, <1>7, <2>1, <2>2 DEF Doubt, book
  <1>8. CASE (\E j \in Orders : Request(c, j)) \/ Refuse(c) \/ Guard(c) \/ Unready(c) \/ Die(c)
    BY <1>1, <1>8 DEF Request, Refuse, Guard, Unready, Die, book
  <1> QED
    BY <1>2, <1>3, <1>4, <1>5, <1>6, <1>7, <1>8 DEF Submit

LEMMA AuditorMovesMoney ==
    ASSUME HubInv, MoneyInv, NEW r \in Reconcilers, Reconcile(r) \/ Abandon(r)
    PROVE  MoneyMoves
PROOF
  <1>1. CASE UNCHANGED <<order, cash, held, venue>>
    BY <1>1 DEF MoneyMoves, Touched
  <1>2. CASE Record(r)
    <2> DEFINE k == auditor[r].key
               answer == auditor[r].result
    <2>1. UNCHANGED venue /\ auditor[r].pc = "asked"
      BY <1>2 DEF Record
    <2>2. k \in Orders /\ order[k].status # "ABSENT" /\ answer \in Result
      BY <2>1, CallerTypes DEF HubInv, AnswersAreTrue, AuditorType
    <2>3. answer.status \in Terminal => answer.filled = venue[k].filled
      BY <2>1 DEF MoneyInv, AnswersAreExact
    <2>4. CASE UNCHANGED book
      BY <1>1, <2>1, <2>4 DEF book
    <2>5. CASE Finish(k, answer)
      BY <2>1, <2>2, <2>3, <2>5, FinishMoves DEF MoneyMoves
    <2>6. CASE SaveStatus(k, "UNKNOWN")
      BY <2>1, <2>2, <2>6, SavedTouches DEF MoneyMoves, Open
    <2> QED
      BY <1>2, <2>4, <2>5, <2>6 DEF Record
  <1>3. CASE List(r) \/ Lookup(r) \/ Abandon(r)
    BY <1>1, <1>3 DEF List, Lookup, Find, FindPending, Miss, Ask, Abandon, book
  <1> QED
    BY <1>2, <1>3 DEF Reconcile

-----------------------------------------------------------------------------
(* The venue, and the answers under way.                                   *)

LEMMA PostKeepsVenue ==
    ASSUME HubInv, MoneyInv, NEW c \in Callers, Post(c)
    PROVE  VenueFills' /\ AnswersAreExact'
PROOF
  <1> DEFINE k == caller[c].key
  <1>1. /\ k \in Orders /\ venue[k].state = "none" /\ caller[c].pc = "sending"
        /\ UNCHANGED <<order, auditor>>
    BY UnsentIsRefused DEF Post, book, Unposted
  <1>2. /\ venue \in [Orders -> [state : {"none", "refused", "executed"}, filled : Nat, posts : Nat]]
        /\ caller \in [Callers -> CallerType]
    BY CallerTypes DEF HubInv, TypeOK
  <1>3. PICK r \in Result :
           /\ Answered(c, r)
           /\ \A j \in Orders \ {k} : venue'[j] = venue[j]
           /\ venue'[k].filled <= Qty[k]
           /\ venue'[k].state # "executed" => venue'[k].filled = 0
           /\ r.status \in Terminal => r.filled = venue'[k].filled
    <2>1. /\ NoResult \in Result /\ Refusal \in Result
          /\ NoResult.status \notin Terminal /\ Refusal.filled = 0
      BY DEF NoResult, Refusal, Result, Terminal
    <2>2. CASE Answered(c, NoResult) /\ UNCHANGED venue
      BY <1>1, <2>1, <2>2 DEF MoneyInv, VenueFills
    <2>3. CASE /\ venue' = [venue EXCEPT ![k] =
                    [state |-> "refused", filled |-> 0, posts |-> @.posts + 1]]
               /\ \E r \in {NoResult, Refusal} : Answered(c, r)
      <3>1. venue'[k].state = "refused" /\ venue'[k].filled = 0
        BY <1>1, <1>2, <2>3
      <3>2. \A j \in Orders \ {k} : venue'[j] = venue[j]
        BY <1>2, <2>3
      <3>3. 0 <= Qty[k]
        BY <1>1, HubTradingAssumption
      <3> QED
        BY <2>1, <2>3, <3>1, <3>2, <3>3
    <2>4. CASE \E n \in 0..Qty[k] :
                 /\ venue' = [venue EXCEPT ![k] =
                      [state |-> "executed", filled |-> n, posts |-> @.posts + 1]]
                 /\ \E r \in Answers(k, n) : Answered(c, r)
      <3>0. PICK n \in 0..Qty[k] :
                 /\ venue' = [venue EXCEPT ![k] =
                      [state |-> "executed", filled |-> n, posts |-> @.posts + 1]]
                 /\ \E r \in Answers(k, n) : Answered(c, r)
        BY <2>4
      <3>1. PICK r \in Answers(k, n) : Answered(c, r)
        BY <3>0
      <3>2. venue'[k].state = "executed" /\ venue'[k].filled = n
        BY <1>1, <1>2, <3>0
      <3>3. n \in Nat /\ n <= Qty[k]
        BY <1>1, HubTradingAssumption
      <3>4. r \in Result /\ (r.status \in Terminal => r.filled = n)
        BY <2>1, <3>1, <3>3 DEF Answers, Final, Result, Open, Terminal
      <3>5. \A j \in Orders \ {k} : venue'[j] = venue[j]
        BY <1>2, <3>0
      <3> QED
        BY <3>1, <3>2, <3>3, <3>4, <3>5
    <2> QED
      BY <1>1, <2>2, <2>3, <2>4 DEF Post
  <1>4. VenueFills'
    BY <1>3 DEF MoneyInv, VenueFills
  <1>5. \A d \in Callers \ {c} : caller'[d] = caller[d]
    BY <1>2, <1>3 DEF Answered
  <1>6. caller'[c].key = k /\ (caller'[c].pc = "answered" => caller'[c].result = r)
    <2> DEFINE pc == IF r = NoResult THEN "failed" ELSE "answered"
               m == [caller[c] EXCEPT !.pc = pc, !.result = r]
    <2>1. caller[c] \in CallerType
      BY <1>2
    <2>2. m.key = k /\ m.result = r
      BY <2>1 DEF CallerType
    <2>3. caller' = [caller EXCEPT ![c] = m]
      BY <1>3 DEF Answered
    <2> HIDE DEF m
    <2> QED
      BY <1>2, <2>2, <2>3
  <1>7. \A d \in Callers \ {c} : caller[d].pc = "answered" => caller[d].key \in Orders \ {k}
    BY <1>1 DEF HubInv, CallersOwnKeys, Past
  <1>8. \A q \in Reconcilers : auditor[q].pc = "asked" /\ auditor[q].result.status \in Terminal =>
           auditor[q].key \in Orders \ {k}
    BY <1>1 DEF HubInv, AnswersAreTrue, Terminal
  <1> HIDE DEF k
  <1>9. AnswersAreExact'
    <2>1. \A d \in Callers :
             caller'[d].pc = "answered" /\ caller'[d].result.status \in Terminal =>
                 caller'[d].result.filled = venue'[caller'[d].key].filled
      BY <1>3, <1>5, <1>6, <1>7 DEF MoneyInv, AnswersAreExact
    <2>2. \A q \in Reconcilers :
             auditor'[q].pc = "asked" /\ auditor'[q].result.status \in Terminal =>
                 auditor'[q].result.filled = venue'[auditor'[q].key].filled
      BY <1>1, <1>3, <1>8 DEF MoneyInv, AnswersAreExact
    <2> QED
      BY <2>1, <2>2 DEF AnswersAreExact
  <1> QED
    BY <1>4, <1>9

\* Any other step leaves the venue alone and brings no answer but a lookup's.
LEMMA SameVenue ==
    ASSUME HubInv, MoneyInv, UNCHANGED venue,
           \A c \in Callers : caller'[c].pc = "answered" => caller'[c] = caller[c],
           \A r \in Reconcilers : auditor'[r].pc = "asked" =>
               \/ auditor'[r] = auditor[r]
               \/ auditor'[r].result.status \in Terminal =>
                      auditor'[r].result.filled = venue[auditor'[r].key].filled
    PROVE  VenueFills' /\ AnswersAreExact'
  BY DEF MoneyInv, VenueFills, AnswersAreExact

LEMMA CallerKeepsVenue ==
    ASSUME HubInv, MoneyInv, NEW c \in Callers, Submit(c) \/ Die(c)
    PROVE  VenueFills' /\ AnswersAreExact'
PROOF
  <1>1. CASE Post(c)
    BY <1>1, PostKeepsVenue
  <1>2. CASE ~Post(c)
    <2>1. UNCHANGED <<venue, auditor>>
      BY <1>2 DEF Submit, Die, Request, Prepare, Refuse, Arm, Guard, Unready, Book, Block, Doubt
    <2>2. caller \in [Callers -> CallerType]
      BY CallerTypes
    <2>3. ASSUME NEW m, m.pc # "answered", caller' = [caller EXCEPT ![c] = m], NEW d \in Callers,
                 caller'[d].pc = "answered"
          PROVE  caller'[d] = caller[d]
      BY <2>2, <2>3
    <2>4. PICK m : caller' = [caller EXCEPT ![c] = m] /\ m.pc # "answered"
      <3>1. CASE caller' = [caller EXCEPT ![c] = IdleCaller]
        <4>1. IdleCaller.pc = "idle"
          BY DEF IdleCaller
        <4> QED
          BY <3>1, <4>1
      <3>2. CASE \E k \in Orders : Request(c, k)
        <4>1. PICK k \in Orders : Request(c, k)
          BY <3>2
        <4> DEFINE m == [IdleCaller EXCEPT !.pc = "quoted", !.key = k]
        <4>2. m.pc = "quoted" /\ caller' = [caller EXCEPT ![c] = m]
          BY <4>1 DEF Request, IdleCaller
        <4> HIDE DEF m
        <4> QED
          BY <4>2
      <3>3. CASE \E pc \in {"prepared", "armed", "sending", "blocked", "failed"} :
                   caller' = [caller EXCEPT ![c].pc = pc]
        <4>1. PICK pc \in {"prepared", "armed", "sending", "blocked", "failed"} :
                   caller' = [caller EXCEPT ![c].pc = pc]
          BY <3>3
        <4> DEFINE m == [caller[c] EXCEPT !.pc = pc]
        <4>2. m.pc = pc /\ caller' = [caller EXCEPT ![c] = m]
          BY <2>2, <4>1 DEF CallerType
        <4> HIDE DEF m
        <4> QED
          BY <4>2
      <3> QED
        BY <1>2, <3>1, <3>2, <3>3
        DEF Submit, Die, Prepare, Refuse, Arm, Guard, Unready, Book, Block, Doubt
    <2>5. \A d \in Callers : caller'[d].pc = "answered" => caller'[d] = caller[d]
      BY <2>3, <2>4
    <2> QED
      BY <2>1, <2>5, SameVenue
  <1> QED
    BY <1>1, <1>2

LEMMA AuditorKeepsVenue ==
    ASSUME HubInv, MoneyInv, NEW r \in Reconcilers, Reconcile(r) \/ Abandon(r)
    PROVE  VenueFills' /\ AnswersAreExact'
PROOF
  <1>1. UNCHANGED <<venue, caller>>
    BY DEF Reconcile, List, Lookup, Find, FindPending, Miss, Ask, Record, Abandon
  <1>2. auditor \in [Reconcilers -> AuditorType]
    BY CallerTypes
  <1>3. \A q \in Reconcilers \ {r} : auditor'[q] = auditor[q]
    BY <1>2 DEF Reconcile, List, Lookup, Find, FindPending, Miss, Ask, Record, Proceed, Abandon
  <1>4. auditor'[r].pc = "asked" =>
           (auditor'[r].result.status \in Terminal =>
               auditor'[r].result.filled = venue[auditor'[r].key].filled)
    <2>1. CASE Lookup(r)
      <3>1. PICK k \in Orders : Find(r, k) \/ FindPending(r, k) \/ Miss(r, k)
        BY <2>1 DEF Lookup
      <3>2. PICK result : /\ Ask(r, k, result)
                          /\ result.status \in Terminal => result.filled = venue[k].filled
        <4>1. CASE Find(r, k)
          <5>1. Final(k, venue[k].filled).filled = venue[k].filled
            BY DEF Final
          <5> QED
            BY <4>1, <5>1 DEF Find
        <4>2. CASE FindPending(r, k)
          <5> DEFINE pending == [status |-> "NEW", filled |-> 0]
          <5>1. pending.status \notin Terminal /\ Ask(r, k, pending)
            BY <4>2 DEF FindPending, Terminal
          <5> HIDE DEF pending
          <5> QED
            BY <5>1
        <4>3. CASE Miss(r, k)
          <5>1. NoResult.status \notin Terminal
            BY DEF NoResult, Terminal
          <5> QED
            BY <4>3, <5>1 DEF Miss
        <4> QED
          BY <3>1, <4>1, <4>2, <4>3
      <3> DEFINE m == [auditor[r] EXCEPT !.pc = "asked", !.key = k, !.result = result]
      <3>3. auditor' = [auditor EXCEPT ![r] = m]
        BY <3>2 DEF Ask
      <3>4. auditor[r] \in AuditorType
        BY <1>2
      <3>5. m.key = k /\ m.result = result
        BY <3>4 DEF AuditorType
      <3> HIDE DEF m
      <3> QED
        BY <1>2, <3>2, <3>3, <3>5
    <2>2. CASE List(r) \/ Abandon(r) \/ Record(r)
      <3>1. PICK m : auditor' = [auditor EXCEPT ![r] = m] /\ m.pc # "asked"
        <4>1. CASE auditor' = [auditor EXCEPT ![r] = IdleAuditor]
          <5>1. IdleAuditor.pc = "idle"
            BY DEF IdleAuditor
          <5> QED
            BY <4>1, <5>1
        <4>2. CASE List(r)
          <5> DEFINE m == [IdleAuditor EXCEPT !.pc = "listed", !.todo = Unresolved,
                              !.ids = {k \in Unresolved : order[k].known}]
          <5>1. auditor' = [auditor EXCEPT ![r] = m] /\ m.pc = "listed"
            BY <4>2 DEF List, IdleAuditor
          <5> HIDE DEF m
          <5> QED
            BY <5>1
        <4>3. CASE auditor' = [auditor EXCEPT ![r] =
                                  [auditor[r] EXCEPT !.pc = "listed", !.todo = Rest(r)]]
          <5> DEFINE m == [auditor[r] EXCEPT !.pc = "listed", !.todo = Rest(r)]
          <5>1. auditor[r] \in AuditorType
            BY <1>2
          <5>2. auditor' = [auditor EXCEPT ![r] = m] /\ m.pc = "listed"
            BY <4>3, <5>1 DEF AuditorType
          <5> HIDE DEF m
          <5> QED
            BY <5>2
        <4> QED
          BY <2>2, <4>1, <4>2, <4>3 DEF Abandon, Record, Proceed
      <3> QED
        BY <1>2, <3>1
    <2> QED
      BY <2>1, <2>2 DEF Reconcile
  <1> QED
    BY <1>1, <1>3, <1>4, SameVenue

LEMMA MoneyInvNext == ASSUME HubInv, MoneyInv, [Next]_vars PROVE MoneyInv'
PROOF
  <1>1. HubInv'
    BY HubInvNext
  <1>2. CASE \E c \in Callers : Submit(c) \/ Die(c)
    BY <1>2, CallerMovesMoney, CallerKeepsVenue, <1>1, TouchedKeepsMoney, AddedKeepsMoney,
       BookedKeepsMoney, VenueMovedKeepsMoney DEF MoneyMoves, MoneyInv
  <1>3. CASE \E r \in Reconcilers : Reconcile(r) \/ Abandon(r)
    BY <1>3, AuditorMovesMoney, AuditorKeepsVenue, <1>1, TouchedKeepsMoney, AddedKeepsMoney,
       BookedKeepsMoney, VenueMovedKeepsMoney DEF MoneyMoves, MoneyInv
  <1>4. CASE (\E m \in Modes : SetRiskMode(m)) \/ UNCHANGED vars
    <2>1. Touched /\ UNCHANGED <<venue, caller, auditor>>
      BY <1>4 DEF SetRiskMode, vars, book, Touched
    <2>2. VenueFills' /\ AnswersAreExact'
      BY <2>1, SameVenue
    <2> QED
      BY <1>1, <2>1, <2>2, TouchedKeepsMoney DEF MoneyInv
  <1> QED
    BY <1>2, <1>3, <1>4 DEF Next

LEMMA MoneyInvAlways == Spec => [](HubInv /\ MoneyInv)
PROOF
  <1>1. Init => HubInv /\ MoneyInv
    BY HubInvInit, MoneyInvInit
  <1>2. HubInv /\ MoneyInv /\ [Next]_vars => (HubInv /\ MoneyInv)'
    BY HubInvNext, MoneyInvNext
  <1> QED
    BY <1>1, <1>2, PTL DEF Spec

(***************************************************************************)
(* The books of each venue are the start plus every accounted order,       *)
(* booked once, with the fill and the fee the venue executed, for any      *)
(* number of orders, callers and reconcilers (_finish, reconcile).         *)
(***************************************************************************)
THEOREM BooksAddUp == Spec => []BooksMatchVenue
PROOF
  <1>1. MoneyInv => BooksMatchVenue
    BY DEF MoneyInv
  <1> QED
    BY <1>1, MoneyInvAlways, PTL

(***************************************************************************)
(* What the BUY orders of the day cost at the venue stays within the daily *)
(* limit, whether or not their fills have reached the books (_risk): an    *)
(* open row keeps the whole order reserved.                                *)
(***************************************************************************)
THEOREM DayStaysWithinLimit == Spec => []DayRiskWithinLimit
PROOF
  <1>1. HubInv /\ MoneyInv => DayRiskWithinLimit
    <2> SUFFICES ASSUME HubInv, MoneyInv PROVE DayRiskWithinLimit
      OBVIOUS
    <2> DEFINE R == [j \in Orders |-> order[j].reserved]
               S == {j \in Buys : order[j].status # "ABSENT"}
    <2>1. IsFiniteSet(Buys) /\ IsFiniteSet(S) /\ S \in SUBSET Buys /\ Buys \subseteq Orders
      BY RowSetsFinite, HubTradingAssumption
    <2>2. \A j \in Buys : Cost[j] \in Int
      BY <2>1, Amounts
    <2>3. \A j \in Buys \ S : Cost[j] = 0
      <3>1. ASSUME NEW j \in Buys \ S PROVE venue[j].filled = 0
        <4>1. j \in Orders /\ order[j].status = "ABSENT"
          BY <2>1
        <4>2. venue[j].state = "none"
          BY <4>1 DEF HubInv, RowsMatchVenue
        <4> QED
          BY <4>1, <4>2 DEF MoneyInv, VenueFills
      <3> QED
        BY <2>1, <3>1 DEF Cost, FeeOf
    <2>4. ASSUME NEW j \in S PROVE R[j] \in Int /\ Cost[j] \in Int /\ Cost[j] <= R[j]
      <3>1. j \in Orders /\ order[j].status # "ABSENT"
        BY <2>1
      <3>2. order[j].reserved = Cost[j] \/ order[j].reserved = Reserve(j)
        BY <3>1 DEF MoneyInv, RowsReserve
      <3>3. Cost[j] <= Reserve(j) /\ Cost[j] \in Nat /\ Reserve(j) \in Nat
        BY <3>1, Amounts, CostCovered DEF MoneyInv
      <3>4. R[j] = order[j].reserved
        BY <3>1
      <3> HIDE DEF R
      <3> QED
        BY <3>2, <3>3, <3>4
    <2>5. SumOf(R, S) <= MaxDaily
      BY DEF MoneyInv, DayRisk
    <2> HIDE DEF R, S
    <2>6. SumOf(Cost, Buys) = SumOf(Cost, S)
      BY <2>1, <2>2, <2>3, SumSupport
    <2>7. SumOf(Cost, S) <= SumOf(R, S)
      BY <2>1, <2>4, SumMonotone
    <2>8. SumOf(Cost, S) \in Int /\ SumOf(R, S) \in Int /\ MaxDaily \in Int
      BY <2>1, <2>4, SumInt, HubTradingAssumption
    <2>9. SumOf(Cost, Buys) <= MaxDaily
      BY <2>5, <2>6, <2>7, <2>8
    <2> QED
      BY <2>9 DEF DayRiskWithinLimit, Cost
  <1> QED
    BY <1>1, MoneyInvAlways, PTL
=============================================================================
