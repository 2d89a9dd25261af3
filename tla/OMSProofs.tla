----------------------------- MODULE OMSProofs -----------------------------
(***************************************************************************)
(* What module OMS keeps for every set of orders and processes, proved     *)
(* with TLAPS.                                                             *)
(*                                                                         *)
(* The argument for sending.  AtMostOneSend is not inductive: that no      *)
(* process is about to send an order again rests on the row, which a       *)
(* sender never finds in RESERVED again, and that the row stays where it   *)
(* is while its sender is stalled rests on the venue, which cannot report  *)
(* an order that was never sent.  SenderInv relates the three: the calls   *)
(* of the processes, the rows, and what the venue and every view of it     *)
(* know.                                                                   *)
(*                                                                         *)
(* The argument for modes, closed orders and heads comes second.  That     *)
(* stops latch needs no invariant: every writer of the mode keeps it,      *)
(* halts, or writes the weaker stop only over a mode that is not HALTED.   *)
(* The other results need the types of the rows, and, where a late view or *)
(* a late error writes a row, that the order was sent.                     *)
(*                                                                         *)
(* The argument for money.  OutsideInv says how far a view or an answer    *)
(* that has become old can be from the venue: it only falls behind, and an *)
(* end is final.  MoneyInv ties the rows to table fills and the table to   *)
(* the venue.  Every step moves the money of no order or of one            *)
(* (MoneyMoves): takes a reservation, frees it, or books one trade; what   *)
(* that does to the sums is module SumProofs.  A sent order is closed only *)
(* on an end the venue reported, or on its last trade.                     *)
(*                                                                         *)
(* The refinement comes last.  Whether an order is about to be sent moves  *)
(* with the calls (StaysAt, Claims, LetsGo), its row with the money, and   *)
(* the two never move different orders in one step.                        *)
(***************************************************************************)
EXTENDS OMSRefinement, SumProofs

Call == [pc : PC, order : Orders \union {None}, answer : Answers, todo : SUBSET Orders]
View == [of : [Orders -> VenueOrder], old : SUBSET Orders, gone : SUBSET Orders,
         after : SUBSET Procs]

\* Types of what sending is about, and every call that works on an order has one.
SenderTypes ==
    /\ status \in [Orders -> OrderStatus]
    /\ sends \in [Orders -> Nat]
    /\ unsent \subseteq Orders
    /\ wire \subseteq Orders
    /\ venue \in [Orders -> VenueOrder]
    /\ at \in [Procs -> Call]
    /\ view \in [Procs -> View]
    /\ \A p \in Procs : at[p].pc \notin {"idle", "ingest"} => at[p].order \in Orders

\* Process p has claimed order i and not yet recorded what became of it.
Acting == {"recheck", "send", "await", "settle"}
Acts(p, i) == at[p].pc \in Acting /\ at[p].order = i

\* A claimed order never looks claimable again.
ClaimedRow ==
    \A p \in Procs, i \in Orders : Acts(p, i) => status[i] \notin {"NEW", "RESERVED"}

\* Two processes never act on the same order.
OneActor ==
    \A p, q \in Procs, i \in Orders : Acts(p, i) /\ Acts(q, i) => p = q

\* Until the order leaves its row blocks every other submission.
BlockingRow ==
    \A p \in Procs, i \in Orders :
        Acts(p, i) /\ at[p].pc \in {"recheck", "send"} =>
            sends[i] = 0 /\ status[i] \in {"SUBMITTING", "UNKNOWN"}

\* An order that was not claimed yet was not sent.
UnclaimedUnsent ==
    \A i \in Orders : status[i] \in {"NEW", "RESERVED"} => sends[i] = 0

\* Nobody outside knows an order that was not sent.
OutsideKnows ==
    \A i \in Orders : sends[i] = 0 =>
        /\ venue[i] = Unknown
        /\ i \notin wire
        /\ \A p \in Procs : view[p].of[i] = Unknown

\* A process only works through orders it saw at the venue.
TodoKnown ==
    \A p \in Procs, i \in Orders : i \in at[p].todo => Known(view[p].of[i])

\* What the log calls never sent is closed.
UnsentClosed == \A i \in unsent : status[i] \in Terminal

\* The inductive invariant.
SenderInv ==
    /\ SenderTypes
    /\ ClaimedRow
    /\ OneActor
    /\ BlockingRow
    /\ UnclaimedUnsent
    /\ OutsideKnows
    /\ TodoKnown
    /\ UnsentClosed
    /\ NeverSentStays
    /\ AtMostOneSend
    /\ OneSenderPerAccount

-----------------------------------------------------------------------------
(* Lemmas about the views.                                                 *)

\* The empty view, and a view that shows the whole venue.
LEMMA FreshView ==
    ASSUME venue \in [Orders -> VenueOrder]
    PROVE  /\ NoView \in View
           /\ \A i \in Orders : NoView.of[i] = Unknown
           /\ [NoView EXCEPT !.of = venue] \in View
           /\ [NoView EXCEPT !.of = venue].of = venue
PROOF
  <1>1. Unknown \in VenueOrder
    BY DEF Unknown, VenueOrder, VenueState
  <1>2. NoView \in View /\ \A i \in Orders : NoView.of[i] = Unknown
    BY <1>1 DEF NoView, View
  <1> QED
    BY <1>2 DEF View

\* A transaction that touches an order leaves what was read of it alone.
LEMMA TouchKeepsViews ==
    ASSUME view \in [Procs -> View], NEW i \in Orders, Touch(i)
    PROVE  /\ view' \in [Procs -> View]
           /\ \A q \in Procs : view'[q].of = view[q].of
PROOF
  <1>1. ASSUME NEW q \in Procs
        PROVE  view'[q] \in View /\ view'[q].of = view[q].of
    <2>1. view'[q] = IF Reading(q) THEN [view[q] EXCEPT !.old = @ \union {i}] ELSE view[q]
      BY DEF Touch
    <2>2. view[q] \in View
      OBVIOUS
    <2>3. /\ [view[q] EXCEPT !.old = @ \union {i}] \in View
          /\ [view[q] EXCEPT !.old = @ \union {i}].of = view[q].of
      BY <2>2 DEF View
    <2> QED
      BY <2>1, <2>2, <2>3
  <1>2. view' = [q \in Procs |-> view'[q]]
    BY DEF Touch
  <1> QED
    BY <1>1, <1>2

\* Reading gives process p the venue's record and nobody else anything.
LEMMA LookShowsVenue ==
    ASSUME view \in [Procs -> View], venue \in [Orders -> VenueOrder],
           NEW p \in Procs, Look(p)
    PROVE  /\ view' \in [Procs -> View]
           /\ view'[p].of = venue
           /\ \A q \in Procs : q # p => view'[q].of = view[q].of
PROOF
  <1>1. ASSUME NEW q \in Procs
        PROVE  view'[q] \in View /\ view'[q].of = IF q = p THEN venue ELSE view[q].of
    <2>1. view'[q] = IF q = p THEN [NoView EXCEPT !.of = venue]
                     ELSE IF Reading(q) THEN [view[q] EXCEPT !.after = @ \union {p}]
                     ELSE view[q]
      BY DEF Look
    <2>2. view[q] \in View
      OBVIOUS
    <2>3. /\ [view[q] EXCEPT !.after = @ \union {p}] \in View
          /\ [view[q] EXCEPT !.after = @ \union {p}].of = view[q].of
      BY <2>2 DEF View
    <2> QED
      BY <2>1, <2>2, <2>3, FreshView
  <1>2. view' = [q \in Procs |-> view'[q]]
    BY DEF Look
  <1> QED
    BY <1>1, <1>2

\* Forgetting leaves process p with the empty view.
LEMMA ForgetClearsView ==
    ASSUME view \in [Procs -> View], venue \in [Orders -> VenueOrder],
           NEW p \in Procs, Forget(p)
    PROVE  /\ view' \in [Procs -> View]
           /\ view'[p] = NoView
           /\ \A q \in Procs : q # p => view'[q].of = view[q].of
PROOF
  <1>1. ASSUME NEW q \in Procs
        PROVE  /\ view'[q] \in View
               /\ q = p => view'[q] = NoView
               /\ q # p => view'[q].of = view[q].of
    <2>1. view'[q] = IF q = p THEN NoView ELSE [view[q] EXCEPT !.after = @ \ {p}]
      BY DEF Forget
    <2>2. view[q] \in View
      OBVIOUS
    <2>3. /\ [view[q] EXCEPT !.after = @ \ {p}] \in View
          /\ [view[q] EXCEPT !.after = @ \ {p}].of = view[q].of
      BY <2>2 DEF View
    <2> QED
      BY <2>1, <2>2, <2>3, FreshView
  <1>2. view' = [q \in Procs |-> view'[q]]
    BY DEF Forget
  <1> QED
    BY <1>1, <1>2

-----------------------------------------------------------------------------
(* Frames.                                                                 *)

(***************************************************************************)
(* A step of process p that neither claims nor sends an order and shows it *)
(* nothing the venue does not know preserves SenderInv.                    *)
(***************************************************************************)
LEMMA CallStep ==
    ASSUME SenderInv, SenderTypes', TodoKnown',
           UNCHANGED <<sends, venue, wire>>,
           NEW p \in Procs,
           \A q \in Procs : q # p => at'[q] = at[q],
           at'[p].pc \in Acting =>
              /\ at[p].pc \in Acting /\ at'[p].order = at[p].order
              /\ at'[p].pc \in {"recheck", "send"} => at[p].pc \in {"recheck", "send"},
           \A i \in Orders : status'[i] \in {"NEW", "RESERVED"} => status[i] \in {"NEW", "RESERVED"},
           \A q \in Procs, i \in Orders :
              Acts(q, i) /\ at[q].pc \in {"recheck", "send"} /\ status'[i] # status[i] =>
                 (q = p /\ at'[p].pc \notin Acting) \/ status'[i] \in {"SUBMITTING", "UNKNOWN"},
           \A i \in unsent' :
              /\ status'[i] \in Terminal
              /\ sends[i] = 0
              /\ \A q \in Procs : at'[q].pc \in {"send", "await", "settle"} => at'[q].order # i,
           \A q \in Procs, i \in Orders :
              view'[q].of[i] \in {view[q].of[i], venue[i], Unknown}
    PROVE  SenderInv'
PROOF
  <1> USE DEF SenderInv, Acts
  <1>1. \A q \in Procs, i \in Orders : Acts(q, i)' => Acts(q, i)
    BY DEF SenderTypes, Call
  <1>2. ClaimedRow'
    BY <1>1 DEF ClaimedRow
  <1>3. OneActor'
    BY <1>1 DEF OneActor
  <1>4. BlockingRow'
    BY <1>1 DEF BlockingRow, Acting
  <1>5. UnclaimedUnsent'
    BY DEF UnclaimedUnsent
  <1>6. OutsideKnows'
    BY DEF OutsideKnows
  <1>7. UnsentClosed'
    BY DEF UnsentClosed, SenderTypes
  <1>8. NeverSentStays'
    BY DEF NeverSentStays, SenderTypes
  <1>9. AtMostOneSend'
    BY DEF AtMostOneSend
  <1>10. OneSenderPerAccount'
    BY <1>1 DEF OneSenderPerAccount, Acting
  <1> QED
    BY <1>2, <1>3, <1>4, <1>5, <1>6, <1>7, <1>8, <1>9, <1>10

\* A process turns to step pc of a call for order i.
LEMMA GoCall ==
    ASSUME at \in [Procs -> Call], NEW p \in Procs, NEW pc \in PC,
           NEW i \in Orders, NEW a \in Answers, Go(p, pc, i, a)
    PROVE  /\ at' \in [Procs -> Call]
           /\ at'[p] = [pc |-> pc, order |-> i, answer |-> a, todo |-> {}]
           /\ \A q \in Procs : q # p => at'[q] = at[q]
  BY DEF Go, Call

\* A process ends its call.
LEMMA FinishCall ==
    ASSUME at \in [Procs -> Call], NEW p \in Procs, Finish(p)
    PROVE  /\ at' \in [Procs -> Call]
           /\ at'[p] = Idle
           /\ \A q \in Procs : q # p => at'[q] = at[q]
PROOF
  <1>1. Idle \in Call
    BY DEF Idle, Call, PC, Answers
  <1> QED
    BY <1>1 DEF Finish

(***************************************************************************)
(* A step of process p that writes no row: it goes on with a call, starts  *)
(* one that is no submission, or ends one.                                 *)
(***************************************************************************)
LEMMA QuietStep ==
    ASSUME SenderInv, NEW p \in Procs,
           UNCHANGED <<status, unsent, sends, venue, wire, view>>,
           \/ Finish(p)
           \/ \E i \in Orders, pc \in PC \ {"idle", "ingest", "recheck", "send"}, a \in Answers :
                 /\ Go(p, pc, i, a)
                 /\ pc \in Acting => Acts(p, i) /\ at[p].pc \in {"await", "settle"}
    PROVE  SenderInv'
PROOF
  <1> USE DEF SenderInv, SenderTypes
  <1> DEFINE Turned ==
        /\ at' \in [Procs -> Call]
        /\ at'[p].todo = {}
        /\ at'[p].pc \notin {"idle", "ingest"} => at'[p].order \in Orders
        /\ at'[p].pc \in Acting =>
              /\ at[p].pc \in {"await", "settle"} /\ at'[p].order = at[p].order
              /\ at'[p].pc \notin {"recheck", "send"}
        /\ \A q \in Procs : q # p => at'[q] = at[q]
  <1>1. Turned
    <2>1. CASE Finish(p)
      BY <2>1, FinishCall DEF Idle, Acting
    <2>2. CASE \E i \in Orders, pc \in PC \ {"idle", "ingest", "recheck", "send"}, a \in Answers :
                 /\ Go(p, pc, i, a)
                 /\ pc \in Acting => Acts(p, i) /\ at[p].pc \in {"await", "settle"}
      <3>1. PICK i \in Orders, pc \in PC \ {"idle", "ingest", "recheck", "send"}, a \in Answers :
                 /\ Go(p, pc, i, a)
                 /\ pc \in Acting => Acts(p, i) /\ at[p].pc \in {"await", "settle"}
        BY <2>2
      <3>2. /\ at' \in [Procs -> Call]
            /\ at'[p] = [pc |-> pc, order |-> i, answer |-> a, todo |-> {}]
            /\ \A q \in Procs : q # p => at'[q] = at[q]
        BY <3>1, GoCall
      <3> QED
        BY <3>1, <3>2 DEF Acts, Acting
    <2> QED
      BY <2>1, <2>2
  <1>2. SenderTypes'
    BY <1>1
  <1>3. TodoKnown'
    BY <1>1 DEF TodoKnown
  <1>4. \A i \in unsent :
           \A q \in Procs : at'[q].pc \in {"send", "await", "settle"} => at'[q].order # i
    BY <1>1 DEF NeverSentStays, Acting
  <1> QED
    BY <1>1, <1>2, <1>3, <1>4, CallStep DEF NeverSentStays, UnsentClosed, Acting

\* SenderInv is about the rows, the calls and what is known outside.
LEMMA ElsewhereStep ==
    ASSUME SenderInv, UNCHANGED <<status, unsent, sends, venue, wire, view, at>>
    PROVE  SenderInv'
  BY DEF SenderInv, SenderTypes, ClaimedRow, OneActor, BlockingRow, UnclaimedUnsent,
         OutsideKnows, TodoKnown, UnsentClosed, NeverSentStays, AtMostOneSend,
         OneSenderPerAccount, Acts

-----------------------------------------------------------------------------
(* reserve and submit.                                                     *)

\* A risk check writes no order; the call goes on or ends.
LEMMA CheckedStep ==
    ASSUME SenderInv, NEW p \in Procs, NEW i \in Orders, NEW v, NEW old,
           NEW pc \in {"reserve", "claim"}, Checked(p, i, v, old, pc)
    PROVE  SenderInv'
PROOF
  <1>1. UNCHANGED <<status, unsent, sends, venue, wire, view>>
    BY DEF Checked, orderRows, external
  <1>2. CASE UNCHANGED at
    BY <1>1, <1>2, ElsewhereStep
  <1>3. CASE Go(p, pc, i, "none")
    <2>1. /\ pc \in PC \ {"idle", "ingest", "recheck", "send"}
          /\ "none" \in Answers
          /\ pc \notin Acting
      BY DEF PC, Answers, Acting
    <2> QED
      BY <1>1, <1>3, <2>1, QuietStep
  <1> QED
    BY <1>2, <1>3 DEF Checked

\* The steps of reserve.
LEMMA ReserveSteps ==
    ASSUME SenderInv, NEW p \in Procs, NEW v, NEW old,
           \/ Reserve(p, v, old) \/ ReserveOverBudget(p, v, old)
           \/ ReserveRefused(p) \/ StopNewRisk(p)
    PROVE  SenderInv'
PROOF
  <1> DEFINE i == at[p].order
  <1>1. CASE Reserve(p, v, old)
    <2>1. /\ at[p].pc = "reserve" /\ i \in Orders /\ status[i] = "NEW"
          /\ status' = [status EXCEPT ![i] = "RESERVED"]
          /\ UNCHANGED <<unsent, sends, venue, wire, view>>
          /\ Finish(p)
      BY <1>1 DEF Reserve, ReserveRow, At, SenderInv, SenderTypes, external
    <2>2. /\ at' \in [Procs -> Call] /\ at'[p] = Idle
          /\ \A q \in Procs : q # p => at'[q] = at[q]
      BY <2>1, FinishCall DEF SenderInv, SenderTypes
    <2>3. SenderTypes'
      BY <2>1, <2>2 DEF SenderInv, SenderTypes, Idle, OrderStatus
    <2>4. TodoKnown'
      BY <2>1, <2>2 DEF SenderInv, TodoKnown, Idle
    <2>5. i \notin unsent /\ \A q \in Procs : ~Acts(q, i)
      BY <2>1 DEF SenderInv, UnsentClosed, ClaimedRow, Terminal
    <2> QED
      BY <2>1, <2>2, <2>3, <2>4, <2>5, CallStep
      DEF SenderInv, SenderTypes, Idle, Acting, UnsentClosed, NeverSentStays
  <1>2. CASE ReserveOverBudget(p, v, old)
    <2>1. /\ Go(p, "stop", i, "none") /\ i \in Orders
          /\ UNCHANGED <<status, unsent, sends, venue, wire, view>>
      BY <1>2 DEF ReserveOverBudget, At, SenderInv, SenderTypes, account, orderRows, external
    <2>2. "stop" \in PC /\ "none" \in Answers /\ "stop" \notin Acting
      BY DEF PC, Answers, Acting
    <2> QED
      BY <2>1, <2>2, QuietStep
  <1>3. CASE ReserveRefused(p) \/ StopNewRisk(p)
    BY <1>3, QuietStep DEF ReserveRefused, StopNewRisk, account, orderRows, external
  <1> QED
    BY <1>1, <1>2, <1>3

\* submit starts with a risk check, or goes to _submit without one.
LEMMA CheckSubmitStep ==
    ASSUME SenderInv, NEW p \in Procs, NEW i \in Orders, NEW v, NEW old,
           CheckSubmit(p, i, v, old)
    PROVE  SenderInv'
PROOF
  <1>1. CASE Checked(p, i, v, old, "claim")
    BY <1>1, CheckedStep
  <1>2. CASE Go(p, "claim", i, "none") /\ UNCHANGED <<account, lease, view, external>>
    <2>1. /\ "claim" \in PC \ {"idle", "ingest", "recheck", "send"}
          /\ "none" \in Answers
          /\ "claim" \notin Acting
      BY DEF PC, Answers, Acting
    <2> QED
      BY <1>2, <2>1, QuietStep DEF account, orderRows, external
  <1> QED
    BY <1>1, <1>2 DEF CheckSubmit

\* The claim makes p the only process that acts on the order, and its row
\* uncertain, which nobody else of the account passes.
LEMMA ClaimedStep ==
    ASSUME SenderInv, NEW p \in Procs, NEW i \in Orders,
           at[p].pc = "claim", at[p].order = i, status[i] = "RESERVED", OthersResolved(i),
           status' = [status EXCEPT ![i] = "SUBMITTING"],
           Go(p, "recheck", i, "none"), Touch(i),
           UNCHANGED <<unsent, sends, venue, wire>>
    PROVE  SenderInv'
PROOF
  <1> USE DEF SenderInv
  <1>1. /\ at' \in [Procs -> Call]
        /\ at'[p] = [pc |-> "recheck", order |-> i, answer |-> "none", todo |-> {}]
        /\ \A q \in Procs : q # p => at'[q] = at[q]
    BY GoCall DEF SenderTypes, PC, Answers
  <1>2. view' \in [Procs -> View] /\ \A q \in Procs : view'[q].of = view[q].of
    BY TouchKeepsViews DEF SenderTypes
  <1>3. /\ sends[i] = 0 /\ i \notin unsent
        /\ \A q \in Procs : ~Acts(q, i)
    BY DEF UnclaimedUnsent, UnsentClosed, ClaimedRow, Terminal
  <1>4. \A q \in Procs : at[q].pc \notin {"recheck", "send"}
    <2> SUFFICES ASSUME NEW q \in Procs, at[q].pc \in {"recheck", "send"}
                 PROVE  FALSE
      OBVIOUS
    <2>1. at[q].order \in Orders /\ Acts(q, at[q].order)
      BY DEF SenderTypes, Acts, Acting
    <2>2. at[q].order # i
      BY <1>3, <2>1
    <2>3. status[at[q].order] \in {"SUBMITTING", "UNKNOWN"}
      BY <2>1 DEF BlockingRow
    <2> QED
      BY <2>1, <2>2, <2>3 DEF OthersResolved, Uncertain
  <1>5. SenderTypes'
    BY <1>1, <1>2 DEF SenderTypes, OrderStatus, Uncertain
  <1>6. \A q \in Procs, j \in Orders :
           Acts(q, j)' <=> (q # p /\ Acts(q, j)) \/ (q = p /\ j = i)
    BY <1>1 DEF Acts, Acting
  <1>7. ClaimedRow' /\ OneActor'
    BY <1>3, <1>5, <1>6 DEF SenderTypes, ClaimedRow, OneActor
  <1>8. BlockingRow' /\ UnclaimedUnsent'
    BY <1>1, <1>3, <1>4, <1>6 DEF SenderTypes, BlockingRow, UnclaimedUnsent
  <1>9. OutsideKnows' /\ TodoKnown'
    BY <1>1, <1>2 DEF OutsideKnows, TodoKnown
  <1>10. UnsentClosed' /\ NeverSentStays' /\ AtMostOneSend'
    BY <1>1, <1>3 DEF SenderTypes, UnsentClosed, NeverSentStays, AtMostOneSend
  <1>11. OneSenderPerAccount'
    BY <1>1, <1>4 DEF OneSenderPerAccount
  <1> QED
    BY <1>5, <1>7, <1>8, <1>9, <1>10, <1>11

(***************************************************************************)
(* A transaction that ends an order which was not sent (expired, shadow,   *)
(* aborted or cancelled) and, unless it was called by cancel, the call.    *)
(***************************************************************************)
LEMMA EndUnsentStep ==
    ASSUME SenderInv, NEW p \in Procs, NEW i \in Orders, NEW s \in Terminal,
           EndUnsent(i, s), Touch(i), UNCHANGED <<sends, venue, wire>>,
           sends[i] = 0,
           \/ UNCHANGED at
           \/ Finish(p),
           \A q \in Procs : Acts(q, i) => q = p /\ Finish(p)
    PROVE  SenderInv'
PROOF
  <1> USE DEF SenderInv
  <1>1. /\ at' \in [Procs -> Call] /\ at'[p] \in {at[p], Idle}
        /\ \A q \in Procs : q # p => at'[q] = at[q]
    BY FinishCall DEF SenderTypes
  <1>2. view' \in [Procs -> View] /\ \A q \in Procs : view'[q].of = view[q].of
    BY TouchKeepsViews DEF SenderTypes
  <1>3. /\ status' = [status EXCEPT ![i] = s]
        /\ unsent' = unsent \union {i}
    BY DEF EndUnsent, Release
  <1>4. SenderTypes'
    BY <1>1, <1>2, <1>3 DEF SenderTypes, Idle, OrderStatus
  <1>5. TodoKnown'
    BY <1>1, <1>2 DEF TodoKnown, Idle
  <1>6. \A q \in Procs : at'[q].pc \in Acting => at'[q].order # i /\ at'[q] = at[q]
    BY <1>1, FinishCall DEF SenderTypes, Acts, Idle, Acting
  <1>7. \A j \in unsent' :
           /\ status'[j] \in Terminal
           /\ sends[j] = 0
           /\ \A q \in Procs : at'[q].pc \in {"send", "await", "settle"} => at'[q].order # j
    BY <1>3, <1>6 DEF SenderTypes, UnsentClosed, NeverSentStays, Acting
  <1>8. \A j \in Orders : status'[j] \in {"NEW", "RESERVED"} => status[j] \in {"NEW", "RESERVED"}
    BY <1>3 DEF SenderTypes, Terminal
  <1>9. \A q \in Procs, j \in Orders :
           Acts(q, j) /\ status'[j] # status[j] => q = p /\ at'[p].pc \notin Acting
    BY <1>3, FinishCall DEF SenderTypes, Idle, Acting
  <1> QED
    BY <1>1, <1>2, <1>4, <1>5, <1>6, <1>7, <1>8, <1>9, CallStep DEF Idle

\* The transaction that claims the order, or ends it.
LEMMA ClaimSteps ==
    ASSUME SenderInv, NEW p \in Procs, NEW v, NEW old,
           \/ ClaimOrder(p, v, old) \/ ClaimExpired(p)
           \/ ClaimOverBudget(p, v, old) \/ ClaimRefused(p, v)
    PROVE  SenderInv'
PROOF
  <1> DEFINE i == at[p].order
  <1>1. at[p].pc = "claim" /\ i \in Orders
    BY DEF ClaimOrder, ClaimExpired, ClaimOverBudget, ClaimRefused, At, SenderInv, SenderTypes
  <1>2. status[i] = "RESERVED" => sends[i] = 0 /\ \A q \in Procs : ~Acts(q, i)
    BY <1>1 DEF SenderInv, UnclaimedUnsent, ClaimedRow
  <1>3. CASE ClaimOrder(p, v, old)
    <2>1. status[i] = "RESERVED" /\ OthersResolved(i) /\ Touch(i)
          /\ UNCHANGED <<sends, venue, wire>>
      BY <1>3 DEF ClaimOrder, MaySubmit, Claimable, external
    <2>2. CASE EndUnsent(i, "CANCELED") /\ Finish(p)
      BY <1>1, <1>2, <2>1, <2>2, EndUnsentStep DEF Terminal
    <2>3. CASE /\ status' = [status EXCEPT ![i] = "SUBMITTING"]
               /\ Go(p, "recheck", i, "none")
               /\ UNCHANGED unsent
      BY <1>1, <2>1, <2>3, ClaimedStep
    <2> QED
      BY <1>3, <2>2, <2>3 DEF ClaimOrder
  <1>4. CASE ClaimExpired(p)
    <2>1. /\ status[i] = "RESERVED" /\ EndUnsent(i, "EXPIRED") /\ Finish(p) /\ Touch(i)
          /\ UNCHANGED <<sends, venue, wire>>
      BY <1>4 DEF ClaimExpired, MaySubmit, Claimable, external
    <2> QED
      BY <1>1, <1>2, <2>1, EndUnsentStep DEF Terminal
  <1>5. CASE ClaimOverBudget(p, v, old)
    <2>1. "stop" \in PC /\ "none" \in Answers /\ "stop" \notin Acting
      BY DEF PC, Answers, Acting
    <2> QED
      BY <1>1, <1>5, <2>1, QuietStep DEF ClaimOverBudget, account, orderRows, external
  <1>6. CASE ClaimRefused(p, v)
    BY <1>6, QuietStep DEF ClaimRefused, account, orderRows, external
  <1> QED
    BY <1>3, <1>4, <1>5, <1>6

\* The last check before the side effect.
LEMMA RecheckStep ==
    ASSUME SenderInv, NEW p \in Procs, NEW v, NEW old, Recheck(p, v, old)
    PROVE  SenderInv'
PROOF
  <1> DEFINE i == at[p].order
  <1>1. at[p].pc = "recheck" /\ i \in Orders /\ Acts(p, i) /\ sends[i] = 0
    BY DEF Recheck, At, SenderInv, SenderTypes, BlockingRow, Acts, Acting
  <1>2. UNCHANGED <<sends, venue, wire>>
    BY DEF Recheck, external
  <1>3. CASE Go(p, "doubt", i, "SUBMITTING") /\ UNCHANGED <<mode, orderRows, wallet, view>>
    <2>1. "doubt" \in PC /\ "SUBMITTING" \in Answers /\ "doubt" \notin Acting
      BY DEF PC, Answers, Acting
    <2> QED
      BY <1>1, <1>2, <1>3, <2>1, QuietStep DEF orderRows
  <1>4. CASE Finish(p) /\ UNCHANGED <<mode, orderRows, wallet, view>>
    BY <1>2, <1>4, QuietStep DEF orderRows
  <1>5. CASE status[i] = "SUBMITTING" /\ Go(p, "send", i, "none")
             /\ UNCHANGED <<mode, orderRows, wallet, view>>
    <2>1. /\ at' \in [Procs -> Call]
          /\ at'[p] = [pc |-> "send", order |-> i, answer |-> "none", todo |-> {}]
          /\ \A q \in Procs : q # p => at'[q] = at[q]
      BY <1>1, <1>5, GoCall DEF SenderInv, SenderTypes, PC, Answers
    <2>2. SenderTypes' /\ TodoKnown'
      BY <1>1, <1>2, <1>5, <2>1 DEF SenderInv, SenderTypes, TodoKnown, orderRows
    <2>3. \A j \in unsent : j # i
      BY <1>5 DEF SenderInv, UnsentClosed, Terminal
    <2> QED
      BY <1>1, <1>2, <1>5, <2>1, <2>2, <2>3, CallStep
      DEF SenderInv, UnsentClosed, NeverSentStays, Acting, orderRows
  <1>6. CASE EndUnsent(i, "CANCELED") /\ Finish(p) /\ Touch(i)
    <2>1. \A q \in Procs : Acts(q, i) => q = p
      BY <1>1 DEF SenderInv, OneActor
    <2> QED
      BY <1>1, <1>2, <1>6, <2>1, EndUnsentStep DEF Terminal
  <1> QED
    BY <1>3, <1>4, <1>5, <1>6 DEF Recheck

\* The side effect: the only step that gives an order to the adapter.
LEMMA SendStep ==
    ASSUME SenderInv, NEW p \in Procs, SendOrder(p)
    PROVE  SenderInv'
PROOF
  <1> DEFINE i == at[p].order
  <1> USE DEF SenderInv
  <1>1. at[p].pc = "send" /\ i \in Orders /\ Acts(p, i)
    BY DEF SendOrder, At, SenderTypes, Acts, Acting
  <1>2. sends[i] = 0 /\ status[i] \in {"SUBMITTING", "UNKNOWN"} /\ i \notin unsent
    BY <1>1 DEF BlockingRow, UnsentClosed, Terminal
  <1>3. /\ at' \in [Procs -> Call]
        /\ at'[p] = [pc |-> "await", order |-> i, answer |-> "none", todo |-> {}]
        /\ \A q \in Procs : q # p => at'[q] = at[q]
    BY <1>1, GoCall DEF SendOrder, SenderTypes, PC, Answers
  <1>4. /\ wire' = wire \union {i} /\ sends' = [sends EXCEPT ![i] = 1]
        /\ UNCHANGED <<status, unsent, view, venue>>
    BY <1>1, <1>2 DEF SendOrder, SenderTypes, account, orderRows
  <1>5. SenderTypes'
    BY <1>1, <1>3, <1>4 DEF SenderTypes
  <1>6. \A q \in Procs, j \in Orders : Acts(q, j)' <=> Acts(q, j)
    BY <1>1, <1>3 DEF Acts, Acting
  <1>7. ClaimedRow' /\ OneActor'
    BY <1>4, <1>6 DEF ClaimedRow, OneActor
  <1>8. \A q \in Procs : at'[q].pc \in {"recheck", "send"} =>
           q # p /\ at'[q] = at[q] /\ ~Acts(q, i)
    BY <1>1, <1>3 DEF OneActor
  <1>9. BlockingRow' /\ OneSenderPerAccount'
    BY <1>4, <1>6, <1>8 DEF BlockingRow, OneSenderPerAccount, SenderTypes
  <1>10. UnclaimedUnsent' /\ OutsideKnows'
    BY <1>2, <1>4 DEF UnclaimedUnsent, OutsideKnows, SenderTypes
  <1>11. TodoKnown' /\ UnsentClosed'
    BY <1>3, <1>4 DEF TodoKnown, UnsentClosed
  <1>12. NeverSentStays' /\ AtMostOneSend'
    BY <1>2, <1>3, <1>4 DEF NeverSentStays, AtMostOneSend, SenderTypes
  <1> QED
    BY <1>5, <1>7, <1>9, <1>10, <1>11, <1>12

\* A transaction that moves the row of an order that left, and ends the call.
LEMMA RowStep ==
    ASSUME SenderInv, NEW p \in Procs, NEW i \in Orders,
           NEW s \in OrderStatus \ {"NEW", "RESERVED"},
           status' = [status EXCEPT ![i] = s],
           UNCHANGED <<unsent, sends, venue, wire>>,
           Finish(p), Touch(i) \/ UNCHANGED view,
           i \notin unsent \/ s \in Terminal,
           \A q \in Procs : Acts(q, i) /\ at[q].pc \in {"recheck", "send"} =>
               q = p \/ s \in {"SUBMITTING", "UNKNOWN"}
    PROVE  SenderInv'
PROOF
  <1> USE DEF SenderInv
  <1>1. /\ at' \in [Procs -> Call] /\ at'[p] = Idle
        /\ \A q \in Procs : q # p => at'[q] = at[q]
    BY FinishCall DEF SenderTypes
  <1>2. view' \in [Procs -> View] /\ \A q \in Procs : view'[q].of = view[q].of
    BY TouchKeepsViews DEF SenderTypes
  <1>3. SenderTypes' /\ TodoKnown'
    BY <1>1, <1>2 DEF SenderTypes, TodoKnown, Idle
  <1>4. \A j \in unsent :
           \A q \in Procs : at'[q].pc \in {"send", "await", "settle"} => at'[q].order # j
    BY <1>1 DEF NeverSentStays, Idle
  <1> QED
    BY <1>1, <1>2, <1>3, <1>4, CallStep
    DEF SenderTypes, Idle, Acting, UnsentClosed, NeverSentStays

\* What the adapter answered, or that it did not, and the row it is written to.
LEMMA AnswerSteps ==
    ASSUME SenderInv, NEW p \in Procs, NEW a \in Answers,
           \/ SubmitRaises(p) \/ SubmitAnswered(p, a)
           \/ CancelAnswered(p, a) \/ CancelRaises(p)
    PROVE  SenderInv'
PROOF
  <1> DEFINE i == at[p].order
  <1>1. /\ i \in Orders
        /\ UNCHANGED <<status, unsent, sends, venue, wire, view>>
    BY DEF SubmitRaises, SubmitAnswered, CancelAnswered, CancelRaises, At, SenderInv,
           SenderTypes, account, orderRows, external
  <1>2. /\ {"doubt", "settle", "settleCancel"} \subseteq PC \ {"idle", "ingest", "recheck", "send"}
        /\ {"SUBMITTING", "CANCEL_PENDING"} \subseteq Answers
        /\ "doubt" \notin Acting /\ "settleCancel" \notin Acting /\ "await" \in Acting
    BY DEF PC, Answers, Acting
  <1>3. CASE SubmitRaises(p)
    BY <1>1, <1>2, <1>3, QuietStep DEF SubmitRaises
  <1>4. CASE SubmitAnswered(p, a)
    BY <1>1, <1>2, <1>4, QuietStep DEF SubmitAnswered, At, Acts
  <1>5. CASE CancelAnswered(p, a)
    BY <1>1, <1>2, <1>5, QuietStep DEF CancelAnswered
  <1>6. CASE CancelRaises(p)
    BY <1>1, <1>2, <1>6, QuietStep DEF CancelRaises
  <1> QED
    BY <1>3, <1>4, <1>5, <1>6

LEMMA RecordSubmitStep ==
    ASSUME SenderInv, NEW p \in Procs, RecordSubmit(p)
    PROVE  SenderInv'
PROOF
  <1> DEFINE i == at[p].order
  <1>1. at[p].pc = "settle" /\ i \in Orders /\ Acts(p, i)
    BY DEF RecordSubmit, At, SenderInv, SenderTypes, Acts, Acting
  <1>2. i \notin unsent /\ \A q \in Procs : Acts(q, i) => q = p
    BY <1>1 DEF SenderInv, NeverSentStays, OneActor
  <1>3. Finish(p) /\ UNCHANGED <<unsent, sends, venue, wire>>
    BY DEF RecordSubmit, orderRows, external
  <1>4. CASE HasLease(p) /\ status[i] = "SUBMITTING"
    <2>1. \E s \in {"REJECTED", "ACKNOWLEDGED", "UNKNOWN"} : status' = [status EXCEPT ![i] = s]
      BY <1>4 DEF RecordSubmit, Release
    <2>2. {"REJECTED", "ACKNOWLEDGED", "UNKNOWN"} \subseteq OrderStatus \ {"NEW", "RESERVED"}
      BY DEF OrderStatus, Terminal, Uncertain
    <2>3. Touch(i)
      BY <1>4 DEF RecordSubmit
    <2> QED
      BY <1>1, <1>2, <1>3, <2>1, <2>2, <2>3, RowStep
  <1>5. CASE ~(HasLease(p) /\ status[i] = "SUBMITTING")
    BY <1>3, <1>5, QuietStep DEF RecordSubmit, orderRows
  <1> QED
    BY <1>4, <1>5

LEMMA MarkUncertainStep ==
    ASSUME SenderInv, NEW p \in Procs, MarkUncertain(p)
    PROVE  SenderInv'
PROOF
  <1> DEFINE i == at[p].order
  <1>1. at[p].pc = "doubt" /\ i \in Orders /\ Finish(p)
        /\ UNCHANGED <<unsent, sends, venue, wire>>
    BY DEF MarkUncertain, At, SenderInv, SenderTypes, external
  <1>2. CASE UNCHANGED <<mode, status, view>>
    BY <1>1, <1>2, QuietStep
  <1>3. CASE /\ status[i] \notin Terminal
             /\ status' = [status EXCEPT ![i] = "UNKNOWN"]
             /\ Touch(i)
    <2>1. i \notin unsent
      BY <1>3 DEF SenderInv, UnsentClosed
    <2>2. "UNKNOWN" \in OrderStatus \ {"NEW", "RESERVED"}
      BY DEF OrderStatus, Uncertain
    <2> QED
      BY <1>1, <1>3, <2>1, <2>2, RowStep
  <1> QED
    BY <1>2, <1>3 DEF MarkUncertain

-----------------------------------------------------------------------------
(* cancel                                                                  *)

LEMMA StartCancelStep ==
    ASSUME SenderInv, NEW p \in Procs, NEW i \in Orders, StartCancel(p, i)
    PROVE  SenderInv'
PROOF
  <1>1. Free(p) /\ Touch(i) /\ UNCHANGED <<sends, venue, wire>>
    BY DEF StartCancel
  <1>2. CASE status[i] = "RESERVED" /\ EndUnsent(i, "CANCELED") /\ UNCHANGED at
    <2>1. sends[i] = 0 /\ \A q \in Procs : ~Acts(q, i)
      BY <1>2 DEF SenderInv, UnclaimedUnsent, ClaimedRow
    <2> QED
      BY <1>1, <1>2, <2>1, EndUnsentStep DEF Terminal
  <1>3. CASE /\ status[i] \in {"ACKNOWLEDGED", "PARTIALLY_FILLED"}
             /\ status' = [status EXCEPT ![i] = "CANCEL_PENDING"]
             /\ Go(p, "canceling", i, "none")
             /\ UNCHANGED unsent
    <2> USE DEF SenderInv
    <2>1. /\ at' \in [Procs -> Call]
          /\ at'[p] = [pc |-> "canceling", order |-> i, answer |-> "none", todo |-> {}]
          /\ \A q \in Procs : q # p => at'[q] = at[q]
      BY <1>3, GoCall DEF SenderTypes, PC, Answers
    <2>2. view' \in [Procs -> View] /\ \A q \in Procs : view'[q].of = view[q].of
      BY <1>1, TouchKeepsViews DEF SenderTypes
    <2>3. SenderTypes' /\ TodoKnown'
      <3>1. status' \in [Orders -> OrderStatus]
        BY <1>3 DEF SenderTypes, OrderStatus, Uncertain
      <3> QED
        BY <1>1, <1>3, <2>1, <2>2, <3>1 DEF SenderTypes, TodoKnown
    <2>4. i \notin unsent /\ \A q \in Procs : Acts(q, i) => at[q].pc \notin {"recheck", "send"}
      BY <1>3 DEF UnsentClosed, Terminal, BlockingRow
    <2>5. \A j \in unsent :
             /\ status'[j] \in Terminal
             /\ \A q \in Procs : at'[q].pc \in {"send", "await", "settle"} => at'[q].order # j
      BY <1>3, <2>1, <2>4 DEF SenderTypes, UnsentClosed, NeverSentStays
    <2> QED
      BY <1>1, <1>3, <2>1, <2>2, <2>3, <2>4, <2>5, CallStep
      DEF SenderTypes, Acting, NeverSentStays
  <1> QED
    BY <1>2, <1>3 DEF StartCancel

LEMMA RecordCancelStep ==
    ASSUME SenderInv, NEW p \in Procs, RecordCancel(p)
    PROVE  SenderInv'
PROOF
  <1> DEFINE i == at[p].order
  <1>1. i \in Orders /\ Finish(p) /\ UNCHANGED <<unsent, sends, venue, wire>>
    BY DEF RecordCancel, At, SenderInv, SenderTypes, orderRows, external
  <1>2. CASE ~HasLease(p) \/ status[i] # "CANCEL_PENDING"
    BY <1>1, <1>2, QuietStep DEF RecordCancel, orderRows
  <1>3. CASE HasLease(p) /\ status[i] = "CANCEL_PENDING"
    <2>1. PICK s \in {"CANCELED", "CANCEL_PENDING", "PARTIALLY_FILLED", "ACKNOWLEDGED"} :
             status' = [status EXCEPT ![i] = s]
      BY <1>3 DEF RecordCancel, Release, Confirmed
    <2>2. s \in OrderStatus \ {"NEW", "RESERVED"}
      BY DEF OrderStatus, Terminal, Uncertain
    <2>3. i \notin unsent /\ \A q \in Procs : Acts(q, i) => at[q].pc \notin {"recheck", "send"}
      BY <1>1, <1>3 DEF SenderInv, UnsentClosed, Terminal, BlockingRow
    <2>4. Touch(i) \/ UNCHANGED view
      BY <1>3 DEF RecordCancel
    <2> QED
      BY <1>1, <2>1, <2>2, <2>3, <2>4, RowStep
  <1> QED
    BY <1>2, <1>3

-----------------------------------------------------------------------------
(* reconcile and query                                                     *)

\* A read of the venue gives p a view of it and what is known there to do.
LEMMA ReadSteps ==
    ASSUME SenderInv, NEW p \in Procs, NEW i \in Orders,
           StartReconcile(p) \/ StartQuery(p, i)
    PROVE  SenderInv'
PROOF
  <1> USE DEF SenderInv
  <1>1. Free(p) /\ UNCHANGED <<status, unsent, sends, venue, wire>>
    BY DEF StartReconcile, StartQuery, account, orderRows, external
  <1>2. CASE Go(p, "doubt", i, "any") /\ UNCHANGED view
    <2>1. "doubt" \in PC /\ "any" \in Answers /\ "doubt" \notin Acting
      BY DEF PC, Answers, Acting
    <2> QED
      BY <1>1, <1>2, <2>1, QuietStep
  <1>3. ASSUME NEW c \in Call, at' = [at EXCEPT ![p] = c], Look(p),
               c.pc \in {"ingest", "queried"}, c.pc = "queried" => c.order \in Orders,
               \A j \in c.todo : Known(venue[j])
        PROVE  SenderInv'
    <2>1. /\ at' \in [Procs -> Call] /\ at'[p] = c
          /\ \A q \in Procs : q # p => at'[q] = at[q]
      BY <1>3 DEF SenderTypes
    <2>2. /\ view' \in [Procs -> View]
          /\ view'[p].of = venue
          /\ \A q \in Procs : q # p => view'[q].of = view[q].of
      BY <1>3, LookShowsVenue DEF SenderTypes
    <2>3. SenderTypes' /\ TodoKnown'
      BY <1>1, <1>3, <2>1, <2>2 DEF SenderTypes, TodoKnown, Known
    <2> QED
      BY <1>1, <1>3, <2>1, <2>2, <2>3, CallStep
      DEF SenderTypes, Acting, UnsentClosed, NeverSentStays
  <1>4. CASE StartReconcile(p)
    <2> DEFINE c == [pc |-> "ingest", order |-> None, answer |-> "none",
                     todo |-> {j \in Orders : Known(venue[j])}]
    <2>1. c \in Call
      BY DEF Call, PC, Answers
    <2> QED
      BY <1>3, <1>4, <2>1 DEF StartReconcile
  <1>5. CASE StartQuery(p, i) /\ Known(venue[i]) /\ Look(p)
             /\ at' = [at EXCEPT ![p] = [pc |-> "queried", order |-> i, answer |-> "none",
                                         todo |-> {i}]]
    <2> DEFINE c == [pc |-> "queried", order |-> i, answer |-> "none", todo |-> {i}]
    <2>1. c \in Call
      BY DEF Call, PC, Answers
    <2> QED
      BY <1>3, <1>5, <2>1
  <1> QED
    BY <1>2, <1>4, <1>5 DEF StartQuery

\* A fill is of an order that was sent; a row it moves is not about to be sent.
LEMMA IngestStep ==
    ASSUME SenderInv, NEW p \in Procs, NEW i \in Orders,
           NEW k \in 1..Qty[i], NEW s, IngestFill(p, i, k, s)
    PROVE  SenderInv'
PROOF
  <1> USE DEF SenderInv
  <1>1. UNCHANGED <<at, sends, venue, wire>>
    BY DEF IngestFill, external
  <1>2. CASE Ingested(i, k)
    BY <1>1, <1>2, ElsewhereStep DEF IngestFill, ApplyFill
  <1>3. CASE ~Ingested(i, k)
    <2>1. /\ status' = [status EXCEPT ![i] = FillStatus(i, filled[i] + 1)]
          /\ UNCHANGED unsent /\ i \notin unsent /\ Touch(i)
          /\ status[i] # "RESERVED"
          /\ k \in 1..view[p].of[i].filled
      BY <1>3 DEF IngestFill, ApplyFill
    <2>2. sends[i] # 0
      <3>1. view[p].of[i] # Unknown
        BY <2>1 DEF Unknown
      <3> QED
        BY <3>1 DEF OutsideKnows
    <2>3. status[i] \in OrderStatus \ {"NEW", "RESERVED"}
      BY <2>2 DEF UnclaimedUnsent, SenderTypes
    <2>4. FillStatus(i, filled[i] + 1) \in OrderStatus \ {"NEW", "RESERVED"}
      BY <2>3 DEF FillStatus, OrderStatus, Terminal, Uncertain
    <2>5. view' \in [Procs -> View] /\ \A q \in Procs : view'[q].of = view[q].of
      BY <2>1, TouchKeepsViews DEF SenderTypes
    <2>6. SenderTypes' /\ TodoKnown'
      BY <1>1, <2>1, <2>4, <2>5 DEF SenderTypes, TodoKnown
    <2>7. \A q \in Procs : Acts(q, i) => at[q].pc \notin {"recheck", "send"}
      BY <2>2 DEF BlockingRow
    <2> QED
      BY <1>1, <2>1, <2>4, <2>5, <2>6, <2>7, CallStep
      DEF SenderTypes, UnsentClosed, NeverSentStays
  <1> QED
    BY <1>2, <1>3

\* The call of p has one order less to do, or ends.
LEMMA PassOverCall ==
    ASSUME SenderTypes, NEW p \in Procs, NEW i \in Orders, PassOver(p, i)
    PROVE  /\ at' \in [Procs -> Call]
           /\ at'[p].pc \in {at[p].pc, "idle"} /\ at'[p].order \in {at[p].order, None}
           /\ at'[p].pc # "idle" => at'[p].order = at[p].order
           /\ at'[p].todo = at[p].todo \ {i}
           /\ at[p].todo = {i} => at'[p] = Idle
           /\ \A q \in Procs : q # p => at'[q] = at[q]
PROOF
  <1>1. CASE at[p].todo = {i}
    <2>1. /\ at' \in [Procs -> Call] /\ at'[p] = Idle
          /\ \A q \in Procs : q # p => at'[q] = at[q]
      BY <1>1, FinishCall DEF PassOver, SenderTypes
    <2>2. at[p].todo \ {i} = {}
      BY <1>1
    <2> QED
      BY <2>1, <2>2 DEF Idle
  <1>2. CASE at[p].todo # {i}
    <2> DEFINE c == [at[p] EXCEPT !.todo = @ \ {i}]
    <2>1. at[p] \in Call
      BY DEF SenderTypes
    <2>2. /\ c \in Call
          /\ c.pc = at[p].pc /\ c.order = at[p].order /\ c.todo = at[p].todo \ {i}
      BY <2>1 DEF Call
    <2>3. at' = [at EXCEPT ![p] = c]
      BY <1>2 DEF PassOver
    <2> QED
      BY <1>2, <2>2, <2>3 DEF SenderTypes
  <1> QED
    BY <1>1, <1>2

\* A snapshot of an order tells every other view that it is old now.
LEMMA SnapshotViews ==
    ASSUME SenderTypes, NEW p \in Procs, NEW i \in Orders,
           view' = [q \in Procs |->
              IF q = p THEN IF at[p].todo = {i} THEN NoView ELSE [view[p] EXCEPT !.old = @ \union {i}]
              ELSE IF ~Reading(q) THEN view[q]
              ELSE [view[q] EXCEPT
                      !.old = @ \union {i},
                      !.gone = IF p \in view[q].after THEN @ \union {i} ELSE @,
                      !.after = IF at[p].todo = {i} THEN @ \ {p} ELSE @]]
    PROVE  /\ view' \in [Procs -> View]
           /\ \A q \in Procs : \/ view'[q].of = view[q].of
                               \/ q = p /\ at[p].todo = {i} /\ view'[q] = NoView
PROOF
  <1>1. ASSUME NEW q \in Procs
        PROVE  /\ view'[q] \in View
               /\ view'[q].of = view[q].of \/ (q = p /\ at[p].todo = {i} /\ view'[q] = NoView)
    <2> DEFINE last == at[p].todo = {i}
               seen == [view[q] EXCEPT !.old = @ \union {i}]
               noted == [view[q] EXCEPT
                           !.old = @ \union {i},
                           !.gone = IF p \in view[q].after THEN @ \union {i} ELSE @,
                           !.after = IF at[p].todo = {i} THEN @ \ {p} ELSE @]
    <2>1. view[q] \in View
      BY DEF SenderTypes
    <2>2. seen \in View /\ seen.of = view[q].of
      BY <2>1 DEF View
    <2>3. noted \in View /\ noted.of = view[q].of
      BY <2>1 DEF View
    <2>4. NoView \in View
      BY FreshView DEF SenderTypes
    <2>5. (q = p /\ last /\ view'[q] = NoView) \/ view'[q] \in {seen, noted, view[q]}
      OBVIOUS
    <2> QED
      BY <2>1, <2>2, <2>3, <2>4, <2>5
  <1>2. view' = [q \in Procs |-> view'[q]]
    OBVIOUS
  <1> QED
    BY <1>1, <1>2

(***************************************************************************)
(* An order in a snapshot was sent; what the snapshot makes of its row is  *)
(* a status of orders that left.                                           *)
(***************************************************************************)
LEMMA SnapshotStep ==
    ASSUME SenderInv, NEW p \in Procs, NEW i \in Orders, NEW s, ApplySnapshot(p, i, s)
    PROVE  SenderInv'
PROOF
  <1> DEFINE st == Reported(view[p].of[i])
             last == at[p].todo = {i}
  <1> USE DEF SenderInv
  <1>1. /\ at[p].pc \in {"queried", "ingest"} /\ i \in at[p].todo
        /\ at[p].pc = "queried" => at[p].order \in Orders
        /\ UNCHANGED <<sends, venue, wire>>
    BY DEF ApplySnapshot, At, SenderTypes, external
  <1>2. sends[i] # 0 /\ status[i] \notin {"NEW", "RESERVED"} /\ i \notin unsent
    <2>1. view[p].of[i] # Unknown
      BY <1>1 DEF TodoKnown, Known, Unknown
    <2>2. sends[i] # 0
      BY <2>1 DEF OutsideKnows
    <2> QED
      BY <2>2 DEF UnclaimedUnsent, NeverSentStays
  <1>3. CASE /\ PassOver(p, i)
             /\ IF last THEN Forget(p) ELSE UNCHANGED view
             /\ UNCHANGED <<mode, wallet, orderRows>>
    <2>1. /\ at' \in [Procs -> Call]
          /\ at'[p].pc \in {at[p].pc, "idle"} /\ at'[p].todo = at[p].todo \ {i}
          /\ at'[p].pc # "idle" => at'[p].order = at[p].order
          /\ last => at'[p] = Idle
          /\ \A q \in Procs : q # p => at'[q] = at[q]
      BY <1>3, PassOverCall
    <2>2. /\ view' \in [Procs -> View]
          /\ \A q \in Procs : view'[q].of = view[q].of \/ (q = p /\ last /\ view'[q] = NoView)
      BY <1>3, ForgetClearsView DEF SenderTypes
    <2>3. SenderTypes' /\ TodoKnown'
      BY <1>1, <1>3, <2>1, <2>2 DEF SenderTypes, TodoKnown, Idle, orderRows
    <2> QED
      BY <1>1, <1>3, <2>1, <2>2, <2>3, FreshView, CallStep
      DEF SenderTypes, Acting, UnsentClosed, NeverSentStays, orderRows
  <1>4. CASE /\ IF At(p, "queried") THEN Go(p, "doubt", i, "any") ELSE Finish(p)
             /\ Forget(p)
             /\ UNCHANGED <<mode, wallet, orderRows>>
    <2>1. /\ at' \in [Procs -> Call] /\ at'[p].todo = {}
          /\ at'[p].pc \in {"idle", "doubt"} /\ (at'[p].pc = "doubt" => at'[p].order = i)
          /\ \A q \in Procs : q # p => at'[q] = at[q]
      <3>1. "doubt" \in PC /\ "any" \in Answers
        BY DEF PC, Answers
      <3>2. CASE At(p, "queried")
        <4>1. Go(p, "doubt", i, "any")
          BY <1>4, <3>2
        <4>2. /\ at' \in [Procs -> Call]
              /\ at'[p] = [pc |-> "doubt", order |-> i, answer |-> "any", todo |-> {}]
              /\ \A q \in Procs : q # p => at'[q] = at[q]
          BY <3>1, <4>1, GoCall DEF SenderTypes
        <4> QED
          BY <4>2
      <3>3. CASE ~At(p, "queried")
        BY <1>4, <3>3, FinishCall DEF SenderTypes, Idle
      <3> QED
        BY <3>2, <3>3
    <2>2. /\ view' \in [Procs -> View] /\ view'[p] = NoView
          /\ \A q \in Procs : q # p => view'[q].of = view[q].of
      BY <1>4, ForgetClearsView DEF SenderTypes
    <2>3. SenderTypes' /\ TodoKnown'
      BY <1>1, <1>4, <2>1, <2>2 DEF SenderTypes, TodoKnown, orderRows
    <2> QED
      BY <1>1, <1>4, <2>1, <2>2, <2>3, FreshView, CallStep
      DEF SenderTypes, Acting, UnsentClosed, NeverSentStays, orderRows
  <1>5. CASE /\ IF st \in Terminal THEN Release(i, st)
                ELSE /\ status' = [status EXCEPT ![i] = st]
                     /\ UNCHANGED <<res, reserved>>
             /\ UNCHANGED unsent
             /\ PassOver(p, i)
             /\ view' = [q \in Procs |->
                   IF q = p THEN IF last THEN NoView ELSE [view[p] EXCEPT !.old = @ \union {i}]
                   ELSE IF ~Reading(q) THEN view[q]
                   ELSE [view[q] EXCEPT
                           !.old = @ \union {i},
                           !.gone = IF p \in view[q].after THEN @ \union {i} ELSE @,
                           !.after = IF last THEN @ \ {p} ELSE @]]
    <2>1. /\ at' \in [Procs -> Call]
          /\ at'[p].pc \in {at[p].pc, "idle"} /\ at'[p].todo = at[p].todo \ {i}
          /\ at'[p].pc # "idle" => at'[p].order = at[p].order
          /\ last => at'[p] = Idle
          /\ \A q \in Procs : q # p => at'[q] = at[q]
      BY <1>5, PassOverCall
    <2>2. /\ view' \in [Procs -> View]
          /\ \A q \in Procs : view'[q].of = view[q].of \/ (q = p /\ last /\ view'[q] = NoView)
      BY <1>5, SnapshotViews
    <2>3. status' = [status EXCEPT ![i] = st]
      BY <1>5 DEF Release
    <2>4. st \in OrderStatus \ {"NEW", "RESERVED"}
      <3>1. view[p].of[i] \in VenueOrder /\ view[p].of[i].state # "NONE"
        BY <1>1 DEF SenderTypes, View, TodoKnown, Known
      <3> QED
        BY <3>1 DEF Reported, VenueOrder, VenueState, OrderStatus, Terminal
    <2>5. SenderTypes'
      <3>1. status' \in [Orders -> OrderStatus]
        BY <2>3, <2>4 DEF SenderTypes
      <3> QED
        BY <1>1, <1>5, <2>1, <2>2, <3>1 DEF SenderTypes
    <2>6. TodoKnown'
      BY <2>1, <2>2 DEF SenderTypes, TodoKnown, Idle
    <2>7. \A q \in Procs : Acts(q, i) => at[q].pc \notin {"recheck", "send"}
      BY <1>2 DEF BlockingRow
    <2>8. \A j \in Orders : j # i => status'[j] = status[j]
      BY <2>3 DEF SenderTypes
    <2>9. status'[i] = st
      BY <2>3 DEF SenderTypes
    <2>10. at'[p].pc \notin Acting
      BY <1>1, <2>1 DEF Acting
    <2>11. \A j \in unsent' :
              /\ status'[j] \in Terminal
              /\ sends[j] = 0
              /\ \A q \in Procs : at'[q].pc \in {"send", "await", "settle"} => at'[q].order # j
      <3> SUFFICES ASSUME NEW j \in unsent
                   PROVE  /\ status'[j] \in Terminal
                          /\ sends[j] = 0
                          /\ \A q \in Procs :
                                at'[q].pc \in {"send", "await", "settle"} => at'[q].order # j
        BY <1>5
      <3>1. j \in Orders /\ j # i
        BY <1>2 DEF SenderTypes
      <3>2. status'[j] \in Terminal
        BY <2>8, <3>1 DEF UnsentClosed
      <3> QED
        BY <2>1, <2>10, <3>2 DEF Acting, NeverSentStays
    <2>12. \A q \in Procs, j \in Orders : view'[q].of[j] \in {view[q].of[j], venue[j], Unknown}
      BY <2>2, FreshView DEF SenderTypes
    <2>13. \A j \in Orders : status'[j] \in {"NEW", "RESERVED"} => status[j] \in {"NEW", "RESERVED"}
      BY <2>4, <2>8, <2>9
    <2>14. \A q \in Procs, j \in Orders :
              Acts(q, j) /\ at[q].pc \in {"recheck", "send"} /\ status'[j] # status[j] =>
                 (q = p /\ at'[p].pc \notin Acting) \/ status'[j] \in {"SUBMITTING", "UNKNOWN"}
      BY <2>7, <2>8
    <2>15. \A q \in Procs : q # p => at'[q] = at[q]
      BY <2>1
    <2> HIDE DEF SenderInv
    <2> QED
      BY <1>1, <2>5, <2>6, <2>10, <2>11, <2>12, <2>13, <2>14, <2>15, CallStep
  <1> QED
    BY <1>3, <1>4, <1>5 DEF ApplySnapshot

-----------------------------------------------------------------------------
(* Crashes and the venue.                                                  *)

\* A crash forgets the call and the view; the rows are what remains.
LEMMA CrashStep ==
    ASSUME SenderInv, NEW p \in Procs, Crash(p)
    PROVE  SenderInv'
PROOF
  <1> USE DEF SenderInv
  <1>1. UNCHANGED <<status, unsent, sends, venue, wire>>
    BY DEF Crash, account, orderRows, external
  <1>2. /\ at' \in [Procs -> Call] /\ at'[p] = Idle
        /\ \A q \in Procs : q # p => at'[q] = at[q]
    BY FinishCall DEF Crash, SenderTypes
  <1>3. /\ view' \in [Procs -> View] /\ view'[p] = NoView
        /\ \A q \in Procs : q # p => view'[q].of = view[q].of
    BY ForgetClearsView DEF Crash, SenderTypes
  <1>4. SenderTypes' /\ TodoKnown'
    BY <1>1, <1>2, <1>3 DEF SenderTypes, TodoKnown, Idle
  <1>5. \A q \in Procs, i \in Orders : view'[q].of[i] \in {view[q].of[i], venue[i], Unknown}
    BY <1>3, FreshView DEF SenderTypes
  <1>6. \A i \in unsent' :
           /\ status'[i] \in Terminal
           /\ sends[i] = 0
           /\ \A q \in Procs : at'[q].pc \in {"send", "await", "settle"} => at'[q].order # i
    BY <1>1, <1>2 DEF UnsentClosed, NeverSentStays, Idle
  <1> HIDE DEF SenderInv
  <1> QED
    BY <1>1, <1>2, <1>4, <1>5, <1>6, CallStep DEF Idle, Acting

\* The venue and the network only do something for orders that were sent.
LEMMA VenueStep ==
    ASSUME SenderInv, Venue
    PROVE  SenderInv'
PROOF
  <1> USE DEF SenderInv
  <1>1. PICK i \in Orders : \/ VenueReceives(i) \/ SubmissionLost(i) \/ VenueFills(i)
                            \/ VenueEnds(i) \/ CancelArrives(i)
    BY DEF Venue
  <1>2. UNCHANGED <<status, unsent, sends, view, at>>
    BY <1>1 DEF VenueReceives, SubmissionLost, VenueFills, VenueEnds, CancelArrives,
                account, orderRows
  <1>3. /\ venue' \in [Orders -> VenueOrder]
        /\ wire' \subseteq wire
        /\ \A j \in Orders : sends[j] = 0 => venue'[j] = venue[j]
    <2>1. venue[i] \in VenueOrder /\ venue \in [Orders -> VenueOrder]
      BY DEF SenderTypes
    <2>2. sends[i] = 0 => venue[i] = Unknown /\ i \notin wire
      BY DEF OutsideKnows
    <2>3. CASE VenueReceives(i)
      BY <2>1, <2>2, <2>3 DEF VenueReceives, VenueOrder, VenueState
    <2>4. CASE SubmissionLost(i)
      BY <2>1, <2>4 DEF SubmissionLost
    <2>5. CASE VenueFills(i)
      <3>1. sends[i] # 0
        BY <2>2, <2>5 DEF VenueFills, Unknown
      <3> DEFINE f == venue[i].filled + 1
                 x == [state |-> IF f = Qty[i] THEN "FILLED" ELSE "OPEN", filled |-> f]
      <3>2. venue' = [venue EXCEPT ![i] = x] /\ wire' = wire
        BY <2>5 DEF VenueFills
      <3>3. x \in VenueOrder
        BY <2>1 DEF VenueOrder, VenueState
      <3> QED
        BY <2>1, <3>1, <3>2, <3>3
    <2>6. CASE VenueEnds(i)
      BY <2>1, <2>2, <2>6 DEF VenueEnds, VenueOrder, VenueState, Unknown
    <2>7. CASE CancelArrives(i)
      BY <2>1, <2>2, <2>7 DEF CancelArrives, VenueOrder, VenueState, Unknown
    <2> QED
      BY <1>1, <2>3, <2>4, <2>5, <2>6, <2>7
  <1>4. SenderTypes'
    BY <1>2, <1>3 DEF SenderTypes
  <1>5. OutsideKnows'
    BY <1>2, <1>3 DEF OutsideKnows
  <1> HIDE DEF SenderInv
  <1> QED
    BY <1>2, <1>4, <1>5
    DEF SenderInv, ClaimedRow, OneActor, BlockingRow, UnclaimedUnsent, TodoKnown, UnsentClosed,
        NeverSentStays, AtMostOneSend, OneSenderPerAccount, Acts

-----------------------------------------------------------------------------
(* The invariant.                                                          *)

\* SenderInv holds initially.
LEMMA SenderInvInit == Init => SenderInv
PROOF
  <1> SUFFICES ASSUME Init PROVE SenderInv
    OBVIOUS
  <1>1. Idle \in Call /\ Unknown \in VenueOrder
    BY DEF Idle, Call, PC, Answers, Unknown, VenueOrder, VenueState
  <1>2. NoView \in View
    BY <1>1 DEF NoView, View
  <1>3. SenderTypes
    BY <1>1, <1>2 DEF Init, InitAccount, SenderTypes, OrderStatus, Idle
  <1>4. OutsideKnows /\ TodoKnown
    BY DEF Init, OutsideKnows, TodoKnown, NoView, Idle
  <1> QED
    BY <1>3, <1>4
    DEF SenderInv, Init, InitAccount, ClaimedRow, OneActor, BlockingRow, UnclaimedUnsent,
        UnsentClosed, NeverSentStays, AtMostOneSend, OneSenderPerAccount, Acts, Acting, Idle

\* Every step preserves it.
LEMMA SenderInvStep == SenderInv /\ [Next]_vars => SenderInv'
PROOF
  <1> SUFFICES ASSUME SenderInv, [Next]_vars PROVE SenderInv'
    OBVIOUS
  <1>1. ASSUME NEW p \in Procs, ClaimLease(p) PROVE SenderInv'
    BY <1>1, ElsewhereStep DEF ClaimLease, account, orderRows, external
  <1>2. ASSUME NEW p \in Procs, Submitting(p) PROVE SenderInv'
    <2>1. ASSUME NEW v \in Verdicts, NEW old \in BOOLEAN,
                 \/ Reserve(p, v, old) \/ ReserveOverBudget(p, v, old)
                 \/ ReserveRefused(p) \/ StopNewRisk(p)
          PROVE  SenderInv'
      BY <2>1, ReserveSteps
    <2>2. ASSUME NEW v \in Verdicts, NEW old \in BOOLEAN,
                 \/ ClaimOrder(p, v, old) \/ ClaimOverBudget(p, v, old)
                 \/ ClaimRefused(p, v) \/ ClaimExpired(p)
          PROVE  SenderInv'
      BY <2>2, ClaimSteps
    <2>3. ASSUME NEW v \in Verdicts, NEW old \in BOOLEAN, Recheck(p, v, old)
          PROVE  SenderInv'
      BY <2>3, RecheckStep
    <2>4. ASSUME NEW v \in Verdicts, NEW old \in BOOLEAN, NEW i \in Orders,
                 CheckReserve(p, i, v, old)
          PROVE  SenderInv'
      BY <2>4, CheckedStep DEF CheckReserve
    <2>5. ASSUME NEW v \in Verdicts, NEW old \in BOOLEAN, NEW i \in Orders,
                 CheckSubmit(p, i, v, old)
          PROVE  SenderInv'
      BY <2>5, CheckSubmitStep
    <2>6. ASSUME NEW i \in Orders, NoTrustedMarket(p, i) PROVE SenderInv'
      BY <2>6, ElsewhereStep DEF NoTrustedMarket, orderRows, external
    <2>7. CASE SendOrder(p)
      BY <2>7, SendStep
    <2>8. ASSUME NEW a \in {"accepted", "rejected", "unknown"},
                 SubmitRaises(p) \/ SubmitAnswered(p, a)
          PROVE  SenderInv'
      BY <2>8, AnswerSteps DEF Answers
    <2>9. CASE RecordSubmit(p)
      BY <2>9, RecordSubmitStep
    <2>10. \E v \in Verdicts : \E old \in BOOLEAN : TRUE
      BY DEF Verdicts
    <2>11. "unknown" \in {"accepted", "rejected", "unknown"}
      OBVIOUS
    <2> QED
      BY <1>2, <2>1, <2>2, <2>3, <2>4, <2>5, <2>6, <2>7, <2>8, <2>9, <2>10, <2>11
      DEF Submitting
  <1>3. ASSUME NEW p \in Procs, Canceling(p) PROVE SenderInv'
    BY <1>3, StartCancelStep, AnswerSteps, RecordCancelStep DEF Canceling, Answers
  <1>4. ASSUME NEW p \in Procs, Reconciling(p) PROVE SenderInv'
    <2>1. ASSUME NEW i \in Orders, StartReconcile(p) \/ StartQuery(p, i) PROVE SenderInv'
      BY <2>1, ReadSteps
    <2>2. StartReconcile(p) => Orders # {}
      BY DEF StartReconcile
    <2>3. ASSUME NEW i \in Orders, NEW s \in Settlements, ApplySnapshot(p, i, s)
          PROVE  SenderInv'
      BY <2>3, SnapshotStep
    <2>4. ASSUME NEW i \in Orders, NEW s \in Settlements, NEW k \in 1..Qty[i],
                 IngestFill(p, i, k, s)
          PROVE  SenderInv'
      BY <2>4, IngestStep
    <2> QED
      BY <1>4, <2>1, <2>2, <2>3, <2>4 DEF Reconciling
  <1>5. ASSUME NEW p \in Procs, MarkUncertain(p) \/ Crash(p) PROVE SenderInv'
    BY <1>5, MarkUncertainStep, CrashStep
  <1>6. CASE Venue
    BY <1>6, VenueStep
  <1>7. CASE Elsewhere \/ LeaseExpires
    <2>1. UNCHANGED <<status, unsent, sends, venue, wire, view, at>>
      BY <1>7 DEF Elsewhere, LeaseExpires, SetMode, WatchdogStop, RiskCheck, Deactivate,
                  Activate, Expire, account, orderRows, external
    <2> QED
      BY <2>1, ElsewhereStep
  <1>8. CASE UNCHANGED vars
    BY <1>8, ElsewhereStep DEF vars, account, orderRows, external
  <1> QED
    BY <1>1, <1>2, <1>3, <1>4, <1>5, <1>6, <1>7, <1>8 DEF Next, Process

\* The invariant of sending holds throughout.
THEOREM SenderInvariant == Spec => []SenderInv
  BY SenderInvInit, SenderInvStep, PTL DEF Spec

-----------------------------------------------------------------------------
(* The theorems about sending.                                             *)

\* _submit gives an intent to the adapter at most once, for any number of
\* processes and orders, whatever crashes, lease changes and retries intervene.
THEOREM SentAtMostOnce == Spec => []AtMostOneSend
PROOF
  <1>1. SenderInv => AtMostOneSend
    BY DEF SenderInv
  <1> QED
    BY <1>1, SenderInvariant, PTL

\* An order that the log calls never sent was not sent and is not about to be.
THEOREM UnsentWasNotSent == Spec => []NeverSentStays
PROOF
  <1>1. SenderInv => NeverSentStays
    BY DEF SenderInv
  <1> QED
    BY <1>1, SenderInvariant, PTL

\* Two processes never stand between claim and send at the same time, although
\* nothing here is assumed about who holds the lease.
THEOREM SendersAreAlone == Spec => []OneSenderPerAccount
PROOF
  <1>1. SenderInv => OneSenderPerAccount
    BY DEF SenderInv
  <1> QED
    BY <1>1, SenderInvariant, PTL


-----------------------------------------------------------------------------
(* Stops.                                                                  *)

Latched ==
    \/ mode' = mode
    \/ mode' = "HALTED"
    \/ mode' = "REDUCE_ONLY" /\ mode # "HALTED"

\* A risk evaluation keeps the mode or tightens it.
LEMMA ReportLatches ==
    ASSUME NEW v, NEW old, mode' = Report(v, old)
    PROVE  Latched
  BY DEF Report, Latched

\* No step of an OMS call makes the mode weaker.
LEMMA ProcessLatches ==
    ASSUME NEW p \in Procs, Process(p)
    PROVE  Latched
PROOF
  <1>1. CASE Submitting(p)
    <2>1. ASSUME NEW v \in Verdicts, NEW old \in BOOLEAN, NEW i \in Orders,
                 CheckReserve(p, i, v, old) \/ CheckSubmit(p, i, v, old)
          PROVE  Latched
      BY <2>1, ReportLatches DEF CheckReserve, CheckSubmit, Checked, account, Latched
    <2>2. ASSUME NEW v \in Verdicts, NEW old \in BOOLEAN,
                 \/ Reserve(p, v, old) \/ ReserveOverBudget(p, v, old)
                 \/ ClaimOrder(p, v, old) \/ ClaimOverBudget(p, v, old)
                 \/ ClaimRefused(p, v)
          PROVE  Latched
      BY <2>2 DEF Reserve, ReserveOverBudget, ClaimOrder, ClaimOverBudget, ClaimRefused,
                  account, Latched
    <2>3. ASSUME NEW v \in Verdicts, NEW old \in BOOLEAN, Recheck(p, v, old)
          PROVE  Latched
      BY <2>3 DEF Recheck, AbortMode, Stopped, Latched
    <2>4. ASSUME NEW i \in Orders, NoTrustedMarket(p, i) PROVE Latched
      BY <2>4 DEF NoTrustedMarket, Stopped, Latched
    <2>5. ASSUME NEW a, \/ ReserveRefused(p) \/ StopNewRisk(p) \/ ClaimExpired(p)
                        \/ SendOrder(p) \/ SubmitRaises(p) \/ RecordSubmit(p)
                        \/ SubmitAnswered(p, a)
          PROVE  Latched
      BY <2>5 DEF ReserveRefused, StopNewRisk, ClaimExpired, SendOrder, SubmitRaises,
                  RecordSubmit, SubmitAnswered, Stopped, account, Latched
    <2>6. \E v \in Verdicts : \E old \in BOOLEAN : TRUE
      BY DEF Verdicts
    <2> QED
      BY <1>1, <2>1, <2>2, <2>3, <2>4, <2>5, <2>6 DEF Submitting
  <1>2. CASE \/ ClaimLease(p) \/ Canceling(p) \/ StartReconcile(p)
             \/ \E i \in Orders : StartQuery(p, i)
             \/ MarkUncertain(p) \/ Crash(p)
    BY <1>2 DEF ClaimLease, Canceling, StartCancel, CancelAnswered, CancelRaises, RecordCancel,
                StartReconcile, StartQuery, MarkUncertain, Crash, account, Latched
  <1>3. ASSUME NEW i \in Orders, NEW s, ApplySnapshot(p, i, s) PROVE Latched
    BY <1>3 DEF ApplySnapshot, Latched
  <1>4. ASSUME NEW i \in Orders, NEW s, NEW k, IngestFill(p, i, k, s) PROVE Latched
    BY <1>4 DEF IngestFill, ApplyFill, Latched
  <1> QED
    BY <1>1, <1>2, <1>3, <1>4 DEF Process, Reconciling

\* Only the operator can make the mode weaker, and then no call is affected.
LEMMA ModeStep ==
    ASSUME [Next]_vars
    PROVE  Latched \/ (\E m \in OperatorModes : "operator" \in Calls /\ mode' = m /\ UNCHANGED at)
PROOF
  <1>1. CASE Venue \/ LeaseExpires \/ UNCHANGED vars
    BY <1>1 DEF Venue, VenueReceives, SubmissionLost, VenueFills, VenueEnds, CancelArrives,
                LeaseExpires, account, vars, Latched
  <1>2. ASSUME Elsewhere
        PROVE  Latched \/ (\E m \in OperatorModes : "operator" \in Calls /\ mode' = m /\ UNCHANGED at)
    <2>1. ASSUME NEW v \in Verdicts, NEW old \in BOOLEAN, RiskCheck(v, old) PROVE Latched
      BY <2>1, ReportLatches DEF RiskCheck
    <2>2. ASSUME NEW m \in OperatorModes, "operator" \in Calls, SetMode(m)
          PROVE  mode' = m /\ UNCHANGED at
      BY <1>2, <2>2 DEF Elsewhere, SetMode
    <2> QED
      BY <1>2, <2>1, <2>2
      DEF Elsewhere, WatchdogStop, Stopped, Deactivate, Activate, Expire, Latched
  <1> QED
    BY <1>1, <1>2, ProcessLatches DEF Next

\* The preflight, the risk checks, the fills and the watchdog write the mode
\* concurrently; none of them overwrites a stop by a weaker mode.
THEOREM ModesLatch == Spec => StopsLatch
PROOF
  <1>1. [Next]_vars => [\/ mode' = mode
                        \/ mode' = "HALTED"
                        \/ mode' = "REDUCE_ONLY" /\ mode # "HALTED"
                        \/ "operator" \in Calls /\ mode' \in OperatorModes /\ UNCHANGED at]_vars
    BY ModeStep DEF Latched
  <1> QED
    BY <1>1, PTL DEF Spec, StopsLatch

-----------------------------------------------------------------------------
(* Rows.                                                                   *)

RowTypes ==
    /\ filled \in [Orders -> Nat]
    /\ settlement \in [Orders -> SettlementStatus]

\* What a process is about to record: the answer of its submission, or an error
\* of a query, which only falls on an order that has a row.
AnswerTypes ==
    \A p \in Procs :
        /\ at[p].pc = "settle" => at[p].answer \in {"accepted", "rejected", "unknown"}
        /\ at[p].pc = "doubt" /\ at[p].answer = "any" => status[at[p].order] # "NEW"

(***************************************************************************)
(* How the row of an order moves: it is made under the active head, stays  *)
(* as it is once closed, but for a late fill that completes it, and is     *)
(* never unmade.                                                           *)
(***************************************************************************)
RowMoves ==
    \A i \in Orders :
        \/ status'[i] = status[i]
        \/ status[i] = "NEW" /\ status'[i] = "RESERVED" /\ Current(i)
        \/ status[i] \notin Terminal \union {"NEW"} /\ status'[i] # "NEW"
        \/ status[i] \in Terminal /\ status'[i] = "FILLED" /\ filled'[i] = Qty[i]

\* The head only moves while the account is flat.
HeadMoves == UNCHANGED head \/ (Flat /\ UNCHANGED status)

\* What could make an account unhealthy halts it.
HealthKept ==
    mode' = "ACTIVE" =>
        \/ /\ mode = "ACTIVE"
           /\ \A i \in Orders : /\ status'[i] = "UNKNOWN" => status[i] = "UNKNOWN"
                                /\ settlement'[i] \in Broken => settlement[i] \in Broken
           /\ NegativeWallet' => NegativeWallet
        \/ /\ \A i \in Orders : status'[i] # "UNKNOWN" /\ settlement'[i] \notin Broken
           /\ ~NegativeWallet'

RowStepOK == RowTypes' /\ RowMoves /\ HeadMoves /\ HealthKept

\* A step that leaves the rows, the wallet and the head alone.
LEMMA StillRows ==
    ASSUME RowTypes, Latched,
           UNCHANGED <<status, filled, settlement, quote, base, head>>
    PROVE  RowStepOK
  BY DEF RowStepOK, RowTypes, Latched, RowMoves, HeadMoves, HealthKept, NegativeWallet

\* A step that moves one row and leaves the rest and the mode alone.
LEMMA MovedRow ==
    ASSUME SenderTypes, RowTypes, NEW i \in Orders, NEW s \in OrderStatus,
           status' = [status EXCEPT ![i] = s],
           UNCHANGED <<filled, settlement, quote, base, head>>,
           Latched, s = "UNKNOWN" => mode' = "HALTED",
           \/ status[i] = "NEW" /\ s = "RESERVED" /\ Current(i)
           \/ status[i] \notin Terminal \union {"NEW"} /\ s # "NEW"
    PROVE  RowStepOK
  BY DEF RowStepOK, RowTypes, SenderTypes, Latched, RowMoves, HeadMoves, HealthKept,
         NegativeWallet

\* reserve and submit.
LEMMA SubmittingRows ==
    ASSUME SenderInv, RowTypes, AnswerTypes, Latched, NEW p \in Procs, Submitting(p)
    PROVE  RowStepOK
PROOF
  <1> DEFINE j == at[p].order
  <1> USE DEF At
  <1>0. SenderTypes
    BY DEF SenderInv
  <1>1. ASSUME NEW v \in Verdicts, NEW old \in BOOLEAN, NEW i \in Orders,
               CheckReserve(p, i, v, old) \/ CheckSubmit(p, i, v, old)
        PROVE  RowStepOK
    BY <1>1, StillRows
    DEF CheckReserve, CheckSubmit, Checked, account, wallet, orderRows, heads
  <1>2. ASSUME NEW v \in Verdicts, NEW old \in BOOLEAN,
               \/ ReserveOverBudget(p, v, old) \/ ClaimOverBudget(p, v, old)
               \/ ClaimRefused(p, v)
        PROVE  RowStepOK
    BY <1>2, StillRows
    DEF ReserveOverBudget, ClaimOverBudget, ClaimRefused, account, wallet, orderRows, heads
  <1>3. ASSUME NEW a, \/ ReserveRefused(p) \/ StopNewRisk(p) \/ SendOrder(p)
                      \/ SubmitRaises(p) \/ SubmitAnswered(p, a)
        PROVE  RowStepOK
    BY <1>3, StillRows
    DEF ReserveRefused, StopNewRisk, SendOrder, SubmitRaises, SubmitAnswered,
        account, wallet, orderRows, heads
  <1>4. ASSUME NEW i \in Orders, NoTrustedMarket(p, i) PROVE RowStepOK
    BY <1>4, StillRows DEF NoTrustedMarket, wallet, orderRows, heads
  <1>5. ASSUME NEW v \in Verdicts, NEW old \in BOOLEAN, Reserve(p, v, old)
        PROVE  RowStepOK
    <2>1. j \in Orders
      BY <1>0, <1>5 DEF Reserve, SenderTypes
    <2>2. /\ status[j] = "NEW" /\ Current(j)
          /\ status' = [status EXCEPT ![j] = "RESERVED"]
          /\ UNCHANGED <<filled, settlement, quote, base, head>>
      BY <1>5 DEF Reserve, ReserveRow, heads
    <2>3. "RESERVED" \in OrderStatus
      BY DEF OrderStatus
    <2> QED
      BY <1>0, <2>1, <2>2, <2>3, MovedRow
  <1>6. ASSUME NEW v \in Verdicts, NEW old \in BOOLEAN,
               ClaimOrder(p, v, old) \/ ClaimExpired(p)
        PROVE  RowStepOK
    <2>1. j \in Orders /\ status[j] = "RESERVED"
      BY <1>0, <1>6 DEF ClaimOrder, ClaimExpired, MaySubmit, Claimable, SenderTypes
    <2>2. PICK s \in {"CANCELED", "SUBMITTING", "EXPIRED"} : status' = [status EXCEPT ![j] = s]
      BY <1>6 DEF ClaimOrder, ClaimExpired, EndUnsent, Release
    <2>3. UNCHANGED <<filled, settlement, quote, base, head>>
      BY <1>6 DEF ClaimOrder, ClaimExpired, EndUnsent, wallet, heads
    <2>4. s # "UNKNOWN" /\ s # "NEW" /\ s \in OrderStatus
      BY DEF OrderStatus, Terminal, Uncertain
    <2>5. status[j] \notin Terminal \union {"NEW"}
      BY <2>1 DEF Terminal
    <2> QED
      BY <1>0, <2>1, <2>2, <2>3, <2>4, <2>5, MovedRow
  <1>7. ASSUME NEW v \in Verdicts, NEW old \in BOOLEAN, Recheck(p, v, old)
        PROVE  RowStepOK
    <2>1. j \in Orders /\ UNCHANGED head
      BY <1>0, <1>7 DEF Recheck, SenderTypes, heads
    <2>2. CASE UNCHANGED <<mode, orderRows, wallet, view>>
      BY <2>1, <2>2, StillRows DEF orderRows, wallet
    <2>3. CASE status[j] = "SUBMITTING" /\ EndUnsent(j, "CANCELED")
      BY <1>0, <2>1, <2>3, MovedRow DEF EndUnsent, Release, Terminal, OrderStatus
    <2> QED
      BY <1>7, <2>2, <2>3 DEF Recheck
  <1>8. CASE RecordSubmit(p)
    <2>1. j \in Orders /\ UNCHANGED head
      BY <1>0, <1>8 DEF RecordSubmit, SenderTypes, heads
    <2>2. CASE UNCHANGED <<mode, wallet, orderRows, view>>
      BY <2>1, <2>2, StillRows DEF orderRows, wallet
    <2>3. CASE HasLease(p) /\ status[j] = "SUBMITTING"
      <3>1. at[p].answer \in {"accepted", "rejected", "unknown"}
        BY <1>8 DEF AnswerTypes, RecordSubmit
      <3>2. PICK s \in {"REJECTED", "ACKNOWLEDGED", "UNKNOWN"} :
               status' = [status EXCEPT ![j] = s] /\ (s = "UNKNOWN" => mode' = "HALTED")
        BY <1>8, <2>3, <3>1 DEF RecordSubmit, Release
      <3>3. UNCHANGED <<filled, settlement, quote, base>>
        BY <1>8, <2>3 DEF RecordSubmit
      <3>4. s \in OrderStatus /\ s # "NEW" /\ status[j] \notin Terminal \union {"NEW"}
        BY <2>3 DEF OrderStatus, Terminal, Uncertain
      <3> QED
        BY <1>0, <2>1, <3>2, <3>3, <3>4, MovedRow
    <2> QED
      BY <1>8, <2>2, <2>3 DEF RecordSubmit
  <1>9. \E v \in Verdicts : \E old \in BOOLEAN : TRUE
    BY DEF Verdicts
  <1> QED
    BY <1>1, <1>2, <1>3, <1>4, <1>5, <1>6, <1>7, <1>8, <1>9 DEF Submitting

\* cancel, and the mark of an uncertain outcome.
LEMMA CancelingRows ==
    ASSUME SenderInv, RowTypes, AnswerTypes, Latched, NEW p \in Procs,
           Canceling(p) \/ MarkUncertain(p)
    PROVE  RowStepOK
PROOF
  <1> DEFINE j == at[p].order
  <1> USE DEF At
  <1>0. SenderTypes
    BY DEF SenderInv
  <1>1. ASSUME NEW i \in Orders, StartCancel(p, i) PROVE RowStepOK
    <2>1. PICK s \in {"CANCELED", "CANCEL_PENDING"} : status' = [status EXCEPT ![i] = s]
      BY <1>1 DEF StartCancel, EndUnsent, Release
    <2>2. UNCHANGED <<filled, settlement, quote, base, head>>
      BY <1>1 DEF StartCancel, EndUnsent, wallet, heads
    <2>3. status[i] \notin Terminal \union {"NEW"} /\ s \in OrderStatus
      BY <1>1 DEF StartCancel, Terminal, OrderStatus, Uncertain
    <2> QED
      BY <1>0, <2>1, <2>2, <2>3, MovedRow
  <1>2. ASSUME NEW a, CancelAnswered(p, a) \/ CancelRaises(p) PROVE RowStepOK
    BY <1>2, StillRows DEF CancelAnswered, CancelRaises, account, wallet, orderRows, heads
  <1>3. CASE RecordCancel(p)
    <2>1. j \in Orders /\ UNCHANGED head
      BY <1>0, <1>3 DEF RecordCancel, SenderTypes, heads
    <2>2. CASE UNCHANGED <<wallet, orderRows, view>>
      BY <2>1, <2>2, StillRows DEF orderRows, wallet
    <2>3. CASE HasLease(p) /\ status[j] = "CANCEL_PENDING"
      <3>1. PICK s \in {"CANCELED", "CANCEL_PENDING", "PARTIALLY_FILLED", "ACKNOWLEDGED"} :
               status' = [status EXCEPT ![j] = s]
        BY <1>3, <2>3 DEF RecordCancel, Release
      <3>2. UNCHANGED <<filled, settlement, quote, base>>
        BY <1>3, <2>3 DEF RecordCancel, wallet
      <3>3. status[j] \notin Terminal \union {"NEW"} /\ s \in OrderStatus
        BY <2>3 DEF OrderStatus, Terminal, Uncertain
      <3> QED
        BY <1>0, <2>1, <3>1, <3>2, <3>3, MovedRow
    <2> QED
      BY <1>3, <2>2, <2>3 DEF RecordCancel
  <1>4. CASE MarkUncertain(p)
    <2>1. j \in Orders /\ UNCHANGED <<filled, settlement, quote, base, head>>
      BY <1>0, <1>4 DEF MarkUncertain, SenderTypes, heads, wallet
    <2>2. CASE UNCHANGED <<mode, status, view>>
      BY <2>1, <2>2, StillRows
    <2>3. CASE /\ status[j] \notin Terminal
               /\ at[p].answer # "any" => status[j] \in {at[p].answer, "UNKNOWN"}
               /\ status' = [status EXCEPT ![j] = "UNKNOWN"]
               /\ mode' = "HALTED"
      <3>1. at[p].answer \in Answers
        BY <1>0 DEF SenderTypes, Call
      <3>2. status[j] # "NEW"
        BY <1>4, <2>3, <3>1 DEF MarkUncertain, AnswerTypes, Answers
      <3>3. "UNKNOWN" \in OrderStatus
        BY DEF OrderStatus, Uncertain
      <3> QED
        BY <1>0, <2>1, <2>3, <3>2, <3>3, MovedRow
    <2> QED
      BY <1>4, <2>2, <2>3 DEF MarkUncertain
  <1>5. "unknown" \in {"confirmed", "rejected", "unknown"}
    OBVIOUS
  <1> QED
    BY <1>1, <1>2, <1>3, <1>4, <1>5 DEF Canceling

\* What a process saw at the venue was sent, so its row was claimed.
LEMMA SeenRow ==
    ASSUME SenderInv, NEW p \in Procs, NEW i \in Orders, view[p].of[i] # Unknown
    PROVE  status[i] \notin {"NEW", "RESERVED"}
  BY DEF SenderInv, SenderTypes, OutsideKnows, UnclaimedUnsent

\* A settlement report only breaks what it reports as broken.
LEMMA SettlementReport ==
    ASSUME NEW i \in Orders, NEW s \in SettlementStatus, NEW auth \in BOOLEAN,
           settlement[i] \in SettlementStatus
    PROVE  /\ Settlement(i, s, auth) \in SettlementStatus
           /\ s \notin Broken /\ Settlement(i, s, auth) \in Broken => settlement[i] \in Broken
  BY DEF Settlement, SettlementStatus, Broken

\* apply_fill
LEMMA FillRows ==
    ASSUME SenderInv, RowTypes, NEW p \in Procs, NEW i \in Orders,
           NEW k \in 1..Qty[i], NEW s \in Settlements, IngestFill(p, i, k, s)
    PROVE  RowStepOK
PROOF
  <1>1. SenderTypes /\ status[i] \in OrderStatus
    BY DEF SenderInv, SenderTypes
  <1>2. ApplyFill(i, k, s) /\ UNCHANGED head /\ k \in 1..view[p].of[i].filled
    BY DEF IngestFill, heads
  <1>3. status[i] \notin {"NEW", "RESERVED"}
    <2>1. view[p].of[i] # Unknown
      BY <1>2 DEF Unknown
    <2> QED
      BY <2>1, SeenRow
  <1>4. s \in SettlementStatus
    BY OMSAssumption
  <1>5. /\ settlement' = [settlement EXCEPT ![i] = Settlement(i, s, FALSE)]
        /\ settlement' \in [Orders -> SettlementStatus]
        /\ s \notin Broken => \A j \in Orders : settlement'[j] \in Broken => settlement[j] \in Broken
    BY <1>2, <1>4, SettlementReport DEF ApplyFill, RowTypes
  <1>6. CASE Ingested(i, k)
    <2>1. UNCHANGED <<status, filled, quote, base>> /\ mode' = IF s \in Broken THEN "HALTED" ELSE mode
      BY <1>2, <1>6 DEF ApplyFill, wallet
    <2> QED
      BY <1>2, <1>5, <2>1
      DEF RowStepOK, RowTypes, RowMoves, HeadMoves, HealthKept, NegativeWallet
  <1>7. CASE ~Ingested(i, k)
    <2> DEFINE f == filled[i] + 1
    <2>1. /\ filled' = [filled EXCEPT ![i] = f]
          /\ status' = [status EXCEPT ![i] = FillStatus(i, f)]
          /\ mode' = IF Breach(i) \/ s \in Broken THEN "HALTED" ELSE mode
      BY <1>2, <1>7 DEF ApplyFill
    <2>2. filled' \in [Orders -> Nat]
      BY <2>1 DEF RowTypes
    <2>3. RowMoves
      <3>1. /\ FillStatus(i, f) # "NEW"
            /\ \/ status[i] \notin Terminal
               \/ FillStatus(i, f) = status[i]
               \/ FillStatus(i, f) = "FILLED" /\ f = Qty[i]
        BY <1>3 DEF FillStatus
      <3> QED
        BY <1>1, <1>3, <2>1, <3>1 DEF RowMoves, SenderTypes, RowTypes
    <2>4. HealthKept
      <3>1. FillStatus(i, f) # "UNKNOWN"
        BY DEF FillStatus, Terminal
      <3>2. ~Breach(i) => ~NegativeWallet'
        BY DEF Breach, NegativeWallet
      <3> QED
        BY <1>1, <1>5, <2>1, <3>1, <3>2 DEF HealthKept, SenderTypes
    <2> QED
      BY <1>2, <1>5, <2>2, <2>3, <2>4 DEF RowStepOK, RowTypes, HeadMoves
  <1> QED
    BY <1>6, <1>7

\* _snapshot
LEMMA SnapshotRows ==
    ASSUME SenderInv, RowTypes, Latched, NEW p \in Procs, NEW i \in Orders,
           NEW s \in Settlements, ApplySnapshot(p, i, s)
    PROVE  RowStepOK
PROOF
  <1> DEFINE x == view[p].of[i]
             st == Reported(x)
  <1>1. SenderTypes /\ x \in VenueOrder
    BY DEF SenderInv, SenderTypes, View
  <1>2. UNCHANGED head
    BY DEF ApplySnapshot, heads
  <1>3. CASE UNCHANGED <<mode, wallet, orderRows>>
    BY <1>2, <1>3, StillRows DEF wallet, orderRows
  <1>4. CASE /\ ~SnapshotRefused(i, x)
             /\ status' = [status EXCEPT ![i] = st]
             /\ settlement' = [settlement EXCEPT ![i] = Settlement(i, s, TRUE)]
             /\ mode' = IF s \in Broken THEN "HALTED" ELSE mode
             /\ UNCHANGED <<quote, base, filled>>
    <2>1. Known(x)
      BY DEF ApplySnapshot, SenderInv, TodoKnown
    <2>2. st \in OrderStatus \ {"NEW", "UNKNOWN"}
      BY <1>1, <2>1 DEF Reported, Known, VenueOrder, VenueState, OrderStatus, Terminal
    <2>3. status[i] # "NEW"
      BY <2>1, SeenRow DEF Known, Unknown
    <2>4. status[i] \in Terminal => st = status[i]
      BY <1>4 DEF SnapshotRefused
    <2>5. s \in SettlementStatus
      BY OMSAssumption
    <2>6. /\ settlement' \in [Orders -> SettlementStatus]
          /\ s \notin Broken => \A j \in Orders : settlement'[j] \in Broken => settlement[j] \in Broken
      BY <1>4, <2>5, SettlementReport DEF RowTypes
    <2>7. RowMoves
      BY <1>1, <1>4, <2>2, <2>3, <2>4 DEF RowMoves, SenderTypes
    <2>8. HealthKept
      BY <1>1, <1>4, <2>2, <2>6 DEF HealthKept, SenderTypes, NegativeWallet
    <2> QED
      BY <1>2, <1>4, <2>6, <2>7, <2>8 DEF RowStepOK, RowTypes, HeadMoves
  <1> QED
    BY <1>3, <1>4 DEF ApplySnapshot, Release

\* Operator, watchdog, release registry and clock.
LEMMA ElsewhereRows ==
    ASSUME RowTypes, Elsewhere
    PROVE  RowStepOK
PROOF
  <1>1. UNCHANGED <<status, filled, settlement, quote, base>>
    BY DEF Elsewhere, SetMode, WatchdogStop, RiskCheck, Deactivate, Activate, Expire,
           wallet, orderRows
  <1>2. ASSUME NEW m, SetMode(m) PROVE RowStepOK
    <2>1. UNCHANGED head
      BY <1>2 DEF SetMode, heads
    <2>2. HealthKept
      BY <1>1, <1>2
      DEF HealthKept, SetMode, NegativeWallet, Unsettled, Settled, Broken, Uncertain
    <2> QED
      BY <1>1, <2>1, <2>2 DEF RowStepOK, RowTypes, RowMoves, HeadMoves
  <1>3. CASE WatchdogStop \/ \E i \in Orders : Expire(i)
    BY <1>1, <1>3, StillRows DEF WatchdogStop, Expire, Stopped, Latched, heads
  <1>4. ASSUME NEW v, NEW old, RiskCheck(v, old) PROVE RowStepOK
    BY <1>1, <1>4, StillRows, ReportLatches DEF RiskCheck, heads
  <1>5. ASSUME NEW d, Deactivate \/ Activate(d) PROVE RowStepOK
    BY <1>1, <1>5
    DEF Deactivate, Activate, RowStepOK, RowTypes, RowMoves, HeadMoves, HealthKept,
        NegativeWallet
  <1> QED
    BY <1>2, <1>3, <1>4, <1>5, OMSAssumption DEF Elsewhere

\* Every step moves the rows, the head and the mode as they may move.
LEMMA RowsStep ==
    ASSUME SenderInv, RowTypes, AnswerTypes, [Next]_vars
    PROVE  RowStepOK
PROOF
  <1>1. ASSUME NEW p \in Procs, Process(p) PROVE RowStepOK
    <2>1. Latched
      BY <1>1, ProcessLatches
    <2>2. CASE ClaimLease(p) \/ Crash(p) \/ StartReconcile(p) \/ \E i \in Orders : StartQuery(p, i)
      BY <2>1, <2>2, StillRows
      DEF ClaimLease, Crash, StartReconcile, StartQuery, account, wallet, orderRows, heads
    <2>3. CASE Submitting(p) \/ Canceling(p) \/ MarkUncertain(p)
      BY <2>1, <2>3, SubmittingRows, CancelingRows
    <2>4. ASSUME NEW i \in Orders, NEW s \in Settlements, ApplySnapshot(p, i, s)
          PROVE  RowStepOK
      BY <2>1, <2>4, SnapshotRows
    <2>5. ASSUME NEW i \in Orders, NEW s \in Settlements, NEW k \in 1..Qty[i],
                 IngestFill(p, i, k, s)
          PROVE  RowStepOK
      BY <2>5, FillRows
    <2> QED
      BY <1>1, <2>2, <2>3, <2>4, <2>5 DEF Process, Reconciling
  <1>2. CASE Venue \/ LeaseExpires \/ UNCHANGED vars
    BY <1>2, StillRows
    DEF Venue, VenueReceives, SubmissionLost, VenueFills, VenueEnds, CancelArrives,
        LeaseExpires, account, vars, wallet, orderRows, heads, Latched
  <1> QED
    BY <1>1, <1>2, ElsewhereRows DEF Next

\* A call about to record something is the call of a step before, or has just
\* got an answer, or just failed to learn about an order with a row.
LEMMA AnswersStep ==
    ASSUME SenderInv, RowTypes, AnswerTypes, [Next]_vars
    PROVE  AnswerTypes'
PROOF
  <1> DEFINE Same(q) == /\ at'[q].pc = at[q].pc
                        /\ at'[q].order = at[q].order
                        /\ at'[q].answer = at[q].answer
             Nothing(q) == at'[q].pc \notin {"settle", "doubt"}
             Answered(q) == /\ at'[q].pc = "settle"
                            /\ at'[q].answer \in {"accepted", "rejected", "unknown"}
             Failed(q) == /\ at'[q].pc = "doubt"
                          /\ at'[q].answer = "any" =>
                                at'[q].order \in Orders /\ status[at'[q].order] # "NEW"
             Good(q) == Same(q) \/ Nothing(q) \/ Answered(q) \/ Failed(q)
  <1>0. SenderTypes /\ at \in [Procs -> Call]
    BY DEF SenderInv, SenderTypes
  <1>1. ASSUME NEW p \in Procs, Process(p), NEW q \in Procs PROVE Good(q)
    <2>1. CASE ClaimLease(p)
      BY <2>1 DEF ClaimLease
    <2>2. CASE Submitting(p)
      BY <1>0, <2>2
      DEF Submitting, Reserve, ReserveOverBudget, ClaimOrder, ClaimOverBudget, Recheck,
          CheckReserve, CheckSubmit, Checked, NoTrustedMarket, ClaimRefused, ReserveRefused,
          StopNewRisk, ClaimExpired, SendOrder, SubmitRaises, RecordSubmit, SubmitAnswered,
          Go, Finish, Idle
    <2>3. CASE Canceling(p)
      BY <1>0, <2>3
      DEF Canceling, StartCancel, CancelAnswered, CancelRaises, RecordCancel, Go, Finish, Idle
    <2>4. CASE MarkUncertain(p) \/ Crash(p)
      BY <1>0, <2>4 DEF MarkUncertain, Crash, Finish, Idle
    <2>5. CASE StartReconcile(p) \/ \E i \in Orders : StartQuery(p, i)
      BY <1>0, <2>5 DEF StartReconcile, StartQuery, Go
    <2>6. ASSUME NEW i \in Orders, NEW s \in Settlements, ApplySnapshot(p, i, s)
          PROVE  Good(q)
      <3>0. Known(view[p].of[i])
        BY <2>6 DEF ApplySnapshot, SenderInv, TodoKnown
      <3>1. view[p].of[i] # Unknown
        BY <3>0 DEF Known, Unknown
      <3>2. status[i] # "NEW"
        BY <3>1, SeenRow
      <3>3. PassOver(p, i) \/ Finish(p) \/ Go(p, "doubt", i, "any")
        BY <2>6 DEF ApplySnapshot
      <3>4. at[p] \in Call
        BY <1>0
      <3> QED
        BY <1>0, <3>2, <3>3, <3>4 DEF PassOver, Finish, Go, Idle, Call
    <2>7. ASSUME NEW i \in Orders, NEW s \in Settlements, NEW k \in 1..Qty[i],
                 IngestFill(p, i, k, s)
          PROVE  Good(q)
      BY <2>7 DEF IngestFill
    <2> QED
      BY <1>1, <2>1, <2>2, <2>3, <2>4, <2>5, <2>6, <2>7 DEF Process, Reconciling
  <1>2. ASSUME Venue \/ Elsewhere \/ LeaseExpires \/ UNCHANGED vars, NEW q \in Procs
        PROVE  Good(q)
    BY <1>2 DEF Venue, VenueReceives, SubmissionLost, VenueFills, VenueEnds, CancelArrives,
                Elsewhere, LeaseExpires, vars
  <1>3. \A q \in Procs : Good(q)
    BY <1>1, <1>2 DEF Next
  <1>4. \A i \in Orders : status[i] # "NEW" => status'[i] # "NEW"
    BY RowsStep DEF RowStepOK, RowMoves, Terminal
  <1> QED
    <2>1. ASSUME NEW q \in Procs, at'[q].pc = "settle"
          PROVE  at'[q].answer \in {"accepted", "rejected", "unknown"}
      BY <1>3, <2>1 DEF AnswerTypes
    <2>2. ASSUME NEW q \in Procs, at'[q].pc = "doubt", at'[q].answer = "any"
          PROVE  status'[at'[q].order] # "NEW"
      BY <1>0, <1>3, <1>4, <2>2 DEF AnswerTypes, SenderTypes
    <2> QED
      BY <2>1, <2>2 DEF AnswerTypes

-----------------------------------------------------------------------------
(* The invariant and the theorems.                                         *)

\* The inductive invariant of the rows, on top of SenderInv.
RowInv ==
    /\ RowTypes
    /\ AnswerTypes
    /\ ActiveIsHealthy
    /\ OpenOrdersBelongToHead

LEMMA RowInvInit == Init => RowInv
PROOF
  <1> SUFFICES ASSUME Init PROVE RowInv
    OBVIOUS
  <1>1. RowTypes /\ AnswerTypes
    BY DEF Init, InitAccount, RowTypes, SettlementStatus, AnswerTypes, Idle
  <1>2. ActiveIsHealthy
    BY AccountAssumption DEF Init, InitAccount, ActiveIsHealthy, NegativeWallet, Broken
  <1>3. OpenOrdersBelongToHead
    BY DEF Init, InitAccount, OpenOrdersBelongToHead
  <1> QED
    BY <1>1, <1>2, <1>3 DEF RowInv

LEMMA RowInvStep == SenderInv /\ RowInv /\ [Next]_vars => RowInv'
PROOF
  <1> SUFFICES ASSUME SenderInv, RowInv, [Next]_vars PROVE RowInv'
    OBVIOUS
  <1>1. RowStepOK /\ AnswerTypes'
    BY RowsStep, AnswersStep DEF RowInv
  <1>2. ActiveIsHealthy'
    BY <1>1 DEF RowStepOK, HealthKept, ActiveIsHealthy, RowInv
  <1>3. OpenOrdersBelongToHead'
    <2>1. CASE UNCHANGED head
      BY <1>1, <2>1 DEF RowStepOK, RowMoves, OpenOrdersBelongToHead, RowInv, Current, Terminal
    <2>2. CASE Flat /\ UNCHANGED status
      BY <2>2 DEF Flat, OpenOrdersBelongToHead
    <2> QED
      BY <1>1, <2>1, <2>2 DEF RowStepOK, HeadMoves
  <1> QED
    BY <1>1, <1>2, <1>3 DEF RowInv, RowStepOK

\* The rows keep their invariant while the senders keep theirs.
THEOREM RowInvariant == Spec => []RowInv
  BY RowInvInit, RowInvStep, SenderInvariant, PTL DEF Spec

\* set_mode, _uncertain, _submit, apply_fill and _snapshot: whatever makes an
\* account unhealthy halts it, and only a healthy one is made ACTIVE again.
THEOREM ActiveMeansHealthy == Spec => []ActiveIsHealthy
PROOF
  <1>1. RowInv => ActiveIsHealthy
    BY DEF RowInv
  <1> QED
    BY <1>1, RowInvariant, PTL

\* activate and deactivate wait for a flat account, and _reserve for the head:
\* an order is never open under a head that is not its own.
THEOREM OpenUnderHead == Spec => []OpenOrdersBelongToHead
PROOF
  <1>1. RowInv => OpenOrdersBelongToHead
    BY DEF RowInv
  <1> QED
    BY <1>1, RowInvariant, PTL

\* Stale views, late fills and late errors never reopen an order.
THEOREM ClosedStaysClosed == Spec => TerminalFinal
PROOF
  <1>1. SenderInv /\ RowInv /\ [Next]_vars =>
          [\A i \in Orders :
              status[i] \in Terminal =>
                 status'[i] = status[i] \/ (status'[i] = "FILLED" /\ filled'[i] = Qty[i])]_vars
    BY RowsStep DEF RowInv, RowStepOK, RowMoves, Terminal
  <1> QED
    BY <1>1, SenderInvariant, RowInvariant, PTL DEF Spec, TerminalFinal

-----------------------------------------------------------------------------
(* The venue and what is known of it.                                      *)

\* An open order is not filled completely, an order under way has not arrived.
VenueTrue ==
    \A i \in Orders :
        /\ venue[i].filled <= Qty[i]
        /\ venue[i].state = "OPEN" => venue[i].filled < Qty[i]
        /\ venue[i].state = "NONE" => venue[i].filled = 0
        /\ i \in wire => venue[i].state = "NONE"

\* A view may be old: it shows no fill the venue has not, and an end is final.
ViewsTrue ==
    \A p \in Procs, i \in Orders :
        /\ view[p].of[i].filled <= venue[i].filled
        /\ view[p].of[i].state \in Ended => venue[i].state = view[p].of[i].state

\* So is an answer that a process has not recorded yet.
AnswersTrue ==
    \A p \in Procs :
        /\ at[p].pc = "settle" /\ at[p].answer = "rejected" =>
              venue[at[p].order].state = "REJECTED"
        /\ at[p].pc = "settleCancel" /\ at[p].answer = "confirmed" =>
              venue[at[p].order].state = "CANCELED"

OutsideInv == VenueTrue /\ ViewsTrue /\ AnswersTrue

\* What the venue does to an order.
VenueMoves ==
    \A i \in Orders :
        /\ venue'[i].filled >= venue[i].filled
        /\ venue[i].state \in Ended => venue'[i].state = venue[i].state

\* At the start nothing is known and nothing is under way.
LEMMA OutsideInvInit == Init => OutsideInv
PROOF
  <1> SUFFICES ASSUME Init PROVE OutsideInv
    OBVIOUS
  <1>1. VenueTrue
    BY AccountAssumption DEF Init, VenueTrue, Unknown
  <1>2. ViewsTrue
    BY DEF Init, ViewsTrue, NoView, Unknown, Ended
  <1>3. AnswersTrue
    BY DEF Init, AnswersTrue, Idle
  <1> QED
    BY <1>1, <1>2, <1>3 DEF OutsideInv

\* The venue moves by itself.
LEMMA VenueMovesOn ==
    ASSUME SenderInv, OutsideInv, Venue
    PROVE  VenueTrue' /\ VenueMoves /\ UNCHANGED <<view, at>>
PROOF
  <1>1. PICK i \in Orders : \/ VenueReceives(i) \/ SubmissionLost(i) \/ VenueFills(i)
                            \/ VenueEnds(i) \/ CancelArrives(i)
    BY DEF Venue
  <1>2. UNCHANGED <<view, at>>
    BY <1>1 DEF VenueReceives, SubmissionLost, VenueFills, VenueEnds, CancelArrives
  <1>3. venue \in [Orders -> VenueOrder] /\ venue[i] \in VenueOrder /\ Qty[i] \in Nat \ {0}
    BY AccountAssumption DEF SenderInv, SenderTypes
  <1>4. \A j \in Orders : venue[j].filled \in Nat /\ venue[j].state \in VenueState
    BY <1>3 DEF VenueOrder
  <1>5. CASE VenueReceives(i)
    <2>1. venue[i].state = "NONE" /\ venue[i].filled = 0
      BY <1>5 DEF VenueReceives, OutsideInv, VenueTrue
    <2>2. PICK s \in {"OPEN", "REJECTED"} : venue' = [venue EXCEPT ![i].state = s]
      BY <1>5 DEF VenueReceives
    <2>3. /\ venue'[i].state = s /\ venue'[i].filled = 0
          /\ \A j \in Orders \ {i} : venue'[j] = venue[j]
      BY <1>3, <2>1, <2>2 DEF VenueOrder
    <2>4. wire' = wire \ {i}
      BY <1>5 DEF VenueReceives
    <2>5. VenueTrue'
      BY <1>3, <1>4, <2>1, <2>3, <2>4 DEF OutsideInv, VenueTrue
    <2>6. VenueMoves
      BY <1>3, <1>4, <2>1, <2>3 DEF VenueMoves, Ended
    <2> QED
      BY <1>2, <2>5, <2>6
  <1>6. CASE SubmissionLost(i)
    BY <1>4, <1>6 DEF SubmissionLost, OutsideInv, VenueTrue, VenueMoves
  <1>7. CASE VenueFills(i)
    <2> DEFINE f == venue[i].filled + 1
               x == [state |-> IF f = Qty[i] THEN "FILLED" ELSE "OPEN", filled |-> f]
    <2>1. venue[i].state = "OPEN" /\ venue[i].filled < Qty[i] /\ i \notin wire
      BY <1>7 DEF VenueFills, OutsideInv, VenueTrue
    <2>2. venue' = [venue EXCEPT ![i] = x] /\ wire' = wire
      BY <1>7 DEF VenueFills
    <2>3. /\ venue'[i].state = IF f = Qty[i] THEN "FILLED" ELSE "OPEN"
          /\ venue'[i].filled = f
          /\ \A j \in Orders \ {i} : venue'[j] = venue[j]
      BY <1>3, <2>2
    <2> HIDE DEF x
    <2>4. f \in Nat /\ f <= Qty[i] /\ f >= venue[i].filled
      BY <1>3, <1>4, <2>1
    <2> HIDE DEF f
    <2>5. VenueTrue'
      <3> SUFFICES ASSUME NEW j \in Orders
                   PROVE  /\ venue'[j].filled <= Qty[j]
                          /\ venue'[j].state = "OPEN" => venue'[j].filled < Qty[j]
                          /\ venue'[j].state = "NONE" => venue'[j].filled = 0
                          /\ j \in wire' => venue'[j].state = "NONE"
        BY DEF VenueTrue
      <3>1. CASE j = i
        BY <1>3, <2>1, <2>2, <2>3, <2>4, <3>1
      <3>2. CASE j # i
        BY <2>2, <2>3, <3>2 DEF OutsideInv, VenueTrue
      <3> QED
        BY <3>1, <3>2
    <2>6. VenueMoves
      BY <1>3, <1>4, <2>1, <2>3, <2>4 DEF VenueMoves, Ended
    <2> QED
      BY <1>2, <2>5, <2>6
  <1>8. CASE VenueEnds(i) \/ CancelArrives(i)
    <2>1. CASE UNCHANGED venue
      BY <1>4, <1>8, <2>1 DEF VenueEnds, CancelArrives, OutsideInv, VenueTrue, VenueMoves
    <2>2. CASE venue[i].state = "OPEN" /\ venue' = [venue EXCEPT ![i].state = "CANCELED"]
      <3>1. /\ venue'[i].state = "CANCELED" /\ venue'[i].filled = venue[i].filled
            /\ \A j \in Orders \ {i} : venue'[j] = venue[j]
        BY <1>3, <2>2 DEF VenueOrder
      <3>2. wire' = wire
        BY <1>8 DEF VenueEnds, CancelArrives
      <3>3. VenueTrue'
        BY <1>3, <1>4, <2>2, <3>1, <3>2 DEF OutsideInv, VenueTrue
      <3>4. VenueMoves
        BY <1>3, <1>4, <2>2, <3>1 DEF VenueMoves, Ended
      <3> QED
        BY <1>2, <3>3, <3>4
    <2>3. venue[i].state # "OPEN" /\ CancelArrives(i) => UNCHANGED venue
      BY <1>3 DEF CancelArrives, VenueOrder
    <2>4. venue[i].state = "OPEN" /\ CancelArrives(i) =>
             UNCHANGED venue \/ venue' = [venue EXCEPT ![i].state = "CANCELED"]
      BY DEF CancelArrives
    <2> QED
      BY <1>8, <2>1, <2>2, <2>3, <2>4 DEF VenueEnds
  <1> QED
    BY <1>1, <1>2, <1>5, <1>6, <1>7, <1>8

\* What a process reads is what the venue knows then.
LEMMA ProcessViews ==
    ASSUME SenderInv, NEW p \in Procs, Process(p)
    PROVE  /\ view' \in [Procs -> View]
           /\ \A q \in Procs : view'[q].of \in {view[q].of, venue, NoView.of}
PROOF
  <1>0. SenderTypes /\ view \in [Procs -> View]
    BY DEF SenderInv, SenderTypes
  <1>1. CASE UNCHANGED view
    BY <1>0, <1>1
  <1>2. ASSUME NEW i \in Orders, Touch(i) PROVE /\ view' \in [Procs -> View]
           /\ \A q \in Procs : view'[q].of \in {view[q].of, venue, NoView.of}
    BY <1>0, <1>2, TouchKeepsViews
  <1>3. CASE Look(p)
    BY <1>0, <1>3, LookShowsVenue DEF SenderTypes
  <1>4. CASE Forget(p)
    <2>1. /\ view' \in [Procs -> View]
          /\ \A q \in Procs : view'[q].of = view[q].of \/ view'[q] = NoView
      BY <1>0, <1>4, ForgetClearsView DEF SenderTypes
    <2> QED
      BY <2>1
  <1>5. ASSUME NEW i \in Orders, NEW s \in Settlements, ApplySnapshot(p, i, s)
        PROVE  /\ view' \in [Procs -> View]
               /\ \A q \in Procs : view'[q].of \in {view[q].of, venue, NoView.of}
    <2>1. CASE UNCHANGED view \/ Forget(p)
      BY <1>1, <1>4, <2>1
    <2>2. CASE ~(UNCHANGED view \/ Forget(p))
      <3>1. view' = [q \in Procs |->
              IF q = p THEN IF at[p].todo = {i} THEN NoView ELSE [view[p] EXCEPT !.old = @ \union {i}]
              ELSE IF ~Reading(q) THEN view[q]
              ELSE [view[q] EXCEPT
                      !.old = @ \union {i},
                      !.gone = IF p \in view[q].after THEN @ \union {i} ELSE @,
                      !.after = IF at[p].todo = {i} THEN @ \ {p} ELSE @]]
        BY <1>5, <2>2 DEF ApplySnapshot
      <3>2. /\ view' \in [Procs -> View]
            /\ \A q \in Procs : view'[q].of = view[q].of \/ view'[q] = NoView
        BY <1>0, <3>1, SnapshotViews
      <3> QED
        BY <3>2
    <2> QED
      BY <2>1, <2>2
  <1>6. CASE Submitting(p)
    <2>1. at[p].pc \notin {"idle", "ingest"} => at[p].order \in Orders
      BY <1>0 DEF SenderTypes
    <2>2. UNCHANGED view \/ \E i \in Orders : Touch(i)
      BY <1>6, <2>1
      DEF Submitting, Reserve, ReserveOverBudget, ClaimOrder, ClaimOverBudget, Recheck,
          CheckReserve, CheckSubmit, Checked, NoTrustedMarket, ClaimRefused, ReserveRefused,
          StopNewRisk, ClaimExpired, SendOrder, SubmitRaises, RecordSubmit, SubmitAnswered, At
    <2> QED
      BY <1>1, <1>2, <2>2
  <1>7. CASE Canceling(p) \/ MarkUncertain(p)
    <2>1. at[p].pc \notin {"idle", "ingest"} => at[p].order \in Orders
      BY <1>0 DEF SenderTypes
    <2>2. UNCHANGED view \/ \E i \in Orders : Touch(i)
      BY <1>7, <2>1
      DEF Canceling, StartCancel, CancelAnswered, CancelRaises, RecordCancel, MarkUncertain, At
    <2> QED
      BY <1>1, <1>2, <2>2
  <1>8. CASE ClaimLease(p) \/ Crash(p) \/ StartReconcile(p) \/ \E i \in Orders : StartQuery(p, i)
    <2>1. UNCHANGED view \/ Look(p) \/ Forget(p)
      BY <1>8 DEF ClaimLease, Crash, StartReconcile, StartQuery
    <2> QED
      BY <1>1, <1>3, <1>4, <2>1
  <1>9. ASSUME NEW i \in Orders, NEW s \in Settlements, NEW k \in 1..Qty[i], IngestFill(p, i, k, s)
        PROVE  UNCHANGED view \/ Touch(i)
    BY <1>9 DEF IngestFill
  <1> QED
    BY <1>1, <1>2, <1>5, <1>6, <1>7, <1>8, <1>9 DEF Process, Reconciling

\* Where a process comes by an answer, the answer is true.
LEMMA ProcessAnswers ==
    ASSUME SenderInv, OutsideInv, NEW p \in Procs, Process(p)
    PROVE  AnswersTrue'
PROOF
  <1> DEFINE Same(q) == /\ at'[q].pc = at[q].pc
                        /\ at'[q].order = at[q].order
                        /\ at'[q].answer = at[q].answer
             Nothing(q) == at'[q].pc \notin {"settle", "settleCancel"}
             Refused(q) == /\ at'[q].pc = "settle"
                           /\ at'[q].answer = "rejected" => venue[at'[q].order].state = "REJECTED"
             Cancelled(q) == /\ at'[q].pc = "settleCancel"
                             /\ at'[q].answer = "confirmed" => venue[at'[q].order].state = "CANCELED"
             Good(q) == Same(q) \/ Nothing(q) \/ Refused(q) \/ Cancelled(q)
  <1>0. SenderTypes /\ at \in [Procs -> Call]
    BY DEF SenderInv, SenderTypes
  <1>1. UNCHANGED venue
    BY DEF Process, Submitting, Canceling, Reconciling, external, ClaimLease,
       Reserve, ReserveOverBudget, ClaimOrder, ClaimOverBudget, Recheck,
       CheckReserve, CheckSubmit, Checked, NoTrustedMarket, ClaimRefused, ReserveRefused,
       StopNewRisk, ClaimExpired, SendOrder, SubmitRaises, RecordSubmit, SubmitAnswered,
       StartCancel, CancelAnswered, CancelRaises, RecordCancel, MarkUncertain, Crash,
       StartReconcile, StartQuery, ApplySnapshot, IngestFill
  <1>2. ASSUME NEW q \in Procs PROVE Good(q)
    <2>1. CASE ClaimLease(p)
      BY <2>1 DEF ClaimLease
    <2>2. CASE Submitting(p)
      <3>1. ASSUME NEW a \in {"accepted", "rejected", "unknown"}, SubmitAnswered(p, a)
            PROVE  Good(q)
        BY <1>0, <3>1 DEF SubmitAnswered, Accepts, Go
      <3>2. CASE ~\E a \in {"accepted", "rejected", "unknown"} : SubmitAnswered(p, a)
        BY <1>0, <2>2, <3>2
        DEF Submitting, Reserve, ReserveOverBudget, ClaimOrder, ClaimOverBudget, Recheck,
            CheckReserve, CheckSubmit, Checked, NoTrustedMarket, ClaimRefused, ReserveRefused,
            StopNewRisk, ClaimExpired, SendOrder, SubmitRaises, RecordSubmit,
            Go, Finish, Idle
      <3> QED
        BY <3>1, <3>2
    <2>3. CASE Canceling(p)
      BY <1>0, <2>3
      DEF Canceling, StartCancel, CancelAnswered, CancelRaises, RecordCancel, Go, Finish, Idle
    <2>4. CASE MarkUncertain(p) \/ Crash(p)
      BY <1>0, <2>4 DEF MarkUncertain, Crash, Finish, Idle
    <2>5. CASE StartReconcile(p) \/ \E i \in Orders : StartQuery(p, i)
      BY <1>0, <2>5 DEF StartReconcile, StartQuery, Go
    <2>6. ASSUME NEW i \in Orders, NEW s \in Settlements, ApplySnapshot(p, i, s)
          PROVE  Good(q)
      <3>1. PassOver(p, i) \/ Finish(p) \/ Go(p, "doubt", i, "any")
        BY <2>6 DEF ApplySnapshot
      <3>2. at[p] \in Call
        BY <1>0
      <3> QED
        BY <1>0, <3>1, <3>2 DEF PassOver, Finish, Go, Idle, Call
    <2>7. ASSUME NEW i \in Orders, NEW s \in Settlements, NEW k \in 1..Qty[i],
                 IngestFill(p, i, k, s)
          PROVE  Good(q)
      BY <2>7 DEF IngestFill
    <2> QED
      BY <2>1, <2>2, <2>3, <2>4, <2>5, <2>6, <2>7 DEF Process, Reconciling
  <1> QED
    BY <1>1, <1>2 DEF AnswersTrue, OutsideInv

\* What a process does outside: it sends an order that nobody knows yet.
LEMMA ProcessOutside ==
    ASSUME SenderInv, NEW p \in Procs, Process(p)
    PROVE  /\ UNCHANGED venue
           /\ \A i \in Orders : (i \in wire' /\ i \notin wire) \/ sends'[i] # sends[i] =>
                 venue[i] = Unknown /\ status'[i] = status[i] /\ status[i] \notin Terminal
PROOF
  <1>1. UNCHANGED venue
    BY DEF Process, Submitting, Canceling, Reconciling, external, ClaimLease,
       Reserve, ReserveOverBudget, ClaimOrder, ClaimOverBudget, Recheck,
       CheckReserve, CheckSubmit, Checked, NoTrustedMarket, ClaimRefused, ReserveRefused,
       StopNewRisk, ClaimExpired, SendOrder, SubmitRaises, RecordSubmit, SubmitAnswered,
       StartCancel, CancelAnswered, CancelRaises, RecordCancel, MarkUncertain, Crash,
       StartReconcile, StartQuery, ApplySnapshot, IngestFill
  <1>2. UNCHANGED <<wire, sends>> \/ SendOrder(p)
    <2>1. CASE Submitting(p)
      BY <2>1
      DEF Submitting, external, Reserve, ReserveOverBudget, ClaimOrder, ClaimOverBudget,
          Recheck, CheckReserve, CheckSubmit, Checked, NoTrustedMarket, ClaimRefused,
          ReserveRefused, StopNewRisk, ClaimExpired, SubmitRaises, RecordSubmit, SubmitAnswered
    <2>2. CASE Canceling(p) \/ MarkUncertain(p) \/ Crash(p) \/ ClaimLease(p)
      BY <2>2
      DEF Canceling, external, StartCancel, CancelAnswered, CancelRaises, RecordCancel,
          MarkUncertain, Crash, ClaimLease
    <2>3. CASE Reconciling(p)
      BY <2>3
      DEF Reconciling, external, StartReconcile, StartQuery, ApplySnapshot, IngestFill
    <2> QED
      BY <2>1, <2>2, <2>3 DEF Process
  <1>3. CASE SendOrder(p)
    <2> DEFINE j == at[p].order
    <2>0. SenderTypes
      BY DEF SenderInv
    <2>1. j \in Orders /\ at[p].pc = "send"
      BY <1>3, <2>0 DEF SenderTypes, SendOrder, At
    <2>2. sends[j] = 0 /\ status[j] \notin Terminal
      BY <2>1 DEF SenderInv, BlockingRow, Acts, Acting, Terminal
    <2>3. venue[j] = Unknown
      BY <2>1, <2>2 DEF SenderInv, OutsideKnows
    <2>4. wire' = wire \union {j} /\ sends' = [sends EXCEPT ![j] = @ + 1] /\ status' = status
      BY <1>3 DEF SendOrder, account, orderRows
    <2>5. sends \in [Orders -> Nat]
      BY <2>0 DEF SenderTypes
    <2> HIDE DEF j
    <2> QED
      BY <1>1, <2>1, <2>2, <2>3, <2>4, <2>5
  <1> QED
    BY <1>1, <1>2, <1>3

\* The invariant holds on.
LEMMA OutsideStep == SenderInv /\ OutsideInv /\ [Next]_vars => OutsideInv' /\ VenueMoves
PROOF
  <1> SUFFICES ASSUME SenderInv, OutsideInv, [Next]_vars PROVE OutsideInv' /\ VenueMoves
    OBVIOUS
  <1>0. /\ venue \in [Orders -> VenueOrder] /\ view \in [Procs -> View] /\ at \in [Procs -> Call]
        /\ \A p \in Procs : at[p].pc \notin {"idle", "ingest"} => at[p].order \in Orders
        /\ \A i \in Orders : venue[i].filled \in Nat
    BY DEF SenderInv, SenderTypes, VenueOrder
  <1>1. ASSUME UNCHANGED <<venue, wire, view, at>> PROVE OutsideInv' /\ VenueMoves
    BY <1>0, <1>1 DEF OutsideInv, VenueTrue, ViewsTrue, AnswersTrue, VenueMoves
  <1>2. CASE Elsewhere \/ LeaseExpires \/ UNCHANGED vars
    BY <1>1, <1>2 DEF Elsewhere, LeaseExpires, vars, external
  <1>3. CASE Venue
    <2>1. VenueTrue' /\ VenueMoves /\ UNCHANGED <<view, at>>
      BY <1>3, VenueMovesOn
    <2>2. \A i \in Orders : venue'[i].filled \in Nat
      BY <1>0, SenderInvStep DEF SenderInv, SenderTypes, VenueOrder
    <2>3. ViewsTrue'
      <3> SUFFICES ASSUME NEW p \in Procs, NEW i \in Orders
                   PROVE  /\ view[p].of[i].filled <= venue'[i].filled
                          /\ view[p].of[i].state \in Ended => venue'[i].state = view[p].of[i].state
        BY <2>1 DEF ViewsTrue
      <3>1. view[p].of[i].filled \in Nat
        BY <1>0 DEF View, VenueOrder
      <3>2. view[p].of[i].filled <= venue[i].filled /\ venue[i].filled <= venue'[i].filled
        BY <2>1 DEF OutsideInv, ViewsTrue, VenueMoves
      <3>3. view[p].of[i].state \in Ended => venue'[i].state = view[p].of[i].state
        BY <2>1 DEF OutsideInv, ViewsTrue, VenueMoves
      <3> QED
        BY <1>0, <2>2, <3>1, <3>2, <3>3
    <2>4. AnswersTrue'
      BY <1>0, <2>1 DEF OutsideInv, AnswersTrue, VenueMoves, Ended
    <2> QED
      BY <2>1, <2>3, <2>4 DEF OutsideInv
  <1>4. ASSUME NEW p \in Procs, Process(p) PROVE OutsideInv' /\ VenueMoves
    <2>1. UNCHANGED venue
      BY <1>4, ProcessOutside
    <2>2. \A i \in Orders : i \in wire' /\ i \notin wire => venue[i] = Unknown
      BY <1>4, ProcessOutside
    <2>3. VenueTrue'
      BY <2>1, <2>2 DEF OutsideInv, VenueTrue, Unknown
    <2>4. \A q \in Procs : view'[q].of \in {view[q].of, venue, NoView.of}
      BY <1>4, ProcessViews
    <2>5. ViewsTrue'
      <3> SUFFICES ASSUME NEW q \in Procs, NEW i \in Orders
                   PROVE  /\ view'[q].of[i].filled <= venue[i].filled
                          /\ view'[q].of[i].state \in Ended => venue[i].state = view'[q].of[i].state
        BY <2>1 DEF ViewsTrue
      <3>1. CASE view'[q].of = view[q].of
        BY <3>1 DEF OutsideInv, ViewsTrue
      <3>2. CASE view'[q].of = venue
        BY <1>0, <3>2
      <3>3. CASE view'[q].of = NoView.of
        BY <1>0, <3>3, FreshView DEF Unknown, Ended
      <3> QED
        BY <2>4, <3>1, <3>2, <3>3
    <2>6. AnswersTrue'
      BY <1>4, ProcessAnswers
    <2>7. VenueMoves
      BY <1>0, <2>1 DEF VenueMoves
    <2> QED
      BY <2>3, <2>5, <2>6, <2>7 DEF OutsideInv
  <1> QED
    BY <1>2, <1>3, <1>4 DEF Next

\* What a process has read or was answered is true of the venue, however old it
\* is: submit and cancel answers and reconcile's batches only fall behind.
THEOREM OutsideInvariant == Spec => []OutsideInv
  BY OutsideInvInit, OutsideStep, SenderInvariant, PTL DEF Spec

-----------------------------------------------------------------------------
(* How a step moves the money of the orders.                               *)

\* An order that holds nothing: it has no row yet, or its row is closed.
Empty == Terminal \union {"NEW"}

\* No row takes, frees or spends anything.
Still ==
    /\ UNCHANGED <<reserved, quote, base, filled, res, trades>>
    /\ \A i \in Orders : /\ status'[i] \in Empty <=> status[i] \in Empty
                         /\ status'[i] \in Terminal => status[i] \in Terminal

\* Order i is closed and frees what it holds: it was not sent or it has ended.
Closing(i) ==
    /\ \E s \in Terminal : Release(i, s)
    /\ UNCHANGED <<quote, base, filled, trades>>
    /\ sends[i] > 0 => venue[i].state \in Ended

\* Order i takes what it needs, and the account can afford it.
Taking(i) ==
    /\ status[i] = "NEW"
    /\ Affordable(i) /\ ~NegativeWallet
    /\ ReserveRow(i)

\* A trade of order i is booked for the first time.
Filling(i, k) ==
    LET f == filled[i] + 1
        left == FillReservation(i, f)
        units == IF i \in Buys THEN 1 ELSE -1
    IN
    /\ status[i] \notin {"NEW", "RESERVED"}
    /\ k \notin trades[i] /\ k \in 1..venue[i].filled /\ f <= Qty[i]
    /\ trades' = [trades EXCEPT ![i] = @ \union {k}]
    /\ filled' = [filled EXCEPT ![i] = f]
    /\ res' = [res EXCEPT ![i] = left]
    /\ status' = [status EXCEPT ![i] = FillStatus(i, f)]
    /\ base' = base + units
    /\ quote' = quote - units - Extra[i]
    /\ reserved' = IF i \in Buys THEN reserved - res[i] + left ELSE reserved
    /\ Breach(i) => mode' = "HALTED"

MoneyMoves ==
    \/ Still
    \/ \E i \in Orders : Closing(i) \/ Taking(i) \/ \E k \in Nat : Filling(i, k)

\* A step that leaves the rows and the wallet alone.
LEMMA StillMoney ==
    ASSUME UNCHANGED <<reserved, quote, base, status, filled, res, trades>>
    PROVE  MoneyMoves
  BY DEF MoneyMoves, Still

\* A row that holds something keeps it when only its status moves.
LEMMA MovedMoney ==
    ASSUME SenderTypes, NEW i \in Orders, NEW s \in OrderStatus \ Empty, status[i] \notin Empty,
           status' = [status EXCEPT ![i] = s],
           UNCHANGED <<reserved, quote, base, filled, res, trades>>
    PROVE  MoneyMoves
  BY DEF MoneyMoves, Still, SenderTypes, Empty

\* _release of an order that was not sent or has ended at the venue.
LEMMA ClosedMoney ==
    ASSUME NEW i \in Orders, NEW s \in Terminal, Release(i, s),
           UNCHANGED <<quote, base, filled, trades>>,
           sends[i] > 0 => venue[i].state \in Ended
    PROVE  MoneyMoves
  BY DEF MoneyMoves, Closing

\* EndUnsent closes an order that was not sent.
LEMMA UnsentMoney ==
    ASSUME NEW i \in Orders, NEW s \in Terminal, EndUnsent(i, s), sends[i] = 0
    PROVE  MoneyMoves
PROOF
  <1>1. Release(i, s) /\ UNCHANGED <<quote, base, filled, trades>>
    BY DEF EndUnsent
  <1> QED
    BY <1>1, ClosedMoney

\* reserve and submit.
LEMMA SubmittingMoney ==
    ASSUME SenderInv, AnswerTypes, OutsideInv, NEW p \in Procs, Submitting(p)
    PROVE  MoneyMoves
PROOF
  <1> DEFINE j == at[p].order
  <1> USE DEF At
  <1>0. SenderTypes /\ status \in [Orders -> OrderStatus]
    BY DEF SenderInv, SenderTypes
  <1>t. {"CANCELED", "EXPIRED", "REJECTED"} \subseteq Terminal
    BY DEF Terminal
  <1>1. ASSUME NEW v \in Verdicts, NEW old \in BOOLEAN, NEW i \in Orders,
               CheckReserve(p, i, v, old) \/ CheckSubmit(p, i, v, old)
        PROVE  MoneyMoves
    BY <1>1, StillMoney
    DEF CheckReserve, CheckSubmit, Checked, account, wallet, orderRows, heads
  <1>2. ASSUME NEW v \in Verdicts, NEW old \in BOOLEAN,
               \/ ReserveOverBudget(p, v, old) \/ ClaimOverBudget(p, v, old)
               \/ ClaimRefused(p, v)
        PROVE  MoneyMoves
    BY <1>2, StillMoney
    DEF ReserveOverBudget, ClaimOverBudget, ClaimRefused, account, wallet, orderRows, heads
  <1>3. ASSUME NEW a, \/ ReserveRefused(p) \/ StopNewRisk(p) \/ SendOrder(p)
                      \/ SubmitRaises(p) \/ SubmitAnswered(p, a)
        PROVE  MoneyMoves
    BY <1>3, StillMoney
    DEF ReserveRefused, StopNewRisk, SendOrder, SubmitRaises, SubmitAnswered,
        account, wallet, orderRows, heads
  <1>4. ASSUME NEW i \in Orders, NoTrustedMarket(p, i) PROVE MoneyMoves
    BY <1>4, StillMoney DEF NoTrustedMarket, wallet, orderRows, heads
  <1>5. ASSUME NEW v \in Verdicts, NEW old \in BOOLEAN, Reserve(p, v, old)
        PROVE  MoneyMoves
    <2>1. j \in Orders
      BY <1>0, <1>5 DEF Reserve, SenderTypes
    <2>2. Taking(j)
      BY <1>5 DEF Reserve, Taking
    <2> QED
      BY <2>1, <2>2 DEF MoneyMoves
  <1>6. ASSUME NEW v \in Verdicts, NEW old \in BOOLEAN,
               ClaimOrder(p, v, old) \/ ClaimExpired(p)
        PROVE  MoneyMoves
    <2>1. j \in Orders /\ status[j] = "RESERVED" /\ at[p].pc = "claim"
      BY <1>0, <1>6 DEF ClaimOrder, ClaimExpired, MaySubmit, Claimable, SenderTypes
    <2>2. sends[j] = 0
      BY <2>1 DEF SenderInv, UnclaimedUnsent
    <2>3. CASE EndUnsent(j, "CANCELED") \/ EndUnsent(j, "EXPIRED")
      BY <1>t, <2>1, <2>2, <2>3, UnsentMoney
    <2>4. CASE ~(EndUnsent(j, "CANCELED") \/ EndUnsent(j, "EXPIRED"))
      <3>1. /\ status' = [status EXCEPT ![j] = "SUBMITTING"]
            /\ UNCHANGED <<reserved, quote, base, filled, res, trades>>
        BY <1>6, <2>4 DEF ClaimOrder, ClaimExpired, wallet
      <3>2. "SUBMITTING" \in OrderStatus \ Empty /\ status[j] \notin Empty
        BY <2>1 DEF OrderStatus, Terminal, Uncertain, Empty
      <3> QED
        BY <1>0, <2>1, <3>1, <3>2, MovedMoney
    <2> QED
      BY <2>3, <2>4
  <1>7. ASSUME NEW v \in Verdicts, NEW old \in BOOLEAN, Recheck(p, v, old)
        PROVE  MoneyMoves
    <2>1. j \in Orders /\ at[p].pc = "recheck"
      BY <1>0, <1>7 DEF Recheck, SenderTypes
    <2>2. sends[j] = 0
      BY <2>1 DEF SenderInv, BlockingRow, Acts, Acting
    <2>3. EndUnsent(j, "CANCELED") \/ UNCHANGED <<orderRows, wallet>>
      BY <1>7 DEF Recheck
    <2> QED
      BY <1>t, <2>1, <2>2, <2>3, UnsentMoney, StillMoney DEF orderRows, wallet
  <1>8. CASE RecordSubmit(p)
    <2>1. j \in Orders /\ at[p].pc = "settle"
      BY <1>0, <1>8 DEF RecordSubmit, SenderTypes
    <2>2. CASE UNCHANGED <<wallet, orderRows>>
      BY <2>2, StillMoney DEF wallet, orderRows
    <2>3. CASE ~UNCHANGED <<wallet, orderRows>>
      <3>1. status[j] = "SUBMITTING" /\ UNCHANGED <<quote, base, filled, trades>>
        BY <1>8, <2>3 DEF RecordSubmit
      <3>2. CASE at[p].answer = "rejected"
        <4>1. Release(j, "REJECTED")
          BY <1>8, <2>3, <3>2 DEF RecordSubmit
        <4>2. venue[j].state \in Ended
          BY <2>1, <3>2 DEF OutsideInv, AnswersTrue, Ended
        <4> QED
          BY <1>t, <2>1, <3>1, <4>1, <4>2, ClosedMoney
      <3>3. CASE at[p].answer # "rejected"
        <4>1. PICK s \in {"ACKNOWLEDGED", "UNKNOWN"} : status' = [status EXCEPT ![j] = s]
          BY <1>8, <2>3, <3>3 DEF RecordSubmit
        <4>2. UNCHANGED <<res, reserved>>
          BY <1>8, <2>3, <3>3 DEF RecordSubmit
        <4>3. s \in OrderStatus \ Empty /\ status[j] \notin Empty
          BY <3>1 DEF OrderStatus, Terminal, Uncertain, Empty
        <4> QED
          BY <1>0, <2>1, <3>1, <4>1, <4>2, <4>3, MovedMoney
      <3> QED
        BY <3>2, <3>3
    <2> QED
      BY <2>2, <2>3
  <1>9. \E v \in Verdicts : \E old \in BOOLEAN : TRUE
    BY DEF Verdicts
  <1> QED
    BY <1>1, <1>2, <1>3, <1>4, <1>5, <1>6, <1>7, <1>8, <1>9 DEF Submitting

\* cancel, and an error of any call.
LEMMA CancelingMoney ==
    ASSUME SenderInv, AnswerTypes, OutsideInv, NEW p \in Procs,
           Canceling(p) \/ MarkUncertain(p)
    PROVE  MoneyMoves
PROOF
  <1> DEFINE j == at[p].order
  <1> USE DEF At
  <1>0. SenderTypes /\ status \in [Orders -> OrderStatus]
    BY DEF SenderInv, SenderTypes
  <1>t. {"CANCELED", "EXPIRED", "REJECTED"} \subseteq Terminal
    BY DEF Terminal
  <1>1. ASSUME NEW a, CancelAnswered(p, a) \/ CancelRaises(p) PROVE MoneyMoves
    BY <1>1, StillMoney DEF CancelAnswered, CancelRaises, account, wallet, orderRows
  <1>2. ASSUME NEW i \in Orders, StartCancel(p, i) PROVE MoneyMoves
    <2>1. CASE status[i] = "RESERVED"
      <3>1. sends[i] = 0
        BY <2>1 DEF SenderInv, UnclaimedUnsent
      <3>2. EndUnsent(i, "CANCELED")
        BY <1>2, <2>1 DEF StartCancel
      <3> QED
        BY <1>t, <3>1, <3>2, UnsentMoney
    <2>2. CASE status[i] # "RESERVED"
      <3>1. /\ status' = [status EXCEPT ![i] = "CANCEL_PENDING"]
            /\ UNCHANGED <<reserved, quote, base, filled, res, trades>>
            /\ status[i] \in {"ACKNOWLEDGED", "PARTIALLY_FILLED"}
        BY <1>2, <2>2 DEF StartCancel, wallet
      <3>2. "CANCEL_PENDING" \in OrderStatus \ Empty /\ status[i] \notin Empty
        BY <3>1 DEF OrderStatus, Terminal, Uncertain, Empty
      <3> QED
        BY <1>0, <3>1, <3>2, MovedMoney
    <2> QED
      BY <2>1, <2>2
  <1>3. CASE RecordCancel(p)
    <2>1. j \in Orders /\ at[p].pc = "settleCancel"
      BY <1>0, <1>3 DEF RecordCancel, SenderTypes
    <2>2. CASE UNCHANGED <<wallet, orderRows>>
      BY <2>2, StillMoney DEF wallet, orderRows
    <2>3. CASE ~UNCHANGED <<wallet, orderRows>>
      <3>1. status[j] = "CANCEL_PENDING" /\ UNCHANGED <<quote, base, filled, trades>>
        BY <1>3, <2>3 DEF RecordCancel, wallet
      <3>2. CASE at[p].answer = "confirmed"
        <4>1. Release(j, "CANCELED")
          BY <1>3, <2>3, <3>2 DEF RecordCancel, Confirmed
        <4>2. venue[j].state \in Ended
          BY <2>1, <3>2 DEF OutsideInv, AnswersTrue, Ended
        <4> QED
          BY <1>t, <2>1, <3>1, <4>1, <4>2, ClosedMoney
      <3>3. CASE at[p].answer # "confirmed"
        <4>1. PICK s \in {status[j], "PARTIALLY_FILLED", "ACKNOWLEDGED"} :
                 status' = [status EXCEPT ![j] = s]
          BY <1>3, <2>3, <3>3 DEF RecordCancel, Confirmed
        <4>2. UNCHANGED <<res, reserved>>
          BY <1>3, <2>3, <3>3 DEF RecordCancel, Confirmed, wallet
        <4>3. s \in OrderStatus \ Empty /\ status[j] \notin Empty
          BY <3>1 DEF OrderStatus, Terminal, Uncertain, Empty
        <4> QED
          BY <1>0, <2>1, <3>1, <4>1, <4>2, <4>3, MovedMoney
      <3> QED
        BY <3>2, <3>3
    <2> QED
      BY <2>2, <2>3
  <1>4. CASE MarkUncertain(p)
    <2>1. j \in Orders /\ at[p].pc = "doubt"
      BY <1>0, <1>4 DEF MarkUncertain, SenderTypes
    <2>2. UNCHANGED <<reserved, quote, base, filled, res, trades>>
      BY <1>4 DEF MarkUncertain, wallet
    <2>3. CASE UNCHANGED status
      BY <2>2, <2>3, StillMoney
    <2>4. CASE ~UNCHANGED status
      <3>1. /\ status[j] \notin Terminal
            /\ at[p].answer # "any" => status[j] \in {at[p].answer, "UNKNOWN"}
            /\ status' = [status EXCEPT ![j] = "UNKNOWN"]
        BY <1>4, <2>4 DEF MarkUncertain
      <3>2. status[j] # "NEW"
        <4>1. CASE at[p].answer = "any"
          BY <2>1, <4>1 DEF AnswerTypes
        <4>2. CASE at[p].answer # "any"
          <5>1. at[p].answer # "NEW"
            BY <1>0 DEF SenderTypes, Call, Answers
          <5> QED
            BY <3>1, <4>2, <5>1
        <4> QED
          BY <4>1, <4>2
      <3>3. "UNKNOWN" \in OrderStatus \ Empty /\ status[j] \notin Empty
        BY <3>1, <3>2 DEF OrderStatus, Terminal, Uncertain, Empty
      <3> QED
        BY <1>0, <2>1, <2>2, <3>1, <3>3, MovedMoney
    <2> QED
      BY <2>3, <2>4
  <1> QED
    BY <1>1, <1>2, <1>3, <1>4 DEF Canceling

\* apply_fill
LEMMA FillMoney ==
    ASSUME SenderInv, OutsideInv, NEW p \in Procs, NEW i \in Orders,
           NEW k \in 1..Qty[i], NEW s, IngestFill(p, i, k, s)
    PROVE  MoneyMoves
PROOF
  <1>1. CASE Ingested(i, k)
    BY <1>1, StillMoney DEF IngestFill, ApplyFill, wallet
  <1>2. CASE ~Ingested(i, k)
    <2>0. view \in [Procs -> View] /\ venue \in [Orders -> VenueOrder]
      BY DEF SenderInv, SenderTypes
    <2>1. k \in 1..view[p].of[i].filled /\ k \notin trades[i] /\ ApplyFill(i, k, s)
      BY <1>2 DEF IngestFill, Ingested
    <2>2. /\ view[p].of[i].filled \in Nat /\ venue[i].filled \in Nat
          /\ view[p].of[i].filled <= venue[i].filled
      BY <2>0 DEF OutsideInv, ViewsTrue, View, VenueOrder
    <2>3. k \in 1..venue[i].filled /\ k \in Nat
      BY <2>1, <2>2
    <2>4. view[p].of[i] # Unknown
      BY <2>1, <2>2 DEF Unknown
    <2>5. status[i] \notin {"NEW", "RESERVED"}
      BY <2>4, SeenRow
    <2>6. Filling(i, k)
      BY <1>2, <2>1, <2>3, <2>5 DEF ApplyFill, Filling
    <2> QED
      BY <2>3, <2>6 DEF MoneyMoves
  <1> QED
    BY <1>1, <1>2

\* _snapshot
LEMMA SnapshotMoney ==
    ASSUME SenderInv, OutsideInv, NEW p \in Procs, NEW i \in Orders, NEW s, ApplySnapshot(p, i, s)
    PROVE  MoneyMoves
PROOF
  <1> DEFINE x == view[p].of[i]
             st == Reported(x)
  <1>0. SenderTypes /\ view \in [Procs -> View]
    BY DEF SenderInv, SenderTypes
  <1>1. Known(x) /\ x \in VenueOrder
    <2>1. i \in at[p].todo
      BY DEF ApplySnapshot
    <2> QED
      BY <1>0, <2>1 DEF SenderInv, TodoKnown, View
  <1>2. status[i] \notin {"NEW", "RESERVED"} /\ status[i] \in OrderStatus
    <2>1. x # Unknown
      BY <1>1 DEF Known, Unknown
    <2> QED
      BY <1>0, <2>1, SeenRow DEF SenderTypes
  <1>3. CASE UNCHANGED <<wallet, orderRows>>
    BY <1>3, StillMoney DEF wallet, orderRows
  <1>4. CASE ~UNCHANGED <<wallet, orderRows>>
    <2>1. /\ ~SnapshotRefused(i, x)
          /\ UNCHANGED <<quote, base, filled, trades>>
          /\ IF st \in Terminal THEN Release(i, st)
             ELSE /\ status' = [status EXCEPT ![i] = st]
                  /\ UNCHANGED <<res, reserved>>
      BY <1>4 DEF ApplySnapshot, wallet, orderRows
    <2>2. CASE st \in Terminal
      <3>1. x.state \in Ended
        BY <1>1, <2>2 DEF Known, VenueOrder, VenueState, Reported, Terminal, Ended
      <3>2. venue[i].state \in Ended
        BY <3>1 DEF OutsideInv, ViewsTrue
      <3> HIDE DEF st
      <3> QED
        BY <2>1, <2>2, <3>2, ClosedMoney
    <2>3. CASE st \notin Terminal
      <3>1. st \in {"ACKNOWLEDGED", "PARTIALLY_FILLED"}
        BY <1>1, <2>3 DEF Known, VenueOrder, VenueState, Reported, Terminal
      <3>2. status[i] \notin Terminal
        BY <2>1, <2>3 DEF SnapshotRefused
      <3>3. st \in OrderStatus \ Empty /\ status[i] \notin Empty
        BY <1>2, <3>1, <3>2 DEF OrderStatus, Terminal, Uncertain, Empty
      <3> HIDE DEF st
      <3> QED
        BY <1>0, <2>1, <2>3, <3>3, MovedMoney
    <2> QED
      BY <2>2, <2>3
  <1> QED
    BY <1>3, <1>4

\* Every step moves the money in one of these ways.
LEMMA MoneyMovesOn ==
    ASSUME SenderInv, AnswerTypes, OutsideInv, [Next]_vars
    PROVE  MoneyMoves
PROOF
  <1>1. ASSUME NEW p \in Procs, Process(p) PROVE MoneyMoves
    <2>1. CASE ClaimLease(p) \/ Crash(p) \/ StartReconcile(p) \/ \E i \in Orders : StartQuery(p, i)
      BY <2>1, StillMoney
      DEF ClaimLease, Crash, StartReconcile, StartQuery, account, wallet, orderRows
    <2> QED
      BY <1>1, <2>1, SubmittingMoney, CancelingMoney, FillMoney, SnapshotMoney
      DEF Process, Reconciling
  <1>2. CASE Venue
    BY <1>2, StillMoney
    DEF Venue, VenueReceives, SubmissionLost, VenueFills, VenueEnds, CancelArrives,
        account, wallet, orderRows
  <1>3. CASE Elsewhere
    BY <1>3, StillMoney
    DEF Elsewhere, SetMode, WatchdogStop, RiskCheck, Deactivate, Activate, Expire,
        wallet, orderRows
  <1>4. CASE LeaseExpires \/ UNCHANGED vars
    BY <1>4, StillMoney DEF LeaseExpires, vars, account, wallet, orderRows
  <1> QED
    BY <1>1, <1>2, <1>3, <1>4 DEF Next

-----------------------------------------------------------------------------
(* The money.                                                              *)

MoneyTypes ==
    /\ reserved \in Int /\ quote \in Int /\ base \in Int
    /\ filled \in [Orders -> Nat]
    /\ res \in [Orders -> Nat]
    /\ trades \in [Orders -> SUBSET Nat]

\* Only trades the venue made are booked, each as one unit.
TradesTrue ==
    \A i \in Orders : trades[i] \subseteq 1..venue[i].filled /\ filled[i] = Cardinality(trades[i])

\* The inductive invariant of the money, on top of the others.
MoneyInv == MoneyTypes /\ TradesTrue /\ BudgetHeld /\ LedgerMatchesFills

\* What the fills of the orders cost beyond their terms.
Costs == [i \in Orders |-> filled[i] * Extra[i]]

\* The sums run over finite sets.
LEMMA FiniteOrders == IsFiniteSet(Orders) /\ IsFiniteSet(Buys) /\ IsFiniteSet(Sells)
PROOF
  <1>1. Buys \in SUBSET Orders /\ Sells \in SUBSET Orders /\ IsFiniteSet(Orders)
    BY AccountAssumption DEF Orders
  <1> QED
    BY <1>1, FS_Subset

\* What a change of one order does to the sums over the account.
LEMMA ChangedSum ==
    ASSUME NEW r \in [Orders -> Int], NEW q \in [Orders -> Int], NEW i \in Orders,
           \A j \in Orders \ {i} : q[j] = r[j]
    PROVE  /\ SumOf(q, Buys) = SumOf(r, Buys) + IF i \in Buys THEN q[i] - r[i] ELSE 0
           /\ SumOf(q, Sells) = SumOf(r, Sells) + IF i \in Sells THEN q[i] - r[i] ELSE 0
           /\ SumOf(q, Orders) = SumOf(r, Orders) + q[i] - r[i]
PROOF
  <1>1. ASSUME NEW S \in SUBSET Orders, IsFiniteSet(S), i \in S
        PROVE  SumOf(q, S) = SumOf(r, S) + q[i] - r[i]
    <2>1. \A y \in S : r[y] \in Int
      OBVIOUS
    <2>2. \A y \in S : q[y] \in Int
      OBVIOUS
    <2>3. \A y \in S \ {i} : q[y] = r[y]
      OBVIOUS
    <2>4. SumOf(q, S) = SumOf(r, S) - r[i] + q[i]
      BY <1>1, <2>1, <2>2, <2>3, SumChange
    <2>5. SumOf(r, S) \in Int
      BY <1>1, <2>1, SumInt
    <2> QED
      BY <2>4, <2>5
  <1>2. ASSUME NEW S \in SUBSET Orders, IsFiniteSet(S), i \notin S
        PROVE  SumOf(q, S) = SumOf(r, S) /\ SumOf(r, S) \in Int
    <2>1. \A y \in S : q[y] = r[y]
      BY <1>2
    <2>2. \A y \in S : r[y] \in Int
      OBVIOUS
    <2> QED
      BY <1>2, <2>1, <2>2, SumAgree, SumInt
  <1>3. Buys \in SUBSET Orders /\ Sells \in SUBSET Orders /\ Orders \in SUBSET Orders
    BY DEF Orders
  <1>4. SumOf(q, Buys) = SumOf(r, Buys) + IF i \in Buys THEN q[i] - r[i] ELSE 0
    <2>1. CASE i \in Buys
      BY <1>1, <1>3, <2>1, FiniteOrders
    <2>2. CASE i \notin Buys
      BY <1>2, <1>3, <2>2, FiniteOrders
    <2> QED
      BY <2>1, <2>2
  <1>5. SumOf(q, Sells) = SumOf(r, Sells) + IF i \in Sells THEN q[i] - r[i] ELSE 0
    <2>1. CASE i \in Sells
      BY <1>1, <1>3, <2>1, FiniteOrders
    <2>2. CASE i \notin Sells
      BY <1>2, <1>3, <2>2, FiniteOrders
    <2> QED
      BY <2>1, <2>2
  <1>6. SumOf(q, Orders) = SumOf(r, Orders) + q[i] - r[i]
    BY <1>1, <1>3, FiniteOrders
  <1> QED
    BY <1>4, <1>5, <1>6

\* Sums over the account are numbers.
LEMMA SumsAreInts ==
    ASSUME NEW r \in [Orders -> Int]
    PROVE  SumOf(r, Buys) \in Int /\ SumOf(r, Sells) \in Int /\ SumOf(r, Orders) \in Int
PROOF
  <1>1. \A y \in Buys : r[y] \in Int
    BY DEF Orders
  <1>2. \A y \in Sells : r[y] \in Int
    BY DEF Orders
  <1>3. \A y \in Orders : r[y] \in Int
    OBVIOUS
  <1>4. SumOf(r, Buys) \in Int
    BY <1>1, FiniteOrders, SumInt
  <1>5. SumOf(r, Sells) \in Int
    BY <1>2, FiniteOrders, SumInt
  <1>6. SumOf(r, Orders) \in Int
    BY <1>3, FiniteOrders, SumInt
  <1> QED
    BY <1>4, <1>5, <1>6

\* Trades numbered up to n are at most n.
LEMMA FewTrades ==
    ASSUME NEW n \in Nat, NEW S \in SUBSET (1..n)
    PROVE  IsFiniteSet(S) /\ Cardinality(S) \in Nat /\ Cardinality(S) <= n
PROOF
  <1>1. IsFiniteSet(1..n) /\ Cardinality(1..n) = n
    BY FS_Interval
  <1>2. IsFiniteSet(S) /\ Cardinality(S) <= Cardinality(1..n)
    BY <1>1, FS_Subset
  <1>3. Cardinality(S) \in Nat
    BY <1>2, FS_CardinalityType
  <1> QED
    BY <1>1, <1>2, <1>3

\* No trade of an order that was not sent is booked.
LEMMA UnsentUnfilled ==
    ASSUME SenderInv, MoneyInv, NEW i \in Orders, sends[i] = 0
    PROVE  filled[i] = 0
PROOF
  <1>1. venue[i].filled = 0
    BY DEF SenderInv, OutsideKnows, Unknown
  <1>2. trades[i] \subseteq 1..0
    BY <1>1 DEF MoneyInv, TradesTrue
  <1>3. 1..0 = {}
    OBVIOUS
  <1>4. trades[i] = {}
    BY <1>2, <1>3
  <1>5. Cardinality({}) = 0
    BY FS_EmptySet
  <1> QED
    BY <1>4, <1>5 DEF MoneyInv, TradesTrue

LEMMA MoneyInvInit == Init => MoneyInv
PROOF
  <1> SUFFICES ASSUME Init PROVE MoneyInv
    OBVIOUS
  <1>1. /\ reserved = 0 /\ quote = Capital - Inventory /\ base = Inventory
        /\ status = [i \in Orders |-> "NEW"]
        /\ filled = [i \in Orders |-> 0]
        /\ res = [i \in Orders |-> 0]
        /\ trades = [i \in Orders |-> {}]
        /\ \A i \in Orders : venue[i].filled = 0
    BY DEF Init, InitAccount, Unknown
  <1>2. MoneyTypes
    BY <1>1, AccountAssumption DEF MoneyTypes
  <1>3. TradesTrue
    <2>1. Cardinality({}) = 0
      BY FS_EmptySet
    <2> QED
      BY <1>1, <2>1 DEF TradesTrue
  <1>4. SumOf(res, Buys) = 0 /\ SumOf(filled, Buys) = 0 /\ SumOf(filled, Sells) = 0
    <2>1. (\A x \in Buys : res[x] = 0) /\ (\A x \in Buys : filled[x] = 0)
      BY <1>1 DEF Orders
    <2>2. \A x \in Sells : filled[x] = 0
      BY <1>1 DEF Orders
    <2> QED
      BY <2>1, <2>2, FiniteOrders, SumZero
  <1>5. SumOf(Costs, Orders) = 0
    <2>1. \A x \in Orders : Costs[x] = 0
      BY <1>1, AccountAssumption DEF Costs
    <2> HIDE DEF Costs
    <2> QED
      BY <2>1, FiniteOrders, SumZero
  <1>6. BudgetHeld
    BY <1>1, <1>4 DEF BudgetHeld
  <1>7. LedgerMatchesFills
    <2>1. \A i \in Orders : filled[i] = Cardinality(trades[i]) /\ filled[i] <= venue[i].filled
      BY <1>1, <1>3 DEF TradesTrue
    <2>2. Inventory \in Int /\ Capital \in Int
      BY AccountAssumption
    <2>3. SumOf([i \in Orders |-> filled[i] * Extra[i]], Orders) = 0
      BY <1>5 DEF Costs
    <2> QED
      BY <1>1, <1>4, <2>1, <2>2, <2>3 DEF LedgerMatchesFills
  <1> QED
    BY <1>2, <1>3, <1>6, <1>7 DEF MoneyInv

\* The trades stay true when they and the fills stay, and the venue moves on.
LEMMA TradesKept ==
    ASSUME SenderInv, SenderInv', MoneyInv, VenueMoves, UNCHANGED <<trades, filled>>
    PROVE  TradesTrue' /\ \A i \in Orders : filled'[i] <= venue'[i].filled
PROOF
  <1>1. \A i \in Orders : venue[i].filled \in Nat /\ venue'[i].filled \in Nat
    BY DEF SenderInv, SenderTypes, VenueOrder
  <1>2. \A i \in Orders : venue[i].filled <= venue'[i].filled
    BY DEF VenueMoves
  <1>3. \A i \in Orders : trades[i] \subseteq 1..venue'[i].filled
    BY <1>1, <1>2 DEF MoneyInv, TradesTrue
  <1>4. TradesTrue'
    BY <1>3 DEF MoneyInv, TradesTrue
  <1>5. \A i \in Orders : filled[i] <= venue[i].filled /\ filled[i] \in Nat
    BY DEF MoneyInv, LedgerMatchesFills, MoneyTypes
  <1> QED
    BY <1>1, <1>2, <1>4, <1>5

\* The venue may move on while the rows stay.
LEMMA StillKeeps ==
    ASSUME SenderInv, SenderInv', MoneyInv, VenueMoves, Still
    PROVE  MoneyInv'
PROOF
  <1>1. UNCHANGED <<reserved, quote, base, filled, res, trades>>
    BY DEF Still
  <1>2. TradesTrue' /\ \A i \in Orders : filled'[i] <= venue'[i].filled
    BY <1>1, TradesKept
  <1>3. MoneyTypes'
    BY <1>1 DEF MoneyInv, MoneyTypes
  <1>4. BudgetHeld'
    BY <1>1 DEF MoneyInv, BudgetHeld, Still, Empty
  <1>5. LedgerMatchesFills'
    BY <1>1, <1>2 DEF MoneyInv, TradesTrue, LedgerMatchesFills
  <1> QED
    BY <1>2, <1>3, <1>4, <1>5 DEF MoneyInv

\* The order and the account free the same amount.
LEMMA ClosingKeeps ==
    ASSUME SenderInv, SenderInv', MoneyInv, VenueMoves, NEW i \in Orders, Closing(i)
    PROVE  MoneyInv'
PROOF
  <1>0. /\ MoneyTypes /\ BudgetHeld
        /\ status \in [Orders -> OrderStatus]
    BY DEF MoneyInv, SenderInv, SenderTypes
  <1>1. UNCHANGED <<quote, base, filled, trades>>
    BY DEF Closing
  <1>2. PICK s \in Terminal : Release(i, s)
    BY DEF Closing
  <1>3. /\ status' = [status EXCEPT ![i] = s]
        /\ res' = [res EXCEPT ![i] = 0]
        /\ reserved' = IF i \in Buys THEN reserved - res[i] ELSE reserved
    BY <1>2 DEF Release
  <1>4. TradesTrue' /\ \A j \in Orders : filled'[j] <= venue'[j].filled
    BY <1>1, TradesKept
  <1>5. /\ res \in [Orders -> Nat] /\ res' \in [Orders -> Nat]
        /\ res'[i] = 0 /\ \A j \in Orders \ {i} : res'[j] = res[j]
    BY <1>0, <1>3 DEF MoneyTypes
  <1>6. SumOf(res', Buys) = SumOf(res, Buys) + IF i \in Buys THEN res'[i] - res[i] ELSE 0
    <2>1. res \in [Orders -> Int] /\ res' \in [Orders -> Int]
      BY <1>5
    <2> QED
      BY <1>5, <2>1, ChangedSum
  <1>7. reserved' = SumOf(res', Buys)
    BY <1>0, <1>3, <1>5, <1>6 DEF BudgetHeld, MoneyTypes
  <1>8. ASSUME NEW j \in Orders
        PROVE  res'[j] = IF status'[j] \in Terminal \union {"NEW"} THEN 0 ELSE Qty[j] - filled'[j]
    <2>1. CASE j = i
      BY <1>0, <1>3, <1>5, <2>1
    <2>2. CASE j # i
      BY <1>0, <1>1, <1>3, <1>5, <2>2 DEF BudgetHeld
    <2> QED
      BY <2>1, <2>2
  <1>9. BudgetHeld'
    BY <1>7, <1>8 DEF BudgetHeld
  <1>10. MoneyTypes'
    BY <1>0, <1>1, <1>3, <1>5 DEF MoneyTypes
  <1>11. LedgerMatchesFills'
    BY <1>1, <1>4 DEF MoneyInv, TradesTrue, LedgerMatchesFills
  <1> QED
    BY <1>4, <1>9, <1>10, <1>11 DEF MoneyInv

\* A new row takes its whole quantity: nothing of it was filled yet.
LEMMA TakingKeeps ==
    ASSUME SenderInv, SenderInv', MoneyInv, VenueMoves, NEW i \in Orders, Taking(i)
    PROVE  MoneyInv'
PROOF
  <1>0. /\ MoneyTypes /\ BudgetHeld
        /\ status \in [Orders -> OrderStatus]
        /\ Qty[i] \in Nat
    BY AccountAssumption DEF MoneyInv, SenderInv, SenderTypes
  <1>1. /\ UNCHANGED <<quote, base, filled, trades>>
        /\ status[i] = "NEW"
        /\ status' = [status EXCEPT ![i] = "RESERVED"]
        /\ res' = [res EXCEPT ![i] = Qty[i]]
        /\ reserved' = IF i \in Buys THEN reserved + Qty[i] ELSE reserved
    BY DEF Taking, ReserveRow
  <1>2. res[i] = 0
    BY <1>0, <1>1 DEF BudgetHeld
  <1>3. filled[i] = 0
    <2>1. sends[i] = 0
      BY <1>1 DEF SenderInv, UnclaimedUnsent
    <2> QED
      BY <2>1, UnsentUnfilled
  <1>4. TradesTrue' /\ \A j \in Orders : filled'[j] <= venue'[j].filled
    BY <1>1, TradesKept
  <1>5. /\ res \in [Orders -> Nat] /\ res' \in [Orders -> Nat]
        /\ res'[i] = Qty[i] /\ \A j \in Orders \ {i} : res'[j] = res[j]
    BY <1>0, <1>1 DEF MoneyTypes
  <1>6. SumOf(res', Buys) = SumOf(res, Buys) + IF i \in Buys THEN res'[i] - res[i] ELSE 0
    <2>1. res \in [Orders -> Int] /\ res' \in [Orders -> Int]
      BY <1>5
    <2> QED
      BY <1>5, <2>1, ChangedSum
  <1>7. reserved' = SumOf(res', Buys)
    BY <1>0, <1>1, <1>2, <1>5, <1>6 DEF BudgetHeld, MoneyTypes
  <1>8. ASSUME NEW j \in Orders
        PROVE  res'[j] = IF status'[j] \in Terminal \union {"NEW"} THEN 0 ELSE Qty[j] - filled'[j]
    <2>1. CASE j = i
      <3>1. status'[j] = "RESERVED" /\ "RESERVED" \notin Terminal \union {"NEW"}
        BY <1>0, <1>1, <2>1 DEF Terminal
      <3> QED
        BY <1>0, <1>1, <1>3, <1>5, <2>1, <3>1
    <2>2. CASE j # i
      BY <1>0, <1>1, <1>5, <2>2 DEF BudgetHeld
    <2> QED
      BY <2>1, <2>2
  <1>9. BudgetHeld'
    BY <1>7, <1>8 DEF BudgetHeld
  <1>10. MoneyTypes'
    BY <1>0, <1>1, <1>5 DEF MoneyTypes
  <1>11. LedgerMatchesFills'
    BY <1>1, <1>4 DEF MoneyInv, TradesTrue, LedgerMatchesFills
  <1> QED
    BY <1>4, <1>9, <1>10, <1>11 DEF MoneyInv

\* A trade is added to the fills, the reservation, the wallet and the costs.
LEMMA FillingKeeps ==
    ASSUME SenderInv, SenderInv', MoneyInv, VenueTrue, VenueMoves,
           NEW i \in Orders, NEW k \in Nat, Filling(i, k)
    PROVE  MoneyInv'
PROOF
  <1> DEFINE f == filled[i] + 1
             left == FillReservation(i, f)
             new == FillStatus(i, f)
             costs == [j \in Orders |-> filled[j] * Extra[j]]
             dearer == [j \in Orders |-> filled'[j] * Extra[j]]
  <1>0. /\ MoneyTypes /\ BudgetHeld
        /\ status \in [Orders -> OrderStatus]
        /\ filled \in [Orders -> Nat] /\ filled[i] \in Nat /\ f \in Nat
        /\ res \in [Orders -> Nat] /\ trades \in [Orders -> SUBSET Nat]
        /\ Qty[i] \in Nat /\ Extra[i] \in Nat
        /\ reserved \in Int /\ quote \in Int /\ base \in Int
        /\ Capital \in Int /\ Inventory \in Int
    BY AccountAssumption DEF MoneyInv, MoneyTypes, SenderInv, SenderTypes
  <1>1. /\ status[i] # "NEW"
        /\ k \notin trades[i] /\ k \in 1..venue[i].filled /\ f <= Qty[i]
        /\ trades' = [trades EXCEPT ![i] = @ \union {k}]
        /\ filled' = [filled EXCEPT ![i] = f]
        /\ res' = [res EXCEPT ![i] = left]
        /\ status' = [status EXCEPT ![i] = new]
        /\ base' = base + (IF i \in Buys THEN 1 ELSE -1)
        /\ quote' = quote - (IF i \in Buys THEN 1 ELSE -1) - Extra[i]
        /\ reserved' = IF i \in Buys THEN reserved - res[i] + left ELSE reserved
    BY DEF Filling
  <1>2. left \in Nat /\ left = IF new \in Terminal \union {"NEW"} THEN 0 ELSE Qty[i] - f
    BY <1>0, <1>1 DEF FillReservation, FillStatus, Terminal
  <1> HIDE DEF left, new, f
  <1>3. /\ filled' \in [Orders -> Nat] /\ filled'[i] = f /\ \A j \in Orders \ {i} : filled'[j] = filled[j]
        /\ res' \in [Orders -> Nat] /\ res'[i] = left /\ \A j \in Orders \ {i} : res'[j] = res[j]
        /\ status'[i] = new /\ \A j \in Orders \ {i} : status'[j] = status[j]
        /\ trades'[i] = trades[i] \union {k} /\ \A j \in Orders \ {i} : trades'[j] = trades[j]
    BY <1>0, <1>1, <1>2
  <1>4. MoneyTypes'
    <2>1. trades' \in [Orders -> SUBSET Nat]
      BY <1>0, <1>1
    <2>2. reserved' \in Int /\ quote' \in Int /\ base' \in Int
      <3>1. res[i] \in Nat
        BY <1>0
      <3> QED
        BY <1>0, <1>1, <1>2, <3>1
    <2> QED
      BY <1>3, <2>1, <2>2 DEF MoneyTypes
  <1>5. /\ \A j \in Orders : venue[j].filled \in Nat /\ venue'[j].filled \in Nat
        /\ \A j \in Orders : venue[j].filled <= venue'[j].filled
    BY DEF SenderInv, SenderTypes, VenueOrder, VenueMoves
  <1>6. TradesTrue'
    <2> SUFFICES ASSUME NEW j \in Orders
                 PROVE  trades'[j] \subseteq 1..venue'[j].filled /\ filled'[j] = Cardinality(trades'[j])
      BY DEF TradesTrue
    <2>1. trades[j] \subseteq 1..venue[j].filled /\ filled[j] = Cardinality(trades[j])
      BY DEF MoneyInv, TradesTrue
    <2>2. 1..venue[j].filled \subseteq 1..venue'[j].filled
      BY <1>5
    <2>3. CASE j = i
      <3>1. trades'[j] \subseteq 1..venue'[j].filled
        BY <1>1, <1>3, <2>1, <2>2, <2>3
      <3>2. IsFiniteSet(trades[i])
        BY <1>5, <2>1, <2>3, FewTrades
      <3>3. Cardinality(trades[i] \union {k}) = Cardinality(trades[i]) + 1
        BY <1>1, <3>2, FS_AddElement
      <3> QED
        BY <1>3, <2>1, <2>3, <3>1, <3>3 DEF f
    <2>4. CASE j # i
      BY <1>3, <2>1, <2>2, <2>4
    <2> QED
      BY <2>3, <2>4
  <1>7. \A j \in Orders : filled'[j] <= venue'[j].filled
    <2> SUFFICES ASSUME NEW j \in Orders PROVE filled'[j] <= venue'[j].filled
      OBVIOUS
    <2>1. trades'[j] \in SUBSET (1..venue'[j].filled) /\ venue'[j].filled \in Nat
      BY <1>5, <1>6 DEF TradesTrue
    <2>2. Cardinality(trades'[j]) <= venue'[j].filled
      BY <2>1, FewTrades
    <2> QED
      BY <1>6, <2>2 DEF TradesTrue
  <1>8. BudgetHeld'
    <2>1. SumOf(res', Buys) = SumOf(res, Buys) + IF i \in Buys THEN res'[i] - res[i] ELSE 0
      <3>1. res \in [Orders -> Int] /\ res' \in [Orders -> Int]
        BY <1>0, <1>3
      <3> QED
        BY <1>3, <3>1, ChangedSum
    <2>2. reserved' = SumOf(res', Buys)
      <3>1. res[i] \in Nat /\ reserved = SumOf(res, Buys)
        BY <1>0 DEF BudgetHeld
      <3> QED
        BY <1>0, <1>1, <1>2, <1>3, <2>1, <3>1
    <2>3. ASSUME NEW j \in Orders
          PROVE  res'[j] = IF status'[j] \in Terminal \union {"NEW"} THEN 0 ELSE Qty[j] - filled'[j]
      <3>1. CASE j = i
        BY <1>2, <1>3, <3>1
      <3>2. CASE j # i
        BY <1>0, <1>3, <3>2 DEF BudgetHeld
      <3> QED
        BY <3>1, <3>2
    <2> QED
      BY <2>2, <2>3 DEF BudgetHeld
  <1>9. LedgerMatchesFills'
    <2>1. /\ SumOf(filled', Buys) = SumOf(filled, Buys) + IF i \in Buys THEN 1 ELSE 0
          /\ SumOf(filled', Sells) = SumOf(filled, Sells) + IF i \in Sells THEN 1 ELSE 0
      <3>1. filled \in [Orders -> Int] /\ filled' \in [Orders -> Int]
        BY <1>0, <1>3
      <3>2. filled'[i] - filled[i] = 1
        BY <1>0, <1>3 DEF f
      <3> QED
        BY <1>3, <3>1, <3>2, ChangedSum
    <2>2. costs \in [Orders -> Int] /\ dearer \in [Orders -> Int]
      BY <1>0, <1>3, AccountAssumption
    <2>3. dearer[i] = costs[i] + Extra[i]
      <3>1. costs[i] = filled[i] * Extra[i] /\ dearer[i] = f * Extra[i]
        BY <1>3
      <3>2. \A a, b \in Nat : (a + 1) * b = a * b + b
        OBVIOUS
      <3> QED
        BY <1>0, <3>1, <3>2 DEF f
    <2>4. \A j \in Orders \ {i} : dearer[j] = costs[j]
      BY <1>3
    <2> HIDE DEF costs, dearer
    <2>5. SumOf(dearer, Orders) = SumOf(costs, Orders) + Extra[i]
      <3>1. SumOf(dearer, Orders) = SumOf(costs, Orders) + dearer[i] - costs[i]
        BY <2>2, <2>4, ChangedSum
      <3>2. SumOf(costs, Orders) \in Int /\ costs[i] \in Int
        BY <2>2, SumsAreInts
      <3> QED
        BY <1>0, <2>3, <3>1, <3>2
    <2>6. /\ SumOf(filled, Buys) \in Int /\ SumOf(filled, Sells) \in Int
          /\ SumOf(costs, Orders) \in Int
      <3>1. filled \in [Orders -> Int]
        BY <1>0
      <3> QED
        BY <2>2, <3>1, SumsAreInts
    <2>7. /\ base = Inventory + SumOf(filled, Buys) - SumOf(filled, Sells)
          /\ quote = Capital - Inventory - SumOf(filled, Buys) + SumOf(filled, Sells)
                        - SumOf(costs, Orders)
      BY DEF MoneyInv, LedgerMatchesFills, costs
    <2>8. i \in Buys <=> i \notin Sells
      BY AccountAssumption DEF Orders
    <2>9. base' = Inventory + SumOf(filled', Buys) - SumOf(filled', Sells)
      BY <1>0, <1>1, <2>1, <2>6, <2>7, <2>8
    <2>10. quote' = Capital - Inventory - SumOf(filled', Buys) + SumOf(filled', Sells)
                        - SumOf(dearer, Orders)
      <3>1. CASE i \in Buys
        BY <1>0, <1>1, <2>1, <2>5, <2>6, <2>7, <2>8, <3>1
      <3>2. CASE i \notin Buys
        BY <1>0, <1>1, <2>1, <2>5, <2>6, <2>7, <2>8, <3>2
      <3> QED
        BY <3>1, <3>2
    <2>11. \A j \in Orders : filled'[j] = Cardinality(trades'[j])
      BY <1>6 DEF TradesTrue
    <2> QED
      BY <1>7, <2>9, <2>10, <2>11 DEF LedgerMatchesFills, dearer
  <1> QED
    BY <1>4, <1>6, <1>8, <1>9 DEF MoneyInv

LEMMA MoneyInvStep == SenderInv /\ RowInv /\ OutsideInv /\ MoneyInv /\ [Next]_vars => MoneyInv'
PROOF
  <1> SUFFICES ASSUME SenderInv, RowInv, OutsideInv, MoneyInv, [Next]_vars PROVE MoneyInv'
    OBVIOUS
  <1>1. MoneyMoves
    BY MoneyMovesOn DEF RowInv
  <1>2. SenderInv' /\ VenueMoves /\ VenueTrue
    BY SenderInvStep, OutsideStep DEF OutsideInv
  <1> QED
    BY <1>1, <1>2, StillKeeps, ClosingKeeps, TakingKeeps, FillingKeeps DEF MoneyMoves

\* reserve, _release, apply_fill and _snapshot keep the sums, the rows and the
\* trades of the account together.
THEOREM MoneyInvariant == Spec => []MoneyInv
  BY MoneyInvInit, MoneyInvStep, SenderInvariant, RowInvariant, OutsideInvariant, PTL DEF Spec

\* accounts.reserved_quote is the sum of the reservations, an open order holds
\* what is not filled of it and a closed one nothing.
THEOREM BudgetStaysHeld == Spec => []BudgetHeld
PROOF
  <1>1. MoneyInv => BudgetHeld
    BY DEF MoneyInv
  <1> QED
    BY <1>1, MoneyInvariant, PTL

\* apply_fill: the wallet is what the booked trades make it, each counted once,
\* and no order is filled further here than at the venue.
THEOREM LedgerIsTheFills == Spec => []LedgerMatchesFills
PROOF
  <1>1. MoneyInv => LedgerMatchesFills
    BY DEF MoneyInv
  <1> QED
    BY <1>1, MoneyInvariant, PTL

-----------------------------------------------------------------------------
(* Closing.                                                                *)

LEMMA ClosedAtVenueInit == Init => ClosedAtVenue
  BY DEF Init, InitAccount, ClosedAtVenue, Terminal

\* No step sends an order that is closed after it.
LEMMA SendsOpenOrders ==
    ASSUME SenderInv, [Next]_vars
    PROVE  \A i \in Orders : sends'[i] > 0 /\ status'[i] \in Terminal => sends[i] > 0
PROOF
  <1>1. ASSUME NEW p \in Procs, Process(p), NEW i \in Orders, sends'[i] # sends[i]
        PROVE  status'[i] \notin Terminal
    BY <1>1, ProcessOutside
  <1>2. CASE Venue \/ Elsewhere \/ LeaseExpires \/ UNCHANGED vars
    BY <1>2 DEF Venue, VenueReceives, SubmissionLost, VenueFills, VenueEnds, CancelArrives,
                Elsewhere, LeaseExpires, vars, external
  <1> QED
    BY <1>1, <1>2 DEF Next

LEMMA ClosedAtVenueStep ==
    SenderInv /\ RowInv /\ OutsideInv /\ MoneyInv /\ ClosedAtVenue /\ [Next]_vars => ClosedAtVenue'
PROOF
  <1> SUFFICES ASSUME SenderInv, RowInv, OutsideInv, MoneyInv, ClosedAtVenue, [Next]_vars
               PROVE  ClosedAtVenue'
    OBVIOUS
  <1>1. /\ SenderInv' /\ MoneyInv' /\ VenueTrue' /\ VenueMoves
        /\ status \in [Orders -> OrderStatus]
    BY SenderInvStep, MoneyInvStep, OutsideStep DEF OutsideInv, SenderInv, SenderTypes
  <1>2. ASSUME NEW i \in Orders, status'[i] \in Terminal, sends'[i] > 0
        PROVE  venue'[i].state \in Ended
    <2>0. sends[i] > 0
      BY <1>2, SendsOpenOrders
    <2>a. CASE venue[i].state \in Ended
      BY <1>1, <2>a DEF VenueMoves
    <2>b. CASE status[i] \in Terminal
      BY <2>0, <2>a, <2>b DEF ClosedAtVenue
    <2>c. CASE filled'[i] = Qty[i]
      <3>1. /\ venue'[i].state \in VenueState /\ venue'[i].filled \in Nat
            /\ Qty[i] \in Nat \ {0}
        BY <1>1, AccountAssumption DEF SenderInv, SenderTypes, VenueOrder
      <3>2. venue'[i].filled >= Qty[i]
        BY <1>1, <2>c, <3>1 DEF MoneyInv, LedgerMatchesFills
      <3>3. /\ venue'[i].state = "OPEN" => venue'[i].filled < Qty[i]
            /\ venue'[i].state = "NONE" => venue'[i].filled = 0
        BY <1>1 DEF VenueTrue
      <3>4. venue'[i].state # "OPEN" /\ venue'[i].state # "NONE"
        BY <3>1, <3>2, <3>3
      <3> QED
        BY <3>1, <3>4 DEF VenueState, Ended
    <2>1. CASE Still
      BY <1>2, <2>b, <2>1 DEF Still
    <2>2. ASSUME NEW j \in Orders, Closing(j)
          PROVE  venue'[i].state \in Ended
      <3>1. CASE j = i
        BY <1>2, <2>0, <2>a, <2>2, <3>1 DEF Closing
      <3>2. CASE j # i
        <4>1. status'[i] = status[i]
          BY <1>1, <2>2, <3>2 DEF Closing, Release
        <4> QED
          BY <1>2, <2>b, <4>1
      <3> QED
        BY <3>1, <3>2
    <2>3. ASSUME NEW j \in Orders, Taking(j)
          PROVE  venue'[i].state \in Ended
      <3>1. status'[i] = status[i] \/ status'[i] = "RESERVED"
        BY <1>1, <2>3 DEF Taking, ReserveRow
      <3>2. "RESERVED" \notin Terminal
        BY DEF Terminal
      <3> QED
        BY <1>2, <2>b, <3>1, <3>2
    <2>4. ASSUME NEW j \in Orders, NEW k \in Nat, Filling(j, k)
          PROVE  venue'[i].state \in Ended
      <3>1. CASE j = i
        <4>1. /\ status'[i] = FillStatus(i, filled[i] + 1)
              /\ filled'[i] = filled[i] + 1
          BY <1>1, <2>4, <3>1 DEF Filling, MoneyInv, MoneyTypes
        <4>2. status[i] \in Terminal \/ filled'[i] = Qty[i]
          BY <1>2, <4>1 DEF FillStatus, Terminal
        <4> QED
          BY <1>2, <2>b, <2>c, <4>2
      <3>2. CASE j # i
        <4>1. status'[i] = status[i]
          BY <1>1, <2>4, <3>2 DEF Filling
        <4> QED
          BY <1>2, <2>b, <4>1
      <3> QED
        BY <3>1, <3>2
    <2>5. MoneyMoves
      BY MoneyMovesOn DEF RowInv
    <2> QED
      BY <2>1, <2>2, <2>3, <2>4, <2>5 DEF MoneyMoves
  <1> QED
    BY <1>1, <1>2 DEF ClosedAtVenue, VenueTrue, Ended

\* _submit, cancel, apply_fill and _snapshot close a sent order only when it has
\* ended at the venue: a timeout, a crash or an old view never frees its money.
THEOREM ClosedOnlyAtVenue == Spec => []ClosedAtVenue
  BY ClosedAtVenueInit, ClosedAtVenueStep, SenderInvariant, RowInvariant, OutsideInvariant,
     MoneyInvariant, PTL DEF Spec

-----------------------------------------------------------------------------
(* Shortfalls.                                                             *)

LEMMA ShortfallStep ==
    SenderInv /\ RowInv /\ OutsideInv /\ MoneyInv /\ [Next]_vars =>
        (~Short /\ Short' => mode' = "HALTED")
PROOF
  <1> SUFFICES ASSUME SenderInv, RowInv, OutsideInv, MoneyInv, [Next]_vars, ~Short, Short'
               PROVE  mode' = "HALTED"
    OBVIOUS
  <1>0. /\ reserved \in Int /\ quote \in Int /\ base \in Int
        /\ res \in [Orders -> Nat] /\ res \in [Orders -> Int]
        /\ SumOf(res, Sells) \in Int
    <2>1. /\ reserved \in Int /\ quote \in Int /\ base \in Int
          /\ res \in [Orders -> Nat] /\ res \in [Orders -> Int]
      BY DEF MoneyInv, MoneyTypes
    <2> QED
      BY <2>1, SumsAreInts
  <1>1. MoneyInv' /\ res' \in [Orders -> Int]
    <2>1. MoneyInv'
      BY MoneyInvStep
    <2> QED
      BY <2>1 DEF MoneyInv, MoneyTypes
  <1>2. quote >= reserved /\ base >= SumOf(res, Sells) /\ quote >= 0
    BY <1>0 DEF Short
  <1>3. ~Still
    BY DEF Still, Short
  <1>4. ASSUME NEW i \in Orders, Closing(i) PROVE FALSE
    <2>1. /\ UNCHANGED <<quote, base>>
          /\ res' = [res EXCEPT ![i] = 0]
          /\ reserved' = IF i \in Buys THEN reserved - res[i] ELSE reserved
      BY <1>4 DEF Closing, Release
    <2>2. SumOf(res', Sells) = SumOf(res, Sells) + IF i \in Sells THEN res'[i] - res[i] ELSE 0
      <3>1. \A j \in Orders \ {i} : res'[j] = res[j]
        BY <1>0, <2>1
      <3> QED
        BY <1>0, <1>1, <3>1, ChangedSum
    <2>3. res[i] \in Nat /\ res'[i] = 0
      BY <1>0, <2>1
    <2>4. quote' >= reserved' /\ base' >= SumOf(res', Sells) /\ quote' >= 0
      BY <1>0, <1>2, <2>1, <2>2, <2>3
    <2>5. reserved' \in Int /\ SumOf(res', Sells) \in Int
      BY <1>0, <2>1, <2>2, <2>3
    <2> QED
      BY <1>0, <2>1, <2>4, <2>5 DEF Short
  <1>5. ASSUME NEW i \in Orders, Taking(i) PROVE FALSE
    <2>1. /\ UNCHANGED <<quote, base>>
          /\ status[i] = "NEW"
          /\ res' = [res EXCEPT ![i] = Qty[i]]
          /\ reserved' = IF i \in Buys THEN reserved + Qty[i] ELSE reserved
          /\ IF i \in Buys THEN quote - reserved >= Qty[i] ELSE base - SumOf(res, Sells) >= Qty[i]
      BY <1>5 DEF Taking, ReserveRow, Affordable
    <2>2. SumOf(res', Sells) = SumOf(res, Sells) + IF i \in Sells THEN res'[i] - res[i] ELSE 0
      <3>1. \A j \in Orders \ {i} : res'[j] = res[j]
        BY <1>0, <2>1
      <3> QED
        BY <1>0, <1>1, <3>1, ChangedSum
    <2>3. Qty[i] \in Nat /\ res'[i] = Qty[i] /\ res[i] = 0
      BY <1>0, <2>1, AccountAssumption DEF MoneyInv, BudgetHeld
    <2>4. i \in Buys => i \notin Sells
      BY AccountAssumption
    <2>5. quote' >= reserved' /\ base' >= SumOf(res', Sells) /\ quote' >= 0
      BY <1>0, <1>2, <2>1, <2>2, <2>3, <2>4
    <2>6. reserved' \in Int /\ SumOf(res', Sells) \in Int
      BY <1>0, <2>1, <2>2, <2>3
    <2> QED
      BY <1>0, <2>1, <2>5, <2>6 DEF Short
  <1>6. ASSUME NEW i \in Orders, NEW k \in Nat, Filling(i, k) PROVE mode' = "HALTED"
    <2>1. Breach(i)
      BY DEF Short, Breach
    <2> QED
      BY <1>6, <2>1 DEF Filling
  <1>7. MoneyMoves
    BY MoneyMovesOn DEF RowInv
  <1> QED
    BY <1>3, <1>4, <1>5, <1>6, <1>7 DEF MoneyMoves

\* Only a late fill brings the account into a shortfall (apply_fill), and it
\* halts the account in the same transaction.
THEOREM ShortfallsHalt == Spec => ShortfallHalts
PROOF
  <1>1. SenderInv /\ RowInv /\ OutsideInv /\ MoneyInv /\ [Next]_vars =>
          [~Short /\ Short' => mode' = "HALTED"]_vars
    BY ShortfallStep
  <1> QED
    BY <1>1, SenderInvariant, RowInvariant, OutsideInvariant, MoneyInvariant, PTL
    DEF Spec, ShortfallHalts

-----------------------------------------------------------------------------
(* The outbox.                                                             *)

Stage == [i \in Orders |-> StageOf(i)]
Given == {i \in Orders : sends[i] > 0}
EndedOrders == {i \in Orders : venue[i].state \in Ended}

Departing == {"recheck", "send"}

\* Process p neither claims an order nor lets go of one it has not sent.
StaysAt(p) ==
    /\ \A q \in Procs : /\ at'[q].pc \in Departing <=> at[q].pc \in Departing
                        /\ at[q].pc \in Departing => at'[q].order = at[q].order
    /\ UNCHANGED sends

Claims(p) ==
    LET i == at[p].order IN
    /\ i \in Orders
    /\ status[i] = "RESERVED" /\ OthersResolved(i)
    /\ status' = [status EXCEPT ![i] = "SUBMITTING"]
    /\ at'[p].pc = "recheck" /\ at'[p].order = i
    /\ \A q \in Procs \ {p} : at'[q] = at[q]
    /\ UNCHANGED sends

\* Process p sends the order it has claimed, gives it up or closes it.
LetsGo(p) ==
    LET i == at[p].order IN
    /\ i \in Orders
    /\ at[p].pc \in Departing
    /\ at'[p].pc \notin Departing
    /\ \A q \in Procs \ {p} : at'[q] = at[q]
    /\ \/ sends' = [sends EXCEPT ![i] = @ + 1] /\ UNCHANGED status
       \/ UNCHANGED <<sends, status>>
       \/ UNCHANGED sends /\ \E s \in Terminal : status' = [status EXCEPT ![i] = s]

\* A call that ends lets go of the order it has not sent.
LEMMA CrashLetsGo ==
    ASSUME SenderInv, NEW p \in Procs, Finish(p), UNCHANGED <<sends, status>>
    PROVE  StaysAt(p) \/ LetsGo(p)
PROOF
  <1>0. SenderTypes /\ at \in [Procs -> Call]
    BY DEF SenderInv, SenderTypes
  <1>1. at'[p].pc = "idle" /\ \A q \in Procs \ {p} : at'[q] = at[q]
    BY <1>0 DEF Finish, Idle
  <1>2. CASE at[p].pc \in Departing
    <2>1. at[p].order \in Orders
      BY <1>0, <1>2 DEF SenderTypes, Departing
    <2> QED
      BY <1>1, <1>2, <2>1 DEF LetsGo, Departing
  <1>3. CASE at[p].pc \notin Departing
    BY <1>1, <1>3 DEF StaysAt, Departing
  <1> QED
    BY <1>2, <1>3

\* Every step of a call does one of the three.
LEMMA ProcessDeparts ==
    ASSUME SenderInv, NEW p \in Procs, Process(p)
    PROVE  StaysAt(p) \/ Claims(p) \/ LetsGo(p)
PROOF
  <1> DEFINE j == at[p].order
             Good == StaysAt(p) \/ Claims(p) \/ LetsGo(p)
  <1> USE DEF At
  <1>0. SenderTypes /\ at \in [Procs -> Call]
    BY DEF SenderInv, SenderTypes
  <1>q. ASSUME at[p].pc \notin Departing, UNCHANGED sends,
               \A q \in Procs \ {p} : at'[q] = at[q], at'[p].pc \notin Departing
        PROVE  StaysAt(p)
    BY <1>q DEF StaysAt
  <1>f. ASSUME Finish(p) PROVE at'[p].pc \notin Departing /\ \A q \in Procs \ {p} : at'[q] = at[q]
    BY <1>0, <1>f DEF Finish, Idle, Departing
  <1>g. ASSUME NEW pc, NEW i, NEW a, Go(p, pc, i, a)
        PROVE  at'[p].pc = pc /\ at'[p].order = i /\ \A q \in Procs \ {p} : at'[q] = at[q]
    BY <1>0, <1>g DEF Go
  <1>u. ASSUME UNCHANGED <<at, sends>> PROVE StaysAt(p)
    BY <1>u DEF StaysAt
  <1>1. ASSUME NEW v \in Verdicts, NEW old \in BOOLEAN, NEW i \in Orders,
               CheckReserve(p, i, v, old) \/ CheckSubmit(p, i, v, old)
        PROVE  Good
    <2>1. UNCHANGED sends /\ at[p].pc = "idle"
      BY <1>1 DEF CheckReserve, CheckSubmit, Checked, external, Free
    <2>2. UNCHANGED at \/ Go(p, "reserve", i, "none") \/ Go(p, "claim", i, "none")
      BY <1>1 DEF CheckReserve, CheckSubmit, Checked
    <2> QED
      BY <1>q, <1>g, <1>u, <2>1, <2>2 DEF Departing
  <1>2. ASSUME NEW v \in Verdicts, NEW old \in BOOLEAN,
               \/ Reserve(p, v, old) \/ ReserveOverBudget(p, v, old) \/ ReserveRefused(p)
               \/ StopNewRisk(p) \/ ClaimOverBudget(p, v, old) \/ ClaimRefused(p, v)
               \/ ClaimExpired(p)
        PROVE  Good
    <2>1. UNCHANGED sends /\ at[p].pc \in {"reserve", "stop", "claim"}
      BY <1>2 DEF Reserve, ReserveOverBudget, ReserveRefused, StopNewRisk, ClaimOverBudget,
                  ClaimRefused, ClaimExpired, external
    <2>2. Finish(p) \/ Go(p, "stop", j, "none")
      BY <1>2 DEF Reserve, ReserveOverBudget, ReserveRefused, StopNewRisk, ClaimOverBudget,
                  ClaimRefused, ClaimExpired
    <2> QED
      BY <1>q, <1>f, <1>g, <2>1, <2>2 DEF Departing
  <1>3. ASSUME NEW v \in Verdicts, NEW old \in BOOLEAN, ClaimOrder(p, v, old)
        PROVE  Good
    <2>1. UNCHANGED sends /\ at[p].pc = "claim" /\ j \in Orders
      BY <1>0, <1>3 DEF ClaimOrder, external, SenderTypes
    <2>2. CASE Finish(p)
      BY <1>q, <1>f, <2>1, <2>2 DEF Departing
    <2>3. CASE ~Finish(p)
      <3>1. /\ status[j] = "RESERVED" /\ OthersResolved(j)
            /\ status' = [status EXCEPT ![j] = "SUBMITTING"]
            /\ Go(p, "recheck", j, "none")
        BY <1>3, <2>3 DEF ClaimOrder, MaySubmit, Claimable
      <3> QED
        BY <1>g, <2>1, <3>1 DEF Claims
    <2> QED
      BY <2>2, <2>3
  <1>4. ASSUME NEW v \in Verdicts, NEW old \in BOOLEAN, Recheck(p, v, old)
        PROVE  Good
    <2>1. UNCHANGED sends /\ at[p].pc = "recheck" /\ j \in Orders
      BY <1>0, <1>4 DEF Recheck, external, SenderTypes
    <2>2. CASE Go(p, "send", j, "none")
      BY <1>g, <2>1, <2>2 DEF StaysAt, Departing
    <2>3. CASE ~Go(p, "send", j, "none")
      <3>1. Go(p, "doubt", j, "SUBMITTING") \/ Finish(p)
        BY <1>4, <2>3 DEF Recheck
      <3>2. at'[p].pc \notin Departing /\ \A q \in Procs \ {p} : at'[q] = at[q]
        BY <1>f, <1>g, <3>1 DEF Departing
      <3>3. UNCHANGED status \/ status' = [status EXCEPT ![j] = "CANCELED"]
        BY <1>4, <2>3 DEF Recheck, EndUnsent, Release, orderRows
      <3>4. UNCHANGED status \/ \E s \in Terminal : status' = [status EXCEPT ![j] = s]
        BY <3>3 DEF Terminal
      <3> QED
        BY <2>1, <3>2, <3>4 DEF LetsGo, Departing
    <2> QED
      BY <2>2, <2>3
  <1>5. CASE SendOrder(p)
    <2>1. /\ at[p].pc = "send" /\ j \in Orders /\ UNCHANGED status
          /\ sends' = [sends EXCEPT ![j] = @ + 1] /\ Go(p, "await", j, "none")
      BY <1>0, <1>5 DEF SendOrder, SenderTypes, account, orderRows
    <2> QED
      BY <1>g, <2>1 DEF LetsGo, Departing
  <1>6. CASE SubmitRaises(p)
    <2>1. /\ at[p].pc \in {"send", "await"} /\ j \in Orders /\ UNCHANGED <<sends, status>>
          /\ Go(p, "doubt", j, "SUBMITTING")
      BY <1>0, <1>6 DEF SubmitRaises, SenderTypes, account, orderRows, external
    <2>2. CASE at[p].pc = "send"
      BY <1>g, <2>1, <2>2 DEF LetsGo, Departing
    <2>3. CASE at[p].pc = "await"
      BY <1>q, <1>g, <2>1, <2>3 DEF Departing
    <2> QED
      BY <2>1, <2>2, <2>3
  <1>7. ASSUME NEW a, SubmitAnswered(p, a) \/ RecordSubmit(p) \/ CancelAnswered(p, a)
                      \/ CancelRaises(p) \/ RecordCancel(p) \/ MarkUncertain(p)
        PROVE  Good
    <2>1. UNCHANGED sends /\ at[p].pc \notin Departing
      BY <1>7 DEF SubmitAnswered, RecordSubmit, CancelAnswered, CancelRaises, RecordCancel,
                  MarkUncertain, external, Departing
    <2>2. Finish(p) \/ Go(p, "settle", j, a) \/ Go(p, "settleCancel", j, a)
             \/ Go(p, "doubt", j, "CANCEL_PENDING")
      BY <1>7 DEF SubmitAnswered, RecordSubmit, CancelAnswered, CancelRaises, RecordCancel,
                  MarkUncertain
    <2> QED
      BY <1>q, <1>f, <1>g, <2>1, <2>2 DEF Departing
  <1>8. ASSUME NEW i \in Orders, NoTrustedMarket(p, i) \/ StartCancel(p, i) \/ StartQuery(p, i)
        PROVE  Good
    <2>1. UNCHANGED sends /\ at[p].pc = "idle"
      BY <1>8 DEF NoTrustedMarket, StartCancel, StartQuery, external, Free
    <2>2. UNCHANGED at \/ /\ at'[p].pc \in {"canceling", "queried", "doubt"}
                          /\ \A q \in Procs \ {p} : at'[q] = at[q]
      BY <1>0, <1>8 DEF NoTrustedMarket, StartCancel, StartQuery, Go
    <2> QED
      BY <1>q, <1>u, <2>1, <2>2 DEF Departing
  <1>9. ASSUME NEW i \in Orders, NEW s, ApplySnapshot(p, i, s)
        PROVE  Good
    <2>1. UNCHANGED sends /\ at[p].pc \in {"queried", "ingest"}
      BY <1>9 DEF ApplySnapshot, external
    <2>2. PassOver(p, i) \/ Finish(p) \/ Go(p, "doubt", i, "any")
      BY <1>9 DEF ApplySnapshot
    <2>3. at'[p].pc \notin Departing /\ \A q \in Procs \ {p} : at'[q] = at[q]
      <3>1. CASE PassOver(p, i)
        BY <1>0, <2>1, <3>1, PassOverCall DEF Departing
      <3> QED
        BY <1>f, <1>g, <2>2, <3>1 DEF Departing
    <2> QED
      BY <1>q, <2>1, <2>3 DEF Departing
  <1>10. ASSUME NEW i \in Orders, NEW s, NEW k, IngestFill(p, i, k, s)
         PROVE  Good
    BY <1>u, <1>10 DEF IngestFill, external
  <1>11. CASE Crash(p)
    BY <1>11, CrashLetsGo DEF Crash, account, orderRows, external
  <1>12. CASE ClaimLease(p) \/ StartReconcile(p)
    <2>1. UNCHANGED sends /\ at[p].pc = "idle"
      BY <1>12 DEF ClaimLease, StartReconcile, external, Free
    <2>2. UNCHANGED at \/ (at'[p].pc = "ingest" /\ \A q \in Procs \ {p} : at'[q] = at[q])
      BY <1>0, <1>12 DEF ClaimLease, StartReconcile
    <2> QED
      BY <1>q, <1>u, <2>1, <2>2 DEF Departing
  <1>13. ASSUME Submitting(p) PROVE Good
    <2>1. Verdicts # {}
      BY DEF Verdicts
    <2>2. CASE ReserveRefused(p) \/ StopNewRisk(p) \/ ClaimExpired(p)
      BY <1>2, <2>1, <2>2
    <2>3. CASE \E v \in Verdicts : ClaimRefused(p, v)
      BY <1>2, <2>3
    <2>4. CASE ~(ReserveRefused(p) \/ StopNewRisk(p) \/ ClaimExpired(p)
                   \/ \E v \in Verdicts : ClaimRefused(p, v))
      BY <1>1, <1>2, <1>3, <1>4, <1>5, <1>6, <1>7, <1>8, <1>13, <2>4 DEF Submitting
    <2> QED
      BY <2>2, <2>3, <2>4
  <1>14. ASSUME Canceling(p) PROVE Good
    BY <1>7, <1>8, <1>14 DEF Canceling
  <1>15. ASSUME Reconciling(p) PROVE Good
    BY <1>8, <1>9, <1>10, <1>12, <1>15 DEF Reconciling
  <1> QED
    BY <1>7, <1>11, <1>12, <1>13, <1>14, <1>15 DEF Process

\* Only the process that has claimed an order can be about to send it.
LEMMA LeavingRow ==
    ASSUME SenderInv, NEW i \in Orders, Leaving(i)
    PROVE  sends[i] = 0 /\ status[i] \in {"SUBMITTING", "UNKNOWN"}
  BY DEF SenderInv, BlockingRow, Acts, Acting, Leaving

\* The stage of one order moves, the others stay.
LEMMA OneStage ==
    ASSUME NEW i \in Orders, NEW x, StageOf(i)' = x,
           \A j \in Orders \ {i} : StageOf(j)' = StageOf(j)
    PROVE  Stage' = [Stage EXCEPT ![i] = x]
  BY DEF Stage

\* An order keeps its stage while its row and its sender do.
LEMMA SameStage ==
    ASSUME NEW i \in Orders, Leaving(i)' <=> Leaving(i),
           status'[i] \in Terminal <=> status[i] \in Terminal,
           status'[i] = "NEW" <=> status[i] = "NEW"
    PROVE  StageOf(i)' = StageOf(i)
  BY DEF StageOf

\* No order is held, sent or ended at the start.
LEMMA OutboxInit == Init => Outbox!Init
PROOF
  <1> SUFFICES ASSUME Init PROVE Outbox!Init
    OBVIOUS
  <1>1. \A i \in Orders : StageOf(i) = "fresh" /\ sends[i] = 0 /\ venue[i].state \notin Ended
    BY DEF Init, InitAccount, StageOf, Unknown, Ended
  <1> QED
    BY <1>1 DEF Outbox!Init

\* What the outbox may do, over the three views of OMS.
OutboxMoves ==
    \/ UNCHANGED <<Stage, Given, EndedOrders>>
    \/ \E i \in Orders :
        \/ Stage[i] = "fresh" /\ Stage' = [Stage EXCEPT ![i] = "held"]
              /\ UNCHANGED <<Given, EndedOrders>>
        \/ Stage[i] = "held" /\ i \notin Given /\ (\A j \in Orders : Stage[j] # "leaving")
              /\ Stage' = [Stage EXCEPT ![i] = "leaving"] /\ UNCHANGED <<Given, EndedOrders>>
        \/ Stage[i] = "leaving" /\ i \notin Given /\ Stage' = [Stage EXCEPT ![i] = "held"]
              /\ Given' = Given \union {i} /\ UNCHANGED EndedOrders
        \/ Stage[i] = "leaving" /\ Stage' = [Stage EXCEPT ![i] = "held"]
              /\ UNCHANGED <<Given, EndedOrders>>
        \/ i \in Given /\ EndedOrders' = EndedOrders \union {i} /\ UNCHANGED <<Stage, Given>>
        \/ Stage[i] \in {"held", "leaving"} /\ (i \in Given => i \in EndedOrders)
              /\ Stage' = [Stage EXCEPT ![i] = "settled"] /\ UNCHANGED <<Given, EndedOrders>>

\* These are the steps of OrderOutbox, or stutters.
LEMMA OutboxAllows == OutboxMoves => [Outbox!Next]_(Outbox!vars)
  BY DEF OutboxMoves, Outbox!Next, Outbox!vars, Outbox!Hold, Outbox!Prepare, Outbox!Give,
         Outbox!Abandon, Outbox!End, Outbox!Settle, Stage, Given, EndedOrders

\* What an order's row does to its stage when its sender stays where it is.
LEMMA MoneyStages ==
    ASSUME SenderInv, OutsideInv, MoneyInv, MoneyInv', RowMoves, MoneyMoves,
           UNCHANGED <<sends, venue>>,
           \A i \in Orders : Leaving(i)' <=> Leaving(i)
    PROVE  OutboxMoves
PROOF
  <1>0. status \in [Orders -> OrderStatus] /\ UNCHANGED <<Given, EndedOrders>>
    BY DEF SenderInv, SenderTypes, Given, EndedOrders
  <1>1. CASE Still
    <2>1. ASSUME NEW i \in Orders PROVE StageOf(i)' = StageOf(i)
      <3>1. /\ status'[i] \in Terminal <=> status[i] \in Terminal
            /\ status'[i] = "NEW" <=> status[i] = "NEW"
        BY <1>1 DEF Still, Empty, RowMoves, Terminal
      <3> QED
        BY <3>1, SameStage
    <2>2. Stage' = Stage
      BY <2>1 DEF Stage
    <2> QED
      BY <1>0, <2>2 DEF OutboxMoves
  <1>2. ASSUME NEW i \in Orders, \A j \in Orders \ {i} : status'[j] = status[j]
        PROVE  \A j \in Orders \ {i} : StageOf(j)' = StageOf(j)
    BY <1>2 DEF StageOf
  <1>3. ASSUME NEW i \in Orders, status[i] # "NEW", status'[i] \in Terminal,
               \A j \in Orders \ {i} : status'[j] = status[j],
               sends[i] > 0 => venue[i].state \in Ended \/ status[i] \in Terminal
        PROVE  OutboxMoves
    <2>1. StageOf(i)' = "settled" /\ \A j \in Orders \ {i} : StageOf(j)' = StageOf(j)
      BY <1>2, <1>3 DEF StageOf, Terminal
    <2>2. CASE status[i] \in Terminal
      <3>1. \A j \in Orders : StageOf(j)' = StageOf(j)
        BY <1>3, <2>1, <2>2 DEF StageOf
      <3>2. Stage' = Stage
        BY <3>1 DEF Stage
      <3> QED
        BY <1>0, <3>2 DEF OutboxMoves
    <2>3. CASE status[i] \notin Terminal
      <3>1. Stage[i] \in {"held", "leaving"}
        BY <1>3, <2>3 DEF Stage, StageOf
      <3>2. i \in Given => i \in EndedOrders
        BY <1>3, <2>3 DEF Given, EndedOrders
      <3>3. Stage' = [Stage EXCEPT ![i] = "settled"]
        BY <2>1, OneStage
      <3> QED
        BY <1>0, <3>1, <3>2, <3>3 DEF OutboxMoves
    <2> QED
      BY <2>2, <2>3
  <1>4. ASSUME NEW i \in Orders, Closing(i) PROVE OutboxMoves
    <2>1. PICK s \in Terminal : status' = [status EXCEPT ![i] = s]
      BY <1>4 DEF Closing, Release
    <2>2. status'[i] \in Terminal /\ \A j \in Orders \ {i} : status'[j] = status[j]
      BY <1>0, <2>1
    <2>3. status[i] # "NEW"
      BY <2>2 DEF RowMoves, Terminal
    <2> QED
      BY <1>3, <1>4, <2>2, <2>3 DEF Closing
  <1>5. ASSUME NEW i \in Orders, Taking(i) PROVE OutboxMoves
    <2>1. /\ status[i] = "NEW" /\ status'[i] = "RESERVED"
          /\ \A j \in Orders \ {i} : status'[j] = status[j]
      BY <1>0, <1>5 DEF Taking, ReserveRow
    <2>2. ~Leaving(i) /\ ~Leaving(i)'
      BY <2>1, LeavingRow
    <2>3. Stage[i] = "fresh" /\ StageOf(i)' = "held"
      BY <2>1, <2>2 DEF Stage, StageOf, Terminal
    <2>4. Stage' = [Stage EXCEPT ![i] = "held"]
      BY <1>2, <2>1, <2>3, OneStage
    <2> QED
      BY <1>0, <2>3, <2>4 DEF OutboxMoves
  <1>6. ASSUME NEW i \in Orders, NEW k \in Nat, Filling(i, k)
        PROVE  OutboxMoves
    <2>1. /\ status[i] # "NEW" /\ status'[i] = FillStatus(i, filled[i] + 1)
          /\ filled'[i] = filled[i] + 1
          /\ \A j \in Orders \ {i} : status'[j] = status[j]
      BY <1>0, <1>6 DEF Filling, MoneyInv, MoneyTypes
    <2>2. CASE status'[i] \notin Terminal
      <3>1. status[i] \notin Terminal /\ status'[i] # "NEW"
        BY <2>1, <2>2 DEF FillStatus, Terminal
      <3>2. StageOf(i)' = StageOf(i)
        BY <2>1, <2>2, <3>1 DEF StageOf
      <3>3. Stage' = Stage
        BY <1>2, <2>1, <3>2 DEF Stage
      <3> QED
        BY <1>0, <3>3 DEF OutboxMoves
    <2>3. CASE status'[i] \in Terminal
      <3>1. filled'[i] = Qty[i] \/ status[i] \in Terminal
        BY <2>1, <2>3 DEF FillStatus, Terminal
      <3>2. filled'[i] = Qty[i] => venue[i].state \in Ended
        <4>1. /\ venue[i].state \in VenueState /\ venue[i].filled \in Nat /\ Qty[i] \in Nat \ {0}
          BY AccountAssumption DEF SenderInv, SenderTypes, VenueOrder
        <4>2. filled'[i] <= venue[i].filled
          BY <1>6 DEF MoneyInv, LedgerMatchesFills
        <4>3. /\ venue[i].state = "OPEN" => venue[i].filled < Qty[i]
              /\ venue[i].state = "NONE" => venue[i].filled = 0
          BY <1>6 DEF OutsideInv, VenueTrue
        <4>4. filled'[i] = Qty[i] => venue[i].state # "OPEN" /\ venue[i].state # "NONE"
          BY <4>1, <4>2, <4>3
        <4> QED
          BY <4>1, <4>4 DEF VenueState, Ended
      <3> QED
        BY <1>3, <2>1, <2>3, <3>1, <3>2
    <2> QED
      BY <2>2, <2>3
  <1> QED
    BY <1>1, <1>4, <1>5, <1>6 DEF MoneyMoves

\* submit claims an order: it is the only one about to be sent.
LEMMA ClaimStages ==
    ASSUME SenderInv, NEW p \in Procs, Claims(p), UNCHANGED venue
    PROVE  OutboxMoves
PROOF
  <1>i. PICK i \in Orders : i = at[p].order
    BY DEF Claims
  <1>0. status \in [Orders -> OrderStatus]
    BY DEF SenderInv, SenderTypes
  <1>1. /\ i \in Orders /\ status[i] = "RESERVED" /\ OthersResolved(i)
        /\ status' = [status EXCEPT ![i] = "SUBMITTING"]
        /\ at'[p].pc = "recheck" /\ at'[p].order = i
        /\ \A q \in Procs \ {p} : at'[q] = at[q]
        /\ UNCHANGED <<Given, EndedOrders>>
    BY <1>i DEF Claims, Given, EndedOrders
  <1>2. at[p].pc \notin {"recheck", "send"}
    BY <1>1, <1>i, LeavingRow DEF Leaving
  <1>3. ASSUME NEW j \in Orders PROVE ~Leaving(j)
    <2>1. CASE j = i
      BY <1>1, <2>1, LeavingRow
    <2>2. CASE j # i
      BY <1>1, <2>2, LeavingRow DEF OthersResolved, Uncertain
    <2> QED
      BY <2>1, <2>2
  <1>4. Stage[i] = "held" /\ \A j \in Orders : Stage[j] # "leaving"
    BY <1>1, <1>3 DEF Stage, StageOf, Terminal
  <1>5. i \notin Given
    BY <1>1 DEF Given, SenderInv, UnclaimedUnsent
  <1>6. StageOf(i)' = "leaving"
    <2>1. Leaving(i)'
      BY <1>1 DEF Leaving
    <2>2. status'[i] = "SUBMITTING"
      BY <1>0, <1>1
    <2> QED
      BY <2>1, <2>2 DEF StageOf, Terminal
  <1>7. ASSUME NEW j \in Orders \ {i} PROVE StageOf(j)' = StageOf(j)
    <2>1. status'[j] = status[j]
      BY <1>0, <1>1
    <2>2. Leaving(j)' <=> Leaving(j)
      BY <1>1, <1>2 DEF Leaving
    <2> QED
      BY <2>1, <2>2 DEF StageOf
  <1>8. Stage' = [Stage EXCEPT ![i] = "leaving"]
    BY <1>1, <1>6, <1>7, OneStage
  <1> QED
    BY <1>1, <1>4, <1>5, <1>8 DEF OutboxMoves

\* The order is sent, given up or closed by the process that has claimed it.
LEMMA LetsGoStages ==
    ASSUME SenderInv, NEW p \in Procs, LetsGo(p), UNCHANGED venue
    PROVE  OutboxMoves
PROOF
  <1>i. PICK i \in Orders : i = at[p].order
    BY DEF LetsGo
  <1>0. status \in [Orders -> OrderStatus] /\ sends \in [Orders -> Nat]
    BY DEF SenderInv, SenderTypes
  <1>1. /\ i \in Orders /\ at[p].pc \in {"recheck", "send"}
        /\ at'[p].pc \notin {"recheck", "send"}
        /\ \A q \in Procs \ {p} : at'[q] = at[q]
        /\ \/ sends' = [sends EXCEPT ![i] = @ + 1] /\ UNCHANGED status
           \/ UNCHANGED <<sends, status>>
           \/ UNCHANGED sends /\ \E s \in Terminal : status' = [status EXCEPT ![i] = s]
        /\ UNCHANGED EndedOrders
    BY <1>i DEF LetsGo, Departing, EndedOrders
  <1>2. Leaving(i)
    BY <1>1, <1>i DEF Leaving
  <1>3. \A q \in Procs : at[q].pc \in {"recheck", "send"} => q = p
    BY <1>1 DEF SenderInv, OneSenderPerAccount
  <1>4. sends[i] = 0 /\ status[i] \in {"SUBMITTING", "UNKNOWN"}
    BY <1>1, <1>2, LeavingRow
  <1>5. Stage[i] = "leaving" /\ i \notin Given
    BY <1>1, <1>2, <1>4 DEF Stage, StageOf, Terminal, Given
  <1>6. \A j \in Orders : ~Leaving(j)'
    BY <1>1, <1>3 DEF Leaving
  <1>7. ASSUME NEW j \in Orders \ {i} PROVE StageOf(j)' = StageOf(j)
    <2>1. status'[j] = status[j]
      BY <1>0, <1>1
    <2>2. ~Leaving(j)
      BY <1>3, <1>1, <1>i DEF Leaving
    <2> QED
      BY <1>6, <2>1, <2>2 DEF StageOf
  <1>8. CASE UNCHANGED status
    <2>1. StageOf(i)' = "held"
      BY <1>1, <1>4, <1>6, <1>8 DEF StageOf, Terminal
    <2>2. Stage' = [Stage EXCEPT ![i] = "held"]
      BY <1>1, <1>7, <2>1, OneStage
    <2>3. CASE UNCHANGED sends
      BY <1>1, <1>5, <2>2, <2>3 DEF OutboxMoves, Given
    <2>4. CASE ~UNCHANGED sends
      <3>1. sends' = [sends EXCEPT ![i] = @ + 1]
        BY <1>1, <2>4
      <3>2. Given' = Given \union {i}
        BY <1>0, <1>1, <1>4, <3>1 DEF Given
      <3> QED
        BY <1>1, <1>5, <2>2, <3>2 DEF OutboxMoves
    <2> QED
      BY <2>3, <2>4
  <1>9. CASE ~UNCHANGED status
    <2>1. UNCHANGED sends /\ status'[i] \in Terminal
      BY <1>0, <1>1, <1>9
    <2>2. StageOf(i)' = "settled"
      BY <2>1 DEF StageOf, Terminal
    <2>3. Stage' = [Stage EXCEPT ![i] = "settled"]
      BY <1>1, <1>7, <2>2, OneStage
    <2>4. UNCHANGED Given
      BY <2>1 DEF Given
    <2> QED
      BY <1>1, <1>5, <2>3, <2>4 DEF OutboxMoves
  <1> QED
    BY <1>8, <1>9

\* The venue ends what it was given.
LEMMA VenueStages ==
    ASSUME SenderInv, OutsideInv, Venue
    PROVE  OutboxMoves
PROOF
  <1>0. venue \in [Orders -> VenueOrder]
    BY DEF SenderInv, SenderTypes
  <1>1. PICK i \in Orders : \/ VenueReceives(i) \/ SubmissionLost(i) \/ VenueFills(i)
                            \/ VenueEnds(i) \/ CancelArrives(i)
    BY DEF Venue
  <1>2. UNCHANGED <<status, at, sends>>
    BY <1>1 DEF VenueReceives, SubmissionLost, VenueFills, VenueEnds, CancelArrives,
                account, orderRows
  <1>3. UNCHANGED <<Stage, Given>>
    BY <1>2 DEF Stage, StageOf, Leaving, Given
  <1>4. CASE UNCHANGED venue
    BY <1>3, <1>4 DEF OutboxMoves, EndedOrders
  <1>5. CASE ~UNCHANGED venue
    <2>1. i \in Given
      <3>1. i \in wire \/ venue[i].state = "OPEN"
        BY <1>0, <1>1, <1>5
        DEF VenueReceives, SubmissionLost, VenueFills, VenueEnds, CancelArrives, VenueOrder
      <3>2. venue[i] # Unknown \/ i \in wire
        BY <3>1 DEF Unknown
      <3>3. sends[i] # 0
        BY <3>2 DEF SenderInv, OutsideKnows
      <3> QED
        BY <3>3 DEF SenderInv, SenderTypes, Given
    <2>2. \A j \in Orders \ {i} : venue'[j] = venue[j]
      BY <1>0, <1>1
      DEF VenueReceives, SubmissionLost, VenueFills, VenueEnds, CancelArrives
    <2>3. VenueMoves
      BY OutsideStep DEF Next
    <2>4. EndedOrders' = EndedOrders \/ EndedOrders' = EndedOrders \union {i}
      BY <2>2, <2>3 DEF EndedOrders, VenueMoves
    <2> QED
      BY <1>3, <2>1, <2>4 DEF OutboxMoves
  <1> QED
    BY <1>4, <1>5

LEMMA OutboxStep ==
    SenderInv /\ RowInv /\ OutsideInv /\ MoneyInv /\ [Next]_vars => [Outbox!Next]_(Outbox!vars)
PROOF
  <1> SUFFICES ASSUME SenderInv, RowInv, OutsideInv, MoneyInv, [Next]_vars PROVE OutboxMoves
    BY OutboxAllows
  <1>1. ASSUME NEW p \in Procs, Process(p) PROVE OutboxMoves
    <2>1. UNCHANGED venue
      BY <1>1, ProcessOutside
    <2>2. CASE StaysAt(p)
      <3>1. \A i \in Orders : Leaving(i)' <=> Leaving(i)
        BY <2>2 DEF StaysAt, Departing, Leaving
      <3>2. MoneyMoves /\ RowMoves /\ MoneyInv' /\ UNCHANGED sends
        BY <2>2, MoneyMovesOn, RowsStep, MoneyInvStep DEF RowInv, RowStepOK, StaysAt
      <3> QED
        BY <2>1, <3>1, <3>2, MoneyStages
    <2> QED
      BY <1>1, <2>1, <2>2, ProcessDeparts, ClaimStages, LetsGoStages
  <1>2. CASE Venue
    BY <1>2, VenueStages
  <1>3. CASE Elsewhere \/ LeaseExpires \/ UNCHANGED vars
    <2>1. UNCHANGED <<status, at, sends, venue>>
      BY <1>3
      DEF Elsewhere, SetMode, WatchdogStop, RiskCheck, Deactivate, Activate, Expire,
          LeaseExpires, vars, account, orderRows, external
    <2> QED
      BY <2>1 DEF OutboxMoves, Stage, StageOf, Leaving, Given, EndedOrders
  <1> QED
    BY <1>1, <1>2, <1>3 DEF Next

\* The calls of OMS, however they interleave and crash, do to the orders of an
\* account only what OrderOutbox allows (submit, cancel, reconcile).
THEOREM OMSImplementsOutbox == Spec => ImplementsOutbox
  BY OutboxInit, OutboxStep, SenderInvariant, RowInvariant, OutsideInvariant, MoneyInvariant, PTL
  DEF Spec, ImplementsOutbox, Outbox!Spec

-----------------------------------------------------------------------------
(* Types.                                                                  *)

\* The types of what no other argument looks at.
RestTypes ==
    /\ mode \in Modes
    /\ expired \subseteq Orders
    /\ head \in [dep : Deployments, active : BOOLEAN]
    /\ past \subseteq Deployments
    /\ lease \in [holder : Procs \union {None}, live : BOOLEAN]
    /\ cancelReq \subseteq Orders

\* At the start the head is active and nothing else is set.
LEMMA RestTypesInit == Init => RestTypes
  BY DEF Init, InitAccount, RestTypes, Modes

\* Each of them is written by few actions.
LEMMA RestTypesStep == RestTypes /\ [Next]_vars => RestTypes'
PROOF
  <1> SUFFICES ASSUME RestTypes, [Next]_vars PROVE RestTypes'
    OBVIOUS
  <1>1. mode' \in Modes
    <2>1. OperatorModes \subseteq Modes
      BY OMSAssumption
    <2> QED
      BY <2>1, ModeStep DEF Latched, RestTypes, Modes
  <1>2. ASSUME UNCHANGED <<expired, heads, lease, cancelReq>> PROVE RestTypes'
    BY <1>1, <1>2 DEF RestTypes, heads
  <1>3. ASSUME NEW p \in Procs, Process(p) PROVE RestTypes'
    <2>1. CASE ClaimLease(p) \/ Crash(p)
      <3>1. UNCHANGED <<expired, heads, cancelReq>>
        BY <2>1 DEF ClaimLease, Crash, account, external
      <3>2. lease' \in [holder : Procs \union {None}, live : BOOLEAN]
        <4>1. lease \in [holder : Procs \union {None}, live : BOOLEAN]
          BY DEF RestTypes
        <4>2. CASE ClaimLease(p)
          BY <4>2 DEF ClaimLease
        <4>3. CASE Crash(p)
          <5>1. lease' = lease \/ lease' = [lease EXCEPT !.holder = None]
            BY <4>3 DEF Crash
          <5> QED
            BY <4>1, <5>1
        <4> QED
          BY <2>1, <4>2, <4>3
      <3> QED
        BY <1>1, <3>1, <3>2 DEF RestTypes, heads
    <2>2. CASE Submitting(p)
      <3>1. UNCHANGED <<expired, heads, lease, cancelReq>>
        BY <2>2
        DEF Submitting, account, external, Reserve, ReserveOverBudget, ClaimOrder,
            ClaimOverBudget, Recheck, CheckReserve, CheckSubmit, Checked, NoTrustedMarket,
            ClaimRefused, ReserveRefused, StopNewRisk, ClaimExpired, SendOrder, SubmitRaises,
            RecordSubmit, SubmitAnswered
      <3> QED
        BY <1>2, <3>1
    <2>3. ASSUME NEW i \in Orders, StartCancel(p, i) PROVE RestTypes'
      <3>1. UNCHANGED <<expired, heads, lease>> /\ cancelReq' \in {cancelReq, cancelReq \union {i}}
        BY <2>3 DEF StartCancel
      <3> QED
        BY <1>1, <3>1 DEF RestTypes, heads
    <2>4. ASSUME NEW a, CancelAnswered(p, a) \/ CancelRaises(p) \/ RecordCancel(p) \/ MarkUncertain(p)
          PROVE  RestTypes'
      <3>1. UNCHANGED <<expired, heads, lease, cancelReq>>
        BY <2>4 DEF CancelAnswered, CancelRaises, RecordCancel, MarkUncertain, account, external
      <3> QED
        BY <1>2, <3>1
    <2>5. CASE Reconciling(p)
      <3>1. UNCHANGED <<expired, heads, lease, cancelReq>>
        BY <2>5
        DEF Reconciling, StartReconcile, StartQuery, ApplySnapshot, IngestFill, account, external
      <3> QED
        BY <1>2, <3>1
    <2> QED
      BY <1>3, <2>1, <2>2, <2>3, <2>4, <2>5 DEF Process, Canceling
  <1>4. CASE Venue
    <2>1. UNCHANGED <<expired, heads, lease>> /\ cancelReq' \subseteq cancelReq
      BY <1>4 DEF Venue, VenueReceives, SubmissionLost, VenueFills, VenueEnds, CancelArrives, account
    <2> QED
      BY <1>1, <2>1 DEF RestTypes, heads
  <1>5. CASE Elsewhere
    <2>1. UNCHANGED <<lease, cancelReq>>
      BY <1>5 DEF Elsewhere, external
    <2>2. ASSUME NEW d \in Deployments, Activate(d) PROVE RestTypes'
      <3>1. head' = [dep |-> d, active |-> TRUE] /\ past' = past \union {d} /\ UNCHANGED expired
        BY <2>2 DEF Activate
      <3> QED
        BY <1>1, <2>1, <3>1 DEF RestTypes
    <2>3. CASE Deactivate
      BY <1>1, <2>1, <2>3 DEF Deactivate, RestTypes
    <2>4. ASSUME NEW i \in MayExpire, Expire(i) PROVE RestTypes'
      <3>1. i \in Orders /\ expired' = expired \union {i} /\ UNCHANGED heads
        BY <2>4, OMSAssumption DEF Expire
      <3> QED
        BY <1>1, <2>1, <3>1 DEF RestTypes, heads
    <2>5. ASSUME NEW m, NEW v, NEW old, SetMode(m) \/ WatchdogStop \/ RiskCheck(v, old)
          PROVE  RestTypes'
      BY <1>2, <2>1, <2>5 DEF SetMode, WatchdogStop, RiskCheck
    <2> QED
      BY <1>5, <2>2, <2>3, <2>4, <2>5 DEF Elsewhere
  <1>6. CASE LeaseExpires
    <2>1. UNCHANGED <<expired, heads, cancelReq>> /\ lease' = [lease EXCEPT !.live = FALSE]
      BY <1>6 DEF LeaseExpires, account, external
    <2> QED
      BY <1>1, <2>1 DEF RestTypes, heads
  <1>7. CASE UNCHANGED vars
    BY <1>2, <1>7 DEF vars, account, external
  <1> QED
    BY <1>3, <1>4, <1>5, <1>6, <1>7 DEF Next

\* The rows, the books, the venue and the memory of every process keep their
\* types.
THEOREM OMSTypeCorrect == Spec => []TypeOK
PROOF
  <1>1. Spec => []RestTypes
    BY RestTypesInit, RestTypesStep, PTL DEF Spec
  <1>2. SenderInv /\ RowInv /\ MoneyInv /\ RestTypes => TypeOK
    <2> SUFFICES ASSUME SenderInv, RowInv, MoneyInv, RestTypes PROVE TypeOK
      OBVIOUS
    <2>1. reserved \in Nat
      <3>1. \A i \in Buys : res[i] \in Nat
        BY DEF MoneyInv, MoneyTypes, Orders
      <3>2. SumOf(res, Buys) \in Nat
        BY <3>1, FiniteOrders, SumNat
      <3> QED
        BY <3>2 DEF MoneyInv, BudgetHeld
    <2>2. trades \in [Orders -> SUBSET (Nat \ {0})]
      <3>1. \A i \in Orders : venue[i].filled \in Nat
        BY DEF SenderInv, SenderTypes, VenueOrder
      <3>2. \A i \in Orders : trades[i] \subseteq Nat \ {0}
        BY <3>1 DEF MoneyInv, TradesTrue
      <3> QED
        BY <3>2 DEF MoneyInv, MoneyTypes
    <2>3. TypeOKAccount
      BY <2>1, <2>2
      DEF TypeOKAccount, SenderInv, SenderTypes, RowInv, RowTypes, MoneyInv, MoneyTypes, RestTypes
    <2> QED
      BY <2>3 DEF TypeOK, SenderInv, SenderTypes, RestTypes, Call, View
  <1> QED
    BY <1>1, <1>2, SenderInvariant, RowInvariant, MoneyInvariant, PTL
=============================================================================
