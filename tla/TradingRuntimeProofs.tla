------------------------ MODULE TradingRuntimeProofs ------------------------
(***************************************************************************)
(* TradingRuntime for every number of processes, events and bars: one step *)
(* at a time, one order per bar, one sending per order, and a history that *)
(* is on record, whoever was stalled, restarted or lost the lease.         *)
(***************************************************************************)
EXTENDS TradingRuntime, TLAPS

-----------------------------------------------------------------------------
(* The inductive invariant.  First what holds of the memory m of process r *)
(* while l is the lease and c the completed events.                        *)

\* Heads follow each other in the order of receipt.
Rank(h) == IF h = NoEvent THEN 0 ELSE h
HeadRows == IF head = NoEvent THEN {} ELSE step[head].rows
Carrying == {"execute", "submit", "sending", "answer", "finish"}
InProcess == Carrying \union {"claimed", "decide", "checkpoint"}

\* A token that is held belongs to the live lease; a process that is under
\* way has one, of this claim or of an earlier one.
TokenSound(r, m, l) ==
    /\ m.token = "held" => l = r
    /\ m.pc \in InProcess => m.token # "none" /\ m.event \in Events
    /\ m.pc \in InProcess \ {"claimed"} => m.restored

\* What an instance knows of the head is older than what it read of it for
\* this event, and that is not newer than the head.
HeadSound(m) ==
    /\ Rank(m.head) <= Rank(head)
    /\ m.again => Rank(m.head) <= Rank(m.step) /\ Rank(m.step) <= Rank(head)
    /\ m.pc \in {"decide", "checkpoint"} => m.again
    /\ m.pc \in {"idle", "claimed"} => ~m.again

\* What is carried out is on record, under the lease it is the head; whoever
\* decides has finished the step that was the head when it read it.
CarriedSound(r, m, l, c) ==
    /\ m.pc \in Carrying => m.step \in Saved
    /\ m.pc \in {"submit", "sending"} => step[m.step].intent
    /\ m.pc \in {"decide", "checkpoint"} => m.step \in c \union {NoEvent}
    /\ m.pc = "checkpoint" => m.event > Rank(m.step)
    /\ l = r /\ m.token = "held" /\ m.pc \in Carrying \ {"execute"} => m.step = head

\* The strategy of an instance that may still save is the one on record, and
\* the event that it is about to save.
HistorySound(m) ==
    m.token # "lost" /\ m.restored /\ m.head = head =>
        /\ m.pc # "checkpoint" => m.rows = HeadRows
        /\ m.pc = "checkpoint" =>
              /\ m.rows \in {HeadRows, HeadRows \union {m.event}}
              /\ m.intent => /\ m.event \in m.rows
                             /\ \A f \in HeadRows : Bar[f] < Bar[m.event]

Sound(r, m, l, c) ==
    TokenSound(r, m, l) /\ HeadSound(m) /\ CarriedSound(r, m, l, c) /\ HistorySound(m)

Memories == \A r \in Runtimes : Sound(r, rt[r], lease, complete)

\* The head is the latest step; a step with an order has its bar on record.
Heads ==
    /\ head # NoEvent => head \in Saved
    /\ \A e \in Saved : e <= Rank(head) /\ (step[e].intent => e \in step[e].rows)

\* An order is sent once, by the process that moved it to SUBMITTING.
Sendings ==
    /\ \A e \in Events :
          /\ order[e] \in {"none", "RESERVED"} => sent[e] = 0
          /\ sent[e] > 0 => sent[e] = 1 /\ step[e].saved /\ step[e].intent
    /\ \A r \in Runtimes : At(r, "sending") =>
          order[Step(r)] \notin {"none", "RESERVED"} /\ sent[Step(r)] = 0
    /\ \A q, r \in Runtimes :
          At(q, "sending") /\ At(r, "sending") /\ Step(q) = Step(r) => q = r

RuntimeInv ==
    /\ TypeOK /\ Memories /\ Heads /\ Sendings
    /\ OnlyHeadUnfinished /\ HistoryOnRecord /\ OneOrderPerBar

Halted == [Fresh EXCEPT !.pc = "halted"]

LEMMA FreshSound ==
    ASSUME NEW r, NEW l, NEW c, NEW m \in {Fresh, Halted}, TypeOK
    PROVE  m \in Memory /\ m.pc \in {"idle", "halted"} /\ Sound(r, m, l, c)
PROOF
  <1>1. /\ m.pc \in {"idle", "halted"} /\ m.token = "none" /\ m.restored = FALSE
        /\ m.head = NoEvent /\ m.again = FALSE
    BY DEF Fresh, Halted
  <1>2. m \in Memory
    <2>1. Fresh \in Memory
      BY DEF Fresh, Memory, Places
    <2>2. Halted \in Memory
      BY <2>1 DEF Halted, Memory, Places
    <2> QED
      BY <2>1, <2>2
  <1>3. Rank(NoEvent) = 0 /\ 0 <= Rank(head)
    BY RuntimeAssumption DEF Rank, TypeOK
  <1>4. m.pc \notin InProcess
    BY <1>1 DEF InProcess, Carrying
  <1>5. TokenSound(r, m, l) /\ HistorySound(m)
    BY <1>1, <1>4 DEF TokenSound, HistorySound
  <1>6. HeadSound(m)
    BY <1>1, <1>3 DEF HeadSound
  <1>7. CarriedSound(r, m, l, c)
    BY <1>1 DEF CarriedSound, Carrying
  <1> QED
    BY <1>1, <1>2, <1>5, <1>6, <1>7 DEF Sound

LEMMA RuntimeInvInit == Init => RuntimeInv
PROOF
  <1> SUFFICES ASSUME Init PROVE RuntimeInv
    OBVIOUS
  <1>1. Fresh \in Memory /\ Fresh.pc = "idle"
    BY DEF Fresh, Memory, Places
  <1>2. TypeOK
    BY <1>1 DEF Init, TypeOK, NoStep, OrderStatus, Modes
  <1>3. Memories
    BY <1>1, <1>2, FreshSound DEF Init, Memories
  <1>4. Saved = {}
    BY DEF Init, Saved, NoStep
  <1>5. Sendings
    BY <1>1 DEF Init, Sendings, At
  <1> QED
    BY <1>2, <1>3, <1>4, <1>5
    DEF RuntimeInv, Heads, Init, OnlyHeadUnfinished, HistoryOnRecord, OneOrderPerBar

-----------------------------------------------------------------------------
(* The steps.                                                              *)

(***************************************************************************)
(* One process gets the memory m; nothing is saved.                        *)
(***************************************************************************)
LEMMA MemoryMoves ==
    ASSUME RuntimeInv, NEW r \in Runtimes, NEW m \in Memory,
           Sound(r, m, lease', complete'),
           rt' = [rt EXCEPT ![r] = m],
           \A q \in Runtimes \ {r} :
               (lease' = q => lease = q) /\ (rt[q].token = "held" => lease' = q),
           UNCHANGED <<step, head>>, complete \subseteq complete', complete' \subseteq Events,
           order' \in [Events -> OrderStatus], late' \subseteq Events,
           sent' \in [Events -> Nat], mode' \in Modes,
           lease' \in Runtimes \union {"free", "dead"},
           Sendings'
    PROVE  RuntimeInv'
PROOF
  <1>1. /\ rt' \in [Runtimes -> Memory] /\ rt'[r] = m
        /\ \A q \in Runtimes \ {r} : rt'[q] = rt[q]
    BY DEF RuntimeInv, TypeOK
  <1>2. TypeOK'
    BY <1>1 DEF RuntimeInv, TypeOK
  <1>3. /\ Saved' = Saved /\ HeadRows' = HeadRows
        /\ \A h : Rank(h)' = Rank(h)
    BY DEF Saved, HeadRows, Rank
  <1>4. \A q \in Runtimes \ {r} : Sound(q, rt[q], lease', complete')
    BY DEF RuntimeInv, Memories, Sound, TokenSound, CarriedSound
  <1>5. \A q \in Runtimes : Sound(q, rt'[q], lease', complete')
    BY <1>1, <1>4
  <1>6. Memories'
    BY <1>3, <1>5
    DEF Memories, Sound, TokenSound, HeadSound, CarriedSound, HistorySound, Rank
  <1>7. Heads' /\ OnlyHeadUnfinished' /\ HistoryOnRecord' /\ OneOrderPerBar'
    BY <1>3 DEF RuntimeInv, Heads, OnlyHeadUnfinished, HistoryOnRecord, OneOrderPerBar, Rank
  <1> QED
    BY <1>2, <1>6, <1>7 DEF RuntimeInv

-----------------------------------------------------------------------------
(* Steps that send nothing.                                                *)

(***************************************************************************)
(* A step that does not bring a process to the sending, and that makes no  *)
(* order unsent that was not.                                              *)
(***************************************************************************)
LEMMA SendingsKept ==
    ASSUME RuntimeInv, NEW r \in Runtimes, NEW m \in Memory, m.pc # "sending",
           rt' = [rt EXCEPT ![r] = m], UNCHANGED <<step, sent>>,
           \A e \in Events : order'[e] \in {"none", "RESERVED"} =>
               order[e] \in {"none", "RESERVED"}
    PROVE  Sendings'
PROOF
  <1>1. /\ rt'[r] = m /\ \A q \in Runtimes \ {r} : rt'[q] = rt[q]
    BY DEF RuntimeInv, TypeOK
  <1>2. \A q \in Runtimes : At(q, "sending")' => At(q, "sending") /\ Step(q)' = Step(q)
    BY <1>1 DEF At, Step
  <1>3. \A q \in Runtimes : At(q, "sending") => Step(q) \in Events
    BY DEF RuntimeInv, Memories, Sound, CarriedSound, At, Step, Carrying, Saved
  <1> QED
    BY <1>2, <1>3 DEF RuntimeInv, Sendings, At

\* What a step leaves alone when it only moves a process.
OnlyMoves ==
    /\ UNCHANGED <<step, complete, head, late, sent, lease>>
    /\ order' \in [Events -> OrderStatus] /\ mode' \in Modes
    /\ \A e \in Events : order'[e] \in {"none", "RESERVED"} =>
          order[e] \in {"none", "RESERVED"}

LEMMA QuietMoves ==
    ASSUME RuntimeInv, OnlyMoves, NEW r \in Runtimes, NEW m \in Memory, m.pc # "sending",
           Sound(r, m, lease, complete), rt' = [rt EXCEPT ![r] = m]
    PROVE  RuntimeInv'
PROOF
  <1>1. Sendings'
    BY SendingsKept DEF OnlyMoves
  <1>2. \A q \in Runtimes \ {r} : rt[q].token = "held" => lease = q
    BY DEF RuntimeInv, Memories, Sound, TokenSound
  <1>3. /\ complete' = complete /\ complete \subseteq Events /\ late' \subseteq Events
        /\ sent' \in [Events -> Nat] /\ lease' = lease
        /\ lease \in Runtimes \union {"free", "dead"}
    BY DEF OnlyMoves, RuntimeInv, TypeOK
  <1> QED
    BY <1>1, <1>2, <1>3, MemoryMoves DEF OnlyMoves

LEMMA Stays ==
    ASSUME RuntimeInv, UNCHANGED <<step, complete, head, order, late, sent, lease>>,
           mode' \in Modes
    PROVE  OnlyMoves
  BY DEF OnlyMoves, RuntimeInv, TypeOK

\* The memory a process has, or keeps when it goes to another place.
LEMMA MemoryShape ==
    ASSUME RuntimeInv, NEW r \in Runtimes
    PROVE  /\ rt[r] \in Memory /\ Sound(r, rt[r], lease, complete)
           /\ rt[r].pc \in Carrying => Step(r) \in Saved /\ Step(r) \in Events
  BY DEF RuntimeInv, TypeOK, Memories, Sound, CarriedSound, Step, Saved

LEMMA GotoSound ==
    ASSUME RuntimeInv, NEW r \in Runtimes, NEW pc \in Carrying,
           rt[r].pc \in Carrying,
           pc \in {"submit", "sending"} => step[Step(r)].intent,
           pc # "execute" /\ HasLease(r) => Step(r) = head
    PROVE  LET m == [rt[r] EXCEPT !.pc = pc] IN
           m \in Memory /\ m.pc = pc /\ m.step = Step(r) /\ Sound(r, m, lease, complete)
PROOF
  <1> DEFINE m == [rt[r] EXCEPT !.pc = pc]
  <1>1. rt[r] \in Memory /\ Sound(r, rt[r], lease, complete)
    BY MemoryShape
  <1>2. pc \in Places
    BY DEF Carrying, Places
  <1>3. /\ m \in Memory /\ m.pc = pc /\ m.token = rt[r].token /\ m.restored = rt[r].restored
        /\ m.head = rt[r].head /\ m.rows = rt[r].rows /\ m.event = rt[r].event
        /\ m.step = rt[r].step /\ m.again = rt[r].again /\ m.intent = rt[r].intent
    BY <1>1, <1>2 DEF Memory
  <1> HIDE DEF m
  <1>4. TokenSound(r, m, lease)
    BY <1>1, <1>3 DEF Sound, TokenSound, InProcess, Carrying
  <1>5. HeadSound(m)
    BY <1>1, <1>3 DEF Sound, HeadSound, Carrying
  <1>6. CarriedSound(r, m, lease, complete)
    BY <1>1, <1>3 DEF Sound, CarriedSound, Carrying, HasLease, Step
  <1>7. HistorySound(m)
    BY <1>1, <1>3 DEF Sound, HistorySound, Carrying
  <1>8. Sound(r, m, lease, complete)
    BY <1>4, <1>5, <1>6, <1>7 DEF Sound
  <1> QED
    BY <1>3, <1>8 DEF Step, m

\* A process that gives up keeps a history that it may still save only if it
\* is the one on record.
LEMMA IdleSound ==
    ASSUME RuntimeInv, NEW r \in Runtimes, NEW m \in Memory,
           Sound(r, m, lease, complete),
           m.pc = "checkpoint" => m.token = "lost" \/ m.head # head
    PROVE  /\ Idle(m) \in Memory /\ Idle(m).pc = "idle"
           /\ Sound(r, Idle(m), lease, complete)
PROOF
  <1> DEFINE n == Idle(m)
  <1>1. /\ n.pc = "idle" /\ n.token = m.token /\ n.restored = m.restored
        /\ n.head = m.head /\ n.rows = m.rows /\ n.again = FALSE
    BY DEF Idle, Fresh
  <1>2. n \in Memory
    BY DEF Idle, Fresh, Memory, Places
  <1> HIDE DEF n
  <1>3. TokenSound(r, n, lease) /\ HeadSound(n) /\ CarriedSound(r, n, lease, complete)
    BY <1>1 DEF Sound, TokenSound, HeadSound, CarriedSound, InProcess, Carrying
  <1>4. HistorySound(n)
    BY <1>1 DEF Sound, HistorySound
  <1> QED
    BY <1>1, <1>2, <1>3, <1>4 DEF Sound, n

LEMMA HaltMoves ==
    ASSUME RuntimeInv, NEW r \in Runtimes, Halt(r),
           UNCHANGED <<step, complete, head, late, sent, lease>>,
           order' \in [Events -> OrderStatus],
           \A e \in Events : order'[e] \in {"none", "RESERVED"} =>
               order[e] \in {"none", "RESERVED"}
    PROVE  RuntimeInv'
PROOF
  <1>1. Halted \in Memory /\ Halted.pc # "sending" /\ Sound(r, Halted, lease, complete)
    BY FreshSound DEF RuntimeInv
  <1>2. OnlyMoves
    BY DEF OnlyMoves, Halt, Modes
  <1> QED
    BY <1>1, <1>2, QuietMoves DEF Halt, Halted

LEMMA BlockMoves ==
    ASSUME RuntimeInv, NEW r \in Runtimes, Block(r), OnlyMoves,
           At(r, "checkpoint") => rt[r].token = "lost" \/ rt[r].head # head
    PROVE  RuntimeInv'
PROOF
  <1>1. /\ Idle(rt[r]) \in Memory /\ Idle(rt[r]).pc = "idle"
        /\ Sound(r, Idle(rt[r]), lease, complete)
    BY MemoryShape, IdleSound DEF At
  <1> QED
    BY <1>1, QuietMoves DEF Block

LEMMA GotoMoves ==
    ASSUME RuntimeInv, NEW r \in Runtimes, NEW pc \in Carrying \ {"sending"},
           rt[r].pc \in Carrying, Goto(r, pc), OnlyMoves,
           pc = "submit" => step[Step(r)].intent,
           pc # "execute" /\ HasLease(r) => Step(r) = head
    PROVE  RuntimeInv'
PROOF
  <1> DEFINE m == [rt[r] EXCEPT !.pc = pc]
  <1>1. m \in Memory /\ m.pc = pc /\ Sound(r, m, lease, complete)
    BY GotoSound
  <1>2. rt' = [rt EXCEPT ![r] = m]
    BY DEF Goto
  <1> HIDE DEF m
  <1> QED
    BY <1>1, <1>2, QuietMoves

\* An unfinished step is the head.
LEMMA UnfinishedIsHead ==
    ASSUME RuntimeInv, NEW r \in Runtimes, At(r, "execute"), Step(r) \notin complete
    PROVE  Step(r) = head
  BY MemoryShape DEF RuntimeInv, OnlyHeadUnfinished, At, Carrying

\* Under the lease a step that is carried out is the head.
LEMMA CarriedAtHead ==
    ASSUME RuntimeInv, NEW r \in Runtimes, rt[r].pc \in Carrying \ {"execute"}, HasLease(r)
    PROVE  Step(r) = head
  BY MemoryShape DEF Sound, CarriedSound, HasLease, Step

LEMMA AfterStepSound ==
    ASSUME RuntimeInv, NEW r \in Runtimes, rt[r].pc \in {"execute", "finish"},
           NEW c, Step(r) \in c, complete \subseteq c
    PROVE  LET m == IF rt[r].again THEN [rt[r] EXCEPT !.pc = "decide"] ELSE Idle(rt[r]) IN
           m \in Memory /\ m.pc \in {"decide", "idle"} /\ Sound(r, m, lease, c)
PROOF
  <1>1. rt[r] \in Memory /\ Sound(r, rt[r], lease, complete)
    BY MemoryShape
  <1>2. CASE rt[r].again
    <2> DEFINE m == [rt[r] EXCEPT !.pc = "decide"]
    <2>1. /\ m \in Memory /\ m.pc = "decide" /\ m.token = rt[r].token
          /\ m.restored = rt[r].restored /\ m.head = rt[r].head /\ m.rows = rt[r].rows
          /\ m.event = rt[r].event /\ m.step = rt[r].step /\ m.again = rt[r].again
      BY <1>1 DEF Memory, Places
    <2> HIDE DEF m
    <2>2. TokenSound(r, m, lease) /\ HeadSound(m)
      BY <1>1, <1>2, <2>1 DEF Sound, TokenSound, HeadSound, InProcess, Carrying
    <2>3. CarriedSound(r, m, lease, c)
      BY <2>1 DEF CarriedSound, Carrying, Step
    <2>4. HistorySound(m)
      BY <1>1, <2>1 DEF Sound, HistorySound
    <2>5. m \in Memory /\ m.pc = "decide" /\ Sound(r, m, lease, c)
      BY <2>1, <2>2, <2>3, <2>4 DEF Sound
    <2> QED
      BY <1>2, <2>5 DEF m
  <1>3. CASE ~rt[r].again
    <2>1. /\ Idle(rt[r]) \in Memory /\ Idle(rt[r]).pc = "idle"
          /\ Sound(r, Idle(rt[r]), lease, complete)
      BY <1>1, IdleSound
    <2>2. Sound(r, Idle(rt[r]), lease, c)
      BY <2>1 DEF Sound, CarriedSound, Carrying
    <2> QED
      BY <1>3, <2>1, <2>2
  <1> QED
    BY <1>2, <1>3

-----------------------------------------------------------------------------
(* _execute.                                                               *)

LEMMA ReserveKeepsRuntimeInv ==
    ASSUME RuntimeInv, NEW r \in Runtimes,
           Duplicate(r) \/ NothingToSend(r) \/ Reserve(r) \/ ReserveBlocked(r)
    PROVE  RuntimeInv'
PROOF
  <1>1. /\ At(r, "execute") /\ rt[r].pc \in Carrying
        /\ UNCHANGED <<step, complete, head, late, sent, lease>>
    BY DEF Duplicate, NothingToSend, Reserve, ReserveBlocked, ToReserve, At, Carrying,
           table, account
  <1>2. TypeOK
    BY DEF RuntimeInv
  <1>3. CASE Duplicate(r)
    <2> DEFINE m == IF rt[r].again THEN [rt[r] EXCEPT !.pc = "decide"] ELSE Idle(rt[r])
    <2>1. m \in Memory /\ m.pc \in {"decide", "idle"} /\ Sound(r, m, lease, complete)
      BY <1>1, <1>3, AfterStepSound DEF Duplicate, At
    <2>2. rt' = [rt EXCEPT ![r] = m]
      BY <1>3 DEF Duplicate, AfterStep
    <2> HIDE DEF m
    <2>3. OnlyMoves
      BY <1>1, <1>2, <1>3, Stays DEF Duplicate, account, TypeOK
    <2> QED
      BY <2>1, <2>2, <2>3, QuietMoves
  <1>4. CASE NothingToSend(r)
    <2>1. OnlyMoves
      BY <1>1, <1>2, <1>4, Stays DEF NothingToSend, account, TypeOK
    <2>2. Step(r) = head
      BY <1>4, UnfinishedIsHead DEF NothingToSend
    <2> QED
      BY <1>1, <1>4, <2>1, <2>2, GotoMoves DEF NothingToSend, Carrying
  <1>5. CASE Reserve(r)
    <2>1. Step(r) = head /\ step[Step(r)].intent
      BY <1>5, UnfinishedIsHead DEF Reserve, ToReserve
    <2>2. /\ order' \in [Events -> OrderStatus]
          /\ \A e \in Events : order'[e] \in {"none", "RESERVED"} =>
                order[e] \in {"none", "RESERVED"}
      BY <1>2, <1>5 DEF Reserve, TypeOK, OrderStatus
    <2>3. OnlyMoves
      BY <1>1, <1>2, <1>5, <2>2 DEF OnlyMoves, Reserve, TypeOK
    <2> QED
      BY <1>1, <1>5, <2>1, <2>3, GotoMoves DEF Reserve, Carrying
  <1>6. CASE ReserveBlocked(r)
    <2>1. OnlyMoves
      BY <1>1, <1>2, <1>6, Stays DEF ReserveBlocked, TypeOK, Modes
    <2>2. Step(r) = head
      BY <1>6, UnfinishedIsHead DEF ReserveBlocked, ToReserve
    <2> QED
      BY <1>1, <1>6, <2>1, <2>2, GotoMoves DEF ReserveBlocked, Carrying
  <1> QED
    BY <1>3, <1>4, <1>5, <1>6

(***************************************************************************)
(* Only one process brings an order from RESERVED to SUBMITTING, and it    *)
(* was not sent before.                                                    *)
(***************************************************************************)
LEMMA SubmitKeepsRuntimeInv ==
    ASSUME RuntimeInv, NEW r \in Runtimes, Submit(r)
    PROVE  RuntimeInv'
PROOF
  <1> DEFINE e == Step(r)
  <1>1. /\ At(r, "submit") /\ rt[r].pc \in Carrying /\ e \in Events /\ step[e].intent
        /\ UNCHANGED <<step, complete, head, late, sent, lease>>
    BY MemoryShape DEF Submit, At, Carrying, Sound, CarriedSound, Step, table
  <1>2. TypeOK /\ ~At(r, "checkpoint")
    BY <1>1 DEF RuntimeInv, At
  <1>3. HasLease(r) => e = head
    BY <1>1, CarriedAtHead DEF At, Carrying
  <1>4. CASE Block(r) /\ UNCHANGED <<order, mode>>
    <2>1. OnlyMoves
      BY <1>1, <1>2, <1>4, Stays DEF TypeOK
    <2> QED
      BY <1>2, <1>4, <2>1, BlockMoves
  <1>5. CASE /\ order[e] = "RESERVED" /\ order' = [order EXCEPT ![e] = "SUBMITTING"]
             /\ Goto(r, "sending") /\ UNCHANGED mode
    <2> DEFINE m == [rt[r] EXCEPT !.pc = "sending"]
    <2>1. m \in Memory /\ m.pc = "sending" /\ m.step = e /\ Sound(r, m, lease, complete)
      BY <1>1, <1>3, GotoSound DEF Carrying
    <2>2. rt' = [rt EXCEPT ![r] = m]
      BY <1>5 DEF Goto
    <2> HIDE DEF m
    <2>3. /\ order' \in [Events -> OrderStatus] /\ order'[e] = "SUBMITTING"
          /\ \A f \in Events \ {e} : order'[f] = order[f]
      BY <1>1, <1>2, <1>5 DEF TypeOK, OrderStatus, Uncertain
    <2>4. /\ rt'[r] = m /\ \A q \in Runtimes \ {r} : rt'[q] = rt[q]
      BY <1>2, <2>2 DEF TypeOK
    <2>5. \A q \in Runtimes : At(q, "sending") => Step(q) \in Events /\ Step(q) # e
      BY <1>1, <1>5, MemoryShape DEF RuntimeInv, Sendings, At, Carrying
    <2>6. sent[e] = 0
      BY <1>1, <1>5 DEF RuntimeInv, Sendings
    <2>7. \A q \in Runtimes : At(q, "sending")' => q = r \/ (At(q, "sending") /\ Step(q)' = Step(q))
      BY <2>4 DEF At, Step
    <2>8. Step(r)' = e
      BY <2>1, <2>4 DEF Step
    <2>9. Sendings'
      BY <1>1, <2>3, <2>5, <2>6, <2>7, <2>8 DEF RuntimeInv, Sendings
    <2>10. \A q \in Runtimes \ {r} : rt[q].token = "held" => lease = q
      BY DEF RuntimeInv, Memories, Sound, TokenSound
    <2>11. /\ complete' = complete /\ complete \subseteq Events /\ late' \subseteq Events
           /\ sent' \in [Events -> Nat] /\ lease' = lease /\ mode' \in Modes
           /\ lease \in Runtimes \union {"free", "dead"} /\ UNCHANGED <<step, head>>
      BY <1>1, <1>2, <1>5 DEF TypeOK
    <2> QED
      BY <2>1, <2>2, <2>3, <2>9, <2>10, <2>11, MemoryMoves
  <1>6. CASE /\ HasLease(r)
             /\ order' \in {order, [order EXCEPT ![e] = "UNSENT"]}
             /\ Goto(r, "finish") /\ UNCHANGED mode
    <2>1. OnlyMoves
      BY <1>1, <1>2, <1>6 DEF OnlyMoves, TypeOK, OrderStatus
    <2> QED
      BY <1>1, <1>3, <1>6, <2>1, GotoMoves DEF Carrying
  <1>7. CASE Halt(r) /\ UNCHANGED order
    BY <1>1, <1>2, <1>7, HaltMoves DEF TypeOK
  <1> QED
    BY <1>4, <1>5, <1>6, <1>7 DEF Submit

(***************************************************************************)
(* The sending goes out once: whoever stands before it is the only one.    *)
(***************************************************************************)
LEMMA SendKeepsRuntimeInv ==
    ASSUME RuntimeInv, NEW r \in Runtimes, Send(r)
    PROVE  RuntimeInv'
PROOF
  <1> DEFINE e == Step(r)
  <1>1. /\ At(r, "sending") /\ rt[r].pc \in Carrying /\ e \in Events
        /\ step[e].saved /\ step[e].intent
        /\ UNCHANGED <<step, complete, head, late, lease>>
    BY MemoryShape DEF Send, At, Carrying, Sound, CarriedSound, Step, table, Saved
  <1>2. TypeOK
    BY DEF RuntimeInv
  <1>3. HasLease(r) => e = head
    BY <1>1, CarriedAtHead DEF At, Carrying
  <1>4. order[e] \notin {"none", "RESERVED"} /\ sent[e] = 0
    BY <1>1 DEF RuntimeInv, Sendings
  <1>5. CASE /\ order' = [order EXCEPT ![e] = IF @ = "SUBMITTING" THEN "UNKNOWN" ELSE @]
             /\ Halt(r) /\ UNCHANGED sent
    <2>1. /\ order' \in [Events -> OrderStatus]
          /\ \A f \in Events : order'[f] \in {"none", "RESERVED"} =>
                order[f] \in {"none", "RESERVED"}
      BY <1>1, <1>2, <1>5 DEF TypeOK, OrderStatus, Uncertain
    <2> QED
      BY <1>1, <1>5, <2>1, HaltMoves
  <1>6. CASE /\ HasLease(r) /\ order' = [order EXCEPT ![e] = "UNSENT"]
             /\ mode' \in {"HALTED", mode}
             /\ Goto(r, "finish") /\ UNCHANGED sent
    <2>1. OnlyMoves
      BY <1>1, <1>2, <1>6 DEF OnlyMoves, TypeOK, OrderStatus, Modes
    <2> QED
      BY <1>1, <1>3, <1>6, <2>1, GotoMoves DEF Carrying
  <1>7. CASE /\ HasLease(r) /\ sent' = [sent EXCEPT ![e] = @ + 1]
             /\ Goto(r, "answer") /\ UNCHANGED <<order, mode>>
    <2> DEFINE m == [rt[r] EXCEPT !.pc = "answer"]
    <2>1. m \in Memory /\ m.pc = "answer" /\ m.step = e /\ Sound(r, m, lease, complete)
      BY <1>1, <1>3, <1>7, GotoSound DEF Carrying
    <2>2. rt' = [rt EXCEPT ![r] = m]
      BY <1>7 DEF Goto
    <2> HIDE DEF m
    <2>3. /\ sent' \in [Events -> Nat] /\ sent'[e] = 1
          /\ \A f \in Events \ {e} : sent'[f] = sent[f]
      BY <1>1, <1>2, <1>4, <1>7 DEF TypeOK
    <2>4. /\ rt'[r] = m /\ \A q \in Runtimes \ {r} : rt'[q] = rt[q]
      BY <1>2, <2>2 DEF TypeOK
    <2>5. \A q \in Runtimes : At(q, "sending")' =>
             q # r /\ At(q, "sending") /\ Step(q)' = Step(q) /\ Step(q) \in Events \ {e}
      BY <1>1, <2>1, <2>4, MemoryShape DEF RuntimeInv, Sendings, At, Step, Carrying
    <2>6. Sendings'
      BY <1>1, <1>4, <1>7, <2>3, <2>5 DEF RuntimeInv, Sendings
    <2>7. \A q \in Runtimes \ {r} : rt[q].token = "held" => lease = q
      BY DEF RuntimeInv, Memories, Sound, TokenSound
    <2>8. /\ complete' = complete /\ complete \subseteq Events /\ late' \subseteq Events
          /\ order' \in [Events -> OrderStatus] /\ lease' = lease /\ mode' \in Modes
          /\ lease \in Runtimes \union {"free", "dead"} /\ UNCHANGED <<step, head>>
      BY <1>1, <1>2, <1>7 DEF TypeOK
    <2> QED
      BY <2>1, <2>2, <2>3, <2>6, <2>7, <2>8, MemoryMoves
  <1> QED
    BY <1>5, <1>6, <1>7 DEF Send

LEMMA AnswerKeepsRuntimeInv ==
    ASSUME RuntimeInv, NEW r \in Runtimes, Answer(r)
    PROVE  RuntimeInv'
PROOF
  <1> DEFINE e == Step(r)
  <1>1. /\ At(r, "answer") /\ rt[r].pc \in Carrying /\ e \in Events /\ TypeOK
        /\ UNCHANGED <<step, complete, head, late, sent, lease>>
    BY MemoryShape DEF Answer, At, Carrying, table, RuntimeInv
  <1>2. CASE HasLease(r) /\ order' = [order EXCEPT ![e] = "DONE"]
             /\ Goto(r, "finish") /\ UNCHANGED mode
    <2>1. OnlyMoves
      BY <1>1, <1>2 DEF OnlyMoves, TypeOK, OrderStatus
    <2>2. Step(r) = head
      BY <1>1, <1>2, CarriedAtHead DEF At, Carrying
    <2> QED
      BY <1>1, <1>2, <2>1, <2>2, GotoMoves DEF Carrying
  <1>3. CASE Block(r) /\ UNCHANGED <<order, mode>>
    <2>1. OnlyMoves
      BY <1>1, <1>3, Stays DEF TypeOK
    <2> QED
      BY <1>1, <1>3, <2>1, BlockMoves DEF At
  <1>4. CASE /\ order' = [order EXCEPT ![e] = IF @ = "SUBMITTING" THEN "UNKNOWN" ELSE @]
             /\ Halt(r)
    <2>1. /\ order' \in [Events -> OrderStatus]
          /\ \A f \in Events : order'[f] \in {"none", "RESERVED"} =>
                order[f] \in {"none", "RESERVED"}
      BY <1>1, <1>4 DEF TypeOK, OrderStatus, Uncertain
    <2> QED
      BY <1>1, <1>4, <2>1, HaltMoves
  <1> QED
    BY <1>2, <1>3, <1>4 DEF Answer

LEMMA FinishKeepsRuntimeInv ==
    ASSUME RuntimeInv, NEW r \in Runtimes, Finish(r)
    PROVE  RuntimeInv'
PROOF
  <1>1. /\ At(r, "finish") /\ rt[r].pc \in Carrying /\ Step(r) \in Events /\ TypeOK
        /\ UNCHANGED <<step, head, order, late, sent, mode, lease>>
    BY MemoryShape DEF Finish, At, Carrying, account, RuntimeInv
  <1>2. CASE complete' = complete \union {Step(r)} /\ AfterStep(r)
    <2> DEFINE m == IF rt[r].again THEN [rt[r] EXCEPT !.pc = "decide"] ELSE Idle(rt[r])
    <2>1. m \in Memory /\ m.pc \in {"decide", "idle"} /\ Sound(r, m, lease, complete')
      BY <1>1, <1>2, AfterStepSound DEF At
    <2>2. rt' = [rt EXCEPT ![r] = m]
      BY <1>2 DEF AfterStep
    <2> HIDE DEF m
    <2>3. Sendings'
      BY <1>1, <2>1, <2>2, SendingsKept
    <2>4. \A q \in Runtimes \ {r} : rt[q].token = "held" => lease = q
      BY DEF RuntimeInv, Memories, Sound, TokenSound
    <2>5. /\ complete \subseteq complete' /\ complete' \subseteq Events
          /\ late' \subseteq Events /\ sent' \in [Events -> Nat]
          /\ order' \in [Events -> OrderStatus] /\ lease' = lease /\ mode' \in Modes
          /\ lease \in Runtimes \union {"free", "dead"}
      BY <1>1, <1>2 DEF TypeOK
    <2> QED
      BY <1>1, <2>1, <2>2, <2>3, <2>4, <2>5, MemoryMoves
  <1>3. CASE Block(r) /\ UNCHANGED complete
    <2>1. OnlyMoves
      BY <1>1, <1>3, Stays DEF TypeOK
    <2> QED
      BY <1>1, <1>3, <2>1, BlockMoves DEF At
  <1> QED
    BY <1>2, <1>3 DEF Finish

-----------------------------------------------------------------------------
(* process.                                                                *)

LEMMA ReceiveKeepsRuntimeInv ==
    ASSUME RuntimeInv, NEW r \in Runtimes, NEW e \in Events, Receive(r, e)
    PROVE  RuntimeInv'
PROOF
  <1>1. /\ At(r, "idle") /\ lease \in {"free", r} /\ lease' = r /\ TypeOK
        /\ UNCHANGED <<step, complete, head, order, late, sent, mode>>
    BY DEF Receive, table, account, RuntimeInv
  <1>2. PICK m \in Memory : /\ m.pc # "sending" /\ Sound(r, m, r, complete)
                            /\ rt' = [rt EXCEPT ![r] = m]
    <2>1. rt[r] \in Memory /\ Sound(r, rt[r], lease, complete)
      BY MemoryShape
    <2>2. CASE UNCHANGED rt /\ rt[r].token = "lost"
      <3>1. Sound(r, rt[r], r, complete)
        BY <1>1, <2>1, <2>2 DEF Sound, TokenSound, CarriedSound
      <3>2. rt' = [rt EXCEPT ![r] = rt[r]]
        BY <1>1, <2>2 DEF TypeOK
      <3> QED
        BY <1>1, <2>1, <3>1, <3>2 DEF At
    <2>3. CASE /\ rt[r].token # "lost"
               /\ rt' = [rt EXCEPT ![r] = [@ EXCEPT !.pc = "claimed", !.event = e, !.token = "held"]]
      <3> DEFINE m == [rt[r] EXCEPT !.pc = "claimed", !.event = e, !.token = "held"]
      <3>1. /\ m \in Memory /\ m.pc = "claimed" /\ m.token = "held"
            /\ m.restored = rt[r].restored /\ m.head = rt[r].head /\ m.rows = rt[r].rows
            /\ m.event = e /\ m.again = rt[r].again
        BY <2>1 DEF Memory, Places
      <3>2. rt' = [rt EXCEPT ![r] = m]
        BY <2>3
      <3> HIDE DEF m
      <3>3. Sound(r, m, r, complete)
        BY <1>1, <2>1, <2>3, <3>1
        DEF Sound, TokenSound, HeadSound, CarriedSound, HistorySound, At, Carrying, InProcess
      <3> QED
        BY <3>1, <3>2, <3>3
    <2> QED
      BY <2>2, <2>3 DEF Receive
  <1>3. Sendings'
    BY <1>1, <1>2, SendingsKept
  <1>4. \A q \in Runtimes \ {r} : rt[q].token # "held"
    BY <1>1, RuntimeAssumption DEF RuntimeInv, Memories, Sound, TokenSound
  <1>5. /\ complete \subseteq Events /\ late' \subseteq Events /\ sent' \in [Events -> Nat]
        /\ order' \in [Events -> OrderStatus] /\ mode' \in Modes
    BY <1>1 DEF TypeOK
  <1> QED
    BY <1>1, <1>2, <1>3, <1>4, <1>5, MemoryMoves

LEMMA SyncKeepsRuntimeInv ==
    ASSUME RuntimeInv, NEW r \in Runtimes, Sync(r)
    PROVE  RuntimeInv'
PROOF
  <1> DEFINE known == IF rt[r].restored THEN rt[r].head ELSE head
             rows == IF rt[r].restored THEN rt[r].rows ELSE HeadRows
             pc == IF head = NoEvent THEN "decide" ELSE "execute"
             m == [rt[r] EXCEPT !.restored = TRUE, !.head = known, !.rows = rows,
                                !.step = head, !.again = TRUE, !.pc = pc]
  <1>1. /\ At(r, "claimed") /\ TypeOK /\ OnlyMoves
    BY Stays DEF Sync, table, account, RuntimeInv, TypeOK
  <1>2. rt' = [rt EXCEPT ![r] = m]
    BY DEF Sync, HeadRows
  <1>3. rt[r] \in Memory /\ Sound(r, rt[r], lease, complete)
    BY MemoryShape
  <1>4. /\ known \in Events \union {NoEvent} /\ head \in Events \union {NoEvent}
        /\ rows \subseteq Events /\ pc \in {"decide", "execute"}
    BY <1>1, <1>3 DEF TypeOK, Memory, HeadRows
  <1>5. Rank(known) <= Rank(head) /\ Rank(head) \in Nat
    BY <1>1, <1>3, RuntimeAssumption DEF Sound, HeadSound, Rank, TypeOK
  <1>6. known = head => rows = HeadRows \/ rt[r].token = "lost"
    BY <1>1, <1>3 DEF Sound, HistorySound, At
  <1>7. pc = "execute" => head \in Saved
    BY DEF RuntimeInv, Heads
  <1>8. pc = "decide" => head = NoEvent
    OBVIOUS
  <1> HIDE DEF known, rows, pc
  <1>9. /\ m \in Memory /\ m.pc = pc /\ m.token = rt[r].token /\ m.restored = TRUE
        /\ m.head = known /\ m.rows = rows /\ m.event = rt[r].event /\ m.step = head
        /\ m.again = TRUE
    BY <1>3, <1>4 DEF Memory, Places
  <1> HIDE DEF m
  <1>10. TokenSound(r, m, lease)
    BY <1>1, <1>3, <1>4, <1>9 DEF Sound, TokenSound, InProcess, At
  <1>11. HeadSound(m)
    BY <1>4, <1>5, <1>9 DEF HeadSound
  <1>12. CarriedSound(r, m, lease, complete)
    BY <1>4, <1>7, <1>8, <1>9 DEF CarriedSound, Carrying
  <1>13. HistorySound(m)
    BY <1>4, <1>6, <1>9 DEF HistorySound
  <1>14. m.pc # "sending"
    BY <1>4, <1>9
  <1> QED
    BY <1>1, <1>2, <1>9, <1>10, <1>11, <1>12, <1>13, <1>14, QuietMoves DEF Sound

LEMMA ReplayKeepsRuntimeInv ==
    ASSUME RuntimeInv, NEW r \in Runtimes, Replay(r)
    PROVE  RuntimeInv'
PROOF
  <1> DEFINE m == [rt[r] EXCEPT !.step = rt[r].event, !.again = FALSE, !.pc = "execute"]
  <1>1. At(r, "decide") /\ rt[r].event \in Saved /\ OnlyMoves /\ rt' = [rt EXCEPT ![r] = m]
    BY Stays DEF Replay, table, account, RuntimeInv, TypeOK
  <1>2. rt[r] \in Memory /\ Sound(r, rt[r], lease, complete)
    BY MemoryShape
  <1>3. /\ m \in Memory /\ m.pc = "execute" /\ m.token = rt[r].token
        /\ m.restored = rt[r].restored /\ m.head = rt[r].head /\ m.rows = rt[r].rows
        /\ m.event = rt[r].event /\ m.step = rt[r].event /\ m.again = FALSE
    BY <1>2 DEF Memory, Places
  <1> HIDE DEF m
  <1>4. TokenSound(r, m, lease) /\ HeadSound(m)
    BY <1>1, <1>2, <1>3 DEF Sound, TokenSound, HeadSound, InProcess, At
  <1>5. CarriedSound(r, m, lease, complete) /\ HistorySound(m)
    BY <1>1, <1>2, <1>3 DEF Sound, CarriedSound, HistorySound, At
  <1> QED
    BY <1>1, <1>3, <1>4, <1>5, QuietMoves DEF Sound

(***************************************************************************)
(* The strategy takes the event into its history; the bars it knows are    *)
(* older, or it skips the event.                                           *)
(***************************************************************************)
LEMMA DecideKeepsRuntimeInv ==
    ASSUME RuntimeInv, NEW r \in Runtimes, Decide(r)
    PROVE  RuntimeInv'
PROOF
  <1> DEFINE e == rt[r].event
  <1>1. /\ At(r, "decide") /\ OnlyMoves /\ TypeOK
        /\ rt[r].step # NoEvent => e > rt[r].step
    BY Stays DEF Decide, table, account, RuntimeInv, TypeOK
  <1>2. /\ rt[r] \in Memory /\ Sound(r, rt[r], lease, complete) /\ e \in Events
        /\ rt[r].token # "none"
    BY <1>1, MemoryShape DEF Sound, TokenSound, InProcess, At
  <1>3. e > Rank(rt[r].step)
    <2>1. e \in Nat /\ e > 0
      BY <1>2, RuntimeAssumption
    <2>2. CASE rt[r].step = NoEvent
      BY <2>1, <2>2 DEF Rank
    <2>3. CASE rt[r].step # NoEvent
      BY <1>1, <2>3 DEF Rank
    <2> QED
      BY <2>2, <2>3
  <1>4. rt[r].rows \subseteq Events
    BY <1>2 DEF Memory
  <1>5. ASSUME NEW rows \in {rt[r].rows, rt[r].rows \union {e}}, NEW intent \in BOOLEAN,
               intent => rows = rt[r].rows \union {e} /\ Follows(r, e),
               rt' = [rt EXCEPT ![r] =
                         [rt[r] EXCEPT !.rows = rows, !.intent = intent, !.pc = "checkpoint"]]
        PROVE  RuntimeInv'
    <2> DEFINE m == [rt[r] EXCEPT !.rows = rows, !.intent = intent, !.pc = "checkpoint"]
    <2>1. /\ m \in Memory /\ m.pc = "checkpoint" /\ m.token = rt[r].token
          /\ m.restored = rt[r].restored /\ m.head = rt[r].head /\ m.rows = rows
          /\ m.event = e /\ m.step = rt[r].step /\ m.again = rt[r].again /\ m.intent = intent
      BY <1>2, <1>4, <1>5 DEF Memory, Places
    <2>2. rt' = [rt EXCEPT ![r] = m]
      BY <1>5
    <2> HIDE DEF m
    <2>3. TokenSound(r, m, lease) /\ HeadSound(m)
      BY <1>1, <1>2, <2>1 DEF Sound, TokenSound, HeadSound, InProcess, At
    <2>4. CarriedSound(r, m, lease, complete)
      BY <1>1, <1>2, <1>3, <2>1 DEF Sound, CarriedSound, Carrying, At
    <2>5. HistorySound(m)
      <3> SUFFICES ASSUME m.token # "lost", m.restored, m.head = head
                   PROVE  /\ m.rows \in {HeadRows, HeadRows \union {m.event}}
                          /\ m.intent => /\ m.event \in m.rows
                                         /\ \A f \in HeadRows : Bar[f] < Bar[m.event]
        BY <2>1 DEF HistorySound
      <3>1. rt[r].rows = HeadRows
        BY <1>1, <1>2, <2>1 DEF Sound, HistorySound, At
      <3>2. ASSUME Follows(r, e), NEW f \in HeadRows PROVE Bar[f] < Bar[e]
        <4>1. Bar[f] \in Nat /\ Bar[e] \in Nat
          BY <1>2, <1>4, <3>1, RuntimeAssumption
        <4>2. Bar[f] \in Known(r)
          BY <3>1 DEF Known
        <4>3. ~(Bar[e] <= Bar[f])
          BY <3>2, <4>2 DEF Follows, Skipped
        <4> QED
          BY <4>1, <4>3
      <3> QED
        BY <1>5, <2>1, <3>1, <3>2
    <2> QED
      BY <1>1, <2>1, <2>2, <2>3, <2>4, <2>5, QuietMoves DEF Sound
  <1>6. ASSUME ~HasLease(r),
               rt' = [rt EXCEPT ![r] = Idle([rt[r] EXCEPT !.rows = rt[r].rows \union {e}])]
        PROVE  RuntimeInv'
    <2> DEFINE m == [rt[r] EXCEPT !.rows = rt[r].rows \union {e}]
    <2>1. rt[r].token = "lost"
      BY <1>2, <1>6 DEF HasLease, Sound, TokenSound, Memory
    <2>2. /\ m \in Memory /\ m.pc = rt[r].pc /\ m.token = rt[r].token
          /\ m.restored = rt[r].restored /\ m.head = rt[r].head
          /\ m.event = e /\ m.step = rt[r].step /\ m.again = rt[r].again
      BY <1>2, <1>4 DEF Memory
    <2>3. rt' = [rt EXCEPT ![r] = Idle(m)]
      BY <1>6
    <2> HIDE DEF m
    <2>4. Sound(r, m, lease, complete)
      BY <1>2, <2>1, <2>2 DEF Sound, TokenSound, HeadSound, CarriedSound, HistorySound
    <2>5. Idle(m) \in Memory /\ Idle(m).pc = "idle" /\ Sound(r, Idle(m), lease, complete)
      BY <1>1, <2>2, <2>4, IdleSound DEF At
    <2> QED
      BY <1>1, <2>3, <2>5, QuietMoves
  <1>7. CASE rt' = [rt EXCEPT ![r] = [@ EXCEPT !.intent = FALSE, !.pc = "checkpoint"]]
    <2>1. [rt[r] EXCEPT !.intent = FALSE, !.pc = "checkpoint"] =
             [rt[r] EXCEPT !.rows = rt[r].rows, !.intent = FALSE, !.pc = "checkpoint"]
      BY <1>2 DEF Memory
    <2> QED
      BY <1>5, <1>7, <2>1
  <1>8. CASE rt' = [rt EXCEPT ![r] =
                [@ EXCEPT !.rows = rt[r].rows \union {e}, !.intent = FALSE, !.pc = "checkpoint"]]
    BY <1>5, <1>8
  <1>9. CASE /\ Follows(r, e)
             /\ LET m == [rt[r] EXCEPT !.rows = rt[r].rows \union {e}] IN
                rt' = [rt EXCEPT ![r] = IF HasLease(r)
                                        THEN [m EXCEPT !.intent = TRUE, !.pc = "checkpoint"]
                                        ELSE Idle(m)]
    <2>1. CASE HasLease(r)
      BY <1>5, <1>9, <2>1
    <2>2. CASE ~HasLease(r)
      BY <1>6, <1>9, <2>2
    <2> QED
      BY <2>1, <2>2
  <1> QED
    BY <1>7, <1>8, <1>9 DEF Decide

(***************************************************************************)
(* A step is saved on the head that the process read for this event, which *)
(* it found finished: the event is new, and later than all that is saved.  *)
(***************************************************************************)
LEMMA SaveKeepsRuntimeInv ==
    ASSUME RuntimeInv, NEW r \in Runtimes, Checkpoint(r), HasLease(r), head = rt[r].head
    PROVE  RuntimeInv'
PROOF
  <1> DEFINE e == rt[r].event
             row == [saved |-> TRUE, rows |-> rt[r].rows, intent |-> rt[r].intent]
             m == [rt[r] EXCEPT !.head = e, !.step = e, !.again = FALSE, !.pc = "execute"]
  <1>1. /\ At(r, "checkpoint") /\ TypeOK
        /\ step' = [step EXCEPT ![e] = row] /\ head' = e
        /\ rt' = [rt EXCEPT ![r] = m]
        /\ UNCHANGED <<complete, order, late, sent, mode, lease>>
    BY DEF Checkpoint, account, RuntimeInv
  <1>2. /\ rt[r] \in Memory /\ Sound(r, rt[r], lease, complete) /\ e \in Events /\ e # NoEvent
        /\ rt[r].restored /\ rt[r].token = "held" /\ rt[r].again
    BY <1>1, MemoryShape, RuntimeAssumption
    DEF Sound, TokenSound, HeadSound, InProcess, At, HasLease
  <1>3. \A h \in Events \union {NoEvent} : Rank(h) \in Nat /\ (h # NoEvent => Rank(h) = h /\ h > 0)
    BY RuntimeAssumption DEF Rank
  <1>4. /\ e \in Nat /\ e > Rank(head) /\ rt[r].step = head
    <2>1. /\ rt[r].step \in Events \union {NoEvent} /\ head \in Events \union {NoEvent}
          /\ rt[r].pc = "checkpoint"
      BY <1>1, <1>2 DEF Memory, TypeOK, At
    <2>2. Rank(rt[r].step) = Rank(head) /\ e > Rank(rt[r].step)
      <3>1. Rank(head) <= Rank(rt[r].step) /\ Rank(rt[r].step) <= Rank(head)
        BY <1>2 DEF Sound, HeadSound
      <3>2. e > Rank(rt[r].step)
        BY <1>2, <2>1 DEF Sound, CarriedSound
      <3> QED
        BY <1>3, <2>1, <3>1, <3>2
    <2>3. rt[r].step = head
      <3>1. Rank(NoEvent) = 0
        BY DEF Rank
      <3> QED
        BY <1>3, <2>1, <2>2, <3>1
    <2> QED
      BY <1>2, <2>2, <2>3, RuntimeAssumption
  <1>5. \A f \in Saved : f \in Events /\ f <= Rank(head) /\ f # e /\ f <= e /\ ~(e <= f)
    <2>1. \A f \in Saved : f \in Events /\ f <= Rank(head)
      BY DEF RuntimeInv, Heads, Saved
    <2>2. \A f \in Events : f \in Nat
      BY RuntimeAssumption
    <2>3. Rank(head) \in Nat
      BY <1>1, <1>3 DEF TypeOK
    <2> QED
      BY <1>4, <2>1, <2>2, <2>3
  <1>6. e \notin Saved
    BY <1>4, <1>5
  <1>7. /\ rt[r].rows \in {HeadRows, HeadRows \union {e}}
        /\ rt[r].intent => e \in rt[r].rows /\ \A f \in HeadRows : Bar[f] < Bar[e]
    BY <1>1, <1>2 DEF Sound, HistorySound, At
  <1>8. /\ HeadRows \subseteq Saved
        /\ \A f \in Saved : f \in step[f].rows => f \in HeadRows
    <2>1. CASE head = NoEvent
      <3>1. Rank(head) = 0 /\ \A f \in Events : f \in Nat /\ ~(f <= 0)
        BY <2>1, RuntimeAssumption DEF Rank
      <3>2. Saved = {}
        BY <1>5, <3>1
      <3> QED
        BY <2>1, <3>2 DEF HeadRows
    <2>2. CASE head # NoEvent
      <3>1. head \in Saved /\ Rank(head) = head
        BY <2>2 DEF RuntimeInv, Heads, Rank
      <3> QED
        BY <1>5, <2>2, <3>1 DEF RuntimeInv, HistoryOnRecord, HeadRows
    <2> QED
      BY <2>1, <2>2
  <1>9. /\ step' \in [Events -> [saved : BOOLEAN, rows : SUBSET Events, intent : BOOLEAN]]
        /\ step'[e] = row /\ \A f \in Events \ {e} : step'[f] = step[f]
    <2>1. row \in [saved : BOOLEAN, rows : SUBSET Events, intent : BOOLEAN]
      BY <1>2 DEF Memory
    <2> HIDE DEF row
    <2> QED
      BY <1>1, <1>2, <2>1 DEF TypeOK
  <1>10. row.saved /\ row.rows = rt[r].rows /\ row.intent = rt[r].intent
    OBVIOUS
  <1> HIDE DEF row
  <1>11. Saved' = Saved \union {e}
    BY <1>2, <1>9, <1>10 DEF Saved
  <1>12. HeadRows' = rt[r].rows /\ Rank(e) = e
    BY <1>1, <1>2, <1>9, <1>10 DEF HeadRows, Rank
  <1>13. /\ m \in Memory /\ m.pc = "execute" /\ m.token = rt[r].token
         /\ m.restored = rt[r].restored /\ m.head = e /\ m.rows = rt[r].rows
         /\ m.event = e /\ m.step = e /\ m.again = FALSE
    BY <1>2 DEF Memory, Places
  <1> HIDE DEF m
  <1>14. /\ rt' \in [Runtimes -> Memory] /\ rt'[r] = m
         /\ \A q \in Runtimes \ {r} : rt'[q] = rt[q]
    BY <1>1, <1>13 DEF TypeOK
  <1>15. TypeOK'
    BY <1>1, <1>2, <1>9, <1>14 DEF TypeOK
  <1>16. Heads'
    <2>1. \A f \in Saved : f <= e /\ (step'[f].intent => f \in step'[f].rows)
      BY <1>5, <1>9 DEF RuntimeInv, Heads
    <2>2. e <= e /\ (step'[e].intent => e \in step'[e].rows)
      BY <1>4, <1>7, <1>9, <1>10
    <2> QED
      BY <1>1, <1>2, <1>11, <1>12, <2>1, <2>2 DEF Heads, Rank
  <1>17. Memories'
    <2>1. \A h : Rank(h)' = Rank(h)
      BY DEF Rank
    <2>2. /\ Rank(head) \in Nat /\ \A f \in Saved : f # e /\ f \in Saved' /\ step'[f] = step[f]
      BY <1>1, <1>3, <1>5, <1>6, <1>9, <1>11 DEF TypeOK
    <2>3. ASSUME NEW q \in Runtimes, q # r
          PROVE  Sound(q, rt[q], lease, complete)'
      <3>1. rt[q] \in Memory /\ Sound(q, rt[q], lease, complete) /\ rt'[q] = rt[q]
        BY <1>14, <2>3, MemoryShape
      <3>2. Rank(rt[q].head) \in Nat /\ Rank(rt[q].step) \in Nat
        BY <1>3, <3>1 DEF Memory
      <3>3. Rank(rt[q].head) <= Rank(head) /\ rt[q].head # e
        <4>1. Rank(rt[q].head) <= Rank(head)
          BY <3>1 DEF Sound, HeadSound
        <4> QED
          BY <1>4, <1>12, <2>2, <3>2, <4>1
      <3>4. TokenSound(q, rt[q], lease)'
        BY <1>1, <3>1 DEF Sound, TokenSound
      <3>5. HeadSound(rt[q])'
        <4>1. \A n \in Nat : n <= Rank(head) => n <= Rank(head)'
          BY <1>1, <1>4, <1>12, <2>1, <2>2
        <4> QED
          BY <2>1, <3>1, <3>2, <4>1 DEF Sound, HeadSound
      <3>6. CarriedSound(q, rt[q], lease, complete)'
        <4>1. lease # q
          BY <2>3 DEF HasLease
        <4> QED
          BY <1>1, <2>1, <2>2, <3>1, <4>1 DEF Sound, CarriedSound, Carrying
      <3>7. HistorySound(rt[q])'
        BY <1>1, <3>1, <3>3 DEF HistorySound
      <3> QED
        BY <3>4, <3>5, <3>6, <3>7 DEF Sound
    <2>4. Sound(r, rt[r], lease, complete)'
      <3>1. TokenSound(r, rt[r], lease)'
        BY <1>1, <1>2, <1>13, <1>14 DEF TokenSound, HasLease
      <3>2. HeadSound(rt[r])'
        BY <1>1, <1>4, <1>12, <1>13, <1>14, <2>1 DEF HeadSound
      <3>3. CarriedSound(r, rt[r], lease, complete)'
        BY <1>1, <1>11, <1>13, <1>14 DEF CarriedSound
      <3>4. HistorySound(rt[r])'
        BY <1>12, <1>13, <1>14 DEF HistorySound
      <3> QED
        BY <3>1, <3>2, <3>3, <3>4 DEF Sound
    <2> QED
      BY <2>3, <2>4 DEF Memories
  <1>18. Sendings'
    <2>1. sent[e] = 0
      BY <1>2, <1>6, <1>1 DEF RuntimeInv, Sendings, Saved, TypeOK
    <2>2. \A f \in Events : sent[f] > 0 => step'[f] = step[f]
      BY <1>9, <2>1
    <2>3. \A q \in Runtimes : At(q, "sending")' => At(q, "sending") /\ Step(q)' = Step(q)
      BY <1>13, <1>14 DEF At, Step
    <2> QED
      BY <1>1, <2>2, <2>3 DEF RuntimeInv, Sendings
  <1>19. OnlyHeadUnfinished'
    <2>1. head # NoEvent => head \in complete
      BY <1>1, <1>2, <1>4 DEF Sound, CarriedSound, At
    <2>2. \A f \in Saved : f # NoEvent
      BY <1>5, RuntimeAssumption
    <2> QED
      BY <1>1, <1>11, <2>1, <2>2 DEF RuntimeInv, OnlyHeadUnfinished
  <1>20. HistoryOnRecord'
    <2>1. /\ row.rows \subseteq Saved \union {e}
          /\ \A f \in Saved : f \in step[f].rows => f \in row.rows
      BY <1>7, <1>8, <1>10
    <2>2. \A f \in Saved : f # e /\ ~(e <= f) /\ step'[f] = step[f]
      BY <1>5, <1>9
    <2>3. ASSUME NEW d \in Saved'
          PROVE  /\ step'[d].rows \subseteq Saved'
                 /\ \A f \in Saved' : f <= d /\ f \in step'[f].rows => f \in step'[d].rows
      <3>1. CASE d = e
        BY <1>9, <1>11, <2>1, <2>2, <3>1
      <3>2. CASE d \in Saved
        BY <1>11, <2>2, <3>2 DEF RuntimeInv, HistoryOnRecord
      <3> QED
        BY <1>11, <3>1, <3>2
    <2> QED
      BY <2>3 DEF HistoryOnRecord
  <1>21. OneOrderPerBar'
    <2>1. \A f \in Saved : f # e /\ step'[f] = step[f] /\ (step[f].intent => f \in step[f].rows)
      BY <1>5, <1>6, <1>9 DEF RuntimeInv, Heads
    <2>2. row.intent => \A f \in Saved : step[f].intent => Bar[f] # Bar[e]
      <3>1. \A f \in Events : Bar[f] \in Nat
        BY RuntimeAssumption
      <3> QED
        BY <1>2, <1>5, <1>7, <1>8, <1>10, <2>1, <3>1
    <2> QED
      BY <1>9, <1>11, <2>1, <2>2 DEF RuntimeInv, OneOrderPerBar
  <1> QED
    BY <1>15, <1>16, <1>17, <1>18, <1>19, <1>20, <1>21 DEF RuntimeInv

LEMMA CheckpointKeepsRuntimeInv ==
    ASSUME RuntimeInv, NEW r \in Runtimes, Checkpoint(r)
    PROVE  RuntimeInv'
PROOF
  <1>1. CASE HasLease(r) /\ head = rt[r].head
    BY <1>1, SaveKeepsRuntimeInv
  <1>2. CASE ~(HasLease(r) /\ head = rt[r].head)
    <2>1. At(r, "checkpoint") /\ Block(r) /\ OnlyMoves
      BY <1>2, Stays DEF Checkpoint, account, RuntimeInv, TypeOK
    <2>2. ~HasLease(r) => rt[r].token = "lost"
      BY <2>1, MemoryShape DEF Sound, TokenSound, HasLease, Memory, InProcess, At
    <2> QED
      BY <1>2, <2>1, <2>2, BlockMoves
  <1> QED
    BY <1>1, <1>2

-----------------------------------------------------------------------------
(* Restarts and everybody else.                                            *)

LEMMA RestartKeepsRuntimeInv ==
    ASSUME RuntimeInv, NEW r \in Runtimes, Restart(r)
    PROVE  RuntimeInv'
PROOF
  <1>1. /\ rt' = [rt EXCEPT ![r] = Fresh] /\ lease' = IF lease = r THEN "dead" ELSE lease
        /\ UNCHANGED <<step, complete, head, order, late, sent, mode>> /\ TypeOK
    BY DEF Restart, table, account, RuntimeInv
  <1>2. Fresh \in Memory /\ Fresh.pc # "sending" /\ Sound(r, Fresh, lease', complete')
    BY <1>1, FreshSound
  <1>3. Sendings'
    BY <1>1, <1>2, SendingsKept
  <1>4. \A q \in Runtimes \ {r} :
           (lease' = q => lease = q) /\ (rt[q].token = "held" => lease' = q)
    BY <1>1, RuntimeAssumption DEF RuntimeInv, Memories, Sound, TokenSound
  <1>5. /\ complete \subseteq Events /\ late' \subseteq Events /\ sent' \in [Events -> Nat]
        /\ order' \in [Events -> OrderStatus] /\ mode' \in Modes
        /\ lease' \in Runtimes \union {"free", "dead"}
    BY <1>1 DEF TypeOK
  <1> QED
    BY <1>1, <1>2, <1>3, <1>4, <1>5, MemoryMoves

LEMMA ExpiryKeepsRuntimeInv ==
    ASSUME RuntimeInv, LeaseExpires
    PROVE  RuntimeInv'
PROOF
  <1> DEFINE n(q) == IF HasLease(q) THEN [rt[q] EXCEPT !.token = "lost"] ELSE rt[q]
  <1>1. /\ lease' = "free" /\ rt' = [q \in Runtimes |-> n(q)] /\ TypeOK
        /\ UNCHANGED <<step, complete, head, order, late, sent, mode>>
    BY DEF LeaseExpires, table, account, RuntimeInv
  <1>2. ASSUME NEW q \in Runtimes
        PROVE  /\ rt'[q] \in Memory /\ rt'[q].token # "held"
               /\ rt'[q].token = rt[q].token \/ rt'[q].token = "lost"
               /\ rt'[q].pc = rt[q].pc /\ rt'[q].restored = rt[q].restored
               /\ rt'[q].head = rt[q].head /\ rt'[q].rows = rt[q].rows
               /\ rt'[q].event = rt[q].event /\ rt'[q].step = rt[q].step
               /\ rt'[q].again = rt[q].again /\ rt'[q].intent = rt[q].intent
    <2>1. rt[q] \in Memory /\ Sound(q, rt[q], lease, complete)
      BY MemoryShape
    <2>2. ~HasLease(q) => rt[q].token # "held"
      BY <2>1 DEF HasLease, Sound, TokenSound
    <2>3. rt'[q] = n(q)
      BY <1>1
    <2> QED
      BY <2>1, <2>2, <2>3 DEF Memory
  <1>3. Saved' = Saved /\ HeadRows' = HeadRows /\ \A h : Rank(h)' = Rank(h)
    BY <1>1 DEF Saved, HeadRows, Rank
  <1>4. \A q \in Runtimes : Sound(q, rt[q], lease, complete)'
    <2> SUFFICES ASSUME NEW q \in Runtimes PROVE Sound(q, rt[q], lease, complete)'
      OBVIOUS
    <2>1. Sound(q, rt[q], lease, complete)
      BY MemoryShape
    <2>2. TokenSound(q, rt[q], lease)' /\ HeadSound(rt[q])'
      BY <1>1, <1>2, <1>3, <2>1 DEF Sound, TokenSound, HeadSound
    <2>3. CarriedSound(q, rt[q], lease, complete)'
      <3>1. /\ rt'[q].pc = rt[q].pc /\ rt'[q].step = rt[q].step
            /\ rt'[q].event = rt[q].event /\ rt'[q].token # "held"
        BY <1>2
      <3>2. CarriedSound(q, rt[q], lease, complete)
        BY <2>1 DEF Sound
      <3> QED
        BY <1>1, <1>3, <3>1, <3>2 DEF CarriedSound
    <2>4. HistorySound(rt[q])'
      BY <1>1, <1>2, <1>3, <2>1 DEF Sound, HistorySound
    <2> QED
      BY <2>2, <2>3, <2>4 DEF Sound
  <1>5. TypeOK'
    <2>1. rt' \in [Runtimes -> Memory]
      <3> HIDE DEF n
      <3> QED
        BY <1>1, <1>2
    <2> QED
      BY <1>1, <2>1 DEF TypeOK
  <1>6. Sendings'
    BY <1>1, <1>2 DEF RuntimeInv, Sendings, At, Step
  <1>7. Heads' /\ OnlyHeadUnfinished' /\ HistoryOnRecord' /\ OneOrderPerBar'
    BY <1>1, <1>3 DEF RuntimeInv, Heads, OnlyHeadUnfinished, HistoryOnRecord, OneOrderPerBar
  <1> QED
    BY <1>4, <1>5, <1>6, <1>7 DEF RuntimeInv, Memories

LEMMA OthersKeepRuntimeInv ==
    ASSUME RuntimeInv,
           \/ \E e \in Events : Expire(e) \/ Resolve(e)
           \/ Watchdog \/ Reactivate \/ UNCHANGED vars
    PROVE  RuntimeInv'
PROOF
  <1>1. UNCHANGED <<step, complete, head, sent, lease, rt>> /\ TypeOK
    BY DEF Expire, Resolve, Watchdog, Reactivate, vars, table, RuntimeInv
  <1>2. /\ order' \in [Events -> OrderStatus] /\ late' \subseteq Events /\ mode' \in Modes
        /\ \A e \in Events : order'[e] \in {"none", "RESERVED"} =>
              order[e] \in {"none", "RESERVED"}
    <2>1. CASE \E e \in Events : Expire(e)
      BY <1>1, <2>1 DEF Expire, TypeOK
    <2>2. CASE \E e \in Events : Resolve(e)
      BY <1>1, <2>2 DEF Resolve, TypeOK, OrderStatus
    <2>3. CASE Watchdog \/ Reactivate \/ UNCHANGED vars
      BY <1>1, <2>3 DEF Watchdog, Reactivate, vars, TypeOK, Modes
    <2> QED
      BY <2>1, <2>2, <2>3
  <1>3. TypeOK'
    BY <1>1, <1>2 DEF TypeOK
  <1>4. Saved' = Saved /\ HeadRows' = HeadRows /\ \A h : Rank(h)' = Rank(h)
    BY <1>1 DEF Saved, HeadRows, Rank
  <1>5. Memories'
    BY <1>1, <1>4
    DEF RuntimeInv, Memories, Sound, TokenSound, HeadSound, CarriedSound, HistorySound
  <1>6. Sendings'
    <2>1. \A r \in Runtimes : At(r, "sending") => Step(r) \in Events
      BY MemoryShape DEF At, Carrying
    <2> QED
      BY <1>1, <1>2, <2>1 DEF RuntimeInv, Sendings, At, Step
  <1>7. Heads' /\ OnlyHeadUnfinished' /\ HistoryOnRecord' /\ OneOrderPerBar'
    BY <1>1, <1>4 DEF RuntimeInv, Heads, OnlyHeadUnfinished, HistoryOnRecord, OneOrderPerBar
  <1> QED
    BY <1>3, <1>5, <1>6, <1>7 DEF RuntimeInv

LEMMA RuntimeInvNext == RuntimeInv /\ [Next]_vars => RuntimeInv'
PROOF
  <1> SUFFICES ASSUME RuntimeInv, [Next]_vars PROVE RuntimeInv'
    OBVIOUS
  <1>1. ASSUME NEW r \in Runtimes, NEW e \in Events, Receive(r, e) PROVE RuntimeInv'
    BY <1>1, ReceiveKeepsRuntimeInv
  <1>2. ASSUME NEW r \in Runtimes, Process(r) PROVE RuntimeInv'
    BY <1>2, SyncKeepsRuntimeInv, ReserveKeepsRuntimeInv, SubmitKeepsRuntimeInv,
       SendKeepsRuntimeInv, AnswerKeepsRuntimeInv, FinishKeepsRuntimeInv,
       ReplayKeepsRuntimeInv, DecideKeepsRuntimeInv, CheckpointKeepsRuntimeInv
    DEF Process, Execute
  <1>3. ASSUME NEW r \in Runtimes, Distrust(r) \/ Fail(r) PROVE RuntimeInv'
    <2>1. order' = order /\ order \in [Events -> OrderStatus]
      BY <1>3 DEF Distrust, Fail, RuntimeInv, TypeOK
    <2> QED
      BY <1>3, <2>1, HaltMoves DEF Distrust, Fail, table
  <1>4. ASSUME NEW r \in Runtimes, Restart(r) PROVE RuntimeInv'
    BY <1>4, RestartKeepsRuntimeInv
  <1>5. CASE LeaseExpires
    BY <1>5, ExpiryKeepsRuntimeInv
  <1>6. CASE \/ \E e \in Events : Expire(e) \/ Resolve(e)
             \/ Watchdog \/ Reactivate \/ UNCHANGED vars
    BY <1>6, OthersKeepRuntimeInv
  <1> QED
    BY <1>1, <1>2, <1>3, <1>4, <1>5, <1>6 DEF Next

LEMMA RuntimeInvAlways == Spec => []RuntimeInv
  BY RuntimeInvInit, RuntimeInvNext, PTL DEF Spec

-----------------------------------------------------------------------------
\* Every value has its type.
THEOREM RuntimeTypeCorrect == Spec => []TypeOK
PROOF
  <1>1. RuntimeInv => TypeOK
    BY DEF RuntimeInv
  <1> QED
    BY <1>1, RuntimeInvAlways, PTL

\* The strategy's history contains only bars on record and keeps them all
\* (the lease and the head compared by _checkpoint, the token by process).
THEOREM HistoryIsOnRecord == Spec => []HistoryOnRecord
PROOF
  <1>1. RuntimeInv => HistoryOnRecord
    BY DEF RuntimeInv
  <1> QED
    BY <1>1, RuntimeInvAlways, PTL

\* No decision is saved over an unfinished one (process executes the head
\* before it decides, _checkpoint compares the head).
THEOREM OneStepUnderWay == Spec => []OnlyHeadUnfinished
PROOF
  <1>1. RuntimeInv => OnlyHeadUnfinished
    BY DEF RuntimeInv
  <1> QED
    BY <1>1, RuntimeInvAlways, PTL

\* One order per bar, however often and by however many processes it is
\* received (on_event skips a bar that is not newer than the history).
THEOREM BarsAreTradedOnce == Spec => []OneOrderPerBar
PROOF
  <1>1. RuntimeInv => OneOrderPerBar
    BY DEF RuntimeInv
  <1> QED
    BY <1>1, RuntimeInvAlways, PTL

\* An order leaves once, and only as the step on record decided it
\* (_execute replays the saved intent).
THEOREM OrdersLeaveAsSaved == Spec => []SentAsSaved
PROOF
  <1>1. RuntimeInv => SentAsSaved
    BY DEF RuntimeInv, Sendings, SentAsSaved
  <1> QED
    BY <1>1, RuntimeInvAlways, PTL

(***************************************************************************)
(* What leaves is the order of the latest decision on record: a process    *)
(* that was stalled over a takeover sends nothing (OMS._lease rechecked    *)
(* before the side effect).                                                *)
(***************************************************************************)
THEOREM SendingsAreAtTheHead == Spec => SendsAtHead
PROOF
  <1>1. RuntimeInv /\ [Next]_vars => [\A e \in Events : sent'[e] # sent[e] => e = head]_vars
    <2> SUFFICES ASSUME RuntimeInv, [Next]_vars
                 PROVE  \A e \in Events : sent'[e] # sent[e] => e = head
      OBVIOUS
    <2>1. ASSUME NEW r \in Runtimes, Send(r)
          PROVE  \A e \in Events : sent'[e] # sent[e] => e = head
      <3>1. CASE UNCHANGED sent
        BY <3>1
      <3>2. CASE HasLease(r) /\ sent' = [sent EXCEPT ![Step(r)] = @ + 1]
        <4>1. Step(r) = head
          BY <2>1, <3>2, CarriedAtHead DEF Send, At, Carrying
        <4>2. \A e \in Events : e # Step(r) => sent'[e] = sent[e]
          BY <3>2 DEF RuntimeInv, TypeOK
        <4> QED
          BY <4>1, <4>2
      <3> QED
        BY <2>1, <3>1, <3>2 DEF Send
    <2>2. CASE ~\E r \in Runtimes : Send(r)
      <3>1. UNCHANGED sent
        BY <2>2 DEF Next, Process, Execute, Receive, Sync, Duplicate, NothingToSend, Reserve,
           ReserveBlocked, Submit, Answer, Finish, Replay, Decide, Checkpoint, Distrust, Fail,
           Restart, Expire, Resolve, Watchdog, Reactivate, LeaseExpires, account, vars
      <3> QED
        BY <3>1
    <2> QED
      BY <2>1, <2>2
  <1> QED
    BY <1>1, RuntimeInvAlways, PTL DEF Spec, SendsAtHead
=============================================================================
