---------------------------- MODULE TxQueueProofs ----------------------------
(***************************************************************************)
(* Proofs about TxQueue, for every number of NBLs and every limit.         *)
(* QueueInv is inductive: each action of the send callbacks, of NDIS and   *)
(* of the worker preserves it, one lemma per group of actions.  Behind it, *)
(* every step is one of a few moves of NBLs between the two arrays and the *)
(* worker's hand; who holds each NBL, in which order they stand, and the   *)
(* refinement of SendFifo are proved from the moves.                       *)
(***************************************************************************)
EXTENDS TxQueue, SequenceTheorems, TLAPS

(* An array whose used slots are 1..c has c items. *)
LEMMA ArrayShape ==
    ASSUME NEW c \in Nat, NEW a
    PROVE  (a \in Seq(Item) /\ DOMAIN a = 1..c) <=> a \in [1..c -> Item]
<1>1. ASSUME a \in Seq(Item), DOMAIN a = 1..c PROVE a \in [1..c -> Item]
  BY <1>1
<1>2. ASSUME a \in [1..c -> Item] PROVE a \in Seq(Item) /\ DOMAIN a = 1..c
  BY <1>2, SMT
<1> QED BY <1>1, <1>2

(* The fields of a queue that is QueueOK. *)
LEMMA QueueFields ==
    ASSUME NEW s, QueueOK(s)
    PROVE  /\ s.gate \in Gates /\ s.count \in Nat /\ s.frames \in Int
           /\ s.outstanding \in Int /\ s.completing \in Int
           /\ s.backlogCount \in Nat /\ s.backlogFrames \in Int
           /\ s.count <= ActiveLimit /\ s.entries \in [1..s.count -> Item]
           /\ s.backlogCount <= BacklogLimit
           /\ s.backlog \in [1..s.backlogCount -> Item]
<1>1. s.count \in Nat /\ s.backlogCount \in Nat
  BY DEF QueueOK, Queue
<1>2. s.count <= ActiveLimit /\ s.entries \in [1..s.count -> Item]
  BY <1>1, ArrayShape, QueueAssumption DEF QueueOK, Queue
<1>3. s.backlogCount <= BacklogLimit /\ s.backlog \in [1..s.backlogCount -> Item]
  BY <1>1, ArrayShape, QueueAssumption DEF QueueOK, Queue
<1> QED BY <1>1, <1>2, <1>3 DEF QueueOK, Queue

(* A record with such fields is QueueOK. *)
LEMMA QueueMake ==
    ASSUME NEW g \in Gates, NEW c \in Nat, NEW f \in Int, NEW o \in Int,
           NEW m \in Int, NEW e \in [1..c -> Item], c <= ActiveLimit,
           NEW bc \in Nat, NEW bf \in Int, NEW b \in [1..bc -> Item],
           bc <= BacklogLimit
    PROVE  QueueOK([gate |-> g, count |-> c, frames |-> f, outstanding |-> o,
                    completing |-> m, entries |-> e, backlogCount |-> bc,
                    backlogFrames |-> bf, backlog |-> b])
<1>1. e \in Seq(Item) /\ DOMAIN e = 1..c
  BY ArrayShape, QueueAssumption
<1>2. b \in Seq(Item) /\ DOMAIN b = 1..bc
  BY ArrayShape, QueueAssumption
<1> QED BY <1>1, <1>2 DEF QueueOK, Queue

(* Appending an item to a used array of c slots uses c + 1 slots. *)
LEMMA AppendedOK ==
    ASSUME NEW c \in Nat, NEW a \in [1..c -> Item], NEW item \in Item
    PROVE  Appended(a, c, item) \in [1..(c + 1) -> Item]
BY DEF Appended

(* Closing the gap left by one slot leaves c - 1 used slots. *)
LEMMA ShiftOK ==
    ASSUME NEW c \in Nat, NEW a \in [1..c -> Item], NEW k \in 1..c
    PROVE  Shift(a, c, k) \in [1..(c - 1) -> Item]
BY DEF Shift

(* Admission and promotion keep the queue well formed. *)
LEMMA ActivateOK ==
    ASSUME NEW s, QueueOK(s), NEW item \in Item, s.count < ActiveLimit
    PROVE  QueueOK(CywTxActivateLocked(s, item))
<1> DEFINE t == CywTxActivateLocked(s, item)
           e == Appended(s.entries, s.count, item)
<1>1. /\ s.count \in Nat /\ s.backlogCount \in Nat
      /\ s.entries \in [1..s.count -> Item]
      /\ s.backlog \in [1..s.backlogCount -> Item]
      /\ s.count <= ActiveLimit /\ s.backlogCount <= BacklogLimit
  BY QueueFields
<1>2. e \in [1..(s.count + 1) -> Item]
  BY <1>1, AppendedOK
<1>3. s.count + 1 \in Nat /\ s.count + 1 <= ActiveLimit
  BY <1>1, QueueAssumption
<1>4. s.frames + item.held \in Int /\ s.outstanding + 1 \in Int
  BY QueueFields DEF Item
<1>5. t = [s EXCEPT !.count = @ + 1,
                    !.frames = @ + item.held,
                    !.outstanding = @ + 1,
                    !.entries = e]
  BY DEF CywTxActivateLocked
<1> HIDE DEF t, e
<1>6. t = [gate |-> s.gate, count |-> s.count + 1,
           frames |-> s.frames + item.held,
           outstanding |-> s.outstanding + 1, completing |-> s.completing,
           entries |-> e, backlogCount |-> s.backlogCount,
           backlogFrames |-> s.backlogFrames, backlog |-> s.backlog]
  BY <1>5 DEF QueueOK, Queue
<1>7. QueueOK(t)
  BY <1>1, <1>2, <1>3, <1>4, <1>6, QueueFields, QueueMake
<1> QED BY <1>7 DEF t

(* So does admission to the backlog, *)
LEMMA BacklogOK ==
    ASSUME NEW s, QueueOK(s), NEW item \in Item, s.backlogCount < BacklogLimit
    PROVE  QueueOK(CywTxBacklogLocked(s, item))
<1> DEFINE t == CywTxBacklogLocked(s, item)
           b == Appended(s.backlog, s.backlogCount, item)
<1>1. /\ s.count \in Nat /\ s.backlogCount \in Nat
      /\ s.entries \in [1..s.count -> Item]
      /\ s.backlog \in [1..s.backlogCount -> Item]
      /\ s.count <= ActiveLimit /\ s.backlogCount <= BacklogLimit
  BY QueueFields
<1>2. b \in [1..(s.backlogCount + 1) -> Item]
  BY <1>1, AppendedOK
<1>3. s.backlogCount + 1 \in Nat /\ s.backlogCount + 1 <= BacklogLimit
  BY <1>1, QueueAssumption
<1>4. s.backlogFrames + item.held \in Int
  BY QueueFields DEF Item
<1>5. t = [s EXCEPT !.backlogCount = @ + 1,
                    !.backlogFrames = @ + item.held,
                    !.backlog = b]
  BY DEF CywTxBacklogLocked
<1> HIDE DEF t, b
<1>6. t = [gate |-> s.gate, count |-> s.count, frames |-> s.frames,
           outstanding |-> s.outstanding, completing |-> s.completing,
           entries |-> s.entries, backlogCount |-> s.backlogCount + 1,
           backlogFrames |-> s.backlogFrames + item.held, backlog |-> b]
  BY <1>5 DEF QueueOK, Queue
<1>7. QueueOK(t)
  BY <1>1, <1>2, <1>3, <1>4, <1>6, QueueFields, QueueMake
<1> QED BY <1>7 DEF t

(* removal from the active array, *)
LEMMA RemoveOK ==
    ASSUME NEW s, QueueOK(s), NEW k \in 1..s.count
    PROVE  QueueOK(CywTxRemove(s, k))
<1> DEFINE t == CywTxRemove(s, k)
           e == Shift(s.entries, s.count, k)
<1>1. /\ s.count \in Nat /\ s.backlogCount \in Nat
      /\ s.entries \in [1..s.count -> Item]
      /\ s.backlog \in [1..s.backlogCount -> Item]
      /\ s.count <= ActiveLimit /\ s.backlogCount <= BacklogLimit
  BY QueueFields
<1>2. e \in [1..(s.count - 1) -> Item]
  BY <1>1, ShiftOK
<1>3. s.count - 1 \in Nat /\ s.count - 1 <= ActiveLimit
  BY <1>1, QueueAssumption
<1>4. s.entries[k].held \in Nat
  BY <1>1 DEF Item
<1>5. s.frames - s.entries[k].held \in Int
  BY <1>4, QueueFields
<1>6. t = [s EXCEPT !.count = @ - 1,
                    !.frames = @ - s.entries[k].held,
                    !.entries = e]
  BY DEF CywTxRemove
<1> HIDE DEF t, e
<1>7. t = [gate |-> s.gate, count |-> s.count - 1,
           frames |-> s.frames - s.entries[k].held,
           outstanding |-> s.outstanding, completing |-> s.completing,
           entries |-> e, backlogCount |-> s.backlogCount,
           backlogFrames |-> s.backlogFrames, backlog |-> s.backlog]
  BY <1>6 DEF QueueOK, Queue
<1>8. QueueOK(t)
  BY <1>1, <1>2, <1>3, <1>4, <1>5, <1>7, QueueFields, QueueMake
<1> QED BY <1>8 DEF t

(* removal from the backlog, *)
LEMMA BacklogWithoutOK ==
    ASSUME NEW s, QueueOK(s), NEW k \in 1..s.backlogCount
    PROVE  QueueOK(BacklogWithout(s, k))
<1> DEFINE t == BacklogWithout(s, k)
           b == Shift(s.backlog, s.backlogCount, k)
<1>1. /\ s.count \in Nat /\ s.backlogCount \in Nat
      /\ s.entries \in [1..s.count -> Item]
      /\ s.backlog \in [1..s.backlogCount -> Item]
      /\ s.count <= ActiveLimit /\ s.backlogCount <= BacklogLimit
  BY QueueFields
<1>2. b \in [1..(s.backlogCount - 1) -> Item]
  BY <1>1, ShiftOK
<1>3. s.backlogCount - 1 \in Nat /\ s.backlogCount - 1 <= BacklogLimit
  BY <1>1, QueueAssumption
<1>4. s.backlog[k].held \in Nat
  BY <1>1 DEF Item
<1>5. s.backlogFrames - s.backlog[k].held \in Int
  BY <1>4, QueueFields
<1>6. t = [s EXCEPT !.backlogCount = @ - 1,
                    !.backlogFrames = @ - s.backlog[k].held,
                    !.backlog = b]
  BY DEF BacklogWithout
<1> HIDE DEF t, b
<1>7. t = [gate |-> s.gate, count |-> s.count, frames |-> s.frames,
           outstanding |-> s.outstanding, completing |-> s.completing,
           entries |-> s.entries, backlogCount |-> s.backlogCount - 1,
           backlogFrames |-> s.backlogFrames - s.backlog[k].held,
           backlog |-> b]
  BY <1>6 DEF QueueOK, Queue
<1>8. QueueOK(t)
  BY <1>1, <1>2, <1>3, <1>4, <1>5, <1>7, QueueFields, QueueMake
<1> QED BY <1>8 DEF t

(* and the gate. *)
LEMMA GateOK ==
    ASSUME NEW s, QueueOK(s), NEW g \in Gates
    PROVE  QueueOK(CywTxSetGate(s, g))
<1> DEFINE t == CywTxSetGate(s, g)
<1>1. /\ s.count \in Nat /\ s.backlogCount \in Nat
      /\ s.entries \in [1..s.count -> Item]
      /\ s.backlog \in [1..s.backlogCount -> Item]
      /\ s.count <= ActiveLimit /\ s.backlogCount <= BacklogLimit
  BY QueueFields
<1>2. t = [s EXCEPT !.gate = g]
  BY DEF CywTxSetGate
<1> HIDE DEF t
<1>3. t = [gate |-> g, count |-> s.count, frames |-> s.frames,
           outstanding |-> s.outstanding, completing |-> s.completing,
           entries |-> s.entries, backlogCount |-> s.backlogCount,
           backlogFrames |-> s.backlogFrames, backlog |-> s.backlog]
  BY <1>2 DEF QueueOK, Queue
<1>4. QueueOK(t)
  BY <1>1, <1>3, QueueFields, QueueMake
<1> QED BY <1>4 DEF t

(* Marking an item: its ticket, its cancellation, a frame that went out. *)
LEMMA ItemMake ==
    ASSUME NEW it \in Item, NEW c \in BOOLEAN, NEW f \in Nat, NEW k \in Nat, NEW l \in Nat
    PROVE  /\ [it EXCEPT !.ticket = k] \in Item
           /\ [it EXCEPT !.cancelled = c] \in Item
           /\ [it EXCEPT !.frames = f, !.late = l] \in Item
<1>1. ASSUME NEW t, t = [it EXCEPT !.ticket = k] PROVE t \in Item
  <2>1. t = [nbl |-> it.nbl, cancelId |-> it.cancelId, small |-> it.small,
             frames |-> it.frames, held |-> it.held, cancelled |-> it.cancelled,
             submitted |-> it.submitted, ticket |-> k, late |-> it.late]
    BY <1>1 DEF Item
  <2> QED BY <2>1 DEF Item
<1>2. ASSUME NEW t, t = [it EXCEPT !.cancelled = c] PROVE t \in Item
  <2>1. t = [nbl |-> it.nbl, cancelId |-> it.cancelId, small |-> it.small,
             frames |-> it.frames, held |-> it.held, cancelled |-> c,
             submitted |-> it.submitted, ticket |-> it.ticket, late |-> it.late]
    BY <1>2 DEF Item
  <2> QED BY <2>1 DEF Item
<1>3. ASSUME NEW t, t = [it EXCEPT !.frames = f, !.late = l] PROVE t \in Item
  <2>1. t = [nbl |-> it.nbl, cancelId |-> it.cancelId, small |-> it.small,
             frames |-> f, held |-> it.held, cancelled |-> it.cancelled,
             submitted |-> it.submitted, ticket |-> it.ticket, late |-> l]
    BY <1>3 DEF Item
  <2> QED BY <2>1 DEF Item
<1> QED BY <1>1, <1>2, <1>3

(* CywTxCancel marks items and touches nothing else of them. *)
LEMMA CancelledOK ==
    ASSUME NEW c \in Nat, NEW a \in [1..c -> Item], NEW id
    PROVE  /\ Cancelled(a, id) \in [1..c -> Item]
           /\ \A i \in 1..c : /\ Cancelled(a, id)[i].nbl = a[i].nbl
                              /\ Cancelled(a, id)[i].frames = a[i].frames
                              /\ Cancelled(a, id)[i].held = a[i].held
                              /\ Cancelled(a, id)[i].ticket = a[i].ticket
<1>1. \A i \in 1..c : [a[i] EXCEPT !.cancelled = TRUE] \in Item
  <2> TAKE i \in 1..c
  <2> QED BY ItemMake
<1> QED BY <1>1 DEF Cancelled

-----------------------------------------------------------------------------
(* The inductive invariant. *)

(* The dead local variable of a send callback has the type of an item. *)
LEMMA NoItemOK == \A n \in Nbls : NoItem(n) \in Item
BY QueueAssumption DEF NoItem, Item

(* The queue CywNetworkInitialize leaves satisfies the invariant. *)
THEOREM InitInv == Init => QueueInv
<1> SUFFICES ASSUME Init PROVE QueueInv
  OBVIOUS
<1>1. /\ q = EmptyQueue /\ owner = [n \in Nbls |-> "ndis"]
      /\ draft = [n \in Nbls |-> NoItem(n)]
      /\ pc = "idle" /\ hand = Nothing
  BY DEF Init
<1>2. NoSlots \in [1..0 -> Item]
  BY DEF NoSlots
<1> DEFINE g0 == CHOOSE g \in Closed : TRUE
<1>3. g0 \in Gates
  BY QueueAssumption DEF Gates
<1>4. QueueOK(q)
  <2>1. q = [gate |-> g0, count |-> 0, frames |-> 0, outstanding |-> 0,
             completing |-> 0, entries |-> NoSlots,
             backlogCount |-> 0, backlogFrames |-> 0, backlog |-> NoSlots]
    BY <1>1 DEF EmptyQueue
  <2> HIDE DEF g0
  <2>2. 0 \in Nat /\ 0 \in Int /\ 0 <= ActiveLimit /\ 0 <= BacklogLimit
    BY QueueAssumption
  <2> QED BY <2>1, <2>2, <1>2, <1>3, QueueMake
<1>5. TypeOK
  <2>1. verdict \in Verdicts /\ stale \in BOOLEAN
    BY DEF Init, Success, Verdicts, Gates
  <2>2. /\ sent \in Nat /\ scans \in Int /\ now \in Nat /\ clock \in Nat
        /\ ticket \in Nat
    BY DEF Init
  <2>3. draft \in [Nbls -> Item] /\ owner \in [Nbls -> {"ndis", "callback", "miniport"}]
    BY <1>1, NoItemOK
  <2>4. ret = "idle" /\ goal = "idle"
    BY DEF Init
  <2> QED BY <1>1, <1>4, <2>1, <2>2, <2>3, <2>4 DEF TypeOK
<1>6. Accounting /\ Bounded
  BY <1>1, QueueAssumption DEF Accounting, Bounded, EmptyQueue
<1>7. Control
  BY <1>1 DEF Control, EmptyQueue, InHand, NoItem
<1> QED BY <1>5, <1>6, <1>7 DEF QueueInv

(* The send callbacks. *)
LEMMA SubmitInv == ASSUME QueueInv, NEW n \in Nbls, Submit(n) PROVE QueueInv'
<1> USE DEF wvars
<1>1. ASSUME NEW frames \in NbCounts, NEW small \in BOOLEAN, NEW id \in CancelIds,
             SubmitPrepare(n, frames, small, id)
      PROVE  QueueInv'
  <2> DEFINE d == [nbl |-> n, cancelId |-> id, small |-> small, frames |-> frames,
                   held |-> frames, cancelled |-> FALSE, submitted |-> clock,
                   ticket |-> 0, late |-> 0]
  <2>1. d \in Item
    BY QueueAssumption DEF QueueInv, TypeOK, Item
  <2>2. d.nbl = n /\ (frames > 0 => d.frames > 0)
    OBVIOUS
  <2> HIDE DEF d
  <2>3. draft' = [draft EXCEPT ![n] = d] /\ frames > 0
    BY <1>1 DEF SubmitPrepare, d
  <2>4. TypeOK'
    BY <1>1, <2>1, <2>3 DEF SubmitPrepare, QueueInv, TypeOK, QueueOK
  <2>5. Accounting' /\ Bounded'
    BY <1>1 DEF SubmitPrepare, QueueInv, Accounting, Bounded
  <2>6. Control'
    BY <1>1, <2>2, <2>3 DEF SubmitPrepare, QueueInv, TypeOK, Control, InHand
  <2> QED BY <2>4, <2>5, <2>6 DEF QueueInv
<1>2. ASSUME SubmitAccept(n) PROVE QueueInv'
  <2> DEFINE it == Admitted(n)
  <2>1. it \in Item /\ it.frames > 0 /\ it.held \in Nat
    <3>1. draft[n] \in Item /\ draft[n].frames > 0 /\ ticket \in Nat
      BY <1>2 DEF SubmitAccept, QueueInv, TypeOK, Control
    <3>2. it \in Item
      BY <3>1, ItemMake DEF Admitted, Item
    <3>3. it.frames = draft[n].frames
      BY DEF Admitted
    <3> QED BY <3>1, <3>2, <3>3 DEF Item
  <2>2. it.held = draft[n].held
    BY DEF Admitted
  <2> HIDE DEF it
  <2>3. /\ q.count \in Nat /\ q.backlogCount \in Nat /\ q.frames \in Int
        /\ q.backlogFrames \in Int /\ q.outstanding \in Int /\ QueueOK(q)
        /\ q.entries \in [1..q.count -> Item]
        /\ q.backlog \in [1..q.backlogCount -> Item]
    BY QueueFields DEF QueueInv, TypeOK
  <2>4. owner' \in [Nbls -> {"ndis", "callback", "miniport"}] /\ draft' \in [Nbls -> Item]
    BY <1>2, NoItemOK DEF SubmitAccept, QueueInv, TypeOK
  <2>5. /\ \A m \in Nbls : draft'[m].nbl = m
        /\ \A m \in Nbls : owner'[m] = "callback" => draft'[m].frames > 0
    BY <1>2 DEF SubmitAccept, QueueInv, TypeOK, Control, NoItem
  <2>6. CASE AdmitActive(q, draft[n]) /\ q' = CywTxActivateLocked(q, it)
    <3>1. /\ q'.count = q.count + 1 /\ q'.outstanding = q.outstanding + 1
          /\ q'.completing = q.completing /\ q'.frames = q.frames + it.held
          /\ q'.backlogCount = q.backlogCount /\ q'.backlogFrames = q.backlogFrames
          /\ q'.backlog = q.backlog /\ q'.entries = Appended(q.entries, q.count, it)
      BY <2>6 DEF CywTxActivateLocked
    <3>2. q.count < ActiveLimit /\ q.outstanding < ActiveLimit
          /\ q.frames <= ActiveLimit - it.held
      BY <2>6, <2>2 DEF AdmitActive, CywTxActiveFits
    <3>3. QueueOK(q')
      BY <2>1, <2>3, <2>6, <3>2, ActivateOK
    <3>4. TypeOK'
      BY <1>2, <2>4, <3>3 DEF SubmitAccept, QueueInv, TypeOK
    <3>5. Accounting'
      BY <1>2, <2>3, <3>1 DEF SubmitAccept, QueueInv, Accounting
    <3>6. Bounded'
      BY <1>2, <2>1, <2>3, <3>1, <3>2, QueueAssumption DEF QueueInv, Bounded
    <3>7. Control'
      BY <1>2, <2>1, <2>3, <2>5, <3>1 DEF SubmitAccept, QueueInv, Control, InHand, Appended
    <3> QED BY <3>4, <3>5, <3>6, <3>7 DEF QueueInv
  <2>7. CASE AdmitBacklog(q, draft[n]) /\ q' = CywTxBacklogLocked(q, it)
    <3>1. /\ q'.count = q.count /\ q'.outstanding = q.outstanding
          /\ q'.completing = q.completing /\ q'.frames = q.frames
          /\ q'.backlogCount = q.backlogCount + 1
          /\ q'.backlogFrames = q.backlogFrames + it.held
          /\ q'.entries = q.entries
          /\ q'.backlog = Appended(q.backlog, q.backlogCount, it)
      BY <2>7 DEF CywTxBacklogLocked
    <3>2. q.backlogCount < BacklogLimit /\ q.backlogFrames <= BacklogLimit - it.held
      BY <2>7, <2>2 DEF AdmitBacklog, CywTxBacklogFits
    <3>3. QueueOK(q')
      BY <2>1, <2>3, <2>7, <3>2, BacklogOK
    <3>4. TypeOK'
      BY <1>2, <2>4, <3>3 DEF SubmitAccept, QueueInv, TypeOK
    <3>5. Accounting'
      BY <1>2, <2>3, <3>1 DEF SubmitAccept, QueueInv, Accounting
    <3>6. Bounded'
      BY <1>2, <2>1, <2>3, <3>1, <3>2, QueueAssumption DEF QueueInv, Bounded
    <3>7. Control'
      BY <1>2, <2>1, <2>3, <2>5, <3>1 DEF SubmitAccept, QueueInv, Control, InHand, Appended
    <3> QED BY <3>4, <3>5, <3>6, <3>7 DEF QueueInv
  <2> QED BY <1>2, <2>6, <2>7 DEF SubmitAccept, it
<1>3. ASSUME SubmitRefuse(n) PROVE QueueInv'
  <2>1. TypeOK'
    BY <1>3, NoItemOK DEF SubmitRefuse, QueueInv, TypeOK, QueueOK
  <2>2. Accounting' /\ Bounded'
    BY <1>3 DEF SubmitRefuse, QueueInv, Accounting, Bounded
  <2>3. Control'
    BY <1>3 DEF SubmitRefuse, QueueInv, TypeOK, Control, InHand, NoItem
  <2> QED BY <2>1, <2>2, <2>3 DEF QueueInv
<1> QED BY <1>1, <1>2, <1>3 DEF Submit

(* Cancellation, the clock, the gate. *)
LEMMA CancelInv == ASSUME QueueInv, NEW id \in CancelIds, CywTxCancel(id) PROVE QueueInv'
<1> USE DEF wvars
<1> DEFINE e == Cancelled(q.entries, id)
           b == Cancelled(q.backlog, id)
<1>1. /\ QueueOK(q) /\ q.count \in Nat /\ q.backlogCount \in Nat
      /\ q.entries \in [1..q.count -> Item] /\ q.backlog \in [1..q.backlogCount -> Item]
  BY QueueFields DEF QueueInv, TypeOK
<1>2. /\ e \in [1..q.count -> Item] /\ b \in [1..q.backlogCount -> Item]
      /\ \A i \in 1..q.count : e[i].frames = q.entries[i].frames
      /\ \A i \in 1..q.backlogCount : b[i].frames = q.backlog[i].frames
  <2>1. /\ e \in [1..q.count -> Item]
        /\ \A i \in 1..q.count : e[i].frames = q.entries[i].frames
    BY <1>1, CancelledOK
  <2>2. /\ b \in [1..q.backlogCount -> Item]
        /\ \A i \in 1..q.backlogCount : b[i].frames = q.backlog[i].frames
    BY <1>1, CancelledOK
  <2> QED BY <2>1, <2>2
<1>3. q' = [q EXCEPT !.entries = e, !.backlog = b]
  BY DEF CywTxCancel
<1> HIDE DEF e, b
<1>4. QueueOK(q')
  <2>1. q' = [gate |-> q.gate, count |-> q.count, frames |-> q.frames,
              outstanding |-> q.outstanding, completing |-> q.completing, entries |-> e,
              backlogCount |-> q.backlogCount, backlogFrames |-> q.backlogFrames,
              backlog |-> b]
    BY <1>1, <1>3 DEF QueueOK, Queue
  <2> QED BY <1>1, <1>2, <2>1, QueueFields, QueueMake
<1>5. /\ q'.count = q.count /\ q'.outstanding = q.outstanding
      /\ q'.completing = q.completing /\ q'.frames = q.frames
      /\ q'.backlogCount = q.backlogCount /\ q'.backlogFrames = q.backlogFrames
      /\ q'.entries = e /\ q'.backlog = b
  BY <1>3
<1>6. TypeOK'
  BY <1>4 DEF CywTxCancel, QueueInv, TypeOK
<1>7. Accounting' /\ Bounded'
  BY <1>5 DEF CywTxCancel, QueueInv, Accounting, Bounded
<1>8. Control'
  BY <1>2, <1>5 DEF CywTxCancel, QueueInv, Control, InHand
<1> QED BY <1>6, <1>7, <1>8 DEF QueueInv

(* The interrupt time advances: nothing in the queue moves. *)
LEMMA TickInv == ASSUME QueueInv, Tick PROVE QueueInv'
<1> USE DEF wvars, Tick, QueueInv
<1>1. TypeOK'
  BY DEF TypeOK, QueueOK
<1>2. Accounting' /\ Bounded' /\ Control'
  BY DEF Accounting, Bounded, Control, InHand
<1> QED BY <1>1, <1>2

(* CywRefreshTxGate changes the gate only. *)
LEMMA RefreshInv ==
    ASSUME QueueInv, NEW g \in Gates, CywRefreshTxGate(g) PROVE QueueInv'
<1> USE DEF wvars
<1>1. QueueOK(q) /\ q' = CywTxSetGate(q, g)
  BY DEF CywRefreshTxGate, QueueInv, TypeOK
<1>2. QueueOK(q')
  BY <1>1, GateOK
<1>3. /\ q'.count = q.count /\ q'.outstanding = q.outstanding
      /\ q'.completing = q.completing /\ q'.frames = q.frames
      /\ q'.backlogCount = q.backlogCount /\ q'.backlogFrames = q.backlogFrames
      /\ q'.entries = q.entries /\ q'.backlog = q.backlog
  BY <1>1 DEF CywTxSetGate
<1>4. stale' \in BOOLEAN
  BY DEF CywRefreshTxGate, QueueInv, TypeOK
<1>5. TypeOK'
  BY <1>2, <1>4 DEF CywRefreshTxGate, QueueInv, TypeOK
<1>6. Accounting' /\ Bounded' /\ Control'
  BY <1>3 DEF CywRefreshTxGate, QueueInv, Accounting, Bounded, Control, InHand
<1> QED BY <1>5, <1>6 DEF QueueInv
-----------------------------------------------------------------------------
(* The worker.  `Steady' is what it finds in the queue whenever no removal  *)
(* is under way.                                                            *)
Steady(s) ==
    /\ QueueOK(s)
    /\ s.outstanding = s.count /\ s.completing = 0
    /\ s.frames <= ActiveLimit /\ s.backlogFrames <= BacklogLimit
    /\ \A i \in 1..s.backlogCount : s.backlog[i].frames > 0

(* The queue is steady whenever the worker has no item in hand to release. *)
LEMMA SteadyNow ==
    ASSUME QueueInv, pc \notin {"release", "refill", "indicate", "settle"}
    PROVE  Steady(q) /\ \A i \in 1..q.count : q.entries[i].frames > 0
<1>1. QueueOK(q) /\ q.count \in Nat
  BY QueueFields DEF QueueInv, TypeOK
<1>2. q.outstanding = q.count /\ q.completing = 0
  BY <1>1 DEF QueueInv, Accounting
<1> QED BY <1>1, <1>2 DEF QueueInv, Bounded, Control, Steady

(* A promotion keeps the queue steady: the frames move, the bound holds. *)
LEMMA PromoteSteady ==
    ASSUME NEW s, Steady(s), CanPromote(s)
    PROVE  /\ Steady(CywTxPromoteOneLocked(s))
           /\ CywTxPromoteOneLocked(s).count = s.count + 1
           /\ (\A i \in 1..s.count : s.entries[i].frames > 0) =>
                \A i \in 1..(s.count + 1) : CywTxPromoteOneLocked(s).entries[i].frames > 0
<1> DEFINE w == BacklogWithout(s, 1)
           t == CywTxPromoteOneLocked(s)
           h == s.backlog[1]
<1>1. /\ QueueOK(s) /\ s.count \in Nat /\ s.backlogCount \in Nat /\ s.frames \in Int
      /\ s.backlogFrames \in Int /\ s.entries \in [1..s.count -> Item]
      /\ s.backlog \in [1..s.backlogCount -> Item]
  BY QueueFields DEF Steady
<1>2. 1 \in 1..s.backlogCount /\ h \in Item /\ h.frames > 0 /\ h.held \in Nat
  BY <1>1 DEF CanPromote, Steady, Item
<1>3. /\ w.count = s.count /\ w.outstanding = s.outstanding /\ w.completing = s.completing
      /\ w.frames = s.frames /\ w.backlogCount = s.backlogCount - 1
      /\ w.backlogFrames = s.backlogFrames - h.held /\ w.entries = s.entries
      /\ w.backlog = Shift(s.backlog, s.backlogCount, 1)
  BY DEF BacklogWithout
<1>4. QueueOK(w)
  BY <1>1, <1>2, BacklogWithoutOK
<1>5. s.count < ActiveLimit /\ s.frames <= ActiveLimit - h.held
  BY DEF CanPromote, CywTxActiveFits
<1>6. t = CywTxActivateLocked(w, h)
  BY DEF CywTxPromoteOneLocked
<1> HIDE DEF w, t, h
<1>7. QueueOK(t)
  BY <1>2, <1>3, <1>4, <1>5, <1>6, ActivateOK
<1>8. /\ t.count = s.count + 1 /\ t.outstanding = s.outstanding + 1
      /\ t.completing = s.completing /\ t.frames = s.frames + h.held
      /\ t.backlogCount = s.backlogCount - 1 /\ t.backlogFrames = s.backlogFrames - h.held
      /\ t.entries = Appended(s.entries, s.count, h)
      /\ t.backlog = Shift(s.backlog, s.backlogCount, 1)
  BY <1>3, <1>6 DEF CywTxActivateLocked
<1>9. \A i \in 1..t.backlogCount : t.backlog[i].frames > 0
  BY <1>1, <1>8 DEF Steady, Shift
<1>10. Steady(t)
  BY <1>1, <1>2, <1>5, <1>7, <1>8, <1>9, QueueAssumption DEF Steady
<1>11. (\A i \in 1..s.count : s.entries[i].frames > 0) =>
         \A i \in 1..(s.count + 1) : t.entries[i].frames > 0
  BY <1>1, <1>2, <1>8 DEF Appended
<1> QED BY <1>8, <1>10, <1>11 DEF t

(* The worker takes the item of slot k of the active array in hand. *)
LEMMA TakeActive ==
    ASSUME QueueInv, NEW s, Steady(s), NEW k \in 1..s.count,
           \A i \in 1..s.count : i # k => s.entries[i].frames > 0,
           q' = CywTxRemove(s, k), hand' \in Item, pc' = "release",
           verdict' \in Verdicts, ret' \in {"idle", "clock", "select", "failed", "flush"},
           sent' \in Nat, scans' \in Int,
           UNCHANGED <<owner, draft, goal, now, clock, ticket, stale>>
    PROVE  QueueInv'
<1>1. /\ QueueOK(s) /\ s.count \in Nat /\ s.backlogCount \in Nat /\ s.frames \in Int
      /\ s.entries \in [1..s.count -> Item] /\ s.count <= ActiveLimit
      /\ s.backlogCount <= BacklogLimit
  BY QueueFields DEF Steady
<1>2. QueueOK(q')
  BY <1>1, RemoveOK
<1>3. s.entries[k].held \in Nat
  BY <1>1 DEF Item
<1>4. /\ q'.count = s.count - 1 /\ q'.outstanding = s.outstanding
      /\ q'.completing = s.completing /\ q'.frames = s.frames - s.entries[k].held
      /\ q'.backlogCount = s.backlogCount /\ q'.backlogFrames = s.backlogFrames
      /\ q'.entries = Shift(s.entries, s.count, k) /\ q'.backlog = s.backlog
  BY DEF CywTxRemove
<1>5. TypeOK'
  BY <1>2 DEF QueueInv, TypeOK
<1>6. Accounting'
  BY <1>1, <1>4 DEF Steady, Accounting
<1>7. Bounded'
  BY <1>1, <1>3, <1>4, QueueAssumption DEF Steady, Bounded
<1>8. \A i \in 1..q'.count : q'.entries[i].frames > 0
  BY <1>1, <1>4 DEF Shift
<1>9. Control'
  BY <1>4, <1>8 DEF QueueInv, Control, Steady
<1> QED BY <1>5, <1>6, <1>7, <1>9 DEF QueueInv

(* The worker takes the item of slot k of the backlog in hand. *)
LEMMA TakeBacklog ==
    ASSUME QueueInv, pc \in {"scan", "flush"}, NEW k \in 1..q.backlogCount,
           q' = CywTxBacklogRemove(q, k), hand' \in Item, pc' = "refill",
           verdict' \in Verdicts, ret' \in {"idle", "clock", "select", "failed", "flush"},
           scans' \in Int,
           UNCHANGED <<owner, draft, goal, sent, now, clock, ticket, stale>>
    PROVE  QueueInv'
<1> DEFINE w == BacklogWithout(q, k)
<1>1. /\ QueueOK(q) /\ q.count \in Nat /\ q.backlogCount \in Nat /\ q.backlogFrames \in Int
      /\ q.backlog \in [1..q.backlogCount -> Item] /\ q.count <= ActiveLimit
      /\ q.backlogCount <= BacklogLimit
      /\ q.outstanding = q.count /\ q.completing = 0
      /\ \A i \in 1..q.backlogCount : q.backlog[i].frames > 0
  BY QueueFields, SteadyNow DEF Steady
<1>2. q.backlog[k].held \in Nat
  BY <1>1 DEF Item
<1>3. /\ w.count = q.count /\ w.outstanding = q.outstanding /\ w.completing = q.completing
      /\ w.frames = q.frames /\ w.backlogCount = q.backlogCount - 1
      /\ w.backlogFrames = q.backlogFrames - q.backlog[k].held /\ w.entries = q.entries
      /\ w.backlog = Shift(q.backlog, q.backlogCount, k)
  BY DEF BacklogWithout
<1>4. QueueOK(w)
  BY <1>1, BacklogWithoutOK
<1>5. q' = [w EXCEPT !.completing = @ + 1]
  BY DEF CywTxBacklogRemove
<1> HIDE DEF w
<1>6. /\ q'.count = q.count /\ q'.outstanding = q.count /\ q'.completing = 1
      /\ q'.frames = q.frames /\ q'.backlogCount = q.backlogCount - 1
      /\ q'.backlogFrames = q.backlogFrames - q.backlog[k].held
      /\ q'.entries = q.entries /\ q'.backlog = Shift(q.backlog, q.backlogCount, k)
  BY <1>1, <1>3, <1>5
<1>7. QueueOK(q')
  <2>1. q' = [gate |-> w.gate, count |-> w.count, frames |-> w.frames,
              outstanding |-> w.outstanding, completing |-> w.completing + 1,
              entries |-> w.entries, backlogCount |-> w.backlogCount,
              backlogFrames |-> w.backlogFrames, backlog |-> w.backlog]
    BY <1>4, <1>5 DEF QueueOK, Queue
  <2>2. w.completing + 1 \in Int
    BY <1>1, <1>3
  <2> QED BY <1>4, <2>1, <2>2, QueueFields, QueueMake
<1>8. TypeOK'
  BY <1>7 DEF QueueInv, TypeOK
<1>9. Accounting' /\ Bounded'
  BY <1>1, <1>2, <1>6, QueueAssumption DEF QueueInv, Accounting, Bounded
<1>10. \A i \in 1..q'.backlogCount : q'.backlog[i].frames > 0
  BY <1>1, <1>6 DEF Shift
<1>11. Control'
  BY <1>6, <1>10 DEF QueueInv, Control
<1> QED BY <1>8, <1>9, <1>11 DEF QueueInv

(* A status computed by CywTxAbortStatus is one NDIS knows. *)
LEMMA StatusOK ==
    ASSUME NEW s, s.gate \in Gates, NEW item, NEW time
    PROVE  CywTxAbortStatus(s, item, time) \in Verdicts
BY DEF CywTxAbortStatus, Verdicts, Gates, Success, Aborted, Failure

(* The steps of the worker that leave the queue alone. *)
LEMMA QuietInv ==
    ASSUME QueueInv, UNCHANGED <<q, draft, clock, ticket>>,
           owner' \in [Nbls -> {"ndis", "callback", "miniport"}],
           \A n \in Nbls : owner'[n] = "callback" => owner[n] = "callback",
           hand' \in Item \cup {Nothing}, InHand' => InHand /\ hand' = hand,
           pc' \in {"idle", "clock", "scan", "select", "indicate", "settle", "exited"},
           (pc \in {"refill", "indicate", "settle"}) <=> (pc' \in {"refill", "indicate", "settle"}),
           pc # "release",
           verdict' \in Verdicts, ret' \in {"idle", "clock", "select", "failed", "flush"},
           goal' \in {"idle", "exited"}, sent' \in Nat, scans' \in Int, now' \in Nat,
           stale' \in BOOLEAN
    PROVE  QueueInv'
<1>1. TypeOK'
  BY DEF QueueInv, TypeOK, QueueOK
<1>2. Accounting' /\ Bounded'
  BY DEF QueueInv, Accounting, Bounded
<1>3. Control'
  BY DEF QueueInv, Control
<1> QED BY <1>1, <1>2, <1>3 DEF QueueInv

(* CywTxPump: cleanup, selection, transfer and its three outcomes. *)
LEMMA PumpInv == ASSUME QueueInv, Pump PROVE QueueInv'
<1>0. /\ QueueOK(q) /\ q.gate \in Gates /\ q.count \in Nat /\ q.backlogCount \in Nat
      /\ q.entries \in [1..q.count -> Item] /\ q.backlog \in [1..q.backlogCount -> Item]
  BY QueueFields DEF QueueInv, TypeOK
<1>1. CASE PumpBegin
  BY <1>1, QuietInv, QueueAssumption DEF PumpBegin, QueueInv, TypeOK, InHand
<1>2. CASE PumpReadClock
  BY <1>2, QuietInv DEF PumpReadClock, QueueInv, TypeOK, InHand
<1>3. ASSUME NEW k \in 1..q.count, PumpScanActive(k) PROVE QueueInv'
  <2>1. /\ q' = CywTxRemove(q, k) /\ hand' = q.entries[k] /\ pc' = "release"
        /\ verdict' = CywTxAbortStatus(q, q.entries[k], now) /\ ret' = "clock"
        /\ sent' \in Nat /\ scans' \in Int /\ pc = "scan"
        /\ UNCHANGED <<owner, draft, goal, now, clock, ticket, stale>>
    BY <1>3 DEF PumpScanActive, TakeInHand, QueueInv, TypeOK
  <2>2. hand' \in Item /\ verdict' \in Verdicts
    BY <1>0, <2>1, StatusOK
  <2>3. Steady(q) /\ \A i \in 1..q.count : q.entries[i].frames > 0
    BY <2>1, SteadyNow
  <2> QED BY <2>1, <2>2, <2>3, TakeActive
<1>4. ASSUME NEW k \in 1..q.backlogCount, PumpScanBacklog(k) PROVE QueueInv'
  <2>1. /\ q' = CywTxBacklogRemove(q, k) /\ hand' = q.backlog[k] /\ pc' = "refill"
        /\ verdict' = CywTxAbortStatus(q, q.backlog[k], now) /\ ret' = "clock"
        /\ scans' \in Int /\ pc = "scan"
        /\ UNCHANGED <<owner, draft, goal, sent, now, clock, ticket, stale>>
    BY <1>4 DEF PumpScanBacklog, TakeInHand, QueueInv, TypeOK
  <2>2. hand' \in Item /\ verdict' \in Verdicts
    BY <1>0, <2>1, StatusOK
  <2> QED BY <2>1, <2>2, TakeBacklog
<1>5. CASE PumpScanDone
  BY <1>5, QuietInv DEF PumpScanDone, QueueInv, TypeOK, InHand
<1>6. pc = "select" => /\ Steady(Selectable)
                       /\ \A i \in 1..Selectable.count : Selectable.entries[i].frames > 0
  <2> SUFFICES ASSUME pc = "select"
               PROVE  /\ Steady(Selectable)
                      /\ \A i \in 1..Selectable.count : Selectable.entries[i].frames > 0
    OBVIOUS
  <2>1. Steady(q) /\ \A i \in 1..q.count : q.entries[i].frames > 0
    BY SteadyNow
  <2>2. CASE q.count = 0 /\ CanPromote(q)
    BY <2>1, <2>2, PromoteSteady DEF Selectable
  <2>3. CASE ~(q.count = 0 /\ CanPromote(q))
    BY <2>1, <2>3 DEF Selectable
  <2> QED BY <2>2, <2>3
<1>7. CASE PumpSelect
  <2>1. /\ Steady(q') /\ q'.count > 0 /\ pc' = "transfer"
        /\ \A i \in 1..q'.count : q'.entries[i].frames > 0
        /\ UNCHANGED <<owner, draft, hand, verdict, ret, goal, sent, scans, now, clock,
                       ticket, stale>>
    BY <1>6, <1>7 DEF PumpSelect
  <2>2. q'.count \in Nat /\ q'.count <= ActiveLimit /\ q'.backlogCount <= BacklogLimit
    BY <2>1, QueueFields DEF Steady
  <2>3. TypeOK'
    BY <2>1 DEF QueueInv, TypeOK, Steady
  <2>4. Accounting' /\ Bounded'
    BY <2>1, <2>2 DEF Steady, Accounting, Bounded
  <2>5. Control'
    BY <2>1 DEF QueueInv, Control, Steady, InHand
  <2> QED BY <2>3, <2>4, <2>5 DEF QueueInv
<1>8. CASE PumpSelectAborted
  <2> DEFINE s == Selectable
  <2>1. /\ q' = CywTxRemove(s, 1) /\ hand' = s.entries[1] /\ pc' = "release"
        /\ verdict' = CywTxAbortStatus(s, s.entries[1], clock) /\ ret' = "idle"
        /\ sent' \in Nat /\ scans' \in Int /\ s.count > 0
        /\ UNCHANGED <<owner, draft, goal, now, clock, ticket, stale>>
    BY <1>8 DEF PumpSelectAborted, TakeInHand, QueueInv, TypeOK
  <2>2. Steady(s) /\ \A i \in 1..s.count : s.entries[i].frames > 0
    BY <1>6, <1>8 DEF PumpSelectAborted
  <2> HIDE DEF s
  <2>3. 1 \in 1..s.count /\ s.entries[1] \in Item /\ s.gate \in Gates
    BY <2>1, <2>2, QueueFields DEF Steady
  <2>4. hand' \in Item /\ verdict' \in Verdicts
    BY <2>1, <2>3, StatusOK
  <2> QED BY <2>1, <2>2, <2>3, <2>4, TakeActive
<1>9. CASE PumpEnd
  BY <1>9, QuietInv DEF PumpEnd, QueueInv, TypeOK, InHand
<1>10. CASE TransferBusy
  BY <1>10, QuietInv DEF TransferBusy, QueueInv, TypeOK, InHand
<1>11. pc = "transfer" => /\ Steady(q) /\ 1 \in 1..q.count /\ q.entries[1] \in Item
                          /\ \A i \in 1..q.count : q.entries[i].frames > 0
  BY <1>0, SteadyNow DEF QueueInv, Control
<1>12. CASE TransferDone
  <2> DEFINE h == HeadAfterTransfer
             e == [q.entries EXCEPT ![1] = h]
             kept == [q EXCEPT !.entries[1] = h]
  <2>1. pc = "transfer" /\ sent' = sent + 1 /\ sent' \in Nat /\ scans' \in Int
        /\ UNCHANGED <<owner, draft, goal, scans, now, clock, ticket, stale>>
    BY <1>12 DEF TransferDone, QueueInv, TypeOK
  <2>2. h \in Item
    <3>1. q.entries[1].frames - 1 \in Nat
      BY <1>11, <2>1 DEF Item
    <3>2. (IF q.entries[1].cancelled THEN q.entries[1].late + 1 ELSE q.entries[1].late) \in Nat
      BY <1>11, <2>1 DEF Item
    <3> QED BY <1>11, <2>1, <3>1, <3>2, ItemMake DEF HeadAfterTransfer
  <2>3. e \in [1..q.count -> Item]
    BY <1>0, <2>2
  <2>4. kept = [q EXCEPT !.entries = e]
    OBVIOUS
  <2>5. CASE CywTxAbortStatus(q, h, clock) # Success \/ h.frames = 0
    <3>1. /\ q' = CywTxRemove(kept, 1) /\ hand' = h /\ pc' = "release" /\ ret' = "select"
          /\ verdict' = CywTxAbortStatus(q, h, clock)
      BY <1>12, <2>5 DEF TransferDone, TakeInHand
    <3> HIDE DEF h, e, kept
    <3>2. kept = [gate |-> q.gate, count |-> q.count, frames |-> q.frames,
                  outstanding |-> q.outstanding, completing |-> q.completing,
                  entries |-> e, backlogCount |-> q.backlogCount,
                  backlogFrames |-> q.backlogFrames, backlog |-> q.backlog]
      BY <1>0, <2>4 DEF QueueOK, Queue
    <3>3. QueueOK(kept)
      BY <1>0, <2>3, <3>2, QueueFields, QueueMake
    <3>4. Steady(kept) /\ 1 \in 1..kept.count
      BY <1>11, <2>1, <3>2, <3>3 DEF Steady
    <3>5. \A i \in 1..kept.count : i # 1 => kept.entries[i].frames > 0
      BY <1>0, <1>11, <2>1, <3>2 DEF e
    <3>6. verdict' \in Verdicts
      BY <1>0, <3>1, StatusOK
    <3> QED BY <2>1, <2>2, <3>1, <3>4, <3>5, <3>6, TakeActive
  <2>6. CASE ~(CywTxAbortStatus(q, h, clock) # Success \/ h.frames = 0)
    <3>1. q' = kept /\ pc' = "select" /\ UNCHANGED <<hand, verdict, ret>>
      BY <1>12, <2>6 DEF TransferDone
    <3>2. h.frames > 0
      BY <2>2, <2>6 DEF Item
    <3> HIDE DEF h, e, kept
    <3>3. kept = [gate |-> q.gate, count |-> q.count, frames |-> q.frames,
                  outstanding |-> q.outstanding, completing |-> q.completing,
                  entries |-> e, backlogCount |-> q.backlogCount,
                  backlogFrames |-> q.backlogFrames, backlog |-> q.backlog]
      BY <1>0, <2>4 DEF QueueOK, Queue
    <3>4. QueueOK(kept)
      BY <1>0, <2>3, <3>3, QueueFields, QueueMake
    <3>5. TypeOK'
      BY <2>1, <3>1, <3>4 DEF QueueInv, TypeOK
    <3>6. Accounting' /\ Bounded'
      BY <2>1, <3>1, <3>3 DEF QueueInv, Accounting, Bounded
    <3>7. \A i \in 1..q.count : e[i].frames > 0
      BY <1>0, <1>11, <2>1, <3>2 DEF e
    <3>8. Control'
      BY <2>1, <3>1, <3>3, <3>7 DEF QueueInv, Control, InHand
    <3> QED BY <3>5, <3>6, <3>8 DEF QueueInv
  <2> QED BY <2>5, <2>6
<1>13. ASSUME NEW continue \in {"idle", "failed"}, TransferFailed(continue) PROVE QueueInv'
  <2>1. /\ q' = CywTxRemove(q, 1) /\ hand' = q.entries[1] /\ pc' = "release"
        /\ verdict' \in {Failure, CywTxAbortStatus(q, q.entries[1], clock)}
        /\ ret' = continue /\ sent' \in Nat /\ scans' \in Int /\ pc = "transfer"
        /\ UNCHANGED <<owner, draft, goal, now, clock, ticket, stale>>
    BY <1>13 DEF TransferFailed, TakeInHand, QueueInv, TypeOK
  <2>2. hand' \in Item /\ verdict' \in Verdicts
    BY <1>0, <1>11, <2>1, StatusOK DEF Verdicts
  <2> QED BY <1>11, <2>1, <2>2, TakeActive
<1> QED BY <1>1, <1>2, <1>3, <1>4, <1>5, <1>7, <1>8, <1>9, <1>10, <1>12, <1>13 DEF Pump

(* CywTxFlush, whoever calls it. *)
LEMMA FlushInv == ASSUME QueueInv, CywTxFlush PROVE QueueInv'
<1>0. /\ QueueOK(q) /\ q.count \in Nat /\ q.backlogCount \in Nat
      /\ q.entries \in [1..q.count -> Item] /\ q.backlog \in [1..q.backlogCount -> Item]
  BY QueueFields DEF QueueInv, TypeOK
<1>1. ASSUME NEW g \in Closed, NEW c \in {"idle", "exited"}, FlushBegin(g, c),
             pc \in {"idle", "failed", "exited"}
      PROVE  QueueInv'
  <2>1. /\ q' = CywTxSetGate(q, g) /\ pc' = "flush" /\ verdict' = g /\ ret' = "flush"
        /\ goal' = c
        /\ UNCHANGED <<owner, draft, hand, sent, scans, now, clock, ticket, stale>>
    BY <1>1 DEF FlushBegin
  <2>2. g \in Gates /\ verdict' \in Verdicts
    BY <2>1 DEF Gates, Verdicts
  <2>3. QueueOK(q')
    BY <1>0, <2>1, <2>2, GateOK
  <2>4. /\ q'.count = q.count /\ q'.outstanding = q.outstanding
        /\ q'.completing = q.completing /\ q'.frames = q.frames
        /\ q'.backlogCount = q.backlogCount /\ q'.backlogFrames = q.backlogFrames
        /\ q'.entries = q.entries /\ q'.backlog = q.backlog
    BY <2>1 DEF CywTxSetGate
  <2>5. TypeOK'
    BY <2>1, <2>2, <2>3 DEF QueueInv, TypeOK
  <2>6. Accounting' /\ Bounded' /\ Control'
    BY <1>1, <2>1, <2>4 DEF QueueInv, Accounting, Bounded, Control, InHand
  <2> QED BY <2>5, <2>6 DEF QueueInv
<1>2. CASE FlushActive
  <2>1. /\ q' = CywTxRemove(q, 1) /\ hand' = q.entries[1] /\ pc' = "release" /\ pc = "flush"
        /\ q.count > 0 /\ verdict' \in Verdicts /\ sent' \in Nat /\ scans' \in Int
        /\ ret' \in {"idle", "clock", "select", "failed", "flush"}
        /\ UNCHANGED <<owner, draft, goal, now, clock, ticket, stale>>
    BY <1>2 DEF FlushActive, QueueInv, TypeOK
  <2>2. 1 \in 1..q.count /\ hand' \in Item
    BY <1>0, <2>1
  <2>3. Steady(q) /\ \A i \in 1..q.count : q.entries[i].frames > 0
    BY <2>1, SteadyNow
  <2> QED BY <2>1, <2>2, <2>3, TakeActive
<1>3. CASE FlushBacklog
  <2>1. /\ q' = CywTxBacklogRemove(q, 1) /\ hand' = q.backlog[1] /\ pc' = "refill"
        /\ pc = "flush" /\ q.backlogCount > 0 /\ verdict' \in Verdicts /\ scans' \in Int
        /\ ret' \in {"idle", "clock", "select", "failed", "flush"}
        /\ UNCHANGED <<owner, draft, goal, sent, now, clock, ticket, stale>>
    BY <1>3 DEF FlushBacklog, QueueInv, TypeOK
  <2>2. 1 \in 1..q.backlogCount /\ hand' \in Item
    BY <1>0, <2>1
  <2> QED BY <2>1, <2>2, TakeBacklog
<1>4. CASE FlushDone
  <2>1. verdict' \in Verdicts
    BY <1>4 DEF FlushDone, Verdicts, Gates
  <2> QED BY <1>4, <2>1, QuietInv DEF FlushDone, QueueInv, TypeOK, InHand
<1> QED BY <1>1, <1>2, <1>3, <1>4 DEF CywTxFlush, WorkerFlush, WorkerExit, LifecycleFlush

(* CywTxComplete: release, refill, indication, settlement. *)
LEMMA CompleteInv == ASSUME QueueInv, CywTxComplete PROVE QueueInv'
<1>0. /\ QueueOK(q) /\ q.count \in Nat /\ q.backlogCount \in Nat
      /\ q.outstanding \in Int /\ q.completing \in Int /\ q.frames \in Int
      /\ q.entries \in [1..q.count -> Item] /\ q.backlog \in [1..q.backlogCount -> Item]
      /\ q.count <= ActiveLimit
  BY QueueFields DEF QueueInv, TypeOK
<1>1. ASSUME NEW d \in Int, NEW m \in Int,
             q' = [gate |-> q.gate, count |-> q.count, frames |-> q.frames,
                   outstanding |-> d, completing |-> m, entries |-> q.entries,
                   backlogCount |-> q.backlogCount, backlogFrames |-> q.backlogFrames,
                   backlog |-> q.backlog]
      PROVE  QueueOK(q')
  BY <1>0, <1>1, QueueFields, QueueMake
<1>2. CASE CompleteRelease
  <2>1. /\ q' = [q EXCEPT !.outstanding = q.outstanding - 1, !.completing = q.completing + 1]
        /\ pc = "release" /\ pc' = "refill"
        /\ UNCHANGED <<owner, draft, hand, verdict, ret, goal, sent, scans, now, clock,
                       ticket, stale>>
    BY <1>2 DEF CompleteRelease
  <2>2. TypeOK'
    <3>1. q' = [gate |-> q.gate, count |-> q.count, frames |-> q.frames,
                outstanding |-> q.outstanding - 1, completing |-> q.completing + 1,
                entries |-> q.entries, backlogCount |-> q.backlogCount,
                backlogFrames |-> q.backlogFrames, backlog |-> q.backlog]
      BY <1>0, <2>1 DEF QueueOK, Queue
    <3>2. QueueOK(q')
      BY <1>0, <1>1, <3>1
    <3> QED BY <2>1, <3>2 DEF QueueInv, TypeOK
  <2>3. /\ q'.count = q.count /\ q'.outstanding = q.outstanding - 1
        /\ q'.completing = q.completing + 1 /\ q'.frames = q.frames
        /\ q'.backlogCount = q.backlogCount /\ q'.backlogFrames = q.backlogFrames
        /\ q'.entries = q.entries /\ q'.backlog = q.backlog
    BY <2>1
  <2>4. Accounting' /\ Bounded'
    BY <1>0, <2>1, <2>3, QueueAssumption DEF QueueInv, Accounting, Bounded
  <2>5. Control'
    BY <2>1, <2>3 DEF QueueInv, Control, InHand
  <2> QED BY <2>2, <2>4, <2>5 DEF QueueInv
<1>3. CASE RefillOne
  <2> DEFINE w == BacklogWithout(q, 1)
             h == q.backlog[1]
  <2>1. /\ pc = "refill" /\ CanPromote(q) /\ q' = CywTxActivateLocked(w, h)
        /\ UNCHANGED <<owner, draft, clock, ticket, stale, pc, hand, verdict, ret, goal,
                       sent, scans, now>>
    BY <1>3 DEF RefillOne, CywTxPromoteOneLocked, wvars
  <2>2. 1 \in 1..q.backlogCount /\ h \in Item /\ h.frames > 0 /\ h.held \in Nat
    BY <1>0, <2>1 DEF CanPromote, QueueInv, Control, Item
  <2>3. /\ q.count < ActiveLimit /\ q.frames <= ActiveLimit - h.held
        /\ q.outstanding < ActiveLimit
    BY <2>1 DEF CanPromote, CywTxActiveFits
  <2>4. w.count = q.count /\ w.entries = q.entries /\ w.frames = q.frames
        /\ w.outstanding = q.outstanding /\ w.completing = q.completing
        /\ w.backlogCount = q.backlogCount - 1 /\ w.backlogFrames = q.backlogFrames - h.held
        /\ w.backlog = Shift(q.backlog, q.backlogCount, 1)
    BY DEF BacklogWithout
  <2>5. QueueOK(w)
    BY <1>0, <2>2, BacklogWithoutOK
  <2> HIDE DEF w, h
  <2>6. QueueOK(q')
    BY <2>1, <2>2, <2>3, <2>4, <2>5, ActivateOK
  <2>7. /\ q'.count = q.count + 1 /\ q'.outstanding = q.outstanding + 1
        /\ q'.completing = q.completing /\ q'.frames = q.frames + h.held
        /\ q'.backlogCount = q.backlogCount - 1 /\ q'.backlogFrames = q.backlogFrames - h.held
        /\ q'.entries = Appended(q.entries, q.count, h)
        /\ q'.backlog = Shift(q.backlog, q.backlogCount, 1)
    BY <2>1, <2>4 DEF CywTxActivateLocked
  <2>8. TypeOK'
    BY <2>1, <2>6 DEF QueueInv, TypeOK
  <2>9. Accounting'
    BY <1>0, <2>1, <2>7 DEF QueueInv, Accounting
  <2>10. Bounded'
    <3>1. q.backlogFrames \in Int
      BY <1>0, QueueFields
    <3>2. /\ q.backlogFrames <= BacklogLimit /\ q.backlogCount <= BacklogLimit
          /\ q.count <= q.outstanding
      BY DEF QueueInv, Bounded
    <3>3. ActiveLimit \in Nat /\ BacklogLimit \in Nat
      BY QueueAssumption
    <3>4. q.frames + h.held <= ActiveLimit
      BY <1>0, <2>2, <2>3, <3>3
    <3>5. q.backlogFrames - h.held <= BacklogLimit
      BY <2>2, <3>1, <3>2, <3>3
    <3>6. q.backlogCount - 1 <= BacklogLimit
      BY <1>0, <3>2, <3>3
    <3>7. q.count + 1 <= q.outstanding + 1 /\ q.outstanding + 1 <= ActiveLimit
      BY <1>0, <2>3, <3>2, <3>3
    <3> QED BY <2>7, <3>4, <3>5, <3>6, <3>7 DEF Bounded
  <2>11. Control'
    <3>1. \A i \in 1..q'.count : q'.entries[i].frames > 0
      BY <1>0, <2>2, <2>7 DEF QueueInv, Control, Appended
    <3>2. \A i \in 1..q'.backlogCount : q'.backlog[i].frames > 0
      BY <1>0, <2>7 DEF QueueInv, Control, Shift
    <3> QED BY <2>1, <3>1, <3>2 DEF QueueInv, Control, InHand
  <2> QED BY <2>8, <2>9, <2>10, <2>11 DEF QueueInv
<1>4. CASE RefillDone
  <2>1. stale' \in BOOLEAN
    BY <1>4 DEF RefillDone, QueueInv, TypeOK
  <2> QED BY <1>4, <2>1, QuietInv DEF RefillDone, QueueInv, TypeOK, InHand
<1>5. CASE CompleteIndicate
  <2>1. owner' = [owner EXCEPT ![hand.nbl] = "ndis"]
    BY <1>5 DEF CompleteIndicate
  <2>2. owner' \in [Nbls -> {"ndis", "callback", "miniport"}]
        /\ \A n \in Nbls : owner'[n] = "callback" => owner[n] = "callback"
    BY <2>1 DEF QueueInv, TypeOK
  <2> QED BY <1>5, <2>2, QuietInv DEF CompleteIndicate, QueueInv, TypeOK, InHand
<1>6. CASE CompleteSettle
  <2>1. /\ q' = [q EXCEPT !.outstanding = q.outstanding, !.completing = q.completing - 1]
        /\ pc = "settle" /\ pc' = ret /\ hand' = Nothing
        /\ UNCHANGED <<owner, draft, goal, sent, scans, now, clock, ticket, stale>>
    <3>1. q' = [q EXCEPT !.completing = q.completing - 1]
      BY <1>6 DEF CompleteSettle
    <3>2. q' = [q EXCEPT !.outstanding = q.outstanding, !.completing = q.completing - 1]
      BY <1>0, <3>1 DEF QueueOK, Queue
    <3> QED BY <1>6, <3>2 DEF CompleteSettle
  <2>2. verdict' \in Verdicts /\ ret' \in {"idle", "clock", "select", "failed", "flush"}
    BY <1>6 DEF CompleteSettle, QueueInv, TypeOK, Verdicts, Gates
  <2>3. TypeOK'
    <3>1. q' = [gate |-> q.gate, count |-> q.count, frames |-> q.frames,
                outstanding |-> q.outstanding, completing |-> q.completing - 1,
                entries |-> q.entries, backlogCount |-> q.backlogCount,
                backlogFrames |-> q.backlogFrames, backlog |-> q.backlog]
      BY <1>0, <2>1 DEF QueueOK, Queue
    <3>2. QueueOK(q')
      BY <1>0, <1>1, <3>1
    <3> QED BY <2>1, <2>2, <3>2 DEF QueueInv, TypeOK
  <2>4. /\ q'.count = q.count /\ q'.outstanding = q.outstanding
        /\ q'.completing = q.completing - 1 /\ q'.frames = q.frames
        /\ q'.backlogCount = q.backlogCount /\ q'.backlogFrames = q.backlogFrames
        /\ q'.entries = q.entries /\ q'.backlog = q.backlog
    BY <2>1
  <2>5. pc' \in {"idle", "clock", "select", "failed", "flush"}
    BY <2>1 DEF QueueInv, TypeOK
  <2>6. Accounting' /\ Bounded'
    BY <1>0, <2>1, <2>4, <2>5 DEF QueueInv, Accounting, Bounded
  <2>7. Control'
    BY <2>1, <2>4, <2>5 DEF QueueInv, Control, InHand
  <2> QED BY <2>3, <2>6, <2>7 DEF QueueInv
<1> QED BY <1>2, <1>3, <1>4, <1>5, <1>6 DEF CywTxComplete

(* A power-up starts the next worker on an untouched queue. *)
LEMMA StartInv == ASSUME QueueInv, WorkerStart PROVE QueueInv'
BY QuietInv DEF WorkerStart, QueueInv, TypeOK, InHand

(* The types, the counters and the bounds hold for every number of NBLs,    *)
(* every limit and every interleaving of senders, cancellations, gate       *)
(* changes and the worker.                                                  *)
THEOREM QueueInvariant == Spec => []QueueInv
<1>1. QueueInv /\ [Next]_vars => QueueInv'
  <2> SUFFICES ASSUME QueueInv, [Next]_vars PROVE QueueInv'
    OBVIOUS
  <2>1. CASE UNCHANGED vars
    <3>1. TypeOK'
      BY <2>1 DEF vars, QueueInv, TypeOK, QueueOK
    <3>2. Accounting' /\ Bounded' /\ Control'
      BY <2>1 DEF vars, QueueInv, Accounting, Bounded, Control, InHand
    <3> QED BY <3>1, <3>2 DEF QueueInv
  <2>2. CASE Next
    BY <2>2, SubmitInv, CancelInv, RefreshInv, TickInv, PumpInv, FlushInv, CompleteInv,
       StartInv DEF Next, Worker
  <2> QED BY <2>1, <2>2
<1> QED BY <1>1, InitInv, PTL DEF Spec

(* Type correctness. *)
THEOREM TypeCorrect == Spec => []TypeOK
<1>1. QueueInv => TypeOK
  BY DEF QueueInv
<1> QED BY <1>1, QueueInvariant, PTL

(* The arrays of CYW_TX_STATE are never overrun and never hold more frames  *)
(* than CYW_TX_LIMIT and CYW_TX_BACKLOG_LIMIT allow.                        *)
THEOREM QueueBounded == Spec => []Bounded
<1>1. QueueInv => Bounded
  BY DEF QueueInv
<1> QED BY <1>1, QueueInvariant, PTL
-----------------------------------------------------------------------------
(* What a step of the queue does to the places where NBLs are held: the two *)
(* arrays and the hand of the worker.                                       *)

(* Array a2 of c2 items is array a of c items with one more at its end. *)
Grown(a2, c2, a, c, item) ==
    /\ c2 = c + 1 /\ c2 \in 1..c2 /\ a2[c2] = item
    /\ \A i \in 1..c : i \in 1..c2 /\ i < c2 /\ a2[i] = a[i]
    /\ \A i \in 1..c2 : i = c2 \/ i \in 1..c
(* Array a2 of c2 items is array a of c items without the one in slot k;    *)
(* what is in slot i was in slot Before(i, k).                              *)
Before(i, k) == IF i < k THEN i ELSE i + 1
Shrunk(a2, c2, a, c, k) ==
    /\ c2 = c - 1
    /\ \A i \in 1..c2 : Before(i, k) \in 1..c /\ Before(i, k) # k /\ a2[i] = a[Before(i, k)]
    /\ \A j \in 1..c : j # k => \E i \in 1..c2 : Before(i, k) = j
    /\ \A i, j \in 1..c2 : /\ i < j => Before(i, k) < Before(j, k)
                           /\ Before(i, k) = Before(j, k) => i = j
(* The items of the two arrays are the same but for their cancellation. *)
Alike(x, y) == x.nbl = y.nbl /\ x.ticket = y.ticket /\ x.frames = y.frames /\ x.late = y.late

(* What may stay as it is in a move. *)
EntriesStay == q'.count = q.count /\ q'.entries = q.entries
BacklogStays == q'.backlogCount = q.backlogCount /\ q'.backlog = q.backlog
HandStays ==
    /\ InHand' <=> InHand
    /\ InHand => hand' = hand /\ verdict' = verdict
OwnersStay ==
    /\ \A n \in Nbls : owner'[n] = "miniport" <=> owner[n] = "miniport"
    /\ ticket' = ticket

(* The moves: nothing; the marks of a cancellation; an NBL enters, leaves,  *)
(* is promoted or transmitted, and goes back to NDIS.                       *)
Idles == EntriesStay /\ BacklogStays /\ HandStays /\ OwnersStay
Marks ==
    /\ q'.count = q.count /\ q'.backlogCount = q.backlogCount
    /\ \A i \in 1..q.count : Alike(q'.entries[i], q.entries[i])
    /\ \A i \in 1..q.backlogCount : Alike(q'.backlog[i], q.backlog[i])
    /\ HandStays /\ OwnersStay
Enters(n) ==
    /\ owner[n] = "callback" /\ owner' = [owner EXCEPT ![n] = "miniport"]
    /\ HandStays /\ ticket' = ticket + 1
EntersActive(n) ==
    /\ Enters(n)
    /\ q.backlogCount = 0 /\ BacklogStays
    /\ Grown(q'.entries, q'.count, q.entries, q.count, Admitted(n))
EntersBacklog(n) ==
    /\ Enters(n)
    /\ EntriesStay
    /\ Grown(q'.backlog, q'.backlogCount, q.backlog, q.backlogCount, Admitted(n))
Leaves == ~InHand /\ InHand' /\ owner' = owner /\ ticket' = ticket
LeavesActive(k) ==
    /\ Leaves
    /\ hand'.nbl = q.entries[k].nbl
    /\ hand'.late \in {q.entries[k].late, q.entries[k].late + 1}
    /\ verdict' = Success => k = 1 /\ q.entries[1].frames = 1
    /\ Shrunk(q'.entries, q'.count, q.entries, q.count, k) /\ BacklogStays
LeavesBacklog(k) ==
    /\ Leaves
    /\ hand' = q.backlog[k] /\ verdict' # Success
    /\ EntriesStay /\ Shrunk(q'.backlog, q'.backlogCount, q.backlog, q.backlogCount, k)
Promotes ==
    /\ 1 \in 1..q.backlogCount
    /\ Grown(q'.entries, q'.count, q.entries, q.count, q.backlog[1])
    /\ Shrunk(q'.backlog, q'.backlogCount, q.backlog, q.backlogCount, 1)
    /\ HandStays /\ OwnersStay
Transmits ==
    /\ 1 \in 1..q.count /\ q.entries[1].frames > 1
    /\ q'.count = q.count /\ BacklogStays
    /\ \A i \in 2..q.count : q'.entries[i] = q.entries[i]
    /\ Alike(q'.entries[1], [q.entries[1] EXCEPT !.frames = @ - 1])
    /\ HandStays /\ OwnersStay
Returns ==
    /\ InHand /\ ~InHand' /\ EntriesStay /\ BacklogStays
    /\ owner' = [owner EXCEPT ![hand.nbl] = "ndis"] /\ ticket' = ticket

Moves ==
    \/ Idles \/ Marks
    \/ \E n \in Nbls : EntersActive(n) \/ EntersBacklog(n)
    \/ \E k \in 1..q.count : LeavesActive(k)
    \/ \E k \in 1..q.backlogCount : LeavesBacklog(k)
    \/ Promotes \/ Transmits \/ Returns

(* Appended and Shift, slot by slot. *)
LEMMA ArraysAre ==
    ASSUME NEW c \in Nat, NEW a
    PROVE  /\ \A item : Grown(Appended(a, c, item), c + 1, a, c, item)
           /\ \A k \in 1..c : Shrunk(Shift(a, c, k), c - 1, a, c, k)
<1>1. ASSUME NEW item PROVE Grown(Appended(a, c, item), c + 1, a, c, item)
  BY DEF Grown, Appended
<1>2. ASSUME NEW k \in 1..c PROVE Shrunk(Shift(a, c, k), c - 1, a, c, k)
  <2> DEFINE t == Shift(a, c, k)
  <2>1. \A i \in 1..(c - 1) : Before(i, k) \in 1..c /\ Before(i, k) # k /\ t[i] = a[Before(i, k)]
    BY DEF Shift, Before
  <2>2. ASSUME NEW j \in 1..c, j # k PROVE \E i \in 1..(c - 1) : Before(i, k) = j
    <3>1. CASE j < k
      <4>1. j \in 1..(c - 1) /\ Before(j, k) = j BY <3>1 DEF Before
      <4> QED BY <4>1
    <3>2. CASE j > k
      <4>1. j - 1 \in 1..(c - 1) /\ Before(j - 1, k) = j BY <3>2 DEF Before
      <4> QED BY <4>1
    <3> QED BY <2>2, <3>1, <3>2
  <2>3. \A i, j \in 1..(c - 1) : /\ i < j => Before(i, k) < Before(j, k)
                                 /\ Before(i, k) = Before(j, k) => i = j
    BY DEF Before
  <2> QED BY <2>1, <2>2, <2>3 DEF Shrunk
<1> QED BY <1>1, <1>2

(* While a flush is under way what leaves the queue leaves it unsent. *)
Flushing ==
    /\ ret = "flush" => verdict \in Closed
    /\ pc = "flush" => ret = "flush"

(* Every step keeps that: the verdict of a flush is set with its gate. *)
LEMMA FlushingKept == ASSUME QueueInv, Flushing, [Next]_vars PROVE Flushing'
<1> USE DEF Flushing
<1>1. CASE UNCHANGED vars BY <1>1 DEF vars
<1>2. ASSUME NEW n \in Nbls, Submit(n) PROVE Flushing'
  BY <1>2 DEF Submit, SubmitPrepare, SubmitAccept, SubmitRefuse, wvars
<1>3. ASSUME NEW id \in CancelIds, CywTxCancel(id) PROVE Flushing'
  BY <1>3 DEF CywTxCancel, wvars
<1>4. ASSUME NEW g \in Gates, CywRefreshTxGate(g) PROVE Flushing'
  BY <1>4 DEF CywRefreshTxGate, wvars
<1>5. CASE Tick BY <1>5 DEF Tick, wvars
<1>6. CASE Pump
  <2>1. CASE PumpBegin \/ PumpReadClock \/ PumpScanDone \/ PumpSelect \/ PumpEnd \/ TransferBusy
    BY <2>1 DEF PumpBegin, PumpReadClock, PumpScanDone, PumpSelect, PumpEnd, TransferBusy
  <2>2. ASSUME NEW k, PumpScanActive(k) \/ PumpScanBacklog(k) PROVE Flushing'
    BY <2>2 DEF PumpScanActive, PumpScanBacklog, TakeInHand
  <2>3. CASE PumpSelectAborted BY <2>3 DEF PumpSelectAborted, TakeInHand
  <2>4. CASE TransferDone BY <2>4 DEF TransferDone, TakeInHand
  <2>5. ASSUME NEW continue \in {"idle", "failed"}, TransferFailed(continue) PROVE Flushing'
    BY <2>5 DEF TransferFailed, TakeInHand
  <2> QED BY <1>6, <2>1, <2>2, <2>3, <2>4, <2>5 DEF Pump
<1>7. CASE CywTxFlush
  <2>1. ASSUME NEW g \in Closed, WorkerFlush(g) \/ WorkerExit(g) \/ LifecycleFlush(g)
        PROVE  Flushing'
    BY <2>1 DEF WorkerFlush, WorkerExit, LifecycleFlush, FlushBegin
  <2>2. CASE FlushActive \/ FlushBacklog BY <2>2 DEF FlushActive, FlushBacklog
  <2>3. CASE FlushDone BY <2>3 DEF FlushDone, QueueInv, TypeOK
  <2> QED BY <1>7, <2>1, <2>2, <2>3 DEF CywTxFlush
<1>8. CASE CywTxComplete
  BY <1>8 DEF CywTxComplete, CompleteRelease, RefillOne, RefillDone, CompleteIndicate,
              CompleteSettle, wvars
<1>9. CASE WorkerStart BY <1>9 DEF WorkerStart
<1> QED BY <1>1, <1>2, <1>3, <1>4, <1>5, <1>6, <1>7, <1>8, <1>9 DEF Next, Worker

(* Admission, promotion and removal, slot by slot. *)
LEMMA AdmissionIs ==
    ASSUME NEW s, QueueOK(s), NEW item
    PROVE  /\ LET t == CywTxActivateLocked(s, item)
              IN  /\ Grown(t.entries, t.count, s.entries, s.count, item)
                  /\ t.backlogCount = s.backlogCount /\ t.backlog = s.backlog
           /\ LET t == CywTxBacklogLocked(s, item)
              IN  /\ Grown(t.backlog, t.backlogCount, s.backlog, s.backlogCount, item)
                  /\ t.count = s.count /\ t.entries = s.entries
<1>0. s.count \in Nat /\ s.backlogCount \in Nat BY DEF QueueOK, Queue
<1>1. ASSUME NEW t, t = CywTxActivateLocked(s, item)
      PROVE  /\ Grown(t.entries, t.count, s.entries, s.count, item)
             /\ t.backlogCount = s.backlogCount /\ t.backlog = s.backlog
  <2>1. /\ t.entries = Appended(s.entries, s.count, item) /\ t.count = s.count + 1
        /\ t.backlogCount = s.backlogCount /\ t.backlog = s.backlog
    BY <1>1 DEF CywTxActivateLocked, QueueOK, Queue
  <2> QED BY <1>0, <2>1, ArraysAre
<1>2. ASSUME NEW t, t = CywTxBacklogLocked(s, item)
      PROVE  /\ Grown(t.backlog, t.backlogCount, s.backlog, s.backlogCount, item)
             /\ t.count = s.count /\ t.entries = s.entries
  <2>1. /\ t.backlog = Appended(s.backlog, s.backlogCount, item)
        /\ t.backlogCount = s.backlogCount + 1
        /\ t.count = s.count /\ t.entries = s.entries
    BY <1>2 DEF CywTxBacklogLocked, QueueOK, Queue
  <2> QED BY <1>0, <2>1, ArraysAre
<1> QED BY <1>1, <1>2

(* The head of the backlog moves to the end of the active array. *)
LEMMA PromotionIs ==
    ASSUME NEW s, QueueOK(s), 1 \in 1..s.backlogCount
    PROVE  LET t == CywTxPromoteOneLocked(s)
           IN  /\ Grown(t.entries, t.count, s.entries, s.count, s.backlog[1])
               /\ Shrunk(t.backlog, t.backlogCount, s.backlog, s.backlogCount, 1)
<1>0. s.count \in Nat /\ s.backlogCount \in Nat BY DEF QueueOK, Queue
<1> DEFINE t == CywTxPromoteOneLocked(s)
<1>1. /\ t.count = s.count + 1 /\ t.entries = Appended(s.entries, s.count, s.backlog[1])
      /\ t.backlogCount = s.backlogCount - 1 /\ t.backlog = Shift(s.backlog, s.backlogCount, 1)
  BY DEF CywTxPromoteOneLocked, CywTxActivateLocked, BacklogWithout, QueueOK, Queue
<1> HIDE DEF t
<1>2. /\ Grown(t.entries, t.count, s.entries, s.count, s.backlog[1])
      /\ Shrunk(t.backlog, t.backlogCount, s.backlog, s.backlogCount, 1)
  BY <1>0, <1>1, ArraysAre
<1> QED BY <1>2 DEF t

(* An item is taken out of one of the arrays. *)
LEMMA RemovalIs ==
    ASSUME NEW s, QueueOK(s)
    PROVE  /\ \A k \in 1..s.count :
                LET t == CywTxRemove(s, k)
                IN  /\ Shrunk(t.entries, t.count, s.entries, s.count, k)
                    /\ t.backlogCount = s.backlogCount /\ t.backlog = s.backlog
           /\ \A k \in 1..s.backlogCount :
                LET t == CywTxBacklogRemove(s, k)
                IN  /\ Shrunk(t.backlog, t.backlogCount, s.backlog, s.backlogCount, k)
                    /\ t.count = s.count /\ t.entries = s.entries
<1>0. s.count \in Nat /\ s.backlogCount \in Nat BY DEF QueueOK, Queue
<1>1. ASSUME NEW k \in 1..s.count, NEW t, t = CywTxRemove(s, k)
      PROVE  /\ Shrunk(t.entries, t.count, s.entries, s.count, k)
             /\ t.backlogCount = s.backlogCount /\ t.backlog = s.backlog
  <2>1. /\ t.count = s.count - 1 /\ t.entries = Shift(s.entries, s.count, k)
        /\ t.backlogCount = s.backlogCount /\ t.backlog = s.backlog
    BY <1>1 DEF CywTxRemove, QueueOK, Queue
  <2> QED BY <1>0, <2>1, ArraysAre
<1>2. ASSUME NEW k \in 1..s.backlogCount, NEW t, t = CywTxBacklogRemove(s, k)
      PROVE  /\ Shrunk(t.backlog, t.backlogCount, s.backlog, s.backlogCount, k)
             /\ t.count = s.count /\ t.entries = s.entries
  <2>1. /\ t.backlogCount = s.backlogCount - 1
        /\ t.backlog = Shift(s.backlog, s.backlogCount, k)
        /\ t.count = s.count /\ t.entries = s.entries
    BY <1>2 DEF CywTxBacklogRemove, BacklogWithout, QueueOK, Queue
  <2> QED BY <1>0, <2>1, ArraysAre
<1> QED BY <1>1, <1>2

(* What a cancellation leaves as it is. *)
LEMMA CancelledIs ==
    ASSUME NEW c \in Nat, NEW a \in [1..c -> Item], NEW id
    PROVE  \A i \in 1..c : Alike(Cancelled(a, id)[i], a[i])
<1> TAKE i \in 1..c
<1>1. a[i] \in Item OBVIOUS
<1>2. Cancelled(a, id)[i] = IF a[i].cancelId = id THEN [a[i] EXCEPT !.cancelled = TRUE] ELSE a[i]
  BY DEF Cancelled
<1> QED BY <1>1, <1>2 DEF Item, Alike

(* Sends, cancellations, gate changes and the clock. *)
LEMMA OutsideMoves ==
    ASSUME QueueInv,
           \/ \E n \in Nbls : Submit(n)
           \/ \E id \in CancelIds : CywTxCancel(id)
           \/ \E g \in Gates : CywRefreshTxGate(g)
           \/ Tick
    PROVE  Moves
<1> USE DEF EntriesStay, BacklogStays, HandStays, OwnersStay, InHand, wvars
<1>0. QueueOK(q) BY DEF QueueInv, TypeOK
<1>1. ASSUME NEW n \in Nbls, NEW frames, NEW small, NEW id, SubmitPrepare(n, frames, small, id)
      PROVE  Idles
  BY <1>1 DEF SubmitPrepare, Idles, QueueInv, TypeOK
<1>2. ASSUME NEW n \in Nbls, SubmitRefuse(n) PROVE Idles
  BY <1>2 DEF SubmitRefuse, Idles, QueueInv, TypeOK
<1>3. ASSUME NEW n \in Nbls, SubmitAccept(n) PROVE EntersActive(n) \/ EntersBacklog(n)
  <2>1. CASE AdmitActive(q, draft[n]) /\ q' = CywTxActivateLocked(q, Admitted(n))
    BY <1>0, <1>3, <2>1, AdmissionIs DEF SubmitAccept, EntersActive, Enters, AdmitActive
  <2>2. CASE AdmitBacklog(q, draft[n]) /\ q' = CywTxBacklogLocked(q, Admitted(n))
    BY <1>0, <1>3, <2>2, AdmissionIs DEF SubmitAccept, EntersBacklog, Enters
  <2> QED BY <1>3, <2>1, <2>2 DEF SubmitAccept
<1>4. ASSUME NEW id \in CancelIds, CywTxCancel(id) PROVE Marks
  <2>1. /\ q'.count = q.count /\ q'.entries = Cancelled(q.entries, id)
        /\ q'.backlogCount = q.backlogCount /\ q'.backlog = Cancelled(q.backlog, id)
    BY <1>0, <1>4 DEF CywTxCancel, QueueOK, Queue
  <2>2. /\ \A i \in 1..q.count : Alike(Cancelled(q.entries, id)[i], q.entries[i])
        /\ \A i \in 1..q.backlogCount : Alike(Cancelled(q.backlog, id)[i], q.backlog[i])
    BY <1>0, CancelledIs, QueueFields
  <2> QED BY <1>4, <2>1, <2>2 DEF CywTxCancel, Marks
<1>5. ASSUME NEW g \in Gates, CywRefreshTxGate(g) PROVE Idles
  BY <1>0, <1>5 DEF CywRefreshTxGate, CywTxSetGate, Idles, QueueOK, Queue
<1>6. CASE Tick BY <1>6 DEF Tick, Idles, Moves
<1> QED BY <1>1, <1>2, <1>3, <1>4, <1>5, <1>6 DEF Moves, Submit

(* The pump. *)
LEMMA PumpMoves == ASSUME QueueInv, Pump PROVE Moves
<1> USE DEF EntriesStay, BacklogStays, HandStays, OwnersStay, InHand
<1>0. /\ QueueOK(q) /\ q.count \in Nat /\ q.backlogCount \in Nat
      /\ q.entries \in [1..q.count -> Item] /\ q.backlog \in [1..q.backlogCount -> Item]
  BY QueueFields DEF QueueInv, TypeOK
<1>1. CASE PumpBegin \/ PumpReadClock \/ PumpScanDone \/ PumpEnd \/ TransferBusy
  BY <1>1 DEF PumpBegin, PumpReadClock, PumpScanDone, PumpEnd, TransferBusy, Idles, Moves
<1>2. ASSUME NEW k \in 1..q.count, PumpScanActive(k) PROVE LeavesActive(k)
  <2>1. hand' = q.entries[k] /\ verdict' # Success /\ q' = CywTxRemove(q, k)
    BY <1>2 DEF PumpScanActive, TakeInHand, IsFirst, AbortedActive
  <2> QED BY <1>0, <1>2, <2>1, RemovalIs DEF PumpScanActive, Leaves, LeavesActive
<1>3. ASSUME NEW k \in 1..q.backlogCount, PumpScanBacklog(k) PROVE LeavesBacklog(k)
  <2>1. hand' = q.backlog[k] /\ verdict' # Success /\ q' = CywTxBacklogRemove(q, k)
    BY <1>3 DEF PumpScanBacklog, TakeInHand, IsFirst, AbortedBacklog
  <2> QED BY <1>0, <1>3, <2>1, RemovalIs DEF PumpScanBacklog, Leaves, LeavesBacklog
<1>4. CASE PumpSelect
  <2>1. CASE q' = q BY <1>4, <2>1 DEF PumpSelect, Idles, Moves
  <2>2. CASE q.backlogCount > 0 /\ q' = CywTxPromoteOneLocked(q)
    <3>1. 1 \in 1..q.backlogCount BY <1>0, <2>2
    <3>2. Promotes BY <1>0, <1>4, <2>2, <3>1, PromotionIs DEF PumpSelect, Promotes
    <3> QED BY <3>2 DEF Moves
  <2> QED BY <1>4, <2>1, <2>2 DEF PumpSelect, Selectable, CanPromote
<1>5. CASE PumpSelectAborted
  <2>1. CASE Selectable = q
    <3>1. 1 \in 1..q.count BY <1>0, <1>5, <2>1 DEF PumpSelectAborted
    <3>2. LeavesActive(1)
      BY <1>0, <1>5, <2>1, <3>1, RemovalIs
         DEF PumpSelectAborted, TakeInHand, Leaves, LeavesActive
    <3> QED BY <3>1, <3>2 DEF Moves
  <2>2. CASE q.count = 0 /\ CanPromote(q) /\ Selectable = CywTxPromoteOneLocked(q)
    <3> DEFINE s == CywTxPromoteOneLocked(q)
    <3>1. 1 \in 1..q.backlogCount BY <1>0, <2>2 DEF CanPromote
    <3>2. /\ Grown(s.entries, s.count, q.entries, 0, q.backlog[1])
          /\ Shrunk(s.backlog, s.backlogCount, q.backlog, q.backlogCount, 1)
      BY <1>0, <2>2, <3>1, PromotionIs
    <3>3. QueueOK(s)
      BY <2>2, <1>5, SteadyNow, PromoteSteady DEF Steady, PumpSelectAborted
    <3>4. hand' = s.entries[1] /\ verdict' # Success /\ q' = CywTxRemove(s, 1)
      BY <1>5, <2>2 DEF PumpSelectAborted, TakeInHand
    <3> HIDE DEF s
    <3>5. s.count = 1 /\ s.entries[1] = q.backlog[1] BY <3>2 DEF Grown
    <3>6. /\ q'.count = 0 /\ q'.entries = Shift(s.entries, 1, 1)
          /\ q'.backlogCount = s.backlogCount /\ q'.backlog = s.backlog
      BY <3>3, <3>4, <3>5 DEF CywTxRemove, QueueOK, Queue
    <3>7. q'.entries = q.entries
      BY <1>0, <2>2, <3>6 DEF Shift
    <3>8. LeavesBacklog(1)
      BY <1>5, <2>2, <3>2, <3>4, <3>5, <3>6, <3>7 DEF PumpSelectAborted, Leaves, LeavesBacklog
    <3> QED BY <3>1, <3>8 DEF Moves
  <2> QED BY <2>1, <2>2 DEF Selectable
<1>6. CASE TransferDone
  <2> DEFINE h == HeadAfterTransfer
             kept == [q EXCEPT !.entries[1] = h]
  <2>1. 1 \in 1..q.count /\ q.entries[1] \in Item /\ q.entries[1].frames > 0
    BY <1>0, <1>6 DEF TransferDone, QueueInv, Control
  <2>2. /\ h.nbl = q.entries[1].nbl /\ h.frames = q.entries[1].frames - 1
        /\ h.late \in {q.entries[1].late, q.entries[1].late + 1}
        /\ h.cancelled = q.entries[1].cancelled
    BY <2>1 DEF HeadAfterTransfer, Item
  <2>3. /\ kept.count = q.count /\ kept.entries = [q.entries EXCEPT ![1] = h]
        /\ kept.backlogCount = q.backlogCount /\ kept.backlog = q.backlog
    BY <1>0 DEF QueueOK, Queue
  <2>4. CASE CywTxAbortStatus(q, h, clock) = Success /\ h.frames # 0
    <3>1. q' = kept /\ pc = "transfer" /\ pc' = "select" BY <1>6, <2>4 DEF TransferDone
    <3>2. ~q.entries[1].cancelled BY <2>2, <2>4 DEF CywTxAbortStatus, Success, Aborted
    <3>3. q.entries[1].frames > 1 BY <2>1, <2>2, <2>4 DEF Item
    <3>4. Alike(h, [q.entries[1] EXCEPT !.frames = @ - 1])
      BY <2>1, <3>2 DEF HeadAfterTransfer, Alike, Item
    <3> HIDE DEF kept, h
    <3>5. q'.entries[1] = h /\ \A i \in 2..q.count : q'.entries[i] = q.entries[i]
      BY <1>0, <2>1, <2>3, <3>1
    <3>6. Transmits
      BY <1>6, <2>1, <2>3, <3>1, <3>3, <3>4, <3>5 DEF Transmits, TransferDone
    <3> QED BY <3>6 DEF Moves
  <2>5. CASE CywTxAbortStatus(q, h, clock) # Success \/ h.frames = 0
    <3>1. /\ q' = CywTxRemove(kept, 1) /\ pc = "transfer" /\ pc' = "release" /\ hand' = h
          /\ verdict' = CywTxAbortStatus(q, h, clock)
      BY <1>6, <2>5 DEF TransferDone, TakeInHand
    <3>2. /\ q'.count = q.count - 1 /\ q'.entries = Shift(kept.entries, q.count, 1)
          /\ q'.backlogCount = q.backlogCount /\ q'.backlog = q.backlog
      BY <3>1, <2>3, <1>0 DEF CywTxRemove, QueueOK, Queue
    <3>3. Shift(kept.entries, q.count, 1) = Shift(q.entries, q.count, 1)
      BY <1>0, <2>3 DEF Shift
    <3>4. q.entries[1].frames \in Nat BY <2>1 DEF Item
    <3>5. Shrunk(q'.entries, q'.count, q.entries, q.count, 1)
      BY <1>0, <2>1, <3>2, <3>3, ArraysAre
    <3> HIDE DEF kept, h
    <3>6. LeavesActive(1)
      BY <1>6, <2>1, <2>2, <2>5, <3>1, <3>2, <3>4, <3>5 DEF Leaves, LeavesActive, TransferDone
    <3> QED BY <2>1, <3>6 DEF Moves
  <2> QED BY <2>4, <2>5
<1>7. ASSUME NEW continue \in {"idle", "failed"}, TransferFailed(continue) PROVE LeavesActive(1)
  <2>0. 1 \in 1..q.count BY <1>0, <1>7 DEF TransferFailed, QueueInv, Control
  <2>1. hand' = q.entries[1] /\ verdict' # Success /\ q' = CywTxRemove(q, 1)
    BY <1>7 DEF TransferFailed, TakeInHand, Success, Failure
  <2> QED BY <1>0, <1>7, <2>0, <2>1, RemovalIs DEF TransferFailed, Leaves, LeavesActive
<1>8. pc = "transfer" => 1 \in 1..q.count BY <1>0 DEF QueueInv, Control
<1> QED BY <1>1, <1>2, <1>3, <1>4, <1>5, <1>6, <1>7, <1>8 DEF Pump, Moves, TransferFailed

(* Flushes and completions. *)
LEMMA RestMoves ==
    ASSUME QueueInv, Flushing, CywTxFlush \/ CywTxComplete \/ WorkerStart
    PROVE  Moves
<1> USE DEF EntriesStay, BacklogStays, HandStays, OwnersStay, InHand
<1>0. /\ QueueOK(q) /\ q.count \in Nat /\ q.backlogCount \in Nat
      /\ q.entries \in [1..q.count -> Item] /\ q.backlog \in [1..q.backlogCount -> Item]
  BY QueueFields DEF QueueInv, TypeOK
<1>1. ASSUME NEW g \in Closed, WorkerFlush(g) \/ WorkerExit(g) \/ LifecycleFlush(g)
      PROVE  Idles
  BY <1>0, <1>1 DEF WorkerFlush, WorkerExit, LifecycleFlush, FlushBegin, CywTxSetGate, Idles,
                    QueueOK, Queue
<1>2. pc = "flush" => verdict # Success
  BY QueueAssumption DEF Flushing, Success
<1>3. CASE FlushActive
  <2>1. 1 \in 1..q.count BY <1>0, <1>3 DEF FlushActive
  <2>2. LeavesActive(1)
    BY <1>0, <1>2, <1>3, <2>1, RemovalIs DEF FlushActive, Leaves, LeavesActive
  <2> QED BY <2>1, <2>2 DEF Moves
<1>4. CASE FlushBacklog
  <2>1. 1 \in 1..q.backlogCount BY <1>0, <1>4 DEF FlushBacklog
  <2>2. LeavesBacklog(1)
    BY <1>0, <1>2, <1>4, <2>1, RemovalIs DEF FlushBacklog, Leaves, LeavesBacklog
  <2> QED BY <2>1, <2>2 DEF Moves
<1>5. CASE FlushDone \/ WorkerStart
  BY <1>5 DEF FlushDone, WorkerStart, Idles, Moves, QueueInv, TypeOK
<1>6. CASE CompleteRelease \/ CompleteSettle
  BY <1>0, <1>6 DEF CompleteRelease, CompleteSettle, Idles, Moves, QueueInv, TypeOK, QueueOK, Queue
<1>7. CASE RefillOne
  <2>1. 1 \in 1..q.backlogCount BY <1>0, <1>7 DEF RefillOne, CanPromote
  <2>2. Promotes BY <1>0, <1>7, <2>1, PromotionIs DEF RefillOne, Promotes, wvars
  <2> QED BY <2>2 DEF Moves
<1>8. CASE RefillDone BY <1>8 DEF RefillDone, Idles, Moves
<1>9. CASE CompleteIndicate BY <1>9 DEF CompleteIndicate, Returns, Moves
<1> QED BY <1>1, <1>3, <1>4, <1>5, <1>6, <1>7, <1>8, <1>9 DEF CywTxFlush, CywTxComplete, Moves

(* Every step is one of these. *)
LEMMA MovesAre == ASSUME QueueInv, Flushing, [Next]_vars PROVE Moves
<1>1. CASE UNCHANGED vars
  BY <1>1 DEF vars, Moves, Idles, EntriesStay, BacklogStays, HandStays, OwnersStay, InHand
<1> QED BY <1>1, OutsideMoves, PumpMoves, RestMoves DEF Next, Worker

-----------------------------------------------------------------------------
(* No NBL is in two places, ... *)
Distinct ==
    /\ \A i, j \in 1..q.count : q.entries[i].nbl = q.entries[j].nbl => i = j
    /\ \A i, j \in 1..q.backlogCount : q.backlog[i].nbl = q.backlog[j].nbl => i = j
    /\ \A i \in 1..q.count, j \in 1..q.backlogCount : q.entries[i].nbl # q.backlog[j].nbl
    /\ InHand => /\ \A i \in 1..q.count : q.entries[i].nbl # hand.nbl
                 /\ \A i \in 1..q.backlogCount : q.backlog[i].nbl # hand.nbl
(* ... the miniport owns those that are in one, ... *)
Owned ==
    /\ \A i \in 1..q.count : owner[q.entries[i].nbl] = "miniport"
    /\ \A i \in 1..q.backlogCount : owner[q.backlog[i].nbl] = "miniport"
    /\ InHand => owner[hand.nbl] = "miniport"
(* ... and all of those it owns are. *)
Kept ==
    \A n \in Nbls : owner[n] = "miniport" =>
        \/ \E i \in 1..q.count : q.entries[i].nbl = n
        \/ \E i \in 1..q.backlogCount : q.backlog[i].nbl = n
        \/ InHand /\ hand.nbl = n
(* The tickets of admission rise along the active array and the backlog.    *)
Ordered ==
    /\ NoOvertaking
    /\ \A i \in 1..q.count : q.entries[i].ticket < ticket
    /\ \A i \in 1..q.backlogCount : q.backlog[i].ticket < ticket
(* No frame of an item that waits has gone out behind its cancellation. *)
Punctual == CancelStops /\ \A i \in 1..q.backlogCount : q.backlog[i].late = 0
(* A prepared item fits the active array and is new. *)
Prepared ==
    \A n \in Nbls : owner[n] = "callback" =>
        draft[n].frames \in 1..ActiveLimit /\ draft[n].late = 0

(* With QueueInv this is inductive. *)
PlacesInv == Flushing /\ Distinct /\ Owned /\ Kept /\ Ordered /\ Punctual /\ Prepared

(* What the proofs below use of the types. *)
LEMMA ShapeIs ==
    ASSUME QueueInv
    PROVE  /\ q.count \in Nat /\ q.backlogCount \in Nat /\ ticket \in Nat
           /\ q.entries \in [1..q.count -> Item] /\ q.backlog \in [1..q.backlogCount -> Item]
           /\ \A i \in 1..q.count : q.entries[i].nbl \in Nbls /\ q.entries[i].ticket \in Nat
                                      /\ q.entries[i].late \in Nat
           /\ \A i \in 1..q.backlogCount : q.backlog[i].nbl \in Nbls /\ q.backlog[i].ticket \in Nat
                                             /\ q.backlog[i].late \in Nat
           /\ InHand => hand.nbl \in Nbls /\ hand.late \in Nat
           /\ owner \in [Nbls -> {"ndis", "callback", "miniport"}]
<1>1. /\ q.count \in Nat /\ q.backlogCount \in Nat
      /\ q.entries \in [1..q.count -> Item] /\ q.backlog \in [1..q.backlogCount -> Item]
  BY QueueFields DEF QueueInv, TypeOK
<1> QED BY <1>1 DEF QueueInv, TypeOK, Control, Item

(* What an admitted item is. *)
LEMMA AdmittedIs ==
    ASSUME QueueInv, NEW n \in Nbls
    PROVE  /\ Admitted(n).nbl = n /\ Admitted(n).ticket = ticket
           /\ Admitted(n).late = draft[n].late /\ Admitted(n).frames = draft[n].frames
<1>1. draft[n] \in Item /\ draft[n].nbl = n BY DEF QueueInv, TypeOK, Control
<1> QED BY <1>1 DEF Admitted, Item

(* A transfer that goes on changes the frames of the head only. *)
LEMMA TransmitsKeep ==
    ASSUME QueueInv, Transmits
    PROVE  \A i \in 1..q.count : /\ q'.entries[i].nbl = q.entries[i].nbl
                                 /\ q'.entries[i].ticket = q.entries[i].ticket
                                 /\ q'.entries[i].late = q.entries[i].late
<1>1. q.entries[1] \in Item /\ q.count \in Nat BY ShapeIs DEF Transmits
<1>2. /\ q'.entries[1].nbl = q.entries[1].nbl /\ q'.entries[1].ticket = q.entries[1].ticket
      /\ q'.entries[1].late = q.entries[1].late
  BY <1>1 DEF Transmits, Alike, Item
<1> QED BY <1>1, <1>2 DEF Transmits

(* No move brings an NBL to a second place. *)
LEMMA DistinctKept ==
    ASSUME QueueInv, PlacesInv, Moves PROVE Distinct'
<1> USE DEF PlacesInv, Distinct, Owned
<1>0. /\ q.count \in Nat /\ q.backlogCount \in Nat /\ ticket \in Nat
      /\ \A i \in 1..q.count : q.entries[i].nbl \in Nbls /\ q.entries[i].ticket \in Nat
      /\ \A i \in 1..q.backlogCount : q.backlog[i].nbl \in Nbls /\ q.backlog[i].ticket \in Nat
      /\ InHand => hand.nbl \in Nbls
      /\ owner \in [Nbls -> {"ndis", "callback", "miniport"}]
  BY ShapeIs
<1>1. CASE Idles
  BY <1>0, <1>1 DEF Idles, EntriesStay, BacklogStays, HandStays, OwnersStay
<1>2. CASE Marks
  BY <1>0, <1>2 DEF Marks, Alike, HandStays, OwnersStay
<1>3. ASSUME NEW n \in Nbls, EntersActive(n) PROVE Distinct'
  BY <1>0, <1>3, AdmittedIs DEF EntersActive, Enters, BacklogStays, HandStays, Grown
<1>4. ASSUME NEW n \in Nbls, EntersBacklog(n) PROVE Distinct'
  BY <1>0, <1>4, AdmittedIs DEF EntersBacklog, Enters, EntriesStay, HandStays, Grown
<1>5. ASSUME NEW k \in 1..q.count, LeavesActive(k) PROVE Distinct'
  BY <1>0, <1>5 DEF LeavesActive, Leaves, BacklogStays, Shrunk
<1>6. ASSUME NEW k \in 1..q.backlogCount, LeavesBacklog(k) PROVE Distinct'
  BY <1>0, <1>6 DEF LeavesBacklog, Leaves, EntriesStay, Shrunk
<1>7. CASE Promotes
  <2>1. \A i \in 1..q'.count :
          \/ i \in 1..q.count /\ q'.entries[i] = q.entries[i]
          \/ i = q'.count /\ q'.entries[i] = q.backlog[1]
    BY <1>7 DEF Promotes, Grown
  <2>2. \A i \in 1..q'.backlogCount :
          /\ Before(i, 1) \in 1..q.backlogCount /\ Before(i, 1) # 1
          /\ q'.backlog[i] = q.backlog[Before(i, 1)]
    BY <1>7 DEF Promotes, Shrunk
  <2>3. 1 \in 1..q.backlogCount /\ q'.count = q.count + 1 BY <1>7 DEF Promotes, Grown
  <2>4. \A i, j \in 1..q'.count : q'.entries[i].nbl = q'.entries[j].nbl => i = j
    BY <2>1, <2>3
  <2>5. \A i, j \in 1..q'.backlogCount : q'.backlog[i].nbl = q'.backlog[j].nbl => i = j
    BY <1>7, <2>2 DEF Promotes, Shrunk
  <2>6. \A i \in 1..q'.count, j \in 1..q'.backlogCount : q'.entries[i].nbl # q'.backlog[j].nbl
    BY <2>1, <2>2, <2>3
  <2>7. InHand' => /\ \A i \in 1..q'.count : q'.entries[i].nbl # hand'.nbl
                   /\ \A i \in 1..q'.backlogCount : q'.backlog[i].nbl # hand'.nbl
    BY <1>7, <2>1, <2>2, <2>3 DEF Promotes, HandStays
  <2> QED BY <2>4, <2>5, <2>6, <2>7
<1>8. CASE Transmits
  BY <1>0, <1>8, TransmitsKeep DEF Transmits, BacklogStays, HandStays, OwnersStay
<1>9. CASE Returns
  BY <1>0, <1>9 DEF Returns, EntriesStay, BacklogStays
<1> QED BY <1>1, <1>2, <1>3, <1>4, <1>5, <1>6, <1>7, <1>8, <1>9 DEF Moves

(* No move leaves an NBL in a place behind its return. *)
LEMMA OwnedKept ==
    ASSUME QueueInv, PlacesInv, Moves PROVE Owned'
<1> USE DEF PlacesInv, Distinct, Owned
<1>0. /\ q.count \in Nat /\ q.backlogCount \in Nat /\ ticket \in Nat
      /\ \A i \in 1..q.count : q.entries[i].nbl \in Nbls /\ q.entries[i].ticket \in Nat
      /\ \A i \in 1..q.backlogCount : q.backlog[i].nbl \in Nbls /\ q.backlog[i].ticket \in Nat
      /\ InHand => hand.nbl \in Nbls
      /\ owner \in [Nbls -> {"ndis", "callback", "miniport"}]
  BY ShapeIs
<1>1. CASE Idles
  BY <1>0, <1>1 DEF Idles, EntriesStay, BacklogStays, HandStays, OwnersStay
<1>2. CASE Marks
  BY <1>0, <1>2 DEF Marks, Alike, HandStays, OwnersStay
<1>3. ASSUME NEW n \in Nbls, EntersActive(n) PROVE Owned'
  BY <1>0, <1>3, AdmittedIs DEF EntersActive, Enters, BacklogStays, HandStays, Grown
<1>4. ASSUME NEW n \in Nbls, EntersBacklog(n) PROVE Owned'
  BY <1>0, <1>4, AdmittedIs DEF EntersBacklog, Enters, EntriesStay, HandStays, Grown
<1>5. ASSUME NEW k \in 1..q.count, LeavesActive(k) PROVE Owned'
  BY <1>0, <1>5 DEF LeavesActive, Leaves, BacklogStays, Shrunk
<1>6. ASSUME NEW k \in 1..q.backlogCount, LeavesBacklog(k) PROVE Owned'
  BY <1>0, <1>6 DEF LeavesBacklog, Leaves, EntriesStay, Shrunk
<1>7. CASE Promotes
  BY <1>0, <1>7 DEF Promotes, HandStays, OwnersStay, Grown, Shrunk
<1>8. CASE Transmits
  BY <1>0, <1>8, TransmitsKeep DEF Transmits, BacklogStays, HandStays, OwnersStay
<1>9. CASE Returns
  BY <1>0, <1>9 DEF Returns, EntriesStay, BacklogStays
<1> QED BY <1>1, <1>2, <1>3, <1>4, <1>5, <1>6, <1>7, <1>8, <1>9 DEF Moves

(* No move loses an NBL. *)
LEMMA KeptKept ==
    ASSUME QueueInv, PlacesInv, Moves PROVE Kept'
<1> USE DEF PlacesInv, Kept
<1>0. /\ q.count \in Nat /\ q.backlogCount \in Nat /\ ticket \in Nat
      /\ \A i \in 1..q.count : q.entries[i].nbl \in Nbls /\ q.entries[i].ticket \in Nat
      /\ \A i \in 1..q.backlogCount : q.backlog[i].nbl \in Nbls /\ q.backlog[i].ticket \in Nat
      /\ InHand => hand.nbl \in Nbls
      /\ owner \in [Nbls -> {"ndis", "callback", "miniport"}]
  BY ShapeIs
<1>1. CASE Idles
  BY <1>0, <1>1 DEF Idles, EntriesStay, BacklogStays, HandStays, OwnersStay
<1>2. CASE Marks
  BY <1>0, <1>2 DEF Marks, Alike, HandStays, OwnersStay
<1>3. ASSUME NEW n \in Nbls, EntersActive(n) PROVE Kept'
  BY <1>0, <1>3, AdmittedIs DEF EntersActive, Enters, BacklogStays, HandStays, Grown
<1>4. ASSUME NEW n \in Nbls, EntersBacklog(n) PROVE Kept'
  BY <1>0, <1>4, AdmittedIs DEF EntersBacklog, Enters, EntriesStay, HandStays, Grown
<1>5. ASSUME NEW k \in 1..q.count, LeavesActive(k) PROVE Kept'
  BY <1>0, <1>5 DEF LeavesActive, Leaves, BacklogStays, Shrunk
<1>6. ASSUME NEW k \in 1..q.backlogCount, LeavesBacklog(k) PROVE Kept'
  BY <1>0, <1>6 DEF LeavesBacklog, Leaves, EntriesStay, Shrunk
<1>7. CASE Promotes
  BY <1>0, <1>7 DEF Promotes, HandStays, OwnersStay, Grown, Shrunk
<1>8. CASE Transmits
  BY <1>0, <1>8, TransmitsKeep DEF Transmits, BacklogStays, HandStays, OwnersStay
<1>9. CASE Returns
  BY <1>0, <1>9 DEF Returns, EntriesStay, BacklogStays
<1> QED BY <1>1, <1>2, <1>3, <1>4, <1>5, <1>6, <1>7, <1>8, <1>9 DEF Moves

(* No move overtakes. *)
LEMMA OrderedKept ==
    ASSUME QueueInv, PlacesInv, Moves PROVE Ordered'
<1> USE DEF PlacesInv, Ordered, NoOvertaking
<1>0. /\ q.count \in Nat /\ q.backlogCount \in Nat /\ ticket \in Nat
      /\ \A i \in 1..q.count : q.entries[i].nbl \in Nbls /\ q.entries[i].ticket \in Nat
      /\ \A i \in 1..q.backlogCount : q.backlog[i].nbl \in Nbls /\ q.backlog[i].ticket \in Nat
      /\ InHand => hand.nbl \in Nbls
      /\ owner \in [Nbls -> {"ndis", "callback", "miniport"}]
  BY ShapeIs
<1>1. CASE Idles
  BY <1>0, <1>1 DEF Idles, EntriesStay, BacklogStays, HandStays, OwnersStay
<1>2. CASE Marks
  BY <1>0, <1>2 DEF Marks, Alike, HandStays, OwnersStay
<1>3. ASSUME NEW n \in Nbls, EntersActive(n) PROVE Ordered'
  BY <1>0, <1>3, AdmittedIs DEF EntersActive, Enters, BacklogStays, HandStays, Grown
<1>4. ASSUME NEW n \in Nbls, EntersBacklog(n) PROVE Ordered'
  BY <1>0, <1>4, AdmittedIs DEF EntersBacklog, Enters, EntriesStay, HandStays, Grown
<1>5. ASSUME NEW k \in 1..q.count, LeavesActive(k) PROVE Ordered'
  BY <1>0, <1>5 DEF LeavesActive, Leaves, BacklogStays, Shrunk
<1>6. ASSUME NEW k \in 1..q.backlogCount, LeavesBacklog(k) PROVE Ordered'
  BY <1>0, <1>6 DEF LeavesBacklog, Leaves, EntriesStay, Shrunk
<1>7. CASE Promotes
  <2>1. \A i \in 1..q'.count :
          \/ i \in 1..q.count /\ q'.entries[i] = q.entries[i]
          \/ i = q'.count /\ q'.entries[i] = q.backlog[1]
    BY <1>7 DEF Promotes, Grown
  <2>2. \A i \in 1..q'.backlogCount :
          /\ Before(i, 1) \in 1..q.backlogCount /\ Before(i, 1) # 1
          /\ q'.backlog[i] = q.backlog[Before(i, 1)]
    BY <1>7 DEF Promotes, Shrunk
  <2>3. 1 \in 1..q.backlogCount /\ q'.count = q.count + 1 BY <1>7 DEF Promotes, Grown
  <2>4. \A j \in 1..q'.backlogCount : Before(j, 1) \in 1..q.backlogCount /\ 1 < Before(j, 1)
    BY <1>0, <2>2
  <2>5. \A i, j \in 1..q'.count : i < j => q'.entries[i].ticket < q'.entries[j].ticket
    BY <1>0, <2>1, <2>3
  <2>6. \A i, j \in 1..q'.backlogCount : i < j => q'.backlog[i].ticket < q'.backlog[j].ticket
    BY <1>7, <2>2 DEF Promotes, Shrunk
  <2>7. \A i \in 1..q'.count, j \in 1..q'.backlogCount :
          q'.entries[i].ticket < q'.backlog[j].ticket
    BY <2>1, <2>2, <2>3, <2>4
  <2>8. /\ \A i \in 1..q'.count : q'.entries[i].ticket < ticket'
        /\ \A i \in 1..q'.backlogCount : q'.backlog[i].ticket < ticket'
    BY <1>7, <2>1, <2>2, <2>3 DEF Promotes, OwnersStay
  <2> QED BY <2>5, <2>6, <2>7, <2>8
<1>8. CASE Transmits
  BY <1>0, <1>8, TransmitsKeep DEF Transmits, BacklogStays, HandStays, OwnersStay
<1>9. CASE Returns
  BY <1>0, <1>9 DEF Returns, EntriesStay, BacklogStays
<1> QED BY <1>1, <1>2, <1>3, <1>4, <1>5, <1>6, <1>7, <1>8, <1>9 DEF Moves

(* No move transmits a frame of a cancelled item and keeps it. *)
LEMMA PunctualKept ==
    ASSUME QueueInv, PlacesInv, Moves PROVE Punctual'
<1> USE DEF PlacesInv, Punctual, CancelStops, Prepared
<1>0. /\ q.count \in Nat /\ q.backlogCount \in Nat /\ ticket \in Nat
      /\ \A i \in 1..q.count : q.entries[i].nbl \in Nbls /\ q.entries[i].ticket \in Nat
      /\ \A i \in 1..q.backlogCount : q.backlog[i].nbl \in Nbls /\ q.backlog[i].ticket \in Nat
      /\ InHand => hand.nbl \in Nbls
      /\ owner \in [Nbls -> {"ndis", "callback", "miniport"}]
  BY ShapeIs
<1>1. CASE Idles
  BY <1>0, <1>1 DEF Idles, EntriesStay, BacklogStays, HandStays, OwnersStay
<1>2. CASE Marks
  BY <1>0, <1>2 DEF Marks, Alike, HandStays, OwnersStay
<1>3. ASSUME NEW n \in Nbls, EntersActive(n) PROVE Punctual'
  BY <1>0, <1>3, AdmittedIs DEF EntersActive, Enters, BacklogStays, HandStays, Grown
<1>4. ASSUME NEW n \in Nbls, EntersBacklog(n) PROVE Punctual'
  BY <1>0, <1>4, AdmittedIs DEF EntersBacklog, Enters, EntriesStay, HandStays, Grown
<1>5. ASSUME NEW k \in 1..q.count, LeavesActive(k) PROVE Punctual'
  BY <1>0, <1>5 DEF LeavesActive, Leaves, BacklogStays, Shrunk
<1>6. ASSUME NEW k \in 1..q.backlogCount, LeavesBacklog(k) PROVE Punctual'
  BY <1>0, <1>6 DEF LeavesBacklog, Leaves, EntriesStay, Shrunk
<1>7. CASE Promotes
  BY <1>0, <1>7 DEF Promotes, HandStays, OwnersStay, Grown, Shrunk
<1>8. CASE Transmits
  BY <1>0, <1>8, TransmitsKeep DEF Transmits, BacklogStays, HandStays, OwnersStay
<1>9. CASE Returns
  BY <1>0, <1>9 DEF Returns, EntriesStay, BacklogStays
<1> QED BY <1>1, <1>2, <1>3, <1>4, <1>5, <1>6, <1>7, <1>8, <1>9 DEF Moves

(* A callback prepares a new item that fits; nobody else touches it. *)
LEMMA PreparedKept == ASSUME QueueInv, Prepared, [Next]_vars PROVE Prepared'
<1> USE DEF Prepared
<1>1. CASE UNCHANGED vars BY <1>1 DEF vars
<1>2. ASSUME NEW n \in Nbls, NEW frames \in NbCounts, NEW small, NEW id,
             SubmitPrepare(n, frames, small, id)
      PROVE  Prepared'
  <2>1. frames \in 1..ActiveLimit BY <1>2, QueueAssumption DEF SubmitPrepare
  <2> QED BY <1>2, <2>1 DEF SubmitPrepare, QueueInv, TypeOK
<1>3. ASSUME NEW n \in Nbls, SubmitAccept(n) \/ SubmitRefuse(n) PROVE Prepared'
  BY <1>3 DEF SubmitAccept, SubmitRefuse, QueueInv, TypeOK
<1>4. CASE CompleteIndicate BY <1>4 DEF CompleteIndicate, QueueInv, TypeOK
<1>5. ASSUME UNCHANGED <<owner, draft>> PROVE Prepared'
  BY <1>5
<1>6. Pump => UNCHANGED <<owner, draft>>
  BY DEF Pump, PumpBegin, PumpReadClock, PumpScanActive, PumpScanBacklog, PumpScanDone, PumpSelect,
         PumpSelectAborted, PumpEnd, TransferBusy, TransferDone, TransferFailed
<1>7. CywTxFlush \/ WorkerStart => UNCHANGED <<owner, draft>>
  BY DEF CywTxFlush, WorkerFlush, WorkerExit, LifecycleFlush, FlushBegin, FlushActive,
         FlushBacklog, FlushDone, WorkerStart
<1>8. CompleteRelease \/ RefillOne \/ RefillDone \/ CompleteSettle => UNCHANGED <<owner, draft>>
  BY DEF CompleteRelease, RefillOne, RefillDone, CompleteSettle
<1>9. /\ \A id \in CancelIds : CywTxCancel(id) => UNCHANGED <<owner, draft>>
      /\ \A g \in Gates : CywRefreshTxGate(g) => UNCHANGED <<owner, draft>>
      /\ Tick => UNCHANGED <<owner, draft>>
  BY DEF CywTxCancel, CywRefreshTxGate, Tick
<1> QED BY <1>1, <1>2, <1>3, <1>4, <1>5, <1>6, <1>7, <1>8, <1>9
        DEF Next, Submit, Worker, CywTxComplete

(* The empty queue holds nothing. *)
LEMMA PlacesInit == Init => PlacesInv
<1> SUFFICES ASSUME Init PROVE PlacesInv
  OBVIOUS
<1>1. /\ q.count = 0 /\ q.backlogCount = 0 /\ pc = "idle" /\ ret = "idle"
      /\ \A n \in Nbls : owner[n] = "ndis"
  BY DEF Init, EmptyQueue
<1> QED BY <1>1 DEF PlacesInv, Flushing, Distinct, Owned, Kept, Ordered, NoOvertaking, Punctual,
                    CancelStops, Prepared, InHand

(* Where every NBL is, in which order, and what has become of its frames,   *)
(* for every number of NBLs and every interleaving.                         *)
THEOREM PlacesInvariant == Spec => []PlacesInv
<1>1. QueueInv /\ PlacesInv /\ [Next]_vars => PlacesInv'
  <2> SUFFICES ASSUME QueueInv, PlacesInv, [Next]_vars PROVE PlacesInv'
    OBVIOUS
  <2>1. Flushing /\ Prepared BY DEF PlacesInv
  <2>2. Moves BY <2>1, MovesAre
  <2>3. Flushing' /\ Prepared' BY <2>1, FlushingKept, PreparedKept
  <2>4. Distinct' /\ Owned' /\ Kept' /\ Ordered' /\ Punctual'
    BY <2>2, DistinctKept, OwnedKept, KeptKept, OrderedKept, PunctualKept
  <2> QED BY <2>3, <2>4 DEF PlacesInv
<1> QED BY <1>1, PlacesInit, QueueInvariant, PTL DEF Spec

(* OwnedOnce: every accepted NBL is in exactly one slot or in the worker's  *)
(* hand, and no other NBL is anywhere: none is lost and none is completed   *)
(* twice.                                                                   *)
THEOREM EveryNblOwnedOnce == Spec => []OwnedOnce
<1>1. QueueInv /\ PlacesInv => OwnedOnce
  <2> SUFFICES ASSUME QueueInv, PlacesInv, NEW n \in Nbls
               PROVE  IF owner[n] = "miniport" THEN \E p \in Places(n) : Places(n) = {p}
                                               ELSE Places(n) = {}
    BY DEF OwnedOnce
  <2> USE DEF PlacesInv
  <2> DEFINE A == {j \in 1..q.count : q.entries[j].nbl = n}
             B == {j \in 1..q.backlogCount : q.backlog[j].nbl = n}
             H == InHand /\ hand.nbl = n
  <2>1. Places(n) = {<<"active", i>> : i \in A} \cup {<<"backlog", i>> : i \in B}
                      \cup (IF H THEN {<<"hand", 0>>} ELSE {})
    BY DEF Places
  <2>2. CASE owner[n] # "miniport"
    <3>1. A = {} /\ B = {} /\ ~H BY <2>2 DEF Owned
    <3> QED BY <2>1, <2>2, <3>1
  <2>3. CASE owner[n] = "miniport"
    <3>1. \A i, j \in A : i = j BY DEF Distinct
    <3>2. \A i, j \in B : i = j BY DEF Distinct
    <3>3. (A = {} \/ B = {}) /\ (H => A = {} /\ B = {}) BY DEF Distinct
    <3>4. A # {} \/ B # {} \/ H BY <2>3 DEF Kept
    <3> HIDE DEF A, B, H
    <3>5. CASE A # {}
      <4>1. PICK i \in A : A = {i} BY <3>1, <3>5
      <4>2. Places(n) = {<<"active", i>>} BY <2>1, <3>3, <4>1
      <4> QED BY <2>3, <4>2
    <3>6. CASE B # {}
      <4>1. PICK i \in B : B = {i} BY <3>2, <3>6
      <4>2. Places(n) = {<<"backlog", i>>} BY <2>1, <3>3, <3>6, <4>1
      <4> QED BY <2>3, <4>2
    <3>7. CASE H
      <4>1. Places(n) = {<<"hand", 0>>} BY <2>1, <3>3, <3>7
      <4> QED BY <2>3, <4>1
    <3> QED BY <3>4, <3>5, <3>6, <3>7
  <2> QED BY <2>2, <2>3
<1> QED BY <1>1, PlacesInvariant, QueueInvariant, PTL

(* NoFalseZero: CywTxOutstanding answers 0 only when NDIS has every NBL     *)
(* back and no completion callback is running.                              *)
THEOREM ZeroIsTrue == Spec => []NoFalseZero
<1>1. QueueInv /\ PlacesInv => NoFalseZero
  <2> SUFFICES ASSUME QueueInv, PlacesInv, CywTxOutstanding = 0
               PROVE  (\A n \in Nbls : owner[n] # "miniport") /\ pc # "settle"
    BY DEF NoFalseZero
  <2>1. q.count \in Nat /\ q.backlogCount \in Nat BY ShapeIs
  <2>2. /\ q.outstanding = q.count + (IF pc = "release" THEN 1 ELSE 0)
        /\ q.completing = (IF pc \in {"refill", "indicate", "settle"} THEN 1 ELSE 0)
    BY DEF QueueInv, Accounting
  <2>3. /\ q.count = 0 /\ q.backlogCount = 0
        /\ pc \notin {"release", "refill", "indicate", "settle"}
    BY <2>1, <2>2 DEF CywTxOutstanding
  <2> QED BY <2>3 DEF PlacesInv, Kept, InHand
<1> QED BY <1>1, PlacesInvariant, QueueInvariant, PTL

(* CancelStops: a cancelled NBL loses at most the frame that was on the bus *)
(* when the cancellation came.                                              *)
THEOREM CancelIsObeyed == Spec => []CancelStops
<1>1. PlacesInv => CancelStops BY DEF PlacesInv, Punctual
<1> QED BY <1>1, PlacesInvariant, PTL

(* NoOvertaking: NBLs stand in the two arrays in the order of admission.    *)
THEOREM AdmissionOrder == Spec => []NoOvertaking
<1>1. PlacesInv => NoOvertaking BY DEF PlacesInv, Ordered
<1> QED BY <1>1, PlacesInvariant, PTL

-----------------------------------------------------------------------------
(* The room of the active array.  A step that leaves gate, counters and the *)
(* head of the backlog alone makes no room.                                 *)
SameRoom ==
    /\ q'.gate = q.gate /\ q'.count = q.count /\ q'.outstanding = q.outstanding
    /\ q'.frames = q.frames /\ q'.backlogCount = q.backlogCount
    /\ q.backlogCount > 0 => q'.backlog[1].held = q.backlog[1].held
    /\ stale' = stale
    /\ pc \in {"release", "refill"} => pc' \in {"release", "refill"}

(* Such a step keeps the room as it was. *)
LEMMA SameRoomKeeps == ASSUME NoIdleRoom, SameRoom PROVE NoIdleRoom'
BY DEF SameRoom, NoIdleRoom, CanPromote, CywTxActiveFits

(* NoIdleRoom is inductive: an item enters the backlog only when the head   *)
(* of it, or the item itself, does not fit, and what makes room is followed *)
(* by a refill.                                                             *)
LEMMA RoomKept == ASSUME QueueInv, NoIdleRoom, [Next]_vars PROVE NoIdleRoom'
<1>0. /\ QueueOK(q) /\ q.count \in Nat /\ q.backlogCount \in Nat
      /\ q.entries \in [1..q.count -> Item] /\ q.backlog \in [1..q.backlogCount -> Item]
  BY QueueFields DEF QueueInv, TypeOK
<1>1. ASSUME q' = q, stale' = stale, pc \notin {"release", "refill"} PROVE NoIdleRoom'
  BY <1>1, SameRoomKeeps DEF SameRoom
<1>2. ASSUME pc' \in {"release", "refill"} PROVE NoIdleRoom'
  BY <1>2 DEF NoIdleRoom
<1>3. ASSUME q'.gate # Success \/ q'.backlogCount = 0 PROVE NoIdleRoom'
  BY <1>3 DEF NoIdleRoom, CanPromote
<1>4. CASE UNCHANGED vars BY <1>4, SameRoomKeeps DEF vars, SameRoom
<1>5. ASSUME NEW n \in Nbls, Submit(n) PROVE NoIdleRoom'
  <2>1. ASSUME NEW frames, NEW small, NEW id, SubmitPrepare(n, frames, small, id)
        PROVE  NoIdleRoom'
    BY <1>1, <2>1 DEF SubmitPrepare, wvars, NoIdleRoom
  <2>2. CASE SubmitRefuse(n) BY <1>1, <2>2 DEF SubmitRefuse, wvars, NoIdleRoom
  <2>3. CASE SubmitAccept(n)
    <3>1. CASE AdmitActive(q, draft[n]) /\ q' = CywTxActivateLocked(q, Admitted(n))
      <4>1. q'.backlogCount = 0
        BY <1>0, <3>1 DEF AdmitActive, CywTxActivateLocked, QueueOK, Queue
      <4> QED BY <1>3, <4>1
    <3>2. CASE AdmitBacklog(q, draft[n]) /\ q' = CywTxBacklogLocked(q, Admitted(n))
      <4>1. /\ q'.gate = q.gate /\ q'.count = q.count /\ q'.outstanding = q.outstanding
            /\ q'.frames = q.frames /\ q'.backlogCount = q.backlogCount + 1
            /\ q'.backlog = Appended(q.backlog, q.backlogCount, Admitted(n))
        BY <1>0, <3>2 DEF CywTxBacklogLocked, QueueOK, Queue
      <4>2. Admitted(n).held = draft[n].held
        BY DEF Admitted, QueueInv, TypeOK, Item
      <4>3. CASE q.backlogCount = 0
        <5>1. q'.backlog[1].held = draft[n].held BY <4>1, <4>2, <4>3 DEF Appended
        <5>2. ~CywTxActiveFits(q, draft[n].held)
          BY <3>2, <4>3 DEF AdmitBacklog, AdmitActive
        <5>3. ~CywTxActiveFits(q', q'.backlog[1].held)
          BY <4>1, <5>1, <5>2 DEF CywTxActiveFits
        <5> QED BY <5>3 DEF NoIdleRoom, CanPromote
      <4>4. CASE q.backlogCount # 0
        <5>1. q'.backlog[1] = q.backlog[1] BY <1>0, <4>1, <4>4 DEF Appended
        <5>2. CanPromote(q') => CanPromote(q)
          BY <1>0, <4>1, <4>4, <5>1 DEF CanPromote, CywTxActiveFits
        <5> QED BY <2>3, <5>2 DEF SubmitAccept, wvars, NoIdleRoom
      <4> QED BY <4>3, <4>4
    <3> QED BY <2>3, <3>1, <3>2 DEF SubmitAccept
  <2> QED BY <1>5, <2>1, <2>2, <2>3 DEF Submit
<1>6. ASSUME NEW id \in CancelIds, CywTxCancel(id) PROVE NoIdleRoom'
  <2>1. /\ q'.gate = q.gate /\ q'.count = q.count /\ q'.outstanding = q.outstanding
        /\ q'.frames = q.frames /\ q'.backlogCount = q.backlogCount
        /\ q'.backlog = Cancelled(q.backlog, id)
    BY <1>0, <1>6 DEF CywTxCancel, QueueOK, Queue
  <2>2. q.backlogCount > 0 => q'.backlog[1].held = q.backlog[1].held
    <3>1. \A i \in 1..q.backlogCount : Cancelled(q.backlog, id)[i].held = q.backlog[i].held
      <4>1. PICK b \in [1..q.backlogCount -> Item] : b = q.backlog BY <1>0
      <4>2. \A i \in 1..q.backlogCount : Cancelled(b, id)[i].held = b[i].held
        BY <1>0, CancelledOK
      <4> QED BY <4>1, <4>2
    <3> QED BY <1>0, <2>1, <3>1
  <2> QED BY <1>6, <2>1, <2>2, SameRoomKeeps DEF CywTxCancel, wvars, SameRoom
<1>7. ASSUME NEW g \in Gates, CywRefreshTxGate(g) PROVE NoIdleRoom'
  <2>1. q'.gate = g /\ q'.backlogCount = q.backlogCount
    BY <1>0, <1>7 DEF CywRefreshTxGate, CywTxSetGate, QueueOK, Queue
  <2>2. CASE g = Success /\ q.backlogCount > 0
    BY <1>7, <2>2 DEF CywRefreshTxGate, NoIdleRoom
  <2>3. CASE g # Success \/ q.backlogCount = 0 BY <1>3, <2>1, <2>3
  <2> QED BY <1>0, <2>2, <2>3
<1>8. CASE Tick BY <1>8, SameRoomKeeps DEF Tick, wvars, SameRoom
<1>9. CASE Pump
  <2>1. CASE PumpBegin \/ PumpReadClock \/ PumpScanDone \/ PumpEnd \/ TransferBusy
    BY <1>1, <2>1 DEF PumpBegin, PumpReadClock, PumpScanDone, PumpEnd, TransferBusy
  <2>2. ASSUME NEW k, PumpScanActive(k) \/ PumpScanBacklog(k) PROVE NoIdleRoom'
    BY <1>2, <2>2 DEF PumpScanActive, PumpScanBacklog
  <2>3. CASE PumpSelect
    <3>1. CASE stale BY <2>3, <3>1 DEF PumpSelect, NoIdleRoom
    <3>2. CASE ~stale
      <4>1. Selectable = q BY <2>3, <3>2 DEF PumpSelect, NoIdleRoom, Selectable
      <4> QED BY <1>1, <2>3, <4>1 DEF PumpSelect
    <3> QED BY <3>1, <3>2
  <2>4. CASE PumpSelectAborted BY <1>2, <2>4 DEF PumpSelectAborted
  <2>5. CASE TransferDone
    <3>1. CASE pc' = "release" BY <1>2, <3>1
    <3>2. CASE q' = [q EXCEPT !.entries[1] = HeadAfterTransfer]
      <4>1. /\ q'.gate = q.gate /\ q'.count = q.count /\ q'.outstanding = q.outstanding
            /\ q'.frames = q.frames /\ q'.backlogCount = q.backlogCount
            /\ q'.backlog = q.backlog
        BY <1>0, <3>2 DEF QueueOK, Queue
      <4> QED BY <2>5, <4>1, SameRoomKeeps DEF TransferDone, SameRoom
    <3> QED BY <2>5, <3>1, <3>2 DEF TransferDone
  <2>6. ASSUME NEW continue, TransferFailed(continue) PROVE NoIdleRoom'
    BY <1>2, <2>6 DEF TransferFailed
  <2> QED BY <1>9, <2>1, <2>2, <2>3, <2>4, <2>5, <2>6 DEF Pump
<1>10. CASE CywTxFlush
  <2>1. ASSUME NEW g \in Closed, WorkerFlush(g) \/ WorkerExit(g) \/ LifecycleFlush(g)
        PROVE  NoIdleRoom'
    <3>1. q' = [q EXCEPT !.gate = g]
      BY <2>1 DEF WorkerFlush, WorkerExit, LifecycleFlush, FlushBegin, CywTxSetGate
    <3>2. q'.gate = g /\ g # Success
      BY <1>0, <3>1, QueueAssumption DEF QueueOK, Queue, Success
    <3> QED BY <1>3, <3>2
  <2>2. CASE FlushActive \/ FlushBacklog BY <1>2, <2>2 DEF FlushActive, FlushBacklog
  <2>3. CASE FlushDone BY <1>1, <2>3 DEF FlushDone
  <2> QED BY <1>10, <2>1, <2>2, <2>3 DEF CywTxFlush
<1>11. CASE CywTxComplete
  <2>1. CASE CompleteRelease \/ RefillOne
    BY <1>2, <2>1 DEF CompleteRelease, RefillOne, wvars
  <2>2. CASE RefillDone BY <2>2 DEF RefillDone, NoIdleRoom
  <2>3. CASE CompleteIndicate BY <1>1, <2>3 DEF CompleteIndicate
  <2>4. CASE CompleteSettle
    <3>1. /\ q'.gate = q.gate /\ q'.count = q.count /\ q'.outstanding = q.outstanding
          /\ q'.frames = q.frames /\ q'.backlogCount = q.backlogCount
          /\ q'.backlog = q.backlog
      BY <1>0, <2>4 DEF CompleteSettle, QueueOK, Queue
    <3> QED BY <2>4, <3>1, SameRoomKeeps DEF CompleteSettle, SameRoom
  <2> QED BY <1>11, <2>1, <2>2, <2>3, <2>4 DEF CywTxComplete
<1>12. CASE WorkerStart BY <1>1, <1>12 DEF WorkerStart
<1> QED BY <1>4, <1>5, <1>6, <1>7, <1>8, <1>9, <1>10, <1>11, <1>12 DEF Next, Worker

(* NoIdleRoom: outside the lock a backlog waits only because its head does  *)
(* not fit, unless the gate was reopened over it.                           *)
THEOREM BacklogIsRefilled == Spec => []NoIdleRoom
<1>1. Init => NoIdleRoom BY DEF Init, EmptyQueue, NoIdleRoom, CanPromote
<1>2. QueueInv /\ NoIdleRoom /\ [Next]_vars => NoIdleRoom' BY RoomKept
<1> QED BY <1>1, <1>2, QueueInvariant, PTL DEF Spec

-----------------------------------------------------------------------------
(* The refinement of SendFifo. *)

(* What the line of SendFifo is made of. *)
Entries == [nbl : Nbls, left : Nat]

(* The line of a queue: the active array and behind it the backlog. *)
LEMMA LineIs ==
    ASSUME NEW s, QueueOK(s)
    PROVE  /\ s.count \in Nat /\ s.backlogCount \in Nat
           /\ Line(s) \in Seq(Entries) /\ Len(Line(s)) = s.count + s.backlogCount
           /\ \A i \in 1..s.count : Line(s)[i] = Entry(s.entries[i])
           /\ \A i \in 1..s.backlogCount : Line(s)[s.count + i] = Entry(s.backlog[i])
<1>1. /\ s.count \in Nat /\ s.backlogCount \in Nat
      /\ s.entries \in [1..s.count -> Item] /\ s.backlog \in [1..s.backlogCount -> Item]
  BY QueueFields
<1>2. PICK c \in Nat, b \in Nat : c = s.count /\ b = s.backlogCount BY <1>1
<1>3. \A it \in Item : Entry(it) \in Entries BY DEF Entry, Entries, Item
<1>4. \A i \in 1..(c + b) :
         (IF i <= c THEN s.entries[i] ELSE s.backlog[i - c]) \in Item
  BY <1>1, <1>2
<1>5. Line(s) = [i \in 1..(c + b) |-> Entry(IF i <= c THEN s.entries[i] ELSE s.backlog[i - c])]
  BY <1>2 DEF Line
<1>6. Line(s) \in [1..(c + b) -> Entries] BY <1>3, <1>4, <1>5
<1>7. c + b \in Nat OBVIOUS
<1>8. Line(s) \in Seq(Entries) /\ Len(Line(s)) = c + b BY <1>6, <1>7
<1>9. /\ \A i \in 1..c : Line(s)[i] = Entry(s.entries[i])
      /\ \A i \in 1..b : Line(s)[c + i] = Entry(s.backlog[i])
  BY <1>5
<1> QED BY <1>1, <1>2, <1>8, <1>9

(* Two lines are equal when their slots are. *)
LEMMA SameLine ==
    ASSUME NEW s, QueueOK(s), NEW t \in Seq(Entries), Len(t) = s.count + s.backlogCount,
           \A i \in 1..s.count : t[i] = Entry(s.entries[i]),
           \A i \in 1..s.backlogCount : t[s.count + i] = Entry(s.backlog[i])
    PROVE  Line(s) = t
<1>1. /\ s.count \in Nat /\ s.backlogCount \in Nat
      /\ Line(s) \in Seq(Entries) /\ Len(Line(s)) = s.count + s.backlogCount
      /\ \A i \in 1..s.count : Line(s)[i] = Entry(s.entries[i])
      /\ \A i \in 1..s.backlogCount : Line(s)[s.count + i] = Entry(s.backlog[i])
  BY LineIs
<1>2. ASSUME NEW i \in 1..Len(t) PROVE Line(s)[i] = t[i]
  <2>1. CASE i \in 1..s.count BY <1>1, <2>1
  <2>2. CASE i \notin 1..s.count
    <3>1. i - s.count \in 1..s.backlogCount /\ s.count + (i - s.count) = i BY <1>1, <2>2
    <3> QED BY <1>1, <3>1
  <2> QED BY <2>1, <2>2
<1> QED BY <1>1, <1>2, SeqEqual

(* An item that stays where it is has the same entry. *)
LEMMA EntryOfAlike == ASSUME NEW x, NEW y, Alike(x, y) PROVE Entry(x) = Entry(y)
BY DEF Alike, Entry

(* What is in hand. *)
LEMMA LeavingIs ==
    /\ HandStays => Leaving' = Leaving
    /\ Leaves => /\ Leaving = {}
                 /\ Leaving' = {[nbl |-> hand'.nbl,
                                 outcome |-> IF verdict' = Success THEN "sent" ELSE "dropped"]}
BY DEF Leaving, HandStays, Leaves

(* Neither waiting nor a cancellation changes the line, ... *)
LEMMA IdleStutters ==
    ASSUME QueueOK(q), QueueOK(q'), Idles \/ Marks
    PROVE  UNCHANGED Fifo!fifoVars
<1>1. /\ q'.count = q.count /\ q'.backlogCount = q.backlogCount
      /\ \A i \in 1..q.count : Entry(q'.entries[i]) = Entry(q.entries[i])
      /\ \A i \in 1..q.backlogCount : Entry(q'.backlog[i]) = Entry(q.backlog[i])
      /\ HandStays
  BY EntryOfAlike DEF Idles, Marks, EntriesStay, BacklogStays
<1>2. /\ Line(q) \in Seq(Entries) /\ Len(Line(q)) = q.count + q.backlogCount
      /\ \A i \in 1..q.count : Line(q)[i] = Entry(q.entries[i])
      /\ \A i \in 1..q.backlogCount : Line(q)[q.count + i] = Entry(q.backlog[i])
  BY LineIs
<1>3. /\ Len(Line(q)) = q'.count + q'.backlogCount
      /\ \A i \in 1..q'.count : Line(q)[i] = Entry(q'.entries[i])
      /\ \A i \in 1..q'.backlogCount : Line(q)[q'.count + i] = Entry(q'.backlog[i])
  BY <1>1, <1>2
<1>4. Line(q') = Line(q) BY <1>2, <1>3, SameLine
<1> QED BY <1>1, <1>4, LeavingIs DEF Fifo!fifoVars

(* ... nor does a promotion. *)
LEMMA PromotionStutters ==
    ASSUME QueueOK(q), QueueOK(q'), Promotes
    PROVE  UNCHANGED Fifo!fifoVars
<1>0. /\ q.count \in Nat /\ q.backlogCount \in Nat /\ 1 \in 1..q.backlogCount
      /\ q'.count = q.count + 1 /\ q'.backlogCount = q.backlogCount - 1
  BY LineIs DEF Promotes, Grown, Shrunk
<1>1. ASSUME NEW i \in 1..q'.count PROVE Line(q)[i] = Entry(q'.entries[i])
  <2>1. CASE i \in 1..q.count
    <3>1. q'.entries[i] = q.entries[i] BY <2>1 DEF Promotes, Grown
    <3> QED BY <2>1, <3>1, LineIs
  <2>2. CASE i \notin 1..q.count
    <3>1. i = q.count + 1 /\ q'.entries[i] = q.backlog[1] BY <1>0, <2>2 DEF Promotes, Grown
    <3> QED BY <1>0, <3>1, LineIs
  <2> QED BY <2>1, <2>2
<1>2. ASSUME NEW i \in 1..q'.backlogCount PROVE Line(q)[q'.count + i] = Entry(q'.backlog[i])
  <2>1. Before(i, 1) = i + 1 /\ q'.count + i = q.count + (i + 1) /\ i + 1 \in 1..q.backlogCount
    BY <1>0 DEF Before
  <2>2. q'.backlog[i] = q.backlog[i + 1] BY <2>1 DEF Promotes, Shrunk
  <2> QED BY <2>1, <2>2, LineIs
<1>3. Len(Line(q)) = q'.count + q'.backlogCount BY <1>0, LineIs
<1>4. Line(q') = Line(q) BY <1>1, <1>2, <1>3, LineIs, SameLine
<1> QED BY <1>4, LeavingIs DEF Promotes, Fifo!fifoVars

(* An NBL is accepted at the end of the line, by whichever array takes it,  *)
(* and only when it is neither in the line nor leaving.                     *)
LEMMA EnteringAccepts ==
    ASSUME QueueInv, QueueOK(q'), PlacesInv, NEW n \in Nbls, EntersActive(n) \/ EntersBacklog(n)
    PROVE  Fifo!FifoNext
<1>0. /\ QueueOK(q) /\ q.count \in Nat /\ q.backlogCount \in Nat /\ owner[n] = "callback"
      /\ HandStays
  BY LineIs DEF QueueInv, TypeOK, EntersActive, EntersBacklog, Enters
<1> DEFINE f == draft[n].frames
           e == [nbl |-> n, left |-> f]
<1>1. f \in 1..ActiveLimit /\ f \in Nat
  BY <1>0, QueueAssumption DEF PlacesInv, Prepared
<1>2. Entry(Admitted(n)) = e BY AdmittedIs DEF Entry
<1>3. e \in Entries BY <1>1 DEF Entries
<1>4. Line(q) \in Seq(Entries) /\ Len(Line(q)) = q.count + q.backlogCount BY <1>0, LineIs
<1> HIDE DEF e, f
<1>5. /\ Append(Line(q), e) \in Seq(Entries)
      /\ Len(Append(Line(q), e)) = q.count + q.backlogCount + 1
      /\ \A i \in 1..(q.count + q.backlogCount) : Append(Line(q), e)[i] = Line(q)[i]
      /\ Append(Line(q), e)[q.count + q.backlogCount + 1] = e
  BY <1>3, <1>4, AppendProperties
<1>6. Line(q') = Append(Line(q), e)
  <2>1. CASE EntersActive(n)
    <3>1. /\ q.backlogCount = 0 /\ q'.backlogCount = 0 /\ q'.count = q.count + 1
          /\ q'.entries[q.count + 1] = Admitted(n)
          /\ \A i \in 1..q.count : q'.entries[i] = q.entries[i]
      BY <2>1 DEF EntersActive, BacklogStays, Grown
    <3>2. ASSUME NEW i \in 1..q'.count PROVE Append(Line(q), e)[i] = Entry(q'.entries[i])
      <4>1. CASE i \in 1..q.count BY <1>0, <1>5, <3>1, <4>1, LineIs
      <4>2. CASE i = q.count + 1 BY <1>0, <1>2, <1>5, <3>1, <4>2
      <4>3. i \in 1..(q.count + 1) BY <3>1
      <4>4. i \in 1..q.count \/ i = q.count + 1 BY <1>0, <4>3
      <4> QED BY <4>1, <4>2, <4>4
    <3>3. Len(Append(Line(q), e)) = q'.count + q'.backlogCount BY <1>0, <1>5, <3>1
    <3>4. \A i \in 1..q'.backlogCount : Append(Line(q), e)[q'.count + i] = Entry(q'.backlog[i])
      BY <3>1
    <3> QED BY <1>5, <3>2, <3>3, <3>4, SameLine
  <2>2. CASE EntersBacklog(n)
    <3>1. /\ q'.count = q.count /\ q'.entries = q.entries
          /\ q'.backlogCount = q.backlogCount + 1
          /\ q'.backlog[q.backlogCount + 1] = Admitted(n)
          /\ \A i \in 1..q.backlogCount : q'.backlog[i] = q.backlog[i]
      BY <2>2 DEF EntersBacklog, EntriesStay, Grown
    <3>2. \A i \in 1..q'.count : Append(Line(q), e)[i] = Entry(q'.entries[i])
      BY <1>0, <1>5, <3>1, LineIs
    <3>3. ASSUME NEW i \in 1..q'.backlogCount
          PROVE  Append(Line(q), e)[q'.count + i] = Entry(q'.backlog[i])
      <4>1. CASE i \in 1..q.backlogCount
        <5>1. q.count + i \in 1..(q.count + q.backlogCount) BY <1>0, <4>1
        <5> QED BY <1>0, <1>5, <3>1, <4>1, <5>1, LineIs
      <4>2. CASE i = q.backlogCount + 1
        <5>1. q'.count + i = q.count + q.backlogCount + 1 BY <1>0, <3>1, <4>2
        <5> QED BY <1>2, <1>5, <3>1, <4>2, <5>1
      <4>3. i \in 1..(q.backlogCount + 1) BY <3>1
      <4>4. i \in 1..q.backlogCount \/ i = q.backlogCount + 1 BY <1>0, <4>3
      <4> QED BY <4>1, <4>2, <4>4
    <3>4. Len(Append(Line(q), e)) = q'.count + q'.backlogCount BY <1>0, <1>5, <3>1
    <3> QED BY <1>5, <3>2, <3>3, <3>4, SameLine
  <2> QED BY <2>1, <2>2
<1>7. ~Fifo!InLine(n)
  <2> SUFFICES ASSUME NEW i \in 1..Len(Line(q)) PROVE Line(q)[i].nbl # n
    BY DEF Fifo!InLine
  <2>1. \A j \in 1..q.count : q.entries[j].nbl # n BY <1>0 DEF PlacesInv, Owned
  <2>2. \A j \in 1..q.backlogCount : q.backlog[j].nbl # n BY <1>0 DEF PlacesInv, Owned
  <2>3. CASE i \in 1..q.count
    <3>1. Line(q)[i] = Entry(q.entries[i]) BY <1>0, <2>3, LineIs
    <3> QED BY <2>1, <2>3, <3>1 DEF Entry
  <2>4. CASE i \notin 1..q.count
    <3>1. PICK j \in 1..q.backlogCount : i = q.count + j
      <4>1. i - q.count \in 1..q.backlogCount /\ i = q.count + (i - q.count) BY <1>0, <1>4, <2>4
      <4> QED BY <4>1
    <3>2. Line(q)[i] = Entry(q.backlog[j]) BY <1>0, <3>1, LineIs
    <3> QED BY <2>2, <3>2 DEF Entry
  <2> QED BY <2>3, <2>4
<1>8. ~Fifo!InLeaving(n)
  BY <1>0 DEF Fifo!InLeaving, Leaving, PlacesInv, Owned
<1>9. Fifo!Accept(n, f)
  BY <1>0, <1>6, <1>7, <1>8, LeavingIs DEF Fifo!Accept, e
<1> QED BY <1>1, <1>9 DEF Fifo!FifoNext

(* The line without its item k. *)
LEMMA WithoutIs ==
    ASSUME QueueOK(q), NEW k \in 1..Len(Line(q))
    PROVE  /\ Fifo!Without(k) \in Seq(Entries)
           /\ Len(Fifo!Without(k)) = q.count + q.backlogCount - 1
           /\ \A i \in 1..(q.count + q.backlogCount - 1) :
                Before(i, k) \in 1..Len(Line(q)) /\ Fifo!Without(k)[i] = Line(q)[Before(i, k)]
<1>1. PICK m \in Nat : m = Len(Line(q)) /\ m = q.count + q.backlogCount BY LineIs
<1>2. Line(q) \in [1..m -> Entries] BY <1>1, LineIs
<1>3. Fifo!Without(k) = [i \in 1..(m - 1) |-> Line(q)[Before(i, k)]]
  BY <1>1 DEF Fifo!Without, Before
<1>4. \A i \in 1..(m - 1) : Before(i, k) \in 1..m BY <1>1 DEF Before
<1>5. Fifo!Without(k) \in [1..(m - 1) -> Entries] BY <1>2, <1>3, <1>4
<1>6. m - 1 \in Nat BY <1>1
<1>7. Fifo!Without(k) \in Seq(Entries) /\ Len(Fifo!Without(k)) = m - 1 BY <1>5, <1>6
<1>8. \A i \in 1..(m - 1) : Fifo!Without(k)[i] = Line(q)[Before(i, k)] BY <1>3
<1>9. q.count + q.backlogCount - 1 = m - 1 BY <1>1, LineIs
<1> HIDE DEF Fifo!Without
<1> QED BY <1>1, <1>4, <1>7, <1>8, <1>9

(* An item that leaves the active array is the head that has been sent, or  *)
(* is dropped from its place in the line.                                   *)
LEMMA LeavingActive ==
    ASSUME QueueOK(q), QueueOK(q'), NEW k \in 1..q.count, LeavesActive(k)
    PROVE  Fifo!FifoNext
<1>0. /\ q.count \in Nat /\ q.backlogCount \in Nat /\ q'.count = q.count - 1
      /\ q'.backlogCount = q.backlogCount /\ q'.backlog = q.backlog
      /\ Len(Line(q)) = q.count + q.backlogCount
  BY LineIs DEF LeavesActive, BacklogStays, Shrunk
<1>1. k \in 1..Len(Line(q)) BY <1>0
<1>2. Line(q)[k] = Entry(q.entries[k]) BY LineIs
<1>3. Line(q') = Fifo!Without(k)
  <2>1. ASSUME NEW i \in 1..q'.count PROVE Fifo!Without(k)[i] = Entry(q'.entries[i])
    <3>1. Before(i, k) \in 1..q.count /\ q'.entries[i] = q.entries[Before(i, k)]
      BY DEF LeavesActive, Shrunk
    <3>2. i \in 1..(q.count + q.backlogCount - 1) BY <1>0
    <3>3. Fifo!Without(k)[i] = Line(q)[Before(i, k)] BY <1>1, <3>2, WithoutIs
    <3> QED BY <3>1, <3>3, LineIs
  <2>2. ASSUME NEW i \in 1..q'.backlogCount
        PROVE  Fifo!Without(k)[q'.count + i] = Entry(q'.backlog[i])
    <3>1. /\ q'.count + i \in 1..(q.count + q.backlogCount - 1)
          /\ Before(q'.count + i, k) = q.count + i
      BY <1>0 DEF Before
    <3>2. Fifo!Without(k)[q'.count + i] = Line(q)[q.count + i] BY <1>1, <3>1, WithoutIs
    <3> QED BY <1>0, <3>2, LineIs
  <2>3. Len(Fifo!Without(k)) = q'.count + q'.backlogCount BY <1>0, <1>1, WithoutIs
  <2> QED BY <1>1, <2>1, <2>2, <2>3, WithoutIs, SameLine
<1>4. /\ Leaving = {}
      /\ Leaving' = {[nbl |-> Line(q)[k].nbl,
                      outcome |-> IF verdict' = Success THEN "sent" ELSE "dropped"]}
  BY <1>2, LeavingIs DEF LeavesActive, Entry
<1>5. CASE verdict' = Success
  <2>1. k = 1 /\ Line(q)[1].left = 1 BY <1>2, <1>5 DEF LeavesActive, Entry
  <2>2. Line(q) # <<>> BY <1>0
  <2>3. Fifo!Finish BY <1>3, <1>4, <1>5, <2>1, <2>2 DEF Fifo!Finish
  <2> QED BY <2>3 DEF Fifo!FifoNext
<1>6. CASE verdict' # Success
  <2>1. Fifo!Drop(k) BY <1>3, <1>4, <1>6 DEF Fifo!Drop
  <2> QED BY <1>1, <2>1 DEF Fifo!FifoNext
<1> QED BY <1>5, <1>6

(* One that leaves the backlog is dropped. *)
LEMMA LeavingBacklog ==
    ASSUME QueueOK(q), QueueOK(q'), NEW k \in 1..q.backlogCount, LeavesBacklog(k)
    PROVE  Fifo!FifoNext
<1>0. /\ q.count \in Nat /\ q.backlogCount \in Nat /\ q'.count = q.count
      /\ q'.backlogCount = q.backlogCount - 1 /\ q'.entries = q.entries
      /\ Len(Line(q)) = q.count + q.backlogCount
  BY LineIs DEF LeavesBacklog, EntriesStay, Shrunk
<1>1. PICK p \in 1..Len(Line(q)) : p = q.count + k BY <1>0
<1>2. Line(q)[p] = Entry(q.backlog[k]) BY <1>1, LineIs
<1>3. Line(q') = Fifo!Without(p)
  <2>1. ASSUME NEW i \in 1..q'.count PROVE Fifo!Without(p)[i] = Entry(q'.entries[i])
    <3>1. i \in 1..(q.count + q.backlogCount - 1) /\ Before(i, p) = i
      BY <1>0, <1>1 DEF Before
    <3>2. Fifo!Without(p)[i] = Line(q)[i] BY <3>1, WithoutIs
    <3> QED BY <1>0, <3>2, LineIs
  <2>2. ASSUME NEW i \in 1..q'.backlogCount
        PROVE  Fifo!Without(p)[q'.count + i] = Entry(q'.backlog[i])
    <3>1. /\ q'.count + i \in 1..(q.count + q.backlogCount - 1)
          /\ Before(q'.count + i, p) = q.count + Before(i, k)
      BY <1>0, <1>1 DEF Before
    <3>2. Before(i, k) \in 1..q.backlogCount /\ q'.backlog[i] = q.backlog[Before(i, k)]
      BY DEF LeavesBacklog, Shrunk
    <3>3. Fifo!Without(p)[q'.count + i] = Line(q)[q.count + Before(i, k)] BY <3>1, WithoutIs
    <3> QED BY <3>2, <3>3, LineIs
  <2>3. Len(Fifo!Without(p)) = q'.count + q'.backlogCount BY <1>0, WithoutIs
  <2> QED BY <2>1, <2>2, <2>3, WithoutIs, SameLine
<1>4. Leaving = {} /\ Leaving' = {[nbl |-> Line(q)[p].nbl, outcome |-> "dropped"]}
  BY <1>2, LeavingIs DEF LeavesBacklog, Entry
<1>5. Fifo!Drop(p) BY <1>3, <1>4 DEF Fifo!Drop
<1> QED BY <1>5 DEF Fifo!FifoNext

(* A frame of the head goes out and the head stays. *)
LEMMA Transmitting ==
    ASSUME QueueInv, QueueOK(q'), Transmits
    PROVE  Fifo!FifoNext
<1>0. /\ QueueOK(q) /\ q.count \in Nat /\ q.backlogCount \in Nat /\ q'.count = q.count
      /\ q'.backlogCount = q.backlogCount /\ q'.backlog = q.backlog
      /\ Line(q) \in Seq(Entries) /\ Len(Line(q)) = q.count + q.backlogCount
  BY LineIs DEF QueueInv, TypeOK, Transmits, BacklogStays
<1>1. 1 \in 1..q.count /\ 1 \in 1..Len(Line(q)) BY <1>0 DEF Transmits
<1>2. q.entries[1] \in Item BY <1>1, ShapeIs
<1>3. Line(q)[1] = Entry(q.entries[1]) /\ Line(q)[1] \in Entries /\ Line(q)[1].left > 1
  <2>1. Line(q)[1] = Entry(q.entries[1]) BY <1>0, <1>1, LineIs
  <2>2. Line(q)[1] \in Entries BY <1>0, <1>1, ElementOfSeq
  <2> QED BY <2>1, <2>2 DEF Entry, Transmits
<1> DEFINE e == [Line(q)[1] EXCEPT !.left = @ - 1]
           t == [Line(q) EXCEPT ![1] = e]
<1>4. e \in Entries BY <1>3 DEF Entries
<1>5. Entry(q'.entries[1]) = e
  BY <1>2, <1>3 DEF Transmits, Alike, Entry, Item
<1>6. [Line(q) EXCEPT ![1].left = @ - 1] = t OBVIOUS
<1> HIDE DEF e
<1>7. /\ t \in Seq(Entries) /\ Len(t) = q.count + q.backlogCount
      /\ \A i \in 1..(q.count + q.backlogCount) : t[i] = IF i = 1 THEN e ELSE Line(q)[i]
  BY <1>0, <1>1, <1>4, ExceptSeq
<1> HIDE DEF t
<1>8. Line(q') = t
  <2>1. ASSUME NEW i \in 1..q'.count PROVE t[i] = Entry(q'.entries[i])
    <3>1. CASE i = 1 BY <1>0, <1>5, <1>7, <3>1
    <3>2. CASE i # 1
      <4>1. i \in 2..q.count /\ i \in 1..(q.count + q.backlogCount) BY <1>0, <3>2
      <4>2. q'.entries[i] = q.entries[i] BY <4>1 DEF Transmits
      <4> QED BY <1>0, <1>7, <3>2, <4>1, <4>2, LineIs
    <3> QED BY <3>1, <3>2
  <2>2. ASSUME NEW i \in 1..q'.backlogCount PROVE t[q'.count + i] = Entry(q'.backlog[i])
    <3>1. q.count + i \in 1..(q.count + q.backlogCount) /\ q.count + i # 1 BY <1>0, <1>1
    <3> QED BY <1>0, <1>7, <3>1, LineIs
  <2>3. Len(t) = q'.count + q'.backlogCount BY <1>0, <1>7
  <2> QED BY <1>7, <2>1, <2>2, <2>3, SameLine
<1>9. Line(q) # <<>> BY <1>0, <1>1
<1>10. Fifo!Transmit
  BY <1>3, <1>6, <1>8, <1>9, LeavingIs DEF Transmits, Fifo!Transmit
<1> QED BY <1>10 DEF Fifo!FifoNext

(* NDIS gets back the NBL in hand. *)
LEMMA Returning ==
    ASSUME QueueOK(q), QueueOK(q'), Returns
    PROVE  Fifo!FifoNext
<1>1. Line(q') = Line(q) BY DEF Returns, EntriesStay, BacklogStays, Line
<1>2. PICK x : Leaving = {x} BY DEF Returns, Leaving
<1>3. Leaving' = {} BY DEF Returns, Leaving
<1>4. Fifo!Return(x) BY <1>1, <1>2, <1>3 DEF Fifo!Return
<1> QED BY <1>2, <1>4 DEF Fifo!FifoNext

(* ImplementsFifo: the two arrays with their promotions, the lock and the   *)
(* completion protocol are one FIFO line from which only the head is sent   *)
(* and every NBL is given back once.                                        *)
THEOREM QueueIsFifo == Spec => ImplementsFifo
<1>1. Init => Fifo!FifoInit
  <2> SUFFICES ASSUME Init PROVE Fifo!FifoInit
    OBVIOUS
  <2>1. q.count = 0 /\ q.backlogCount = 0 /\ ~InHand BY DEF Init, EmptyQueue, InHand
  <2>2. QueueOK(q) BY InitInv DEF QueueInv, TypeOK
  <2>3. Len(Line(q)) = 0 /\ Line(q) \in Seq(Entries) BY <2>1, <2>2, LineIs
  <2>4. Line(q) = <<>> BY <2>3, EmptySeq
  <2> QED BY <2>1, <2>4 DEF Fifo!FifoInit, Leaving
<1>2. QueueInv /\ QueueInv' /\ PlacesInv /\ [Next]_vars => [Fifo!FifoNext]_(Fifo!fifoVars)
  <2> SUFFICES ASSUME QueueInv, QueueInv', PlacesInv, [Next]_vars
               PROVE  [Fifo!FifoNext]_(Fifo!fifoVars)
    OBVIOUS
  <2>1. QueueOK(q) /\ QueueOK(q') BY DEF QueueInv, TypeOK
  <2>2. Moves BY MovesAre DEF PlacesInv
  <2> QED BY <2>1, <2>2, IdleStutters, PromotionStutters, EnteringAccepts, LeavingActive,
             LeavingBacklog, Transmitting, Returning DEF Moves
<1> QED BY <1>1, <1>2, QueueInvariant, PlacesInvariant, PTL DEF Spec, ImplementsFifo, Fifo!FifoSpec

-----------------------------------------------------------------------------
(* Charges and dates.  `Totals' adds to the running total that it rises,    *)
(* which an array would otherwise have to be told by induction.             *)
Totals(sum, array, count, total) ==
    /\ sum \in [0..count -> 0..total]
    /\ Running(sum, array, count) /\ sum[count] = total
    /\ \A i, j \in 0..count : i <= j => sum[i] <= sum[j]
Rising(array, count, total) == total \in Nat /\ \E sum : Totals(sum, array, count, total)
(* The books of a queue at a time: what it is charged with, and that no     *)
(* item is from the future.                                                 *)
Dated(array, count, time) == \A i \in 1..count : array[i].submitted <= time
Books(s, time) ==
    /\ Rising(s.entries, s.count, s.frames)
    /\ Rising(s.backlog, s.backlogCount, s.backlogFrames)
    /\ Dated(s.entries, s.count, time) /\ Dated(s.backlog, s.backlogCount, time)

(* An item is added at the end: the running total goes on. *)
LEMMA RisingAppended ==
    ASSUME NEW c \in Nat, NEW a, NEW total, Rising(a, c, total), NEW item, item.held \in Nat
    PROVE  Rising(Appended(a, c, item), c + 1, total + item.held)
<1> PICK sum : Totals(sum, a, c, total) BY DEF Rising
<1> DEFINE b == Appended(a, c, item)
           more == [i \in 0..(c + 1) |-> IF i <= c THEN sum[i] ELSE total + item.held]
<1>1. total \in Nat BY DEF Rising
<1>2. /\ sum \in [0..c -> 0..total] /\ sum[0] = 0 /\ sum[c] = total
      /\ \A i \in 1..c : sum[i] = sum[i - 1] + a[i].held
      /\ \A i, j \in 0..c : i <= j => sum[i] <= sum[j]
  BY DEF Totals, Running
<1>3. \A i \in 1..c : b[i] = a[i] BY DEF Appended
<1>4. b[c + 1] = item BY DEF Appended
<1>5. /\ \A i \in 0..c : more[i] = sum[i] /\ sum[i] \in 0..total
      /\ more[c + 1] = total + item.held
  BY <1>2
<1>6. more \in [0..(c + 1) -> 0..(total + item.held)]
  BY <1>1, <1>2
<1> HIDE DEF more, b
<1>7. \A i \in 1..(c + 1) : more[i] = more[i - 1] + b[i].held
  <2> TAKE i \in 1..(c + 1)
  <2>1. CASE i \in 1..c
    <3>1. i - 1 \in 0..c /\ i \in 0..c BY <2>1
    <3> QED BY <1>2, <1>3, <1>5, <2>1, <3>1
  <2>2. CASE i = c + 1 BY <1>2, <1>4, <1>5, <2>2
  <2> QED BY <2>1, <2>2
<1>8. \A i, j \in 0..(c + 1) : i <= j => more[i] <= more[j]
  <2> TAKE i, j \in 0..(c + 1)
  <2>1. CASE j \in 0..c /\ i \in 0..c BY <1>2, <1>5, <2>1
  <2>2. CASE j = c + 1 /\ i \in 0..c
    BY <1>1, <1>5, <2>2
  <2>3. CASE i = c + 1 /\ j = c + 1 BY <1>1, <1>5, <2>3
  <2> QED BY <2>1, <2>2, <2>3
<1>9. more[0] = 0 BY <1>2, <1>5
<1>10. Totals(more, b, c + 1, total + item.held)
  BY <1>5, <1>6, <1>7, <1>8, <1>9 DEF Totals, Running
<1> QED BY <1>1, <1>10 DEF Rising, b

(* An item is taken out: what follows it is lowered by what it held. *)
LEMMA RisingShift ==
    ASSUME NEW c \in Nat, NEW a, NEW total, Rising(a, c, total), NEW k \in 1..c,
           \A i \in 1..c : a[i].held \in Nat
    PROVE  Rising(Shift(a, c, k), c - 1, total - a[k].held)
<1> PICK sum : Totals(sum, a, c, total) BY DEF Rising
<1> DEFINE b == Shift(a, c, k)
           h == a[k].held
           less == [i \in 0..(c - 1) |-> IF i < k THEN sum[i] ELSE sum[i + 1] - h]
<1>1. total \in Nat /\ h \in Nat /\ c \in Nat /\ k \in 1..c BY DEF Rising
<1>2. /\ sum \in [0..c -> 0..total] /\ sum[0] = 0 /\ sum[c] = total
      /\ \A i \in 1..c : sum[i] = sum[i - 1] + a[i].held
      /\ \A i, j \in 0..c : i <= j => sum[i] <= sum[j]
  BY DEF Totals, Running
<1>3. /\ \A i \in 1..(c - 1) : i < k => b[i] = a[i]
      /\ \A i \in 1..(c - 1) : i >= k => b[i] = a[i + 1]
  BY <1>1 DEF Shift
<1>4. less \in [0..(c - 1) -> Int]
      /\ \A i \in 0..(c - 1) : less[i] = IF i < k THEN sum[i] ELSE sum[i + 1] - h
  BY <1>1, <1>2
<1>5. sum[k] = sum[k - 1] + h BY <1>2
<1> HIDE DEF less, b, h
<1>6. \A i \in 0..c : sum[i] \in Nat /\ sum[i] <= total BY <1>1, <1>2
<1>7. \A i \in 1..(c - 1) : less[i] = less[i - 1] + b[i].held
  <2> TAKE i \in 1..(c - 1)
  <2>0. i - 1 \in 0..(c - 1) /\ i \in 0..(c - 1) /\ i \in 1..c /\ i + 1 \in 1..c
    BY <1>1
  <2>1. CASE i < k
    <3>1. less[i] = sum[i] /\ less[i - 1] = sum[i - 1] BY <1>1, <1>4, <2>0, <2>1
    <3> QED BY <1>2, <1>3, <2>0, <2>1, <3>1
  <2>2. CASE i = k
    <3>1. less[i] = sum[k + 1] - h /\ less[i - 1] = sum[k - 1] BY <1>1, <1>4, <2>0, <2>2
    <3>2. sum[k + 1] = sum[(k + 1) - 1] + a[k + 1].held BY <1>2, <2>0, <2>2
    <3>3. b[i] = a[k + 1] /\ (k + 1) - 1 = k BY <1>1, <1>3, <2>2
    <3>4. sum[k] \in Nat /\ sum[k - 1] \in Nat /\ sum[k + 1] \in Nat BY <1>1, <1>6, <2>0, <2>2
    <3>5. a[k + 1].held \in Nat BY <2>0, <2>2
    <3> QED BY <1>1, <1>5, <3>1, <3>2, <3>3, <3>4, <3>5
  <2>3. CASE i > k
    <3>1. less[i] = sum[i + 1] - h /\ less[i - 1] = sum[i] - h
      <4>1. ~(i < k) /\ ~(i - 1 < k) /\ (i - 1) + 1 = i BY <1>1, <2>3
      <4> QED BY <1>4, <2>0, <4>1
    <3>2. sum[i + 1] = sum[i] + a[i + 1].held
      <4>1. (i + 1) - 1 = i BY <2>0
      <4> QED BY <1>2, <2>0, <4>1
    <3>3. b[i] = a[i + 1] /\ a[i + 1].held \in Nat BY <1>1, <1>3, <2>0, <2>3
    <3>4. sum[i] \in Nat /\ sum[i + 1] \in Nat BY <1>6, <2>0
    <3> QED BY <1>1, <3>1, <3>2, <3>3, <3>4
  <2> QED BY <1>1, <2>1, <2>2, <2>3
<1>8. \A i, j \in 0..(c - 1) : i <= j => less[i] <= less[j]
  <2> SUFFICES ASSUME NEW i \in 0..(c - 1), NEW j \in 0..(c - 1), i <= j
               PROVE  less[i] <= less[j]
    OBVIOUS
  <2>0. /\ i \in 0..c /\ j \in 0..c /\ i + 1 \in 0..c /\ j + 1 \in 0..c
        /\ k \in 0..c /\ k - 1 \in 0..c
    BY <1>1
  <2>1. CASE j < k
    <3>1. less[i] = sum[i] /\ less[j] = sum[j] BY <1>1, <1>4, <2>1
    <3> QED BY <1>2, <2>0, <3>1
  <2>2. CASE i >= k
    <3>1. sum[i + 1] <= sum[j + 1] BY <1>2, <2>0
    <3> QED BY <1>1, <1>4, <1>6, <2>0, <2>2, <3>1
  <2>3. CASE i < k /\ j >= k
    <3>1. sum[i] <= sum[k - 1] /\ sum[k] <= sum[j + 1] BY <1>1, <1>2, <2>0, <2>3
    <3> QED BY <1>1, <1>4, <1>5, <1>6, <2>0, <2>3, <3>1
  <2> QED BY <1>1, <2>1, <2>2, <2>3
<1>9. less[0] = 0 BY <1>1, <1>2, <1>4
<1>10. less[c - 1] = total - h
  <2>1. CASE k = c BY <1>1, <1>2, <1>4, <1>5, <1>6, <2>1
  <2>2. CASE k < c
    <3>1. less[c - 1] = sum[(c - 1) + 1] - h BY <1>1, <1>4, <2>2
    <3>2. (c - 1) + 1 = c BY <1>1
    <3> QED BY <1>2, <3>1, <3>2
  <2> QED BY <1>1, <2>1, <2>2
<1>11. \A i \in 0..(c - 1) : less[i] \in 0..(total - h)
  <2> TAKE i \in 0..(c - 1)
  <2>1. less[0] <= less[i] /\ less[i] <= less[c - 1] BY <1>1, <1>8
  <2> QED BY <1>1, <1>4, <1>9, <1>10, <2>1
<1>12. total - h \in Nat
  <2>1. less[0] <= less[c - 1] BY <1>1, <1>8
  <2> QED BY <1>1, <1>9, <1>10, <2>1
<1>13. less \in [0..(c - 1) -> 0..(total - h)] BY <1>4, <1>11
<1>14. Totals(less, b, c - 1, total - h)
  BY <1>7, <1>8, <1>9, <1>10, <1>13 DEF Totals, Running
<1> QED BY <1>12, <1>14 DEF Rising, b, h

(* What is held decides the total. *)
LEMMA RisingSame ==
    ASSUME NEW c \in Nat, NEW a, NEW b, NEW total, Rising(a, c, total),
           \A i \in 1..c : b[i].held = a[i].held
    PROVE  Rising(b, c, total)
BY DEF Rising, Totals, Running


(* Each way the code changes a queue keeps its books. *)
LEMMA BooksActivate ==
    ASSUME NEW s, QueueOK(s), NEW time, Books(s, time), NEW item \in Item, item.submitted <= time
    PROVE  /\ Books(CywTxActivateLocked(s, item), time)
           /\ Books(CywTxBacklogLocked(s, item), time)
<1>0. s.count \in Nat /\ s.backlogCount \in Nat /\ item.held \in Nat BY DEF QueueOK, Queue, Item
<1>1. \A a, c : c \in Nat /\ Dated(a, c, time) => Dated(Appended(a, c, item), c + 1, time)
  BY DEF Dated, Appended
<1>2. ASSUME NEW t, t = CywTxActivateLocked(s, item) PROVE Books(t, time)
  <2>1. /\ t.entries = Appended(s.entries, s.count, item) /\ t.count = s.count + 1
        /\ t.frames = s.frames + item.held
        /\ t.backlogCount = s.backlogCount /\ t.backlog = s.backlog
        /\ t.backlogFrames = s.backlogFrames
    BY <1>2 DEF CywTxActivateLocked, QueueOK, Queue
  <2> QED BY <1>0, <1>1, <2>1, RisingAppended DEF Books
<1>3. ASSUME NEW t, t = CywTxBacklogLocked(s, item) PROVE Books(t, time)
  <2>1. /\ t.backlog = Appended(s.backlog, s.backlogCount, item)
        /\ t.backlogCount = s.backlogCount + 1 /\ t.backlogFrames = s.backlogFrames + item.held
        /\ t.count = s.count /\ t.entries = s.entries /\ t.frames = s.frames
    BY <1>3 DEF CywTxBacklogLocked, QueueOK, Queue
  <2> QED BY <1>0, <1>1, <2>1, RisingAppended DEF Books
<1> QED BY <1>2, <1>3

(* Removal from either array. *)
LEMMA BooksRemove ==
    ASSUME NEW s, QueueOK(s), NEW time, Books(s, time)
    PROVE  /\ \A k \in 1..s.count : Books(CywTxRemove(s, k), time)
           /\ \A k \in 1..s.backlogCount : /\ Books(BacklogWithout(s, k), time)
                                            /\ Books(CywTxBacklogRemove(s, k), time)
<1>0. /\ s.count \in Nat /\ s.backlogCount \in Nat
      /\ s.entries \in [1..s.count -> Item] /\ s.backlog \in [1..s.backlogCount -> Item]
  BY QueueFields
<1>1. \A a, c, k : c \in Nat /\ k \in 1..c /\ Dated(a, c, time)
                     => Dated(Shift(a, c, k), c - 1, time)
  BY DEF Dated, Shift
<1>2. /\ \A i \in 1..s.count : s.entries[i].held \in Nat
      /\ \A i \in 1..s.backlogCount : s.backlog[i].held \in Nat
  BY <1>0 DEF Item
<1>3. ASSUME NEW k \in 1..s.count, NEW t, t = CywTxRemove(s, k) PROVE Books(t, time)
  <2>1. /\ t.count = s.count - 1 /\ t.entries = Shift(s.entries, s.count, k)
        /\ t.frames = s.frames - s.entries[k].held
        /\ t.backlogCount = s.backlogCount /\ t.backlog = s.backlog
        /\ t.backlogFrames = s.backlogFrames
    BY <1>3 DEF CywTxRemove, QueueOK, Queue
  <2> QED BY <1>0, <1>1, <1>2, <2>1, RisingShift DEF Books
<1>4. ASSUME NEW k \in 1..s.backlogCount, NEW t,
             t = BacklogWithout(s, k) \/ t = CywTxBacklogRemove(s, k)
      PROVE  Books(t, time)
  <2>1. /\ t.backlogCount = s.backlogCount - 1 /\ t.backlog = Shift(s.backlog, s.backlogCount, k)
        /\ t.backlogFrames = s.backlogFrames - s.backlog[k].held
        /\ t.count = s.count /\ t.entries = s.entries /\ t.frames = s.frames
    BY <1>4 DEF CywTxBacklogRemove, BacklogWithout, QueueOK, Queue
  <2> QED BY <1>0, <1>1, <1>2, <2>1, RisingShift DEF Books
<1> QED BY <1>3, <1>4

(* A promotion moves a charge. *)
LEMMA BooksPromote ==
    ASSUME NEW s, QueueOK(s), NEW time, Books(s, time), CanPromote(s)
    PROVE  Books(CywTxPromoteOneLocked(s), time)
<1>0. /\ s.count \in Nat /\ s.backlogCount \in Nat
      /\ s.backlog \in [1..s.backlogCount -> Item]
  BY QueueFields
<1>1. 1 \in 1..s.backlogCount BY <1>0 DEF CanPromote
<1>2. s.backlog[1] \in Item /\ s.backlog[1].submitted <= time BY <1>0, <1>1 DEF Books, Dated
<1>3. QueueOK(BacklogWithout(s, 1)) /\ Books(BacklogWithout(s, 1), time)
  BY <1>0, <1>1, BacklogWithoutOK, BooksRemove
<1> QED BY <1>2, <1>3, BooksActivate DEF CywTxPromoteOneLocked

(* Changes that leave arrays and charges alone, slot by slot. *)
LEMMA BooksSame ==
    ASSUME NEW s, QueueOK(s), NEW time \in Nat, Books(s, time), NEW later \in Nat,
           time <= later, NEW t,
           t.count = s.count, t.frames = s.frames,
           t.backlogCount = s.backlogCount, t.backlogFrames = s.backlogFrames,
           \A i \in 1..s.count : /\ t.entries[i].held = s.entries[i].held
                                 /\ t.entries[i].submitted = s.entries[i].submitted,
           \A i \in 1..s.backlogCount : /\ t.backlog[i].held = s.backlog[i].held
                                        /\ t.backlog[i].submitted = s.backlog[i].submitted
    PROVE  Books(t, later)
<1>0. /\ s.count \in Nat /\ s.backlogCount \in Nat
      /\ s.entries \in [1..s.count -> Item] /\ s.backlog \in [1..s.backlogCount -> Item]
  BY QueueFields
<1>1. Rising(t.entries, t.count, t.frames) /\ Rising(t.backlog, t.backlogCount, t.backlogFrames)
  BY <1>0, RisingSame DEF Books
<1>2. /\ \A i \in 1..s.count : s.entries[i].submitted \in Nat
      /\ \A i \in 1..s.backlogCount : s.backlog[i].submitted \in Nat
  BY <1>0 DEF Item
<1>3. Dated(t.entries, t.count, later) /\ Dated(t.backlog, t.backlogCount, later)
  BY <1>2 DEF Books, Dated
<1> QED BY <1>1, <1>3 DEF Books

(* The invariant of the books: charges, dates, and what an expiry knows.    *)
(* Draft and hand are dated too.                                            *)
Expired == InHand /\ verdict = Failure /\ ret = "clock"
BooksInv ==
    /\ Books(q, clock)
    /\ now <= clock /\ clock <= MaxClock
    /\ \A n \in Nbls : draft[n].submitted <= clock
    /\ Expired => hand.submitted > now \/ now - hand.submitted >= MaxAge

(* An expiry of the cleanup is old, or sent after the cleanup read its clock. *)
LEMMA ExpiryIs ==
    ASSUME NEW s, s.gate \in Gates, NEW item \in Item, item.submitted <= MaxClock,
           now \in Nat, now <= MaxClock, CywTxAbortStatus(s, item, now) = Failure
    PROVE  item.submitted > now \/ now - item.submitted >= MaxAge
<1>1. (now - item.submitted) % ClockSpan >= MaxAge
  BY QueueAssumption DEF CywTxAbortStatus, Gates, Success, Aborted, Failure
<1>2. CASE item.submitted <= now
  <2>1. now - item.submitted \in 0..(ClockSpan - 1) BY <1>2, QueueAssumption DEF Item
  <2>2. \A x \in 0..(ClockSpan - 1) : x % ClockSpan = x BY QueueAssumption
  <2> QED BY <1>1, <2>1, <2>2
<1> QED BY <1>2 DEF Item


(* Sends, cancellations, gate changes and the clock. *)
LEMMA BooksOutside ==
    ASSUME QueueInv, BooksInv,
           \/ \E n \in Nbls : Submit(n)
           \/ \E id \in CancelIds : CywTxCancel(id)
           \/ \E g \in Gates : CywRefreshTxGate(g)
           \/ Tick
    PROVE  BooksInv'
<1> USE DEF wvars, Expired, InHand
<1>0. /\ QueueOK(q) /\ q.count \in Nat /\ q.backlogCount \in Nat /\ clock \in Nat /\ now \in Nat
      /\ q.entries \in [1..q.count -> Item] /\ q.backlog \in [1..q.backlogCount -> Item]
      /\ draft \in [Nbls -> Item]
  BY QueueFields DEF QueueInv, TypeOK
<1>1. \A n \in Nbls : NoItem(n).submitted = 0 BY DEF NoItem
<1>2. ASSUME NEW n \in Nbls, NEW frames, NEW small, NEW id, SubmitPrepare(n, frames, small, id)
      PROVE  BooksInv'
  <2>1. \A m \in Nbls : draft'[m].submitted <= clock
    BY <1>0, <1>2 DEF SubmitPrepare, BooksInv
  <2> QED BY <1>2, <2>1 DEF SubmitPrepare, BooksInv
<1>3. ASSUME NEW n \in Nbls, SubmitAccept(n) PROVE BooksInv'
  <2>1. \A m \in Nbls : draft'[m].submitted <= clock
    BY <1>0, <1>1, <1>3 DEF SubmitAccept, BooksInv
  <2>2. Admitted(n) \in Item /\ Admitted(n).submitted <= clock
    <3>1. draft[n] \in Item /\ ticket \in Nat BY DEF QueueInv, TypeOK
    <3>2. Admitted(n) \in Item BY <3>1, ItemMake DEF Admitted, Item
    <3>3. Admitted(n).submitted = draft[n].submitted BY <3>1 DEF Admitted, Item
    <3> QED BY <3>2, <3>3 DEF BooksInv
  <2>3. Books(q', clock)
    BY <1>0, <1>3, <2>2, BooksActivate DEF SubmitAccept, BooksInv
  <2> QED BY <1>3, <2>1, <2>3 DEF SubmitAccept, BooksInv
<1>4. ASSUME NEW n \in Nbls, SubmitRefuse(n) PROVE BooksInv'
  <2>1. \A m \in Nbls : draft'[m].submitted <= clock
    BY <1>0, <1>1, <1>4 DEF SubmitRefuse, BooksInv
  <2> QED BY <1>4, <2>1 DEF SubmitRefuse, BooksInv
<1>5. ASSUME NEW id \in CancelIds, CywTxCancel(id) PROVE BooksInv'
  <2>1. /\ q'.count = q.count /\ q'.entries = Cancelled(q.entries, id) /\ q'.frames = q.frames
        /\ q'.backlogCount = q.backlogCount /\ q'.backlog = Cancelled(q.backlog, id)
        /\ q'.backlogFrames = q.backlogFrames
    BY <1>0, <1>5 DEF CywTxCancel, QueueOK, Queue
  <2>2. \A c \in Nat : \A a \in [1..c -> Item] : \A i \in 1..c :
          /\ Cancelled(a, id)[i].held = a[i].held
          /\ Cancelled(a, id)[i].submitted = a[i].submitted
    <3> TAKE c \in Nat
    <3> TAKE a \in [1..c -> Item]
    <3> TAKE i \in 1..c
    <3>1. a[i] \in Item OBVIOUS
    <3>2. Cancelled(a, id)[i] =
            IF a[i].cancelId = id THEN [a[i] EXCEPT !.cancelled = TRUE] ELSE a[i]
      BY DEF Cancelled
    <3> QED BY <3>1, <3>2 DEF Item
  <2>3. /\ \A i \in 1..q.count : /\ q'.entries[i].held = q.entries[i].held
                                 /\ q'.entries[i].submitted = q.entries[i].submitted
        /\ \A i \in 1..q.backlogCount : /\ q'.backlog[i].held = q.backlog[i].held
                                        /\ q'.backlog[i].submitted = q.backlog[i].submitted
    BY <1>0, <2>1, <2>2
  <2>4. clock <= clock BY <1>0
  <2>5. Books(q', clock) BY <1>0, <2>1, <2>3, <2>4, BooksSame DEF BooksInv
  <2> QED BY <1>5, <2>5 DEF CywTxCancel, BooksInv
<1>6. ASSUME NEW g \in Gates, CywRefreshTxGate(g) PROVE BooksInv'
  <2>1. /\ q'.count = q.count /\ q'.entries = q.entries /\ q'.frames = q.frames
        /\ q'.backlogCount = q.backlogCount /\ q'.backlog = q.backlog
        /\ q'.backlogFrames = q.backlogFrames
    BY <1>0, <1>6 DEF CywRefreshTxGate, CywTxSetGate, QueueOK, Queue
  <2>2. Books(q', clock) BY <2>1 DEF BooksInv, Books
  <2> QED BY <1>6, <2>2 DEF CywRefreshTxGate, BooksInv
<1>7. CASE Tick
  <2>1. Books(q, clock + 1) BY <1>0, BooksSame DEF BooksInv
  <2>2. clock + 1 <= MaxClock /\ now <= clock + 1
    BY <1>0, <1>7, QueueAssumption DEF Tick, BooksInv
  <2>3. \A n \in Nbls : draft[n].submitted <= clock + 1
    <3>1. \A n \in Nbls : draft[n].submitted \in Nat BY <1>0 DEF Item
    <3>2. \A n \in Nbls : draft[n].submitted <= clock BY DEF BooksInv
    <3>3. clock \in Nat BY <1>0
    <3> TAKE n \in Nbls
    <3>4. draft[n].submitted \in Nat /\ draft[n].submitted <= clock BY <3>1, <3>2
    <3> QED BY <3>3, <3>4
  <2> QED BY <1>7, <2>1, <2>2, <2>3 DEF Tick, BooksInv
<1> QED BY <1>2, <1>3, <1>4, <1>5, <1>6, <1>7 DEF Submit

(* The pump. *)
LEMMA BooksPump == ASSUME QueueInv, BooksInv, Pump PROVE BooksInv'
<1> USE DEF Expired, InHand
<1>0. /\ QueueOK(q) /\ q.gate \in Gates /\ q.count \in Nat /\ q.backlogCount \in Nat
      /\ clock \in Nat /\ now \in Nat
      /\ q.entries \in [1..q.count -> Item] /\ q.backlog \in [1..q.backlogCount -> Item]
  BY QueueFields DEF QueueInv, TypeOK
<1>1. /\ \A i \in 1..q.count : q.entries[i].submitted <= MaxClock
      /\ \A i \in 1..q.backlogCount : q.backlog[i].submitted <= MaxClock
  <2>1. /\ \A i \in 1..q.count : q.entries[i].submitted \in Nat
        /\ \A i \in 1..q.backlogCount : q.backlog[i].submitted \in Nat
    BY <1>0 DEF Item
  <2> QED BY <1>0, <2>1, QueueAssumption DEF BooksInv, Books, Dated
<1>2. CASE PumpBegin \/ PumpReadClock \/ PumpScanDone \/ PumpEnd \/ TransferBusy
  BY <1>0, <1>2 DEF PumpBegin, PumpReadClock, PumpScanDone, PumpEnd, TransferBusy, BooksInv
<1>3. ASSUME NEW k \in 1..q.count, PumpScanActive(k) PROVE BooksInv'
  <2>1. Books(q', clock) BY <1>0, <1>3, BooksRemove DEF PumpScanActive, BooksInv
  <2>2. now <= MaxClock BY <1>0, QueueAssumption DEF BooksInv
  <2>3. verdict' = Failure => hand'.submitted > now \/ now - hand'.submitted >= MaxAge
    BY <1>0, <1>1, <1>3, <2>2, ExpiryIs DEF PumpScanActive, TakeInHand
  <2> QED BY <1>3, <2>1, <2>3 DEF PumpScanActive, BooksInv
<1>4. ASSUME NEW k \in 1..q.backlogCount, PumpScanBacklog(k) PROVE BooksInv'
  <2>1. Books(q', clock) BY <1>0, <1>4, BooksRemove DEF PumpScanBacklog, BooksInv
  <2>2. now <= MaxClock BY <1>0, QueueAssumption DEF BooksInv
  <2>3. verdict' = Failure => hand'.submitted > now \/ now - hand'.submitted >= MaxAge
    BY <1>0, <1>1, <1>4, <2>2, ExpiryIs DEF PumpScanBacklog, TakeInHand
  <2> QED BY <1>4, <2>1, <2>3 DEF PumpScanBacklog, BooksInv
<1>5. pc = "select" => QueueOK(Selectable) /\ Books(Selectable, clock)
  BY <1>0, SteadyNow, PromoteSteady, BooksPromote DEF Selectable, Steady, BooksInv
<1>6. CASE PumpSelect BY <1>5, <1>6 DEF PumpSelect, BooksInv
<1>7. CASE PumpSelectAborted
  <2>1. 1 \in 1..Selectable.count BY <1>5, <1>7 DEF PumpSelectAborted, QueueOK, Queue
  <2>2. Books(q', clock) BY <1>5, <1>7, <2>1, BooksRemove DEF PumpSelectAborted
  <2> QED BY <1>7, <2>2 DEF PumpSelectAborted, TakeInHand, BooksInv
<1>8. CASE TransferDone
  <2> DEFINE h == HeadAfterTransfer
             e == [q.entries EXCEPT ![1] = h]
             kept == [q EXCEPT !.entries[1] = h]
  <2>1. 1 \in 1..q.count /\ q.entries[1] \in Item /\ q.entries[1].frames > 0
    BY <1>0, <1>8 DEF TransferDone, QueueInv, Control
  <2>2. /\ h \in Item /\ h.held = q.entries[1].held /\ h.submitted = q.entries[1].submitted
    <3>1. q.entries[1].frames - 1 \in Nat BY <2>1 DEF Item
    <3>2. (IF q.entries[1].cancelled THEN q.entries[1].late + 1 ELSE q.entries[1].late) \in Nat
      BY <2>1 DEF Item
    <3>3. h \in Item BY <2>1, <3>1, <3>2, ItemMake DEF HeadAfterTransfer
    <3>4. h.held = q.entries[1].held /\ h.submitted = q.entries[1].submitted
      BY <2>1 DEF HeadAfterTransfer, Item
    <3> QED BY <3>3, <3>4
  <2>3. e \in [1..q.count -> Item] BY <1>0, <2>2
  <2>4. kept = [q EXCEPT !.entries = e] OBVIOUS
  <2>5. /\ q' = kept \/ q' = CywTxRemove(kept, 1)
        /\ Expired' => Expired /\ UNCHANGED hand
    BY <1>8 DEF TransferDone, TakeInHand
  <2> HIDE DEF h, e, kept
  <2>6. kept = [gate |-> q.gate, count |-> q.count, frames |-> q.frames,
                outstanding |-> q.outstanding, completing |-> q.completing,
                entries |-> e, backlogCount |-> q.backlogCount,
                backlogFrames |-> q.backlogFrames, backlog |-> q.backlog]
    BY <1>0, <2>4 DEF QueueOK, Queue
  <2>7. QueueOK(kept) BY <1>0, <2>3, <2>6, QueueFields, QueueMake
  <2>8. Books(kept, clock)
    <3>1. \A i \in 1..q.count : /\ kept.entries[i].held = q.entries[i].held
                               /\ kept.entries[i].submitted = q.entries[i].submitted
      BY <1>0, <2>1, <2>2, <2>6 DEF e
    <3>2. clock <= clock BY <1>0
    <3> QED BY <1>0, <2>6, <3>1, <3>2, BooksSame DEF BooksInv
  <2>9. Books(q', clock) BY <2>1, <2>5, <2>6, <2>7, <2>8, BooksRemove
  <2> QED BY <1>8, <2>5, <2>9 DEF TransferDone, BooksInv
<1>9. ASSUME NEW continue \in {"idle", "failed"}, TransferFailed(continue) PROVE BooksInv'
  <2>1. 1 \in 1..q.count BY <1>0, <1>9 DEF TransferFailed, QueueInv, Control
  <2>2. Books(q', clock) BY <1>0, <1>9, <2>1, BooksRemove DEF TransferFailed, BooksInv
  <2> QED BY <1>9, <2>2 DEF TransferFailed, TakeInHand, BooksInv
<1> QED BY <1>2, <1>3, <1>4, <1>6, <1>7, <1>8, <1>9 DEF Pump

(* Flushes and completions. *)
LEMMA BooksRest ==
    ASSUME QueueInv, BooksInv, Flushing, CywTxFlush \/ CywTxComplete \/ WorkerStart
    PROVE  BooksInv'
<1> USE DEF Expired, InHand
<1>0. /\ QueueOK(q) /\ q.count \in Nat /\ q.backlogCount \in Nat /\ clock \in Nat
      /\ q.entries \in [1..q.count -> Item] /\ q.backlog \in [1..q.backlogCount -> Item]
  BY QueueFields DEF QueueInv, TypeOK
<1>1. ASSUME q'.count = q.count /\ q'.entries = q.entries /\ q'.frames = q.frames,
             /\ q'.backlogCount = q.backlogCount /\ q'.backlog = q.backlog
             /\ q'.backlogFrames = q.backlogFrames,
             UNCHANGED <<draft, clock, now>>,
             Expired' => Expired /\ UNCHANGED hand
      PROVE  BooksInv'
  BY <1>1 DEF BooksInv, Books
<1>2. ASSUME NEW g \in Closed, WorkerFlush(g) \/ WorkerExit(g) \/ LifecycleFlush(g)
      PROVE  BooksInv'
  BY <1>0, <1>1, <1>2
     DEF WorkerFlush, WorkerExit, LifecycleFlush, FlushBegin, CywTxSetGate, QueueOK, Queue
<1>3. CASE FlushActive
  <2>1. 1 \in 1..q.count BY <1>0, <1>3 DEF FlushActive
  <2>2. Books(q', clock) BY <1>0, <1>3, <2>1, BooksRemove DEF FlushActive, BooksInv
  <2> QED BY <1>3, <2>2 DEF FlushActive, BooksInv, Flushing
<1>4. CASE FlushBacklog
  <2>1. 1 \in 1..q.backlogCount BY <1>0, <1>4 DEF FlushBacklog
  <2>2. Books(q', clock) BY <1>0, <1>4, <2>1, BooksRemove DEF FlushBacklog, BooksInv
  <2> QED BY <1>4, <2>2 DEF FlushBacklog, BooksInv, Flushing
<1>5. CASE FlushDone \/ WorkerStart \/ RefillDone \/ CompleteIndicate
  BY <1>1, <1>5 DEF FlushDone, WorkerStart, RefillDone, CompleteIndicate, QueueInv, TypeOK
<1>6. CASE CompleteRelease \/ CompleteSettle
  BY <1>0, <1>1, <1>6 DEF CompleteRelease, CompleteSettle, QueueInv, TypeOK, QueueOK, Queue
<1>7. CASE RefillOne
  <2>1. Books(q', clock) BY <1>0, <1>7, BooksPromote DEF RefillOne, BooksInv
  <2> QED BY <1>7, <2>1 DEF RefillOne, BooksInv, wvars
<1> QED BY <1>2, <1>3, <1>4, <1>5, <1>6, <1>7 DEF CywTxFlush, CywTxComplete

(* The books are kept by every step. *)
LEMMA BooksKept ==
    ASSUME QueueInv, Flushing, BooksInv, [Next]_vars
    PROVE  BooksInv'
<1>1. CASE UNCHANGED vars BY <1>1 DEF vars, BooksInv, Expired, InHand
<1> QED BY <1>1, BooksOutside, BooksPump, BooksRest DEF Next, Worker

(* An empty queue owes nothing. *)
LEMMA BooksInit == Init => BooksInv
<1> SUFFICES ASSUME Init PROVE BooksInv OBVIOUS
<1>1. /\ q.count = 0 /\ q.frames = 0 /\ q.backlogCount = 0 /\ q.backlogFrames = 0
  BY DEF Init, EmptyQueue
<1>2. \A a : Rising(a, 0, 0)
  <2> TAKE a
  <2> DEFINE zero == [i \in 0..0 |-> 0]
  <2>1. zero \in [0..0 -> 0..0] /\ zero[0] = 0 OBVIOUS
  <2>2. Totals(zero, a, 0, 0) BY <2>1 DEF Totals, Running
  <2> QED BY <2>2 DEF Rising
<1>3. Books(q, clock) BY <1>1, <1>2 DEF Books, Dated
<1>4. \A n \in Nbls : draft[n].submitted = 0 BY DEF Init, NoItem
<1> QED BY <1>3, <1>4, QueueAssumption DEF Init, BooksInv, Expired, InHand

(* The books are right in every reachable state. *)
THEOREM BooksInvariant == Spec => []BooksInv
<1>1. QueueInv /\ Flushing /\ BooksInv /\ [Next]_vars => BooksInv' BY BooksKept
<1>2. PlacesInv => Flushing BY DEF PlacesInv
<1> QED BY <1>1, <1>2, BooksInit, QueueInvariant, PlacesInvariant, PTL DEF Spec

(* Frames and BacklogFrames are exactly what the arrays hold, for every     *)
(* number of NBLs and frames: CywTxRemove, CywTxBacklogLocked and the       *)
(* promotions neither leak a charge nor count one twice.                    *)
THEOREM ChargesAreExact == Spec => []ChargesExact
<1>1. BooksInv => ChargesExact
  BY DEF BooksInv, Books, Rising, Totals, ChargesExact, Charged
<1> QED BY <1>1, BooksInvariant, PTL

(* The only NBL failed before its time is one sent after the pump had read  *)
(* its clock: whatever the cleanup of CywTxPump fails for its age, and was  *)
(* sent no later than that reading, is CYW_TX_MAX_AGE old.                  *)
ExpiryIsTimely == Expired /\ hand.submitted <= now => clock - hand.submitted >= MaxAge

(* So the unsigned wrap of Now - Submitted is the only false expiry. *)
THEOREM OnlyTheWrapExpiresEarly == Spec => []ExpiryIsTimely
<1>1. QueueInv /\ BooksInv => ExpiryIsTimely
  <2> SUFFICES ASSUME QueueInv, BooksInv, Expired, hand.submitted <= now
               PROVE  clock - hand.submitted >= MaxAge
    BY DEF ExpiryIsTimely
  <2>1. hand.submitted \in Nat /\ now \in Nat /\ clock \in Nat
    BY DEF QueueInv, TypeOK, Item, Nothing, NoItem
  <2> QED BY <2>1, QueueAssumption DEF BooksInv
<1> QED BY <1>1, QueueInvariant, BooksInvariant, PTL

-----------------------------------------------------------------------------
(* How much work is left.  CywTxPump and a flush for good (CywWorker's exit,*)
(* CywNetworkStop, CywNetworkPower) are loops over a queue that others fill,*)
(* cancel and close meanwhile.  Turns bounds the rounds left of the loop    *)
(* the worker is in, Steps the steps left of its round.  (A flush on a      *)
(* pause may see the gate reopened and is not bounded so.)                  *)
Resting == {"idle", "failed", "exited"}
Completing == {"release", "refill", "indicate", "settle"}
Loop ==
    IF pc \in Completing THEN ret
    ELSE IF pc = "scan" THEN "clock"
    ELSE IF pc = "transfer" THEN "select" ELSE pc
Turns ==
    IF Loop = "clock" THEN scans + Budget + 2
    ELSE IF Loop = "select" THEN Budget - sent + 1
    ELSE IF Loop = "flush" THEN q.count + q.backlogCount ELSE 0
Steps ==
    IF pc = "release" THEN BacklogLimit + 6
    ELSE IF pc = "refill" THEN q.backlogCount + 5
    ELSE IF pc = "indicate" THEN 4
    ELSE IF pc = "settle" THEN 3
    ELSE IF pc \in {"clock", "select", "flush"} THEN 2 ELSE 1
Turning == pc \notin Resting /\ (Loop = "flush" => goal = "exited")
MaxTurns == ActiveLimit + BacklogLimit + Budget + 2
MaxSteps == BacklogLimit + 6

(* Each loop has a bounded rank ... *)
LoopsBounded == Turning => Turns \in 0..MaxTurns /\ Steps \in 0..MaxSteps

(* ... that every step of the worker lowers and no one else's touches: the  *)
(* worker is back after at most (MaxTurns + 1) * (MaxSteps + 1) steps of    *)
(* its own, whatever NDIS submits and cancels meanwhile.                    *)
Advances ==
    Turning =>
      /\ Worker => \/ pc' \in Resting
                   \/ Turning' /\ (Turns' < Turns \/ (Turns' = Turns /\ Steps' < Steps))
      /\ ~Worker => Turning' /\ Turns' = Turns /\ Steps' = Steps

(* What the ranks rest on: the budgets are never overrun, and the gate of a *)
(* worker that goes for good stays closed.                                  *)
LoopInv ==
    /\ Loop = "clock" => scans \in 0..(ActiveLimit + BacklogLimit)
    /\ pc = "scan" => scans > 0
    /\ Loop = "select" => sent <= Budget
    /\ pc = "transfer" => sent < Budget
    /\ Loop # "select" => sent = 0
    /\ goal = "exited" => q.gate # Success /\ (pc = "exited" \/ Loop = "flush")


(* The ranks are natural numbers within their bounds. *)
LEMMA RanksBounded == ASSUME QueueInv, LoopInv PROVE LoopsBounded
<1>0. /\ q.count \in Nat /\ q.count <= ActiveLimit
      /\ q.backlogCount \in Nat /\ q.backlogCount <= BacklogLimit
      /\ sent \in Nat /\ ActiveLimit \in Nat /\ BacklogLimit \in Nat /\ Budget \in Nat
  BY QueueFields, QueueAssumption DEF QueueInv, TypeOK
<1>1. Turns \in 0..MaxTurns
  BY <1>0 DEF LoopInv, Turns, MaxTurns
<1>2. Steps \in 0..MaxSteps
  BY <1>0 DEF Steps, MaxSteps
<1> QED BY <1>1, <1>2 DEF LoopsBounded

(* A step that leaves the worker's variables, the gate of a worker that     *)
(* goes and, while it counts, the size of the queue alone.                  *)
LEMMA OutsideTurns ==
    ASSUME LoopInv, UNCHANGED <<pc, ret, goal, sent, scans>>,
           goal = "exited" => q'.gate # Success,
           goal = "exited" => q'.count = q.count /\ q'.backlogCount = q.backlogCount,
           pc = "refill" => q' = q
    PROVE  LoopInv' /\ (Turning => Turning' /\ Turns' = Turns /\ Steps' = Steps)
<1>1. Loop' = Loop BY DEF Loop, Completing
<1>2. LoopInv' BY <1>1 DEF LoopInv, Completing
<1>3. Turning' <=> Turning BY <1>1 DEF Turning
<1>4. Steps' = Steps BY DEF Steps
<1>5. Turning => Turns' = Turns BY <1>1 DEF Turns, Turning
<1> QED BY <1>2, <1>3, <1>4, <1>5

(* Sends, cancellations, gate changes and the clock are such steps. *)
LEMMA OutsideAdvances ==
    ASSUME QueueInv, LoopInv, [Next]_vars, ~Worker
    PROVE  LoopInv' /\ (Turning => Turning' /\ Turns' = Turns /\ Steps' = Steps)
<1> USE DEF wvars, Unlocked
<1>0. QueueOK(q) /\ q.gate \in Gates BY QueueFields DEF QueueInv, TypeOK
<1>1. goal = "exited" => q.gate # Success BY DEF LoopInv
<1>2. ASSUME NEW n \in Nbls, Submit(n)
      PROVE  LoopInv' /\ (Turning => Turning' /\ Turns' = Turns /\ Steps' = Steps)
  <2>1. CASE SubmitAccept(n)
    <3>1. q.gate = Success BY <2>1 DEF SubmitAccept, AdmitActive, AdmitBacklog
    <3>2. goal # "exited" BY <1>1, <3>1
    <3> QED BY <2>1, <3>2, OutsideTurns DEF SubmitAccept
  <2>2. CASE SubmitRefuse(n) BY <1>1, <2>2, OutsideTurns DEF SubmitRefuse
  <2>3. ASSUME NEW frames, NEW small, NEW id, SubmitPrepare(n, frames, small, id)
        PROVE  LoopInv' /\ (Turning => Turning' /\ Turns' = Turns /\ Steps' = Steps)
    BY <1>1, <2>3, OutsideTurns DEF SubmitPrepare
  <2> QED BY <1>2, <2>1, <2>2, <2>3 DEF Submit
<1>3. ASSUME NEW id \in CancelIds, CywTxCancel(id)
      PROVE  LoopInv' /\ (Turning => Turning' /\ Turns' = Turns /\ Steps' = Steps)
  <2>1. q'.gate = q.gate /\ q'.count = q.count /\ q'.backlogCount = q.backlogCount
    BY <1>0, <1>3 DEF CywTxCancel, QueueOK, Queue
  <2> QED BY <1>1, <1>3, <2>1, OutsideTurns DEF CywTxCancel
<1>4. ASSUME NEW g \in Gates, CywRefreshTxGate(g)
      PROVE  LoopInv' /\ (Turning => Turning' /\ Turns' = Turns /\ Steps' = Steps)
  <2>1. q'.gate = g /\ q'.count = q.count /\ q'.backlogCount = q.backlogCount
    BY <1>0, <1>4 DEF CywRefreshTxGate, CywTxSetGate, QueueOK, Queue
  <2>2. goal = "exited" => g # Success BY <1>4 DEF CywRefreshTxGate, Exiting
  <2> QED BY <1>4, <2>1, <2>2, OutsideTurns DEF CywRefreshTxGate
<1>5. CASE Tick BY <1>1, <1>5, OutsideTurns DEF Tick
<1>6. CASE WorkerStart
  <2>1. pc = "exited" /\ pc' = "idle" /\ goal' = "idle" /\ sent' = sent BY <1>6 DEF WorkerStart
  <2> QED BY <2>1 DEF LoopInv, Loop, Completing, Turning, Resting
<1>7. CASE UNCHANGED vars BY <1>1, <1>7, OutsideTurns DEF vars
<1> QED BY <1>2, <1>3, <1>4, <1>5, <1>6, <1>7 DEF Next

(* What the worker's step does to the ranks. *)
Lowers == pc' \in Resting
            \/ (Turning' /\ (Turns' < Turns \/ (Turns' = Turns /\ Steps' < Steps)))

(* The pump: a scan, a transfer and an early end each cost a turn. *)
LEMMA PumpAdvances ==
    ASSUME QueueInv, QueueInv', LoopInv, Pump
    PROVE  LoopInv' /\ (Turning => Lowers)
<1>0. /\ sent \in Nat /\ scans \in Int /\ ActiveLimit \in Nat /\ BacklogLimit \in Nat
      /\ Budget \in Nat /\ Budget > 0
  BY QueueAssumption DEF QueueInv, TypeOK
<1>1. pc \in {"idle", "clock", "scan", "select", "transfer"}
  BY DEF Pump, PumpBegin, PumpReadClock, PumpScanActive, PumpScanBacklog, PumpScanDone, PumpSelect,
         PumpSelectAborted, PumpEnd, TransferBusy, TransferDone, TransferFailed
<1>2. goal = "idle" /\ goal' = goal
  <2>1. goal' = goal
    BY DEF Pump, PumpBegin, PumpReadClock, PumpScanActive, PumpScanBacklog, PumpScanDone,
           PumpSelect, PumpSelectAborted, PumpEnd, TransferBusy, TransferDone, TransferFailed
  <2>2. goal \in {"idle", "exited"} BY DEF QueueInv, TypeOK
  <2> QED BY <1>1, <2>1, <2>2 DEF LoopInv, Loop, Completing
<1> USE <1>0, <1>2 DEF LoopInv, Loop, Completing, Turns, Steps, Turning, Resting, Lowers, TakeInHand
<1>3. CASE PumpBegin BY <1>3 DEF PumpBegin
<1>4. CASE PumpReadClock BY <1>4 DEF PumpReadClock
<1>5. ASSUME NEW k \in 1..q.count, PumpScanActive(k) PROVE LoopInv' /\ (Turning => Lowers)
  BY <1>5 DEF PumpScanActive
<1>6. ASSUME NEW k \in 1..q.backlogCount, PumpScanBacklog(k)
      PROVE  LoopInv' /\ (Turning => Lowers)
  BY <1>6 DEF PumpScanBacklog
<1>7. CASE PumpScanDone BY <1>7 DEF PumpScanDone
<1>8. CASE PumpSelect BY <1>8 DEF PumpSelect
<1>9. CASE PumpSelectAborted BY <1>9 DEF PumpSelectAborted
<1>10. CASE PumpEnd \/ TransferBusy BY <1>10 DEF PumpEnd, TransferBusy
<1>11. CASE TransferDone BY <1>11 DEF TransferDone
<1>12. ASSUME NEW continue \in {"idle", "failed"}, TransferFailed(continue)
       PROVE  LoopInv' /\ (Turning => Lowers)
  BY <1>12 DEF TransferFailed
<1> QED
  BY <1>3, <1>4, <1>5, <1>6, <1>7, <1>8, <1>9, <1>10, <1>11, <1>12 DEF Pump

(* A flush for good: each removal costs a turn, and nothing comes in. *)
LEMMA FlushAdvances ==
    ASSUME QueueInv, Flushing, LoopInv, CywTxFlush
    PROVE  LoopInv' /\ (Turning => Lowers)
<1>0. /\ QueueOK(q) /\ q.count \in Nat /\ q.backlogCount \in Nat /\ sent \in Nat
      /\ goal \in {"idle", "exited"}
  BY QueueFields DEF QueueInv, TypeOK
<1> USE <1>0 DEF Flushing, LoopInv, Loop, Completing, Turns, Steps, Turning, Resting, Lowers
<1>1. ASSUME NEW g \in Closed, WorkerFlush(g) \/ WorkerExit(g) \/ LifecycleFlush(g)
      PROVE  LoopInv' /\ (Turning => Lowers)
  <2>1. /\ q'.gate = g /\ pc \in Resting /\ pc' = "flush" /\ ret' = "flush" /\ sent' = sent
    BY <1>1 DEF WorkerFlush, WorkerExit, LifecycleFlush, FlushBegin, CywTxSetGate, QueueOK, Queue
  <2>2. g # Success BY QueueAssumption DEF Success
  <2> QED BY <2>1, <2>2
<1>2. CASE FlushActive
  <2>1. q'.gate = q.gate /\ q'.count = q.count - 1 /\ q'.backlogCount = q.backlogCount
    BY <1>2 DEF FlushActive, CywTxRemove, QueueOK, Queue
  <2> QED BY <1>2, <2>1 DEF FlushActive
<1>3. CASE FlushBacklog
  <2>1. q'.gate = q.gate /\ q'.count = q.count /\ q'.backlogCount = q.backlogCount - 1
    BY <1>3 DEF FlushBacklog, CywTxBacklogRemove, BacklogWithout, QueueOK, Queue
  <2> QED BY <1>3, <2>1 DEF FlushBacklog
<1>4. CASE FlushDone BY <1>4 DEF FlushDone
<1> QED BY <1>1, <1>2, <1>3, <1>4 DEF CywTxFlush

(* Completing an item takes a bounded number of steps of the same turn. *)
LEMMA CompleteAdvances ==
    ASSUME QueueInv, Flushing, LoopInv, CywTxComplete
    PROVE  LoopInv' /\ (Turning => Lowers)
<1>0. /\ QueueOK(q) /\ q.count \in Nat /\ q.backlogCount \in Nat /\ sent \in Nat
      /\ q.backlogCount <= BacklogLimit /\ BacklogLimit \in Nat /\ Budget \in Nat
      /\ scans \in Int /\ ret \in {"idle", "clock", "select", "failed", "flush"}
  BY QueueFields, QueueAssumption DEF QueueInv, TypeOK
<1> USE <1>0 DEF Flushing, LoopInv, Loop, Completing, Turns, Steps, Turning, Resting, Lowers
<1>1. CASE CompleteRelease
  <2>1. q'.gate = q.gate /\ q'.count = q.count /\ q'.backlogCount = q.backlogCount
    BY <1>1 DEF CompleteRelease, QueueOK, Queue
  <2> QED BY <1>1, <2>1 DEF CompleteRelease
<1>2. CASE RefillOne
  <2>1. /\ q'.gate = q.gate /\ q'.count = q.count + 1 /\ q'.backlogCount = q.backlogCount - 1
        /\ q.gate = Success
    BY <1>2 DEF RefillOne, CanPromote, CywTxPromoteOneLocked, CywTxActivateLocked, BacklogWithout,
                QueueOK, Queue
  <2> QED BY <1>2, <2>1 DEF RefillOne, wvars
<1>3. CASE RefillDone \/ CompleteIndicate BY <1>3 DEF RefillDone, CompleteIndicate
<1>4. CASE CompleteSettle
  <2>1. q'.gate = q.gate /\ q'.count = q.count /\ q'.backlogCount = q.backlogCount
    BY <1>4 DEF CompleteSettle, QueueOK, Queue
  <2> QED BY <1>4, <2>1 DEF CompleteSettle
<1> QED BY <1>1, <1>2, <1>3, <1>4 DEF CywTxComplete

(* The loops keep their budgets. *)
THEOREM LoopInvariant == Spec => []LoopInv
<1>1. Init => LoopInv BY DEF Init, LoopInv, Loop, Completing
<1>2. QueueInv /\ QueueInv' /\ PlacesInv /\ LoopInv /\ [Next]_vars => LoopInv'
  BY OutsideAdvances, PumpAdvances, FlushAdvances, CompleteAdvances DEF Worker, PlacesInv
<1> QED BY <1>1, <1>2, QueueInvariant, PlacesInvariant, PTL DEF Spec

(* So the work left in a pump or in the last flush is bounded ... *)
THEOREM WorkIsBounded == Spec => []LoopsBounded
<1>1. QueueInv /\ LoopInv => LoopsBounded BY RanksBounded
<1> QED BY <1>1, QueueInvariant, LoopInvariant, PTL

(* ... and every step of the worker leaves less of it. *)
THEOREM WorkGetsDone == Spec => [][Advances]_vars
<1>1. QueueInv /\ QueueInv' /\ PlacesInv /\ LoopInv /\ [Next]_vars => [Advances]_vars
  <2> SUFFICES ASSUME QueueInv, QueueInv', PlacesInv, LoopInv, [Next]_vars, Turning
               PROVE  /\ Worker => Lowers
                      /\ ~Worker => Turning' /\ Turns' = Turns /\ Steps' = Steps
    BY DEF Advances, Lowers
  <2> QED
    BY OutsideAdvances, PumpAdvances, FlushAdvances, CompleteAdvances DEF Worker, PlacesInv
<1> QED BY <1>1, QueueInvariant, PlacesInvariant, LoopInvariant, PTL DEF Spec
=============================================================================
