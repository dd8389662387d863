------------------------------- MODULE TxQueue -------------------------------
(***************************************************************************)
(* The bounded queue of pending NET_BUFFER_LISTs (NBLs) of                 *)
(* src/src/cyw43455/tx_queue.h, with the NDIS send and cancel callbacks    *)
(* that fill it and the one PASSIVE bus worker that empties it.            *)
(*                                                                         *)
(* Every region the code runs under Q->Lock is one action, except the      *)
(* refill loop `while(CywTxPromoteOneLocked(A,Q)) {}', which is one action *)
(* per iteration at a control point where the worker holds the lock and    *)
(* nobody else moves.  The worker's work between two locked regions (an    *)
(* SDIO transfer, the call to NdisMSendNetBufferListsComplete) is a        *)
(* control point where sends, cancellations, gate changes and the clock    *)
(* interleave.                                                             *)
(*                                                                         *)
(* Byte counters, statistics and packet contents are left out: no branch   *)
(* of the code depends on them.  The build modelled is the default one     *)
(* (RPI5CYW_TX_ADAPTIVE_HYBRID = 1, RPI5CYW_TX_GLOM2 = 0); how a burst     *)
(* shares one F1 service read belongs to Sdpcm.                            *)
(***************************************************************************)
EXTENDS Integers, Sequences

CONSTANTS
    Nbls,           \* the NBLs NDIS owns and may send, again and again
    NoNbl,          \* the null NBL pointer
    CancelIds,      \* the cancel ids NDIS stamps on NBLs
    ActiveLimit,    \* CYW_TX_LIMIT: frames and NBLs in the active array
    BacklogLimit,   \* CYW_TX_BACKLOG_LIMIT: the same for the backlog
    Budget,         \* frames one pump may transfer
    Closed,         \* the statuses that close the gate
    NbCounts,       \* the numbers of NET_BUFFERs an NBL may carry
    MaxAge,         \* CYW_TX_MAX_AGE, in clock ticks
    ClockSpan,      \* the ages are ULONG64: they wrap at ClockSpan (2^64)
    MaxClock,       \* bound on the clock, for model checking only
    LastSubmit,     \* bound on the time of a send, for model checking only
    MaxTickets      \* bound on admissions, for model checking only

ASSUME QueueAssumption ==
    /\ NoNbl \notin Nbls
    /\ CancelIds # {}
    /\ ActiveLimit \in Nat \ {0}
    /\ BacklogLimit \in Nat \ {0}
    /\ Budget \in Nat \ {0}
    /\ Closed # {} /\ Closed \cap {"SUCCESS", "SEND_ABORTED", "FAILURE"} = {}
    /\ NbCounts \subseteq Nat
    /\ MaxAge \in Nat \ {0}
    /\ MaxClock \in Nat /\ LastSubmit \in Nat
    /\ ClockSpan \in Nat /\ ClockSpan > MaxClock + MaxAge
    /\ MaxTickets \in Nat

VARIABLES
    q,          \* CYW_TX_STATE: the queue behind Q->Lock
    owner,      \* who owns each NBL: NDIS, a send callback, or the miniport
    draft,      \* the CYW_PENDING_SEND each send callback has prepared
    pc,         \* control point of the bus worker
    hand,       \* the item the worker has removed and not yet given back
    verdict,    \* the NDIS status that item is completed with
    ret,        \* where the worker continues after a completion
    goal,       \* where the worker continues after a flush
    sent,       \* frames transferred by the current pump (*Sent)
    scans,      \* cleanup iterations left in the current pump
    now,        \* the time CywTxPump read before it took the lock
    clock,      \* KeQueryInterruptTime()
    ticket,     \* history: number of NBLs admitted so far
    stale       \* history: the gate reopened over a backlog nobody promoted

vars == <<q, owner, draft, pc, hand, verdict, ret, goal, sent, scans, now,
          clock, ticket, stale>>
wvars == <<pc, hand, verdict, ret, goal, sent, scans, now>>

-----------------------------------------------------------------------------
(* The values of NDIS_STATUS that reach the gate or an NBL.  The code       *)
(* closes the gate with PAUSED, MEDIA_DISCONNECTED and LOW_POWER_STATE; the *)
(* queue only hands the value on.                                           *)
Success == "SUCCESS"
Gates   == {Success} \cup Closed
Aborted == "SEND_ABORTED"
Failure == "FAILURE"
Verdicts == Gates \cup {Aborted, Failure}

(* CYW_PENDING_SEND.  `frames' are still to be sent, `held' were admitted   *)
(* and stay charged until the NBL completes.  `small' abstracts             *)
(* MaxFrameLength <= RPI5CYW_TX_ADAPTIVE_SMALL_MAX.  `ticket' and `late'    *)
(* are history: the admission order, and the frames transferred after the   *)
(* cancellation.                                                            *)
Item == [nbl : Nbls, cancelId : CancelIds, small : BOOLEAN,
         frames : Nat, held : Nat, cancelled : BOOLEAN, submitted : Nat,
         ticket : Nat, late : Nat]

(* What stands in a local variable of the code that is dead. *)
NoItem(n) == [nbl |-> n, cancelId |-> CHOOSE c \in CancelIds : TRUE,
              small |-> TRUE, frames |-> 0, held |-> 0, cancelled |-> FALSE,
              submitted |-> 0, ticket |-> 0, late |-> 0]

Nothing == NoItem(NoNbl)

(* CYW_TX_STATE as CywNetworkInitialize leaves it.  The arrays Entries[]    *)
(* and Backlog[] are functions on their used slots, counted from 1; the     *)
(* slots the code zeroes are outside the domain.                            *)
NoSlots == [i \in 1..0 |-> i]
EmptyQueue ==
    [gate |-> CHOOSE g \in Closed : TRUE, count |-> 0, frames |-> 0, outstanding |-> 0,
     completing |-> 0, entries |-> NoSlots,
     backlogCount |-> 0, backlogFrames |-> 0, backlog |-> NoSlots]

CywTxOutstanding == q.outstanding + q.backlogCount + q.completing

CywTxSetGate(s, g) == [s EXCEPT !.gate = g]

(* Mutant: the frame budget is not tested. *)
ActiveFitsByCount(s, frames) ==
    s.outstanding < ActiveLimit /\ s.count < ActiveLimit

CywTxActiveFits(s, frames) ==
    /\ s.outstanding < ActiveLimit
    /\ s.count < ActiveLimit
    /\ s.frames <= ActiveLimit - frames

CywTxBacklogFits(s, frames) ==
    /\ s.backlogCount < BacklogLimit
    /\ s.backlogFrames <= BacklogLimit - frames

Appended(array, count, item) ==
    [i \in 1..(count + 1) |-> IF i <= count THEN array[i] ELSE item]

(* Mutant: the shift starts one slot late. *)
ShiftLate(array, count, k) ==
    [i \in 1..(count - 1) |-> IF i <= k THEN array[i] ELSE array[i + 1]]

(* Closing the gap left by slot k, as the shifting loops of the code do. *)
Shift(array, count, k) ==
    [i \in 1..(count - 1) |-> IF i < k THEN array[i] ELSE array[i + 1]]

CywTxActivateLocked(s, item) ==
    [s EXCEPT !.count = @ + 1,
              !.frames = @ + item.held,
              !.outstanding = @ + 1,
              !.entries = Appended(s.entries, s.count, item)]

CywTxBacklogLocked(s, item) ==
    [s EXCEPT !.backlogCount = @ + 1,
              !.backlogFrames = @ + item.held,
              !.backlog = Appended(s.backlog, s.backlogCount, item)]

(* Mutant: the frames left are released instead of the frames held. *)
RemoveByFramesLeft(s, k) ==
    [s EXCEPT !.count = @ - 1,
              !.frames = @ - s.entries[k].frames,
              !.entries = Shift(s.entries, s.count, k)]

(* CywTxRemove leaves Outstanding charged: CywTxComplete releases it. *)
CywTxRemove(s, k) ==
    [s EXCEPT !.count = @ - 1,
              !.frames = @ - s.entries[k].held,
              !.entries = Shift(s.entries, s.count, k)]

(* What leaves slot k of the backlog, for the active array or for good. *)
BacklogWithout(s, k) ==
    [s EXCEPT !.backlogCount = @ - 1,
              !.backlogFrames = @ - s.backlog[k].held,
              !.backlog = Shift(s.backlog, s.backlogCount, k)]

(* Mutant: the charge is not moved to Completing. *)
BacklogRemoveUncharged(s, k) == BacklogWithout(s, k)

(* CywTxBacklogRemove up to its refill loop: the charge moves from          *)
(* BacklogCount to Completing.                                              *)
CywTxBacklogRemove(s, k) == [BacklogWithout(s, k) EXCEPT !.completing = @ + 1]

(* What CywTxPromoteOneLocked tests, and what it does when the test holds. *)
CanPromote(s) ==
    /\ s.gate = Success
    /\ s.backlogCount > 0
    /\ CywTxActiveFits(s, s.backlog[1].held)

(* Mutant: the youngest item of the backlog is promoted. *)
PromoteLast(s) ==
    CywTxActivateLocked(BacklogWithout(s, s.backlogCount), s.backlog[s.backlogCount])

CywTxPromoteOneLocked(s) ==
    CywTxActivateLocked(BacklogWithout(s, 1), s.backlog[1])

(* Mutant: cancellation is not looked at. *)
AbortStatusNoCancel(s, item, time) ==
    IF s.gate # Success THEN s.gate
    ELSE IF (time - item.submitted) % ClockSpan >= MaxAge THEN Failure
    ELSE Success

(* Now - Submitted is computed in ULONG64. *)
CywTxAbortStatus(s, item, time) ==
    IF s.gate # Success THEN s.gate
    ELSE IF item.cancelled THEN Aborted
    ELSE IF (time - item.submitted) % ClockSpan >= MaxAge THEN Failure
    ELSE Success

(* The slots of the active array, and of the backlog, that must be aborted. *)
AbortedActive(s, time) ==
    {i \in 1..s.count : CywTxAbortStatus(s, s.entries[i], time) # Success}
(* Mutant: the cleanup loop looks at the active array only. *)
NoAbortedBacklog(s, time) == {}
AbortedBacklog(s, time) ==
    {i \in 1..s.backlogCount : CywTxAbortStatus(s, s.backlog[i], time) # Success}
IsFirst(i, S) == i \in S /\ \A j \in S : i <= j

(* Q->Lock is held by the worker across the iterations of the refill loop. *)
Unlocked == pc # "refill"
-----------------------------------------------------------------------------
(* The send callback, one instance per NBL NDIS hands down. *)

(* CywTxSubmitWithBacklog up to its second lock: the early gate test and    *)
(* CywTxPrepare.  An empty or oversized NBL is refused, and an NBL refused  *)
(* is handed back by CywDispatchSendChain at once, so NDIS still owns it.   *)
SubmitPrepare(n, frames, small, cancelId) ==
    /\ Unlocked
    /\ owner[n] = "ndis"
    /\ q.gate = Success
    /\ frames > 0 /\ frames <= ActiveLimit
    /\ clock <= LastSubmit
    /\ owner' = [owner EXCEPT ![n] = "callback"]
    /\ draft' = [draft EXCEPT ![n] =
                   [nbl |-> n, cancelId |-> cancelId, small |-> small,
                    frames |-> frames, held |-> frames,
                    cancelled |-> FALSE, submitted |-> clock,
                    ticket |-> 0, late |-> 0]]
    /\ UNCHANGED <<q, clock, ticket, stale, wvars>>

(* Whether the locked half of CywTxSubmitWithBacklog takes the item into    *)
(* the active array, into the backlog, or refuses it.                       *)
AdmitActive(s, item) ==
    s.gate = Success /\ s.backlogCount = 0 /\ CywTxActiveFits(s, item.held)
AdmitBacklog(s, item) ==
    /\ s.gate = Success
    /\ ~AdmitActive(s, item)
    /\ item.small
    /\ CywTxBacklogFits(s, item.held)

Admitted(n) == [draft[n] EXCEPT !.ticket = ticket]

SubmitAccept(n) ==
    /\ Unlocked
    /\ owner[n] = "callback"
    /\ ticket < MaxTickets
    /\ \/ AdmitActive(q, draft[n]) /\ q' = CywTxActivateLocked(q, Admitted(n))
       \/ AdmitBacklog(q, draft[n]) /\ q' = CywTxBacklogLocked(q, Admitted(n))
    /\ ticket' = ticket + 1
    /\ owner' = [owner EXCEPT ![n] = "miniport"]
    /\ draft' = [draft EXCEPT ![n] = NoItem(n)]
    /\ UNCHANGED <<clock, stale, wvars>>

(* A closed gate, a full queue, or a bulk NBL that would have to wait. *)
SubmitRefuse(n) ==
    /\ Unlocked
    /\ owner[n] = "callback"
    /\ ~AdmitActive(q, draft[n])
    /\ ~AdmitBacklog(q, draft[n])
    /\ owner' = [owner EXCEPT ![n] = "ndis"]
    /\ draft' = [draft EXCEPT ![n] = NoItem(n)]
    /\ UNCHANGED <<q, clock, ticket, stale, wvars>>

Cancelled(array, id) ==
    [i \in DOMAIN array |->
       IF array[i].cancelId = id THEN [array[i] EXCEPT !.cancelled = TRUE]
                                 ELSE array[i]]

CywTxCancel(id) ==
    /\ Unlocked
    /\ q' = [q EXCEPT !.entries = Cancelled(@, id), !.backlog = Cancelled(@, id)]
    /\ UNCHANGED <<owner, draft, clock, ticket, stale, wvars>>

(* KeQueryInterruptTime() advances. *)
Tick ==
    /\ clock < MaxClock
    /\ clock' = clock + 1
    /\ UNCHANGED <<q, owner, draft, ticket, stale, wvars>>

(* CywRefreshTxGate, called from NDIS pause, restart and power callbacks    *)
(* and from the worker's own link events.  It cannot open the gate of a     *)
(* worker that is exiting: N->Ready is FALSE by then.                       *)
Exiting == pc = "exited" \/ goal = "exited"
CywRefreshTxGate(g) ==
    /\ Unlocked
    /\ g # q.gate
    /\ Exiting => g # Success
    /\ q' = CywTxSetGate(q, g)
    /\ stale' = (stale \/ (g = Success /\ q.backlogCount > 0))
    /\ UNCHANGED <<owner, draft, clock, ticket, wvars>>
-----------------------------------------------------------------------------
(* The worker: pump, flush and completion. *)

(* The worker keeps an item it has taken out of the queue. *)
TakeInHand(item, status, continue) ==
    /\ hand' = item
    /\ verdict' = status
    /\ ret' = continue

PumpBegin ==
    /\ pc = "idle"
    /\ pc' = "clock"
    /\ scans' = ActiveLimit + BacklogLimit
    /\ UNCHANGED <<q, owner, draft, hand, verdict, ret, goal, sent, now, clock,
                   ticket, stale>>

(* First loop of CywTxPump: complete what is cancelled or expired, or what  *)
(* a closed gate forbids, wherever it stands in the queue.  The time is     *)
(* read before the lock is taken.                                           *)
PumpReadClock ==
    /\ pc = "clock" /\ scans > 0
    /\ now' = clock
    /\ pc' = "scan"
    /\ UNCHANGED <<q, owner, draft, hand, verdict, ret, goal, sent, scans, clock,
                   ticket, stale>>

PumpScanActive(k) ==
    /\ pc = "scan"
    /\ IsFirst(k, AbortedActive(q, now))
    /\ TakeInHand(q.entries[k], CywTxAbortStatus(q, q.entries[k], now), "clock")
    /\ q' = CywTxRemove(q, k)
    /\ pc' = "release"
    /\ scans' = scans - 1
    /\ UNCHANGED <<owner, draft, goal, sent, now, clock, ticket, stale>>

PumpScanBacklog(k) ==
    /\ pc = "scan"
    /\ AbortedActive(q, now) = {}
    /\ IsFirst(k, AbortedBacklog(q, now))
    /\ TakeInHand(q.backlog[k], CywTxAbortStatus(q, q.backlog[k], now), "clock")
    /\ q' = CywTxBacklogRemove(q, k)
    /\ pc' = "refill"
    /\ scans' = scans - 1
    /\ UNCHANGED <<owner, draft, goal, sent, now, clock, ticket, stale>>

PumpScanDone ==
    /\ \/ pc = "clock" /\ scans = 0
       \/ pc = "scan" /\ AbortedActive(q, now) = {} /\ AbortedBacklog(q, now) = {}
    /\ pc' = "select"
    /\ now' = 0
    /\ scans' = 0
    /\ UNCHANGED <<q, owner, draft, hand, verdict, ret, goal, sent, clock, ticket,
                   stale>>

(* Head of the second loop.  An empty active array gets one item from the   *)
(* backlog; a head that must be aborted ends the pump.                      *)
Selectable ==
    IF q.count = 0 /\ CanPromote(q) THEN CywTxPromoteOneLocked(q) ELSE q

PumpSelect ==
    /\ pc = "select" /\ sent < Budget
    /\ Selectable.count > 0
    /\ CywTxAbortStatus(Selectable, Selectable.entries[1], clock) = Success
    /\ q' = Selectable
    /\ pc' = "transfer"
    /\ UNCHANGED <<owner, draft, hand, verdict, ret, goal, sent, scans, now, clock,
                   ticket, stale>>

PumpSelectAborted ==
    /\ pc = "select" /\ sent < Budget
    /\ Selectable.count > 0
    /\ CywTxAbortStatus(Selectable, Selectable.entries[1], clock) # Success
    /\ TakeInHand(Selectable.entries[1],
                  CywTxAbortStatus(Selectable, Selectable.entries[1], clock), "idle")
    /\ q' = CywTxRemove(Selectable, 1)
    /\ pc' = "release"
    /\ sent' = 0
    /\ UNCHANGED <<owner, draft, goal, scans, now, clock, ticket, stale>>

PumpEnd ==
    /\ pc = "select"
    /\ sent >= Budget \/ Selectable.count = 0
    /\ pc' = "idle"
    /\ sent' = 0
    /\ UNCHANGED <<q, owner, draft, hand, verdict, ret, goal, scans, now, clock,
                   ticket, stale>>

(* CywTxCanTransfer is false, or the sender answers STATUS_DEVICE_BUSY. *)
TransferBusy ==
    /\ pc = "transfer"
    /\ pc' = "idle"
    /\ sent' = 0
    /\ UNCHANGED <<q, owner, draft, hand, verdict, ret, goal, scans, now, clock,
                   ticket, stale>>

(* The frame left over F2.  The gate, the cancellation and the age are read *)
(* again before the item is either kept or taken out.                       *)
HeadAfterTransfer ==
    [q.entries[1] EXCEPT !.frames = @ - 1,
                         !.late = IF q.entries[1].cancelled THEN @ + 1 ELSE @]

TransferDone ==
    LET head   == HeadAfterTransfer
        status == CywTxAbortStatus(q, head, clock)
        kept   == [q EXCEPT !.entries[1] = head]
    IN  /\ pc = "transfer"
        /\ sent' = sent + 1
        /\ IF status # Success \/ head.frames = 0
           THEN /\ TakeInHand(head, status, "select")
                /\ q' = CywTxRemove(kept, 1)
                /\ pc' = "release"
           ELSE /\ q' = kept
                /\ pc' = "select"
                /\ UNCHANGED <<hand, verdict, ret>>
        /\ UNCHANGED <<owner, draft, goal, scans, now, clock, ticket, stale>>

(* A failed transfer.  A packet that cannot be mapped (NdisGetDataBuffer)   *)
(* ends the pump; a bus fault ends the worker.                              *)
TransferFailed(continue) ==
    LET status == CywTxAbortStatus(q, q.entries[1], clock)
    IN  /\ pc = "transfer"
        /\ TakeInHand(q.entries[1], IF status = Success THEN Failure ELSE status,
                      continue)
        /\ q' = CywTxRemove(q, 1)
        /\ pc' = "release"
        /\ sent' = 0
        /\ UNCHANGED <<owner, draft, goal, scans, now, clock, ticket, stale>>

(* CywTxFlush: set the gate, then remove until empty. *)
FlushBegin(g, continue) ==
    /\ q' = CywTxSetGate(q, g)
    /\ verdict' = g
    /\ ret' = "flush"
    /\ goal' = continue
    /\ pc' = "flush"
    /\ UNCHANGED <<owner, draft, hand, sent, scans, now, clock, ticket, stale>>

(* The worker flushes when it is paused and when it starts or ends a        *)
(* connection ...                                                           *)
WorkerFlush(g) ==
    /\ pc = "idle"
    /\ FlushBegin(g, "idle")

(* ... and when it exits, stopped or failed. *)
WorkerExit(g) ==
    /\ pc \in {"idle", "failed"}
    /\ FlushBegin(g, "exited")

(* CywNetworkStop and CywNetworkPower flush once the worker is gone, and a  *)
(* power-up starts the next one.                                            *)
LifecycleFlush(g) ==
    /\ pc = "exited"
    /\ FlushBegin(g, "exited")

WorkerStart ==
    /\ pc = "exited"
    /\ pc' = "idle"
    /\ goal' = "idle"
    /\ UNCHANGED <<q, owner, draft, hand, verdict, ret, sent, scans, now, clock,
                   ticket, stale>>

FlushActive ==
    /\ pc = "flush" /\ q.count > 0
    /\ hand' = q.entries[1]
    /\ q' = CywTxRemove(q, 1)
    /\ pc' = "release"
    /\ UNCHANGED <<owner, draft, verdict, ret, goal, sent, scans, now, clock,
                   ticket, stale>>

FlushBacklog ==
    /\ pc = "flush" /\ q.count = 0 /\ q.backlogCount > 0
    /\ hand' = q.backlog[1]
    /\ q' = CywTxBacklogRemove(q, 1)
    /\ pc' = "refill"
    /\ UNCHANGED <<owner, draft, verdict, ret, goal, sent, scans, now, clock,
                   ticket, stale>>

FlushDone ==
    /\ pc = "flush" /\ q.count = 0 /\ q.backlogCount = 0
    /\ pc' = goal
    /\ verdict' = Success
    /\ ret' = "idle"
    /\ UNCHANGED <<q, owner, draft, hand, goal, sent, scans, now, clock, ticket,
                   stale>>

(* CywTxComplete: under one lock the charge moves from Outstanding to       *)
(* Completing and the free room is refilled ...                             *)
CompleteRelease ==
    /\ pc = "release"
    /\ q' = [q EXCEPT !.outstanding = @ - 1, !.completing = @ + 1]
    /\ pc' = "refill"
    /\ UNCHANGED <<owner, draft, hand, verdict, ret, goal, sent, scans, now, clock,
                   ticket, stale>>

RefillOne ==
    /\ pc = "refill"
    /\ CanPromote(q)
    /\ q' = CywTxPromoteOneLocked(q)
    /\ UNCHANGED <<owner, draft, clock, ticket, stale, wvars>>

(* Mutant: the refill stops after any number of promotions. *)
RefillStopsEarly ==
    /\ pc = "refill"
    /\ pc' = "indicate"
    /\ stale' = (stale /\ q.gate # Success)
    /\ UNCHANGED <<q, owner, draft, hand, verdict, ret, goal, sent, scans, now,
                   clock, ticket>>

RefillDone ==
    /\ pc = "refill"
    /\ ~CanPromote(q)
    /\ pc' = "indicate"
    /\ stale' = (stale /\ q.gate # Success)
    /\ UNCHANGED <<q, owner, draft, hand, verdict, ret, goal, sent, scans, now,
                   clock, ticket>>

(* ... NdisMSendNetBufferListsComplete gives the NBL back, unlocked ...     *)
CompleteIndicate ==
    /\ pc = "indicate"
    /\ owner' = [owner EXCEPT ![hand.nbl] = "ndis"]
    /\ pc' = "settle"
    /\ UNCHANGED <<q, draft, hand, verdict, ret, goal, sent, scans, now, clock,
                   ticket, stale>>

(* ... and Completing is released once the callback has returned. *)
CompleteSettle ==
    /\ pc = "settle"
    /\ q' = [q EXCEPT !.completing = @ - 1]
    /\ pc' = ret
    /\ hand' = Nothing
    /\ IF ret = "flush" THEN UNCHANGED <<verdict, ret>>
                        ELSE verdict' = Success /\ ret' = "idle"
    /\ UNCHANGED <<owner, draft, goal, sent, scans, now, clock, ticket, stale>>
-----------------------------------------------------------------------------
Init ==
    /\ q = EmptyQueue
    /\ owner = [n \in Nbls |-> "ndis"]
    /\ draft = [n \in Nbls |-> NoItem(n)]
    /\ pc = "idle"
    /\ hand = Nothing
    /\ verdict = Success
    /\ ret = "idle"
    /\ goal = "idle"
    /\ sent = 0
    /\ scans = 0
    /\ now = 0
    /\ clock = 0
    /\ ticket = 0
    /\ stale = FALSE

Submit(n) ==
    \/ \E frames \in NbCounts, small \in BOOLEAN, id \in CancelIds :
          SubmitPrepare(n, frames, small, id)
    \/ SubmitAccept(n)
    \/ SubmitRefuse(n)

Pump ==
    \/ PumpBegin
    \/ PumpReadClock
    \/ \E k \in 1..q.count : PumpScanActive(k)
    \/ \E k \in 1..q.backlogCount : PumpScanBacklog(k)
    \/ PumpScanDone
    \/ PumpSelect
    \/ PumpSelectAborted
    \/ PumpEnd
    \/ TransferBusy
    \/ TransferDone
    \/ \E continue \in {"idle", "failed"} : TransferFailed(continue)

CywTxFlush ==
    \/ \E g \in Closed : WorkerFlush(g) \/ WorkerExit(g) \/ LifecycleFlush(g)
    \/ FlushActive
    \/ FlushBacklog
    \/ FlushDone

CywTxComplete ==
    \/ CompleteRelease
    \/ RefillOne
    \/ RefillDone
    \/ CompleteIndicate
    \/ CompleteSettle

Worker == Pump \/ CywTxFlush \/ CywTxComplete

Next ==
    \/ \E n \in Nbls : Submit(n)
    \/ \E id \in CancelIds : CywTxCancel(id)
    \/ \E g \in Gates : CywRefreshTxGate(g)
    \/ Tick
    \/ Worker
    \/ WorkerStart

Spec == Init /\ [][Next]_vars

(* The worker is a system thread that never blocks for ever: its waits are  *)
(* timed and its SDIO transfers have deadlines.                             *)
FairSpec == Spec /\ WF_vars(Worker)
-----------------------------------------------------------------------------
(* Properties. *)

(* Type invariant. *)
Queue == [gate : Gates, count : Nat, frames : Int, outstanding : Int,
          completing : Int, entries : Seq(Item),
          backlogCount : Nat, backlogFrames : Int, backlog : Seq(Item)]
QueueOK(s) ==
    /\ s \in Queue
    /\ DOMAIN s.entries = 1..s.count /\ s.count <= ActiveLimit
    /\ DOMAIN s.backlog = 1..s.backlogCount /\ s.backlogCount <= BacklogLimit
TypeOK ==
    /\ QueueOK(q)
    /\ owner \in [Nbls -> {"ndis", "callback", "miniport"}]
    /\ draft \in [Nbls -> Item]
    /\ pc \in {"idle", "clock", "scan", "select", "transfer", "failed", "flush",
               "release", "refill", "indicate", "settle", "exited"}
    /\ hand \in Item \cup {Nothing}
    /\ verdict \in Verdicts
    /\ ret \in {"idle", "clock", "select", "failed", "flush"}
    /\ goal \in {"idle", "exited"}
    /\ sent \in Nat /\ scans \in Int
    /\ now \in Nat /\ clock \in Nat /\ ticket \in Nat
    /\ stale \in BOOLEAN

(* Where the miniport keeps NBL n: a slot of one of the two arrays, or the  *)
(* worker's hand between removal and NdisMSendNetBufferListsComplete.       *)
InHand == pc \in {"release", "refill", "indicate"}
Places(n) ==
    {<<"active", i>> : i \in {j \in 1..q.count : q.entries[j].nbl = n}}
      \cup {<<"backlog", i>> : i \in {j \in 1..q.backlogCount : q.backlog[j].nbl = n}}
      \cup (IF InHand /\ hand.nbl = n THEN {<<"hand", 0>>} ELSE {})

(* Every accepted NBL is held in exactly one place, and an NBL NDIS or a    *)
(* send callback owns is held nowhere: no completion is lost and none is    *)
(* given twice, across removal, promotion, cancellation and flush.          *)
OwnedOnce ==
    \A n \in Nbls : IF owner[n] = "miniport"
                    THEN \E p \in Places(n) : Places(n) = {p}
                    ELSE Places(n) = {}

(* How the three counters of CywTxOutstanding share the NBLs of the         *)
(* miniport: Outstanding keeps the one being removed until CywTxComplete    *)
(* moves the charge to Completing.                                          *)
Accounting ==
    /\ q.outstanding = q.count + (IF pc = "release" THEN 1 ELSE 0)
    /\ q.completing = (IF pc \in {"refill", "indicate", "settle"} THEN 1 ELSE 0)

(* "Pause/D3 cannot observe a false zero": when CywTxOutstanding answers 0  *)
(* no NBL is owned by the miniport and no completion callback is running.   *)
NoFalseZero ==
    CywTxOutstanding = 0 => /\ \A n \in Nbls : owner[n] # "miniport"
                            /\ pc # "settle"

(* The active array never holds more than CYW_TX_LIMIT frames or NBLs, nor  *)
(* the backlog more than CYW_TX_BACKLOG_LIMIT, counting NBLs on their way   *)
(* out: neither array is ever indexed out of bounds.                        *)
Bounded ==
    /\ q.frames <= ActiveLimit
    /\ q.count <= q.outstanding /\ q.outstanding <= ActiveLimit
    /\ q.backlogFrames <= BacklogLimit
    /\ q.backlogCount <= BacklogLimit

(* What holds at the worker's control points: the head whose frame is on    *)
(* the bus stays, the hand is full from removal to completion, and every    *)
(* item in the queue, or about to enter it, has frames left.                *)
Control ==
    /\ pc = "transfer" => q.count > 0
    /\ InHand => hand \in Item
    /\ \A i \in 1..q.count : q.entries[i].frames > 0
    /\ \A i \in 1..q.backlogCount : q.backlog[i].frames > 0
    /\ \A n \in Nbls : draft[n].nbl = n
    /\ \A n \in Nbls : owner[n] = "callback" => draft[n].frames > 0

(* The inductive invariant behind the types, the counters and the bounds. *)
QueueInv == TypeOK /\ Accounting /\ Bounded /\ Control

(* Frames and BacklogFrames are exactly the frames the two arrays hold, the *)
(* ones already transmitted included: nothing is charged twice or leaks     *)
(* through partial transmission, cancellation or promotion.  The total of   *)
(* an array is the end of its running total.                                *)
Running(sum, array, count) ==
    sum[0] = 0 /\ \A i \in 1..count : sum[i] = sum[i - 1] + array[i].held
Charged(array, count, total) ==
    \E sum \in [0..count -> 0..total] : Running(sum, array, count) /\ sum[count] = total
ChargesExact ==
    /\ Charged(q.entries, q.count, q.frames)
    /\ Charged(q.backlog, q.backlogCount, q.backlogFrames)

(* What the queue promises: the active array followed by the backlog is the *)
(* line of SendFifo; the item in the worker's hand is leaving.              *)
Entry(item) == [nbl |-> item.nbl, left |-> item.frames]
Line(s) ==
    [i \in 1..(s.count + s.backlogCount) |->
       Entry(IF i <= s.count THEN s.entries[i] ELSE s.backlog[i - s.count])]
Leaving ==
    IF InHand THEN {[nbl |-> hand.nbl,
                     outcome |-> IF verdict = Success THEN "sent" ELSE "dropped"]}
              ELSE {}
Fifo == INSTANCE SendFifo WITH
    MaxFrames <- ActiveLimit, line <- Line(q), leaving <- Leaving

(* The queue with its lock, arrays and completions implements the FIFO      *)
(* contract of SendFifo.                                                    *)
ImplementsFifo == Fifo!FifoSpec

(* Accepted NBLs are transmitted and promoted in the order in which they    *)
(* were admitted: an item of the active array is older than every later one *)
(* and than the whole backlog.  (A consequence of ImplementsFifo, stated on *)
(* the arrays.)                                                             *)
NoOvertaking ==
    /\ \A i, j \in 1..q.count :
          i < j => q.entries[i].ticket < q.entries[j].ticket
    /\ \A i, j \in 1..q.backlogCount :
          i < j => q.backlog[i].ticket < q.backlog[j].ticket
    /\ \A i \in 1..q.count, j \in 1..q.backlogCount :
          q.entries[i].ticket < q.backlog[j].ticket

(* "Refill them ... before a reentrant send observes a nonempty backlog":   *)
(* outside the lock and the removal that is under way, a backlog waits only *)
(* because its head does not fit, unless the gate was closed and reopened   *)
(* over it.                                                                 *)
NoIdleRoom == ~stale /\ pc \notin {"release", "refill"} => ~CanPromote(q)

(* A cancelled NBL loses at most the frame that was on the bus when the     *)
(* cancellation came.                                                       *)
CancelStops ==
    /\ \A i \in 1..q.count : q.entries[i].late = 0
    /\ InHand => hand.late <= 1

(* An NBL is failed for its age only when it is CYW_TX_MAX_AGE old.         *)
ExpiryIsReal ==
    InHand /\ verdict = Failure /\ ret = "clock" => clock - hand.submitted >= MaxAge

(* "Cancelled/expired entries behind a flow-controlled head must not wait   *)
(* for credits": an NBL that is CYW_TX_MAX_AGE old, or cancelled (then      *)
(* without help from the clock), active or backlogged, is returned to NDIS. *)
Due(item) == item.cancelled \/ clock - item.submitted >= MaxAge
HeldDue(n) ==
    \/ \E i \in 1..q.count : q.entries[i].nbl = n /\ Due(q.entries[i])
    \/ \E i \in 1..q.backlogCount : q.backlog[i].nbl = n /\ Due(q.backlog[i])
DueIsReturned == \A n \in Nbls : HeldDue(n) ~> owner[n] = "ndis"
=============================================================================
