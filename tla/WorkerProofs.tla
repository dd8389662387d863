---------------------------- MODULE WorkerProofs -----------------------------
(***************************************************************************)
(* Proofs about DiagMailbox and Worker, for any number of snapshots and    *)
(* every value of the bounds and of the limit on empty wake-ups: the       *)
(* exporter always has a whole snapshot in front of it, in the order of    *)
(* publication, and has written all of them when its thread ends; the      *)
(* interrupt is never left masked with nobody to unmask it, no wake-up is  *)
(* lost, and the adapter is freed last; nobody waits in vain, and what is  *)
(* told to stop has a bounded way to its end.  The mailbox comes first, as *)
(* a specification of its own, which the composition then implements.      *)
(***************************************************************************)
EXTENDS Worker, TLAPS

(* Part 1: the mailbox of the exporter. *)

(* The snapshots published and not yet written. *)
Out == published - written

(* The two indices are together when none or both of the slots are waiting. *)
Indices ==
    /\ Out \in 0..2
    /\ Out = 1 => produce = Other(consume)
    /\ Out # 1 => produce = consume

(* The waiting slots, oldest first, hold the next snapshots to be written.  *)
Waiting ==
    /\ Out >= 1 => /\ state[consume] = IF xpc = "write" THEN "writing" ELSE "ready"
                   /\ buffer[consume] = written + 1
    /\ Out = 2 => state[Other(consume)] = "ready" /\ buffer[Other(consume)] = written + 2
    /\ Out = 0 => xpc # "write" /\ state[Other(produce)] = "free"

(* The producer's slot is free or being filled. *)
Filling ==
    /\ Out < 2 => state[produce] = IF ppc \in {"capture", "publish"} THEN "capturing" ELSE "free"
    /\ ppc \in {"capture", "publish"} => Out < 2
    /\ ppc = "publish" => buffer[produce] = published + 1

(* Stop is set only behind the last snapshot, and the thread ends only with *)
(* nothing left.                                                            *)
Ending ==
    /\ dstop => ppc \in {"stopping", "join"}
    /\ ppc \in {"stopping", "join"} => dstop
    /\ xpc = "retake" => dstop
    /\ xpc = "gone" => Out = 0 /\ (ppc = "none" \/ dstop)
    /\ ppc = "none" => xpc = "gone"

MailboxInv == MailboxTypes /\ Indices /\ Waiting /\ Filling /\ Ending

(* The start of the driver, with no exporter, satisfies the invariant. *)
LEMMA MailboxInitial == MailboxInit => MailboxInv
<1> SUFFICES ASSUME MailboxInit PROVE MailboxInv
  OBVIOUS
<1> USE DEF MailboxInit, Out, Slots, Other
<1>1. ~dstop /\ dwake \in BOOLEAN /\ dstop \in BOOLEAN BY Zenon
<1>2. MailboxTypes BY <1>1 DEF MailboxTypes
<1>3. state[0] = "free" /\ state[1] = "free" OBVIOUS
<1>4. Out = 0 OBVIOUS
<1>5. Indices BY <1>4 DEF Indices
<1>6. Waiting /\ Filling BY <1>3, <1>4 DEF Waiting, Filling
<1>7. Ending BY <1>1, <1>4 DEF Ending
<1>8. QED BY <1>2, <1>5, <1>6, <1>7 DEF MailboxInv

(* Every step of the producer keeps it: start, capture, publish and signal. *)
LEMMA ProducerKeeps ==
    ASSUME MailboxInv, ExporterStarts \/ Capturing
    PROVE  MailboxInv'
<1> USE DEF MailboxInv, MailboxTypes, Out, Slots, Other
<1>1. CASE ExporterStarts
  BY <1>1 DEF ExporterStarts, slots, Indices, Waiting, Filling, Ending
<1>2. CASE CywDiagBegin
  <2>1. MailboxTypes' BY <1>2 DEF CywDiagBegin
  <2>2. Indices' BY <1>2 DEF CywDiagBegin, Indices
  <2>3. Out < 2 BY <1>2 DEF CywDiagBegin, SlotFree, Indices, Waiting
  <2>4. Waiting' BY <1>2, <2>3 DEF CywDiagBegin, Indices, Waiting
  <2>5. Filling' BY <1>2, <2>3 DEF CywDiagBegin, Indices, Filling
  <2>6. Ending' BY <1>2 DEF CywDiagBegin, Ending
  <2>7. QED BY <2>1, <2>2, <2>4, <2>5, <2>6
<1>3. CASE Capture
  <2>1. Out < 2 BY <1>3 DEF Capture, Filling
  <2>2. MailboxTypes' BY <1>3 DEF Capture
  <2>3. Waiting' BY <1>3, <2>1 DEF Capture, Indices, Waiting
  <2>4. Indices' /\ Filling' /\ Ending' BY <1>3, <2>1 DEF Capture, Indices, Filling, Ending
  <2>5. QED BY <2>2, <2>3, <2>4
<1>4. CASE CywDiagPublish
  <2>1. Out < 2 BY <1>4 DEF CywDiagPublish, Filling
  <2>2. MailboxTypes' BY <1>4 DEF CywDiagPublish
  <2>3. Indices' BY <1>4, <2>1 DEF CywDiagPublish, Indices
  <2>4. Waiting'
    <3>1. CASE Out = 0
      <4>1. Out' = 1 /\ produce = consume /\ consume' = consume /\ xpc' # "write"
        BY <1>4, <3>1 DEF CywDiagPublish, Indices, Waiting
      <4>2. state'[consume] = "ready" /\ buffer'[consume] = written' + 1
        BY <1>4, <3>1, <4>1 DEF CywDiagPublish, Filling
      <4>3. QED BY <4>1, <4>2 DEF Waiting
    <3>2. CASE Out = 1
      <4>1. Out' = 2 /\ produce = Other(consume) /\ consume' = consume /\ xpc' = xpc
        BY <1>4, <3>2 DEF CywDiagPublish, Indices
      <4>2. state'[consume] = state[consume] /\ buffer' = buffer /\ written' = written
        BY <1>4, <4>1 DEF CywDiagPublish
      <4>3. state'[Other(consume)] = "ready" /\ buffer[Other(consume)] = written + 2
        BY <1>4, <3>2, <4>1 DEF CywDiagPublish, Filling
      <4>4. QED BY <3>2, <4>1, <4>2, <4>3 DEF Waiting
    <3>3. QED BY <2>1, <3>1, <3>2 DEF Indices
  <2>5. Filling' BY <1>4, <2>1 DEF CywDiagPublish, Indices, Waiting, Filling
  <2>6. Ending' BY <1>4 DEF CywDiagPublish, Ending
  <2>7. QED BY <2>2, <2>3, <2>4, <2>5, <2>6
<1>5. CASE CaptureSignals
  BY <1>5 DEF CaptureSignals, slots, Indices, Waiting, Filling, Ending
<1>6. QED BY <1>1, <1>2, <1>3, <1>4, <1>5 DEF Capturing

(* So does the end of the exporter: Stop, the event, the join and the free. *)
LEMMA StopKeeps ==
    ASSUME MailboxInv, Stopping
    PROVE  MailboxInv'
<1> USE DEF MailboxInv, MailboxTypes, Out, Slots, Other
<1>1. CASE CywDiagnosticsStop
  BY <1>1 DEF CywDiagnosticsStop, StopThenWake, slots, Indices, Waiting, Filling, Ending
<1>2. CASE ExporterFreed
  <2> HIDE DEF MailboxInv
  <2>1. /\ state' \in [Slots -> {"free"}] /\ buffer' \in [Slots -> Nat]
        /\ ppc' = "none" /\ xpc' = "gone"
        /\ produce' = 0 /\ consume' = 0 /\ published' = 0 /\ written' = 0
    BY <1>2 DEF ExporterFreed
  <2>2. ~dstop' /\ dwake' \in BOOLEAN /\ dstop' \in BOOLEAN
    BY <1>2, Zenon DEF ExporterFreed
  <2>3. MailboxTypes' BY <2>1, <2>2
  <2>4. state'[0] = "free" /\ state'[1] = "free" BY <1>2 DEF ExporterFreed
  <2>5. Out' = 0 BY <1>2 DEF ExporterFreed
  <2>6. Indices' BY <1>2, <2>5 DEF ExporterFreed, Indices
  <2>7. Waiting' /\ Filling' BY <1>2, <2>4, <2>5 DEF ExporterFreed, Waiting, Filling
  <2>8. Ending' BY <2>1, <2>5, <2>2 DEF Ending
  <2>9. QED BY <2>3, <2>6, <2>7, <2>8 DEF MailboxInv
<1>3. QED BY <1>1, <1>2 DEF Stopping

(* And every step of the exporter thread. *)
LEMMA ThreadKeeps ==
    ASSUME MailboxInv, CywDiagnosticsThread
    PROVE  MailboxInv'
<1> USE DEF MailboxInv, MailboxTypes, Out, Slots, Other
<1>1. CASE CywDiagTake
  <2>1. MailboxTypes' BY <1>1 DEF CywDiagTake, LooksAgain
  <2>2. Indices' BY <1>1 DEF CywDiagTake, Indices
  <2>3. CASE state[consume] = "ready"
    <3>1. Out >= 1 BY <2>3 DEF Indices, Waiting, Filling
    <3>2. xpc' = "write" /\ state' = [state EXCEPT ![consume] = "writing"]
      BY <1>1, <2>3 DEF CywDiagTake, LooksAgain
    <3>3. Waiting' BY <1>1, <3>1, <3>2 DEF CywDiagTake, Indices, Waiting
    <3>4. Filling' BY <1>1, <3>1, <3>2 DEF CywDiagTake, Indices, Filling
    <3>5. Ending' BY <1>1, <3>2 DEF CywDiagTake, Ending
    <3>6. QED BY <2>1, <2>2, <3>3, <3>4, <3>5
  <2>4. CASE state[consume] # "ready"
    <3>1. Out = 0 BY <1>1, <2>4 DEF CywDiagTake, Indices, Waiting
    <3>2. xpc' = (IF xpc = "retake" THEN "gone" ELSE "empty") /\ state' = state
      BY <1>1, <2>4 DEF CywDiagTake, LooksAgain
    <3>3. Waiting' /\ Filling' BY <1>1, <3>1, <3>2 DEF CywDiagTake, Waiting, Filling
    <3>4. Ending' BY <1>1, <3>1, <3>2 DEF CywDiagTake, Ending
    <3>5. QED BY <2>1, <2>2, <3>3, <3>4
  <2>5. QED BY <2>3, <2>4
<1>2. CASE CywDiagRelease
  <2>1. Out >= 1 BY <1>2 DEF CywDiagRelease, Indices, Waiting
  <2>2. MailboxTypes' BY <1>2 DEF CywDiagRelease
  <2>3. Indices' BY <1>2, <2>1 DEF CywDiagRelease, Indices
  <2>4. Waiting' BY <1>2, <2>1 DEF CywDiagRelease, Indices, Waiting
  <2>5. Filling' BY <1>2, <2>1 DEF CywDiagRelease, Indices, Waiting, Filling
  <2>6. Ending' BY <1>2 DEF CywDiagRelease, Ending
  <2>7. QED BY <2>2, <2>3, <2>4, <2>5, <2>6
<1>3. CASE StopSeen
  BY <1>3 DEF StopSeen, slots, Indices, Waiting, Filling, Ending
<1>4. CASE Woken
  BY <1>4 DEF Woken, slots, Indices, Waiting, Filling, Ending
<1>5. QED BY <1>1, <1>2, <1>3, <1>4 DEF CywDiagnosticsThread

(* The invariant holds throughout, for every number of snapshots. *)
THEOREM MailboxInvariant == MailboxSpec => []MailboxInv
<1>1. ASSUME MailboxInv, [MailboxNext]_mailbox
      PROVE  MailboxInv'
  <2>1. CASE MailboxNext
    BY <1>1, <2>1, ProducerKeeps, StopKeeps, ThreadKeeps DEF MailboxNext
  <2>2. CASE UNCHANGED mailbox
    BY <1>1, <2>2 DEF mailbox, slots, MailboxInv, MailboxTypes, Indices, Waiting, Filling,
                      Ending, Out
  <2>3. QED BY <1>1, <2>1, <2>2
<1>2. QED BY <1>1, MailboxInitial, PTL DEF MailboxSpec

(* SnapshotsWhole: the exporter writes whole snapshots, each one once and   *)
(* in the order in which the bus worker published them.                     *)
THEOREM WholeSnapshots == MailboxSpec => []SnapshotsWhole
<1>1. MailboxInv => SnapshotsWhole
  BY DEF MailboxInv, Indices, Waiting, SnapshotsWhole, Out
<1>2. QED BY <1>1, MailboxInvariant, PTL

(* DrainedAtStop: a thread that has ended has written every snapshot.       *)
THEOREM DrainedExporter == MailboxSpec => []DrainedAtStop
<1>1. MailboxInv => DrainedAtStop
  BY DEF MailboxInv, MailboxTypes, Ending, DrainedAtStop, Out
<1>2. QED BY <1>1, MailboxInvariant, PTL
-----------------------------------------------------------------------------
(* Part 2: the worker, the interrupt and the mailbox together. *)

(* Before the worker is created and after it is joined there is none. *)
Alone ==
    lpc \in {"probed", "initialize", "asleep", "probe", "freed", "deregister", "gone"}
        => wpc = "none"

(* From initialization to halt there is a CYW_NETWORK; an exporter has a    *)
(* worker.                                                                  *)
Housed ==
    /\ lpc \notin {"probed", "initialize", "freed", "deregister",
      "gone"} => network = "live"
    /\ wpc = "none" => ppc = "none"

(* The worker is created with a rearm to do. *)
Asked == lpc = "initialize" => needsRearm

(* From the consumption of the wake-up to the wait behind it, a wake-up     *)
(* that is noted has set the event, or its DPC is about to.                 *)
Told ==
    /\ wpc = "wait" \/ (wpc \in {"rearm", "sync"} /\ ~first)
    /\ wakePending /\ dpc = "none" /\ ~ioStopped
    => wake

Gone == lpc = "gone" => ~registered /\ ~dpcQueued /\ dpc = "none"

WorkerInv == Alone /\ Housed /\ Asked /\ NeverStranded /\ Told /\ Gone

(* Driver initialization starts in the invariant. *)
LEMMA WorkerInitial == Init => WorkerInv
BY DEF Init, MailboxInit, WorkerInv, Alone, Housed, Asked, NeverStranded, Told, Gone

(* The interrupt and its DPC, and what NDIS asks of the interrupt, keep it. *)
LEMMA InterruptKeeps ==
    ASSUME WorkerInv, Ndis, UNCHANGED <<mailbox, wpc, locals, flags, lpc, calls>>
    PROVE  WorkerInv'
<1> USE DEF WorkerInv, Alone, Housed, Asked, NeverStranded, Told, Gone, mailbox, locals,
            policy, queue
<1>1. CASE CardAsserts BY <1>1 DEF CardAsserts
<1>2. CASE Rpi5CywInterrupt BY <1>2 DEF Rpi5CywInterrupt, MaskCard
<1>3. CASE Rpi5CywInterruptDpc BY <1>3 DEF Rpi5CywInterruptDpc, DpcSteps
<1>4. CASE Rpi5CywDisableInterrupt BY <1>4 DEF Rpi5CywDisableInterrupt
<1>5. CASE Rpi5CywEnableInterrupt BY <1>5 DEF Rpi5CywEnableInterrupt
<1>6. QED BY <1>1, <1>2, <1>3, <1>4, <1>5 DEF Ndis

(* The worker's loop keeps it, from its start to the end of its thread. *)
LEMMA LoopKeeps ==
    ASSUME WorkerInv, CywWorker
    PROVE  WorkerInv'
<1> USE DEF WorkerInv, Alone, Housed, Asked, NeverStranded, Told, Gone, interrupt, mailbox,
            slots, locals, flags, calls, policy, queue
<1>1. CASE WorkerStarts BY <1>1 DEF WorkerStarts, ExporterStarts
<1>2. CASE WorkerTops BY <1>2 DEF WorkerTops
<1>3. CASE WorkerWorks BY <1>3 DEF WorkerWorks
<1>4. CASE Snapshot BY <1>4 DEF Snapshot, Capturing, CywDiagBegin, Capture,
      CywDiagPublish, CaptureSignals
<1>5. CASE SnapshotDone BY <1>5 DEF SnapshotDone, WorkerOnly
<1>6. CASE Rpi5CywInterruptConsumeWake BY <1>6 DEF Rpi5CywInterruptConsumeWake
<1>7. CASE Rpi5CywInterruptRearm BY <1>7 DEF Rpi5CywInterruptRearm, RearmWanted, AfterRearm
<1>8. CASE WorkerRearms BY <1>8 DEF WorkerRearms, Rpi5CywInterruptRearmSync, AfterRearm
<1>9. CASE WorkerWaits BY <1>9 DEF WorkerWaits
<1>10. CASE WorkerFails BY <1>10 DEF WorkerFails, FirmwareStop
<1>11. CASE WorkerExits BY <1>11 DEF WorkerExits
<1>12. CASE WorkerEnds BY <1>12 DEF WorkerEnds, ExporterEnded, Stopping,
      CywDiagnosticsStop, StopThenWake, ExporterFreed
<1>13. QED BY <1>1, <1>2, <1>3, <1>4, <1>5, <1>6, <1>7, <1>8, <1>9, <1>10, <1>11,
      <1>12 DEF CywWorker

(* So do the calls of NDIS: initialization, pause, power and halt. *)
LEMMA DriverKeeps ==
    ASSUME WorkerInv, Driver
    PROVE  WorkerInv'
<1> USE DEF WorkerInv, Alone, Housed, Asked, NeverStranded, Told, Gone, interrupt, mailbox,
            slots, locals, flags, calls, policy, queue
<1>1. CASE Registers BY <1>1 DEF Registers, Rpi5CywInterruptResetRuntime
<1>2. CASE NetworkInitializes BY <1>2 DEF NetworkInitializes
<1>3. CASE Initialized BY <1>3 DEF Initialized
<1>4. CASE PauseQuiesces BY <1>4 DEF PauseQuiesces, Rpi5CywInterruptQuiesce
<1>5. CASE PauseSets BY <1>5 DEF PauseSets
<1>6. CASE PauseReturns BY <1>6 DEF PauseReturns
<1>7. CASE Restarts BY <1>7 DEF Restarts
<1>8. CASE PowerDowns BY <1>8 DEF PowerDowns, Rpi5CywInterruptQuiesce
<1>9. CASE Halts BY <1>9 DEF Halts
<1>10. CASE StopQuiesces BY <1>10 DEF StopQuiesces, Rpi5CywInterruptQuiesce
<1>11. CASE StopSets BY <1>11 DEF StopSets
<1>12. CASE Sleeps BY <1>12 DEF Sleeps, FirmwareStop
<1>13. CASE NetworkFreed BY <1>13 DEF NetworkFreed
<1>14. CASE NetworkCleared BY <1>14 DEF NetworkCleared
<1>15. CASE Rpi5CywDeregisterInterrupt BY <1>15 DEF Rpi5CywDeregisterInterrupt,
      Deregistered, Rpi5CywInterruptQuiesce
<1>16. CASE WakesUp BY <1>16 DEF WakesUp
<1>17. CASE Probes BY <1>17 DEF Probes, Rpi5CywInterruptResetRuntime
<1>18. QED BY <1>1, <1>2, <1>3, <1>4, <1>5, <1>6, <1>7, <1>8, <1>9, <1>10, <1>11, <1>12,
      <1>13, <1>14, <1>15, <1>16, <1>17 DEF Driver

(* And a surprise removal or a shutdown, and the exporter.                  *)
LEMMA OthersKeep ==
    ASSUME WorkerInv, CywNetworkShutdown \/ Exporter
    PROVE  WorkerInv'
<1> USE DEF WorkerInv, Alone, Housed, Asked, NeverStranded, Told, Gone, interrupt, mailbox,
            slots, locals, flags, calls, policy, queue
<1>1. CASE CywNetworkShutdown BY <1>1 DEF CywNetworkShutdown
<1>2. CASE Exporter
  BY <1>2 DEF Exporter, CywDiagnosticsThread, CywDiagTake, CywDiagRelease, StopSeen, Woken
<1>3. QED BY <1>1, <1>2

(* The invariant of the composition. *)
THEOREM WorkerInvariant == Spec => []WorkerInv
<1>1. ASSUME WorkerInv, [Next]_vars
      PROVE  WorkerInv'
  <2>1. CASE Next
    BY <1>1, <2>1, InterruptKeeps, LoopKeeps, DriverKeeps, OthersKeep DEF Next
  <2>2. CASE UNCHANGED vars
    BY <1>1, <2>2 DEF vars, interrupt, mailbox, locals, policy, queue, WorkerInv, Alone,
                      Housed, Asked, NeverStranded, Told, Gone
  <2>3. QED BY <1>1, <2>1, <2>2
<1>2. QED BY <1>1, WorkerInitial, PTL DEF Spec

(* InterruptKept: while there is a worker, a masked interrupt is one it has *)
(* been asked to rearm, or polling has taken over; and the worker never     *)
(* sleeps on an interrupt it has not seen.                                  *)
THEOREM InterruptNeverLost == Spec => []InterruptKept
<1>1. WorkerInv => InterruptKept
  BY DEF WorkerInv, Told, InterruptKept, WakeNotLost
<1>2. QED BY <1>1, WorkerInvariant, PTL

(* The composition implements the mailbox: every step of the worker, NDIS,  *)
(* interrupt or exporter is a step of the mailbox or leaves it alone.       *)
THEOREM ImplementsMailbox == Spec => MailboxSpec
<1>1. Init => MailboxInit BY DEF Init
<1>2. ASSUME [Next]_vars
      PROVE  [MailboxNext]_mailbox
  <2>1. CASE CywWorker
    BY <2>1 DEF CywWorker, WorkerStarts, WorkerTops, WorkerWorks, Snapshot, SnapshotDone,
        WorkerOnly, Rpi5CywInterruptConsumeWake, Rpi5CywInterruptRearm, WorkerRearms,
        WorkerWaits, WorkerFails, WorkerExits, WorkerEnds, MailboxNext
  <2>2. CASE Exporter BY <2>2 DEF Exporter, MailboxNext
  <2>3. CASE Driver
    BY <2>3 DEF Driver, Registers, NetworkInitializes, Initialized, PauseQuiesces,
      PauseSets,
        PauseReturns, Restarts, PowerDowns, Halts, StopQuiesces, StopSets, Sleeps,
        NetworkFreed, NetworkCleared, Rpi5CywDeregisterInterrupt, WakesUp, Probes
  <2>4. CASE CywNetworkShutdown BY <2>4 DEF CywNetworkShutdown
  <2>5. CASE UNCHANGED mailbox BY <2>5
  <2>6. QED BY <1>2, <2>1, <2>2, <2>3, <2>4, <2>5 DEF Next, vars
<1>3. QED BY <1>1, <1>2, PTL DEF Spec, MailboxSpec

(* SnapshotsWhole and DrainedAtStop hold in the composition.                *)
THEOREM WholeInWorker == Spec => [](SnapshotsWhole /\ DrainedAtStop)
BY ImplementsMailbox, WholeSnapshots, DrainedExporter, PTL

(* AdapterOutlivesAll: when the adapter is freed, the worker, the exporter, *)
(* the interrupt and its DPC are gone.                                      *)
THEOREM AdapterLast == Spec => []AdapterOutlivesAll
<1>1. WorkerInv /\ MailboxInv => AdapterOutlivesAll
  BY DEF WorkerInv, Alone, Housed, Gone, MailboxInv, Ending, AdapterOutlivesAll
<1>2. QED BY <1>1, WorkerInvariant, ImplementsMailbox, MailboxInvariant, PTL
-----------------------------------------------------------------------------
(* Part 3: nobody waits in vain, and the exporter's end is short.  This is  *)
(* what HaltEnds needs besides fairness.                                    *)

(* The exporter does not sleep on work: with the event clear and a snapshot *)
(* in the mailbox the bus worker is about to signal, and once the stop has  *)
(* set its event an exporter about to sleep or asleep has it.               *)
NeverOversleeps ==
    /\ xpc \in {"empty", "wait"} /\ ~dwake /\ Out > 0 => ppc = "signal"
    /\ xpc = "wait" /\ ~dwake => ppc # "join"

(* How many steps the exporter has left once Stop is set: two snapshots at  *)
(* most, the take that finds none, the second look and the end.             *)
ExporterSteps ==
    6 * Out + (IF xpc = "wait" THEN 5 ELSE IF xpc = "take" THEN 4
               ELSE IF xpc = "empty" THEN 3 ELSE IF xpc = "retake" THEN 2
               ELSE IF xpc = "write" THEN 1 ELSE 0)

(* Once Stop is set every step of the exporter brings its end closer, and   *)
(* nothing takes it further away: CywDiagnosticsStop, which has set Stop    *)
(* and joins the thread, is not kept by new work.                           *)
ExporterAdvances ==
    dstop => /\ CywDiagnosticsThread => ExporterSteps' < ExporterSteps
             /\ ExporterSteps' <= ExporterSteps

(* The start of the driver. *)
LEMMA OversleepInitial == MailboxInit => NeverOversleeps
BY DEF MailboxInit, NeverOversleeps

(* A snapshot is published before it is signalled, and the exporter looks   *)
(* into the mailbox before it sleeps: every step keeps it awake.            *)
LEMMA OversleepKept ==
    ASSUME MailboxInv, NeverOversleeps, MailboxNext
    PROVE  NeverOversleeps'
<1> USE DEF NeverOversleeps, Out
<1>1. CASE ExporterStarts BY <1>1 DEF ExporterStarts
<1>2. CASE CywDiagBegin BY <1>2 DEF CywDiagBegin
<1>3. CASE Capture BY <1>3 DEF Capture
<1>4. CASE CywDiagPublish BY <1>4 DEF CywDiagPublish
<1>5. CASE CaptureSignals BY <1>5 DEF CaptureSignals
<1>6. CASE CywDiagnosticsStop BY <1>6 DEF CywDiagnosticsStop, StopThenWake, slots
<1>7. CASE ExporterFreed BY <1>7 DEF ExporterFreed
<1>8. CASE CywDiagTake
  <2>1. xpc' = "empty" => Out = 0
    BY <1>8 DEF CywDiagTake, LooksAgain, MailboxInv, MailboxTypes, Indices, Waiting
  <2>2. QED BY <1>8, <2>1 DEF CywDiagTake, LooksAgain
<1>9. CASE CywDiagRelease BY <1>9 DEF CywDiagRelease
<1>10. CASE StopSeen BY <1>10 DEF StopSeen, MailboxInv, Ending
<1>11. CASE Woken BY <1>11 DEF Woken
<1>12. QED BY <1>1, <1>2, <1>3, <1>4, <1>5, <1>6, <1>7, <1>8, <1>9, <1>10, <1>11
       DEF MailboxNext, Capturing, Stopping, CywDiagnosticsThread

(* The exporter is never asleep with a snapshot to write or a join to       *)
(* answer, unless the event that wakes it is set or about to be.            *)
THEOREM ExporterAwake == MailboxSpec => []NeverOversleeps
<1>1. ASSUME MailboxInv, NeverOversleeps, [MailboxNext]_mailbox
      PROVE  NeverOversleeps'
  <2>1. CASE UNCHANGED mailbox BY <1>1, <2>1 DEF mailbox, NeverOversleeps, Out
  <2>2. QED BY <1>1, <2>1, OversleepKept
<1>2. QED BY <1>1, OversleepInitial, MailboxInvariant, PTL DEF MailboxSpec

(* After Stop the exporter takes 17 steps at most, whatever the interleaving*)
(* with the bus worker that joins it: its rank is a natural number below 18 *)
(* that every step of it lowers and no step raises.                         *)
THEOREM ExporterStopIsShort ==
    MailboxSpec => [](ExporterSteps \in 0..17) /\ [][ExporterAdvances]_mailbox
<1>1. MailboxInv => ExporterSteps \in 0..17
  BY DEF MailboxInv, MailboxTypes, Indices, ExporterSteps
<1>2. ASSUME MailboxInv, [MailboxNext]_mailbox
      PROVE  [ExporterAdvances]_mailbox
  <2> SUFFICES ASSUME MailboxNext, dstop
               PROVE  /\ CywDiagnosticsThread => ExporterSteps' < ExporterSteps
                      /\ ExporterSteps' <= ExporterSteps
    BY <1>2 DEF ExporterAdvances
  <2> USE DEF ExporterSteps, Out
  <2>1. published \in Nat /\ written \in Nat /\ ppc \in {"stopping", "join"}
    BY <1>2 DEF MailboxInv, MailboxTypes, Ending
  <2>2. CASE CywDiagnosticsThread
    <3>1. CASE CywDiagTake BY <2>1, <3>1 DEF CywDiagTake, LooksAgain
    <3>2. CASE CywDiagRelease BY <2>1, <3>2 DEF CywDiagRelease
    <3>3. CASE StopSeen BY <2>1, <3>3 DEF StopSeen
    <3>4. CASE Woken BY <2>1, <3>4 DEF Woken
    <3>5. QED BY <2>2, <3>1, <3>2, <3>3, <3>4 DEF CywDiagnosticsThread
  <2>3. CASE CywDiagnosticsStop
    <3>1. ExporterSteps' = ExporterSteps
      BY <2>3 DEF CywDiagnosticsStop, StopThenWake
    <3>2. ExporterSteps \in Int BY <2>1
    <3>3. QED BY <2>2, <3>1, <3>2
  <2>4. CASE ExporterFreed
    <3>1. ExporterSteps' = 0 BY <2>4 DEF ExporterFreed
    <3>2. ExporterSteps = 0 BY <1>2, <2>4 DEF ExporterFreed, MailboxInv, Ending
    <3>3. QED BY <2>2, <3>1, <3>2
  <2>5. ~ExporterStarts /\ ~Capturing
    BY <2>1 DEF ExporterStarts, Capturing, CywDiagBegin, Capture, CywDiagPublish,
                CaptureSignals
  <2>6. QED BY <2>2, <2>3, <2>4, <2>5 DEF MailboxNext, Stopping
<1>3. QED BY <1>1, <1>2, MailboxInvariant, PTL DEF MailboxSpec

(* What a call that waits has behind it: a pause that waits has Paused set, *)
(* and an acknowledgement or a worker that has one before it; a power-down  *)
(* or halt that joins the worker has Stop set; and a worker that joins its  *)
(* exporter has it awake.                                                   *)
PauseAnswered ==
    lpc = "pauseAck" => paused /\ (ack \/ wpc \notin {"none", "start", "stopExporter"})
JoinAnswered == lpc \in {"powerJoin", "haltJoin"} => stop
NoCallForgotten == PauseAnswered /\ JoinAnswered /\ NeverOversleeps

(* The worker is inside the producer's routines only where it takes a       *)
(* snapshot or ends the exporter.                                           *)
Placed ==
    /\ wpc \in {"none", "start", "top", "work", "opening", "diag", "consume", "rearm", "sync",
                "wait", "pauseWait", "fail", "exit", "stopExporter"}
    /\ wpc \notin {"opening", "diag", "fail", "stopExporter"} => ppc \in {"none", "idle"}
    /\ wpc = "stopExporter" => ppc \in {"none", "idle", "stopping", "join"}

(* Between the calls of a worker's life and the call that waits for it. *)
StopInv == PauseAnswered /\ JoinAnswered /\ Placed

(* Driver initialization starts in it. *)
LEMMA StopInitial == Init => StopInv
BY DEF Init, MailboxInit, StopInv, PauseAnswered, JoinAnswered, Placed

(* The worker's loop keeps it: a worker that ends has acknowledged.         *)
LEMMA LoopAnswers ==
    ASSUME WorkerInv, StopInv, CywWorker
    PROVE  StopInv'
<1> USE DEF StopInv, PauseAnswered, JoinAnswered, Placed, interrupt, mailbox, slots, locals,
            flags, calls, policy, queue
<1>1. CASE WorkerStarts BY <1>1 DEF WorkerStarts, ExporterStarts
<1>2. CASE WorkerTops BY <1>2 DEF WorkerTops
<1>3. CASE WorkerWorks BY <1>3 DEF WorkerWorks
<1>4. CASE Snapshot BY <1>4 DEF Snapshot, Capturing, CywDiagBegin, Capture,
      CywDiagPublish, CaptureSignals
<1>5. CASE SnapshotDone BY <1>5 DEF SnapshotDone, WorkerOnly
<1>6. CASE Rpi5CywInterruptConsumeWake BY <1>6 DEF Rpi5CywInterruptConsumeWake
<1>7. CASE Rpi5CywInterruptRearm BY <1>7 DEF Rpi5CywInterruptRearm, AfterRearm
<1>8. CASE WorkerRearms BY <1>8 DEF WorkerRearms, AfterRearm
<1>9. CASE WorkerWaits BY <1>9 DEF WorkerWaits
<1>10. CASE WorkerFails BY <1>10 DEF WorkerFails
<1>11. CASE WorkerExits BY <1>11 DEF WorkerExits
<1>12. CASE WorkerEnds BY <1>12 DEF WorkerEnds, ExporterEnded, Stopping,
      CywDiagnosticsStop, StopThenWake, ExporterFreed
<1>13. QED BY <1>1, <1>2, <1>3, <1>4, <1>5, <1>6, <1>7, <1>8, <1>9, <1>10, <1>11,
      <1>12 DEF CywWorker

(* So do the calls of NDIS: a pause waits only for a worker that is Ready.  *)
LEMMA DriverAnswers ==
    ASSUME WorkerInv, StopInv, Driver
    PROVE  StopInv'
<1> USE DEF StopInv, PauseAnswered, JoinAnswered, Placed, interrupt, mailbox, slots, locals,
            flags, calls, policy, queue
<1>1. CASE Registers BY <1>1 DEF Registers
<1>2. CASE NetworkInitializes BY <1>2 DEF NetworkInitializes, WorkerInv, Alone, Housed
<1>3. CASE Initialized BY <1>3 DEF Initialized
<1>4. CASE PauseQuiesces BY <1>4 DEF PauseQuiesces
<1>5. CASE PauseSets BY <1>5 DEF PauseSets, Ready
<1>6. CASE PauseReturns BY <1>6 DEF PauseReturns
<1>7. CASE Restarts BY <1>7 DEF Restarts
<1>8. CASE PowerDowns BY <1>8 DEF PowerDowns
<1>9. CASE Halts BY <1>9 DEF Halts
<1>10. CASE StopQuiesces BY <1>10 DEF StopQuiesces
<1>11. CASE StopSets BY <1>11 DEF StopSets
<1>12. CASE Sleeps BY <1>12 DEF Sleeps
<1>13. CASE NetworkFreed BY <1>13 DEF NetworkFreed
<1>14. CASE NetworkCleared BY <1>14 DEF NetworkCleared
<1>15. CASE Rpi5CywDeregisterInterrupt BY <1>15 DEF Rpi5CywDeregisterInterrupt
<1>16. CASE WakesUp BY <1>16 DEF WakesUp
<1>17. CASE Probes BY <1>17 DEF Probes, WorkerInv, Alone, Housed
<1>18. QED BY <1>1, <1>2, <1>3, <1>4, <1>5, <1>6, <1>7, <1>8, <1>9, <1>10, <1>11, <1>12,
      <1>13, <1>14, <1>15, <1>16, <1>17 DEF Driver

(* The invariant of the waits holds throughout. *)
THEOREM StopInvariant == Spec => []StopInv
<1>1. ASSUME WorkerInv, StopInv, [Next]_vars
      PROVE  StopInv'
  <2> USE DEF StopInv, PauseAnswered, JoinAnswered, Placed
  <2>1. CASE CywWorker BY <1>1, <2>1, LoopAnswers
  <2>2. CASE Driver BY <1>1, <2>2, DriverAnswers
  <2>3. CASE CywNetworkShutdown
    BY <1>1, <2>3 DEF CywNetworkShutdown, mailbox
  <2>4. CASE Exporter
    BY <1>1, <2>4 DEF Exporter, CywDiagnosticsThread, CywDiagTake, CywDiagRelease, StopSeen,
                      Woken, flags
  <2>5. CASE UNCHANGED <<mailbox, wpc, locals, flags, lpc, calls>>
    BY <1>1, <2>5 DEF mailbox, flags
  <2>6. QED BY <1>1, <2>1, <2>2, <2>3, <2>4, <2>5 DEF Next, vars
<1>2. QED BY <1>1, StopInitial, WorkerInvariant, PTL DEF Spec

(* NoCallForgotten: no pause, power-down or halt waits for a worker that    *)
(* does not know of it, and no worker for an exporter that sleeps.          *)
THEOREM CallsAreAnswered == Spec => []NoCallForgotten
<1>1. StopInv /\ NeverOversleeps => NoCallForgotten
  BY DEF StopInv, NoCallForgotten
<1>2. QED BY <1>1, StopInvariant, ImplementsMailbox, ExporterAwake, PTL

(* How far a worker that has been told to stop is from the end of its       *)
(* thread: the rest of its cycle, the exit, and the end of the exporter.    *)
WorkerSteps ==
    IF wpc = "work" THEN 12
    ELSE IF wpc = "diag" THEN 11
    ELSE IF wpc = "consume" THEN 10
    ELSE IF wpc = "rearm" THEN 9
    ELSE IF wpc = "sync" THEN 8
    ELSE IF wpc \in {"opening", "wait", "pauseWait"} THEN 7
    ELSE IF wpc \in {"start", "top", "fail"} THEN 6
    ELSE IF wpc = "exit" THEN 5
    ELSE IF wpc # "stopExporter" THEN 0
    ELSE IF ppc = "idle" THEN 4
    ELSE IF ppc = "stopping" THEN 3
    ELSE IF ppc = "join" THEN 2 ELSE 1

(* From the moment Stop is set every step of the worker but those of a      *)
(* snapshot brings its end closer, and nothing anybody does takes it        *)
(* further away: at most one rest of a cycle, and no pause, interrupt,      *)
(* power request or removal makes it begin another.                         *)
StopAdvances ==
    stop /\ wpc # "none" =>
        /\ CywWorker => Snapshot \/ WorkerSteps' < WorkerSteps
        /\ WorkerSteps' <= WorkerSteps

(* The worker ends within twelve steps of its own after Stop, not counting  *)
(* the snapshots it takes on the way.                                       *)
THEOREM WorkerStopIsShort ==
    Spec => [](WorkerSteps \in 0..12) /\ [][StopAdvances]_vars
<1>1. WorkerSteps \in 0..12 BY DEF WorkerSteps
<1>2. ASSUME WorkerInv, StopInv, [Next]_vars
      PROVE  [StopAdvances]_vars
  <2> SUFFICES ASSUME Next, stop, wpc # "none"
               PROVE  /\ CywWorker => Snapshot \/ WorkerSteps' < WorkerSteps
                      /\ WorkerSteps' <= WorkerSteps
    BY <1>2 DEF StopAdvances
  <2>1. StopInv BY <1>2
  <2> USE DEF StopInv, Placed, mailbox
  <2>2. CASE CywWorker
    <3> USE DEF WorkerSteps
    <3>1. CASE WorkerStarts BY <3>1 DEF WorkerStarts
    <3>2. CASE WorkerTops BY <3>2 DEF WorkerTops
    <3>3. CASE WorkerWorks BY <3>3 DEF WorkerWorks
    <3>4. CASE Snapshot BY <3>4 DEF Snapshot
    <3>5. CASE SnapshotDone BY <3>5 DEF SnapshotDone
    <3>6. CASE Rpi5CywInterruptConsumeWake BY <3>6 DEF Rpi5CywInterruptConsumeWake
    <3>7. CASE Rpi5CywInterruptRearm BY <3>7 DEF Rpi5CywInterruptRearm, AfterRearm
    <3>8. CASE WorkerRearms BY <3>8 DEF WorkerRearms, AfterRearm
    <3>9. CASE WorkerWaits BY <3>9 DEF WorkerWaits
    <3>10. CASE WorkerFails BY <3>10 DEF WorkerFails
    <3>11. CASE WorkerExits BY <2>1, <3>11 DEF WorkerExits
    <3>12. CASE WorkerEnds
      BY <2>1, <3>12 DEF WorkerEnds, ExporterEnded, Stopping, CywDiagnosticsStop,
                         StopThenWake, ExporterFreed
    <3>13. QED BY <2>2, <3>1, <3>2, <3>3, <3>4, <3>5, <3>6, <3>7, <3>8, <3>9, <3>10,
                  <3>11, <3>12 DEF CywWorker
  <2>3. UNCHANGED <<wpc, ppc>> => WorkerSteps' = WorkerSteps BY DEF WorkerSteps
  <2>4. CASE Driver
    <3>1. UNCHANGED mailbox
      BY <2>4 DEF Driver, Registers, NetworkInitializes, Initialized, PauseQuiesces, PauseSets,
        PauseReturns, Restarts, PowerDowns, Halts, StopQuiesces, StopSets, Sleeps,
        NetworkFreed, NetworkCleared, Rpi5CywDeregisterInterrupt, WakesUp, Probes
    <3>2. UNCHANGED wpc
      BY <1>2, <2>4 DEF Driver, Registers, NetworkInitializes, Initialized, PauseQuiesces,
        PauseSets, PauseReturns, Restarts, PowerDowns, Halts, StopQuiesces, StopSets, Sleeps,
        NetworkFreed, NetworkCleared, Rpi5CywDeregisterInterrupt, WakesUp, Probes,
        WorkerInv, Alone
    <3>3. QED BY <1>1, <2>2, <2>3, <3>1, <3>2
  <2>5. CASE CywNetworkShutdown BY <1>1, <2>2, <2>3, <2>5 DEF CywNetworkShutdown
  <2>6. CASE Exporter
    <3>1. UNCHANGED <<wpc, ppc>>
      BY <2>6 DEF Exporter, CywDiagnosticsThread, CywDiagTake, CywDiagRelease, StopSeen, Woken
    <3>2. QED BY <1>1, <2>2, <2>3, <3>1
  <2>7. CASE UNCHANGED <<mailbox, wpc, locals, flags, lpc, calls>>
    BY <1>1, <2>2, <2>3, <2>7
  <2>8. QED BY <2>2, <2>4, <2>5, <2>6, <2>7 DEF Next
<1>3. QED BY <1>1, <1>2, WorkerInvariant, StopInvariant, PTL DEF Spec

(* What the interrupt may still do once its network is freed: show once if  *)
(* it is armed, and the steps of a DPC that is queued or runs.              *)
DpcLeft ==
    (IF armed THEN 4 ELSE 0) + (IF dpcQueued THEN 3 ELSE 0)
        + (IF dpc = "check" THEN 2 ELSE IF dpc = "signal" THEN 1 ELSE 0)

(* Behind the join of the worker nobody arms the interrupt again: every     *)
(* interrupt and every step of a DPC uses up what is left, so the wait for  *)
(* the DPC in NdisMDeregisterInterruptEx is for nine steps at most.         *)
InterruptRunsDry ==
    lpc \in {"freed", "deregister"} =>
        /\ Rpi5CywInterrupt \/ Rpi5CywInterruptDpc => DpcLeft' < DpcLeft
        /\ DpcLeft' <= DpcLeft

(* Deregistration is not kept waiting by the interrupt, although the worker *)
(* may have armed it behind the quiesce of the stop.                        *)
THEOREM DeregistrationIsShort == Spec => [](DpcLeft \in 0..9) /\ [][InterruptRunsDry]_vars
<1>1. DpcLeft \in 0..9 BY DEF DpcLeft
<1>2. ASSUME WorkerInv, [Next]_vars
      PROVE  [InterruptRunsDry]_vars
  <2> SUFFICES ASSUME Next, lpc \in {"freed", "deregister"}
               PROVE  /\ Rpi5CywInterrupt \/ Rpi5CywInterruptDpc => DpcLeft' < DpcLeft
                      /\ DpcLeft' <= DpcLeft
    BY <1>2 DEF InterruptRunsDry
  <2>1. wpc = "none" BY <1>2 DEF WorkerInv, Alone
  <2>2. CASE Rpi5CywInterrupt
    BY <2>2 DEF Rpi5CywInterrupt, MaskCard, DpcLeft
  <2>3. CASE Rpi5CywInterruptDpc
    BY <2>3 DEF Rpi5CywInterruptDpc, DpcSteps, DpcLeft
  <2>4. UNCHANGED <<armed, dpcQueued, dpc>> => DpcLeft' = DpcLeft BY DEF DpcLeft
  <2>5. CASE CardAsserts \/ Rpi5CywDisableInterrupt \/ Rpi5CywEnableInterrupt
    BY <2>2, <2>3, <2>5 DEF CardAsserts, Rpi5CywDisableInterrupt, Rpi5CywEnableInterrupt, DpcLeft,
                queue
  <2>6. ~CywWorker
    BY <2>1 DEF CywWorker, WorkerStarts, WorkerTops, WorkerWorks, Snapshot, SnapshotDone,
        Rpi5CywInterruptConsumeWake, Rpi5CywInterruptRearm, WorkerRearms,
        WorkerWaits, WorkerFails, WorkerExits, WorkerEnds
  <2>7. CASE Driver
    <3>1. NetworkCleared \/ Rpi5CywDeregisterInterrupt
      BY <2>7 DEF Driver, Registers, NetworkInitializes, Initialized, PauseQuiesces, PauseSets,
        PauseReturns, Restarts, PowerDowns, Halts, StopQuiesces, StopSets, Sleeps,
        NetworkFreed, WakesUp, Probes
    <3>2. CASE NetworkCleared BY <1>1, <2>2, <2>3, <2>4, <3>2 DEF NetworkCleared, queue
    <3>3. CASE Rpi5CywDeregisterInterrupt
      <4>1. UNCHANGED <<dpcQueued, dpc>> /\ armed' = IF registered THEN FALSE ELSE armed
        BY <3>3 DEF Rpi5CywDeregisterInterrupt, Deregistered, Rpi5CywInterruptQuiesce, queue
      <4>2. DpcLeft' <= DpcLeft BY <4>1 DEF DpcLeft
      <4>3. QED BY <2>2, <2>3, <4>2
    <3>4. QED BY <3>1, <3>2, <3>3
  <2>8. CASE Exporter \/ CywNetworkShutdown
    BY <1>1, <2>2, <2>3, <2>4, <2>8 DEF Exporter, CywNetworkShutdown, interrupt, queue
  <2>9. QED BY <2>2, <2>3, <2>5, <2>6, <2>7, <2>8 DEF Next, Ndis
<1>3. QED BY <1>1, <1>2, WorkerInvariant, PTL DEF Spec
=============================================================================
