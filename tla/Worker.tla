------------------------------- MODULE Worker --------------------------------
(***************************************************************************)
(* The loop of CywWorker around the interrupt and the diagnostics          *)
(* exporter, and the calls that start and end it: InitializeEx, pause,     *)
(* restart, power, surprise removal and halt.  Interrupt and DiagMailbox   *)
(* are the components; what the worker does on the bus (requests, pumps,   *)
(* receive batch) is one step here, and what pause and power do to the     *)
(* transmit queue, and the runtime recovery, are Lifecycle's subject.      *)
(***************************************************************************)
EXTENDS Interrupt, DiagMailbox

CONSTANTS
    MaxWithIrq,     \* bound on snapshots beside a registered interrupt, and
    MaxPauses,      \* bound on pauses, for model checking only
    MaxPowers       \* bound on power cycles, for model checking only

ASSUME WorkerAssumption == {MaxWithIrq, MaxPauses, MaxPowers} \subseteq Nat

VARIABLES
    wpc,            \* control point of the worker thread
    interruptWake,  \* its locals
    useful,
    first,          \* the rearm in progress is the one before the loop
    stop,           \* N->Stop
    paused,         \* N->Paused
    ack,            \* N->PauseAck
    lpc,            \* the NDIS call or work item in progress
    pauses, powers  \* calls made so far

locals == <<interruptWake, useful, first>>
flags  == <<stop, paused, ack>>
calls  == <<pauses, powers>>
vars   == <<interrupt, mailbox, wpc, locals, flags, lpc, calls>>

(* A step that touches the control point and the locals of the worker only. *)
WorkerOnly == UNCHANGED <<interrupt, mailbox, flags, lpc, calls>>
-----------------------------------------------------------------------------
(* CywWorker *)

(* Firmware, FIFO and configuration, which may fail or find Stop set; the   *)
(* exporter, which may not start; then the first Rearm.                     *)
WorkerStarts ==
    /\ wpc = "start"
    /\ \/ /\ wpc' = IF stop THEN "exit" ELSE "fail"
          /\ UNCHANGED <<mailbox, locals>>
       \/ /\ ~stop
          /\ ExporterStarts \/ UNCHANGED mailbox
          /\ wpc' = "rearm"
          /\ interruptWake' = FALSE /\ useful' = FALSE /\ first' = TRUE
    /\ UNCHANGED <<interrupt, flags, lpc, calls>>

(* The head of the loop: stop, the pause branch, or a cycle (which sets the *)
(* locals anew).                                                            *)
WorkerTops ==
    /\ wpc = "top"
    /\ wpc' = IF stop THEN "exit" ELSE IF paused THEN "pauseWait" ELSE "work"
    /\ ack' = IF stop THEN ack ELSE paused
    /\ interruptWake' = FALSE /\ useful' = FALSE /\ first' = FALSE
    /\ UNCHANGED <<interrupt, mailbox, stop, paused, lpc, calls>>

(* Requests, the pumps and the receive batch.  They may serve the card, and *)
(* may send without having served it; a failure ends the worker.            *)
WorkerWorks ==
    /\ wpc = "work"
    /\ \/ /\ wpc' = "fail"
          /\ UNCHANGED <<card, locals>>
       \/ /\ wpc' = "diag"
          /\ useful' \in BOOLEAN
          /\ card' = card \/ (useful' /\ card' = "quiet")
          /\ UNCHANGED <<interruptWake, first>>
    /\ UNCHANGED <<armed, registered, needsRearm, wakePending, policy, ioStopped,
                   queue, network, wake, mailbox, flags, lpc, calls>>

(* CywMeasuredDiagnostics, before the loop, in a cycle and on failure: the  *)
(* worker may begin a snapshot there, and goes on when it is published or   *)
(* was skipped.                                                             *)
Snapshot ==
    /\ wpc \in {"opening", "diag", "fail"}
    /\ Capturing
    /\ registered /\ ppc = "idle" => published < MaxWithIrq
    /\ UNCHANGED <<interrupt, wpc, locals, flags, lpc, calls>>

SnapshotDone ==
    /\ wpc \in {"opening", "diag"}
    /\ ppc \in {"none", "idle"}
    /\ wpc' = IF wpc = "opening" THEN "top" ELSE "consume"
    /\ UNCHANGED locals
    /\ WorkerOnly

Rpi5CywInterruptConsumeWake ==
    /\ wpc = "consume"
    /\ interruptWake' = wakePending
    /\ wakePending' = FALSE
    /\ wpc' = "rearm"
    /\ UNCHANGED <<card, armed, registered, needsRearm, policy, ioStopped, queue,
                   network, wake, mailbox, useful, first, flags, lpc, calls>>

(* Behind a rearm: the loop, or its next cycle, at once if this one moved   *)
(* frames.                                                                  *)
AfterRearm == IF first THEN {"opening"} ELSE {"top", "wait"}

Rpi5CywInterruptRearm ==
    /\ wpc = "rearm"
    /\ \/ /\ ~RearmWanted
          /\ wpc' \in AfterRearm
          /\ UNCHANGED policy
       \/ /\ RearmWanted
          /\ \E readOk \in BOOLEAN :
                LET read == RearmReads(interruptWake, useful, readOk)
                IN  /\ streak' = read.streak
                    /\ fallback' = (read.verdict = "fallback")
                    /\ wpc' \in IF read.verdict = "sync" THEN {"sync"} ELSE AfterRearm
    /\ UNCHANGED <<card, armed, registered, needsRearm, wakePending, ioStopped, queue,
                   network, wake, mailbox, locals, flags, lpc, calls>>

WorkerRearms ==
    /\ wpc = "sync"
    /\ Rpi5CywInterruptRearmSync
    /\ wpc' \in AfterRearm
    /\ UNCHANGED <<card, registered, wakePending, policy, ioStopped, queue, network,
                   wake, mailbox, locals, flags, lpc, calls>>

(* The timed waits on Wake at the end of a cycle and in the pause branch:   *)
(* they end with the event, which they take, or without it.                 *)
WorkerWaits ==
    /\ wpc \in {"wait", "pauseWait"}
    /\ wake' = FALSE
    /\ wpc' = "top"
    /\ UNCHANGED <<card, armed, registered, needsRearm, wakePending, policy, ioStopped,
                   queue, network, mailbox, locals, flags, lpc, calls>>

(* CywFirmwareStop makes the chip quiet if it can still reach it.           *)
FirmwareStop == card' \in {card, "quiet"}

WorkerFails ==
    /\ wpc = "fail"
    /\ ppc \in {"none", "idle"}
    /\ FirmwareStop
    /\ wpc' = "exit"
    /\ UNCHANGED <<armed, registered, needsRearm, wakePending, policy, ioStopped, queue,
                   network, wake, mailbox, locals, flags, lpc, calls>>

(* Exit: the acknowledgement, the end of the exporter, the end of the thread.*)
WorkerExits ==
    /\ wpc = "exit"
    /\ ack' = TRUE
    /\ wpc' = "stopExporter"
    /\ UNCHANGED <<interrupt, mailbox, locals, stop, paused, lpc, calls>>

ExporterEnded == ppc = "none"
WorkerEnds ==
    /\ wpc = "stopExporter"
    /\ \/ Stopping /\ UNCHANGED wpc
       \/ ExporterEnded /\ wpc' = "none" /\ UNCHANGED mailbox
    /\ UNCHANGED <<interrupt, locals, flags, lpc, calls>>

Exporter ==
    /\ CywDiagnosticsThread
    /\ UNCHANGED <<interrupt, wpc, locals, flags, lpc, calls>>

CywWorker ==
    \/ WorkerStarts \/ WorkerTops \/ WorkerWorks \/ Snapshot \/ SnapshotDone
    \/ Rpi5CywInterruptConsumeWake \/ Rpi5CywInterruptRearm \/ WorkerRearms
    \/ WorkerWaits \/ WorkerFails \/ WorkerExits \/ WorkerEnds
-----------------------------------------------------------------------------
(* Rpi5CywInitializeEx.  An adapter that gets no further than its probe is  *)
(* freed; registration of the interrupt may fail, and the driver polls.     *)
Registers ==
    /\ lpc = "probed"
    /\ registered' \in BOOLEAN
    /\ armed' = FALSE
    /\ Rpi5CywInterruptResetRuntime
    /\ lpc' = "initialize"
    /\ UNCHANGED <<card, ioStopped, queue, network, wake, mailbox, wpc, locals, flags, calls>>

(* CywNetworkInitialize; it may fail before it has a thread, after which    *)
(* CywNetworkStop frees what there is, or find that another adapter has the *)
(* control device, after which CywNetworkStop joins the thread it started.  *)
NetworkInitializes ==
    /\ lpc = "initialize"
    /\ network' = "live"
    /\ \/ wpc' = "start" /\ lpc' \in {"attributes", "stop"}
       \/ UNCHANGED wpc /\ lpc' = "stop"
    /\ UNCHANGED <<card, armed, registered, needsRearm, wakePending, policy, ioStopped,
                   queue, wake, mailbox, locals, flags, calls>>

(* Rpi5CywSetGeneralAttributes: the adapter runs, or is taken down again.   *)
Initialized ==
    /\ lpc = "attributes"
    /\ lpc' \in {"idle", "stop"}
    /\ UNCHANGED <<interrupt, mailbox, wpc, locals, flags, calls>>

(* CywNetworkPause(TRUE) quiesces, then sets Paused, then waits if a worker *)
(* is Ready; CywNetworkPause(FALSE).                                        *)
PauseQuiesces ==
    /\ lpc = "idle" /\ ~paused /\ pauses < MaxPauses
    /\ ack' = FALSE
    /\ Rpi5CywInterruptQuiesce
    /\ pauses' = pauses + 1
    /\ lpc' = "pause"
    /\ UNCHANGED <<card, registered, wakePending, policy, ioStopped, queue, network, wake,
                   mailbox, wpc, locals, stop, paused, powers>>

Ready == wpc \notin {"none", "start", "fail", "exit", "stopExporter"}
PauseSets ==
    /\ lpc = "pause"
    /\ paused' = TRUE /\ wake' = TRUE
    /\ lpc' = IF Ready THEN "pauseAck" ELSE "idle"
    /\ UNCHANGED <<card, armed, registered, needsRearm, wakePending, policy, ioStopped,
                   queue, network, mailbox, wpc, locals, stop, ack, calls>>

PauseReturns ==
    /\ lpc = "pauseAck" /\ ack
    /\ lpc' = "idle"
    /\ UNCHANGED <<interrupt, mailbox, wpc, locals, flags, calls>>

Restarts ==
    /\ lpc = "idle" /\ paused
    /\ paused' = FALSE /\ wake' = TRUE
    /\ UNCHANGED <<card, armed, registered, needsRearm, wakePending, policy, ioStopped,
                   queue, network, mailbox, wpc, locals, stop, ack, lpc, calls>>

(* CywNetworkPower(FALSE) and CywNetworkStop begin alike: quiesce, set Stop *)
(* and the event, join the worker.  NDIS pauses the adapter first, except   *)
(* in a failed initialization, where it is still paused.                    *)
PowerDowns ==
    /\ lpc = "idle" /\ paused /\ powers < MaxPowers
    /\ Rpi5CywInterruptQuiesce
    /\ powers' = powers + 1
    /\ lpc' = "powerStop"
    /\ UNCHANGED <<card, registered, wakePending, policy, ioStopped, queue, network, wake,
                   mailbox, wpc, locals, flags, pauses>>

Halts ==
    /\ lpc \in {"idle", "asleep"} /\ paused
    /\ lpc' = "stop"
    /\ UNCHANGED <<interrupt, mailbox, wpc, locals, flags, calls>>

StopQuiesces ==
    /\ lpc = "stop"
    /\ Rpi5CywInterruptQuiesce
    /\ lpc' = "haltStop"
    /\ UNCHANGED <<card, registered, wakePending, policy, ioStopped, queue, network, wake,
                   mailbox, wpc, locals, flags, calls>>

StopSets ==
    /\ lpc \in {"powerStop", "haltStop"}
    /\ stop' = TRUE /\ wake' = TRUE
    /\ lpc' = IF lpc = "powerStop" THEN "powerJoin" ELSE "haltJoin"
    /\ UNCHANGED <<card, armed, registered, needsRearm, wakePending, policy, ioStopped,
                   queue, network, mailbox, wpc, locals, paused, ack, calls>>

(* The worker is gone: power-down stops the chip and every access to it ... *)
Sleeps ==
    /\ lpc = "powerJoin" /\ wpc = "none"
    /\ FirmwareStop
    /\ ioStopped' = TRUE
    /\ lpc' = "asleep"
    /\ UNCHANGED <<armed, registered, needsRearm, wakePending, policy, queue, network, wake,
                   mailbox, wpc, locals, flags, calls>>

(* ... and halt frees CYW_NETWORK, clears A->Network, deregisters the       *)
(* interrupt (NDIS waits for its DPC, external) and frees the adapter.      *)
NetworkFreed ==
    /\ lpc = "haltJoin" /\ wpc = "none"
    /\ card' \in {card, "quiet"}
    /\ network' = "freed"
    /\ lpc' = "freed"
    /\ UNCHANGED <<armed, registered, needsRearm, wakePending, policy, ioStopped, queue, wake,
                   mailbox, wpc, locals, flags, calls>>

NetworkCleared ==
    /\ lpc = "freed"
    /\ network' = "null"
    /\ lpc' = "deregister"
    /\ UNCHANGED <<card, armed, registered, needsRearm, wakePending, policy, ioStopped, queue,
                   wake, mailbox, wpc, locals, flags, calls>>

(* Mutant: the interrupt is quiesced and left registered. *)
QuiescedIsEnough == Rpi5CywInterruptQuiesce /\ UNCHANGED registered
Deregistered ==
    /\ ~dpcQueued /\ dpc = "none"
    /\ Rpi5CywInterruptQuiesce
    /\ registered' = FALSE
Rpi5CywDeregisterInterrupt ==
    /\ lpc = "deregister"
    /\ Deregistered
    /\ lpc' = "gone"
    /\ UNCHANGED <<card, wakePending, policy, ioStopped, queue, network, wake,
                   mailbox, wpc, locals, flags, calls>>

(* CywNetworkPower(TRUE): flags, then the probe, which leaves SIGNAL_ENABLE *)
(* at zero and may fail, then a fresh interrupt state and a new worker.     *)
WakesUp ==
    /\ lpc = "asleep"
    /\ ioStopped' = FALSE /\ stop' = FALSE
    /\ lpc' = "probe"
    /\ UNCHANGED <<card, armed, registered, needsRearm, wakePending, policy, queue, network,
                   wake, mailbox, wpc, locals, paused, ack, calls>>

Probes ==
    /\ lpc = "probe"
    /\ armed' = FALSE
    /\ \/ UNCHANGED <<needsRearm, wakePending, policy, wpc>>
       \/ Rpi5CywInterruptResetRuntime /\ wpc' = "start"
    /\ lpc' = "idle"
    /\ UNCHANGED <<card, registered, ioStopped, queue, network, wake,
                   mailbox, locals, flags, calls>>

(* CywNetworkShutdown, from a surprise removal or a system shutdown. *)
CywNetworkShutdown ==
    /\ lpc # "gone" /\ network # "null"
    /\ ioStopped' = TRUE /\ stop' = TRUE
    /\ UNCHANGED <<card, armed, registered, needsRearm, wakePending, policy, queue, network,
                   wake, mailbox, wpc, locals, paused, ack, lpc, calls>>

Driver ==
    \/ Registers \/ NetworkInitializes \/ Initialized
    \/ PauseQuiesces \/ PauseSets \/ PauseReturns \/ Restarts
    \/ PowerDowns \/ Halts \/ StopQuiesces \/ StopSets \/ Sleeps
    \/ NetworkFreed \/ NetworkCleared \/ Rpi5CywDeregisterInterrupt
    \/ WakesUp \/ Probes
-----------------------------------------------------------------------------
Init ==
    /\ card = "quiet" /\ armed = FALSE /\ registered = FALSE
    /\ needsRearm = FALSE /\ wakePending = FALSE /\ fallback = FALSE /\ streak = 0
    /\ ioStopped = FALSE /\ dpcQueued = FALSE /\ dpc = "none"
    /\ network = "null" /\ wake = FALSE
    /\ MailboxInit
    /\ wpc = "none" /\ interruptWake = FALSE /\ useful = FALSE /\ first = FALSE
    /\ stop = FALSE /\ paused = TRUE /\ ack = TRUE
    /\ lpc = "probed" /\ pauses = 0 /\ powers = 0

Ndis ==
    \/ CardAsserts \/ Rpi5CywInterrupt \/ Rpi5CywInterruptDpc
    \/ Rpi5CywDisableInterrupt \/ Rpi5CywEnableInterrupt

Next ==
    \/ CywWorker \/ Exporter \/ Driver \/ CywNetworkShutdown
    \/ Ndis /\ UNCHANGED <<mailbox, wpc, locals, flags, lpc, calls>>

Spec == Init /\ [][Next]_vars

(* The worker's waits are timed and its transfers have deadlines; the       *)
(* exporter is a thread of its own; a DPC that is queued runs; a call of    *)
(* NDIS or a work item that has begun goes on.                              *)
FairSpec ==
    /\ Spec
    /\ WF_vars(CywWorker) /\ WF_vars(Exporter)
    /\ WF_vars(Rpi5CywInterruptDpc /\ UNCHANGED <<mailbox, wpc, locals, flags, lpc, calls>>)
    /\ WF_vars(Driver /\ lpc \notin {"idle", "asleep"})
-----------------------------------------------------------------------------
(* Properties. *)

(* A registered interrupt that is masked, by the ISR, by NDIS or by a       *)
(* quiesce, is one the worker has been asked to rearm, unless polling has   *)
(* taken over: while there is a worker it is never masked with nobody to    *)
(* unmask it.                                                               *)
NeverStranded ==
    registered /\ ~armed /\ ~fallback /\ wpc # "none" => needsRearm

(* A wake-up is never lost: a worker that sleeps at the end of a cycle with *)
(* an interrupt it has not accounted for is about to be woken.              *)
WakeNotLost ==
    wpc = "wait" /\ wakePending /\ dpc = "none" /\ ~ioStopped => wake

(* Between the ISR, the DPC, NDIS and the worker no interrupt is forgotten: *)
(* neither a masked one that is to be unmasked, nor a wake-up.              *)
InterruptKept == NeverStranded /\ WakeNotLost

(* When the adapter is freed, by a halt or by a failed initialization, the  *)
(* worker, its exporter, the interrupt and its DPC are all gone, although   *)
(* the worker may have rearmed the interrupt after the stop quiesced it.    *)
AdapterOutlivesAll ==
    lpc = "gone" => /\ ~registered /\ ~dpcQueued /\ dpc = "none"
                    /\ wpc = "none" /\ xpc = "gone"

(* Under a running worker a masked interrupt is unmasked, or polling takes  *)
(* over, as soon as the card has no function pending.                       *)
Running == Ready /\ ~paused /\ ~stop /\ ~ioStopped
MaskedEnds ==
    registered /\ ~armed /\ Running ~> (armed \/ fallback \/ ~Running \/ card = "function")

(* A halt ends: stop, worker, exporter and interrupt go down one after the  *)
(* other, whatever each of them was doing.                                  *)
HaltEnds == lpc = "stop" ~> lpc = "gone"
=============================================================================
