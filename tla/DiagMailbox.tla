----------------------------- MODULE DiagMailbox -----------------------------
(***************************************************************************)
(* The diagnostics exporter: the two-slot mailbox of                       *)
(* src/src/driver/diag_mailbox.h between the bus worker, which captures    *)
(* snapshots, and the thread of src/src/cyw43455/diagnostics_worker.h,     *)
(* which writes them to the registry.                                      *)
(*                                                                         *)
(* A snapshot is its number; 0 is a buffer that is being filled.  Every    *)
(* interlocked access and every event operation is a step of its own, and  *)
(* filling and writing a buffer are steps of their own between them.       *)
(***************************************************************************)
EXTENDS Integers

CONSTANT MaxSnapshots   \* bound on snapshots of one exporter, for model checking only

ASSUME MailboxAssumption == MaxSnapshots \in Nat

VARIABLES
    state,      \* M->State[2]
    produce,    \* M->Produce
    consume,    \* M->Consume
    buffer,     \* M->Buffer[2]
    dwake,      \* D->Wake, a SynchronizationEvent
    dstop,      \* D->Stop
    ppc,        \* where the bus worker stands in the producer's routines
    xpc,        \* where the exporter thread stands
    published,  \* history: snapshots published to this exporter
    written     \* history: snapshots it has written

slots == <<state, produce, consume, buffer>>
mailbox == <<slots, dwake, dstop, ppc, xpc, published, written>>

Slots == 0..1
Other(i) == 1 - i
-----------------------------------------------------------------------------
(* The producer, on the bus worker. *)

(* CywDiagnosticsStart: a zeroed allocation and a new thread, and the wait  *)
(* for its Started event; the call returns NULL when either fails, and      *)
(* ppc stays "none".  An exporter that is not there is the zeroed one.      *)
ExporterStarts ==
    /\ ppc = "none"
    /\ ppc' = "idle" /\ xpc' = "take"
    /\ UNCHANGED <<slots, dwake, dstop, published, written>>

(* CywDiagBegin takes a free slot and resets its buffer.  A snapshot that   *)
(* finds none is skipped, which changes nothing here.                       *)
(* Mutant: a slot that waits for the exporter is overwritten. *)
FreeOrReady == state[produce] \in {"free", "ready"}
SlotFree == state[produce] = "free"
CywDiagBegin ==
    /\ ppc = "idle"
    /\ SlotFree
    /\ published < MaxSnapshots
    /\ state' = [state EXCEPT ![produce] = "capturing"]
    /\ buffer' = [buffer EXCEPT ![produce] = 0]
    /\ ppc' = "capture"
    /\ UNCHANGED <<produce, consume, dwake, dstop, xpc, published, written>>

Capture ==
    /\ ppc = "capture"
    /\ buffer' = [buffer EXCEPT ![produce] = published + 1]
    /\ ppc' = "publish"
    /\ UNCHANGED <<state, produce, consume, dwake, dstop, xpc, published, written>>

CywDiagPublish ==
    /\ ppc = "publish"
    /\ state' = [state EXCEPT ![produce] = "ready"]
    /\ produce' = Other(produce)
    /\ published' = published + 1
    /\ ppc' = "signal"
    /\ UNCHANGED <<consume, buffer, dwake, dstop, xpc, written>>

CaptureSignals ==
    /\ ppc = "signal"
    /\ dwake' = TRUE
    /\ ppc' = "idle"
    /\ UNCHANGED <<slots, dstop, xpc, published, written>>

(* CywDiagnosticsStop: Stop, then the event, then the join and the free.    *)
(* Mutant: the event is set before Stop, so the exporter may sleep through. *)
StopAfterWake ==
    \/ ppc = "idle" /\ dwake' = TRUE /\ ppc' = "stopping" /\ UNCHANGED dstop
    \/ ppc = "stopping" /\ dstop' = TRUE /\ ppc' = "join" /\ UNCHANGED dwake
StopThenWake ==
    \/ ppc = "idle" /\ dstop' = TRUE /\ ppc' = "stopping" /\ UNCHANGED dwake
    \/ ppc = "stopping" /\ dwake' = TRUE /\ ppc' = "join" /\ UNCHANGED dstop
CywDiagnosticsStop ==
    /\ StopThenWake
    /\ UNCHANGED <<slots, xpc, published, written>>

ExporterFreed ==
    /\ ppc = "join" /\ xpc = "gone"
    /\ state' = [i \in Slots |-> "free"] /\ produce' = 0 /\ consume' = 0
    /\ buffer' = [i \in Slots |-> 0]
    /\ dwake' = FALSE /\ dstop' = FALSE
    /\ ppc' = "none" /\ UNCHANGED xpc
    /\ published' = 0 /\ written' = 0
-----------------------------------------------------------------------------
(* The exporter, CywDiagnosticsThread. *)

(* CywDiagTake, at the top of the loop and once more after Stop was seen.   *)
(* Mutant: the thread ends without looking again. *)
NoSecondLook == "gone"
LooksAgain == IF state[consume] = "ready" THEN "write" ELSE "gone"
CywDiagTake ==
    /\ xpc \in {"take", "retake"}
    /\ xpc' = IF xpc = "retake" THEN LooksAgain
              ELSE IF state[consume] = "ready" THEN "write" ELSE "empty"
    /\ state' = IF xpc' = "write" THEN [state EXCEPT ![consume] = "writing"] ELSE state
    /\ UNCHANGED <<produce, consume, buffer, dwake, dstop, ppc, published, written>>

(* Rpi5CywWriteDiagnosticBuffer reads the buffer from its first field to    *)
(* its last, between the take and the release.                              *)
CywDiagRelease ==
    /\ xpc = "write"
    /\ state' = [state EXCEPT ![consume] = "free"]
    /\ consume' = Other(consume)
    /\ written' = written + 1
    /\ xpc' = "take"
    /\ UNCHANGED <<produce, buffer, dwake, dstop, ppc, published>>

(* Nothing to take: end if Stop is set (after a second look), else sleep.   *)
StopSeen ==
    /\ xpc = "empty"
    /\ xpc' = IF dstop THEN "retake" ELSE "wait"
    /\ UNCHANGED <<slots, dwake, dstop, ppc, published, written>>

Woken ==
    /\ xpc = "wait" /\ dwake
    /\ dwake' = FALSE
    /\ xpc' = "take"
    /\ UNCHANGED <<slots, dstop, ppc, published, written>>
-----------------------------------------------------------------------------
MailboxInit ==
    /\ state = [i \in Slots |-> "free"] /\ produce = 0 /\ consume = 0
    /\ buffer = [i \in Slots |-> 0]
    /\ dwake = FALSE /\ dstop = FALSE
    /\ ppc = "none" /\ xpc = "gone"
    /\ published = 0 /\ written = 0

Capturing == CywDiagBegin \/ Capture \/ CywDiagPublish \/ CaptureSignals
Stopping == CywDiagnosticsStop \/ ExporterFreed
CywDiagnosticsThread ==
    CywDiagTake \/ CywDiagRelease \/ StopSeen \/ Woken

MailboxNext == ExporterStarts \/ Capturing \/ Stopping \/ CywDiagnosticsThread
MailboxSpec == MailboxInit /\ [][MailboxNext]_mailbox
-----------------------------------------------------------------------------
(* Properties. *)

MailboxTypes ==
    /\ state \in [Slots -> {"free", "capturing", "ready", "writing"}]
    /\ produce \in Slots /\ consume \in Slots
    /\ buffer \in [Slots -> Nat]
    /\ dwake \in BOOLEAN /\ dstop \in BOOLEAN
    /\ ppc \in {"none", "idle", "capture", "publish", "signal", "stopping", "join"}
    /\ xpc \in {"take", "empty", "retake", "wait", "write", "gone"}
    /\ published \in Nat /\ written \in Nat

(* From the take to the release the exporter has a whole snapshot in front  *)
(* of it, the next one in the order of publication: the worker never fills  *)
(* a buffer that is being written, and none is written twice or left out.   *)
SnapshotsWhole == xpc = "write" => buffer[consume] = written + 1

(* "Drain pending snapshots before acknowledging thread termination": when  *)
(* the exporter thread has ended, every snapshot published to it is written.*)
DrainedAtStop == xpc = "gone" => written = published
=============================================================================
