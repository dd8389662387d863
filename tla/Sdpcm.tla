-------------------------------- MODULE Sdpcm --------------------------------
(***************************************************************************)
(* SDPCM sequence numbers, firmware credits and service bursts: the sender *)
(* of src/src/cyw43455/transport_send.h, the way CywTxPump drives it, the  *)
(* control channel of control.h, and the header of a received frame as     *)
(* transport_poll.h applies it.  All of it runs on the one bus worker; the *)
(* firmware runs beside it.                                                *)
(*                                                                         *)
(* What is in the transmit queue is TxQueue's subject: here a pump finds   *)
(* small and bulk frames in any order, and may stop at any frame because   *)
(* the queue is empty, the gate closed or the head aborted.  How one F1    *)
(* service reads and acknowledges the status registers is F1Service's:     *)
(* here it is one step with any outcome.                                   *)
(***************************************************************************)
EXTENDS Integers, Sequences

CONSTANTS
    SeqMod,     \* TxSeq, TxMax and the header byte are UCHAR: 256
    Window,     \* the largest window the driver believes: 0x40
    BurstMax,   \* RPI5CYW_TX_SERVICE_BURST_MAX
    Budget,     \* frames of one pump
    Buffers,    \* frames the firmware can hold at a time
    RxDepth,    \* bound on headers waiting in the receive FIFO
    MaxOut      \* bound on frames written, for model checking only

ASSUME SdpcmAssumption ==
    /\ SeqMod \in Nat /\ Window \in Nat /\ Buffers \in Nat /\ BurstMax \in Nat
    /\ Budget \in Nat /\ RxDepth \in Nat /\ MaxOut \in Nat
    /\ 1 <= Buffers /\ Buffers <= Window /\ 2 * Window < SeqMod
    /\ 1 <= BurstMax

VARIABLES
    seq,        \* N->TxSeq, the number of the next frame
    max,        \* N->TxMax, the first number there is no credit for
    flow,       \* N->TxFlow stops the data priority
    globalFlow, \* Transport.GlobalFlow
    halted,     \* Transport.Halted
    failed,     \* A->FifoTransportFailed
    pc,         \* control point of the worker
    frame,      \* the data frame being sent: "small" or "bulk"
    left,       \* serviceRemaining: frames that may still reuse the F1 service
    position,   \* reusePosition
    grant,      \* followers the current F1 service grants
    sent,       \* *Sent of the current pump
    out,        \* history: frames the firmware has taken from F2
    freed,      \* frames the firmware has finished with
    rx,         \* headers waiting in the receive FIFO
    spent       \* history: data frames sent on the last F1 service

driver == <<seq, max, flow, globalFlow, halted, failed>>
burst  == <<frame, left, position, grant, sent>>
vars   == <<driver, pc, burst, out, freed, rx, spent>>
-----------------------------------------------------------------------------
(* Byte arithmetic. *)
UChar(n) == n % SeqMod

(* Mutant: an exhausted window counts as credit. *)
CreditAtZero(s, m) == UChar(m - s) <= Window
CywTxCredit(s, m) == UChar(m - s) # 0 /\ UChar(m - s) <= Window

(* CywTransportPriorityAllowed, with TxFlow reduced to its verdict, and     *)
(* Transport.GlobalFlow.                                                    *)
Flowing == ~globalFlow /\ ~flow

(* The followers CywSendFrameCore grants to a burst of `want' frames. *)
Grant(size, want, available) ==
    LET cap == IF size = "bulk" THEN 1 ELSE IF want > BurstMax THEN BurstMax ELSE want
    IN  IF cap > 1 /\ available > 1 /\ available <= Window
        THEN IF available - 1 > cap - 1 THEN cap - 1 ELSE available - 1
        ELSE 0
-----------------------------------------------------------------------------
(* The data path: CywTxPump around CywSendFrameCore. *)

(* The locals of a pump have their first values while no pump runs: a pump  *)
(* that leaves for `next' drops them, one that goes on keeps them.          *)
Locals(next) ==
    IF next \in {"idle", "down"}
    THEN frame' = "small" /\ left' = 0 /\ position' = 2 /\ sent' = 0
    ELSE UNCHANGED <<frame, left, position, sent>>

PumpBegin ==
    /\ pc = "idle"
    /\ pc' = "pump"
    /\ UNCHANGED <<driver, burst, out, freed, rx, spent>>

(* The budget is spent, the queue is empty or its head is aborted, or       *)
(* CywTxCanTransfer says no.                                                *)
PumpEnd ==
    /\ pc = "pump"
    /\ pc' = "idle"
    /\ Locals("idle")
    /\ UNCHANGED <<driver, grant, out, freed, rx, spent>>

(* CywTxCanTransfer looks at credit and priority flow; a bulk frame gives   *)
(* up what is left of the burst.                                            *)
(* Mutant: a bulk frame keeps what is left of a small burst. *)
LeftKept(size) == left
LeftFor(size) == IF size = "small" THEN left ELSE 0
PumpTake(size) ==
    /\ pc = "pump" /\ sent < Budget
    /\ CywTxCredit(seq, max) /\ ~flow
    /\ frame' = size
    /\ left' = LeftFor(size)
    /\ pc' = IF LeftFor(size) > 0 THEN "reuse" ELSE "fresh"
    /\ UNCHANGED <<driver, position, grant, sent, out, freed, rx, spent>>

(* CywTransportService: the worker is stopping, the firmware reports a halt *)
(* (now or earlier), a register access fails, or all is well.               *)
Outcomes == {"stopped", "halted", "error", "done"}
Service(outcome) ==
    /\ outcome = "done" => ~halted
    /\ halted' = (halted \/ outcome = "halted")
    /\ \/ outcome = "stopped" /\ UNCHANGED <<globalFlow, flow>>
       \/ outcome = "error" /\ globalFlow' = TRUE /\ UNCHANGED flow
       \/ outcome \in {"halted", "done"} /\ globalFlow' \in BOOLEAN /\ flow' \in BOOLEAN

(* A failed service goes up through the pump and stops the worker ...       *)
FreshFails(outcome) ==
    /\ pc = "fresh"
    /\ outcome # "done"
    /\ Service(outcome)
    /\ pc' = "down"
    /\ Locals("down")
    /\ UNCHANGED <<seq, max, failed, grant, out, freed, rx, spent>>

(* ... and after a good one the frame goes out unless the flow is stopped.  *)
(* `want' is what CywTxBurstPendingFrames counted.                          *)
GoAhead(stopped) == ~stopped /\ CywTxCredit(seq, max)
FreshDone(want) ==
    /\ pc = "fresh"
    /\ Service("done")
    /\ grant' = Grant(frame, want, UChar(max - seq))
    /\ spent' = 0
    /\ pc' = IF GoAhead(globalFlow' \/ flow') THEN "write" ELSE "idle"
    /\ Locals(pc')
    /\ UNCHANGED <<seq, max, failed, out, freed, rx>>

(* A follower goes out on the cached service after its position, the flow,  *)
(* the credit and a halt have been looked at again, in this order: no flow  *)
(* or credit ends the pump for now, the other two stop the worker.          *)
ReusePositions == 2..BurstMax
Reuse ==
    /\ pc = "reuse"
    /\ pc' = IF position \notin ReusePositions THEN "down"
             ELSE IF ~Flowing \/ ~CywTxCredit(seq, max) THEN "idle"
             ELSE IF halted THEN "down" ELSE "write"
    /\ Locals(pc')
    /\ UNCHANGED <<driver, grant, out, freed, rx, spent>>

(* SdioFifoTransfer: the latch refuses, the transfer fails on the bus (the  *)
(* firmware may have taken the frame all the same), or it succeeds.         *)
(* Mutant: a failed FIFO is written again. *)
FifoRetries == TRUE
FifoOpen == ~failed

WriteFails(taken) ==
    /\ pc = "write"
    /\ taken => FifoOpen /\ out < MaxOut
    /\ failed' = TRUE
    /\ out' = IF taken THEN out + 1 ELSE out
    /\ pc' = "down"
    /\ Locals("down")
    /\ UNCHANGED <<seq, max, flow, globalFlow, halted, grant, freed, rx, spent>>

(* The pump reads the abort status once more: `keep' is FALSE when the NBL  *)
(* was cancelled, expired or gated meanwhile.                               *)
WriteDone(keep) ==
    LET fresh == left = 0
    IN  /\ pc = "write" /\ FifoOpen /\ out < MaxOut
        /\ seq' = UChar(seq + 1)
        /\ out' = out + 1
        /\ sent' = sent + 1
        /\ spent' = spent + 1
        /\ left' = IF ~keep THEN 0 ELSE IF fresh THEN grant ELSE left - 1
        /\ position' = IF ~fresh THEN position + 1 ELSE IF grant > 0 THEN 2 ELSE position
        /\ grant' = 0
        /\ pc' = "pump"
        /\ UNCHANGED <<max, flow, globalFlow, halted, failed, frame, freed, rx>>
-----------------------------------------------------------------------------
(* The control path, CywFirmwareCommand: it waits for a credit by polling,  *)
(* sends on channel 0 with no regard to flow, and polls for the reply.  Its *)
(* failure does not stop the worker.                                        *)
ControlBegin ==
    /\ pc = "idle"
    /\ pc' = "control"
    /\ UNCHANGED <<driver, burst, out, freed, rx, spent>>

ControlSend ==
    /\ pc = "control" /\ ~halted /\ CywTxCredit(seq, max)
    /\ FifoOpen /\ out < MaxOut
    /\ seq' = UChar(seq + 1)
    /\ out' = out + 1
    /\ pc' = "reply"
    /\ UNCHANGED <<max, flow, globalFlow, halted, failed, burst, freed, rx, spent>>

ControlSendFails(taken) ==
    /\ pc = "control" /\ ~halted /\ CywTxCredit(seq, max)
    /\ taken => FifoOpen /\ out < MaxOut
    /\ failed' = TRUE
    /\ out' = IF taken THEN out + 1 ELSE out
    /\ pc' = "idle"
    /\ UNCHANGED <<seq, max, flow, globalFlow, halted, burst, freed, rx, spent>>

(* A deadline, a stop, no credit in time, or the reply has come. *)
ControlEnd ==
    /\ pc \in {"control", "reply"}
    /\ pc' = "idle"
    /\ UNCHANGED <<driver, burst, out, freed, rx, spent>>
-----------------------------------------------------------------------------
(* CywPoll, from the worker's receive batch ("idle") and from the control   *)
(* path.  Its F1 service may change the flow state; the header of the frame *)
(* (of a superframe too) carries credit and flow.                           *)
Polling == pc \in {"idle", "control", "reply"}

(* Mutant: a header that does not count up is stale. *)
AcceptGrowing(limit) == IF UChar(limit) > max THEN UChar(limit) ELSE max
AcceptMax(limit) ==
    IF UChar(UChar(limit) - seq) <= Window THEN UChar(limit) ELSE max

PollFrame ==
    /\ Polling /\ ~failed
    /\ rx # <<>>
    /\ max' = AcceptMax(Head(rx).limit)
    /\ flow' = Head(rx).flow
    /\ rx' = Tail(rx)
    /\ UNCHANGED <<seq, globalFlow, halted, failed, pc, burst, out, freed, spent>>

PollService ==
    /\ Polling /\ ~failed
    /\ Service("done")
    /\ UNCHANGED <<seq, max, failed, pc, burst, out, freed, rx, spent>>

(* A poll that fails ends the worker, or only the command that polled: its  *)
(* service fails, or the FIFO is latched, or a malformed frame latches it.  *)
PollFails(outcome) ==
    /\ Polling
    /\ \/ ~failed /\ outcome # "done" /\ Service(outcome) /\ UNCHANGED failed
       \/ outcome = "done" /\ failed' = TRUE /\ UNCHANGED <<globalFlow, flow, halted>>
    /\ pc' = IF pc = "idle" THEN "down" ELSE "idle"
    /\ UNCHANGED <<seq, max, burst, out, freed, rx, spent>>

(* CywNetworkPower up, firmware reload and CywWorker's entry. *)
Restart ==
    /\ pc = "down"
    /\ pc' = "idle"
    /\ seq' = 0 /\ max' = 1 /\ flow' = FALSE
    /\ globalFlow' = FALSE /\ halted' = FALSE /\ failed' = FALSE
    /\ out' = 0 /\ freed' = 0 /\ rx' = <<>> /\ spent' = 0
    /\ UNCHANGED burst
-----------------------------------------------------------------------------
(* The firmware (external): it takes frames into its buffers, frees them,   *)
(* and stamps the first number it has no room for on every frame it sends.  *)
FwFree ==
    /\ freed < out
    /\ freed' = freed + 1
    /\ UNCHANGED <<driver, pc, burst, out, rx, spent>>

FwPost(f) ==
    /\ pc # "down"
    /\ Len(rx) < RxDepth
    /\ rx' = Append(rx, [limit |-> freed + Buffers, flow |-> f])
    /\ UNCHANGED <<driver, pc, burst, out, freed, spent>>
-----------------------------------------------------------------------------
Init ==
    /\ seq = 0 /\ max = 1
    /\ flow = FALSE /\ globalFlow = FALSE /\ halted = FALSE /\ failed = FALSE
    /\ pc = "idle"
    /\ frame = "small" /\ left = 0 /\ position = 2 /\ grant = 0 /\ sent = 0
    /\ out = 0 /\ freed = 0 /\ rx = <<>> /\ spent = 0

Data ==
    \/ PumpBegin \/ PumpEnd
    \/ \E size \in {"small", "bulk"} : PumpTake(size)
    \/ \E outcome \in Outcomes : FreshFails(outcome)
    \/ \E want \in 0..(Budget - sent) : (frame = "bulk" => want = 1) /\ FreshDone(want)
    \/ Reuse
    \/ \E taken \in BOOLEAN : WriteFails(taken)
    \/ \E keep \in BOOLEAN : WriteDone(keep)

CywFirmwareCommand ==
    \/ ControlBegin \/ ControlSend \/ ControlEnd
    \/ \E taken \in BOOLEAN : ControlSendFails(taken)

CywPoll ==
    \/ PollFrame
    \/ PollService
    \/ \E outcome \in Outcomes : PollFails(outcome)

Next ==
    \/ Data \/ CywFirmwareCommand \/ CywPoll \/ Restart
    \/ FwFree \/ \E f \in BOOLEAN : FwPost(f)

Spec == Init /\ [][Next]_vars

(* Every cycle of the worker runs its pumps to the end and a receive batch; *)
(* commands have a deadline; the firmware frees its buffers and sends.      *)
FairSpec ==
    /\ Spec
    /\ WF_vars(Data /\ pc # "idle") /\ WF_vars(ControlEnd) /\ SF_vars(PollFrame)
    /\ WF_vars(FwFree) /\ WF_vars(FwPost(FALSE))
-----------------------------------------------------------------------------
(* Properties. *)

(* Type invariant. *)
Header == [limit : Nat, flow : BOOLEAN]
TypeOK ==
    /\ seq \in 0..(SeqMod - 1) /\ max \in 0..(SeqMod - 1)
    /\ flow \in BOOLEAN /\ globalFlow \in BOOLEAN /\ halted \in BOOLEAN
    /\ failed \in BOOLEAN
    /\ pc \in {"idle", "pump", "fresh", "reuse", "write", "control", "reply", "down"}
    /\ frame \in {"small", "bulk"}
    /\ left \in Nat /\ position \in Nat /\ grant \in Nat /\ sent \in Nat
    /\ out \in Nat /\ freed \in Nat /\ spent \in Nat
    /\ rx \in Seq(Header)

(* The window CywTxCredit computes from two bytes is never larger than the  *)
(* room the firmware really has, across wrap-around of the sequence number, *)
(* headers that waited in the FIFO and control frames between data frames;  *)
(* and the firmware's buffers are never overrun, not even by a transfer     *)
(* that the bus reported as failed and the firmware took.                   *)
CreditTrue ==
    /\ ~failed => UChar(max - seq) <= freed + Buffers - out
    /\ out <= freed + Buffers

(* "Never replay a partially consumed FIFO": every frame the firmware takes *)
(* bears the next number, also when a control command swallowed a FIFO      *)
(* failure and the worker went on.                                          *)
NumbersInOrder == [][out' > out => seq = UChar(out)]_vars

(* "Bulk payloads must keep main-style fresh-F1 pacing", no data frame      *)
(* leaves when the last status the driver read says stop, and at most       *)
(* BurstMax leave on one F1 service.  A burst never reaches a position the  *)
(* sender rejects: that rejection is no BUSY and would stop the worker.     *)
DataDiscipline ==
    [][ /\ out' > out /\ pc = "write" =>
             Flowing /\ spent < BurstMax /\ (frame = "bulk" => spent = 0)
        /\ pc' = "reuse" => position' \in ReusePositions ]_vars

(* An exhausted window is replenished: credit is not lost for good at the   *)
(* wrap of the sequence number.                                             *)
CreditReturns == seq = max ~> (seq # max \/ failed \/ pc = "down")
=============================================================================
