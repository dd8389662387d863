------------------------------ MODULE F1Service ------------------------------
(***************************************************************************)
(* One service of the SDPCM core's interrupt status over function 1,       *)
(* src/src/cyw43455/transport_service.h, register access by register       *)
(* access, against a chip that changes its flow state, receives frames and *)
(* posts mail at any moment in between; and the polling of the receive     *)
(* FIFO (transport_poll.h) that relies on what the service noted.          *)
(*                                                                         *)
(* Three callers on the bus worker: the data sender ("send"), the receive  *)
(* batch ("batch"), and a firmware command waiting for its reply           *)
(* ("command").  A failed service ends the worker in the first two, but    *)
(* only the command in the third.  The clock is reduced to whether the     *)
(* fallback interval has passed since the last good status read.           *)
(***************************************************************************)
EXTENDS Integers

CONSTANTS
    MaxFrames,  \* bound on received frames, for model checking only
    MaxToggles, \* bound on flow changes, for model checking only
    MaxMail     \* bound on mail, for model checking only

ASSUME ServiceAssumption == MaxFrames \in Nat /\ MaxToggles \in Nat /\ MaxMail \in Nat

VARIABLES
    \* the chip
    intst,      \* latched bits of its interrupt status: CHANGE, FRAME, MAIL
    fcState,    \* its FC_STATE bit: the firmware wants no data
    fifo,       \* frames in the receive FIFO
    mailbox,    \* contents of the host mailbox register
    mailFree,   \* the last mail has been acknowledged
    \* the driver
    pc,         \* control point of the worker
    caller,     \* on whose behalf the service runs
    ist,        \* local: the events this service handles
    globalFlow, \* Transport.GlobalFlow
    rxPending,  \* N->RxPending
    halted,     \* Transport.Halted
    rxBatch,    \* N->RxBatch
    serviced,   \* N->RxBatchServiced
    fifoFailed, \* A->FifoTransportFailed
    since,      \* time since the last good status read, if there was one
    \* history
    faulted,    \* a service has failed since the worker started
    arrived, toggles, mails

chip == <<intst, fcState, fifo, mailbox, mailFree, arrived, toggles, mails>>
vars == <<chip, pc, caller, ist, globalFlow, rxPending, halted, rxBatch, serviced,
          fifoFailed, since, faulted>>

(* CYW_INT_MASK.  FC_STATE is inside the mask but shows the chip's state:   *)
(* writing it back does not change it.                                      *)
Events == {"STATE", "CHANGE", "FRAME", "MAIL"}
Mails  == {"NONE", "NAK", "HALT"}
-----------------------------------------------------------------------------
(* The chip (external). *)

FlowChanges ==
    /\ toggles < MaxToggles
    /\ fcState' = ~fcState
    /\ intst' = intst \cup {"CHANGE"}
    /\ toggles' = toggles + 1
    /\ UNCHANGED <<fifo, mailbox, mailFree, arrived, mails, pc, caller, ist, globalFlow,
                   rxPending, halted, serviced, rxBatch, fifoFailed,
                   since, faulted>>

FrameArrives ==
    /\ arrived < MaxFrames
    /\ fifo' = fifo + 1
    /\ arrived' = arrived + 1
    /\ intst' = intst \cup {"FRAME"}
    /\ UNCHANGED <<fcState, mailbox, mailFree, toggles, mails, pc, caller, ist,
                   globalFlow, rxPending, halted, serviced, rxBatch, fifoFailed,
                   since, faulted>>

MailPosted(m) ==
    /\ mailFree /\ mails < MaxMail
    /\ mailbox' = m
    /\ mailFree' = FALSE
    /\ mails' = mails + 1
    /\ intst' = intst \cup {"MAIL"}
    /\ UNCHANGED <<fcState, fifo, arrived, toggles, pc, caller, ist, globalFlow,
                   rxPending, halted, serviced, rxBatch, fifoFailed,
                   since, faulted>>

(* What a read of the status register returns: the latched bits, the flow   *)
(* state, and bits of the core the driver has no use for.                   *)
StatusRegister == intst \cup (IF fcState THEN {"STATE"} ELSE {}) \cup {"OTHER"}

(* CYW_TRANSPORT_FALLBACK_INTERVAL passes. *)
Elapse ==
    /\ since = "short"
    /\ since' = "long"
    /\ UNCHANGED <<chip, pc, caller, ist, globalFlow, rxPending, halted, serviced,
                   rxBatch, fifoFailed, faulted>>
-----------------------------------------------------------------------------
(* The callers. *)

Fails(c) == IF c = "command" THEN "idle" ELSE "down"

(* CywSendFrameCore wants a fresh service.  A service of halted firmware is *)
(* refused.                                                                 *)
SendBegins ==
    /\ pc = "idle" /\ ~rxBatch
    /\ caller' = "send"
    /\ pc' = IF halted THEN "down" ELSE "status"
    /\ UNCHANGED <<chip, ist, globalFlow, rxPending, halted, serviced, rxBatch,
                   fifoFailed, since, faulted>>

(* CywPoll wants a service unless the batch it belongs to has had one and   *)
(* knows of frames.  A latched FIFO fails at once.                          *)
PollNeedsService(c) == c = "command" \/ ~rxBatch \/ ~serviced \/ ~rxPending
PollBegins(c) ==
    /\ pc = "idle"
    /\ c = "command" => ~rxBatch
    /\ caller' = c
    /\ pc' = IF fifoFailed \/ (PollNeedsService(c) /\ halted) THEN Fails(c)
             ELSE IF ~PollNeedsService(c) THEN "poll"
             ELSE IF rxPending THEN "status" ELSE "probe"
    /\ rxBatch' = (c = "batch")
    /\ serviced' = (serviced /\ (c = "command" \/ rxBatch))
    /\ UNCHANGED <<chip, ist, globalFlow, rxPending, halted, fifoFailed, since, faulted>>

(* The batch has spent its budget, or the worker is to stop or pause. *)
BatchEnds ==
    /\ pc = "idle" /\ rxBatch
    /\ rxBatch' = FALSE /\ serviced' = FALSE
    /\ UNCHANGED <<chip, pc, caller, ist, globalFlow, rxPending, halted, fifoFailed,
                   since, faulted>>

(* The service has succeeded.  The sender writes its frame, which a latched *)
(* FIFO refuses, or finds no credit or flow; the poller looks into the FIFO *)
(* if there may be something, and else ends its batch.                      *)
Return(pending) ==
    \/ /\ caller = "send"
       /\ pc' \in {"idle"} \cup (IF fifoFailed THEN {"down"} ELSE {})
       /\ UNCHANGED <<serviced, rxBatch>>
    \/ /\ caller # "send"
       /\ pc' = IF pending THEN "poll" ELSE "idle"
       /\ rxBatch' = (rxBatch /\ pending)
       /\ serviced' = (caller = "command" \/ pending)

(* CywPoll reads the FIFO.  An empty header clears the hint and ends the    *)
(* batch.                                                                   *)
PollReads ==
    /\ pc = "poll"
    /\ IF fifo = 0
       THEN rxPending' = FALSE /\ serviced' = FALSE /\ rxBatch' = FALSE /\ UNCHANGED fifo
       ELSE rxPending' = TRUE /\ fifo' = fifo - 1 /\ UNCHANGED <<serviced, rxBatch>>
    /\ pc' = "idle"
    /\ UNCHANGED <<intst, fcState, mailbox, mailFree, arrived, toggles, mails, caller,
                   ist, globalFlow, halted, fifoFailed, since, faulted>>

(* The read fails or the frame is malformed: the FIFO is given up, for good *)
(* and with all it holds.                                                   *)
PollFails ==
    /\ pc = "poll"
    /\ fifoFailed' = TRUE
    /\ rxPending' = FALSE /\ serviced' = FALSE
    /\ pc' = Fails(caller)
    /\ UNCHANGED <<chip, caller, ist, globalFlow, halted, rxBatch, since, faulted>>

(* The FIFO write of a command fails; the command ends, not the worker. *)
CommandWriteFails ==
    /\ pc = "idle" /\ ~rxBatch
    /\ fifoFailed' = TRUE
    /\ UNCHANGED <<chip, pc, caller, ist, globalFlow, rxPending, halted, serviced,
                   rxBatch, since, faulted>>
-----------------------------------------------------------------------------
(* CywTransportService. *)

HostEvents(bits) == bits \cap Events

(* The CCCR pending summary, read first when no frame is known of.  It may  *)
(* be blind to a latched event.  A quiet summary ends the service unless    *)
(* the fallback is due; the first one only starts the clock.                *)
(* Mutant: a quiet summary is always believed. *)
FallbackNever == FALSE
CywTransportFallbackDue == since = "long"
ProbePending(blind) ==
    /\ pc = "probe"
    /\ IF (HostEvents(StatusRegister) # {} /\ ~blind) \/ CywTransportFallbackDue
       THEN pc' = "status" /\ UNCHANGED <<since, rxBatch, serviced>>
       ELSE /\ since' = IF since = "never" THEN "short" ELSE since
            /\ Return(FALSE)
    /\ UNCHANGED <<chip, caller, ist, globalFlow, rxPending, halted, fifoFailed, faulted>>

ReadStatus ==
    /\ pc = "status"
    /\ ist' = HostEvents(StatusRegister)
    /\ globalFlow' = ("STATE" \in StatusRegister)
    /\ since' = "short"
    /\ pc' = IF ist' = {} THEN "apply" ELSE "ack"
    /\ UNCHANGED <<chip, caller, rxPending, halted, rxBatch, serviced,
                   fifoFailed, faulted>>

(* Writing a bit clears it, whatever has set it since the read. *)
AckStatus ==
    /\ pc = "ack"
    /\ intst' = intst \ ist
    /\ pc' = IF "CHANGE" \in ist THEN "change" ELSE "apply"
    /\ UNCHANGED <<fcState, fifo, mailbox, mailFree, arrived, toggles, mails, caller,
                   ist, globalFlow, rxPending, halted, rxBatch, serviced, fifoFailed,
                   since, faulted>>

(* Mutant: the flow state is not read again. *)
ChangeOnce ==
    /\ pc = "change"
    /\ intst' = intst \ {"CHANGE"}
    /\ pc' = "apply"
    /\ UNCHANGED <<fcState, fifo, mailbox, mailFree, arrived, toggles, mails, caller,
                   ist, globalFlow, rxPending, halted, rxBatch, serviced, fifoFailed,
                   since, faulted>>
AckChange ==
    /\ pc = "change"
    /\ intst' = intst \ {"CHANGE"}
    /\ pc' = "reread"
    /\ UNCHANGED <<fcState, fifo, mailbox, mailFree, arrived, toggles, mails, caller,
                   ist, globalFlow, rxPending, halted, rxBatch, serviced, fifoFailed,
                   since, faulted>>

(* New events are handled by this service but stay latched for the next. *)
RereadStatus ==
    /\ pc = "reread"
    /\ ist' = ist \cup HostEvents(StatusRegister)
    /\ globalFlow' = ({"STATE", "CHANGE"} \cap StatusRegister # {})
    /\ since' = "short"
    /\ pc' = "apply"
    /\ UNCHANGED <<chip, caller, rxPending, halted, rxBatch, serviced,
                   fifoFailed, faulted>>

(* Mutant: a frame notification is left to the next service. *)
ApplyMailOnly ==
    /\ pc = "apply"
    /\ IF "MAIL" \in ist THEN pc' = "mail" /\ UNCHANGED <<rxBatch, serviced>>
       ELSE Return(rxPending)
    /\ UNCHANGED <<chip, caller, ist, globalFlow, rxPending, halted, fifoFailed, since,
                   faulted>>
ApplyFrame ==
    /\ pc = "apply"
    /\ rxPending' = (rxPending \/ "FRAME" \in ist)
    /\ IF "MAIL" \in ist THEN pc' = "mail" /\ UNCHANGED <<rxBatch, serviced>>
       ELSE Return(rxPending')
    /\ UNCHANGED <<chip, caller, ist, globalFlow, halted, fifoFailed, since, faulted>>

(* The mailbox is read, then acknowledged; halted firmware is an error. *)
ReadMail ==
    /\ pc = "mail"
    /\ mailFree' = TRUE
    /\ rxPending' = (rxPending \/ mailbox = "NAK")
    /\ halted' = (mailbox = "HALT")
    /\ IF mailbox = "HALT"
       THEN pc' = Fails(caller) /\ UNCHANGED <<rxBatch, serviced>>
       ELSE Return(rxPending')
    /\ UNCHANGED <<intst, fcState, fifo, mailbox, arrived, toggles, mails, caller, ist,
                   globalFlow, fifoFailed, since, faulted>>

(* A register access fails: data is stopped until a service succeeds.  A    *)
(* write may have reached the chip all the same.                            *)
AccessFails(reached) ==
    /\ pc \in {"probe", "status", "ack", "change", "reread", "mail"}
    /\ intst' = CASE reached /\ pc = "ack"    -> intst \ ist
                  [] reached /\ pc = "change" -> intst \ {"CHANGE"}
                  [] OTHER -> intst
    /\ mailFree' = (mailFree \/ (reached /\ pc = "mail"))
    /\ globalFlow' = TRUE
    /\ faulted' = TRUE
    /\ pc' = Fails(caller)
    /\ UNCHANGED <<fcState, fifo, mailbox, arrived, toggles, mails, caller,
                   ist, rxPending, halted, rxBatch, serviced, fifoFailed, since>>

(* The worker is started again: CywWorker clears the transport state and    *)
(* CywNetworkPower the receive hint, and the firmware is reloaded.          *)
Restart ==
    /\ pc = "down"
    /\ pc' = "idle"
    /\ intst' = {} /\ fcState' = FALSE /\ fifo' = 0 /\ mailbox' = "NONE"
    /\ mailFree' = TRUE
    /\ globalFlow' = FALSE /\ rxPending' = FALSE /\ halted' = FALSE
    /\ rxBatch' = FALSE /\ serviced' = FALSE /\ fifoFailed' = FALSE /\ since' = "never"
    /\ ist' = {} /\ caller' = "send" /\ faulted' = FALSE
    /\ UNCHANGED <<arrived, toggles, mails>>
-----------------------------------------------------------------------------
Init ==
    /\ intst = {} /\ fcState = FALSE /\ fifo = 0 /\ mailbox = "NONE" /\ mailFree = TRUE
    /\ pc = "idle" /\ caller = "send" /\ ist = {}
    /\ globalFlow = FALSE /\ rxPending = FALSE /\ halted = FALSE
    /\ rxBatch = FALSE /\ serviced = FALSE /\ fifoFailed = FALSE /\ since = "never"
    /\ faulted = FALSE /\ arrived = 0 /\ toggles = 0 /\ mails = 0

Chip == FlowChanges \/ FrameArrives \/ \E m \in Mails \ {"NONE"} : MailPosted(m)

Batch == PollBegins("batch") \/ BatchEnds

Service ==
    \/ PollReads \/ PollFails \/ \E blind \in BOOLEAN : ProbePending(blind)
    \/ ReadStatus \/ AckStatus \/ AckChange \/ RereadStatus \/ ApplyFrame \/ ReadMail
    \/ \E reached \in BOOLEAN : AccessFails(reached)

Next ==
    \/ Chip \/ Elapse
    \/ SendBegins \/ PollBegins("command") \/ CommandWriteFails \/ Batch
    \/ Service \/ Restart

Spec == Init /\ [][Next]_vars

(* Every worker cycle runs a receive batch and every service runs to its    *)
(* end; the interrupt time runs.                                            *)
FairSpec == Spec /\ WF_vars(Service) /\ SF_vars(PollBegins("batch")) /\ WF_vars(Elapse)
-----------------------------------------------------------------------------
(* Properties. *)

(* Type invariant. *)
TypeOK ==
    /\ intst \subseteq Events \ {"STATE"} /\ fcState \in BOOLEAN /\ fifo \in Nat
    /\ mailbox \in Mails /\ mailFree \in BOOLEAN
    /\ pc \in {"idle", "probe", "status", "ack", "change", "reread", "apply", "mail",
               "poll", "down"}
    /\ caller \in {"send", "batch", "command"}
    /\ ist \subseteq Events
    /\ globalFlow \in BOOLEAN /\ rxPending \in BOOLEAN /\ halted \in BOOLEAN
    /\ rxBatch \in BOOLEAN /\ serviced \in BOOLEAN /\ fifoFailed \in BOOLEAN
    /\ since \in {"never", "short", "long"}
    /\ faulted \in BOOLEAN
    /\ arrived \in Nat /\ toggles \in Nat /\ mails \in Nat

(* "The acknowledge can cross another transition": when the flow state the  *)
(* driver holds differs from the chip's, the change is still latched, so    *)
(* the next service will see it.                                            *)
FlowChangeKept ==
    pc = "idle" /\ ~faulted /\ globalFlow # fcState => "CHANGE" \in intst

(* A frame in the FIFO is known to the driver or still latched: clearing    *)
(* the FRAME bit never forgets a frame.                                     *)
FrameKept ==
    pc = "idle" /\ ~faulted /\ ~fifoFailed /\ fifo > 0 => rxPending \/ "FRAME" \in intst

(* What carries the two across a service: between a read of the status and  *)
(* the use of its bits, the event lives in `ist' alone.                     *)
FlowHeld ==
    /\ pc \in {"change", "reread"} => "CHANGE" \in ist
    /\ ~faulted =>
          \/ globalFlow = fcState
          \/ "CHANGE" \in intst
          \/ pc \in {"ack", "change", "reread"} /\ "CHANGE" \in ist
          \/ pc = "down"
FrameHeld ==
    ~faulted /\ ~fifoFailed /\ fifo > 0 =>
        \/ rxPending
        \/ "FRAME" \in intst
        \/ pc \in {"ack", "change", "reread", "apply"} /\ "FRAME" \in ist
        \/ pc = "down"
ServiceInv == TypeOK /\ FlowHeld /\ FrameHeld

(* The fallback bounds "a summary-register blind spot": a frame is read in  *)
(* the end even if the CCCR summary never shows it.                         *)
FrameIsRead == fifo > 0 ~> (fifo = 0 \/ halted \/ faulted \/ fifoFailed)

(* "No data send may follow a failed status read/acknowledge": once an F1   *)
(* service has failed, no service lets a data frame go out before the       *)
(* worker has been stopped and started again.                               *)
NoSendAfterFault ==
    [][caller = "send" /\ pc \in {"apply", "mail"} /\ pc' = "idle" /\ ~globalFlow'
         => ~faulted]_vars
=============================================================================
