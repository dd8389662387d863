------------------------------- MODULE Receive -------------------------------
(***************************************************************************)
(* The receive side of the SDPCM transport: CywPoll of                     *)
(* src/src/cyw43455/transport_poll.h with the read-ahead hints and the     *)
(* glommed superframes of rx_performance.h, and its three callers on the   *)
(* bus worker: the receive batch of network.c, and the credit wait and the *)
(* reply wait of CywFirmwareCommand in control.h.  The commands are those  *)
(* of CywConfigureRxAggregation (rx_config.h) and then any other.          *)
(*                                                                         *)
(* A frame in the FIFO of the card is a record; a data frame is its number,*)
(* a superframe the number of its first child.  Credits are Sdpcm's        *)
(* subject, the status registers F1Service's, and what CywReceive and      *)
(* CywEvent make of a frame Control's.                                     *)
(***************************************************************************)
EXTENDS Integers, Sequences

CONSTANTS
    IdMod,          \* request identifiers: N->RequestId is a USHORT, 65536
    BatchMax,       \* frames of one receive batch: 4
    Lens,           \* lengths of data frames in units of 16 bytes
    HintMin,        \* the shortest length a hint may name: 64 bytes
    GlomMax,        \* children of one superframe: 32
    FifoDepth,      \* bound on frames in the FIFO, and for model checking
    MaxFrames,      \* only: on data frames,
    MaxRequests,    \* on commands
    MaxRestarts     \* and on restarts of the worker

ASSUME ReceiveAssumption ==
    /\ {IdMod, BatchMax, HintMin, GlomMax} \subseteq Nat \ {0}
    /\ {FifoDepth, MaxFrames, MaxRequests, MaxRestarts} \subseteq Nat
    /\ Lens \subseteq Nat \ {0}

VARIABLES
    fifo,       \* frames the card has queued for the host
    posted,     \* data frames the firmware has queued
    fwGlom,     \* the firmware gloms (bus:txglom)
    held,       \* commands the firmware has not answered
    rx,         \* the receive state of CYW_NETWORK and of the adapter
    glomEnabled,\* A->RxGlomEnabled
    stage,      \* step of CywConfigureRxAggregation, or "run"
    pc,         \* control point of the worker
    count,      \* frames polled in this batch
    serial,     \* commands issued; N->RequestId is serial % IdMod
    delivered,  \* history: the last data frame handed to CywReceive
    answer,     \* history: the last command that took a reply, and whose it was
    fault,      \* history: a transfer failed or the card sent a malformed frame
    restarts

firmware == <<fwGlom, held>>
command  == <<stage, serial, answer, glomEnabled>>
vars == <<fifo, posted, firmware, rx, command, pc, count, delivered, fault, restarts>>

NoGlom == [count |-> 0, index |-> 0, pending |-> FALSE, first |-> 0, next |-> 0]
Fresh  == [glom |-> NoGlom, hint |-> 0, pending |-> FALSE, serviced |-> FALSE,
           failed |-> FALSE]
-----------------------------------------------------------------------------
(* The firmware (external). *)

Frame == [chan |-> "data", n |-> 0, kids |-> 0, len |-> 1, ok |-> TRUE, refused |-> FALSE]

PostData ==
    /\ Len(fifo) < FifoDepth /\ posted < MaxFrames
    /\ \E len \in Lens :
          fifo' = Append(fifo, [Frame EXCEPT !.n = posted + 1, !.len = len])
    /\ posted' = posted + 1
    /\ UNCHANGED <<firmware, rx, command, pc, count, delivered, fault, restarts>>

(* A descriptor with the superframe it announces right behind it.  A child  *)
(* of a malformed one is no frame at all.                                   *)
PostGlom ==
    /\ fwGlom /\ Len(fifo) + 2 <= FifoDepth
    /\ \E kids \in 1..GlomMax, ok \in BOOLEAN :
          /\ posted + kids <= MaxFrames
          /\ fifo' = fifo \o <<[Frame EXCEPT !.chan = "descriptor", !.kids = kids],
                               [Frame EXCEPT !.chan = "super", !.ok = ok,
                                             !.n = IF ok THEN posted + 1 ELSE posted + 2]>>
          /\ posted' = IF ok THEN posted + kids ELSE posted
          /\ fault' = (fault \/ ~ok)
    /\ UNCHANGED <<firmware, rx, command, pc, count, delivered, restarts>>

PostMalformed ==
    /\ Len(fifo) < FifoDepth /\ ~fault
    /\ fifo' = Append(fifo, [Frame EXCEPT !.ok = FALSE])
    /\ fault' = TRUE
    /\ UNCHANGED <<posted, firmware, rx, command, pc, count, delivered, restarts>>

(* A command takes effect some time before its reply; a refused one never.  *)
FirmwareActs ==
    \E c \in held :
       /\ c.what \in {"on", "off"}
       /\ fwGlom' = (c.what = "on")
       /\ held' = (held \ {c}) \cup {[c EXCEPT !.what = "done"]}
       /\ UNCHANGED <<fifo, posted, rx, command, pc, count, delivered, fault, restarts>>

FirmwareReplies ==
    /\ Len(fifo) < FifoDepth
    /\ \E c \in held, refused \in BOOLEAN :
          /\ IF refused THEN c.what # "done" ELSE c.what \in {"done", "other"}
          /\ held' = held \ {c}
          /\ fifo' = Append(fifo, [Frame EXCEPT !.chan = "reply", !.n = c.req,
                                                !.refused = refused])
    /\ UNCHANGED <<posted, fwGlom, rx, command, pc, count, delivered, fault, restarts>>

(* The length a header announces for the frame behind it: the next one, if  *)
(* it is there already, long enough and no control frame, or nothing.       *)
NextLengths(behind) ==
    {0} \cup {Head(f).len : f \in {g \in {behind} : /\ g # <<>> /\ Head(g).chan = "data"
                                                    /\ Head(g).len >= HintMin}}
-----------------------------------------------------------------------------
(* CywPoll as the set of its outcomes: status, the reply if it read one,    *)
(* and the state it leaves.                                                 *)

Outcome(status, r, f, d) ==
    [status |-> status, rx |-> r, fifo |-> f, delivered |-> d, reply |-> Frame, fault |-> fault]

(* An early return: Stop, a latched failure, or a failed service.           *)
Refused == Outcome("error", rx, fifo, delivered)

(* Exit: the failure is latched, the superframe and the hint are forgotten. *)
Latched == Outcome("error", [Fresh EXCEPT !.failed = TRUE], fifo, delivered)
TransferFails == [Latched EXCEPT !.fault = TRUE]

(* One child of a superframe per poll.  The header of the superframe, not   *)
(* its children's, carries the hint.                                        *)
Child(glom, behind) ==
    LET last == glom.index + 1 = glom.count
    IN  Outcome("frame",
                [rx EXCEPT !.glom = IF last THEN NoGlom ELSE [glom EXCEPT !.index = @ + 1],
                           !.hint = IF last THEN glom.next ELSE @],
                behind, glom.first + glom.index)

(* CywRxGlomValidate: all of the children before the first of them.         *)
(* Mutant: a superframe is taken if its first child is sound. *)
FirstChildSound(super) == rx.glom.count > 1 \/ super.ok
CywRxGlomValidate(super) == super.chan = "super" /\ super.ok

PollGlom ==
    IF ~rx.glom.pending THEN {Child(rx.glom, fifo)}
    ELSE {TransferFails} \cup
         IF ~CywRxGlomValidate(Head(fifo)) THEN {Latched}
         ELSE {Child([rx.glom EXCEPT !.pending = FALSE, !.first = Head(fifo).n, !.next = h],
                     Tail(fifo)) : h \in NextLengths(Tail(fifo))}

(* What the status service leaves in RxPending; it is skipped only within a *)
(* batch, and only while RxPending stands.                                  *)
Serviced(batch) ==
    IF batch /\ rx.serviced /\ rx.pending THEN {rx}
    ELSE {[rx EXCEPT !.serviced = TRUE, !.pending = p] :
             p \in IF rx.pending \/ fifo # <<>> THEN {TRUE} ELSE BOOLEAN}

CywRxReadAheadValid(hint, frame) == frame.len = hint /\ frame.chan # "reply"

(* A frame from the head of the FIFO, in one transfer of the hinted length  *)
(* or in a header and the rest.                                             *)
FrameRead(r, hint) ==
    LET frame == Head(fifo)
        behind == Tail(fifo)
        kept == [r EXCEPT !.hint = 0]
        hinted == {[kept EXCEPT !.hint = h] : h \in NextLengths(behind)}
    IN  IF \/ ~frame.ok \/ frame.chan = "super"
           \/ hint # 0 /\ ~CywRxReadAheadValid(hint, frame)
           \/ frame.chan = "descriptor" /\ ~glomEnabled
        THEN {Latched}
        ELSE IF frame.chan = "descriptor"
        THEN {Outcome("frame", [kept EXCEPT !.glom = [NoGlom EXCEPT !.count = frame.kids,
                                                                    !.pending = TRUE]],
                      behind, delivered)}
        ELSE IF frame.chan = "data"
        THEN {Outcome("frame", k, behind, frame.n) : k \in hinted}
        ELSE {[Outcome("reply", k, behind, delivered) EXCEPT !.reply = frame] : k \in hinted}

FifoRead(r, batch) ==
    IF ~r.pending THEN {Outcome("none", r, fifo, delivered)}
    ELSE {TransferFails} \cup
         IF fifo = <<>>
         THEN {Outcome("none", [r EXCEPT !.hint = 0, !.pending = FALSE, !.serviced = FALSE],
                       fifo, delivered)}
         ELSE FrameRead(r, IF batch THEN r.hint ELSE 0)

CywPoll(batch) ==
    {Refused} \cup
    IF rx.failed THEN {}
    ELSE IF rx.glom.count # 0 THEN PollGlom
    ELSE UNION {FifoRead(r, batch) : r \in Serviced(batch)}

Polled(o, r) == rx' = r /\ fifo' = o.fifo /\ delivered' = o.delivered /\ fault' = o.fault
-----------------------------------------------------------------------------
(* The receive batch of the worker: at most BatchMax frames, or fewer when  *)
(* its two milliseconds are over.                                           *)
BatchStarts ==
    /\ pc = "loop"
    /\ pc' = "batch" /\ count' = 0
    /\ rx' = [rx EXCEPT !.serviced = FALSE]
    /\ UNCHANGED <<fifo, posted, firmware, command, delivered, fault, restarts>>

BatchPolls ==
    /\ pc = "batch" /\ count < BatchMax
    /\ \E o \in CywPoll(TRUE) :
          IF o.status \in {"frame", "reply"}
          THEN Polled(o, o.rx) /\ count' = count + 1 /\ UNCHANGED pc
          ELSE /\ Polled(o, [o.rx EXCEPT !.serviced = FALSE])
               /\ count' = 0
               /\ pc' = IF o.status = "none" THEN "loop" ELSE "down"
    /\ UNCHANGED <<posted, firmware, command, restarts>>

(* CywReceiveBudget: a batch has polled before its time can be over.        *)
BatchEnds ==
    /\ pc = "batch" /\ count > 0
    /\ pc' = "loop" /\ count' = 0
    /\ rx' = [rx EXCEPT !.serviced = FALSE]
    /\ UNCHANGED <<fifo, posted, firmware, command, delivered, fault, restarts>>
-----------------------------------------------------------------------------
(* CywFirmwareCommand.  That an identifier is not used again while a reply  *)
(* to its last use may still come is an assumption on the firmware: it      *)
(* would have to answer 65536 commands late.                                *)
Awaited ==
    {c.req : c \in held} \cup
    {fifo[i].n : i \in {j \in 1..Len(fifo) : fifo[j].chan = "reply"}}
IdsOutlastReplies == \A req \in Awaited : serial + 1 - req < IdMod

CommandStarts ==
    /\ pc \in {"configure", "loop"}
    /\ serial < MaxRequests /\ IdsOutlastReplies
    /\ serial' = serial + 1
    /\ pc' = "credit"
    /\ UNCHANGED <<fifo, posted, firmware, rx, stage, answer, glomEnabled, count,
                   delivered, fault, restarts>>

(* CywConfigureRxAggregation: the stages a verdict on the command of this   *)
(* stage may lead to, and whether the parser is on in the next one.  With   *)
(* no block transfers it ends after the second command; a refusal is undone *)
(* if it says UNSUPPORTED, and ends the worker otherwise.                   *)
AfterCommand(verdict) ==
    IF stage = "run" THEN {"run"}
    ELSE IF verdict = "ok"
    THEN IF stage = "txOff" THEN {"rxOff"}
         ELSE IF stage = "rxOff" THEN {"align", "run"}
         ELSE IF stage = "align" THEN {"glomOn"} ELSE {"run"}
    ELSE IF verdict = "refused" /\ stage \in {"align", "glomOn"} THEN {"undo", "down"}
    ELSE {"down"}

(* Mutant: the parser is enabled once the firmware has confirmed. *)
ParserLast(after) ==
    IF stage = "run" THEN glomEnabled ELSE stage = "glomOn" /\ after = "run"
ParserOn(after) ==
    IF stage = "run" THEN glomEnabled
    ELSE after = "glomOn" \/ (stage = "glomOn" /\ after = "run")

CommandEnds(verdict) ==
    \E after \in AfterCommand(verdict) :
       /\ glomEnabled' = ParserOn(after)
       /\ stage' = IF after = "down" THEN stage ELSE after
       /\ pc' = IF after = "down" THEN "down" ELSE IF after = "run" THEN "loop" ELSE "configure"

(* The credit wait polls until there is credit or the deadline is over; the *)
(* send fails without credit, and a failed transfer is latched.             *)
CreditPolls ==
    /\ pc = "credit"
    /\ \E o \in CywPoll(FALSE) :
          /\ Polled(o, o.rx)
          /\ IF o.status = "error" THEN CommandEnds("error")
             ELSE UNCHANGED <<pc, stage, glomEnabled>>
    /\ UNCHANGED <<posted, firmware, serial, answer, count, restarts>>

What == IF stage = "glomOn" THEN "on"
        ELSE IF stage \in {"txOff", "undo"} THEN "off" ELSE "other"
CommandSends ==
    /\ pc = "credit"
    /\ \/ /\ pc' = "reply"
          /\ held' = held \cup {[req |-> serial, what |-> What]}
          /\ UNCHANGED <<rx, fault, stage, glomEnabled>>
       \/ /\ CommandEnds("error")
          /\ \/ UNCHANGED <<rx, fault>>
             \/ rx' = [rx EXCEPT !.failed = TRUE] /\ fault' = TRUE
          /\ UNCHANGED held
    /\ UNCHANGED <<fifo, posted, fwGlom, serial, answer, count, delivered, restarts>>

(* The reply wait passes over every frame that is not the reply.            *)
(* Mutant: any reply to the same command will do. *)
AnyReply(reply) == TRUE
ReplyMatches(reply) == reply.n % IdMod = serial % IdMod

ReplyPolls ==
    /\ pc = "reply"
    /\ \E o \in CywPoll(FALSE) :
          /\ Polled(o, o.rx)
          /\ IF o.status = "error" THEN CommandEnds("error") /\ UNCHANGED answer
             ELSE IF o.status = "reply" /\ ReplyMatches(o.reply)
             THEN /\ CommandEnds(IF o.reply.refused THEN "refused" ELSE "ok")
                  /\ answer' = <<serial, o.reply.n>>
             ELSE UNCHANGED <<pc, stage, glomEnabled, answer>>
    /\ UNCHANGED <<posted, firmware, serial, count, restarts>>

CommandTimesOut ==
    /\ pc = "reply"
    /\ CommandEnds("error")
    /\ UNCHANGED <<fifo, posted, firmware, rx, serial, answer, count, delivered, fault, restarts>>

(* A new worker: the firmware is loaded anew, CywNetworkPower and CywWorker *)
(* clear the receive state, SdioPrepareRuntimeFifo the latched failure.     *)
(* What was in the FIFO is lost.  RequestId goes on.                        *)
Restarts ==
    /\ pc = "down" /\ restarts < MaxRestarts
    /\ fifo' = <<>> /\ posted' = delivered /\ fwGlom' = FALSE /\ held' = {}
    /\ rx' = Fresh /\ glomEnabled' = FALSE /\ fault' = FALSE
    /\ stage' = "txOff" /\ pc' = "configure" /\ count' = 0
    /\ restarts' = restarts + 1
    /\ UNCHANGED <<serial, answer, delivered>>
-----------------------------------------------------------------------------
Init ==
    /\ fifo = <<>> /\ posted = 0 /\ fwGlom = FALSE /\ held = {}
    /\ rx = Fresh /\ glomEnabled = FALSE
    /\ stage = "txOff" /\ pc = "configure" /\ count = 0
    /\ serial = 0 /\ delivered = 0 /\ answer = <<0, 0>> /\ fault = FALSE /\ restarts = 0

Firmware == PostData \/ PostGlom \/ PostMalformed \/ FirmwareActs \/ FirmwareReplies
Worker ==
    \/ BatchStarts \/ BatchPolls \/ BatchEnds
    \/ CommandStarts \/ CreditPolls \/ CommandSends \/ ReplyPolls \/ CommandTimesOut

Next == Firmware \/ Worker \/ Restarts
Spec == Init /\ [][Next]_vars
-----------------------------------------------------------------------------
(* Properties. *)

(* The reply a command takes is the reply to that command, although replies *)
(* to commands that timed out may arrive at any time, in any order, and the *)
(* identifier is a USHORT that wraps.                                       *)
ReplyIsOwn == answer[1] = answer[2]

(* Data frames reach CywReceive one by one in the order the firmware sent   *)
(* them, none twice and none left out, single or in superframes, in batches *)
(* or between the frames of a command; no child of a superframe that does   *)
(* not validate as a whole reaches it.                                      *)
InOrderOnce == [][delivered' = delivered \/ delivered' = delivered + 1]_vars

(* The driver latches FifoTransportFailed, which ends the worker, only when *)
(* a transfer failed or the card sent a malformed frame: never because a    *)
(* hint, the parser's switch or a descriptor it keeps is out of step.       *)
NoOwnLatch == rx.failed => fault
=============================================================================
