--------------------------- MODULE F1ServiceProofs ---------------------------
(***************************************************************************)
(* That a service of the interrupt status loses no event, for any number   *)
(* of frames, flow changes and mail.                                       *)
(***************************************************************************)
EXTENDS F1Service, TLAPS

(* The worker starts in a state of the invariant. *)
LEMMA InitHolds == Init => ServiceInv
<1>1. Init => fifo \in Nat /\ arrived \in Nat /\ toggles \in Nat /\ mails \in Nat
  BY DEF Init
<1>2. Init => TypeOK
  BY <1>1, Zenon DEF Init, TypeOK, Events, Mails
<1>3. Init => FlowHeld
  BY Zenon DEF Init, FlowHeld
<1>4. Init => FrameHeld
  BY DEF Init, FrameHeld
<1> QED
  BY <1>2, <1>3, <1>4 DEF ServiceInv

(* Each step of the chip, of the three callers and of the service keeps the *)
(* invariant.                                                               *)
LEMMA StepKeeps == ServiceInv /\ [Next]_vars => ServiceInv'
<1> SUFFICES ASSUME ServiceInv, [Next]_vars PROVE ServiceInv'
  OBVIOUS
<1> USE ServiceAssumption DEF ServiceInv
<1>1. CASE FlowChanges
  BY <1>1 DEF FlowChanges, Events, TypeOK, FlowHeld, FrameHeld
<1>2. CASE FrameArrives
  <2>1. TypeOK'
    BY <1>2 DEF FrameArrives, Events, TypeOK
  <2>2. FlowHeld'
    BY <1>2 DEF FrameArrives, Events, TypeOK, FlowHeld
  <2>3. FrameHeld'
    BY <1>2 DEF FrameArrives, Events, TypeOK, FrameHeld
  <2> QED
    BY <2>1, <2>2, <2>3
<1>3. ASSUME NEW m \in Mails \ {"NONE"}, MailPosted(m) PROVE ServiceInv'
  <2>1. TypeOK'
    <3>1. fifo' \in Nat /\ arrived' \in Nat /\ toggles' \in Nat /\ mails' \in Nat
      BY <1>3 DEF MailPosted, TypeOK
    <3>2. intst' \subseteq Events \ {"STATE"} /\ mailbox' \in Mails
      BY <1>3 DEF MailPosted, Events, TypeOK
    <3>3. mailFree' \in BOOLEAN
      BY <1>3, Zenon DEF MailPosted
    <3> QED
      BY <1>3, <3>1, <3>2, <3>3 DEF MailPosted, TypeOK
  <2>2. FlowHeld'
    BY <1>3 DEF MailPosted, Events, Mails, TypeOK, FlowHeld
  <2>3. FrameHeld'
    BY <1>3 DEF MailPosted, Events, Mails, TypeOK, FrameHeld
  <2> QED
    BY <2>1, <2>2, <2>3
<1>4. CASE Elapse
  BY <1>4 DEF Elapse, chip, TypeOK, FlowHeld, FrameHeld
<1>5. CASE SendBegins
  BY <1>5 DEF SendBegins, chip, TypeOK, FlowHeld, FrameHeld
<1>6. ASSUME NEW c \in {"command", "batch"}, PollBegins(c) PROVE ServiceInv'
  <2>1. TypeOK'
    BY <1>6 DEF PollBegins, Fails, chip, TypeOK
  <2>2. FlowHeld'
    BY <1>6 DEF PollBegins, Fails, chip, TypeOK, FlowHeld
  <2>3. FrameHeld'
    BY <1>6 DEF PollBegins, Fails, chip, TypeOK, FrameHeld
  <2> QED
    BY <2>1, <2>2, <2>3
<1>7. CASE CommandWriteFails
  BY <1>7 DEF CommandWriteFails, chip, TypeOK, FlowHeld, FrameHeld
<1>8. CASE BatchEnds
  BY <1>8 DEF BatchEnds, chip, TypeOK, FlowHeld, FrameHeld
<1>9. CASE PollReads
  <2>1. TypeOK'
    <3>1. fifo' \in Nat /\ arrived' \in Nat /\ toggles' \in Nat /\ mails' \in Nat
      BY <1>9 DEF PollReads, TypeOK
    <3> QED
      BY <1>9, <3>1, Zenon DEF PollReads, TypeOK
  <2>2. FlowHeld'
    BY <1>9 DEF PollReads, TypeOK, FlowHeld
  <2>3. FrameHeld'
    BY <1>9 DEF PollReads, TypeOK, FrameHeld
  <2> QED
    BY <2>1, <2>2, <2>3
<1>10. CASE PollFails
  BY <1>10 DEF PollFails, Fails, chip, TypeOK, FlowHeld, FrameHeld
<1>11. ASSUME NEW blind \in BOOLEAN, ProbePending(blind) PROVE ServiceInv'
  <2>1. TypeOK'
    <3>1. fifo' \in Nat /\ arrived' \in Nat /\ toggles' \in Nat /\ mails' \in Nat
      BY <1>11 DEF ProbePending, chip, TypeOK
    <3>2. pc' \in {"idle", "status", "poll", "down"} /\ since' \in {"never", "short", "long"}
      BY <1>11 DEF ProbePending, Return, TypeOK
    <3>3. rxBatch' \in BOOLEAN /\ serviced' \in BOOLEAN
      BY <1>11, Zenon DEF ProbePending, Return, TypeOK
    <3> QED
      BY <1>11, <3>1, <3>2, <3>3, Zenon DEF ProbePending, chip, TypeOK
  <2>2. FlowHeld'
    BY <1>11 DEF ProbePending, Return, chip, TypeOK, FlowHeld
  <2>3. FrameHeld'
    BY <1>11 DEF ProbePending, Return, chip, TypeOK, FrameHeld
  <2> QED
    BY <2>1, <2>2, <2>3
<1>12. CASE ReadStatus
  <2>1. TypeOK'
    BY <1>12 DEF ReadStatus, HostEvents, StatusRegister, chip, Events, TypeOK
  <2>2. FlowHeld'
    BY <1>12 DEF ReadStatus, HostEvents, StatusRegister, chip, Events, TypeOK, FlowHeld
  <2>3. FrameHeld'
    BY <1>12 DEF ReadStatus, HostEvents, StatusRegister, chip, Events, TypeOK, FrameHeld
  <2> QED
    BY <2>1, <2>2, <2>3
<1>13. CASE AckStatus
  <2>1. TypeOK'
    BY <1>13 DEF AckStatus, TypeOK
  <2>2. FlowHeld'
    BY <1>13 DEF AckStatus, TypeOK, FlowHeld
  <2>3. FrameHeld'
    BY <1>13 DEF AckStatus, TypeOK, FrameHeld
  <2> QED
    BY <2>1, <2>2, <2>3
<1>14. CASE AckChange
  <2>1. TypeOK'
    BY <1>14 DEF AckChange, TypeOK
  <2>2. FlowHeld'
    BY <1>14 DEF AckChange, TypeOK, FlowHeld
  <2>3. FrameHeld'
    BY <1>14 DEF AckChange, TypeOK, FrameHeld
  <2> QED
    BY <2>1, <2>2, <2>3
<1>15. CASE RereadStatus
  <2>1. TypeOK'
    BY <1>15 DEF RereadStatus, HostEvents, StatusRegister, chip, Events, TypeOK
  <2>2. FlowHeld'
    BY <1>15 DEF RereadStatus, HostEvents, StatusRegister, chip, Events, TypeOK, FlowHeld
  <2>3. FrameHeld'
    BY <1>15 DEF RereadStatus, HostEvents, StatusRegister, chip, Events, TypeOK, FrameHeld
  <2> QED
    BY <2>1, <2>2, <2>3
<1>16. CASE ApplyFrame
  <2>1. TypeOK'
    BY <1>16 DEF ApplyFrame, Return, chip, TypeOK
  <2>2. FlowHeld'
    BY <1>16 DEF ApplyFrame, Return, chip, TypeOK, FlowHeld
  <2>3. FrameHeld'
    BY <1>16 DEF ApplyFrame, Return, chip, TypeOK, FrameHeld
  <2> QED
    BY <2>1, <2>2, <2>3
<1>17. CASE ReadMail
  <2>1. TypeOK'
    BY <1>17 DEF ReadMail, Return, Fails, TypeOK
  <2>2. FlowHeld'
    BY <1>17 DEF ReadMail, Return, Fails, TypeOK, FlowHeld
  <2>3. FrameHeld'
    BY <1>17 DEF ReadMail, Return, Fails, TypeOK, FrameHeld
  <2> QED
    BY <2>1, <2>2, <2>3
<1>18. ASSUME NEW reached \in BOOLEAN, AccessFails(reached) PROVE ServiceInv'
  <2>1. TypeOK'
    BY <1>18 DEF AccessFails, Fails, TypeOK
  <2>2. FlowHeld'
    BY <1>18 DEF AccessFails, Fails, TypeOK, FlowHeld
  <2>3. FrameHeld'
    BY <1>18 DEF AccessFails, Fails, TypeOK, FrameHeld
  <2> QED
    BY <2>1, <2>2, <2>3
<1>19. CASE Restart
  <2>1. TypeOK'
    <3>1. fifo' \in Nat /\ arrived' \in Nat /\ toggles' \in Nat /\ mails' \in Nat
      BY <1>19 DEF Restart, Events, Mails, TypeOK
    <3> QED
      BY <1>19, <3>1, Zenon DEF Restart, Events, Mails, TypeOK
  <2>2. FlowHeld'
    BY <1>19 DEF Restart, Events, Mails, TypeOK, FlowHeld
  <2>3. FrameHeld'
    BY <1>19 DEF Restart, Events, Mails, TypeOK, FrameHeld
  <2> QED
    BY <2>1, <2>2, <2>3
<1>20. CASE UNCHANGED vars
  BY <1>20 DEF vars, chip, TypeOK, FlowHeld, FrameHeld
<1> QED
  BY <1>1, <1>2, <1>3, <1>4, <1>5, <1>6, <1>7, <1>8, <1>9, <1>10, <1>11, <1>12, <1>13,
     <1>14, <1>15, <1>16, <1>17, <1>18, <1>19, <1>20
     DEF Next, Chip, Batch, Service

(* The inductive invariant holds throughout. *)
THEOREM ServiceInvariant == Spec => []ServiceInv
  BY InitHolds, StepKeeps, PTL DEF Spec

(* The register bits, the hints and the control points keep their types. *)
THEOREM ServiceTypes == Spec => []TypeOK
<1>1. ServiceInv => TypeOK
  BY DEF ServiceInv
<1> QED
  BY <1>1, ServiceInvariant, PTL

(* However the chip's flow changes fall among the reads and acknowledges of *)
(* CywTransportService, the driver holds the chip's state or the change is  *)
(* still latched for the next service.                                      *)
THEOREM FlowNeverLost == Spec => []FlowChangeKept
<1>1. ServiceInv => FlowChangeKept
  BY DEF ServiceInv, FlowHeld, FlowChangeKept
<1> QED
  BY <1>1, ServiceInvariant, PTL

(* However frames arrive among the reads and acknowledges, one that is in   *)
(* the FIFO is known to CywPoll or still latched.                           *)
THEOREM FrameNeverForgotten == Spec => []FrameKept
<1>1. ServiceInv => FrameKept
  BY DEF ServiceInv, FrameHeld, FrameKept
<1> QED
  BY <1>1, ServiceInvariant, PTL

-----------------------------------------------------------------------------
(* The finding about NoSendAfterFault, delimited.  A failed service ends    *)
(* the worker unless a firmware command was waiting for it; so if no access *)
(* fails in a command's service, nothing runs between the failure and the   *)
(* restart, and no data frame follows it.                                   *)
FaultOutsideCommands == ~faulted /\ faulted' => caller # "command"
FaultIsDown == faulted => pc = "down"

(* A fault that took the worker down keeps it down until it is restarted.   *)
LEMMA DownKept ==
    FaultIsDown /\ [Next]_vars /\ [FaultOutsideCommands]_vars => FaultIsDown'
<1> SUFFICES ASSUME FaultIsDown, [Next]_vars, [FaultOutsideCommands]_vars PROVE FaultIsDown'
  OBVIOUS
<1>1. CASE UNCHANGED vars BY <1>1 DEF vars, FaultIsDown
<1>2. CASE Chip \/ Elapse
  BY <1>2 DEF Chip, FlowChanges, FrameArrives, MailPosted, Elapse, FaultIsDown
<1>3. ASSUME NEW c, PollBegins(c) PROVE FaultIsDown' BY <1>3 DEF PollBegins, FaultIsDown
<1>4. CASE SendBegins \/ CommandWriteFails \/ BatchEnds
  BY <1>4 DEF SendBegins, CommandWriteFails, BatchEnds, FaultIsDown
<1>5. CASE \/ PollReads \/ PollFails \/ ReadStatus \/ AckStatus \/ AckChange
           \/ RereadStatus \/ ApplyFrame \/ ReadMail
           \/ \E blind \in BOOLEAN : ProbePending(blind)
  BY <1>5 DEF PollReads, PollFails, ReadStatus, AckStatus, AckChange, RereadStatus, ApplyFrame,
              ReadMail, ProbePending, FaultIsDown
<1>6. ASSUME NEW reached \in BOOLEAN, AccessFails(reached) PROVE FaultIsDown'
  <2>1. faulted' /\ ~faulted BY <1>6 DEF AccessFails, FaultIsDown
  <2>2. caller # "command" BY <2>1 DEF FaultOutsideCommands, vars
  <2> QED BY <1>6, <2>2 DEF AccessFails, Fails, FaultIsDown
<1>7. CASE Restart BY <1>7 DEF Restart, FaultIsDown
<1> QED
  BY <1>1, <1>2, <1>3, <1>4, <1>5, <1>6, <1>7 DEF Next, Batch, Service

(* Only a fault in a firmware command's service can be followed by data. *)
THEOREM OnlyCommandsOutliveAFault ==
    Spec /\ [][FaultOutsideCommands]_vars => NoSendAfterFault
<1>1. Init => FaultIsDown BY DEF Init, FaultIsDown
<1>2. FaultIsDown =>
        [caller = "send" /\ pc \in {"apply", "mail"} /\ pc' = "idle" /\ ~globalFlow'
           => ~faulted]_vars
  BY DEF FaultIsDown
<1> QED BY <1>1, <1>2, DownKept, PTL DEF Spec, NoSendAfterFault
=============================================================================
