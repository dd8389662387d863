------------------------------ MODULE Interrupt ------------------------------
(***************************************************************************)
(* The card interrupt of src/src/driver/driver.c with the policy of        *)
(* interrupt_policy.h: the ISR masks CARD_INT and queues a DPC, the DPC    *)
(* wakes the bus worker, and the worker unmasks it at the end of a cycle   *)
(* that leaves the card quiet.  NDIS may disable and enable interrupts at  *)
(* any time.  The worker's loop, pause, power and halt are in Worker.      *)
(*                                                                         *)
(* CARD_INT is level triggered: a function of the card asserts it until it *)
(* is served, and it may show without one, which INTx then does not name.  *)
(***************************************************************************)
EXTENDS Integers

CONSTANT StreakLimit    \* CYW_INTERRUPT_EMPTY_WAKE_LIMIT, 32

ASSUME InterruptAssumption == StreakLimit \in Nat \ {0}

VARIABLES
    card,           \* "quiet", or "function" while INTx names one
    armed,          \* CARD_INT is on in the status and the signal enable
    registered,     \* A->InterruptRegistered, with its handle
    needsRearm,     \* A->InterruptNeedsRearm
    wakePending,    \* A->InterruptWakePending
    fallback,       \* A->InterruptStormFallback
    streak,         \* A->InterruptEmptyWakeStreak
    ioStopped,      \* A->IoStopped
    dpcQueued,      \* NDIS has the DPC in its queue
    dpc,            \* "none", "check" or "signal": a DPC between its steps
    network,        \* A->Network: "null", "live", or "freed" but not yet null
    wake            \* N->Wake, a SynchronizationEvent

policy == <<fallback, streak>>
queue  == <<dpcQueued, dpc>>
interrupt == <<card, armed, registered, needsRearm, wakePending, policy,
               ioStopped, queue, network, wake>>
-----------------------------------------------------------------------------
(* A function of the card (external) asks for service. *)
CardAsserts ==
    /\ network = "live" /\ ~ioStopped
    /\ card' = "function"
    /\ UNCHANGED <<armed, registered, needsRearm, wakePending, policy,
                   ioStopped, queue, network, wake>>

(* Rpi5CywInterrupt, for a CARD_INT that shows, with or without a function  *)
(* behind it.  A call for which it does not show changes nothing.           *)
(* Mutant: the ISR masks without leaving a note for the worker. *)
MaskOnly == armed' = FALSE /\ UNCHANGED needsRearm
MaskCard == armed' = FALSE /\ needsRearm' = TRUE
Rpi5CywInterrupt ==
    /\ registered /\ armed
    /\ MaskCard
    /\ dpcQueued' = (dpcQueued \/ ~fallback)
    /\ UNCHANGED <<card, registered, wakePending, policy, ioStopped, dpc, network, wake>>

(* Rpi5CywInterruptDpc with CywNetworkWake: WakePending, then the test of   *)
(* IoStopped and the read of A->Network, then KeSetEvent.                   *)
(* Mutant: the worker is woken first and told why afterwards. *)
DpcWakesFirst ==
    \/ /\ dpcQueued /\ dpc = "none"
       /\ dpcQueued' = FALSE /\ dpc' = "check"
       /\ wake' = (wake \/ (~ioStopped /\ network = "live"))
       /\ UNCHANGED wakePending
    \/ /\ dpc = "check"
       /\ wakePending' = TRUE
       /\ dpc' = "none"
       /\ UNCHANGED <<dpcQueued, wake>>
DpcSteps ==
    \/ /\ dpcQueued /\ dpc = "none"
       /\ dpcQueued' = FALSE /\ dpc' = "check"
       /\ wakePending' = TRUE
       /\ UNCHANGED wake
    \/ /\ dpc = "check"
       /\ dpc' = IF ioStopped \/ network = "null" THEN "none" ELSE "signal"
       /\ UNCHANGED <<dpcQueued, wakePending, wake>>
    \/ /\ dpc = "signal"
       /\ wake' = TRUE
       /\ dpc' = "none"
       /\ UNCHANGED <<dpcQueued, wakePending>>
Rpi5CywInterruptDpc ==
    /\ DpcSteps
    /\ UNCHANGED <<card, armed, registered, needsRearm, policy, ioStopped, network>>

(* NDIS's own control of the interrupt: enabling only asks the worker.      *)
Rpi5CywDisableInterrupt ==
    /\ registered
    /\ armed' = FALSE /\ needsRearm' = TRUE
    /\ UNCHANGED <<card, registered, wakePending, policy, ioStopped, queue, network, wake>>

Rpi5CywEnableInterrupt ==
    /\ registered
    /\ needsRearm' = TRUE
    /\ wake' = (wake \/ (network = "live" /\ ~ioStopped))
    /\ UNCHANGED <<card, armed, registered, wakePending, policy, ioStopped, queue, network>>
-----------------------------------------------------------------------------
(* What the worker and the lifecycle calls do to the interrupt, as effects  *)
(* on its variables.                                                        *)

Rpi5CywInterruptQuiesce ==
    /\ armed' = IF registered THEN FALSE ELSE armed
    /\ needsRearm' = IF registered THEN TRUE ELSE needsRearm

Rpi5CywInterruptResetRuntime ==
    fallback' = FALSE /\ streak' = 0 /\ wakePending' = FALSE /\ needsRearm' = TRUE

(* The early return of Rpi5CywInterruptRearm. *)
RearmWanted ==
    registered /\ ~ioStopped /\ network # "null" /\ ~fallback /\ needsRearm

CywInterruptNextEmptyWakeStreak(interruptWake, useful, functions) ==
    IF ~interruptWake THEN streak
    ELSE IF useful \/ functions THEN 0
    ELSE IF streak < StreakLimit THEN streak + 1 ELSE streak

(* The INTx read and the decision it leads to: "fallback", "deferred" while *)
(* a function is pending, or "sync".                                        *)
(* Mutant: after a failed read the interrupt stays masked and nothing else. *)
ReadFailureIgnored(interruptWake, useful, readOk) ==
    [verdict |-> IF readOk /\ card = "quiet" THEN "sync" ELSE "deferred", streak |-> 0]
RearmReads(interruptWake, useful, readOk) ==
    LET functions == card = "function"
        next == CywInterruptNextEmptyWakeStreak(interruptWake, useful, functions)
    IN  IF ~readOk THEN [verdict |-> "fallback", streak |-> 0]
        ELSE IF next >= StreakLimit THEN [verdict |-> "fallback", streak |-> next]
        ELSE IF functions THEN [verdict |-> "deferred", streak |-> 0]
        ELSE [verdict |-> "sync", streak |-> next]

(* Rpi5CywInterruptRearmSync, under the interrupt's lock.                   *)
Rpi5CywInterruptRearmSync ==
    LET refused == ioStopped \/ network = "null" \/ fallback
    IN  /\ armed' = (armed \/ ~refused)
        /\ needsRearm' = (needsRearm /\ refused)
=============================================================================
