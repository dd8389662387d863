------------------------------ MODULE Lifecycle ------------------------------
(***************************************************************************)
(* The life of the adapter: NDIS pausing, restarting and halting it, power *)
(* requests on one work item, the bus worker's start, loop, failure and    *)
(* exit, and the runtime recovery that a failing worker queues on another  *)
(* work item.  They share the flags of CYW_NETWORK and the gate of the     *)
(* transmit queue; only the gate has a lock.  The queue itself is TxQueue's*)
(* subject: here it is the number of NBLs the driver holds.  The link      *)
(* (Associated, Authorized and no band selection) is one flag.             *)
(***************************************************************************)
EXTENDS Integers

CONSTANTS
    Workers,        \* worker threads
    NoThread,       \* NULL
    RecoveryMax,    \* CYW_RUNTIME_RECOVERY_MAX
    MaxSends        \* bound on NBLs held, for model checking only

ASSUME LifecycleAssumption ==
    NoThread \notin Workers /\ RecoveryMax \in Nat /\ MaxSends \in Nat

VARIABLES
    \* flags shared by all
    flag,       \* Stop, Paused, Ready, IoStopped, NdisPaused, PauseAck, ThreadStarted
    thread,     \* N->Thread
    gate,       \* Sends.Gate
    held,       \* NBLs in the queue or being completed
    link,       \* the link is up, and published as MediaConnectState
    attempts,   \* RuntimeRecoveryAttempts
    freed,      \* CYW_NETWORK has been freed
    \* control points
    ndis,       \* NDIS's view: paused, pausing, running, restarting, halting
    power,      \* NDIS's view: D0 or D3, when the request has completed
    npc,        \* the thread that pauses and restarts
    lpc,        \* who may take the network down or up: power request, recovery, halt
    target,     \* the thread each of them waits for
    sawPaused,  \* the NdisPaused each of them has read
    wpc,        \* the worker threads
    wait        \* a failing worker has found recovery eligible

vars == <<flag, thread, gate, held, link, attempts, freed, ndis, power, npc, lpc,
          target, sawPaused, wpc, wait>>

Flags == {"Stop", "Paused", "Ready", "IoStopped", "NdisPaused", "PauseAck", "ThreadStarted"}
Actors == {"oid", "recovery", "halt"}
Gates == {"SUCCESS", "PAUSED", "LOW_POWER_STATE", "MEDIA_DISCONNECTED"}

(* What CywRefreshTxGate stores, given the flags and the link. *)
(* Mutant: a pause does not close the gate. *)
GateOpenPaused(f, up) ==
    IF f["IoStopped"] \/ f["Stop"] THEN "LOW_POWER_STATE"
    ELSE IF ~f["Ready"] \/ ~up THEN "MEDIA_DISCONNECTED" ELSE "SUCCESS"
CywRefreshTxGate(f, up) ==
    IF f["IoStopped"] \/ f["Stop"] THEN "LOW_POWER_STATE"
    ELSE IF f["Paused"] THEN "PAUSED"
    ELSE IF ~f["Ready"] \/ ~up THEN "MEDIA_DISCONNECTED" ELSE "SUCCESS"

(* CywLink: a change of the published state refreshes the gate. *)
CywLink(f, up) ==
    /\ link' = up
    /\ gate' = IF link = up THEN gate ELSE CywRefreshTxGate(f, up)

(* What CywTxFlush leaves of the queue. *)
(* Mutant: it closes the gate and returns nothing. *)
Unflushed == held
Flushed == 0

(* Abbreviations for what a kind of step leaves alone. *)
ndisState  == <<ndis, power, npc>>
actorState == <<lpc, target, sawPaused>>
workState  == <<wpc, wait>>
queueState == <<gate, held, link>>
-----------------------------------------------------------------------------
(* CywNetworkPause, called by NDIS on one thread. *)

PauseBegin ==
    /\ ndis = "running" /\ npc = "idle"
    /\ ndis' = "pausing"
    /\ flag' = [flag EXCEPT !["NdisPaused"] = TRUE, !["PauseAck"] = FALSE]
    /\ npc' = "set"
    /\ UNCHANGED <<thread, queueState, attempts, freed, power, actorState, workState>>

RestartBegin ==
    /\ ndis = "paused" /\ npc = "idle" /\ power = "D0" /\ lpc["oid"] = "idle"
    /\ ndis' = "restarting"
    /\ flag' = [flag EXCEPT !["NdisPaused"] = FALSE]
    /\ npc' = "set"
    /\ UNCHANGED <<thread, queueState, attempts, freed, power, actorState, workState>>

PauseSet ==
    /\ npc = "set"
    /\ flag' = [flag EXCEPT !["Paused"] = (ndis = "pausing")]
    /\ npc' = "refresh"
    /\ UNCHANGED <<thread, queueState, attempts, freed, ndis, power, actorState,
                   workState>>

PauseRefresh ==
    /\ npc = "refresh"
    /\ gate' = CywRefreshTxGate(flag, link)
    /\ npc' = IF ndis = "pausing" THEN "ask" ELSE "idle"
    /\ ndis' = IF ndis = "pausing" THEN ndis ELSE "running"
    /\ UNCHANGED <<flag, thread, held, link, attempts, freed, power, actorState,
                   workState>>

(* The worker is waited for if it is ready or sends are outstanding. *)
MustWait == flag["Ready"] \/ held > 0
PauseAsk ==
    /\ npc = "ask"
    /\ IF MustWait THEN npc' = "wait" /\ UNCHANGED ndis
       ELSE npc' = "idle" /\ ndis' = "paused"
    /\ UNCHANGED <<flag, thread, queueState, attempts, freed, power, actorState,
                   workState>>

PauseAcked ==
    /\ npc = "wait"
    /\ flag["PauseAck"]
    /\ npc' = "idle" /\ ndis' = "paused"
    /\ UNCHANGED <<flag, thread, queueState, attempts, freed, power, actorState,
                   workState>>

(* CywNetworkSend, reduced to what the gate decides. *)
Send ==
    /\ ndis \in {"running", "pausing"}
    /\ ~flag["IoStopped"] /\ gate = "SUCCESS" /\ held < MaxSends
    /\ held' = held + 1
    /\ UNCHANGED <<flag, thread, gate, link, attempts, freed, ndisState,
                   actorState, workState>>
-----------------------------------------------------------------------------
(* NDIS (external): it pauses an adapter before it powers it down or halts  *)
(* it, and makes one such request at a time.                                *)
Rested == ndis = "paused" /\ npc = "idle" /\ lpc["oid"] = "idle"

PowerRequest ==
    /\ Rested
    /\ lpc' = [lpc EXCEPT !["oid"] = IF power = "D0" THEN "off" ELSE "on"]
    /\ UNCHANGED <<flag, thread, queueState, attempts, freed, ndisState, target,
                   sawPaused, workState>>

HaltRequest ==
    /\ Rested /\ power = "D0"
    /\ ndis' = "halting"
    /\ lpc' = [lpc EXCEPT !["halt"] = "off"]
    /\ UNCHANGED <<flag, thread, queueState, attempts, freed, power, npc, target,
                   sawPaused, workState>>
-----------------------------------------------------------------------------
(* CywNetworkPower down and CywNetworkStop.  CywPowerWork, the recovery     *)
(* work item and MiniportHalt may all be in here.                           *)

At(a, p) == lpc[a] = p
Goto(a, p) == lpc' = [lpc EXCEPT ![a] = p]

OffBegin(a) ==
    /\ At(a, "off")
    /\ flag' = [flag EXCEPT !["Stop"] = TRUE, !["Ready"] = (@ /\ a = "halt")]
    /\ gate' = CywRefreshTxGate(flag', link)
    /\ Goto(a, "join")
    /\ UNCHANGED <<thread, held, link, attempts, freed, ndisState, target,
                   sawPaused, workState>>

(* Mutant: the worker is told to stop and not waited for. *)
JoinSkipped(a) == NoThread
JoinTarget(a) == thread
Join(a) ==
    /\ At(a, "join")
    /\ target' = [target EXCEPT ![a] = JoinTarget(a)]
    /\ Goto(a, IF JoinTarget(a) = NoThread THEN "drain" ELSE "joining")
    /\ UNCHANGED <<flag, thread, queueState, attempts, freed, ndisState, sawPaused,
                   workState>>

Joined(a) ==
    /\ At(a, "joining") /\ wpc[target[a]] = "gone"
    /\ thread' = IF a = "halt" THEN thread ELSE NoThread
    /\ target' = [target EXCEPT ![a] = NoThread]
    /\ Goto(a, "drain")
    /\ UNCHANGED <<flag, queueState, attempts, freed, ndisState, sawPaused, workState>>

(* CywTxFlush by the caller, the firmware stopped, and the state reset: the *)
(* power request completes, the recovery goes on to power up.               *)
PowerDown(a) ==
    /\ a # "halt" /\ At(a, "drain")
    /\ held' = Flushed
    /\ flag' = [flag EXCEPT !["IoStopped"] = TRUE]
    /\ link' = FALSE
    /\ gate' = "LOW_POWER_STATE"
    /\ power' = IF a = "oid" THEN "D3" ELSE power
    /\ Goto(a, IF a = "oid" THEN "idle" ELSE "on")
    /\ UNCHANGED <<thread, attempts, freed, ndis, npc, target, sawPaused, workState>>

HaltDown ==
    /\ At("halt", "drain")
    /\ gate' = "MEDIA_DISCONNECTED"
    /\ held' = Flushed
    /\ freed' = TRUE
    /\ Goto("halt", "idle")
    /\ UNCHANGED <<flag, thread, link, attempts, ndisState, target, sawPaused,
                   workState>>

(* CywNetworkPower up.  Done is its return, with or without success: a      *)
(* failed resume does not fail the power request.                           *)
Done(a) ==
    /\ Goto(a, "idle")
    /\ power' = IF a = "oid" THEN "D0" ELSE power

OnRunning(a) ==
    /\ At(a, "on") /\ thread # NoThread
    /\ Done(a)
    /\ UNCHANGED <<flag, thread, queueState, attempts, freed, ndis, npc, target,
                   sawPaused, workState>>

(* Line 802 reads NdisPaused, then stores it. *)
OnBegin(a) ==
    /\ At(a, "on") /\ thread = NoThread
    /\ flag' = [flag EXCEPT !["IoStopped"] = FALSE, !["Stop"] = FALSE, !["Ready"] = FALSE]
    /\ sawPaused' = [sawPaused EXCEPT ![a] = flag["NdisPaused"]]
    /\ Goto(a, "copy")
    /\ UNCHANGED <<thread, queueState, attempts, freed, ndisState, target, workState>>

OnCopy(a) ==
    /\ At(a, "copy")
    /\ flag' = [flag EXCEPT !["Paused"] = sawPaused[a]]
    /\ sawPaused' = [sawPaused EXCEPT ![a] = FALSE]
    /\ Goto(a, "probe")
    /\ UNCHANGED <<thread, queueState, attempts, freed, ndisState, target, workState>>

(* Rpi5CywDirectSdioProbe or PsCreateSystemThread fails ... *)
OnFails(a) ==
    /\ At(a, "probe")
    /\ Done(a)
    /\ UNCHANGED <<flag, thread, queueState, attempts, freed, ndis, npc, target,
                   sawPaused, workState>>

(* ... or a worker is created and waited for until it has started. *)
OnLaunch(a, w) ==
    /\ At(a, "probe")
    /\ wpc[w] = "gone" /\ thread # w /\ \A b \in Actors : target[b] # w
    /\ flag' = [flag EXCEPT !["ThreadStarted"] = FALSE]
    /\ wpc' = [wpc EXCEPT ![w] = "begin"]
    /\ Goto(a, "starting")
    /\ UNCHANGED <<thread, queueState, attempts, freed, ndisState, target, sawPaused,
                   wait>>

OnStarted(a) ==
    /\ At(a, "starting") /\ flag["ThreadStarted"]
    /\ Done(a)
    /\ UNCHANGED <<flag, thread, queueState, attempts, freed, ndis, npc, target,
                   sawPaused, workState>>

(* The work item is run. *)
RecoveryBegins ==
    /\ At("recovery", "queued")
    /\ Goto("recovery", "off")
    /\ UNCHANGED <<flag, thread, queueState, attempts, freed, ndisState, target,
                   sawPaused, workState>>
-----------------------------------------------------------------------------
(* CywWorker. *)

Worker(w, p) == wpc[w] = p
Resume(w, p) == wpc' = [wpc EXCEPT ![w] = p]
lifeState == <<attempts, freed, ndisState, actorState>>

WorkerBegin(w) ==
    /\ Worker(w, "begin")
    /\ thread' = w
    /\ flag' = [flag EXCEPT !["ThreadStarted"] = TRUE]
    /\ Resume(w, "load")
    /\ UNCHANGED <<queueState, lifeState, wait>>

(* Firmware upload and configuration: a failure, a stop, or ready. *)
WorkerLoadFails(w) ==
    /\ Worker(w, "load")
    /\ wait' = [wait EXCEPT ![w] = FALSE]
    /\ Resume(w, "failed")
    /\ UNCHANGED <<flag, thread, queueState, lifeState>>

WorkerLoaded(w) ==
    /\ Worker(w, "load")
    /\ Resume(w, IF flag["Stop"] THEN "exit" ELSE "ready")
    /\ UNCHANGED <<flag, thread, queueState, lifeState, wait>>

WorkerReady(w) ==
    /\ Worker(w, "ready")
    /\ flag' = [flag EXCEPT !["Ready"] = TRUE]
    /\ gate' = CywRefreshTxGate(flag', link)
    /\ Resume(w, "loop")
    /\ UNCHANGED <<thread, held, link, lifeState, wait>>

(* Mutant: the pause branch comes first. *)
StopUnlessPaused == flag["Stop"] /\ ~flag["Paused"]
MustStop == flag["Stop"]
WorkerLoop(w) ==
    /\ Worker(w, "loop")
    /\ IF MustStop THEN Resume(w, "exit") /\ UNCHANGED flag
       ELSE IF flag["Paused"] THEN Resume(w, "flush") /\ UNCHANGED flag
       ELSE Resume(w, "cycle") /\ flag' = [flag EXCEPT !["PauseAck"] = FALSE]
    /\ UNCHANGED <<thread, queueState, lifeState, wait>>

(* The pause branch: CywTxFlush closes the gate and returns every NBL, then *)
(* the pause is acknowledged.                                               *)
WorkerFlush(w) ==
    /\ Worker(w, "flush")
    /\ gate' = "PAUSED"
    /\ Resume(w, "drain")
    /\ UNCHANGED <<flag, thread, held, link, lifeState, wait>>

WorkerDrain(w) ==
    /\ Worker(w, "drain")
    /\ IF held = Flushed THEN Resume(w, "ack") /\ UNCHANGED held
       ELSE held' = held - 1 /\ UNCHANGED wpc
    /\ UNCHANGED <<flag, thread, gate, link, lifeState, wait>>

(* Mutant: the pause branch does not signal. *)
AckForgotten == flag["PauseAck"]
PauseAckSet == TRUE
WorkerAck(w) ==
    /\ Worker(w, "ack")
    /\ flag' = [flag EXCEPT !["PauseAck"] = PauseAckSet]
    /\ Resume(w, "loop")
    /\ UNCHANGED <<thread, queueState, lifeState, wait>>

(* A cycle: frames are sent as long as CywTxCanTransfer agrees, events      *)
(* change the link, a connect or disconnect request flushes the queue.      *)
WorkerSends(w) ==
    /\ Worker(w, "cycle") /\ held > 0
    /\ held' = held - 1
    /\ UNCHANGED <<flag, thread, gate, link, lifeState, wpc, wait>>

WorkerLink(w, up) ==
    /\ Worker(w, "cycle")
    /\ CywLink(flag, up)
    /\ UNCHANGED <<flag, thread, held, lifeState, wpc, wait>>

WorkerRequest(w, up) ==
    /\ Worker(w, "cycle")
    /\ held' = Flushed
    /\ link' = up
    /\ gate' = CywRefreshTxGate(flag, up)
    /\ UNCHANGED <<flag, thread, lifeState, wpc, wait>>

WorkerCycleEnds(w) ==
    /\ Worker(w, "cycle")
    /\ Resume(w, "loop")
    /\ UNCHANGED <<flag, thread, queueState, lifeState, wait>>

AttemptLeft == attempts < RecoveryMax
(* CywRuntimeRecoveryEligible for a failure after startup; `fatal' is its   *)
(* verdict on the status.                                                   *)
CywRuntimeRecoveryEligible(fatal) ==
    /\ fatal
    /\ ~flag["Stop"] /\ ~flag["Paused"]
    /\ AttemptLeft

WorkerCycleFails(w, fatal) ==
    /\ Worker(w, "cycle")
    /\ wait' = [wait EXCEPT ![w] = CywRuntimeRecoveryEligible(fatal)]
    /\ Resume(w, "failed")
    /\ UNCHANGED <<flag, thread, queueState, lifeState>>

WorkerFailed(w) ==
    /\ Worker(w, "failed")
    /\ flag' = [flag EXCEPT !["Ready"] = FALSE]
    /\ CywLink(flag', FALSE)
    /\ Resume(w, "queue")
    /\ UNCHANGED <<thread, held, lifeState, wait>>

(* CywQueueRuntimeRecovery; the allocation of the work item may fail. *)
WorkerQueues(w, allocated) ==
    /\ Worker(w, "queue")
    /\ IF wait[w] /\ allocated /\ At("recovery", "idle") /\ AttemptLeft
       THEN Goto("recovery", "queued") /\ attempts' = attempts + 1
       ELSE UNCHANGED <<lpc, attempts>>
    /\ wait' = [wait EXCEPT ![w] = FALSE]
    /\ Resume(w, "exit")
    /\ UNCHANGED <<flag, thread, queueState, freed, ndisState, target, sawPaused>>

WorkerExit(w) ==
    /\ Worker(w, "exit")
    /\ flag' = [flag EXCEPT !["Ready"] = FALSE]
    /\ gate' = IF flag["IoStopped"] THEN "LOW_POWER_STATE" ELSE "MEDIA_DISCONNECTED"
    /\ held' = Flushed
    /\ Resume(w, "bye")
    /\ UNCHANGED <<thread, link, lifeState, wait>>

WorkerGone(w) ==
    /\ Worker(w, "bye")
    /\ flag' = [flag EXCEPT !["PauseAck"] = TRUE]
    /\ Resume(w, "gone")
    /\ UNCHANGED <<thread, queueState, lifeState, wait>>
-----------------------------------------------------------------------------
(* MiniportInitialize has returned: the worker is starting, paused. *)
Init ==
    /\ \E w \in Workers :
          /\ thread = w
          /\ wpc = [x \in Workers |-> IF x = w THEN "load" ELSE "gone"]
    /\ flag = [x \in Flags |-> x \in {"Paused", "NdisPaused", "PauseAck", "ThreadStarted"}]
    /\ gate = "PAUSED" /\ held = 0 /\ link = FALSE
    /\ attempts = 0 /\ freed = FALSE
    /\ ndis = "paused" /\ power = "D0" /\ npc = "idle"
    /\ lpc = [a \in Actors |-> "idle"]
    /\ target = [a \in Actors |-> NoThread]
    /\ sawPaused = [a \in Actors |-> FALSE]
    /\ wait = [w \in Workers |-> FALSE]

CywNetworkPause == PauseSet \/ PauseRefresh \/ PauseAsk \/ PauseAcked

Ndis == PauseBegin \/ RestartBegin \/ Send \/ PowerRequest \/ HaltRequest

CywNetworkPower(a) ==
    \/ OffBegin(a) \/ Join(a) \/ Joined(a) \/ PowerDown(a)
    \/ OnRunning(a) \/ OnBegin(a) \/ OnCopy(a) \/ OnFails(a)
    \/ (\E w \in Workers : OnLaunch(a, w)) \/ OnStarted(a)

CywWorker(w) ==
    \/ WorkerBegin(w) \/ WorkerLoadFails(w) \/ WorkerLoaded(w) \/ WorkerReady(w)
    \/ WorkerLoop(w) \/ WorkerFlush(w) \/ WorkerDrain(w) \/ WorkerAck(w)
    \/ WorkerSends(w) \/ (\E up \in BOOLEAN : WorkerLink(w, up) \/ WorkerRequest(w, up))
    \/ WorkerCycleEnds(w) \/ (\E fatal \in BOOLEAN : WorkerCycleFails(w, fatal))
    \/ WorkerFailed(w) \/ (\E allocated \in BOOLEAN : WorkerQueues(w, allocated))
    \/ WorkerExit(w) \/ WorkerGone(w)

Next ==
    /\ ~freed
    /\ \/ Ndis \/ CywNetworkPause
       \/ (\E a \in Actors : CywNetworkPower(a)) \/ HaltDown \/ RecoveryBegins
       \/ \E w \in Workers : CywWorker(w)

Spec == Init /\ [][Next]_vars

(* Threads and work items get to run; a cycle of the worker is finite.  NDIS*)
(* need not ask for anything, and no frame need be sent.                    *)
WorkerRuns(w) ==
    \/ WorkerBegin(w) \/ WorkerLoaded(w) \/ WorkerReady(w) \/ WorkerLoop(w)
    \/ WorkerFlush(w) \/ WorkerDrain(w) \/ WorkerAck(w) \/ WorkerCycleEnds(w)
    \/ WorkerFailed(w) \/ (\E allocated \in BOOLEAN : WorkerQueues(w, allocated))
    \/ WorkerExit(w) \/ WorkerGone(w)
FairSpec ==
    /\ Spec
    /\ WF_vars(CywNetworkPause)
    /\ WF_vars(CywNetworkPower("oid"))
    /\ WF_vars(RecoveryBegins \/ CywNetworkPower("recovery"))
    /\ \A w \in Workers : WF_vars(WorkerRuns(w))
-----------------------------------------------------------------------------
(* Properties. *)

Points == {"begin", "load", "ready", "loop", "flush", "drain", "ack", "cycle", "failed",
           "queue", "exit", "bye", "gone"}

(* Type invariant. *)
TypeOK ==
    /\ flag \in [Flags -> BOOLEAN]
    /\ thread \in Workers \cup {NoThread}
    /\ gate \in Gates
    /\ held \in Nat
    /\ link \in BOOLEAN
    /\ attempts \in 0..RecoveryMax
    /\ freed \in BOOLEAN
    /\ ndis \in {"paused", "pausing", "running", "restarting", "halting"}
    /\ power \in {"D0", "D3"}
    /\ npc \in {"idle", "set", "refresh", "ask", "wait"}
    /\ lpc \in [Actors -> {"idle", "queued", "off", "join", "joining", "drain", "on",
                           "copy", "probe", "starting"}]
    /\ target \in [Actors -> Workers \cup {NoThread}]
    /\ sawPaused \in [Actors -> BOOLEAN]
    /\ wpc \in [Workers -> Points]
    /\ wait \in [Workers -> BOOLEAN]

Alive == {w \in Workers : wpc[w] # "gone"}

(* While NDIS holds the adapter paused no send gets in, whatever link event *)
(* or request the worker was in the middle of (until a recovery is queued). *)
ClosedWhilePaused == ndis = "paused" /\ attempts = 0 => gate # "SUCCESS"

(* No NBL is left in the queue when no worker is there to return it. *)
NoStrandedSend == Alive = {} => held = 0

(* "No SDIO access in D3", as far as the power request itself goes: when it *)
(* has completed no worker is left, no NBL is held, I/O is stopped.         *)
(* CywNetworkStop likewise frees the network only when its worker has gone. *)
QuietInD3 ==
    attempts = 0 =>
        /\ power = "D3" /\ lpc["oid"] = "idle" =>
             Alive = {} /\ thread = NoThread /\ held = 0 /\ flag["IoStopped"]
        /\ freed => Alive = {} /\ held = 0

(* MiniportPause, which waits for the worker, returns, also beside a failing *)
(* worker or a recovery: unless the recovery's copy of NdisPaused, read      *)
(* before the pause and stored after it, has undone the Paused it waits on.  *)
PauseReturns ==
    ndis = "pausing" ~> ndis = "paused" \/ (npc = "wait" /\ ~flag["Paused"])

(* A power request completes, also beside a failing worker or a recovery:    *)
(* unless the recovery has cleared the Stop that its worker waits to see.    *)
PowerCompletes ==
    lpc["oid"] # "idle" ~>
        lpc["oid"] = "idle" \/ (lpc["oid"] = "joining" /\ ~flag["Stop"])

(* "So callback lifetime is never invisible to Pause/D3": when MiniportPause*)
(* returns the driver holds no NBL.                                         *)
PauseDrains == [][ndis = "pausing" /\ ndis' = "paused" => held = 0]_vars
=============================================================================
