------------------------------ MODULE BusMode -------------------------------
(***************************************************************************)
(* The SDIO bus from probe to traffic: host and card initialisation and    *)
(* identification (src/src/sdio/sdio.c), the width, timing and clock of    *)
(* both ends and the ways back (bus_mode.h), the firmware start that runs  *)
(* on them (cyw43455/firmware.c, startup_bus.h, chip.c), the backplane     *)
(* window and its cache, and the runtime FIFO (fifo_blocks.h).             *)
(*                                                                         *)
(* One thread owns the bus; beside it, a stop request and IoStopped may be *)
(* set at any time, and the host controller may leave its voltage or UHS   *)
(* mode.  Every command may fail, before or after the card has obeyed.     *)
(* `pc' is the step of the thread and `task' the part of the start that    *)
(* the step works for; a task ends in "done" or "failed".                  *)
(***************************************************************************)
EXTENDS Integers

CONSTANTS
    Reads,      \* chip-ID reads that verify a bus setting (16 in the code)
    PerClock,   \* SDIO_CMD5_CYCLES_PER_CLOCK
    MaxStarts   \* bound on probes, for model checking only

ASSUME BusModeAssumption ==
    Reads \in Nat \ {0} /\ PerClock \in Nat \ {0} /\ MaxStarts \in Nat

VARIABLES
    pc, task,
    card,       \* wide, hs, backplane window, F2 block size 512 set; torn
                \* (history): an F2 transfer has failed since function 2 was enabled
    host,       \* wide, hs, clock in kHz (0: gated)
    modeKept,   \* HOST_CONTROL2 and POWER_CONTROL are as the driver read them
    stop,       \* N->Stop
    ioStopped,  \* A->IoStopped
    view,       \* BusModeStage, BusWidth, BusActualKhz, BusHighSpeedActive,
                \* BusHighSpeedAttempted, BusRecoveryStatus is a success
    cache,      \* BpWindowValid, BpWindow
    fifo,       \* FifoBlockReady, FifoTransportFailed
    op,         \* who called SdioSetDefaultBus
    count,      \* CMD5 cycles, or accesses of the task
    retried,    \* busRetried
    touched,    \* NetworkPhase >= 410
    starts

env  == <<modeKept, stop, ioStopped>>
vars == <<pc, task, card, host, env, view, cache, fifo, op, count, retried, touched,
          starts>>

Windows  == {"none", "mixed", "common", "core", "ram", "wrapper"}
Clocks   == {0, 100, 200, 400, 25000, 50000}
IdleCard == [wide |-> FALSE, hs |-> FALSE, window |-> "none", block |-> FALSE,
             torn |-> FALSE]
Results  == {"ok", "late", "fail"}

(* Both ends of the bus agree, and the clock is one the timing allows. *)
Matched ==
    /\ card.wide = host.wide /\ card.hs = host.hs
    /\ host.clock # 0 /\ (host.clock > 25000 => host.hs)
Cancelled == stop \/ ioStopped

(* The mode in which CywWindow caches and CMD53 polls fast. *)
OperatingBus ==
    /\ view.stage = 6 /\ view.width = 4 /\ view.khz > 400
    /\ view.khz <= (IF view.hs THEN 50000 ELSE 25000)
-----------------------------------------------------------------------------
(* Commands. *)

(* SdioResetHost after a failed command or transfer. *)
ResetHost == cache' = [cache EXCEPT !.valid = FALSE] /\ fifo' = [fifo EXCEPT !.ready = FALSE]

(* CMD52 writes that bring the card to `to'; `clears' when one is to a      *)
(* window byte, IO_ENABLE or ABORT.  A late one was obeyed and is reported  *)
(* as failed: its reply or its readback was lost.                           *)
Cmd52Write(result, to, clears) ==
    /\ result # "fail" => ~ioStopped
    /\ card' = IF result = "fail" THEN card ELSE to
    /\ IF result = "ok"
       THEN cache' = [cache EXCEPT !.valid = @ /\ ~clears] /\ UNCHANGED fifo
       ELSE ResetHost

(* SdioSetClock: it stops the clock first; the readback may be wrong. *)
SetClock(result, khz) ==
    /\ cache' = [cache EXCEPT !.valid = FALSE]
    /\ result # "fail" => ~ioStopped
    /\ host' = [host EXCEPT !.clock = IF ioStopped THEN @
                                      ELSE IF result = "fail" THEN 0 ELSE khz]
Khz(result, khz) == IF result = "ok" THEN khz ELSE view.khz
-----------------------------------------------------------------------------
(* Rpi5CywDirectSdioProbe. *)

Start ==
    /\ pc = "off" /\ starts < MaxStarts
    /\ pc' = "host" /\ task' = "probe" /\ starts' = starts + 1
    /\ stop' = FALSE /\ ioStopped' = FALSE
    /\ UNCHANGED <<card, host, modeKept, view, cache, fifo, op, count, retried, touched>>

(* SdioInitializeHost *)
InitializeHost(result) ==
    /\ pc = "host"
    /\ ResetHost
    /\ result # "fail" => ~ioStopped
    /\ host' \in IF ioStopped THEN {host}
                 ELSE IF result = "fail" THEN {host, [wide |-> FALSE, hs |-> FALSE, clock |-> 0]}
                 ELSE {[wide |-> FALSE, hs |-> FALSE, clock |-> 400]}
    /\ view' = [view EXCEPT !.khz = Khz(result, 400)]
    /\ modeKept' = (modeKept \/ result = "ok")
    /\ pc' = IF result = "ok" THEN "reset" ELSE "failed"
    /\ UNCHANGED <<task, card, stop, ioStopped, op, count, retried, touched, starts>>

(* The I/O reset of a card that had an address; its result is not looked at.*)
(* A card that was without power has come up idle.                          *)
ResetCard(result) ==
    /\ pc = "reset"
    /\ \/ Cmd52Write(result, [IdleCard EXCEPT !.torn = card.torn], TRUE)
       \/ result = "ok" /\ card' = IdleCard /\ UNCHANGED <<cache, fifo>>
    /\ pc' = "cmd5" /\ count' = 0
    /\ UNCHANGED <<task, host, env, view, op, retried, touched, starts>>

(* SdioNegotiateOperatingConditionWithRetries: one cycle of two CMD5.  A    *)
(* new clock needs SdioSetClock and CMD0, and their failure ends it.        *)
Cycles == 3 * PerClock
SdioGetCmd5CycleClockKhz(cycle) ==
    IF cycle < PerClock THEN 400 ELSE IF cycle < 2 * PerClock THEN 200 ELSE 100
Cmd5Cycle(result, ready) ==
    LET khz == SdioGetCmd5CycleClockKhz(count)
    IN  /\ pc = "cmd5"
        /\ IF count % PerClock = 0
           THEN SetClock(result, khz) /\ view' = [view EXCEPT !.khz = Khz(result, khz)]
           ELSE result = "ok" /\ UNCHANGED <<cache, host, view>>
        /\ ready => result = "ok" /\ ~ioStopped
        /\ count' = count + 1
        /\ pc' = IF result # "ok" THEN "failed"
                 ELSE IF ready THEN "select"
                 ELSE IF count' = Cycles THEN "failed" ELSE "cmd5"
        /\ UNCHANGED <<task, card, env, fifo, op, retried, touched, starts>>

(* CMD3, CMD7 and the CCCR revision; then both ends are set to one bit.     *)
SelectCard(ok) ==
    /\ pc = "select"
    /\ ok => ~ioStopped
    /\ IF ok THEN UNCHANGED <<cache, fifo>> ELSE ResetHost
    /\ view' = [view EXCEPT !.stage = IF ok THEN 1 ELSE @,
                            !.width = IF ok THEN 0 ELSE @, !.khz = IF ok THEN 0 ELSE @]
    /\ pc' = IF ok THEN "slow" ELSE "failed"
    /\ op' = "ident"
    /\ UNCHANGED <<task, card, host, env, count, retried, touched, starts>>
-----------------------------------------------------------------------------
(* SdioSetDefaultBus, called by SdioRestoreIdentificationBus ("ident", and  *)
(* "rescue" where the caller fails whatever it returns),                    *)
(* SdioRestoreDefaultOperatingBus ("default") and                           *)
(* SdioNegotiateOperatingSpeed ("upgrade").                                 *)

Wide == op \in {"default", "upgrade"}

(* The two restoring callers set the bus unknown before they begin. *)
(* Mutant: they leave width and clock as they were verified. *)
Known(v) == v
Unknown(v) == [v EXCEPT !.width = 0, !.khz = 0]
Call(who) ==
    /\ pc' = "slow"
    /\ op' = who
    /\ view' = Unknown(view)

BusStep(from, result, to) ==
    /\ pc = from
    /\ pc' = IF result = "ok" THEN to ELSE "busFailed"
    /\ UNCHANGED <<task, env, op, count, retried, touched, starts>>

LowerClock(result) == SetClock(result, 400)
DefaultSlow(result) ==
    /\ BusStep("slow", result, "speed")
    /\ \/ LowerClock(result)
       \/ ioStopped /\ result = "fail" /\ UNCHANGED <<host, cache>>
    /\ view' = [view EXCEPT !.hs = FALSE, !.khz = Khz(result, 400)]
    /\ UNCHANGED <<card, fifo>>
DefaultSpeed(result) ==
    /\ BusStep("speed", result, "width")
    /\ Cmd52Write(result, [card EXCEPT !.hs = FALSE], FALSE)
    /\ UNCHANGED <<host, view>>
DefaultWidth(result) ==
    /\ BusStep("width", result, "hostSide")
    /\ Cmd52Write(result, [card EXCEPT !.wide = Wide], FALSE)
    /\ UNCHANGED <<host, view>>
DefaultHost(result) ==
    /\ BusStep("hostSide", result, "clock")
    /\ result # "fail" => ~ioStopped
    /\ host' = IF ioStopped THEN host
               ELSE IF result = "fail" THEN [host EXCEPT !.clock = 0]
               ELSE [wide |-> Wide, hs |-> FALSE, clock |-> 0]
    /\ UNCHANGED <<card, view, cache, fifo>>
DefaultClock(result) ==
    /\ BusStep("clock", result, IF Wide THEN "fast" ELSE "busDone")
    /\ SetClock(result, 400)
    /\ view' = [view EXCEPT !.khz = Khz(result, 400),
                            !.width = IF result # "ok" THEN @ ELSE IF Wide THEN 4 ELSE 1,
                            !.stage = IF result = "ok" /\ op = "upgrade" THEN 4 ELSE @]
    /\ UNCHANGED <<card, fifo>>

(* The two callers that go on to 25 MHz. *)
OperatingClock(result) ==
    /\ BusStep("fast", result, "busDone")
    /\ SetClock(result, 25000)
    /\ view' = [view EXCEPT !.khz = Khz(result, 25000)]
    /\ UNCHANGED <<card, fifo>>

(* A failed "default" or "upgrade" is rescued; "ident" and "rescue" set the *)
(* recovery status, and a rescue the final stage.                           *)
(* Mutant: a failed rescue is rescued. *)
RescueEver == op # "ident"
Rescued == op \in {"default", "upgrade"}
BusFailed ==
    /\ pc = "busFailed"
    /\ IF Rescued
       THEN Call("rescue")
       ELSE /\ pc' = "failed"
            /\ view' = [view EXCEPT !.recovered = FALSE,
                          !.stage = IF op = "rescue" \/ task \in {"fallback", "finish"}
                                    THEN 99 ELSE @]
            /\ UNCHANGED op
    /\ UNCHANGED <<task, card, host, env, cache, fifo, count, retried, touched, starts>>

(* Where a caller that succeeded goes on: to Cyw43455Probe, to the reads    *)
(* that verify the setting, or to high speed if both ends can do it.        *)
BusDone(eligible) ==
    /\ pc = "busDone"
    /\ eligible => op = "upgrade" /\ ~ioStopped
    /\ modeKept' = (modeKept \/ op = "upgrade")
    /\ count' = 0
    /\ pc' = IF op = "rescue" THEN "failed"
             ELSE IF eligible THEN "hsSlow"
             ELSE IF task = "probe" THEN "chip" ELSE "window"
    /\ task' = IF task = "probe" THEN "chip"
               ELSE IF task = "negotiate" /\ pc' = "window" THEN "verify" ELSE task
    /\ view' = [view EXCEPT
                  !.recovered = @ \/ op # "upgrade",
                  !.attempted = @ \/ eligible,
                  !.stage = IF op = "rescue" THEN 90
                            ELSE IF task = "probe" \/ pc' = "hsSlow" THEN @ ELSE 5]
    /\ cache' = IF task \in {"prepare", "fallback", "finish"}
                THEN [cache EXCEPT !.valid = FALSE] ELSE cache
    /\ UNCHANGED <<card, host, stop, ioStopped, fifo, op, retried, touched, starts>>

(* SdioRestoreDefaultOperatingBus: a changed voltage or UHS mode is not     *)
(* repaired.  IoStopped reads as a changed mode.                            *)
ModeChanged == view.attempted /\ (~modeKept \/ ioStopped)
RestoreDefault ==
    /\ pc = "default"
    /\ IF ModeChanged
       THEN /\ \E result \in Results :
                 /\ SetClock(result, 400)
                 /\ view' = [Unknown(view) EXCEPT !.hs = FALSE, !.recovered = FALSE,
                               !.stage = 99, !.khz = IF result = "ok" THEN 400 ELSE 0]
            /\ pc' = "failed"
            /\ UNCHANGED op
       ELSE Call("default") /\ UNCHANGED <<host, cache>>
    /\ UNCHANGED <<task, card, env, fifo, count, retried, touched, starts>>

(* SdioNegotiateOperatingSpeed up to its call of SdioSetDefaultBus: the     *)
(* base clock and the card's capabilities must allow it.                    *)
Negotiate(ok) ==
    /\ pc = "negotiate"
    /\ ok => ~ioStopped
    /\ IF ok THEN UNCHANGED <<cache, fifo>> ELSE ResetHost
    /\ view' = IF ok THEN [view EXCEPT !.stage = 3, !.attempted = FALSE, !.hs = FALSE]
               ELSE [Unknown(view) EXCEPT !.attempted = FALSE, !.hs = FALSE]
    /\ op' = IF ok THEN "upgrade" ELSE "rescue"
    /\ pc' = "slow"
    /\ UNCHANGED <<task, card, host, env, count, retried, touched, starts>>

(* SdioSetHighSpeedBus; any failure goes back to default timing. *)
HsStep(from, result, to) ==
    /\ pc = from
    /\ result # "fail" => ~ioStopped
    /\ pc' = IF result = "ok" THEN to ELSE "default"
    /\ UNCHANGED <<env, op, count, retried, touched, starts>>
HsSlow(result) ==
    /\ HsStep("hsSlow", result, "hsCard")
    /\ \/ SetClock(result, 400) /\ view' = [view EXCEPT !.khz = Khz(result, 400)]
       \/ result = "fail" /\ UNCHANGED <<host, cache, view>>
    /\ UNCHANGED <<task, card, fifo>>
HsCard(result) ==
    /\ HsStep("hsCard", result, "hsHost")
    /\ Cmd52Write(result, [card EXCEPT !.hs = TRUE], FALSE)
    /\ UNCHANGED <<task, host, view>>
HsHost(result) ==
    /\ HsStep("hsHost", result, "hsFast")
    /\ host' \in IF ioStopped THEN {host}
                 ELSE IF result = "fail" THEN {host, [host EXCEPT !.clock = 0]}
                 ELSE {[host EXCEPT !.hs = TRUE, !.clock = 0]}
    /\ UNCHANGED <<task, card, view, cache, fifo>>
HsFast(result) ==
    /\ HsStep("hsFast", result, "hsCheck")
    /\ SetClock(result, 50000)
    /\ view' = [view EXCEPT !.khz = Khz(result, 50000)]
    /\ UNCHANGED <<task, card, fifo>>
HsCheck(result) ==
    /\ HsStep("hsCheck", result, "window")
    /\ result \in {"ok", "fail"} /\ (result = "ok" => modeKept)
    /\ IF result = "ok" THEN UNCHANGED <<cache, fifo>> ELSE ResetHost
    /\ view' = IF result = "ok" THEN [view EXCEPT !.hs = TRUE, !.stage = 5] ELSE view
    /\ task' = IF result = "ok" THEN "verify" ELSE task
    /\ UNCHANGED <<card, host>>
-----------------------------------------------------------------------------
(* Backplane accesses. *)

Target == IF task \in {"chip", "prepare", "fallback", "finish", "verify"} THEN "common"
          ELSE IF task \in {"setup", "halt"} THEN "wrapper"
          ELSE IF task \in {"upload", "boot"} THEN "ram" ELSE "core"
Polls == {"prepare", "fallback", "upload", "finish", "verify"}

(* CywWindow; Cyw43455Probe selects without a cache, and so does CywWindow  *)
(* while the bus is not the operating one.                                  *)
Hit == OperatingBus /\ cache.valid /\ cache.window = Target
Access == UNCHANGED <<task, host, env, view, op, count, retried, touched, starts>>
WindowHit ==
    /\ pc = "window" /\ ~(task \in Polls /\ Cancelled)
    /\ ~ioStopped /\ Hit
    /\ pc' = "xfer"
    /\ Access /\ UNCHANGED <<card, cache, fifo>>
(* Mutant: the window counts as selected before its bytes are written. *)
SelectedEarly(result) ==
    IF OperatingBus THEN [valid |-> TRUE, window |-> Target] ELSE [cache EXCEPT !.valid = FALSE]
Selected(result) ==
    IF result = "ok" /\ OperatingBus THEN [valid |-> TRUE, window |-> Target]
    ELSE [cache EXCEPT !.valid = FALSE]
WindowSelect(result) ==
    /\ pc = "window" /\ ~(task \in Polls /\ Cancelled)
    /\ ioStopped \/ ~Hit
    /\ result # "fail" => ~ioStopped
    /\ \E window \in IF ioStopped THEN {card.window}
                     ELSE IF result = "fail" THEN {card.window, "mixed"} ELSE {Target} :
         card' = [card EXCEPT !.window = window]
    /\ cache' = Selected(result)
    /\ fifo' = IF result = "ok" \/ ioStopped THEN fifo ELSE [fifo EXCEPT !.ready = FALSE]
    /\ pc' = IF result = "ok" THEN "xfer" ELSE "readFailed"
    /\ Access

(* A loop that asks CywNetworkCancelled before each access.  The boot task  *)
(* has both kinds: CywRam asks, its register accesses do not.               *)
Cancel ==
    /\ pc = "window" /\ task \in Polls \cup {"boot"} /\ Cancelled
    /\ IF task = "verify"
       THEN Call("rescue")
       ELSE /\ pc' = "failed" /\ UNCHANGED op
            /\ view' = IF task \in {"fallback", "finish"}
                       THEN [view EXCEPT !.recovered = FALSE, !.stage = 99] ELSE view
    /\ UNCHANGED <<task, card, host, env, cache, fifo, count, retried, touched, starts>>

(* CMD53 on function 1.  CywRam keeps the window between its chunks until   *)
(* they cross into the next one, but asks about a stop before each; the     *)
(* chip-ID reads of Cyw43455Probe share one window and do not ask.          *)
Transfer(again) ==
    /\ pc = "xfer" /\ ~ioStopped
    /\ again => /\ count + 1 < Reads
                /\ task = "chip" \/ (task \in {"upload", "boot"} /\ ~Cancelled)
    /\ count' = count + 1
    /\ pc' = IF count' >= Reads THEN "done" ELSE IF again THEN "xfer" ELSE "window"
    /\ UNCHANGED <<task, card, host, env, view, cache, fifo, op, retried, touched, starts>>
TransferWrong ==
    /\ pc = "xfer" /\ ~ioStopped
    /\ task \in {"chip", "setup", "upload"} \cup Polls
    /\ pc' = "readFailed"
    /\ Access /\ UNCHANGED <<card, cache, fifo>>
TransferFails ==
    /\ pc = "xfer"
    /\ ResetHost
    /\ pc' = "readFailed"
    /\ Access /\ UNCHANGED card

TryDefault == view.hs /\ ~retried
ReadFailed ==
    /\ pc = "readFailed"
    /\ \/ /\ task = "verify" /\ TryDefault
          /\ retried' = TRUE /\ pc' = "default" /\ UNCHANGED <<view, op, count>>
       \/ /\ task = "verify" /\ ~TryDefault
          /\ Call("rescue") /\ UNCHANGED <<retried, count>>
       \/ /\ task \in {"fallback", "finish"}
          /\ view' = [view EXCEPT !.recovered = FALSE, !.stage = 99]
          /\ pc' = "failed" /\ UNCHANGED <<retried, op, count>>
       \/ /\ task = "halt" /\ count' = count + 1
          /\ pc' = IF count' >= Reads THEN "done" ELSE "window"
          /\ UNCHANGED <<view, retried, op>>
       \/ /\ task \in {"setup", "prepare", "upload", "boot", "runtime"}
          /\ pc' = "failed" /\ UNCHANGED <<view, retried, op, count>>
       \/ task = "runtime" /\ pc' = "runtime" /\ UNCHANGED <<view, retried, op, count>>
       \/ task = "chip" /\ pc' = "undo" /\ UNCHANGED <<view, retried, op, count>>
    /\ UNCHANGED <<task, card, host, env, cache, fifo, touched, starts>>
-----------------------------------------------------------------------------
(* Cyw43455Probe: function 1 and the chip clock are switched on, the chip   *)
(* ID and the cores are read, and what was found is put back ("none" stands *)
(* for the window found).  A probe that cannot put it back has failed.      *)
Quiet == UNCHANGED <<task, host, env, view, op, retried, touched, starts>>
ChipOn(result) ==
    /\ pc = "chip"
    /\ Cmd52Write(result, card, TRUE)
    /\ count' = 0
    /\ pc' = IF result = "ok" THEN "window" ELSE "undo"
    /\ Quiet
ChipDone ==
    /\ pc = "done" /\ task = "chip"
    /\ pc' = "restore"
    /\ Quiet /\ UNCHANGED <<card, cache, fifo, count>>
ChipOff(result) ==
    /\ pc \in {"restore", "undo"}
    /\ Cmd52Write(result, [card EXCEPT !.window = "none"], TRUE)
    /\ pc' = IF pc = "restore" /\ result = "ok" THEN "setup" ELSE "failed"
    /\ Quiet /\ UNCHANGED count

(* CywFirmwareStart up to the CR4 reset: files, function 2 off, function 1  *)
(* on.  The first failures leave NetworkPhase at 400.                       *)
Setup(result) ==
    /\ pc = "setup" /\ task' = "setup"
    /\ Cmd52Write(result, card, TRUE)
    /\ count' = 0 /\ retried' = FALSE
    /\ touched' = (result = "ok")
    /\ pc' = IF result = "ok" THEN "window" ELSE "failed"
    /\ UNCHANGED <<host, env, view, op, starts>>

(* The start goes on from a task whose accesses all succeeded.              *)
(* CywPrepareFirmwareBus and CywFinishFirmwareBus look at the stop request  *)
(* first; the former also at the card's capabilities.                       *)
SetupDone(ok) ==
    /\ pc = "done" /\ task = "setup"
    /\ task' = "prepare"
    /\ ok => ~ioStopped
    /\ pc' = IF Cancelled \/ ~ok THEN "failed" ELSE "default"
    /\ UNCHANGED <<card, host, env, view, cache, fifo, op, count, retried, touched, starts>>
BusVerified ==
    /\ pc = "done" /\ task \in {"prepare", "fallback"}
    /\ view' = [view EXCEPT !.stage = IF task = "prepare" THEN 6 ELSE 1]
    /\ cache' = IF task = "prepare" THEN cache ELSE [cache EXCEPT !.valid = FALSE]
    /\ task' = "upload" /\ pc' = "window" /\ count' = 0
    /\ UNCHANGED <<card, host, env, fifo, op, retried, touched, starts>>
UploadDone ==
    /\ pc = "done" /\ task = "upload"
    /\ task' = "finish"
    /\ IF Cancelled THEN pc' = "failed" /\ UNCHANGED <<op, view>> ELSE Call("ident")
    /\ UNCHANGED <<card, host, env, cache, fifo, count, retried, touched, starts>>
FinishDone ==
    /\ pc = "done" /\ task = "finish"
    /\ view' = [view EXCEPT !.stage = 1]
    /\ task' = "boot" /\ pc' = "window" /\ count' = 0
    /\ UNCHANGED <<card, host, env, cache, fifo, op, retried, touched, starts>>

(* The CPU is started, the F2 block size written, function 2 enabled: the   *)
(* FIFO begins anew.                                                        *)
BootDone(result) ==
    /\ pc = "done" /\ task = "boot"
    /\ Cmd52Write(result, [card EXCEPT !.block = TRUE, !.torn = FALSE], TRUE)
    /\ task' = "negotiate"
    /\ pc' = IF result = "ok" THEN "negotiate" ELSE "failed"
    /\ UNCHANGED <<host, env, view, op, count, retried, touched, starts>>
VerifyDone ==
    /\ pc = "done" /\ task = "verify"
    /\ view' = [view EXCEPT !.stage = 6]
    /\ pc' = "arm"
    /\ UNCHANGED <<task, card, host, env, cache, fifo, op, count, retried, touched, starts>>
-----------------------------------------------------------------------------
(* Traffic. *)

(* SdioPrepareRuntimeFifo: block mode if the card has it (smb) and holds    *)
(* the block size; only here the failure latch is opened.                   *)
PrepareRuntimeFifo(ok, smb) ==
    /\ pc = "arm"
    /\ task' = "runtime"
    /\ ok => ~Cancelled /\ view.stage = 6 /\ view.width = 4 /\ view.khz > 400
    /\ ok /\ smb => card.block
    /\ IF ok
       THEN /\ fifo' = [ready |-> smb, failed |-> FALSE]
            /\ UNCHANGED cache
       ELSE ResetHost
    /\ pc' = IF ok THEN "runtime" ELSE "failed"
    /\ UNCHANGED <<card, host, env, view, op, count, retried, touched, starts>>

RegisterAccess ==
    /\ pc = "runtime"
    /\ pc' = "window" /\ count' = 0
    /\ UNCHANGED <<task, card, host, env, view, cache, fifo, op, retried, touched, starts>>
AccessDone ==
    /\ pc = "done" /\ task = "runtime"
    /\ pc' = "runtime"
    /\ UNCHANGED <<task, card, host, env, view, cache, fifo, op, count, retried, touched,
                   starts>>

(* SdioFifoTransfer, in blocks or in bytes: a failure resets the host and   *)
(* is latched.  The worker may go on after it: a command's caller does.     *)
Latch == [fifo EXCEPT !.ready = FALSE, !.failed = TRUE]
FifoFails(exit) ==
    /\ pc = "runtime" /\ ~fifo.failed
    /\ cache' = [cache EXCEPT !.valid = FALSE]
    /\ fifo' = Latch
    /\ card' = [card EXCEPT !.torn = TRUE]
    /\ pc' = IF exit THEN "failed" ELSE "runtime"
    /\ UNCHANGED <<task, host, env, view, op, count, retried, touched, starts>>

RuntimeEnds ==
    /\ pc = "runtime"
    /\ pc' = "failed"
    /\ UNCHANGED <<task, card, host, env, view, cache, fifo, op, count, retried, touched,
                   starts>>
-----------------------------------------------------------------------------
(* Ends. *)

Failed ==
    /\ pc = "failed"
    /\ IF task = "prepare" /\ ~Cancelled /\ view.stage # 99
       THEN task' = "fallback" /\ Call("ident")
       ELSE /\ pc' = IF task \in {"probe", "chip"} THEN "off" ELSE "halt"
            /\ task' = IF task \in {"probe", "chip"} THEN task ELSE "halt"
            /\ UNCHANGED <<op, view>>
    /\ UNCHANGED <<card, host, env, cache, fifo, count, retried, touched, starts>>

(* CywFirmwareStop: a chip behind a bus that could not be recovered is left *)
(* alone; otherwise it is stopped as far as the accesses succeed.           *)
(* Mutant: it is always stopped. *)
Always == ~ioStopped
MayStop == ~ioStopped /\ view.recovered
FirmwareStop ==
    /\ pc = "halt"
    /\ cache' = [cache EXCEPT !.valid = FALSE]
    /\ pc' = IF ~MayStop THEN "off" ELSE IF touched THEN "window" ELSE "done"
    /\ count' = 0
    /\ UNCHANGED <<task, card, host, env, view, fifo, op, retried, touched, starts>>
FunctionsOff(result) ==
    /\ pc = "done" /\ task = "halt"
    /\ Cmd52Write(result, card, TRUE)
    /\ pc' = "off"
    /\ Quiet /\ UNCHANGED count

(* N->Stop, IoStopped (CywNetworkShutdown) and the controller's own mode.   *)
Environment ==
    /\ pc # "off"
    /\ \/ ~stop /\ stop' = TRUE /\ UNCHANGED <<ioStopped, modeKept>>
       \/ ~ioStopped /\ ioStopped' = TRUE /\ UNCHANGED <<stop, modeKept>>
       \/ modeKept /\ modeKept' = FALSE /\ UNCHANGED <<stop, ioStopped>>
    /\ UNCHANGED <<pc, task, card, host, view, cache, fifo, op, count, retried, touched,
                   starts>>
-----------------------------------------------------------------------------
Init ==
    /\ pc = "off" /\ task = "probe" /\ op = "ident"
    /\ card = IdleCard
    /\ host = [wide |-> FALSE, hs |-> FALSE, clock |-> 0]
    /\ modeKept = TRUE /\ stop = FALSE /\ ioStopped = FALSE
    /\ view = [stage |-> 0, width |-> 0, khz |-> 0, hs |-> FALSE, attempted |-> FALSE,
               recovered |-> TRUE]
    /\ cache = [valid |-> FALSE, window |-> "none"]
    /\ fifo = [ready |-> FALSE, failed |-> FALSE]
    /\ count = 0 /\ retried = FALSE /\ touched = FALSE /\ starts = 0

Worker ==
    \/ \E result \in Results :
         \/ InitializeHost(result) \/ ResetCard(result)
         \/ DefaultSlow(result) \/ DefaultSpeed(result) \/ DefaultWidth(result)
         \/ DefaultHost(result) \/ DefaultClock(result) \/ OperatingClock(result)
         \/ HsSlow(result) \/ HsCard(result) \/ HsHost(result)
         \/ HsFast(result) \/ HsCheck(result)
         \/ WindowSelect(result) \/ ChipOn(result) \/ ChipOff(result)
         \/ Setup(result) \/ BootDone(result) \/ FunctionsOff(result)
    \/ \E result \in Results, ready \in BOOLEAN : Cmd5Cycle(result, ready)
    \/ \E ok \in BOOLEAN : SelectCard(ok) \/ Negotiate(ok) \/ SetupDone(ok)
    \/ \E eligible \in BOOLEAN : BusDone(eligible)
    \/ BusFailed \/ RestoreDefault
    \/ WindowHit \/ Cancel \/ TransferWrong \/ TransferFails \/ ReadFailed
    \/ \E again \in BOOLEAN : Transfer(again)
    \/ ChipDone \/ BusVerified \/ UploadDone \/ FinishDone \/ VerifyDone
    \/ \E ok, smb \in BOOLEAN : PrepareRuntimeFifo(ok, smb)
    \/ Failed \/ FirmwareStop
Traffic ==
    \/ RegisterAccess \/ AccessDone \/ RuntimeEnds
    \/ \E exit \in BOOLEAN : FifoFails(exit)

Next == Start \/ Worker \/ Traffic \/ Environment
Spec == Init /\ [][Next]_vars

(* The worker's own steps go on; a failed command is answered by a step.    *)
FairSpec == Spec /\ WF_vars(Worker)
-----------------------------------------------------------------------------
Stages == {0, 1, 3, 4, 5, 6, 90, 99}
Widths == {0, 1, 4}
TypeOK ==
    /\ card \in [wide : BOOLEAN, hs : BOOLEAN, window : Windows, block : BOOLEAN,
                torn : BOOLEAN]
    /\ host \in [wide : BOOLEAN, hs : BOOLEAN, clock : Clocks]
    /\ modeKept \in BOOLEAN /\ stop \in BOOLEAN /\ ioStopped \in BOOLEAN
    /\ view \in [stage : Stages, width : Widths, khz : Clocks, hs : BOOLEAN,
                 attempted : BOOLEAN, recovered : BOOLEAN]
    /\ cache \in [valid : BOOLEAN, window : Windows]
    /\ fifo \in [ready : BOOLEAN, failed : BOOLEAN]
    /\ op \in {"ident", "rescue", "default", "upgrade"}
    /\ count \in 0..(Reads + Cycles) /\ starts \in 0..MaxStarts
    /\ retried \in BOOLEAN /\ touched \in BOOLEAN

(* No data crosses a bus whose ends disagree on width or timing, or that is *)
(* clocked above its timing, whatever failed before: neither in the start,  *)
(* its fallbacks and its verification, nor in traffic, nor when             *)
(* CywFirmwareStop stops the chip after a failed start.                     *)
DataOnMatchedBus == pc \in {"xfer", "runtime"} /\ ~ioStopped => Matched

(* Every backplane access finds the window it was meant for, selected or    *)
(* cached, after partial selections, resets and changes of the bus mode.    *)
AccessInWindow == pc = "xfer" => card.window = Target

(* Once the probe has set the bus, what the driver believes of it is true:  *)
(* it polls fast and caches only on such a bus.  BusModeStage outlives the  *)
(* verified setting, and only the width and clock set to unknown tell that  *)
(* the bus is being changed.                                                *)
BelievedBusTrue ==
    OperatingBus /\ task # "probe" /\ ~ioStopped
        => Matched /\ host.wide /\ host.clock = view.khz

(* "Never replay a partially consumed FIFO": traffic is open only if no     *)
(* transfer has failed since the firmware was loaded, and blocks are used   *)
(* only if the card holds their size.                                       *)
FifoTrue ==
    pc = "runtime" => /\ card.torn => fifo.failed
                      /\ fifo.ready => card.block /\ ~fifo.failed

(* Both: what BusModeStage, BusModeKhz and the FIFO flags say of the bus    *)
(* and of the card is so.                                                   *)
BelievedTrue == BelievedBusTrue /\ FifoTrue

(* A start ends: the retries, fallbacks and rescues do not go in circles.   *)
StartEnds == pc = "host" ~> pc \in {"off", "runtime"}
=============================================================================
