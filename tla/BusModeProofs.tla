---------------------------- MODULE BusModeProofs ----------------------------
(***************************************************************************)
(* Proofs about BusMode, for every number of verifying reads, of CMD5      *)
(* cycles and of starts: the types, that every backplane access finds its  *)
(* window, that data crosses only a bus whose ends agree, and that what    *)
(* the driver believes of the bus and of the FIFO is so.                   *)
(***************************************************************************)
EXTENDS BusMode, TLAPS

Probing  == {"host", "reset", "cmd5", "select"}
Setting  == {"slow", "speed", "width", "hostSide", "clock", "fast", "busDone", "busFailed"}
Raising  == {"hsSlow", "hsCard", "hsHost", "hsFast", "hsCheck"}
Reading  == {"window", "xfer", "readFailed"}
Working  == {"chip", "restore", "undo", "setup", "negotiate", "done", "arm", "runtime"}
Places   == {"off", "failed", "halt", "default"} \cup Probing \cup Setting \cup Raising
              \cup Reading \cup Working
Tasks    == {"probe", "chip", "setup", "prepare", "fallback", "upload", "finish", "boot",
             "negotiate", "verify", "runtime", "halt"}

(* The steps and tasks, which TypeOK leaves out, and the loops' counters.   *)
(* Until the probe has set the bus it is in the probe, and nowhere later.   *)
Placed ==
    /\ pc \in Places /\ task \in Tasks
    /\ pc = "cmd5" => count < Cycles
    /\ pc \in Reading \cup Raising => count < Reads
    /\ pc \in Probing => task = "probe"
    /\ pc \in Reading \cup Working \cup Raising \cup {"default", "halt"} => task # "probe"
    /\ pc \in {"chip", "restore", "undo", "setup"} => task = "chip"
    /\ pc = "halt" => task = "halt"
    /\ pc = "arm" => task = "verify"
    /\ pc \in {"negotiate"} \cup Raising => task = "negotiate"
    /\ pc \in Setting /\ op = "upgrade" => task = "negotiate"
    /\ pc = "runtime" => task = "runtime"

(* A cached window is the card's. *)
CacheTrue ==
    /\ cache.valid => card.window = cache.window
    /\ pc = "reset" => ~cache.valid

(* How far SdioSetDefaultBus and SdioSetHighSpeedBus have brought the ends.  *)
Halfway ==
    /\ pc \in {"width", "hostSide", "clock", "fast", "busDone"} => ~card.hs
    /\ pc \in {"hostSide", "clock", "fast", "busDone"} => card.wide = Wide
    /\ pc \in {"clock", "fast", "busDone"} => host.wide = Wide /\ ~host.hs
    /\ pc = "fast" => Wide /\ host.clock = 400 /\ view.width = 4
    /\ pc = "busDone" => host.clock = view.khz
                           /\ view.khz = (IF Wide THEN 25000 ELSE 400)
                           /\ view.width = (IF Wide THEN 4 ELSE 1)
    /\ pc \in Raising => host.wide /\ card.wide
    /\ pc \in {"hsHost", "hsFast", "hsCheck"} => card.hs
    /\ pc \in {"hsFast", "hsCheck"} => host.hs
    /\ pc = "hsCheck" => host.clock = 50000 /\ view.khz = 50000

(* Where the thread uses the bus its ends agree, and with the driver's view *)
(* of them unless it is stopping the chip; where it has given up they agree *)
(* unless the recovery status says otherwise.                               *)
Agreed ==
    /\ pc \in Reading \cup Working /\ ~ioStopped => Matched
    /\ pc \in Reading \cup Working /\ ~ioStopped /\ task # "halt"
         => host.clock = view.khz /\ (view.width = 4 => host.wide)
    /\ pc \in {"failed", "halt"} /\ task \notin {"probe", "chip"} /\ view.recovered /\ ~ioStopped
         => Matched

(* While the ends are being changed the driver does not take the bus for    *)
(* the operating one, although BusModeStage may still say so.               *)
Doubted ==
    /\ pc \in Setting /\ op = "upgrade" => view.stage \in {3, 4}
    /\ pc \in {"fast", "busDone"} /\ op = "upgrade" => view.stage = 4
    /\ pc \in {"slow", "speed", "width", "hostSide", "clock"} /\ op # "upgrade" => view.width = 0
    /\ pc = "fast" => view.khz = 400
    /\ pc = "busFailed" /\ op # "upgrade" => view.width # 4 \/ view.khz <= 400
    /\ pc \in Raising => view.stage = 4
    /\ pc \in Setting /\ task = "probe" => op = "ident" /\ view.stage = 1

(* From the start of the firmware to its traffic no transfer has failed     *)
(* that is not latched.                                                     *)
Latched ==
    /\ task \in {"negotiate", "verify"} /\ pc # "failed" => ~card.torn
    /\ task = "runtime" /\ pc # "failed" =>
         /\ card.torn => fifo.failed
         /\ fifo.ready => card.block /\ ~fifo.failed

(* The type invariant with the places, the windows with the latch, and the  *)
(* bus: each part is kept by the steps of a run that keeps those before it. *)
Typed == TypeOK /\ Placed
WindowInv == CacheTrue /\ AccessInWindow /\ Latched
BusInv == Halfway /\ Agreed /\ Doubted /\ BelievedBusTrue
-----------------------------------------------------------------------------
(* Types, one variable at a time. *)

CardOK == card \in [wide : BOOLEAN, hs : BOOLEAN, window : Windows, block : BOOLEAN,
                     torn : BOOLEAN]
HostOK == host \in [wide : BOOLEAN, hs : BOOLEAN, clock : Clocks]
ViewOK == view \in [stage : Stages, width : Widths, khz : Clocks, hs : BOOLEAN,
                     attempted : BOOLEAN, recovered : BOOLEAN]
CacheOK == cache \in [valid : BOOLEAN, window : Windows]
FlagsOK ==
    /\ modeKept \in BOOLEAN /\ stop \in BOOLEAN /\ ioStopped \in BOOLEAN
    /\ retried \in BOOLEAN /\ touched \in BOOLEAN
    /\ op \in {"ident", "rescue", "default", "upgrade"}
CountsOK == count \in 0..(Reads + Cycles) /\ starts \in 0..MaxStarts
FifoOK == fifo \in [ready : BOOLEAN, failed : BOOLEAN]

(* The values the driver assigns are of their types. *)
LEMMA KnownValues ==
    /\ 0 \in Clocks /\ 100 \in Clocks /\ 200 \in Clocks /\ 400 \in Clocks /\ 25000 \in Clocks
    /\ 50000 \in Clocks
    /\ 1 \in Stages /\ 3 \in Stages /\ 4 \in Stages /\ 5 \in Stages /\ 6 \in Stages
    /\ 90 \in Stages /\ 99 \in Stages
    /\ 0 \in Widths /\ 1 \in Widths /\ 4 \in Widths
BY DEF Clocks, Stages, Widths

(* The card as it comes up is typed. *)
LEMMA IdleCardTyped ==
    IdleCard \in [wide : BOOLEAN, hs : BOOLEAN, window : Windows, block : BOOLEAN,
                  torn : BOOLEAN]
<1>1. "none" \in Windows BY DEF Windows
<1>2. QED BY <1>1 DEF IdleCard

(* So is the host at 400 kHz or with its clock gated. *)
LEMMA SlowHostTyped ==
    \A khz \in {0, 400} :
       [wide |-> FALSE, hs |-> FALSE, clock |-> khz]
          \in [wide : BOOLEAN, hs : BOOLEAN, clock : Clocks]
<1>1. \A khz \in {0, 400} : khz \in Clocks BY KnownValues
<1>2. QED BY <1>1

(* SdioSetClock leaves a clock of its type. *)
LEMMA ClockTyped ==
    ASSUME HostOK, NEW result, NEW khz \in Clocks, SetClock(result, khz)
    PROVE  HostOK'
<1> DEFINE k == IF ioStopped THEN host.clock ELSE IF result = "fail" THEN 0 ELSE khz
<1>1. k \in Clocks BY KnownValues DEF HostOK
<1>2. host' = [host EXCEPT !.clock = k] BY DEF SetClock
<1> HIDE DEF k
<1>3. QED BY <1>1, <1>2 DEF HostOK

(* Whoever calls, the call begins at the lowering of the clock. *)
LEMMA CallBegins == ASSUME NEW who, Call(who) PROVE pc' = "slow" /\ op' = who
BY DEF Call

(* Every step keeps the type of card. *)
LEMMA CardTyped == CardOK /\ [Next]_vars => CardOK'
<1> SUFFICES ASSUME CardOK, [Next]_vars PROVE CardOK' OBVIOUS
<1> USE BusModeAssumption DEF CardOK, Windows, Results, Target, env
<1>1. CASE Start \/ WindowHit \/ TransferWrong \/ TransferFails \/ ChipDone \/ Environment
      BY <1>1 DEF Start, WindowHit, Access, Hit, TransferWrong, TransferFails, ResetHost,
         ChipDone, Quiet, Environment
<1>2. CASE BusVerified \/ FinishDone \/ VerifyDone \/ RegisterAccess \/ AccessDone \/
      RuntimeEnds \/ FirmwareStop
      BY <1>2 DEF BusVerified, FinishDone, VerifyDone, RegisterAccess, AccessDone,
         RuntimeEnds, FirmwareStop, MayStop
<1>3. CASE Cancel \/ ReadFailed \/ UploadDone \/ Failed \/ BusFailed \/ RestoreDefault
      BY <1>3, CallBegins DEF Cancel, Polls, ReadFailed, TryDefault, UploadDone, Failed,
         BusFailed, Rescued, RestoreDefault, ModeChanged, SetClock, Unknown
<1>4. ASSUME NEW result \in Results, InitializeHost(result) PROVE CardOK'
      BY <1>4 DEF InitializeHost, ResetHost, Khz
<1>5. ASSUME NEW result \in Results, ResetCard(result) PROVE CardOK'
  <2> DEFINE torn == card.torn
  <2>1. torn \in BOOLEAN OBVIOUS
  <2>2. card' = card \/ card' = IdleCard \/ card' = [IdleCard EXCEPT !.torn = torn]
        BY <1>5 DEF ResetCard, Cmd52Write
  <2> HIDE DEF torn
  <2>3. QED BY <2>1, <2>2, IdleCardTyped
<1>6. ASSUME NEW result \in Results, NEW ready \in BOOLEAN, Cmd5Cycle(result, ready) PROVE
      CardOK'
      BY <1>6 DEF Cmd5Cycle, SetClock, Khz, SdioGetCmd5CycleClockKhz
<1>7. ASSUME NEW result \in Results, DefaultSlow(result) \/ DefaultSpeed(result) PROVE
      CardOK'
      BY <1>7 DEF DefaultSlow, BusStep, LowerClock, SetClock, Khz, DefaultSpeed, Cmd52Write,
         ResetHost
<1>8. ASSUME NEW result \in Results, DefaultWidth(result) PROVE CardOK'
  <2> DEFINE wide == Wide
  <2>1. wide \in BOOLEAN BY DEF Wide
  <2>2. card' = card \/ card' = [card EXCEPT !.wide = wide] BY <1>8 DEF DefaultWidth, Cmd52Write
  <2> HIDE DEF wide
  <2>3. QED BY <2>1, <2>2
<1>9. ASSUME NEW result \in Results, DefaultHost(result) \/ DefaultClock(result) \/
      OperatingClock(result) PROVE CardOK'
      BY <1>9 DEF DefaultHost, BusStep, DefaultClock, SetClock, Khz, OperatingClock
<1>10. ASSUME NEW result \in Results, HsSlow(result) PROVE CardOK'
      BY <1>10 DEF HsSlow, HsStep, SetClock, Khz
<1>11. ASSUME NEW result \in Results, HsCard(result) PROVE CardOK'
      BY <1>11 DEF HsCard, HsStep, Cmd52Write, ResetHost
<1>12. ASSUME NEW result \in Results, HsHost(result) PROVE CardOK'
      BY <1>12 DEF HsHost, HsStep
<1>13. ASSUME NEW result \in Results, HsFast(result) PROVE CardOK'
      BY <1>13 DEF HsFast, HsStep, SetClock, Khz
<1>14. ASSUME NEW result \in Results, HsCheck(result) PROVE CardOK'
      BY <1>14 DEF HsCheck, HsStep, ResetHost
<1>15. ASSUME NEW result \in Results, WindowSelect(result) \/ ChipOn(result) \/
      ChipOff(result) \/ Setup(result) \/ BootDone(result) \/ FunctionsOff(result) PROVE
      CardOK'
  <2>1. CASE WindowSelect(result)
    <3>1. Target \in Windows /\ "mixed" \in Windows BY DEF Target, Windows
    <3>2. PICK window \in Windows : card' = [card EXCEPT !.window = window]
      BY <2>1, <3>1 DEF WindowSelect, CardOK
    <3>3. QED BY <3>2 DEF CardOK
  <2>2. CASE ChipOn(result) BY <2>2 DEF ChipOn, Quiet, Cmd52Write, ResetHost
  <2>3. CASE ChipOff(result) BY <2>3 DEF ChipOff, Quiet, Cmd52Write, ResetHost
  <2>4. CASE Setup(result) BY <2>4 DEF Setup, Quiet, Cmd52Write, ResetHost
  <2>5. CASE BootDone(result) BY <2>5 DEF BootDone, Quiet, Cmd52Write, ResetHost
  <2>6. CASE FunctionsOff(result) BY <2>6 DEF FunctionsOff, Quiet, Cmd52Write, ResetHost
  <2>7. QED BY <1>15, <2>1, <2>2, <2>3, <2>4, <2>5, <2>6
<1>16. ASSUME NEW ok \in BOOLEAN, SelectCard(ok) \/ Negotiate(ok) \/ SetupDone(ok) PROVE
      CardOK'
      BY <1>16 DEF SelectCard, ResetHost, Negotiate, Unknown, SetupDone
<1>17. ASSUME NEW eligible \in BOOLEAN, BusDone(eligible) PROVE CardOK'
      BY <1>17 DEF BusDone
<1>18. ASSUME NEW again \in BOOLEAN, Transfer(again) PROVE CardOK'
      BY <1>18 DEF Transfer
<1>19. ASSUME NEW ok \in BOOLEAN, NEW smb \in BOOLEAN, PrepareRuntimeFifo(ok, smb) PROVE
      CardOK'
      BY <1>19 DEF PrepareRuntimeFifo, ResetHost
<1>20. ASSUME NEW exit \in BOOLEAN, FifoFails(exit) PROVE CardOK'
      BY <1>20 DEF FifoFails, Latch
<1>21. CASE UNCHANGED vars BY <1>21 DEF vars
<1> QED BY <1>1, <1>2, <1>3, <1>4, <1>5, <1>6, <1>7, <1>8, <1>9, <1>10, <1>11, <1>12, <1>13,
      <1>14, <1>15, <1>16, <1>17, <1>18, <1>19, <1>20, <1>21 DEF Next, Worker, Traffic

(* Every step keeps the type of host. *)
LEMMA HostTyped == HostOK /\ [Next]_vars => HostOK'
<1> SUFFICES ASSUME HostOK, [Next]_vars PROVE HostOK' OBVIOUS
<1> USE BusModeAssumption DEF HostOK, Results, env
<1>1. CASE Start \/ WindowHit \/ TransferWrong \/ TransferFails \/ ChipDone \/ Environment
      BY <1>1 DEF Start, WindowHit, Access, Hit, TransferWrong, TransferFails, ResetHost,
         ChipDone, Quiet, Environment
<1>2. CASE BusVerified \/ FinishDone \/ VerifyDone \/ RegisterAccess \/ AccessDone \/
      RuntimeEnds \/ FirmwareStop
      BY <1>2 DEF BusVerified, FinishDone, VerifyDone, RegisterAccess, AccessDone,
         RuntimeEnds, FirmwareStop, MayStop
<1>3. CASE Cancel \/ ReadFailed \/ UploadDone \/ Failed \/ BusFailed \/ RestoreDefault
      BY <1>3, CallBegins, ClockTyped, KnownValues DEF Cancel, Polls, ReadFailed,
         TryDefault, UploadDone, Failed, BusFailed, Rescued, RestoreDefault, ModeChanged,
         Unknown
<1>4. ASSUME NEW result \in Results, ResetCard(result) PROVE HostOK'
      BY <1>4 DEF ResetCard, Cmd52Write, ResetHost
<1>5. ASSUME NEW result \in Results, InitializeHost(result) PROVE HostOK'
  <2>1. \/ host' = host
        \/ host' = [wide |-> FALSE, hs |-> FALSE, clock |-> 0]
        \/ host' = [wide |-> FALSE, hs |-> FALSE, clock |-> 400]
        BY <1>5 DEF InitializeHost
  <2>2. ASSUME NEW khz \in {0, 400}, host' = [wide |-> FALSE, hs |-> FALSE, clock |-> khz]
        PROVE  HostOK'
        BY <2>2, SlowHostTyped, Zenon DEF HostOK
  <2>3. QED BY <2>1, <2>2
<1>6. ASSUME NEW result \in Results, NEW ready \in BOOLEAN, Cmd5Cycle(result, ready) PROVE
      HostOK'
      BY <1>6, ClockTyped, KnownValues DEF Cmd5Cycle, Khz, SdioGetCmd5CycleClockKhz
<1>7. ASSUME NEW result \in Results, DefaultSlow(result) \/ DefaultSpeed(result) \/
      DefaultWidth(result) PROVE HostOK'
      BY <1>7, ClockTyped, KnownValues DEF DefaultSlow, BusStep, LowerClock, Khz,
         DefaultSpeed, Cmd52Write, ResetHost, DefaultWidth
<1>8. ASSUME NEW result \in Results, DefaultHost(result) PROVE HostOK'
  <2> DEFINE wide == Wide
  <2>1. wide \in BOOLEAN BY DEF Wide
  <2>2. \/ host' = host \/ host' = [host EXCEPT !.clock = 0]
        \/ host' = [wide |-> wide, hs |-> FALSE, clock |-> 0]
        BY <1>8 DEF DefaultHost
  <2>3. 0 \in Clocks BY DEF Clocks
  <2> HIDE DEF wide
  <2>4. CASE host' = [wide |-> wide, hs |-> FALSE, clock |-> 0] BY <2>1, <2>3, <2>4
  <2>5. QED BY <2>2, <2>3, <2>4
<1>9. ASSUME NEW result \in Results, DefaultClock(result) PROVE HostOK'
      BY <1>9, ClockTyped, KnownValues DEF DefaultClock, BusStep, Khz
<1>10. ASSUME NEW result \in Results, OperatingClock(result) PROVE HostOK'
      BY <1>10, ClockTyped, KnownValues DEF OperatingClock, BusStep, Khz
<1>11. ASSUME NEW result \in Results, HsSlow(result) \/ HsCard(result) \/ HsFast(result) \/
      HsCheck(result) PROVE HostOK'
      BY <1>11, ClockTyped, KnownValues DEF HsSlow, HsStep, Khz, HsCard, Cmd52Write,
         ResetHost, HsFast, HsCheck
<1>12. ASSUME NEW result \in Results, HsHost(result) PROVE HostOK'
  <2>1. \/ host' = host \/ host' = [host EXCEPT !.clock = 0]
        \/ host' = [host EXCEPT !.hs = TRUE, !.clock = 0]
        BY <1>12 DEF HsHost
  <2>2. 0 \in Clocks BY KnownValues
  <2>3. QED BY <2>1, <2>2
<1>13. ASSUME NEW result \in Results, WindowSelect(result) \/ ChipOn(result) \/
      ChipOff(result) \/ Setup(result) \/ BootDone(result) \/ FunctionsOff(result) PROVE
      HostOK'
      BY <1>13 DEF WindowSelect, Access, Hit, Selected, ChipOn, Quiet, Cmd52Write,
         ResetHost, ChipOff, Setup, BootDone, FunctionsOff
<1>14. ASSUME NEW ok \in BOOLEAN, SelectCard(ok) \/ Negotiate(ok) \/ SetupDone(ok) PROVE
      HostOK'
      BY <1>14 DEF SelectCard, ResetHost, Negotiate, Unknown, SetupDone
<1>15. ASSUME NEW eligible \in BOOLEAN, BusDone(eligible) PROVE HostOK'
      BY <1>15 DEF BusDone
<1>16. ASSUME NEW again \in BOOLEAN, Transfer(again) PROVE HostOK'
      BY <1>16 DEF Transfer
<1>17. ASSUME NEW ok \in BOOLEAN, NEW smb \in BOOLEAN, PrepareRuntimeFifo(ok, smb) PROVE
      HostOK'
      BY <1>17 DEF PrepareRuntimeFifo, ResetHost
<1>18. ASSUME NEW exit \in BOOLEAN, FifoFails(exit) PROVE HostOK'
      BY <1>18 DEF FifoFails, Latch
<1>19. CASE UNCHANGED vars BY <1>19 DEF vars
<1> QED BY <1>1, <1>2, <1>3, <1>4, <1>5, <1>6, <1>7, <1>8, <1>9, <1>10, <1>11, <1>12, <1>13,
      <1>14, <1>15, <1>16, <1>17, <1>18, <1>19 DEF Next, Worker, Traffic

(* Every step keeps what the driver believes of the bus within its types.   *)
LEMMA ViewTyped == ViewOK /\ [Next]_vars => ViewOK'
<1> SUFFICES ASSUME ViewOK, [Next]_vars PROVE ViewOK' OBVIOUS
<1>1. (UNCHANGED vars \/ Start \/ WindowHit \/ TransferWrong \/ TransferFails \/ ChipDone \/
      RegisterAccess \/ AccessDone \/ RuntimeEnds \/ FirmwareStop \/ Environment \/ (\E
      result \in Results : ResetCard(result) \/ DefaultSpeed(result) \/ DefaultWidth(result)
      \/ DefaultHost(result) \/ HsCard(result) \/ HsHost(result) \/ WindowSelect(result) \/
      ChipOn(result) \/ ChipOff(result) \/ Setup(result) \/ BootDone(result) \/
      FunctionsOff(result)) \/ (\E again \in BOOLEAN : Transfer(again)) \/ (\E ok \in
      BOOLEAN : SetupDone(ok)) \/ (\E ok \in BOOLEAN, smb \in BOOLEAN :
      PrepareRuntimeFifo(ok, smb)) \/ (\E exit \in BOOLEAN : FifoFails(exit))) => UNCHANGED
      view
      BY DEF Access, AccessDone, BootDone, BusStep, ChipDone, ChipOff, ChipOn, Cmd52Write,
         DefaultHost, DefaultSpeed, DefaultWidth, Environment, FifoFails, FirmwareStop,
         FunctionsOff, Hit, HsCard, HsHost, HsStep, Latch, MayStop, PrepareRuntimeFifo,
         Quiet, RegisterAccess, ResetCard, ResetHost, RuntimeEnds, Selected, Setup,
         SetupDone, Start, Transfer, TransferFails, TransferWrong, WindowHit, WindowSelect,
         vars, env
<1>2. CASE UNCHANGED view BY <1>2 DEF ViewOK
<1>3. CASE view' = Unknown(view)
  <2>1. 0 \in Widths /\ 0 \in Clocks BY KnownValues
  <2>2. QED BY <1>3, <2>1 DEF Unknown, ViewOK
<1>4. ASSUME NEW s \in Stages, view' = [view EXCEPT !.recovered = FALSE, !.stage = s]
      PROVE  ViewOK'
      BY <1>4 DEF ViewOK
<1>5. ASSUME NEW result \in Results,
             \/ InitializeHost(result) \/ OperatingClock(result) \/ HsSlow(result)
             \/ HsFast(result) \/ \E ready \in BOOLEAN : Cmd5Cycle(result, ready)
      PROVE  ViewOK'
  <2>1. PICK k \in Clocks : view' = [view EXCEPT !.khz = k]
    <3>1. CASE InitializeHost(result) BY <3>1, KnownValues DEF InitializeHost, Khz, ViewOK
    <3>2. CASE OperatingClock(result) BY <3>2, KnownValues DEF OperatingClock, Khz, ViewOK
    <3>3. CASE HsSlow(result) BY <3>3, KnownValues DEF HsSlow, Khz, ViewOK
    <3>4. CASE HsFast(result) BY <3>4, KnownValues DEF HsFast, Khz, ViewOK
    <3>5. CASE \E ready \in BOOLEAN : Cmd5Cycle(result, ready)
          BY <3>5, KnownValues DEF Cmd5Cycle, SdioGetCmd5CycleClockKhz, Khz, ViewOK
    <3>6. QED BY <1>5, <3>1, <3>2, <3>3, <3>4, <3>5
  <2>2. QED BY <2>1 DEF ViewOK
<1>6. ASSUME NEW ok \in BOOLEAN, SelectCard(ok) PROVE ViewOK'
  <2> DEFINE s == IF ok THEN 1 ELSE view.stage
             w == IF ok THEN 0 ELSE view.width
             k == IF ok THEN 0 ELSE view.khz
  <2>1. s \in Stages /\ w \in Widths /\ k \in Clocks BY KnownValues DEF ViewOK
  <2>2. view' = [view EXCEPT !.stage = s, !.width = w, !.khz = k] BY <1>6 DEF SelectCard
  <2> HIDE DEF s, w, k
  <2>3. QED BY <2>1, <2>2 DEF ViewOK
<1>7. ASSUME NEW result \in Results, DefaultSlow(result) PROVE ViewOK'
  <2> DEFINE k == Khz(result, 400)
  <2>1. k \in Clocks BY KnownValues DEF ViewOK, Khz
  <2>2. view' = [view EXCEPT !.hs = FALSE, !.khz = k] BY <1>7 DEF DefaultSlow
  <2> HIDE DEF k
  <2>3. QED BY <2>1, <2>2 DEF ViewOK
<1>8. ASSUME NEW result \in Results, DefaultClock(result) PROVE ViewOK'
  <2> DEFINE k == Khz(result, 400)
             w == IF result # "ok" THEN view.width ELSE IF Wide THEN 4 ELSE 1
             s == IF result = "ok" /\ op = "upgrade" THEN 4 ELSE view.stage
  <2>1. s \in Stages /\ w \in Widths /\ k \in Clocks BY KnownValues DEF ViewOK, Khz
  <2>2. view' = [view EXCEPT !.khz = k, !.width = w, !.stage = s] BY <1>8 DEF DefaultClock
  <2> HIDE DEF s, w, k
  <2>3. QED BY <2>1, <2>2 DEF ViewOK
<1>9. CASE BusFailed
  <2> DEFINE s == IF op = "rescue" \/ task \in {"fallback", "finish"} THEN 99 ELSE view.stage
  <2>1. s \in Stages BY KnownValues DEF ViewOK
  <2>2. \/ view' = Unknown(view)
        \/ view' = [view EXCEPT !.recovered = FALSE, !.stage = s] BY <1>9 DEF BusFailed, Call
  <2> HIDE DEF s
  <2>3. QED BY <1>3, <1>4, <2>1, <2>2
<1>10. ASSUME NEW eligible \in BOOLEAN, BusDone(eligible) PROVE ViewOK'
  <2> DEFINE r == view.recovered \/ op # "upgrade"
             a == view.attempted \/ eligible
             s == IF op = "rescue" THEN 90
                  ELSE IF task = "probe" \/ pc' = "hsSlow" THEN view.stage ELSE 5
  <2>1. s \in Stages BY KnownValues DEF ViewOK
  <2>2. r \in BOOLEAN /\ a \in BOOLEAN OBVIOUS
  <2>3. view' = [view EXCEPT !.recovered = r, !.attempted = a, !.stage = s]
        BY <1>10 DEF BusDone
  <2> HIDE DEF r, a, s
  <2>4. QED BY <2>1, <2>2, <2>3 DEF ViewOK
<1>11. CASE RestoreDefault
  <2>1. CASE ModeChanged
    <3>1. PICK result \in Results :
             view' = [Unknown(view) EXCEPT !.hs = FALSE, !.recovered = FALSE, !.stage = 99,
                                           !.khz = IF result = "ok" THEN 400 ELSE 0]
          BY <1>11, <2>1 DEF RestoreDefault
    <3> DEFINE k == IF result = "ok" THEN 400 ELSE 0
    <3>2. k \in Clocks /\ 0 \in Widths /\ 99 \in Stages BY KnownValues
    <3>3. view' = [Unknown(view) EXCEPT !.hs = FALSE, !.recovered = FALSE, !.stage = 99,
                                        !.khz = k]
          BY <3>1
    <3> HIDE DEF k
    <3> DEFINE Views == [stage : Stages, width : Widths, khz : Clocks, hs : BOOLEAN,
                         attempted : BOOLEAN, recovered : BOOLEAN]
    <3>4. PICK v \in Views : v = Unknown(view)
      <4>1. 0 \in Widths /\ 0 \in Clocks BY KnownValues
      <4>2. [view EXCEPT !.width = 0, !.khz = 0] \in Views BY <4>1 DEF ViewOK
      <4>3. QED BY <4>2 DEF Unknown
    <3>5. view' = [v EXCEPT !.hs = FALSE, !.recovered = FALSE, !.stage = 99, !.khz = k]
      BY <3>3, <3>4
    <3>6. QED BY <3>2, <3>5 DEF ViewOK
  <2>2. QED BY <1>11, <1>3, <2>1 DEF RestoreDefault, Call
<1>12. ASSUME NEW ok \in BOOLEAN, Negotiate(ok) PROVE ViewOK'
  <2>1. CASE view' = [view EXCEPT !.stage = 3, !.attempted = FALSE, !.hs = FALSE]
    <3>1. 3 \in Stages BY KnownValues
    <3>2. QED BY <2>1, <3>1 DEF ViewOK
  <2>2. CASE view' = [Unknown(view) EXCEPT !.attempted = FALSE, !.hs = FALSE]
    <3>1. 0 \in Widths /\ 0 \in Clocks BY KnownValues
    <3>2. view' = [view EXCEPT !.width = 0, !.khz = 0, !.attempted = FALSE, !.hs = FALSE]
          BY <2>2 DEF ViewOK, Unknown
    <3>3. QED BY <3>1, <3>2 DEF ViewOK
  <2>3. QED BY <1>12, <2>1, <2>2 DEF Negotiate
<1>13. ASSUME NEW result \in Results, HsCheck(result) PROVE ViewOK'
  <2>1. CASE view' = [view EXCEPT !.hs = TRUE, !.stage = 5]
    <3>1. 5 \in Stages BY KnownValues
    <3>2. QED BY <2>1, <3>1 DEF ViewOK
  <2>2. QED BY <1>2, <1>13, <2>1 DEF HsCheck
<1>14. CASE BusVerified \/ FinishDone \/ VerifyDone
  <2>1. PICK s \in Stages : view' = [view EXCEPT !.stage = s]
        BY <1>14, KnownValues DEF BusVerified, FinishDone, VerifyDone
  <2>2. QED BY <2>1 DEF ViewOK
<1>15. CASE view' = [view EXCEPT !.recovered = FALSE, !.stage = 99]
  <2>1. 99 \in Stages BY KnownValues
  <2>2. QED BY <1>15, <2>1 DEF ViewOK
<1>16. CASE Cancel \/ ReadFailed BY <1>2, <1>3, <1>15, <1>16 DEF Cancel, ReadFailed, Call
<1>17. CASE UploadDone BY <1>2, <1>3, <1>17 DEF UploadDone, Call
<1>18. CASE Failed BY <1>2, <1>3, <1>18 DEF Failed, Call
<1> QED
  BY <1>1, <1>2, <1>5, <1>6, <1>7, <1>8, <1>9, <1>10, <1>11, <1>12, <1>13, <1>14, <1>16,
     <1>17, <1>18 DEF Next, Worker, Traffic

(* Every step keeps the type of cache. *)
LEMMA CacheTyped == CacheOK /\ [Next]_vars => CacheOK'
<1> SUFFICES ASSUME CacheOK, [Next]_vars PROVE CacheOK' OBVIOUS
<1> USE BusModeAssumption DEF CacheOK, Results, Windows, Target, env
<1>1. CASE Start \/ WindowHit \/ TransferWrong \/ TransferFails \/ ChipDone \/ Environment
      BY <1>1 DEF Start, WindowHit, Access, Hit, TransferWrong, TransferFails, ResetHost,
         ChipDone, Quiet, Environment
<1>2. CASE BusVerified \/ FinishDone \/ VerifyDone \/ RegisterAccess \/ AccessDone \/
      RuntimeEnds \/ FirmwareStop
      BY <1>2 DEF BusVerified, FinishDone, VerifyDone, RegisterAccess, AccessDone,
         RuntimeEnds, FirmwareStop, MayStop
<1>3. CASE Cancel \/ ReadFailed \/ UploadDone \/ Failed \/ BusFailed \/ RestoreDefault
      BY <1>3, CallBegins DEF Cancel, Polls, ReadFailed, TryDefault, UploadDone, Failed,
         BusFailed, Rescued, RestoreDefault, ModeChanged, SetClock, Unknown
<1>4. ASSUME NEW result \in Results, InitializeHost(result) \/ ResetCard(result) PROVE
      CacheOK'
      BY <1>4 DEF InitializeHost, ResetHost, Khz, ResetCard, Cmd52Write
<1>5. ASSUME NEW result \in Results, NEW ready \in BOOLEAN, Cmd5Cycle(result, ready) PROVE
      CacheOK'
      BY <1>5 DEF Cmd5Cycle, SetClock, Khz, SdioGetCmd5CycleClockKhz
<1>6. ASSUME NEW result \in Results, DefaultSlow(result) \/ DefaultSpeed(result) \/
      DefaultWidth(result) PROVE CacheOK'
      BY <1>6 DEF DefaultSlow, BusStep, LowerClock, SetClock, Khz, DefaultSpeed, Cmd52Write,
         ResetHost, DefaultWidth
<1>7. ASSUME NEW result \in Results, DefaultHost(result) PROVE CacheOK'
      BY <1>7 DEF DefaultHost, BusStep
<1>8. ASSUME NEW result \in Results, DefaultClock(result) PROVE CacheOK'
      BY <1>8 DEF DefaultClock, BusStep, SetClock, Khz
<1>9. ASSUME NEW result \in Results, OperatingClock(result) PROVE CacheOK'
  <2>1. cache' = [cache EXCEPT !.valid = FALSE] BY <1>9 DEF OperatingClock, SetClock
  <2>2. QED BY <2>1 DEF CacheOK
<1>10. ASSUME NEW result \in Results, HsSlow(result) PROVE CacheOK'
      BY <1>10 DEF HsSlow, HsStep, SetClock, Khz
<1>11. ASSUME NEW result \in Results, HsCard(result) PROVE CacheOK'
      BY <1>11 DEF HsCard, HsStep, Cmd52Write, ResetHost
<1>12. ASSUME NEW result \in Results, HsHost(result) PROVE CacheOK'
      BY <1>12 DEF HsHost, HsStep
<1>13. ASSUME NEW result \in Results, HsFast(result) PROVE CacheOK'
  <2>1. cache' = [cache EXCEPT !.valid = FALSE] BY <1>13 DEF HsFast, SetClock
  <2>2. QED BY <2>1 DEF CacheOK
<1>14. ASSUME NEW result \in Results, HsCheck(result) PROVE CacheOK'
      BY <1>14 DEF HsCheck, HsStep, ResetHost
<1>15. ASSUME NEW result \in Results, ChipOn(result) \/ ChipOff(result) \/ Setup(result) \/
      BootDone(result) \/ FunctionsOff(result) PROVE CacheOK'
      BY <1>15 DEF ChipOn, Quiet, Cmd52Write, ResetHost, ChipOff, Setup, BootDone,
         FunctionsOff
<1>16. ASSUME NEW result \in Results, WindowSelect(result) PROVE CacheOK'
      BY <1>16 DEF WindowSelect, Access, Hit, Selected
<1>17. ASSUME NEW ok \in BOOLEAN, SelectCard(ok) \/ Negotiate(ok) \/ SetupDone(ok) PROVE
      CacheOK'
      BY <1>17 DEF SelectCard, ResetHost, Negotiate, Unknown, SetupDone
<1>18. ASSUME NEW eligible \in BOOLEAN, BusDone(eligible) PROVE CacheOK'
      BY <1>18 DEF BusDone
<1>19. ASSUME NEW again \in BOOLEAN, Transfer(again) PROVE CacheOK'
      BY <1>19 DEF Transfer
<1>20. ASSUME NEW ok \in BOOLEAN, NEW smb \in BOOLEAN, PrepareRuntimeFifo(ok, smb) PROVE
      CacheOK'
      BY <1>20 DEF PrepareRuntimeFifo, ResetHost
<1>21. ASSUME NEW exit \in BOOLEAN, FifoFails(exit) PROVE CacheOK'
      BY <1>21 DEF FifoFails, Latch
<1>22. CASE UNCHANGED vars BY <1>22 DEF vars
<1> QED BY <1>1, <1>2, <1>3, <1>4, <1>5, <1>6, <1>7, <1>8, <1>9, <1>10, <1>11, <1>12, <1>13,
      <1>14, <1>15, <1>16, <1>17, <1>18, <1>19, <1>20, <1>21, <1>22 DEF Next, Worker,
      Traffic

(* Every step keeps the type of fifo. *)
LEMMA FifoTyped == FifoOK /\ [Next]_vars => FifoOK'
<1> SUFFICES ASSUME FifoOK, [Next]_vars PROVE FifoOK' OBVIOUS
<1> USE BusModeAssumption DEF FifoOK, Results, env
<1>1. CASE Start \/ WindowHit \/ TransferWrong \/ TransferFails \/ ChipDone \/ Environment
      BY <1>1 DEF Start, WindowHit, Access, Hit, TransferWrong, TransferFails, ResetHost,
         ChipDone, Quiet, Environment
<1>2. CASE BusVerified \/ FinishDone \/ VerifyDone \/ RegisterAccess \/ AccessDone \/
      RuntimeEnds \/ FirmwareStop
      BY <1>2 DEF BusVerified, FinishDone, VerifyDone, RegisterAccess, AccessDone,
         RuntimeEnds, FirmwareStop, MayStop
<1>3. CASE Cancel \/ ReadFailed \/ UploadDone \/ Failed \/ BusFailed \/ RestoreDefault
      BY <1>3, CallBegins DEF Cancel, Polls, ReadFailed, TryDefault, UploadDone, Failed,
         BusFailed, Rescued, RestoreDefault, ModeChanged, SetClock, Unknown
<1>4. ASSUME NEW result \in Results, InitializeHost(result) \/ ResetCard(result) PROVE
      FifoOK'
      BY <1>4 DEF InitializeHost, ResetHost, Khz, ResetCard, Cmd52Write
<1>5. ASSUME NEW result \in Results, NEW ready \in BOOLEAN, Cmd5Cycle(result, ready) PROVE
      FifoOK'
      BY <1>5 DEF Cmd5Cycle, SetClock, Khz, SdioGetCmd5CycleClockKhz
<1>6. ASSUME NEW result \in Results, DefaultSlow(result) \/ DefaultSpeed(result) \/
      DefaultWidth(result) PROVE FifoOK'
      BY <1>6 DEF DefaultSlow, BusStep, LowerClock, SetClock, Khz, DefaultSpeed, Cmd52Write,
         ResetHost, DefaultWidth
<1>7. ASSUME NEW result \in Results, DefaultHost(result) \/ DefaultClock(result) \/
      OperatingClock(result) PROVE FifoOK'
      BY <1>7 DEF DefaultHost, BusStep, DefaultClock, SetClock, Khz, OperatingClock
<1>8. ASSUME NEW result \in Results, HsSlow(result) PROVE FifoOK'
      BY <1>8 DEF HsSlow, HsStep, SetClock, Khz
<1>9. ASSUME NEW result \in Results, HsCard(result) PROVE FifoOK'
      BY <1>9 DEF HsCard, HsStep, Cmd52Write, ResetHost
<1>10. ASSUME NEW result \in Results, HsHost(result) PROVE FifoOK'
      BY <1>10 DEF HsHost, HsStep
<1>11. ASSUME NEW result \in Results, HsFast(result) PROVE FifoOK'
      BY <1>11 DEF HsFast, HsStep, SetClock, Khz
<1>12. ASSUME NEW result \in Results, HsCheck(result) PROVE FifoOK'
      BY <1>12 DEF HsCheck, HsStep, ResetHost
<1>13. ASSUME NEW result \in Results, WindowSelect(result) \/ ChipOn(result) \/
      ChipOff(result) \/ Setup(result) \/ BootDone(result) \/ FunctionsOff(result) PROVE
      FifoOK'
      BY <1>13 DEF WindowSelect, Access, Hit, Selected, ChipOn, Quiet, Cmd52Write,
         ResetHost, ChipOff, Setup, BootDone, FunctionsOff
<1>14. ASSUME NEW ok \in BOOLEAN, SelectCard(ok) \/ Negotiate(ok) \/ SetupDone(ok) PROVE
      FifoOK'
      BY <1>14 DEF SelectCard, ResetHost, Negotiate, Unknown, SetupDone
<1>15. ASSUME NEW eligible \in BOOLEAN, BusDone(eligible) PROVE FifoOK'
      BY <1>15 DEF BusDone
<1>16. ASSUME NEW again \in BOOLEAN, Transfer(again) PROVE FifoOK'
      BY <1>16 DEF Transfer
<1>17. ASSUME NEW ok \in BOOLEAN, NEW smb \in BOOLEAN, PrepareRuntimeFifo(ok, smb) PROVE FifoOK'
  <2>1. CASE fifo' = [ready |-> smb, failed |-> FALSE] BY <2>1
  <2>2. CASE fifo' = [fifo EXCEPT !.ready = FALSE] BY <2>2
  <2>3. QED BY <1>17, <2>1, <2>2 DEF PrepareRuntimeFifo, ResetHost
<1>18. ASSUME NEW exit \in BOOLEAN, FifoFails(exit) PROVE FifoOK'
      BY <1>18 DEF FifoFails, Latch
<1>19. CASE UNCHANGED vars BY <1>19 DEF vars
<1> QED BY <1>1, <1>2, <1>3, <1>4, <1>5, <1>6, <1>7, <1>8, <1>9, <1>10, <1>11, <1>12, <1>13,
      <1>14, <1>15, <1>16, <1>17, <1>18, <1>19 DEF Next, Worker, Traffic

(* Every step keeps the flags and the name of the caller. *)
LEMMA FlagsTyped == FlagsOK /\ [Next]_vars => FlagsOK'
<1> SUFFICES ASSUME FlagsOK, [Next]_vars PROVE FlagsOK' OBVIOUS
<1> USE BusModeAssumption DEF FlagsOK, Results, env
<1>1. CASE Start \/ WindowHit \/ TransferWrong \/ TransferFails \/ ChipDone \/ Environment
      BY <1>1 DEF Start, WindowHit, Access, Hit, TransferWrong, TransferFails, ResetHost,
         ChipDone, Quiet, Environment
<1>2. CASE BusVerified \/ FinishDone \/ VerifyDone \/ RegisterAccess \/ AccessDone \/
      RuntimeEnds \/ FirmwareStop
      BY <1>2 DEF BusVerified, FinishDone, VerifyDone, RegisterAccess, AccessDone,
         RuntimeEnds, FirmwareStop, MayStop
<1>3. CASE Cancel \/ UploadDone \/ Failed
  <2>1. CASE Cancel BY <2>1, CallBegins DEF Cancel, Polls
  <2>2. CASE UploadDone BY <2>2, CallBegins DEF UploadDone
  <2>3. CASE Failed BY <2>3, CallBegins DEF Failed
  <2>4. QED BY <1>3, <2>1, <2>2, <2>3
<1>4. CASE ReadFailed BY <1>4, CallBegins DEF ReadFailed, TryDefault
<1>5. CASE BusFailed BY <1>5, CallBegins DEF BusFailed, Rescued
<1>6. CASE RestoreDefault BY <1>6, CallBegins DEF RestoreDefault, ModeChanged, SetClock,
      Unknown
<1>7. ASSUME NEW result \in Results, InitializeHost(result) \/ ResetCard(result) PROVE
      FlagsOK'
      BY <1>7 DEF InitializeHost, ResetHost, Khz, ResetCard, Cmd52Write
<1>8. ASSUME NEW result \in Results, NEW ready \in BOOLEAN, Cmd5Cycle(result, ready) PROVE
      FlagsOK'
      BY <1>8 DEF Cmd5Cycle, SetClock, Khz, SdioGetCmd5CycleClockKhz
<1>9. ASSUME NEW result \in Results, DefaultSlow(result) \/ DefaultSpeed(result) \/
      DefaultWidth(result) PROVE FlagsOK'
      BY <1>9 DEF DefaultSlow, BusStep, LowerClock, SetClock, Khz, DefaultSpeed, Cmd52Write,
         ResetHost, DefaultWidth
<1>10. ASSUME NEW result \in Results, DefaultHost(result) \/ DefaultClock(result) \/
      OperatingClock(result) PROVE FlagsOK'
      BY <1>10 DEF DefaultHost, BusStep, DefaultClock, SetClock, Khz, OperatingClock
<1>11. ASSUME NEW result \in Results, HsSlow(result) \/ HsCard(result) \/ HsHost(result) \/
      HsFast(result) \/ HsCheck(result) PROVE FlagsOK'
      BY <1>11 DEF HsSlow, HsStep, SetClock, Khz, HsCard, Cmd52Write, ResetHost, HsHost,
         HsFast, HsCheck
<1>12. ASSUME NEW result \in Results, WindowSelect(result) \/ ChipOn(result) \/
      ChipOff(result) \/ Setup(result) \/ BootDone(result) \/ FunctionsOff(result) PROVE
      FlagsOK'
      BY <1>12 DEF WindowSelect, Access, Hit, Selected, ChipOn, Quiet, Cmd52Write,
         ResetHost, ChipOff, Setup, BootDone, FunctionsOff
<1>13. ASSUME NEW ok \in BOOLEAN, SelectCard(ok) \/ Negotiate(ok) \/ SetupDone(ok) PROVE
      FlagsOK'
      BY <1>13 DEF SelectCard, ResetHost, Negotiate, Unknown, SetupDone
<1>14. ASSUME NEW eligible \in BOOLEAN, BusDone(eligible) PROVE FlagsOK'
      BY <1>14 DEF BusDone
<1>15. ASSUME NEW again \in BOOLEAN, Transfer(again) PROVE FlagsOK'
      BY <1>15 DEF Transfer
<1>16. ASSUME NEW ok \in BOOLEAN, NEW smb \in BOOLEAN, PrepareRuntimeFifo(ok, smb) PROVE
      FlagsOK'
      BY <1>16 DEF PrepareRuntimeFifo, ResetHost
<1>17. ASSUME NEW exit \in BOOLEAN, FifoFails(exit) PROVE FlagsOK'
      BY <1>17 DEF FifoFails, Latch
<1>18. CASE UNCHANGED vars BY <1>18 DEF vars
<1> QED BY <1>1, <1>2, <1>3, <1>4, <1>5, <1>6, <1>7, <1>8, <1>9, <1>10, <1>11, <1>12, <1>13,
      <1>14, <1>15, <1>16, <1>17, <1>18 DEF Next, Worker, Traffic

(* Every step keeps the counters within their bounds and the thread in place. *)
LEMMA PlacedKept == Typed /\ [Next]_vars => (CountsOK /\ Placed)'
<1> SUFFICES ASSUME Typed, [Next]_vars PROVE (CountsOK /\ Placed)' OBVIOUS
<1> USE BusModeAssumption DEF Typed, TypeOK, Placed, CountsOK, Probing, Setting, Raising,
          Reading, Working, Places, Tasks, Results, Cycles, env
<1>1. CASE Start \/ WindowHit \/ TransferWrong \/ TransferFails \/ ChipDone \/ Environment
      BY <1>1 DEF Start, WindowHit, Access, Hit, TransferWrong, TransferFails, ResetHost,
         ChipDone, Quiet, Environment
<1>2. CASE BusVerified \/ FinishDone \/ VerifyDone \/ RegisterAccess \/ AccessDone \/
      RuntimeEnds \/ FirmwareStop
      BY <1>2 DEF BusVerified, FinishDone, VerifyDone, RegisterAccess, AccessDone,
         RuntimeEnds, FirmwareStop, MayStop
<1>3. CASE Cancel \/ ReadFailed \/ UploadDone \/ Failed \/ BusFailed \/ RestoreDefault
      BY <1>3, CallBegins DEF Cancel, Polls, ReadFailed, TryDefault, UploadDone, Failed,
         BusFailed, Rescued, RestoreDefault, ModeChanged, SetClock, Unknown
<1>4. ASSUME NEW result \in Results, InitializeHost(result) \/ ResetCard(result) PROVE
      (CountsOK /\ Placed)'
      BY <1>4 DEF InitializeHost, ResetHost, Khz, ResetCard, Cmd52Write
<1>5. ASSUME NEW result \in Results, NEW ready \in BOOLEAN, Cmd5Cycle(result, ready) PROVE
      (CountsOK /\ Placed)'
      BY <1>5 DEF Cmd5Cycle, SetClock, Khz, SdioGetCmd5CycleClockKhz
<1>6. ASSUME NEW result \in Results, DefaultSlow(result) \/ DefaultSpeed(result) \/
      DefaultWidth(result) PROVE (CountsOK /\ Placed)'
      BY <1>6 DEF DefaultSlow, BusStep, LowerClock, SetClock, Khz, DefaultSpeed, Cmd52Write,
         ResetHost, DefaultWidth
<1>7. ASSUME NEW result \in Results, DefaultHost(result) \/ DefaultClock(result) \/
      OperatingClock(result) PROVE (CountsOK /\ Placed)'
      BY <1>7 DEF DefaultHost, BusStep, DefaultClock, SetClock, Khz, OperatingClock
<1>8. ASSUME NEW result \in Results, HsSlow(result) \/ HsCard(result) \/ HsHost(result) \/
      HsFast(result) \/ HsCheck(result) PROVE (CountsOK /\ Placed)'
      BY <1>8 DEF HsSlow, HsStep, SetClock, Khz, HsCard, Cmd52Write, ResetHost, HsHost,
         HsFast, HsCheck
<1>9. ASSUME NEW result \in Results, WindowSelect(result) \/ ChipOn(result) \/
      ChipOff(result) \/ Setup(result) \/ BootDone(result) \/ FunctionsOff(result) PROVE
      (CountsOK /\ Placed)'
      BY <1>9 DEF WindowSelect, Access, Hit, Selected, ChipOn, Quiet, Cmd52Write, ResetHost,
         ChipOff, Setup, BootDone, FunctionsOff
<1>10. ASSUME NEW ok \in BOOLEAN, SelectCard(ok) \/ Negotiate(ok) \/ SetupDone(ok) PROVE
      (CountsOK /\ Placed)'
      BY <1>10 DEF SelectCard, ResetHost, Negotiate, Unknown, SetupDone
<1>11. ASSUME NEW eligible \in BOOLEAN, BusDone(eligible) PROVE (CountsOK /\ Placed)'
      BY <1>11 DEF BusDone
<1>12. ASSUME NEW again \in BOOLEAN, Transfer(again) PROVE (CountsOK /\ Placed)'
      BY <1>12 DEF Transfer
<1>13. ASSUME NEW ok \in BOOLEAN, NEW smb \in BOOLEAN, PrepareRuntimeFifo(ok, smb) PROVE
      (CountsOK /\ Placed)'
      BY <1>13 DEF PrepareRuntimeFifo, ResetHost
<1>14. ASSUME NEW exit \in BOOLEAN, FifoFails(exit) PROVE (CountsOK /\ Placed)'
      BY <1>14 DEF FifoFails, Latch
<1>15. CASE UNCHANGED vars BY <1>15 DEF vars
<1> QED BY <1>1, <1>2, <1>3, <1>4, <1>5, <1>6, <1>7, <1>8, <1>9, <1>10, <1>11, <1>12, <1>13,
      <1>14, <1>15 DEF Next, Worker, Traffic

(* Every step keeps the types and the places. *)
LEMMA TypedKept == Typed /\ [Next]_vars => Typed'
<1> SUFFICES ASSUME Typed, [Next]_vars PROVE Typed' OBVIOUS
<1>1. CardOK' /\ HostOK' BY CardTyped, HostTyped DEF Typed, TypeOK, CardOK, HostOK
<1>2. ViewOK' BY ViewTyped DEF Typed, TypeOK, ViewOK
<1>3. CacheOK' /\ FifoOK' BY CacheTyped, FifoTyped DEF Typed, TypeOK, CacheOK, FifoOK
<1>4. FlagsOK' BY FlagsTyped DEF Typed, TypeOK, FlagsOK
<1>5. QED
  BY <1>1, <1>2, <1>3, <1>4, PlacedKept
     DEF Typed, TypeOK, CardOK, HostOK, ViewOK, CacheOK, FifoOK, FlagsOK, CountsOK
-----------------------------------------------------------------------------
(* The window and the FIFO. *)


(* Every step keeps the window, since what moves it also forgets the cached *)
(* one, and the latch.                                                      *)
LEMMA WindowKept == Typed /\ WindowInv /\ [Next]_vars => WindowInv'
<1> SUFFICES ASSUME Typed, WindowInv, [Next]_vars PROVE WindowInv' OBVIOUS
<1> USE BusModeAssumption DEF WindowInv, CacheTrue, AccessInWindow, Latched, Typed, TypeOK,
          ViewOK, Placed, Windows, Target, Results, IdleCard, Probing, Setting, Raising,
          Reading, Working, env
<1>1. CASE Start \/ WindowHit \/ TransferWrong \/ TransferFails \/ ChipDone \/ Environment
      BY <1>1 DEF Start, WindowHit, Access, Hit, TransferWrong, TransferFails, ResetHost,
         ChipDone, Quiet, Environment
<1>2. CASE BusVerified \/ FinishDone \/ VerifyDone \/ RegisterAccess \/ AccessDone \/
      RuntimeEnds \/ FirmwareStop
      BY <1>2 DEF BusVerified, FinishDone, VerifyDone, RegisterAccess, AccessDone,
         RuntimeEnds, FirmwareStop, MayStop
<1>3. CASE Cancel \/ ReadFailed \/ UploadDone \/ Failed \/ BusFailed \/ RestoreDefault
      BY <1>3, CallBegins DEF Cancel, Polls, ReadFailed, TryDefault, UploadDone, Failed,
         BusFailed, Rescued, RestoreDefault, ModeChanged, SetClock, Unknown
<1>4. ASSUME NEW result \in Results, InitializeHost(result) \/ ResetCard(result) PROVE
      WindowInv'
      BY <1>4 DEF InitializeHost, ResetHost, Khz, ResetCard, Cmd52Write
<1>5. ASSUME NEW result \in Results, NEW ready \in BOOLEAN, Cmd5Cycle(result, ready) PROVE
      WindowInv'
      BY <1>5 DEF Cmd5Cycle, SetClock, Khz, SdioGetCmd5CycleClockKhz
<1>6. ASSUME NEW result \in Results, DefaultSlow(result) \/ DefaultSpeed(result) \/
      DefaultWidth(result) PROVE WindowInv'
      BY <1>6 DEF DefaultSlow, BusStep, LowerClock, SetClock, Khz, DefaultSpeed, Cmd52Write,
         ResetHost, DefaultWidth
<1>7. ASSUME NEW result \in Results, DefaultHost(result) \/ DefaultClock(result) \/
      OperatingClock(result) PROVE WindowInv'
      BY <1>7 DEF DefaultHost, BusStep, DefaultClock, SetClock, Khz, OperatingClock
<1>8. ASSUME NEW result \in Results, HsSlow(result) \/ HsCard(result) \/ HsHost(result) \/
      HsFast(result) \/ HsCheck(result) PROVE WindowInv'
      BY <1>8 DEF HsSlow, HsStep, SetClock, Khz, HsCard, Cmd52Write, ResetHost, HsHost,
         HsFast, HsCheck
<1>9. ASSUME NEW result \in Results, ChipOn(result) \/ ChipOff(result) \/ Setup(result) \/
      BootDone(result) \/ FunctionsOff(result) PROVE WindowInv'
      BY <1>9 DEF ChipOn, Quiet, Cmd52Write, ResetHost, ChipOff, Setup, BootDone,
         FunctionsOff
<1>10. ASSUME NEW result \in Results, WindowSelect(result) PROVE WindowInv'
      BY <1>10 DEF WindowSelect, Access, Hit, Selected
<1>11. ASSUME NEW ok \in BOOLEAN, SelectCard(ok) \/ Negotiate(ok) \/ SetupDone(ok) PROVE
      WindowInv'
      BY <1>11 DEF SelectCard, ResetHost, Negotiate, Unknown, SetupDone
<1>12. ASSUME NEW eligible \in BOOLEAN, BusDone(eligible) PROVE WindowInv'
      BY <1>12 DEF BusDone
<1>13. ASSUME NEW again \in BOOLEAN, Transfer(again) PROVE WindowInv'
      BY <1>13 DEF Transfer
<1>14. ASSUME NEW ok \in BOOLEAN, NEW smb \in BOOLEAN, PrepareRuntimeFifo(ok, smb) PROVE
      WindowInv'
      BY <1>14 DEF PrepareRuntimeFifo, ResetHost
<1>15. ASSUME NEW exit \in BOOLEAN, FifoFails(exit) PROVE WindowInv'
      BY <1>15 DEF FifoFails, Latch
<1>16. CASE UNCHANGED vars BY <1>16 DEF vars
<1> QED BY <1>1, <1>2, <1>3, <1>4, <1>5, <1>6, <1>7, <1>8, <1>9, <1>10, <1>11, <1>12, <1>13,
      <1>14, <1>15, <1>16 DEF Next, Worker, Traffic
-----------------------------------------------------------------------------
(* The bus. *)

(* A call of SdioSetDefaultBus begins with the bus unknown. *)
LEMMA CallUnknown ==
    ASSUME ViewOK, NEW who, Call(who)
    PROVE  /\ pc' = "slow" /\ op' = who
           /\ view'.width = 0 /\ view'.khz = 0
           /\ view'.stage = view.stage /\ view'.hs = view.hs
           /\ view'.attempted = view.attempted /\ view'.recovered = view.recovered
BY DEF Call, Unknown, ViewOK

(* A view that gives the bus up. *)
GivenUp ==
    /\ ~view'.recovered
    /\ view'.stage \in {view.stage, 99}
    /\ view'.stage = 99 \/ (view'.width = view.width /\ view'.khz = view.khz)
    /\ view'.hs => view.hs

(* The bus is given up where it cannot be recovered. *)
LEMMA GivesUp ==
    ASSUME ViewOK
    PROVE  /\ BusFailed /\ ~Rescued => GivenUp
           /\ RestoreDefault /\ ModeChanged => GivenUp /\ view'.stage = 99
           /\ view' = [view EXCEPT !.recovered = FALSE, !.stage = 99] => GivenUp
<1> USE DEF ViewOK, GivenUp
<1>1. ASSUME BusFailed, ~Rescued PROVE GivenUp BY <1>1 DEF BusFailed
<1>2. ASSUME RestoreDefault, ModeChanged PROVE GivenUp /\ view'.stage = 99
      BY <1>2 DEF RestoreDefault, Unknown
<1>3. ASSUME view' = [view EXCEPT !.recovered = FALSE, !.stage = 99] PROVE GivenUp BY <1>3
<1>4. QED BY <1>1, <1>2, <1>3

(* Every step of SdioSetDefaultBus and SdioSetHighSpeedBus brings the ends as *)
(* far as its place says, and no other step moves them.                     *)
LEMMA HalfwayKept == Typed /\ BusInv /\ [Next]_vars => Halfway'
<1> SUFFICES ASSUME Typed, BusInv, [Next]_vars PROVE Halfway' OBVIOUS
<1> USE BusModeAssumption DEF BusInv, Halfway, Doubted, Typed, TypeOK, ViewOK, Placed, Wide,
          Results, IdleCard, Probing, Setting, Raising, Reading, Working, env
<1>1. CASE Start \/ WindowHit \/ TransferWrong \/ TransferFails \/ ChipDone \/ Environment
      BY <1>1 DEF Start, WindowHit, Access, Hit, TransferWrong, TransferFails, ResetHost,
         ChipDone, Quiet, Environment
<1>2. CASE BusVerified \/ FinishDone \/ VerifyDone \/ RegisterAccess \/ AccessDone \/
      RuntimeEnds \/ FirmwareStop
      BY <1>2 DEF BusVerified, FinishDone, VerifyDone, RegisterAccess, AccessDone,
         RuntimeEnds, FirmwareStop, MayStop
<1>3. CASE Cancel \/ ReadFailed \/ UploadDone \/ Failed \/ BusFailed \/ RestoreDefault
      BY <1>3, CallUnknown DEF Cancel, Polls, ReadFailed, TryDefault, UploadDone, Failed,
         BusFailed, Rescued, RestoreDefault, ModeChanged, SetClock, Unknown
<1>4. ASSUME NEW result \in Results, InitializeHost(result) \/ ResetCard(result) PROVE
      Halfway'
      BY <1>4 DEF InitializeHost, ResetHost, Khz, ResetCard, Cmd52Write
<1>5. ASSUME NEW result \in Results, NEW ready \in BOOLEAN, Cmd5Cycle(result, ready) PROVE
      Halfway'
      BY <1>5 DEF Cmd5Cycle, SetClock, Khz, SdioGetCmd5CycleClockKhz
<1>6. ASSUME NEW result \in Results, DefaultSlow(result) \/ DefaultSpeed(result) \/
      DefaultWidth(result) PROVE Halfway'
      BY <1>6 DEF DefaultSlow, BusStep, LowerClock, SetClock, Khz, DefaultSpeed, Cmd52Write,
         ResetHost, DefaultWidth
<1>7. ASSUME NEW result \in Results, DefaultHost(result) PROVE Halfway'
      BY <1>7 DEF DefaultHost, BusStep
<1>8. ASSUME NEW result \in Results, DefaultClock(result) PROVE Halfway'
      BY <1>8 DEF DefaultClock, BusStep, SetClock, Khz
<1>9. ASSUME NEW result \in Results, OperatingClock(result) PROVE Halfway'
      BY <1>9 DEF OperatingClock, BusStep, SetClock, Khz
<1>10. ASSUME NEW result \in Results, HsSlow(result) PROVE Halfway'
      BY <1>10 DEF HsSlow, HsStep, SetClock, Khz
<1>11. ASSUME NEW result \in Results, HsCard(result) PROVE Halfway'
      BY <1>11 DEF HsCard, HsStep, Cmd52Write, ResetHost
<1>12. ASSUME NEW result \in Results, HsHost(result) PROVE Halfway'
  <2>1. CASE result = "ok"
    <3>1. host' = [host EXCEPT !.hs = TRUE, !.clock = 0] BY <1>12, <2>1 DEF HsHost, HsStep
    <3>2. host'.hs /\ host'.wide = host.wide BY <3>1
    <3>3. pc = "hsHost" /\ pc' = "hsFast" /\ UNCHANGED card BY <1>12, <2>1 DEF HsHost, HsStep
    <3>4. QED BY <3>2, <3>3
  <2>2. CASE result # "ok" BY <1>12, <2>2 DEF HsHost, HsStep
  <2>3. QED BY <2>1, <2>2
<1>13. ASSUME NEW result \in Results, HsFast(result) PROVE Halfway'
      BY <1>13 DEF HsFast, HsStep, SetClock, Khz
<1>14. ASSUME NEW result \in Results, HsCheck(result) PROVE Halfway'
      BY <1>14 DEF HsCheck, HsStep, ResetHost
<1>15. ASSUME NEW result \in Results, WindowSelect(result) \/ ChipOn(result) \/
      ChipOff(result) \/ Setup(result) \/ BootDone(result) \/ FunctionsOff(result) PROVE
      Halfway'
      BY <1>15 DEF WindowSelect, Access, Hit, Selected, ChipOn, Quiet, Cmd52Write,
         ResetHost, ChipOff, Setup, BootDone, FunctionsOff
<1>16. ASSUME NEW ok \in BOOLEAN, SelectCard(ok) \/ Negotiate(ok) \/ SetupDone(ok) PROVE
      Halfway'
      BY <1>16 DEF SelectCard, ResetHost, Negotiate, Unknown, SetupDone
<1>17. ASSUME NEW eligible \in BOOLEAN, BusDone(eligible) PROVE Halfway'
      BY <1>17 DEF BusDone
<1>18. ASSUME NEW again \in BOOLEAN, Transfer(again) PROVE Halfway'
      BY <1>18 DEF Transfer
<1>19. ASSUME NEW ok \in BOOLEAN, NEW smb \in BOOLEAN, PrepareRuntimeFifo(ok, smb) PROVE
      Halfway'
      BY <1>19 DEF PrepareRuntimeFifo, ResetHost
<1>20. ASSUME NEW exit \in BOOLEAN, FifoFails(exit) PROVE Halfway'
      BY <1>20 DEF FifoFails, Latch
<1>21. CASE UNCHANGED vars BY <1>21 DEF vars
<1> QED BY <1>1, <1>2, <1>3, <1>4, <1>5, <1>6, <1>7, <1>8, <1>9, <1>10, <1>11, <1>12, <1>13,
      <1>14, <1>15, <1>16, <1>17, <1>18, <1>19, <1>20, <1>21 DEF Next, Worker, Traffic

(* Every step that begins to change the ends has made the driver doubt them. *)
LEMMA DoubtedKept == Typed /\ BusInv /\ [Next]_vars => Doubted'
<1> SUFFICES ASSUME Typed, BusInv, [Next]_vars PROVE Doubted' OBVIOUS
<1> USE BusModeAssumption DEF BusInv, Halfway, Doubted, Typed, TypeOK, ViewOK, Placed, Wide,
          Results, Clocks, Probing, Setting, Raising, Reading, Working, env
<1>1. CASE Start \/ WindowHit \/ TransferWrong \/ TransferFails \/ ChipDone \/ Environment
      BY <1>1 DEF Start, WindowHit, Access, Hit, TransferWrong, TransferFails, ResetHost,
         ChipDone, Quiet, Environment
<1>2. CASE BusVerified \/ FinishDone \/ VerifyDone \/ RegisterAccess \/ AccessDone \/
      RuntimeEnds \/ FirmwareStop
      BY <1>2 DEF BusVerified, FinishDone, VerifyDone, RegisterAccess, AccessDone,
         RuntimeEnds, FirmwareStop, MayStop
<1>3. CASE Cancel \/ ReadFailed \/ UploadDone \/ Failed \/ BusFailed \/ RestoreDefault
      BY <1>3, CallUnknown DEF Cancel, Polls, ReadFailed, TryDefault, UploadDone, Failed,
         BusFailed, Rescued, RestoreDefault, ModeChanged, SetClock, Unknown
<1>4. ASSUME NEW result \in Results, InitializeHost(result) \/ ResetCard(result) PROVE
      Doubted'
      BY <1>4 DEF InitializeHost, ResetHost, Khz, ResetCard, Cmd52Write
<1>5. ASSUME NEW result \in Results, NEW ready \in BOOLEAN, Cmd5Cycle(result, ready) PROVE
      Doubted'
      BY <1>5 DEF Cmd5Cycle, SetClock, Khz, SdioGetCmd5CycleClockKhz
<1>6. ASSUME NEW result \in Results, DefaultSlow(result) PROVE Doubted'
      BY <1>6 DEF DefaultSlow, BusStep, LowerClock, SetClock, Khz
<1>7. ASSUME NEW result \in Results, DefaultSpeed(result) PROVE Doubted'
      BY <1>7 DEF DefaultSpeed, BusStep, Cmd52Write, ResetHost
<1>8. ASSUME NEW result \in Results, DefaultWidth(result) PROVE Doubted'
      BY <1>8 DEF DefaultWidth, BusStep, Cmd52Write, ResetHost
<1>9. ASSUME NEW result \in Results, DefaultHost(result) PROVE Doubted'
      BY <1>9 DEF DefaultHost, BusStep
<1>10. ASSUME NEW result \in Results, DefaultClock(result) PROVE Doubted'
      BY <1>10 DEF DefaultClock, BusStep, SetClock, Khz
<1>11. ASSUME NEW result \in Results, OperatingClock(result) PROVE Doubted'
      BY <1>11 DEF OperatingClock, BusStep, SetClock, Khz
<1>12. ASSUME NEW result \in Results, HsSlow(result) \/ HsCard(result) \/ HsHost(result) \/
      HsFast(result) \/ HsCheck(result) PROVE Doubted'
      BY <1>12 DEF HsSlow, HsStep, SetClock, Khz, HsCard, Cmd52Write, ResetHost, HsHost,
         HsFast, HsCheck
<1>13. ASSUME NEW result \in Results, WindowSelect(result) \/ ChipOn(result) \/
      ChipOff(result) \/ Setup(result) \/ BootDone(result) \/ FunctionsOff(result) PROVE
      Doubted'
      BY <1>13 DEF WindowSelect, Access, Hit, Selected, ChipOn, Quiet, Cmd52Write,
         ResetHost, ChipOff, Setup, BootDone, FunctionsOff
<1>14. ASSUME NEW ok \in BOOLEAN, SetupDone(ok) PROVE Doubted'
      BY <1>14 DEF SetupDone
<1>15. ASSUME NEW ok \in BOOLEAN, SelectCard(ok) PROVE Doubted'
      BY <1>15 DEF SelectCard, ResetHost
<1>16. ASSUME NEW ok \in BOOLEAN, Negotiate(ok) PROVE Doubted'
      BY <1>16 DEF Negotiate, ResetHost, Unknown
<1>17. ASSUME NEW eligible \in BOOLEAN, BusDone(eligible) PROVE Doubted'
      BY <1>17 DEF BusDone
<1>18. ASSUME NEW again \in BOOLEAN, Transfer(again) PROVE Doubted'
      BY <1>18 DEF Transfer
<1>19. ASSUME NEW ok \in BOOLEAN, NEW smb \in BOOLEAN, PrepareRuntimeFifo(ok, smb) PROVE
      Doubted'
      BY <1>19 DEF PrepareRuntimeFifo, ResetHost
<1>20. ASSUME NEW exit \in BOOLEAN, FifoFails(exit) PROVE Doubted'
      BY <1>20 DEF FifoFails, Latch
<1>21. CASE UNCHANGED vars BY <1>21 DEF vars
<1> QED BY <1>1, <1>2, <1>3, <1>4, <1>5, <1>6, <1>7, <1>8, <1>9, <1>10, <1>11, <1>12, <1>13,
      <1>14, <1>15, <1>16, <1>17, <1>18, <1>19, <1>20, <1>21 DEF Next, Worker, Traffic

(* Every step leaves the ends agreed where the bus is used. *)
LEMMA AgreedKept == Typed /\ BusInv /\ [Next]_vars => Agreed'
<1> SUFFICES ASSUME Typed, BusInv, [Next]_vars PROVE Agreed' OBVIOUS
<1> USE BusModeAssumption DEF BusInv, Halfway, Agreed, Typed, TypeOK, ViewOK, Placed,
          Matched, Wide, Results, IdleCard, Cancelled, Probing, Setting, Raising, Reading,
          Working, env
<1>1. CASE Start \/ WindowHit \/ TransferWrong \/ TransferFails \/ ChipDone \/ Environment
      BY <1>1 DEF Start, WindowHit, Access, Hit, TransferWrong, TransferFails, ResetHost,
         ChipDone, Quiet, Environment
<1>2. CASE BusVerified \/ FinishDone \/ VerifyDone \/ RegisterAccess \/ AccessDone \/
      RuntimeEnds \/ FirmwareStop
      BY <1>2 DEF BusVerified, FinishDone, VerifyDone, RegisterAccess, AccessDone,
         RuntimeEnds, FirmwareStop, MayStop
<1>3. CASE Cancel \/ ReadFailed \/ UploadDone \/ Failed BY <1>3, CallUnknown DEF Cancel,
      Polls, ReadFailed, TryDefault, UploadDone, Failed
<1>4. CASE BusFailed
  <2>1. CASE Rescued BY <1>4, <2>1, CallUnknown DEF BusFailed
  <2>2. CASE ~Rescued
    <3>1. GivenUp BY <1>4, <2>2, GivesUp
    <3>2. QED BY <1>4, <2>2, <3>1 DEF BusFailed, Rescued, GivenUp
  <2>3. QED BY <2>1, <2>2
<1>5. CASE RestoreDefault
  <2>1. CASE ModeChanged
    <3>1. GivenUp /\ view'.stage = 99 BY <1>5, <2>1, GivesUp
    <3>2. QED BY <1>5, <2>1, <3>1 DEF RestoreDefault, GivenUp
  <2>2. CASE ~ModeChanged BY <1>5, <2>2, CallUnknown DEF RestoreDefault
  <2>3. QED BY <2>1, <2>2
<1>6. ASSUME NEW result \in Results, InitializeHost(result) \/ ResetCard(result) PROVE
      Agreed'
      BY <1>6 DEF InitializeHost, ResetHost, Khz, ResetCard, Cmd52Write
<1>7. ASSUME NEW result \in Results, NEW ready \in BOOLEAN, Cmd5Cycle(result, ready) PROVE
      Agreed'
      BY <1>7 DEF Cmd5Cycle, SetClock, Khz, SdioGetCmd5CycleClockKhz
<1>8. ASSUME NEW result \in Results, DefaultSlow(result) \/ DefaultSpeed(result) \/
      DefaultWidth(result) PROVE Agreed'
      BY <1>8 DEF DefaultSlow, BusStep, LowerClock, SetClock, Khz, DefaultSpeed, Cmd52Write,
         ResetHost, DefaultWidth
<1>9. ASSUME NEW result \in Results, DefaultHost(result) \/ DefaultClock(result) \/
      OperatingClock(result) PROVE Agreed'
      BY <1>9 DEF DefaultHost, BusStep, DefaultClock, SetClock, Khz, OperatingClock
<1>10. ASSUME NEW result \in Results, HsSlow(result) PROVE Agreed'
      BY <1>10 DEF HsSlow, HsStep, SetClock, Khz
<1>11. ASSUME NEW result \in Results, HsCard(result) PROVE Agreed'
      BY <1>11 DEF HsCard, HsStep, Cmd52Write, ResetHost
<1>12. ASSUME NEW result \in Results, HsHost(result) PROVE Agreed'
      BY <1>12 DEF HsHost, HsStep
<1>13. ASSUME NEW result \in Results, HsFast(result) PROVE Agreed'
      BY <1>13 DEF HsFast, HsStep, SetClock, Khz
<1>14. ASSUME NEW result \in Results, HsCheck(result) PROVE Agreed'
      BY <1>14 DEF HsCheck, HsStep, ResetHost
<1>15. ASSUME NEW result \in Results, FunctionsOff(result) PROVE Agreed'
      BY <1>15 DEF FunctionsOff, Quiet, Cmd52Write, ResetHost
<1>16. ASSUME NEW result \in Results, WindowSelect(result) PROVE Agreed'
      BY <1>16 DEF WindowSelect, Access, Hit, Selected
<1>17. ASSUME NEW result \in Results, ChipOn(result) PROVE Agreed'
      BY <1>17 DEF ChipOn, Quiet, Cmd52Write, ResetHost
<1>18. ASSUME NEW result \in Results, ChipOff(result) PROVE Agreed'
      BY <1>18 DEF ChipOff, Quiet, Cmd52Write, ResetHost
<1>19. ASSUME NEW result \in Results, Setup(result) PROVE Agreed'
      BY <1>19 DEF Setup, Cmd52Write, ResetHost
<1>20. ASSUME NEW result \in Results, BootDone(result) PROVE Agreed'
      BY <1>20 DEF BootDone, Cmd52Write, ResetHost
<1>21. ASSUME NEW ok \in BOOLEAN, SelectCard(ok) \/ Negotiate(ok) \/ SetupDone(ok) PROVE
      Agreed'
      BY <1>21 DEF SelectCard, ResetHost, Negotiate, Unknown, SetupDone
<1>22. ASSUME NEW eligible \in BOOLEAN, BusDone(eligible) PROVE Agreed'
      BY <1>22 DEF BusDone
<1>23. ASSUME NEW again \in BOOLEAN, Transfer(again) PROVE Agreed'
      BY <1>23 DEF Transfer
<1>24. ASSUME NEW ok \in BOOLEAN, NEW smb \in BOOLEAN, PrepareRuntimeFifo(ok, smb) PROVE
      Agreed'
      BY <1>24 DEF PrepareRuntimeFifo, ResetHost
<1>25. ASSUME NEW exit \in BOOLEAN, FifoFails(exit) PROVE Agreed'
      BY <1>25 DEF FifoFails, Latch
<1>26. CASE UNCHANGED vars BY <1>26 DEF vars
<1> QED BY <1>1, <1>2, <1>3, <1>4, <1>5, <1>6, <1>7, <1>8, <1>9, <1>10, <1>11, <1>12, <1>13,
      <1>14, <1>15, <1>16, <1>17, <1>18, <1>19, <1>20, <1>21, <1>22, <1>23, <1>24, <1>25,
      <1>26 DEF Next, Worker, Traffic

(* Every step keeps the driver's belief true. *)
LEMMA BelievedKept == Typed /\ BusInv /\ [Next]_vars => BelievedBusTrue'
<1> SUFFICES ASSUME Typed, BusInv, [Next]_vars PROVE BelievedBusTrue' OBVIOUS
<1> USE BusModeAssumption DEF BusInv, Halfway, Agreed, Doubted, BelievedBusTrue, Typed,
          TypeOK, ViewOK, Placed, Matched, OperatingBus, Clocks, Wide, Results, IdleCard,
          Cancelled, Probing, Setting, Raising, Reading, Working, env
<1>1. CASE Start \/ WindowHit \/ TransferWrong \/ TransferFails \/ ChipDone \/ Environment
      BY <1>1 DEF Start, WindowHit, Access, Hit, TransferWrong, TransferFails, ResetHost,
         ChipDone, Quiet, Environment
<1>2. CASE BusVerified \/ FinishDone \/ VerifyDone \/ RegisterAccess \/ AccessDone \/
      RuntimeEnds \/ FirmwareStop
      BY <1>2 DEF BusVerified, FinishDone, VerifyDone, RegisterAccess, AccessDone,
         RuntimeEnds, FirmwareStop, MayStop
<1>3. CASE UploadDone \/ Failed BY <1>3, CallUnknown DEF UploadDone, Failed
<1>4. CASE Cancel
  <2>1. CASE task = "verify" BY <1>4, <2>1, CallUnknown DEF Cancel
  <2>2. CASE UNCHANGED view BY <1>4, <2>2 DEF Cancel
  <2>3. CASE view' = [view EXCEPT !.recovered = FALSE, !.stage = 99]
    <3>1. GivenUp BY <2>3, GivesUp
    <3>2. QED BY <1>4, <3>1 DEF Cancel, GivenUp
  <2>4. QED BY <1>4, <2>1, <2>2, <2>3 DEF Cancel
<1>5. CASE ReadFailed
  <2>1. CASE Call("rescue") BY <1>5, <2>1, CallUnknown DEF ReadFailed
  <2>2. CASE view' = [view EXCEPT !.recovered = FALSE, !.stage = 99]
    <3>1. GivenUp BY <2>2, GivesUp
    <3>2. QED BY <1>5, <3>1 DEF ReadFailed, GivenUp
  <2>3. CASE UNCHANGED view BY <1>5, <2>3 DEF ReadFailed
  <2>4. QED BY <1>5, <2>1, <2>2, <2>3 DEF ReadFailed
<1>6. CASE BusFailed
  <2>1. CASE Rescued BY <1>6, <2>1, CallUnknown DEF BusFailed
  <2>2. CASE ~Rescued
    <3>1. GivenUp BY <1>6, <2>2, GivesUp
    <3>2. QED BY <1>6, <2>2, <3>1 DEF BusFailed, Rescued, GivenUp
  <2>3. QED BY <2>1, <2>2
<1>7. CASE RestoreDefault
  <2>1. CASE ModeChanged
    <3>1. GivenUp /\ view'.stage = 99 BY <1>7, <2>1, GivesUp
    <3>2. QED BY <1>7, <2>1, <3>1 DEF RestoreDefault, GivenUp
  <2>2. CASE ~ModeChanged BY <1>7, <2>2, CallUnknown DEF RestoreDefault
  <2>3. QED BY <2>1, <2>2
<1>8. ASSUME NEW result \in Results, InitializeHost(result) \/ ResetCard(result) PROVE
      BelievedBusTrue'
      BY <1>8 DEF InitializeHost, ResetHost, Khz, ResetCard, Cmd52Write
<1>9. ASSUME NEW result \in Results, NEW ready \in BOOLEAN, Cmd5Cycle(result, ready) PROVE
      BelievedBusTrue'
      BY <1>9 DEF Cmd5Cycle, SetClock, Khz, SdioGetCmd5CycleClockKhz
<1>10. ASSUME NEW result \in Results, DefaultSlow(result) PROVE BelievedBusTrue'
      BY <1>10 DEF DefaultSlow, BusStep, LowerClock, SetClock, Khz
<1>11. ASSUME NEW result \in Results, DefaultSpeed(result) PROVE BelievedBusTrue'
      BY <1>11 DEF DefaultSpeed, BusStep, Cmd52Write, ResetHost
<1>12. ASSUME NEW result \in Results, DefaultWidth(result) PROVE BelievedBusTrue'
      BY <1>12 DEF DefaultWidth, BusStep, Cmd52Write, ResetHost
<1>13. ASSUME NEW result \in Results, DefaultHost(result) PROVE BelievedBusTrue'
      BY <1>13 DEF DefaultHost, BusStep
<1>14. ASSUME NEW result \in Results, DefaultClock(result) PROVE BelievedBusTrue'
      BY <1>14 DEF DefaultClock, BusStep, SetClock, Khz
<1>15. ASSUME NEW result \in Results, OperatingClock(result) PROVE BelievedBusTrue'
      BY <1>15 DEF OperatingClock, BusStep, SetClock, Khz
<1>16. ASSUME NEW result \in Results, HsSlow(result) PROVE BelievedBusTrue'
      BY <1>16 DEF HsSlow, HsStep, SetClock, Khz
<1>17. ASSUME NEW result \in Results, HsCard(result) PROVE BelievedBusTrue'
      BY <1>17 DEF HsCard, HsStep, Cmd52Write, ResetHost
<1>18. ASSUME NEW result \in Results, HsHost(result) PROVE BelievedBusTrue'
      BY <1>18 DEF HsHost, HsStep
<1>19. ASSUME NEW result \in Results, HsFast(result) PROVE BelievedBusTrue'
      BY <1>19 DEF HsFast, HsStep, SetClock, Khz
<1>20. ASSUME NEW result \in Results, HsCheck(result) PROVE BelievedBusTrue'
      BY <1>20 DEF HsCheck, HsStep, ResetHost
<1>21. ASSUME NEW result \in Results, ChipOn(result) \/ ChipOff(result) \/ Setup(result) \/
      FunctionsOff(result) PROVE BelievedBusTrue'
      BY <1>21 DEF ChipOn, Quiet, Cmd52Write, ResetHost, ChipOff, Setup, FunctionsOff
<1>22. ASSUME NEW result \in Results, WindowSelect(result) PROVE BelievedBusTrue'
      BY <1>22 DEF WindowSelect, Access, Hit, Selected
<1>23. ASSUME NEW result \in Results, BootDone(result) PROVE BelievedBusTrue'
      BY <1>23 DEF BootDone, Cmd52Write, ResetHost
<1>24. ASSUME NEW ok \in BOOLEAN, SetupDone(ok) PROVE BelievedBusTrue'
      BY <1>24 DEF SetupDone
<1>25. ASSUME NEW ok \in BOOLEAN, SelectCard(ok) PROVE BelievedBusTrue'
      BY <1>25 DEF SelectCard, ResetHost
<1>26. ASSUME NEW ok \in BOOLEAN, Negotiate(ok) PROVE BelievedBusTrue'
      BY <1>26 DEF Negotiate, ResetHost, Unknown
<1>27. ASSUME NEW eligible \in BOOLEAN, BusDone(eligible) PROVE BelievedBusTrue'
      BY <1>27 DEF BusDone
<1>28. ASSUME NEW again \in BOOLEAN, Transfer(again) PROVE BelievedBusTrue'
      BY <1>28 DEF Transfer
<1>29. ASSUME NEW ok \in BOOLEAN, NEW smb \in BOOLEAN, PrepareRuntimeFifo(ok, smb) PROVE
      BelievedBusTrue'
      BY <1>29 DEF PrepareRuntimeFifo, ResetHost
<1>30. ASSUME NEW exit \in BOOLEAN, FifoFails(exit) PROVE BelievedBusTrue'
      BY <1>30 DEF FifoFails, Latch
<1>31. CASE UNCHANGED vars BY <1>31 DEF vars
<1> QED BY <1>1, <1>2, <1>3, <1>4, <1>5, <1>6, <1>7, <1>8, <1>9, <1>10, <1>11, <1>12, <1>13,
      <1>14, <1>15, <1>16, <1>17, <1>18, <1>19, <1>20, <1>21, <1>22, <1>23, <1>24, <1>25,
      <1>26, <1>27, <1>28, <1>29, <1>30, <1>31 DEF Next, Worker, Traffic
(* All of it together. *)
LEMMA BusKept == Typed /\ BusInv /\ [Next]_vars => BusInv'
BY HalfwayKept, DoubtedKept, AgreedKept, BelievedKept DEF BusInv
-----------------------------------------------------------------------------
(* The theorems. *)

(* Every variable of the bus has its type and every loop its bound, in every *)
(* run of the start, its fallbacks and the traffic.                         *)
THEOREM BusTypeCorrect == Spec => []Typed
<1>1. Init => Typed
  <2> SUFFICES ASSUME Init PROVE Typed OBVIOUS
  <2>1. card \in [wide : BOOLEAN, hs : BOOLEAN, window : Windows, block : BOOLEAN,
                  torn : BOOLEAN]
        BY IdleCardTyped DEF Init
  <2>2. host \in [wide : BOOLEAN, hs : BOOLEAN, clock : Clocks] BY SlowHostTyped DEF Init
  <2>3. view \in [stage : Stages, width : Widths, khz : Clocks, hs : BOOLEAN,
                  attempted : BOOLEAN, recovered : BOOLEAN]
    <3>1. 0 \in Stages /\ 0 \in Widths /\ 0 \in Clocks BY DEF Stages, Widths, Clocks
    <3>2. QED BY <3>1 DEF Init
  <2>4. cache \in [valid : BOOLEAN, window : Windows]
    <3>1. "none" \in Windows BY DEF Windows
    <3>2. QED BY <3>1 DEF Init
  <2>5. fifo \in [ready : BOOLEAN, failed : BOOLEAN] BY DEF Init
  <2>6. CountsOK /\ Placed
        BY BusModeAssumption DEF Init, CountsOK, Cycles, Placed, Places, Tasks, Probing,
           Setting, Raising, Reading, Working
  <2>7. FlagsOK BY DEF Init, FlagsOK
  <2>8. QED BY <2>1, <2>2, <2>3, <2>4, <2>5, <2>6, <2>7 DEF Typed, TypeOK, CountsOK, FlagsOK
<1>2. QED BY <1>1, TypedKept, PTL DEF Spec

(* The window and the latch, in every run. *)
LEMMA WindowHolds == Spec => []WindowInv
<1>1. Init => WindowInv BY DEF Init, WindowInv, CacheTrue, AccessInWindow, Latched
<1>2. QED BY <1>1, WindowKept, BusTypeCorrect, PTL DEF Spec

(* The ends of the bus and the driver's view of them, in every run. *)
LEMMA BusHolds == Spec => []BusInv
<1>1. Init => BusInv
      BY DEF Init, BusInv, Halfway, Agreed, Doubted, BelievedBusTrue, OperatingBus, Setting,
         Raising, Reading, Working
<1>2. QED BY <1>1, BusKept, BusTypeCorrect, PTL DEF Spec

(* CywWindow never lets an access through to another window than its own:   *)
(* the cache of the last window does not outlive a reset, a partial         *)
(* selection or a change of the bus mode.                                   *)
THEOREM WindowCorrect == Spec => []AccessInWindow
BY WindowHolds, PTL DEF WindowInv

(* Data crosses the bus only while both ends agree on width and timing,     *)
(* whatever command of bus_mode.h failed before, reported or not.           *)
THEOREM MatchedCorrect == Spec => []DataOnMatchedBus
<1>1. BusInv => DataOnMatchedBus
      BY DEF BusInv, Agreed, DataOnMatchedBus, Reading, Working
<1>2. QED BY <1>1, BusHolds, PTL

(* What BusModeStage, BusWidth, BusActualKhz and the FIFO flags say is so. *)
THEOREM BelievedCorrect == Spec => []BelievedTrue
<1>1. Typed /\ WindowInv /\ BusInv => BelievedTrue
      BY DEF Typed, Placed, WindowInv, Latched, BusInv, BelievedTrue, FifoTrue
<1>2. QED BY <1>1, BusTypeCorrect, WindowHolds, BusHolds, PTL

-----------------------------------------------------------------------------
(* How far a start has to go.  The bus is set, raised, verified, put back   *)
(* and rescued by procedures that call each other when a step fails.  That  *)
(* they do not go in circles is a rank of four numbers, compared in this    *)
(* order: the task, the mode of the bus work within the task (an upgrade    *)
(* before the default setting before a rescue), the accesses left, and the  *)
(* step.                                                                    *)
TaskRank ==
    IF task = "probe" THEN 12 ELSE IF task = "chip" THEN 11
    ELSE IF task = "setup" THEN 10 ELSE IF task = "prepare" THEN 9
    ELSE IF task = "fallback" THEN 8 ELSE IF task = "upload" THEN 7
    ELSE IF task = "finish" THEN 6 ELSE IF task = "boot" THEN 5
    ELSE IF task = "negotiate" THEN 4 ELSE IF task = "verify" THEN 3
    ELSE IF task = "runtime" THEN 2 ELSE 1
ModeRank ==
    IF pc \in Probing \cup {"negotiate"} THEN 10
    ELSE IF pc \in Setting /\ op = "upgrade" THEN 9
    ELSE IF pc \in Raising \/ (pc \in Reading /\ task = "verify" /\ ~retried) THEN 8
    ELSE IF pc = "default" THEN 7
    ELSE IF pc \in Setting /\ op \in {"default", "ident"} THEN 6
    ELSE IF pc \in {"chip", "halt"} THEN 5
    ELSE IF pc \in Reading THEN 4
    ELSE IF pc = "done" THEN 3
    ELSE IF pc \in {"restore", "undo", "arm"} THEN 2
    ELSE IF pc = "setup" \/ pc \in Setting THEN 1 ELSE 0
LeftRank ==
    IF pc \in {"host", "reset"} THEN Reads + Cycles
    ELSE IF pc \in {"cmd5"} \cup Reading THEN Reads + Cycles - count ELSE 0
StepRank ==
    IF pc \in {"host", "slow"} THEN 8 ELSE IF pc \in {"reset", "speed"} THEN 7
    ELSE IF pc \in {"cmd5", "width"} THEN 6 ELSE IF pc \in {"select", "hostSide", "hsSlow"} THEN 5
    ELSE IF pc \in {"clock", "hsCard"} THEN 4 ELSE IF pc \in {"fast", "hsHost", "window"} THEN 3
    ELSE IF pc \in {"hsFast", "xfer"} THEN 2
    ELSE IF pc \in {"busDone", "busFailed", "hsCheck", "readFailed"} THEN 1 ELSE 0

Starting == pc \notin {"off", "runtime"}
LowerRank ==
    \/ TaskRank' < TaskRank
    \/ TaskRank' = TaskRank /\ ModeRank' < ModeRank
    \/ TaskRank' = TaskRank /\ ModeRank' = ModeRank /\ LeftRank' < LeftRank
    \/ /\ TaskRank' = TaskRank /\ ModeRank' = ModeRank /\ LeftRank' = LeftRank
       /\ StepRank' < StepRank
SameRank == UNCHANGED <<TaskRank, ModeRank, LeftRank, StepRank>>


(* Who may be in which call, and that a default setting is put back at most *)
(* once per verification.                                                   *)
Restoring == pc = "default" \/ (pc \in Setting /\ op = "default")
Callers ==
    /\ task = "halt" => pc \in {"off", "halt", "done"} \cup Reading
    /\ task = "verify" /\ Restoring => retried
    /\ pc \in Setting /\ op = "ident" => task \in {"probe", "fallback", "finish"}
    /\ Restoring \/ (pc \in Setting /\ op = "rescue")
         => task \in {"prepare", "negotiate", "verify"}

LEMMA CallersKept == Typed /\ Callers /\ [Next]_vars => Callers'
<1> SUFFICES ASSUME Typed, Callers, [Next]_vars PROVE Callers' OBVIOUS
<1> USE BusModeAssumption DEF Typed, Placed, Callers, Restoring, Probing, Setting, Raising,
          Reading, Working, Places, Tasks, Results, env
<1>1. CASE WindowHit \/ TransferWrong \/ TransferFails \/ ChipDone
  BY <1>1 DEF WindowHit, Access, TransferWrong, TransferFails, ChipDone, Quiet
<1>2. CASE BusVerified \/ FinishDone \/ VerifyDone \/ FirmwareStop
  BY <1>2 DEF BusVerified, FinishDone, VerifyDone, FirmwareStop
<1>3. CASE Cancel \/ UploadDone \/ Failed
  BY <1>3, CallBegins DEF Cancel, Polls, UploadDone, Failed
<1>4. CASE ReadFailed
  BY <1>4, CallBegins DEF ReadFailed, TryDefault
<1>5. CASE BusFailed \/ RestoreDefault
  BY <1>5, CallBegins DEF BusFailed, Rescued, RestoreDefault
<1>6. ASSUME NEW result \in Results,
             InitializeHost(result) \/ ResetCard(result)
      PROVE  Callers'
  BY <1>6 DEF InitializeHost, ResetHost, Khz, ResetCard, Cmd52Write
<1>7. ASSUME NEW result \in Results, NEW ready \in BOOLEAN,
             Cmd5Cycle(result, ready)
      PROVE  Callers'
  BY <1>7 DEF Cmd5Cycle
<1>8. ASSUME NEW result \in Results,
             DefaultSlow(result) \/ DefaultSpeed(result) \/ DefaultWidth(result)
      PROVE  Callers'
  BY <1>8 DEF DefaultSlow, BusStep, LowerClock, SetClock, Khz, DefaultSpeed, Cmd52Write,
              ResetHost, DefaultWidth
<1>9. ASSUME NEW result \in Results,
             DefaultHost(result) \/ DefaultClock(result) \/ OperatingClock(result)
      PROVE  Callers'
  BY <1>9 DEF DefaultHost, BusStep, DefaultClock, OperatingClock
<1>10. ASSUME NEW result \in Results,
             \/ HsSlow(result) \/ HsCard(result) \/ HsHost(result)
             \/ HsFast(result) \/ HsCheck(result)
      PROVE  Callers'
  BY <1>10 DEF HsSlow, HsStep, SetClock, Khz, HsCard, Cmd52Write, ResetHost, HsHost, HsFast,
               HsCheck
<1>11. ASSUME NEW result \in Results,
             \/ WindowSelect(result) \/ ChipOn(result) \/ ChipOff(result)
             \/ Setup(result) \/ BootDone(result) \/ FunctionsOff(result)
      PROVE  Callers'
  BY <1>11 DEF WindowSelect, Access, Hit, Selected, ChipOn, Quiet, Cmd52Write, ResetHost, ChipOff,
               Setup, BootDone, FunctionsOff
<1>12. ASSUME NEW ok \in BOOLEAN,
             SelectCard(ok) \/ Negotiate(ok) \/ SetupDone(ok)
      PROVE  Callers'
  BY <1>12 DEF SelectCard, Negotiate, SetupDone
<1>13. ASSUME NEW eligible \in BOOLEAN,
             BusDone(eligible)
      PROVE  Callers'
  BY <1>13 DEF BusDone
<1>14. ASSUME NEW again \in BOOLEAN,
             Transfer(again)
      PROVE  Callers'
  BY <1>14 DEF Transfer
<1>15. ASSUME NEW ok \in BOOLEAN, NEW smb \in BOOLEAN,
             PrepareRuntimeFifo(ok, smb)
      PROVE  Callers'
  BY <1>15 DEF PrepareRuntimeFifo
<1>16. CASE Start \/ Environment \/ RegisterAccess \/ AccessDone \/ RuntimeEnds
  BY <1>16 DEF Start, Environment, RegisterAccess, AccessDone, RuntimeEnds
<1>17. ASSUME NEW exit \in BOOLEAN, FifoFails(exit) PROVE Callers'
  BY <1>17 DEF FifoFails
<1>18. CASE UNCHANGED vars BY <1>18 DEF vars
<1> QED
  BY <1>1, <1>2, <1>3, <1>4, <1>5, <1>6, <1>7, <1>8, <1>9, <1>10, <1>11, <1>12, <1>13, <1>14,
     <1>15, <1>16, <1>17, <1>18 DEF Next, Worker, Traffic

(* A step of the start ends it or lowers the rank. *)
LEMMA WorkerLowers ==
    ASSUME Typed, Callers, Callers', Worker
    PROVE  pc' \in {"off", "runtime"} \/ LowerRank
<1> USE BusModeAssumption DEF Typed, TypeOK, Placed, Callers, Restoring, Probing, Setting, Raising,
          Reading, Working, Places, Tasks, Results, Cycles, env, LowerRank, TaskRank, ModeRank,
          LeftRank, StepRank
<1>1. CASE WindowHit \/ TransferWrong \/ TransferFails \/ ChipDone
  BY <1>1 DEF WindowHit, Access, TransferWrong, TransferFails, ChipDone, Quiet
<1>2. CASE BusVerified \/ FinishDone \/ VerifyDone \/ FirmwareStop
  BY <1>2 DEF BusVerified, FinishDone, VerifyDone, FirmwareStop
<1>3. CASE Cancel \/ UploadDone \/ Failed
  BY <1>3, CallBegins DEF Cancel, Polls, UploadDone, Failed
<1>4. CASE ReadFailed
  BY <1>4, CallBegins DEF ReadFailed, TryDefault
<1>5. CASE BusFailed \/ RestoreDefault
  BY <1>5, CallBegins DEF BusFailed, Rescued, RestoreDefault
<1>6. ASSUME NEW result \in Results,
             InitializeHost(result) \/ ResetCard(result)
      PROVE  pc' \in {"off", "runtime"} \/ LowerRank
  BY <1>6 DEF InitializeHost, ResetHost, Khz, ResetCard, Cmd52Write
<1>7. ASSUME NEW result \in Results, NEW ready \in BOOLEAN,
             Cmd5Cycle(result, ready)
      PROVE  pc' \in {"off", "runtime"} \/ LowerRank
  BY <1>7 DEF Cmd5Cycle
<1>8. ASSUME NEW result \in Results,
             DefaultSlow(result) \/ DefaultSpeed(result) \/ DefaultWidth(result)
      PROVE  pc' \in {"off", "runtime"} \/ LowerRank
  BY <1>8 DEF DefaultSlow, BusStep, LowerClock, SetClock, Khz, DefaultSpeed, Cmd52Write,
              ResetHost, DefaultWidth
<1>9. ASSUME NEW result \in Results,
             DefaultHost(result) \/ DefaultClock(result) \/ OperatingClock(result)
      PROVE  pc' \in {"off", "runtime"} \/ LowerRank
  BY <1>9 DEF DefaultHost, BusStep, DefaultClock, OperatingClock
<1>10. ASSUME NEW result \in Results,
             \/ HsSlow(result) \/ HsCard(result) \/ HsHost(result)
             \/ HsFast(result) \/ HsCheck(result)
      PROVE  pc' \in {"off", "runtime"} \/ LowerRank
  BY <1>10 DEF HsSlow, HsStep, SetClock, Khz, HsCard, Cmd52Write, ResetHost, HsHost, HsFast,
               HsCheck
<1>11. ASSUME NEW result \in Results,
             \/ WindowSelect(result) \/ ChipOn(result) \/ ChipOff(result)
             \/ Setup(result) \/ BootDone(result) \/ FunctionsOff(result)
      PROVE  pc' \in {"off", "runtime"} \/ LowerRank
  BY <1>11 DEF WindowSelect, Access, Hit, Selected, ChipOn, Quiet, Cmd52Write, ResetHost, ChipOff,
               Setup, BootDone, FunctionsOff
<1>12. ASSUME NEW ok \in BOOLEAN,
             SelectCard(ok) \/ Negotiate(ok) \/ SetupDone(ok)
      PROVE  pc' \in {"off", "runtime"} \/ LowerRank
  BY <1>12 DEF SelectCard, Negotiate, SetupDone
<1>13. ASSUME NEW eligible \in BOOLEAN,
             BusDone(eligible)
      PROVE  pc' \in {"off", "runtime"} \/ LowerRank
  BY <1>13 DEF BusDone
<1>14. ASSUME NEW again \in BOOLEAN,
             Transfer(again)
      PROVE  pc' \in {"off", "runtime"} \/ LowerRank
  BY <1>14 DEF Transfer
<1>15. ASSUME NEW ok \in BOOLEAN, NEW smb \in BOOLEAN,
             PrepareRuntimeFifo(ok, smb)
      PROVE  pc' \in {"off", "runtime"} \/ LowerRank
  BY <1>15 DEF PrepareRuntimeFifo
<1> HIDE DEF Typed, TypeOK, Placed, Callers, Restoring, Probing, Setting, Raising,
          Reading, Working, Places, Tasks, Results, Cycles, env, LowerRank, TaskRank, ModeRank,
          LeftRank, StepRank
<1> QED
  BY <1>1, <1>2, <1>3, <1>4, <1>5, <1>6, <1>7, <1>8, <1>9, <1>10, <1>11, <1>12, <1>13, <1>14,
     <1>15 DEF Worker


(* The rank is bounded ... *)
RankBounded ==
    /\ TaskRank \in 1..12 /\ ModeRank \in 0..10
    /\ LeftRank \in 0..(Reads + Cycles) /\ StepRank \in 0..8

(* ... and between the start and its end, "off" or traffic, every step but  *)
(* the environment's lowers it: SdioSetDefaultBus, the high-speed upgrade,  *)
(* its verification, the fallback and the rescue end after a bounded number *)
(* of commands, whichever of them fail, be it after the card has obeyed.    *)
StartAdvances ==
    Starting =>
        \/ pc' \in {"off", "runtime"}
        \/ LowerRank
        \/ Environment /\ SameRank

(* The loops' counters bound the accesses left. *)
THEOREM StartIsBounded == Spec => []RankBounded
<1>1. Typed => RankBounded
  <2> SUFFICES ASSUME Typed PROVE RankBounded OBVIOUS
  <2>1. count \in 0..(Reads + Cycles) /\ Reads \in Nat /\ Cycles \in Nat
    BY BusModeAssumption DEF Typed, TypeOK, Cycles
  <2>2. LeftRank \in 0..(Reads + Cycles) BY <2>1 DEF LeftRank
  <2>3. TaskRank \in 1..12 BY DEF TaskRank
  <2>4. ModeRank \in 0..10 BY DEF ModeRank
  <2>5. StepRank \in 0..8 BY DEF StepRank
  <2> QED BY <2>2, <2>3, <2>4, <2>5 DEF RankBounded
<1> QED BY <1>1, BusTypeCorrect, PTL

(* The safety half of StartEnds: no step of a start leads back. *)
THEOREM StartGoesForward == Spec => [][StartAdvances]_vars
<1>1. Init => Callers BY DEF Init, Callers, Restoring, Setting
<1>2. Typed /\ Callers /\ Callers' /\ [Next]_vars => [StartAdvances]_vars
  <2> SUFFICES ASSUME Typed, Callers, Callers', Next, Starting
               PROVE  pc' \in {"off", "runtime"} \/ LowerRank \/ (Environment /\ SameRank)
    BY DEF StartAdvances
  <2>1. CASE Worker BY <2>1, WorkerLowers
  <2>2. CASE Environment
    <3>1. UNCHANGED <<pc, task, op, count, retried>> BY <2>2 DEF Environment
    <3>2. SameRank BY <3>1 DEF SameRank, TaskRank, ModeRank, LeftRank, StepRank
    <3> QED BY <2>2, <3>2
  <2>3. CASE Start BY <2>3 DEF Start, Starting
  <2>4. CASE RegisterAccess \/ AccessDone \/ RuntimeEnds
    BY <2>4 DEF RegisterAccess, AccessDone, RuntimeEnds, Starting
  <2>5. ASSUME NEW exit \in BOOLEAN, FifoFails(exit) PROVE FALSE BY <2>5 DEF FifoFails, Starting
  <2> QED BY <2>1, <2>2, <2>3, <2>4, <2>5 DEF Next, Traffic
<1> QED BY <1>1, <1>2, CallersKept, BusTypeCorrect, PTL DEF Spec
=============================================================================
