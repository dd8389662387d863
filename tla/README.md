# TLA+ models of the RPi5 CYW43455 Wi-Fi driver

The repository is an NDIS miniport for the Raspberry Pi 5's CYW43455 on Windows
11 ARM64 (`src/src/`), with a native GUI and setup program (`src/native/`),
PowerShell utilities, host-side regression tests (`src/tests/`) and docs. The
driver's own logic is in `src/src/cyw43455` (network, queue, transport,
connection, scan), `src/src/driver` (NDIS entry points, interrupts,
diagnostics) and `src/src/sdio` (host controller). This directory models the
part where things interleave: the NDIS callbacks, the IOCTL dispatcher, the
power and recovery work items, the interrupt and its DPC, the one PASSIVE-level
bus worker, the diagnostics exporter, the chip.

The build modelled is the default one: `RPI5CYW_TX_ADAPTIVE_HYBRID` = 1,
`RPI5CYW_TX_GLOM2` = 0.

## 1. Inventory

| Component | State | Operations | Talks to |
|---|---|---|---|
| Transmit queue (`tx_queue.h`, `tx_types.h`, `tx_dispatch.h`) | `CYW_TX_STATE`: active array, backlog, frame/NBL charges, `Outstanding`, `Completing`, gate | submit, cancel, pump, abort scan, promote, complete, flush, set gate | NDIS send/cancel at DISPATCH, worker; completions re-enter submit |
| SDPCM credits and frame send (`transport_send.h`, `network_protocol.h`, `tx_credit_pump.h`, `tx_pressure_*.h`) | `TxSeq`, `TxMax`, `TxFlow`, global flow, burst position and grant, `FifoTransportFailed` | send frame (fresh or reused service), accept header, credit test, grant | queue's pump, F1 service, firmware |
| Function-1 service and poll (`transport_service.h`, `transport_poll.h`) | `INTSTATUS` and mailbox of the chip, `RxPending`, batch flags, fallback time | probe, read status, acknowledge, re-read flow, mailbox, FIFO read | chip, every sender and reader |
| Lifecycle (`network.c`, `runtime_recovery.h`, `driver.c`) | `Stop`, `Paused`, `NdisPaused`, `Ready`, `Powered`, `IoStopped`, `Thread`, `PauseAck`, gate, recovery counters | pause, restart, power down/up, halt, worker start/loop/fail/exit, recovery | NDIS, work items, worker |
| Control plane (`network.c`, `connection.h`, `band_selection.h`, `scan_*.h`, `radio.h`) | `Request`, `ControlBusy`, `RadioBusy`, scan report and flags, `Associated`, `Authorized`, `SelectingBand`, media state, phase and status | IOCTLs, connect, disconnect, radio query, scan, link and scan events | user-mode utility, worker, firmware |
| Firmware commands (`control.h`) | `RequestId`, reply lengths | send, wait for the matching reply | SDPCM, F1 service |
| Transmit retry (`tx_retry.h`, `tx_retry_gate.h`) | deadline and step of the 1 ms ladder | select, reset | worker's wait |
| Interrupts (`driver.c`, `interrupt_policy.h`) | CARD_INT enables, `InterruptNeedsRearm`, `InterruptWakePending`, storm streak and fallback | ISR, DPC, NDIS enable/disable, rearm, quiesce, register, deregister | worker, pause, power, halt |
| Diagnostics exporter (`diagnostics_worker.h`, `diag_mailbox.h`) | two-slot mailbox, `Wake`, `Stop`, its own thread | start, begin, publish, take, release, stop | worker |
| Receive path (`transport_poll.h`, `rx_performance.h`, `rx_config.h`) | `RxGlom`, `RxNextLength`, `RxPending`, batch flags, `RxGlomEnabled` | poll, validate a superframe, hand out a child, configure | worker, firmware commands, NDIS |
| SDIO host and FIFO (`sdio.c`, `fifo_blocks.h`, `bus_mode.h`) | width, timing and clock of both ends and what the driver believes of them, failure latch, block mode | identification, commands, transfers, bus changes and restores | everything on the bus |
| Firmware start and stop, chip (`firmware.c`, `startup_bus.h`, `chip.c`, `erom.h`) | progress of the start, backplane window and its cache | probe, setup, upload, boot, verify, stop | SDIO |
| Statistics, timing, traces | counters | record | read by diagnostics only |
| GUI, setup, scripts | - | user interface, installation | IOCTLs |

What is hard here, and what correctness means for it:

* **Callbacks re-enter.** `NdisMSendNetBufferListsComplete` is called with the
  lock released and may send again or be observed by a pause. Every NBL must be
  owned once, returned once, counted until it is back, and in order.
* **Numbers wrap and headers are late.** The credit window is a difference of
  two bytes and its limit comes from frames that waited in a FIFO.
* **The chip moves between two register accesses.** Status bits are cleared by
  writing them; a change between read and acknowledge must not disappear.
* **Flags instead of locks.** `Paused`, `Stop`, `Ready`, `Thread`, `NdisPaused`
  are read and written by NDIS, a power work item, a recovery work item and the
  worker without a common lock; waits depend on what is set when.
* **Commands may be lost.** A firmware command that times out may have taken
  effect; scripts of commands must leave the firmware consistent, and events of
  an old join or scan arrive in the middle of the new one.
* **Both ends of a bus change separately.** Width and timing are set in the card
  by a command and in the host by a register; either may fail, and the error path
  that follows uses the bus again.
* **An interrupt is masked in one place and unmasked in another.** The ISR masks,
  the DPC wakes, the worker reads INTx and unmasks; NDIS, pause and power mask too.
* **Two threads share two slots** without a lock, and one joins the other.
* **Replies, superframes and hints outlive what they were meant for**: a reply
  its command, a hint the frame it named, the switch of the parser its command.
* **Everything must end**: pause, power, scan, connect, an NBL behind a firmware
  without credits.

`PROJECT.json` lists the hazards line by line, with the property that would
catch each or the reason why none does.

## 2. Modules

| Module | Models | Notes |
|---|---|---|
| `TxQueue` | the transmit queue | one action per locked region, and the mapping to `SendFifo`; `MCTxQueue` adds symmetry |
| `SendFifo` | what the queue promises NDIS | abstract: one line in admission order, only the head is transmitted, each NBL returned once |
| `TxQueueProofs` | proofs about `TxQueue`, and that it implements `SendFifo` | |
| `Sdpcm` | credits, sequence numbers, service reuse in bursts, control frames, latched FIFO failure | the firmware's buffers and header queue are external |
| `SdpcmProofs` | proofs about `Sdpcm` | |
| `F1Service` | one service interleaved with the chip at every register access, its three callers, the fallback poll | chip external |
| `F1ServiceProofs` | proofs about `F1Service` | |
| `Lifecycle` | pause, restart, power, halt, the worker's life, runtime recovery, two possible worker threads | NDIS's own rules (pause before power-down and halt) external |
| `LifecycleProofs` | proofs about `Lifecycle` | |
| `Control` | the request slot, connect with band selection, disconnect, radio, scan, link and scan events, cancellation | the firmware external |
| `ControlProofs` | proofs about `Control` | |
| `BusMode` | identification, bus modes and fallbacks, the firmware start and stop that run on them, window cache, FIFO latch | SDIO card external |
| `BusModeProofs` | proofs about `BusMode` | |
| `Interrupt` | ISR, DPC, rearm with the storm policy, quiesce, NDIS's control | a component: no specification of its own |
| `DiagMailbox` | the two-slot mailbox, its producer and the exporter thread | with its own specification `MailboxSpec` |
| `Worker` | composes `Interrupt` and `DiagMailbox` with the worker's loop, initialization, pause, power, surprise removal and halt | what happens on the bus is one step |
| `WorkerProofs` | proofs about `DiagMailbox` and `Worker`, and that `Worker` implements `MailboxSpec` | |
| `Receive` | `CywPoll` with hints and superframes, the receive batch, firmware commands and their replies, the glom configuration, restarts | the firmware external |
| `ReceiveProofs` | proofs about `Receive` | |

The modules cut the driver along its shared state. Each keeps the others as an
environment: `TxQueue` sees credits and transfers as outcomes, `Sdpcm` sees the
service as an outcome, `Lifecycle` reduces the link to a flag and the queue to a
number of held NBLs, `Control` reduces pause and power to their flags, `BusMode`
reduces traffic to accesses that succeed or fail. A failed
access or a lost reply is always a possible outcome.

### TxQueue

`q` is `CYW_TX_STATE`; `owner` says who has each NBL; `pc` is where the worker
stands between two locked regions. Submit is two actions, because `CywTxPrepare`
samples the clock outside the lock. Cancel, gate changes and the clock may come
at every control point. `pc = "refill"` is the loop
`while(CywTxPromoteOneLocked(..))`: the worker holds the lock there and nobody
else moves. A completion is release -> refill -> indicate -> settle; NDIS has the
NBL back at settle, where it may send again before the callback has returned.

### Sdpcm

`SeqMod` stands for 256. The firmware has `Buffers` buffers, frees them in any
rhythm and announces its limit in headers that wait in `rx`; the driver reads
them late. `pc` is the step of a data pump (fresh service or reuse), of a
control command or of a poll. A write may fail before or after the firmware took
the frame; the failure is latched (`FifoTransportFailed`) and a command's caller
may swallow it.

### F1Service

`intst` is the write-1-to-clear latch, `fcState` the live flow state, `fifo` the
frames in the chip, `ist` the driver's local copy. Every register access is one
action; the chip may act between any two. `caller` distinguishes a data send, the
receive batch and a firmware command, because they treat an error differently.

### Lifecycle

`flag` holds the booleans named above; `npc` is the NDIS thread in
`CywNetworkPause`; `lpc` the two users of `CywNetworkPower` (the power OID's work
item and the recovery); `wpc` the control point of each worker thread. Reads
and writes of shared flags that are separate statements are separate actions
where another thread can come between.

### Control

`pc` is the step of the script the worker runs; `n`, `link`, `scan` are the
fields of `CYW_NETWORK`; `job` the locals; `fw` the firmware, `fifo` its events.
A firmware command (`Reply`) is answered behind the queued events, refused, or
lost, in which case it may or may not have had its effect. `CywEvent` runs whenever
the worker polls, so between any two steps. It holds no lock and is two actions:
`Receive` is what it does up to its test of `ScanBusy` (`network.c:136-154`), and, when
a link event has passed that test (`link.handling`), `LinkEvent` is what it writes
behind it (`network.c:155-178`). The dispatcher's SCAN_START is two actions as well:
`ScanAdmit` its tests, `ScanStart` its writes. It holds `N->Lock` from one to the other
(`scan.admit`), which keeps other requests out (`LockFree`) but not the event handler,
so each may come between the test and the writes of the other. The writes of one of
them are one step. The worker itself goes on only when the event has been handled. The
country, CLM and security commands of a connect are one step: they differ in
nothing a property reads. Deadlines are a choice the model may take at any time.
`n.failed`, `job.before` and `link.missed` (an event that took back the authorization in
`Authorized` was dropped for a scan) are history.

### BusMode

`card` and `host` are the two ends, `view` what the adapter structure says of
them (`BusModeStage`, `BusWidth`, `BusActualKhz`, `BusHighSpeedActive`, ...),
`cache` and `fifo` the window cache and the FIFO's latch. `pc` is the step, `task`
the part of the start it works for, `op` the caller of `SdioSetDefaultBus`, whose
steps the four callers share. A command is `ok`, `fail` (no effect) or `late`
(obeyed, but its reply or readback was lost); each step of a bus change may be
any of them. `Reads` stands for the accesses of a task: the 16 chip-ID reads where
a bus is verified, any number of them elsewhere. Windows are names, and `mixed` is
what a partial selection leaves behind. A CMD53 is one step. A second start may
find the card in whatever mode the first one left it, or powered off in between.

### Interrupt, DiagMailbox and Worker

`Interrupt` keeps CARD_INT as one bit (`armed`: both enables), level triggered. It
may show with a function pending in INTx (`card = "function"`) or without, which is
what the storm policy counts. The DPC is three steps, as `IoStopped` and
`A->Network` are tested between its note (`wakePending`) and its event.
What runs under the interrupt's lock (`NdisMSynchronizeWithInterruptEx`) is one step.

`DiagMailbox` has one step per interlocked access and event operation. `ppc` is the
bus worker inside the producer's routines, `xpc` the exporter; the exporter writes a
buffer between the take and the release, and filling one is several steps, so that
an overlap would be seen. `published` and `written` are history.

`Worker` moves `ppc` and the interrupt along the worker's loop. `wpc` is its control
point, `lpc` the NDIS call or work item in progress. The rearm is two steps: the
decision after the INTx read, and the synchronized unmasking, so that everything may
come between. The work of a cycle may serve the card or not; the end of a cycle may
wait or not, as it depends on frames that were sent. `Lifecycle` has the transmit
queue, the gate and the runtime recovery, which `Worker` leaves out, and `Worker` has
what `Lifecycle` leaves out: failed initializations, `CywNetworkShutdown`, interrupt
and exporter.

### Receive

`CywPoll` is an operator: the set of outcomes of one poll (status, reply, new state),
used by the batch, the credit wait and the reply wait. A frame is a record with its
channel, its number and its length in units of 16 bytes; a superframe has the number
of its first child, and its children are handed out one per poll. Hints are kept
exactly as the code keeps them (`RxNextLength` and the superframe's `NextLength`).
Commands are those of `CywConfigureRxAggregation`, then any other; the firmware holds
commands and answers them in any order, however late. `fault`, `delivered` and
`answer` are history.

External assumptions: a hint is a promise (the frame it names is the next one and is
already in the FIFO, and it is not a control frame); a superframe follows its
descriptor directly; an identifier is not used again while a reply to its last use
may still come (`IdsOutlastReplies`: 65536 commands). That the service notices a
queued frame is `F1Service`'s subject.

## 3. Runs

| Run | Shows |
|---|---|
| `tx_queue_safety` | ownership, limits, order, refill, cancellation, exact charges and refinement of `SendFifo` |
| `tx_queue_live` | an aged NBL, and a cancelled one, is returned without any credit |
| `tx_queue_expiry` (violation) | a send admitted between the pump's clock read and its lock is failed as 30 s old |
| `sdpcm` | window never above the firmware's room, no overrun, numbers in order, burst discipline; an exhausted window comes back |
| `f1_service` | neither a flow change nor a frame is lost; a frame is read even if the CCCR summary is blind |
| `f1_fault` (violation) | a service that fails inside a radio query does not stop later data sends |
| `lifecycle` | gate of a paused adapter, no stranded send, quiet D3, free only when alone; pause and power end |
| `lifecycle_pause` (violation) | a pause returns on the acknowledgement of the previous one with an NBL held |
| `control` | what is published is true; a failed connect stays unpublished; the preference is removed; a scan that touches the radio is alone, lists its own results, restores the firmware; requests end |
| `bus_mode` | data crosses only a bus whose ends agree, in the window meant for it; the driver's belief about the bus and the FIFO latch are true when used; a start ends |
| `worker` | no masked interrupt and no wake-up is forgotten; snapshots are whole, in order and drained; the adapter is freed last; a masked interrupt is unmasked or replaced by polling; a halt ends |
| `receive` | a command takes its own reply; data is delivered once and in order, and nothing of a superframe that does not validate; the FIFO is latched only for a failed transfer or a malformed frame |

### Bounds

* `MCTxQueue.cfg`: three NBLs of 0 to 3 frames, limits 2 and 2, budget 2. Three
  is the least number with one NBL on its way out, one active and one in the
  backlog; three frames exceed a limit and are refused, two fill it. An NBL is
  re-sent from its own completion. `MaxTickets` bounds admissions, `MaxClock` = 1
  with `MaxAge` = 1 gives a clock that crosses the age limit once.
  `MCTxQueueExpiry.cfg` lets a send come after the tick (`LastSubmit` = 1), which
  the safety run leaves out, as the wrap is what it is about. Symmetry is over
  NBLs and used in the safety run only.
* `Sdpcm.cfg`: `SeqMod` = 8, window 3, so that sums wrap and a window above the
  limit is representable; 9 frames go once around. A burst of 2 under 3 buffers is
  ended by its cap as well as by the credit.
* `F1Service.cfg`: two frames, two flow changes, one mail: a change can cross the
  acknowledge of the previous one.
* `Lifecycle.cfg`: two worker identities (the second is reachable beside the
  first), one recovery (`CYW_RUNTIME_RECOVERY_MAX` is 1; the proofs are for any
  number), one NBL. Properties that a recovery breaks say so. Deadlock is not checked
  because a halted driver has stopped.
* `Control.cfg`: two scan generations that share one sync id (the weakest filter
  the code can have), one event in flight beside the firmware's state, three
  countries: 1.3 million states. Two generations are needed for a scan to meet the
  events of the previous one. With two events in flight and one generation the same
  invariants hold.
* `BusMode.cfg`: two reads per task (a first access and one that may reuse the
  window), two CMD5 cycles per clock, two starts, so that a warm start meets every
  mode. Deadlock is not checked because a stopped driver has stopped.
* `Worker.cfg`: one pause and one power cycle (each can meet every control point of
  the worker), three snapshots, so that the producer comes back to a slot that was
  used, and a storm limit of one empty wake-up (the code's is 32), so that fallback and
  a reset streak are both reached. `MaxWithIrq` = 0: beside a registered interrupt
  the exporter starts, waits and stops but is given no snapshot; snapshots are taken
  when registration failed and the driver polls. The two share only the worker's
  control flow, and the proofs are for every value. Deadlock is not checked because
  a halted driver has stopped.
* `Receive.cfg`: four data frames, superframes of up to two, a FIFO of three; lengths
  below, at and above the shortest hint; a batch of two. Identifiers modulo 3 with
  seven commands wrap twice, and five commands configure the firmware; one restart.
  Deadlock is not checked because the bounds on commands and frames end every run.

### Fairness

`Worker`: the exporter is a thread of its own, a queued DPC runs, and a call of NDIS
or a work item that has begun (`lpc` neither idle nor asleep) goes on; interrupts,
requests of NDIS and a quiet card are not assumed.

The worker is a system thread whose waits are timed (10 ms or less) and whose
commands and transfers have deadlines: weak fairness of its steps. `BusMode`
needs no more: nothing is assumed of traffic, the stop request or the next start. Work items and
the NDIS call in progress run to their end. `Sdpcm` and `F1Service` also need
strong fairness of the receive batch: a worker cycle runs one each time, but data
sends in between disable it for a while. So does `Control` of the worker's script: an
event that is being handled disables it, and a firmware could go on sending events,
but deadlines are looked at between any two of them; an event in hand is finished
(weak fairness of `LinkEvent`). `Sdpcm` assumes that the firmware frees
buffers and sends headers, as credit could not come back otherwise. NDIS, the
user, the clock's bound and events are never assumed to happen, except that
interrupt time passes in `F1Service`.

## 4. Proofs

TLAPS checks the following for every value of the constants.

* `TxQueueProofs`: `QueueInvariant`, `TypeCorrect`, `QueueBounded`. `Bounded`
  is not inductive: the array is within its limit because admission counts NBLs
  that have left the array and are still charged, so the argument needs
  `Accounting` (Outstanding is the count plus the one being released, Completing
  the one in a callback) and `Control` (the head on the bus is still there, every
  item has frames left). `QueueInv` is their conjunction with the types. One
  lemma per action; lemmas about appending, removing, promoting and cancelling
  are shared. Assumption: `QueueAssumption`.
* `TxQueueProofs`, ownership and order: `PlacesInvariant`, `EveryNblOwnedOnce`,
  `ZeroIsTrue`, `CancelIsObeyed`, `AdmissionOrder`, `BacklogIsRefilled`. Every step is
  one of a few moves (lemma `MovesAre`): an item enters the active array or the
  backlog, leaves one of them at a position, is promoted, loses a frame or is
  returned; marks of a cancellation change no place. The arrays are described position
  by position (`Grown`, `Shrunk`, `Alike`), and each property is proved from the
  moves. `PlacesInv` is inductive with `QueueInv`: `Distinct` (no NBL is in two places),
  `Owned` and `Kept` (the miniport owns those in a place, and all it owns are in one)
  give `OwnedOnce` and, with `Accounting`, `NoFalseZero`; `Ordered` also keeps the
  tickets below the next one; `Punctual` extends `CancelStops` to the backlog, from
  which items are promoted; `Prepared` says that an item prepared outside the lock
  still fits; `Flushing` that a flush never completes as success. `NoIdleRoom` is
  inductive with `QueueInv` alone.
* `TxQueueProofs`, the refinement: `QueueIsFifo` (`Spec => ImplementsFifo`). The line
  is the active array followed by the backlog, so a promotion stutters, as does
  whatever leaves NBLs and frames alone. An entry is an Accept (`Owned` and `Kept` say
  that the NBL is not in the line, `Prepared` that its frames are within the limit), a
  removal a Finish when it is the head with its last frame sent and a Drop otherwise
  (`Flushing` excludes a flush that reports success), the callback a Return.
* `TxQueueProofs`, the books: `BooksInvariant`, `ChargesAreExact`,
  `OnlyTheWrapExpiresEarly`. `ChargesExact` speaks of a sum over an array, and what a
  recursive sum computes cannot be proved here. It is therefore stated with its
  witness: there is a running total that starts at 0, grows by each item's charge and
  ends at the counter. An append extends the witness, a removal drops a position and
  subtracts the item's charge from the totals behind it; no induction is needed.
  `BooksInv` adds that the totals do not fall (so a removal leaves natural numbers),
  that nothing is dated after the clock, and how old an expired item is.
* `TxQueueProofs`, the work: `LoopInvariant`, `WorkIsBounded`, `WorkGetsDone`. A pump,
  and the flush of a worker that goes for good, have a rank (`Turns` of the loop, then
  `Steps` of a turn) that every step of the worker lowers and nobody else's changes, so
  submits out of a completion callback cannot keep it there. The flush of a pause is
  left out: NDIS may open the gate again and its loop then goes on with what comes in.
* `F1ServiceProofs`: `ServiceInvariant`, `ServiceTypes`, `FlowNeverLost`,
  `FrameNeverForgotten`. The properties speak of the service at rest; in the
  middle of one the event lives in the local copy `ist` only. `FlowHeld` and
  `FrameHeld` say at which control points that is so; with the types they are
  inductive. The chip may act any number of times (`MaxFrames`, `MaxToggles`,
  `MaxMail` are arbitrary). `OnlyCommandsOutliveAFault`: if no access fails inside a
  firmware command, `NoSendAfterFault` holds.
* `WorkerProofs`, the mailbox: `MailboxInvariant`, `WholeSnapshots`, `DrainedExporter`.
  The invariant says how far the two indices are apart for the number of snapshots
  published and not written (`Indices`: none, one or two), what the waiting slots
  hold (`Waiting`), that the producer's slot is free or being filled (`Filling`), and
  that Stop comes behind the last snapshot and the thread ends with nothing left
  (`Ending`). `SnapshotsWhole` alone says nothing of the slot that is next. Assumption:
  `MailboxAssumption`; the number of snapshots is arbitrary.
* `WorkerProofs`, the composition: `WorkerInvariant`, `InterruptNeverLost`, `ImplementsMailbox`,
  `WholeInWorker`, `AdapterLast`. `NeverStranded` needs that a worker is created with
  a rearm to do (`Asked`, `Alone`); `WakeNotLost` needs to be told from the consumption
  of a wake-up to the wait behind it (`Told`), because a DPC in between sets the event
  that the wait then finds. Every step of the composition is a step of the mailbox or
  leaves it alone, so the mailbox's theorems hold in it, and with them
  `AdapterOutlivesAll`. Pauses, power cycles, interrupts and the storm limit are
  arbitrary.
* `WorkerProofs`, the end of everything: `ExporterAwake`, `ExporterStopIsShort`,
  `StopInvariant`, `CallsAreAnswered`, `WorkerStopIsShort`, `DeregistrationIsShort`.
  The exporter looks into the mailbox before it sleeps and the worker publishes before
  it signals, so it never sleeps on a snapshot or on its stop. A pause that waits has an
  acknowledgement or a worker with one before it; a join has Stop set. Once Stop is set
  the worker (12 steps, snapshots not counted), the exporter (17) and, behind the
  join, the interrupt with its DPC (9) each have a rank that their steps lower and no
  other step raises.
* `SdpcmProofs`: `SdpcmTypeCorrect`, `CreditCorrect`, `NumbersCorrect`,
  `DisciplineCorrect`. `CreditTrue` compares two bytes, and bytes have no order; the
  argument is about the counts they stand for. `CreditInv` says that there is a
  `limit`, the newest the driver has read, whose remainder `TxMax` is, that it lies
  between what was sent and what the firmware has room for, and that the headers
  still in flight are not older. As the window is below half the modulus, the
  difference of the bytes is the difference of the counts (lemma `Difference`).
  `BurstInv` places the pump in its burst. Assumption: `SdpcmAssumption`
  (`2 * Window < SeqMod` is the driver's 64 against 256); buffers, window, burst and
  budget are arbitrary. `CreditIsKept` is the other direction: no header is taken for a
  stale one, after each the credit is what it announced less what was sent by then, and
  only a frame sent lowers it.
* `LifecycleProofs`: `LifecycleTypeCorrect`, `NothingStranded`, `PausedIsClosed`,
  `D3IsQuiet`. A send is not stranded because whatever lets one in or holds one
  (`Ready`, an open gate, a held NBL) implies a worker that still has its exit before
  it (`ServedInv`); this is inductive for any number of workers and recoveries. The
  other two hold until a recovery is queued (section 5), and need that NDIS's calls
  exclude each other (`NdisInv`), that a power-up copies a `NdisPaused` that is still
  set (`PauseInv`), and that `N->Thread` is the only worker (`WorkerInv`). Assumption:
  `LifecycleAssumption`.
* `LifecycleProofs`, the waits: `WaitersAreServed` (nobody waits for a flag that nobody
  is left to set) and `TimelyPauseDrainsHolds`. The latter has a hypothesis on the
  behaviour, `[][Timely]_vars`: a pause does not begin while a worker is still in the
  branch of the previous one. Then, until a recovery is queued, a pause returns with
  nothing held. `DrainInv` says that an acknowledgement given during the pause comes
  behind the closed gate and the flush.
* `BusModeProofs`: `BusTypeCorrect`, `WindowCorrect`, `MatchedCorrect`,
  `BelievedCorrect`. In the middle of a bus change the ends disagree, and the
  driver's record of them is old. `Halfway` says how far each step has brought the
  ends, `Agreed` that they agree again wherever the bus is used or the recovery is
  reported as good, `Doubted` that in between the driver does not take the bus for
  the operating one. `CacheTrue` (a valid cached window is the card's) carries
  `AccessInWindow`; `Latched` carries the FIFO part of `BelievedTrue`. Assumption:
  `BusModeAssumption`; the number of verifying reads, CMD5 cycles and starts is
  arbitrary. `StartIsBounded` and `StartGoesForward`: a start has a lexicographic rank
  (task, mode, accesses left, step) that each of its steps lowers, upgrade, fallback and
  rescue included; `Callers` says which task may be in which part of
  `SdioSetDefaultBus`.
* `ReceiveProofs`: `ReplyCorrect`, `LatchCorrect`, `OrderCorrect`. `RequestInv` says
  that every reply still to come is to a request so recent that its identifier is not
  in use again (from the external `IdsOutlastReplies`) and that none is answered
  twice. `ParserInv` says that the parser is on wherever a descriptor may arrive,
  replies and refusals in flight included. `StreamInv` relates superframe and hint to
  the FIFO (`ShapeInv`) and numbers the data frames in it from the last one handed up
  (`Numbered`); it is claimed until the failure is latched. What one poll does is
  summarised once (`Effect`), and the invariant is proved from that. Assumption:
  `ReceiveAssumption`.
* `ControlProofs`: `ControlInvariant`, `ControlTypeCorrect`, `LinkIsHonest`,
  `FailedStaysUnpublished`, `PreferenceRemoved`, `ScanIsAlone`, `ScanIsFresh`,
  `ScanPutsBack`. The driver's view of the radio lags behind it by the events in
  flight, so each property needs to be told what may still be in flight.
  `SlotInv` says that a busy scan is in the slot or being run and nothing else can be,
  and that one being admitted keeps the slot empty. `HandInv` says that an event past
  the test of `ScanBusy` is a link event and no scan runs yet. `LinkInv` says that a
  scan finds no selection, that one that has begun to change the radio finds no link
  and gets none, and that a selection, failed or open, hides it. `PrefInv` says that a preference in force without a
  selection is that of an ended join, with no LINK event left (`Quiet`). `JoinInv`
  says that no join runs between a connect's DOWN and its own join. `AuthInv` says
  that an authorization the driver believes in, or is about to be told of, is the
  firmware's, or revoked by an event behind it or by one that was dropped for a scan
  (`link.missed`); this is false in some places
  (`Doubtful`: a failed request, a second join before it is verified, a scan before
  its DOWN is answered) where nothing is published. `FreshInv` says that the window
  for scan events opens behind an answered DOWN and a drained FIFO. `RestoreInv` says
  what the locals of a scan know of its changes at each step (`DirtyInv`, `MaskInv`,
  `CountryInv`). What the steps of the two scripts may do is summarised once each
  (`Flow`, `Order`, `Worked`, `Cleaned`, `Commands`) and every part is proved from
  that. Assumption: `ControlAssumption`; scans, sync ids and the depth of the FIFO are
  arbitrary. `ScanFresh` holds even with one sync id for all scans: the drains carry
  it, the filter on ids is a second line. `RequestIsShort`: a request that was taken has
  at most 17 steps left, each of which brings its end closer, and nothing that arrives
  meanwhile takes it back.

Each inductive invariant and each rank was checked by TLC on the bounds of the module's
run before it was proved (`LifeInv` with three workers as well).

Four theorems delimit what is found in section 5: the wrap of the unsigned age is the
only way an NBL expires early (`OnlyTheWrapExpiresEarly`), a pause that overtakes the
previous one, or a recovery, the only way one returns with an NBL held
(`TimelyPauseDrainsHolds`), a fault inside a firmware command the only one that data
may follow (`OnlyCommandsOutliveAFault`), and an event dropped for a scan, or a request
that has failed, the only reason why a published link is neither the firmware's nor about
to be taken back (`LinkIsHonest`).

Only model-checked: liveness, as fairness and ENABLED are outside this prover. Its
safety half (no step leads back, the way is bounded, nobody waits for what will not
come) is proved where the progress is one thread's own: for `StartEnds`, `RequestsEnd`
and `HaltEnds`, for the pump of `DueIsReturned`, and for `PauseReturns`,
`PowerCompletes` and `CreditReturns` in so far as no wait is in vain and no credit is
lost. That an action with a deadline is always enabled, `FrameIsRead` and `MaskedEnds`
rest on TLC alone. All invariants and action properties of the passing runs are proved.
`NoOvertaking` of `TxQueue` is what the refinement says of the two arrays; it is proved
(`AdmissionOrder`) and has no run of its own. Type invariants are stated in each module
and proved where there are proofs.

## 5. What the models found

Three places where the code and what the repository says of it differ are kept
as runs (`findings` in `PROJECT.json`): the unsigned age of a send admitted
during the pump's start; data sends after a failed service; a pause that returns
on an old acknowledgement. Section 4 proves what delimits each of them. Three more are
found the same way and appear as exceptions in the properties of `lifecycle` and
`control`:

* `docs/LINK-STABILITY-UPDATE.md:25-27` says that link-down, deauthentication and
  disassociation "still disconnect". `CywEvent` tests `ScanBusy` (`network.c:154`) and
  writes the link behind it (`network.c:159-177`) without `N->Lock`, and a scan may be
  admitted in between. The firmware reassociates by itself after the driver has gone
  back to phase 500; a scan passes the tests of its admission; LINK is handled; PSK_SUP
  passes the test of `ScanBusy`; the admission sets it; the handler goes on, sets
  `Authorized` and reports the media connected. A LOSS is now dropped. The recheck at
  `scan_sequence.h:89` finds the link and leaves it untouched, as its comment says, so
  nothing takes it back. An admission in one step does not help: with two scans, the
  first cancelled while it is queued, LINK is dropped for the first, PSK_SUP passes the
  test before the second is admitted, LOSS is dropped for that one, its recheck leaves
  `Authorized` as it is, and the next LINK publishes a link without authorization. This
  is the exception `link.missed` in `LinkHonest`, and `LinkIsHonest` proves that it is
  the only one beside a failed request.
* `network.c:774` says "No SDIO access in D3". A recovery work item queued by a
  failing worker may run after OID_PNP_SET_POWER(D3) has completed (`network.c:429`):
  nothing withdraws it, and it probes the bus and starts a worker in D3.
* `join_preference.h:6-7` says the band preference is removed before publication. A
  disconnect cancels the selection before that; when its DOWN fails the worker still
  clears `SelectingBand` (`network.c:563`), and the events of the join that still runs
  publish a link with the preference in force.

Behaviours met on the way that no line of the repository contradicts, or that
are not run separately:

* Recovery and power-up both test `N->Thread`, which the new thread sets itself:
  `Lifecycle` reaches two live workers.
* `network.c:527` flushes with PAUSED after testing `Paused`; a restart in
  between opens the gate first, and it stays closed until the link changes.
* The recovery copies `NdisPaused` into `Paused` in two steps; a pause in between
  is undone and waits for an acknowledgement that does not come (the exception
  in `PauseReturns`). It also clears `Stop` under a power-down that joins a
  worker (the exception in `PowerCompletes`).
* `band_selection.h:126` says a power reset clears the hold of a failed
  selection; `CywNetworkPower` leaves `SelectingBand` set, and scans are refused
  until the next connect or disconnect.
* `CywEvent` drops link events from the moment a scan is admitted, so the recheck
  at `scan_sequence.h:89` sees a link of which the last event was in hand then, and not
  one whose events were still in the FIFO. A firmware that reassociates by itself loses that link to the scan's DOWN.
* A start cancelled inside `CywFinishFirmwareBus`'s reads records CANCELLED as
  `BusRecoveryStatus`, so `CywFirmwareStop` leaves the chip as it is, on a bus that
  is in order. `busRetried` is never what decides: `BusHighSpeedActive` is clear
  after the one restore.
* A power-up whose probe fails leaves CARD_INT masked and no worker to rearm it; the
  next power-up starts afresh. This is why `NeverStranded` speaks of a worker.
* `CywNetworkStop` frees `CYW_NETWORK` before the interrupt is deregistered: a DPC
  that has read `A->Network` (`network.c:836`) may set an event in freed memory.
  `Worker` reaches the state; `AdapterOutlivesAll` is about the adapter.
* A worker past its INTx read rearms an interrupt that a pause, a stop or NDIS has
  just masked. In the pause branch nothing masks it again; the ISR then wakes a worker
  that is paused. The deregistration masks it before the adapter is freed.
* After NDIS's EnableInterrupt a rearm may be pending while CARD_INT is on. A failed
  INTx read then sets the fallback with the interrupt unmasked, although the comment
  at `driver.c:228` says it stays masked; the next interrupt masks it.
* A radio request queued when the adapter is paused keeps `RadioBusy` set until
  it is resumed; unlike a scan, nothing withdraws it.

## 6. Limits

* Data is abstract: no frame bytes, parsing, counters or reports.
* `Lifecycle` assumes NDIS pauses an adapter before powering it down or halting
  it and ends at the free. `Worker` makes the same assumption; a pause there waits
  for a Ready worker only, as sends are `Lifecycle`'s subject, and a deregistration
  waits for the DPC.
* `Receive` has one outcome for every kind of malformed header or length, and no
  credits. What `CywReceive` does with a frame (filters, indication to NDIS) is not
  modelled. Liveness of reception is not checked.
* `F1Service` takes the FC_STATE bit as a live state that a write does not clear.
* A region under one spin lock is one step, unless a thread that does not take the lock
  reads or writes what it works on (`ScanAdmit`, `ScanStart`). So is a run of statements
  on state that no other thread touches, and a run of writes to shared state between
  which nobody who could tell looks (the flags, media state and phase in `LinkEvent`:
  the dispatcher's tests need all of them clear, the worker comes behind).
* `Control` starts with the adapter configured and merges the readbacks after a
  SET with the SET. A command that took effect after its timeout takes effect at
  the timeout.
* `BusMode` assumes a card of CCCR revision 2 or later and a base clock from which
  400, 25000 and 50000 kHz are exact; the polls, blocks and bytes of a transfer,
  the core reset sequences, RAM sizing, NVRAM packing and the EROM parser are
  accesses that succeed or do not. Every failed CMD52 resets the host's command and
  data lines; in the code a response with error bits, or a readback that differs, returns
  without that (`sdio.c:590-595`). No property tells the two apart.
* `VerifiedLink` is the agreement of the five GETs of `CywBandVerify` at the last
  of them.

## 7. Plan

Done: every module of section 2, each with proofs. Next, in this
order:

1. `SdioFifo`: a FIFO transfer block by block (`fifo_blocks.h`): a completion seen
   after the deadline is accepted, a short transfer never is.
2. `Receive` with the reply outcomes of `Control` as its abstract specification.
3. The retry ladder of `tx_retry.h`: the 1 ms waits end.

Not modelled, and not planned: statistics, timing and traces (counters that no
control decision reads), the contents of diagnostic snapshots, OID queries and
resource mapping, byte-level parsing and packing, the native programs and the
scripts.
