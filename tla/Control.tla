------------------------------- MODULE Control -------------------------------
(***************************************************************************)
(* The control plane: IOCTLs put one request at a time into N->Request, the*)
(* bus worker takes it and runs it as a script of firmware commands        *)
(* (connect with band selection, disconnect, radio query, scan), and the   *)
(* firmware's events, which the worker meets whenever it polls for a reply,*)
(* change the link and feed the scan.  A command is answered behind the    *)
(* events already in the FIFO, is refused, or is lost: the driver then does*)
(* not know whether it took effect.                                        *)
(* Pausing and power are reduced to their flags; Lifecycle has their races.*)
(***************************************************************************)
EXTENDS Integers, Sequences

CONSTANTS
    SyncMod,    \* number of scan sync ids (65535 in the code)
    MaxGen,     \* bound on scan generations
    Depth       \* bound on firmware events in flight

ASSUME ControlAssumption ==
    SyncMod \in Nat \ {0} /\ MaxGen \in Nat /\ Depth \in Nat

VARIABLES
    n,      \* CYW_NETWORK: request, controlBusy, radioBusy, ready, paused, stop;
            \* failed (history): the last connect failed
    link,   \* assoc, auth, selecting, and media, the published MediaConnectState;
            \* handling: CywEvent is past its test of ScanBusy with the head of fifo;
            \* missed (history): it has dropped what took back the authorization in auth
    phase,  \* NetworkPhase: down (500), joining (510 and 520), up (600)
    good,   \* NetworkStatus is STATUS_SUCCESS
    scan,   \* the scan's fields of CYW_NETWORK, ScanReport included; admit: the IOCTL
            \* that starts one holds N->Lock, past its tests
    fw,     \* the firmware (external)
    fifo,   \* its events on the way to the driver (external)
    pc,     \* the step of the worker
    job     \* the locals of CywScanRequest and CywJoinSelectedBand

vars == <<n, link, phase, good, scan, fw, fifo, pc, job>>

(* Associated and Authorized are cleared. *)
Unjoined(l) == [l EXCEPT !.assoc = FALSE, !.auth = FALSE, !.missed = FALSE]

Countries == {"default", "home", "away"}
NoJob == [fallback |-> FALSE, status |-> "ok", dirty |-> FALSE, mask |-> FALSE,
          country |-> FALSE, down |-> FALSE, cleanup |-> "ok",
          origMask |-> FALSE, orig |-> "default", before |-> "default"]
FirmwareReset == [up |-> FALSE, join |-> FALSE, assoc |-> FALSE, auth |-> FALSE,
                  pref |-> FALSE, mask |-> FALSE, country |-> "default", scan |-> 0]
-----------------------------------------------------------------------------
(* The firmware. *)

RadioDown(f) == [f EXCEPT !.up = FALSE, !.join = FALSE, !.assoc = FALSE, !.auth = FALSE,
                          !.scan = 0]

Post(e) == Len(fifo) < Depth /\ fifo' = Append(fifo, e)
Driver == <<n, link, phase, good, scan, pc, job>>

FwLink ==
    /\ fw.up /\ fw.join /\ ~fw.assoc
    /\ fw' = [fw EXCEPT !.assoc = TRUE] /\ Post([kind |-> "LINK"])
    /\ UNCHANGED Driver
(* A key exchange ends, the first or a renewal, well or badly. *)
FwAuth ==
    /\ fw.assoc
    /\ fw' = [fw EXCEPT !.auth = TRUE] /\ Post([kind |-> "PSK"])
    /\ UNCHANGED Driver
FwDeny ==
    /\ fw.assoc
    /\ fw' = [fw EXCEPT !.auth = FALSE] /\ Post([kind |-> "DENY"])
    /\ UNCHANGED Driver
(* The association is lost and sought again, or a join has failed. *)
FwLoss ==
    /\ fw.join
    /\ fw' = [fw EXCEPT !.assoc = FALSE, !.auth = FALSE, !.join = fw.assoc]
    /\ Post([kind |-> "LOSS"])
    /\ UNCHANGED Driver
FwPartial ==
    /\ fw.up /\ fw.scan # 0 /\ fw.mask
    /\ Post([kind |-> "PARTIAL", of |-> fw.scan]) /\ UNCHANGED fw
    /\ UNCHANGED Driver
FwScanEnds(tagged, ok) ==
    /\ fw.up /\ fw.scan # 0 /\ fw.mask
    /\ fw' = [fw EXCEPT !.scan = 0]
    /\ Post([kind |-> "DONE", of |-> fw.scan, tagged |-> tagged, ok |-> ok])
    /\ UNCHANGED Driver

Firmware ==
    \/ FwLink \/ FwAuth \/ FwDeny \/ FwLoss \/ FwPartial
    \/ \E tagged, ok \in BOOLEAN : FwScanEnds(tagged, ok)

(* CywFirmwareCommand: the reply comes behind the queued events; a stop, a  *)
(* timeout or a bus fault loses it.                                         *)
Reply(r, effect) ==
    /\ \/ r = "ok" /\ ~n.stop /\ fifo = <<>> /\ fw' = effect
       \/ r = "refused" /\ ~n.stop /\ fifo = <<>> /\ fw' = fw
       \/ r = "lost" /\ fw' \in {fw, effect}
    /\ UNCHANGED fifo
Replies == {"ok", "refused", "lost"}
-----------------------------------------------------------------------------
(* IOCTLs, under ControlLock and N->Lock.  The worker takes N->Lock for the *)
(* requests and the scan, but CywEvent writes the link without it: between   *)
(* the tests of CYW_IOCTL_SCAN_START and its writes link events may pass.    *)

LockFree == ~scan.admit

Free == n.request = "none" /\ ~n.radioBusy /\ ~scan.busy

Connect(op) ==
    /\ op \in {"connect", "disconnect"}
    /\ LockFree /\ n.ready /\ Free
    /\ n' = [n EXCEPT !.request = op]
    /\ UNCHANGED <<link, phase, good, scan, fw, fifo, pc, job>>

RadioRefresh ==
    /\ LockFree /\ Free
    /\ n.ready /\ link.assoc /\ link.auth /\ ~link.selecting /\ ~n.paused /\ ~n.stop
    /\ n' = [n EXCEPT !.request = "radio", !.radioBusy = TRUE]
    /\ UNCHANGED <<link, phase, good, scan, fw, fifo, pc, job>>

(* Mutant: control work that is running does not hold off a scan. *)
IdleLink == Free /\ ~link.selecting /\ ~link.assoc /\ ~link.auth /\ phase = "down" /\ good
MayScan ==
    /\ Free /\ ~n.controlBusy
    /\ ~link.selecting /\ ~link.assoc /\ ~link.auth /\ phase = "down" /\ good
(* Mutant: the previous list is not cleared. *)
OldEntries(country) ==
    [scan EXCEPT !.gen = @ + 1, !.state = "queued", !.country = country, !.complete = FALSE,
                 !.accept = FALSE, !.ok = TRUE, !.cancel = FALSE, !.busy = TRUE,
                 !.admit = FALSE]
NewReport(country) ==
    [scan EXCEPT !.gen = @ + 1, !.state = "queued", !.entries = {}, !.country = country,
                 !.complete = FALSE, !.accept = FALSE, !.ok = TRUE, !.cancel = FALSE,
                 !.busy = TRUE, !.admit = FALSE]
ScanAdmit ==
    /\ LockFree /\ n.ready /\ ~n.stop /\ ~n.paused
    /\ MayScan
    /\ scan.gen < MaxGen
    /\ scan' = [scan EXCEPT !.admit = TRUE]
    /\ UNCHANGED <<n, link, phase, good, fw, fifo, pc, job>>
ScanStart(country) ==
    /\ scan.admit
    /\ scan' = NewReport(country)
    /\ n' = [n EXCEPT !.request = "scan"]
    /\ UNCHANGED <<link, phase, good, fw, fifo, pc, job>>

(* What CYW_IOCTL_SCAN_CANCEL and CywScanQuiesce do to a scan: a queued one *)
(* is withdrawn, a running one is told.                                     *)
Withdrawn == n.request = "scan" /\ ~n.controlBusy
Quiesced ==
    IF ~scan.busy THEN scan
    ELSE IF Withdrawn
         THEN [scan EXCEPT !.cancel = TRUE, !.state = "cancelled", !.entries = {},
                           !.busy = FALSE, !.accept = FALSE]
         ELSE [scan EXCEPT !.cancel = TRUE]
Unqueued == IF scan.busy /\ Withdrawn THEN "none" ELSE n.request

ScanCancel ==
    /\ LockFree /\ scan.busy
    /\ scan' = Quiesced
    /\ n' = [n EXCEPT !.request = Unqueued]
    /\ UNCHANGED <<link, phase, good, fw, fifo, pc, job>>

Ioctl ==
    \/ \E op \in {"connect", "disconnect"} : Connect(op)
    \/ RadioRefresh \/ ScanCancel \/ ScanAdmit
    \/ \E country \in Countries \ {"default"} : ScanStart(country)
-----------------------------------------------------------------------------
(* Pause and power. *)

Pause(on) ==
    /\ LockFree /\ n.paused # on
    /\ scan' = IF on THEN Quiesced ELSE scan
    /\ n' = [n EXCEPT !.paused = on, !.request = IF on THEN Unqueued ELSE @]
    /\ UNCHANGED <<link, phase, good, fw, fifo, pc, job>>

PowerDown ==
    /\ ~n.stop
    /\ n' = [n EXCEPT !.stop = TRUE, !.ready = FALSE]
    /\ UNCHANGED <<link, phase, good, scan, fw, fifo, pc, job>>

(* CywScanReset. *)
ScanReset(s) ==
    [s EXCEPT !.state = "none", !.entries = {}, !.busy = FALSE, !.complete = FALSE,
              !.accept = FALSE, !.cancel = FALSE, !.ok = TRUE]

(* CywNetworkPower with the worker gone: down to D3, and up again with the  *)
(* firmware loaded anew and configured.                                     *)
PowerCycle ==
    /\ pc = "gone"
    /\ link' = [Unjoined(link) EXCEPT !.media = FALSE]
    /\ n' = [n EXCEPT !.request = "none", !.radioBusy = FALSE, !.controlBusy = FALSE,
                      !.stop = FALSE, !.ready = TRUE]
    /\ scan' = ScanReset(scan)
    /\ phase' = "down" /\ good' = TRUE
    /\ fw' = FirmwareReset /\ fifo' = <<>>
    /\ pc' = "loop" /\ job' = NoJob
-----------------------------------------------------------------------------
(* CywEvent, on the worker. *)

(* CywLink. *)
Published(l, up) ==
    IF up /\ l.selecting THEN l ELSE [l EXCEPT !.media = up]

Polling == pc \notin {"gone", "publish"}

(* LINK, PSK_SUP and the events that end a link. *)
Linked(l, e) ==
    IF e.kind = "LINK" THEN [l EXCEPT !.assoc = TRUE]
    ELSE IF e.kind = "PSK" THEN [l EXCEPT !.auth = TRUE, !.missed = FALSE]
    ELSE IF e.kind = "DENY" THEN [l EXCEPT !.auth = FALSE, !.missed = FALSE]
    ELSE Unjoined(l)

PhaseOf(l) ==
    IF l.selecting THEN "joining"
    ELSE IF l.assoc /\ l.auth THEN "up" ELSE IF l.assoc THEN "joining" ELSE "down"

SyncId(gen) == ((gen - 1) % SyncMod) + 1

(* CywScanEvent. *)
Accepts == scan.busy /\ scan.accept /\ ~scan.complete
CywScanEvent(e) ==
    IF ~Accepts THEN scan
    ELSE IF e.kind = "PARTIAL"
         THEN IF SyncId(e.of) = SyncId(scan.gen)
              THEN [scan EXCEPT !.entries = @ \cup {e.of}] ELSE scan
    ELSE IF e.tagged /\ SyncId(e.of) # SyncId(scan.gen) THEN scan
    ELSE [scan EXCEPT !.complete = TRUE, !.ok = e.ok]

(* The test of ScanBusy: a scan drops the link events, and otherwise        *)
(* CywEvent goes on with the event, which stays at the head of fifo.        *)
Revokes(e) == e.kind \in {"LOSS", "DENY"}
Receive ==
    /\ Polling /\ fifo # <<>> /\ ~link.handling
    /\ LET e == Head(fifo)
       IN  \/ /\ e.kind \in {"PARTIAL", "DONE"}
              /\ scan' = CywScanEvent(e) /\ fifo' = Tail(fifo)
              /\ UNCHANGED link
           \/ /\ e.kind \notin {"PARTIAL", "DONE"} /\ scan.busy
              /\ link' = [link EXCEPT !.missed = @ \/ (link.auth /\ Revokes(e))]
              /\ fifo' = Tail(fifo)
              /\ UNCHANGED scan
           \/ /\ e.kind \notin {"PARTIAL", "DONE"} /\ ~scan.busy
              /\ link' = [link EXCEPT !.handling = TRUE]
              /\ UNCHANGED <<scan, fifo>>
    /\ UNCHANGED <<n, phase, good, fw, pc, job>>

(* The writes behind the test, whether or not a scan has been admitted      *)
(* since.  Nobody can tell them apart: an admission needs both flags clear  *)
(* and the phase down, a radio query both flags set, and no other step here *)
(* reads the media state.                                                   *)
LinkEvent ==
    /\ link.handling
    /\ LET l == Linked(link, Head(fifo))
       IN  link' = [Published(l, l.assoc /\ l.auth) EXCEPT !.handling = FALSE]
    /\ phase' = PhaseOf(link')
    /\ fifo' = Tail(fifo)
    /\ UNCHANGED <<n, good, scan, fw, pc, job>>
-----------------------------------------------------------------------------
(* CywWorker's loop. *)

Goto(p) == pc' = p

Take ==
    /\ LockFree /\ pc = "loop" /\ ~n.stop /\ ~n.paused /\ n.request # "none"
    /\ n' = [n EXCEPT !.request = "none", !.controlBusy = TRUE,
                      !.failed = @ /\ n.request \in {"radio", "scan"}]
    /\ Goto(n.request)
    /\ UNCHANGED <<link, phase, good, scan, fw, fifo, job>>

(* The end of the worker: a stop, or a bus fault in the cycle.              *)
WorkerEnds(fault) ==
    /\ LockFree /\ pc = "loop" /\ (n.stop \/ fault)
    /\ link' = IF fault THEN [Unjoined(link) EXCEPT !.media = FALSE] ELSE link
    /\ good' = (good /\ ~fault)
    /\ scan' = Quiesced
    /\ n' = [n EXCEPT !.ready = FALSE, !.request = Unqueued]
    /\ Goto("gone")
    /\ UNCHANGED <<phase, fw, fifo, job>>

(* CywRadioRequest. *)
Radio ==
    /\ pc = "radio"
    /\ n' = [n EXCEPT !.radioBusy = FALSE, !.controlBusy = FALSE]
    /\ Goto("loop")
    /\ UNCHANGED <<link, phase, good, scan, fw, fifo, job>>

(* Back in the loop after a connect or disconnect. *)
Finish(status, failed) ==
    /\ n' = [n EXCEPT !.controlBusy = FALSE, !.failed = failed]
    /\ good' = (status = "ok")
    /\ job' = NoJob
    /\ Goto("loop")
    /\ UNCHANGED scan

Disconnect(r) ==
    /\ pc = "disconnect"
    /\ Reply(r, RadioDown(fw))
    /\ link' = [Unjoined(link) EXCEPT !.selecting = FALSE, !.media = FALSE]
    /\ phase' = IF r = "ok" THEN "down" ELSE phase
    /\ Finish(IF r = "ok" THEN "ok" ELSE "failed", FALSE)
-----------------------------------------------------------------------------
(* CywConnect. *)

(* The band selection is superseded by a new connect or disconnect. *)
CywBandCancelled == n.stop \/ n.paused \/ n.request \in {"connect", "disconnect"}

(* The Exit of CywJoinSelectedBand and of CywConnect: a failed selection    *)
(* stays unpublished.                                                       *)
(* Mutant: the hold ends with the selection. *)
ReleasedHold(l) == [Unjoined(l) EXCEPT !.selecting = FALSE, !.media = FALSE]
KeptHold(l) == [Unjoined(l) EXCEPT !.selecting = TRUE, !.media = FALSE]
ConnectFails ==
    /\ link' = KeptHold(link)
    /\ phase' = "joining"
    /\ Finish("failed", TRUE)

ConnectBegins ==
    /\ pc = "connect"
    /\ link' = [Unjoined(link) EXCEPT !.selecting = TRUE, !.media = FALSE]
    /\ phase' = "joining" /\ good' = TRUE
    /\ Goto("down")
    /\ UNCHANGED <<n, scan, fw, fifo, job>>

(* A step of the script: the command's effect, then the next step or Exit. *)
Step(p, effect, r, next, l) ==
    /\ pc = p
    /\ Reply(r, effect)
    /\ IF r = "ok"
       THEN link' = l /\ Goto(next) /\ UNCHANGED <<n, phase, good, scan, job>>
       ELSE ConnectFails

(* Step 1: DOWN.  2 to 11: country and its readback, security.  12: UP.     *)
ConnectDown(r)  == Step("down", RadioDown(fw), r, "setup", Unjoined(link))
ConnectSetup(r) == Step("setup", [fw EXCEPT !.country = "home"], r, "up", link)
ConnectUp(r)    == Step("up", [fw EXCEPT !.up = TRUE], r, "prefer", link)

(* Step 18: the preference of the 5 GHz band; an unsupported one leads to   *)
(* the legacy join, and a firmware that has taken it once does support it.  *)
ConnectPrefer(r) ==
    /\ pc = "prefer"
    /\ r = "refused" => ~fw.pref
    /\ Reply(r, [fw EXCEPT !.pref = TRUE])
    /\ IF r = "ok" /\ ~CywBandCancelled
       THEN link' = Unjoined(link) /\ Goto("join") /\ UNCHANGED <<n, phase, good, scan, job>>
       ELSE IF r = "refused"
       THEN Goto("legacy") /\ UNCHANGED <<n, link, phase, good, scan, job>>
       ELSE ConnectFails

Joined(f) == [f EXCEPT !.join = TRUE, !.assoc = FALSE, !.auth = FALSE]

LegacyJoin(r) ==
    /\ pc = "legacy"
    /\ Reply(r, Joined(fw))
    /\ IF r = "ok"
       THEN LET l == [link EXCEPT !.selecting = FALSE]
            IN  /\ link' = Published(l, l.assoc /\ l.auth)
                /\ phase' = IF l.assoc /\ l.auth THEN "up" ELSE "joining"
                /\ Finish("ok", FALSE)
       ELSE ConnectFails
-----------------------------------------------------------------------------
(* CywJoinSelectedBand. *)

(* A failure that may be retried without the preference. *)
TryFallback ==
    /\ job' = [job EXCEPT !.fallback = TRUE]
    /\ Goto("restore")
    /\ UNCHANGED <<n, link, phase, good, scan>>

BandJoin(r) ==
    /\ pc = "join"
    /\ Reply(r, Joined(fw))
    /\ IF CywBandCancelled THEN ConnectFails
       ELSE IF r = "ok" THEN Goto("wait") /\ UNCHANGED <<n, link, phase, good, scan, job>>
       ELSE TryFallback \/ (r = "lost" /\ ConnectFails)

(* CywBandWait: until the events say the link is up, cancelled, or too late. *)
(* Mutant: there is no deadline. *)
PatientWait(p, next) ==
    /\ pc = p
    /\ \/ ~CywBandCancelled /\ link.assoc /\ link.auth /\ Goto(next)
          /\ UNCHANGED <<n, link, phase, good, scan, job>>
       \/ CywBandCancelled /\ ConnectFails
    /\ UNCHANGED <<fw, fifo>>
BandWait(p, next) ==
    /\ pc = p
    /\ \/ ~CywBandCancelled /\ link.assoc /\ link.auth /\ Goto(next)
          /\ UNCHANGED <<n, link, phase, good, scan, job>>
       \/ CywBandCancelled /\ ConnectFails
       \/ IF p = "wait" /\ ~CywBandCancelled THEN TryFallback ELSE ConnectFails
    /\ UNCHANGED <<fw, fifo>>

(* CywBandVerify: the firmware's own view of the station, read back. *)
(* Mutant: the events are believed. *)
BelievedLink == link.assoc /\ link.auth
VerifiedLink == link.assoc /\ link.auth /\ fw.assoc /\ fw.auth
BandVerify(usable) ==
    /\ pc = "verify"
    /\ \/ ~CywBandCancelled /\ VerifiedLink /\ fifo = <<>>
          /\ job' = [job EXCEPT !.fallback = ~usable]
          /\ Goto("restore") /\ UNCHANGED <<n, link, phase, good, scan>>
       \/ ~CywBandCancelled /\ TryFallback
       \/ ConnectFails
    /\ UNCHANGED <<fw, fifo>>

(* Step 20: the preference is removed before the link is published, and     *)
(* before the fallback.                                                     *)
(* Mutant: only the fallback removes it. *)
PrefKept == [fw EXCEPT !.pref = ~job.fallback]
Unpreferred == [fw EXCEPT !.pref = FALSE]
BandRestore(r) ==
    /\ pc = "restore"
    /\ Reply(r, Unpreferred)
    /\ IF r = "ok" /\ ~CywBandCancelled
       THEN Goto(IF job.fallback THEN "disassoc" ELSE "verify2")
              /\ UNCHANGED <<n, link, phase, good, scan, job>>
       ELSE ConnectFails

(* Step 24: what is published is observed after the restore. *)
BandVerifyAgain ==
    /\ pc = "verify2"
    /\ \/ ~CywBandCancelled /\ VerifiedLink /\ fifo = <<>> /\ Goto("publish")
          /\ UNCHANGED <<n, link, phase, good, scan, job>>
       \/ ~CywBandCancelled /\ Goto("disassoc")
          /\ UNCHANGED <<n, link, phase, good, scan, job>>
       \/ ConnectFails
    /\ UNCHANGED <<fw, fifo>>

(* Steps 21 to 23: disassociate, join without the preference, wait, verify. *)
(* Not being associated counts as done; a join in progress goes on.         *)
BandDisassoc(r) ==
    /\ pc = "disassoc"
    /\ Reply(r, IF fw.assoc THEN [fw EXCEPT !.join = FALSE, !.assoc = FALSE, !.auth = FALSE]
                ELSE fw)
    /\ IF r = "ok" /\ ~CywBandCancelled
       THEN link' = Unjoined(link) /\ Goto("join2") /\ UNCHANGED <<n, phase, good, scan, job>>
       ELSE ConnectFails
BandJoinAgain(r) ==
    Step("join2", Joined(fw), r, "wait2", link)
BandVerifyLast ==
    /\ pc = "verify3"
    /\ \/ ~CywBandCancelled /\ VerifiedLink /\ fifo = <<>> /\ Goto("publish")
          /\ UNCHANGED <<n, link, phase, good, scan, job>>
       \/ ConnectFails
    /\ UNCHANGED <<fw, fifo>>

BandPublish ==
    /\ pc = "publish"
    /\ IF ~CywBandCancelled /\ link.assoc /\ link.auth
       THEN /\ link' = [link EXCEPT !.selecting = FALSE, !.media = TRUE]
            /\ phase' = "up"
            /\ Finish("ok", FALSE)
       ELSE ConnectFails
    /\ UNCHANGED <<fw, fifo>>
-----------------------------------------------------------------------------
(* CywScanRequest. *)

CywScanCancelled == n.stop \/ n.paused \/ scan.cancel

ScanBegins ==
    /\ pc = "scan"
    /\ scan' = [scan EXCEPT !.state = "running", !.accept = FALSE, !.complete = FALSE]
    /\ LET j == [NoJob EXCEPT !.before = fw.country]
           idle == n.ready /\ ~link.assoc /\ ~link.auth /\ ~link.selecting
                     /\ phase = "down" /\ good
       IN  IF CywScanCancelled
           THEN job' = [j EXCEPT !.status = "cancelled"] /\ Goto("cleanup")
           ELSE IF ~idle
           THEN job' = [j EXCEPT !.status = "failed"] /\ Goto("cleanup")
           ELSE job' = [j EXCEPT !.dirty = TRUE] /\ Goto("s_down")
    /\ UNCHANGED <<n, link, phase, good, fw, fifo>>

ScanLeaves(j, status) ==
    /\ job' = [j EXCEPT !.status = status]
    /\ Goto("cleanup")
    /\ UNCHANGED <<n, link, phase, good, scan>>

(* SCAN_CHECK: cancelled, or past the deadline, which may be any time.      *)
ScanCheckFails ==
    /\ ScanLeaves(job, IF CywScanCancelled THEN "cancelled" ELSE "failed")
    /\ UNCHANGED <<fw, fifo>>

(* SCAN_CALL: j is what the step leaves in the locals whatever the reply.   *)
ScanCall(p, effect, j, next, l) ==
    /\ pc = p
    /\ \/ ScanCheckFails
       \/ \E r \in Replies :
             /\ ~CywScanCancelled
             /\ Reply(r, effect)
             /\ IF r = "ok"
                THEN link' = l /\ job' = j /\ Goto(next) /\ UNCHANGED <<n, phase, good, scan>>
                ELSE ScanLeaves(j, "failed")

ScanDown == ScanCall("s_down", RadioDown(fw), job, "s_drain", Unjoined(link))
ScanRead ==
    ScanCall("s_read", fw, [job EXCEPT !.orig = fw.country, !.origMask = fw.mask],
             IF fw.country = scan.country THEN "s_mask" ELSE "s_country", link)

(* The flags are set before the command: a lost reply may have taken effect. *)
(* Mutant: the flag is set by the reply. *)
CountryAnswered(r) == [job EXCEPT !.country = (r = "ok")]
CountryTouched(r) == [job EXCEPT !.country = TRUE]
ScanCountry ==
    /\ pc = "s_country"
    /\ \/ ScanCheckFails
       \/ \E r \in Replies :
             /\ ~CywScanCancelled
             /\ Reply(r, [fw EXCEPT !.country = scan.country])
             /\ IF r = "ok"
                THEN job' = CountryTouched(r) /\ Goto("s_mask")
                       /\ UNCHANGED <<n, link, phase, good, scan>>
                ELSE ScanLeaves(CountryTouched(r), "failed")
ScanMask == ScanCall("s_mask", [fw EXCEPT !.mask = TRUE], [job EXCEPT !.mask = TRUE],
                     "s_up", link)
ScanUp   == ScanCall("s_up", [fw EXCEPT !.up = TRUE], job, "s_drain2", link)

(* CywScanDrain: nothing is left in the FIFO, or time is up. *)
ScanDrain(p, next) ==
    /\ pc = p
    /\ \/ ScanCheckFails
       \/ /\ ~CywScanCancelled /\ fifo = <<>>
          /\ Goto(next) /\ UNCHANGED <<n, link, phase, good, scan, fw, fifo, job>>

ScanOpen ==
    /\ pc = "s_open"
    /\ \/ ScanCheckFails
       \/ /\ ~CywScanCancelled
          /\ scan' = [scan EXCEPT !.accept = TRUE]
          /\ Goto("escan") /\ UNCHANGED <<n, link, phase, good, fw, fifo, job>>
Escan == ScanCall("escan", [fw EXCEPT !.scan = scan.gen], job, "s_wait", link)
ScanWait ==
    /\ pc = "s_wait"
    /\ \/ ScanCheckFails
       \/ /\ ~CywScanCancelled /\ scan.complete
          /\ ScanLeaves(job, IF scan.ok THEN "ok" ELSE "failed")
          /\ UNCHANGED <<fw, fifo>>

(* The label Cleanup. *)
Cleanup ==
    /\ pc = "cleanup"
    /\ scan' = [scan EXCEPT !.accept = FALSE]
    /\ link' = IF job.dirty THEN Unjoined(link) ELSE link
    /\ job' = [job EXCEPT !.cleanup = IF job.dirty /\ n.stop THEN "cancelled" ELSE "ok"]
    /\ Goto(IF job.dirty /\ ~n.stop THEN "k_down" ELSE "k_end")
    /\ UNCHANGED <<n, phase, good, fw, fifo>>

(* A step of the cleanup goes on after a failure and remembers the first.   *)
CleanupFailed(j) ==
    [j EXCEPT !.cleanup = IF @ # "ok" THEN @ ELSE IF n.stop THEN "cancelled" ELSE "failed"]
CleanupCall(p, due, effect, next) ==
    /\ pc = p
    /\ IF due
       THEN \E r \in Replies :
              /\ Reply(r, effect)
              /\ LET j == [job EXCEPT !.down = @ \/ (p = "k_down" /\ r = "ok")]
                 IN  job' = IF r = "ok" THEN j ELSE CleanupFailed(j)
       ELSE UNCHANGED <<fw, fifo, job>>
    /\ Goto(next)
    /\ UNCHANGED <<n, link, phase, good, scan>>

CleanupDown    == CleanupCall("k_down", TRUE, RadioDown(fw), "k_mask")
CleanupMask    == CleanupCall("k_mask", job.mask, [fw EXCEPT !.mask = job.origMask], "k_country")
CleanupCountry == CleanupCall("k_country", job.country /\ job.down,
                              [fw EXCEPT !.country = job.orig], "k_drain")
CleanupDrain ==
    /\ pc = "k_drain"
    /\ \/ (job.cleanup # "ok" \/ (fifo = <<>> /\ ~n.stop)) /\ UNCHANGED job
       \/ job' = CleanupFailed(job)
    /\ Goto("k_end")
    /\ UNCHANGED <<n, link, phase, good, scan, fw, fifo>>

ScanOutcome ==
    IF job.cleanup # "ok" THEN job.cleanup
    ELSE IF job.status = "ok" /\ CywScanCancelled THEN "cancelled"
    ELSE job.status
ScanEnds ==
    /\ pc = "k_end"
    /\ scan' = [scan EXCEPT
                  !.state = IF ScanOutcome = "ok" THEN "complete" ELSE ScanOutcome,
                  !.entries = IF ScanOutcome = "ok" THEN @ ELSE {},
                  !.busy = FALSE]
    /\ n' = [n EXCEPT !.ready = @ /\ job.cleanup = "ok", !.controlBusy = FALSE]
    /\ good' = (good /\ job.cleanup = "ok")
    /\ job' = NoJob
    /\ Goto("loop")
    /\ UNCHANGED <<link, phase, fw, fifo>>
-----------------------------------------------------------------------------
Init ==
    /\ n = [request |-> "none", controlBusy |-> FALSE, radioBusy |-> FALSE, ready |-> TRUE,
            paused |-> FALSE, stop |-> FALSE, failed |-> FALSE]
    /\ link = [assoc |-> FALSE, auth |-> FALSE, selecting |-> FALSE, media |-> FALSE,
               handling |-> FALSE, missed |-> FALSE]
    /\ phase = "down" /\ good = TRUE
    /\ scan = [busy |-> FALSE, admit |-> FALSE, cancel |-> FALSE, accept |-> FALSE,
               complete |-> FALSE, ok |-> TRUE, state |-> "none", gen |-> 0, entries |-> {},
               country |-> "home"]
    /\ fw = FirmwareReset /\ fifo = <<>>
    /\ pc = "loop" /\ job = NoJob

Connecting ==
    \/ ConnectBegins
    \/ \E r \in Replies :
          \/ Disconnect(r) \/ ConnectDown(r) \/ ConnectSetup(r) \/ ConnectUp(r)
          \/ ConnectPrefer(r) \/ LegacyJoin(r) \/ BandJoin(r) \/ BandRestore(r)
          \/ BandDisassoc(r) \/ BandJoinAgain(r)
    \/ BandWait("wait", "verify") \/ BandWait("wait2", "verify3")
    \/ \E usable \in BOOLEAN : BandVerify(usable)
    \/ BandVerifyAgain \/ BandVerifyLast \/ BandPublish

Scanning ==
    \/ ScanBegins \/ ScanDown \/ ScanDrain("s_drain", "s_read") \/ ScanRead \/ ScanCountry
    \/ ScanMask \/ ScanUp \/ ScanDrain("s_drain2", "s_open") \/ ScanOpen \/ Escan \/ ScanWait
    \/ Cleanup \/ CleanupDown \/ CleanupMask \/ CleanupCountry \/ CleanupDrain \/ ScanEnds

Worker ==
    /\ ~link.handling
    /\ Take \/ Radio \/ Connecting \/ Scanning \/ \E fault \in BOOLEAN : WorkerEnds(fault)

Next ==
    \/ Firmware \/ Ioctl \/ Receive \/ LinkEvent \/ Worker
    \/ PowerDown \/ PowerCycle \/ \E on \in BOOLEAN : Pause(on)

Spec == Init /\ [][Next]_vars

(* The worker thread is scheduled and ends the event it has in hand; every   *)
(* wait of its scripts has a deadline that it looks at between two events,   *)
(* however many there are.                                                  *)
FairSpec == Spec /\ WF_vars(LinkEvent) /\ SF_vars(Worker)
-----------------------------------------------------------------------------
ScanSteps == {"scan", "s_down", "s_drain", "s_read", "s_country", "s_mask", "s_up", "s_drain2",
              "s_open", "escan", "s_wait", "cleanup", "k_down", "k_mask", "k_country",
              "k_drain", "k_end"}
ConnectSteps == {"connect", "disconnect", "down", "setup", "up", "prefer", "legacy", "join",
                 "wait", "verify", "restore", "verify2", "disassoc", "join2", "wait2",
                 "verify3", "publish"}
Outcomes == {"ok", "failed", "cancelled"}
Events ==
    [kind : {"LINK", "PSK", "DENY", "LOSS"}] \cup [kind : {"PARTIAL"}, of : 1..MaxGen]
      \cup [kind : {"DONE"}, of : 1..MaxGen, tagged : BOOLEAN, ok : BOOLEAN]

(* Every variable has its type, a queued scan request belongs to a scan that *)
(* is reported busy (so that no other request is let in), and ControlBusy is *)
(* exactly a request in progress.                                           *)
TypeOK ==
    /\ n \in [request : {"none", "connect", "disconnect", "radio", "scan"},
               controlBusy : BOOLEAN, radioBusy : BOOLEAN, ready : BOOLEAN,
               paused : BOOLEAN, stop : BOOLEAN, failed : BOOLEAN]
    /\ link \in [assoc : BOOLEAN, auth : BOOLEAN, selecting : BOOLEAN, media : BOOLEAN,
                  handling : BOOLEAN, missed : BOOLEAN]
    /\ phase \in {"down", "joining", "up"} /\ good \in BOOLEAN
    /\ scan \in [busy : BOOLEAN, admit : BOOLEAN, cancel : BOOLEAN, accept : BOOLEAN,
                  complete : BOOLEAN, ok : BOOLEAN, gen : 0..MaxGen,
                  entries : SUBSET (1..MaxGen), country : Countries,
                  state : {"none", "queued", "running", "complete", "failed", "cancelled"}]
    /\ fw \in [up : BOOLEAN, join : BOOLEAN, assoc : BOOLEAN, auth : BOOLEAN, pref : BOOLEAN,
                mask : BOOLEAN, country : Countries, scan : 0..MaxGen]
    /\ fifo \in Seq(Events) /\ Len(fifo) <= Depth
    /\ pc \in {"loop", "gone", "radio"} \cup ConnectSteps \cup ScanSteps
    /\ job \in [fallback : BOOLEAN, status : Outcomes, dirty : BOOLEAN, mask : BOOLEAN,
                 country : BOOLEAN, down : BOOLEAN, cleanup : Outcomes, origMask : BOOLEAN,
                 orig : Countries, before : Countries]
    /\ n.request = "scan" => scan.busy
    /\ n.controlBusy <=> pc \notin {"loop", "gone"}

(* What CywLink publishes is true: the driver has the link, no selection is  *)
(* open, and the firmware is authorized or has already sent the event that   *)
(* takes the link back.  A stale LINK or PSK_SUP event of an earlier join,   *)
(* met while the next join is being answered, does not publish a link.  The  *)
(* firmware's part holds as long as the last disconnect has not failed: one  *)
(* that has leaves the old join and its events alive; and as long as         *)
(* CywEvent has not dropped that event for a scan which was admitted behind  *)
(* its test of ScanBusy, with the authorization written after the admission. *)
LinkHonest ==
    link.media =>
        /\ link.assoc /\ link.auth /\ ~link.selecting
        /\ fw.auth \/ ~good \/ link.missed \/ \E i \in DOMAIN fifo : Revokes(fifo[i])

(* A failed connect stays unpublished whatever events follow it, until the   *)
(* next connect or disconnect is taken (band_selection.h, Exit).            *)
FailedUnpublished == n.failed => ~link.media

(* The preference for 5 GHz is removed before a link is published, as long   *)
(* as the last connect or disconnect has not failed.                        *)
PrefRestored == link.media /\ good => ~fw.pref

(* A scan is alone: while ScanBusy is set no connect or disconnect runs and  *)
(* no selection is open, and a scan that touches the radio has found no      *)
(* link and gets none: a link that appears between the tests of its          *)
(* admission and the worker's recheck is left as it is.                     *)
ScanAlone ==
    /\ scan.busy => pc \in ScanSteps \cup {"loop"} /\ ~link.selecting
    /\ job.dirty => ~link.media /\ ~link.assoc /\ ~link.auth

(* A complete report lists the networks of its own generation only, and      *)
(* while the window for events is open no other generation's event is on its *)
(* way, although sync ids are reused and a terminal event may carry none.   *)
ScanFresh ==
    /\ scan.state = "complete" => scan.entries \subseteq {scan.gen}
    /\ scan.accept =>
         \A i \in DOMAIN fifo : fifo[i].kind \in {"PARTIAL", "DONE"} => fifo[i].of = scan.gen

(* A scan that ends with the adapter ready has put the firmware back: radio  *)
(* down, the scan's events off, and the country that was set before it,      *)
(* whichever step failed, was cancelled or had its reply lost.              *)
ScanRestores ==
    [][pc = "k_end" /\ pc' = "loop" /\ job.dirty /\ n'.ready
         => ~fw.up /\ ~fw.mask /\ fw.country = job.before]_vars

(* A request that the worker has taken ends, and so does every scan that was *)
(* accepted, taken or not: a pause, a stop or a failure of the worker        *)
(* withdraws a queued one.  ControlBusy and ScanBusy are never set for good. *)
RequestsEnd == []<>(~n.controlBusy) /\ []<>(~scan.busy)
=============================================================================
