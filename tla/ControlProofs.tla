---------------------------- MODULE ControlProofs ----------------------------
(***************************************************************************)
(* Proofs about Control, for every number of scans, of sync ids and of     *)
(* events in flight: what is published is true, a failed selection stays   *)
(* unpublished, the band preference is removed in time, and a scan is      *)
(* alone, lists only its own results and puts the firmware back.           *)
(***************************************************************************)
EXTENDS Control, TLAPS

(* The steps of CywConnect behind its first statements. *)
Script == ConnectSteps \ {"connect", "disconnect"}

(* A scan that is reported busy is in the slot or being run, and keeps      *)
(* every other request out; so does the lock of one that is being admitted; *)
(* without a worker nothing is Ready.                                       *)
SlotInv ==
    /\ scan.busy /\ pc \notin ScanSteps => pc = "loop" /\ n.request = "scan"
    /\ pc \in ScanSteps => scan.busy /\ n.request = "none"
    /\ scan.admit => pc = "loop" /\ n.request = "none" /\ ~scan.busy /\ scan.gen < MaxGen
    /\ pc = "gone" => ~n.ready

(* The event that CywEvent has in hand is a link event, and no scan runs. *)
HandInv ==
    link.handling =>
        /\ fifo # <<>> /\ Head(fifo).kind \notin {"PARTIAL", "DONE"}
        /\ pc # "gone" /\ pc \notin ScanSteps

(* A scan finds no selection, and one that touches the radio no link; a     *)
(* selection hides the link until it ends, and a failed one until the next. *)
LinkInv ==
    /\ scan.busy \/ scan.admit => ~link.selecting
    /\ job.dirty => ~link.assoc /\ ~link.auth
    /\ link.media => link.assoc /\ link.auth /\ ~link.selecting
    /\ pc \in Script => link.selecting /\ good
    /\ n.failed => link.selecting

(* The preference in force where no selection holds the link back and no    *)
(* request has failed: a disconnect ended the selection, and nothing joins. *)
Quiet ==
    /\ ~fw.join /\ ~fw.assoc /\ ~link.assoc
    /\ \A i \in 1..Len(fifo) : fifo[i].kind # "LINK"
(* No join is left with the preference in force once its selection ended, *)
(* nor is a second one started with it.                                     *)
PrefInv ==
    /\ fw.pref /\ good /\ ~link.selecting => Quiet
    /\ pc \in {"legacy", "verify2", "disassoc", "join2", "wait2", "verify3", "publish"}
         => ~fw.pref

(* The firmware has a link only in a join, and a connect that has taken it  *)
(* down starts none before its join.                                        *)
JoinInv ==
    /\ fw.auth => fw.assoc
    /\ fw.assoc => fw.join
    /\ pc \in {"setup", "up", "prefer", "legacy", "join"} => ~fw.join

(* Where the driver's view of the link may be of a join that is over: after *)
(* a request that failed, until a connect or a scan has taken the radio     *)
(* down, and after the second join, until it is verified.                   *)
Doubtful ==
    \/ ~good
    \/ pc \in {"down", "wait2", "verify3", "s_down", "s_drain", "s_read", "s_country", "s_mask",
               "s_up", "s_drain2", "s_open", "escan", "s_wait"}
    \/ pc \in {"cleanup", "k_down"} /\ job.dirty
    \/ pc \in {"k_mask", "k_country", "k_drain", "k_end"} /\ job.cleanup # "ok"
(* An event behind place i takes the link back. *)
Revoked(i) == \E j \in 1..Len(fifo) : j > i /\ fifo[j].kind \in {"LOSS", "DENY"}
(* Elsewhere the driver believes in no authorization the firmware has not   *)
(* given, or taken back in an event still to come or dropped for a scan.    *)
AuthInv ==
    ~Doubtful =>
        /\ link.auth => fw.auth \/ Revoked(0) \/ link.missed
        /\ \A i \in 1..Len(fifo) : fifo[i].kind = "PSK" => fw.auth \/ Revoked(i)

(* The firmware runs no scan but these, and none of another is in flight. *)
OnlyOf(gens) ==
    /\ fw.scan \in gens
    /\ \A i \in 1..Len(fifo) : fifo[i].kind \in {"PARTIAL", "DONE"} => fifo[i].of \in gens
(* The window for scan events is open only behind a drained FIFO. *)
FreshInv ==
    /\ scan.entries \subseteq {scan.gen}
    /\ scan.accept => pc \in {"escan", "s_wait", "cleanup"} /\ OnlyOf({0, scan.gen})
    /\ pc \in {"s_drain", "s_read", "s_country", "s_mask", "s_up", "s_drain2", "s_open"}
         => OnlyOf({0})

(* What a scan has changed in the firmware and will put back.  It knows     *)
(* that it has work to undo, and that the radio is down behind a cleanup    *)
(* whose steps have all been answered.                                      *)
DirtyInv ==
    /\ pc \in ScanSteps \ {"scan", "cleanup", "k_end"} => job.dirty
    /\ job.dirty => pc \in ScanSteps \ {"scan"}
    /\ pc = "k_end" /\ ~job.dirty => job.cleanup = "ok"
    /\ pc = "k_down" => job.cleanup = "ok"
    /\ pc \in {"k_mask", "k_country", "k_drain", "k_end"} /\ job.dirty /\ job.cleanup = "ok" =>
         ~fw.up /\ job.down
(* The scan's events are on in a scan only, and it finds them off. *)
MaskInv ==
    /\ ~job.origMask
    /\ n.ready /\ (\/ pc \notin ScanSteps \/ pc = "scan"
                   \/ pc \in {"cleanup", "k_end"} /\ ~job.dirty) => ~fw.mask
    /\ pc \in {"s_down", "s_drain", "s_read", "s_country", "s_mask"} => ~fw.mask
    /\ pc \in ScanSteps \ {"scan", "k_country", "k_drain", "k_end"} /\ job.dirty
         => (fw.mask => job.mask)
    /\ pc \in {"k_country", "k_drain", "k_end"} /\ job.dirty /\ job.cleanup = "ok" => ~fw.mask
(* The country is the one found, or the scan knows it. *)
CountryInv ==
    /\ pc \in {"s_down", "s_drain", "s_read", "s_country"} => ~job.country
    /\ pc = "s_country" => job.orig = job.before
    /\ pc \in ScanSteps \ {"scan"} /\ job.dirty =>
         IF job.country THEN job.orig = job.before ELSE fw.country = job.before
    /\ pc \in {"k_drain", "k_end"} /\ job.dirty /\ job.cleanup = "ok" => fw.country = job.before

RestoreInv == DirtyInv /\ MaskInv /\ CountryInv

ControlInv ==
    /\ TypeOK /\ SlotInv /\ HandInv /\ LinkInv /\ PrefInv /\ JoinInv /\ AuthInv /\ FreshInv
    /\ RestoreInv
-----------------------------------------------------------------------------
(* Types, one variable at a time. *)

Requests == {"none", "connect", "disconnect", "radio", "scan"}
States   == {"none", "queued", "running", "complete", "failed", "cancelled"}
NOK    == n \in [request : Requests, controlBusy : BOOLEAN, radioBusy : BOOLEAN,
                 ready : BOOLEAN, paused : BOOLEAN, stop : BOOLEAN, failed : BOOLEAN]
Links  == [assoc : BOOLEAN, auth : BOOLEAN, selecting : BOOLEAN, media : BOOLEAN,
           handling : BOOLEAN, missed : BOOLEAN]
LinkOK == link \in Links
ScanOK == scan \in [busy : BOOLEAN, admit : BOOLEAN, cancel : BOOLEAN, accept : BOOLEAN,
                    complete : BOOLEAN, ok : BOOLEAN, gen : 0..MaxGen, entries : SUBSET (1..MaxGen),
                    country : Countries, state : States]
FwOK   == fw \in [up : BOOLEAN, join : BOOLEAN, assoc : BOOLEAN, auth : BOOLEAN,
                  pref : BOOLEAN, mask : BOOLEAN, country : Countries, scan : 0..MaxGen]
FifoOK == fifo \in Seq(Events) /\ Len(fifo) <= Depth
JobOK  == job \in [fallback : BOOLEAN, status : Outcomes, dirty : BOOLEAN, mask : BOOLEAN,
                   country : BOOLEAN, down : BOOLEAN, cleanup : Outcomes,
                   origMask : BOOLEAN, orig : Countries, before : Countries]
PlaceOK ==
    /\ phase \in {"down", "joining", "up"} /\ good \in BOOLEAN
    /\ pc \in {"loop", "gone", "radio"} \cup ConnectSteps \cup ScanSteps
    /\ n.request = "scan" => scan.busy
    /\ n.controlBusy <=> pc \notin {"loop", "gone"}

-----------------------------------------------------------------------------
(* What the steps of the scripts have in common. *)

(* A step of a connect that goes on. *)
Advances ==
    /\ pc' \in Script /\ UNCHANGED <<n, phase, good>>
    /\ link' = link \/ link' = Unjoined(link)
    /\ job' = job \/ (\E b \in BOOLEAN : job' = [job EXCEPT !.fallback = b])
(* A step of a connect that publishes the link. *)
Publishes ==
    /\ pc \in {"legacy", "publish"}
    /\ \E up \in BOOLEAN :
          /\ up <=> link.assoc /\ link.auth
          /\ link' = [link EXCEPT !.selecting = FALSE, !.media = up]
    /\ phase' \in {"up", "joining"}
    /\ Finish("ok", FALSE)

(* The Exit of a failed connect. *)
LEMMA FailureIs ==
    ASSUME ConnectFails
    PROVE  /\ link' = [link EXCEPT !.assoc = FALSE, !.auth = FALSE, !.missed = FALSE,
                                   !.selecting = TRUE, !.media = FALSE]
           /\ phase' = "joining" /\ good' = FALSE /\ pc' = "loop" /\ job' = NoJob
           /\ n' = [n EXCEPT !.controlBusy = FALSE, !.failed = TRUE]
           /\ UNCHANGED scan
BY DEF ConnectFails, KeptHold, Unjoined, Finish, Goto

(* A connect goes on, fails, or publishes. *)
LEMMA ConnectFrame ==
    ASSUME Connecting, LinkOK
    PROVE  /\ pc \in ConnectSteps /\ UNCHANGED scan
           /\ \/ ConnectBegins
              \/ \E r \in Replies : Disconnect(r)
              \/ pc \in Script /\ (Advances \/ ConnectFails \/ Publishes)
<1> USE DEF ConnectSteps, Script
<1>1. CASE ConnectBegins BY <1>1 DEF ConnectBegins
<1>2. ASSUME NEW r \in Replies, Disconnect(r)
      PROVE  pc \in ConnectSteps /\ UNCHANGED scan
      BY <1>2 DEF Disconnect, Finish
<1> DEFINE Goal == pc \in Script /\ UNCHANGED scan /\ (Advances \/ ConnectFails \/ Publishes)
<1>3. ASSUME NEW r \in Replies, ConnectDown(r) \/ ConnectSetup(r) \/ ConnectUp(r) \/
      BandJoinAgain(r) PROVE Goal
      BY <1>3, FailureIs DEF ConnectDown, Step, Goto, ConnectSetup, ConnectUp, BandJoinAgain,
         Advances
<1>4. ASSUME NEW r \in Replies, ConnectPrefer(r) \/ BandDisassoc(r) \/ BandRestore(r) PROVE Goal
      BY <1>4, FailureIs DEF ConnectPrefer, Goto, BandDisassoc, BandRestore, Advances
<1>5. ASSUME NEW r \in Replies, BandJoin(r) PROVE Goal
      BY <1>5, FailureIs DEF BandJoin, Goto, TryFallback, Advances
<1>6. ASSUME NEW r \in Replies, LegacyJoin(r) PROVE Goal
  <2> DEFINE l == [link EXCEPT !.selecting = FALSE]
  <2>1. CASE r = "ok"
    <3>1. PICK up \in BOOLEAN : up <=> l.assoc /\ l.auth OBVIOUS
    <3>2. link' = [l EXCEPT !.media = up]
          BY <1>6, <2>1, <3>1 DEF LegacyJoin, Published, LinkOK, Links
    <3>3. link' = [link EXCEPT !.selecting = FALSE, !.media = up] BY <3>2 DEF LinkOK, Links
    <3>4. up <=> link.assoc /\ link.auth BY <3>1 DEF LinkOK, Links
    <3>5. phase' \in {"up", "joining"} /\ Finish("ok", FALSE) /\ pc = "legacy"
          BY <1>6, <2>1 DEF LegacyJoin
    <3>6. QED BY <3>3, <3>4, <3>5 DEF Publishes, Finish
  <2>2. CASE r # "ok" BY <1>6, <2>2, FailureIs DEF LegacyJoin
  <2>3. QED BY <2>1, <2>2
<1>7. ASSUME BandWait("wait", "verify") \/ BandWait("wait2", "verify3") PROVE Goal
      BY <1>7, FailureIs DEF BandWait, Goto, TryFallback, Advances
<1>8. ASSUME NEW usable \in BOOLEAN, BandVerify(usable) PROVE Goal
      BY <1>8, FailureIs DEF BandVerify, Goto, TryFallback, Advances
<1>9. ASSUME BandVerifyAgain \/ BandVerifyLast PROVE Goal
      BY <1>9, FailureIs DEF BandVerifyAgain, Goto, BandVerifyLast, Advances
<1>10. ASSUME BandPublish PROVE Goal
      BY <1>10, FailureIs DEF BandPublish, Publishes, Finish
<1> QED BY <1>1, <1>2, <1>3, <1>4, <1>5, <1>6, <1>7, <1>8, <1>9, <1>10 DEF Connecting

(* A scan that starts, opens its window, closes it, ends, or neither. *)
ScanChanges ==
    \/ UNCHANGED scan
    \/ scan' = [scan EXCEPT !.state = "running", !.accept = FALSE, !.complete = FALSE]
    \/ pc = "s_open" /\ pc' = "escan" /\ scan' = [scan EXCEPT !.accept = TRUE]
    \/ pc = "cleanup" /\ scan' = [scan EXCEPT !.accept = FALSE]
(* Whatever a step of a scan does, it leaves the request and the phase; all *)
(* but the last leave what others see of the adapter.                       *)
LEMMA ScanFrame ==
    ASSUME Scanning
    PROVE  /\ pc \in ScanSteps /\ UNCHANGED phase
           /\ link' = link \/ (link' = Unjoined(link) /\ (job.dirty \/ pc = "s_down"))
           /\ \/ ScanEnds
              \/ pc' \in ScanSteps \ {"scan"} /\ UNCHANGED <<n, good>> /\ ScanChanges
<1> DEFINE Goal == /\ pc \in ScanSteps /\ UNCHANGED phase
                   /\ link' = link \/ (link' = Unjoined(link) /\ (job.dirty \/ pc = "s_down"))
                   /\ pc' \in ScanSteps \ {"scan"} /\ UNCHANGED <<n, good>> /\ ScanChanges
<1> USE DEF ScanSteps, ScanChanges
<1>1. ASSUME ScanBegins PROVE Goal
      BY <1>1 DEF ScanBegins, Goto
<1>2. ASSUME ScanDown PROVE Goal
      BY <1>2 DEF ScanDown, ScanCall, ScanCheckFails, ScanLeaves, Goto
<1>3. ASSUME ScanRead PROVE Goal
      BY <1>3 DEF ScanRead, ScanCall, ScanCheckFails, ScanLeaves, Goto
<1>4. ASSUME ScanCountry PROVE Goal
      BY <1>4 DEF ScanCountry, ScanCheckFails, ScanLeaves, Goto
<1>5. ASSUME ScanMask \/ ScanUp \/ Escan PROVE Goal
      BY <1>5 DEF ScanMask, ScanCall, ScanCheckFails, ScanLeaves, Goto, ScanUp, Escan
<1>6. ASSUME ScanDrain("s_drain", "s_read") \/ ScanDrain("s_drain2", "s_open") \/ ScanOpen \/
      ScanWait PROVE Goal
      BY <1>6 DEF ScanDrain, ScanCheckFails, ScanLeaves, Goto, ScanOpen, ScanWait
<1>7. ASSUME Cleanup PROVE Goal
      BY <1>7 DEF Cleanup, Goto
<1>8. ASSUME CleanupDown \/ CleanupMask \/ CleanupCountry \/ CleanupDrain PROVE Goal
      BY <1>8 DEF CleanupDown, CleanupCall, Goto, CleanupMask, CleanupCountry, CleanupDrain
<1>9. CASE ScanEnds BY <1>9 DEF ScanEnds
<1> QED BY <1>1, <1>2, <1>3, <1>4, <1>5, <1>6, <1>7, <1>8, <1>9 DEF Scanning
(* Every step keeps the type of n. *)
LEMMA NTyped ==
    ASSUME NOK, LinkOK, [Next]_vars
    PROVE  NOK'
<1> USE DEF NOK, Requests
<1>1. CASE Firmware \/ Receive \/ LinkEvent
      BY <1>1 DEF Firmware, Driver, FwLink, FwAuth, FwDeny, FwLoss, FwPartial, FwScanEnds,
         Receive, LinkEvent
<1>2. ASSUME NEW op \in {"connect", "disconnect"}, Connect(op) PROVE NOK'
      BY <1>2 DEF Connect
<1>3. CASE RadioRefresh \/ ScanCancel \/ ScanAdmit
      BY <1>3 DEF RadioRefresh, ScanCancel, ScanAdmit, Unqueued, Withdrawn
<1>4. ASSUME NEW country \in Countries \ {"default"}, ScanStart(country) PROVE NOK'
      BY <1>4 DEF ScanStart
<1>5. CASE PowerDown \/ PowerCycle
      BY <1>5 DEF PowerDown, PowerCycle
<1>6. ASSUME NEW on \in BOOLEAN, Pause(on) PROVE NOK'
      BY <1>6 DEF Pause, Unqueued, Withdrawn
<1>7. CASE Take \/ Radio
      BY <1>7 DEF Take, Goto, Radio
<1>8. ASSUME NEW fault \in BOOLEAN, WorkerEnds(fault) PROVE NOK'
      BY <1>8 DEF WorkerEnds, Unqueued, Withdrawn, Goto
<1>9. CASE Connecting
      BY <1>9, ConnectFrame, FailureIs DEF ConnectBegins, Disconnect, Advances, Publishes,
         Finish
<1>10. CASE Scanning
      BY <1>10, ScanFrame DEF ScanEnds
<1>11. CASE UNCHANGED vars BY <1>11 DEF vars
<1> QED BY <1>1, <1>2, <1>3, <1>4, <1>5, <1>6, <1>7, <1>8, <1>9, <1>10, <1>11 DEF Next, Worker,
      Ioctl

(* What a link event does to the link. *)
LEMMA LinkEventIs ==
    ASSUME LinkOK, LinkEvent
    PROVE  /\ link' \in Links /\ ~link'.handling
           /\ link'.selecting = link.selecting
           /\ link'.media => \/ link'.assoc /\ link'.auth /\ ~link'.selecting
                             \/ link.media /\ link.selecting
           /\ ~link.assoc /\ Head(fifo).kind # "LINK" => ~link'.assoc
           /\ link'.auth => link.auth \/ Head(fifo).kind = "PSK"
           /\ link'.auth /\ Head(fifo).kind # "PSK" => link'.missed = link.missed
           /\ Head(fifo).kind \in {"LOSS", "DENY"} => ~link'.auth
<1> DEFINE e == Head(fifo)
           l == Linked(link, e)
<1>1. /\ l \in Links
      /\ l.selecting = link.selecting /\ l.media = link.media
      /\ ~link.assoc /\ e.kind # "LINK" => ~l.assoc
      /\ l.auth => link.auth \/ e.kind = "PSK"
      /\ l.auth /\ e.kind # "PSK" => l.missed = link.missed
      /\ e.kind \in {"LOSS", "DENY"} => ~l.auth
      BY DEF Linked, Unjoined, LinkOK, Links
<1>2. link' = [Published(l, l.assoc /\ l.auth) EXCEPT !.handling = FALSE] BY DEF LinkEvent
<1> HIDE DEF l, e
<1>3. PICK up \in BOOLEAN : up <=> l.assoc /\ l.auth BY <1>1 DEF Links
<1>4. \/ up /\ l.selecting /\ link' = [l EXCEPT !.handling = FALSE]
      \/ ~(up /\ l.selecting) /\ link' = [l EXCEPT !.media = up, !.handling = FALSE]
      BY <1>1, <1>2, <1>3 DEF Published, Links
<1>5. /\ link' \in Links /\ ~link'.handling /\ link'.selecting = l.selecting
      /\ link'.assoc = l.assoc /\ link'.auth = l.auth /\ link'.missed = l.missed
      /\ \/ up /\ l.selecting /\ link'.media = l.media
         \/ ~(up /\ l.selecting) /\ link'.media = up
      BY <1>1, <1>4 DEF Links
<1>6. QED BY <1>1, <1>3, <1>5 DEF e

(* What the test of ScanBusy does to it: the event is in hand, or has been  *)
(* dropped and is remembered if it mattered.                                *)
LEMMA ReceiveIs ==
    ASSUME LinkOK, Receive
    PROVE  /\ link' \in Links /\ UNCHANGED <<n, phase, good, fw, pc, job>>
           /\ link'.selecting = link.selecting /\ link'.media = link.media
           /\ link'.assoc = link.assoc /\ link'.auth = link.auth
           /\ link.missed => link'.missed
           /\ fifo # <<>>
           /\ \/ /\ ~scan.busy /\ link'.handling /\ UNCHANGED <<scan, fifo>>
                 /\ Head(fifo).kind \notin {"PARTIAL", "DONE"} /\ pc # "gone"
              \/ /\ ~link'.handling /\ fifo' = Tail(fifo)
                 /\ Head(fifo).kind \in {"LOSS", "DENY"} /\ link.auth => link'.missed
<1>1. PICK b \in BOOLEAN : b <=> link.missed \/ (link.auth /\ Revokes(Head(fifo))) OBVIOUS
<1>2. CASE scan.busy /\ link' = [link EXCEPT !.missed = b] /\ fifo' = Tail(fifo)
      BY <1>1, <1>2 DEF Receive, Revokes, LinkOK, Links
<1>3. CASE link' = link /\ Head(fifo).kind \in {"PARTIAL", "DONE"} /\ fifo' = Tail(fifo)
      BY <1>3 DEF Receive, LinkOK, Links
<1>4. CASE /\ link' = [link EXCEPT !.handling = TRUE] /\ UNCHANGED <<scan, fifo>>
           /\ ~scan.busy /\ Head(fifo).kind \notin {"PARTIAL", "DONE"}
      BY <1>4 DEF Receive, Polling, LinkOK, Links
<1>5. QED BY <1>1, <1>2, <1>3, <1>4 DEF Receive

(* Every step keeps the type of link. *)
LEMMA LinkTyped ==
    ASSUME LinkOK, [Next]_vars
    PROVE  LinkOK'
<1> USE DEF LinkOK, Links
<1>1. CASE Firmware
      BY <1>1 DEF Firmware, Driver, FwLink, FwAuth, FwDeny, FwLoss, FwPartial, FwScanEnds
<1>2. ASSUME NEW op \in {"connect", "disconnect"}, Connect(op) PROVE LinkOK'
      BY <1>2 DEF Connect
<1>3. CASE RadioRefresh \/ ScanCancel \/ ScanAdmit \/ PowerDown \/ Take \/ Radio
      BY <1>3 DEF RadioRefresh, ScanCancel, ScanAdmit, PowerDown, Take, Goto, Radio
<1>4. ASSUME NEW country \in Countries \ {"default"}, ScanStart(country) PROVE LinkOK'
      BY <1>4 DEF ScanStart
<1>5. ASSUME NEW on \in BOOLEAN, Pause(on) PROVE LinkOK'
      BY <1>5 DEF Pause
<1>6. CASE PowerCycle
      BY <1>6 DEF PowerCycle, Unjoined
<1>7. ASSUME NEW fault \in BOOLEAN, WorkerEnds(fault) PROVE LinkOK'
      BY <1>7 DEF WorkerEnds, Goto, Unjoined
<1>8. CASE Receive \/ LinkEvent BY <1>8, ReceiveIs, LinkEventIs
<1>9. CASE Connecting
  <2>1. CASE ConnectBegins \/ Advances BY <2>1 DEF ConnectBegins, Advances, Unjoined
  <2>2. CASE ConnectFails BY <2>2, FailureIs
  <2>3. CASE Publishes BY <2>3 DEF Publishes
  <2>4. CASE \E r \in Replies : Disconnect(r) BY <2>4 DEF Disconnect, Unjoined
  <2>5. QED BY <1>9, <2>1, <2>2, <2>3, <2>4, ConnectFrame
<1>10. CASE Scanning
      BY <1>10, ScanFrame DEF Unjoined
<1>11. CASE UNCHANGED vars BY <1>11 DEF vars
<1> QED BY <1>1, <1>2, <1>3, <1>4, <1>5, <1>6, <1>7, <1>8, <1>9, <1>10, <1>11 DEF Next, Worker,
      Ioctl

(* The fields of an event. *)
LEMMA EventIs ==
    ASSUME NEW e \in Events
    PROVE  /\ e.kind \in {"LINK", "PSK", "DENY", "LOSS", "PARTIAL", "DONE"}
           /\ e.kind \in {"PARTIAL", "DONE"} => e.of \in 1..MaxGen
           /\ e.kind = "DONE" => e.ok \in BOOLEAN
BY DEF Events

(* Every step keeps the type of scan. *)
LEMMA ScanTyped ==
    ASSUME ScanOK, NOK, LinkOK, JobOK, FifoOK, SlotInv, [Next]_vars
    PROVE  ScanOK'
<1> USE ControlAssumption DEF ScanOK, States
<1>1. CASE Firmware
      BY <1>1 DEF Firmware, Driver, FwLink, FwAuth, FwDeny, FwLoss, FwPartial, FwScanEnds
<1>2. ASSUME NEW op \in {"connect", "disconnect"}, Connect(op) PROVE ScanOK'
      BY <1>2 DEF Connect
<1>3. CASE RadioRefresh \/ PowerDown \/ Take \/ Radio \/ ScanAdmit \/ LinkEvent
      BY <1>3 DEF RadioRefresh, PowerDown, Take, Goto, Radio, ScanAdmit, LinkEvent
<1>4. CASE ScanCancel
      BY <1>4 DEF ScanCancel, Quiesced, Withdrawn
<1>5. ASSUME NEW on \in BOOLEAN, Pause(on) PROVE ScanOK'
      BY <1>5 DEF Pause, Quiesced, Withdrawn
<1>6. ASSUME NEW fault \in BOOLEAN, WorkerEnds(fault) PROVE ScanOK'
      BY <1>6 DEF WorkerEnds, Quiesced, Withdrawn, Goto
<1>7. ASSUME NEW country \in Countries \ {"default"}, ScanStart(country) PROVE ScanOK'
  <2>1. PICK g : g = scan.gen + 1 OBVIOUS
  <2>2. g \in 0..MaxGen BY <1>7, <2>1 DEF ScanStart, SlotInv
  <2>3. scan' = [scan EXCEPT !.gen = g, !.state = "queued", !.entries = {}, !.country = country,
                             !.complete = FALSE, !.accept = FALSE, !.ok = TRUE,
                             !.cancel = FALSE, !.busy = TRUE, !.admit = FALSE]
        BY <1>7, <2>1 DEF ScanStart, NewReport
  <2>4. QED BY <2>2, <2>3
<1>8. CASE PowerCycle
      BY <1>8 DEF PowerCycle, ScanReset
<1>9. CASE Receive
  <2> DEFINE e == Head(fifo)
  <2>1. e \in Events BY <1>9 DEF Receive, FifoOK
  <2> HIDE DEF e
  <2>2. CASE scan' = CywScanEvent(e) /\ e.kind \in {"PARTIAL", "DONE"}
    <3> DEFINE x == scan.entries \cup {e.of}
               b == e.ok
    <3>1. e.kind = "PARTIAL" => x \in SUBSET (1..MaxGen) BY <2>1, EventIs
    <3>2. e.kind = "DONE" => b \in BOOLEAN BY <2>1, EventIs
    <3>3. \/ scan' = scan
          \/ e.kind = "PARTIAL" /\ scan' = [scan EXCEPT !.entries = x]
          \/ e.kind = "DONE" /\ scan' = [scan EXCEPT !.complete = TRUE, !.ok = b]
          BY <2>2 DEF CywScanEvent
    <3> HIDE DEF x, b
    <3>4. QED BY <3>1, <3>2, <3>3
  <2>3. QED BY <1>9, <2>2 DEF Receive, e
<1>10. CASE Connecting
      BY <1>10, ConnectFrame
<1>11. CASE Scanning
  <2>1. CASE ScanEnds
    <3> DEFINE s == IF ScanOutcome = "ok" THEN "complete" ELSE ScanOutcome
               x == IF ScanOutcome = "ok" THEN scan.entries ELSE {}
    <3>1. s \in States /\ x \in SUBSET (1..MaxGen) BY DEF ScanOutcome, JobOK, Outcomes
    <3>2. scan' = [scan EXCEPT !.state = s, !.entries = x, !.busy = FALSE]
          BY <2>1 DEF ScanEnds
    <3> HIDE DEF s, x
    <3>3. QED BY <3>1, <3>2
  <2>2. CASE ScanChanges
    <3>1. \/ UNCHANGED scan
          \/ scan' = [scan EXCEPT !.state = "running", !.accept = FALSE, !.complete = FALSE]
          \/ \E b \in BOOLEAN : scan' = [scan EXCEPT !.accept = b]
          BY <2>2 DEF ScanChanges
    <3>2. CASE UNCHANGED scan BY <3>2
    <3>3. CASE scan' = [scan EXCEPT !.state = "running", !.accept = FALSE, !.complete = FALSE]
          BY <3>3
    <3>4. ASSUME NEW b \in BOOLEAN, scan' = [scan EXCEPT !.accept = b] PROVE ScanOK'
          BY <3>4
    <3>5. QED BY <3>1, <3>2, <3>3, <3>4
  <2>3. QED BY <1>11, <2>1, <2>2, ScanFrame
<1>12. CASE UNCHANGED vars BY <1>12 DEF vars
<1> QED BY <1>1, <1>2, <1>3, <1>4, <1>5, <1>6, <1>7, <1>8, <1>9, <1>10, <1>11, <1>12 DEF Next,
      Worker, Ioctl

(* What the commands of the scripts do to the firmware, if they do it. *)
Commands ==
    \/ UNCHANGED fw
    \/ pc \in {"disconnect", "down", "s_down", "k_down"} /\ fw' = RadioDown(fw)
    \/ pc = "setup" /\ fw' = [fw EXCEPT !.country = "home"]
    \/ pc \in {"up", "s_up"} /\ fw' = [fw EXCEPT !.up = TRUE]
    \/ pc = "prefer" /\ fw' = [fw EXCEPT !.pref = TRUE]
    \/ pc \in {"legacy", "join", "join2"} /\ fw' = Joined(fw)
    \/ pc = "restore" /\ fw' = [fw EXCEPT !.pref = FALSE]
    \/ pc = "disassoc" /\ fw' = [fw EXCEPT !.join = FALSE, !.assoc = FALSE, !.auth = FALSE]
    \/ pc = "s_country" /\ fw' = [fw EXCEPT !.country = scan.country]
    \/ pc = "s_mask" /\ fw' = [fw EXCEPT !.mask = TRUE]
    \/ pc = "escan" /\ fw' = [fw EXCEPT !.scan = scan.gen]
    \/ pc = "k_mask" /\ fw' = [fw EXCEPT !.mask = job.origMask]
    \/ pc = "k_country" /\ fw' = [fw EXCEPT !.country = job.orig]

(* A step of a connect or of a scan leaves the events to the poll, and does *)
(* nothing to the firmware but its command.                                 *)
LEMMA CommandIs ==
    ASSUME Connecting \/ Scanning
    PROVE  Commands /\ UNCHANGED fifo
<1> DEFINE Goal == Commands /\ UNCHANGED fifo
<1> USE DEF Commands
<1>1. ASSUME ConnectBegins \/ BandWait("wait", "verify") \/ BandWait("wait2", "verify3") \/
      BandVerifyAgain \/ BandVerifyLast \/ BandPublish PROVE Goal
      BY <1>1 DEF ConnectBegins, BandWait, BandVerifyAgain, BandVerifyLast, BandPublish
<1>2. ASSUME NEW usable \in BOOLEAN, BandVerify(usable) PROVE Goal
      BY <1>2 DEF BandVerify
<1>3. ASSUME NEW r \in Replies, Disconnect(r) \/ ConnectDown(r) \/ ConnectSetup(r) \/
      ConnectUp(r) PROVE Goal
      BY <1>3 DEF Disconnect, Reply, ConnectDown, Step, ConnectSetup, ConnectUp
<1>4. ASSUME NEW r \in Replies, ConnectPrefer(r) \/ LegacyJoin(r) \/ BandJoin(r) PROVE Goal
      BY <1>4 DEF ConnectPrefer, Reply, LegacyJoin, BandJoin
<1>5. ASSUME NEW r \in Replies, BandRestore(r) \/ BandDisassoc(r) \/ BandJoinAgain(r) PROVE Goal
      BY <1>5 DEF BandRestore, Reply, Unpreferred, BandDisassoc, BandJoinAgain, Step
<1>6. ASSUME ScanBegins \/ ScanDrain("s_drain", "s_read") \/ ScanDrain("s_drain2", "s_open") \/
      ScanOpen \/ ScanWait \/ Cleanup \/ CleanupDrain \/ ScanEnds PROVE Goal
      BY <1>6 DEF ScanBegins, ScanDrain, ScanCheckFails, ScanOpen, ScanWait, Cleanup,
         CleanupDrain, ScanEnds
<1>7. ASSUME ScanDown \/ ScanRead PROVE Goal
      BY <1>7 DEF ScanDown, ScanCall, ScanCheckFails, Reply, ScanRead
<1>8. ASSUME ScanCountry PROVE Goal
      BY <1>8 DEF ScanCountry, ScanCheckFails, Reply
<1>9. ASSUME ScanMask \/ ScanUp \/ Escan PROVE Goal
      BY <1>9 DEF ScanMask, ScanCall, ScanCheckFails, Reply, ScanUp, Escan
<1>10. ASSUME CleanupDown PROVE Goal
      BY <1>10 DEF CleanupDown, CleanupCall, Reply
<1>11. ASSUME CleanupMask \/ CleanupCountry PROVE Goal
      BY <1>11 DEF CleanupMask, CleanupCall, Reply, CleanupCountry
<1> QED BY <1>1, <1>2, <1>3, <1>4, <1>5, <1>6, <1>7, <1>8, <1>9, <1>10, <1>11 DEF Connecting,
      Scanning

(* Every step keeps the type of fw. *)
LEMMA FwTyped ==
    ASSUME FwOK, ScanOK, JobOK, [Next]_vars
    PROVE  FwOK'
<1> USE ControlAssumption DEF FwOK, Countries
<1>1. CASE FwLink \/ FwAuth \/ FwDeny \/ FwLoss \/ FwPartial
      BY <1>1 DEF FwLink, Driver, FwAuth, FwDeny, FwLoss, FwPartial
<1>2. ASSUME NEW tagged \in BOOLEAN, NEW ok \in BOOLEAN, FwScanEnds(tagged, ok) PROVE FwOK'
      BY <1>2 DEF FwScanEnds, Driver
<1>3. ASSUME NEW op \in {"connect", "disconnect"}, Connect(op) PROVE FwOK'
      BY <1>3 DEF Connect
<1>4. CASE RadioRefresh \/ ScanCancel \/ ScanAdmit \/ PowerDown \/ Take \/ Radio \/ Receive
         \/ LinkEvent
      BY <1>4 DEF RadioRefresh, ScanCancel, ScanAdmit, PowerDown, Take, Radio, Receive,
         LinkEvent
<1>5. ASSUME NEW country \in Countries \ {"default"}, ScanStart(country) PROVE FwOK'
      BY <1>5 DEF ScanStart
<1>6. ASSUME NEW on \in BOOLEAN, Pause(on) PROVE FwOK'
      BY <1>6 DEF Pause
<1>7. ASSUME NEW fault \in BOOLEAN, WorkerEnds(fault) PROVE FwOK'
      BY <1>7 DEF WorkerEnds
<1>8. CASE PowerCycle
      BY <1>8 DEF PowerCycle, FirmwareReset
<1>9. CASE Connecting \/ Scanning
  <2>1. Commands BY <1>9, CommandIs
  <2>2. PICK c \in Countries, d \in Countries, g \in 0..MaxGen, m \in BOOLEAN :
           c = job.orig /\ d = scan.country /\ g = scan.gen /\ m = job.origMask
        BY DEF ScanOK, JobOK
  <2>3. 0 \in 0..MaxGen OBVIOUS
  <2>4. CASE fw' = RadioDown(fw) BY <2>3, <2>4 DEF RadioDown
  <2>5. CASE fw' = Joined(fw) BY <2>5 DEF Joined
  <2>6. ASSUME NEW x \in Countries,
               fw' = [fw EXCEPT !.country = x] \/ fw' = [fw EXCEPT !.scan = g]
        PROVE  FwOK'
        BY <2>2, <2>6
  <2>7. ASSUME NEW x \in BOOLEAN,
               \/ fw' = [fw EXCEPT !.up = x] \/ fw' = [fw EXCEPT !.pref = x]
               \/ fw' = [fw EXCEPT !.mask = x]
               \/ fw' = [fw EXCEPT !.join = FALSE, !.assoc = FALSE, !.auth = FALSE]
        PROVE  FwOK'
        BY <2>7
  <2>8. "home" \in Countries OBVIOUS
  <2>9. QED BY <2>1, <2>2, <2>4, <2>5, <2>6, <2>7, <2>8 DEF Commands
<1>10. CASE UNCHANGED vars BY <1>10 DEF vars
<1> QED BY <1>1, <1>2, <1>3, <1>4, <1>5, <1>6, <1>7, <1>8, <1>9, <1>10 DEF Next, Worker,
      Firmware, Ioctl

(* Every step keeps the type of fifo. *)
LEMMA FifoTyped ==
    ASSUME FifoOK, FwOK, HandInv, [Next]_vars
    PROVE  FifoOK'
<1>1. ASSUME NEW e \in Events, Post(e) PROVE FifoOK'
      BY <1>1, ControlAssumption DEF Post, FifoOK
<1>2. CASE Firmware
  <2>1. [kind |-> "LINK"] \in Events /\ [kind |-> "PSK"] \in Events
        /\ [kind |-> "DENY"] \in Events /\ [kind |-> "LOSS"] \in Events
        BY DEF Events
  <2>2. CASE FwLink \/ FwAuth \/ FwDeny \/ FwLoss
        BY <1>1, <2>1, <2>2 DEF FwLink, FwAuth, FwDeny, FwLoss
  <2>3. PICK g : g = fw.scan OBVIOUS
  <2>4. fw.scan # 0 => g \in 1..MaxGen BY <2>3, ControlAssumption DEF FwOK
  <2>5. CASE FwPartial
    <3>1. [kind |-> "PARTIAL", of |-> g] \in Events BY <2>4, <2>5 DEF Events, FwPartial
    <3>2. QED BY <1>1, <2>3, <2>5, <3>1 DEF FwPartial
  <2>6. ASSUME NEW tagged \in BOOLEAN, NEW ok \in BOOLEAN, FwScanEnds(tagged, ok) PROVE FifoOK'
    <3>1. [kind |-> "DONE", of |-> g, tagged |-> tagged, ok |-> ok] \in Events
          BY <2>4, <2>6 DEF Events, FwScanEnds
    <3>2. QED BY <1>1, <2>3, <2>6, <3>1 DEF FwScanEnds
  <2>7. QED BY <1>2, <2>2, <2>5, <2>6 DEF Firmware
<1>3. CASE Receive \/ LinkEvent
  <2>1. fifo' = fifo \/ (fifo # <<>> /\ fifo' = Tail(fifo))
        BY <1>3 DEF Receive, LinkEvent, HandInv
  <2>2. QED BY <2>1, ControlAssumption DEF FifoOK
<1>4. CASE PowerCycle BY <1>4, ControlAssumption DEF PowerCycle, FifoOK
<1>5. CASE UNCHANGED fifo BY <1>5 DEF FifoOK
<1>6. ASSUME NEW op \in {"connect", "disconnect"}, Connect(op) PROVE UNCHANGED fifo
      BY <1>6 DEF Connect
<1>7. ASSUME RadioRefresh \/ ScanCancel \/ ScanAdmit \/ PowerDown \/ Take \/ Radio
      PROVE  UNCHANGED fifo
      BY <1>7 DEF RadioRefresh, ScanCancel, ScanAdmit, PowerDown, Take, Radio
<1>8. ASSUME NEW country \in Countries \ {"default"}, ScanStart(country) PROVE UNCHANGED fifo
      BY <1>8 DEF ScanStart
<1>9. ASSUME NEW on \in BOOLEAN, Pause(on) PROVE UNCHANGED fifo
      BY <1>9 DEF Pause
<1>10. ASSUME NEW fault \in BOOLEAN, WorkerEnds(fault) PROVE UNCHANGED fifo
      BY <1>10 DEF WorkerEnds
<1>11. ASSUME Connecting \/ Scanning PROVE UNCHANGED fifo BY <1>11, CommandIs
<1> QED BY <1>2, <1>3, <1>4, <1>5, <1>6, <1>7, <1>8, <1>9, <1>10, <1>11 DEF Next, Worker, Ioctl,
      vars

(* The locals at the start of a request are of their types. *)
LEMMA NoJobTyped ==
    NoJob \in [fallback : BOOLEAN, status : Outcomes, dirty : BOOLEAN, mask : BOOLEAN,
               country : BOOLEAN, down : BOOLEAN, cleanup : Outcomes,
               origMask : BOOLEAN, orig : Countries, before : Countries]
<1>1. "ok" \in Outcomes /\ "default" \in Countries BY DEF Outcomes, Countries
<1>2. QED BY <1>1 DEF NoJob

(* Every step keeps the type of job. *)
LEMMA JobTyped ==
    ASSUME JobOK, FwOK, ScanOK, LinkOK, [Next]_vars
    PROVE  JobOK'
<1> USE DEF JobOK
<1>1. CASE Firmware
      BY <1>1 DEF Firmware, Driver, FwLink, FwAuth, FwDeny, FwLoss, FwPartial, FwScanEnds
<1>2. ASSUME NEW op \in {"connect", "disconnect"}, Connect(op) PROVE JobOK'
      BY <1>2 DEF Connect
<1>3. CASE RadioRefresh \/ ScanCancel \/ ScanAdmit \/ PowerDown \/ Take \/ Radio \/ Receive
         \/ LinkEvent
      BY <1>3 DEF RadioRefresh, ScanCancel, ScanAdmit, PowerDown, Take, Radio, Receive,
         LinkEvent
<1>4. ASSUME NEW country \in Countries \ {"default"}, ScanStart(country) PROVE JobOK'
      BY <1>4 DEF ScanStart
<1>5. ASSUME NEW on \in BOOLEAN, Pause(on) PROVE JobOK'
      BY <1>5 DEF Pause
<1>6. ASSUME NEW fault \in BOOLEAN, WorkerEnds(fault) PROVE JobOK'
      BY <1>6 DEF WorkerEnds
<1>7. CASE PowerCycle
      BY <1>7, NoJobTyped DEF PowerCycle
<1>8. CASE Connecting
  <2>1. CASE Advances BY <2>1 DEF Advances
  <2>2. CASE ConnectBegins BY <2>2 DEF ConnectBegins
  <2>3. CASE job' = NoJob BY <2>3, NoJobTyped
  <2>4. ASSUME NEW r \in Replies, Disconnect(r) PROVE job' = NoJob BY <2>4 DEF Disconnect, Finish
  <2>5. Publishes => job' = NoJob BY DEF Publishes, Finish
  <2>6. QED BY <1>8, <2>1, <2>2, <2>3, <2>4, <2>5, FailureIs, ConnectFrame
<1>9. CASE ScanBegins
  <2>1. PICK c \in Countries : c = fw.country BY DEF FwOK
  <2> DEFINE j == [NoJob EXCEPT !.before = c]
  <2>2. j \in [fallback : BOOLEAN, status : Outcomes, dirty : BOOLEAN, mask : BOOLEAN,
               country : BOOLEAN, down : BOOLEAN, cleanup : Outcomes,
               origMask : BOOLEAN, orig : Countries, before : Countries]
        BY <2>1, NoJobTyped
  <2>3. \/ job' = [j EXCEPT !.status = "cancelled"] \/ job' = [j EXCEPT !.status = "failed"]
        \/ job' = [j EXCEPT !.dirty = TRUE]
        BY <1>9, <2>1 DEF ScanBegins
  <2> HIDE DEF j
  <2>4. QED BY <2>2, <2>3 DEF Outcomes
<1>10. CASE ScanDrain("s_drain", "s_read") \/ ScanDrain("s_drain2", "s_open") \/ ScanOpen \/
      ScanDown \/ ScanUp \/ Escan
      BY <1>10 DEF ScanDrain, ScanCheckFails, ScanLeaves, ScanOpen, ScanDown, ScanCall, ScanUp,
         Escan, Outcomes
<1>11. CASE ScanWait \/ ScanMask
      BY <1>11 DEF ScanWait, ScanCheckFails, ScanLeaves, ScanMask, ScanCall, Outcomes
<1>12. CASE ScanRead
  <2>1. PICK c \in Countries, m \in BOOLEAN : c = fw.country /\ m = fw.mask BY DEF FwOK
  <2> DEFINE j == [job EXCEPT !.orig = c, !.origMask = m]
  <2>2. \/ \E s \in Outcomes : job' = [job EXCEPT !.status = s]
        \/ job' = j \/ job' = [j EXCEPT !.status = "failed"]
        BY <1>12, <2>1 DEF ScanRead, ScanCall, ScanCheckFails, ScanLeaves, Outcomes
  <2>3. QED BY <2>1, <2>2 DEF Outcomes
<1>13. CASE ScanCountry
      BY <1>13 DEF ScanCountry, ScanCheckFails, ScanLeaves, CountryTouched, Outcomes
<1>14. CASE Cleanup \/ CleanupDrain
      BY <1>14 DEF Cleanup, CleanupDrain, CleanupFailed, Outcomes
<1>15. CASE CleanupDown \/ CleanupMask \/ CleanupCountry
  <2>1. PICK b \in BOOLEAN, s \in Outcomes :
           job' = job \/ job' = [[job EXCEPT !.down = b] EXCEPT !.cleanup = s]
           \/ job' = [job EXCEPT !.down = b]
        BY <1>15 DEF CleanupDown, CleanupMask, CleanupCountry, CleanupCall, CleanupFailed, Outcomes
  <2>2. QED BY <2>1
<1>16. CASE ScanEnds
      BY <1>16, NoJobTyped DEF ScanEnds, Goto
<1>17. CASE UNCHANGED vars BY <1>17 DEF vars
<1> QED BY <1>1, <1>2, <1>3, <1>4, <1>5, <1>6, <1>7, <1>8, <1>9, <1>10, <1>11, <1>12, <1>13,
      <1>14, <1>15, <1>16, <1>17 DEF Next, Worker, Ioctl, Scanning

(* Every step keeps the phase, the step and the slot's flags within their types. *)
LEMMA PlaceTyped ==
    ASSUME PlaceOK, SlotInv, NOK, LinkOK, ScanOK, [Next]_vars
    PROVE  PlaceOK'
<1> USE DEF PlaceOK, NOK, Requests, ScanOK
<1>1. CASE Firmware
      BY <1>1 DEF Firmware, Driver, FwLink, FwAuth, FwDeny, FwLoss, FwPartial, FwScanEnds
<1>2. ASSUME NEW op \in {"connect", "disconnect"}, Connect(op) PROVE PlaceOK'
      BY <1>2 DEF Connect
<1>3. CASE RadioRefresh \/ PowerDown \/ ScanAdmit
      BY <1>3 DEF RadioRefresh, PowerDown, ScanAdmit
<1>4. ASSUME NEW country \in Countries \ {"default"}, ScanStart(country) PROVE PlaceOK'
      BY <1>4 DEF ScanStart, NewReport
<1>5. CASE ScanCancel
      BY <1>5 DEF ScanCancel, Quiesced, Withdrawn, Unqueued
<1>6. ASSUME NEW on \in BOOLEAN, Pause(on) PROVE PlaceOK'
      BY <1>6 DEF Pause, Quiesced, Withdrawn, Unqueued
<1>7. CASE PowerCycle
      BY <1>7 DEF PowerCycle, ScanReset
<1>8. CASE Take \/ Radio
      BY <1>8 DEF Take, Goto, Radio, ConnectSteps, ScanSteps
<1>9. ASSUME NEW fault \in BOOLEAN, WorkerEnds(fault) PROVE PlaceOK'
      BY <1>9 DEF WorkerEnds, Quiesced, Withdrawn, Unqueued, Goto
<1>10. CASE Receive \/ LinkEvent
  <2>1. scan'.busy = scan.busy /\ UNCHANGED <<n, good, pc>>
        BY <1>10 DEF Receive, LinkEvent, CywScanEvent, ScanOK
  <2>2. phase' \in {"down", "joining", "up"} BY <1>10 DEF Receive, LinkEvent, PhaseOf
  <2>3. QED BY <2>1, <2>2
<1>11. CASE Connecting
  <2>1. ~(pc \in {"loop", "gone"}) /\ Script \subseteq ConnectSteps /\ UNCHANGED scan
        BY <1>11, ConnectFrame DEF ConnectSteps, Script
  <2>2. CASE pc' \in Script /\ UNCHANGED n /\ phase' \in {"down", "joining", "up"}
              /\ good' \in BOOLEAN
        BY <2>1, <2>2 DEF Script, ConnectSteps
  <2>3. CASE ConnectBegins \/ Advances
        BY <2>2, <2>3 DEF ConnectBegins, Advances, Goto, Script, ConnectSteps
  <2>4. CASE ConnectFails BY <2>1, <2>4, FailureIs
  <2>5. CASE Publishes BY <2>1, <2>5 DEF Publishes, Finish, Goto
  <2>6. CASE \E r \in Replies : Disconnect(r) BY <2>1, <2>6 DEF Disconnect, Finish, Goto
  <2>7. QED BY <1>11, <2>3, <2>4, <2>5, <2>6, ConnectFrame
<1>12. CASE Scanning
  <2>1. CASE ScanEnds BY <2>1 DEF ScanEnds, Goto, ScanSteps, SlotInv
  <2>2. CASE pc' \in ScanSteps \ {"scan"} /\ UNCHANGED <<n, good>> /\ ScanChanges
    <3>1. scan'.busy = scan.busy BY <2>2 DEF ScanChanges, ScanOK
    <3>2. QED BY <1>12, <2>2, <3>1, ScanFrame DEF ScanSteps
  <2>3. QED BY <1>12, <2>1, <2>2, ScanFrame
<1>13. CASE UNCHANGED vars BY <1>13 DEF vars
<1> QED BY <1>1, <1>2, <1>3, <1>4, <1>5, <1>6, <1>7, <1>8, <1>9, <1>10, <1>11, <1>12, <1>13 DEF
      Next, Worker, Ioctl

(* The type invariant, by variables. *)
LEMMA TypesAre ==
    ASSUME TypeOK
    PROVE  NOK /\ LinkOK /\ ScanOK /\ FwOK /\ FifoOK /\ JobOK /\ PlaceOK
BY DEF TypeOK, NOK, LinkOK, Links, ScanOK, FwOK, FifoOK, JobOK, PlaceOK, Requests, States

(* Every step keeps the types. *)
LEMMA TypeKept == ASSUME TypeOK, SlotInv, HandInv, [Next]_vars PROVE TypeOK'
<1>1. NOK' /\ LinkOK' /\ ScanOK' /\ FwOK' /\ FifoOK' /\ JobOK' /\ PlaceOK'
      BY TypesAre, NTyped, LinkTyped, ScanTyped, FwTyped, FifoTyped, JobTyped, PlaceTyped
<1>2. QED
      BY <1>1
         DEF TypeOK, NOK, LinkOK, Links, ScanOK, FwOK, FifoOK, JobOK, PlaceOK, Requests, States

(* Every step keeps the slot to one request. *)
LEMMA SlotKept ==
    ASSUME TypeOK, SlotInv, [Next]_vars
    PROVE  SlotInv'
<1> USE TypesAre DEF SlotInv, NOK, Requests, ScanOK, PlaceOK, ScanSteps, ConnectSteps
<1>1. CASE Firmware
      BY <1>1 DEF Firmware, Driver, FwLink, FwAuth, FwDeny, FwLoss, FwPartial, FwScanEnds
<1>2. ASSUME NEW op \in {"connect", "disconnect"}, Connect(op) PROVE SlotInv'
      BY <1>2 DEF Connect, Free, LockFree
<1>3. CASE RadioRefresh \/ PowerDown \/ ScanAdmit
      BY <1>3 DEF RadioRefresh, Free, LockFree, PowerDown, ScanAdmit, MayScan
<1>4. ASSUME NEW country \in Countries \ {"default"}, ScanStart(country) PROVE SlotInv'
      BY <1>4 DEF ScanStart, NewReport
<1>5. CASE ScanCancel
      BY <1>5 DEF ScanCancel, LockFree, Quiesced, Withdrawn, Unqueued
<1>6. ASSUME NEW on \in BOOLEAN, Pause(on) PROVE SlotInv'
      BY <1>6 DEF Pause, LockFree, Quiesced, Withdrawn, Unqueued
<1>7. ASSUME NEW fault \in BOOLEAN, WorkerEnds(fault) PROVE SlotInv'
      BY <1>7 DEF WorkerEnds, LockFree, Quiesced, Withdrawn, Unqueued, Goto
<1>8. CASE PowerCycle
      BY <1>8 DEF PowerCycle, ScanReset
<1>9. CASE Take \/ Radio
      BY <1>9 DEF Take, LockFree, Goto, Radio, ScanSteps
<1>10. CASE Receive \/ LinkEvent
  <2>1. /\ scan'.busy = scan.busy /\ scan'.admit = scan.admit /\ scan'.gen = scan.gen
        /\ UNCHANGED <<n, good, pc>>
        BY <1>10 DEF Receive, LinkEvent, CywScanEvent, ScanOK
  <2>2. QED BY <2>1
<1>11. CASE Connecting
  <2>1. ~scan.busy /\ ~scan.admit /\ UNCHANGED scan BY <1>11, ConnectFrame
  <2>2. CASE pc' \in Script BY <2>1, <2>2 DEF Script
  <2>3. CASE pc' = "loop" BY <2>1, <2>3
  <2>4. \/ ConnectBegins \/ Advances \/ ConnectFails \/ Publishes
        \/ \E r \in Replies : Disconnect(r)
        BY <1>11, ConnectFrame
  <2>5. pc' \in Script \/ pc' = "loop"
        BY <2>4, FailureIs
           DEF ConnectBegins, Advances, Publishes, Disconnect, Finish, Goto, Script
  <2>6. QED BY <2>2, <2>3, <2>5
<1>12. CASE Scanning
  <2>1. CASE ScanEnds BY <2>1 DEF ScanEnds, Goto
  <2>2. CASE pc' \in ScanSteps \ {"scan"} /\ UNCHANGED <<n, good>> /\ ScanChanges
    <3>1. scan'.busy = scan.busy /\ scan'.admit = scan.admit BY <2>2 DEF ScanChanges
    <3>2. QED BY <1>12, <2>2, <3>1, ScanFrame
  <2>3. QED BY <1>12, <2>1, <2>2, ScanFrame
<1>13. CASE UNCHANGED vars BY <1>13 DEF vars
<1> QED BY <1>1, <1>2, <1>3, <1>4, <1>5, <1>6, <1>7, <1>8, <1>9, <1>10, <1>11, <1>12, <1>13 DEF
      Next, Worker, Ioctl

-----------------------------------------------------------------------------
(* The steps of a scan up to its cleanup, and what they do to its locals. *)
Work == {"s_down", "s_drain", "s_read", "s_country", "s_mask", "s_up", "s_drain2", "s_open",
         "escan", "s_wait"}
Worked ==
    /\ pc' \in Work \cup {"cleanup"} /\ UNCHANGED good
    /\ job'.dirty = job.dirty /\ job'.before = job.before
    /\ \/ /\ job'.orig = job.orig /\ job'.origMask = job.origMask
          /\ job'.country = job.country /\ job'.mask = job.mask
          /\ pc \in {"s_read", "s_country", "s_mask"} => pc' = "cleanup" /\ UNCHANGED fw
       \/ /\ pc = "s_read" /\ job'.orig = fw.country /\ job'.origMask = fw.mask
          /\ job'.country = job.country /\ job'.mask = job.mask
       \/ /\ pc = "s_country" /\ job'.country
          /\ job'.orig = job.orig /\ job'.origMask = job.origMask /\ job'.mask = job.mask
       \/ /\ pc = "s_mask" /\ job'.mask
          /\ job'.orig = job.orig /\ job'.origMask = job.origMask /\ job'.country = job.country

(* The flags of the locals are set with the command, whatever its reply. *)
LEMMA WorkedIs == ASSUME TypeOK, Scanning, pc \in Work PROVE Worked
<1> USE TypesAre DEF JobOK, Work, Goto
<1>1. CASE ScanDown
      BY <1>1 DEF Worked, ScanDown, ScanCall, ScanCheckFails, ScanLeaves, Goto
<1>2. CASE ScanDrain("s_drain", "s_read") \/ ScanDrain("s_drain2", "s_open") \/ ScanOpen
      BY <1>2 DEF Worked, ScanDrain, ScanCheckFails, ScanLeaves, Goto, ScanOpen
<1>3. CASE ScanRead
      BY <1>3 DEF Worked, ScanRead, ScanCall, ScanCheckFails, ScanLeaves, Goto, Reply
<1>4. CASE ScanCountry
      BY <1>4 DEF Worked, ScanCountry, ScanCheckFails, ScanLeaves, Goto, CountryTouched
<1>5. CASE ScanMask
      BY <1>5 DEF Worked, ScanMask, ScanCall, ScanCheckFails, ScanLeaves, Goto
<1>6. CASE ScanUp
      BY <1>6 DEF Worked, ScanUp, ScanCall, ScanCheckFails, ScanLeaves, Goto
<1>7. CASE Escan
      BY <1>7 DEF Worked, Escan, ScanCall, ScanCheckFails, ScanLeaves, Goto
<1>8. CASE ScanWait
      BY <1>8 DEF Worked, ScanWait, ScanCheckFails, ScanLeaves, Goto
<1>9. CASE ScanBegins \/ Cleanup \/ CleanupDown \/ CleanupMask \/ CleanupCountry \/ CleanupDrain
         \/ ScanEnds
      BY <1>9 DEF ScanBegins, Cleanup, CleanupDown, CleanupMask, CleanupCountry, CleanupCall,
         CleanupDrain, ScanEnds
<1> QED BY <1>1, <1>2, <1>3, <1>4, <1>5, <1>6, <1>7, <1>8, <1>9 DEF Scanning

(* The steps of the cleanup, and what each must have done or remembers. *)
Cleaning == {"cleanup", "k_down", "k_mask", "k_country", "k_drain"}
Cleaned ==
    /\ UNCHANGED good
    /\ job'.dirty = job.dirty /\ job'.before = job.before /\ job'.orig = job.orig
    /\ job'.origMask = job.origMask /\ job'.mask = job.mask /\ job'.country = job.country
    /\ \/ /\ pc = "cleanup" /\ UNCHANGED fw
          /\ \/ pc' = "k_down" /\ job.dirty /\ job'.cleanup = "ok"
             \/ pc' = "k_end" /\ job.dirty /\ job'.cleanup # "ok"
             \/ pc' = "k_end" /\ ~job.dirty /\ job'.cleanup = "ok"
       \/ /\ pc = "k_down" /\ pc' = "k_mask"
          /\ \/ fifo = <<>> /\ fw' = RadioDown(fw) /\ job'.down
             \/ job'.cleanup # "ok"
       \/ /\ pc = "k_mask" /\ pc' = "k_country" /\ job'.down = job.down
          /\ \/ job.mask /\ fw' = [fw EXCEPT !.mask = job.origMask] /\ job'.cleanup = job.cleanup
             \/ ~job.mask /\ UNCHANGED fw /\ job'.cleanup = job.cleanup
             \/ job'.cleanup # "ok"
       \/ /\ pc = "k_country" /\ pc' = "k_drain" /\ job'.down = job.down
          /\ \/ /\ job.country /\ job.down /\ fw' = [fw EXCEPT !.country = job.orig]
                /\ job'.cleanup = job.cleanup
             \/ ~(job.country /\ job.down) /\ UNCHANGED fw /\ job'.cleanup = job.cleanup
             \/ job.country /\ job'.cleanup # "ok"
       \/ /\ pc = "k_drain" /\ pc' = "k_end" /\ job'.down = job.down /\ UNCHANGED fw
          /\ job'.cleanup = job.cleanup \/ job'.cleanup # "ok"

(* A step of the cleanup that does not do its work is remembered. *)
LEMMA CleanedIs == ASSUME TypeOK, Scanning, pc \in Cleaning PROVE Cleaned
<1> USE TypesAre DEF JobOK, Cleaning, Goto
<1>1. CASE Cleanup
      BY <1>1 DEF Cleaned, Cleanup, Goto
<1>2. CASE CleanupDrain
      BY <1>2 DEF Cleaned, CleanupDrain, CleanupFailed, Goto
<1>3. CASE CleanupDown
  <2>1. PICK r \in Replies :
           /\ Reply(r, RadioDown(fw))
           /\ LET j == [job EXCEPT !.down = @ \/ (pc = "k_down" /\ r = "ok")]
              IN  job' = IF r = "ok" THEN j ELSE CleanupFailed(j)
        BY <1>3 DEF CleanupDown, CleanupCall
  <2>2. CASE r = "ok" BY <1>3, <2>1, <2>2 DEF CleanupDown, CleanupCall, Reply, Cleaned
  <2>3. CASE r # "ok" BY <1>3, <2>1, <2>3 DEF CleanupDown, CleanupCall, CleanupFailed, Cleaned
  <2>4. QED BY <2>2, <2>3
<1>4. CASE CleanupMask
  <2>1. CASE job.mask
    <3>1. PICK r \in Replies :
             /\ Reply(r, [fw EXCEPT !.mask = job.origMask])
             /\ LET j == [job EXCEPT !.down = @ \/ (pc = "k_down" /\ r = "ok")]
                IN  job' = IF r = "ok" THEN j ELSE CleanupFailed(j)
          BY <1>4, <2>1 DEF CleanupMask, CleanupCall
    <3>2. CASE r = "ok" BY <1>4, <2>1, <3>1, <3>2 DEF CleanupMask, CleanupCall, Reply, Cleaned
    <3>3. CASE r # "ok"
      BY <1>4, <2>1, <3>1, <3>3 DEF CleanupMask, CleanupCall, CleanupFailed, Cleaned
    <3>4. QED BY <3>2, <3>3
  <2>2. CASE ~(job.mask) BY <1>4, <2>2 DEF CleanupMask, CleanupCall, Cleaned
  <2>3. QED BY <2>1, <2>2
<1>5. CASE CleanupCountry
  <2>1. CASE job.country /\ job.down
    <3>1. PICK r \in Replies :
             /\ Reply(r, [fw EXCEPT !.country = job.orig])
             /\ LET j == [job EXCEPT !.down = @ \/ (pc = "k_down" /\ r = "ok")]
                IN  job' = IF r = "ok" THEN j ELSE CleanupFailed(j)
          BY <1>5, <2>1 DEF CleanupCountry, CleanupCall
    <3>2. CASE r = "ok" BY <1>5, <2>1, <3>1, <3>2 DEF CleanupCountry, CleanupCall, Reply, Cleaned
    <3>3. CASE r # "ok"
      BY <1>5, <2>1, <3>1, <3>3 DEF CleanupCountry, CleanupCall, CleanupFailed, Cleaned
    <3>4. QED BY <3>2, <3>3
  <2>2. CASE ~(job.country /\ job.down) BY <1>5, <2>2 DEF CleanupCountry, CleanupCall, Cleaned
  <2>3. QED BY <2>1, <2>2
<1>6. CASE pc \in Work \cup {"scan", "k_end"} BY <1>6 DEF Work
<1> QED
  <2>1. \/ Cleanup \/ CleanupDown \/ CleanupMask \/ CleanupCountry \/ CleanupDrain
        \/ pc \in Work \cup {"scan", "k_end"}
        BY DEF Scanning, ScanBegins, ScanDown, ScanRead, ScanCountry, ScanMask, ScanUp, ScanDrain,
                   ScanOpen,
           Escan, ScanWait, ScanEnds, ScanCall, Work
  <2>2. QED BY <1>1, <1>2, <1>3, <1>4, <1>5, <1>6, <2>1

(* A step of a scan is its first, its last, or between the two. *)
LEMMA ScanPlaces == ASSUME Scanning PROVE ScanBegins \/ ScanEnds \/ pc \in Work \cup Cleaning
BY DEF Scanning, ScanDown, ScanRead, ScanCountry, ScanMask, ScanUp, ScanDrain, ScanOpen, Escan,
   ScanWait, ScanCall, Cleanup, CleanupDown, CleanupMask, CleanupCountry, CleanupCall,
   CleanupDrain, Work, Cleaning

(* No step of the worker is one of CywEvent. *)
LEMMA WorkerHands ==
    ASSUME LinkOK, Worker
    PROVE  ~link'.handling
<1> USE DEF LinkOK, Links
<1>1. ~link.handling BY DEF Worker
<1>2. CASE Take \/ Radio BY <1>1, <1>2 DEF Take, Radio
<1>3. ASSUME NEW fault \in BOOLEAN, WorkerEnds(fault) PROVE ~link'.handling
      BY <1>1, <1>3 DEF WorkerEnds, Unjoined
<1>4. CASE Connecting
  <2>1. CASE ConnectBegins \/ Advances BY <1>1, <2>1 DEF ConnectBegins, Advances, Unjoined
  <2>2. CASE ConnectFails BY <1>1, <2>2, FailureIs
  <2>3. CASE Publishes BY <1>1, <2>3 DEF Publishes
  <2>4. CASE \E r \in Replies : Disconnect(r) BY <1>1, <2>4 DEF Disconnect, Unjoined
  <2>5. QED BY <1>4, <2>1, <2>2, <2>3, <2>4, ConnectFrame
<1>5. CASE Scanning BY <1>1, <1>5, ScanFrame DEF Unjoined
<1>6. QED BY <1>2, <1>3, <1>4, <1>5 DEF Worker

(* Every step keeps the event in hand at the head of the FIFO. *)
LEMMA HandKept ==
    ASSUME TypeOK, SlotInv, HandInv, [Next]_vars
    PROVE  HandInv'
<1> USE TypesAre DEF HandInv
<1>1. CASE Firmware
  <2>1. UNCHANGED <<link, pc>> /\ \E e : Post(e)
        BY <1>1 DEF Firmware, Driver, FwLink, FwAuth, FwDeny, FwLoss, FwPartial, FwScanEnds
  <2>2. PICK e : Post(e) BY <2>1
  <2>3. fifo # <<>> => fifo' # <<>> /\ Head(fifo') = Head(fifo) BY <2>2 DEF Post, FifoOK
  <2>4. QED BY <2>1, <2>3
<1>2. CASE Receive BY <1>2, ReceiveIs DEF SlotInv
<1>3. CASE LinkEvent BY <1>3, LinkEventIs
<1>4. CASE Worker BY <1>4, WorkerHands
<1>5. CASE Ioctl \/ PowerDown
      BY <1>5 DEF Ioctl, Connect, RadioRefresh, ScanCancel, ScanAdmit, ScanStart, PowerDown
<1>6. ASSUME NEW on \in BOOLEAN, Pause(on) PROVE HandInv' BY <1>6 DEF Pause
<1>7. CASE PowerCycle BY <1>7 DEF PowerCycle, Unjoined, LinkOK, Links
<1>8. CASE UNCHANGED vars BY <1>8 DEF vars
<1>9. QED BY <1>1, <1>2, <1>3, <1>4, <1>5, <1>6, <1>7, <1>8 DEF Next

(* Every step keeps the link to the selection and to the scan. *)
LEMMA LinkKept ==
    ASSUME TypeOK, SlotInv, HandInv, LinkInv, DirtyInv, [Next]_vars
    PROVE  LinkInv'
<1> USE TypesAre DEF SlotInv, LinkInv, NOK, LinkOK, Links, Requests, ScanOK, PlaceOK, ScanSteps,
      ConnectSteps, Script
<1>0. CASE UNCHANGED <<link, scan, job, pc, good>> /\ n'.failed = n.failed BY <1>0
<1>1. CASE Firmware
  <2>1. UNCHANGED Driver
        BY <1>1 DEF Firmware, FwLink, FwAuth, FwDeny, FwLoss, FwPartial, FwScanEnds
  <2>2. QED BY <1>0, <2>1 DEF Driver
<1>2. ASSUME NEW op \in {"connect", "disconnect"}, Connect(op) PROVE LinkInv'
      BY <1>0, <1>2 DEF Connect
<1>3. CASE RadioRefresh \/ PowerDown \/ ScanAdmit
  <2>1. CASE RadioRefresh \/ PowerDown BY <1>0, <2>1 DEF RadioRefresh, PowerDown
  <2>2. CASE ScanAdmit BY <2>2 DEF ScanAdmit, MayScan
  <2>3. QED BY <1>3, <2>1, <2>2
<1>4. ASSUME NEW country \in Countries \ {"default"}, ScanStart(country) PROVE LinkInv'
      BY <1>4 DEF ScanStart, NewReport
<1>5. CASE ScanCancel
      BY <1>5 DEF ScanCancel, Quiesced, Withdrawn, Unqueued
<1>6. ASSUME NEW on \in BOOLEAN, Pause(on) PROVE LinkInv'
      BY <1>6 DEF Pause, Quiesced, Withdrawn, Unqueued
<1>7. CASE PowerCycle
      BY <1>7 DEF PowerCycle, ScanReset, Unjoined, NoJob
<1>8. CASE Take \/ Radio
      BY <1>8 DEF Take, Goto, Radio
<1>9. ASSUME NEW fault \in BOOLEAN, WorkerEnds(fault) PROVE LinkInv'
      BY <1>9 DEF WorkerEnds, Quiesced, Withdrawn, Unqueued, Goto, Unjoined
<1>10. CASE Receive \/ LinkEvent
  <2>1. /\ scan'.busy = scan.busy /\ scan'.admit = scan.admit
        /\ UNCHANGED <<n, good, pc, job>>
        BY <1>10 DEF Receive, LinkEvent, CywScanEvent
  <2>2. CASE Receive BY <2>1, <2>2, ReceiveIs
  <2>3. CASE LinkEvent
    <3>1. ~job.dirty BY <2>3 DEF LinkEvent, HandInv, DirtyInv
    <3>2. QED BY <2>1, <2>3, <3>1, LinkEventIs
  <2>4. QED BY <1>10, <2>2, <2>3
<1>11. CASE Connecting
  <2>1. ~scan.busy /\ ~scan.admit /\ UNCHANGED scan /\ ~job.dirty
        BY <1>11, ConnectFrame DEF DirtyInv
  <2>2. CASE Advances /\ pc \in Script
    <3>1. ~job'.dirty BY <2>1, <2>2 DEF Advances, JobOK
    <3>2. QED BY <2>1, <2>2, <3>1 DEF Advances, Unjoined
  <2>3. CASE ConnectBegins BY <2>1, <2>3 DEF ConnectBegins, Unjoined
  <2>4. CASE ConnectFails
    <3>1. ~link'.media /\ link'.selecting /\ pc' = "loop" BY <2>4, FailureIs
    <3>2. job' = NoJob BY <2>4, FailureIs
    <3>3. ~job'.dirty BY <3>2 DEF NoJob
    <3>4. QED BY <2>1, <3>1, <3>3
  <2>5. CASE Publishes BY <2>1, <2>5 DEF Publishes, Finish, Goto, NoJob
  <2>6. ASSUME NEW r \in Replies, Disconnect(r) PROVE LinkInv'
        BY <2>1, <2>6 DEF Disconnect, Finish, Goto, Unjoined
  <2>7. QED BY <1>11, <2>2, <2>3, <2>4, <2>5, <2>6, ConnectFrame
<1>12. CASE Scanning
  <2>1. /\ link'.selecting = link.selecting /\ link'.media = link.media
        /\ (~link.assoc => ~link'.assoc) /\ (~link.auth => ~link'.auth)
        BY <1>12, ScanFrame DEF Unjoined
  <2>2. scan.busy /\ pc' \notin Script /\ n'.failed = n.failed
        BY <1>12, ScanFrame DEF ScanEnds, Goto
  <2>3. job'.dirty => ~link.assoc /\ ~link.auth
    <3>1. CASE ScanBegins
      <4> DEFINE j == [NoJob EXCEPT !.before = fw.country]
      <4>1. ~j.dirty BY DEF NoJob
      <4>2. \/ job' = [j EXCEPT !.status = "cancelled"] \/ job' = [j EXCEPT !.status = "failed"]
            \/ ~link.assoc /\ ~link.auth
            BY <3>1 DEF ScanBegins
      <4>3. [j EXCEPT !.status = "cancelled"].dirty = j.dirty
            /\ [j EXCEPT !.status = "failed"].dirty = j.dirty
            BY DEF NoJob
      <4>4. QED BY <4>1, <4>2, <4>3
    <3>2. CASE ScanEnds BY <3>2 DEF ScanEnds, NoJob
    <3>3. CASE pc \in Work BY <1>12, <3>3, WorkedIs DEF Worked
    <3>4. CASE pc \in Cleaning BY <1>12, <3>4, CleanedIs DEF Cleaned
    <3>5. QED BY <1>12, <3>1, <3>2, <3>3, <3>4, ScanPlaces
  <2>4. link.media => UNCHANGED link
    <3>1. pc = "s_down" => job.dirty BY DEF DirtyInv
    <3>2. QED BY <1>12, <3>1, ScanFrame
  <2>5. QED BY <2>1, <2>2, <2>3, <2>4
<1>13. CASE UNCHANGED vars BY <1>13 DEF vars
<1> QED BY <1>1, <1>2, <1>3, <1>4, <1>5, <1>6, <1>7, <1>8, <1>9, <1>10, <1>11, <1>12, <1>13 DEF
      Next, Worker, Ioctl

-----------------------------------------------------------------------------
(* The control flow of a connect, and what each step of it that goes on     *)
(* does to the firmware and to the link.                                    *)
Same == UNCHANGED <<fw, link>>
Flow ==
    \/ pc = "connect" /\ pc' = "down" /\ UNCHANGED fw
         /\ link' = [Unjoined(link) EXCEPT !.selecting = TRUE, !.media = FALSE]
    \/ pc = "down" /\ pc' = "setup" /\ fifo = <<>> /\ fw' = RadioDown(fw)
         /\ link' = Unjoined(link)
    \/ pc = "setup" /\ pc' = "up" /\ fw' = [fw EXCEPT !.country = "home"] /\ UNCHANGED link
    \/ pc = "up" /\ pc' = "prefer" /\ fw' = [fw EXCEPT !.up = TRUE] /\ UNCHANGED link
    \/ pc = "prefer" /\ pc' = "join" /\ fw' = [fw EXCEPT !.pref = TRUE]
         /\ link' = Unjoined(link)
    \/ pc = "prefer" /\ pc' = "legacy" /\ ~fw.pref /\ Same
    \/ pc = "join" /\ pc' \in {"wait", "restore"} /\ fw' \in {fw, Joined(fw)} /\ UNCHANGED link
    \/ pc \in {"wait", "verify"} /\ pc' \in {"verify", "restore"} /\ Same
    \/ pc = "restore" /\ pc' \in {"verify2", "disassoc"} /\ fw' = [fw EXCEPT !.pref = FALSE]
         /\ UNCHANGED link
    \/ pc = "verify2" /\ pc' = "disassoc" /\ Same
    \/ pc = "disassoc" /\ pc' = "join2" /\ fifo = <<>> /\ link' = Unjoined(link)
         /\ \/ fw.assoc /\ fw' = [fw EXCEPT !.join = FALSE, !.assoc = FALSE, !.auth = FALSE]
            \/ ~fw.assoc /\ UNCHANGED fw
    \/ pc = "join2" /\ pc' = "wait2" /\ fw' = Joined(fw) /\ UNCHANGED link
    \/ pc = "wait2" /\ pc' = "verify3" /\ Same
    \/ pc \in {"verify2", "verify3"} /\ pc' = "publish" /\ fw.auth /\ fifo = <<>> /\ Same

(* A connect that goes on follows its script. *)
LEMMA FlowIs == ASSUME Connecting, pc' \in Script PROVE Flow
<1> USE DEF Flow, Same, Goto
<1>1. CASE ConnectFails BY <1>1, FailureIs DEF Script, ConnectSteps
<1>2. ASSUME NEW r \in Replies, Disconnect(r) \/ LegacyJoin(r) PROVE Flow
      BY <1>1, <1>2 DEF Disconnect, LegacyJoin, Finish, Script, ConnectSteps
<1>3. ASSUME ConnectBegins PROVE Flow
      BY <1>1, <1>3 DEF ConnectBegins, Goto
<1>4. ASSUME NEW r \in Replies, ConnectDown(r) \/ ConnectSetup(r) \/ ConnectUp(r) PROVE Flow
      BY <1>1, <1>4 DEF ConnectDown, Step, Reply, Goto, ConnectSetup, ConnectUp
<1>5. ASSUME NEW r \in Replies, BandJoinAgain(r) PROVE Flow
      BY <1>1, <1>5 DEF BandJoinAgain, Step, Reply, Goto
<1>6. ASSUME NEW r \in Replies, ConnectPrefer(r) PROVE Flow
      BY <1>1, <1>6 DEF ConnectPrefer, Reply, Goto
<1>7. ASSUME NEW r \in Replies, BandJoin(r) PROVE Flow
      BY <1>1, <1>7 DEF BandJoin, Reply, Goto, TryFallback
<1>8. ASSUME NEW r \in Replies, BandRestore(r) \/ BandDisassoc(r) PROVE Flow
      BY <1>1, <1>8 DEF BandRestore, Reply, Unpreferred, Goto, BandDisassoc
<1>9. ASSUME BandWait("wait", "verify") \/ BandWait("wait2", "verify3") PROVE Flow
      BY <1>1, <1>9 DEF BandWait, Goto, TryFallback
<1>10. ASSUME NEW usable \in BOOLEAN, BandVerify(usable) PROVE Flow
      BY <1>1, <1>10 DEF BandVerify, VerifiedLink, Goto, TryFallback
<1>11. ASSUME BandVerifyAgain \/ BandVerifyLast PROVE Flow
      BY <1>1, <1>11 DEF BandVerifyAgain, VerifiedLink, Goto, BandVerifyLast
<1>12. CASE BandPublish BY <1>1, <1>12 DEF BandPublish, Finish, Script, ConnectSteps
<1> QED BY <1>2, <1>3, <1>4, <1>5, <1>6, <1>7, <1>8, <1>9, <1>10, <1>11, <1>12 DEF Connecting

(* Every step keeps a link of the firmware to a join. *)
LEMMA JoinKept ==
    ASSUME TypeOK, JoinInv, [Next]_vars
    PROVE  JoinInv'
<1> USE TypesAre DEF JoinInv, FwOK, NOK, Requests, PlaceOK, ScanSteps, ConnectSteps
<1>1. CASE FwLink \/ FwAuth \/ FwDeny \/ FwLoss \/ FwPartial
      BY <1>1 DEF FwLink, Driver, FwAuth, FwDeny, FwLoss, FwPartial
<1>2. ASSUME NEW tagged \in BOOLEAN, NEW ok \in BOOLEAN, FwScanEnds(tagged, ok) PROVE JoinInv'
      BY <1>2 DEF FwScanEnds, Driver
<1>3. ASSUME NEW op \in {"connect", "disconnect"}, Connect(op) PROVE JoinInv'
      BY <1>3 DEF Connect
<1>4. CASE RadioRefresh \/ ScanCancel \/ ScanAdmit \/ PowerDown \/ Receive \/ LinkEvent
      BY <1>4 DEF RadioRefresh, ScanCancel, ScanAdmit, PowerDown, Receive, LinkEvent
<1>5. ASSUME NEW country \in Countries \ {"default"}, ScanStart(country) PROVE JoinInv'
      BY <1>5 DEF ScanStart
<1>6. ASSUME NEW on \in BOOLEAN, Pause(on) PROVE JoinInv'
      BY <1>6 DEF Pause
<1>7. CASE Take \/ Radio
      BY <1>7 DEF Take, Goto, Radio
<1>8. ASSUME NEW fault \in BOOLEAN, WorkerEnds(fault) PROVE JoinInv'
      BY <1>8 DEF WorkerEnds, Goto
<1>9. CASE PowerCycle
      BY <1>9 DEF PowerCycle, FirmwareReset
<1>10. CASE Connecting \/ Scanning
  <2>1. (fw'.auth => fw'.assoc) /\ (fw'.assoc => fw'.join)
    <3>1. Commands BY <1>10, CommandIs
    <3>2. CASE fw' = RadioDown(fw) BY <3>2 DEF RadioDown
    <3>3. CASE fw' = Joined(fw) BY <3>3 DEF Joined
    <3>4. QED BY <3>1, <3>2, <3>3 DEF Commands
  <2>2. pc' \in {"setup", "up", "prefer", "legacy", "join"} => ~fw'.join
    <3>1. CASE Scanning
          BY <3>1, ScanFrame DEF ScanEnds, Goto
    <3>2. CASE Connecting
          BY <3>2, FlowIs DEF Flow, Same, RadioDown, Script
    <3>3. QED BY <1>10, <3>1, <3>2
  <2>3. QED BY <2>1, <2>2
<1>11. CASE UNCHANGED vars BY <1>11 DEF vars
<1> QED BY <1>1, <1>2, <1>3, <1>4, <1>5, <1>6, <1>7, <1>8, <1>9, <1>10, <1>11 DEF Next, Worker,
      Firmware, Ioctl

-----------------------------------------------------------------------------
(* An event leaves the FIFO: dropped, fed to the scan, or applied. *)
Taken == fifo # <<>> /\ fifo' = Tail(fifo)

(* CywEvent takes one, or only has it in hand. *)
LEMMA EventFrame ==
    ASSUME LinkOK, HandInv, Receive \/ LinkEvent
    PROVE  /\ UNCHANGED <<n, good, fw, pc, job>>
           /\ Taken \/ (Receive /\ UNCHANGED <<scan, fifo>>)
<1>1. CASE Receive BY <1>1, ReceiveIs DEF Taken
<1>2. CASE LinkEvent BY <1>2 DEF LinkEvent, HandInv, Taken
<1>3. QED BY <1>1, <1>2

(* The events behind the one that is taken. *)
LEMMA TakenIs ==
    ASSUME FifoOK, Taken
    PROVE  /\ Len(fifo) \in Nat /\ 1 \in 1..Len(fifo) /\ Head(fifo) = fifo[1]
           /\ Len(fifo') = Len(fifo) - 1
           /\ \A i \in 1..Len(fifo') : i + 1 \in 1..Len(fifo) /\ fifo'[i] = fifo[i + 1]
BY DEF FifoOK, Taken

(* The events before the one that is sent. *)
LEMMA PostedIs ==
    ASSUME FifoOK, NEW e, Post(e)
    PROVE  /\ Len(fifo) \in Nat /\ Len(fifo') = Len(fifo) + 1 /\ fifo'[Len(fifo) + 1] = e
           /\ \A i \in 1..Len(fifo) : fifo'[i] = fifo[i]
BY DEF FifoOK, Post

(* Every step keeps the preference away from a published link. *)
LEMMA PreferenceKept ==
    ASSUME TypeOK, HandInv, LinkInv, SlotInv, PrefInv, [Next]_vars
    PROVE  PrefInv'
<1> USE TypesAre DEF PrefInv, LinkInv, FwOK, LinkOK, Links, NOK, Requests, PlaceOK, ScanSteps,
      ConnectSteps, Script
<1>1. CASE FwLink \/ FwAuth \/ FwDeny \/ FwLoss
  <2>1. ~Quiet BY <1>1 DEF FwLink, FwAuth, FwDeny, FwLoss, Quiet
  <2>2. fw'.pref = fw.pref /\ UNCHANGED <<good, link, pc>>
        BY <1>1 DEF FwLink, FwAuth, FwDeny, FwLoss, Driver
  <2>3. QED BY <2>1, <2>2
<1>2. CASE FwPartial
  <2>1. PICK e : e.kind # "LINK" /\ Post(e)
        BY <1>2 DEF FwPartial, FwScanEnds
  <2>2. Quiet => \A i \in 1..Len(fifo') : fifo'[i].kind # "LINK"
        BY <2>1, PostedIs DEF Quiet
  <2>3. QED BY <1>2, <2>2 DEF FwPartial, FwScanEnds, Driver, Quiet
<1>3. ASSUME NEW tagged \in BOOLEAN, NEW ok \in BOOLEAN, FwScanEnds(tagged, ok) PROVE PrefInv'
  <2>1. PICK e : e.kind # "LINK" /\ Post(e)
        BY <1>3 DEF FwPartial, FwScanEnds
  <2>2. Quiet => \A i \in 1..Len(fifo') : fifo'[i].kind # "LINK"
        BY <2>1, PostedIs DEF Quiet
  <2>3. QED BY <1>3, <2>2 DEF FwPartial, FwScanEnds, Driver, Quiet
<1>4. ASSUME NEW op \in {"connect", "disconnect"}, Connect(op) PROVE PrefInv'
      BY <1>4 DEF Connect, Quiet
<1>5. CASE RadioRefresh \/ ScanCancel \/ ScanAdmit \/ PowerDown
      BY <1>5 DEF RadioRefresh, ScanCancel, ScanAdmit, PowerDown, Quiet
<1>6. ASSUME NEW country \in Countries \ {"default"}, ScanStart(country) PROVE PrefInv'
      BY <1>6 DEF ScanStart, Quiet
<1>7. ASSUME NEW on \in BOOLEAN, Pause(on) PROVE PrefInv'
      BY <1>7 DEF Pause, Quiet
<1>8. CASE Take \/ Radio
      BY <1>8 DEF Take, Goto, Radio, Quiet
<1>9. ASSUME NEW fault \in BOOLEAN, WorkerEnds(fault) PROVE PrefInv'
      BY <1>9 DEF WorkerEnds, Unjoined, Goto, Quiet
<1>10. CASE PowerCycle
      BY <1>10 DEF PowerCycle, FirmwareReset, Quiet
<1>11. CASE Receive \/ LinkEvent
  <2>1. UNCHANGED <<n, good, fw, pc, job>> /\ (Taken \/ UNCHANGED fifo)
        BY <1>11, EventFrame
  <2>2. /\ link'.selecting = link.selecting
        /\ ~link.assoc /\ link'.assoc => LinkEvent /\ Head(fifo).kind = "LINK"
        BY <1>11, ReceiveIs, LinkEventIs
  <2>3. Quiet => Quiet'
    <3>1. CASE Taken BY <2>1, <2>2, <3>1, TakenIs DEF Quiet
    <3>2. CASE UNCHANGED fifo
      <4>1. ~LinkEvent
        <5>1. LinkEvent => Taken BY DEF LinkEvent, HandInv, Taken
        <5>2. Taken => fifo' # fifo BY TakenIs
        <5>3. QED BY <3>2, <5>1, <5>2
      <4>2. QED BY <2>1, <2>2, <3>2, <4>1 DEF Quiet
    <3>3. QED BY <2>1, <3>1, <3>2
  <2>4. QED BY <2>1, <2>2, <2>3
<1>12. CASE Connecting
  <2>1. (pc' \in {"legacy", "verify2", "disassoc", "join2", "wait2", "verify3", "publish"}
          => ~fw'.pref)
        BY <1>12, FlowIs DEF Flow, Same, Joined
  <2>2. CASE Advances /\ pc \in Script BY <2>1, <2>2 DEF Advances, Unjoined
  <2>3. CASE ConnectBegins BY <2>1, <2>3 DEF ConnectBegins, Unjoined
  <2>4. CASE ConnectFails BY <2>1, <2>4, FailureIs
  <2>5. CASE Publishes
    <3>1. ~fw'.pref BY <1>12, <2>5, CommandIs DEF Publishes, Commands, Joined
    <3>2. QED BY <2>1, <3>1
  <2>6. ASSUME NEW r \in Replies, Disconnect(r) PROVE PrefInv'
    <3>1. CASE r = "ok"
      <4>1. fifo' = <<>> /\ fw' = RadioDown(fw) /\ ~link'.assoc
            BY <2>6, <3>1 DEF Disconnect, Unjoined, Reply
      <4>2. Len(fifo') = 0 BY <4>1
      <4>3. Quiet' BY <4>1, <4>2 DEF RadioDown, Quiet
      <4>4. QED BY <2>1, <4>3
    <3>2. CASE r # "ok" BY <2>1, <2>6, <3>2 DEF Disconnect, Finish
    <3>3. QED BY <3>1, <3>2
  <2>7. QED BY <1>12, <2>2, <2>3, <2>4, <2>5, <2>6, ConnectFrame
<1>13. CASE Scanning
  <2>1. link'.selecting = link.selecting /\ (~link.assoc => ~link'.assoc)
        BY <1>13, ScanFrame DEF Unjoined
  <2>2. /\ good' => good
        /\ pc \in ScanSteps /\ pc' \in ScanSteps \cup {"loop"}
        BY <1>13, ScanFrame DEF ScanEnds, Goto
  <2>3. /\ fw'.pref = fw.pref /\ (~fw.join => ~fw'.join) /\ (~fw.assoc => ~fw'.assoc)
        /\ UNCHANGED fifo
    <3>1. Commands /\ UNCHANGED fifo BY <1>13, CommandIs
    <3>2. CASE fw' = RadioDown(fw) BY <3>1, <3>2 DEF RadioDown
    <3>3. CASE fw' # RadioDown(fw) BY <2>2, <3>1, <3>3 DEF Commands
    <3>4. QED BY <3>2, <3>3
  <2>4. QED BY <2>1, <2>2, <2>3 DEF Quiet
<1>14. CASE UNCHANGED vars BY <1>14 DEF vars, Quiet
<1> QED BY <1>1, <1>2, <1>3, <1>4, <1>5, <1>6, <1>7, <1>8, <1>9, <1>10, <1>11, <1>12, <1>13,
      <1>14 DEF Next, Worker, Firmware, Ioctl

-----------------------------------------------------------------------------
(* The steps outside the scripts, events and power cycles apart. *)
Plain ==
    \/ Ioctl \/ PowerDown \/ Take \/ Radio
    \/ \E on \in BOOLEAN : Pause(on)
    \/ \E fault \in BOOLEAN : WorkerEnds(fault)

(* They do nothing to the firmware and open nothing. *)
LEMMA PlainFrame ==
    ASSUME TypeOK, Plain
    PROVE  /\ UNCHANGED <<fw, fifo, job>>
           /\ good' => good
           /\ n'.ready => n.ready
           /\ \/ UNCHANGED link
              \/ link' = [Unjoined(link) EXCEPT !.media = FALSE]
           /\ \/ UNCHANGED pc
              \/ /\ pc \in {"loop", "radio"}
                 /\ pc' \in {"loop", "gone", "radio", "connect", "disconnect", "scan"}
           /\ scan'.entries = {} \/ (scan'.entries = scan.entries /\ scan'.gen = scan.gen)
           /\ scan'.accept => scan.accept /\ scan'.gen = scan.gen
<1> DEFINE Goal ==
           /\ UNCHANGED <<fw, fifo, job>>
           /\ good' => good
           /\ n'.ready => n.ready
           /\ \/ UNCHANGED link
              \/ link' = [Unjoined(link) EXCEPT !.media = FALSE]
           /\ \/ UNCHANGED pc
              \/ /\ pc \in {"loop", "radio"}
                 /\ pc' \in {"loop", "gone", "radio", "connect", "disconnect", "scan"}
           /\ scan'.entries = {} \/ (scan'.entries = scan.entries /\ scan'.gen = scan.gen)
           /\ scan'.accept => scan.accept /\ scan'.gen = scan.gen
<1> USE TypesAre DEF NOK, ScanOK, Requests
<1>1. ASSUME NEW op \in {"connect", "disconnect"}, Connect(op) PROVE Goal
      BY <1>1 DEF Connect
<1>2. ASSUME RadioRefresh \/ ScanAdmit PROVE Goal
      BY <1>2 DEF RadioRefresh, ScanAdmit
<1>3. ASSUME PowerDown PROVE Goal
      BY <1>3 DEF PowerDown
<1>4. ASSUME Radio PROVE Goal
      BY <1>4 DEF Radio, Goto
<1>5. ASSUME NEW country \in Countries \ {"default"}, ScanStart(country) PROVE Goal
      BY <1>5 DEF ScanStart, NewReport
<1>6. ASSUME ScanCancel PROVE Goal
      BY <1>6 DEF ScanCancel, Quiesced, Withdrawn, Unqueued
<1>7. ASSUME NEW on \in BOOLEAN, Pause(on) PROVE Goal
      BY <1>7 DEF Pause, Quiesced, Withdrawn, Unqueued
<1>8. ASSUME Take PROVE Goal
      BY <1>8 DEF Take, Goto
<1>9. ASSUME NEW fault \in BOOLEAN, WorkerEnds(fault) PROVE Goal
      BY <1>9 DEF WorkerEnds, Quiesced, Withdrawn, Unqueued, Goto
<1> QED BY <1>1, <1>2, <1>3, <1>4, <1>5, <1>6, <1>7, <1>8, <1>9 DEF Plain, Ioctl

-----------------------------------------------------------------------------
(* The control flow of a scan up to its results. *)
Order ==
    /\ pc' = "s_down" => pc = "scan"
    /\ pc' = "s_drain" => pc = "s_down" /\ fw' = RadioDown(fw) /\ fifo = <<>>
    /\ pc' = "s_read" => pc = "s_drain"
    /\ pc' = "s_country" => pc = "s_read"
    /\ pc' = "s_mask" => pc \in {"s_read", "s_country"}
    /\ pc' = "s_up" => pc = "s_mask"
    /\ pc' = "s_drain2" => pc = "s_up"
    /\ pc' = "s_open" => pc = "s_drain2"
    /\ pc' = "escan" => pc = "s_open"
    /\ pc \in {"escan", "s_wait"} => pc' \in {"s_wait", "cleanup"}
    /\ pc = "cleanup" => pc' \in {"k_down", "k_end"} /\ ~scan'.accept
(* A scan opens its window only behind a DOWN that was answered. *)
LEMMA OrderIs == ASSUME Scanning, ScanOK PROVE Order
<1> USE DEF Order, Goto
<1>1. CASE ScanBegins
      BY <1>1 DEF ScanBegins, Goto
<1>2. CASE ScanDown \/ ScanDrain("s_drain", "s_read")
      BY <1>2 DEF ScanDown, ScanCall, ScanCheckFails, ScanLeaves, Goto, Replies, Reply,
         ScanDrain
<1>3. CASE ScanRead
      BY <1>3 DEF ScanRead, ScanCall, ScanCheckFails, ScanLeaves, Goto, Replies
<1>4. CASE ScanCountry
      BY <1>4 DEF ScanCountry, ScanCheckFails, ScanLeaves, Goto, Replies
<1>5. CASE ScanMask \/ ScanUp \/ ScanDrain("s_drain2", "s_open")
      BY <1>5 DEF ScanMask, ScanCall, ScanCheckFails, ScanLeaves, Goto, Replies, ScanUp,
         ScanDrain
<1>6. CASE ScanOpen \/ Escan \/ ScanWait
      BY <1>6 DEF ScanOpen, ScanCheckFails, ScanLeaves, Goto, Escan, ScanCall, Replies, ScanWait
<1>7. CASE Cleanup
      BY <1>7 DEF Cleanup, Goto, ScanOK
<1>8. CASE CleanupDown \/ CleanupMask
      BY <1>8 DEF CleanupDown, CleanupCall, Replies, Goto, CleanupMask
<1>9. CASE CleanupCountry \/ CleanupDrain \/ ScanEnds
      BY <1>9 DEF CleanupCountry, CleanupCall, Replies, Goto, CleanupDrain, ScanEnds
<1> QED BY <1>1, <1>2, <1>3, <1>4, <1>5, <1>6, <1>7, <1>8, <1>9 DEF Scanning

(* The firmware tells only of the scan it runs. *)
LEMMA ToldOfOwn ==
    ASSUME TypeOK, Firmware, NEW gens, 0 \in gens, OnlyOf(gens)
    PROVE  OnlyOf(gens)'
<1> USE TypesAre DEF FwOK
<1>1. ASSUME NEW e, Post(e), e.kind \in {"PARTIAL", "DONE"} => e.of \in gens
      PROVE  \A i \in 1..Len(fifo') :
                fifo'[i].kind \in {"PARTIAL", "DONE"} => fifo'[i].of \in gens
      BY <1>1, PostedIs DEF OnlyOf
<1>2. CASE FwLink \/ FwAuth \/ FwDeny \/ FwLoss
  <2>1. fw'.scan = fw.scan BY <1>2 DEF FwLink, FwAuth, FwDeny, FwLoss
  <2>2. PICK e : Post(e) /\ e.kind \notin {"PARTIAL", "DONE"}
        BY <1>2 DEF FwLink, FwAuth, FwDeny, FwLoss
  <2>3. QED BY <1>1, <2>1, <2>2 DEF OnlyOf
<1>3. CASE FwPartial
  <2>1. PICK e : Post(e) /\ e.of = fw.scan /\ e.kind = "PARTIAL" BY <1>3 DEF FwPartial
  <2>2. QED BY <1>1, <1>3, <2>1 DEF OnlyOf, FwPartial
<1>4. ASSUME NEW tagged \in BOOLEAN, NEW ok \in BOOLEAN, FwScanEnds(tagged, ok)
      PROVE  OnlyOf(gens)'
  <2>1. PICK e : Post(e) /\ e.of = fw.scan /\ e.kind = "DONE" BY <1>4 DEF FwScanEnds
  <2>2. fw'.scan = 0 BY <1>4 DEF FwScanEnds
  <2>3. QED BY <1>1, <2>1, <2>2 DEF OnlyOf
<1>5. QED BY <1>2, <1>3, <1>4 DEF Firmware

(* Nor does taking an event, or a step that leaves both alone, add any. *)
LEMMA OthersAddNone ==
    ASSUME TypeOK, NEW gens, OnlyOf(gens), UNCHANGED fw, Taken \/ UNCHANGED fifo
    PROVE  OnlyOf(gens)'
<1>1. CASE Taken BY <1>1, TypesAre, TakenIs DEF OnlyOf
<1>2. CASE UNCHANGED fifo BY <1>2 DEF OnlyOf
<1>3. QED BY <1>1, <1>2

(* Every step keeps the scan's list to its own generation. *)
LEMMA FreshKept ==
    ASSUME TypeOK, SlotInv, HandInv, FreshInv, [Next]_vars
    PROVE  FreshInv'
<1> USE TypesAre DEF SlotInv, FreshInv, ScanOK, FwOK, NOK, PlaceOK, Requests, ScanSteps,
      ConnectSteps
<1>1. CASE Firmware
  <2>1. UNCHANGED <<scan, pc>> BY <1>1 DEF Firmware, Driver, FwLink, FwAuth, FwDeny, FwLoss,
           FwPartial, FwScanEnds
  <2>2. PICK g : g = scan.gen OBVIOUS
  <2>3. OnlyOf({0}) => OnlyOf({0})' BY <1>1, ToldOfOwn
  <2>4. OnlyOf({0, g}) => OnlyOf({0, g})' BY <1>1, ToldOfOwn
  <2>5. QED BY <2>1, <2>2, <2>3, <2>4
<1>2. CASE Plain
  <2>1. UNCHANGED <<fw, fifo>> BY <1>2, PlainFrame
  <2>2. PICK g : g = scan.gen OBVIOUS
  <2>3. (OnlyOf({0}) => OnlyOf({0})') /\ (OnlyOf({0, g}) => OnlyOf({0, g})')
        BY <2>1, OthersAddNone
  <2>4. QED BY <1>2, <2>2, <2>3, PlainFrame
<1>3. CASE PowerCycle
      BY <1>3 DEF PowerCycle, ScanReset
<1>4. CASE Receive \/ LinkEvent
  <2>1. /\ UNCHANGED <<pc, fw>> /\ scan'.gen = scan.gen /\ scan'.accept = scan.accept
        /\ Taken \/ UNCHANGED fifo
    <3>1. scan'.gen = scan.gen /\ scan'.accept = scan.accept
          BY <1>4 DEF Receive, LinkEvent, CywScanEvent
    <3>2. QED BY <1>4, <3>1, EventFrame
  <2>2. PICK g : g = scan.gen OBVIOUS
  <2>3. OnlyOf({0}) => OnlyOf({0})' BY <2>1, OthersAddNone
  <2>4. OnlyOf({0, g}) => OnlyOf({0, g})' BY <2>1, OthersAddNone
  <2>5. scan'.entries \subseteq {g}
    <3>1. CASE scan'.entries # scan.entries
      <4> DEFINE e == Head(fifo)
      <4>1. e \in Events /\ e = fifo[1] /\ 1 \in 1..Len(fifo)
            BY <1>4, <3>1 DEF Receive, LinkEvent, FifoOK
      <4>2. scan' = CywScanEvent(e) /\ e.kind \in {"PARTIAL", "DONE"}
            BY <1>4, <3>1 DEF Receive, LinkEvent
      <4> HIDE DEF e
      <4>3. e.kind = "PARTIAL" /\ scan.accept /\ scan'.entries = scan.entries \cup {e.of}
            BY <3>1, <4>1, <4>2 DEF CywScanEvent, Accepts
      <4>4. e.of \in {0, g} BY <2>2, <4>1, <4>3 DEF OnlyOf
      <4>5. e.of = g BY <4>1, <4>3, <4>4, EventIs
      <4>6. QED BY <2>2, <4>3, <4>5
    <3>2. QED BY <2>2, <3>1
  <2>6. QED BY <2>1, <2>2, <2>3, <2>4, <2>5
<1>5. CASE Connecting
  <2>1. UNCHANGED scan /\ ~scan.accept BY <1>5, ConnectFrame
  <2>2. pc' \in ConnectSteps \cup {"loop"}
        BY <1>5, ConnectFrame, FailureIs
           DEF ConnectBegins, Disconnect, Advances, Publishes, Finish, Goto, Script
  <2>3. QED BY <2>1, <2>2
<1>6. CASE Scanning
  <2>1. Commands /\ UNCHANGED fifo /\ Order BY <1>6, CommandIs, OrderIs
  <2>2. scan'.gen = scan.gen /\ scan'.entries \subseteq scan.entries
    <3>1. CASE ScanEnds BY <3>1 DEF ScanEnds
    <3>2. CASE ScanChanges BY <3>2 DEF ScanChanges
    <3>3. QED BY <1>6, <3>1, <3>2, ScanFrame
  <2>3. scan'.accept => scan.accept \/ pc' = "escan"
        BY <1>6, ScanFrame DEF ScanChanges, ScanEnds
  <2>4. ASSUME pc' \in {"s_drain", "s_read", "s_country", "s_mask", "s_up", "s_drain2", "s_open"}
        PROVE  OnlyOf({0})'
    <3>1. CASE pc' = "s_drain"
      <4>1. fw' = RadioDown(fw) /\ fifo' = <<>> BY <2>1, <3>1 DEF Order
      <4>2. fw'.scan = 0 /\ Len(fifo') = 0 BY <4>1 DEF RadioDown
      <4>3. QED BY <4>2 DEF OnlyOf
    <3>2. CASE pc' # "s_drain"
      <4>1. OnlyOf({0}) /\ pc \notin {"s_down", "k_down", "escan", "disconnect", "down"}
            BY <2>1, <2>4, <3>2 DEF Order
      <4>2. fw'.scan = fw.scan BY <2>1, <4>1 DEF Commands, Joined
      <4>3. QED BY <2>1, <4>1, <4>2 DEF OnlyOf
    <3>3. QED BY <3>1, <3>2
  <2>5. ASSUME scan'.accept
        PROVE  pc' \in {"escan", "s_wait", "cleanup"} /\ OnlyOf({0, scan.gen})'
    <3>1. pc \in {"s_open", "escan", "s_wait"} /\ pc' \in {"escan", "s_wait", "cleanup"}
          BY <2>1, <2>3, <2>5 DEF Order
    <3>2. OnlyOf({0, scan.gen})
      <4>1. OnlyOf({0}) => OnlyOf({0, scan.gen}) BY DEF OnlyOf
      <4>2. pc' = "escan" => pc = "s_open" BY <2>1 DEF Order
      <4>3. QED BY <2>3, <2>5, <4>1, <4>2
    <3>3. fw'.scan \in {fw.scan, scan.gen} BY <2>1, <3>1 DEF Commands
    <3>4. QED BY <2>1, <2>2, <3>1, <3>2, <3>3 DEF OnlyOf
  <2>6. QED BY <2>2, <2>4, <2>5
<1>7. CASE UNCHANGED vars BY <1>7 DEF vars, OnlyOf
<1> QED BY <1>1, <1>2, <1>3, <1>4, <1>5, <1>6, <1>7 DEF Next, Worker, Plain

-----------------------------------------------------------------------------
(* A step that adds no authorization of the driver's and takes none from    *)
(* the firmware, and one behind which nothing is left in flight.            *)
Keeps ==
    /\ ~Doubtful /\ UNCHANGED fifo /\ (fw.auth => fw'.auth)
    /\ link'.auth => link.auth /\ (link.missed => link'.missed)
Clears == fifo' = <<>> /\ ~link'.auth

(* Both keep the view of the driver true. *)
LEMMA KeepsAuth == ASSUME AuthInv, Keeps \/ Clears PROVE AuthInv'
<1>1. CASE Keeps
  <2>1. \A i \in Nat : Revoked(i) => Revoked(i)' BY <1>1 DEF Keeps, Revoked
  <2>2. QED BY <1>1, <2>1 DEF Keeps, AuthInv
<1>2. CASE Clears
  <2>1. Len(fifo') = 0 BY <1>2 DEF Clears
  <2>2. QED BY <1>2, <2>1 DEF Clears, AuthInv
<1>3. QED BY <1>1, <1>2

(* The firmware takes the link back with an event behind all others. *)
LEMMA FirmwareAuth == ASSUME TypeOK, AuthInv, Firmware PROVE AuthInv'
<1> USE TypesAre DEF FwOK
<1>1. UNCHANGED Driver BY DEF Firmware, FwLink, FwAuth, FwDeny, FwLoss, FwPartial, FwScanEnds
<1>2. Doubtful' <=> Doubtful BY <1>1 DEF Driver, Doubtful
<1>3. PICK e : /\ Post(e)
               /\ \/ fw'.auth /\ e.kind = "PSK"
                  \/ e.kind \in {"LOSS", "DENY"}
                  \/ fw'.auth = fw.auth /\ e.kind \in {"LINK", "PARTIAL", "DONE"}
  <2>1. CASE FwLink \/ FwPartial BY <2>1 DEF FwLink, FwPartial
  <2>2. CASE FwAuth
    <3>1. fw'.auth /\ Post([kind |-> "PSK"]) BY <2>2 DEF FwAuth
    <3>2. PICK e : e.kind = "PSK" /\ Post(e) BY <3>1
    <3>3. QED BY <3>1, <3>2
  <2>3. CASE FwDeny \/ FwLoss BY <2>3 DEF FwDeny, FwLoss
  <2>4. ASSUME NEW tagged \in BOOLEAN, NEW ok \in BOOLEAN, FwScanEnds(tagged, ok)
        PROVE  \E e : /\ Post(e)
                      /\ fw'.auth = fw.auth /\ e.kind \in {"LINK", "PARTIAL", "DONE"}
        BY <2>4 DEF FwScanEnds
  <2>5. QED BY <2>1, <2>2, <2>3, <2>4 DEF Firmware
<1>4. /\ Len(fifo) \in Nat /\ Len(fifo') = Len(fifo) + 1 /\ fifo'[Len(fifo) + 1] = e
      /\ \A i \in 1..Len(fifo) : fifo'[i] = fifo[i]
      BY <1>3, PostedIs
<1>5. \A i \in Nat : Revoked(i) => Revoked(i)' BY <1>4 DEF Revoked
<1>6. CASE fw'.auth BY <1>6 DEF AuthInv
<1>7. CASE e.kind \in {"LOSS", "DENY"}
  <2>1. \A i \in 0..Len(fifo) : Revoked(i)' BY <1>4, <1>7 DEF Revoked
  <2>2. \A i \in 1..Len(fifo') : fifo'[i].kind = "PSK" => i \in 1..Len(fifo) BY <1>4, <1>7
  <2>3. QED BY <1>4, <2>1, <2>2 DEF AuthInv
<1>8. CASE fw'.auth = fw.auth /\ e.kind \in {"LINK", "PARTIAL", "DONE"}
  <2>1. \A i \in 1..Len(fifo') : fifo'[i].kind = "PSK" => i \in 1..Len(fifo) BY <1>4, <1>8
  <2>2. UNCHANGED link BY <1>1 DEF Driver
  <2>3. QED BY <1>2, <1>4, <1>5, <1>8, <2>1, <2>2 DEF AuthInv
<1>9. QED BY <1>3, <1>6, <1>7, <1>8

(* Taking an event moves the others up, and one that takes the link back is *)
(* applied or remembered.                                                   *)
LEMMA EventAuth == ASSUME TypeOK, HandInv, AuthInv, Receive \/ LinkEvent PROVE AuthInv'
<1> USE TypesAre DEF FwOK, LinkOK, Links
<1>1. UNCHANGED <<fw, good, pc, job>> BY EventFrame
<1>2. Doubtful' <=> Doubtful BY <1>1 DEF Doubtful
<1>3. SUFFICES ASSUME ~Doubtful PROVE AuthInv' BY <1>2 DEF AuthInv
<1>4. CASE Receive /\ UNCHANGED fifo
  <2>1. link'.auth = link.auth /\ (link.missed => link'.missed) BY <1>4, ReceiveIs
  <2>2. Keeps BY <1>1, <1>3, <1>4, <2>1 DEF Keeps
  <2>3. QED BY <2>2, KeepsAuth
<1>5. CASE Taken
  <2>1. /\ Len(fifo) \in Nat /\ 1 \in 1..Len(fifo) /\ Head(fifo) = fifo[1]
        /\ Len(fifo') = Len(fifo) - 1
        /\ \A i \in 1..Len(fifo') : i + 1 \in 1..Len(fifo) /\ fifo'[i] = fifo[i + 1]
        BY <1>5, TakenIs
  <2>2. ASSUME NEW i \in Nat, Revoked(i + 1) PROVE Revoked(i)'
    <3>1. PICK j \in 1..Len(fifo) : j > i + 1 /\ fifo[j].kind \in {"LOSS", "DENY"}
          BY <2>2 DEF Revoked
    <3>2. j - 1 \in 1..Len(fifo') /\ j - 1 > i /\ fifo'[j - 1] = fifo[j] BY <2>1, <3>1
    <3>3. QED BY <3>1, <3>2 DEF Revoked
  <2>3. ASSUME NEW i \in 1..Len(fifo'), fifo'[i].kind = "PSK" PROVE fw'.auth \/ Revoked(i)'
    <3>1. fw.auth \/ Revoked(i + 1) BY <1>3, <2>1, <2>3 DEF AuthInv
    <3>2. QED BY <1>1, <2>1, <2>2, <3>1
  <2>4. ASSUME link'.auth PROVE fw'.auth \/ Revoked(0)' \/ link'.missed
    <3>1. CASE LinkEvent /\ fifo[1].kind = "PSK"
      <4>1. fw.auth \/ Revoked(0 + 1) BY <1>3, <2>1, <3>1 DEF AuthInv
      <4>2. QED BY <1>1, <2>2, <4>1
    <3>2. CASE ~(LinkEvent /\ fifo[1].kind = "PSK")
      <4>1. /\ link.auth /\ (link.missed => link'.missed)
            /\ fifo[1].kind \in {"LOSS", "DENY"} => link'.missed
        <5>1. CASE Receive
          <6>1. fifo' # fifo BY <2>1
          <6>2. QED BY <2>1, <2>4, <5>1, <6>1, ReceiveIs
        <5>2. CASE LinkEvent BY <2>1, <2>4, <3>2, <5>2, LinkEventIs
        <5>3. QED BY <5>1, <5>2
      <4>2. fw.auth \/ Revoked(0) \/ link.missed BY <1>3, <4>1 DEF AuthInv
      <4>3. CASE Revoked(0) /\ fifo[1].kind \notin {"LOSS", "DENY"}
        <5>1. Revoked(0 + 1) BY <4>3 DEF Revoked
        <5>2. QED BY <2>2, <5>1
      <4>4. QED BY <1>1, <4>1, <4>2, <4>3
    <3>3. QED BY <3>1, <3>2
  <2>5. QED BY <2>3, <2>4 DEF AuthInv
<1>6. QED BY <1>4, <1>5, EventFrame

(* A connect that fails is doubtful, and one that goes on does not outrun   *)
(* the firmware.                                                            *)
LEMMA ConnectAuth ==
    ASSUME TypeOK, SlotInv, LinkInv, JoinInv, AuthInv, Connecting
    PROVE  AuthInv'
<1> USE TypesAre DEF LinkOK, Links, FwOK
<1>1. UNCHANGED fifo BY CommandIs
<1>2. CASE good' = FALSE BY <1>2 DEF AuthInv, Doubtful
<1>3. ASSUME NEW r \in Replies, Disconnect(r) PROVE AuthInv'
  <2>1. CASE r = "ok"
    <3>1. Clears BY <1>3, <2>1 DEF Clears, Disconnect, Unjoined, Reply
    <3>2. QED BY <3>1, KeepsAuth
  <2>2. CASE r # "ok" BY <1>2, <1>3, <2>2 DEF Disconnect, Finish
  <2>3. QED BY <2>1, <2>2
<1>4. CASE Publishes
  <2>1. pc \in {"legacy", "publish"} /\ ~Doubtful
        BY <1>4 DEF Publishes, Doubtful, LinkInv, Script, ConnectSteps
  <2>2. fw.auth => fw'.auth
        BY <2>1, CommandIs DEF Commands, JoinInv
  <2>3. link'.auth = link.auth /\ link'.missed = link.missed BY <1>4 DEF Publishes
  <2>4. QED BY <1>1, <2>1, <2>2, <2>3, KeepsAuth DEF Keeps
<1>5. CASE pc' \in Script
  <2>1. Flow BY <1>5, FlowIs
  <2>2. pc = "connect" \/ good BY <2>1 DEF Flow, LinkInv, Script, ConnectSteps
  <2>3. CASE pc' \in {"down", "wait2", "verify3"} BY <2>3 DEF AuthInv, Doubtful
  <2>4. CASE pc' \in {"setup", "join2"}
    <3>1. Clears BY <1>1, <2>1, <2>4 DEF Flow, Clears, Unjoined
    <3>2. QED BY <3>1, KeepsAuth
  <2>5. CASE pc' = "publish" BY <2>1, <2>5 DEF Flow, Same, AuthInv
  <2>6. CASE pc' \notin {"down", "wait2", "verify3", "setup", "join2", "publish"}
    <3>1. pc \in {"setup", "up", "prefer", "join", "wait", "verify", "restore", "verify2"} /\ good
          BY <1>5, <2>1, <2>2, <2>6 DEF Flow
    <3>2. ~Doubtful BY <3>1 DEF Doubtful
    <3>3. /\ fw.auth => fw'.auth
          /\ link'.auth => link.auth /\ (link.missed => link'.missed)
      <4>1. CASE pc = "join" BY <2>1, <4>1 DEF Flow, JoinInv, Joined
      <4>2. CASE pc # "join" BY <2>1, <2>6, <3>1, <4>2 DEF Flow, Same, Unjoined
      <4>3. QED BY <4>1, <4>2
    <3>4. QED BY <1>1, <3>2, <3>3, KeepsAuth DEF Keeps
  <2>7. QED BY <2>3, <2>4, <2>5, <2>6
<1>6. QED
  <2>1. ConnectBegins => pc' \in Script BY DEF ConnectBegins, Goto, Script, ConnectSteps
  <2>2. Advances => pc' \in Script BY DEF Advances
  <2>3. QED BY <1>2, <1>3, <1>4, <1>5, <2>1, <2>2, ConnectFrame, FailureIs

-----------------------------------------------------------------------------
(* A scan is doubtful from its DOWN to the one of its cleanup. *)
LEMMA ScanAuth ==
    ASSUME TypeOK, SlotInv, LinkInv, AuthInv, RestoreInv, Scanning
    PROVE  AuthInv'
<1> USE TypesAre DEF LinkOK, Links, FwOK, JobOK
<1>1. UNCHANGED fifo BY CommandIs
<1>2. job.dirty => ~link'.auth BY ScanFrame DEF LinkInv, Unjoined
<1>3. link'.auth => link.auth /\ (link.missed => link'.missed) BY ScanFrame DEF Unjoined
<1>4. CASE Doubtful' BY <1>4 DEF AuthInv
<1>5. CASE ~Doubtful /\ (fw.auth => fw'.auth) BY <1>1, <1>3, <1>5, KeepsAuth DEF Keeps
<1>6. CASE fifo = <<>> /\ job.dirty BY <1>1, <1>2, <1>6, KeepsAuth DEF Clears
<1>7. CASE ScanBegins
  <2>1. UNCHANGED <<fw, good>> /\ pc = "scan" BY <1>7 DEF ScanBegins
  <2>2. ~good \/ ~Doubtful BY <2>1 DEF Doubtful
  <2>3. ~good => Doubtful' BY <2>1 DEF Doubtful
  <2>4. QED BY <1>4, <1>5, <2>1, <2>2, <2>3
<1>8. CASE pc \in Work
  <2>1. job.dirty BY <1>8 DEF RestoreInv, DirtyInv, Work, ScanSteps
  <2>2. Doubtful' BY <1>8, <2>1, WorkedIs DEF Worked, Work, Doubtful
  <2>3. QED BY <1>4, <2>2
<1>9. CASE pc \in Cleaning
  <2>1. Cleaned BY <1>9, CleanedIs
  <2>2. CASE ~good \/ job'.cleanup # "ok"
    <3>1. pc' \in {"k_mask", "k_country", "k_drain", "k_end"} \/ (job'.dirty /\ pc' = "k_down")
          BY <2>1 DEF Cleaned
    <3>2. Doubtful' BY <2>1, <2>2, <3>1 DEF Doubtful, Cleaned
    <3>3. QED BY <1>4, <3>2
  <2>3. CASE good /\ job'.cleanup = "ok"
    <3>1. CASE pc = "k_down"
      <4>1. job.dirty BY <3>1 DEF RestoreInv, DirtyInv, ScanSteps
      <4>2. QED BY <1>6, <2>1, <2>3, <3>1, <4>1 DEF Cleaned
    <3>2. CASE pc' = "k_down" BY <1>4, <2>1, <3>2 DEF Cleaned, Doubtful
    <3>3. CASE pc # "k_down" /\ pc' # "k_down"
      <4>1. fw'.auth = fw.auth BY <1>9, <3>3, CommandIs DEF Commands, Cleaning
      <4>2. ~Doubtful BY <1>9, <2>1, <2>3, <3>3 DEF Cleaned, Cleaning, Doubtful
      <4>3. QED BY <1>5, <4>1, <4>2
    <3>4. QED BY <3>1, <3>2, <3>3
  <2>4. good \in BOOLEAN BY DEF PlaceOK
  <2>5. QED BY <2>2, <2>3, <2>4
<1>10. CASE ScanEnds
  <2>1. UNCHANGED fw /\ pc = "k_end" /\ pc' = "loop" BY <1>10 DEF ScanEnds, Goto
  <2>2. good' <=> good /\ job.cleanup = "ok" BY <1>10 DEF ScanEnds
  <2>3. Doubtful' \/ ~Doubtful BY <2>1, <2>2 DEF Doubtful
  <2>4. QED BY <1>4, <1>5, <2>1, <2>3
<1>11. QED
  <2>1. ScanBegins \/ ScanEnds \/ pc \in Work \cup Cleaning BY ScanPlaces
  <2>2. QED BY <1>7, <1>8, <1>9, <1>10, <2>1

(* Every step keeps the driver's authorization to the firmware's. *)
LEMMA AuthKept ==
    ASSUME TypeOK, SlotInv, HandInv, LinkInv, JoinInv, AuthInv, RestoreInv, [Next]_vars
    PROVE  AuthInv'
<1>1. CASE Plain
  <2>1. Doubtful' \/ ~Doubtful BY <1>1, PlainFrame DEF Doubtful
  <2>2. link'.auth => UNCHANGED link BY <1>1, TypesAre, PlainFrame DEF LinkOK, Links, Unjoined
  <2>3. ~Doubtful => Keeps BY <1>1, <2>2, TypesAre, PlainFrame DEF Keeps
  <2>4. QED BY <2>1, <2>3, KeepsAuth DEF AuthInv
<1>2. CASE PowerCycle
      BY <1>2, KeepsAuth, TypesAre DEF PowerCycle, Clears, LinkOK, Links, Unjoined
<1>3. CASE UNCHANGED vars BY <1>3 DEF vars, AuthInv, Doubtful, Revoked
<1>4. QED
      BY <1>1, <1>2, <1>3, FirmwareAuth, EventAuth, ConnectAuth, ScanAuth
         DEF Next, Worker, Plain

-----------------------------------------------------------------------------
(* Which commands change the settings of the firmware. *)
LEMMA SettingsByCommand ==
    ASSUME FwOK, Commands
    PROVE  /\ pc \notin {"s_mask", "k_mask"} => fw'.mask = fw.mask
           /\ pc \notin {"setup", "s_country", "k_country"} => fw'.country = fw.country
           /\ pc \notin {"up", "s_up"} => (~fw.up => ~fw'.up)
<1>1. CASE fw' = RadioDown(fw) BY <1>1 DEF FwOK, RadioDown
<1>2. CASE fw' = Joined(fw) BY <1>2 DEF FwOK, Joined
<1>3. QED BY <1>1, <1>2 DEF FwOK, Commands

(* The firmware changes none of them by itself. *)
LEMMA SettingsKept ==
    ASSUME FwOK, Firmware
    PROVE  fw'.mask = fw.mask /\ fw'.country = fw.country /\ fw'.up = fw.up
<1>1. CASE FwLink \/ FwAuth BY <1>1 DEF FwOK, FwLink, FwAuth
<1>2. CASE FwDeny \/ FwLoss BY <1>2 DEF FwOK, FwDeny, FwLoss
<1>3. CASE FwPartial BY <1>3 DEF FwPartial
<1>4. ASSUME NEW tagged \in BOOLEAN, NEW ok \in BOOLEAN, FwScanEnds(tagged, ok)
      PROVE  fw'.mask = fw.mask /\ fw'.country = fw.country /\ fw'.up = fw.up
      BY <1>4 DEF FwOK, FwScanEnds
<1>5. QED BY <1>1, <1>2, <1>3, <1>4 DEF Firmware

(* Every step keeps what a scan has to put back. *)
LEMMA RestoreKept ==
    ASSUME TypeOK, RestoreInv, [Next]_vars
    PROVE  RestoreInv'
<1> USE TypesAre DEF RestoreInv, DirtyInv, MaskInv, CountryInv, FwOK, NOK, JobOK, PlaceOK,
      LinkOK, Links, ScanOK
<1>1. CASE Firmware
  <2>1. UNCHANGED Driver
        BY <1>1 DEF Firmware, FwLink, FwAuth, FwDeny, FwLoss, FwPartial, FwScanEnds
  <2>2. QED BY <1>1, <2>1, SettingsKept DEF Driver
<1>2. CASE Plain
      BY <1>2, PlainFrame DEF ScanSteps
<1>3. CASE PowerCycle
      BY <1>3 DEF PowerCycle, FirmwareReset, NoJob, ScanSteps
<1>4. CASE Receive \/ LinkEvent
  <2>1. UNCHANGED <<n, fw, pc, job>> BY <1>4 DEF Receive, LinkEvent
  <2>2. QED BY <2>1
<1>5. CASE Connecting
  <2>1. fw'.mask = fw.mask
    <3>1. pc \notin {"s_mask", "k_mask"} BY <1>5, ConnectFrame DEF ConnectSteps
    <3>2. QED BY <1>5, <3>1, CommandIs, SettingsByCommand
  <2>2. /\ n'.ready = n.ready /\ ~job'.origMask /\ ~job'.dirty /\ pc' \in ConnectSteps \cup {"loop"}
    <3> ~job.dirty BY <1>5, ConnectFrame DEF ConnectSteps, ScanSteps
    <3>1. CASE Advances BY <3>1 DEF Advances, Script
    <3>2. CASE ConnectBegins BY <3>2 DEF ConnectBegins, Goto, ConnectSteps
    <3>3. CASE ConnectFails
      <4>1. job' = NoJob /\ pc' = "loop" /\ n'.ready = n.ready BY <3>3, FailureIs
      <4>2. QED BY <4>1 DEF NoJob
    <3>4. CASE Publishes BY <3>4 DEF Publishes, Finish, Goto, NoJob
    <3>5. ASSUME NEW r \in Replies, Disconnect(r)
          PROVE  n'.ready = n.ready /\ ~job'.origMask /\ ~job'.dirty /\ pc' = "loop"
          BY <3>5 DEF Disconnect, Finish, Goto, NoJob
    <3>6. QED BY <1>5, <3>1, <3>2, <3>3, <3>4, <3>5, ConnectFrame
  <2>3. pc \notin ScanSteps /\ pc' \notin ScanSteps
        BY <1>5, <2>2, ConnectFrame DEF ConnectSteps, ScanSteps
  <2>4. QED BY <2>1, <2>2, <2>3 DEF ScanSteps
<1>6. CASE Scanning
  <2>1. CASE ScanBegins
    <3>1. UNCHANGED <<n, fw>> /\ pc = "scan" BY <2>1 DEF ScanBegins
    <3>2. \/ pc' = "cleanup" /\ ~job'.dirty /\ ~job'.origMask
          \/ /\ pc' = "s_down" /\ n.ready
             /\ job'.dirty /\ ~job'.origMask /\ ~job'.country /\ job'.before = fw.country
      <4> DEFINE j == [NoJob EXCEPT !.before = fw.country]
      <4>1. /\ j \in [fallback : BOOLEAN, status : Outcomes, dirty : BOOLEAN, mask : BOOLEAN,
                       country : BOOLEAN, down : BOOLEAN, cleanup : Outcomes,
                       origMask : BOOLEAN, orig : Countries, before : Countries]
            /\ ~j.dirty /\ ~j.origMask /\ ~j.country /\ j.before = fw.country
        <5>1. PICK c \in Countries : c = fw.country OBVIOUS
        <5>2. QED BY <5>1, NoJobTyped DEF NoJob
      <4>2. \/ pc' = "cleanup" /\ job' = [j EXCEPT !.status = "cancelled"]
            \/ pc' = "cleanup" /\ job' = [j EXCEPT !.status = "failed"]
            \/ pc' = "s_down" /\ n.ready /\ job' = [j EXCEPT !.dirty = TRUE]
            BY <2>1 DEF ScanBegins, Goto
      <4> HIDE DEF j
      <4>3. QED BY <4>1, <4>2
    <3>3. QED BY <3>1, <3>2 DEF ScanSteps
  <2>2. CASE pc \in Work
    <3>1. Worked /\ Commands /\ Order BY <1>6, <2>2, WorkedIs, CommandIs, OrderIs
    <3>2. DirtyInv' BY <2>2, <3>1 DEF Worked, Work, ScanSteps
    <3>3. MaskInv'
      <4>1. ~job'.origMask BY <2>2, <3>1 DEF Worked
      <4>2. pc = "s_mask" \/ fw'.mask = fw.mask BY <2>2, <3>1, SettingsByCommand DEF Work
      <4>3. QED BY <2>2, <3>1, <4>1, <4>2 DEF Worked, Order, Work, ScanSteps
    <3>4. CountryInv'
      <4>1. pc = "s_country" \/ fw'.country = fw.country BY <2>2, <3>1, SettingsByCommand DEF Work
      <4>2. QED BY <2>2, <3>1, <4>1 DEF Worked, Order, Work, ScanSteps
    <3>5. QED BY <3>2, <3>3, <3>4
  <2>3. CASE pc \in Cleaning
    <3>1. Cleaned BY <1>6, <2>3, CleanedIs
    <3>2. /\ pc = "k_mask" \/ fw'.mask = fw.mask
          /\ pc = "k_country" \/ fw'.country = fw.country
          /\ ~fw.up => ~fw'.up
          BY <1>6, <2>3, CommandIs, SettingsByCommand DEF Cleaning
    <3>3. DirtyInv'
      <4>1. CASE pc \in {"cleanup", "k_down"}
        <5>1. CASE pc = "cleanup" BY <3>1, <5>1 DEF Cleaned, ScanSteps
        <5>2. CASE pc = "k_down" BY <3>1, <5>2 DEF Cleaned, RadioDown, ScanSteps
        <5>3. QED BY <4>1, <5>1, <5>2
      <4>2. CASE pc \in {"k_mask", "k_country", "k_drain"}
            BY <3>1, <3>2, <4>2 DEF Cleaned, ScanSteps
      <4>3. QED BY <2>3, <4>1, <4>2 DEF Cleaning
    <3>4. MaskInv'
      <4>1. ~job'.origMask /\ UNCHANGED n
        BY <1>6, <2>3, <3>1, ScanFrame DEF Cleaned, ScanEnds, Cleaning
      <4>2. CASE pc \in {"cleanup", "k_down"} BY <3>1, <3>2, <4>1, <4>2 DEF Cleaned, ScanSteps
      <4>3. CASE pc = "k_mask"
            BY <3>1, <4>1, <4>3 DEF Cleaned, ScanSteps
      <4>4. CASE pc \in {"k_country", "k_drain"}
            BY <3>1, <3>2, <4>1, <4>4 DEF Cleaned, ScanSteps
      <4>5. QED BY <2>3, <4>2, <4>3, <4>4 DEF Cleaning
    <3>5. CountryInv'
      <4>1. CASE pc = "k_country" BY <3>1, <4>1 DEF Cleaned, ScanSteps
      <4>2. CASE pc # "k_country" BY <2>3, <3>1, <3>2, <4>2 DEF Cleaned, Cleaning, ScanSteps
      <4>3. QED BY <4>1, <4>2
    <3>6. QED BY <3>3, <3>4, <3>5
  <2>4. CASE ScanEnds
    <3>1. UNCHANGED fw /\ pc = "k_end" /\ pc' = "loop" /\ ~job'.origMask /\ ~job'.dirty
          BY <2>4 DEF ScanEnds, Goto, NoJob
    <3>2. n'.ready => n.ready /\ job.cleanup = "ok" BY <2>4 DEF ScanEnds
    <3>3. QED BY <3>1, <3>2 DEF ScanSteps
  <2>5. QED BY <1>6, <2>1, <2>2, <2>3, <2>4, ScanPlaces
<1>7. CASE UNCHANGED vars BY <1>7 DEF vars
<1> QED BY <1>1, <1>2, <1>3, <1>4, <1>5, <1>6, <1>7 DEF Next, Worker, Plain

-----------------------------------------------------------------------------
(* The invariant holds initially. *)
LEMMA InvInit == Init => ControlInv
<1> SUFFICES ASSUME Init PROVE ControlInv OBVIOUS
<1>1. TypeOK
  <2>1. NOK /\ LinkOK BY DEF Init, NOK, LinkOK, Links, Requests
  <2>2. ScanOK
    <3>1. 0 \in 0..MaxGen /\ "home" \in Countries /\ "none" \in States
          BY ControlAssumption DEF Countries, States
    <3>2. QED BY <3>1 DEF Init, ScanOK
  <2>3. FwOK
    <3>1. 0 \in 0..MaxGen /\ "default" \in Countries BY ControlAssumption DEF Countries
    <3>2. QED BY <3>1 DEF Init, FwOK, FirmwareReset
  <2>4. FifoOK /\ JobOK BY ControlAssumption, NoJobTyped DEF Init, FifoOK, JobOK
  <2>5. PlaceOK BY DEF Init, PlaceOK
  <2>6. QED
        BY <2>1, <2>2, <2>3, <2>4, <2>5
           DEF TypeOK, NOK, LinkOK, Links, ScanOK, FwOK, FifoOK, JobOK, PlaceOK, Requests, States
<1>2. pc = "loop" /\ fifo = <<>> /\ Len(fifo) = 0 BY DEF Init
<1>3. SlotInv /\ HandInv /\ LinkInv
      BY DEF Init, SlotInv, HandInv, LinkInv, NoJob, ScanSteps, Script, ConnectSteps
<1>4. PrefInv /\ JoinInv BY DEF Init, PrefInv, JoinInv, FirmwareReset
<1>5. AuthInv /\ FreshInv BY <1>2 DEF Init, AuthInv, FreshInv
<1>6. RestoreInv
      BY DEF Init, RestoreInv, DirtyInv, MaskInv, CountryInv, FirmwareReset, NoJob, ScanSteps
<1>7. QED BY <1>1, <1>3, <1>4, <1>5, <1>6 DEF ControlInv

(* Every step keeps it. *)
LEMMA InvKept == ControlInv /\ [Next]_vars => ControlInv'
<1> SUFFICES ASSUME ControlInv, [Next]_vars PROVE ControlInv' OBVIOUS
<1>1. /\ TypeOK /\ SlotInv /\ HandInv /\ LinkInv /\ PrefInv /\ JoinInv /\ AuthInv
      /\ FreshInv /\ RestoreInv
      BY DEF ControlInv
<1>2. TypeOK' /\ SlotInv' /\ HandInv' BY <1>1, TypeKept, SlotKept, HandKept
<1>3. LinkInv' BY <1>1, LinkKept DEF RestoreInv
<1>4. PrefInv' /\ JoinInv' BY <1>1, PreferenceKept, JoinKept
<1>5. AuthInv' /\ FreshInv' /\ RestoreInv' BY <1>1, AuthKept, FreshKept, RestoreKept
<1>6. QED BY <1>2, <1>3, <1>4, <1>5 DEF ControlInv

(* It holds of every state of the control plane. *)
THEOREM ControlInvariant == Spec => []ControlInv
BY InvInit, InvKept, PTL DEF Spec

(* Every variable of the control plane has its type, ControlBusy is exactly *)
(* a request in progress, and a queued scan is reported busy.               *)
THEOREM ControlTypeCorrect == Spec => []TypeOK
<1>1. ControlInv => TypeOK BY DEF ControlInv
<1>2. QED BY <1>1, ControlInvariant, PTL

(* What CywLink publishes is true: no stale event of an earlier join, met   *)
(* in any reply wait of any later script, publishes a link the firmware     *)
(* does not have and is not about to take back, unless CywEvent dropped the *)
(* event that took it back for a scan admitted behind its test of ScanBusy. *)
THEOREM LinkIsHonest == Spec => []LinkHonest
<1>1. ASSUME ControlInv, link.media, good
      PROVE  fw.auth \/ link.missed \/ \E i \in DOMAIN fifo : Revokes(fifo[i])
  <2>1. TypeOK /\ LinkInv /\ AuthInv /\ DirtyInv BY <1>1 DEF ControlInv, RestoreInv
  <2>2. link.auth /\ ~link.selecting BY <1>1, <2>1 DEF LinkInv
  <2>3. pc \notin Script BY <2>1, <2>2 DEF LinkInv
  <2>4. ~job.dirty BY <2>1, <2>2 DEF LinkInv
  <2>5. ~Doubtful
        BY <1>1, <2>1, <2>3, <2>4 DEF Doubtful, DirtyInv, Script, ConnectSteps, ScanSteps
  <2>6. fw.auth \/ Revoked(0) \/ link.missed BY <2>1, <2>2, <2>5 DEF AuthInv
  <2>7. DOMAIN fifo = 1..Len(fifo) BY <2>1, TypesAre DEF FifoOK
  <2>8. QED BY <2>6, <2>7 DEF Revoked, Revokes
<1>2. ControlInv => LinkHonest BY <1>1 DEF ControlInv, LinkInv, LinkHonest
<1>3. QED BY <1>2, ControlInvariant, PTL

(* A failed connect stays unpublished: the Exit of CywJoinSelectedBand and  *)
(* of CywConnect holds the link back until the next connect or disconnect.  *)
THEOREM FailedStaysUnpublished == Spec => []FailedUnpublished
<1>1. ControlInv => FailedUnpublished BY DEF ControlInv, LinkInv, FailedUnpublished
<1>2. QED BY <1>1, ControlInvariant, PTL

(* The preference for 5 GHz is gone from the firmware when CywLink          *)
(* publishes a link, unless the last connect or disconnect has failed.      *)
THEOREM PreferenceRemoved == Spec => []PrefRestored
<1>1. ControlInv => PrefRestored
      BY DEF ControlInv, LinkInv, PrefInv, Quiet, PrefRestored
<1>2. QED BY <1>1, ControlInvariant, PTL

(* A scan that CYW_IOCTL_SCAN_START has admitted runs beside no connect, no *)
(* disconnect and no selection, and touches the radio beside no link,       *)
(* whatever link events pass the test of ScanBusy before it is admitted.    *)
THEOREM ScanIsAlone == Spec => []ScanAlone
<1>1. ControlInv => ScanAlone
      BY DEF ControlInv, LinkInv, SlotInv, ScanAlone, ScanSteps
<1>2. QED BY <1>1, ControlInvariant, PTL

(* CywScanEvent lists only results of the scan's own generation, for every  *)
(* number of sync ids, one included: the drains before the window opens are *)
(* enough.                                                                  *)
THEOREM ScanIsFresh == Spec => []ScanFresh
<1>1. ASSUME ControlInv, scan.accept, NEW i \in DOMAIN fifo, fifo[i].kind \in {"PARTIAL", "DONE"}
      PROVE  fifo[i].of = scan.gen
  <2>1. TypeOK /\ FreshInv BY <1>1 DEF ControlInv
  <2>2. i \in 1..Len(fifo) /\ fifo[i] \in Events BY <2>1, TypesAre DEF FifoOK
  <2>3. fifo[i].of \in {0, scan.gen} BY <1>1, <2>1, <2>2 DEF FreshInv, OnlyOf
  <2>4. QED BY <1>1, <2>2, <2>3, EventIs
<1>2. ControlInv => ScanFresh BY <1>1 DEF ControlInv, FreshInv, ScanFresh
<1>3. QED BY <1>2, ControlInvariant, PTL

(* CywScanRequest leaves the firmware as it found it whenever it leaves the *)
(* adapter ready, whichever of its steps failed, was cancelled or lost its  *)
(* reply.                                                                   *)
THEOREM ScanPutsBack == Spec => ScanRestores
<1> DEFINE A == pc = "k_end" /\ pc' = "loop" /\ job.dirty /\ n'.ready
                  => ~fw.up /\ ~fw.mask /\ fw.country = job.before
<1>1. ASSUME ControlInv, [Next]_vars PROVE [A]_vars
  <2>1. SUFFICES ASSUME Next, pc = "k_end", pc' = "loop", job.dirty, n'.ready
                 PROVE  ~fw.up /\ ~fw.mask /\ fw.country = job.before
        BY <1>1
  <2>2. TypeOK /\ RestoreInv BY <1>1 DEF ControlInv
  <2>3. job.cleanup = "ok"
    <3>1. CASE Scanning
      BY <2>1, <2>2, <3>1, ScanPlaces, TypesAre DEF ScanEnds, ScanBegins, Work, Cleaning, NOK
    <3>2. CASE Connecting BY <2>1, <3>2, ConnectFrame, TypesAre, <2>2 DEF ConnectSteps
    <3>3. CASE Plain BY <2>1, <2>2, <3>3, PlainFrame
    <3>4. CASE Firmware \/ Receive \/ LinkEvent \/ PowerCycle
          BY <2>1, <3>4
             DEF Firmware, Driver, FwLink, FwAuth, FwDeny, FwLoss, FwPartial, FwScanEnds, Receive,
                 LinkEvent, PowerCycle
    <3>5. QED BY <2>1, <3>1, <3>2, <3>3, <3>4 DEF Next, Worker, Plain
  <2>4. QED BY <2>1, <2>2, <2>3 DEF RestoreInv, DirtyInv, MaskInv, CountryInv
<1>2. QED BY <1>1, ControlInvariant, PTL DEF Spec, ScanRestores
-----------------------------------------------------------------------------
(* A request is short.  This is what RequestsEnd needs besides fairness.    *)

(* How many steps of its script are left to a request at most: those of the *)
(* longest way through CywConnect with its fallback, or of a scan with its  *)
(* cleanup.                                                                 *)
StepsLeft ==
    IF pc = "scan" THEN 17
    ELSE IF pc \in {"s_down", "connect"} THEN 16
    ELSE IF pc \in {"s_drain", "down"} THEN 15
    ELSE IF pc \in {"s_read", "setup"} THEN 14
    ELSE IF pc \in {"s_country", "up"} THEN 13
    ELSE IF pc \in {"s_mask", "prefer"} THEN 12
    ELSE IF pc \in {"s_up", "join"} THEN 11
    ELSE IF pc \in {"s_drain2", "wait"} THEN 10
    ELSE IF pc \in {"s_open", "verify"} THEN 9
    ELSE IF pc \in {"escan", "restore"} THEN 8
    ELSE IF pc \in {"s_wait", "verify2"} THEN 7
    ELSE IF pc \in {"cleanup", "disassoc"} THEN 6
    ELSE IF pc \in {"k_down", "join2"} THEN 5
    ELSE IF pc \in {"k_mask", "wait2"} THEN 4
    ELSE IF pc \in {"k_country", "verify3"} THEN 3
    ELSE IF pc \in {"k_drain", "publish"} THEN 2
    ELSE IF pc \in {"k_end", "legacy", "disconnect", "radio"} THEN 1 ELSE 0

(* While ControlBusy is set every step of the worker brings the request     *)
(* closer to its end, and nothing else takes it further away: no event, no  *)
(* IOCTL, pause or stop makes CywConnect or CywScanRequest go back.         *)
RequestAdvances ==
    n.controlBusy =>
        /\ Worker => StepsLeft' < StepsLeft
        /\ StepsLeft' <= StepsLeft

(* A connect goes forward: its fallback is tried once. *)
LEMMA ConnectForward == ASSUME Connecting PROVE StepsLeft' < StepsLeft
<1>1. ConnectFails => pc' = "loop" BY DEF ConnectFails, Finish, Goto
<1>2. CASE ConnectBegins
  <2>1. pc = "connect" /\ pc' \in {"down"} BY <1>2 DEF ConnectBegins, Goto
  <2>2. QED BY <2>1 DEF StepsLeft
<1>3. ASSUME NEW r \in Replies, Disconnect(r) PROVE StepsLeft' < StepsLeft
  <2>1. pc = "disconnect" /\ pc' \in {"loop"} BY <1>3 DEF Disconnect, Finish, Goto
  <2>2. QED BY <2>1 DEF StepsLeft
<1>4. ASSUME NEW r \in Replies, ConnectDown(r) PROVE StepsLeft' < StepsLeft
  <2>1. pc = "down" /\ pc' \in {"setup", "loop"} BY <1>4, <1>1 DEF ConnectDown, Step, Goto
  <2>2. QED BY <2>1 DEF StepsLeft
<1>5. ASSUME NEW r \in Replies, ConnectSetup(r) PROVE StepsLeft' < StepsLeft
  <2>1. pc = "setup" /\ pc' \in {"up", "loop"} BY <1>5, <1>1 DEF ConnectSetup, Step, Goto
  <2>2. QED BY <2>1 DEF StepsLeft
<1>6. ASSUME NEW r \in Replies, ConnectUp(r) PROVE StepsLeft' < StepsLeft
  <2>1. pc = "up" /\ pc' \in {"prefer", "loop"} BY <1>6, <1>1 DEF ConnectUp, Step, Goto
  <2>2. QED BY <2>1 DEF StepsLeft
<1>7. ASSUME NEW r \in Replies, ConnectPrefer(r) PROVE StepsLeft' < StepsLeft
  <2>1. pc = "prefer" /\ pc' \in {"join", "legacy", "loop"}
    BY <1>7, <1>1 DEF ConnectPrefer, Goto
  <2>2. QED BY <2>1 DEF StepsLeft
<1>8. ASSUME NEW r \in Replies, LegacyJoin(r) PROVE StepsLeft' < StepsLeft
  <2>1. pc = "legacy" /\ pc' \in {"loop"} BY <1>8, <1>1 DEF LegacyJoin, Finish, Goto
  <2>2. QED BY <2>1 DEF StepsLeft
<1>9. ASSUME NEW r \in Replies, BandJoin(r) PROVE StepsLeft' < StepsLeft
  <2>1. pc = "join" /\ pc' \in {"wait", "restore", "loop"}
    BY <1>9, <1>1 DEF BandJoin, TryFallback, Goto
  <2>2. QED BY <2>1 DEF StepsLeft
<1>10. CASE BandWait("wait", "verify")
  <2>1. pc = "wait" /\ pc' \in {"verify", "restore", "loop"}
    BY <1>10, <1>1 DEF BandWait, TryFallback, Goto
  <2>2. QED BY <2>1 DEF StepsLeft
<1>11. ASSUME NEW usable \in BOOLEAN, BandVerify(usable) PROVE StepsLeft' < StepsLeft
  <2>1. pc = "verify" /\ pc' \in {"restore", "loop"}
    BY <1>11, <1>1 DEF BandVerify, TryFallback, Goto
  <2>2. QED BY <2>1 DEF StepsLeft
<1>12. ASSUME NEW r \in Replies, BandRestore(r) PROVE StepsLeft' < StepsLeft
  <2>1. pc = "restore" /\ pc' \in {"verify2", "disassoc", "loop"}
    BY <1>12, <1>1 DEF BandRestore, Goto
  <2>2. QED BY <2>1 DEF StepsLeft
<1>13. CASE BandVerifyAgain
  <2>1. pc = "verify2" /\ pc' \in {"publish", "disassoc", "loop"}
    BY <1>13, <1>1 DEF BandVerifyAgain, Goto
  <2>2. QED BY <2>1 DEF StepsLeft
<1>14. ASSUME NEW r \in Replies, BandDisassoc(r) PROVE StepsLeft' < StepsLeft
  <2>1. pc = "disassoc" /\ pc' \in {"join2", "loop"} BY <1>14, <1>1 DEF BandDisassoc, Goto
  <2>2. QED BY <2>1 DEF StepsLeft
<1>15. ASSUME NEW r \in Replies, BandJoinAgain(r) PROVE StepsLeft' < StepsLeft
  <2>1. pc = "join2" /\ pc' \in {"wait2", "loop"} BY <1>15, <1>1 DEF BandJoinAgain, Step, Goto
  <2>2. QED BY <2>1 DEF StepsLeft
<1>16. CASE BandWait("wait2", "verify3")
  <2>1. pc = "wait2" /\ pc' \in {"verify3", "loop"} BY <1>16, <1>1 DEF BandWait, Goto
  <2>2. QED BY <2>1 DEF StepsLeft
<1>17. CASE BandVerifyLast
  <2>1. pc = "verify3" /\ pc' \in {"publish", "loop"} BY <1>17, <1>1 DEF BandVerifyLast, Goto
  <2>2. QED BY <2>1 DEF StepsLeft
<1>18. CASE BandPublish
  <2>1. pc = "publish" /\ pc' \in {"loop"} BY <1>18, <1>1 DEF BandPublish, Finish, Goto
  <2>2. QED BY <2>1 DEF StepsLeft
<1>19. QED BY <1>2, <1>3, <1>4, <1>5, <1>6, <1>7, <1>8, <1>9, <1>10, <1>11, <1>12, <1>13,
              <1>14, <1>15, <1>16, <1>17, <1>18 DEF Connecting

(* So does a scan: whatever step it leaves from, its cleanup is next. *)
LEMMA ScanForward == ASSUME Scanning PROVE StepsLeft' < StepsLeft
<1>1. CASE ScanBegins
  <2>1. pc = "scan" /\ pc' \in {"cleanup", "s_down"} BY <1>1 DEF ScanBegins, Goto
  <2>2. QED BY <2>1 DEF StepsLeft
<1>2. CASE ScanDown
  <2>1. pc = "s_down" /\ pc' \in {"s_drain", "cleanup"}
    BY <1>2 DEF ScanDown, ScanCall, ScanCheckFails, ScanLeaves, Goto
  <2>2. QED BY <2>1 DEF StepsLeft
<1>3. CASE ScanDrain("s_drain", "s_read")
  <2>1. pc = "s_drain" /\ pc' \in {"s_read", "cleanup"}
    BY <1>3 DEF ScanDrain, ScanCheckFails, ScanLeaves, Goto
  <2>2. QED BY <2>1 DEF StepsLeft
<1>4. CASE ScanRead
  <2>1. pc = "s_read" /\ pc' \in {"s_mask", "s_country", "cleanup"}
    BY <1>4 DEF ScanRead, ScanCall, ScanCheckFails, ScanLeaves, Goto
  <2>2. QED BY <2>1 DEF StepsLeft
<1>5. CASE ScanCountry
  <2>1. pc = "s_country" /\ pc' \in {"s_mask", "cleanup"}
    BY <1>5 DEF ScanCountry, ScanCheckFails, ScanLeaves, Goto
  <2>2. QED BY <2>1 DEF StepsLeft
<1>6. CASE ScanMask
  <2>1. pc = "s_mask" /\ pc' \in {"s_up", "cleanup"}
    BY <1>6 DEF ScanMask, ScanCall, ScanCheckFails, ScanLeaves, Goto
  <2>2. QED BY <2>1 DEF StepsLeft
<1>7. CASE ScanUp
  <2>1. pc = "s_up" /\ pc' \in {"s_drain2", "cleanup"}
    BY <1>7 DEF ScanUp, ScanCall, ScanCheckFails, ScanLeaves, Goto
  <2>2. QED BY <2>1 DEF StepsLeft
<1>8. CASE ScanDrain("s_drain2", "s_open")
  <2>1. pc = "s_drain2" /\ pc' \in {"s_open", "cleanup"}
    BY <1>8 DEF ScanDrain, ScanCheckFails, ScanLeaves, Goto
  <2>2. QED BY <2>1 DEF StepsLeft
<1>9. CASE ScanOpen
  <2>1. pc = "s_open" /\ pc' \in {"escan", "cleanup"}
    BY <1>9 DEF ScanOpen, ScanCheckFails, ScanLeaves, Goto
  <2>2. QED BY <2>1 DEF StepsLeft
<1>10. CASE Escan
  <2>1. pc = "escan" /\ pc' \in {"s_wait", "cleanup"}
    BY <1>10 DEF Escan, ScanCall, ScanCheckFails, ScanLeaves, Goto
  <2>2. QED BY <2>1 DEF StepsLeft
<1>11. CASE ScanWait
  <2>1. pc = "s_wait" /\ pc' \in {"cleanup"}
    BY <1>11 DEF ScanWait, ScanCheckFails, ScanLeaves, Goto
  <2>2. QED BY <2>1 DEF StepsLeft
<1>12. CASE Cleanup
  <2>1. pc = "cleanup" /\ pc' \in {"k_down", "k_end"} BY <1>12 DEF Cleanup, Goto
  <2>2. QED BY <2>1 DEF StepsLeft
<1>13. CASE CleanupDown
  <2>1. pc = "k_down" /\ pc' \in {"k_mask"} BY <1>13 DEF CleanupDown, CleanupCall, Goto
  <2>2. QED BY <2>1 DEF StepsLeft
<1>14. CASE CleanupMask
  <2>1. pc = "k_mask" /\ pc' \in {"k_country"} BY <1>14 DEF CleanupMask, CleanupCall, Goto
  <2>2. QED BY <2>1 DEF StepsLeft
<1>15. CASE CleanupCountry
  <2>1. pc = "k_country" /\ pc' \in {"k_drain"} BY <1>15 DEF CleanupCountry, CleanupCall, Goto
  <2>2. QED BY <2>1 DEF StepsLeft
<1>16. CASE CleanupDrain
  <2>1. pc = "k_drain" /\ pc' \in {"k_end"} BY <1>16 DEF CleanupDrain, Goto
  <2>2. QED BY <2>1 DEF StepsLeft
<1>17. CASE ScanEnds
  <2>1. pc = "k_end" /\ pc' \in {"loop"} BY <1>17 DEF ScanEnds, Goto
  <2>2. QED BY <2>1 DEF StepsLeft
<1>18. QED BY <1>1, <1>2, <1>3, <1>4, <1>5, <1>6, <1>7, <1>8, <1>9, <1>10, <1>11, <1>12,
              <1>13, <1>14, <1>15, <1>16, <1>17 DEF Scanning

(* A request the worker has taken ends within 17 of its steps, whatever the *)
(* firmware answers, loses or sends meanwhile and whatever NDIS and the     *)
(* user ask for: every wait of the scripts is one step with a deadline.     *)
THEOREM RequestIsShort ==
    Spec => [](StepsLeft \in 0..17) /\ [][RequestAdvances]_vars
<1>1. StepsLeft \in 0..17 BY DEF StepsLeft
<1>2. ASSUME TypeOK, [Next]_vars PROVE [RequestAdvances]_vars
  <2> SUFFICES ASSUME Next, n.controlBusy
               PROVE  /\ Worker => StepsLeft' < StepsLeft
                      /\ StepsLeft' <= StepsLeft
    BY <1>2 DEF RequestAdvances
  <2>1. pc \notin {"loop", "gone"} BY <1>2 DEF TypeOK
  <2>2. Worker => StepsLeft' < StepsLeft
    <3>1. ASSUME Radio PROVE StepsLeft' < StepsLeft BY <3>1 DEF Radio, Goto, StepsLeft
    <3>2. ~Take /\ \A fault \in BOOLEAN : ~WorkerEnds(fault) BY <2>1 DEF Take, WorkerEnds
    <3>3. QED BY <3>1, <3>2, ConnectForward, ScanForward DEF Worker
  <2>3. StepsLeft \in Nat /\ StepsLeft' \in Nat BY DEF StepsLeft
  <2>4. CASE Worker BY <2>2, <2>3, <2>4
  <2>5. CASE ~Worker
    <3>1. ~PowerCycle BY <2>1 DEF PowerCycle
    <3>2. UNCHANGED pc => StepsLeft' = StepsLeft BY DEF StepsLeft
    <3>3. ASSUME Firmware PROVE UNCHANGED pc
      BY <3>3 DEF Firmware, FwLink, FwAuth, FwDeny, FwLoss, FwPartial, FwScanEnds, Driver
    <3>4. ASSUME Ioctl \/ PowerDown PROVE UNCHANGED pc
      BY <3>4 DEF Ioctl, Connect, RadioRefresh, ScanCancel, ScanAdmit, ScanStart, PowerDown
    <3>5. ASSUME Receive \/ LinkEvent PROVE UNCHANGED pc BY <3>5 DEF Receive, LinkEvent
    <3>6. ASSUME NEW on \in BOOLEAN, Pause(on) PROVE UNCHANGED pc BY <3>6 DEF Pause
    <3>7. UNCHANGED pc BY <2>5, <3>1, <3>3, <3>4, <3>5, <3>6 DEF Next
    <3>8. QED BY <2>2, <2>3, <3>2, <3>7
  <2>6. QED BY <2>2, <2>4, <2>5
<1>3. QED BY <1>1, <1>2, ControlTypeCorrect, PTL DEF Spec
=============================================================================
