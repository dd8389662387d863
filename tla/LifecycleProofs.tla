--------------------------- MODULE LifecycleProofs ---------------------------
(***************************************************************************)
(* Proofs about Lifecycle, for every number of worker threads, recovery    *)
(* attempts and sends: what NDIS may rely on after a pause, a power-down   *)
(* and a halt, and that no send is stranded when the worker is gone.       *)
(***************************************************************************)
EXTENDS Lifecycle, TLAPS

(* A worker that will still run CywWorker's exit, which closes the gate,    *)
(* clears Ready and empties the queue.                                      *)
Serving == {"loop", "flush", "drain", "ack", "cycle", "failed", "queue", "exit"}

(* Whatever lets a send in or holds one is undone by a worker that serves.  *)
ServedInv ==
    flag["Ready"] \/ gate = "SUCCESS" \/ held > 0 => \E w \in Workers : wpc[w] \in Serving

(* NDIS's calls exclude each other: a power request or a halt finds the     *)
(* adapter paused and keeps it so.                                          *)
NdisInv ==
    /\ npc = "idle" <=> ndis \in {"paused", "running", "halting"}
    /\ npc \in {"ask", "wait"} => ndis = "pausing"
    /\ lpc["oid"] # "idle" => ndis = "paused"
    /\ power = "D3" => ndis = "paused"
    /\ lpc["halt"] # "idle" \/ freed => ndis = "halting" /\ power = "D0"
    /\ lpc["oid"] \in {"off", "join", "joining", "drain"} => power = "D0"
    /\ lpc["oid"] \in {"on", "copy", "probe", "starting"} => power = "D3"
    /\ lpc["oid"] # "queued"
    /\ lpc["halt"] \in {"idle", "off", "join", "joining", "drain"}

(* A pause that has closed the gate keeps it closed: every later refresh    *)
(* sees Paused, and a power-up copies a NdisPaused that is still set.       *)
PauseInv ==
    /\ ndis \in {"paused", "pausing", "halting"} => flag["NdisPaused"]
    /\ ndis = "paused" \/ npc \in {"ask", "wait"} => flag["Paused"] /\ gate # "SUCCESS"
    /\ ndis = "pausing" /\ npc = "refresh" => flag["Paused"]
    /\ lpc["oid"] = "copy" => sawPaused["oid"]

(* One worker at most, and N->Thread is it: except between its creation and *)
(* its first step, while the power request waits for ThreadStarted.         *)
WorkerInv ==
    /\ \A w \in Workers :
         wpc[w] # "gone" =>
            \/ thread = w /\ lpc["oid"] \notin {"on", "copy", "probe"}
            \/ /\ thread = NoThread /\ wpc[w] = "begin" /\ lpc["oid"] = "starting"
               /\ ~flag["ThreadStarted"]
    /\ \A v, w \in Workers : wpc[v] # "gone" /\ wpc[w] # "gone" => v = w
    /\ \A w \in Workers : wpc[w] = "begin" => thread = NoThread
    /\ \A a \in {"oid", "halt"} :
         /\ lpc[a] = "joining" => target[a] = thread /\ thread # NoThread
         /\ lpc[a] = "drain" => Alive = {}
    /\ lpc["oid"] \in {"drain", "on", "copy", "probe"} => thread = NoThread
    /\ power = "D3" /\ lpc["oid"] # "starting" => Alive = {} /\ thread = NoThread
    /\ power = "D3" => held = 0
    /\ power = "D3" /\ lpc["oid"] \in {"idle", "on"} => flag["IoStopped"]
    /\ freed => Alive = {} /\ held = 0

(* All this as long as no recovery has been queued. *)
FirstLife == lpc["recovery"] = "idle" /\ NdisInv /\ PauseInv /\ WorkerInv
LifeInv == TypeOK /\ ServedInv /\ (attempts = 0 => FirstLife)

-----------------------------------------------------------------------------
(* What CywRefreshTxGate and CywLink may store. *)
LEMMA RefreshIs ==
    ASSUME NEW f \in [Flags -> BOOLEAN], NEW up \in BOOLEAN
    PROVE  /\ CywRefreshTxGate(f, up) \in Gates
           /\ CywRefreshTxGate(f, up) = "SUCCESS" => f["Ready"] /\ ~f["Paused"]
BY DEF CywRefreshTxGate, Gates

LEMMA LinkIs ==
    ASSUME NEW f \in [Flags -> BOOLEAN], NEW up \in BOOLEAN, CywLink(f, up), gate \in Gates
    PROVE  /\ link' = up /\ gate' \in Gates
           /\ gate' = gate \/ (gate' = "SUCCESS" => f["Ready"] /\ ~f["Paused"])
BY RefreshIs DEF CywLink

-----------------------------------------------------------------------------
(* The type invariant, one kind of actor at a time. *)
LEMMA TypeNdis == TypeOK /\ (Ndis \/ CywNetworkPause) => TypeOK'
<1> SUFFICES ASSUME TypeOK PROVE Ndis \/ CywNetworkPause => TypeOK' OBVIOUS
<1> USE LifecycleAssumption DEF TypeOK, ndisState, actorState, workState, queueState
<1>1. CASE PauseBegin BY <1>1 DEF PauseBegin
<1>2. CASE RestartBegin BY <1>2 DEF RestartBegin
<1>3. CASE Send BY <1>3 DEF Send
<1>4. CASE PowerRequest BY <1>4 DEF PowerRequest
<1>5. CASE HaltRequest BY <1>5 DEF HaltRequest
<1>6. CASE PauseSet BY <1>6 DEF PauseSet
<1>7. CASE PauseRefresh BY <1>7, RefreshIs DEF PauseRefresh
<1>8. CASE PauseAsk BY <1>8 DEF PauseAsk
<1>9. CASE PauseAcked BY <1>9 DEF PauseAcked
<1>10. QED BY <1>1, <1>2, <1>3, <1>4, <1>5, <1>6, <1>7, <1>8, <1>9 DEF Ndis, CywNetworkPause

LEMMA TypePower ==
    ASSUME TypeOK, NEW a \in Actors, CywNetworkPower(a) PROVE TypeOK'
<1> USE LifecycleAssumption DEF TypeOK, ndisState, actorState, workState, queueState, At, Goto
<1>1. CASE OffBegin(a)
  <2>1. flag' \in [Flags -> BOOLEAN] BY <1>1 DEF OffBegin
  <2>2. gate' \in Gates BY <1>1, <2>1, RefreshIs DEF OffBegin
  <2>3. QED BY <1>1, <2>1, <2>2 DEF OffBegin
<1>2. CASE Join(a) BY <1>2 DEF Join, JoinTarget
<1>3. CASE Joined(a) BY <1>3 DEF Joined
<1>4. CASE PowerDown(a) BY <1>4 DEF PowerDown, Flushed, Gates
<1>5. CASE OnRunning(a) BY <1>5 DEF OnRunning, Done
<1>6. CASE OnBegin(a) BY <1>6 DEF OnBegin, Flags
<1>7. CASE OnCopy(a) BY <1>7 DEF OnCopy
<1>8. CASE OnFails(a) BY <1>8 DEF OnFails, Done
<1>9. ASSUME NEW w \in Workers, OnLaunch(a, w) PROVE TypeOK'
  BY <1>9 DEF OnLaunch, Points
<1>10. CASE OnStarted(a) BY <1>10 DEF OnStarted, Done
<1>11. QED BY <1>1, <1>2, <1>3, <1>4, <1>5, <1>6, <1>7, <1>8, <1>9, <1>10 DEF CywNetworkPower

LEMMA TypeWorker ==
    ASSUME TypeOK, NEW w \in Workers, CywWorker(w) PROVE TypeOK'
<1> USE LifecycleAssumption DEF TypeOK, ndisState, actorState, queueState, lifeState,
        Worker, Resume, Points
<1>1. CASE WorkerBegin(w) BY <1>1 DEF WorkerBegin
<1>2. CASE WorkerLoadFails(w) BY <1>2 DEF WorkerLoadFails
<1>3. CASE WorkerLoaded(w) BY <1>3 DEF WorkerLoaded
<1>4. CASE WorkerReady(w)
  <2>1. flag' \in [Flags -> BOOLEAN] BY <1>4 DEF WorkerReady
  <2>2. gate' \in Gates BY <1>4, <2>1, RefreshIs DEF WorkerReady
  <2>3. QED BY <1>4, <2>1, <2>2 DEF WorkerReady
<1>5. CASE WorkerLoop(w) BY <1>5 DEF WorkerLoop
<1>6. CASE WorkerFlush(w) BY <1>6 DEF WorkerFlush, Gates
<1>7. CASE WorkerDrain(w) BY <1>7 DEF WorkerDrain, Flushed
<1>8. CASE WorkerAck(w) BY <1>8 DEF WorkerAck, PauseAckSet
<1>9. CASE WorkerSends(w) BY <1>9 DEF WorkerSends
<1>10. ASSUME NEW up \in BOOLEAN, WorkerLink(w, up) PROVE TypeOK'
  BY <1>10, LinkIs DEF WorkerLink
<1>11. ASSUME NEW up \in BOOLEAN, WorkerRequest(w, up) PROVE TypeOK'
  BY <1>11, RefreshIs DEF WorkerRequest, Flushed
<1>12. CASE WorkerCycleEnds(w) BY <1>12 DEF WorkerCycleEnds
<1>13. ASSUME NEW fatal \in BOOLEAN, WorkerCycleFails(w, fatal) PROVE TypeOK'
  <2>1. CywRuntimeRecoveryEligible(fatal) \in BOOLEAN BY DEF CywRuntimeRecoveryEligible
  <2>2. QED BY <1>13, <2>1 DEF WorkerCycleFails
<1>14. CASE WorkerFailed(w)
  <2>1. flag' \in [Flags -> BOOLEAN] /\ CywLink(flag', FALSE) BY <1>14 DEF WorkerFailed
  <2>2. link' \in BOOLEAN /\ gate' \in Gates BY <2>1, LinkIs
  <2>3. QED BY <1>14, <2>1, <2>2 DEF WorkerFailed
<1>15. ASSUME NEW allocated \in BOOLEAN, WorkerQueues(w, allocated) PROVE TypeOK'
  <2>1. attempts' \in 0..RecoveryMax BY <1>15 DEF WorkerQueues, AttemptLeft
  <2>2. lpc' = [lpc EXCEPT !["recovery"] = "queued"] \/ lpc' = lpc
    BY <1>15 DEF WorkerQueues, Goto
  <2>3. QED BY <1>15, <2>1, <2>2 DEF WorkerQueues
<1>16. CASE WorkerExit(w) BY <1>16 DEF WorkerExit, Flushed, Gates
<1>17. CASE WorkerGone(w) BY <1>17 DEF WorkerGone
<1>18. QED
  BY <1>1, <1>2, <1>3, <1>4, <1>5, <1>6, <1>7, <1>8, <1>9, <1>10, <1>11, <1>12, <1>13, <1>14,
     <1>15, <1>16, <1>17
  DEF CywWorker

LEMMA TypeKept == TypeOK /\ [Next]_vars => TypeOK'
<1> SUFFICES ASSUME TypeOK, [Next]_vars PROVE TypeOK' OBVIOUS
<1>1. CASE Ndis \/ CywNetworkPause BY <1>1, TypeNdis
<1>2. ASSUME NEW a \in Actors, CywNetworkPower(a) PROVE TypeOK' BY <1>2, TypePower
<1>3. CASE HaltDown
  BY <1>3 DEF HaltDown, TypeOK, Goto, Flushed, Gates, ndisState, workState
<1>4. CASE RecoveryBegins
  BY <1>4 DEF RecoveryBegins, TypeOK, Goto, queueState, ndisState, workState
<1>5. ASSUME NEW w \in Workers, CywWorker(w) PROVE TypeOK' BY <1>5, TypeWorker
<1>6. CASE UNCHANGED vars BY <1>6 DEF vars, TypeOK
<1>7. QED BY <1>1, <1>2, <1>3, <1>4, <1>5, <1>6 DEF Next

-----------------------------------------------------------------------------
(* Sends and the worker that serves them. *)
LEMMA ServedStays ==
    ASSUME ServedInv, \A w \in Workers : wpc[w] \in Serving => wpc'[w] \in Serving,
           flag'["Ready"] => flag["Ready"], gate' = "SUCCESS" => gate = "SUCCESS" \/ flag["Ready"],
           held' > 0 => held > 0 \/ gate = "SUCCESS"
    PROVE  ServedInv'
BY DEF ServedInv

LEMMA ServedNow ==
    ASSUME NEW w \in Workers, wpc'[w] \in Serving
    PROVE  ServedInv'
BY DEF ServedInv

LEMMA ServedNdis == TypeOK /\ ServedInv /\ (Ndis \/ CywNetworkPause) => ServedInv'
<1> SUFFICES ASSUME TypeOK, ServedInv, Ndis \/ CywNetworkPause PROVE ServedInv' OBVIOUS
<1> USE DEF ndisState, actorState, workState, queueState
<1>0. flag \in [Flags -> BOOLEAN] /\ link \in BOOLEAN BY DEF TypeOK
<1>1. CASE PauseBegin
  <2>1. flag'["Ready"] <=> flag["Ready"] BY <1>0, <1>1 DEF PauseBegin, Flags
  <2>2. QED BY <1>1, <2>1, ServedStays DEF PauseBegin
<1>2. CASE RestartBegin
  <2>1. flag'["Ready"] <=> flag["Ready"] BY <1>0, <1>2 DEF RestartBegin, Flags
  <2>2. QED BY <1>2, <2>1, ServedStays DEF RestartBegin
<1>3. CASE Send BY <1>3, ServedStays DEF Send
<1>4. CASE PowerRequest BY <1>4, ServedStays DEF PowerRequest
<1>5. CASE HaltRequest BY <1>5, ServedStays DEF HaltRequest
<1>6. CASE PauseSet
  <2>1. flag'["Ready"] <=> flag["Ready"] BY <1>0, <1>6 DEF PauseSet, Flags
  <2>2. QED BY <1>6, <2>1, ServedStays DEF PauseSet
<1>7. CASE PauseRefresh BY <1>0, <1>7, RefreshIs, ServedStays DEF PauseRefresh
<1>8. CASE PauseAsk BY <1>8, ServedStays DEF PauseAsk
<1>9. CASE PauseAcked BY <1>9, ServedStays DEF PauseAcked
<1>10. QED BY <1>1, <1>2, <1>3, <1>4, <1>5, <1>6, <1>7, <1>8, <1>9 DEF Ndis, CywNetworkPause

LEMMA ServedPower ==
    ASSUME TypeOK, ServedInv, NEW a \in Actors, CywNetworkPower(a) PROVE ServedInv'
<1> USE DEF ndisState, actorState, workState, queueState
<1>0. flag \in [Flags -> BOOLEAN] /\ link \in BOOLEAN /\ wpc \in [Workers -> Points]
  BY DEF TypeOK
<1>1. CASE OffBegin(a)
  <2>1. flag' \in [Flags -> BOOLEAN] /\ (flag'["Ready"] => flag["Ready"])
    BY <1>0, <1>1 DEF OffBegin, Flags
  <2>2. gate' = "SUCCESS" => flag'["Ready"] BY <1>0, <1>1, <2>1, RefreshIs DEF OffBegin
  <2>3. QED BY <1>1, <2>1, <2>2, ServedStays DEF OffBegin
<1>2. CASE Join(a) BY <1>2, ServedStays DEF Join
<1>3. CASE Joined(a) BY <1>3, ServedStays DEF Joined
<1>4. CASE PowerDown(a)
  <2>1. flag'["Ready"] <=> flag["Ready"] BY <1>0, <1>4 DEF PowerDown, Flags
  <2>2. ~(held' > 0) /\ gate' # "SUCCESS" BY <1>4 DEF PowerDown, Flushed
  <2>3. QED BY <1>4, <2>1, <2>2, ServedStays DEF PowerDown
<1>5. CASE OnRunning(a) BY <1>5, ServedStays DEF OnRunning
<1>6. CASE OnBegin(a)
  <2>1. ~flag'["Ready"] BY <1>0, <1>6 DEF OnBegin, Flags
  <2>2. QED BY <1>6, <2>1, ServedStays DEF OnBegin
<1>7. CASE OnCopy(a)
  <2>1. flag'["Ready"] <=> flag["Ready"] BY <1>0, <1>7 DEF OnCopy, Flags
  <2>2. QED BY <1>7, <2>1, ServedStays DEF OnCopy
<1>8. CASE OnFails(a) BY <1>8, ServedStays DEF OnFails
<1>9. ASSUME NEW w \in Workers, OnLaunch(a, w) PROVE ServedInv'
  <2>1. flag'["Ready"] <=> flag["Ready"] BY <1>0, <1>9 DEF OnLaunch, Flags
  <2>2. \A x \in Workers : wpc[x] \in Serving => wpc'[x] = wpc[x]
    BY <1>0, <1>9 DEF OnLaunch, Serving
  <2>3. QED BY <1>9, <2>1, <2>2, ServedStays DEF OnLaunch
<1>10. CASE OnStarted(a) BY <1>10, ServedStays DEF OnStarted
<1>11. QED BY <1>1, <1>2, <1>3, <1>4, <1>5, <1>6, <1>7, <1>8, <1>9, <1>10 DEF CywNetworkPower

LEMMA ServedWorker ==
    ASSUME TypeOK, ServedInv, NEW w \in Workers, CywWorker(w) PROVE ServedInv'
<1> USE DEF queueState, Worker, Resume
<1>0. flag \in [Flags -> BOOLEAN] /\ link \in BOOLEAN /\ wpc \in [Workers -> Points]
  BY DEF TypeOK
<1>1. ASSUME wpc'[w] \in Serving PROVE ServedInv' BY <1>1, ServedNow
<1>2. ASSUME NEW p, wpc' = [wpc EXCEPT ![w] = p] PROVE wpc'[w] = p BY <1>0, <1>2
<1>3. ASSUME NEW p, wpc' = [wpc EXCEPT ![w] = p], wpc[w] \notin Serving, held' = held,
             flag'["Ready"] <=> flag["Ready"], gate' = gate
      PROVE  ServedInv'
  <2>1. \A x \in Workers : wpc[x] \in Serving => wpc'[x] = wpc[x] BY <1>0, <1>3
  <2>2. QED BY <1>3, <2>1, ServedStays
<1>4. CASE WorkerBegin(w)
  <2>1. flag'["Ready"] <=> flag["Ready"] BY <1>0, <1>4 DEF WorkerBegin, Flags
  <2>2. QED BY <1>3, <1>4, <2>1 DEF WorkerBegin, Serving
<1>5. CASE WorkerLoadFails(w) BY <1>1, <1>2, <1>5 DEF WorkerLoadFails, Serving
<1>6. CASE WorkerLoaded(w) BY <1>3, <1>6 DEF WorkerLoaded, Serving
<1>7. CASE WorkerReady(w) BY <1>1, <1>2, <1>7 DEF WorkerReady, Serving
<1>8. CASE WorkerLoop(w)
  <2>1. \E p \in Serving : wpc' = [wpc EXCEPT ![w] = p] BY <1>8 DEF WorkerLoop, Serving
  <2>2. QED BY <1>1, <1>2, <2>1
<1>9. CASE WorkerFlush(w) BY <1>1, <1>2, <1>9 DEF WorkerFlush, Serving
<1>10. CASE WorkerDrain(w)
  <2>1. wpc' = [wpc EXCEPT ![w] = "ack"] \/ (wpc' = wpc /\ wpc[w] = "drain")
    BY <1>10 DEF WorkerDrain
  <2>2. QED BY <1>1, <1>2, <2>1 DEF Serving
<1>11. CASE WorkerAck(w) BY <1>1, <1>2, <1>11 DEF WorkerAck, Serving
<1>12. CASE WorkerSends(w) BY <1>1, <1>12 DEF WorkerSends, Serving
<1>13. ASSUME NEW up \in BOOLEAN, WorkerLink(w, up) \/ WorkerRequest(w, up) PROVE ServedInv'
  BY <1>1, <1>13 DEF WorkerLink, WorkerRequest, Serving
<1>14. CASE WorkerCycleEnds(w) BY <1>1, <1>2, <1>14 DEF WorkerCycleEnds, Serving
<1>15. ASSUME NEW fatal \in BOOLEAN, WorkerCycleFails(w, fatal) PROVE ServedInv'
  BY <1>1, <1>2, <1>15 DEF WorkerCycleFails, Serving
<1>16. CASE WorkerFailed(w) BY <1>1, <1>2, <1>16 DEF WorkerFailed, Serving
<1>17. ASSUME NEW allocated \in BOOLEAN, WorkerQueues(w, allocated) PROVE ServedInv'
  BY <1>1, <1>2, <1>17 DEF WorkerQueues, Serving
<1>18. CASE WorkerExit(w)
  <2>1. ~flag'["Ready"] BY <1>0, <1>18 DEF WorkerExit, Flags
  <2>2. ~(held' > 0) /\ gate' # "SUCCESS" BY <1>18 DEF WorkerExit, Flushed
  <2>3. QED BY <2>1, <2>2 DEF ServedInv
<1>19. CASE WorkerGone(w)
  <2>1. flag'["Ready"] <=> flag["Ready"] BY <1>0, <1>19 DEF WorkerGone, Flags
  <2>2. QED BY <1>3, <1>19, <2>1 DEF WorkerGone, Serving
<1>20. QED
  BY <1>4, <1>5, <1>6, <1>7, <1>8, <1>9, <1>10, <1>11, <1>12, <1>13, <1>14, <1>15, <1>16, <1>17,
     <1>18, <1>19
  DEF CywWorker

LEMMA ServedKept == TypeOK /\ ServedInv /\ [Next]_vars => ServedInv'
<1> SUFFICES ASSUME TypeOK, ServedInv, [Next]_vars PROVE ServedInv' OBVIOUS
<1>1. CASE Ndis \/ CywNetworkPause BY <1>1, ServedNdis
<1>2. ASSUME NEW a \in Actors, CywNetworkPower(a) PROVE ServedInv' BY <1>2, ServedPower
<1>3. CASE HaltDown BY <1>3, ServedStays DEF HaltDown, Flushed, workState
<1>4. CASE RecoveryBegins BY <1>4, ServedStays DEF RecoveryBegins, queueState, workState
<1>5. ASSUME NEW w \in Workers, CywWorker(w) PROVE ServedInv' BY <1>5, ServedWorker
<1>6. CASE UNCHANGED vars BY <1>6, ServedStays DEF vars
<1>7. QED BY <1>1, <1>2, <1>3, <1>4, <1>5, <1>6 DEF Next

-----------------------------------------------------------------------------
(* Until a recovery is queued a worker leaves the state of the others alone. *)
LEMMA WorkerLeaves ==
    ASSUME TypeOK, NEW w \in Workers, CywWorker(w), attempts' = 0
    PROVE  UNCHANGED <<attempts, freed, ndis, power, npc, lpc, target, sawPaused>>
<1> USE DEF lifeState, ndisState, actorState
<1>1. ASSUME NEW allocated \in BOOLEAN, WorkerQueues(w, allocated)
      PROVE  UNCHANGED <<attempts, freed, ndis, power, npc, lpc, target, sawPaused>>
  <2>1. attempts \in Nat BY LifecycleAssumption DEF TypeOK
  <2>2. attempts' # attempts + 1 BY <2>1
  <2>3. QED BY <1>1, <2>2 DEF WorkerQueues
<1>2. QED
  BY <1>1
  DEF CywWorker, WorkerBegin, WorkerLoadFails, WorkerLoaded, WorkerReady, WorkerLoop, WorkerFlush,
      WorkerDrain, WorkerAck, WorkerSends, WorkerLink, WorkerRequest, WorkerCycleEnds,
      WorkerCycleFails, WorkerFailed, WorkerExit, WorkerGone

(* Nobody but a worker counts an attempt. *)
LEMMA AttemptsStay ==
    ASSUME Ndis \/ CywNetworkPause \/ HaltDown \/ RecoveryBegins
             \/ \E a \in Actors : CywNetworkPower(a)
    PROVE  attempts' = attempts
BY DEF Ndis, CywNetworkPause, CywNetworkPower, PauseBegin, RestartBegin, Send, PowerRequest,
       HaltRequest, PauseSet, PauseRefresh, PauseAsk, PauseAcked, OffBegin, Join, Joined,
       PowerDown, HaltDown, OnRunning, OnBegin, OnCopy, OnFails, OnLaunch, OnStarted,
       RecoveryBegins

(* The actors that move are the power request and the halt, and the halt    *)
(* only takes the network down.                                             *)
LEMMA FirstActor ==
    ASSUME FirstLife, NEW a \in Actors, CywNetworkPower(a)
    PROVE  /\ a \in {"oid", "halt"}
           /\ a = "halt" => OffBegin(a) \/ Join(a) \/ Joined(a)
<1>1. lpc[a] \notin {"idle", "queued"}
  BY DEF CywNetworkPower, OffBegin, Join, Joined, PowerDown, OnRunning, OnBegin, OnCopy, OnFails,
         OnLaunch, OnStarted, At
<1>2. a # "recovery" BY <1>1 DEF FirstLife
<1>3. ASSUME a = "halt" PROVE OffBegin(a) \/ Join(a) \/ Joined(a)
  <2>1. lpc[a] \notin {"on", "copy", "probe", "starting"} BY <1>3 DEF FirstLife, NdisInv
  <2>2. QED BY <1>3, <2>1 DEF CywNetworkPower, PowerDown, OnRunning, OnBegin, OnCopy, OnFails,
         OnLaunch, OnStarted, At
<1>4. QED BY <1>2, <1>3 DEF Actors

-----------------------------------------------------------------------------
(* NDIS's calls exclude each other. *)
LEMMA NdisByNdis ==
    ASSUME TypeOK, FirstLife, ~freed, Ndis \/ CywNetworkPause
    PROVE  NdisInv' /\ lpc'["recovery"] = "idle"
<1> USE DEF FirstLife, NdisInv, ndisState, actorState
<1>0. lpc \in [Actors -> {"idle", "queued", "off", "join", "joining", "drain", "on", "copy",
                          "probe", "starting"}]
  BY DEF TypeOK
<1>1. CASE PauseBegin BY <1>1 DEF PauseBegin
<1>2. CASE RestartBegin BY <1>2 DEF RestartBegin
<1>3. CASE Send BY <1>3 DEF Send
<1>4. CASE PowerRequest
  <2>1. lpc' = [lpc EXCEPT !["oid"] = IF power = "D0" THEN "off" ELSE "on"]
    BY <1>4 DEF PowerRequest
  <2>2. /\ lpc'["oid"] = IF power = "D0" THEN "off" ELSE "on"
        /\ lpc'["halt"] = lpc["halt"] /\ lpc'["recovery"] = lpc["recovery"]
    BY <1>0, <2>1 DEF Actors
  <2>3. power \in {"D0", "D3"} BY DEF TypeOK
  <2>4. QED BY <1>4, <2>2, <2>3 DEF PowerRequest, Rested
<1>5. CASE HaltRequest
  <2>1. /\ lpc'["halt"] = "off"
        /\ lpc'["oid"] = lpc["oid"] /\ lpc'["recovery"] = lpc["recovery"]
    BY <1>0, <1>5 DEF HaltRequest, Actors
  <2>2. QED BY <1>5, <2>1 DEF HaltRequest, Rested
<1>6. CASE PauseSet BY <1>6 DEF PauseSet
<1>7. CASE PauseRefresh BY <1>7 DEF PauseRefresh, TypeOK
<1>8. CASE PauseAsk BY <1>8 DEF PauseAsk
<1>9. CASE PauseAcked BY <1>9 DEF PauseAcked
<1>10. QED BY <1>1, <1>2, <1>3, <1>4, <1>5, <1>6, <1>7, <1>8, <1>9 DEF Ndis, CywNetworkPause

LEMMA NdisByPower ==
    ASSUME TypeOK, FirstLife, NEW a \in Actors, CywNetworkPower(a)
    PROVE  NdisInv' /\ lpc'["recovery"] = "idle"
<1> USE DEF ndisState, actorState
<1>0. lpc \in [Actors -> {"idle", "queued", "off", "join", "joining", "drain", "on", "copy",
                          "probe", "starting"}]
  BY DEF TypeOK
<1>1. a \in {"oid", "halt"} /\ (a = "halt" => OffBegin(a) \/ Join(a) \/ Joined(a))
  BY FirstActor
<1>2. ASSUME NEW p, Goto(a, p)
      PROVE  /\ lpc'[a] = p /\ lpc'["recovery"] = lpc["recovery"]
             /\ a = "oid" => lpc'["halt"] = lpc["halt"]
             /\ a = "halt" => lpc'["oid"] = lpc["oid"]
  BY <1>0, <1>2, <1>1 DEF Goto, Actors
<1> USE DEF FirstLife, NdisInv, At
<1>3. CASE OffBegin(a)
  BY <1>1, <1>2, <1>3 DEF OffBegin
<1>4. CASE Join(a)
  <2>1. PICK p \in {"drain", "joining"} : Goto(a, p) BY <1>4 DEF Join
  <2>2. QED BY <1>1, <1>2, <1>4, <2>1 DEF Join
<1>5. CASE Joined(a) BY <1>1, <1>2, <1>5 DEF Joined
<1>6. ASSUME a = "oid", PowerDown(a) PROVE NdisInv' /\ lpc'["recovery"] = "idle"
  <2>1. Goto(a, "idle") BY <1>6 DEF PowerDown
  <2>2. lpc["oid"] = "drain" /\ power' = "D3" /\ UNCHANGED <<npc, ndis, freed>>
    BY <1>6 DEF PowerDown
  <2>3. lpc["halt"] = "idle" /\ ~freed BY <2>2
  <2>4. QED BY <1>2, <1>6, <2>1, <2>2, <2>3
<1>7. ASSUME a = "oid", OnRunning(a) \/ OnFails(a) \/ OnStarted(a)
      PROVE  NdisInv' /\ lpc'["recovery"] = "idle"
  <2>1. Goto(a, "idle") /\ power' = "D0" /\ UNCHANGED <<npc, ndis, freed>>
    BY <1>7 DEF OnRunning, OnFails, OnStarted, Done
  <2>2. QED BY <1>2, <1>7, <2>1
<1>8. ASSUME a = "oid", OnBegin(a) \/ OnCopy(a) \/ \E w \in Workers : OnLaunch(a, w)
      PROVE  NdisInv' /\ lpc'["recovery"] = "idle"
  <2>1. \E p \in {"copy", "probe", "starting"} : Goto(a, p)
    BY <1>8 DEF OnBegin, OnCopy, OnLaunch
  <2>2. UNCHANGED <<ndis, npc, power, freed>> /\ lpc["oid"] \in {"on", "copy", "probe"}
    BY <1>8 DEF OnBegin, OnCopy, OnLaunch
  <2>3. QED BY <1>2, <1>8, <2>1, <2>2
<1>9. QED BY <1>1, <1>3, <1>4, <1>5, <1>6, <1>7, <1>8 DEF CywNetworkPower

LEMMA NdisKept ==
    ASSUME TypeOK, FirstLife, Next, attempts' = 0
    PROVE  NdisInv' /\ lpc'["recovery"] = "idle"
<1>1. CASE Ndis \/ CywNetworkPause BY <1>1, NdisByNdis DEF Next
<1>2. ASSUME NEW a \in Actors, CywNetworkPower(a) PROVE NdisInv' /\ lpc'["recovery"] = "idle"
  BY <1>2, NdisByPower
<1>3. CASE HaltDown
  <2>1. /\ lpc["halt"] = "drain" /\ lpc'["halt"] = "idle" /\ lpc'["oid"] = lpc["oid"]
        /\ lpc'["recovery"] = lpc["recovery"] /\ UNCHANGED <<ndis, npc, power>>
    BY <1>3 DEF HaltDown, TypeOK, Actors, At, Goto, ndisState
  <2>2. QED BY <2>1 DEF FirstLife, NdisInv
<1>4. CASE RecoveryBegins BY <1>4 DEF RecoveryBegins, At, FirstLife
<1>5. ASSUME NEW w \in Workers, CywWorker(w) PROVE NdisInv' /\ lpc'["recovery"] = "idle"
  <2>1. UNCHANGED <<attempts, freed, ndis, power, npc, lpc, target, sawPaused>>
    BY <1>5, WorkerLeaves
  <2>2. QED BY <2>1 DEF FirstLife, NdisInv
<1>6. QED BY <1>1, <1>2, <1>3, <1>4, <1>5 DEF Next

-----------------------------------------------------------------------------
(* The pause and the gate. *)
LEMMA PauseByNdis ==
    ASSUME TypeOK, FirstLife, ~freed, Ndis \/ CywNetworkPause
    PROVE  PauseInv'
<1> USE DEF FirstLife, NdisInv, PauseInv, ndisState, actorState, queueState
<1>0. flag \in [Flags -> BOOLEAN] /\ link \in BOOLEAN BY DEF TypeOK
<1>1. CASE PauseBegin
  <2>1. flag'["NdisPaused"] BY <1>0, <1>1 DEF PauseBegin, Flags
  <2>2. QED BY <1>1, <2>1 DEF PauseBegin
<1>2. CASE RestartBegin BY <1>2 DEF RestartBegin
<1>3. CASE Send BY <1>3 DEF Send
<1>4. CASE PowerRequest
  <2>1. lpc'["oid"] \in {"off", "on"} BY <1>4 DEF PowerRequest, TypeOK, Actors
  <2>2. QED BY <1>4, <2>1 DEF PowerRequest, Rested
<1>5. CASE HaltRequest
  <2>1. lpc'["oid"] = "idle" BY <1>5 DEF HaltRequest, Rested, TypeOK, Actors
  <2>2. QED BY <1>5, <2>1 DEF HaltRequest, Rested
<1>6. CASE PauseSet
  <2>1. /\ ndis = "pausing" => flag'["Paused"]
        /\ flag'["NdisPaused"] <=> flag["NdisPaused"]
    BY <1>0, <1>6 DEF PauseSet, Flags
  <2>2. QED BY <1>6, <2>1 DEF PauseSet
<1>7. CASE PauseRefresh
  <2>1. gate' = "SUCCESS" => ~flag["Paused"] BY <1>0, <1>7, RefreshIs DEF PauseRefresh
  <2>2. ndis \in {"pausing", "restarting"} BY <1>7 DEF PauseRefresh, TypeOK
  <2>3. QED BY <1>7, <2>1, <2>2 DEF PauseRefresh
<1>8. CASE PauseAsk BY <1>8 DEF PauseAsk
<1>9. CASE PauseAcked BY <1>9 DEF PauseAcked
<1>10. QED BY <1>1, <1>2, <1>3, <1>4, <1>5, <1>6, <1>7, <1>8, <1>9 DEF Ndis, CywNetworkPause

LEMMA PauseByPower ==
    ASSUME TypeOK, FirstLife, NEW a \in Actors, CywNetworkPower(a)
    PROVE  PauseInv'
<1> USE DEF ndisState, actorState, queueState
<1>0. /\ flag \in [Flags -> BOOLEAN] /\ link \in BOOLEAN
      /\ lpc \in [Actors -> {"idle", "queued", "off", "join", "joining", "drain", "on", "copy",
                             "probe", "starting"}]
      /\ sawPaused \in [Actors -> BOOLEAN]
  BY DEF TypeOK
<1>1. a \in {"oid", "halt"} /\ (a = "halt" => OffBegin(a) \/ Join(a) \/ Joined(a))
  BY FirstActor
<1>2. ASSUME NEW p, Goto(a, p), p # "copy" PROVE lpc'["oid"] = "copy" => lpc["oid"] = "copy"
  BY <1>0, <1>1, <1>2 DEF Goto, Actors
<1> USE DEF FirstLife, NdisInv, PauseInv, At
<1>3. CASE OffBegin(a)
  <2>1. /\ flag' \in [Flags -> BOOLEAN] /\ (flag'["Paused"] <=> flag["Paused"])
        /\ flag'["NdisPaused"] <=> flag["NdisPaused"]
    BY <1>0, <1>3 DEF OffBegin, Flags
  <2>2. gate' = "SUCCESS" => ~flag'["Paused"] BY <1>0, <1>3, <2>1, RefreshIs DEF OffBegin
  <2>3. QED BY <1>2, <1>3, <2>1, <2>2 DEF OffBegin
<1>4. CASE Join(a)
  <2>1. PICK p \in {"drain", "joining"} : Goto(a, p) BY <1>4 DEF Join
  <2>2. QED BY <1>2, <1>4, <2>1 DEF Join
<1>5. CASE Joined(a) BY <1>2, <1>5 DEF Joined
<1>6. CASE PowerDown(a)
  <2>1. (flag'["Paused"] <=> flag["Paused"]) /\ (flag'["NdisPaused"] <=> flag["NdisPaused"])
    BY <1>0, <1>6 DEF PowerDown, Flags
  <2>2. PICK p \in {"idle", "on"} : Goto(a, p) BY <1>6 DEF PowerDown
  <2>3. QED BY <1>2, <1>6, <2>1, <2>2 DEF PowerDown
<1>7. CASE OnRunning(a) \/ OnFails(a) \/ OnStarted(a)
  BY <1>2, <1>7 DEF OnRunning, OnFails, OnStarted, Done
<1>8. CASE OnBegin(a)
  <2>1. (flag'["Paused"] <=> flag["Paused"]) /\ (flag'["NdisPaused"] <=> flag["NdisPaused"])
    BY <1>0, <1>8 DEF OnBegin, Flags
  <2>2. a = "oid" BY <1>1, <1>8 DEF OnBegin, OffBegin, Join, Joined
  <2>3. flag["NdisPaused"] BY <1>8, <2>2 DEF OnBegin
  <2>4. sawPaused'["oid"] BY <1>0, <1>8, <2>2, <2>3 DEF OnBegin
  <2>5. QED BY <1>8, <2>1, <2>4 DEF OnBegin
<1>9. CASE OnCopy(a)
  <2>1. a = "oid" BY <1>1, <1>9 DEF OnCopy, OffBegin, Join, Joined
  <2>2. sawPaused["oid"] BY <1>9, <2>1 DEF OnCopy
  <2>3. flag'["Paused"] /\ (flag'["NdisPaused"] <=> flag["NdisPaused"])
    BY <1>0, <1>9, <2>1, <2>2 DEF OnCopy, Flags
  <2>4. lpc'["oid"] # "copy" BY <1>0, <1>9, <2>1 DEF OnCopy, Goto
  <2>5. QED BY <1>9, <2>3, <2>4 DEF OnCopy
<1>10. ASSUME NEW w \in Workers, OnLaunch(a, w) PROVE PauseInv'
  <2>1. (flag'["Paused"] <=> flag["Paused"]) /\ (flag'["NdisPaused"] <=> flag["NdisPaused"])
    BY <1>0, <1>10 DEF OnLaunch, Flags
  <2>2. QED BY <1>2, <1>10, <2>1 DEF OnLaunch
<1>11. QED BY <1>3, <1>4, <1>5, <1>6, <1>7, <1>8, <1>9, <1>10 DEF CywNetworkPower

(* What a worker may do to the flags and the gate. *)
LEMMA WorkerRefreshes ==
    ASSUME TypeOK, NEW w \in Workers, CywWorker(w)
    PROVE  /\ flag'["Paused"] <=> flag["Paused"]
           /\ flag'["NdisPaused"] <=> flag["NdisPaused"]
           /\ gate' = gate \/ (gate' = "SUCCESS" => ~flag["Paused"])
<1> USE DEF queueState
<1>0. flag \in [Flags -> BOOLEAN] /\ link \in BOOLEAN /\ gate \in Gates BY DEF TypeOK
<1>1. ASSUME WorkerLoadFails(w) \/ WorkerLoaded(w) \/ WorkerDrain(w) \/ WorkerSends(w)
               \/ WorkerCycleEnds(w) \/ (\E fatal \in BOOLEAN : WorkerCycleFails(w, fatal))
               \/ (\E allocated \in BOOLEAN : WorkerQueues(w, allocated)) \/ WorkerFlush(w)
      PROVE  flag' = flag /\ (gate' = gate \/ gate' # "SUCCESS")
  BY <1>1 DEF WorkerLoadFails, WorkerLoaded, WorkerDrain, WorkerSends, WorkerCycleEnds,
              WorkerCycleFails, WorkerQueues, WorkerFlush
<1>2. ASSUME WorkerBegin(w) \/ WorkerAck(w) \/ WorkerExit(w) \/ WorkerGone(w)
      PROVE  /\ flag'["Paused"] <=> flag["Paused"]
             /\ flag'["NdisPaused"] <=> flag["NdisPaused"]
             /\ gate' = gate \/ gate' # "SUCCESS"
  BY <1>0, <1>2 DEF WorkerBegin, WorkerAck, WorkerExit, WorkerGone, Flags
<1>3. ASSUME WorkerLoop(w)
      PROVE  /\ flag'["Paused"] <=> flag["Paused"]
             /\ flag'["NdisPaused"] <=> flag["NdisPaused"]
             /\ gate' = gate
  BY <1>0, <1>3 DEF WorkerLoop, Flags
<1>4. ASSUME WorkerReady(w)
      PROVE  /\ flag'["Paused"] <=> flag["Paused"]
             /\ flag'["NdisPaused"] <=> flag["NdisPaused"]
             /\ gate' = "SUCCESS" => ~flag["Paused"]
  <2>1. /\ flag' \in [Flags -> BOOLEAN] /\ (flag'["Paused"] <=> flag["Paused"])
        /\ flag'["NdisPaused"] <=> flag["NdisPaused"]
    BY <1>0, <1>4 DEF WorkerReady, Flags
  <2>2. QED BY <1>0, <1>4, <2>1, RefreshIs DEF WorkerReady
<1>5. ASSUME WorkerFailed(w)
      PROVE  /\ flag'["Paused"] <=> flag["Paused"]
             /\ flag'["NdisPaused"] <=> flag["NdisPaused"]
             /\ gate' = gate \/ (gate' = "SUCCESS" => ~flag["Paused"])
  <2>1. /\ flag' \in [Flags -> BOOLEAN] /\ (flag'["Paused"] <=> flag["Paused"])
        /\ flag'["NdisPaused"] <=> flag["NdisPaused"]
    BY <1>0, <1>5 DEF WorkerFailed, Flags
  <2>2. CywLink(flag', FALSE) BY <1>5 DEF WorkerFailed
  <2>3. QED BY <1>0, <2>1, <2>2, LinkIs
<1>6. ASSUME NEW up \in BOOLEAN, WorkerLink(w, up) \/ WorkerRequest(w, up)
      PROVE  flag' = flag /\ (gate' = gate \/ (gate' = "SUCCESS" => ~flag["Paused"]))
  BY <1>0, <1>6, LinkIs, RefreshIs DEF WorkerLink, WorkerRequest
<1>7. QED BY <1>1, <1>2, <1>3, <1>4, <1>5, <1>6 DEF CywWorker

LEMMA PauseKept ==
    ASSUME TypeOK, FirstLife, Next, attempts' = 0
    PROVE  PauseInv'
<1>1. CASE Ndis \/ CywNetworkPause BY <1>1, PauseByNdis DEF Next
<1>2. ASSUME NEW a \in Actors, CywNetworkPower(a) PROVE PauseInv' BY <1>2, PauseByPower
<1>3. CASE HaltDown
  <2>1. /\ lpc["halt"] = "drain" /\ lpc'["oid"] = lpc["oid"] /\ gate' # "SUCCESS"
        /\ UNCHANGED <<ndis, npc, flag, sawPaused>>
    BY <1>3 DEF HaltDown, TypeOK, Actors, At, Goto, ndisState
  <2>2. QED BY <2>1 DEF FirstLife, PauseInv
<1>4. CASE RecoveryBegins BY <1>4 DEF RecoveryBegins, At, FirstLife
<1>5. ASSUME NEW w \in Workers, CywWorker(w) PROVE PauseInv'
  <2>1. UNCHANGED <<attempts, freed, ndis, power, npc, lpc, target, sawPaused>>
    BY <1>5, WorkerLeaves
  <2>2. QED BY <1>5, <2>1, WorkerRefreshes DEF FirstLife, PauseInv
<1>6. QED BY <1>1, <1>2, <1>3, <1>4, <1>5 DEF Next

-----------------------------------------------------------------------------
(* The one worker. *)
LEMMA AliveIs ==
    /\ Alive = {} <=> \A w \in Workers : wpc[w] = "gone"
    /\ Alive' = {} <=> \A w \in Workers : wpc'[w] = "gone"
BY DEF Alive

LEMMA WorkerByNdis ==
    ASSUME TypeOK, FirstLife, ~freed, Ndis \/ CywNetworkPause
    PROVE  WorkerInv'
<1> USE DEF ndisState, actorState, queueState, workState
<1>0. flag \in [Flags -> BOOLEAN]
      /\ lpc \in [Actors -> {"idle", "queued", "off", "join", "joining", "drain", "on", "copy",
                             "probe", "starting"}]
  BY DEF TypeOK
<1>1. /\ UNCHANGED <<thread, target, wpc, power, freed>>
      /\ flag'["ThreadStarted"] <=> flag["ThreadStarted"]
      /\ flag'["IoStopped"] <=> flag["IoStopped"]
  <2>1. UNCHANGED <<thread, target, wpc, power, freed>>
    BY DEF Ndis, CywNetworkPause, PauseBegin, RestartBegin, Send, PowerRequest, HaltRequest,
           PauseSet, PauseRefresh, PauseAsk, PauseAcked
  <2>2. CASE PauseBegin BY <1>0, <2>1, <2>2 DEF PauseBegin, Flags
  <2>3. CASE RestartBegin BY <1>0, <2>1, <2>3 DEF RestartBegin, Flags
  <2>4. CASE PauseSet BY <1>0, <2>1, <2>4 DEF PauseSet, Flags
  <2>5. ASSUME ~PauseBegin, ~RestartBegin, ~PauseSet PROVE flag' = flag
    BY <2>5 DEF Ndis, CywNetworkPause, Send, PowerRequest, HaltRequest, PauseRefresh, PauseAsk,
                PauseAcked
  <2>6. QED BY <2>1, <2>2, <2>3, <2>4, <2>5
<1>2. power = "D3" => held' = held
  <2>1. CASE Send BY <2>1 DEF Send, FirstLife, NdisInv
  <2>2. ASSUME ~Send PROVE held' = held
    BY <2>2 DEF Ndis, CywNetworkPause, PauseBegin, RestartBegin, PowerRequest, HaltRequest,
           PauseSet, PauseRefresh, PauseAsk, PauseAcked
  <2>3. QED BY <2>1, <2>2
<1>3. Alive' = Alive BY <1>1 DEF Alive
<1>4. CASE PowerRequest
  <2>1. /\ lpc["oid"] = "idle" /\ lpc'["oid"] = IF power = "D0" THEN "off" ELSE "on"
        /\ lpc'["halt"] = lpc["halt"]
    BY <1>0, <1>4 DEF PowerRequest, Rested, Actors
  <2>2. power \in {"D0", "D3"} BY DEF TypeOK
  <2>3. CASE power = "D0" BY <1>1, <1>3, <2>1, <2>3 DEF FirstLife, WorkerInv
  <2>4. CASE power = "D3"
    <3>1. Alive = {} /\ thread = NoThread /\ held = 0 /\ flag["IoStopped"]
      BY <2>1, <2>4 DEF FirstLife, WorkerInv
    <3>2. \A w \in Workers : wpc'[w] = "gone" BY <1>1, <3>1, AliveIs
    <3>3. QED BY <1>1, <1>2, <1>3, <2>1, <2>4, <3>1, <3>2 DEF FirstLife, WorkerInv
  <2>5. QED BY <2>2, <2>3, <2>4
<1>5. CASE HaltRequest
  <2>1. lpc'["oid"] = lpc["oid"] /\ lpc'["halt"] = "off"
    BY <1>0, <1>5 DEF HaltRequest, Actors
  <2>2. QED BY <1>1, <1>2, <1>3, <2>1 DEF FirstLife, WorkerInv
<1>6. CASE ~PowerRequest /\ ~HaltRequest
  <2>1. lpc' = lpc
    BY <1>6 DEF Ndis, CywNetworkPause, PauseBegin, RestartBegin, Send, PauseSet, PauseRefresh,
                PauseAsk, PauseAcked
  <2>2. QED BY <1>1, <1>2, <1>3, <2>1 DEF FirstLife, WorkerInv
<1>7. QED BY <1>4, <1>5, <1>6

LEMMA WorkerByPower ==
    ASSUME TypeOK, FirstLife, ~freed, NEW a \in Actors, CywNetworkPower(a)
    PROVE  WorkerInv'
<1> USE DEF ndisState, actorState, queueState, workState
<1>0. /\ flag \in [Flags -> BOOLEAN]
      /\ lpc \in [Actors -> {"idle", "queued", "off", "join", "joining", "drain", "on", "copy",
                             "probe", "starting"}]
      /\ target \in [Actors -> Workers \cup {NoThread}]
      /\ thread \in Workers \cup {NoThread} /\ NoThread \notin Workers
      /\ wpc \in [Workers -> Points] /\ power \in {"D0", "D3"}
  BY LifecycleAssumption DEF TypeOK
<1>1. a \in {"oid", "halt"} /\ (a = "halt" => OffBegin(a) \/ Join(a) \/ Joined(a))
  BY FirstActor
<1>2. ASSUME NEW p, Goto(a, p)
      PROVE  /\ lpc'[a] = p
             /\ a = "oid" => lpc'["halt"] = lpc["halt"]
             /\ a = "halt" => lpc'["oid"] = lpc["oid"]
  BY <1>0, <1>2, <1>1 DEF Goto, Actors
<1>3. /\ lpc["oid"] # "idle" => lpc["halt"] = "idle" /\ ndis = "paused"
      /\ lpc["halt"] # "idle" => lpc["oid"] = "idle" /\ power = "D0"
  BY DEF FirstLife, NdisInv
<1>4. WorkerInv BY DEF FirstLife
<1>5. /\ lpc["oid"] \in {"off", "join", "joining", "drain"} => power = "D0"
      /\ lpc["oid"] \in {"on", "copy", "probe", "starting"} => power = "D3"
  BY DEF FirstLife, NdisInv
<1> USE DEF At
<1>6. CASE OffBegin(a)
  <2>1. /\ flag'["ThreadStarted"] <=> flag["ThreadStarted"]
        /\ flag'["IoStopped"] <=> flag["IoStopped"]
    BY <1>0, <1>6 DEF OffBegin, Flags
  <2>2. /\ lpc[a] = "off" /\ Goto(a, "join")
        /\ UNCHANGED <<thread, target, wpc, power, freed, held>>
    BY <1>6 DEF OffBegin
  <2>3. Alive' = Alive BY <2>2 DEF Alive
  <2>4. QED BY <1>1, <1>2, <1>3, <1>4, <1>5, <2>1, <2>2, <2>3 DEF WorkerInv
<1>7. CASE Join(a)
  <2>1. lpc[a] = "join" /\ UNCHANGED <<flag, thread, wpc, power, freed, held>>
        /\ target' = [target EXCEPT ![a] = thread]
    BY <1>7 DEF Join, JoinTarget
  <2>2. Alive' = Alive BY <2>1 DEF Alive
  <2>3. target'[a] = thread BY <1>0, <2>1
  <2>4. CASE thread = NoThread
    <3>1. Goto(a, "drain") BY <1>7, <2>4 DEF Join, JoinTarget
    <3>2. \A w \in Workers : wpc[w] = "gone" BY <1>0, <1>1, <1>3, <1>4, <2>1, <2>4 DEF WorkerInv
    <3>3. Alive' = {} BY <2>2, <3>2, AliveIs
    <3>4. \A w \in Workers : wpc'[w] = "gone" BY <2>1, <3>2
    <3>5. QED BY <1>1, <1>2, <1>3, <1>4, <1>5, <2>1, <2>4, <3>1, <3>3, <3>4 DEF WorkerInv
  <2>5. CASE thread # NoThread
    <3>1. Goto(a, "joining") BY <1>7, <2>5 DEF Join, JoinTarget
    <3>2. QED BY <1>1, <1>2, <1>3, <1>4, <1>5, <2>1, <2>2, <2>3, <2>5, <3>1 DEF WorkerInv
  <2>6. QED BY <2>4, <2>5
<1>8. CASE Joined(a)
  <2>1. /\ lpc[a] = "joining" /\ wpc[target[a]] = "gone" /\ Goto(a, "drain")
        /\ UNCHANGED <<flag, wpc, power, freed, held>>
        /\ thread' = IF a = "halt" THEN thread ELSE NoThread
    BY <1>8 DEF Joined
  <2>2. wpc[thread] = "gone" BY <1>1, <1>4, <2>1 DEF WorkerInv
  <2>3. \A w \in Workers : wpc[w] = "gone" BY <1>1, <1>3, <1>4, <2>1, <2>2 DEF WorkerInv
  <2>4. \A w \in Workers : wpc'[w] = "gone" BY <2>1, <2>3
  <2>5. Alive' = {} BY <2>4, AliveIs
  <2>6. QED BY <1>1, <1>2, <1>3, <1>4, <1>5, <2>1, <2>4, <2>5 DEF WorkerInv
<1>9. CASE PowerDown(a)
  <2>1. a = "oid" BY <1>1, <1>9 DEF PowerDown
  <2>2. /\ lpc["oid"] = "drain" /\ held' = 0 /\ power' = "D3" /\ Goto(a, "idle")
        /\ UNCHANGED <<thread, target, wpc, freed>>
    BY <1>9, <2>1 DEF PowerDown, Flushed
  <2>3. flag'["IoStopped"] BY <1>0, <1>9 DEF PowerDown, Flags
  <2>4. Alive = {} /\ thread = NoThread BY <1>4, <2>2 DEF WorkerInv
  <2>5. Alive' = {} /\ \A w \in Workers : wpc'[w] = "gone" BY <2>2, <2>4, AliveIs
  <2>6. QED BY <1>2, <1>3, <2>1, <2>2, <2>3, <2>4, <2>5 DEF WorkerInv
<1>10. CASE OnRunning(a) \/ OnFails(a) \/ OnStarted(a)
  <2>1. a = "oid" BY <1>1, <1>10 DEF OnRunning, OnFails, OnStarted, OffBegin, Join, Joined
  <2>2. /\ lpc["oid"] \in {"on", "probe", "starting"} /\ power' = "D0" /\ Goto(a, "idle")
        /\ UNCHANGED <<flag, thread, target, wpc, freed, held>>
    BY <1>10, <2>1 DEF OnRunning, OnFails, OnStarted, Done
  <2>3. lpc["oid"] = "starting" => flag["ThreadStarted"]
    BY <1>10, <2>1 DEF OnRunning, OnFails, OnStarted
  <2>4. \A w \in Workers : wpc[w] # "gone" => thread = w BY <1>4, <2>3 DEF WorkerInv
  <2>5. Alive' = Alive BY <2>2 DEF Alive
  <2>6. QED BY <1>2, <1>3, <1>4, <2>1, <2>2, <2>4, <2>5 DEF WorkerInv
<1>11. CASE OnBegin(a) \/ OnCopy(a)
  <2>1. a = "oid" BY <1>1, <1>11 DEF OnBegin, OnCopy, OffBegin, Join, Joined
  <2>2. lpc["oid"] \in {"on", "copy"} /\ UNCHANGED <<thread, target, wpc, power, freed, held>>
    BY <1>11, <2>1 DEF OnBegin, OnCopy
  <2>3. PICK p \in {"copy", "probe"} : Goto(a, p) BY <1>11 DEF OnBegin, OnCopy
  <2>4. Alive = {} /\ thread = NoThread BY <1>4, <1>5, <2>2 DEF WorkerInv
  <2>5. Alive' = {} /\ \A w \in Workers : wpc'[w] = "gone" BY <2>2, <2>4, AliveIs
  <2>6. QED BY <1>2, <1>3, <1>4, <1>5, <2>1, <2>2, <2>3, <2>4, <2>5 DEF WorkerInv
<1>12. ASSUME NEW w \in Workers, OnLaunch(a, w) PROVE WorkerInv'
  <2>1. a = "oid" BY <1>1, <1>12 DEF OnLaunch, OffBegin, Join, Joined
  <2>2. /\ lpc["oid"] = "probe" /\ UNCHANGED <<thread, target, power, freed, held>>
        /\ Goto(a, "starting") /\ wpc' = [wpc EXCEPT ![w] = "begin"]
    BY <1>12, <2>1 DEF OnLaunch
  <2>3. ~flag'["ThreadStarted"] BY <1>0, <1>12 DEF OnLaunch, Flags
  <2>4. Alive = {} /\ thread = NoThread BY <1>4, <1>5, <2>2 DEF WorkerInv
  <2>5. \A x \in Workers : wpc[x] = "gone" BY <2>4, AliveIs
  <2>6. \A x \in Workers : wpc'[x] = IF x = w THEN "begin" ELSE "gone" BY <1>0, <2>2, <2>5
  <2>7. QED BY <1>2, <1>3, <1>4, <1>5, <2>1, <2>2, <2>3, <2>4, <2>6 DEF WorkerInv
<1>13. QED BY <1>6, <1>7, <1>8, <1>9, <1>10, <1>11, <1>12 DEF CywNetworkPower

(* A worker's step moves that worker on; its first step makes it N->Thread. *)
LEMMA WorkerMoves ==
    ASSUME TypeOK, NEW w \in Workers, CywWorker(w)
    PROVE  /\ wpc[w] # "gone"
           /\ \E p \in Points \ {"begin"} : wpc' = [wpc EXCEPT ![w] = p]
           /\ wpc[w] = "begin" => thread' = w
           /\ wpc[w] # "begin" => /\ thread' = thread
                                  /\ flag'["ThreadStarted"] <=> flag["ThreadStarted"]
           /\ flag'["IoStopped"] <=> flag["IoStopped"]
           /\ held = 0 => held' = 0
<1> USE DEF queueState, Worker, Resume
<1> DEFINE Moves ==
        /\ wpc[w] # "gone"
        /\ \E p \in Points \ {"begin"} : wpc' = [wpc EXCEPT ![w] = p]
        /\ wpc[w] = "begin" => thread' = w
        /\ wpc[w] # "begin" => /\ thread' = thread
                               /\ flag'["ThreadStarted"] <=> flag["ThreadStarted"]
        /\ flag'["IoStopped"] <=> flag["IoStopped"]
        /\ held = 0 => held' = 0
<1>0. flag \in [Flags -> BOOLEAN] /\ wpc \in [Workers -> Points] /\ held \in Nat
  BY DEF TypeOK
<1>1. wpc[w] \in Points BY <1>0
<1>2. ASSUME NEW p \in Points \ {"begin"}, wpc[w] \notin {"gone", "begin"},
             wpc' = [wpc EXCEPT ![w] = p], thread' = thread,
             flag'["ThreadStarted"] <=> flag["ThreadStarted"],
             flag'["IoStopped"] <=> flag["IoStopped"], held = 0 => held' = 0
      PROVE  Moves
  BY <1>2
<1>3. [wpc EXCEPT ![w] = wpc[w]] = wpc BY <1>0
<1>4. CASE WorkerBegin(w)
  <2>1. flag'["IoStopped"] <=> flag["IoStopped"] BY <1>0, <1>4 DEF WorkerBegin, Flags
  <2>2. "load" \in Points \ {"begin"} BY DEF Points
  <2>3. QED BY <1>4, <2>1, <2>2 DEF WorkerBegin
<1>5. CASE WorkerLoadFails(w) \/ WorkerFlush(w) \/ WorkerCycleEnds(w)
             \/ \E fatal \in BOOLEAN : WorkerCycleFails(w, fatal)
  <2>1. PICK p \in {"failed", "drain", "loop"} : wpc' = [wpc EXCEPT ![w] = p]
    BY <1>5 DEF WorkerLoadFails, WorkerFlush, WorkerCycleEnds, WorkerCycleFails
  <2>2. p \in Points \ {"begin"} BY DEF Points
  <2>3. flag' = flag /\ thread' = thread /\ held' = held /\ wpc[w] \in {"load", "flush", "cycle"}
    BY <1>5 DEF WorkerLoadFails, WorkerFlush, WorkerCycleEnds, WorkerCycleFails
  <2>4. QED BY <1>2, <2>1, <2>2, <2>3
<1>6. CASE WorkerLoaded(w)
  <2>1. PICK p \in {"exit", "ready"} : wpc' = [wpc EXCEPT ![w] = p] BY <1>6 DEF WorkerLoaded
  <2>2. p \in Points \ {"begin"} BY DEF Points
  <2>3. QED BY <1>2, <1>6, <2>1, <2>2 DEF WorkerLoaded
<1>7. CASE WorkerReady(w) \/ WorkerAck(w) \/ WorkerFailed(w) \/ WorkerGone(w)
  <2>1. PICK p \in {"loop", "queue", "gone"} : wpc' = [wpc EXCEPT ![w] = p]
    BY <1>7 DEF WorkerReady, WorkerAck, WorkerFailed, WorkerGone
  <2>2. p \in Points \ {"begin"} BY DEF Points
  <2>3. thread' = thread /\ held' = held /\ wpc[w] \in {"ready", "ack", "failed", "bye"}
    BY <1>7 DEF WorkerReady, WorkerAck, WorkerFailed, WorkerGone
  <2>4. /\ flag'["ThreadStarted"] <=> flag["ThreadStarted"]
        /\ flag'["IoStopped"] <=> flag["IoStopped"]
    BY <1>0, <1>7 DEF WorkerReady, WorkerAck, WorkerFailed, WorkerGone, Flags
  <2>5. QED BY <1>2, <2>1, <2>2, <2>3, <2>4
<1>8. CASE WorkerLoop(w)
  <2>1. PICK p \in {"exit", "flush", "cycle"} : wpc' = [wpc EXCEPT ![w] = p]
    BY <1>8 DEF WorkerLoop
  <2>2. p \in Points \ {"begin"} BY DEF Points
  <2>3. /\ flag'["ThreadStarted"] <=> flag["ThreadStarted"]
        /\ flag'["IoStopped"] <=> flag["IoStopped"]
    BY <1>0, <1>8 DEF WorkerLoop, Flags
  <2>4. QED BY <1>2, <1>8, <2>1, <2>2, <2>3 DEF WorkerLoop
<1>9. CASE WorkerDrain(w)
  <2>1. PICK p \in {"ack", "drain"} : wpc' = [wpc EXCEPT ![w] = p]
    BY <1>3, <1>9 DEF WorkerDrain
  <2>2. p \in Points \ {"begin"} BY DEF Points
  <2>3. held = 0 => held' = 0 BY <1>9 DEF WorkerDrain, Flushed
  <2>4. QED BY <1>2, <1>9, <2>1, <2>2, <2>3 DEF WorkerDrain
<1>10. CASE WorkerSends(w) \/ \E up \in BOOLEAN : WorkerLink(w, up) \/ WorkerRequest(w, up)
  <2>1. wpc[w] = "cycle" /\ wpc' = wpc /\ flag' = flag /\ thread' = thread
    BY <1>10 DEF WorkerSends, WorkerLink, WorkerRequest
  <2>2. held = 0 => held' = 0
    BY <1>0, <1>10 DEF WorkerSends, WorkerLink, WorkerRequest, Flushed
  <2>3. "cycle" \in Points \ {"begin"} BY DEF Points
  <2>4. wpc' = [wpc EXCEPT ![w] = "cycle"] BY <1>3, <2>1
  <2>5. QED BY <1>2, <2>1, <2>2, <2>3, <2>4
<1>11. ASSUME NEW allocated \in BOOLEAN, WorkerQueues(w, allocated) PROVE Moves
  <2>1. "exit" \in Points \ {"begin"} BY DEF Points
  <2>2. QED BY <1>2, <1>11, <2>1 DEF WorkerQueues
<1>12. CASE WorkerExit(w)
  <2>1. "bye" \in Points \ {"begin"} BY DEF Points
  <2>2. /\ flag'["ThreadStarted"] <=> flag["ThreadStarted"]
        /\ flag'["IoStopped"] <=> flag["IoStopped"]
    BY <1>0, <1>12 DEF WorkerExit, Flags
  <2>3. QED BY <1>2, <1>12, <2>1, <2>2 DEF WorkerExit, Flushed
<1>13. QED BY <1>4, <1>5, <1>6, <1>7, <1>8, <1>9, <1>10, <1>11, <1>12 DEF CywWorker

LEMMA WorkerByWorker ==
    ASSUME TypeOK, FirstLife, ~freed, NEW w \in Workers, CywWorker(w), attempts' = 0
    PROVE  WorkerInv'
<1>1. UNCHANGED <<attempts, freed, ndis, power, npc, lpc, target, sawPaused>> BY WorkerLeaves
<1>2. /\ wpc[w] # "gone"
      /\ wpc[w] = "begin" => thread' = w
      /\ wpc[w] # "begin" => /\ thread' = thread
                             /\ flag'["ThreadStarted"] <=> flag["ThreadStarted"]
      /\ flag'["IoStopped"] <=> flag["IoStopped"]
      /\ held = 0 => held' = 0
  BY WorkerMoves
<1>3. PICK p \in Points \ {"begin"} : wpc' = [wpc EXCEPT ![w] = p] BY WorkerMoves
<1>4. wpc'[w] = p /\ \A x \in Workers \ {w} : wpc'[x] = wpc[x]
  BY <1>3 DEF TypeOK
<1>5. WorkerInv BY DEF FirstLife
<1>6. \A x \in Workers \ {w} : wpc[x] = "gone" BY <1>2, <1>5 DEF WorkerInv
<1>7. \A x \in Workers : wpc'[x] # "gone" => x = w BY <1>4, <1>6
<1>8. w \in Alive BY <1>2 DEF Alive
<1>9. CASE wpc[w] = "begin"
  <2>1. thread = NoThread /\ lpc["oid"] = "starting" /\ thread' = w
    BY <1>2, <1>5, <1>9, LifecycleAssumption DEF WorkerInv
  <2>2. lpc["halt"] = "idle" BY <2>1 DEF FirstLife, NdisInv
  <2>3. \A x \in Workers : wpc'[x] # "begin" BY <1>4, <1>6
  <2>4. QED BY <1>1, <1>2, <1>5, <1>7, <2>1, <2>2, <2>3 DEF WorkerInv
<1>10. CASE wpc[w] # "begin"
  <2>1. thread = w /\ thread' = w /\ lpc["oid"] \notin {"on", "copy", "probe"}
    BY <1>2, <1>5, <1>10 DEF WorkerInv
  <2>2. \A x \in Workers : wpc'[x] # "begin" BY <1>4, <1>6
  <2>3. w \in Workers /\ NoThread \notin Workers BY LifecycleAssumption
  <2>4. \A a \in {"oid", "halt"} : lpc[a] # "drain" BY <1>5, <1>8 DEF WorkerInv
  <2>5. power = "D3" => lpc["oid"] = "starting" BY <1>5, <1>8 DEF WorkerInv
  <2>6. QED BY <1>1, <1>2, <1>5, <1>7, <2>1, <2>2, <2>3, <2>4, <2>5 DEF WorkerInv
<1>11. QED BY <1>9, <1>10

LEMMA WorkerKept ==
    ASSUME TypeOK, FirstLife, Next, attempts' = 0
    PROVE  WorkerInv'
<1>0. ~freed BY DEF Next
<1>1. CASE Ndis \/ CywNetworkPause BY <1>0, <1>1, WorkerByNdis
<1>2. ASSUME NEW a \in Actors, CywNetworkPower(a) PROVE WorkerInv' BY <1>0, <1>2, WorkerByPower
<1>3. CASE HaltDown
  <2>1. /\ lpc["halt"] = "drain" /\ lpc'["halt"] = "idle" /\ lpc'["oid"] = lpc["oid"]
        /\ UNCHANGED <<power, flag, thread, wpc, target>> /\ held' = 0
    BY <1>3 DEF HaltDown, TypeOK, Actors, At, Goto, ndisState, workState, Flushed
  <2>2. Alive = {} BY <2>1 DEF FirstLife, WorkerInv
  <2>3. Alive' = {} /\ \A w \in Workers : wpc'[w] = "gone" BY <2>1, <2>2, AliveIs
  <2>4. QED BY <2>1, <2>3 DEF FirstLife, WorkerInv
<1>4. CASE RecoveryBegins BY <1>4 DEF RecoveryBegins, At, FirstLife
<1>5. ASSUME NEW w \in Workers, CywWorker(w) PROVE WorkerInv' BY <1>0, <1>5, WorkerByWorker
<1>6. QED BY <1>1, <1>2, <1>3, <1>4, <1>5 DEF Next

-----------------------------------------------------------------------------
LEMMA InvInit == Init => LifeInv
<1> SUFFICES ASSUME Init PROVE LifeInv OBVIOUS
<1> USE LifecycleAssumption DEF Init
<1>1. PICK w \in Workers : thread = w /\ wpc = [x \in Workers |-> IF x = w THEN "load" ELSE "gone"]
  OBVIOUS
<1>2. TypeOK
  <2>1. flag \in [Flags -> BOOLEAN] OBVIOUS
  <2>2. wpc \in [Workers -> Points] BY <1>1 DEF Points
  <2>3. /\ lpc \in [Actors -> {"idle", "queued", "off", "join", "joining", "drain", "on", "copy",
                             "probe", "starting"}]
        /\ target \in [Actors -> Workers \cup {NoThread}]
        /\ sawPaused \in [Actors -> BOOLEAN] /\ wait \in [Workers -> BOOLEAN]
    OBVIOUS
  <2>4. attempts \in 0..RecoveryMax /\ held \in Nat OBVIOUS
  <2>5. gate \in Gates BY DEF Gates
  <2>6. QED BY <1>1, <2>1, <2>2, <2>3, <2>4, <2>5 DEF TypeOK
<1>3. /\ ~flag["Ready"] /\ flag["Paused"] /\ flag["NdisPaused"]
      /\ \A a \in Actors : lpc[a] = "idle"
  BY DEF Flags
<1>4. "oid" \in Actors /\ "halt" \in Actors /\ "recovery" \in Actors BY DEF Actors
<1>5. ServedInv BY <1>3 DEF ServedInv
<1>6. NdisInv /\ PauseInv BY <1>3, <1>4 DEF NdisInv, PauseInv
<1>7. WorkerInv BY <1>1, <1>3, <1>4 DEF WorkerInv
<1>8. QED BY <1>2, <1>3, <1>4, <1>5, <1>6, <1>7 DEF LifeInv, FirstLife

LEMMA InvKept == LifeInv /\ [Next]_vars => LifeInv'
<1> SUFFICES ASSUME LifeInv, [Next]_vars PROVE LifeInv' OBVIOUS
<1>1. TypeOK' /\ ServedInv' BY TypeKept, ServedKept DEF LifeInv
<1>2. ASSUME attempts' = 0, Next PROVE FirstLife'
  <2>1. attempts = 0
    <3>1. ASSUME NEW w \in Workers, CywWorker(w) PROVE attempts = 0
      BY <1>2, <3>1, WorkerLeaves DEF LifeInv
    <3>2. QED BY <1>2, <3>1, AttemptsStay DEF Next
  <2>2. TypeOK /\ FirstLife BY <2>1 DEF LifeInv
  <2>3. QED BY <1>2, <2>2, NdisKept, PauseKept, WorkerKept DEF FirstLife
<1>3. ASSUME attempts' = 0, UNCHANGED vars PROVE FirstLife'
  BY <1>3 DEF LifeInv, FirstLife, vars, NdisInv, PauseInv, WorkerInv, Alive
<1>4. QED BY <1>1, <1>2, <1>3 DEF LifeInv

LEMMA InvHolds == Spec => []LifeInv
BY InvInit, InvKept, PTL DEF Spec

(* Every flag, control point and counter keeps its type; recovery attempts   *)
(* stay within CYW_RUNTIME_RECOVERY_MAX.                                     *)
THEOREM LifecycleTypeCorrect == Spec => []TypeOK
<1>1. LifeInv => TypeOK BY DEF LifeInv
<1>2. QED BY <1>1, InvHolds, PTL

(* When every worker has gone, through a failure, a stop, a halt or in the   *)
(* middle of a recovery, the driver holds no NBL.                            *)
THEOREM NothingStranded == Spec => []NoStrandedSend
<1>1. ASSUME LifeInv PROVE NoStrandedSend
  <2>1. ASSUME Alive = {} PROVE held = 0
    <3>1. \A w \in Workers : wpc[w] = "gone" BY <2>1, AliveIs
    <3>2. ~(held > 0) BY <1>1, <3>1 DEF LifeInv, ServedInv, Serving
    <3>3. QED BY <1>1, <3>2 DEF LifeInv, TypeOK
  <2>2. QED BY <2>1 DEF NoStrandedSend
<1>2. QED BY <1>1, InvHolds, PTL

(* Until a recovery is queued, the gate is closed while NDIS holds the       *)
(* adapter paused.                                                           *)
THEOREM PausedIsClosed == Spec => []ClosedWhilePaused
<1>1. LifeInv => ClosedWhilePaused
  BY DEF LifeInv, FirstLife, PauseInv, ClosedWhilePaused
<1>2. QED BY <1>1, InvHolds, PTL

(* Until a recovery is queued, a power-down that has completed, and a halt,  *)
(* leave no worker and no NBL behind.                                        *)
THEOREM D3IsQuiet == Spec => []QuietInD3
<1>1. LifeInv => QuietInD3
  BY DEF LifeInv, FirstLife, WorkerInv, QuietInD3
<1>2. QED BY <1>1, InvHolds, PTL

-----------------------------------------------------------------------------
(* Who is waited for.  A pause waits for PauseAck, a join for a worker that *)
(* has to see Stop, a power-up for ThreadStarted.  NoWaitInVain says that   *)
(* whoever waits has somebody left who will give the signal: a worker that  *)
(* has its acknowledgement or its exit still before it, a worker that has   *)
(* still to begin.  (A Stop may be taken back by a recovery.)               *)
Stopping == {"join", "joining", "drain"}
NoWaitInVain ==
    /\ npc = "wait" => flag["PauseAck"] \/ Alive # {}
    /\ \A a \in Actors : lpc[a] = "starting" =>
          flag["ThreadStarted"] \/ \E w \in Workers : wpc[w] = "begin"
    /\ \A a \in Actors : lpc[a] \in Stopping /\ attempts = 0 => flag["Stop"]

(* What a worker's step does to what others wait for. *)
LEMMA WorkerSignals ==
    ASSUME TypeOK, NEW w \in Workers, CywWorker(w)
    PROVE  /\ wpc' = [wpc EXCEPT ![w] = "gone"] => flag'["PauseAck"]
           /\ wpc[w] = "begin" => flag'["ThreadStarted"]
           /\ flag'["Stop"] <=> flag["Stop"]
           /\ npc' = npc
           /\ \A a \in Actors : lpc'[a] = lpc[a] \/ lpc'[a] = "queued"
<1> USE DEF lifeState, ndisState, actorState, Worker, Resume, Goto
<1>0. flag \in [Flags -> BOOLEAN] /\ wpc \in [Workers -> Points]
      /\ lpc \in [Actors -> {"idle", "queued", "off", "join", "joining", "drain", "on",
                             "copy", "probe", "starting"}]
  BY DEF TypeOK
<1>1. wpc[w] # "gone" /\ [wpc EXCEPT ![w] = "gone"][w] = "gone"
  BY <1>0, WorkerMoves
<1>2. CASE WorkerBegin(w) \/ WorkerLoop(w) \/ WorkerAck(w) \/ WorkerGone(w)
  <2>1. flag'["Stop"] <=> flag["Stop"]
    BY <1>0, <1>2 DEF WorkerBegin, WorkerLoop, WorkerAck, WorkerGone, Flags
  <2>2. npc' = npc /\ lpc' = lpc
    BY <1>2 DEF WorkerBegin, WorkerLoop, WorkerAck, WorkerGone
  <2>3. wpc[w] = "begin" => flag'["ThreadStarted"]
    BY <1>0, <1>2 DEF WorkerBegin, WorkerLoop, WorkerAck, WorkerGone, Flags
  <2>4. wpc'[w] = "gone" => flag'["PauseAck"]
    BY <1>0, <1>2 DEF WorkerBegin, WorkerLoop, WorkerAck, WorkerGone, Flags
  <2> QED BY <1>1, <2>1, <2>2, <2>3, <2>4
<1>3. CASE WorkerReady(w) \/ WorkerFailed(w) \/ WorkerExit(w)
  <2>1. flag'["Stop"] <=> flag["Stop"]
    BY <1>0, <1>3 DEF WorkerReady, WorkerFailed, WorkerExit, Flags
  <2>2. npc' = npc /\ lpc' = lpc /\ wpc[w] # "begin" /\ wpc'[w] # "gone"
    BY <1>0, <1>3 DEF WorkerReady, WorkerFailed, WorkerExit
  <2> QED BY <1>1, <2>1, <2>2
<1>4. CASE \/ WorkerLoadFails(w) \/ WorkerLoaded(w) \/ WorkerFlush(w) \/ WorkerDrain(w)
           \/ WorkerSends(w) \/ WorkerCycleEnds(w)
           \/ \E up \in BOOLEAN : WorkerLink(w, up) \/ WorkerRequest(w, up)
           \/ \E fatal \in BOOLEAN : WorkerCycleFails(w, fatal)
  <2>1. flag' = flag /\ npc' = npc /\ lpc' = lpc /\ wpc[w] # "begin" /\ wpc'[w] # "gone"
    BY <1>0, <1>1, <1>4
       DEF WorkerLoadFails, WorkerLoaded, WorkerFlush, WorkerDrain, WorkerSends,
           WorkerCycleEnds, WorkerLink, WorkerRequest, WorkerCycleFails
  <2> QED BY <1>1, <2>1
<1>5. ASSUME NEW allocated \in BOOLEAN, WorkerQueues(w, allocated)
      PROVE  /\ flag' = flag /\ npc' = npc /\ wpc[w] # "begin" /\ wpc'[w] # "gone"
             /\ \A a \in Actors : lpc'[a] = lpc[a] \/ lpc'[a] = "queued"
  BY <1>0, <1>5 DEF WorkerQueues
<1> QED BY <1>1, <1>2, <1>3, <1>4, <1>5 DEF CywWorker

(* Calls of NDIS and of the pause keep it. *)
LEMMA WaitByNdis ==
    ASSUME LifeInv, NoWaitInVain, Ndis \/ CywNetworkPause
    PROVE  NoWaitInVain'
<1> USE DEF ndisState, actorState, workState, queueState, Alive
<1>0. /\ flag \in [Flags -> BOOLEAN] /\ held \in Nat
      /\ lpc \in [Actors -> {"idle", "queued", "off", "join", "joining", "drain", "on",
                             "copy", "probe", "starting"}]
  BY DEF LifeInv, TypeOK
<1>1. CASE PauseBegin \/ RestartBegin \/ PauseSet
  <2>1. /\ (flag'["ThreadStarted"] <=> flag["ThreadStarted"])
        /\ (flag'["Stop"] <=> flag["Stop"])
    BY <1>0, <1>1 DEF PauseBegin, RestartBegin, PauseSet, Flags
  <2>2. npc' # "wait" /\ UNCHANGED <<lpc, wpc, attempts>>
    BY <1>1 DEF PauseBegin, RestartBegin, PauseSet
  <2> QED BY <2>1, <2>2 DEF NoWaitInVain
<1>2. CASE PauseRefresh \/ PauseAcked \/ Send
  <2>1. (npc' = "wait" => npc = "wait") /\ UNCHANGED <<flag, lpc, wpc, attempts>>
    BY <1>2 DEF PauseRefresh, PauseAcked, Send
  <2> QED BY <2>1 DEF NoWaitInVain
<1>3. CASE PauseAsk
  <2>1. UNCHANGED <<flag, lpc, wpc, attempts>> BY <1>3 DEF PauseAsk
  <2>2. npc' = "wait" => flag["Ready"] \/ held > 0 BY <1>3 DEF PauseAsk, MustWait
  <2>3. flag["Ready"] \/ held > 0 => \E w \in Workers : wpc[w] \in Serving
    BY DEF LifeInv, ServedInv
  <2>4. npc' = "wait" => Alive' # {} BY <2>1, <2>2, <2>3 DEF Serving
  <2> QED BY <2>1, <2>4 DEF NoWaitInVain
<1>4. CASE PowerRequest \/ HaltRequest
  <2>1. /\ UNCHANGED <<flag, wpc, attempts, npc>>
        /\ \A a \in Actors : lpc'[a] = lpc[a] \/ lpc'[a] \in {"off", "on"}
    BY <1>0, <1>4 DEF PowerRequest, HaltRequest
  <2> QED BY <2>1 DEF NoWaitInVain, Stopping
<1> QED BY <1>1, <1>2, <1>3, <1>4 DEF Ndis, CywNetworkPause

(* The power request, the recovery and the halt. *)
LEMMA WaitByPower ==
    ASSUME LifeInv, NoWaitInVain, NEW a \in Actors, CywNetworkPower(a)
    PROVE  NoWaitInVain'
<1> USE DEF ndisState, actorState, workState, queueState, At, Goto, Done
<1>0. /\ flag \in [Flags -> BOOLEAN] /\ wpc \in [Workers -> Points]
      /\ lpc \in [Actors -> {"idle", "queued", "off", "join", "joining", "drain", "on",
                             "copy", "probe", "starting"}]
  BY DEF LifeInv, TypeOK
<1>1. CASE OffBegin(a)
  <2>1. /\ flag'["Stop"] /\ (flag'["PauseAck"] <=> flag["PauseAck"])
        /\ flag'["ThreadStarted"] <=> flag["ThreadStarted"]
    BY <1>0, <1>1 DEF OffBegin, Flags
  <2>2. /\ UNCHANGED <<wpc, attempts, npc>>
        /\ \A b \in Actors : lpc'[b] = lpc[b] \/ lpc'[b] = "join"
    BY <1>0, <1>1 DEF OffBegin
  <2> QED BY <2>1, <2>2 DEF NoWaitInVain, Alive
<1>2. CASE Join(a) \/ Joined(a) \/ OnRunning(a) \/ OnFails(a) \/ OnStarted(a)
  <2>1. /\ UNCHANGED <<flag, wpc, attempts, npc>>
        /\ \A b \in Actors : \/ lpc'[b] = lpc[b] \/ lpc'[b] = "idle"
                             \/ lpc[b] \in Stopping /\ lpc'[b] \in Stopping
    BY <1>0, <1>2 DEF Join, Joined, OnRunning, OnFails, OnStarted, Stopping
  <2> QED BY <2>1 DEF NoWaitInVain, Alive, Stopping
<1>3. CASE PowerDown(a) \/ OnCopy(a)
  <2>1. /\ (flag'["Stop"] <=> flag["Stop"]) /\ (flag'["PauseAck"] <=> flag["PauseAck"])
        /\ flag'["ThreadStarted"] <=> flag["ThreadStarted"]
    BY <1>0, <1>3 DEF PowerDown, OnCopy, Flags
  <2>2. /\ UNCHANGED <<wpc, attempts, npc>>
        /\ \A b \in Actors : lpc'[b] = lpc[b] \/ lpc'[b] \in {"idle", "on", "probe"}
    BY <1>0, <1>3 DEF PowerDown, OnCopy
  <2> QED BY <2>1, <2>2 DEF NoWaitInVain, Alive, Stopping
<1>4. CASE OnBegin(a)
  <2>1. /\ flag'["PauseAck"] <=> flag["PauseAck"]
        /\ flag'["ThreadStarted"] <=> flag["ThreadStarted"]
    BY <1>0, <1>4 DEF OnBegin, Flags
  <2>2. /\ UNCHANGED <<wpc, attempts, npc>> /\ lpc[a] = "on"
        /\ \A b \in Actors : lpc'[b] = IF b = a THEN "copy" ELSE lpc[b]
    BY <1>0, <1>4 DEF OnBegin
  <2>3. attempts = 0 => \A b \in Actors : lpc'[b] \notin Stopping
    <3>1. ASSUME attempts = 0 PROVE \A b \in Actors \ {a} : lpc[b] = "idle"
      <4>1. FirstLife BY <3>1 DEF LifeInv
      <4>2. a = "oid" BY <2>2, <4>1, FirstActor DEF FirstLife, NdisInv
      <4>3. lpc["halt"] = "idle" BY <2>2, <4>1, <4>2 DEF FirstLife, NdisInv
      <4> QED BY <4>1, <4>2, <4>3 DEF FirstLife, Actors
    <3> QED BY <2>2, <3>1 DEF Stopping
  <2> QED BY <2>1, <2>2, <2>3 DEF NoWaitInVain, Alive
<1>5. ASSUME NEW w \in Workers, OnLaunch(a, w) PROVE NoWaitInVain'
  <2>1. /\ (flag'["Stop"] <=> flag["Stop"]) /\ (flag'["PauseAck"] <=> flag["PauseAck"])
    BY <1>0, <1>5 DEF OnLaunch, Flags
  <2>2. /\ UNCHANGED <<attempts, npc>> /\ wpc'[w] = "begin"
        /\ \A b \in Actors : lpc'[b] = lpc[b] \/ lpc'[b] = "starting"
    BY <1>0, <1>5 DEF OnLaunch
  <2>3. w \in Alive' BY <2>2 DEF Alive
  <2> QED BY <2>1, <2>2, <2>3 DEF NoWaitInVain, Stopping
<1> QED BY <1>1, <1>2, <1>3, <1>4, <1>5 DEF CywNetworkPower

(* Every step keeps it. *)
LEMMA WaitKept == LifeInv /\ LifeInv' /\ NoWaitInVain /\ [Next]_vars => NoWaitInVain'
<1> SUFFICES ASSUME LifeInv, LifeInv', NoWaitInVain, [Next]_vars PROVE NoWaitInVain' OBVIOUS
<1>0. /\ wpc \in [Workers -> Points]
      /\ lpc \in [Actors -> {"idle", "queued", "off", "join", "joining", "drain", "on",
                             "copy", "probe", "starting"}]
  BY DEF LifeInv, TypeOK
<1>1. CASE Ndis \/ CywNetworkPause BY <1>1, WaitByNdis
<1>2. ASSUME NEW a \in Actors, CywNetworkPower(a) PROVE NoWaitInVain' BY <1>2, WaitByPower
<1>3. CASE HaltDown \/ RecoveryBegins
  <2>1. /\ UNCHANGED <<flag, wpc, attempts, npc>>
        /\ \A b \in Actors : lpc'[b] = lpc[b] \/ lpc'[b] \in {"idle", "off"}
    BY <1>0, <1>3 DEF HaltDown, RecoveryBegins, Goto, ndisState, workState
  <2> QED BY <2>1 DEF NoWaitInVain, Alive, Stopping
<1>4. ASSUME NEW w \in Workers, CywWorker(w) PROVE NoWaitInVain'
  <2>0. TypeOK BY DEF LifeInv
  <2>1. /\ wpc' = [wpc EXCEPT ![w] = "gone"] => flag'["PauseAck"]
        /\ wpc[w] = "begin" => flag'["ThreadStarted"]
        /\ flag'["Stop"] <=> flag["Stop"]
        /\ npc' = npc
        /\ \A a \in Actors : lpc'[a] = lpc[a] \/ lpc'[a] = "queued"
    BY <1>4, <2>0, WorkerSignals
  <2>2. PICK p \in Points \ {"begin"} : wpc' = [wpc EXCEPT ![w] = p] BY <1>4, <2>0, WorkerMoves
  <2>3. wpc[w] # "begin" => (flag'["ThreadStarted"] <=> flag["ThreadStarted"])
    BY <1>4, <2>0, WorkerMoves
  <2>4. flag'["PauseAck"] \/ Alive' # {}
    <3>1. CASE p = "gone" BY <2>1, <2>2, <3>1
    <3>2. CASE p # "gone"
      <4>1. wpc'[w] # "gone" BY <1>0, <2>2, <3>2
      <4> QED BY <4>1 DEF Alive
    <3> QED BY <3>1, <3>2
  <2>5. \A a \in Actors : lpc'[a] = "starting" =>
          flag'["ThreadStarted"] \/ \E x \in Workers : wpc'[x] = "begin"
    <3>1. \A x \in Workers \ {w} : wpc'[x] = wpc[x] BY <1>0, <2>2
    <3>2. CASE wpc[w] = "begin" BY <2>1, <3>2
    <3>3. CASE wpc[w] # "begin" BY <2>1, <2>3, <3>1, <3>3 DEF NoWaitInVain
    <3> QED BY <3>2, <3>3
  <2>6. attempts' = 0 => attempts = 0 BY <1>4, <2>0, WorkerLeaves
  <2> QED BY <2>1, <2>4, <2>5, <2>6 DEF NoWaitInVain, Stopping
<1>5. CASE UNCHANGED vars BY <1>5 DEF vars, NoWaitInVain, Alive
<1> QED BY <1>1, <1>2, <1>3, <1>4, <1>5 DEF Next

(* CywNetworkPause never waits for a PauseAck that no worker is left to     *)
(* set, CywNetworkPower never waits for a worker to start that was not      *)
(* created, and (until a recovery is queued) neither it nor CywNetworkStop  *)
(* waits for a worker whose Stop has been taken back.                       *)
THEOREM WaitersAreServed == Spec => []NoWaitInVain
<1>1. Init => NoWaitInVain
  BY DEF Init, NoWaitInVain, Stopping, Actors
<1> QED BY <1>1, WaitKept, InvHolds, PTL DEF Spec

-----------------------------------------------------------------------------
(* The finding about PauseDrains, delimited.  The pause that returns too    *)
(* early is one that begins while the worker is still in the pause branch   *)
(* of its loop, on account of the pause before.  A Timely pause, one that   *)
(* does not, returns with nothing held, whatever else is interleaved.       *)
PauseBranch == {"flush", "drain", "ack"}
Timely ==
    ndis = "running" /\ ndis' = "pausing" => \A w \in Workers : wpc[w] \notin PauseBranch
TimelyPauseDrains == ndis = "pausing" /\ ndis' = "paused" /\ attempts = 0 => held = 0

(* Between two pauses Paused is clear, and a worker in the pause branch is  *)
(* there on account of the pause under way.                                 *)
Unpaused ==
    \/ ndis = "running"
    \/ ndis = "restarting" /\ npc = "refresh"
    \/ ndis = "pausing" /\ npc = "set"
Drained == held = 0 /\ gate # "SUCCESS" /\ npc # "set"
BranchInv ==
    /\ npc = "set" => \A w \in Workers : wpc[w] \notin PauseBranch
    /\ \A w \in Workers : wpc[w] \in {"drain", "ack"} => gate # "SUCCESS"
    /\ \A w \in Workers : wpc[w] = "ack" => held = 0
    /\ flag["PauseAck"] => Alive = {} \/ Drained
DrainInv ==
    attempts = 0 =>
        /\ Unpaused => ~flag["Paused"]
        /\ ndis = "pausing" => BranchInv

(* Without a worker nothing is held and nothing gets in. *)
LEMMA NobodyHolds ==
    ASSUME LifeInv, Alive = {}
    PROVE  ~(held > 0) /\ gate # "SUCCESS" /\ ~flag["Ready"]
BY DEF LifeInv, ServedInv, Alive, Serving

(* Calls of NDIS and of the pause keep DrainInv, if the pause is timely. *)
LEMMA DrainByNdis ==
    ASSUME LifeInv, DrainInv, Timely, Ndis \/ CywNetworkPause
    PROVE  DrainInv'
<1> USE DEF ndisState, actorState, workState, queueState
<1>0. /\ flag \in [Flags -> BOOLEAN] /\ held \in Nat /\ link \in BOOLEAN
  BY DEF LifeInv, TypeOK
<1>1. attempts' = attempts BY AttemptsStay
<1> SUFFICES ASSUME attempts = 0
             PROVE  (Unpaused => ~flag["Paused"])' /\ (ndis = "pausing" => BranchInv)'
  BY <1>1 DEF DrainInv
<1>2. FirstLife /\ (Unpaused => ~flag["Paused"]) /\ (ndis = "pausing" => BranchInv)
  BY DEF LifeInv, DrainInv
<1>3. CASE PauseBegin
  <2>1. (flag'["Paused"] <=> flag["Paused"]) /\ ~flag'["PauseAck"]
    BY <1>0, <1>3 DEF PauseBegin, Flags
  <2>2. ~flag["Paused"] BY <1>2, <1>3 DEF PauseBegin, Unpaused
  <2>3. \A w \in Workers : wpc'[w] \notin PauseBranch BY <1>3 DEF PauseBegin, Timely
  <2> QED BY <2>1, <2>2, <2>3 DEF BranchInv, PauseBranch
<1>4. CASE RestartBegin
  BY <1>4 DEF RestartBegin, Unpaused
<1>5. CASE PauseSet
  <2>1. /\ flag'["Paused"] <=> ndis = "pausing"
        /\ flag'["PauseAck"] <=> flag["PauseAck"]
    BY <1>0, <1>5 DEF PauseSet, Flags
  <2>2. npc = "set" /\ npc' = "refresh" /\ UNCHANGED <<ndis, gate, held, wpc>>
    BY <1>5 DEF PauseSet
  <2>3. (Unpaused => ~flag["Paused"])'
    BY <2>1, <2>2, <1>2 DEF Unpaused, FirstLife, NdisInv
  <2>4. (ndis = "pausing" => BranchInv)' BY <1>2, <2>1, <2>2 DEF BranchInv, Drained, Alive
  <2> QED BY <2>3, <2>4
<1>6. CASE PauseRefresh
  <2>1. npc = "refresh" /\ UNCHANGED <<flag, held, wpc>> /\ npc' # "set"
        /\ gate' = CywRefreshTxGate(flag, link)
    BY <1>6 DEF PauseRefresh
  <2>2. CASE ndis = "pausing"
    <3>1. flag["Paused"] BY <1>2, <2>1, <2>2 DEF FirstLife, PauseInv
    <3>2. gate' # "SUCCESS" BY <1>0, <2>1, <3>1, RefreshIs
    <3>3. ndis' = "pausing" /\ npc' = "ask" BY <1>6, <2>2 DEF PauseRefresh
    <3> QED BY <1>2, <2>1, <2>2, <3>2, <3>3 DEF BranchInv, Drained, Alive, Unpaused
  <2>3. CASE ndis # "pausing"
    <3>1. ndis' = "running" BY <1>6, <2>3 DEF PauseRefresh
    <3>2. ndis = "restarting" BY <1>2, <2>1, <2>3 DEF FirstLife, NdisInv, LifeInv, TypeOK
    <3> QED BY <1>2, <2>1, <3>1, <3>2 DEF Unpaused
  <2> QED BY <2>2, <2>3
<1>7. CASE PauseAsk
  <2>1. /\ UNCHANGED <<flag, held, gate, wpc>> /\ npc' \notin {"set", "refresh"} /\ npc = "ask"
        /\ ndis' = ndis \/ ndis' = "paused"
    BY <1>7 DEF PauseAsk
  <2>2. ndis = "pausing" BY <1>2, <2>1 DEF FirstLife, NdisInv
  <2> QED BY <1>2, <2>1, <2>2 DEF BranchInv, Drained, Alive, Unpaused
<1>8. CASE PauseAcked BY <1>8 DEF PauseAcked, Unpaused
<1>9. CASE Send
  <2>1. UNCHANGED <<flag, gate, wpc, ndis, npc>> /\ gate = "SUCCESS" BY <1>9 DEF Send
  <2>2. (Unpaused => ~flag["Paused"])' BY <1>2, <2>1 DEF Unpaused
  <2>3. ASSUME ndis = "pausing" PROVE BranchInv'
    <3>1. \A w \in Workers : wpc[w] # "ack" BY <1>2, <2>1, <2>3 DEF BranchInv
    <3> QED BY <1>2, <2>1, <2>3, <3>1 DEF BranchInv, Drained, Alive
  <2> QED BY <2>1, <2>2, <2>3
<1>10. CASE PowerRequest \/ HaltRequest
  <2>1. ndis = "paused" /\ ndis' \in {"paused", "halting"}
    BY <1>10 DEF PowerRequest, HaltRequest, Rested
  <2> QED BY <2>1 DEF Unpaused
<1> QED
  BY <1>3, <1>4, <1>5, <1>6, <1>7, <1>8, <1>9, <1>10 DEF Ndis, CywNetworkPause

(* Power requests and the halt come only outside a pause. *)
LEMMA DrainByPower ==
    ASSUME LifeInv, DrainInv,
           HaltDown \/ RecoveryBegins \/ \E a \in Actors : CywNetworkPower(a)
    PROVE  DrainInv'
<1>1. attempts' = attempts BY AttemptsStay
<1> SUFFICES ASSUME attempts = 0 PROVE ndis' \in {"paused", "halting"}
  BY <1>1 DEF DrainInv, Unpaused
<1>2. FirstLife BY DEF LifeInv
<1>3. ~RecoveryBegins BY <1>2 DEF FirstLife, RecoveryBegins, At
<1>4. CASE HaltDown
  <2>1. lpc["halt"] # "idle" BY <1>4 DEF HaltDown, At
  <2> QED BY <1>2, <1>4, <2>1 DEF HaltDown, FirstLife, NdisInv, ndisState
<1>5. ASSUME NEW a \in Actors, CywNetworkPower(a) PROVE ndis' \in {"paused", "halting"}
  <2>1. a \in {"oid", "halt"} BY <1>2, <1>5, FirstActor
  <2>2. lpc[a] # "idle" /\ ndis' = ndis
    BY <1>5
    DEF CywNetworkPower, OffBegin, Join, Joined, PowerDown, OnRunning, OnBegin, OnCopy, OnFails,
        OnLaunch, OnStarted, At, ndisState
  <2> QED BY <1>2, <2>1, <2>2 DEF FirstLife, NdisInv
<1> QED BY <1>3, <1>4, <1>5

(* What a worker's step does while a pause is under way. *)
LEMMA WorkerInPause ==
    ASSUME TypeOK, NEW w \in Workers, CywWorker(w)
    PROVE  /\ flag'["Paused"] <=> flag["Paused"]
           /\ wpc' = [wpc EXCEPT ![w] = wpc'[w]]
           /\ wpc'[w] \in PauseBranch =>
                 \/ wpc[w] = "loop" /\ wpc'[w] = "flush" /\ flag["Paused"]
                 \/ wpc[w] = "flush" /\ wpc'[w] = "drain"
                 \/ wpc[w] = "drain" /\ wpc'[w] = "drain"
                 \/ wpc[w] = "drain" /\ wpc'[w] = "ack" /\ held' = 0
           /\ gate' = "SUCCESS" => gate = "SUCCESS" \/ ~flag["Paused"]
           /\ wpc[w] = "flush" => gate' # "SUCCESS"
           /\ held' = 0 \/ held' = held \/ held > 0
           /\ flag'["PauseAck"] => flag["PauseAck"] \/ wpc[w] = "ack" \/ wpc'[w] = "gone"
           /\ wpc[w] = "ack" => gate' = gate /\ held' = held
<1> USE DEF lifeState, ndisState, actorState, queueState, Worker, Resume, Goto
<1>0. /\ flag \in [Flags -> BOOLEAN] /\ wpc \in [Workers -> Points] /\ held \in Nat
      /\ link \in BOOLEAN /\ gate \in Gates
  BY DEF TypeOK
<1>1. CASE WorkerBegin(w) \/ WorkerLoop(w) \/ WorkerGone(w)
  BY <1>0, <1>1 DEF WorkerBegin, WorkerLoop, WorkerGone, Flags, PauseBranch
<1>2. CASE WorkerReady(w)
  <2>1. flag' \in [Flags -> BOOLEAN] /\ (flag'["Paused"] <=> flag["Paused"])
        /\ (flag'["PauseAck"] <=> flag["PauseAck"])
    BY <1>0, <1>2 DEF WorkerReady, Flags
  <2>2. gate' = "SUCCESS" => ~flag["Paused"] BY <1>0, <1>2, <2>1, RefreshIs DEF WorkerReady
  <2> QED BY <1>0, <1>2, <2>1, <2>2 DEF WorkerReady, PauseBranch
<1>3. CASE WorkerFailed(w)
  <2>1. flag' \in [Flags -> BOOLEAN] /\ (flag'["Paused"] <=> flag["Paused"])
        /\ (flag'["PauseAck"] <=> flag["PauseAck"])
    BY <1>0, <1>3 DEF WorkerFailed, Flags
  <2>2. gate' = "SUCCESS" => gate = "SUCCESS" \/ ~flag["Paused"]
    BY <1>0, <1>3, <2>1, LinkIs DEF WorkerFailed
  <2> QED BY <1>0, <1>3, <2>1, <2>2 DEF WorkerFailed, PauseBranch
<1>4. ASSUME NEW up \in BOOLEAN, WorkerLink(w, up) \/ WorkerRequest(w, up)
      PROVE  /\ UNCHANGED <<flag, wpc>> /\ wpc[w] = "cycle"
             /\ (gate' = "SUCCESS" => gate = "SUCCESS" \/ ~flag["Paused"])
             /\ held' = 0 \/ held' = held
  BY <1>0, <1>4, RefreshIs, LinkIs DEF WorkerLink, WorkerRequest, Flushed
<1>5. CASE WorkerExit(w)
  BY <1>0, <1>5 DEF WorkerExit, Flags, PauseBranch, Flushed
<1>6. CASE WorkerAck(w)
  BY <1>0, <1>6 DEF WorkerAck, Flags, PauseBranch
<1>7. CASE WorkerFlush(w) \/ WorkerDrain(w) \/ WorkerSends(w)
  BY <1>0, <1>7 DEF WorkerFlush, WorkerDrain, WorkerSends, PauseBranch, Flushed
<1>8. CASE \/ WorkerLoadFails(w) \/ WorkerLoaded(w) \/ WorkerCycleEnds(w)
           \/ \E fatal \in BOOLEAN : WorkerCycleFails(w, fatal)
  BY <1>0, <1>8 DEF WorkerLoadFails, WorkerLoaded, WorkerCycleEnds, WorkerCycleFails, PauseBranch
<1>9. ASSUME NEW allocated \in BOOLEAN, WorkerQueues(w, allocated)
      PROVE  /\ UNCHANGED <<flag, gate, held>>
             /\ wpc' = [wpc EXCEPT ![w] = "exit"] /\ wpc[w] = "queue"
  BY <1>9 DEF WorkerQueues
<1> QED
  BY <1>0, <1>1, <1>2, <1>3, <1>4, <1>5, <1>6, <1>7, <1>8, <1>9 DEF CywWorker, PauseBranch


LEMMA DrainByWorker ==
    ASSUME LifeInv, LifeInv', DrainInv, NEW w \in Workers, CywWorker(w)
    PROVE  DrainInv'
<1>0. TypeOK /\ wpc \in [Workers -> Points] /\ held \in Nat /\ held' \in Nat
  BY DEF LifeInv, TypeOK
<1> SUFFICES ASSUME attempts' = 0
             PROVE  (Unpaused => ~flag["Paused"])' /\ (ndis = "pausing" => BranchInv)'
  BY DEF DrainInv
<1>1. UNCHANGED <<attempts, ndis, npc>> BY <1>0, WorkerLeaves
<1>2. /\ FirstLife /\ FirstLife'
      /\ (Unpaused => ~flag["Paused"]) /\ (ndis = "pausing" => BranchInv)
  BY <1>1 DEF LifeInv, DrainInv
<1>3. /\ flag'["Paused"] <=> flag["Paused"]
      /\ wpc' = [wpc EXCEPT ![w] = wpc'[w]]
      /\ wpc'[w] \in PauseBranch =>
            \/ wpc[w] = "loop" /\ wpc'[w] = "flush" /\ flag["Paused"]
            \/ wpc[w] = "flush" /\ wpc'[w] = "drain"
            \/ wpc[w] = "drain" /\ wpc'[w] = "drain"
            \/ wpc[w] = "drain" /\ wpc'[w] = "ack" /\ held' = 0
      /\ gate' = "SUCCESS" => gate = "SUCCESS" \/ ~flag["Paused"]
      /\ wpc[w] = "flush" => gate' # "SUCCESS"
      /\ held' = 0 \/ held' = held \/ held > 0
      /\ flag'["PauseAck"] => flag["PauseAck"] \/ wpc[w] = "ack" \/ wpc'[w] = "gone"
      /\ wpc[w] = "ack" => gate' = gate /\ held' = held
  BY <1>0, WorkerInPause
<1>4. (Unpaused => ~flag["Paused"])' BY <1>1, <1>2, <1>3 DEF Unpaused
<1>5. ASSUME ndis = "pausing" PROVE BranchInv'
  <2>0. BranchInv BY <1>2, <1>5
  <2>1. npc # "set" => flag["Paused"]
    BY <1>2, <1>5, <1>0 DEF FirstLife, PauseInv, NdisInv, TypeOK
  <2>2. npc = "set" => ~flag["Paused"] BY <1>2, <1>5 DEF Unpaused
  <2>3. \A x \in Workers : x # w => wpc'[x] = wpc[x] BY <1>0, <1>3
  <2>4. \A x \in Workers : x # w => wpc[x] = "gone"
    <3>1. wpc[w] # "gone" BY <1>0, WorkerMoves
    <3> QED BY <1>2, <3>1 DEF FirstLife, WorkerInv
  <2>5. (npc = "set" => \A x \in Workers : wpc[x] \notin PauseBranch)'
    BY <1>1, <1>3, <2>0, <2>2, <2>3 DEF BranchInv, PauseBranch
  <2>6. (\A x \in Workers : wpc[x] \in {"drain", "ack"} => gate # "SUCCESS")'
    <3>1. wpc'[w] \in {"drain", "ack"} => gate' # "SUCCESS"
      BY <1>3, <2>0, <2>1, <2>2 DEF BranchInv, PauseBranch
    <3> QED BY <2>3, <2>4, <3>1
  <2>7. (\A x \in Workers : wpc[x] = "ack" => held = 0)'
    <3>1. wpc'[w] = "ack" => held' = 0 BY <1>3, <2>0 DEF PauseBranch
    <3> QED BY <2>3, <2>4, <3>1
  <2>8. ASSUME flag'["PauseAck"] PROVE (Alive = {} \/ Drained)'
    <3>1. CASE wpc'[w] = "gone" BY <2>3, <2>4, <3>1 DEF Alive
    <3>2. CASE wpc[w] = "ack"
      <4>1. npc # "set" BY <2>0, <3>2 DEF BranchInv, PauseBranch
      <4> QED BY <1>1, <1>3, <2>0, <3>2, <4>1 DEF BranchInv, Drained
    <3>3. CASE flag["PauseAck"]
      <4>1. Drained
        <5>1. Alive # {} BY <1>0, WorkerMoves DEF Alive
        <5> QED BY <2>0, <3>3, <5>1 DEF BranchInv
      <4>2. gate' # "SUCCESS" BY <1>3, <2>1, <4>1 DEF Drained
      <4> QED BY <1>0, <1>1, <1>3, <4>1, <4>2 DEF Drained
    <3> QED BY <1>3, <2>8, <3>1, <3>2, <3>3
  <2> QED BY <2>5, <2>6, <2>7, <2>8 DEF BranchInv
<1> QED BY <1>1, <1>4, <1>5

(* The theorem.  With an untimely pause allowed, or once a recovery has     *)
(* been queued, TLC has a counterexample: the condition says which          *)
(* interleavings are to blame.                                              *)
THEOREM TimelyPauseDrainsHolds == Spec /\ [][Timely]_vars => [][TimelyPauseDrains]_vars
<1>1. Init => DrainInv
  <2> SUFFICES ASSUME Init PROVE Unpaused \/ ndis = "pausing" => FALSE BY DEF DrainInv
  <2> QED BY DEF Init, Unpaused
<1>2. ASSUME LifeInv, LifeInv', DrainInv, [Next]_vars, [Timely]_vars PROVE DrainInv'
  <2>1. CASE UNCHANGED vars
    BY <1>2, <2>1 DEF vars, DrainInv, Unpaused, BranchInv, Drained, Alive
  <2>2. CASE Timely /\ (Ndis \/ CywNetworkPause) BY <1>2, <2>2, DrainByNdis
  <2>3. CASE HaltDown \/ RecoveryBegins \/ \E a \in Actors : CywNetworkPower(a)
    BY <1>2, <2>3, DrainByPower
  <2>4. ASSUME NEW w \in Workers, CywWorker(w) PROVE DrainInv' BY <1>2, <2>4, DrainByWorker
  <2> QED BY <1>2, <2>1, <2>2, <2>3, <2>4 DEF Next
<1>3. ASSUME LifeInv, DrainInv, [Next]_vars PROVE [TimelyPauseDrains]_vars
  <2> SUFFICES ASSUME Next, ndis = "pausing", ndis' = "paused", attempts = 0 PROVE held = 0
    BY <1>3 DEF TimelyPauseDrains
  <2>0. held \in Nat BY <1>3 DEF LifeInv, TypeOK
  <2>1. PauseAsk \/ PauseAcked
    <3>1. ~\E w \in Workers : CywWorker(w)
      BY DEF CywWorker, lifeState, ndisState, WorkerBegin, WorkerLoadFails, WorkerLoaded,
             WorkerReady, WorkerLoop, WorkerFlush, WorkerDrain, WorkerAck, WorkerSends,
             WorkerLink, WorkerRequest, WorkerCycleEnds, WorkerCycleFails, WorkerFailed,
             WorkerQueues, WorkerExit, WorkerGone
    <3>2. ~(HaltDown \/ RecoveryBegins \/ \E a \in Actors : CywNetworkPower(a))
      BY DEF HaltDown, RecoveryBegins, CywNetworkPower, OffBegin, Join, Joined, PowerDown,
             OnRunning, OnBegin, OnCopy, OnFails, OnLaunch, OnStarted, ndisState
    <3>3. ~(Ndis \/ PauseSet \/ PauseRefresh)
      BY DEF Ndis, PauseBegin, RestartBegin, Send, PowerRequest, HaltRequest, PauseSet,
             PauseRefresh, ndisState
    <3> QED BY <3>1, <3>2, <3>3 DEF Next, CywNetworkPause
  <2>2. CASE PauseAsk BY <2>0, <2>2 DEF PauseAsk, MustWait
  <2>3. CASE PauseAcked
    <3>1. flag["PauseAck"] BY <2>3 DEF PauseAcked
    <3>2. Alive = {} \/ Drained BY <1>3, <3>1 DEF DrainInv, BranchInv
    <3> QED BY <1>3, <2>0, <3>2, NobodyHolds DEF Drained
  <2> QED BY <2>1, <2>2, <2>3
<1> QED BY <1>1, <1>2, <1>3, InvHolds, PTL DEF Spec
=============================================================================
