----------------------------- MODULE RouterProofs -----------------------------
(***************************************************************************)
(* Proofs about Router, for any models, groups, session caps, requests and *)
(* number of faults. The run loop is the only writer of the active swaps,  *)
(* the in-flight counts and the queue; the processes are the only writers  *)
(* of their own state: the frame lemmas say so, and each invariant is then *)
(* only argued for the steps that can touch it.                            *)
(***************************************************************************)
EXTENDS Router, TLAPS, FiniteSetTheorems

(* While the queue is being walked there is a next request to look at.     *)
LoopHead == loop = "drain" => pending # <<>>

(* Swaps that are active evict no active model, hence with groups none     *)
(* that another evicts in return: the one decision, taken when a swap      *)
(* starts, that both this and the grants rely on.                          *)
GroupSwapsAgree ==
    planner = "group" => \A a, b \in active : ~(Evicts(a, b) /\ Evicts(b, a))

IInv == TypeOK /\ LoopHead /\ ActiveSwapsEvictOnlyIdle /\ GroupSwapsAgree

-----------------------------------------------------------------------------
(* Lemmas about the operators of the run loop.                             *)

(* An error answer leaves every caller with a status.                      *)
LEMMA RefuseTyped ==
  ASSUME ClientsOK, NEW rs, NEW answer \in Status
  PROVE  Refuse(rs, answer) \in [Requests -> Status]
BY DEF ClientsOK, Refuse

(* So does a handler.                                                      *)
LEMMA ServedTyped ==
  ASSUME ClientsOK, NEW rs
  PROVE  Served(rs) \in [Requests -> Status]
BY DEF ClientsOK, Served, Status

(* Granting a handler to finitely many callers counts them all, for this   *)
(* model only.                                                             *)
LEMMA GrantedToTyped ==
  ASSUME TablesOK, NEW rs \in SUBSET Requests, NEW m \in Models
  PROVE  /\ GrantedTo(rs, m) \in [Models -> Nat]
         /\ \A x \in Models \ {m} : GrantedTo(rs, m)[x] = inFlight[x]
<1>1. Takers(rs) \in SUBSET Requests
  BY DEF Takers
<1>2. IsFiniteSet(Takers(rs))
  BY <1>1, FS_Subset, RequestsAssumption
<1>3. Cardinality(Takers(rs)) \in Nat
  BY <1>2, FS_CardinalityType
<1> QED
  BY <1>3 DEF GrantedTo, TablesOK

(* Deleting swaps leaves the tables typed.                                 *)
LEMMA ForgetTyped ==
  ASSUME TablesOK, NEW ms, Forget(ms)
  PROVE  /\ active' \in SUBSET Models
         /\ evict' \in [Models -> SUBSET Models]
         /\ waiters' \in [Models -> SUBSET Requests]
BY DEF TablesOK, Forget

(* So does joining a swap ...                                              *)
LEMMA JoinTyped ==
  ASSUME TablesOK, SwapsOK, NEW r \in Requests, NEW m \in Models, Join(r, m)
  PROVE  TablesOK' /\ SwapsOK'
BY DEF TablesOK, SwapsOK, Join, swapVars

(* ... and starting one.                                                   *)
LEMMA StartSwapTyped ==
  ASSUME TablesOK, SwapsOK, NEW r \in Requests, NEW m \in Models,
         NEW ev \in SUBSET Models, StartSwap(r, m, ev)
  PROVE  TablesOK' /\ SwapsOK'
BY DEF TablesOK, SwapsOK, StartSwap

(* The planner names only models, never the target itself, and that of the *)
(* groups every model with an active swap that the target evicts.          *)
LEMMA EvictionForTyped ==
  ASSUME TablesOK, NEW t \in Models
  PROVE  /\ EvictionFor(t, activeTargets(t)) \in SUBSET Models
         /\ t \notin EvictionFor(t, activeTargets(t))
         /\ planner # "matrix" => \A x \in active \ {t} :
               Evicts(t, x) => x \in EvictionFor(t, activeTargets(t))
<1>1. Running \cup activeTargets(t) \in SUBSET Models
  BY DEF TablesOK, activeTargets, Running
<1>2. CASE planner = "matrix"
  BY <1>1, <1>2 DEF EvictionFor, Solve
<1>3. CASE planner # "matrix"
  BY <1>1, <1>3 DEF EvictionFor, Evicts, activeTargets
<1> QED
  BY <1>2, <1>3

(* A walk of the queue begins only if it holds a request.                  *)
LEMMA DrainQueueTyped ==
  ASSUME NEW q \in Seq(Requests), DrainQueue(q)
  PROVE  /\ queued' \in Seq(Requests) /\ pending' \in Seq(Requests)
         /\ loop' \in {"select", "drain"}
         /\ LoopHead'
BY DEF DrainQueue, LoopHead

(* A fault is counted under its kind.                                      *)
LEMMA FaultTyped ==
  ASSUME ProcsOK, NEW k, Fault(k)
  PROVE  faults' \in [AllFaultKinds -> Nat]
<1>1. k \in AllFaultKinds /\ faults' = [faults EXCEPT ![k] = @ + 1]
  BY FaultAssumption DEF Fault
<1>2. faults[k] + 1 \in Nat
  BY <1>1 DEF ProcsOK
<1> QED
  BY <1>1, <1>2 DEF ProcsOK

(* A kill, confirmed or not, leaves the account of processes typed.        *)
LEMMA KillTyped ==
  ASSUME ProcsOK, NEW m \in Models, KillConfirmed(m) \/ KillGaveUp(m)
  PROVE  /\ live' \in [Models -> Nat]
         /\ possiblyLeaked' \in [Models -> BOOLEAN]
         /\ faults' \in [AllFaultKinds -> Nat]
<1>1. CASE KillConfirmed(m)
  BY <1>1 DEF KillConfirmed, ProcsOK
<1>2. CASE KillGaveUp(m)
  <2>1. faults' \in [AllFaultKinds -> Nat]
    BY <1>2, FaultTyped DEF KillGaveUp
  <2> QED
    BY <1>2, <2>1 DEF KillGaveUp, ProcsOK
<1> QED
  BY <1>1, <1>2

(* Waking the swaps parked on a model leaves them typed.                   *)
LEMMA NotifyWaitersTyped ==
  ASSUME SwapsOK, NEW m, NEW err \in BOOLEAN, NotifyWaiters(m, err)
  PROVE  /\ swapPc' \in [Requests -> {"none", "stop", "wait", "parked", "report", "done"}]
         /\ swapErr' \in [Requests -> BOOLEAN]
BY DEF SwapsOK, NotifyWaiters

-----------------------------------------------------------------------------
(* Who writes what. *)

(* Processes write none of the tables of the run loop.                     *)
LEMMA ProcessesFrame ==
  ASSUME Processes
  PROVE  UNCHANGED <<status, model, loop, active, evict, waiters, inFlight, queued, pending>>
BY DEF Processes, Stops, AcceptWaitReady, AcceptRun, StartSucceeds, StartFails,
       UpstreamExits, LeakedExits, SelfStopDecided, StopIdle, StopStarting,
       StopReady, FinishStop, ProcessCancelled, procUnchanged, clientVars,
       tableVars, queueVars

(* A doSwap goroutine writes only its own progress.                        *)
LEMMA doSwapFrame ==
  ASSUME doSwap
  PROVE  UNCHANGED <<status, model, loop, active, evict, waiters, inFlight,
                     queued, pending, loopStops, toStop, swapErr, procVars, faults>>
BY DEF doSwap, doSwapStopped, doSwapDropped, clientVars, tableVars, queueVars

(* A caller writes only its own status.                                    *)
LEMMA ClientsFrame ==
  ASSUME Clients
  PROVE  UNCHANGED <<model, loop, active, evict, waiters, inFlight,
                     queued, pending, loopStops, swapVars, procVars, faults>>
BY DEF Clients, RequestCancelled, ServeDoneDropped, tableVars, queueVars

(* The run loop touches no process.                                        *)
LEMMA RunLoopFrame ==
  ASSUME RunLoop
  PROVE  UNCHANGED <<model, procVars, runs>>
BY DEF RunLoop, handleRequest, handleSwapDone, handleServeDone, drainQueue,
       expireStaleQueued, handleUnload, UnloadFilter, UnloadStops, UnloadDone,
       handleShutdown, ShutdownDone, StartSwap, Join, clientVars, swapVars

-----------------------------------------------------------------------------
(* Type correctness.                                                       *)

(* Every variable has its type at the start.                               *)
LEMMA InitTyped == Init => TypeOK /\ LoopHead
<1> SUFFICES ASSUME Init PROVE TypeOK /\ LoopHead
  OBVIOUS
<1>1. ClientsOK
  BY DEF Init, ClientsOK, Status
<1>2. TablesOK
  BY DEF Init, TablesOK
<1>3. QueuesOK /\ LoopHead
  BY DEF Init, QueuesOK, LoopHead
<1>4. SwapsOK
  BY DEF Init, SwapsOK
<1>5. ProcsOK
  BY DEF Init, ProcsOK
<1> QED
  BY <1>1, <1>2, <1>3, <1>4, <1>5 DEF TypeOK, Init

(* handleRequest keeps the types, case by case.                            *)
LEMMA handleRequestTyped ==
  ASSUME TypeOK, LoopHead, NEW r \in Requests, handleRequest(r)
  PROVE  ClientsOK' /\ TablesOK' /\ QueuesOK' /\ SwapsOK' /\ LoopHead'
<1> DEFINE m  == model[r]
           ev == EvictionFor(m, activeTargets(m))
<1>1. m \in Models /\ ev \in SUBSET Models
  BY EvictionForTyped DEF TypeOK, ClientsOK
<1>2. ClientsOK'
  BY DEF handleRequest, TypeOK, ClientsOK, Status, RefusedStatus
<1>3. QueuesOK' /\ LoopHead'
  <2>1. queued' \in Seq(Requests)
    BY DEF handleRequest, TypeOK, QueuesOK, queueVars
  <2>2. pending' = pending
    BY DEF handleRequest, queueVars
  <2> QED
    BY <2>1, <2>2 DEF handleRequest, TypeOK, QueuesOK, LoopHead
<1>4. TablesOK' /\ SwapsOK'
  <2>1. CASE Join(r, m)
    BY <1>1, <2>1, JoinTyped DEF TypeOK
  <2>2. CASE StartSwap(r, m, ev)
    BY <1>1, <2>2, StartSwapTyped DEF TypeOK
  <2>3. CASE UNCHANGED <<active, evict, waiters, swapVars>>
             /\ inFlight' \in {inFlight, [inFlight EXCEPT ![m] = @ + 1]}
    BY <1>1, <2>3 DEF TypeOK, TablesOK, SwapsOK, swapVars
  <2> QED
    BY <2>1, <2>2, <2>3 DEF handleRequest, tableVars
<1> QED
  BY <1>2, <1>3, <1>4

(* So does drainQueue; LoopHead gives it its next request.                 *)
LEMMA drainQueueTyped ==
  ASSUME TypeOK, LoopHead, drainQueue
  PROVE  ClientsOK' /\ TablesOK' /\ QueuesOK' /\ SwapsOK' /\ LoopHead'
<1> DEFINE r  == Head(pending)
           m  == model[r]
           ev == EvictionFor(m, activeTargets(m))
<1>1. pending # <<>> /\ r \in Requests /\ Tail(pending) \in Seq(Requests)
  BY DEF drainQueue, LoopHead, TypeOK, QueuesOK
<1>2. m \in Models /\ ev \in SUBSET Models
  BY <1>1, EvictionForTyped DEF TypeOK, ClientsOK
<1>3. ClientsOK'
  BY ServedTyped DEF drainQueue, TypeOK, ClientsOK
<1>4. QueuesOK' /\ LoopHead'
  <2>1. Append(queued, r) \in Seq(Requests)
    BY <1>1 DEF TypeOK, QueuesOK
  <2>2. queued' \in {queued, Append(queued, r)}
    BY DEF drainQueue
  <2>3. queued' \in Seq(Requests)
    BY <2>1, <2>2 DEF TypeOK, QueuesOK
  <2> QED
    BY <1>1, <2>3 DEF drainQueue, TypeOK, QueuesOK, LoopHead
<1>5. TablesOK' /\ SwapsOK'
  <2>1. CASE Join(r, m)
    BY <1>1, <1>2, <2>1, JoinTyped DEF TypeOK
  <2>2. CASE StartSwap(r, m, ev)
    BY <1>1, <1>2, <2>2, StartSwapTyped DEF TypeOK
  <2>3. CASE UNCHANGED <<active, evict, waiters, swapVars>>
             /\ inFlight' \in {inFlight, GrantedTo({r}, m)}
    <3>1. GrantedTo({r}, m) \in [Models -> Nat]
      BY <1>1, <1>2, GrantedToTyped DEF TypeOK
    <3> QED
      BY <2>3, <3>1 DEF TypeOK, TablesOK, SwapsOK, swapVars
  <2> QED
    BY <2>1, <2>2, <2>3 DEF drainQueue, tableVars
<1> QED
  BY <1>3, <1>4, <1>5

(* So does handleSwapDone.                                                 *)
LEMMA handleSwapDoneTyped ==
  ASSUME TypeOK, LoopHead, NEW r \in Requests, handleSwapDone(r)
  PROVE  ClientsOK' /\ TablesOK' /\ QueuesOK' /\ SwapsOK' /\ LoopHead'
<1> DEFINE m == model[r]
<1>1. m \in Models /\ waiters[m] \in SUBSET Requests /\ queued \in Seq(Requests)
  BY DEF TypeOK, ClientsOK, TablesOK, QueuesOK
<1>2. ClientsOK'
  <2>1. Refuse(waiters[m], "loadFailed") \in [Requests -> Status]
    BY RefuseTyped DEF TypeOK, Status, RefusedStatus
  <2> QED
    BY <2>1, ServedTyped DEF handleSwapDone, TypeOK, ClientsOK
<1>3. SwapsOK'
  BY DEF handleSwapDone, TypeOK, SwapsOK
<1>4. QueuesOK' /\ LoopHead'
  <2>1. CASE DrainQueue(queued)
    BY <1>1, <2>1, DrainQueueTyped DEF handleSwapDone, TypeOK, QueuesOK
  <2>2. CASE UNCHANGED <<loop, queueVars>>
    BY <2>2 DEF handleSwapDone, TypeOK, QueuesOK, LoopHead, queueVars
  <2> QED
    BY <2>1, <2>2 DEF handleSwapDone
<1>5. TablesOK'
  <2>1. GrantedTo(waiters[m], m) \in [Models -> Nat]
    BY <1>1, GrantedToTyped DEF TypeOK
  <2>2. CASE Forget({m})
    BY <2>1, <2>2, ForgetTyped DEF handleSwapDone, TypeOK, TablesOK, tableVars
  <2>3. CASE UNCHANGED tableVars
    BY <2>3 DEF TypeOK, TablesOK, tableVars
  <2> QED
    BY <2>2, <2>3 DEF handleSwapDone
<1> QED
  BY <1>2, <1>3, <1>4, <1>5

(* So does handleServeDone: a count at one goes to zero, never below.      *)
LEMMA handleServeDoneTyped ==
  ASSUME TypeOK, LoopHead, NEW r \in Requests, handleServeDone(r)
  PROVE  ClientsOK' /\ TablesOK' /\ QueuesOK' /\ SwapsOK' /\ LoopHead'
<1> DEFINE m == model[r]
<1>1. m \in Models /\ inFlight[m] \in Nat /\ queued \in Seq(Requests)
  BY DEF TypeOK, ClientsOK, TablesOK, QueuesOK
<1>2. ClientsOK' /\ SwapsOK'
  BY DEF handleServeDone, TypeOK, ClientsOK, Status, SwapsOK, swapVars
<1>3. TablesOK'
  <2>1. inFlight' \in [Models -> Nat]
    BY <1>1 DEF handleServeDone, TypeOK, TablesOK
  <2> QED
    BY <2>1 DEF handleServeDone, TypeOK, TablesOK
<1>4. QueuesOK' /\ LoopHead'
  <2>1. CASE DrainQueue(queued)
    BY <1>1, <2>1, DrainQueueTyped DEF handleServeDone, TypeOK, QueuesOK
  <2>2. CASE UNCHANGED <<loop, queueVars>>
    BY <2>2 DEF handleServeDone, TypeOK, QueuesOK, LoopHead, queueVars
  <2> QED
    BY <2>1, <2>2 DEF handleServeDone
<1> QED
  BY <1>2, <1>3, <1>4

(* Every event of the run loop keeps the types.                            *)
LEMMA RunLoopTyped ==
  ASSUME TypeOK, LoopHead, RunLoop
  PROVE  ClientsOK' /\ TablesOK' /\ QueuesOK' /\ SwapsOK' /\ LoopHead'
<1> USE DEF TypeOK, ClientsOK, TablesOK, QueuesOK, SwapsOK, LoopHead,
            tableVars, queueVars, swapVars, clientVars
<1>1. CASE \E r \in Requests : handleRequest(r)
  BY <1>1, handleRequestTyped
<1>2. CASE \E r \in Requests : handleSwapDone(r)
  BY <1>2, handleSwapDoneTyped
<1>3. CASE \E r \in Requests : handleServeDone(r)
  BY <1>3, handleServeDoneTyped
<1>4. CASE drainQueue
  BY <1>4, drainQueueTyped
<1>5. CASE expireStaleQueued
  <2>1. PICK k \in 1..Len(queued) :
            /\ status' = Refuse({queued[i] : i \in 1..k}, "timedOut")
            /\ queued' = SubSeq(queued, k + 1, Len(queued))
    BY <1>5 DEF expireStaleQueued
  <2>2. status' \in [Requests -> Status]
    BY <2>1, RefuseTyped DEF Status, RefusedStatus
  <2>3. queued' \in Seq(Requests)
    BY <2>1
  <2> QED
    BY <1>5, <2>2, <2>3 DEF expireStaleQueued
<1>6. CASE \E ts \in SUBSET Models : handleUnload(ts)
  <2>1. PICK ts \in SUBSET Models : handleUnload(ts)
    BY <1>6
  <2>2. status' \in [Requests -> Status]
    BY <2>1, RefuseTyped DEF handleUnload, Status, RefusedStatus
  <2>3. TablesOK'
    BY <2>1, ForgetTyped DEF handleUnload
  <2>4. QueuesOK' /\ LoopHead'
    BY <2>1 DEF handleUnload
  <2> QED
    BY <2>1, <2>2, <2>3, <2>4 DEF handleUnload
<1>7. CASE UnloadFilter
  <2>1. pending # <<>> /\ Head(pending) \in Requests /\ Tail(pending) \in Seq(Requests)
    BY <1>7 DEF UnloadFilter
  <2>2. status' \in [Requests -> Status]
    BY <1>7, RefuseTyped DEF UnloadFilter, Status, RefusedStatus
  <2>3. Append(queued, Head(pending)) \in Seq(Requests)
    BY <2>1
  <2>4. queued' \in {queued, Append(queued, Head(pending))}
    BY <1>7 DEF UnloadFilter
  <2>5. queued' \in Seq(Requests)
    BY <2>3, <2>4
  <2> QED
    BY <1>7, <2>1, <2>2, <2>5 DEF UnloadFilter
<1>8. CASE UnloadStops
  BY <1>8 DEF UnloadStops
<1>9. CASE UnloadDone
  BY <1>9, DrainQueueTyped DEF UnloadDone
<1>10. CASE handleShutdown
  <2>1. status' \in [Requests -> Status]
    BY <1>10, RefuseTyped DEF handleShutdown, Status, RefusedStatus
  <2> QED
    BY <1>10, <2>1, ForgetTyped DEF handleShutdown
<1>11. CASE ShutdownDone
  BY <1>11 DEF ShutdownDone
<1> QED
  BY <1>1, <1>2, <1>3, <1>4, <1>5, <1>6, <1>7, <1>8, <1>9, <1>10, <1>11 DEF RunLoop

(* Every step of a process keeps the types.                                *)
LEMMA ProcessesTyped ==
  ASSUME TypeOK, Processes
  PROVE  ProcsOK' /\ SwapsOK' /\ loopStops' \in SUBSET Models
<1> USE DEF TypeOK, ProcsOK, SwapsOK, swapVars, procVars
<1>1. CASE \E r \in Requests : AcceptWaitReady(r)
  BY <1>1 DEF AcceptWaitReady, QueuesOK
<1>2. CASE \E r \in Requests : AcceptRun(r)
  <2>1. PICK r \in Requests : AcceptRun(r)
    BY <1>2
  <2>2. model[r] \in Models /\ live[model[r]] + 1 \in Nat
    BY DEF ClientsOK
  <2>3. live' \in [Models -> Nat]
    BY <2>1, <2>2 DEF AcceptRun
  <2>4. pState' \in [Models -> {"stopped", "starting", "ready", "stopping", "failed", "shutdown"}]
    BY <2>1 DEF AcceptRun
  <2> QED
    BY <2>1, <2>3, <2>4 DEF AcceptRun, QueuesOK
<1>3. CASE \E m \in Models : StartSucceeds(m)
  BY <1>3, NotifyWaitersTyped DEF StartSucceeds, QueuesOK
<1>4. CASE \E m \in Models : StartFails(m)
  <2>1. PICK m \in Models : StartFails(m)
    BY <1>4
  <2>2. faults' \in [AllFaultKinds -> Nat]
    BY <2>1, FaultTyped DEF StartFails, KillGaveUp
  <2>3. live' \in {live, [live EXCEPT ![m] = 0]}
    BY <2>1 DEF StartFails, KillGaveUp
  <2>4. possiblyLeaked' \in {possiblyLeaked, [possiblyLeaked EXCEPT ![m] = TRUE]}
    BY <2>1 DEF StartFails, KillGaveUp
  <2>5. live' \in [Models -> Nat] /\ possiblyLeaked' \in [Models -> BOOLEAN]
    <3>1. /\ live \in [Models -> Nat] /\ [live EXCEPT ![m] = 0] \in [Models -> Nat]
          /\ possiblyLeaked \in [Models -> BOOLEAN]
          /\ [possiblyLeaked EXCEPT ![m] = TRUE] \in [Models -> BOOLEAN]
      OBVIOUS
    <3> QED
      BY <2>3, <2>4, <3>1, Zenon
  <2>6. pState' \in [Models -> {"stopped", "starting", "ready", "stopping", "failed", "shutdown"}]
    BY <2>1 DEF StartFails
  <2>7. SwapsOK'
    BY <2>1, NotifyWaitersTyped DEF StartFails
  <2> QED
    BY <2>1, <2>2, <2>5, <2>6, <2>7 DEF StartFails, QueuesOK
<1>5. CASE \E m \in Models : UpstreamExits(m)
  BY <1>5, FaultTyped DEF UpstreamExits, QueuesOK
<1>6. CASE \E m \in Models : LeakedExits(m)
  BY <1>6 DEF LeakedExits, QueuesOK
<1>7. CASE \E m \in Models : SelfStopDecided(m)
  BY <1>7, FaultTyped DEF SelfStopDecided, QueuesOK
<1>8. CASE \E m \in Models : FinishStop(m)
  <2>1. PICK m \in Models : FinishStop(m)
    BY <1>8
  <2>2. /\ live' \in [Models -> Nat] /\ possiblyLeaked' \in [Models -> BOOLEAN]
        /\ faults' \in [AllFaultKinds -> Nat]
    BY <2>1, KillTyped DEF FinishStop
  <2>3. /\ pState' \in [Models -> {"stopped", "starting", "ready", "stopping", "failed", "shutdown"}]
        /\ stopper' \in [Models -> Requests \cup {Loop, Self, NoOne}]
    BY <2>1 DEF FinishStop
  <2>4. toStop' \in [Requests -> SUBSET Models] /\ loopStops' \in SUBSET Models
        /\ selfStop' \in SUBSET Models
    BY <2>1 DEF FinishStop, StopReturns, QueuesOK
  <2>5. swapErr' \in [Requests -> BOOLEAN]
    BY <2>1 DEF FinishStop, RecordStopErr
  <2> QED
    BY <2>1, <2>2, <2>3, <2>4, <2>5 DEF FinishStop
<1>9. CASE \E m \in Models : ProcessCancelled(m)
  <2>1. PICK m \in Models : ProcessCancelled(m)
    BY <1>9
  <2>2. /\ live' \in [Models -> Nat] /\ possiblyLeaked' \in [Models -> BOOLEAN]
        /\ faults' \in [AllFaultKinds -> Nat]
    BY <2>1, KillTyped DEF ProcessCancelled
  <2>3. pState' \in [Models -> {"stopped", "starting", "ready", "stopping", "failed", "shutdown"}]
    BY <2>1 DEF ProcessCancelled
  <2>4. SwapsOK'
    BY <2>1, NotifyWaitersTyped DEF ProcessCancelled
  <2> QED
    BY <2>1, <2>2, <2>3, <2>4 DEF ProcessCancelled, QueuesOK
<1>10. CASE Stops
  <2>1. PICK m \in Models, who \in Requests \cup {Loop, Self} :
            StopIdle(m, who) \/ StopStarting(m, who) \/ StopReady(m, who)
    BY <1>10 DEF Stops
  <2>2. CASE StopIdle(m, who)
    BY <2>2 DEF StopIdle, StopReturns, RecordStopErr, QueuesOK
  <2>3. CASE StopStarting(m, who)
    <3>1. /\ live' \in [Models -> Nat] /\ possiblyLeaked' \in [Models -> BOOLEAN]
          /\ faults' \in [AllFaultKinds -> Nat]
      BY <2>3, KillTyped DEF StopStarting
    <3>2. pState' \in [Models -> {"stopped", "starting", "ready", "stopping", "failed", "shutdown"}]
      BY <2>3 DEF StopStarting
    <3>3. toStop' \in [Requests -> SUBSET Models] /\ loopStops' \in SUBSET Models
          /\ selfStop' \in SUBSET Models
      BY <2>3 DEF StopStarting, StopReturns, QueuesOK
    <3>4. swapPc' \in [Requests -> {"none", "stop", "wait", "parked", "report", "done"}]
          /\ swapErr' \in [Requests -> BOOLEAN]
      BY <2>3 DEF StopStarting
    <3> QED
      BY <2>3, <3>1, <3>2, <3>3, <3>4 DEF StopStarting
  <2>4. CASE StopReady(m, who)
    BY <2>4 DEF StopReady, QueuesOK
  <2> QED
    BY <2>1, <2>2, <2>3, <2>4
<1> QED
  BY <1>1, <1>2, <1>3, <1>4, <1>5, <1>6, <1>7, <1>8, <1>9, <1>10 DEF Processes

(* The run loop only adds faults to what the processes keep.               *)
LEMMA RunLoopKeepsProcsTyped ==
  ASSUME TypeOK, RunLoop
  PROVE  ProcsOK'
<1>1. faults' \in [AllFaultKinds -> Nat]
  <2>1. CASE UNCHANGED faults
    BY <2>1 DEF TypeOK, ProcsOK
  <2>2. CASE Fault("unload") \/ Fault("shutdown")
    BY <2>2, FaultTyped DEF TypeOK
  <2> QED
    BY <2>1, <2>2 DEF RunLoop, handleRequest, handleSwapDone, handleServeDone,
       drainQueue, expireStaleQueued, handleUnload, UnloadFilter, UnloadStops,
       UnloadDone, handleShutdown, ShutdownDone
<1> QED
  BY <1>1, RunLoopFrame DEF TypeOK, ProcsOK, procVars

(* Type correctness is inductive, together with LoopHead.                  *)
LEMMA TypedStep == TypeOK /\ LoopHead /\ [Next]_vars => TypeOK' /\ LoopHead'
<1> SUFFICES ASSUME TypeOK, LoopHead, [Next]_vars PROVE TypeOK' /\ LoopHead'
  OBVIOUS
<1>0. planner' = planner
  BY DEF Next, vars
<1>1. CASE RunLoop
  BY <1>0, <1>1, RunLoopTyped, RunLoopKeepsProcsTyped DEF TypeOK
<1>2. CASE Clients
  <2>1. ClientsOK'
    BY <1>2 DEF Clients, RequestCancelled, ServeDoneDropped, TypeOK, ClientsOK, Status
  <2> QED
    BY <1>0, <1>2, <2>1, ClientsFrame
       DEF TypeOK, TablesOK, QueuesOK, SwapsOK, ProcsOK, LoopHead, swapVars, procVars
<1>3. CASE doSwap
  <2>1. SwapsOK'
    BY <1>3 DEF doSwap, doSwapStopped, doSwapDropped, TypeOK, SwapsOK
  <2> QED
    BY <1>0, <1>3, <2>1, doSwapFrame
       DEF TypeOK, ClientsOK, TablesOK, QueuesOK, ProcsOK, LoopHead, procVars
<1>4. CASE Processes
  BY <1>0, <1>4, ProcessesFrame, ProcessesTyped
     DEF TypeOK, ClientsOK, TablesOK, QueuesOK, LoopHead
<1>5. CASE UNCHANGED vars
  BY <1>5 DEF vars, TypeOK, ClientsOK, TablesOK, QueuesOK, SwapsOK, ProcsOK, LoopHead
<1> QED
  BY <1>1, <1>2, <1>3, <1>4, <1>5 DEF Next

-----------------------------------------------------------------------------
(* What an active swap evicts.                                             *)

(* A model whose swap or grant did not collide is evicted by no active swap. *)
LEMMA NotCollided ==
  ASSUME NEW t \in Models, NEW ev, ~collidesWith(t, ev)
  PROVE  /\ \A id \in active \ {t} : t \notin evict[id]
         /\ \A id \in active \ {t} : id \notin ev
BY DEF collidesWith

(* The victims chosen for a new swap are idle, not active, and not chosen  *)
(* by a swap that could in turn be evicted by it.                          *)
LEMMA StartSwapSafe ==
  ASSUME TypeOK, planner' = planner, ActiveSwapsEvictOnlyIdle, GroupSwapsAgree,
         NEW r \in Requests, NEW m \in Models, m \notin active,
         ~collidesWith(m, EvictionFor(m, activeTargets(m))),
         ~conflictsWithInFlight(EvictionFor(m, activeTargets(m))),
         StartSwap(r, m, EvictionFor(m, activeTargets(m)))
  PROVE  ActiveSwapsEvictOnlyIdle' /\ GroupSwapsAgree'
<1> DEFINE ev == EvictionFor(m, activeTargets(m))
<1>1. /\ ev \in SUBSET Models /\ m \notin ev
      /\ planner = "group" => \A x \in active : Evicts(m, x) => x \in ev
  BY EvictionForTyped DEF TypeOK
<1>2. \A id \in active : m \notin evict[id] /\ id \notin ev
  BY NotCollided
<1>3. \A e \in ev : inFlight[e] = 0
  BY <1>1 DEF conflictsWithInFlight, TypeOK, TablesOK
<1>4. /\ active' = active \cup {m} /\ inFlight' = inFlight
      /\ evict' = [evict EXCEPT ![m] = ev]
  BY DEF StartSwap
<1> HIDE DEF ev
<1>5. ActiveSwapsEvictOnlyIdle'
  BY <1>1, <1>2, <1>3, <1>4 DEF ActiveSwapsEvictOnlyIdle, TypeOK, TablesOK
<1>6. GroupSwapsAgree'
  BY <1>1, <1>2, <1>4 DEF GroupSwapsAgree, Evicts, TypeOK
<1> QED
  BY <1>5, <1>6

(* Serving a model that no active swap evicts disturbs none of them.       *)
LEMMA GrantSafe ==
  ASSUME TypeOK, planner' = planner, ActiveSwapsEvictOnlyIdle, GroupSwapsAgree, NEW m \in Models,
         active' \subseteq active,
         evict' \in [Models -> SUBSET Models],
         \A id \in active' : evict'[id] = evict[id] /\ m \notin evict[id],
         \A x \in Models \ {m} : inFlight'[x] = inFlight[x]
  PROVE  ActiveSwapsEvictOnlyIdle' /\ GroupSwapsAgree'
BY DEF TypeOK, TablesOK, ActiveSwapsEvictOnlyIdle, GroupSwapsAgree, Evicts

(* Forgetting swaps, or letting a count reach zero, disturbs none either.  *)
LEMMA ForgetSafe ==
  ASSUME TypeOK, planner' = planner, ActiveSwapsEvictOnlyIdle, GroupSwapsAgree,
         active' \subseteq active,
         \A id \in active' : evict'[id] = evict[id],
         \A x \in Models : inFlight[x] = 0 => inFlight'[x] = 0
  PROVE  ActiveSwapsEvictOnlyIdle' /\ GroupSwapsAgree'
BY DEF TypeOK, TablesOK, ActiveSwapsEvictOnlyIdle, GroupSwapsAgree, Evicts

(* Every event of the run loop keeps the victims of active swaps idle.     *)
LEMMA RunLoopSafe ==
  ASSUME IInv, RunLoop, planner' = planner
  PROVE  ActiveSwapsEvictOnlyIdle' /\ GroupSwapsAgree'
<1> USE DEF IInv
<1>1. CASE \E r \in Requests : handleRequest(r)
  <2>1. PICK r \in Requests : handleRequest(r)
    BY <1>1
  <2> DEFINE m  == model[r]
             ev == EvictionFor(m, activeTargets(m))
  <2>2. m \in Models
    BY DEF TypeOK, ClientsOK
  <2>3. CASE UNCHANGED <<active, evict, inFlight>>
    BY <2>3, ForgetSafe
  <2>4. CASE /\ m \notin active /\ ~collidesWith(m, ev)
             /\ inFlight' = [inFlight EXCEPT ![m] = @ + 1]
             /\ UNCHANGED <<active, evict>>
    BY <2>2, <2>4, NotCollided, GrantSafe DEF TypeOK, TablesOK
  <2>5. CASE /\ m \notin active /\ ~collidesWith(m, ev) /\ ~conflictsWithInFlight(ev)
             /\ StartSwap(r, m, ev)
    BY <2>2, <2>5, StartSwapSafe
  <2> QED
    BY <2>1, <2>3, <2>4, <2>5 DEF handleRequest, Join, tableVars
<1>2. CASE drainQueue
  <2> DEFINE r  == Head(pending)
             m  == model[r]
             ev == EvictionFor(m, activeTargets(m))
  <2>1. r \in Requests /\ m \in Models
    BY <1>2 DEF drainQueue, LoopHead, TypeOK, QueuesOK, ClientsOK
  <2>2. CASE UNCHANGED <<active, evict, inFlight>>
    BY <2>2, ForgetSafe
  <2>3. CASE /\ m \notin active /\ ~collidesWith(m, ev)
             /\ inFlight' = GrantedTo({r}, m)
             /\ UNCHANGED <<active, evict>>
    <3>1. \A id \in active : m \notin evict[id]
      BY <2>1, <2>3, NotCollided
    <3>2. \A x \in Models \ {m} : inFlight'[x] = inFlight[x]
      BY <2>1, <2>3, GrantedToTyped DEF TypeOK
    <3> QED
      BY <2>1, <2>3, <3>1, <3>2, GrantSafe DEF TypeOK, TablesOK
  <2>4. CASE /\ m \notin active /\ ~collidesWith(m, ev) /\ ~conflictsWithInFlight(ev)
             /\ StartSwap(r, m, ev)
    BY <2>1, <2>4, StartSwapSafe
  <2> QED
    BY <1>2, <2>2, <2>3, <2>4 DEF drainQueue, Join, tableVars
<1>3. CASE \E r \in Requests : handleSwapDone(r)
  <2>1. PICK r \in Requests : handleSwapDone(r)
    BY <1>3
  <2> DEFINE m == model[r]
  <2>2. m \in Models /\ waiters[m] \in SUBSET Requests
    BY DEF TypeOK, ClientsOK, TablesOK
  <2>3. CASE UNCHANGED tableVars
    BY <2>3, ForgetSafe DEF tableVars
  <2>4. CASE Forget({m}) /\ UNCHANGED inFlight
    BY <2>4, ForgetSafe DEF Forget, TypeOK, TablesOK
  <2>5. CASE m \in active /\ Forget({m}) /\ inFlight' = GrantedTo(waiters[m], m)
    <3>1. \A id \in active \ {m} : m \notin evict[id]
      BY <2>5 DEF ActiveSwapsEvictOnlyIdle
    <3>2. /\ active' = active \ {m}
          /\ evict' \in [Models -> SUBSET Models]
          /\ \A id \in active' : evict'[id] = evict[id]
      BY <2>5, ForgetTyped DEF Forget, TypeOK, TablesOK
    <3>3. \A x \in Models \ {m} : inFlight'[x] = inFlight[x]
      BY <2>2, <2>5, GrantedToTyped DEF TypeOK
    <3> QED
      BY <2>2, <3>1, <3>2, <3>3, GrantSafe
  <2> QED
    BY <2>1, <2>3, <2>4, <2>5 DEF handleSwapDone
<1>4. CASE \E r \in Requests : handleServeDone(r)
  <2>1. PICK r \in Requests : handleServeDone(r)
    BY <1>4
  <2>2. \A x \in Models : inFlight[x] = 0 => inFlight'[x] = 0
    BY <2>1 DEF handleServeDone, TypeOK, TablesOK
  <2> QED
    BY <2>1, <2>2, ForgetSafe DEF handleServeDone
<1>5. CASE (\E ts \in SUBSET Models : handleUnload(ts)) \/ handleShutdown
  BY <1>5, ForgetSafe DEF handleUnload, handleShutdown, Forget, TypeOK, TablesOK
<1>6. CASE expireStaleQueued \/ UnloadFilter \/ UnloadStops \/ UnloadDone \/ ShutdownDone
  BY <1>6, ForgetSafe DEF expireStaleQueued, UnloadFilter, UnloadStops, UnloadDone,
     ShutdownDone, tableVars
<1> QED
  BY <1>1, <1>2, <1>3, <1>4, <1>5, <1>6 DEF RunLoop

(* The inductive invariant holds at the start ...                          *)
LEMMA InitIInv == Init => IInv
<1>1. Init => ActiveSwapsEvictOnlyIdle /\ GroupSwapsAgree
  BY DEF Init, ActiveSwapsEvictOnlyIdle, GroupSwapsAgree
<1> QED
  BY <1>1, InitTyped DEF IInv

(* ... and is preserved by every step.                                     *)
LEMMA NextIInv == IInv /\ [Next]_vars => IInv'
<1> SUFFICES ASSUME IInv, [Next]_vars PROVE IInv'
  OBVIOUS
<1>0. planner' = planner
  BY DEF Next, vars
<1>1. TypeOK' /\ LoopHead'
  BY TypedStep DEF IInv
<1>2. CASE RunLoop
  BY <1>0, <1>1, <1>2, RunLoopSafe DEF IInv
<1>3. CASE UNCHANGED <<active, evict, inFlight>>
  BY <1>0, <1>1, <1>3 DEF IInv, ActiveSwapsEvictOnlyIdle, GroupSwapsAgree, Evicts
<1> QED
  BY <1>2, <1>3, ClientsFrame, doSwapFrame, ProcessesFrame DEF Next, vars

(* The tables of the run loop, the swaps and the processes keep their      *)
(* types; in particular no in-flight count ever drops below zero.          *)
THEOREM TypeCorrect == Spec => []TypeOK
<1>1. Init => TypeOK /\ LoopHead
  BY InitTyped
<1>2. TypeOK /\ LoopHead /\ [Next]_vars => (TypeOK /\ LoopHead)'
  BY TypedStep
<1> QED
  BY <1>1, <1>2, PTL DEF Spec

(* The inductive invariant holds throughout.                               *)
THEOREM Invariance == Spec => []IInv
<1> QED
  BY InitIInv, NextIInv, PTL DEF Spec

(* A swap in the table never interrupts a busy or a loading model for a    *)
(* competing request: collidesWith and conflictsWithInFlight at the start  *)
(* of a swap, and collidesWith before a grant, are together enough. Swaps  *)
(* that handleUnload has taken out of the table are outside of it.         *)
THEOREM NeverInterrupts == Spec => []ActiveSwapsEvictOnlyIdle
<1>1. IInv => ActiveSwapsEvictOnlyIdle
  BY DEF IInv
<1> QED
  BY <1>1, Invariance, PTL

(* The swaps that load at the same time never compete for the GPU.         *)
LEMMA GroupLoadsAreCompatible == Spec => []GroupSwapsAgree
<1>1. IInv => GroupSwapsAgree
  BY DEF IInv
<1> QED
  BY <1>1, Invariance, PTL

-----------------------------------------------------------------------------
(* One process per model.                                                  *)

(* A model that can be started has no process, unless it is flagged.       *)
ProcessAccount ==
    \A m \in Models :
        /\ live[m] <= 1
        /\ pState[m] \in {"stopped", "failed"} /\ ~possiblyLeaked[m] => live[m] = 0

(* Every step of a process keeps its account.                              *)
LEMMA ProcessAccountStep ==
  ASSUME TypeOK, ProcessAccount, Processes
  PROVE  ProcessAccount'
<1> USE DEF TypeOK, ProcsOK, ProcessAccount, swapVars, procVars
<1>1. CASE \E r \in Requests : AcceptWaitReady(r)
  BY <1>1 DEF AcceptWaitReady
<1>2. CASE \E r \in Requests : AcceptRun(r)
  BY <1>2 DEF AcceptRun, ClientsOK
<1>3. CASE \E m \in Models : StartSucceeds(m) \/ LeakedExits(m) \/ SelfStopDecided(m)
  <2>1. CASE \E m \in Models : StartSucceeds(m)
    BY <2>1 DEF StartSucceeds
  <2>2. CASE \E m \in Models : LeakedExits(m)
    BY <2>2 DEF LeakedExits
  <2>3. CASE \E m \in Models : SelfStopDecided(m)
    BY <2>3 DEF SelfStopDecided
  <2> QED
    BY <1>3, <2>1, <2>2, <2>3
<1>4. CASE \E m \in Models : StartFails(m)
  BY <1>4 DEF StartFails, KillGaveUp
<1>5. CASE \E m \in Models : UpstreamExits(m)
  BY <1>5 DEF UpstreamExits
<1>6. CASE \E m \in Models : FinishStop(m)
  BY <1>6 DEF FinishStop, KillConfirmed, KillGaveUp
<1>7. CASE \E m \in Models : ProcessCancelled(m)
  BY <1>7 DEF ProcessCancelled, KillConfirmed, KillGaveUp
<1>8. CASE Stops
  <2>1. PICK m \in Models, who \in Requests \cup {Loop, Self} :
            StopIdle(m, who) \/ StopStarting(m, who) \/ StopReady(m, who)
    BY <1>8 DEF Stops
  <2>2. CASE StopIdle(m, who)
    BY <2>2 DEF StopIdle
  <2>3. CASE StopStarting(m, who)
    BY <2>3 DEF StopStarting, KillConfirmed, KillGaveUp
  <2>4. CASE StopReady(m, who)
    BY <2>4 DEF StopReady
  <2> QED
    BY <2>1, <2>2, <2>3, <2>4
<1> QED
  BY <1>1, <1>2, <1>3, <1>4, <1>5, <1>6, <1>7, <1>8 DEF Processes

(* No model ever has two processes, whatever the swaps, unloads, goroutines *)
(* and unconfirmed kills do: Run's look at possiblyLeaked is enough.       *)
THEOREM OneProcess == Spec => []OneProcessPerModel
<1>1. Init => ProcessAccount
  BY DEF Init, ProcessAccount
<1>2. ASSUME TypeOK, ProcessAccount, [Next]_vars
      PROVE  ProcessAccount'
  <2>1. CASE Processes
    BY <1>2, <2>1, ProcessAccountStep
  <2>2. CASE UNCHANGED procVars
    BY <1>2, <2>2 DEF ProcessAccount, procVars
  <2> QED
    BY <1>2, <2>1, <2>2, RunLoopFrame, ClientsFrame, doSwapFrame DEF Next, vars, procVars
<1>3. ProcessAccount => OneProcessPerModel
  BY DEF ProcessAccount, OneProcessPerModel
<1> QED
  BY <1>1, <1>2, <1>3, TypeCorrect, PTL DEF Spec
=============================================================================
