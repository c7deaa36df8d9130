-------------------------- MODULE RouterSharingProofs --------------------------
(***************************************************************************)
(* Which models share the GPU, for any groups and any swap matrix. The     *)
(* planners look at the models that are not stopped and at the active      *)
(* swaps; what is proved here is that this is enough: between the decision *)
(* and the start of the process lie the Stop calls of the swap, the        *)
(* decisions made for other requests and the goroutine that calls Run. The *)
(* last part is about the swaps again: that none is left without a         *)
(* goroutine that can go on.                                               *)
(***************************************************************************)
EXTENDS RouterRequestsProofs, WellFoundedInduction

-----------------------------------------------------------------------------
(* The solver of the matrix.                                               *)

(* A set of naturals that is not empty has a least element.                *)
LEMMA LeastNatural ==
  ASSUME NEW T \in SUBSET Nat, T # {}
  PROVE  \E x \in T : \A y \in T : x <= y
<1> DEFINE upTo == {0..x : x \in T}
<1>1. upTo \subseteq FiniteSubsetsOf(Nat) /\ upTo # {}
  <2>1. \A x \in T : 0..x \in FiniteSubsetsOf(Nat)
    BY FS_Interval DEF FiniteSubsetsOf
  <2> QED
    BY <2>1
<1>2. PICK low \in upTo : \A u \in upTo : ~(<<u, low>> \in StrictSubsetOrdering(Nat))
  BY <1>1, FS_StrictSubsetOrderingWellFounded, WFMin
<1>3. PICK x \in T : low = 0..x
  BY <1>2
<1>4. ASSUME NEW y \in T, y < x
      PROVE  FALSE
  <2>1. 0..y \in upTo
    OBVIOUS
  <2>2. 0..y \subseteq 0..x /\ x \in 0..x /\ x \notin 0..y
    BY <1>4
  <2>3. <<0..y, low>> \in StrictSubsetOrdering(Nat)
    BY <1>3, <2>2 DEF StrictSubsetOrdering
  <2> QED
    BY <1>2, <2>1, <2>3
<1> QED
  BY <1>4

(* What a set costs is a number, as only finitely many models run.         *)
LEMMA CostIsNatural ==
  ASSUME NEW running \in SUBSET Models, NEW i
  PROVE  Cost(i, running) \in Nat
<1> DEFINE victims == running \ Sets[i]
           bill(m) == {m} \X (1..EvictCost[m])
<1>1. victims \in SUBSET Models
  OBVIOUS
<1>2. IsFiniteSet(victims)
  BY <1>1, ModelsAssumption, FS_Subset
<1>3. \A m \in victims : IsFiniteSet(bill(m))
  <2> SUFFICES ASSUME NEW m \in victims PROVE IsFiniteSet(bill(m))
    OBVIOUS
  <2>1. EvictCost[m] \in Int
    BY CostAssumption
  <2>2. IsFiniteSet(1..EvictCost[m])
    BY <2>1, FS_Interval
  <2> QED
    BY <2>2, FS_Singleton, FS_Product
<1>4. IsFiniteSet({bill(m) : m \in victims})
  <2> DEFINE bills == {bill(m) : m \in victims}
  <2>1. [m \in victims |-> bill(m)] \in Surjection(victims, bills)
    BY DEF Surjection
  <2> QED
    BY <1>2, <2>1, FS_Surjection
<1>5. IsFiniteSet(UNION {bill(m) : m \in victims})
  BY <1>3, <1>4, FS_UNION
<1> QED
  BY <1>5, FS_CardinalityType DEF Cost

(* The solver finds a set with the target in it, and none is cheaper: the  *)
(* comparison of the solver is an order with a least element.              *)
THEOREM ChosenIsCandidate ==
  ASSUME NEW t, NEW running \in SUBSET Models, Candidates(t) # {}
  PROVE  /\ Chosen(t, running) \in Candidates(t)
         /\ \A j \in Candidates(t) : NoWorse(Chosen(t, running), j, running)
<1>1. Candidates(t) \in SUBSET Nat
  BY SetsAssumption DEF Candidates
<1>2. PICK low \in {Cost(i, running) : i \in Candidates(t)} :
          \A i \in Candidates(t) : low <= Cost(i, running)
  <2> DEFINE costs == {Cost(i, running) : i \in Candidates(t)}
  <2>1. costs \in SUBSET Nat /\ costs # {}
    BY CostIsNatural
  <2>2. PICK low \in costs : \A y \in costs : low <= y
    BY <2>1, LeastNatural
  <2> QED
    BY <2>2
<1>3. PICK first \in {i \in Candidates(t) : Cost(i, running) = low} :
          \A i \in Candidates(t) : Cost(i, running) = low => first <= i
  <2>1. {i \in Candidates(t) : Cost(i, running) = low} \in SUBSET Nat
    BY <1>1
  <2>2. {i \in Candidates(t) : Cost(i, running) = low} # {}
    BY <1>2
  <2> QED
    BY <2>1, <2>2, LeastNatural
<1>4. \A j \in Candidates(t) : NoWorse(first, j, running)
  <2> SUFFICES ASSUME NEW j \in Candidates(t) PROVE NoWorse(first, j, running)
    OBVIOUS
  <2>1. /\ Cost(first, running) = low /\ low <= Cost(j, running)
        /\ Cost(j, running) = low => first <= j
    BY <1>2, <1>3
  <2>2. low \in Nat /\ Cost(j, running) \in Nat
    BY <1>2, CostIsNatural
  <2> QED
    BY <2>1, <2>2 DEF NoWorse
<1> QED
  BY <1>3, <1>4 DEF Chosen

-----------------------------------------------------------------------------
(* The argument.                                                           *)

(* A swap from startSwap to handleSwapDone, and one whose victims have all *)
(* been stopped, or so their Stop calls said.                              *)
Swapping(r) == swapPc[r] \in {"stop", "wait", "parked", "report"}
Loading == {model[r] : r \in {q \in Requests : swapPc[q] \in {"wait", "parked", "report"}}}

(* What has the GPU, or can have it without another decision.              *)
Holding == Running \cup Loading

Victims(ms) == UNION {evict[m] : m \in ms}

(* As long as nothing was disturbed: the run loop serves requests, a model *)
(* has a process only while it is not stopped; *)
Calm ==
    /\ loop \in {"select", "drain"}
    /\ \A m \in Models :
          /\ pState[m] \in {"stopped", "starting", "ready", "stopping"}
          /\ live[m] > 0 => pState[m] # "stopped"

(* a swap goroutine belongs to the active swap of its model; *)
OneSwap ==
    \A r \in Requests : Swapping(r) =>
        /\ model[r] \in active
        /\ \A q \in Requests : Swapping(q) /\ model[q] = model[r] => q = r

(* Run is called by such a goroutine, for a model that is still stopped; *)
RunsPending ==
    \A r \in runs : swapPc[r] \in {"wait", "parked"} /\ pState[model[r]] = "stopped"

(* the victims of a swap are stopped, or it is still waiting for that; *)
VictimsStopped ==
    \A r \in Requests : Swapping(r) =>
        \A e \in evict[model[r]] :
            (swapPc[r] = "stop" /\ e \in toStop[r]) \/ pState[e] = "stopped"

(* and whichever of the active swaps go through, what they load may run    *)
(* together, and with whatever they leave running.                         *)
WouldHold(A) == A \cup (Holding \ Victims(A))
SwapsShare == \A A \in SUBSET active : MayShareTheGPU(WouldHold(A))

SharingInv ==
    Undisturbed => Calm /\ OneSwap /\ RunsPending /\ VictimsStopped /\ SwapsShare

(* Fewer models may share the GPU all the more.                            *)
LEMMA FewerMayShare ==
  ASSUME NEW ms, NEW fewer, fewer \subseteq ms, MayShareTheGPU(ms)
  PROVE  MayShareTheGPU(fewer)
BY DEF MayShareTheGPU, Evicts

(* A fault that disturbs is never forgotten.                               *)
LEMMA FaultDisturbs ==
  ASSUME ProcsOK, NEW k \in {"unload", "fail", "hang", "shutdown"}, Fault(k)
  PROVE  ~Undisturbed'
<1>1. faults[k] \in Nat /\ faults'[k] = faults[k] + 1
  BY FaultAssumption DEF Fault, ProcsOK, AllFaultKinds
<1>2. faults'[k] # 0
  BY <1>1
<1> QED
  BY <1>2 DEF Undisturbed

(* Nor is any other.                                                       *)
LEMMA OnceDisturbed ==
  ASSUME TypeOK, [Next]_vars, Undisturbed'
  PROVE  Undisturbed
<1>1. CASE UNCHANGED faults
  BY <1>1 DEF Undisturbed
<1>2. CASE \E k \in {"unload", "fail", "hang", "shutdown"} : Fault(k)
  BY <1>2, FaultDisturbs DEF TypeOK
<1>3. CASE Fault("selfStop")
  BY <1>3 DEF Fault, Undisturbed, TypeOK, ProcsOK, AllFaultKinds
<1> QED
  BY <1>1, <1>2, <1>3, doSwapFrame, ClientsFrame
     DEF Next, vars, RunLoop, handleRequest, handleSwapDone, handleServeDone,
         drainQueue, expireStaleQueued, handleUnload, UnloadFilter, UnloadStops,
         UnloadDone, handleShutdown, ShutdownDone, Processes, Stops,
         AcceptWaitReady, AcceptRun, StartSucceeds, StartFails, UpstreamExits,
         LeakedExits, SelfStopDecided, StopIdle, StopStarting, StopReady,
         FinishStop, ProcessCancelled, KillConfirmed, KillGaveUp

(* With fewer active swaps, the same victims and no more on the GPU, what  *)
(* shared it still does.                                                   *)
LEMMA LessShares ==
  ASSUME SwapsShare, planner' = planner, active' \subseteq active,
         \A x \in active' : evict'[x] = evict[x],
         Holding' \subseteq Holding
  PROVE  SwapsShare'
<1> SUFFICES ASSUME NEW A \in SUBSET active'
             PROVE  MayShareTheGPU(WouldHold(A))'
  BY DEF SwapsShare
<1>1. Victims(A)' = Victims(A)
  BY DEF Victims
<1>2. MayShareTheGPU(WouldHold(A))
  BY DEF SwapsShare
<1>3. WouldHold(A)' \subseteq WouldHold(A)
  BY <1>1 DEF WouldHold
<1> QED
  BY <1>2, <1>3 DEF MayShareTheGPU, Evicts

(* What the planner of the groups leaves running beside t does not exclude *)
(* it.                                                                     *)
LEMMA GroupMakesRoom ==
  ASSUME TypeOK, planner # "matrix", NEW t \in Models,
         NEW ms, ms \subseteq Running \cup active, MayShareTheGPU(ms),
         ms \cap EvictionFor(t, activeTargets(t)) = {}
  PROVE  MayShareTheGPU(ms \cup {t})
<1>1. \A x \in ms \ {t} : ~Evicts(t, x)
  BY DEF EvictionFor, activeTargets
<1> QED
  BY <1>1 DEF MayShareTheGPU, Evicts

(* Nor does what the matrix leaves running: either t is among them, or     *)
(* they are all in the set that was chosen.                                *)
LEMMA MatrixMakesRoom ==
  ASSUME TypeOK, planner = "matrix", NEW t \in Models, t \notin active,
         NEW ms, ms \subseteq Running \cup active, MayShareTheGPU(ms),
         ms \cap EvictionFor(t, activeTargets(t)) = {},
         t \in Running => t \in ms
  PROVE  MayShareTheGPU(ms \cup {t})
<1> DEFINE running == Running \cup activeTargets(t)
<1>1. EvictionFor(t, activeTargets(t)) = Solve(t, running)
  BY DEF EvictionFor
<1>2. ms \subseteq running /\ running \in SUBSET Models
  BY DEF activeTargets, Running, TypeOK, TablesOK
<1>3. CASE t \in running
  <2>1. t \in ms
    BY <1>3 DEF activeTargets
  <2> QED
    BY <2>1, FewerMayShare
<1>4. CASE t \notin running /\ Candidates(t) = {}
  <2>1. ms = {}
    BY <1>1, <1>2, <1>4 DEF Solve
  <2> QED
    BY <2>1 DEF MayShareTheGPU
<1>5. CASE t \notin running /\ Candidates(t) # {}
  <2>1. Chosen(t, running) \in Candidates(t)
    BY <1>2, <1>5, ChosenIsCandidate
  <2>2. PICK i \in DOMAIN Sets : i = Chosen(t, running) /\ t \in Sets[i]
    BY <2>1 DEF Candidates
  <2>3. ms \subseteq Sets[i]
    BY <1>1, <1>2, <1>5, <2>2 DEF Solve
  <2> QED
    BY <2>2, <2>3 DEF MayShareTheGPU
<1> QED
  BY <1>3, <1>4, <1>5

(* Only what an active swap loads, or is not stopped, is on the GPU.       *)
LEMMA HoldingBound ==
  ASSUME TypeOK, OneSwap
  PROVE  Holding \subseteq Running \cup active
BY DEF Holding, Loading, OneSwap, Swapping

(* Starting a swap: its victims are taken from what could hold the GPU,    *)
(* whichever of the other swaps go through.                                *)
LEMMA StartSwapShares ==
  ASSUME IInv, planner' = planner, UNCHANGED <<model, procVars>>,
         OneSwap, RunsPending, VictimsStopped, SwapsShare,
         NEW r \in Requests, model[r] \notin active,
         ~collidesWith(model[r], EvictionFor(model[r], activeTargets(model[r]))),
         StartSwap(r, model[r], EvictionFor(model[r], activeTargets(model[r])))
  PROVE  OneSwap' /\ RunsPending' /\ VictimsStopped' /\ SwapsShare'
<1>1. PICK m \in Models : m = model[r]
  BY DEF IInv, TypeOK, ClientsOK
<1>2. PICK ev \in SUBSET Models : ev = EvictionFor(m, activeTargets(m)) /\ m \notin ev
  BY EvictionForTyped DEF IInv, TypeOK
<1>3. /\ active' = active \cup {m} /\ evict' = [evict EXCEPT ![m] = ev]
      /\ swapPc' = [swapPc EXCEPT ![r] = "stop"] /\ toStop' = [toStop EXCEPT ![r] = ev]
      /\ runs' = runs /\ m \notin active
  BY <1>1, <1>2 DEF StartSwap
<1>4. \A x \in active : m \notin evict[x] /\ x \notin ev /\ evict'[x] = evict[x]
  BY <1>1, <1>2, <1>3, NotCollided DEF IInv, TypeOK, TablesOK
<1>5. ~Swapping(r)
  BY <1>1, <1>3 DEF OneSwap
<1>6. OneSwap'
  BY <1>1, <1>3, <1>5 DEF OneSwap, Swapping, IInv, TypeOK, SwapsOK
<1>7. RunsPending'
  BY <1>3, <1>5 DEF RunsPending, Swapping, procVars, IInv, TypeOK, SwapsOK
<1>8. VictimsStopped'
  <2> SUFFICES ASSUME NEW q \in Requests, Swapping(q)', NEW e \in evict'[model[q]]
               PROVE  (swapPc'[q] = "stop" /\ e \in toStop'[q]) \/ pState[e] = "stopped"
    BY DEF VictimsStopped, procVars
  <2>1. CASE q = r
    BY <1>1, <1>3, <2>1 DEF IInv, TypeOK, TablesOK, SwapsOK
  <2>2. CASE q # r
    <3>1. Swapping(q) /\ swapPc'[q] = swapPc[q] /\ toStop'[q] = toStop[q]
      BY <1>3, <2>2 DEF Swapping, IInv, TypeOK, SwapsOK
    <3>2. evict'[model[q]] = evict[model[q]]
      BY <1>4, <3>1 DEF OneSwap
    <3> QED
      BY <3>1, <3>2 DEF VictimsStopped
  <2> QED
    BY <2>1, <2>2
<1>9. Running' = Running /\ Loading' = Loading /\ Holding' = Holding
  <2>1. Running' = Running
    BY DEF Running, procVars
  <2>2. \A q \in Requests : swapPc'[q] \in {"wait", "parked", "report"}
                                <=> swapPc[q] \in {"wait", "parked", "report"}
    BY <1>3, <1>5 DEF Swapping, IInv, TypeOK, SwapsOK
  <2> QED
    BY <2>1, <2>2 DEF Loading, Holding
<1>10. ASSUME NEW A \in SUBSET active
       PROVE  /\ MayShareTheGPU(WouldHold(A))'
              /\ MayShareTheGPU(WouldHold(A \cup {m}))'
  <2>1. Victims(A)' = Victims(A) /\ Victims(A \cup {m})' = Victims(A) \cup ev
    BY <1>3, <1>4 DEF Victims, IInv, TypeOK, TablesOK
  <2>2. PICK ms : ms = WouldHold(A) \ ev
    OBVIOUS
  <2>3. /\ WouldHold(A)' = WouldHold(A)
        /\ WouldHold(A \cup {m})' = ms \cup {m}
    BY <1>4, <1>9, <2>1, <2>2 DEF WouldHold
  <2>4. MayShareTheGPU(WouldHold(A)) /\ MayShareTheGPU(ms)
    BY <2>2, FewerMayShare DEF SwapsShare
  <2>5. ms \subseteq Running \cup active /\ ms \cap ev = {}
    BY <2>2, HoldingBound DEF WouldHold, IInv
  <2>6. m \in Running => m \in ms
    BY <1>2, <1>4, <2>2 DEF WouldHold, Holding, Victims
  <2>7. MayShareTheGPU(ms \cup {m})
    BY <1>2, <1>3, <2>4, <2>5, <2>6, GroupMakesRoom, MatrixMakesRoom DEF IInv
  <2> QED
    BY <2>3, <2>4, <2>7 DEF MayShareTheGPU, Evicts
<1>11. SwapsShare'
  <2> SUFFICES ASSUME NEW A \in SUBSET active'
               PROVE  MayShareTheGPU(WouldHold(A))'
    BY DEF SwapsShare
  <2>1. A \in SUBSET active \/ A = (A \ {m}) \cup {m}
    BY <1>3
  <2>2. A \ {m} \in SUBSET active
    BY <1>3
  <2>3. CASE A \in SUBSET active
    BY <1>10, <2>3
  <2>4. CASE A = (A \ {m}) \cup {m}
    <3>1. PICK B \in SUBSET active : B = A \ {m} /\ A = B \cup {m}
      BY <2>2, <2>4
    <3>2. MayShareTheGPU(WouldHold(B \cup {m}))'
      BY <1>10
    <3> QED
      BY <3>1, <3>2
  <2> QED
    BY <2>1, <2>3, <2>4
<1> QED
  BY <1>6, <1>7, <1>8, <1>11

(* An event of the run loop that starts no swap and ends none.             *)
LEMMA QuietLoopShares ==
  ASSUME OneSwap, RunsPending, VictimsStopped, SwapsShare, planner' = planner,
         UNCHANGED <<model, active, evict, swapPc, toStop, runs, pState>>
  PROVE  OneSwap' /\ RunsPending' /\ VictimsStopped' /\ SwapsShare'
<1>1. OneSwap'
  BY DEF OneSwap, Swapping
<1>2. RunsPending' /\ VictimsStopped'
  BY DEF RunsPending, VictimsStopped, Swapping
<1>3. Holding' = Holding
  BY DEF Holding, Loading, Running
<1>4. SwapsShare'
  BY <1>3, LessShares
<1> QED
  BY <1>1, <1>2, <1>4

(* The swap that ends is the active one of its model, which had no other:  *)
(* what remains on the GPU was there before.                               *)
LEMMA SwapDoneShares ==
  ASSUME TypeOK, OneSwap, RunsPending, VictimsStopped, SwapsShare, planner' = planner,
         NEW r \in Requests, handleSwapDone(r)
  PROVE  OneSwap' /\ RunsPending' /\ VictimsStopped' /\ SwapsShare'
<1>1. PICK m \in Models : m = model[r] /\ m \in active
  BY DEF handleSwapDone, OneSwap, Swapping, TypeOK, ClientsOK
<1>2. Forget({m})
  BY <1>1 DEF handleSwapDone
<1>3. /\ active' = active \ {m} /\ \A x \in active' : evict'[x] = evict[x]
      /\ swapPc[r] = "report" /\ swapPc' = [swapPc EXCEPT ![r] = "done"]
      /\ UNCHANGED <<model, toStop, runs, pState>>
  BY <1>2 DEF handleSwapDone, Forget, procVars, TypeOK, TablesOK
<1>4. \A q \in Requests : Swapping(q)' =>
          Swapping(q) /\ q # r /\ model[q] # m /\ swapPc'[q] = swapPc[q]
  BY <1>1, <1>3 DEF Swapping, OneSwap, TypeOK, SwapsOK
<1>5. OneSwap'
  BY <1>3, <1>4 DEF OneSwap
<1>6. RunsPending'
  BY <1>3 DEF RunsPending, TypeOK, SwapsOK
<1>7. VictimsStopped'
  <2> SUFFICES ASSUME NEW q \in Requests, Swapping(q)', NEW e \in evict'[model[q]]
               PROVE  (swapPc'[q] = "stop" /\ e \in toStop'[q]) \/ pState[e] = "stopped"
    BY <1>3 DEF VictimsStopped
  <2>1. Swapping(q) /\ evict'[model[q]] = evict[model[q]] /\ swapPc'[q] = swapPc[q]
    BY <1>3, <1>4, <1>5 DEF OneSwap
  <2> QED
    BY <1>3, <2>1 DEF VictimsStopped
<1>8. Holding' \subseteq Holding
  <2>1. Running' = Running
    BY <1>3 DEF Running
  <2>2. \A q \in Requests : swapPc'[q] \in {"wait", "parked", "report"}
                                => swapPc[q] \in {"wait", "parked", "report"}
    BY <1>3 DEF TypeOK, SwapsOK
  <2>3. Loading' \subseteq Loading
    BY <1>3, <2>2 DEF Loading
  <2> QED
    BY <2>1, <2>3 DEF Holding
<1>9. SwapsShare'
  BY <1>3, <1>8, LessShares
<1> QED
  BY <1>5, <1>6, <1>7, <1>9

(* Every event of the run loop keeps the argument.                         *)
LEMMA RunLoopShares ==
  ASSUME IInv, RunLoop, planner' = planner, Undisturbed',
         Calm, OneSwap, RunsPending, VictimsStopped, SwapsShare
  PROVE  Calm' /\ OneSwap' /\ RunsPending' /\ VictimsStopped' /\ SwapsShare'
<1>1. CASE \E r \in Requests : handleRequest(r)
  <2>1. PICK r \in Requests : handleRequest(r)
    BY <1>1
  <2>2. Calm' /\ UNCHANGED <<model, procVars>>
    BY <2>1 DEF handleRequest, Calm, procVars
  <2>3. CASE UNCHANGED <<active, evict, swapVars>>
    BY <2>2, <2>3, QuietLoopShares DEF swapVars, procVars
  <2>4. CASE /\ model[r] \notin active
             /\ ~collidesWith(model[r], EvictionFor(model[r], activeTargets(model[r])))
             /\ StartSwap(r, model[r], EvictionFor(model[r], activeTargets(model[r])))
    BY <2>2, <2>4, StartSwapShares
  <2> QED
    BY <2>1, <2>2, <2>3, <2>4 DEF handleRequest, Join, tableVars
<1>2. CASE drainQueue
  <2>1. PICK r \in Requests : r = Head(pending)
    BY <1>2 DEF drainQueue, LoopHead, IInv, TypeOK, QueuesOK
  <2>2. Calm' /\ UNCHANGED <<model, procVars>>
    BY <1>2 DEF drainQueue, Calm, procVars
  <2>3. CASE UNCHANGED <<active, evict, swapVars>>
    BY <2>2, <2>3, QuietLoopShares DEF swapVars, procVars
  <2>4. CASE /\ model[r] \notin active
             /\ ~collidesWith(model[r], EvictionFor(model[r], activeTargets(model[r])))
             /\ StartSwap(r, model[r], EvictionFor(model[r], activeTargets(model[r])))
    BY <2>2, <2>4, StartSwapShares
  <2> QED
    BY <1>2, <2>1, <2>2, <2>3, <2>4 DEF drainQueue, Join, tableVars
<1>3. CASE \E r \in Requests : handleSwapDone(r)
  <2>1. PICK r \in Requests : handleSwapDone(r)
    BY <1>3
  <2>2. Calm'
    BY <2>1 DEF handleSwapDone, DrainQueue, Calm, procVars
  <2> QED
    BY <2>1, <2>2, SwapDoneShares DEF IInv
<1>4. CASE \E r \in Requests : handleServeDone(r)
  <2>1. PICK r \in Requests : handleServeDone(r)
    BY <1>4
  <2>2. Calm'
    BY <2>1 DEF handleServeDone, DrainQueue, Calm, procVars
  <2> QED
    BY <2>1, <2>2, QuietLoopShares DEF handleServeDone, swapVars, procVars
<1>5. CASE expireStaleQueued
  <2>1. Calm'
    BY <1>5 DEF expireStaleQueued, Calm, procVars
  <2> QED
    BY <1>5, <2>1, QuietLoopShares DEF expireStaleQueued, tableVars, swapVars, procVars
<1>6. CASE (\E ts \in SUBSET Models : handleUnload(ts)) \/ handleShutdown
  BY <1>6, FaultDisturbs DEF handleUnload, handleShutdown, IInv, TypeOK
<1>7. CASE UnloadFilter \/ UnloadStops \/ UnloadDone \/ ShutdownDone
  BY <1>7 DEF UnloadFilter, UnloadStops, UnloadDone, ShutdownDone, Calm
<1> QED
  BY <1>1, <1>2, <1>3, <1>4, <1>5, <1>6, <1>7 DEF RunLoop

(* The goroutine of a swap goes on once its victims are stopped: from then *)
(* on its model counts as loaded whatever becomes of the other swaps.      *)
LEMMA doSwapShares ==
  ASSUME IInv, doSwap, planner' = planner,
         Calm, OneSwap, RunsPending, VictimsStopped, SwapsShare
  PROVE  Calm' /\ OneSwap' /\ RunsPending' /\ VictimsStopped' /\ SwapsShare'
<1>1. PICK r \in Requests : doSwapStopped(r)
  BY DEF doSwap, doSwapDropped, Calm
<1>2. PICK m \in Models : m = model[r]
  BY DEF IInv, TypeOK, ClientsOK
<1>3. /\ swapPc[r] = "stop" /\ toStop[r] = {}
      /\ \/ swapPc' = [swapPc EXCEPT ![r] = "report"] /\ runs' = runs
         \/ /\ swapPc' = [swapPc EXCEPT ![r] = "wait"]
            /\ runs' = IF pState[m] \in {"stopped", "failed"} THEN runs \cup {r} ELSE runs
      /\ UNCHANGED <<model, loop, active, evict, toStop, pState, live>>
  BY <1>1, <1>2 DEF doSwapStopped, clientVars, tableVars, procVars
<1>4. /\ swapPc'[r] \in {"wait", "report"}
      /\ \A q \in Requests \ {r} : swapPc'[q] = swapPc[q]
  BY <1>3 DEF IInv, TypeOK, SwapsOK
<1>5. Calm'
  BY <1>3 DEF Calm
<1>6. OneSwap'
  BY <1>3, <1>4 DEF OneSwap, Swapping
<1>7. r \notin runs
  BY <1>3 DEF RunsPending
<1>8. RunsPending'
  <2>1. runs \in SUBSET Requests
    BY DEF IInv, TypeOK, SwapsOK
  <2>2. \A q \in runs : swapPc'[q] \in {"wait", "parked"} /\ pState[model[q]] = "stopped"
    BY <1>4, <1>7, <2>1 DEF RunsPending
  <2>3. ASSUME r \in runs'
        PROVE  swapPc'[r] = "wait" /\ pState[m] = "stopped"
    BY <1>3, <1>7, <2>3 DEF Calm, IInv, TypeOK, SwapsOK
  <2> QED
    BY <1>2, <1>3, <2>2, <2>3 DEF RunsPending
<1>9. \A e \in evict[m] : pState[e] = "stopped" /\ e \notin active
  BY <1>2, <1>3 DEF VictimsStopped, OneSwap, Swapping, IInv, ActiveSwapsEvictOnlyIdle
<1>10. VictimsStopped'
  <2> SUFFICES ASSUME NEW q \in Requests, Swapping(q)', NEW e \in evict[model[q]]
               PROVE  (swapPc'[q] = "stop" /\ e \in toStop[q]) \/ pState[e] = "stopped"
    BY <1>3 DEF VictimsStopped
  <2>1. CASE q = r
    BY <1>2, <1>9, <2>1
  <2>2. CASE q # r
    BY <1>4, <2>2 DEF VictimsStopped, Swapping
  <2> QED
    BY <2>1, <2>2
<1>11. SwapsShare'
  <2> SUFFICES ASSUME NEW A \in SUBSET active
               PROVE  MayShareTheGPU(WouldHold(A))'
    BY <1>3 DEF SwapsShare
  <2>1. m \in active /\ A \cup {m} \in SUBSET active
    BY <1>2, <1>3 DEF OneSwap, Swapping
  <2>2. Holding' = Holding \cup {m}
    <3>1. Running' = Running
      BY <1>3 DEF Running
    <3>2. Loading' = Loading \cup {m}
      BY <1>2, <1>3, <1>4 DEF Loading
    <3> QED
      BY <3>1, <3>2 DEF Holding
  <2>3. Holding \cap evict[m] = {}
    BY <1>9, HoldingBound DEF Running, Holding, Loading, OneSwap, Swapping, IInv
  <2>4. Victims(A)' = Victims(A) /\ Victims(A \cup {m}) = Victims(A) \cup evict[m]
    BY <1>3 DEF Victims
  <2>5. WouldHold(A)' \subseteq WouldHold(A \cup {m})
    BY <2>2, <2>3, <2>4 DEF WouldHold
  <2>6. MayShareTheGPU(WouldHold(A \cup {m}))
    BY <2>1 DEF SwapsShare
  <2> QED
    BY <2>5, <2>6 DEF MayShareTheGPU, Evicts
<1> QED
  BY <1>5, <1>6, <1>8, <1>10, <1>11

(* A process that only moves for a swap that loads it, or ends stopped for *)
(* those that wait for it, disturbs none.                                  *)
LEMMA ProcessStepShares ==
  ASSUME IInv, planner' = planner, UNCHANGED <<model, active, evict>>,
         Calm, OneSwap, VictimsStopped, SwapsShare,
         \A q \in Requests :
            \/ swapPc'[q] = swapPc[q]
            \/ swapPc[q] \in {"wait", "parked"} /\ swapPc'[q] \in {"parked", "report"},
         \A q \in Requests : \A e \in toStop[q] :
            e \in toStop'[q] \/ pState'[e] = "stopped",
         \A m \in Models :
            pState[m] = "stopped" /\ pState'[m] # "stopped" => m \in Loading
  PROVE  OneSwap' /\ VictimsStopped' /\ SwapsShare'
<1>1. /\ \A q \in Requests : Swapping(q)' <=> Swapping(q)
      /\ \A q \in Requests : swapPc[q] = "stop" => swapPc'[q] = "stop"
  BY DEF Swapping
<1>2. OneSwap'
  BY <1>1 DEF OneSwap
<1>3. VictimsStopped'
  <2> SUFFICES ASSUME NEW q \in Requests, Swapping(q), NEW e \in evict[model[q]]
               PROVE  (swapPc'[q] = "stop" /\ e \in toStop'[q]) \/ pState'[e] = "stopped"
    BY <1>1 DEF VictimsStopped
  <2>1. e \in Models /\ e \notin active
    BY DEF OneSwap, IInv, ActiveSwapsEvictOnlyIdle, TypeOK, ClientsOK, TablesOK
  <2>2. e \notin Loading
    BY <2>1 DEF Loading, OneSwap, Swapping
  <2> QED
    BY <1>1, <2>1, <2>2 DEF VictimsStopped
<1>4. Holding' \subseteq Holding
  <2>1. Running' \subseteq Running \cup Loading
    BY DEF Running, Calm
  <2>2. Loading' \subseteq Loading
    BY DEF Loading
  <2> QED
    BY <2>1, <2>2 DEF Holding
<1>5. SwapsShare'
  BY <1>4, LessShares
<1> QED
  BY <1>2, <1>3, <1>5

(* A goroutine that is about to call Run goes on doing so if nothing       *)
(* happens to the stopped model.                                           *)
LEMMA RunsStillPending ==
  ASSUME RunsPending, TypeOK, UNCHANGED <<model, runs>>,
         \A m \in Models : pState[m] = "stopped" => pState'[m] = "stopped",
         \A q \in Requests : pState[model[q]] = "stopped" => swapPc'[q] = swapPc[q]
  PROVE  RunsPending'
BY DEF RunsPending, TypeOK, SwapsOK, ClientsOK

(* Every step of a process keeps the argument.                             *)
LEMMA ProcessesShare ==
  ASSUME IInv, Processes, planner' = planner, Undisturbed',
         Calm, OneSwap, RunsPending, VictimsStopped, SwapsShare
  PROVE  Calm' /\ OneSwap' /\ RunsPending' /\ VictimsStopped' /\ SwapsShare'
<1> USE DEF TypeOK, ClientsOK, SwapsOK, ProcsOK
<1>0. TypeOK /\ UNCHANGED <<model, loop, active, evict>>
  BY ProcessesFrame DEF IInv
<1>1. CASE \E r \in Requests : AcceptWaitReady(r)
  <2>1. PICK r \in Requests : AcceptWaitReady(r)
    BY <1>1
  <2>2. UNCHANGED <<toStop, runs, pState, live>>
    BY <2>1 DEF AcceptWaitReady, procVars
  <2>3. /\ swapPc[r] = "wait"
        /\ swapPc' = [swapPc EXCEPT ![r] = IF pState[model[r]] = "stopped" THEN "parked" ELSE "report"]
    BY <2>1 DEF AcceptWaitReady
  <2>4. Calm' /\ RunsPending'
    BY <1>0, <2>2, <2>3 DEF Calm, RunsPending
  <2> QED
    BY <1>0, <2>2, <2>3, <2>4, ProcessStepShares
<1>2. CASE \E r \in Requests : AcceptRun(r)
  <2>1. PICK r \in Requests : AcceptRun(r)
    BY <1>2
  <2>2. PICK m \in Models : m = model[r]
    BY <1>0
  <2>3. /\ UNCHANGED <<swapPc, toStop>> /\ runs' = runs \ {r} /\ r \in runs
        /\ \/ pState' = [pState EXCEPT ![m] = "starting"] /\ live' = [live EXCEPT ![m] = @ + 1]
           \/ UNCHANGED <<pState, live>>
    BY <2>1, <2>2 DEF AcceptRun
  <2>4. m \in Loading
    BY <2>2, <2>3 DEF RunsPending, Loading
  <2>5. Calm'
    BY <1>0, <2>3 DEF Calm
  <2>6. RunsPending'
    <3>1. \A q \in runs \ {r} : model[q] # m
      BY <1>0, <2>2, <2>3 DEF RunsPending, OneSwap, Swapping
    <3> QED
      BY <1>0, <2>3, <3>1 DEF RunsPending
  <2> QED
    BY <1>0, <2>3, <2>4, <2>5, <2>6, ProcessStepShares
<1>3. CASE \E m \in Models : StartSucceeds(m)
  <2>1. PICK m \in Models : StartSucceeds(m)
    BY <1>3
  <2>2. /\ pState[m] = "starting" /\ pState' = [pState EXCEPT ![m] = "ready"]
        /\ \A q \in Requests :
              swapPc'[q] = IF swapPc[q] = "parked" /\ model[q] = m THEN "report" ELSE swapPc[q]
        /\ UNCHANGED <<toStop, runs, live>>
    BY <2>1 DEF StartSucceeds, NotifyWaiters
  <2>3. Calm' /\ RunsPending'
    BY <1>0, <2>2, RunsStillPending DEF Calm
  <2> QED
    BY <1>0, <2>2, <2>3, ProcessStepShares
<1>4. CASE \E m \in Models : StartFails(m) \/ UpstreamExits(m)
  BY <1>0, <1>4, FaultDisturbs DEF StartFails, UpstreamExits, KillGaveUp
<1>5. CASE \E m \in Models : LeakedExits(m)
  <2>1. PICK m \in Models : LeakedExits(m)
    BY <1>5
  <2>2. UNCHANGED <<swapPc, toStop, runs, pState>> /\ live' = [live EXCEPT ![m] = 0]
    BY <2>1 DEF LeakedExits, swapVars
  <2>3. Calm' /\ RunsPending'
    BY <1>0, <2>2, RunsStillPending DEF Calm
  <2> QED
    BY <1>0, <2>2, <2>3, ProcessStepShares
<1>6. CASE \E m \in Models : SelfStopDecided(m)
  <2>1. UNCHANGED <<swapPc, toStop, runs, pState, live>>
    BY <1>6 DEF SelfStopDecided, swapVars
  <2>2. Calm' /\ RunsPending'
    BY <1>0, <2>1, RunsStillPending DEF Calm
  <2> QED
    BY <1>0, <2>1, <2>2, ProcessStepShares
<1>7. CASE \E m \in Models : FinishStop(m)
  <2>1. PICK m \in Models : FinishStop(m)
    BY <1>7
  <2>2. /\ pState[m] = "stopping" /\ pState' = [pState EXCEPT ![m] = "stopped"]
        /\ \A q \in Requests : \A e \in toStop[q] : e \in toStop'[q] \/ e = m
        /\ UNCHANGED <<swapPc, runs>>
    BY <2>1 DEF FinishStop, StopReturns
  <2>3. live' = [live EXCEPT ![m] = 0]
    BY <1>0, <2>1, FaultDisturbs DEF FinishStop, KillConfirmed, KillGaveUp
  <2>4. Calm' /\ RunsPending'
    BY <1>0, <2>2, <2>3, RunsStillPending DEF Calm
  <2> QED
    BY <1>0, <2>2, <2>4, ProcessStepShares
<1>8. CASE \E m \in Models : ProcessCancelled(m)
  BY <1>8 DEF ProcessCancelled, Calm
<1>9. CASE Stops
  <2>1. PICK m \in Models, who \in Requests \cup {Loop, Self} :
            StopIdle(m, who) \/ StopStarting(m, who) \/ StopReady(m, who)
    BY <1>9 DEF Stops
  <2>2. CASE StopIdle(m, who)
    <3>1. /\ pState' = [pState EXCEPT ![m] = "stopped"] /\ pState[m] = "stopped"
          /\ \A q \in Requests : \A e \in toStop[q] : e \in toStop'[q] \/ e = m
          /\ UNCHANGED <<swapPc, runs, live>>
      BY <1>0, <2>2 DEF StopIdle, StopReturns, Calm
    <3>2. Calm' /\ RunsPending'
      BY <1>0, <3>1, RunsStillPending DEF Calm
    <3> QED
      BY <1>0, <3>1, <3>2, ProcessStepShares
  <2>3. CASE StopStarting(m, who)
    <3>1. /\ pState[m] = "starting" /\ pState' = [pState EXCEPT ![m] = "stopped"]
          /\ \A q \in Requests : \A e \in toStop[q] : e \in toStop'[q] \/ e = m
          /\ \A q \in Requests :
                swapPc'[q] = IF swapPc[q] = "parked" /\ model[q] = m THEN "report" ELSE swapPc[q]
          /\ UNCHANGED runs
      BY <2>3 DEF StopStarting, StopReturns
    <3>2. live' = [live EXCEPT ![m] = 0]
      BY <1>0, <2>3, FaultDisturbs DEF StopStarting, KillConfirmed, KillGaveUp
    <3>3. Calm' /\ RunsPending'
      BY <1>0, <3>1, <3>2, RunsStillPending DEF Calm
    <3> QED
      BY <1>0, <3>1, <3>3, ProcessStepShares
  <2>4. CASE StopReady(m, who)
    <3>1. /\ pState[m] = "ready" /\ pState' = [pState EXCEPT ![m] = "stopping"]
          /\ UNCHANGED <<swapPc, toStop, runs, live>>
      BY <2>4 DEF StopReady, swapVars
    <3>2. Calm' /\ RunsPending'
      BY <1>0, <3>1, RunsStillPending DEF Calm
    <3> QED
      BY <1>0, <3>1, <3>2, ProcessStepShares
  <2> QED
    BY <2>1, <2>2, <2>3, <2>4
<1> QED
  BY <1>1, <1>2, <1>3, <1>4, <1>5, <1>6, <1>7, <1>8, <1>9 DEF Processes

(* A caller touches nothing of this.                                       *)
LEMMA ClientsShare ==
  ASSUME IInv, Clients, planner' = planner,
         Calm, OneSwap, RunsPending, VictimsStopped, SwapsShare
  PROVE  Calm' /\ OneSwap' /\ RunsPending' /\ VictimsStopped' /\ SwapsShare'
<1>1. UNCHANGED <<model, active, evict, swapVars, procVars>>
  BY ClientsFrame
<1>2. Calm'
  BY <1>1, ClientsFrame DEF Calm, procVars, Clients, RequestCancelled, ServeDoneDropped
<1> QED
  BY <1>1, <1>2, QuietLoopShares DEF swapVars, procVars

-----------------------------------------------------------------------------
(* What follows.                                                           *)

(* At the start nothing is loaded.                                         *)
LEMMA InitShares == Init => SharingInv
<1> SUFFICES ASSUME Init
             PROVE  Calm /\ OneSwap /\ RunsPending /\ VictimsStopped /\ SwapsShare
  BY DEF SharingInv
<1>1. Calm
  BY DEF Init, Calm
<1>2. OneSwap /\ RunsPending /\ VictimsStopped
  BY DEF Init, OneSwap, RunsPending, VictimsStopped, Swapping
<1>3. Holding = {} /\ active = {}
  BY DEF Init, Holding, Running, Loading
<1>4. SwapsShare
  <2> SUFFICES ASSUME NEW A \in SUBSET active PROVE MayShareTheGPU(WouldHold(A))
    BY DEF SwapsShare
  <2>1. WouldHold(A) = {}
    BY <1>3 DEF WouldHold
  <2> QED
    BY <2>1 DEF MayShareTheGPU
<1> QED
  BY <1>1, <1>2, <1>4

(* Every step that does not disturb keeps the argument.                    *)
LEMMA NextShares == IInv /\ SharingInv /\ [Next]_vars => SharingInv'
<1> SUFFICES ASSUME IInv, SharingInv, [Next]_vars, Undisturbed'
             PROVE  Calm' /\ OneSwap' /\ RunsPending' /\ VictimsStopped' /\ SwapsShare'
  BY DEF SharingInv
<1>1. planner' = planner
  BY DEF Next, vars
<1>2. Calm /\ OneSwap /\ RunsPending /\ VictimsStopped /\ SwapsShare
  BY OnceDisturbed DEF IInv, SharingInv
<1>3. CASE RunLoop
  BY <1>1, <1>2, <1>3, RunLoopShares
<1>4. CASE Clients
  BY <1>1, <1>2, <1>4, ClientsShare
<1>5. CASE doSwap
  BY <1>1, <1>2, <1>5, doSwapShares
<1>6. CASE Processes
  BY <1>1, <1>2, <1>6, ProcessesShare
<1>7. CASE UNCHANGED vars
  <2>1. Calm'
    BY <1>2, <1>7 DEF vars, Calm
  <2> QED
    BY <1>1, <1>2, <1>7, <2>1, QuietLoopShares DEF vars
<1> QED
  BY <1>3, <1>4, <1>5, <1>6, <1>7 DEF Next

(* The argument holds throughout.                                          *)
THEOREM SharingInvariance == Spec => []SharingInv
<1> QED
  BY InitShares, NextShares, Invariance, PTL DEF Spec

(* Models that have a process may run together, whatever the planner and   *)
(* however requests, swaps and self-stops interleave, until something is   *)
(* unloaded, fails, hangs or is shut down: take none of the active swaps.  *)
THEOREM ExclusiveModelsApart == Spec => []ExclusiveModelsNeverShareTheGPU
<1>1. TypeOK /\ SharingInv => ExclusiveModelsNeverShareTheGPU
  <2> SUFFICES ASSUME TypeOK, SharingInv, Undisturbed
               PROVE  MayShareTheGPU({m \in Models : live[m] > 0})
    BY DEF ExclusiveModelsNeverShareTheGPU
  <2>1. {m \in Models : live[m] > 0} \subseteq WouldHold({})
    BY DEF SharingInv, Calm, WouldHold, Victims, Holding, Running
  <2>2. MayShareTheGPU(WouldHold({}))
    BY DEF SharingInv, SwapsShare
  <2> QED
    BY <2>1, <2>2, FewerMayShare
<1> QED
  BY <1>1, TypeCorrect, SharingInvariance, PTL

(* So may the targets of the swaps in the table (activeTargets): take all  *)
(* of them. The planner of the groups does not need the premise, that of   *)
(* the matrix does.                                                        *)
THEOREM LoadsAreCompatible == Spec => []NoConflictingSwaps
<1>1. TypeOK /\ SharingInv /\ GroupSwapsAgree => NoConflictingSwaps
  <2> SUFFICES ASSUME SharingInv, GroupSwapsAgree, planner = "group" \/ Undisturbed
               PROVE  MayShareTheGPU(active)
    BY DEF NoConflictingSwaps
  <2>1. CASE planner = "group"
    BY <2>1 DEF GroupSwapsAgree, MayShareTheGPU
  <2>2. CASE Undisturbed
    <3>1. MayShareTheGPU(WouldHold(active)) /\ active \subseteq WouldHold(active)
      BY <2>2 DEF SharingInv, SwapsShare, WouldHold
    <3> QED
      BY <3>1, FewerMayShare
  <2> QED
    BY <2>1, <2>2
<1> QED
  BY <1>1, TypeCorrect, SharingInvariance, GroupLoadsAreCompatible, PTL

-----------------------------------------------------------------------------
(* Nobody waits for a start that is not coming. As long as nothing is      *)
(* unloaded, stopped from elsewhere or hung, and the router serves:        *)

(* nothing but the swaps stops a process; *)
Serving ==
    /\ loop \in {"select", "drain"} /\ selfStop = {}
    /\ \A m \in Models : ~possiblyLeaked[m] /\ pState[m] # "shutdown"

(* an active swap has its goroutine among those who wait for it; *)
Carried ==
    \A m \in active : \E r \in waiters[m] : r \in Requests /\ model[r] = m /\ Swapping(r)

(* a swap stops nothing but its victims; *)
StopsOwnVictims ==
    \A r \in Requests : swapPc[r] = "stop" => toStop[r] \subseteq evict[model[r]]

(* if the target is stopped, a goroutine is calling Run on it; *)
StartsComing ==
    \A r \in Requests :
        swapPc[r] \in {"wait", "parked"} /\ pState[model[r]] = "stopped"
            => \E q \in runs : model[q] = model[r]

(* and a WaitReady is parked on a start under way, or to come.             *)
ParkedOnStart ==
    \A r \in Requests :
        swapPc[r] = "parked" => pState[model[r]] \in {"starting", "stopped"}

Advance == Serving /\ OneSwap /\ Carried /\ StopsOwnVictims /\ StartsComing /\ ParkedOnStart
AdvanceInv == Unforced /\ loop \notin {"shutdown", "exited"} => Advance

(* A fault leaves a trace ...                                              *)
LEMMA FaultCounted ==
  ASSUME ProcsOK, NEW k, Fault(k)
  PROVE  k \in AllFaultKinds /\ faults'[k] # 0
         /\ \A x \in AllFaultKinds : faults'[x] = 0 => faults[x] = 0
<1>1. k \in AllFaultKinds /\ faults[k] \in Nat /\ faults' = [faults EXCEPT ![k] = faults[k] + 1]
  BY FaultAssumption DEF Fault, ProcsOK
<1>2. faults[k] + 1 # 0
  BY <1>1
<1> QED
  BY <1>1, <1>2 DEF ProcsOK

(* ... for good, and the router does not come back from a shutdown.        *)
LEMMA OnceForced ==
  ASSUME TypeOK, [Next]_vars, Unforced', loop' \notin {"shutdown", "exited"}
  PROVE  Unforced /\ loop \notin {"shutdown", "exited"}
<1>1. ASSUME UNCHANGED faults
      PROVE  Unforced
  BY <1>1 DEF Unforced
<1>2. ASSUME \E k \in AllFaultKinds : Fault(k)
      PROVE  Unforced
  BY <1>2, FaultCounted DEF TypeOK, Unforced, AllFaultKinds
<1>3. UNCHANGED faults \/ \E k \in AllFaultKinds : Fault(k)
  BY doSwapFrame, ClientsFrame
     DEF Next, vars, RunLoop, handleRequest, handleSwapDone, handleServeDone,
         drainQueue, expireStaleQueued, handleUnload, UnloadFilter, UnloadStops,
         UnloadDone, handleShutdown, ShutdownDone, Processes, Stops,
         AcceptWaitReady, AcceptRun, StartSucceeds, StartFails, UpstreamExits,
         LeakedExits, SelfStopDecided, StopIdle, StopStarting, StopReady,
         FinishStop, ProcessCancelled, KillConfirmed, KillGaveUp, AllFaultKinds
<1>4. loop \notin {"shutdown", "exited"}
  <2>1. CASE RunLoop
    BY <2>1 DEF RunLoop, handleRequest, handleSwapDone, handleServeDone,
         drainQueue, expireStaleQueued, handleUnload, UnloadFilter, UnloadStops,
         UnloadDone, handleShutdown, ShutdownDone
  <2>2. CASE loop' = loop
    BY <2>2
  <2> QED
    BY <2>1, <2>2, doSwapFrame, ClientsFrame, ProcessesFrame DEF Next, vars
<1> QED
  BY <1>1, <1>2, <1>3, <1>4

(* Nobody stops the target of an active swap, which would have to be a     *)
(* victim of another.                                                      *)
LEMMA TargetsAreNotStopped ==
  ASSUME IInv, Serving, OneSwap, StopsOwnVictims, NEW m \in active, ProcessKept(m)
  PROVE  Stopping(m) = {} /\ pState[m] # "stopping"
<1>1. \A r \in Requests : swapPc[r] = "stop" => m \notin toStop[r]
  BY DEF IInv, ActiveSwapsEvictOnlyIdle, OneSwap, Swapping, StopsOwnVictims
<1>2. Stopping(m) = {}
  BY <1>1 DEF Stopping, Serving
<1> QED
  BY <1>2 DEF ProcessKept

(* A swap begins for a model that had none: it is in the hands of the      *)
(* request it begins for.                                                  *)
LEMMA StartSwapAdvance ==
  ASSUME IInv, Advance, UNCHANGED <<model, procVars>>, loop' \in {"select", "drain"},
         NEW r \in Requests, model[r] \notin active,
         NEW ev \in SUBSET Models, StartSwap(r, model[r], ev)
  PROVE  Advance'
<1> USE DEF IInv, TypeOK, ClientsOK, TablesOK, SwapsOK, procVars
<1>1. PICK m \in Models : m = model[r] /\ m \notin active
  OBVIOUS
<1>2. /\ active' = active \cup {m} /\ evict' = [evict EXCEPT ![m] = ev]
      /\ waiters' = [waiters EXCEPT ![m] = {r}]
      /\ swapPc' = [swapPc EXCEPT ![r] = "stop"] /\ toStop' = [toStop EXCEPT ![r] = ev]
      /\ runs' = runs
  BY <1>1 DEF StartSwap
<1>3. ~Swapping(r) /\ Swapping(r)'
  BY <1>1, <1>2 DEF Advance, OneSwap, Swapping
<1>4. \A q \in Requests \ {r} : swapPc'[q] = swapPc[q] /\ toStop'[q] = toStop[q]
  BY <1>2
<1>5. OneSwap'
  BY <1>1, <1>2, <1>3, <1>4 DEF Advance, OneSwap, Swapping
<1>6. Carried'
  <2> SUFFICES ASSUME NEW x \in active'
               PROVE  \E q \in waiters'[x] : q \in Requests /\ model[q] = x /\ Swapping(q)'
    BY DEF Carried
  <2>1. CASE x = m
    BY <1>1, <1>2, <1>3, <2>1
  <2>2. CASE x # m
    <3>1. x \in active /\ waiters'[x] = waiters[x]
      BY <1>2, <2>2
    <3>2. PICK q \in waiters[x] : q \in Requests /\ model[q] = x /\ Swapping(q)
      BY <3>1 DEF Advance, Carried
    <3>3. Swapping(q)'
      BY <1>3, <1>4, <3>2 DEF Swapping
    <3> QED
      BY <3>1, <3>2, <3>3
  <2> QED
    BY <2>1, <2>2
<1>7. StopsOwnVictims'
  <2> SUFFICES ASSUME NEW q \in Requests, swapPc'[q] = "stop"
               PROVE  toStop'[q] \subseteq evict'[model[q]]
    BY DEF StopsOwnVictims
  <2>1. CASE q = r
    BY <1>1, <1>2, <2>1
  <2>2. CASE q # r
    <3>1. swapPc[q] = "stop" /\ toStop'[q] = toStop[q]
      BY <1>4, <2>2
    <3>2. model[q] \in active /\ evict'[model[q]] = evict[model[q]]
      BY <1>1, <1>2, <3>1 DEF Advance, OneSwap, Swapping
    <3> QED
      BY <3>1, <3>2 DEF Advance, StopsOwnVictims
  <2> QED
    BY <2>1, <2>2
<1>8. StartsComing' /\ ParkedOnStart'
  BY <1>2 DEF Advance, StartsComing, ParkedOnStart
<1>9. Serving'
  BY DEF Advance, Serving
<1> QED
  BY <1>5, <1>6, <1>7, <1>8, <1>9 DEF Advance

(* One ends, and its model leaves the active ones.                         *)
LEMMA SwapDoneAdvance ==
  ASSUME IInv, Advance, NEW r \in Requests, handleSwapDone(r)
  PROVE  Advance'
<1> USE DEF IInv, TypeOK, ClientsOK, TablesOK, SwapsOK
<1>1. PICK m \in Models : m = model[r] /\ m \in active
  BY DEF handleSwapDone, Advance, OneSwap, Swapping
<1>2. Forget({m})
  BY <1>1 DEF handleSwapDone
<1>3. /\ active' = active \ {m}
      /\ \A x \in active' : evict'[x] = evict[x] /\ waiters'[x] = waiters[x]
      /\ swapPc[r] = "report" /\ swapPc' = [swapPc EXCEPT ![r] = "done"]
      /\ UNCHANGED <<model, toStop, runs, pState, possiblyLeaked, selfStop>>
      /\ loop' \in {"select", "drain"}
  BY <1>1, <1>2 DEF handleSwapDone, DrainQueue, Forget, procVars
<1>4. /\ \A q \in Requests : Swapping(q)' =>
            Swapping(q) /\ q # r /\ model[q] # m /\ swapPc'[q] = swapPc[q]
      /\ \A q \in Requests : Swapping(q) /\ model[q] # m => Swapping(q)'
  BY <1>1, <1>3 DEF Swapping, Advance, OneSwap
<1>5. OneSwap'
  BY <1>3, <1>4 DEF Advance, OneSwap
<1>6. Carried'
  BY <1>3, <1>4 DEF Advance, Carried
<1>7. StopsOwnVictims'
  BY <1>3, <1>4, <1>5 DEF Advance, StopsOwnVictims, OneSwap, Swapping
<1>8. StartsComing' /\ ParkedOnStart'
  BY <1>3 DEF Advance, StartsComing, ParkedOnStart
<1>9. Serving'
  BY <1>3 DEF Advance, Serving
<1> QED
  BY <1>5, <1>6, <1>7, <1>8, <1>9 DEF Advance

(* What touches no swap and no process; waiters may join.                  *)
LEMMA QuietAdvance ==
  ASSUME Advance, UNCHANGED <<model, active, evict, swapPc, toStop, runs, procVars>>,
         loop' \in {"select", "drain"},
         \A m \in active : waiters[m] \subseteq waiters'[m]
  PROVE  Advance'
<1> USE DEF Advance, procVars
<1>1. Serving'
  BY DEF Serving
<1>2. OneSwap' /\ StopsOwnVictims' /\ StartsComing' /\ ParkedOnStart'
  BY DEF OneSwap, Swapping, StopsOwnVictims, StartsComing, ParkedOnStart
<1>3. Carried'
  BY DEF Carried, Swapping
<1> QED
  BY <1>1, <1>2, <1>3
(* Every event of the run loop keeps the swaps going.                      *)
LEMMA RunLoopAdvance ==
  ASSUME IInv, RunLoop, Advance, Unforced', loop' \notin {"shutdown", "exited"}
  PROVE  Advance'
<1>0. TypeOK /\ UNCHANGED <<model, procVars, runs>>
  BY RunLoopFrame DEF IInv
<1>1. CASE \E r \in Requests : handleRequest(r)
  <2>1. PICK r \in Requests : handleRequest(r)
    BY <1>1
  <2>2. PICK m \in Models : m = model[r]
    BY <1>0 DEF TypeOK, ClientsOK
  <2>3. loop' \in {"select", "drain"}
    BY <2>1 DEF handleRequest
  <2>4. CASE m \notin active /\ StartSwap(r, m, EvictionFor(m, activeTargets(m)))
    BY <1>0, <2>2, <2>3, <2>4, StartSwapAdvance, EvictionForTyped DEF TypeOK
  <2>5. CASE Join(r, m)
    BY <1>0, <2>2, <2>3, <2>5, QuietAdvance DEF Join, swapVars, TypeOK, TablesOK
  <2>6. CASE UNCHANGED <<active, evict, waiters, swapVars>>
    BY <1>0, <2>3, <2>6, QuietAdvance DEF swapVars
  <2> QED
    BY <2>1, <2>2, <2>4, <2>5, <2>6 DEF handleRequest, tableVars
<1>2. CASE drainQueue
  <2>1. PICK r \in Requests : r = Head(pending)
    BY <1>2 DEF drainQueue, LoopHead, IInv, TypeOK, QueuesOK
  <2>2. PICK m \in Models : m = model[r]
    BY <1>0 DEF TypeOK, ClientsOK
  <2>3. loop' \in {"select", "drain"}
    BY <1>2 DEF drainQueue
  <2>4. CASE m \notin active /\ StartSwap(r, m, EvictionFor(m, activeTargets(m)))
    BY <1>0, <2>2, <2>3, <2>4, StartSwapAdvance, EvictionForTyped DEF TypeOK
  <2>5. CASE Join(r, m)
    BY <1>0, <2>2, <2>3, <2>5, QuietAdvance DEF Join, swapVars, TypeOK, TablesOK
  <2>6. CASE UNCHANGED <<active, evict, waiters, swapVars>>
    BY <1>0, <2>3, <2>6, QuietAdvance DEF swapVars
  <2> QED
    BY <1>2, <2>1, <2>2, <2>4, <2>5, <2>6 DEF drainQueue, tableVars
<1>3. CASE \E r \in Requests : handleSwapDone(r)
  BY <1>3, SwapDoneAdvance
<1>4. CASE (\E r \in Requests : handleServeDone(r)) \/ expireStaleQueued
  <2>1. loop' \in {"select", "drain"} /\ UNCHANGED <<active, evict, waiters, swapVars>>
    BY <1>4 DEF handleServeDone, expireStaleQueued, DrainQueue, tableVars
  <2> QED
    BY <1>0, <2>1, QuietAdvance DEF swapVars
<1>5. CASE \E ts \in SUBSET Models : handleUnload(ts)
  BY <1>0, <1>5, FaultCounted DEF handleUnload, TypeOK, Unforced
<1>6. CASE handleShutdown
  BY <1>6 DEF handleShutdown
<1>7. CASE UnloadFilter \/ UnloadStops \/ UnloadDone \/ ShutdownDone
  BY <1>7 DEF UnloadFilter, UnloadStops, UnloadDone, ShutdownDone, Advance, Serving
<1> QED
  BY <1>1, <1>2, <1>3, <1>4, <1>5, <1>6, <1>7 DEF RunLoop

(* A goroutine goes on once its victims are stopped, and sees to it that   *)
(* a stopped target is started.                                            *)
LEMMA doSwapAdvance ==
  ASSUME IInv, doSwap, Advance
  PROVE  Advance'
<1> USE DEF IInv, TypeOK, ClientsOK, SwapsOK
<1>1. PICK r \in Requests : doSwapStopped(r)
  BY DEF doSwap, doSwapDropped, Advance, Serving
<1>2. /\ UNCHANGED <<model, loop, active, evict, waiters, toStop, pState, possiblyLeaked, selfStop>>
      /\ swapPc[r] = "stop"
      /\ \A q \in Requests \ {r} : swapPc'[q] = swapPc[q]
      /\ runs \subseteq runs'
      /\ \/ swapPc'[r] = "report"
         \/ swapPc'[r] = "wait" /\ (pState[model[r]] = "stopped" => r \in runs')
  BY <1>1 DEF doSwapStopped, clientVars, tableVars, procVars
<1>3. \A q \in Requests : Swapping(q)' <=> Swapping(q)
  BY <1>2 DEF Swapping
<1>4. Serving' /\ OneSwap' /\ Carried'
  BY <1>2, <1>3 DEF Advance, Serving, OneSwap, Carried
<1>5. StopsOwnVictims'
  BY <1>2 DEF Advance, StopsOwnVictims
<1>6. StartsComing' /\ ParkedOnStart'
  BY <1>2 DEF Advance, StartsComing, ParkedOnStart
<1> QED
  BY <1>4, <1>5, <1>6 DEF Advance

(* A step of a process leaves the swaps with their goroutines if it only   *)
(* answers their calls.                                                    *)
LEMMA ProcessStepAdvance ==
  ASSUME TypeOK, Advance, UNCHANGED <<model, loop, active, evict, waiters>>,
         \A q \in Requests :
            \/ swapPc'[q] = swapPc[q]
            \/ swapPc[q] \in {"wait", "parked"} /\ swapPc'[q] \in {"parked", "report"},
         \A q \in Requests : toStop'[q] \subseteq toStop[q],
         Serving', StartsComing', ParkedOnStart'
  PROVE  Advance'
<1>1. /\ \A q \in Requests : Swapping(q)' <=> Swapping(q)
      /\ \A q \in Requests : swapPc'[q] = "stop" => swapPc[q] = "stop"
  BY DEF Swapping
<1>2. OneSwap' /\ Carried'
  BY <1>1 DEF Advance, OneSwap, Carried
<1>3. StopsOwnVictims'
  BY <1>1 DEF Advance, StopsOwnVictims
<1> QED
  BY <1>2, <1>3 DEF Advance

(* A step that moves no process of an active swap and no call.             *)
LEMMA OtherProcessAdvance ==
  ASSUME TypeOK, Advance, UNCHANGED <<model, loop, active, evict, waiters, runs>>,
         \A q \in Requests : swapPc'[q] = swapPc[q] /\ toStop'[q] \subseteq toStop[q],
         NEW m \in Models, m \notin active,
         \A x \in Models \ {m} : pState'[x] = pState[x],
         Serving'
  PROVE  Advance'
<1>1. \A q \in Requests : Swapping(q) => pState'[model[q]] = pState[model[q]]
  BY DEF Advance, OneSwap, TypeOK, TablesOK
<1>2. StartsComing' /\ ParkedOnStart'
  BY <1>1 DEF Advance, StartsComing, ParkedOnStart, Swapping
<1> QED
  BY <1>2, ProcessStepAdvance

(* Stop is called on models nobody loads, and nothing else stops one.      *)
LEMMA StopsAdvance ==
  ASSUME IInv, Advance, \A m \in Models : ProcessKept(m), Unforced',
         Stops \/ \E m \in Models : FinishStop(m)
  PROVE  Advance'
<1> USE DEF TypeOK, ClientsOK, SwapsOK, ProcsOK, TablesOK
<1>0. TypeOK
  BY DEF IInv
<1>1. PICK m \in Models :
        \/ FinishStop(m)
        \/ \E who \in Stopping(m) : StopIdle(m, who) \/ StopStarting(m, who) \/ StopReady(m, who)
  BY DEF Stops
<1>2. m \notin active
  BY <1>1, TargetsAreNotStopped DEF Advance, FinishStop
<1>3. UNCHANGED <<model, loop, active, evict, waiters, runs>>
  BY <1>1
     DEF StopIdle, StopStarting, StopReady, FinishStop, procUnchanged, clientVars, tableVars, swapVars
<1>4. \A q \in Requests : toStop'[q] \subseteq toStop[q]
  BY <1>1 DEF StopIdle, StopStarting, StopReady, FinishStop, StopReturns, swapVars
<1>5. \A q \in Requests : swapPc'[q] = swapPc[q]
  <2>1. \A q \in Requests : swapPc[q] = "parked" => model[q] # m
    BY <1>2 DEF Advance, OneSwap, Swapping
  <2> QED
    BY <1>0, <1>1, <2>1 DEF StopIdle, StopStarting, StopReady, FinishStop, swapVars
<1>6. /\ \A x \in Models \ {m} : pState'[x] = pState[x]
      /\ pState'[m] # "shutdown"
  BY <1>0, <1>1 DEF StopIdle, StopStarting, StopReady, FinishStop, Advance, Serving
<1>7. possiblyLeaked' = possiblyLeaked
  <2>1. ~Fault("hang")
    BY <1>0, FaultCounted DEF Unforced
  <2> QED
    BY <1>1, <2>1
       DEF StopIdle, StopStarting, StopReady, FinishStop, KillConfirmed, KillGaveUp
<1>8. selfStop' \subseteq selfStop
  BY <1>1 DEF StopIdle, StopStarting, StopReady, FinishStop, StopReturns
<1>9. Serving'
  BY <1>3, <1>6, <1>7, <1>8 DEF Advance, Serving
<1> QED
  BY <1>0, <1>2, <1>3, <1>4, <1>5, <1>6, <1>9, OtherProcessAdvance

(* The calls of a swap and the ends of a start answer whoever is parked,   *)
(* and park nobody on a model that nobody starts.                          *)
LEMMA AnswersAdvance ==
  ASSUME IInv, Advance, Unforced',
         \/ \E r \in Requests : AcceptWaitReady(r) \/ AcceptRun(r)
         \/ \E m \in Models : StartSucceeds(m) \/ StartFails(m) \/ UpstreamExits(m)
  PROVE  Advance'
<1> USE DEF TypeOK, ClientsOK, SwapsOK, ProcsOK
<1>0. TypeOK /\ ~Fault("hang")
  BY FaultCounted DEF IInv, Unforced
<1>1. CASE \E r \in Requests : AcceptWaitReady(r)
  <2>1. PICK r \in Requests : AcceptWaitReady(r)
    BY <1>1
  <2>2. /\ swapPc[r] = "wait"
        /\ swapPc' = [swapPc EXCEPT ![r] = IF pState[model[r]] = "stopped" THEN "parked" ELSE "report"]
        /\ UNCHANGED <<model, loop, active, evict, waiters, toStop, runs, pState,
                       possiblyLeaked, selfStop>>
    BY <2>1 DEF AcceptWaitReady, procUnchanged, clientVars, tableVars, procVars
  <2>3. Serving' /\ StartsComing' /\ ParkedOnStart'
    BY <1>0, <2>2 DEF Advance, Serving, StartsComing, ParkedOnStart
  <2> QED
    BY <1>0, <2>2, <2>3, ProcessStepAdvance
<1>2. CASE \E r \in Requests : AcceptRun(r)
  <2>1. PICK r \in Requests : AcceptRun(r)
    BY <1>2
  <2>2. PICK m \in Models : m = model[r]
    BY <1>0
  <2>3. /\ UNCHANGED <<model, loop, active, evict, waiters, swapPc, toStop, possiblyLeaked, selfStop>>
        /\ runs' = runs \ {r}
        /\ pState'[m] \in {"starting", "ready"}
        /\ \A x \in Models \ {m} : pState'[x] = pState[x]
    BY <1>0, <2>1, <2>2
       DEF AcceptRun, procUnchanged, clientVars, tableVars, Advance, Serving
  <2>4. /\ pState[m] # "starting"
        /\ pState[m] \in {"stopped", "failed"} => pState'[m] = "starting"
    BY <1>0, <2>1, <2>2 DEF AcceptRun, Advance, Serving
  <2>5. Serving'
    BY <2>3 DEF Advance, Serving
  <2>6. StartsComing'
    <3> SUFFICES ASSUME NEW q \in Requests, swapPc'[q] \in {"wait", "parked"},
                        pState'[model[q]] = "stopped"
                 PROVE  \E p \in runs' : model[p] = model[q]
      BY <2>3 DEF StartsComing
    <3>1. model[q] \in Models \ {m} /\ pState[model[q]] = "stopped"
      BY <1>0, <2>3
    <3>2. PICK p \in runs : model[p] = model[q]
      BY <2>3, <3>1 DEF Advance, StartsComing
    <3> QED
      BY <2>2, <2>3, <3>1, <3>2
  <2>7. ParkedOnStart'
    BY <1>0, <2>3, <2>4 DEF Advance, ParkedOnStart
  <2> QED
    BY <1>0, <2>3, <2>5, <2>6, <2>7, ProcessStepAdvance
<1>3. CASE \E m \in Models : StartSucceeds(m) \/ StartFails(m)
  <2>1. PICK m \in Models : StartSucceeds(m) \/ StartFails(m)
    BY <1>3
  <2>2. /\ UNCHANGED <<model, loop, active, evict, waiters, toStop, runs, possiblyLeaked, selfStop>>
        /\ pState'[m] \in {"ready", "failed"}
        /\ \A x \in Models \ {m} : pState'[x] = pState[x]
        /\ \A q \in Requests :
              swapPc'[q] = IF swapPc[q] = "parked" /\ model[q] = m THEN "report" ELSE swapPc[q]
    BY <1>0, <2>1
       DEF StartSucceeds, StartFails, KillGaveUp, NotifyWaiters, procUnchanged, clientVars, tableVars
  <2>3. Serving' /\ StartsComing' /\ ParkedOnStart'
    BY <1>0, <2>2 DEF Advance, Serving, StartsComing, ParkedOnStart
  <2> QED
    BY <1>0, <2>2, <2>3, ProcessStepAdvance
<1>4. CASE \E m \in Models : UpstreamExits(m)
  <2>1. PICK m \in Models : UpstreamExits(m)
    BY <1>4
  <2>2. /\ UNCHANGED <<model, loop, active, evict, waiters, swapPc, toStop, runs,
                       possiblyLeaked, selfStop>>
        /\ pState[m] = "ready" /\ pState' = [pState EXCEPT ![m] = "failed"]
    BY <2>1 DEF UpstreamExits, procUnchanged, clientVars, tableVars, swapVars
  <2>3. Serving' /\ StartsComing' /\ ParkedOnStart'
    BY <1>0, <2>2 DEF Advance, Serving, StartsComing, ParkedOnStart
  <2> QED
    BY <1>0, <2>2, <2>3, ProcessStepAdvance
<1> QED
  BY <1>1, <1>2, <1>3, <1>4

(* Every step keeps the swaps going ...                                    *)
LEMMA NextAdvance ==
  ASSUME IInv, ServingInv, AdvanceInv, [Next]_vars
  PROVE  AdvanceInv'
<1> SUFFICES ASSUME Unforced', loop' \notin {"shutdown", "exited"}
             PROVE  Advance'
  BY DEF AdvanceInv
<1>1. Advance /\ TypeOK /\ \A m \in Models : ProcessKept(m)
  BY OnceForced DEF AdvanceInv, IInv, ServingInv
<1>2. CASE RunLoop
  BY <1>1, <1>2, RunLoopAdvance
<1>3. CASE doSwap
  BY <1>1, <1>3, doSwapAdvance
<1>4. CASE Clients \/ UNCHANGED vars
  <2>1. /\ UNCHANGED <<model, loop, active, evict, waiters, swapVars, procVars>>
    BY <1>4, ClientsFrame DEF vars, swapVars, procVars
  <2> QED
    BY <1>1, <2>1, QuietAdvance DEF Advance, Serving, swapVars
<1>5. CASE Stops \/ \E m \in Models : FinishStop(m)
  BY <1>1, <1>5, StopsAdvance
<1>6. CASE \/ \E r \in Requests : AcceptWaitReady(r) \/ AcceptRun(r)
           \/ \E m \in Models : StartSucceeds(m) \/ StartFails(m) \/ UpstreamExits(m)
  BY <1>1, <1>6, AnswersAdvance
<1>7. CASE \E m \in Models : LeakedExits(m) \/ SelfStopDecided(m) \/ ProcessCancelled(m)
  BY <1>1, <1>7, FaultCounted
     DEF LeakedExits, SelfStopDecided, ProcessCancelled, Advance, Serving, TypeOK, Unforced
<1> QED
  BY <1>2, <1>3, <1>4, <1>5, <1>6, <1>7 DEF Next, Processes

(* ... so that nobody waits for a start that is not coming, whichever      *)
(* starts fail: the safety behind the router's promise of an answer.       *)
THEOREM ActiveSwapsAlwaysAdvance == Spec => []ActiveSwapsAdvance
<1>1. Init => AdvanceInv
  <2> SUFFICES ASSUME Init PROVE Advance
    BY DEF AdvanceInv
  <2>1. Serving
    BY DEF Init, Serving
  <2>2. OneSwap /\ Carried /\ StopsOwnVictims /\ StartsComing /\ ParkedOnStart
    BY DEF Init, OneSwap, Carried, StopsOwnVictims, StartsComing, ParkedOnStart, Swapping
  <2> QED
    BY <2>1, <2>2 DEF Advance
<1>2. IInv /\ ServingInv /\ AdvanceInv /\ [Next]_vars => AdvanceInv'
  BY NextAdvance
<1>3. AdvanceInv => ActiveSwapsAdvance
  <2> SUFFICES ASSUME AdvanceInv, Unforced, loop \notin {"shutdown", "exited"}, NEW m \in active
               PROVE  \E r \in waiters[m] : model[r] = m /\ Advancing(r)
    BY DEF ActiveSwapsAdvance
  <2>1. PICK r \in waiters[m] : r \in Requests /\ model[r] = m /\ Swapping(r)
    BY DEF AdvanceInv, Advance, Carried
  <2>2. Advancing(r)
    BY <2>1 DEF AdvanceInv, Advance, Swapping, Advancing, StartsComing, ParkedOnStart
  <2> QED
    BY <2>1, <2>2
<1> QED
  BY <1>1, <1>2, <1>3, Invariance, ServingInvariance, PTL DEF Spec
=============================================================================
