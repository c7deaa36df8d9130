------------------------------- MODULE Router -------------------------------
(***************************************************************************)
(* baseRouter (internal/router/base.go) with the planner of the groups     *)
(* (internal/router/group.go) or that of the swap matrix                   *)
(* (MatrixPlanner.tla): the single run loop that owns the active swaps,    *)
(* the in-flight counts and the FIFO queue; the doSwap goroutines it       *)
(* spawns; its callers in ServeHTTP, Unload and Shutdown; and, for each    *)
(* model, the process the swaps start and stop.                            *)
(*                                                                         *)
(* A request is used once, so a swap goroutine is named by the request     *)
(* that started it. A process is kept at the level of ProcessService.tla   *)
(* (ProcessCommand.tla has the detail): its start and its abort are one    *)
(* step each, and `live` counts the process from the moment Run is         *)
(* accepted. drainQueue takes one step per queued request, because it      *)
(* reads the State() of processes that move meanwhile.                     *)
(*                                                                         *)
(* What the environment may do to a run is bounded by MaxFaults, and       *)
(* `faults` remembers what it did: "unload" an Unload call, "selfStop" a   *)
(* Stop from the TTL, probe or wedge-recovery goroutines, "fail" a start   *)
(* that fails or an upstream that exits, "hang" a kill that is not         *)
(* confirmed, "shutdown" a Shutdown call.                                  *)
(***************************************************************************)
EXTENDS MatrixPlanner

CONSTANTS
    Requests,
    Planners,       \* the planners this instance allows
    Group,          \* the group each model is a member of
    Swap, Exclusive, Persistent,   \* the groups with these settings
    Limit,          \* effectiveLimit: each model's session cap
    Loop, Self, NoOne,   \* who asked a process to stop, beside the swaps
    FaultKinds,     \* the kinds of fault this instance allows
    MaxFaults       \* bound on the number of faults in a behaviour

AllFaultKinds == {"unload", "selfStop", "fail", "hang", "shutdown"}

ASSUME RequestsAssumption == IsFiniteSet(Requests)
ASSUME PlannersAssumption == Planners \subseteq {"group", "matrix"}
ASSUME LimitAssumption == \A m \in Models : Limit[m] \in Nat \ {0}
ASSUME StopperAssumption ==
    /\ Loop \notin Requests /\ Self \notin Requests /\ NoOne \notin Requests
    /\ Loop # Self /\ Loop # NoOne /\ Self # NoOne
ASSUME FaultAssumption == FaultKinds \subseteq AllFaultKinds /\ MaxFaults \in Nat

VARIABLES
    planner,      \* matrix or group: whether the config has a swap matrix
    \* the callers of ServeHTTP
    status,       \* idle, waiting (parked on respond), gone (context ended while
                  \* waiting), serving, done, or the error that was answered
    model,        \* the model each request asked for
    \* local to run()
    loop,         \* select, drain, filter, unload, shutdown, exited
    active,       \* the models with an active swap ...
    evict,        \* ... the models that swap stops ...
    waiters,      \* ... and the requests that joined it
    inFlight,     \* requests being served per model
    queued,       \* the FIFO of parked requests
    pending,      \* the part of the old queue a walk has still to look at
    loopStops,    \* the models handleUnload or handleShutdown has yet to stop
    \* the doSwap goroutines, named by the request that started them
    swapPc,       \* none, stop, wait (WaitReady not yet accepted), parked, report, done
    toStop,       \* Stop calls it is waiting for
    swapErr,      \* a Stop failed, or what WaitReady returned
    runs,         \* those whose target.Run is not yet accepted
    \* the processes
    pState, live, possiblyLeaked,
    stopper,      \* whose Stop a stopping process is carrying out
    selfStop,     \* models a TTL, probe or wedge goroutine decided to stop
    faults

clientVars == <<status, model>>
tableVars == <<active, evict, waiters, inFlight>>
queueVars == <<queued, pending>>
swapVars == <<swapPc, toStop, swapErr, runs>>
procVars == <<pState, live, possiblyLeaked, stopper, selfStop>>
vars == <<planner, status, model, loop, active, evict, waiters, inFlight, queued, pending,
          loopStops, swapPc, toStop, swapErr, runs, pState, live, possiblyLeaked,
          stopper, selfStop, faults>>

RefusedStatus == {"capped", "timedOut", "unloaded", "loadFailed", "shutdown"}
Status == {"idle", "waiting", "gone", "serving", "done"} \cup RefusedStatus

Init ==
    /\ planner \in Planners
    /\ status = [r \in Requests |-> "idle"]
    /\ model \in [Requests -> Models]
    /\ loop = "select"
    /\ active = {}
    /\ evict = [m \in Models |-> {}]
    /\ waiters = [m \in Models |-> {}]
    /\ inFlight = [m \in Models |-> 0]
    /\ queued = <<>> /\ pending = <<>>
    /\ loopStops = {}
    /\ swapPc = [r \in Requests |-> "none"]
    /\ toStop = [r \in Requests |-> {}]
    /\ swapErr = [r \in Requests |-> FALSE]
    /\ runs = {}
    /\ pState = [m \in Models |-> "stopped"]
    /\ live = [m \in Models |-> 0]
    /\ possiblyLeaked = [m \in Models |-> FALSE]
    /\ stopper = [m \in Models |-> NoOne]
    /\ selfStop = {}
    /\ faults = [k \in AllFaultKinds |-> 0]

(* One more fault of kind k, within the bound. *)
FaultCount == faults["unload"] + faults["selfStop"] + faults["fail"]
              + faults["hang"] + faults["shutdown"]
Fault(k) ==
    /\ k \in FaultKinds /\ FaultCount < MaxFaults
    /\ faults' = [faults EXCEPT ![k] = @ + 1]

-----------------------------------------------------------------------------
(* The planner: who must be stopped for target t. Among groups:            *)

Evicts(t, m) ==
    /\ m # t
    /\ \/ Group[m] = Group[t] /\ Group[t] \in Swap
       \/ Group[m] # Group[t] /\ Group[t] \in Exclusive /\ Group[m] \notin Persistent

Running == {m \in Models : pState[m] \notin {"stopped", "shutdown", "failed"}}

EvictionFor(t, alsoRunning) ==
    IF planner = "matrix" THEN Solve(t, Running \cup alsoRunning)
    ELSE {m \in Running \cup alsoRunning : Evicts(t, m)}

(* Mutant: the planner is not told of the swaps already under way. *)
activeTargets_Forgotten(exclude) == {}

activeTargets(exclude) == active \ {exclude}

(* Mutant: only our victims are looked at, not those of the active swaps. *)
collidesWith_OneSided(t, ev) == \E id \in active \ {t} : id \in ev

(* Could a swap of t that evicts ev run alongside the active ones? *)
collidesWith(t, ev) ==
    \E id \in active \ {t} : id \in ev \/ t \in evict[id]

conflictsWithInFlight(ev) == \E m \in ev : inFlight[m] > 0

-----------------------------------------------------------------------------
(* Pieces of the run loop. *)

(* grant() of an error to a set of requests: those still there take it. *)
Refuse(rs, answer) ==
    [r \in Requests |-> IF r \in rs /\ status[r] = "waiting" THEN answer ELSE status[r]]

(* grantHandler(): a handler for m goes to those of rs still there, and    *)
(* only those are counted in flight.                                       *)
Takers(rs) == {r \in rs : status[r] = "waiting"}
Served(rs) == [r \in Requests |-> IF r \in Takers(rs) THEN "serving" ELSE status[r]]
(* Mutants: count callers that left as well; count the wrong way. *)
GrantedTo_AllCounted(rs, m) == [inFlight EXCEPT ![m] = @ + Cardinality(rs)]
GrantedTo_Down(rs, m) == [inFlight EXCEPT ![m] = @ - Cardinality(Takers(rs))]
GrantedTo(rs, m) == [inFlight EXCEPT ![m] = @ + Cardinality(Takers(rs))]

(* startSwap(): r's goroutine begins by stopping ev. *)
StartSwap(r, m, ev) ==
    /\ active' = active \cup {m}
    /\ evict' = [evict EXCEPT ![m] = ev]
    /\ waiters' = [waiters EXCEPT ![m] = {r}]
    /\ swapPc' = [swapPc EXCEPT ![r] = "stop"]
    /\ toStop' = [toStop EXCEPT ![r] = ev]
    /\ UNCHANGED <<inFlight, swapErr, runs>>

(* delete(active, id) for the models ms. *)
Forget(ms) ==
    /\ active' = active \ ms
    /\ evict' = [m \in Models |-> IF m \in ms THEN {} ELSE evict[m]]
    /\ waiters' = [m \in Models |-> IF m \in ms THEN {} ELSE waiters[m]]

(* Mutant: joining replaces the waiters instead of adding to them. *)
Join_Replaces(r, m) ==
    /\ waiters' = [waiters EXCEPT ![m] = {r}]
    /\ UNCHANGED <<active, evict, inFlight, swapVars>>

Join(r, m) ==
    /\ waiters' = [waiters EXCEPT ![m] = @ \cup {r}]
    /\ UNCHANGED <<active, evict, inFlight, swapVars>>

(* Walk the queue q next, unless it is empty. *)
DrainQueue(q) ==
    /\ queued' = <<>> /\ pending' = q
    /\ loop' = IF q = <<>> THEN "select" ELSE "drain"

-----------------------------------------------------------------------------
(* handleRequest: the decision tree for a new request r, one disjunct per  *)
(* case.                                                                   *)

handleRequest(r) ==
    LET m  == model[r]
        ev == EvictionFor(m, activeTargets(m))
        servable == pState[m] = "ready" /\ ev = {} /\ ~collidesWith(m, ev)
        blocked  == collidesWith(m, ev) \/ conflictsWithInFlight(ev)
    IN
    /\ loop = "select" /\ status[r] = "idle"
    /\ \/ /\ m \in active
          /\ Join(r, m)
          /\ status' = [status EXCEPT ![r] = "waiting"]
          /\ UNCHANGED queueVars
       \/ /\ m \notin active /\ servable /\ inFlight[m] >= Limit[m]
          /\ status' = [status EXCEPT ![r] = "capped"]
          /\ UNCHANGED <<tableVars, swapVars, queueVars>>
       \/ /\ m \notin active /\ servable /\ inFlight[m] < Limit[m]
          /\ status' = [status EXCEPT ![r] = "serving"]
          /\ inFlight' = [inFlight EXCEPT ![m] = @ + 1]
          /\ UNCHANGED <<active, evict, waiters, swapVars, queueVars>>
       \/ /\ m \notin active /\ ~servable /\ blocked
          /\ status' = [status EXCEPT ![r] = "waiting"]
          /\ queued' = Append(queued, r)
          /\ UNCHANGED <<pending, tableVars, swapVars>>
       \/ /\ m \notin active /\ ~servable /\ ~blocked
          /\ status' = [status EXCEPT ![r] = "waiting"]
          /\ StartSwap(r, m, ev)
          /\ UNCHANGED queueVars
    /\ UNCHANGED <<model, loop, loopStops, procVars, faults>>

(* drainQueue: the same tree for the next queued request, without the      *)
(* session cap.                                                            *)
drainQueue ==
    LET r  == Head(pending)
        m  == model[r]
        ev == EvictionFor(m, activeTargets(m))
        servable == pState[m] = "ready" /\ ev = {} /\ ~collidesWith(m, ev)
        blocked  == collidesWith(m, ev) \/ conflictsWithInFlight(ev)
    IN
    /\ loop = "drain"
    /\ \/ /\ m \in active
          /\ Join(r, m)
          /\ UNCHANGED <<status, queued>>
       \/ /\ m \notin active /\ servable
          /\ status' = Served({r})
          /\ inFlight' = GrantedTo({r}, m)
          /\ UNCHANGED <<active, evict, waiters, swapVars, queued>>
       \/ /\ m \notin active /\ ~servable /\ blocked
          /\ queued' = Append(queued, r)
          /\ UNCHANGED <<status, tableVars, swapVars>>
       \/ /\ m \notin active /\ ~servable /\ ~blocked
          /\ StartSwap(r, m, ev)
          /\ UNCHANGED <<status, queued>>
    /\ pending' = Tail(pending)
    /\ loop' = IF Tail(pending) = <<>> THEN "select" ELSE "drain"
    /\ UNCHANGED <<model, loopStops, procVars, faults>>

(* handleSwapDone: the result of r's goroutine goes to everyone who joined *)
(* the active swap of that model, whichever goroutine that entry is for.   *)
handleSwapDone(r) ==
    LET m == model[r] IN
    /\ loop = "select" /\ swapPc[r] = "report"
    /\ swapPc' = [swapPc EXCEPT ![r] = "done"]
    /\ swapErr' = [swapErr EXCEPT ![r] = FALSE]
    /\ \/ /\ m \notin active
          /\ UNCHANGED <<status, loop, tableVars, queueVars>>
       \/ /\ m \in active /\ swapErr[r]
          /\ Forget({m})
          /\ status' = Refuse(waiters[m], "loadFailed")
          /\ DrainQueue(queued)
          /\ UNCHANGED inFlight
       \/ /\ m \in active /\ ~swapErr[r]
          /\ Forget({m})
          /\ status' = Served(waiters[m])
          /\ inFlight' = GrantedTo(waiters[m], m)
          /\ DrainQueue(queued)
    /\ UNCHANGED <<model, loopStops, toStop, runs, procVars, faults>>

(* handleServeDone: a served request ends; the last one of its model lets  *)
(* the queue be looked at again.                                           *)
handleServeDone(r) ==
    LET m == model[r] IN
    /\ loop = "select" /\ status[r] = "serving"
    /\ status' = [status EXCEPT ![r] = "done"]
    /\ \/ /\ inFlight[m] > 1
          /\ inFlight' = [inFlight EXCEPT ![m] = @ - 1]
          /\ UNCHANGED <<loop, queueVars>>
       \/ /\ inFlight[m] <= 1
          /\ inFlight' = [inFlight EXCEPT ![m] = 0]
          /\ DrainQueue(queued)
    /\ UNCHANGED <<model, active, evict, waiters, loopStops, swapVars, procVars, faults>>

(* expireStaleQueued: queuedAt grows along the queue, so what has waited   *)
(* too long at a tick is some prefix of it.                                *)
expireStaleQueued ==
    /\ loop = "select"
    /\ \E k \in 1..Len(queued) :
          /\ status' = Refuse({queued[i] : i \in 1..k}, "timedOut")
          /\ queued' = SubSeq(queued, k + 1, Len(queued))
    /\ UNCHANGED <<model, loop, tableVars, pending, loopStops, swapVars, procVars, faults>>

(* handleUnload of the models ts: release the waiters of their swaps and   *)
(* forget the swaps (the goroutines run on) ...                            *)
handleUnload(ts) ==
    /\ loop = "select" /\ ts # {}
    /\ Fault("unload")
    /\ status' = Refuse(UNION {waiters[m] : m \in active \cap ts}, "unloaded")
    /\ Forget(ts)
    /\ loopStops' = ts
    /\ queued' = <<>> /\ pending' = queued
    /\ loop' = "filter"
    /\ UNCHANGED <<model, inFlight, swapVars, procVars>>

(* ... drop the queued requests for them, one at a time ...                *)
UnloadFilter ==
    /\ loop = "filter" /\ pending # <<>>
    /\ LET r == Head(pending) IN
       \/ /\ model[r] \in loopStops
          /\ status' = Refuse({r}, "unloaded")
          /\ UNCHANGED queued
       \/ /\ model[r] \notin loopStops
          /\ queued' = Append(queued, r)
          /\ UNCHANGED status
    /\ pending' = Tail(pending)
    /\ UNCHANGED <<model, loop, tableVars, loopStops, swapVars, procVars, faults>>

(* ... then call Stop on them all (Stops below), wait, and drain.     *)
UnloadStops ==
    /\ loop = "filter" /\ pending = <<>>
    /\ loop' = "unload"
    /\ UNCHANGED <<clientVars, tableVars, queueVars, loopStops, swapVars, procVars, faults>>

UnloadDone ==
    /\ loop = "unload" /\ loopStops = {}
    /\ DrainQueue(queued)
    /\ UNCHANGED <<clientVars, tableVars, loopStops, swapVars, procVars, faults>>

(* handleShutdown: turn everyone away, stop every process ...              *)
handleShutdown ==
    /\ loop = "select"
    /\ Fault("shutdown")
    /\ status' = Refuse(Requests, "shutdown")
    /\ Forget(Models)
    /\ queued' = <<>>
    /\ loopStops' = Models
    /\ loop' = "shutdown"
    /\ UNCHANGED <<model, inFlight, pending, swapVars, procVars>>

(* ... then cancel procCtx and return from run().                          *)
ShutdownDone ==
    /\ loop = "shutdown" /\ loopStops = {}
    /\ loop' = "exited"
    /\ UNCHANGED <<clientVars, tableVars, queueVars, loopStops, swapVars, procVars, faults>>

(* The callers: a request context ends while parked; and after shutdown a  *)
(* served request finishes without telling run().                          *)
RequestCancelled(r) ==
    /\ status[r] = "waiting"
    /\ status' = [status EXCEPT ![r] = "gone"]
    /\ UNCHANGED <<model, loop, tableVars, queueVars, loopStops, swapVars, procVars, faults>>

ServeDoneDropped(r) ==
    /\ loop \in {"shutdown", "exited"} /\ status[r] = "serving"
    /\ status' = [status EXCEPT ![r] = "done"]
    /\ UNCHANGED <<model, loop, tableVars, queueVars, loopStops, swapVars, procVars, faults>>

-----------------------------------------------------------------------------
(* Mutant: the Stop calls are not waited for. *)
doSwapStopped_NoWait(r) ==
    /\ swapPc[r] = "stop"
    /\ swapPc' = [swapPc EXCEPT ![r] = "wait"]
    /\ runs' = IF pState[model[r]] \in {"stopped", "failed"} THEN runs \cup {r} ELSE runs
    /\ UNCHANGED <<clientVars, loop, tableVars, queueVars, loopStops, toStop,
                   swapErr, procVars, faults>>

(* doSwap, after startSwap: once every Stop has returned, give up if one   *)
(* failed; otherwise look at the target's state and, if it is startable,   *)
(* leave a goroutine calling Run; then call WaitReady.                     *)
doSwapStopped(r) ==
    /\ swapPc[r] = "stop" /\ toStop[r] = {}
    /\ \/ /\ swapErr[r]
          /\ swapPc' = [swapPc EXCEPT ![r] = "report"]
          /\ UNCHANGED runs
       \/ /\ ~swapErr[r]
          /\ swapPc' = [swapPc EXCEPT ![r] = "wait"]
          /\ runs' = IF pState[model[r]] \in {"stopped", "failed"}
                     THEN runs \cup {r} ELSE runs
    /\ UNCHANGED <<clientVars, loop, tableVars, queueVars, loopStops, toStop,
                   swapErr, procVars, faults>>

(* At shutdown WaitReady and the send on swapDoneCh both give up.          *)
doSwapDropped(r) ==
    /\ loop \in {"shutdown", "exited"}
    /\ swapPc[r] \in {"wait", "parked", "report"}
    /\ swapPc' = [swapPc EXCEPT ![r] = "done"]
    /\ UNCHANGED <<clientVars, loop, tableVars, queueVars, loopStops, toStop,
                   swapErr, runs, procVars, faults>>

-----------------------------------------------------------------------------
(* The processes (ProcessCommand.run). *)

procUnchanged == UNCHANGED <<clientVars, loop, tableVars, queueVars>>

(* Mutant: the end of a start wakes nobody. *)
NotifyWaiters_Silent(m, err) == UNCHANGED <<swapPc, swapErr>>

(* notifyWaiters: every swap parked on m's WaitReady gets the result.      *)
NotifyWaiters(m, err) ==
    LET woken == {r \in Requests : swapPc[r] = "parked" /\ model[r] = m} IN
    /\ swapPc' = [r \in Requests |-> IF r \in woken THEN "report" ELSE swapPc[r]]
    /\ swapErr' = [r \in Requests |-> IF r \in woken THEN err ELSE swapErr[r]]

(* Mutant: a failure that is already known is waited for as well. *)
AcceptWaitReady_ParksOnFailed(r) ==
    LET s == pState[model[r]] IN
    /\ swapPc[r] = "wait" /\ s \notin {"starting", "stopping"}
    /\ swapPc' = [swapPc EXCEPT ![r] = IF s \in {"stopped", "failed"} THEN "parked" ELSE "report"]
    /\ swapErr' = [swapErr EXCEPT ![r] = s = "shutdown"]
    /\ UNCHANGED <<loopStops, toStop, runs, procVars, faults>> /\ procUnchanged

(* WaitReady is accepted: answered from ready, failed and shutdown, parked *)
(* in stopped; while starting or stopping the process's loop is not        *)
(* listening.                                                              *)
AcceptWaitReady(r) ==
    LET s == pState[model[r]] IN
    /\ swapPc[r] = "wait" /\ s \notin {"starting", "stopping"}
    /\ swapPc' = [swapPc EXCEPT ![r] = IF s = "stopped" THEN "parked" ELSE "report"]
    /\ swapErr' = [swapErr EXCEPT ![r] = s \in {"failed", "shutdown"}]
    /\ UNCHANGED <<loopStops, toStop, runs, procVars, faults>> /\ procUnchanged

(* Mutant: Run does not look at possiblyLeaked. *)
AcceptRun_IgnoresLeak(r) ==
    LET m == model[r] IN
    /\ r \in runs /\ pState[m] \in {"stopped", "failed"}
    /\ runs' = runs \ {r}
    /\ pState' = [pState EXCEPT ![m] = "starting"]
    /\ live' = [live EXCEPT ![m] = @ + 1]
    /\ UNCHANGED <<loopStops, swapPc, toStop, swapErr, possiblyLeaked, stopper,
                   selfStop, faults>> /\ procUnchanged

(* Run is accepted, and refused or begins a start. *)
AcceptRun(r) ==
    LET m == model[r] IN
    /\ r \in runs /\ pState[m] \notin {"starting", "stopping"}
    /\ runs' = runs \ {r}
    /\ \/ /\ pState[m] \in {"stopped", "failed"} /\ ~possiblyLeaked[m]
          /\ pState' = [pState EXCEPT ![m] = "starting"]
          /\ live' = [live EXCEPT ![m] = @ + 1]
       \/ /\ pState[m] \in {"ready", "shutdown"} \/ possiblyLeaked[m]
          /\ UNCHANGED <<pState, live>>
    /\ UNCHANGED <<loopStops, swapPc, toStop, swapErr, possiblyLeaked, stopper,
                   selfStop, faults>> /\ procUnchanged

StartSucceeds(m) ==
    /\ pState[m] = "starting"
    /\ pState' = [pState EXCEPT ![m] = "ready"]
    /\ NotifyWaiters(m, FALSE)
    /\ UNCHANGED <<loopStops, toStop, runs, live, possiblyLeaked, stopper,
                   selfStop, faults>> /\ procUnchanged

(* What becomes of m's process when it is killed: gone, or (a hang) left   *)
(* behind alive and flagged.                                               *)
KillConfirmed(m) ==
    /\ live' = [live EXCEPT ![m] = 0]
    /\ UNCHANGED <<possiblyLeaked, faults>>
(* Mutant: a kill is given up without raising the flag. *)
KillGaveUp_Silent(m) == Fault("hang") /\ UNCHANGED <<live, possiblyLeaked>>
KillGaveUp(m) ==
    /\ Fault("hang")
    /\ possiblyLeaked' = [possiblyLeaked EXCEPT ![m] = TRUE]
    /\ UNCHANGED live

(* A start fails; the process is dead, or its abort could not kill it.     *)
StartFails(m) ==
    /\ pState[m] = "starting"
    /\ pState' = [pState EXCEPT ![m] = "failed"]
    /\ NotifyWaiters(m, TRUE)
    /\ \/ /\ Fault("fail")
          /\ live' = [live EXCEPT ![m] = 0]
          /\ UNCHANGED possiblyLeaked
       \/ KillGaveUp(m)
    /\ UNCHANGED <<loopStops, toStop, runs, stopper, selfStop>> /\ procUnchanged

UpstreamExits(m) ==
    /\ pState[m] = "ready"
    /\ Fault("fail")
    /\ pState' = [pState EXCEPT ![m] = "failed"]
    /\ live' = [live EXCEPT ![m] = 0]
    /\ UNCHANGED <<loopStops, swapVars, possiblyLeaked, stopper, selfStop>>
    /\ procUnchanged

(* reapLeaked: the leaked process has exited. *)
LeakedExits(m) ==
    /\ possiblyLeaked[m]
    /\ live' = [live EXCEPT ![m] = 0]
    /\ possiblyLeaked' = [possiblyLeaked EXCEPT ![m] = FALSE]
    /\ UNCHANGED <<loopStops, swapVars, pState, stopper, selfStop, faults>>
    /\ procUnchanged

(* The TTL, probe or wedge-recovery goroutine saw m ready and calls Stop.  *)
SelfStopDecided(m) ==
    /\ pState[m] = "ready" /\ m \notin selfStop
    /\ Fault("selfStop")
    /\ selfStop' = selfStop \cup {m}
    /\ UNCHANGED <<loopStops, swapVars, pState, live, possiblyLeaked, stopper>>
    /\ procUnchanged

(* Those blocked in m's Stop: swaps that evict it, run(), m's own goroutines. *)
Stopping(m) ==
    {r \in Requests : swapPc[r] = "stop" /\ m \in toStop[r]}
    \cup (IF loop \in {"unload", "shutdown"} /\ m \in loopStops THEN {Loop} ELSE {})
    \cup (IF m \in selfStop THEN {Self} ELSE {})

(* Stop of m returns to who. *)
StopReturns(m, who) ==
    /\ toStop' = [r \in Requests |-> IF r = who THEN toStop[r] \ {m} ELSE toStop[r]]
    /\ loopStops' = IF who = Loop THEN loopStops \ {m} ELSE loopStops
    /\ selfStop' = IF who = Self THEN selfStop \ {m} ELSE selfStop

RecordStopErr(who, err) ==
    swapErr' = [r \in Requests |-> swapErr[r] \/ (r = who /\ err)]

(* Stop is accepted with nothing running. *)
StopIdle(m, who) ==
    /\ pState[m] \in {"stopped", "failed", "shutdown"}
    /\ pState' = [pState EXCEPT ![m] = IF @ = "shutdown" THEN @ ELSE "stopped"]
    /\ StopReturns(m, who)
    /\ RecordStopErr(who, possiblyLeaked[m] \/ pState[m] = "shutdown")
    /\ UNCHANGED <<swapPc, runs, live, possiblyLeaked, stopper, faults>> /\ procUnchanged

(* Stop is accepted mid-start and aborts it. An unconfirmed kill is        *)
(* reported only if it was run() that had to do it, not doStart's abort.   *)
StopStarting(m, who) ==
    /\ pState[m] = "starting"
    /\ pState' = [pState EXCEPT ![m] = "stopped"]
    /\ LET woken == {r \in Requests : swapPc[r] = "parked" /\ model[r] = m} IN
       /\ swapPc' = [r \in Requests |-> IF r \in woken THEN "report" ELSE swapPc[r]]
       /\ \E err \in BOOLEAN :
             /\ swapErr' = [r \in Requests |->
                              r \in woken \/ swapErr[r] \/ (r = who /\ err)]
             /\ \/ KillConfirmed(m) /\ ~err
                \/ KillGaveUp(m)
             /\ StopReturns(m, who)
    /\ UNCHANGED <<runs, stopper>> /\ procUnchanged

StopReady(m, who) ==
    /\ pState[m] = "ready"
    /\ pState' = [pState EXCEPT ![m] = "stopping"]
    /\ stopper' = [stopper EXCEPT ![m] = who]
    /\ UNCHANGED <<loopStops, swapVars, live, possiblyLeaked, selfStop, faults>>
    /\ procUnchanged

FinishStop(m) ==
    /\ pState[m] = "stopping"
    /\ pState' = [pState EXCEPT ![m] = "stopped"]
    /\ stopper' = [stopper EXCEPT ![m] = NoOne]
    /\ \E err \in BOOLEAN :
          /\ IF err THEN KillGaveUp(m) ELSE KillConfirmed(m)
          /\ StopReturns(m, stopper[m])
          /\ RecordStopErr(stopper[m], err)
    /\ UNCHANGED <<swapPc, runs>> /\ procUnchanged

(* procCtx is cancelled: the process's own loop kills it and ends.         *)
ProcessCancelled(m) ==
    /\ loop = "exited" /\ pState[m] \notin {"stopping", "shutdown"}
    /\ pState' = [pState EXCEPT ![m] = "shutdown"]
    /\ KillConfirmed(m) \/ (live[m] > 0 /\ KillGaveUp(m))
    /\ NotifyWaiters(m, TRUE)
    /\ UNCHANGED <<loopStops, toStop, runs, stopper, selfStop>> /\ procUnchanged

-----------------------------------------------------------------------------
RunLoop ==
    \/ \E r \in Requests : handleRequest(r) \/ handleSwapDone(r) \/ handleServeDone(r)
    \/ drainQueue \/ expireStaleQueued
    \/ (\E ts \in SUBSET Models : handleUnload(ts))
    \/ UnloadFilter \/ UnloadStops \/ UnloadDone
    \/ handleShutdown \/ ShutdownDone

Clients == \E r \in Requests : RequestCancelled(r) \/ ServeDoneDropped(r)

doSwap == \E r \in Requests : doSwapStopped(r) \/ doSwapDropped(r)

Stops == \E m \in Models, who \in Requests \cup {Loop, Self} :
             who \in Stopping(m) /\ (StopIdle(m, who) \/ StopStarting(m, who) \/ StopReady(m, who))

Processes ==
    \/ \E r \in Requests : AcceptWaitReady(r) \/ AcceptRun(r)
    \/ Stops
    \/ \E m \in Models :
          \/ StartSucceeds(m) \/ StartFails(m) \/ UpstreamExits(m) \/ LeakedExits(m)
          \/ SelfStopDecided(m) \/ FinishStop(m) \/ ProcessCancelled(m)

Next ==
    /\ RunLoop \/ Clients \/ doSwap \/ Processes
    /\ UNCHANGED planner

(* What must go on happening by itself: the run loop serves its channels   *)
(* and its ticker, goroutines run on, a start ends, a kill is waited for   *)
(* only so long, a leaked process dies at last. Not that a request being   *)
(* served ever ends, that a new one comes, or that anything goes wrong.    *)
Progress ==
    \/ \E r \in Requests : handleSwapDone(r)
    \/ drainQueue \/ expireStaleQueued \/ UnloadFilter \/ UnloadStops \/ UnloadDone \/ ShutdownDone
    \/ doSwap
    \/ \E r \in Requests : AcceptWaitReady(r) \/ AcceptRun(r)
    \/ Stops
    \/ \E m \in Models :
          StartSucceeds(m) \/ StartFails(m) \/ LeakedExits(m) \/ FinishStop(m) \/ ProcessCancelled(m)

Spec == Init /\ [][Next]_vars
FairSpec == Spec /\ WF_vars(Progress /\ UNCHANGED planner)

-----------------------------------------------------------------------------
(* Properties. *)

InQueue(r) == \E i \in 1..Len(queued) : queued[i] = r
InPending(r) == \E i \in 1..Len(pending) : pending[i] = r

ClientsOK ==
    /\ status \in [Requests -> Status]
    /\ model \in [Requests -> Models]
TablesOK ==
    /\ active \in SUBSET Models
    /\ evict \in [Models -> SUBSET Models]
    /\ waiters \in [Models -> SUBSET Requests]
    /\ inFlight \in [Models -> Nat]
QueuesOK ==
    /\ loop \in {"select", "drain", "filter", "unload", "shutdown", "exited"}
    /\ queued \in Seq(Requests) /\ pending \in Seq(Requests)
    /\ loopStops \in SUBSET Models
SwapsOK ==
    /\ swapPc \in [Requests -> {"none", "stop", "wait", "parked", "report", "done"}]
    /\ toStop \in [Requests -> SUBSET Models]
    /\ swapErr \in [Requests -> BOOLEAN]
    /\ runs \in SUBSET Requests
ProcsOK ==
    /\ pState \in [Models -> {"stopped", "starting", "ready", "stopping", "failed", "shutdown"}]
    /\ live \in [Models -> Nat] /\ possiblyLeaked \in [Models -> BOOLEAN]
    /\ stopper \in [Models -> Requests \cup {Loop, Self, NoOne}]
    /\ selfStop \in SUBSET Models
    /\ faults \in [AllFaultKinds -> Nat]

TypeOK == planner \in Planners /\ ClientsOK /\ TablesOK /\ QueuesOK /\ SwapsOK /\ ProcsOK

(* While a swap is in the table (collidesWith, conflictsWithInFlight),     *)
(* nothing it is to stop is being served, is itself being loaded, or can   *)
(* become either: no swap in the table interrupts a busy model.            *)
(*                                                                         *)
(* A swap that an Unload has taken out of the table is exempt. Its         *)
(* goroutine goes on to stop its victims (doSwap), while a request may     *)
(* have been granted to one of them since: there the router does interrupt *)
(* a busy model, whatever the comment at expireStaleQueued says.           *)
ActiveSwapsEvictOnlyIdle ==
    \A m \in active : \A e \in evict[m] :
        /\ e # m
        /\ inFlight[e] = 0
        /\ e \notin active

(* The in-flight count is exact: incremented if and only if a decrement is *)
(* coming, whatever callers do meanwhile.                                  *)
InFlightExact ==
    loop \notin {"shutdown", "exited"} =>
    \A m \in Models :
        inFlight[m] = Cardinality({r \in Requests : status[r] = "serving" /\ model[r] = m})

(* A parked caller is remembered in exactly one place, under its own model, *)
(* so that some later event can answer it.                                 *)
WaitingIsRemembered ==
    \A r \in Requests : status[r] = "waiting" =>
        /\ (r \in waiters[model[r]] /\ model[r] \in active) \/ InQueue(r) \/ InPending(r)
        /\ ~(r \in waiters[model[r]] /\ (InQueue(r) \/ InPending(r)))
        /\ \A m \in Models \ {model[r]} : r \notin waiters[m]

(* May these models run together? The matrix has sets; groups exclude one  *)
(* another in pairs.                                                       *)
MayShareTheGPU(ms) ==
    IF planner = "matrix"
    THEN \/ \A a, b \in ms : a = b
         \/ \E i \in DOMAIN Sets : ms \subseteq Sets[i]
    ELSE \A a, b \in ms : ~(Evicts(a, b) /\ Evicts(b, a))

(* Nothing was unloaded, failed, hung or shut down. *)
Undisturbed == \A k \in {"unload", "fail", "hang", "shutdown"} : faults[k] = 0

(* What is being loaded at the same time may run together. The planner of  *)
(* the groups sees to it whatever happens; the matrix evicts nobody for a  *)
(* target that is running already, and one that a forgotten swap has       *)
(* started can be incompatible with what is being loaded since.            *)
NoConflictingSwaps == planner = "group" \/ Undisturbed => MayShareTheGPU(active)

(* The models that have a live process may run together, as long as        *)
(* nothing was unloaded, failed, hung or shut down. Each of those breaks   *)
(* it: see the README.                                                     *)
ExclusiveModelsNeverShareTheGPU ==
    Undisturbed => MayShareTheGPU({m \in Models : live[m] > 0})

(* Per model the process keeps its account, with any faults. *)
OneProcessPerModel == \A m \in Models : live[m] <= 1

(* What the router takes m's process to be: its callers are the swaps, the *)
(* run loop and the process's own goroutines.                              *)
Waiting(m, pc) == {r \in Requests : swapPc[r] = pc /\ model[r] = m}
Process(m) == INSTANCE ProcessService WITH
    state <- pState[m],
    holding <- live[m] > 0,
    leaked <- possiblyLeaked[m],
    runs <- {r \in runs : model[r] = m},
    sent <- Waiting(m, "wait"),
    parked <- Waiting(m, "parked"),
    told <- {r \in Waiting(m, "report") : ~swapErr[r]},
    stops <- Stopping(m),
    stopper <- stopper[m],
    cancelled <- loop = "exited"

(* Whatever swaps, unloads, shutdown and faults do, each process inside    *)
(* this model stays within ProcessService, as ProcessCommand does. Nothing *)
(* is said of the other direction, that it can do all the real one does.   *)
ProcessesServe ==
    /\ \A m \in Models : Process(m)!ServiceInit
    /\ [][\A m \in Models : [Process(m)!ServiceNext]_(Process(m)!serviceVars)]_vars

(* r's goroutine can go on: it is not parked, or the start it is parked on *)
(* is under way or about to be asked for.                                  *)
Advancing(r) ==
    \/ swapPc[r] \in {"stop", "wait", "report"}
    \/ /\ swapPc[r] = "parked"
       /\ \/ pState[model[r]] = "starting"
          \/ pState[model[r]] = "stopped" /\ \E q \in runs : model[q] = model[r]

(* Nothing was unloaded, stopped from elsewhere, or hung.                  *)
Unforced == \A k \in {"unload", "selfStop", "hang"} : faults[k] = 0

(* While the router serves, an active swap is in the hands of a goroutine  *)
(* that can go on, started by one of those who wait for it: nobody waits   *)
(* for a start that is not coming, whatever fails. A Stop between a swap's *)
(* look at its target and its WaitReady, or a kill that was given up,      *)
(* strands it: see the README.                                             *)
ActiveSwapsAdvance ==
    Unforced /\ loop \notin {"shutdown", "exited"} =>
        \A m \in active : \E r \in waiters[m] : model[r] = m /\ Advancing(r)

(* Every parked request is answered in the end, even if what it waits      *)
(* behind never finishes. (Claimed of instances without "unload",          *)
(* "selfStop" and "hang": each of these can strand a request, see the      *)
(* README.)                                                                *)
Answered == \A r \in Requests : status[r] = "waiting" ~> status[r] # "waiting"

(* What the comment in handleUnload says of a swap whose entry an Unload   *)
(* removed: when its swapDone arrives it finds no entry and is dropped. A  *)
(* swapDone that ends an active swap is therefore that swap's own.         *)
StaleSwapDoneDropped ==
    [][\A r \in Requests :
          swapPc[r] = "report" /\ swapPc'[r] = "done" /\ active' # active
              => r \in waiters[model[r]]]_vars

(* What the comment in doSwap says after a failed Stop: the router refuses *)
(* to proceed into contested resources, so no process is started while a   *)
(* model it would have to evict may still hold the GPU.                    *)
NoStartIntoContestedResources ==
    [][\A m, o \in Models :
          live'[m] > live[m] /\ Evicts(m, o) => ~possiblyLeaked[o]]_vars

(* What the comment in ProcessCommand.run says of a WaitReady answered     *)
(* from "failed": no start is in flight, the failure is the answer.        *)
FailureAnswersOwnStart ==
    [][\A r \in Requests :
          swapPc[r] = "wait" /\ swapPc'[r] = "report" /\ pState[model[r]] = "failed"
              => \A q \in runs : model[q] # model[r]]_vars
=============================================================================
