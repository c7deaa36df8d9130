--------------------------- MODULE ProcessService ---------------------------
(***************************************************************************)
(* What a router sees of one model's process.Process                       *)
(* (internal/process/process.go): State(), the callers of Run, WaitReady   *)
(* and Stop, and whether a process of the model may still hold the GPU.    *)
(*                                                                         *)
(* It is finer than ProcessLifecycle.tla, which has no callers, and        *)
(* coarser than ProcessCommand.tla: a start, its abort and a kill are one  *)
(* step each, `holding` counts a process from the moment Run is accepted,  *)
(* and what Stop answers is left out. ProcessCommand.tla is shown to stay  *)
(* within it, and so is each of the processes inside Router.tla. Neither   *)
(* is shown to do all that it allows: a behaviour that ProcessCommand.tla  *)
(* has and Router.tla lacks would not be noticed here.                     *)
(***************************************************************************)
CONSTANT NoOne      \* no Stop is being carried out

VARIABLES
    state,      \* the published ProcessState
    holding,    \* a process of this model may be alive
    leaked,     \* possiblyLeaked, as far as a settled lifecycle admits it
    runs,       \* the callers of Run not yet accepted
    sent,       \* the callers of WaitReady not yet accepted,
    parked,     \* those accepted and not yet answered,
    told,       \* and those that were told the process is ready
    stops,      \* the callers blocked in Stop
    stopper,    \* the one whose Stop a stopping process carries out
    cancelled   \* procCtx has ended

waitVars == <<sent, parked, told>>
callerVars == <<runs, sent, parked, told, stops, stopper>>
serviceVars == <<state, holding, leaked, runs, sent, parked, told, stops, stopper, cancelled>>

ServiceInit ==
    /\ state = "stopped" /\ ~holding /\ ~leaked
    /\ runs = {} /\ sent = {} /\ parked = {} /\ told = {}
    /\ stops = {} /\ stopper = NoOne
    /\ ~cancelled

(* The callers call, and use the answers they got. *)
Call ==
    /\ runs \subseteq runs' /\ sent \subseteq sent' /\ stops \subseteq stops'
    /\ told' \subseteq told
    /\ \A w \in sent' \ sent : w \notin parked \cup told
    /\ UNCHANGED <<state, holding, leaked, parked, stopper, cancelled>>

(* They leave: a WaitReady when its context ends, and once procCtx has     *)
(* ended, any call that is not being carried out.                          *)
Leave ==
    /\ sent' \subseteq sent /\ parked' \subseteq parked /\ told' \subseteq told
    /\ runs' \subseteq runs /\ stops' \subseteq stops
    /\ cancelled \/ UNCHANGED <<runs, stops>>
    /\ stopper \in stops => stopper \in stops'
    /\ UNCHANGED <<state, holding, leaked, stopper, cancelled>>

(* Run: a start begins, or is refused because the process is up or may be. *)
BeginStart ==
    /\ state \in {"stopped", "failed"} /\ ~leaked
    /\ \E c \in runs : runs' = runs \ {c}
    /\ state' = "starting" /\ holding' = TRUE
    /\ UNCHANGED <<leaked, waitVars, stops, stopper, cancelled>>

RefuseRun ==
    /\ state \in {"ready", "shutdown"} \/ (state \in {"stopped", "failed"} /\ leaked)
    /\ \E c \in runs : runs' = runs \ {c}
    /\ UNCHANGED <<state, holding, leaked, waitVars, stops, stopper, cancelled>>

(* WaitReady: answered from ready and from failed, parked in stopped.      *)
AnswerWait ==
    /\ state \in {"ready", "failed", "shutdown"}
    /\ \E w \in sent :
          /\ sent' = sent \ {w}
          /\ told' = IF state = "ready" THEN told \cup {w} ELSE told
    /\ UNCHANGED <<state, holding, leaked, runs, parked, stops, stopper, cancelled>>

ParkWait ==
    /\ state = "stopped"
    /\ \E w \in sent : sent' = sent \ {w} /\ parked' = parked \cup {w}
    /\ UNCHANGED <<state, holding, leaked, runs, told, stops, stopper, cancelled>>

(* A kill: confirmed, or given up and admitted. *)
Killed ==
    \/ holding' = FALSE /\ UNCHANGED leaked
    \/ holding /\ UNCHANGED holding /\ leaked' = TRUE

(* A start ends: every parked WaitReady learns how. *)
BecomeReady ==
    /\ state = "starting"
    /\ state' = "ready"
    /\ told' = told \cup parked /\ parked' = {}
    /\ UNCHANGED <<holding, leaked, runs, sent, stops, stopper, cancelled>>

FailStart ==
    /\ state = "starting"
    /\ state' = "failed"
    /\ Killed
    /\ parked' = {}
    /\ UNCHANGED <<runs, sent, told, stops, stopper, cancelled>>

AbortStart ==
    /\ state = "starting"
    /\ state' = "stopped"
    /\ Killed
    /\ parked' = {}
    /\ \E c \in stops : stops' = stops \ {c}
    /\ UNCHANGED <<runs, sent, told, stopper, cancelled>>

(* Stop with nothing running; and of a process that is up, which answers   *)
(* the caller it was accepted from once the kill is over.                  *)
StopIdle ==
    /\ state \in {"stopped", "failed"}
    /\ state' = "stopped"
    /\ \E c \in stops : stops' = stops \ {c}
    /\ UNCHANGED <<holding, leaked, runs, waitVars, stopper, cancelled>>

BeginStop ==
    /\ state = "ready"
    /\ state' = "stopping"
    /\ stopper' \in stops
    /\ UNCHANGED <<holding, leaked, runs, waitVars, stops, cancelled>>

EndStop ==
    /\ state = "stopping" /\ stopper \in stops
    /\ state' = "stopped"
    /\ Killed
    /\ stops' = stops \ {stopper} /\ stopper' = NoOne
    /\ UNCHANGED <<runs, waitVars, cancelled>>

(* The upstream exits by itself: while it was up, or after it was leaked.  *)
Crash ==
    /\ state = "ready"
    /\ state' = "failed" /\ holding' = FALSE
    /\ UNCHANGED <<leaked, callerVars, cancelled>>

Reclaim ==
    /\ leaked /\ state \in {"stopped", "failed", "shutdown"}
    /\ leaked' = FALSE /\ holding' = FALSE
    /\ UNCHANGED <<state, callerVars, cancelled>>

(* procCtx ends, and some time later the process follows: it is torn down  *)
(* and its parked callers are woken, at once or bit by bit.                *)
Cancel ==
    /\ ~cancelled /\ cancelled' = TRUE
    /\ UNCHANGED <<state, holding, leaked, callerVars>>

ShutDown ==
    /\ cancelled /\ state # "stopping"
    /\ state' = "shutdown"
    /\ Killed \/ UNCHANGED <<holding, leaked>>
    /\ parked' \in {parked, {}}
    /\ UNCHANGED <<runs, sent, told, stops, stopper, cancelled>>

ServiceNext ==
    \/ Call \/ Leave
    \/ BeginStart \/ RefuseRun \/ AnswerWait \/ ParkWait
    \/ BecomeReady \/ FailStart \/ AbortStart
    \/ StopIdle \/ BeginStop \/ EndStop
    \/ Crash \/ Reclaim \/ Cancel \/ ShutDown

ServiceSpec == ServiceInit /\ [][ServiceNext]_serviceVars
=============================================================================
