-------------------------- MODULE ProcessLifecycle --------------------------
(***************************************************************************)
(* What one managed model process promises to the rest of llama-skein     *)
(* (internal/process/process.go): the legal moves between the published    *)
(* ProcessState values, and how they relate to the one thing that costs    *)
(* GPU memory, a live operating-system process.                            *)
(*                                                                         *)
(* `live` counts the operating-system processes of this model that exist.  *)
(* `flagged` is the promise behind possiblyLeaked: when the lifecycle      *)
(* settles in "stopped" or "failed" while a process is still alive, the    *)
(* flag says so, and no new start is accepted until it is lowered.         *)
(* ProcessCommand.tla is shown to implement this module.                   *)
(***************************************************************************)
EXTENDS Naturals

VARIABLES state, live, flagged

lifecycleVars == <<state, live, flagged>>

ProcessState == {"stopped", "starting", "ready", "stopping", "failed", "shutdown"}

(* process.StartableFrom *)
StartableFrom(s) == s \in {"stopped", "failed"}

(* A kill that was not confirmed raises the flag; a lifecycle that settles *)
(* while its process is alive must leave it raised.                        *)
Settle ==
    /\ flagged' \in {flagged, TRUE}
    /\ live > 0 => flagged'
    /\ UNCHANGED live

LifecycleInit ==
    /\ state = "stopped"
    /\ live = 0
    /\ flagged = FALSE

Start ==
    /\ StartableFrom(state)
    /\ ~flagged
    /\ state' = "starting"
    /\ UNCHANGED <<live, flagged>>

(* The operating-system process comes into being, at most one at a time. *)
Spawn ==
    /\ state \in {"starting", "shutdown"}
    /\ live = 0
    /\ live' = 1
    /\ UNCHANGED <<state, flagged>>

(* ... and goes away, on its own or because it was killed. *)
Exit ==
    /\ live > 0
    /\ live' = live - 1
    /\ UNCHANGED <<state, flagged>>

BecomeReady ==
    /\ state = "starting"
    /\ state' = "ready"
    /\ UNCHANGED <<live, flagged>>

(* A start that failed (-> failed) or was aborted by Stop (-> stopped). *)
StartEnds ==
    /\ state = "starting"
    /\ Settle
    /\ state' \in {"failed", "stopped"}

BeginStop ==
    /\ state = "ready"
    /\ state' = "stopping"
    /\ UNCHANGED <<live, flagged>>

(* A kill was not confirmed within its grace period. *)
GiveUp ==
    /\ state \in {"starting", "shutdown"}
    /\ live > 0
    /\ flagged' = TRUE
    /\ UNCHANGED <<state, live>>

EndStop ==
    /\ state \in {"stopping", "failed"}
    /\ Settle
    /\ state' = "stopped"

Crash ==
    /\ state = "ready"
    /\ live = 0
    /\ state' = "failed"
    /\ UNCHANGED <<live, flagged>>

Reclaimed ==
    /\ flagged
    /\ live = 0
    /\ flagged' = FALSE
    /\ UNCHANGED <<state, live>>

(* The parent context ends: final, whatever the process was doing. *)
Shutdown ==
    /\ state' = "shutdown"
    /\ UNCHANGED <<live, flagged>>

LifecycleNext ==
    \/ Start \/ Spawn \/ Exit \/ BecomeReady \/ StartEnds \/ BeginStop
    \/ GiveUp \/ EndStop \/ Crash \/ Reclaimed \/ Shutdown

LifecycleSpec == LifecycleInit /\ [][LifecycleNext]_lifecycleVars
=============================================================================
