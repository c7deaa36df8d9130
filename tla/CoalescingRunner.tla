--------------------------- MODULE CoalescingRunner ---------------------------
(***************************************************************************)
(* NewCoalescingRunner (internal/server/reloadrunner.go): the trigger      *)
(* function that every reload goes through, called from any number of      *)
(* goroutines. The goroutine that finds no pass running leads: it runs fn  *)
(* in its own call, again and again until no trigger came meanwhile; the   *)
(* others leave a mark and return. What fn does is Reload.tla's business.  *)
(***************************************************************************)
EXTENDS FiniteSets

CONSTANTS Callers   \* the goroutines that may call the trigger function

VARIABLES
    running, dirty, \* local to NewCoalescingRunner, guarded by its mutex
    at              \* where each goroutine is: idle (not in the call), enter
                    \* (about to lock), begin (about to call fn), pass (in fn),
                    \* check (fn has returned)

runnerVars == <<running, dirty, at>>

RunnerInit ==
    /\ running = FALSE
    /\ dirty = FALSE
    /\ at = [c \in Callers |-> "idle"]

Moves(c, from, to) ==
    /\ at[c] = from
    /\ at' = [at EXCEPT ![c] = to]

Call(c) ==
    /\ Moves(c, "idle", "enter")
    /\ UNCHANGED <<running, dirty>>

(* Mutant: no mark is left. *)
Join_Unmarked(c) ==
    /\ running
    /\ Moves(c, "enter", "idle")
    /\ UNCHANGED <<running, dirty>>

(* A pass is running: leave a mark for it and return. *)
Join(c) ==
    /\ running
    /\ Moves(c, "enter", "idle")
    /\ dirty' = TRUE
    /\ UNCHANGED running

(* Mutant: the flag is not looked at. *)
Lead_Unguarded(c) ==
    /\ Moves(c, "enter", "begin")
    /\ running' = TRUE
    /\ UNCHANGED dirty

Lead(c) ==
    /\ ~running
    /\ Moves(c, "enter", "begin")
    /\ running' = TRUE
    /\ UNCHANGED dirty

Begin(c) ==
    /\ Moves(c, "begin", "pass")
    /\ UNCHANGED <<running, dirty>>

Return(c) ==
    /\ Moves(c, "pass", "check")
    /\ UNCHANGED <<running, dirty>>

(* A trigger came while fn ran: fn runs again. *)
Again(c) ==
    /\ dirty
    /\ Moves(c, "check", "begin")
    /\ dirty' = FALSE
    /\ UNCHANGED running

(* Mutant: the mark is not looked at. *)
Finish_Unchecked(c) ==
    /\ Moves(c, "check", "idle")
    /\ running' = FALSE
    /\ UNCHANGED dirty

Finish(c) ==
    /\ ~dirty
    /\ Moves(c, "check", "idle")
    /\ running' = FALSE
    /\ UNCHANGED dirty

RunnerNext ==
    \E c \in Callers :
        \/ Call(c) \/ Join(c) \/ Lead(c) \/ Begin(c)
        \/ Return(c) \/ Again(c) \/ Finish(c)

RunnerSpec == RunnerInit /\ [][RunnerNext]_runnerVars
-----------------------------------------------------------------------------
Leading(c) == at[c] \in {"begin", "pass", "check"}

(* fn runs at most once concurrently, whoever calls the trigger function   *)
(* and when: the doc comment of NewCoalescingRunner.                       *)
PassesNeverOverlap ==
    \A c, d \in Callers : Leading(c) /\ Leading(d) => c = d

(* The runner implements PassPerTrigger: what is owed is a call that has   *)
(* not reached the lock, the mark, or a leader yet to begin its pass.      *)
Passes == INSTANCE PassPerTrigger WITH
    owed <- dirty \/ \E c \in Callers : at[c] \in {"enter", "begin"},
    busy <- \E c \in Callers : at[c] = "pass"
=============================================================================
