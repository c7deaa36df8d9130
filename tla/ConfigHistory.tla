---------------------------- MODULE ConfigHistory ----------------------------
(***************************************************************************)
(* The state that outlives every Server: RuntimeState                      *)
(* (internal/config/runtime_state.go) and the config-history directory     *)
(* (internal/config/history.go).                                           *)
(*                                                                         *)
(* A snapshot is its content; who its metadata names is left out.          *)
(* listHistoryFiles sorts by time, so the directory is the sequence of its *)
(* snapshots, newest first, and those younger than maxAgeDays are a prefix *)
(* of it: which prefix is the clock's choice.                              *)
(***************************************************************************)
EXTENDS Naturals, Sequences

CONSTANTS
    HardCap,    \* HistoryHardCap
    Nobody      \* no actor is staged, or none is named

ASSUME RetentionAssumption == HardCap \in Nat \ {0}

VARIABLES
    lastGood,   \* the content of the last successful transition
    valid,      \* what /health reports
    pending,    \* whom SetPending has staged
    history     \* config-history/, newest first

stateVars == <<lastGood, valid, pending, history>>

AtMost(a, b) == IF a <= b THEN a ELSE b
AtLeast(a, b) == IF a <= b THEN b ELSE a

(* pruneHistory: the `keep` newest, and the young ones, but never more     *)
(* than HardCap.                                                           *)
Retained(h, keep, young) == SubSeq(h, 1, AtMost(Len(h), AtMost(HardCap, AtLeast(keep, young))))

Archived == {history[i] : i \in DOMAIN history}

(* SnapshotConfig of `config`, under the retention of the configuration    *)
(* that is to replace it. Empty content and keep = 0 leave the directory   *)
(* alone.                                                                  *)
SnapshotConfig(config, keep, empty) ==
    IF keep = 0 \/ config = empty
    THEN history' = history
    ELSE \E young \in 0..(Len(history) + 1) :
            history' = Retained(<<config>> \o history, keep, young)

(* One of its files cannot be written, or an old one cannot be removed:    *)
(* the snapshot is not there, or nothing was pruned after it.              *)
SnapshotFails(config) ==
    history' \in {history, <<config>> \o history}

SetLastGood(config) == lastGood' = config
SetValid == valid' = TRUE
SetInvalid == valid' = FALSE
SetPending(actor) == pending' = actor
(* Mutant: TakePending only reads. *)
TakePending_Kept == UNCHANGED pending
(* TakePending clears what was staged; the caller has read it. *)
TakePending == pending' = Nobody
=============================================================================
