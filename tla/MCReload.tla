------------------------------ MODULE MCReload ------------------------------
(* Two calls of the config API: one makes an edit, which may be one that   *)
(* LoadConfig refuses; the other edits, rolls back, or asks for a reload.  *)
(* A hand edit removes the file, or turns the archive off (keep: 0).       *)
EXTENDS Reload, TLC
CONSTANTS h1, h2, e1, e2

MCJobs == (h1 :> {e1, e2} @@ h2 :> {e1, "rollback", "reload"})
MCKind == (e1 :> "patch" @@ e2 :> "default")
MCKeep == [c \in Configs |-> IF c.from = "hand" THEN 0 ELSE 1]
MCHandContents == {[from |-> "hand", edits |-> {}], Missing}
=============================================================================
