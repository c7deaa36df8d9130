---------------------------- MODULE PassPerTrigger ----------------------------
(***************************************************************************)
(* What NewCoalescingRunner promises (internal/server/reloadrunner.go): a  *)
(* pass runs at most once concurrently, and a trigger is never lost, since *)
(* what is owed is given up only by a pass that begins afterwards. Any     *)
(* number of triggers may share that pass, and one pass too many is        *)
(* allowed. CoalescingRunner.tla is shown to implement this module.        *)
(***************************************************************************)
VARIABLES owed,     \* a trigger has come since the last pass began
          busy      \* a pass is running

passVars == <<owed, busy>>

PassInit == owed = FALSE /\ busy = FALSE

Request ==
    /\ owed' = TRUE
    /\ UNCHANGED busy

Start ==
    /\ owed
    /\ ~busy
    /\ busy' = TRUE
    /\ owed' \in BOOLEAN    \* a trigger that joined before the pass began

End ==
    /\ busy
    /\ busy' = FALSE
    /\ UNCHANGED owed

PassNext == Request \/ Start \/ End

PassSpec == PassInit /\ [][PassNext]_passVars
PassFairSpec == PassSpec /\ WF_passVars(Start) /\ WF_passVars(End)
=============================================================================
