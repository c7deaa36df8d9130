-------------------------- MODULE MCProcessCommand --------------------------
(* Instances of ProcessCommand for TLC; the values are in the .cfg files.  *)
EXTENDS ProcessCommand
=============================================================================
