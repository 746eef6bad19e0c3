---------------------------- MODULE MCFSMEngine ----------------------------
(* Four registered states; the engine treats them all alike but the first. *)
EXTENDS FSMEngine
=============================================================================
