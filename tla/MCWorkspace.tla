---------------------------- MODULE MCWorkspace ----------------------------
(* Instances of Workspace for TLC: every constant is given in the .cfg files. *)
EXTENDS Workspace
=============================================================================
