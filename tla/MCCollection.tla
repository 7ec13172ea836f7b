---------------------------- MODULE MCCollection ----------------------------
(* Instances of Collection for TLC: every constant is given in the .cfg files, *)
(* workers, requests, sources and messages as model values.                    *)
EXTENDS Collection
=============================================================================
