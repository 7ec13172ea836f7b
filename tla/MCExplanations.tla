--------------------------- MODULE MCExplanations ---------------------------
(* Instances of Explanations for TLC: two incidents, of one workspace (whose  *)
(* limit then binds) or of two (where the service's does).                    *)
EXTENDS Explanations, TLC

CONSTANTS t1, t2, i1, i2

WorkerSymmetry == Permutations(Workers)
OneWorkspace == i1 :> t1 @@ i2 :> t1
TwoWorkspaces == i1 :> t1 @@ i2 :> t2
=============================================================================
