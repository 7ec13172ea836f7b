----------------------------- MODULE MCConsent -----------------------------
(* Instances of Consent. *)
EXTENDS Consent, TLC

AllSymmetry == Permutations(Process) \cup Permutations(Attempt)
=============================================================================
