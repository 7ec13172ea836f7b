----------------------------- MODULE MCBudgets -----------------------------
(* An instance of Budgets for TLC: one user's reads, and a scope that locks. *)
EXTENDS Budgets, TLC

TwoScopes == "read" :> 2 @@ "write" :> 1
BudgetSymmetry == Permutations(Requests)
=============================================================================
