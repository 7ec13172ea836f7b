---------------------------- MODULE JobLifecycle ----------------------------
(***************************************************************************)
(* What the API promises about a scan job (docs/OPERATIONS.md, "Scan jobs  *)
(* use queued, running, completed, or failed"): it is queued once, an      *)
(* attempt completes it with everything it imported or fails it with       *)
(* nothing, and only a failed job may be queued again.  A completed job    *)
(* never changes.                                                          *)
(***************************************************************************)
EXTENDS Naturals

CONSTANTS Jobs

VARIABLES state, imported

vars == <<state, imported>>

Init ==
  /\ state = [j \in Jobs |-> "absent"]
  /\ imported = [j \in Jobs |-> 0]

Move(j, from, to) == state[j] = from /\ state' = [state EXCEPT ![j] = to]

Queue(j) == Move(j, "absent", "queued") /\ UNCHANGED imported

Complete(j) ==
  /\ Move(j, "queued", "completed")
  /\ imported' \in [Jobs -> Nat]
  /\ imported'[j] >= imported[j]
  /\ \A k \in Jobs \ {j} : imported'[k] = imported[k]

Fail(j) == Move(j, "queued", "failed") /\ UNCHANGED imported

Retry(j) == Move(j, "failed", "queued") /\ UNCHANGED imported

Next == \E j \in Jobs : Queue(j) \/ Complete(j) \/ Fail(j) \/ Retry(j)

Spec == Init /\ [][Next]_vars
=============================================================================
