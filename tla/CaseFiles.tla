----------------------------- MODULE CaseFiles -----------------------------
(***************************************************************************)
(* What the platform promises about a case (docs/RULE_CATALOG.md, "Incident *)
(* lifecycle"; docs/PRIVACY_AND_RETENTION.md, "Expiry deletes whole cases  *)
(* so retained scores never silently change"): it is opened with evidence, *)
(* its evidence only grows, its status moves only as the lifecycle allows, *)
(* a false positive takes no evidence and no other verdict, new evidence   *)
(* reopens a resolved case, and a case leaves only as a whole.             *)
(***************************************************************************)
CONSTANTS Files

VARIABLES status, evidence

vars == <<status, evidence>>

Init ==
  /\ status = [c \in Files |-> "absent"]
  /\ evidence = [c \in Files |-> {}]

(* Only the evidence of c changes; to what, the detailed model says. *)
OthersKept(c) == \A d \in Files \ {c} : evidence'[d] = evidence[d]

Open(c) ==
  /\ status[c] = "absent"
  /\ status' = [status EXCEPT ![c] = "new"]
  /\ evidence'[c] # {} /\ OthersKept(c)

Grow(c) ==
  /\ status[c] \in {"new", "under_review", "resolved"}
  /\ status' = [status EXCEPT ![c] = IF @ = "resolved" THEN "under_review" ELSE @]
  /\ evidence[c] \subseteq evidence'[c] /\ OthersKept(c)

Allowed == {<<"new", "under_review">>, <<"new", "false_positive">>,
            <<"under_review", "resolved">>, <<"under_review", "false_positive">>,
            <<"resolved", "under_review">>}

Decide(c, verdict) ==
  /\ <<status[c], verdict>> \in Allowed
  /\ status' = [status EXCEPT ![c] = verdict]
  /\ UNCHANGED evidence

Discard(cs) ==
  /\ status' = [c \in Files |-> IF c \in cs THEN "absent" ELSE status[c]]
  /\ evidence' = [c \in Files |-> IF c \in cs THEN {} ELSE evidence[c]]

Next ==
  \/ \E c \in Files : Open(c) \/ Grow(c)
  \/ \E c \in Files, verdict \in {"under_review", "resolved", "false_positive"} :
       Decide(c, verdict)
  \/ \E cs \in SUBSET Files : Discard(cs)

Spec == Init /\ [][Next]_vars
=============================================================================
