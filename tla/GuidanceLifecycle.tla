------------------------- MODULE GuidanceLifecycle -------------------------
(***************************************************************************)
(* What the API promises about the guidance of an incident (docs/API.md,   *)
(* "Public identity and asynchronous explanations"): a request is pending  *)
(* until it succeeds or fails, jobs are keyed to a revision of the rule    *)
(* guidance, and stale model responses are discarded.  So one explanation  *)
(* at most is added to a revision, a success means that it is there, and   *)
(* both stay until the guidance itself is replaced or removed.  A job that *)
(* was given up may succeed late.                                          *)
(***************************************************************************)
EXTENDS Naturals

CONSTANTS Cases, None

VARIABLES
  guidance,      \* the revision of a case's rule guidance, None once it is gone
  explanations,  \* the revisions that model explanations which stand are about
  job

vars == <<guidance, explanations, job>>

Init ==
  /\ guidance \in [Cases -> Nat]
  /\ explanations = [c \in Cases |-> {}]
  /\ job = [c \in Cases |-> "none"]

Pending == {c \in Cases : job[c] = "pending"}
Without(cs) == [c \in Cases |-> IF c \in cs THEN "failed" ELSE job[c]]

(* Jobs fail, or nobody took them for too long. *)
GiveUp(cs) ==
  /\ job' = Without(cs)
  /\ UNCHANGED <<guidance, explanations>>

(* A request also gives up others. *)
Request(c, cs) ==
  /\ guidance[c] # None /\ explanations[c] = {}
  /\ job[c] \in {"none", "failed"}
  /\ job' = [Without(cs) EXCEPT ![c] = "pending"]
  /\ UNCHANGED <<guidance, explanations>>

(* The model's answer is about the guidance that is there, and is the only one. *)
Answer(c) ==
  /\ guidance[c] # None /\ explanations[c] = {}
  /\ explanations' = [explanations EXCEPT ![c] = {guidance[c]}]
  /\ UNCHANGED <<guidance, job>>

Succeed(c) ==
  /\ explanations[c] # {}
  /\ job[c] \in {"pending", "failed"}
  /\ job' = [job EXCEPT ![c] = "succeeded"]
  /\ UNCHANGED <<guidance, explanations>>

(* The guidance goes, and with it the explanation and the job. *)
Clear(c) ==
  /\ explanations' = [explanations EXCEPT ![c] = {}]
  /\ job' = [job EXCEPT ![c] = "none"]

Replace(c) ==
  /\ guidance[c] # None
  /\ guidance' = [guidance EXCEPT ![c] = @ + 1]
  /\ Clear(c)

Remove(c) ==
  /\ guidance[c] # None
  /\ guidance' = [guidance EXCEPT ![c] = None]
  /\ Clear(c)

Next ==
  \/ \E cs \in SUBSET Pending : GiveUp(cs) \/ \E c \in Cases : Request(c, cs)
  \/ \E c \in Cases : Answer(c) \/ Succeed(c) \/ Replace(c) \/ Remove(c)

Spec == Init /\ [][Next]_vars
=============================================================================
