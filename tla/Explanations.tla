---------------------------- MODULE Explanations ----------------------------
(***************************************************************************)
(* The on-demand explanation queue of SentinelSME in production: requests  *)
(* enqueue one job per incident and template revision, isolated model      *)
(* workers claim jobs under a lease and write an explanation only if the   *)
(* guidance it was generated from still stands, and ingestion replaces the *)
(* guidance meanwhile.                                                     *)
(*                                                                         *)
(* A step is one database transaction.  Enqueueing is one: the request     *)
(* holds its workspace lock, as ingestion and the storing of a model's     *)
(* answer do, and an advisory lock against other requests.  Deleting a     *)
(* template deletes its job (ON DELETE CASCADE), so an incident has at     *)
(* most one job, and the job is for its present template.                  *)
(***************************************************************************)
EXTENDS Integers, FiniteSets

CONSTANTS
  Workers,       \* explanation workers
  Incidents,
  TenantOf,      \* the workspace of each incident
  QueueLimit,    \* active jobs in the service (8 in the code)
  TenantLimit,   \* active jobs of one workspace (2)
  MaxAttempts,   \* claims of one job (3)
  Lease,         \* the model's timeout and a minute, in ticks
  QueueWait,     \* the 30 minutes a queued job may wait, in ticks
  MaxRevision,   \* bound: template revisions of an incident
  None

Tenants == {TenantOf[i] : i \in Incidents}
Revisions == 1..MaxRevision

ASSUME IncidentAssumption ==
  /\ IsFiniteSet(Incidents)
  /\ TenantOf \in [Incidents -> Tenants]
  /\ None \notin Workers \cup Incidents \cup Nat

ASSUME LimitAssumption ==
  /\ QueueLimit \in Nat /\ TenantLimit \in Nat
  /\ MaxAttempts \in Nat \ {0}
  /\ Lease \in Nat \ {0} /\ QueueWait \in Nat
  /\ MaxRevision \in Nat \ {0}

VARIABLES
  template,      \* the revision of an incident's template, None once it is deleted
  answers,       \* model explanations of an incident, counted by the revision
                 \* they were generated from
  status, attempts, leaseId, leaseLeft, waited,     \* the incident's ExplanationJob
  pc, at, revision, outcome     \* a worker's step, its incident, the template it works
                                \* for and what it will report

jobs == <<status, attempts, leaseId, leaseLeft, waited>>
lease == <<leaseId, leaseLeft>>
vars == <<template, answers, jobs, pc, at, revision, outcome>>

-----------------------------------------------------------------------------
Statuses == {"absent", "queued", "running", "succeeded", "failed"}
Stages == {"idle", "claimed", "starting", "generating", "looking", "finishing"}

JobType ==
  /\ status \in [Incidents -> Statuses]
  /\ attempts \in [Incidents -> 0..MaxAttempts]
  /\ leaseId \in [Incidents -> Workers \cup {None}]
  /\ leaseLeft \in [Incidents -> 0..Lease]
  /\ waited \in [Incidents -> 0..(QueueWait + 1)]

TypeOK ==
  /\ template \in [Incidents -> Revisions \cup {None}]
  /\ answers \in [Incidents -> [Revisions -> Nat]]
  /\ JobType
  /\ pc \in [Workers -> Stages]
  /\ at \in [Workers -> Incidents \cup {None}]
  /\ revision \in [Workers -> Revisions \cup {None}]
  /\ outcome \in [Workers -> {"explained", "failed"}]

Unanswered == [r \in Revisions |-> 0]

Init ==
  /\ template = [i \in Incidents |-> 1]
  /\ answers = [i \in Incidents |-> Unanswered]
  /\ status = [i \in Incidents |-> "absent"]
  /\ attempts = [i \in Incidents |-> 0]
  /\ leaseId = [i \in Incidents |-> None]
  /\ leaseLeft = [i \in Incidents |-> 0]
  /\ waited = [i \in Incidents |-> 0]
  /\ pc = [w \in Workers |-> "idle"]
  /\ at = [w \in Workers |-> None]
  /\ revision = [w \in Workers |-> None]
  /\ outcome = [w \in Workers |-> "failed"]

-----------------------------------------------------------------------------
(* The newest explanation of the incident comes from the model. *)
Explained(i) == \E r \in Revisions : answers[i][r] > 0

IsActive(s) == s \in {"queued", "running"}
Active == {i \in Incidents : IsActive(status[i])}

StaleByAge(i) ==
  \/ status[i] # "absent" /\ waited[i] > QueueWait
  \/ status[i] = "running" /\ leaseLeft[i] = 0 /\ attempts[i] >= MaxAttempts

(* expire: a queued job waited too long, or a running one spent its attempts *)
Stale(i) ==
  \/ status[i] = "queued" /\ waited[i] > QueueWait
  \/ status[i] = "running" /\ leaseLeft[i] = 0 /\ attempts[i] >= MaxAttempts

Expire(S) == [i \in Incidents |-> IF i \in S /\ Stale(i) THEN "failed" ELSE status[i]]

(* Every request of a workspace expires the jobs of the workspace. *)
ExpireTenant(t) ==
  /\ status' = Expire({i \in Incidents : TenantOf[i] = t})
  /\ UNCHANGED <<template, answers, attempts, lease, waited, pc, at, revision, outcome>>

-----------------------------------------------------------------------------
(* POST /incidents/{id}/explanation. *)

HasRoomInService(i, active) == Cardinality(active) < QueueLimit

HasRoomInTenant(i, active) ==
  Cardinality({k \in active : TenantOf[k] = TenantOf[i]}) < TenantLimit

(* the job's own row is not active when this is asked *)
HasRoom(i, active) ==
  /\ Cardinality(active) < QueueLimit
  /\ Cardinality({k \in active : TenantOf[k] = TenantOf[i]}) < TenantLimit

KeptAttempts(i) == attempts[i]

(* A new row, or the row of a job that is over, starts over. *)
FirstAttempts(i) == 0

(* A full queue refuses the request and rolls back what expire had done. *)
Enqueue(i) ==
  /\ template[i] # None /\ ~Explained(i)
  /\ LET now == Expire(Incidents) IN
       IF IsActive(now[i])
       THEN status' = now /\ UNCHANGED <<attempts, lease, waited>>
       ELSE /\ HasRoom(i, {k \in Incidents : IsActive(now[k])})
            /\ status' = [now EXCEPT ![i] = "queued"]
            /\ attempts' = [attempts EXCEPT ![i] = FirstAttempts(i)]
            /\ leaseId' = [leaseId EXCEPT ![i] = None]
            /\ leaseLeft' = [leaseLeft EXCEPT ![i] = 0]
            /\ waited' = [waited EXCEPT ![i] = 0]
  /\ UNCHANGED <<template, answers, pc, at, revision, outcome>>

-----------------------------------------------------------------------------
(* process_one. *)

Goto(w, stage) == pc' = [pc EXCEPT ![w] = stage]

ClaimableOnce(i, now) == now[i] = "queued"

Claimable(i, now) ==
  \/ now[i] = "queued"
  \/ now[i] = "running" /\ leaseLeft[i] = 0 /\ attempts[i] < MaxAttempts

(* The oldest claimable job; the ages of those older than QueueWait are not  *)
(* told apart.  Skipping a locked row is claiming after its transaction.     *)
Claim(w) ==
  /\ pc[w] = "idle"
  /\ LET now == Expire(Incidents)
         candidates == {i \in Incidents : Claimable(i, now)} IN
       \/ /\ candidates = {}
          /\ status' = now
          /\ UNCHANGED <<attempts, lease, pc, at, revision>>
       \/ \E i \in candidates :
            /\ \A k \in candidates : waited[k] <= waited[i]
            /\ status' = [now EXCEPT ![i] = "running"]
            /\ attempts' = [attempts EXCEPT ![i] = @ + 1]
            /\ leaseId' = [leaseId EXCEPT ![i] = w]
            /\ leaseLeft' = [leaseLeft EXCEPT ![i] = Lease]
            /\ at' = [at EXCEPT ![w] = i]
            /\ revision' = [revision EXCEPT ![w] = template[i]]
            /\ Goto(w, "claimed")
  /\ UNCHANGED <<template, answers, waited, outcome>>

Report(w, result) ==
  /\ Goto(w, "finishing")
  /\ outcome' = [outcome EXCEPT ![w] = result]

(* Is the newest explanation still the template the job is for? *)
Check(w) ==
  /\ pc[w] = "claimed"
  /\ template[at[w]] # None
  /\ IF template[at[w]] = revision[w] /\ ~Explained(at[w])
     THEN Goto(w, "starting") /\ UNCHANGED outcome
     ELSE Report(w, "failed")
  /\ UNCHANGED <<template, answers, jobs, at, revision>>

(* explain_incident looks again under the locks and releases them while the  *)
(* model generates; what it sees now is what the answer will be about.       *)
Begin(w) ==
  /\ pc[w] = "starting"
  /\ template[at[w]] # None
  /\ IF Explained(at[w])
     THEN Goto(w, "looking") /\ UNCHANGED revision
     ELSE /\ Goto(w, "generating")
          /\ revision' = [revision EXCEPT ![w] = template[at[w]]]
  /\ UNCHANGED <<template, answers, jobs, at, outcome>>

(* "not_template": somebody else's answer may stand. *)
Look(w) ==
  /\ pc[w] = "looking"
  /\ Report(w, IF Explained(at[w]) THEN "explained" ELSE "failed")
  /\ UNCHANGED <<template, answers, jobs, at, revision>>

StandsUnanswered(w) == ~Explained(at[w])
StandsAtRevision(w) == template[at[w]] = revision[w]

(* the template is the one the answer was generated from, and is the newest *)
Stands(w) == template[at[w]] = revision[w] /\ ~Explained(at[w])

(* The model's answer, or its failure, under the locks again. *)
Settle(w) ==
  /\ pc[w] = "generating"
  /\ template[at[w]] # None
  /\ \/ /\ Stands(w)
        /\ answers' = [answers EXCEPT ![at[w]][revision[w]] = @ + 1]
        /\ Report(w, "explained")
     \/ Report(w, "failed") /\ UNCHANGED answers
  /\ UNCHANGED <<template, jobs, at, revision>>

(* The incident is gone, the workspace is inaccessible or anything raised. *)
Fail(w) ==
  /\ pc[w] \in {"claimed", "starting", "generating", "looking"}
  /\ Report(w, "failed")
  /\ UNCHANGED <<template, answers, jobs, at, revision>>

HoldsJob(w) == status[at[w]] # "absent"

(* UPDATE ... WHERE id = job AND lease_id = lease *)
HoldsLease(w) == leaseId[at[w]] = w

Finish(w) ==
  /\ pc[w] = "finishing"
  /\ IF HoldsLease(w)
     THEN /\ status' = [status EXCEPT ![at[w]] =
                          IF outcome[w] = "explained" THEN "succeeded" ELSE "failed"]
          /\ leaseId' = [leaseId EXCEPT ![at[w]] = None]
          /\ leaseLeft' = [leaseLeft EXCEPT ![at[w]] = 0]
     ELSE UNCHANGED <<status, lease>>
  /\ Goto(w, "idle")
  /\ at' = [at EXCEPT ![w] = None]
  /\ revision' = [revision EXCEPT ![w] = None]
  /\ outcome' = [outcome EXCEPT ![w] = "failed"]
  /\ UNCHANGED <<template, answers, attempts, waited>>

(* A crashed worker leaves its lease behind. *)
Crash(w) ==
  /\ pc[w] # "idle"
  /\ Goto(w, "idle")
  /\ at' = [at EXCEPT ![w] = None]
  /\ revision' = [revision EXCEPT ![w] = None]
  /\ outcome' = [outcome EXCEPT ![w] = "failed"]
  /\ UNCHANGED <<template, answers, jobs>>

-----------------------------------------------------------------------------
(* The incident's explanations are deleted, and its job with them. *)
DropGuidance(i) ==
  /\ answers' = [answers EXCEPT ![i] = Unanswered]
  /\ status' = [status EXCEPT ![i] = "absent"]
  /\ attempts' = [attempts EXCEPT ![i] = 0]
  /\ leaseId' = [leaseId EXCEPT ![i] = None]
  /\ leaseLeft' = [leaseLeft EXCEPT ![i] = 0]
  /\ waited' = [waited EXCEPT ![i] = 0]
  /\ UNCHANGED <<pc, at, revision, outcome>>

(* New evidence for the incident: _refresh_guidance, at the end of _correlate. *)
RefreshGuidance(i) ==
  /\ template[i] # None /\ template[i] < MaxRevision
  /\ template' = [template EXCEPT ![i] = @ + 1]
  /\ DropGuidance(i)

(* Retention or the deletion of the account removes the incident. *)
Delete(i) ==
  /\ template[i] # None
  /\ template' = [template EXCEPT ![i] = None]
  /\ DropGuidance(i)

(* Ages past QueueWait are not told apart. *)
Older(n) == IF n > QueueWait THEN n ELSE n + 1
Shorter(n) == IF n = 0 THEN 0 ELSE n - 1

Tick ==
  /\ leaseLeft' = [i \in Incidents |-> Shorter(leaseLeft[i])]
  /\ waited' = [i \in Incidents |-> IF IsActive(status[i]) THEN Older(waited[i]) ELSE waited[i]]
  /\ UNCHANGED <<template, answers, status, attempts, leaseId, pc, at, revision, outcome>>

-----------------------------------------------------------------------------
WorkerStep(w) ==
  Claim(w) \/ Check(w) \/ Begin(w) \/ Look(w) \/ Settle(w) \/ Fail(w) \/ Finish(w)

Next ==
  \/ \E w \in Workers : WorkerStep(w) \/ Crash(w)
  \/ \E i \in Incidents : Enqueue(i) \/ RefreshGuidance(i) \/ Delete(i)
  \/ \E t \in Tenants : ExpireTenant(t)
  \/ Tick

Spec == Init /\ [][Next]_vars

(* The worker loops for ever and restarts after a crash; the clock advances. *)
Fairness == WF_vars(Tick) /\ \A w \in Workers : WF_vars(WorkerStep(w))

LiveSpec == Spec /\ Fairness
-----------------------------------------------------------------------------
(* Properties. *)

(* enqueue's limits hold over the whole life of the jobs: expiry, claims,      *)
(* crashes and retries never let more than 8 jobs of the service, or 2 of a    *)
(* workspace, be active.                                                       *)
QueueBounded ==
  /\ Cardinality(Active) <= QueueLimit
  /\ \A t \in Tenants : Cardinality({i \in Active : TenantOf[i] = t}) <= TenantLimit

(* docs/API.md, "stale model responses are discarded": every model explanation  *)
(* that stands was generated from the incident's present template, although no *)
(* lock spans the generation.                                                  *)
AnswersAreCurrent ==
  \A i \in Incidents, r \in Revisions : answers[i][r] > 0 => template[i] = r

(* Slow workers whose leases expired, and those that took their jobs over,      *)
(* together answer a template at most once.                                    *)
AnsweredOnce == \A i \in Incidents, r \in Revisions : answers[i][r] <= 1

(* A job reported as succeeded has an explanation that stands, whatever         *)
(* evidence arrived while its worker was finishing.                            *)
SucceededIsExplained == \A i \in Incidents : status[i] = "succeeded" => Explained(i)

(* The queue, its leases and its workers implement the life cycle that the API  *)
(* shows: in particular no success is taken back, whatever jobs expire, are     *)
(* taken over or asked for again, before the guidance itself changes.           *)
AnswersTo(i) == {r \in Revisions : answers[i][r] > 0}

Shown(s) == IF IsActive(s) THEN "pending" ELSE IF s = "absent" THEN "none" ELSE s

Lifecycle == INSTANCE GuidanceLifecycle WITH
  Cases <- Incidents, guidance <- template,
  explanations <- [i \in Incidents |-> AnswersTo(i)],
  job <- [i \in Incidents |-> Shown(status[i])]

KeepsGuidance == Lifecycle!Spec

(* The interface shows an explanation as being prepared until its job is over:  *)
(* unless it is asked for again for ever, an active job ends or goes with its  *)
(* template, however often workers crash.                                      *)
JobEnds ==
  \A i \in Incidents :
    \/ []<><<Enqueue(i)>>_vars
    \/ IsActive(status[i]) ~> ~IsActive(status[i])
=============================================================================
