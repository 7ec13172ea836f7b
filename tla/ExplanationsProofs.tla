------------------------- MODULE ExplanationsProofs -------------------------
(* Proofs about Explanations, for every value of its constants. *)
EXTENDS Explanations, TLAPS, FiniteSetTheorems

-----------------------------------------------------------------------------
(* Types.  That attempts stay within MaxAttempts needs a queued job to have none. *)

AtDefined == \A w \in Workers : pc[w] # "idle" => at[w] \in Incidents
RevisionKnown == \A w \in Workers : pc[w] = "generating" => revision[w] \in Revisions
QueuedIsFresh == \A i \in Incidents : status[i] = "queued" => attempts[i] = 0

TypeInv == TypeOK /\ AtDefined /\ RevisionKnown /\ QueuedIsFresh

LEMMA InitType == Init => TypeInv
  BY LimitAssumption
  DEF Init, TypeInv, TypeOK, JobType, AtDefined, RevisionKnown, QueuedIsFresh, Revisions,
      Unanswered, Statuses, Stages

LEMMA ExpireType ==
  ASSUME TypeInv, NEW S
  PROVE  /\ Expire(S) \in [Incidents -> Statuses]
         /\ \A i \in Incidents : Expire(S)[i] \in {status[i], "failed"}
  BY DEF TypeInv, TypeOK, JobType, Expire, Statuses

LEMMA ExpireTenantType ==
  ASSUME TypeInv, NEW t, ExpireTenant(t)
  PROVE  TypeInv'
<1>1. /\ status' \in [Incidents -> Statuses]
      /\ \A i \in Incidents : status'[i] \in {status[i], "failed"}
  BY ExpireType DEF ExpireTenant
<1>2. UNCHANGED <<template, answers, attempts, leaseId, leaseLeft, waited,
                  pc, at, revision, outcome>>
  BY DEF ExpireTenant, lease
<1>3. QED
  BY <1>1, <1>2 DEF TypeInv, TypeOK, JobType, AtDefined, RevisionKnown, QueuedIsFresh

LEMMA EnqueueType ==
  ASSUME TypeInv, NEW i \in Incidents, Enqueue(i)
  PROVE  TypeInv'
<1> DEFINE now == Expire(Incidents)
<1>1. now \in [Incidents -> Statuses] /\ \A k \in Incidents : now[k] \in {status[k], "failed"}
  BY ExpireType
<1>2. UNCHANGED <<template, answers, pc, at, revision, outcome>>
  BY DEF Enqueue
<1>3. CASE IsActive(now[i])
  <2>1. status' = now /\ UNCHANGED <<attempts, leaseId, leaseLeft, waited>>
    BY <1>3 DEF Enqueue, lease
  <2>2. QED
    BY <1>1, <1>2, <2>1 DEF TypeInv, TypeOK, JobType, AtDefined, RevisionKnown, QueuedIsFresh
<1>4. CASE ~IsActive(now[i])
  <2>1. /\ status' = [now EXCEPT ![i] = "queued"]
        /\ attempts' = [attempts EXCEPT ![i] = 0]
        /\ leaseId' = [leaseId EXCEPT ![i] = None]
        /\ leaseLeft' = [leaseLeft EXCEPT ![i] = 0]
        /\ waited' = [waited EXCEPT ![i] = 0]
    BY <1>4 DEF Enqueue, FirstAttempts
  <2>2. 0 \in 0..MaxAttempts /\ 0 \in 0..Lease /\ 0 \in 0..(QueueWait + 1)
    BY LimitAssumption
  <2>3. JobType'
    BY <1>1, <2>1, <2>2 DEF TypeInv, TypeOK, JobType, Statuses
  <2>4. QueuedIsFresh'
    BY <1>1, <2>1 DEF TypeInv, TypeOK, JobType, QueuedIsFresh
  <2>5. QED
    BY <1>2, <2>3, <2>4 DEF TypeInv, TypeOK, AtDefined, RevisionKnown
<1>5. QED BY <1>3, <1>4

LEMMA ClaimType ==
  ASSUME TypeInv, NEW w \in Workers, Claim(w)
  PROVE  TypeInv'
<1> DEFINE now == Expire(Incidents)
<1>1. now \in [Incidents -> Statuses] /\ \A k \in Incidents : now[k] \in {status[k], "failed"}
  BY ExpireType
<1>2. UNCHANGED <<template, answers, waited, outcome>>
  BY DEF Claim
<1>3. CASE status' = now /\ UNCHANGED <<attempts, lease, pc, at, revision>>
  BY <1>1, <1>2, <1>3
  DEF TypeInv, TypeOK, JobType, AtDefined, RevisionKnown, QueuedIsFresh, lease
<1>4. ASSUME NEW i \in Incidents, Claimable(i, now),
             /\ status' = [now EXCEPT ![i] = "running"]
             /\ attempts' = [attempts EXCEPT ![i] = @ + 1]
             /\ leaseId' = [leaseId EXCEPT ![i] = w]
             /\ leaseLeft' = [leaseLeft EXCEPT ![i] = Lease]
             /\ at' = [at EXCEPT ![w] = i]
             /\ revision' = [revision EXCEPT ![w] = template[i]]
             /\ Goto(w, "claimed")
      PROVE  TypeInv'
  <2>1. attempts[i] < MaxAttempts /\ attempts[i] \in Nat
    BY <1>1, <1>4, LimitAssumption
    DEF Claimable, TypeInv, TypeOK, JobType, QueuedIsFresh
  <2>2. attempts[i] + 1 \in 0..MaxAttempts /\ Lease \in 0..Lease
    BY <2>1, LimitAssumption
  <2>3. JobType'
    BY <1>1, <1>2, <1>4, <2>2 DEF TypeInv, TypeOK, JobType, Statuses
  <2>4. QueuedIsFresh'
    BY <1>1, <1>4 DEF TypeInv, TypeOK, JobType, QueuedIsFresh
  <2>5. /\ pc' \in [Workers -> Stages] /\ at' \in [Workers -> Incidents \cup {None}]
        /\ revision' \in [Workers -> Revisions \cup {None}]
        /\ AtDefined' /\ RevisionKnown'
    BY <1>4 DEF TypeInv, TypeOK, AtDefined, RevisionKnown, Goto, Stages
  <2>6. QED BY <1>2, <2>3, <2>4, <2>5 DEF TypeInv, TypeOK
<1>5. QED BY <1>3, <1>4 DEF Claim

LEMMA FinishType ==
  ASSUME TypeInv, NEW w \in Workers, Finish(w)
  PROVE  TypeInv'
<1>1. 0 \in 0..Lease BY LimitAssumption
<1>2. /\ status' \in [Incidents -> Statuses]
      /\ leaseId' \in [Incidents -> Workers \cup {None}]
      /\ leaseLeft' \in [Incidents -> 0..Lease]
      /\ \A i \in Incidents : status'[i] = "queued" => status[i] = "queued"
  BY <1>1 DEF Finish, TypeInv, TypeOK, JobType, lease, Statuses
<1>3. /\ pc' = [pc EXCEPT ![w] = "idle"]
      /\ at' = [at EXCEPT ![w] = None]
      /\ revision' = [revision EXCEPT ![w] = None]
      /\ outcome' = [outcome EXCEPT ![w] = "failed"]
      /\ UNCHANGED <<template, answers, attempts, waited>>
  BY DEF Finish, Goto
<1>4. QED
  BY <1>2, <1>3
  DEF TypeInv, TypeOK, JobType, AtDefined, RevisionKnown, QueuedIsFresh, Stages

LEMMA WorkType ==
  ASSUME TypeInv, NEW w \in Workers,
         Check(w) \/ Begin(w) \/ Look(w) \/ Settle(w) \/ Fail(w) \/ Crash(w)
  PROVE  TypeInv'
<1>1. UNCHANGED <<template, status, attempts, leaseId, leaseLeft, waited>>
  BY DEF Check, Begin, Look, Settle, Fail, Crash, jobs
<1>2. answers' \in [Incidents -> [Revisions -> Nat]]
  <2>1. CASE Settle(w)
    BY <2>1 DEF Settle, TypeInv, TypeOK, AtDefined, RevisionKnown
  <2>2. CASE ~Settle(w)
    BY <2>2 DEF Check, Begin, Look, Fail, Crash, TypeInv, TypeOK
  <2>3. QED BY <2>1, <2>2
<1>3. /\ pc' \in [Workers -> Stages] /\ at' \in [Workers -> Incidents \cup {None}]
      /\ revision' \in [Workers -> Revisions \cup {None}]
      /\ outcome' \in [Workers -> {"explained", "failed"}]
  BY DEF Check, Begin, Look, Settle, Fail, Crash, Report, Goto, TypeInv, TypeOK,
     AtDefined, Stages
<1>4. AtDefined' /\ RevisionKnown'
  BY DEF Check, Begin, Look, Settle, Fail, Crash, Report, Goto, TypeInv, TypeOK,
     AtDefined, RevisionKnown
<1>5. QED BY <1>1, <1>2, <1>3, <1>4 DEF TypeInv, TypeOK, JobType, QueuedIsFresh

LEMMA DropGuidanceType ==
  ASSUME TypeInv, NEW i \in Incidents, RefreshGuidance(i) \/ Delete(i)
  PROVE  TypeInv'
<1>1. template' \in [Incidents -> Revisions \cup {None}]
  BY LimitAssumption, IncidentAssumption
  DEF RefreshGuidance, Delete, TypeInv, TypeOK, Revisions
<1>2. 0 \in 0..MaxAttempts /\ 0 \in 0..Lease /\ 0 \in 0..(QueueWait + 1)
  BY LimitAssumption
<1>3. DropGuidance(i) BY DEF RefreshGuidance, Delete
<1>4. answers' \in [Incidents -> [Revisions -> Nat]]
  BY <1>3 DEF DropGuidance, TypeInv, TypeOK, Unanswered
<1>5. JobType'
  BY <1>2, <1>3 DEF DropGuidance, TypeInv, TypeOK, JobType, Statuses
<1>6. QueuedIsFresh'
  BY <1>3 DEF DropGuidance, TypeInv, TypeOK, JobType, QueuedIsFresh
<1>7. UNCHANGED <<pc, at, revision, outcome>>
  BY <1>3 DEF DropGuidance
<1>8. QED BY <1>1, <1>4, <1>5, <1>6, <1>7 DEF TypeInv, TypeOK, AtDefined, RevisionKnown

LEMMA TickType ==
  ASSUME TypeInv, Tick
  PROVE  TypeInv'
<1>1. \A n \in 0..Lease : Shorter(n) \in 0..Lease
  BY LimitAssumption DEF Shorter
<1>2. \A n \in 0..(QueueWait + 1) : Older(n) \in 0..(QueueWait + 1)
  BY LimitAssumption DEF Older
<1>3. QED
  BY <1>1, <1>2
  DEF Tick, TypeInv, TypeOK, JobType, AtDefined, RevisionKnown, QueuedIsFresh

LEMMA NextType == TypeInv /\ [Next]_vars => TypeInv'
<1> SUFFICES ASSUME TypeInv, [Next]_vars PROVE TypeInv'
  OBVIOUS
<1>1. CASE UNCHANGED vars
  BY <1>1 DEF vars, jobs, TypeInv, TypeOK, JobType, AtDefined, RevisionKnown, QueuedIsFresh
<1>2. QED
  BY <1>1, ExpireTenantType, EnqueueType, ClaimType, FinishType, WorkType,
     DropGuidanceType, TickType
  DEF Next, WorkerStep

LEMMA TypesHold == Spec => []TypeInv
  BY InitType, NextType, PTL DEF Spec

(* Every variable keeps its type; in particular no job is claimed more than *)
(* MaxAttempts times.                                                       *)
THEOREM TypeCorrect == Spec => []TypeOK
  BY TypesHold, PTL DEF TypeInv

-----------------------------------------------------------------------------
(* Model explanations: only Settle adds one, to a template that has none. *)

AnswersInv == AnswersAreCurrent /\ AnsweredOnce

LEMMA AnswersStep ==
  ASSUME TypeInv, [Next]_vars
  PROVE  \/ answers' = answers /\ template' = template
         \/ \E w \in Workers : Settle(w)
         \/ \E i \in Incidents : RefreshGuidance(i) \/ Delete(i)
  BY DEF Next, WorkerStep, vars, Claim, Check, Begin, Look, Fail, Finish, Crash,
     Enqueue, ExpireTenant, Tick

LEMMA SettleAnswers ==
  ASSUME TypeInv, AnswersInv, NEW w \in Workers, Settle(w)
  PROVE  AnswersInv'
<1>1. template' = template /\ at[w] \in Incidents /\ revision[w] \in Revisions
  BY DEF Settle, TypeInv, AtDefined, RevisionKnown
<1>2. CASE answers' = answers
  BY <1>1, <1>2 DEF AnswersInv, AnswersAreCurrent, AnsweredOnce
<1>3. CASE Stands(w) /\ answers' = [answers EXCEPT ![at[w]][revision[w]] = @ + 1]
  <2>1. \A r \in Revisions : answers[at[w]][r] = 0
    BY <1>1, <1>3 DEF Stands, Explained, TypeInv, TypeOK
  <2>2. \A i \in Incidents, r \in Revisions :
          answers'[i][r] = IF i = at[w] /\ r = revision[w] THEN 1 ELSE answers[i][r]
    BY <1>1, <1>3, <2>1 DEF TypeInv, TypeOK
  <2>3. QED
    BY <1>1, <1>3, <2>2 DEF AnswersInv, AnswersAreCurrent, AnsweredOnce, Stands
<1>4. QED BY <1>2, <1>3 DEF Settle

LEMMA DropAnswers ==
  ASSUME TypeInv, AnswersInv, NEW i \in Incidents, RefreshGuidance(i) \/ Delete(i)
  PROVE  AnswersInv'
<1>1. \A k \in Incidents, r \in Revisions :
        answers'[k][r] = IF k = i THEN 0 ELSE answers[k][r]
  BY DEF RefreshGuidance, Delete, DropGuidance, Unanswered, TypeInv, TypeOK
<1>2. \A k \in Incidents : k # i => template'[k] = template[k]
  BY DEF RefreshGuidance, Delete, TypeInv, TypeOK
<1>3. QED BY <1>1, <1>2 DEF AnswersInv, AnswersAreCurrent, AnsweredOnce

LEMMA AnswersHold == Spec => []AnswersInv
<1>1. Init => AnswersInv
  BY DEF Init, AnswersInv, AnswersAreCurrent, AnsweredOnce, Unanswered
<1>2. TypeInv /\ AnswersInv /\ [Next]_vars => AnswersInv'
  BY AnswersStep, SettleAnswers, DropAnswers
  DEF AnswersInv, AnswersAreCurrent, AnsweredOnce
<1>3. QED BY <1>1, <1>2, TypesHold, PTL DEF Spec

(* No model explanation outlives the template it was generated from, for any *)
(* number of workers, crashes and refreshes.                                 *)
THEOREM StaleAnswersDiscarded == Spec => []AnswersAreCurrent
  BY AnswersHold, PTL DEF AnswersInv

(* No template is answered twice, whatever leases expire. *)
THEOREM OneAnswer == Spec => []AnsweredOnce
  BY AnswersHold, PTL DEF AnswersInv

-----------------------------------------------------------------------------
(* Success: what a worker is about to report holds while it holds the lease,  *)
(* because whatever deletes an explanation takes the job, and its lease, away. *)

ReportIsTrue ==
  \A w \in Workers :
    pc[w] = "finishing" /\ outcome[w] = "explained" /\ HoldsLease(w) => Explained(at[w])

SuccessInv == SucceededIsExplained /\ ReportIsTrue

LEMMA ExpireKeeps ==
  ASSUME TypeInv, SuccessInv, NEW t, ExpireTenant(t)
  PROVE  SuccessInv'
<1>1. \A k \in Incidents : status'[k] = "succeeded" => status[k] = "succeeded"
  BY DEF ExpireTenant, Expire, TypeInv, TypeOK, JobType
<1>2. UNCHANGED <<answers, leaseId, pc, at, outcome>>
  BY DEF ExpireTenant, lease
<1>3. QED
  BY <1>1, <1>2
  DEF SuccessInv, SucceededIsExplained, ReportIsTrue, HoldsLease, Explained

LEMMA EnqueueKeeps ==
  ASSUME TypeInv, SuccessInv, NEW i \in Incidents, Enqueue(i)
  PROVE  SuccessInv'
<1> DEFINE now == Expire(Incidents)
<1>1. \A k \in Incidents : now[k] = "succeeded" => status[k] = "succeeded"
  BY DEF Expire
<1>2. status' \in {now, [now EXCEPT ![i] = "queued"]}
  BY DEF Enqueue
<1>3. \A k \in Incidents : status'[k] = "succeeded" => status[k] = "succeeded"
  BY <1>1, <1>2 DEF Expire
<1>4. \A k \in Incidents, w \in Workers : leaseId'[k] = w => leaseId[k] = w
  BY IncidentAssumption DEF Enqueue, lease, TypeInv, TypeOK, JobType
<1>5. UNCHANGED <<answers, pc, at, outcome>>
  BY DEF Enqueue
<1>6. QED
  BY <1>3, <1>4, <1>5
  DEF SuccessInv, SucceededIsExplained, ReportIsTrue, HoldsLease, Explained, TypeInv,
      AtDefined

LEMMA ClaimKeeps ==
  ASSUME TypeInv, SuccessInv, NEW w \in Workers, Claim(w)
  PROVE  SuccessInv'
<1> DEFINE now == Expire(Incidents)
<1>1. \A k \in Incidents : now[k] = "succeeded" => status[k] = "succeeded"
  BY DEF Expire
<1>2. answers' = answers /\ outcome' = outcome BY DEF Claim
<1>3. CASE status' = now /\ UNCHANGED <<attempts, lease, pc, at, revision>>
  BY <1>1, <1>2, <1>3
  DEF SuccessInv, SucceededIsExplained, ReportIsTrue, HoldsLease, Explained, lease
<1>4. ASSUME NEW i \in Incidents,
             /\ status' = [now EXCEPT ![i] = "running"]
             /\ leaseId' = [leaseId EXCEPT ![i] = w]
             /\ at' = [at EXCEPT ![w] = i]
             /\ Goto(w, "claimed")
      PROVE  SuccessInv'
  <2>1. \A k \in Incidents : status'[k] = "succeeded" => status[k] = "succeeded"
    BY <1>1, <1>4 DEF Expire
  <2>2. SucceededIsExplained'
    BY <1>2, <2>1 DEF SuccessInv, SucceededIsExplained, Explained
  <2>3. ASSUME NEW v \in Workers, pc'[v] = "finishing", outcome'[v] = "explained",
               leaseId'[at'[v]] = v
        PROVE  Explained(at[v]) /\ at'[v] = at[v]
    <3>1. v # w BY <1>4, <2>3 DEF Goto, TypeInv, TypeOK
    <3>2. pc[v] = "finishing" /\ at'[v] = at[v] /\ at[v] \in Incidents
      BY <1>4, <2>3, <3>1 DEF Goto, TypeInv, TypeOK, AtDefined
    <3>3. leaseId[at[v]] = v
      BY <1>4, <2>3, <3>1, <3>2 DEF TypeInv, TypeOK, JobType
    <3>4. QED
      BY <1>2, <2>3, <3>2, <3>3 DEF SuccessInv, ReportIsTrue, HoldsLease
  <2>4. ReportIsTrue'
    BY <1>2, <2>3 DEF ReportIsTrue, HoldsLease, Explained
  <2>5. QED BY <2>2, <2>4 DEF SuccessInv
<1>5. QED BY <1>3, <1>4 DEF Claim

LEMMA WorkKeeps ==
  ASSUME TypeInv, SuccessInv, NEW w \in Workers,
         Check(w) \/ Begin(w) \/ Look(w) \/ Settle(w) \/ Fail(w) \/ Crash(w)
  PROVE  SuccessInv'
<1>1. UNCHANGED <<status, leaseId>>
  BY DEF Check, Begin, Look, Settle, Fail, Crash, jobs
<1>2. \A k \in Incidents : Explained(k) => Explained(k)'
  <2>1. CASE Settle(w)
    <3>1. at[w] \in Incidents /\ revision[w] \in Revisions
      BY <2>1 DEF Settle, TypeInv, AtDefined, RevisionKnown
    <3>2. \A k \in Incidents, r \in Revisions : answers'[k][r] >= answers[k][r]
      BY <2>1, <3>1 DEF Settle, TypeInv, TypeOK
    <3>3. answers' \in [Incidents -> [Revisions -> Nat]]
      BY NextType, <2>1 DEF Next, WorkerStep, TypeInv, TypeOK
    <3>4. QED BY <3>2, <3>3 DEF Explained, TypeInv, TypeOK
  <2>2. CASE ~Settle(w)
    BY <2>2 DEF Check, Begin, Look, Fail, Crash, Explained
  <2>3. QED BY <2>1, <2>2
<1>3. SucceededIsExplained'
  BY <1>1, <1>2 DEF SuccessInv, SucceededIsExplained
<1>4. \A v \in Workers \ {w} : pc'[v] = pc[v] /\ at'[v] = at[v] /\ outcome'[v] = outcome[v]
  BY DEF Check, Begin, Look, Settle, Fail, Crash, Report, Goto, TypeInv, TypeOK
<1>5. \A v \in Workers \ {w} :
        pc'[v] = "finishing" /\ outcome'[v] = "explained" /\ leaseId'[at'[v]] = v
          => Explained(at[v])'
  BY <1>1, <1>2, <1>4
  DEF SuccessInv, ReportIsTrue, HoldsLease, TypeInv, AtDefined
<1>6. pc'[w] = "finishing" /\ outcome'[w] = "explained" => at'[w] = at[w] /\ Explained(at[w])'
  <2>1. CASE Settle(w)
    <3>1. at[w] \in Incidents /\ revision[w] \in Revisions
      BY <2>1 DEF Settle, TypeInv, AtDefined, RevisionKnown
    <3>2. CASE answers' = [answers EXCEPT ![at[w]][revision[w]] = @ + 1]
      <4>1. answers'[at[w]][revision[w]] = answers[at[w]][revision[w]] + 1
        BY <3>1, <3>2 DEF TypeInv, TypeOK
      <4>2. answers[at[w]][revision[w]] \in Nat
        BY <3>1 DEF TypeInv, TypeOK
      <4>3. answers'[at[w]][revision[w]] > 0 BY <4>1, <4>2
      <4>4. Explained(at[w])'
        BY <2>1, <3>1, <4>3 DEF Explained, Settle
      <4>5. QED BY <2>1, <4>4 DEF Settle
    <3>3. CASE Report(w, "failed")
      BY <3>3 DEF Report, TypeInv, TypeOK
    <3>4. QED BY <2>1, <3>2, <3>3 DEF Settle
  <2>2. CASE Look(w)
    BY <2>2 DEF Look, Report, TypeInv, TypeOK, Explained
  <2>3. CASE Check(w) \/ Begin(w) \/ Fail(w) \/ Crash(w)
    BY <2>3 DEF Check, Begin, Fail, Crash, Report, Goto, TypeInv, TypeOK
  <2>4. QED BY <2>1, <2>2, <2>3
<1>7. ReportIsTrue'
  BY <1>4, <1>5, <1>6 DEF ReportIsTrue, HoldsLease, Explained
<1>8. QED BY <1>3, <1>7 DEF SuccessInv

LEMMA FinishKeeps ==
  ASSUME TypeInv, SuccessInv, NEW w \in Workers, Finish(w)
  PROVE  SuccessInv'
<1>1. answers' = answers /\ at[w] \in Incidents /\ pc[w] = "finishing"
  BY DEF Finish, TypeInv, AtDefined
<1>2. SucceededIsExplained'
  <2> SUFFICES ASSUME NEW k \in Incidents, status'[k] = "succeeded", status[k] # "succeeded"
               PROVE  Explained(k)
    BY <1>1 DEF SuccessInv, SucceededIsExplained, Explained
  <2>1. k = at[w] /\ HoldsLease(w) /\ outcome[w] = "explained"
    BY DEF Finish, TypeInv, TypeOK, JobType
  <2>2. QED BY <1>1, <2>1 DEF SuccessInv, ReportIsTrue
<1>3. pc'[w] = "idle" /\ \A v \in Workers \ {w} :
        pc'[v] = pc[v] /\ at'[v] = at[v] /\ outcome'[v] = outcome[v]
  BY DEF Finish, Goto, TypeInv, TypeOK
<1>4. \A k \in Incidents, v \in Workers : leaseId'[k] = v => leaseId[k] = v
  BY <1>1, IncidentAssumption DEF Finish, lease, TypeInv, TypeOK, JobType
<1>5. ReportIsTrue'
  BY <1>1, <1>3, <1>4
  DEF SuccessInv, ReportIsTrue, HoldsLease, Explained, TypeInv, AtDefined
<1>6. QED BY <1>2, <1>5 DEF SuccessInv

LEMMA DropKeeps ==
  ASSUME TypeInv, SuccessInv, NEW i \in Incidents, RefreshGuidance(i) \/ Delete(i)
  PROVE  SuccessInv'
<1>1. DropGuidance(i) BY DEF RefreshGuidance, Delete
<1>2. status'[i] # "succeeded" /\ leaseId'[i] = None
  BY <1>1 DEF DropGuidance, TypeInv, TypeOK, JobType
<1>3. \A k \in Incidents \ {i} :
        status'[k] = status[k] /\ leaseId'[k] = leaseId[k] /\ answers'[k] = answers[k]
  BY <1>1 DEF DropGuidance, TypeInv, TypeOK, JobType
<1>4. UNCHANGED <<pc, at, outcome>> BY <1>1 DEF DropGuidance
<1>5. SucceededIsExplained'
  BY <1>2, <1>3 DEF SuccessInv, SucceededIsExplained, Explained
<1>6. \A w \in Workers : w # None BY IncidentAssumption
<1>7. ReportIsTrue'
  BY <1>2, <1>3, <1>4, <1>6
  DEF SuccessInv, ReportIsTrue, HoldsLease, Explained, TypeInv, AtDefined
<1>8. QED BY <1>5, <1>7 DEF SuccessInv

LEMMA SuccessStep ==
  ASSUME TypeInv, SuccessInv, [Next]_vars
  PROVE  SuccessInv'
<1>1. CASE Tick \/ UNCHANGED vars
  BY <1>1
  DEF Tick, vars, jobs, SuccessInv, SucceededIsExplained, ReportIsTrue, HoldsLease, Explained
<1>2. QED
  BY <1>1, ExpireKeeps, EnqueueKeeps, ClaimKeeps, WorkKeeps, FinishKeeps, DropKeeps
  DEF Next, WorkerStep

(* A job is never reported as succeeded without an explanation that stands. *)
THEOREM SuccessIsReal == Spec => []SucceededIsExplained
<1>1. Init => SuccessInv
  BY DEF Init, SuccessInv, SucceededIsExplained, ReportIsTrue
<1>2. QED BY <1>1, SuccessStep, TypesHold, PTL DEF Spec, SuccessInv

-----------------------------------------------------------------------------
(* Limits: only Enqueue makes a job active, and it counts first. *)

TenantActive(t) == {i \in Active : TenantOf[i] = t}

LEMMA FewerActive ==
  ASSUME NEW S, NEW T, IsFiniteSet(T), S \subseteq T
  PROVE  IsFiniteSet(S) /\ Cardinality(S) <= Cardinality(T)
  BY FS_Subset

LEMMA ActiveFinite ==
  /\ IsFiniteSet(Active) /\ Cardinality(Active) \in Nat
  /\ \A t : IsFiniteSet(TenantActive(t)) /\ Cardinality(TenantActive(t)) \in Nat
<1>1. Active \subseteq Incidents /\ \A t : TenantActive(t) \subseteq Incidents
  BY DEF Active, TenantActive
<1>2. QED BY <1>1, FS_Subset, FS_CardinalityType, IncidentAssumption

LEMMA NobodyJoins ==
  ASSUME QueueBounded,
         \A k \in Incidents : IsActive(status'[k]) => IsActive(status[k])
  PROVE  QueueBounded'
<1>1. Active' \subseteq Active
  BY DEF Active
<1>2. Cardinality(Active') <= Cardinality(Active) /\ Cardinality(Active') \in Nat
  BY <1>1, ActiveFinite, FewerActive, FS_CardinalityType
<1>3. ASSUME NEW t \in Tenants
      PROVE  Cardinality(TenantActive(t)') <= TenantLimit
  <2>1. TenantActive(t)' \subseteq TenantActive(t)
    BY <1>1 DEF TenantActive
  <2>2. /\ Cardinality(TenantActive(t)') <= Cardinality(TenantActive(t))
        /\ Cardinality(TenantActive(t)') \in Nat
    BY <2>1, ActiveFinite, FewerActive, FS_CardinalityType
  <2>3. Cardinality(TenantActive(t)) <= TenantLimit
    BY DEF QueueBounded, TenantActive
  <2>4. QED BY <2>2, <2>3, ActiveFinite, LimitAssumption
<1>4. QED
  BY <1>2, <1>3, ActiveFinite, LimitAssumption DEF QueueBounded, TenantActive

LEMMA OneJoins ==
  ASSUME NEW S, NEW i, NEW limit \in Nat, IsFiniteSet(S), Cardinality(S) < limit
  PROVE  IsFiniteSet(S \cup {i}) /\ Cardinality(S \cup {i}) <= limit
<1>1. Cardinality(S) \in Nat
  BY FS_CardinalityType
<1>2. /\ IsFiniteSet(S \cup {i})
      /\ Cardinality(S \cup {i}) = IF i \in S THEN Cardinality(S) ELSE Cardinality(S) + 1
  BY FS_AddElement
<1>3. QED BY <1>1, <1>2

LEMMA EnqueueBounded ==
  ASSUME TypeInv, QueueBounded, NEW i \in Incidents, Enqueue(i)
  PROVE  QueueBounded'
<1> DEFINE now == Expire(Incidents)
           left == {k \in Incidents : IsActive(now[k])}
           mine(t) == {k \in left : TenantOf[k] = t}
<1>1. /\ now \in [Incidents -> Statuses]
      /\ \A k \in Incidents : IsActive(now[k]) => IsActive(status[k])
  BY ExpireType DEF IsActive
<1>2. CASE IsActive(now[i])
  <2>1. status' = now BY <1>2 DEF Enqueue
  <2>2. QED BY <1>1, <2>1, NobodyJoins
<1>3. CASE ~IsActive(now[i])
  <2>1. HasRoom(i, left) /\ status' = [now EXCEPT ![i] = "queued"]
    BY <1>3 DEF Enqueue
  <2>2. Active' \subseteq left \cup {i}
    BY <1>1, <2>1 DEF Active
  <2>3. left \subseteq Active
    BY <1>1 DEF Active
  <2>4. /\ IsFiniteSet(left) /\ Cardinality(left) < QueueLimit
        /\ Cardinality(mine(TenantOf[i])) < TenantLimit
    BY <2>1, <2>3, ActiveFinite, FewerActive DEF HasRoom
  <2>5. Cardinality(Active') <= QueueLimit
    <3>1. /\ IsFiniteSet(left \cup {i})
          /\ Cardinality(left \cup {i}) <= QueueLimit
      BY <2>4, OneJoins, LimitAssumption
    <3>2. Cardinality(Active') <= Cardinality(left \cup {i}) /\ IsFiniteSet(Active')
      BY <2>2, <3>1, FewerActive
    <3>3. QED BY <3>1, <3>2, FS_CardinalityType, LimitAssumption
  <2>6. ASSUME NEW t \in Tenants
        PROVE  Cardinality(TenantActive(t)') <= TenantLimit
    <3>1. CASE t = TenantOf[i]
      <4>1. TenantActive(t)' \subseteq mine(t) \cup {i}
        BY <2>2 DEF TenantActive
      <4>2. IsFiniteSet(mine(t))
        BY <2>4, FS_Subset
      <4>3. /\ IsFiniteSet(mine(t) \cup {i})
            /\ Cardinality(mine(t) \cup {i}) <= TenantLimit
        BY <2>4, <3>1, <4>2, OneJoins, LimitAssumption
      <4>4. /\ Cardinality(TenantActive(t)') <= Cardinality(mine(t) \cup {i})
            /\ IsFiniteSet(TenantActive(t)')
        BY <4>1, <4>3, FewerActive
      <4>5. QED BY <4>3, <4>4, FS_CardinalityType, LimitAssumption
    <3>2. CASE t # TenantOf[i]
      <4>1. TenantActive(t)' \subseteq TenantActive(t)
        BY <2>2, <2>3, <3>2 DEF TenantActive
      <4>2. /\ Cardinality(TenantActive(t)') <= Cardinality(TenantActive(t))
            /\ IsFiniteSet(TenantActive(t)')
        BY <4>1, ActiveFinite, FewerActive
      <4>3. Cardinality(TenantActive(t)) <= TenantLimit
        BY DEF QueueBounded, TenantActive
      <4>4. QED
        BY <4>2, <4>3, ActiveFinite, FS_CardinalityType, LimitAssumption
    <3>3. QED BY <3>1, <3>2
  <2>7. QED BY <2>5, <2>6 DEF QueueBounded, TenantActive
<1>4. QED BY <1>2, <1>3

LEMMA OthersBounded ==
  ASSUME TypeInv, QueueBounded, [Next]_vars, ~\E i \in Incidents : Enqueue(i)
  PROVE  QueueBounded'
<1>1. ASSUME NEW S, NEW k \in Incidents, IsActive(Expire(S)[k])
      PROVE  IsActive(status[k])
  BY <1>1, ExpireType DEF IsActive
<1>2. ASSUME NEW w \in Workers, Claim(w), NEW k \in Incidents, IsActive(status'[k])
      PROVE  IsActive(status[k])
  <2> DEFINE now == Expire(Incidents)
  <2>1. now \in [Incidents -> Statuses] BY ExpireType
  <2>2. \/ status' = now
        \/ \E i \in Incidents : /\ Claimable(i, now)
                                /\ status' = [now EXCEPT ![i] = "running"]
    BY <1>2 DEF Claim
  <2>3. IsActive(now[k])
    BY <1>2, <2>1, <2>2 DEF Claimable, IsActive
  <2>4. QED BY <1>1, <2>3
<1>3. ASSUME NEW w \in Workers, Finish(w), NEW k \in Incidents, IsActive(status'[k])
      PROVE  IsActive(status[k])
  BY <1>3 DEF Finish, TypeInv, TypeOK, JobType, IsActive
<1>4. ASSUME NEW i \in Incidents, RefreshGuidance(i) \/ Delete(i),
             NEW k \in Incidents, IsActive(status'[k])
      PROVE  IsActive(status[k])
  BY <1>4 DEF RefreshGuidance, Delete, DropGuidance, TypeInv, TypeOK, JobType, IsActive
<1>5. ASSUME NEW t \in Tenants, ExpireTenant(t), NEW k \in Incidents, IsActive(status'[k])
      PROVE  IsActive(status[k])
  BY <1>1, <1>5 DEF ExpireTenant
<1>6. ASSUME NEW w \in Workers,
             Check(w) \/ Begin(w) \/ Look(w) \/ Settle(w) \/ Fail(w) \/ Crash(w)
      PROVE  status' = status
  BY <1>6 DEF Check, Begin, Look, Settle, Fail, Crash, jobs
<1>7. Tick \/ UNCHANGED vars => status' = status
  BY DEF Tick, vars, jobs
<1>8. \A k \in Incidents : IsActive(status'[k]) => IsActive(status[k])
  BY <1>2, <1>3, <1>4, <1>5, <1>6, <1>7 DEF Next, WorkerStep
<1>9. QED BY <1>8, NobodyJoins

(* The service never has more active explanation jobs than its limits allow, *)
(* in all and for each workspace.                                            *)
THEOREM QueueBounds == Spec => []QueueBounded
<1>1. Init => QueueBounded
  <2> SUFFICES ASSUME Init PROVE QueueBounded
    OBVIOUS
  <2>1. Active = {} BY DEF Init, Active, IsActive
  <2>2. QED BY <2>1, FS_EmptySet, LimitAssumption DEF QueueBounded
<1>2. TypeInv /\ QueueBounded /\ [Next]_vars => QueueBounded'
  BY EnqueueBounded, OthersBounded
<1>3. QED BY <1>1, <1>2, TypesHold, PTL DEF Spec
-----------------------------------------------------------------------------
(* Explanations implements GuidanceLifecycle.  A lease belongs to a job that was *)
(* claimed and has not succeeded, so that a late report finds no success.        *)

LeaseIsClaimed ==
  \A i \in Incidents : leaseId[i] # None => status[i] \in {"running", "failed"}

LEMMA ExpireLeases ==
  ASSUME TypeInv, LeaseIsClaimed, NEW S, NEW i \in Incidents, leaseId[i] # None
  PROVE  Expire(S)[i] \in {"running", "failed"}
  BY DEF LeaseIsClaimed, Expire

LEMMA LeaseStep ==
  ASSUME TypeInv, LeaseIsClaimed, [Next]_vars
  PROVE  LeaseIsClaimed'
<1>1. ASSUME NEW t, ExpireTenant(t) PROVE LeaseIsClaimed'
  BY <1>1, ExpireLeases DEF ExpireTenant, lease, LeaseIsClaimed
<1>2. ASSUME NEW i \in Incidents, Enqueue(i) PROVE LeaseIsClaimed'
  <2> DEFINE now == Expire(Incidents)
  <2>1. now \in [Incidents -> Statuses]
    BY ExpireType
  <2>2. CASE status' = now /\ UNCHANGED leaseId
    BY <2>2, ExpireLeases DEF LeaseIsClaimed
  <2>3. CASE /\ status' = [now EXCEPT ![i] = "queued"]
             /\ leaseId' = [leaseId EXCEPT ![i] = None]
    BY <2>1, <2>3, ExpireLeases DEF LeaseIsClaimed, TypeInv, TypeOK, JobType
  <2>4. QED BY <1>2, <2>2, <2>3 DEF Enqueue, lease
<1>3. ASSUME NEW w \in Workers, Claim(w) PROVE LeaseIsClaimed'
  <2> DEFINE now == Expire(Incidents)
  <2>1. now \in [Incidents -> Statuses]
    BY ExpireType
  <2>2. CASE status' = now /\ UNCHANGED leaseId
    BY <2>2, ExpireLeases DEF LeaseIsClaimed
  <2>3. ASSUME NEW i \in Incidents,
               /\ status' = [now EXCEPT ![i] = "running"]
               /\ leaseId' = [leaseId EXCEPT ![i] = w]
        PROVE  LeaseIsClaimed'
    BY <2>1, <2>3, ExpireLeases DEF LeaseIsClaimed, TypeInv, TypeOK, JobType
  <2>4. QED BY <1>3, <2>2, <2>3 DEF Claim, lease
<1>4. ASSUME NEW w \in Workers, Finish(w) PROVE LeaseIsClaimed'
  BY <1>4 DEF Finish, lease, LeaseIsClaimed, TypeInv, TypeOK, JobType
<1>5. ASSUME NEW i \in Incidents, RefreshGuidance(i) \/ Delete(i) PROVE LeaseIsClaimed'
  BY <1>5 DEF RefreshGuidance, Delete, DropGuidance, LeaseIsClaimed, TypeInv, TypeOK, JobType
<1>6. ASSUME NEW w \in Workers,
             Check(w) \/ Begin(w) \/ Look(w) \/ Settle(w) \/ Fail(w) \/ Crash(w)
      PROVE  LeaseIsClaimed'
  BY <1>6 DEF Check, Begin, Look, Settle, Fail, Crash, jobs, LeaseIsClaimed
<1>7. CASE Tick \/ UNCHANGED vars
  BY <1>7 DEF Tick, vars, jobs, LeaseIsClaimed
<1>8. QED
  BY <1>1, <1>2, <1>3, <1>4, <1>5, <1>6, <1>7 DEF Next, WorkerStep

(* What the life cycle sees. *)
AllAnswers == [i \in Incidents |-> AnswersTo(i)]
AllShown == [i \in Incidents |-> Shown(status[i])]

LEMMA Unseen ==
  ASSUME UNCHANGED <<template, answers, status>>
  PROVE  UNCHANGED Lifecycle!vars
  BY DEF Lifecycle!vars, AnswersTo, Shown

LEMMA NoAnswers ==
  ASSUME TypeInv, NEW i \in Incidents
  PROVE  Explained(i) <=> AnswersTo(i) # {}
  BY DEF Explained, AnswersTo

(* Active jobs that fail, or change places in the queue. *)
GivenUp ==
  /\ UNCHANGED <<template, answers>>
  /\ \A i \in Incidents :
       \/ status'[i] = status[i]
       \/ IsActive(status[i]) /\ (IsActive(status'[i]) \/ status'[i] = "failed")

LEMMA GivingUp ==
  ASSUME GivenUp
  PROVE  Lifecycle!Next
<1> DEFINE cs == {i \in Incidents : IsActive(status[i]) /\ status'[i] = "failed"}
<1>1. cs \in SUBSET Lifecycle!Pending
  BY DEF Lifecycle!Pending, Shown
<1>2. \A i \in Incidents : Shown(status'[i]) = IF i \in cs THEN "failed" ELSE Shown(status[i])
  BY DEF GivenUp, Shown, IsActive
<1>3. AllShown' = Lifecycle!Without(cs)
  BY <1>2 DEF Lifecycle!Without, AllShown, Shown
<1>4. AllAnswers' = AllAnswers
  BY DEF GivenUp, AllAnswers, AnswersTo
<1>5. Lifecycle!GiveUp(cs)
  BY <1>3, <1>4 DEF Lifecycle!GiveUp, AllShown, AllAnswers, GivenUp
<1>6. QED BY <1>1, <1>5 DEF Lifecycle!Next

LEMMA Expiring ==
  ASSUME NEW S, NEW i \in Incidents
  PROVE  \/ Expire(S)[i] = status[i]
         \/ IsActive(status[i]) /\ Expire(S)[i] = "failed"
  BY DEF Expire, Stale, IsActive

(* A request for a job that is over: it had not succeeded, as nothing is explained. *)
LEMMA Requesting ==
  ASSUME TypeInv, SuccessInv, NEW i \in Incidents, Enqueue(i)
  PROVE  Lifecycle!Next
<1> DEFINE now == Expire(Incidents)
           cs == {k \in Incidents : IsActive(status[k]) /\ now[k] = "failed"}
<1>0. /\ now \in [Incidents -> Statuses]
      /\ \A k \in Incidents :
           now[k] = status[k] \/ (IsActive(status[k]) /\ now[k] = "failed")
  BY ExpireType, Expiring
<1>1. /\ template[i] # None /\ ~Explained(i)
      /\ UNCHANGED <<template, answers>>
      /\ status' \in {now, [now EXCEPT ![i] = "queued"]}
  BY DEF Enqueue
<1>2. CASE status' = now \/ IsActive(status[i])
  <2>1. GivenUp
    BY <1>0, <1>1, <1>2 DEF GivenUp, IsActive
  <2>2. QED BY <2>1, GivingUp
<1>3. CASE status' = [now EXCEPT ![i] = "queued"] /\ ~IsActive(status[i])
  <2>1. status[i] \in {"absent", "failed"}
    BY <1>1, <1>3 DEF SuccessInv, SucceededIsExplained, TypeInv, TypeOK, JobType,
       Statuses, IsActive
  <2>2. cs \in SUBSET Lifecycle!Pending
    BY DEF Lifecycle!Pending, Shown
  <2>3. \A k \in Incidents :
          Shown(status'[k]) = IF k = i THEN "pending"
                              ELSE IF k \in cs THEN "failed" ELSE Shown(status[k])
    BY <1>0, <1>3 DEF Shown, IsActive
  <2>4. AllShown' = [Lifecycle!Without(cs) EXCEPT ![i] = "pending"]
    BY <2>3 DEF Lifecycle!Without, AllShown, Shown
  <2>5. AllAnswers' = AllAnswers /\ AllAnswers[i] = {}
    BY <1>1, NoAnswers DEF AllAnswers, AnswersTo
  <2>6. AllShown[i] \in {"none", "failed"}
    BY <2>1 DEF AllShown, Shown, IsActive
  <2>7. Lifecycle!Request(i, cs)
    BY <1>1, <2>4, <2>5, <2>6 DEF Lifecycle!Request, AllShown, AllAnswers
  <2>8. QED BY <2>2, <2>7 DEF Lifecycle!Next
<1>4. QED BY <1>1, <1>2, <1>3

LEMMA Claiming ==
  ASSUME TypeInv, NEW w \in Workers, Claim(w)
  PROVE  Lifecycle!Next
<1> DEFINE now == Expire(Incidents)
<1>1. /\ now \in [Incidents -> Statuses]
      /\ \A k \in Incidents :
           now[k] = status[k] \/ (IsActive(status[k]) /\ now[k] = "failed")
  BY ExpireType, Expiring
<1>2. \/ status' = now
      \/ \E i \in Incidents : IsActive(now[i]) /\ status' = [now EXCEPT ![i] = "running"]
  BY DEF Claim, Claimable, IsActive
<1>3. GivenUp
  BY <1>1, <1>2 DEF GivenUp, Claim, IsActive
<1>4. QED BY <1>3, GivingUp

LEMMA Answering ==
  ASSUME TypeInv, NEW w \in Workers, Settle(w)
  PROVE  [Lifecycle!Next]_(Lifecycle!vars)
<1> DEFINE i == at[w]
           r == revision[w]
<1>1. /\ i \in Incidents /\ r \in Revisions /\ template[i] # None
      /\ UNCHANGED <<template, status, at, revision>>
  BY DEF Settle, TypeInv, AtDefined, RevisionKnown, jobs
<1>2. CASE answers' = answers
  BY <1>1, <1>2, Unseen
<1>3. CASE Stands(w) /\ answers' = [answers EXCEPT ![i][r] = @ + 1]
  <2>1. AnswersTo(i) = {} /\ template[i] = r
    BY <1>1, <1>3, NoAnswers DEF Stands
  <2>2. \A k \in Incidents, q \in Revisions :
          answers'[k][q] = IF k = i /\ q = r THEN answers[i][r] + 1 ELSE answers[k][q]
    BY <1>1, <1>3 DEF TypeInv, TypeOK
  <2>3. answers[i][r] + 1 > 0
    BY <1>1 DEF TypeInv, TypeOK
  <2>4. \A k \in Incidents : AnswersTo(k)' = IF k = i THEN {r} ELSE AnswersTo(k)
    <3>1. \A k \in Incidents : k # i => AnswersTo(k)' = AnswersTo(k)
      BY <1>1, <2>2 DEF AnswersTo
    <3>2. AnswersTo(i)' = {r}
      BY <1>1, <2>1, <2>2, <2>3 DEF AnswersTo
    <3>3. QED BY <1>1, <3>1, <3>2
  <2>5. AllAnswers' = [AllAnswers EXCEPT ![i] = {template[i]}]
    BY <2>1, <2>4 DEF AllAnswers
  <2>6. AllAnswers[i] = {} /\ AllShown' = AllShown
    BY <1>1, <2>1 DEF AllAnswers, AllShown, Shown
  <2>7. Lifecycle!Answer(i)
    BY <1>1, <2>5, <2>6 DEF Lifecycle!Answer, AllAnswers, AllShown
  <2>8. QED BY <1>1, <2>7 DEF Lifecycle!Next
<1>4. QED BY <1>2, <1>3 DEF Settle

LEMMA Reporting ==
  ASSUME TypeInv, SuccessInv, LeaseIsClaimed, NEW w \in Workers, Finish(w)
  PROVE  [Lifecycle!Next]_(Lifecycle!vars)
<1> DEFINE i == at[w]
<1>1. i \in Incidents /\ UNCHANGED <<template, answers>>
  BY DEF Finish, TypeInv, AtDefined
<1>2. CASE ~HoldsLease(w)
  BY <1>1, <1>2, Unseen DEF Finish
<1>3. CASE HoldsLease(w)
  <2>1. status[i] \in {"running", "failed"}
    BY <1>1, <1>3, IncidentAssumption DEF HoldsLease, LeaseIsClaimed
  <2>2. CASE outcome[w] = "explained"
    <3>1. AllAnswers' = AllAnswers /\ AllAnswers[i] # {}
      BY <1>1, <1>3, <2>2, NoAnswers
      DEF AllAnswers, AnswersTo, SuccessInv, ReportIsTrue, Finish
    <3>2. \A k \in Incidents : Shown(status'[k]) = IF k = i THEN "succeeded" ELSE Shown(status[k])
      BY <1>1, <1>3, <2>2 DEF Finish, TypeInv, TypeOK, JobType, Shown, IsActive
    <3>3. AllShown' = [AllShown EXCEPT ![i] = "succeeded"]
      BY <3>2 DEF AllShown
    <3>4. AllShown[i] \in {"pending", "failed"}
      BY <1>1, <2>1 DEF AllShown, Shown, IsActive
    <3>5. Lifecycle!Succeed(i)
      BY <1>1, <3>1, <3>3, <3>4 DEF Lifecycle!Succeed, AllAnswers, AllShown
    <3>6. QED BY <1>1, <3>5 DEF Lifecycle!Next
  <2>3. CASE outcome[w] # "explained"
    <3>1. GivenUp
      BY <1>1, <1>3, <2>1, <2>3 DEF Finish, GivenUp, IsActive, TypeInv, TypeOK, JobType
    <3>2. QED BY <3>1, GivingUp
  <2>4. QED BY <2>2, <2>3
<1>4. QED BY <1>2, <1>3

LEMMA Clearing ==
  ASSUME TypeInv, NEW i \in Incidents, RefreshGuidance(i) \/ Delete(i)
  PROVE  Lifecycle!Next
<1>1. template[i] # None /\ DropGuidance(i)
  BY DEF RefreshGuidance, Delete
<1>2. \A k \in Incidents : AnswersTo(k)' = IF k = i THEN {} ELSE AnswersTo(k)
  BY <1>1 DEF DropGuidance, AnswersTo, Unanswered, TypeInv, TypeOK
<1>3. \A k \in Incidents : Shown(status'[k]) = IF k = i THEN "none" ELSE Shown(status[k])
  BY <1>1 DEF DropGuidance, Shown, IsActive, TypeInv, TypeOK, JobType
<1>4. /\ AllAnswers' = [AllAnswers EXCEPT ![i] = {}]
      /\ AllShown' = [AllShown EXCEPT ![i] = "none"]
  BY <1>2, <1>3 DEF AllAnswers, AllShown
<1>5. Lifecycle!Clear(i)
  BY <1>4 DEF Lifecycle!Clear, AllAnswers, AllShown
<1>6. Lifecycle!Replace(i) \/ Lifecycle!Remove(i)
  BY <1>1, <1>5 DEF RefreshGuidance, Delete, Lifecycle!Replace, Lifecycle!Remove
<1>7. QED BY <1>6 DEF Lifecycle!Next

LEMMA GuidanceStep ==
  ASSUME TypeInv, SuccessInv, LeaseIsClaimed, [Next]_vars
  PROVE  [Lifecycle!Next]_(Lifecycle!vars)
<1>1. ASSUME NEW t, ExpireTenant(t) PROVE Lifecycle!Next
  <2>1. GivenUp
    BY <1>1, Expiring DEF ExpireTenant, GivenUp
  <2>2. QED BY <2>1, GivingUp
<1>2. ASSUME NEW w \in Workers, Check(w) \/ Begin(w) \/ Look(w) \/ Fail(w) \/ Crash(w)
      PROVE  UNCHANGED Lifecycle!vars
  <2>1. UNCHANGED <<template, answers, status>>
    BY <1>2 DEF Check, Begin, Look, Fail, Crash, jobs
  <2>2. QED BY <2>1, Unseen
<1>3. CASE Tick \/ UNCHANGED vars
  <2>1. UNCHANGED <<template, answers, status>>
    BY <1>3 DEF Tick, vars, jobs
  <2>2. QED BY <2>1, Unseen
<1>4. QED
  BY <1>1, <1>2, <1>3, Requesting, Claiming, Answering, Reporting, Clearing
  DEF Next, WorkerStep

LEMMA InitGuidance == Init => Lifecycle!Init /\ LeaseIsClaimed
<1> SUFFICES ASSUME Init PROVE Lifecycle!Init /\ LeaseIsClaimed
  OBVIOUS
<1>1. \A i \in Incidents : AnswersTo(i) = {} /\ Shown(status[i]) = "none"
  BY DEF Init, AnswersTo, Unanswered, Shown, IsActive
<1>2. template \in [Incidents -> Nat]
  BY DEF Init
<1>3. QED
  BY <1>1, <1>2 DEF Lifecycle!Init, LeaseIsClaimed, Init

(* The queue implements the guidance's life cycle: whatever jobs wait too long, are *)
(* taken over or asked for again, an answer is added once, to the present guidance, *)
(* a success is reported of an explanation that is there, and neither is taken back *)
(* before the guidance changes.                                                    *)
THEOREM GuidanceKeepsItsLifecycle == Spec => KeepsGuidance
<1>1. Init => SuccessInv
  BY DEF Init, SuccessInv, SucceededIsExplained, ReportIsTrue
<1>2. QED
  BY <1>1, InitGuidance, LeaseStep, GuidanceStep, SuccessStep, TypesHold, PTL
  DEF Spec, KeepsGuidance, Lifecycle!Spec
=============================================================================
