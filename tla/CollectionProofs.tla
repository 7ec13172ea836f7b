-------------------------- MODULE CollectionProofs --------------------------
(* Proofs about Collection, for every value of its constants. *)
EXTENDS Collection, TLAPS, FiniteSetTheorems

-----------------------------------------------------------------------------
(* Types. *)

(* Every process that is doing something works on a source. *)
AtDefined == \A p \in Processes : pc[p] # "idle" => at[p] \in Sources

TypeInv == ScheduleType /\ JobType /\ ProcessType /\ AtDefined

LEMMA BackoffType == \A n : Backoff(n) \in Nat
  BY NumberAssumption DEF Backoff

LEMMA InitType == Init => TypeInv
  BY ProcessAssumption, NumberAssumption
  DEF Init, TypeInv, ScheduleType, JobType, ProcessType, AtDefined, NoSnapshot, Snapshot,
      Jobs, NoJob, JobStates, Stages

LEMMA NoSnapshotType == NoSnapshot \in Snapshot
  BY NumberAssumption DEF NoSnapshot, Snapshot

LEMMA LoadType == ASSUME TypeInv, NEW s \in Sources PROVE Load(s) \in Snapshot
  BY DEF TypeInv, ScheduleType, Load, Snapshot

(* The ways a process moves: to rest, into its failure path, or on to release. *)
LEMMA RestType ==
  ASSUME TypeInv, NEW p \in Processes, Rest(p),
         lock' \in Processes \cup {None}, crashes' \in 0..MaxCrashes
  PROVE  ProcessType' /\ AtDefined'
  BY NumberAssumption
  DEF TypeInv, ProcessType, AtDefined, Rest, Goto, NoSnapshot, Snapshot, NoJob, Stages

LEMMA GotoType ==
  ASSUME TypeInv, NEW p \in Processes, pc[p] # "idle",
         NEW stage \in Stages, Goto(p, stage), UNCHANGED local,
         lock' \in Processes \cup {None}, crashes' \in 0..MaxCrashes
  PROVE  ProcessType' /\ AtDefined'
  BY DEF TypeInv, ProcessType, AtDefined, Goto, local

LEMMA FailType ==
  ASSUME TypeInv, NEW p \in Processes, pc[p] # "idle", NEW stage \in Stages, Fail(p, stage),
         lock' \in Processes \cup {None}, crashes' \in 0..MaxCrashes
  PROVE  ProcessType' /\ AtDefined'
  BY NumberAssumption
  DEF TypeInv, ProcessType, AtDefined, Fail, Goto, NoSnapshot, Snapshot

LEMMA SettleType ==
  ASSUME TypeInv, NEW p \in Processes, pc[p] # "idle", NEW stage \in Stages,
         Settle(p, stage),
         lock' \in Processes \cup {None}, crashes' \in 0..MaxCrashes
  PROVE  ProcessType' /\ AtDefined'
<1>1. CASE p \in Workers
  BY <1>1 DEF TypeInv, ProcessType, AtDefined, Settle, Goto, NoJob
<1>2. CASE p \notin Workers
  BY <1>2, RestType DEF Settle
<1>3. QED BY <1>1, <1>2

LEMMA SetJobType ==
  ASSUME TypeInv, NEW j, NEW state \in JobStates, SetJob(j, state), owner' = owner
  PROVE  JobType'
  BY DEF TypeInv, JobType, SetJob

LEMMA AddJobType ==
  ASSUME TypeInv, NEW j, NEW s \in Sources, NEW trigger \in {"schedule", "user"},
         AddJob(j, s, trigger), owner' = owner
  PROVE  JobType'
  BY DEF TypeInv, JobType, AddJob, JobStates

LEMMA ClearLeaseType ==
  ASSUME TypeInv, NEW s, ClearLease(s)
  PROVE  /\ leaseId' \in [Sources -> Workers \cup {None}]
         /\ leaseLeft' \in [Sources -> (-MaxStall)..Lease]
<1>1. -MaxStall \in (-MaxStall)..Lease
  BY NumberAssumption
<1>2. QED
  BY <1>1 DEF TypeInv, ScheduleType, ClearLease

-----------------------------------------------------------------------------
(* Types are kept by each action. *)

LEMMA PickType ==
  ASSUME TypeInv, NEW p \in Workers, Pick(p)
  PROVE  TypeInv'
  BY ProcessAssumption
  DEF TypeInv, ScheduleType, JobType, ProcessType, AtDefined, Pick, Goto, Schedulable,
      schedule, lease, jobs, Processes, Stages

LEMMA ClaimType ==
  ASSUME TypeInv, NEW p \in Workers, Claim(p)
  PROVE  TypeInv'
<1> p \in Processes BY DEF Processes
<1>1. JobType' BY DEF TypeInv, JobType, Claim, jobs
<1>2. LeaseFrom(age[p]) \in (-MaxStall)..Lease
  BY NumberAssumption DEF LeaseFrom, TypeInv, ProcessType
<1>3. ScheduleType' BY <1>2 DEF TypeInv, ScheduleType, Claim, lease
<1>4. ProcessType' /\ AtDefined'
  <2>1. CASE ClaimEligible(p)
    <3>1. 0 \in 0..MaxStall BY NumberAssumption
    <3>2. /\ pc[p] = "claiming"
          /\ pc' = [pc EXCEPT ![p] = "claimed"]
          /\ age' = [age EXCEPT ![p] = 0]
          /\ UNCHANGED <<at, job, batch, seen, lock, crashes>>
      BY <2>1 DEF Claim, Goto
    <3>3. ProcessType' BY <3>1, <3>2 DEF TypeInv, ProcessType, Stages
    <3>4. AtDefined' BY <3>2 DEF TypeInv, ProcessType, AtDefined
    <3>5. QED BY <3>3, <3>4
  <2>2. CASE ~ClaimEligible(p)
    BY <2>2, RestType DEF Claim, TypeInv, ProcessType
  <2>3. QED BY <2>1, <2>2
<1>5. QED BY <1>1, <1>3, <1>4 DEF TypeInv

LEMMA LoadScheduleType ==
  ASSUME TypeInv, NEW p \in Workers, LoadSchedule(p)
  PROVE  TypeInv'
<1> p \in Processes BY DEF Processes
<1> at[p] \in Sources BY DEF TypeInv, AtDefined, LoadSchedule
<1>1. ScheduleType' BY DEF TypeInv, ScheduleType, LoadSchedule, schedule
<1>2. JobType' BY DEF TypeInv, JobType, LoadSchedule, jobs
<1>3. ProcessType' /\ AtDefined'
  BY LoadType DEF TypeInv, ScheduleType, ProcessType, AtDefined, LoadSchedule, Goto, Stages
<1>5. QED BY <1>1, <1>2, <1>3 DEF TypeInv

LEMMA CheckPreviousType ==
  ASSUME TypeInv, NEW p \in Workers, CheckPrevious(p)
  PROVE  TypeInv'
<1> p \in Processes BY DEF Processes
<1>1. ScheduleType' BY DEF TypeInv, ScheduleType, CheckPrevious, schedule
<1>2. JobType' BY DEF TypeInv, JobType, CheckPrevious, jobs
<1>3. ProcessType' /\ AtDefined'
  BY NoSnapshotType DEF TypeInv, ProcessType, AtDefined, CheckPrevious, Goto, Stages
<1>5. QED BY <1>1, <1>2, <1>3 DEF TypeInv

LEMMA AbandonPreviousType ==
  ASSUME TypeInv, NEW p \in Workers, AbandonPrevious(p)
  PROVE  TypeInv'
<1> p \in Processes BY DEF Processes
<1>1. ScheduleType' BY DEF TypeInv, ScheduleType, AbandonPrevious, schedule
<1>2. JobType' BY SetJobType DEF AbandonPrevious, JobStates
<1>3. ProcessType' /\ AtDefined'
  BY GotoType DEF TypeInv, ProcessType, AbandonPrevious, Stages
<1>5. QED BY <1>1, <1>2, <1>3 DEF TypeInv

LEMMA CreateScheduledType ==
  ASSUME TypeInv, NEW p \in Workers, CreateScheduled(p)
  PROVE  TypeInv'
<1> p \in Processes BY DEF Processes
<1> at[p] \in Sources BY DEF TypeInv, AtDefined, CreateScheduled
<1>1. ScheduleType' BY DEF TypeInv, ScheduleType, CreateScheduled, schedule
<1>2. JobType'
  <2>1. CASE UNCHANGED jobs BY <2>1 DEF TypeInv, JobType, CreateScheduled, jobs
  <2>2. CASE \E j \in Jobs : AddJob(j, at[p], "schedule")
    BY <2>2, AddJobType DEF CreateScheduled
  <2>3. QED BY <2>1, <2>2 DEF CreateScheduled
<1>3. ProcessType' /\ AtDefined'
  BY DEF TypeInv, ProcessType, AtDefined, CreateScheduled, Goto, Stages, NoJob
<1>5. QED BY <1>1, <1>2, <1>3 DEF TypeInv

LEMMA LinkJobType ==
  ASSUME TypeInv, NEW p \in Workers, LinkJob(p)
  PROVE  TypeInv'
<1> p \in Processes BY DEF Processes
<1>1. ScheduleType' BY DEF TypeInv, ScheduleType, ProcessType, LinkJob, lease
<1>2. JobType' BY DEF TypeInv, JobType, LinkJob, jobs
<1>3. ProcessType' /\ AtDefined'
  BY GotoType DEF TypeInv, ProcessType, LinkJob, Stages
<1>5. QED BY <1>1, <1>2, <1>3 DEF TypeInv

LEMMA InvitationWithdrawnType ==
  ASSUME TypeInv, NEW p \in Processes, InvitationWithdrawn(p)
  PROVE  TypeInv'
<1>1. ScheduleType' BY DEF TypeInv, ScheduleType, InvitationWithdrawn, lease
<1>2. JobType' BY DEF TypeInv, JobType, InvitationWithdrawn, jobs
<1>3. ProcessType' /\ AtDefined'
  BY FailType DEF TypeInv, ProcessType, InvitationWithdrawn, Stages
<1>5. QED BY <1>1, <1>2, <1>3 DEF TypeInv

LEMMA FetchType ==
  ASSUME TypeInv, NEW p \in Processes, Fetch(p)
  PROVE  TypeInv'
<1> at[p] \in Sources BY DEF TypeInv, AtDefined, Fetch
<1>1. ScheduleType' BY DEF TypeInv, ScheduleType, Fetch, schedule
<1>2. JobType' BY DEF TypeInv, JobType, Fetch, jobs
<1>3. ProcessType' /\ AtDefined'
  <2>1. CASE Fail(p, "scanFailing") \/ Fail(p, "failing")
    BY <2>1, FailType DEF TypeInv, ProcessType, Fetch, Stages
  <2>2. CASE ~Fail(p, "scanFailing") /\ ~Fail(p, "failing")
    <3>1. Reload(p) \in Snapshot
      BY LoadType DEF Reload, TypeInv, ProcessType
    <3>2. QED
      BY <2>2, <3>1 DEF TypeInv, ProcessType, AtDefined, Fetch, Goto, Stages
  <2>3. QED BY <2>1, <2>2
<1>5. QED BY <1>1, <1>2, <1>3 DEF TypeInv

LEMMA CompleteEmptyType ==
  ASSUME TypeInv, NEW p \in Processes, CompleteEmpty(p)
  PROVE  TypeInv'
<1>1. ScheduleType' BY DEF TypeInv, ScheduleType, CompleteEmpty, schedule
<1>2. JobType' BY SetJobType DEF CompleteEmpty, JobStates
<1>3. ProcessType' /\ AtDefined'
  BY SettleType DEF TypeInv, ProcessType, CompleteEmpty, Stages
<1>5. QED BY <1>1, <1>2, <1>3 DEF TypeInv

LEMMA BeginIngestType ==
  ASSUME TypeInv, NEW p \in Processes, BeginIngest(p)
  PROVE  TypeInv'
<1>1. ScheduleType' BY DEF TypeInv, ScheduleType, BeginIngest, schedule
<1>2. JobType' BY DEF TypeInv, JobType, BeginIngest, jobs
<1>3. ProcessType' /\ AtDefined'
  <2>1. CASE Ingestible(p)
    <3>1. {x[2] : x \in NewSignals(p)} \in SUBSET Messages
      BY DEF NewSignals, TypeInv, ProcessType
    <3>2. QED
      BY <2>1, <3>1 DEF TypeInv, ProcessType, AtDefined, BeginIngest, Goto, Stages
  <2>2. CASE ~Ingestible(p)
    BY <2>2, FailType DEF TypeInv, ProcessType, BeginIngest, AfterIngestError, Stages
  <2>3. QED BY <2>1, <2>2
<1>5. QED BY <1>1, <1>2, <1>3 DEF TypeInv

LEMMA CommitIngestType ==
  ASSUME TypeInv, NEW p \in Processes, CommitIngest(p)
  PROVE  TypeInv'
<1> at[p] \in Sources BY DEF TypeInv, AtDefined, CommitIngest
<1>1. ScheduleType' BY DEF TypeInv, ScheduleType, CommitIngest, schedule
<1>2. JobType'
  <2>1. owner' \in [Sources \X Messages -> Jobs \cup {NoJob, None}]
    BY DEF TypeInv, JobType, ProcessType, CommitIngest
  <2>2. Cardinality({at[p]} \X batch[p]) \in Nat
    <3>1. IsFiniteSet(batch[p])
      BY ProcessAssumption, FS_Subset DEF TypeInv, ProcessType
    <3>2. QED
      BY <3>1, FS_Singleton, FS_Product, FS_CardinalityType
  <2>3. QED
    BY <2>1, <2>2 DEF TypeInv, JobType, CommitIngest, jobs, JobStates
<1>3. ProcessType' /\ AtDefined'
  BY SettleType DEF TypeInv, ProcessType, CommitIngest, Stages
<1>5. QED BY <1>1, <1>2, <1>3 DEF TypeInv

LEMMA AbortIngestType ==
  ASSUME TypeInv, NEW p \in Processes, AbortIngest(p)
  PROVE  TypeInv'
<1>1. ScheduleType' BY DEF TypeInv, ScheduleType, AbortIngest, schedule
<1>2. JobType' BY DEF TypeInv, JobType, AbortIngest, jobs
<1>3. ProcessType' /\ AtDefined'
  BY FailType DEF TypeInv, ProcessType, AbortIngest, AfterIngestError, Stages
<1>5. QED BY <1>1, <1>2, <1>3 DEF TypeInv

LEMMA MarkInScanType ==
  ASSUME TypeInv, NEW p \in Processes, MarkInScan(p)
  PROVE  TypeInv'
<1>1. ScheduleType' BY DEF TypeInv, ScheduleType, MarkInScan, MarkRead, schedule
<1>2. JobType'
  <2>1. CASE UNCHANGED jobs BY <2>1 DEF TypeInv, JobType, MarkInScan, MarkRead, jobs
  <2>2. CASE SetJob(job[p], "failed") BY <2>2, SetJobType DEF MarkInScan, MarkRead, JobStates
  <2>3. QED BY <2>1, <2>2 DEF MarkInScan, MarkRead
<1>3. ProcessType' /\ AtDefined'
  <2>1. CASE AfterScan(p) /\ pc[p] # "idle"
    BY <2>1, GotoType, RestType DEF TypeInv, ProcessType, MarkInScan, MarkRead, AfterScan, Stages
  <2>2. CASE MarkRead(p, "scanMarking") /\ pc[p] # "idle"
    BY <2>2, GotoType DEF TypeInv, ProcessType, MarkRead, Stages
  <2>3. QED BY <2>1, <2>2 DEF MarkInScan
<1>5. QED BY <1>1, <1>2, <1>3 DEF TypeInv

LEMMA MarkInCallerType ==
  ASSUME TypeInv, NEW p \in Processes, MarkInCaller(p)
  PROVE  TypeInv'
<1>1. ScheduleType' BY DEF TypeInv, ScheduleType, MarkInCaller, MarkRead, schedule
<1>2. JobType'
  <2>1. CASE UNCHANGED jobs BY <2>1 DEF TypeInv, JobType, MarkInCaller, MarkRead, jobs
  <2>2. CASE SetJob(job[p], "failed") BY <2>2, SetJobType DEF MarkInCaller, MarkRead, JobStates
  <2>3. QED BY <2>1, <2>2 DEF MarkInCaller, MarkRead
<1>3. ProcessType' /\ AtDefined'
  <2>1. CASE Settle(p, "failed") /\ pc[p] # "idle"
    BY <2>1, SettleType DEF TypeInv, ProcessType, MarkInCaller, MarkRead, Stages
  <2>2. CASE MarkRead(p, "marking") /\ pc[p] # "idle"
    BY <2>2, GotoType DEF TypeInv, ProcessType, MarkRead, Stages
  <2>3. QED BY <2>1, <2>2 DEF MarkInCaller
<1>5. QED BY <1>1, <1>2, <1>3 DEF TypeInv

LEMMA FindLeaseType ==
  ASSUME TypeInv, NEW p \in Workers, FindLease(p)
  PROVE  TypeInv'
<1> p \in Processes BY DEF Processes
<1> at[p] \in Sources BY DEF TypeInv, AtDefined, FindLease
<1>1. ScheduleType' BY DEF TypeInv, ScheduleType, FindLease, schedule
<1>2. JobType' BY DEF TypeInv, JobType, FindLease, jobs
<1>3. ProcessType' /\ AtDefined'
  <2>1. CASE Rest(p)
    BY <2>1, RestType DEF TypeInv, ProcessType, FindLease
  <2>2. CASE ~Rest(p)
    BY <2>2, LoadType
    DEF TypeInv, ProcessType, AtDefined, FindLease, Goto, local, Stages
  <2>3. QED BY <2>1, <2>2
<1>5. QED BY <1>1, <1>2, <1>3 DEF TypeInv

LEMMA ReleaseSuccessType ==
  ASSUME TypeInv, NEW p \in Workers, ReleaseSuccess(p)
  PROVE  TypeInv'
<1> p \in Processes BY DEF Processes
<1>1. ScheduleType'
  <2>1. seen[p].interval \in {t \in Int : t >= -MaxStall}
    BY NumberAssumption DEF TypeInv, ProcessType, Snapshot
  <2>2. QED
    <3>1. nextRun' \in [Sources -> {t \in Int : t >= -MaxStall}]
      <4>1. nextRun \in [Sources -> {t \in Int : t >= -MaxStall}]
        BY DEF TypeInv, ScheduleType
      <4>2. nextRun' = [nextRun EXCEPT ![at[p]] = seen[p].interval]
        BY DEF ReleaseSuccess
      <4>3. QED BY <2>1, <4>1, <4>2
    <3>2. failures' \in [Sources -> 0..(MaxFailures + 1)]
      <4>1. 0 \in 0..(MaxFailures + 1) BY NumberAssumption
      <4>2. QED BY <4>1 DEF TypeInv, ScheduleType, ReleaseSuccess
    <3>3. QED
      BY <3>1, <3>2, ClearLeaseType DEF TypeInv, ScheduleType, ReleaseSuccess
<1>2. JobType' BY DEF TypeInv, JobType, ReleaseSuccess, jobs
<1>3. ProcessType' /\ AtDefined'
  BY RestType DEF TypeInv, ProcessType, ReleaseSuccess
<1>5. QED BY <1>1, <1>2, <1>3 DEF TypeInv

LEMMA ReleaseFailureType ==
  ASSUME TypeInv, NEW p \in Workers, ReleaseFailure(p)
  PROVE  TypeInv'
<1> p \in Processes BY DEF Processes
<1>1. ScheduleType'
  <2> DEFINE n == Increment(seen[p].failures)
  <2>1. n \in 0..(MaxFailures + 1)
    BY NumberAssumption DEF TypeInv, ProcessType, Snapshot, Increment, FailureCap
  <2>2. Backoff(n) \in {t \in Int : t >= -MaxStall}
    BY BackoffType, NumberAssumption
  <2> HIDE DEF n
  <2>3. /\ failures' = [failures EXCEPT ![at[p]] = n]
        /\ nextRun' = [nextRun EXCEPT ![at[p]] = Backoff(n)]
        /\ enabled' \in {enabled, [enabled EXCEPT ![at[p]] = FALSE]}
    BY DEF ReleaseFailure, n
  <2>4. QED
    <3>1. nextRun' \in [Sources -> {t \in Int : t >= -MaxStall}]
      <4>1. nextRun \in [Sources -> {t \in Int : t >= -MaxStall}]
        BY DEF TypeInv, ScheduleType
      <4>2. QED BY <2>2, <2>3, <4>1
    <3>2. failures' \in [Sources -> 0..(MaxFailures + 1)]
      BY <2>1, <2>3 DEF TypeInv, ScheduleType
    <3>3. enabled' \in [Sources -> BOOLEAN]
      BY <2>3 DEF TypeInv, ScheduleType
    <3>4. QED
      BY <3>1, <3>2, <3>3, ClearLeaseType DEF TypeInv, ScheduleType, ReleaseFailure
<1>2. JobType' BY DEF TypeInv, JobType, ReleaseFailure, jobs
<1>3. ProcessType' /\ AtDefined'
  BY RestType DEF TypeInv, ProcessType, ReleaseFailure
<1>5. QED BY <1>1, <1>2, <1>3 DEF TypeInv

LEMMA ConfigureType ==
  ASSUME TypeInv, NEW s \in Sources, Configure(s)
  PROVE  TypeInv'
<1>1. ScheduleType'
  BY NumberAssumption DEF TypeInv, ScheduleType, Configure, lease
<1>2. JobType' BY DEF TypeInv, JobType, Configure, jobs
<1>3. ProcessType' /\ AtDefined' BY DEF TypeInv, ProcessType, AtDefined, Configure, local
<1>5. QED BY <1>1, <1>2, <1>3 DEF TypeInv

LEMMA DisconnectType ==
  ASSUME TypeInv, NEW s \in Sources, Disconnect(s)
  PROVE  TypeInv'
<1>1. ScheduleType' BY DEF TypeInv, ScheduleType, Disconnect, lease
<1>2. JobType' BY DEF TypeInv, JobType, Disconnect, jobs
<1>3. ProcessType' /\ AtDefined' BY DEF TypeInv, ProcessType, AtDefined, Disconnect, local
<1>5. QED BY <1>1, <1>2, <1>3 DEF TypeInv

LEMMA ReconnectType ==
  ASSUME TypeInv, NEW s \in Sources, Reconnect(s)
  PROVE  TypeInv'
<1>1. ScheduleType' BY DEF TypeInv, ScheduleType, Reconnect, schedule
<1>2. JobType' BY DEF TypeInv, JobType, Reconnect, jobs
<1>3. ProcessType' /\ AtDefined' BY DEF TypeInv, ProcessType, AtDefined, Reconnect, local
<1>5. QED BY <1>1, <1>2, <1>3 DEF TypeInv

LEMMA RetryType ==
  ASSUME TypeInv, NEW j \in Jobs, Retry(j)
  PROVE  TypeInv'
<1>1. ScheduleType' BY DEF TypeInv, ScheduleType, Retry, schedule
<1>2. JobType' BY SetJobType DEF Retry, JobStates
<1>3. ProcessType' /\ AtDefined' BY DEF TypeInv, ProcessType, AtDefined, Retry, local
<1>5. QED BY <1>1, <1>2, <1>3 DEF TypeInv

LEMMA QueueJobType ==
  ASSUME TypeInv, NEW s \in Sources, QueueJob(s)
  PROVE  TypeInv'
<1>1. ScheduleType' BY DEF TypeInv, ScheduleType, QueueJob, schedule
<1>2. JobType' BY AddJobType DEF QueueJob
<1>3. ProcessType' /\ AtDefined' BY DEF TypeInv, ProcessType, AtDefined, QueueJob, local
<1>5. QED BY <1>1, <1>2, <1>3 DEF TypeInv

LEMMA RequestScanType ==
  ASSUME TypeInv, NEW p \in Requests, NEW s \in Sources, RequestScan(p, s)
  PROVE  TypeInv'
<1> p \in Processes BY DEF Processes
<1>1. ScheduleType' BY DEF TypeInv, ScheduleType, RequestScan, schedule
<1>2. JobType' BY AddJobType DEF RequestScan
<1>3. ProcessType' /\ AtDefined'
  BY DEF TypeInv, ProcessType, AtDefined, RequestScan, Goto, Stages
<1>5. QED BY <1>1, <1>2, <1>3 DEF TypeInv

LEMMA PostSignalsType ==
  ASSUME TypeInv, NEW p \in Requests, NEW s \in Sources, PostSignals(p, s)
  PROVE  TypeInv'
<1> p \in Processes BY DEF Processes
<1>1. ScheduleType' BY DEF TypeInv, ScheduleType, PostSignals, schedule
<1>2. JobType' BY DEF TypeInv, JobType, PostSignals, jobs
<1>3. ProcessType' /\ AtDefined'
  BY DEF TypeInv, ProcessType, AtDefined, PostSignals, Goto, Stages
<1>5. QED BY <1>1, <1>2, <1>3 DEF TypeInv

LEMMA CrashType ==
  ASSUME TypeInv, NEW p \in Processes, Crash(p)
  PROVE  TypeInv'
<1>1. ScheduleType' BY DEF TypeInv, ScheduleType, Crash, schedule
<1>2. JobType' BY DEF TypeInv, JobType, Crash, jobs
<1>3. ProcessType' /\ AtDefined'
  BY RestType, NumberAssumption DEF TypeInv, ProcessType, Crash
<1>5. QED BY <1>1, <1>2, <1>3 DEF TypeInv

LEMMA TickType ==
  ASSUME TypeInv, Tick
  PROVE  TypeInv'
<1>1. ScheduleType'
  BY NumberAssumption DEF TypeInv, ScheduleType, Tick, Later
<1>2. JobType' BY DEF TypeInv, JobType, Tick, jobs
<1>3. ProcessType' /\ AtDefined'
  BY NumberAssumption DEF TypeInv, ProcessType, AtDefined, Tick
<1>5. QED BY <1>1, <1>2, <1>3 DEF TypeInv


-----------------------------------------------------------------------------
(* Types hold in every state; the other invariants are proved beside them.  *)

LEMMA NextType == TypeInv /\ [Next]_vars => TypeInv'
<1> SUFFICES ASSUME TypeInv, [Next]_vars PROVE TypeInv'
  OBVIOUS
<1>1. ASSUME NEW p \in Workers, WorkerStep(p) PROVE TypeInv'
  BY <1>1, PickType, ClaimType, LoadScheduleType, CheckPreviousType, AbandonPreviousType,
     CreateScheduledType, LinkJobType, FindLeaseType, ReleaseSuccessType, ReleaseFailureType
  DEF WorkerStep
<1>2. ASSUME NEW p \in Processes, CollectStep(p) PROVE TypeInv'
  BY <1>2, FetchType, CompleteEmptyType, BeginIngestType, CommitIngestType,
     AbortIngestType, MarkInScanType, MarkInCallerType
  DEF CollectStep
<1>3. CASE RequestStep
  BY <1>3, ConfigureType, DisconnectType, ReconnectType, QueueJobType, RetryType,
     RequestScanType, PostSignalsType
  DEF RequestStep
<1>4. CASE UNCHANGED vars
  BY <1>4
  DEF TypeInv, ScheduleType, JobType, ProcessType, AtDefined, vars, schedule, jobs, local
<1>5. QED
  BY <1>1, <1>2, <1>3, <1>4, InvitationWithdrawnType, CrashType, TickType DEF Next, Processes

LEMMA TypesHold == Spec => []TypeInv
<1>1. QED BY InitType, NextType, PTL DEF Spec

(* TypeOK holds throughout, whatever the number of workers, sources, jobs and   *)
(* messages, and whatever the bounds.                                         *)
THEOREM TypeCorrect == Spec => []TypeOK
<1>1. TypeInv => TypeOK BY DEF TypeInv, TypeOK
<1>2. QED BY <1>1, TypesHold, PTL

-----------------------------------------------------------------------------
(* A disconnected source stays paused: only Configure enables, only for a     *)
(* connected source, and Disconnect pauses in the same transaction.           *)

LEMMA PausedStep ==
  ASSUME TypeInv, DisconnectedIsPaused, [Next]_vars
  PROVE  DisconnectedIsPaused'
<1>1. CASE UNCHANGED <<connected, enabled>>
  BY <1>1 DEF DisconnectedIsPaused
<1>2. ASSUME NEW p \in Workers, WorkerStep(p), ~ReleaseFailure(p)
      PROVE  UNCHANGED <<connected, enabled>>
  BY <1>2 DEF WorkerStep, Pick, Claim, LoadSchedule, CheckPrevious, AbandonPrevious,
     CreateScheduled, LinkJob, FindLease, ReleaseSuccess, schedule
<1>3. ASSUME NEW p \in Processes, CollectStep(p) \/ Crash(p)
      PROVE  UNCHANGED <<connected, enabled>>
  BY <1>3 DEF CollectStep, Crash, Fetch, CompleteEmpty, BeginIngest, CommitIngest,
     AbortIngest, MarkInScan, MarkInCaller, MarkRead, schedule
<1>4. ASSUME NEW p \in Workers, ReleaseFailure(p) \/ InvitationWithdrawn(p)
      PROVE  DisconnectedIsPaused'
  <2>1. /\ connected' = connected
        /\ enabled' \in {enabled, [enabled EXCEPT ![at[p]] = FALSE]}
    BY <1>4 DEF ReleaseFailure, InvitationWithdrawn
  <2>2. QED
    BY <2>1, ProcessAssumption
    DEF DisconnectedIsPaused, TypeInv, ScheduleType, Schedulable
<1>5. CASE RequestStep
  <2>1. ASSUME NEW s \in Sources, Configure(s) \/ Disconnect(s) \/ Reconnect(s)
        PROVE  DisconnectedIsPaused'
    BY <2>1, ProcessAssumption
    DEF DisconnectedIsPaused, TypeInv, ScheduleType, Schedulable,
        Configure, Disconnect, Reconnect, schedule
  <2>2. QED
    BY <1>1, <1>5, <2>1 DEF RequestStep, QueueJob, Retry, RequestScan, PostSignals, schedule
<1>6. CASE Tick BY <1>1, <1>6 DEF Tick
<1>7. CASE UNCHANGED vars BY <1>1, <1>7 DEF vars, schedule
<1>8. QED
  BY <1>1, <1>2, <1>3, <1>4, <1>5, <1>6, <1>7 DEF Next

(* However requests and failing workers interleave, no disconnected source has *)
(* an enabled schedule.                                                        *)
THEOREM DisconnectPauses == Spec => []DisconnectedIsPaused
<1>1. Init => DisconnectedIsPaused
  BY ProcessAssumption DEF Init, DisconnectedIsPaused, Schedulable
<1>2. QED BY <1>1, PausedStep, TypesHold, PTL DEF Spec

-----------------------------------------------------------------------------
(* Ingestion is exclusive: who ingests holds the workspace lock, for a source *)
(* that stays connected, and none of its new messages has a signal yet.       *)

IngestLocked ==
  \A p \in Processes : pc[p] = "ingesting" =>
    /\ lock = p
    /\ connected[at[p]]
    /\ \A m \in batch[p] : owner[<<at[p], m>>] = None

(* Any other step of a process: it touches neither the lock, nor a connection, *)
(* nor a signal, and does not start to ingest.                                 *)
Elsewhere(p) ==
  /\ UNCHANGED <<lock, connected, owner>>
  /\ pc'[p] # "ingesting"
  /\ \A q \in Processes \ {p} : pc'[q] = pc[q] /\ at'[q] = at[q] /\ batch'[q] = batch[q]

LEMMA RestElsewhere ==
  ASSUME TypeInv, NEW p \in Processes, Rest(p)
  PROVE  /\ pc'[p] = "idle"
         /\ \A q \in Processes \ {p} :
              pc'[q] = pc[q] /\ at'[q] = at[q] /\ batch'[q] = batch[q]
  BY DEF TypeInv, ProcessType, Rest, Goto

LEMMA FailElsewhere ==
  ASSUME TypeInv, NEW p \in Processes, NEW stage, Fail(p, stage)
  PROVE  /\ pc'[p] = stage
         /\ \A q \in Processes \ {p} :
              pc'[q] = pc[q] /\ at'[q] = at[q] /\ batch'[q] = batch[q]
  BY DEF TypeInv, ProcessType, Fail, Goto

LEMMA SettleElsewhere ==
  ASSUME TypeInv, NEW p \in Processes, NEW stage, Settle(p, stage)
  PROVE  /\ pc'[p] \in {stage, "idle"}
         /\ \A q \in Processes \ {p} :
              pc'[q] = pc[q] /\ at'[q] = at[q] /\ batch'[q] = batch[q]
<1>1. CASE p \in Workers
  BY <1>1 DEF TypeInv, ProcessType, Settle, Goto
<1>2. CASE p \notin Workers
  BY <1>2, RestElsewhere DEF Settle
<1>3. QED BY <1>1, <1>2

LEMMA WorkerElsewhere ==
  ASSUME TypeInv, NEW p \in Workers, WorkerStep(p) \/ InvitationWithdrawn(p)
  PROVE  Elsewhere(p)
<1> p \in Processes BY DEF Processes
<1>1. CASE InvitationWithdrawn(p)
  BY <1>1, FailElsewhere DEF InvitationWithdrawn, Elsewhere
<1>2. CASE ReleaseSuccess(p) \/ ReleaseFailure(p)
  BY <1>2, RestElsewhere DEF ReleaseSuccess, ReleaseFailure, Elsewhere
<1>3. CASE Claim(p) \/ FindLease(p)
  <2>1. CASE Rest(p)
    BY <1>3, <2>1, RestElsewhere DEF Claim, FindLease, Elsewhere
  <2>2. CASE ~Rest(p)
    BY <1>3, <2>2 DEF Claim, FindLease, Elsewhere, Goto, TypeInv, ProcessType, local
  <2>3. QED BY <2>1, <2>2
<1>4. CASE Pick(p) \/ LoadSchedule(p) \/ CheckPrevious(p) \/ AbandonPrevious(p)
           \/ CreateScheduled(p) \/ LinkJob(p)
  BY <1>4
  DEF Pick, LoadSchedule, CheckPrevious, AbandonPrevious, CreateScheduled, LinkJob,
      Elsewhere, Goto, TypeInv, ProcessType, local
<1>5. QED BY <1>1, <1>2, <1>3, <1>4 DEF WorkerStep

LEMMA CollectElsewhere ==
  ASSUME TypeInv, NEW p \in Processes,
         Fetch(p) \/ CompleteEmpty(p) \/ MarkInScan(p) \/ MarkInCaller(p)
  PROVE  Elsewhere(p)
<1>1. CASE Fetch(p)
  <2>1. CASE Fail(p, "scanFailing") \/ Fail(p, "failing")
    BY <1>1, <2>1, FailElsewhere DEF Fetch, Elsewhere
  <2>2. CASE ~Fail(p, "scanFailing") /\ ~Fail(p, "failing")
    BY <1>1, <2>2 DEF Fetch, Elsewhere, Goto, TypeInv, ProcessType
  <2>3. QED BY <2>1, <2>2
<1>2. CASE CompleteEmpty(p)
  BY <1>2, SettleElsewhere DEF CompleteEmpty, Elsewhere
<1>3. CASE MarkInScan(p)
  <2>1. CASE AfterScan(p)
    BY <1>3, <2>1, RestElsewhere
    DEF MarkInScan, MarkRead, AfterScan, Elsewhere, Goto, TypeInv, ProcessType, local
  <2>2. CASE MarkRead(p, "scanMarking")
    BY <2>2 DEF MarkRead, Elsewhere, Goto, TypeInv, ProcessType, local
  <2>3. QED BY <1>3, <2>1, <2>2 DEF MarkInScan
<1>4. CASE MarkInCaller(p)
  <2>1. CASE Settle(p, "failed")
    BY <1>4, <2>1, SettleElsewhere DEF MarkInCaller, MarkRead, Elsewhere
  <2>2. CASE MarkRead(p, "marking")
    BY <2>2 DEF MarkRead, Elsewhere, Goto, TypeInv, ProcessType, local
  <2>3. QED BY <1>4, <2>1, <2>2 DEF MarkInCaller
<1>5. QED BY <1>1, <1>2, <1>3, <1>4

LEMMA RequestElsewhere ==
  ASSUME TypeInv, NEW p \in Requests, NEW s \in Sources,
         RequestScan(p, s) \/ PostSignals(p, s)
  PROVE  Elsewhere(p)
  BY DEF Processes, RequestScan, PostSignals, Elsewhere, Goto, TypeInv, ProcessType

LEMMA ElsewhereKeeps ==
  ASSUME IngestLocked, NEW p \in Processes, Elsewhere(p)
  PROVE  IngestLocked'
<1> SUFFICES ASSUME NEW q \in Processes, pc'[q] = "ingesting"
             PROVE  /\ lock' = q
                    /\ connected'[at'[q]]
                    /\ \A m \in batch'[q] : owner'[<<at'[q], m>>] = None
  BY DEF IngestLocked
<1>1. pc[q] = "ingesting" /\ at'[q] = at[q] /\ batch'[q] = batch[q]
  BY DEF Elsewhere
<1>2. UNCHANGED <<lock, connected, owner>> BY DEF Elsewhere
<1>3. QED BY <1>1, <1>2 DEF IngestLocked

LEMMA BeginIngestLocks ==
  ASSUME TypeInv, IngestLocked, NEW p \in Processes, BeginIngest(p)
  PROVE  IngestLocked'
<1>1. CASE Ingestible(p)
  <2>1. ASSUME NEW m \in {x[2] : x \in NewSignals(p)}
        PROVE  owner[<<at[p], m>>] = None
    <3>1. PICK x \in {at[p]} \X batch[p] : owner[x] = None /\ m = x[2]
      BY <2>1 DEF NewSignals
    <3>2. x = <<at[p], m>>
      BY <3>1
    <3>3. QED BY <3>1, <3>2
  <2>2. /\ lock = None /\ lock' = p
        /\ pc' = [pc EXCEPT ![p] = "ingesting"]
        /\ batch' = [batch EXCEPT ![p] = {x[2] : x \in NewSignals(p)}]
        /\ UNCHANGED <<at, connected, owner>>
    BY <1>1 DEF BeginIngest, Goto
  <2>3. \A q \in Processes : pc[q] # "ingesting"
    BY <2>2, ProcessAssumption DEF IngestLocked
  <2>4. batch'[p] = {x[2] : x \in NewSignals(p)}
    BY <2>2 DEF TypeInv, ProcessType
  <2>5. QED
    BY <1>1, <2>1, <2>2, <2>3, <2>4 DEF IngestLocked, Ingestible, TypeInv, ProcessType
<1>2. CASE ~Ingestible(p)
  <2>1. Elsewhere(p)
    BY <1>2, FailElsewhere DEF BeginIngest, Elsewhere, AfterIngestError
  <2>2. QED BY <2>1, ElsewhereKeeps
<1>3. QED BY <1>1, <1>2

(* CommitIngest and AbortIngest release the lock their process holds, so      *)
(* nobody ingests afterwards.                                                 *)
LEMMA EndIngestUnlocks ==
  ASSUME TypeInv, IngestLocked, NEW p \in Processes, CommitIngest(p) \/ AbortIngest(p)
  PROVE  IngestLocked'
<1>1. lock = p BY DEF IngestLocked, CommitIngest, AbortIngest
<1>2. \A q \in Processes \ {p} : pc'[q] = pc[q] /\ pc[q] # "ingesting"
  BY <1>1, SettleElsewhere, FailElsewhere DEF IngestLocked, CommitIngest, AbortIngest
<1>3. pc'[p] # "ingesting"
  BY SettleElsewhere, FailElsewhere DEF CommitIngest, AbortIngest, AfterIngestError
<1>4. QED BY <1>2, <1>3 DEF IngestLocked

LEMMA CrashUnlocks ==
  ASSUME TypeInv, IngestLocked, NEW p \in Processes, Crash(p)
  PROVE  IngestLocked'
<1>1. /\ pc'[p] = "idle"
      /\ \A q \in Processes \ {p} :
           pc'[q] = pc[q] /\ at'[q] = at[q] /\ batch'[q] = batch[q]
  BY RestElsewhere DEF Crash
<1>2. UNCHANGED <<connected, owner>> /\ lock' = IF lock = p THEN None ELSE lock
  BY DEF Crash
<1>3. SUFFICES ASSUME NEW q \in Processes, pc'[q] = "ingesting"
               PROVE  /\ lock' = q
                      /\ connected'[at'[q]]
                      /\ \A m \in batch'[q] : owner'[<<at'[q], m>>] = None
  BY DEF IngestLocked
<1>4. q # p /\ pc[q] = "ingesting" /\ at'[q] = at[q] /\ batch'[q] = batch[q]
  BY <1>1, <1>3
<1>5. lock = q /\ lock' = q BY <1>2, <1>4 DEF IngestLocked
<1>6. QED BY <1>2, <1>4, <1>5 DEF IngestLocked

LEMMA IngestLockedStep ==
  ASSUME TypeInv, IngestLocked, [Next]_vars
  PROVE  IngestLocked'
<1>1. ASSUME NEW p \in Processes, Elsewhere(p) PROVE IngestLocked'
  BY <1>1, ElsewhereKeeps
<1>2. ASSUME NEW p \in Processes, CollectStep(p) PROVE IngestLocked'
  BY <1>1, <1>2, CollectElsewhere, BeginIngestLocks, EndIngestUnlocks DEF CollectStep
<1>3. CASE RequestStep
  <2>1. ASSUME NEW p \in Requests, NEW s \in Sources, RequestScan(p, s) \/ PostSignals(p, s)
        PROVE  IngestLocked'
    BY <1>1, <2>1, RequestElsewhere DEF Processes
  <2>2. ASSUME NEW s \in Sources, Disconnect(s)
        PROVE  IngestLocked'
    BY <2>2, ProcessAssumption DEF IngestLocked, Disconnect, Ready, local
  <2>3. ASSUME NEW s \in Sources, Reconnect(s)
        PROVE  IngestLocked'
    BY <2>3 DEF IngestLocked, Reconnect, local, TypeInv, ScheduleType, AtDefined
  <2>4. ASSUME NEW s \in Sources, Configure(s) \/ QueueJob(s)
        PROVE  IngestLocked'
    BY <2>4 DEF IngestLocked, Configure, QueueJob, local
  <2>5. ASSUME NEW j \in Jobs, Retry(j)
        PROVE  IngestLocked'
    BY <2>5 DEF IngestLocked, Retry, local
  <2>6. QED BY <1>3, <2>1, <2>2, <2>3, <2>4, <2>5 DEF RequestStep
<1>4. CASE Tick
  BY <1>4 DEF IngestLocked, Tick
<1>5. CASE UNCHANGED vars
  BY <1>5 DEF IngestLocked, vars, local
<1>6. QED
  BY <1>1, <1>2, <1>3, <1>4, <1>5, WorkerElsewhere, CrashUnlocks DEF Next, Processes

LEMMA IngestLockedHolds == Spec => []IngestLocked
<1>1. Init => IngestLocked BY DEF Init, IngestLocked
<1>2. QED BY <1>1, IngestLockedStep, TypesHold, PTL DEF Spec

(* Only CommitIngest writes signals. *)
LEMMA OwnerStep ==
  ASSUME TypeInv, [Next]_vars
  PROVE  owner' = owner \/ \E p \in Processes : CommitIngest(p)
<1>1. ASSUME NEW p \in Processes, CollectStep(p), ~CommitIngest(p)
      PROVE  owner' = owner
  BY <1>1, CollectElsewhere DEF CollectStep, Elsewhere, BeginIngest, AbortIngest
<1>2. ASSUME NEW p \in Workers, WorkerStep(p) \/ InvitationWithdrawn(p)
      PROVE  owner' = owner
  BY <1>2, WorkerElsewhere DEF Elsewhere
<1>3. CASE RequestStep
  BY <1>3, RequestElsewhere
  DEF RequestStep, Configure, Disconnect, Reconnect, QueueJob, Retry, Elsewhere
<1>4. CASE Tick \/ UNCHANGED vars BY <1>4 DEF Tick, vars
<1>5. QED BY <1>1, <1>2, <1>3, <1>4 DEF Next, Crash

(* No signal is committed for a disconnected source, in any step. *)
THEOREM DisconnectStopsIngestion == Spec => NoIngestWhileDisconnected
<1> DEFINE A == \A s \in Sources : ~connected[s] =>
                  \A m \in Messages : owner'[<<s, m>>] = owner[<<s, m>>]
<1>1. TypeInv /\ IngestLocked /\ [Next]_vars => [A]_vars
  <2> SUFFICES ASSUME TypeInv, IngestLocked, [Next]_vars,
                      NEW s \in Sources, ~connected[s], NEW m \in Messages
               PROVE  owner'[<<s, m>>] = owner[<<s, m>>]
    OBVIOUS
  <2>1. ASSUME NEW p \in Processes, CommitIngest(p)
        PROVE  owner'[<<s, m>>] = owner[<<s, m>>]
    <3>1. at[p] # s
      BY <2>1 DEF IngestLocked, CommitIngest
    <3>2. owner'[<<s, m>>] = IF <<s, m>> \in {at[p]} \X batch[p] THEN job[p] ELSE owner[<<s, m>>]
      BY <2>1 DEF CommitIngest
    <3>3. QED BY <3>1, <3>2
  <2>2. QED BY <2>1, OwnerStep
<1>2. QED
  BY <1>1, TypesHold, IngestLockedHolds, PTL DEF Spec, NoIngestWhileDisconnected
-----------------------------------------------------------------------------
(* Accounting: what a commit adds is disjoint from what was there. *)

LEMMA SignalsFinite == \A j : IsFiniteSet(Signals(j))
<1>1. IsFiniteSet(Sources \X Messages)
  BY FS_Product, ProcessAssumption
<1>2. QED BY <1>1, FS_Subset DEF Signals

LEMMA InitCounts == Init => ImportedIsAttributed
<1> SUFFICES ASSUME Init, NEW j \in Jobs PROVE imported[j] = Cardinality(Signals(j))
  BY DEF ImportedIsAttributed
<1>1. Signals(j) = {}
  BY ProcessAssumption, NumberAssumption DEF Init, Signals, Jobs
<1>2. imported[j] = 0 BY DEF Init
<1>3. QED BY <1>1, <1>2, FS_EmptySet

LEMMA CommitCounts ==
  ASSUME TypeInv, IngestLocked, ImportedIsAttributed,
         NEW p \in Processes, CommitIngest(p), NEW j \in Jobs
  PROVE  imported'[j] = Cardinality(Signals(j)')
<1> DEFINE B == {at[p]} \X batch[p]
<1>1. /\ at[p] \in Sources /\ batch[p] \subseteq Messages
      /\ \A m \in batch[p] : owner[<<at[p], m>>] = None
  BY DEF CommitIngest, TypeInv, ProcessType, AtDefined, IngestLocked
<1>2. B \subseteq Sources \X Messages
  BY <1>1
<1>3. \A x \in B : owner[x] = None
  <2> SUFFICES ASSUME NEW x \in B PROVE owner[x] = None
    OBVIOUS
  <2>1. PICK m \in batch[p] : x = <<at[p], m>>
    OBVIOUS
  <2>2. QED BY <1>1, <2>1
<1>4. Signals(j)' = {x \in Sources \X Messages : owner'[x] = j}
  BY DEF Signals
<1>5. \A x \in Sources \X Messages : owner'[x] = IF x \in B THEN job[p] ELSE owner[x]
  BY DEF CommitIngest
<1>6. j # None
  BY ProcessAssumption, NumberAssumption DEF Jobs
<1>7. CASE job[p] = j
  <2>1. Signals(j)' = Signals(j) \cup B
    BY <1>2, <1>4, <1>5, <1>7 DEF Signals
  <2>2. Signals(j) \cap B = {}
    BY <1>3, <1>6 DEF Signals
  <2>3. IsFiniteSet(B) /\ IsFiniteSet(Signals(j))
    BY <1>2, SignalsFinite, FS_Product, FS_Subset, ProcessAssumption
  <2>4. Cardinality(Signals(j) \cup B) = Cardinality(Signals(j)) + Cardinality(B)
    <3>1. Cardinality(Signals(j) \cap B) = 0
      BY <2>2, FS_EmptySet
    <3>2. Cardinality(Signals(j)) \in Nat /\ Cardinality(B) \in Nat
      BY <2>3, FS_CardinalityType
    <3>3. Cardinality(Signals(j) \cup B)
            = Cardinality(Signals(j)) + Cardinality(B) - Cardinality(Signals(j) \cap B)
      BY <2>3, FS_Union
    <3>4. QED BY <3>1, <3>2, <3>3
  <2>5. imported'[j] = imported[j] + Cardinality(B)
    <3>1. job[p] # NoJob
      BY <1>7, NumberAssumption DEF NoJob, Jobs
    <3>2. imported' = [imported EXCEPT ![job[p]] = @ + Cardinality(B)]
      BY <3>1 DEF CommitIngest
    <3>3. j \in DOMAIN imported BY DEF TypeInv, JobType
    <3>4. QED BY <1>7, <3>2, <3>3
  <2>6. QED BY <2>1, <2>4, <2>5 DEF ImportedIsAttributed
<1>8. CASE job[p] # j
  <2>1. Signals(j)' = Signals(j)
    BY <1>3, <1>4, <1>5, <1>6, <1>8 DEF Signals
  <2>2. imported'[j] = imported[j]
    BY <1>8 DEF CommitIngest, jobs, TypeInv, JobType
  <2>3. QED BY <2>1, <2>2 DEF ImportedIsAttributed
<1>9. QED BY <1>7, <1>8

(* Only CommitIngest counts imports. *)
LEMMA ImportedStep ==
  ASSUME [Next]_vars
  PROVE  imported' = imported \/ \E p \in Processes : CommitIngest(p)
<1>1. ASSUME NEW p \in Processes, CollectStep(p) \/ Crash(p), ~CommitIngest(p)
      PROVE  imported' = imported
  BY <1>1 DEF CollectStep, Crash, Fetch, CompleteEmpty, BeginIngest, AbortIngest,
     MarkInScan, MarkInCaller, MarkRead, SetJob, jobs
<1>2. ASSUME NEW p \in Workers, WorkerStep(p) \/ InvitationWithdrawn(p)
      PROVE  imported' = imported
  BY <1>2 DEF WorkerStep, InvitationWithdrawn, Pick, Claim, LoadSchedule, CheckPrevious,
     AbandonPrevious, CreateScheduled, LinkJob, FindLease, ReleaseSuccess,
     ReleaseFailure, AddJob, SetJob, jobs
<1>3. CASE RequestStep
  BY <1>3 DEF RequestStep, Configure, Disconnect, Reconnect, QueueJob, Retry,
     RequestScan, PostSignals, AddJob, SetJob, jobs
<1>4. CASE Tick \/ UNCHANGED vars BY <1>4 DEF Tick, vars, jobs
<1>5. QED BY <1>1, <1>2, <1>3, <1>4 DEF Next

LEMMA CountsStep ==
  ASSUME TypeInv, IngestLocked, ImportedIsAttributed, [Next]_vars
  PROVE  ImportedIsAttributed'
<1>1. CASE \E p \in Processes : CommitIngest(p)
  BY <1>1, CommitCounts DEF ImportedIsAttributed
<1>2. CASE ~\E p \in Processes : CommitIngest(p)
  <2>1. owner' = owner /\ imported' = imported
    BY <1>2, OwnerStep, ImportedStep
  <2>2. QED BY <2>1 DEF ImportedIsAttributed, Signals
<1>3. QED BY <1>1, <1>2

(* A scan job's imported count is the number of signals that name it, however *)
(* often it is retried and whoever ingests for it.                            *)
THEOREM ImportAccounting == Spec => []ImportedIsAttributed
<1>1. QED BY InitCounts, CountsStep, TypesHold, IngestLockedHolds, PTL DEF Spec
-----------------------------------------------------------------------------
(* Mutual exclusion: a worker's lease outlives its work on the source. *)

LeaseHeld ==
  \A p \in Workers : Working(p) => leaseId[at[p]] = p /\ leaseLeft[at[p]] > 0

(* A step that touches no lease and sets no worker to work. *)
KeepsLeases ==
  /\ lease' = lease
  /\ \A q \in Workers : Working(q)' => Working(q) /\ at'[q] = at[q]

LEMMA LeaseHeldExcludes == LeaseHeld => OneCollector
  BY DEF LeaseHeld, OneCollector

LEMMA KeepsLeasesHolds == LeaseHeld /\ KeepsLeases => LeaseHeld'
  BY DEF LeaseHeld, KeepsLeases, lease

LEMMA RestKeeps ==
  ASSUME TypeInv, NEW p \in Processes, Rest(p), lease' = lease
  PROVE  KeepsLeases
  BY RestElsewhere DEF KeepsLeases, Working, Processes

LEMMA FailKeeps ==
  ASSUME TypeInv, NEW p \in Processes, pc[p] \notin {"idle", "claiming"},
         NEW stage, Fail(p, stage), lease' = lease
  PROVE  KeepsLeases
<1>1. at' = at BY DEF Fail
<1>2. QED BY <1>1, FailElsewhere DEF KeepsLeases, Working, Processes

LEMMA GotoKeeps ==
  ASSUME TypeInv, NEW p \in Processes, pc[p] \notin {"idle", "claiming"},
         NEW stage, Goto(p, stage), at' = at, lease' = lease
  PROVE  KeepsLeases
  BY DEF KeepsLeases, Working, Processes, Goto, TypeInv, ProcessType

LEMMA SettleKeeps ==
  ASSUME TypeInv, NEW p \in Processes, pc[p] \notin {"idle", "claiming"},
         NEW stage, Settle(p, stage), lease' = lease
  PROVE  KeepsLeases
<1>1. CASE p \in Workers
  BY <1>1, GotoKeeps DEF Settle
<1>2. CASE p \notin Workers
  BY <1>2, RestKeeps DEF Settle
<1>3. QED BY <1>1, <1>2

LEMMA CollectKeeps ==
  ASSUME TypeInv, NEW p \in Processes, CollectStep(p)
  PROVE  KeepsLeases
<1>0. lease' = lease
  BY DEF CollectStep, Fetch, CompleteEmpty, BeginIngest, CommitIngest, AbortIngest,
     MarkInScan, MarkInCaller, MarkRead, schedule, lease
<1>1. CASE Fetch(p) BY <1>0, <1>1, FailKeeps, GotoKeeps DEF Fetch
<1>2. CASE CompleteEmpty(p) BY <1>0, <1>2, SettleKeeps DEF CompleteEmpty
<1>3. CASE BeginIngest(p) BY <1>0, <1>3, FailKeeps, GotoKeeps DEF BeginIngest
<1>4. CASE CommitIngest(p) BY <1>0, <1>4, SettleKeeps DEF CommitIngest
<1>5. CASE AbortIngest(p) BY <1>0, <1>5, FailKeeps DEF AbortIngest
<1>6. CASE MarkInScan(p)
  BY <1>0, <1>6, RestKeeps, GotoKeeps DEF MarkInScan, MarkRead, AfterScan, local
<1>7. CASE MarkInCaller(p)
  BY <1>0, <1>7, SettleKeeps, GotoKeeps DEF MarkInCaller, MarkRead, local
<1>8. QED BY <1>1, <1>2, <1>3, <1>4, <1>5, <1>6, <1>7 DEF CollectStep

LEMMA WorkerKeeps ==
  ASSUME TypeInv, NEW p \in Workers,
         \/ LoadSchedule(p) \/ CheckPrevious(p) \/ AbandonPrevious(p) \/ CreateScheduled(p)
         \/ LinkJob(p) \/ FindLease(p) \/ InvitationWithdrawn(p) \/ Pick(p)
  PROVE  KeepsLeases
<1> p \in Processes BY DEF Processes
<1>1. CASE Pick(p)
  BY <1>1 DEF Pick, KeepsLeases, Working, Goto, TypeInv, ProcessType, schedule, lease
<1>2. CASE LoadSchedule(p) \/ CheckPrevious(p) \/ AbandonPrevious(p)
  BY <1>2, GotoKeeps
  DEF LoadSchedule, CheckPrevious, AbandonPrevious, schedule, lease, local
<1>3. CASE CreateScheduled(p) \/ LinkJob(p)
  BY <1>3, GotoKeeps DEF CreateScheduled, LinkJob, schedule, lease, local
<1>4. CASE FindLease(p)
  BY <1>4, GotoKeeps, RestKeeps DEF FindLease, schedule, lease, local
<1>5. CASE InvitationWithdrawn(p)
  BY <1>5, FailKeeps DEF InvitationWithdrawn
<1>6. QED BY <1>1, <1>2, <1>3, <1>4, <1>5

LEMMA ClaimHolds ==
  ASSUME TypeInv, LeaseHeld, NEW p \in Workers, Claim(p)
  PROVE  LeaseHeld'
<1> p \in Processes BY DEF Processes
<1>1. at[p] \in Sources
  BY DEF Claim, TypeInv, AtDefined
<1>2. CASE ClaimEligible(p)
  <2>1. /\ leaseId' = [leaseId EXCEPT ![at[p]] = p]
        /\ leaseLeft' = [leaseLeft EXCEPT ![at[p]] = LeaseFrom(age[p])]
        /\ at' = at /\ pc' = [pc EXCEPT ![p] = "claimed"]
    BY <1>2 DEF Claim, Goto
  <2>2. age[p] \in 0..MaxStall
    BY DEF TypeInv, ProcessType
  <2>3. LeaseFrom(age[p]) > 0
    BY <2>2, NumberAssumption DEF LeaseFrom
  <2>4. \A q \in Workers : Working(q) => at[q] # at[p]
    <3> SUFFICES ASSUME NEW q \in Workers, Working(q), at[q] = at[p] PROVE FALSE
      OBVIOUS
    <3>1. leaseId[at[p]] = q /\ leaseLeft[at[p]] > 0
      BY DEF LeaseHeld
    <3>2. q # None BY ProcessAssumption DEF Processes
    <3>3. leaseLeft[at[p]] + age[p] <= 0
      BY <1>2, <3>1, <3>2 DEF ClaimEligible, Eligible
    <3>4. leaseLeft[at[p]] \in Int
      BY <1>1, NumberAssumption DEF TypeInv, ScheduleType
    <3>5. age[p] \in Nat
      BY <2>2, NumberAssumption
    <3>6. QED BY <3>1, <3>3, <3>4, <3>5
  <2>5. \A q \in Workers \ {p} : Working(q)' => Working(q)
    BY <2>1 DEF Working
  <2>6. leaseId'[at[p]] = p /\ leaseLeft'[at[p]] > 0
    BY <1>1, <2>1, <2>3 DEF TypeInv, ScheduleType
  <2>7. QED BY <2>1, <2>4, <2>5, <2>6 DEF LeaseHeld
<1>3. CASE ~ClaimEligible(p)
  BY <1>3, RestKeeps, KeepsLeasesHolds DEF Claim
<1>4. QED BY <1>2, <1>3

LEMMA ReleaseHolds ==
  ASSUME TypeInv, LeaseHeld, NEW p \in Workers, ReleaseSuccess(p) \/ ReleaseFailure(p)
  PROVE  LeaseHeld'
<1> p \in Processes BY DEF Processes
<1>1. Rest(p) /\ ClearLease(at[p]) /\ Working(p)
  BY DEF ReleaseSuccess, ReleaseFailure, Working
<1>2. ~Working(p)'
  BY <1>1, RestElsewhere DEF Working
<1>3. \A q \in Workers \ {p} : Working(q)' => Working(q) /\ at'[q] = at[q] /\ at[q] # at[p]
  BY <1>1, RestElsewhere, LeaseHeldExcludes DEF Working, OneCollector, Processes
<1>4. \A s : s # at[p] => leaseId'[s] = leaseId[s] /\ leaseLeft'[s] = leaseLeft[s]
  BY <1>1 DEF ClearLease
<1>5. QED BY <1>2, <1>3, <1>4 DEF LeaseHeld

LEMMA TickHolds ==
  ASSUME TypeInv, LeaseHeld, Timely, Tick
  PROVE  LeaseHeld'
<1> SUFFICES ASSUME NEW p \in Workers, Working(p)'
             PROVE  leaseId'[at'[p]] = p /\ leaseLeft'[at'[p]] > 0
  BY DEF LeaseHeld
<1>1. Working(p) /\ at' = at /\ leaseId' = leaseId
  BY DEF Tick, Working
<1>2. at[p] \in Sources
  BY <1>1 DEF Working, TypeInv, AtDefined, Processes
<1>3. leaseId[at[p]] = p /\ leaseLeft[at[p]] > 1
  BY <1>1 DEF LeaseHeld, Tick
<1>4. leaseLeft[at[p]] \in Int
  BY <1>2, NumberAssumption DEF TypeInv, ScheduleType
<1>5. leaseLeft'[at[p]] = leaseLeft[at[p]] - 1
  BY <1>2, <1>3, <1>4, NumberAssumption DEF Tick, Later
<1>6. QED BY <1>1, <1>3, <1>4, <1>5

LEMMA LeaseHeldStep ==
  ASSUME TypeInv, LeaseHeld, Timely, [Next]_vars
  PROVE  LeaseHeld'
<1>1. ASSUME NEW p \in Workers, WorkerStep(p) \/ InvitationWithdrawn(p)
      PROVE  LeaseHeld'
  BY <1>1, WorkerKeeps, KeepsLeasesHolds, ClaimHolds, ReleaseHolds DEF WorkerStep
<1>2. ASSUME NEW p \in Processes, CollectStep(p) PROVE LeaseHeld'
  BY <1>2, CollectKeeps, KeepsLeasesHolds
<1>3. ASSUME NEW p \in Processes, Crash(p) PROVE LeaseHeld'
  BY <1>3, RestKeeps, KeepsLeasesHolds DEF Crash, schedule, lease
<1>4. CASE RequestStep
  <2>1. ASSUME NEW p \in Requests, NEW s \in Sources, RequestScan(p, s) \/ PostSignals(p, s)
        PROVE  KeepsLeases
    BY <2>1, ProcessAssumption
    DEF RequestScan, PostSignals, KeepsLeases, Working, Goto, schedule, lease,
        TypeInv, ProcessType, Processes
  <2>2. ASSUME NEW s \in Sources,
               Configure(s) \/ Disconnect(s) \/ Reconnect(s) \/ QueueJob(s)
        PROVE  KeepsLeases
    BY <2>2
    DEF Configure, Disconnect, Reconnect, QueueJob, KeepsLeases, Working, schedule,
        lease, local
  <2>3. ASSUME NEW j \in Jobs, Retry(j) PROVE KeepsLeases
    BY <2>3 DEF Retry, KeepsLeases, Working, schedule, lease, local
  <2>4. QED BY <1>4, <2>1, <2>2, <2>3, KeepsLeasesHolds DEF RequestStep
<1>5. CASE Tick BY <1>5, TickHolds
<1>6. CASE UNCHANGED vars
  BY <1>6, KeepsLeasesHolds DEF vars, schedule, lease, local, KeepsLeases, Working
<1>7. QED BY <1>1, <1>2, <1>3, <1>4, <1>5, <1>6 DEF Next

(* Two workers never collect one source at once, for any number of workers and *)
(* any crashes, if a worker's work ends within its lease.                      *)
THEOREM LeasesExclude ==
  ASSUME Timely
  PROVE  Spec => []OneCollector
<1>1. Init => LeaseHeld
  BY DEF Init, LeaseHeld, Working, Processes
<1>2. TypeInv /\ LeaseHeld /\ [Next]_vars => LeaseHeld'
  BY LeaseHeldStep
<1>3. QED BY <1>1, <1>2, TypesHold, LeaseHeldExcludes, PTL DEF Spec
-----------------------------------------------------------------------------
(* Pausing after repeated failures.  ReleaseFailure decides from attributes it  *)
(* loaded earlier; unless the user re-enables the schedule, what was disabled   *)
(* then is disabled still.                                                      *)

SeenDisabled ==
  \A p \in Workers : pc[p] = "backingOff" /\ ~seen[p].enabled => ~enabled[at[p]]

PausedInv == ExhaustedIsPaused /\ SeenDisabled

LEMMA EnabledOnlyFalls ==
  ASSUME TypeInv, "configure" \notin Operations, [Next]_vars
  PROVE  \A s \in Sources : enabled'[s] => enabled[s]
<1>1. ASSUME NEW p \in Workers, WorkerStep(p) \/ InvitationWithdrawn(p)
      PROVE  \A s \in Sources : enabled'[s] => enabled[s]
  <2>1. \/ enabled' = enabled
        \/ enabled' = [enabled EXCEPT ![at[p]] = FALSE]
    BY <1>1
    DEF WorkerStep, InvitationWithdrawn, Pick, Claim, LoadSchedule, CheckPrevious,
        AbandonPrevious, CreateScheduled, LinkJob, FindLease, ReleaseSuccess,
        ReleaseFailure, schedule
  <2>2. QED BY <2>1 DEF TypeInv, ScheduleType
<1>2. ASSUME NEW p \in Processes, CollectStep(p) \/ Crash(p)
      PROVE  enabled' = enabled
  BY <1>2 DEF CollectStep, Crash, Fetch, CompleteEmpty, BeginIngest, CommitIngest,
     AbortIngest, MarkInScan, MarkInCaller, MarkRead, schedule
<1>3. CASE RequestStep
  <2>1. ASSUME NEW s \in Sources, Disconnect(s)
        PROVE  \A t \in Sources : enabled'[t] => enabled[t]
    BY <2>1 DEF Disconnect, TypeInv, ScheduleType
  <2>2. QED
    BY <1>3, <2>1
    DEF RequestStep, Configure, Ready, Reconnect, QueueJob, Retry, RequestScan,
        PostSignals, schedule
<1>4. CASE Tick \/ UNCHANGED vars BY <1>4 DEF Tick, vars, schedule
<1>5. QED BY <1>1, <1>2, <1>3, <1>4 DEF Next

(* A step after which p is backing off is the one that loaded the schedule, or *)
(* left p alone.                                                               *)
LEMMA BackingOffStep ==
  ASSUME TypeInv, [Next]_vars, NEW p \in Workers, pc'[p] = "backingOff"
  PROVE  /\ at'[p] = at[p]
         /\ \/ pc[p] = "backingOff" /\ seen'[p] = seen[p]
            \/ seen'[p] = Load(at[p]) /\ enabled' = enabled
<1> p \in Processes BY DEF Processes
<1>1. CASE WorkerStep(p) \/ InvitationWithdrawn(p)
  <2>1. CASE FindLease(p)
    BY <2>1
    DEF FindLease, Goto, Rest, TypeInv, ProcessType, schedule, local
  <2>2. CASE ~FindLease(p)
    <3>1. CASE Claim(p) BY <3>1 DEF Claim, Goto, Rest, TypeInv, ProcessType
    <3>2. CASE CreateScheduled(p)
      BY <3>2 DEF CreateScheduled, Goto, TypeInv, ProcessType
    <3>3. CASE ReleaseSuccess(p) \/ ReleaseFailure(p)
      BY <3>3 DEF ReleaseSuccess, ReleaseFailure, Goto, Rest, TypeInv, ProcessType
    <3>4. CASE InvitationWithdrawn(p)
      BY <3>4 DEF InvitationWithdrawn, Fail, Goto, TypeInv, ProcessType
    <3>5. CASE \/ Pick(p) \/ LoadSchedule(p) \/ CheckPrevious(p) \/ AbandonPrevious(p)
               \/ LinkJob(p)
      BY <3>5 DEF Pick, LoadSchedule, CheckPrevious, AbandonPrevious, LinkJob, Goto,
         TypeInv, ProcessType
    <3>6. QED BY <1>1, <2>2, <3>1, <3>2, <3>3, <3>4, <3>5 DEF WorkerStep
  <2>3. QED BY <2>1, <2>2
<1>2. CASE CollectStep(p) \/ Crash(p)
  <2>1. pc'[p] # "backingOff"
    BY <1>2, RestElsewhere, FailElsewhere, SettleElsewhere
    DEF CollectStep, Crash, Fetch, CompleteEmpty, BeginIngest, CommitIngest, AbortIngest,
        MarkInScan, MarkInCaller, MarkRead, AfterScan, AfterIngestError, Goto, TypeInv,
        ProcessType
  <2>2. QED BY <2>1
<1>3. ASSUME NEW q \in Processes \ {p},
             \/ q \in Workers /\ (WorkerStep(q) \/ InvitationWithdrawn(q))
             \/ CollectStep(q) \/ Crash(q)
      PROVE  at'[p] = at[p] /\ pc'[p] = pc[p] /\ seen'[p] = seen[p]
  <2>1. ASSUME Rest(q) PROVE at'[p] = at[p] /\ pc'[p] = pc[p] /\ seen'[p] = seen[p]
    BY <2>1 DEF Rest, Goto, TypeInv, ProcessType
  <2>2. ASSUME NEW stage, Fail(q, stage) \/ Settle(q, stage)
        PROVE  at'[p] = at[p] /\ pc'[p] = pc[p] /\ seen'[p] = seen[p]
    BY <2>1, <2>2 DEF Fail, Settle, Goto, TypeInv, ProcessType
  <2>3. CASE CollectStep(q) \/ Crash(q)
    BY <2>1, <2>2, <2>3
    DEF CollectStep, Crash, Fetch, CompleteEmpty, BeginIngest, CommitIngest, AbortIngest,
        MarkInScan, MarkInCaller, MarkRead, AfterScan, Goto, local, TypeInv, ProcessType
  <2>4. CASE q \in Workers /\ (WorkerStep(q) \/ InvitationWithdrawn(q))
    BY <2>1, <2>2, <2>4
    DEF WorkerStep, InvitationWithdrawn, Pick, Claim, LoadSchedule, CheckPrevious,
        AbandonPrevious, CreateScheduled, LinkJob, FindLease, ReleaseSuccess,
        ReleaseFailure, Goto, local, TypeInv, ProcessType
  <2>5. QED BY <1>3, <2>3, <2>4
<1>4. CASE RequestStep
  <2>1. at'[p] = at[p] /\ pc'[p] = pc[p] /\ seen'[p] = seen[p]
    BY <1>4, ProcessAssumption
    DEF RequestStep, Configure, Disconnect, Reconnect, QueueJob, Retry, RequestScan,
        PostSignals, Goto, local, TypeInv, ProcessType
  <2>2. QED BY <2>1
<1>5. CASE Tick \/ UNCHANGED vars
  BY <1>5 DEF Tick, vars, local
<1>6. QED BY <1>1, <1>2, <1>3, <1>4, <1>5 DEF Next, Processes

LEMMA FailuresStep ==
  ASSUME TypeInv, PausedInv, "configure" \notin Operations, [Next]_vars,
         NEW s \in Sources, failures'[s] >= MaxFailures
  PROVE  ~enabled'[s]
<1>1. ASSUME NEW p \in Workers, ReleaseFailure(p)
      PROVE  ~enabled'[s]
  <2>1. CASE s = at[p]
    <3> DEFINE n == Increment(seen[p].failures)
    <3>1. failures'[s] = n
      BY <1>1, <2>1 DEF ReleaseFailure, TypeInv, ScheduleType
    <3>2. enabled' = IF Exhausted(n) /\ seen[p].enabled
                     THEN [enabled EXCEPT ![at[p]] = FALSE] ELSE enabled
      BY <1>1 DEF ReleaseFailure
    <3>3. Exhausted(n)
      BY <3>1 DEF Exhausted
    <3>4. ~seen[p].enabled => ~enabled[s]
      BY <1>1, <2>1 DEF PausedInv, SeenDisabled, ReleaseFailure
    <3>5. QED BY <2>1, <3>2, <3>3, <3>4 DEF TypeInv, ScheduleType
  <2>2. CASE s # at[p]
    <3>1. failures'[s] = failures[s]
      BY <1>1, <2>2 DEF ReleaseFailure, TypeInv, ScheduleType
    <3>2. QED BY <3>1, EnabledOnlyFalls DEF PausedInv, ExhaustedIsPaused
  <2>3. QED BY <2>1, <2>2
<1>2. ASSUME NEW p \in Workers, ReleaseSuccess(p)
      PROVE  failures'[s] \in {failures[s], 0}
  BY <1>2 DEF ReleaseSuccess, TypeInv, ScheduleType
<1>3. ASSUME ~\E p \in Workers : ReleaseSuccess(p) \/ ReleaseFailure(p)
      PROVE  failures' = failures
  BY <1>3
  DEF Next, WorkerStep, InvitationWithdrawn, Pick, Claim, LoadSchedule, CheckPrevious,
      AbandonPrevious, CreateScheduled, LinkJob, FindLease,
      CollectStep, Crash, Fetch, CompleteEmpty, BeginIngest, CommitIngest, AbortIngest,
      MarkInScan, MarkInCaller, MarkRead, RequestStep, Configure, Ready, Disconnect,
      Reconnect, QueueJob, Retry, RequestScan, PostSignals, Tick, vars, schedule
<1>4. CASE failures'[s] = failures[s]
  BY <1>4, EnabledOnlyFalls DEF PausedInv, ExhaustedIsPaused
<1>5. CASE failures'[s] = 0
  BY <1>5, NumberAssumption
<1>6. QED BY <1>1, <1>2, <1>3, <1>4, <1>5

(* Without a user re-enabling it, a schedule that has failed MaxFailures times *)
(* in a row is paused, however workers, crashes and disconnections interleave. *)
THEOREM ExhaustionPauses ==
  ASSUME "configure" \notin Operations
  PROVE  Spec => []ExhaustedIsPaused
<1>1. Init => PausedInv
  BY NumberAssumption DEF Init, PausedInv, ExhaustedIsPaused, SeenDisabled, Processes
<1>2. TypeInv /\ PausedInv /\ [Next]_vars => PausedInv'
  <2> SUFFICES ASSUME TypeInv, PausedInv, [Next]_vars PROVE PausedInv'
    OBVIOUS
  <2>1. ExhaustedIsPaused'
    BY FailuresStep DEF ExhaustedIsPaused
  <2>2. SeenDisabled'
    <3> SUFFICES ASSUME NEW p \in Workers, pc'[p] = "backingOff", ~seen'[p].enabled
                 PROVE  ~enabled'[at'[p]]
      BY DEF SeenDisabled
    <3>1. at'[p] \in Sources /\ at'[p] = at[p]
      BY BackingOffStep, NextType DEF TypeInv, AtDefined, Processes
    <3>2. CASE pc[p] = "backingOff" /\ seen'[p] = seen[p]
      BY <3>1, <3>2, EnabledOnlyFalls DEF PausedInv, SeenDisabled
    <3>3. CASE seen'[p] = Load(at[p]) /\ enabled' = enabled
      BY <3>1, <3>3 DEF Load
    <3>4. QED BY <3>2, <3>3, BackingOffStep
  <2>3. QED BY <2>1, <2>2 DEF PausedInv
<1>3. QED BY <1>1, <1>2, TypesHold, PTL DEF Spec, PausedInv
=============================================================================
