--------------------------- MODULE LifecycleProofs ---------------------------
(***************************************************************************)
(* Collection implements JobLifecycle, if workers finish within their       *)
(* leases and nobody posts signals that name another process's job.         *)
(*                                                                         *)
(* The argument: a job is in the hands of one process at a time.  Between   *)
(* the read of its status and the write by primary key only its holder may  *)
(* change a queued job, so what is written is the step the API describes.   *)
(***************************************************************************)
EXTENDS CollectionProofs

-----------------------------------------------------------------------------
(* Stages at which a process will write its job without another look. *)
WriteStages ==
  {"linking", "scanning", "empty", "sampled", "ingesting", "abandoning", "scanMarking", "marking"}

TriggerOf(p) == IF p \in Workers THEN "schedule" ELSE "user"

(* A job that a process works with exists, and is of the process's source and kind. *)
JobInHand ==
  \A p \in Processes : job[p] # NoJob =>
    /\ pc[p] \notin {"idle", "claiming"}
    /\ jobState[job[p]] # "absent"
    /\ jobSource[job[p]] = at[p] /\ jobTrigger[job[p]] = TriggerOf(p)

(* So does a job that a schedule refers to. *)
JobLinked ==
  \A s \in Sources : lastJob[s] # NoJob =>
    /\ jobState[lastJob[s]] # "absent"
    /\ jobSource[lastJob[s]] = s /\ jobTrigger[lastJob[s]] = "schedule"

StillQueued ==
  \A p \in Processes :
    /\ pc[p] \in WriteStages => job[p] # NoJob /\ jobState[job[p]] = "queued"
    /\ pc[p] = "checking" => job[p] # NoJob

OneHolder == \A p, q \in Processes : job[p] # NoJob /\ job[p] = job[q] => p = q

HandInv == JobInHand /\ JobLinked /\ StillQueued /\ OneHolder

LEMMA InitHand == Init => HandInv
  BY DEF Init, HandInv, JobInHand, JobLinked, StillQueued, OneHolder, WriteStages

LEMMA HeldIsJob ==
  ASSUME TypeInv, NEW p \in Processes, job[p] # NoJob
  PROVE  job[p] \in Jobs
  BY DEF TypeInv, ProcessType

-----------------------------------------------------------------------------
(* Steps that write no job.  The one that moves keeps its job or lets it go, and *)
(* gets to a write only with a job that it sees queued.                          *)

table == <<jobState, jobSource, jobTrigger>>

Moves(p) ==
  /\ pc' \in [Processes -> Stages] /\ job' \in [Processes -> Jobs \cup {NoJob}]
  /\ \A q \in Processes \ {p} : pc'[q] = pc[q] /\ at'[q] = at[q] /\ job'[q] = job[q]
  /\ job'[p] \in {job[p], NoJob}
  /\ job'[p] # NoJob => at'[p] = at[p] /\ pc'[p] \notin {"idle", "claiming"}

Quiet(p) ==
  /\ Moves(p)
  /\ UNCHANGED <<table, lastJob, imported>>
  /\ pc'[p] \in WriteStages => job'[p] # NoJob /\ jobState[job[p]] = "queued"
  /\ pc'[p] # "checking"

LEMMA QuietHand ==
  ASSUME TypeInv, HandInv, NEW p \in Processes, Quiet(p)
  PROVE  HandInv'
<1>1. JobInHand'
  BY DEF HandInv, JobInHand, Quiet, Moves, table, TriggerOf
<1>2. JobLinked'
  BY DEF HandInv, JobLinked, Quiet, table
<1>3. StillQueued'
  BY DEF HandInv, StillQueued, Quiet, Moves, table
<1>4. OneHolder'
  BY DEF HandInv, OneHolder, Quiet, Moves
<1>5. QED BY <1>1, <1>2, <1>3, <1>4 DEF HandInv

(* A holder writes its queued job and goes on, with it or without it. *)
Writes(p, state) ==
  /\ Moves(p)
  /\ pc[p] \in WriteStages
  /\ jobState' = [jobState EXCEPT ![job[p]] = state]
  /\ UNCHANGED <<jobSource, jobTrigger, lastJob>>
  /\ pc'[p] \notin WriteStages \cup {"checking"}

LEMMA WriteHand ==
  ASSUME TypeInv, HandInv, NEW p \in Processes, NEW state \in {"completed", "failed"},
         Writes(p, state)
  PROVE  HandInv'
<1>1. job[p] # NoJob /\ job[p] \in Jobs
  BY HeldIsJob DEF HandInv, StillQueued, Writes
<1>2. \A j \in Jobs : jobState'[j] = IF j = job[p] THEN state ELSE jobState[j]
  BY <1>1 DEF Writes, TypeInv, JobType
<1>3. \A q \in Processes \ {p} : job[q] # NoJob => job[q] \in Jobs /\ job[q] # job[p]
  BY <1>1, HeldIsJob DEF HandInv, OneHolder
<1>4. JobInHand'
  BY <1>1, <1>2, <1>3 DEF HandInv, JobInHand, Writes, Moves, TriggerOf
<1>5. JobLinked'
  BY <1>2 DEF HandInv, JobLinked, Writes, TypeInv, ScheduleType
<1>6. StillQueued'
  BY <1>2, <1>3 DEF HandInv, StillQueued, Writes, Moves
<1>7. OneHolder'
  BY DEF HandInv, OneHolder, Writes, Moves
<1>8. QED BY <1>4, <1>5, <1>6, <1>7 DEF HandInv

-----------------------------------------------------------------------------
(* Which action is which. *)

LEMMA GotoMoves ==
  ASSUME TypeInv, TypeInv', NEW p \in Processes, NEW stage, Goto(p, stage),
         UNCHANGED <<at, job>>, job[p] # NoJob => stage \notin {"idle", "claiming"}
  PROVE  Moves(p) /\ pc'[p] = stage /\ job'[p] = job[p]
  BY DEF Moves, Goto, TypeInv, ProcessType

LEMMA RestMoves ==
  ASSUME TypeInv, TypeInv', NEW p \in Processes, Rest(p)
  PROVE  Moves(p) /\ pc'[p] = "idle" /\ job'[p] = NoJob
  BY DEF Moves, Rest, Goto, TypeInv, ProcessType, NoJob

LEMMA FailMoves ==
  ASSUME TypeInv, TypeInv', NEW p \in Processes, NEW stage, stage \notin {"idle", "claiming"},
         Fail(p, stage)
  PROVE  Moves(p) /\ pc'[p] = stage /\ job'[p] = job[p]
  BY GotoMoves DEF Fail

LEMMA SettleMoves ==
  ASSUME TypeInv, TypeInv', NEW p \in Processes, NEW stage, Settle(p, stage)
  PROVE  Moves(p) /\ pc'[p] \in {stage, "idle"} /\ job'[p] = NoJob
<1>1. CASE p \in Workers
  BY <1>1 DEF Settle, Moves, Goto, TypeInv, ProcessType, NoJob
<1>2. CASE p \notin Workers
  BY <1>2, RestMoves DEF Settle
<1>3. QED BY <1>1, <1>2

LEMMA MarkReadQuiet ==
  ASSUME TypeInv, TypeInv', NEW p \in Processes, NEW stage \in {"scanMarking", "marking"},
         MarkRead(p, stage)
  PROVE  Quiet(p)
<1>1. Moves(p) /\ pc'[p] = stage /\ job'[p] = job[p]
  BY GotoMoves DEF MarkRead, local
<1>2. job[p] # NoJob /\ jobState[job[p]] = "queued"
  BY DEF MarkRead, Markable, Unfinished
<1>3. UNCHANGED <<table, lastJob, imported>>
  BY DEF MarkRead, jobs, table, schedule
<1>4. QED BY <1>1, <1>2, <1>3 DEF Quiet

(* The worker's steps around a run. *)
LEMMA WorkerQuiet ==
  ASSUME TypeInv, TypeInv', HandInv, NEW p \in Workers,
         \/ Pick(p) \/ Claim(p) \/ CheckPrevious(p) \/ FindLease(p)
         \/ ReleaseSuccess(p) \/ ReleaseFailure(p) \/ InvitationWithdrawn(p)
  PROVE  Quiet(p)
<1> p \in Processes BY DEF Processes
<1>1. CASE Pick(p)
  <2>1. job[p] = NoJob
    BY <1>1 DEF Pick, HandInv, JobInHand
  <2>2. QED
    BY <1>1, <2>1
    DEF Pick, Quiet, Moves, Goto, WriteStages, table, schedule, jobs, TypeInv, ProcessType
<1>2. CASE Claim(p)
  <2>1. UNCHANGED <<table, lastJob, imported>>
    BY <1>2 DEF Claim, table, jobs
  <2>2. CASE Rest(p)
    BY <2>1, <2>2, RestMoves DEF Quiet, WriteStages
  <2>3. CASE ~Rest(p)
    <3>1. Goto(p, "claimed") /\ UNCHANGED <<at, job>>
      BY <1>2, <2>3 DEF Claim
    <3>2. QED BY <2>1, <3>1, GotoMoves DEF Quiet, WriteStages
  <2>4. QED BY <2>2, <2>3
<1>3. CASE CheckPrevious(p)
  <2>1. UNCHANGED <<table, lastJob, imported, at, job>> /\ job[p] # NoJob
    BY <1>3 DEF CheckPrevious, table, jobs, schedule, HandInv, StillQueued
  <2>2. CASE Unfinished(job[p])
    <3>1. Goto(p, "abandoning") /\ jobState[job[p]] = "queued"
      BY <1>3, <2>2 DEF CheckPrevious, Unfinished
    <3>2. QED BY <2>1, <3>1, GotoMoves DEF Quiet
  <2>3. CASE ~Unfinished(job[p])
    <3>1. Goto(p, "creating")
      BY <1>3, <2>3 DEF CheckPrevious
    <3>2. QED BY <2>1, <3>1, GotoMoves DEF Quiet, WriteStages
  <2>4. QED BY <2>2, <2>3
<1>4. CASE FindLease(p)
  <2>1. UNCHANGED <<table, lastJob, imported>>
    BY <1>4 DEF FindLease, table, jobs, schedule
  <2>2. CASE Rest(p)
    BY <2>1, <2>2, RestMoves DEF Quiet, WriteStages
  <2>3. CASE ~Rest(p)
    <3>1. (Goto(p, "releasing") \/ Goto(p, "backingOff")) /\ UNCHANGED <<at, job>>
      BY <1>4, <2>3 DEF FindLease, local
    <3>2. QED BY <2>1, <3>1, GotoMoves DEF Quiet, WriteStages
  <2>4. QED BY <2>2, <2>3
<1>5. CASE ReleaseSuccess(p) \/ ReleaseFailure(p)
  BY <1>5, RestMoves DEF ReleaseSuccess, ReleaseFailure, Quiet, WriteStages, table, jobs
<1>6. CASE InvitationWithdrawn(p)
  <2>1. Fail(p, "failing") /\ UNCHANGED <<table, lastJob, imported>>
    BY <1>6 DEF InvitationWithdrawn, table, jobs
  <2>2. QED BY <2>1, FailMoves DEF Quiet, WriteStages
<1>7. QED BY <1>1, <1>2, <1>3, <1>4, <1>5, <1>6

Fails(p) == Writes(p, "failed") /\ UNCHANGED imported

Completes(p) ==
  /\ Writes(p, "completed")
  /\ imported'[job[p]] >= imported[job[p]]
  /\ \A k \in Jobs \ {job[p]} : imported'[k] = imported[k]

LEMMA FetchQuiet ==
  ASSUME TypeInv, TypeInv', HandInv, NEW p \in Processes, Fetch(p)
  PROVE  Quiet(p)
<1>1. UNCHANGED <<table, lastJob, imported>>
  BY DEF Fetch, table, jobs, schedule
<1>2. job[p] # NoJob /\ jobState[job[p]] = "queued"
  BY DEF Fetch, HandInv, StillQueued, WriteStages
<1>3. CASE Fail(p, "failing") \/ Fail(p, "scanFailing")
  BY <1>1, <1>3, FailMoves DEF Quiet, WriteStages
<1>4. CASE ~Fail(p, "failing") /\ ~Fail(p, "scanFailing")
  <2>1. (Goto(p, "empty") \/ Goto(p, "sampled")) /\ UNCHANGED <<at, job>>
    BY <1>4 DEF Fetch
  <2>2. QED BY <1>1, <1>2, <2>1, GotoMoves DEF Quiet
<1>5. QED BY <1>3, <1>4

LEMMA IngestQuiet ==
  ASSUME TypeInv, TypeInv', HandInv, NEW p \in Processes, BeginIngest(p) \/ AbortIngest(p)
  PROVE  Quiet(p)
<1>1. UNCHANGED <<table, lastJob, imported>>
  BY DEF BeginIngest, AbortIngest, table, jobs, schedule
<1>2. CASE Fail(p, AfterIngestError(p))
  <2>1. AfterIngestError(p) \in {"scanFailing", "failing"}
    BY DEF AfterIngestError
  <2>2. Moves(p) /\ pc'[p] = AfterIngestError(p)
    BY <1>2, <2>1, FailMoves
  <2>3. QED BY <1>1, <2>1, <2>2 DEF Quiet, WriteStages
<1>3. CASE ~Fail(p, AfterIngestError(p))
  <2>1. pc[p] = "sampled" /\ Goto(p, "ingesting") /\ UNCHANGED <<at, job>>
    BY <1>3 DEF BeginIngest, AbortIngest
  <2>2. job[p] # NoJob /\ jobState[job[p]] = "queued"
    BY <2>1 DEF HandInv, StillQueued, WriteStages
  <2>3. QED BY <1>1, <2>1, <2>2, GotoMoves DEF Quiet
<1>4. QED BY <1>2, <1>3

LEMMA CompletionCompletes ==
  ASSUME TypeInv, TypeInv', HandInv, NEW p \in Processes, CompleteEmpty(p) \/ CommitIngest(p)
  PROVE  Completes(p)
<1>1. pc[p] \in WriteStages /\ Settle(p, "succeeded") /\ UNCHANGED lastJob
  BY DEF CompleteEmpty, CommitIngest, WriteStages, schedule
<1>2. job[p] # NoJob /\ job[p] \in Jobs
  BY <1>1, HeldIsJob DEF HandInv, StillQueued
<1>3. /\ jobState' = [jobState EXCEPT ![job[p]] = "completed"]
      /\ UNCHANGED <<jobSource, jobTrigger>>
  BY <1>2 DEF CompleteEmpty, CommitIngest, SetJob
<1>4. Writes(p, "completed")
  BY <1>1, <1>3, SettleMoves DEF Writes, WriteStages
<1>5. imported[job[p]] \in Nat
  BY <1>2 DEF TypeInv, JobType
<1>6. CASE CompleteEmpty(p)
  BY <1>4, <1>5, <1>6 DEF CompleteEmpty, SetJob, Completes
<1>7. CASE CommitIngest(p)
  <2> DEFINE n == Cardinality({at[p]} \X batch[p])
  <2>1. imported' = [imported EXCEPT ![job[p]] = @ + n]
    BY <1>2, <1>7 DEF CommitIngest
  <2>2. n \in Nat
    <3>1. batch[p] \in SUBSET Messages
      BY DEF TypeInv, ProcessType
    <3>2. IsFiniteSet(batch[p])
      BY <3>1, ProcessAssumption, FS_Subset
    <3>3. IsFiniteSet({at[p]})
      BY FS_Singleton
    <3>4. QED BY <3>2, <3>3, FS_Product, FS_CardinalityType
  <2> HIDE DEF n
  <2>3. /\ imported'[job[p]] = imported[job[p]] + n
        /\ \A k \in Jobs \ {job[p]} : imported'[k] = imported[k]
    BY <1>2, <2>1 DEF TypeInv, JobType
  <2>4. QED BY <1>4, <1>5, <2>2, <2>3 DEF Completes
<1>8. QED BY <1>6, <1>7

LEMMA MarkingFails ==
  ASSUME TypeInv, TypeInv', HandInv, NEW p \in Processes, MarkInScan(p) \/ MarkInCaller(p)
  PROVE  Quiet(p) \/ Fails(p)
<1>1. CASE MarkRead(p, "scanMarking") \/ MarkRead(p, "marking")
  BY <1>1, MarkReadQuiet
<1>2. ASSUME AfterScan(p) \/ Settle(p, "failed")
      PROVE  Moves(p) /\ pc'[p] \in {"failing", "failed", "idle"}
  <2>1. CASE AfterScan(p)
    BY <2>1, RestMoves, GotoMoves DEF AfterScan, local
  <2>2. CASE Settle(p, "failed")
    BY <2>2, SettleMoves
  <2>3. QED BY <1>2, <2>1, <2>2
<1>3. CASE /\ UNCHANGED <<jobs, schedule>>
           /\ AfterScan(p) \/ Settle(p, "failed")
  BY <1>2, <1>3 DEF Quiet, WriteStages, jobs, schedule, table
<1>4. CASE /\ pc[p] \in {"scanMarking", "marking"} /\ SetJob(job[p], "failed")
           /\ UNCHANGED schedule
           /\ AfterScan(p) \/ Settle(p, "failed")
  BY <1>2, <1>4 DEF Fails, Writes, WriteStages, SetJob, schedule
<1>5. QED BY <1>1, <1>3, <1>4 DEF MarkInScan, MarkInCaller

LEMMA CollectSteps ==
  ASSUME TypeInv, TypeInv', HandInv, NEW p \in Processes, CollectStep(p)
  PROVE  Quiet(p) \/ Fails(p) \/ Completes(p)
  BY FetchQuiet, IngestQuiet, CompletionCompletes, MarkingFails DEF CollectStep

LEMMA AbandonFails ==
  ASSUME TypeInv, TypeInv', NEW p \in Workers, AbandonPrevious(p)
  PROVE  Fails(p)
<1> p \in Processes BY DEF Processes
<1>1. Moves(p) /\ pc'[p] = "creating"
  BY GotoMoves DEF AbandonPrevious, local
<1>2. QED
  BY <1>1 DEF AbandonPrevious, Fails, Writes, WriteStages, SetJob, schedule

-----------------------------------------------------------------------------
(* The other steps keep the invariant, too. *)

LEMMA StillHand ==
  ASSUME HandInv, UNCHANGED <<pc, at, job, table, lastJob>>
  PROVE  HandInv'
  BY DEF HandInv, JobInHand, JobLinked, StillQueued, OneHolder, table, TriggerOf

LEMMA RetryHand ==
  ASSUME TypeInv, HandInv, NEW j \in Jobs, Retry(j)
  PROVE  HandInv'
<1>1. \A k \in Jobs : jobState'[k] = IF k = j THEN "queued" ELSE jobState[k]
  BY DEF Retry, SetJob, TypeInv, JobType
<1>2. UNCHANGED <<pc, at, job, jobSource, jobTrigger, lastJob>>
  BY DEF Retry, SetJob, schedule, local
<1>3. JobInHand' /\ StillQueued'
  BY <1>1, <1>2, HeldIsJob DEF HandInv, JobInHand, StillQueued, TriggerOf
<1>4. JobLinked'
  BY <1>1, <1>2 DEF HandInv, JobLinked, TypeInv, ScheduleType
<1>5. OneHolder'
  BY <1>2 DEF HandInv, OneHolder
<1>6. QED BY <1>3, <1>4, <1>5 DEF HandInv

(* A new job is in nobody's hands and no schedule refers to it. *)
LEMMA AddedIsNew ==
  ASSUME TypeInv, HandInv, NEW j \in Jobs, Fresh(j), NEW s, NEW trigger,
         AddJob(j, s, trigger)
  PROVE  /\ \A q \in Processes : job[q] # j
         /\ \A u \in Sources : lastJob[u] # j
         /\ jobState'[j] = "queued" /\ jobSource'[j] = s /\ jobTrigger'[j] = trigger
         /\ \A k \in Jobs \ {j} : /\ jobState'[k] = jobState[k]
                                  /\ jobSource'[k] = jobSource[k]
                                  /\ jobTrigger'[k] = jobTrigger[k]
<1>1. j # NoJob
  BY NumberAssumption DEF Jobs, NoJob
<1>2. \A q \in Processes : job[q] # j
  BY <1>1 DEF HandInv, JobInHand, Fresh
<1>3. \A u \in Sources : lastJob[u] # j
  BY <1>1 DEF HandInv, JobLinked, Fresh
<1>4. QED BY <1>2, <1>3 DEF AddJob, TypeInv, JobType

LEMMA QueueHand ==
  ASSUME TypeInv, HandInv, NEW j \in Jobs, Fresh(j), NEW s, AddJob(j, s, "user"),
         UNCHANGED <<pc, at, job, lastJob>>
  PROVE  HandInv'
<1>1. JobInHand' /\ StillQueued'
  BY AddedIsNew, HeldIsJob DEF HandInv, JobInHand, StillQueued, TriggerOf
<1>2. JobLinked'
  BY AddedIsNew DEF HandInv, JobLinked, TypeInv, ScheduleType
<1>3. OneHolder'
  BY DEF HandInv, OneHolder
<1>4. QED BY <1>1, <1>2, <1>3 DEF HandInv

LEMMA TakeHand ==
  ASSUME TypeInv, HandInv, NEW p \in Processes, NEW j \in Jobs, Fresh(j), NEW s,
         AddJob(j, s, TriggerOf(p)), UNCHANGED lastJob,
         pc'[p] \in {"linking", "scanning"}, at'[p] = s, job'[p] = j,
         \A q \in Processes \ {p} : pc'[q] = pc[q] /\ at'[q] = at[q] /\ job'[q] = job[q]
  PROVE  HandInv'
<1>1. j # NoJob
  BY NumberAssumption DEF Jobs, NoJob
<1>2. JobInHand' /\ StillQueued'
  <2>1. \A q \in Processes \ {p} : job[q] # NoJob => job[q] \in Jobs \ {j}
    BY AddedIsNew, HeldIsJob
  <2>2. TriggerOf(p)' = TriggerOf(p)
    BY DEF TriggerOf
  <2>3. JobInHand'
    BY <2>1, <2>2, AddedIsNew DEF HandInv, JobInHand, TriggerOf
  <2>4. StillQueued'
    BY <1>1, <2>1, AddedIsNew DEF HandInv, StillQueued
  <2>5. QED BY <2>3, <2>4
<1>3. JobLinked'
  BY AddedIsNew DEF HandInv, JobLinked, TypeInv, ScheduleType
<1>4. OneHolder'
  BY AddedIsNew DEF HandInv, OneHolder
<1>5. QED BY <1>2, <1>3, <1>4 DEF HandInv

LEMMA CreateHand ==
  ASSUME TypeInv, TypeInv', HandInv, NEW p \in Workers, CreateScheduled(p)
  PROVE  HandInv'
<1> p \in Processes BY DEF Processes
<1>0. UNCHANGED <<lastJob, at>>
  BY DEF CreateScheduled, schedule
<1>1. ASSUME NEW j \in Jobs, Fresh(j), AddJob(j, at[p], "schedule"),
             job' = [job EXCEPT ![p] = j], Goto(p, "linking")
      PROVE  HandInv'
  <2>1. TriggerOf(p) = "schedule"
    BY DEF TriggerOf
  <2>2. /\ pc'[p] = "linking" /\ job'[p] = j
        /\ \A q \in Processes \ {p} : pc'[q] = pc[q] /\ job'[q] = job[q]
    BY <1>1 DEF Goto, TypeInv, ProcessType
  <2>3. QED BY <1>0, <1>1, <2>1, <2>2, TakeHand
<1>2. CASE job' = [job EXCEPT ![p] = NoJob] /\ Goto(p, "failing") /\ UNCHANGED jobs
  BY <1>0, <1>2, QuietHand
  DEF Quiet, Moves, WriteStages, table, jobs, Goto, TypeInv, ProcessType
<1>3. QED BY <1>1, <1>2 DEF CreateScheduled

LEMMA RequestScanHand ==
  ASSUME TypeInv, HandInv, NEW p \in Requests, NEW s \in Sources, RequestScan(p, s)
  PROVE  HandInv'
<1> p \in Processes BY DEF Processes
<1>1. TriggerOf(p) = "user"
  BY ProcessAssumption DEF TriggerOf
<1>2. PICK j \in Jobs : Fresh(j) /\ AddJob(j, s, "user") /\ job' = [job EXCEPT ![p] = j]
  BY DEF RequestScan
<1>3. /\ pc'[p] = "scanning" /\ job'[p] = j /\ at'[p] = s
      /\ \A q \in Processes \ {p} : pc'[q] = pc[q] /\ at'[q] = at[q] /\ job'[q] = job[q]
  BY <1>2 DEF RequestScan, Goto, TypeInv, ProcessType
<1>4. QED BY <1>1, <1>2, <1>3, TakeHand DEF RequestScan, schedule

LEMMA LinkHand ==
  ASSUME TypeInv, TypeInv', HandInv, NEW p \in Workers, LinkJob(p)
  PROVE  HandInv'
<1> p \in Processes BY DEF Processes
<1>1. Moves(p) /\ pc'[p] = "scanning" /\ job' = job /\ at' = at
  BY GotoMoves DEF LinkJob, local
<1>2. job[p] # NoJob /\ jobState[job[p]] = "queued"
  BY DEF LinkJob, HandInv, StillQueued, WriteStages
<1>3. UNCHANGED table
  BY DEF LinkJob, table, jobs
<1>4. JobInHand' /\ StillQueued'
  BY <1>1, <1>2, <1>3
  DEF HandInv, JobInHand, StillQueued, Moves, table, TriggerOf, WriteStages
<1>5. JobLinked'
  <2>1. \A s \in Sources : lastJob'[s] = IF s = at[p] THEN job[p] ELSE lastJob[s]
    BY DEF LinkJob, TypeInv, ScheduleType
  <2>2. /\ jobState[job[p]] # "absent" /\ jobSource[job[p]] = at[p]
        /\ jobTrigger[job[p]] = "schedule"
    BY <1>2 DEF HandInv, JobInHand, TriggerOf
  <2>3. QED BY <1>3, <2>1, <2>2 DEF HandInv, JobLinked, table
<1>6. OneHolder'
  BY <1>1 DEF HandInv, OneHolder
<1>7. QED BY <1>4, <1>5, <1>6 DEF HandInv

(* The job a schedule refers to is in nobody else's hands: a worker with it   *)
(* would be collecting the same source.                                        *)
LEMMA LoadHand ==
  ASSUME TypeInv, HandInv, OneCollector, NEW p \in Workers, LoadSchedule(p)
  PROVE  HandInv'
<1> p \in Processes BY DEF Processes
<1> DEFINE j == lastJob[at[p]]
<1>1. /\ pc[p] = "claimed" /\ at[p] \in Sources
      /\ UNCHANGED <<at, table, lastJob>>
  BY DEF LoadSchedule, jobs, table, schedule, TypeInv, AtDefined
<1>2. /\ pc'[p] = IF j = NoJob THEN "creating" ELSE "checking"
      /\ job'[p] = j
      /\ \A q \in Processes \ {p} : pc'[q] = pc[q] /\ job'[q] = job[q]
  BY DEF LoadSchedule, Goto, TypeInv, ProcessType
<1>3. ASSUME NEW q \in Processes \ {p}, job[q] = j, j # NoJob PROVE FALSE
  <2>1. jobTrigger[j] = "schedule" /\ jobSource[j] = at[p]
    BY <1>1, <1>3 DEF HandInv, JobLinked
  <2>2. /\ pc[q] \notin {"idle", "claiming"} /\ jobSource[j] = at[q]
        /\ jobTrigger[j] = TriggerOf(q)
    BY <1>3 DEF HandInv, JobInHand
  <2>3. q \in Workers /\ at[q] = at[p]
    BY <2>1, <2>2 DEF TriggerOf
  <2>4. QED
    BY <1>1, <1>3, <2>2, <2>3 DEF OneCollector, Working
<1>4. j # NoJob => /\ jobState[j] # "absent" /\ jobSource[j] = at[p]
                  /\ jobTrigger[j] = "schedule"
  BY <1>1 DEF HandInv, JobLinked
<1> HIDE DEF j
<1>5. JobInHand'
  BY <1>1, <1>2, <1>4 DEF HandInv, JobInHand, table, TriggerOf
<1>6. JobLinked'
  BY <1>1 DEF HandInv, JobLinked, table
<1>7. StillQueued'
  BY <1>1, <1>2 DEF HandInv, StillQueued, WriteStages, table
<1>8. OneHolder'
  BY <1>2, <1>3 DEF HandInv, OneHolder
<1>9. QED BY <1>5, <1>6, <1>7, <1>8 DEF HandInv

LEMMA CrashQuiet ==
  ASSUME TypeInv, TypeInv', NEW p \in Processes, Crash(p)
  PROVE  Quiet(p)
  BY RestMoves DEF Crash, Quiet, WriteStages, table, jobs, schedule

(* Requests that touch no job, and the clock. *)
LEMMA OthersStill ==
  ASSUME \/ \E s \in Sources : Configure(s) \/ Disconnect(s) \/ Reconnect(s)
         \/ Tick \/ UNCHANGED vars
  PROVE  UNCHANGED <<pc, at, job, table, lastJob, imported>>
  BY DEF Configure, Disconnect, Reconnect, Tick, vars, local, jobs, table, schedule

LEMMA HandStep ==
  ASSUME TypeInv, TypeInv', HandInv, OneCollector, "post" \notin Operations, [Next]_vars
  PROVE  HandInv'
<1>1. ASSUME NEW p \in Processes, Quiet(p) \/ Fails(p) \/ Completes(p) PROVE HandInv'
  BY <1>1, QuietHand, WriteHand DEF Fails, Completes
<1>2. ASSUME NEW p \in Workers, WorkerStep(p) \/ InvitationWithdrawn(p) PROVE HandInv'
  <2>1. p \in Processes BY DEF Processes
  <2>2. CASE CreateScheduled(p) \/ LinkJob(p) \/ LoadSchedule(p)
    BY <2>2, CreateHand, LinkHand, LoadHand
  <2>3. CASE AbandonPrevious(p)
    BY <1>1, <2>1, <2>3, AbandonFails
  <2>4. QED BY <1>1, <1>2, <2>1, <2>2, <2>3, WorkerQuiet DEF WorkerStep
<1>3. ASSUME NEW p \in Processes, CollectStep(p) \/ Crash(p) PROVE HandInv'
  BY <1>1, <1>3, CollectSteps, CrashQuiet
<1>4. CASE RequestStep
  <2>1. ASSUME NEW s \in Sources, QueueJob(s) PROVE HandInv'
    BY <2>1, QueueHand DEF QueueJob, schedule, local
  <2>2. ASSUME NEW p \in Requests, NEW s \in Sources, PostSignals(p, s) PROVE FALSE
    BY <2>2 DEF PostSignals, Ready
  <2>3. QED
    BY <1>4, <2>1, <2>2, RetryHand, RequestScanHand, OthersStill, StillHand DEF RequestStep
<1>5. CASE Tick \/ UNCHANGED vars
  BY <1>5, OthersStill, StillHand
<1>6. QED BY <1>2, <1>3, <1>4, <1>5 DEF Next

-----------------------------------------------------------------------------
(* Every step is a step of JobLifecycle, or changes no job. *)

LEMMA InitRefines == Init => Lifecycle!Init
  BY DEF Init, Lifecycle!Init

LEMMA FailRefines ==
  ASSUME TypeInv, HandInv, NEW p \in Processes, Fails(p)
  PROVE  Lifecycle!Next
<1>1. job[p] \in Jobs /\ jobState[job[p]] = "queued"
  BY HeldIsJob DEF Fails, Writes, HandInv, StillQueued
<1>2. Lifecycle!Fail(job[p])
  BY <1>1 DEF Fails, Writes, Lifecycle!Fail, Lifecycle!Move
<1>3. QED BY <1>1, <1>2 DEF Lifecycle!Next

LEMMA CompleteRefines ==
  ASSUME TypeInv, TypeInv', HandInv, NEW p \in Processes, Completes(p)
  PROVE  Lifecycle!Next
<1>1. job[p] \in Jobs /\ jobState[job[p]] = "queued"
  BY HeldIsJob DEF Completes, Writes, HandInv, StillQueued
<1>2. imported' \in [Jobs -> Nat]
  BY DEF TypeInv, JobType
<1>3. Lifecycle!Complete(job[p])
  BY <1>1, <1>2 DEF Completes, Writes, Lifecycle!Complete, Lifecycle!Move
<1>4. QED BY <1>1, <1>3 DEF Lifecycle!Next

LEMMA AddRefines ==
  ASSUME NEW j \in Jobs, Fresh(j), NEW s, NEW trigger, AddJob(j, s, trigger)
  PROVE  Lifecycle!Next
<1>1. Lifecycle!Queue(j)
  BY DEF Fresh, AddJob, Lifecycle!Queue, Lifecycle!Move
<1>2. QED BY <1>1 DEF Lifecycle!Next

LEMMA RetryRefines ==
  ASSUME NEW j \in Jobs, Retry(j)
  PROVE  Lifecycle!Next
<1>1. Lifecycle!Retry(j)
  BY DEF Retry, SetJob, Lifecycle!Retry, Lifecycle!Move
<1>2. QED BY <1>1 DEF Lifecycle!Next

LEMMA LifecycleStep ==
  ASSUME TypeInv, TypeInv', HandInv, "post" \notin Operations, [Next]_vars
  PROVE  [Lifecycle!Next]_(Lifecycle!vars)
<1>0. ASSUME UNCHANGED <<jobState, imported>> PROVE UNCHANGED Lifecycle!vars
  BY <1>0 DEF Lifecycle!vars
<1>1. ASSUME NEW p \in Processes, Quiet(p) \/ Fails(p) \/ Completes(p)
      PROVE  [Lifecycle!Next]_(Lifecycle!vars)
  BY <1>0, <1>1, FailRefines, CompleteRefines DEF Quiet, table
<1>2. ASSUME NEW p \in Workers, WorkerStep(p) \/ InvitationWithdrawn(p)
      PROVE  [Lifecycle!Next]_(Lifecycle!vars)
  <2>1. p \in Processes BY DEF Processes
  <2>2. CASE LinkJob(p) \/ LoadSchedule(p)
    BY <1>0, <2>2 DEF LinkJob, LoadSchedule, jobs
  <2>3. CASE CreateScheduled(p)
    BY <1>0, <2>3, AddRefines DEF CreateScheduled, jobs
  <2>4. CASE AbandonPrevious(p)
    BY <1>1, <2>1, <2>4, AbandonFails
  <2>5. QED BY <1>1, <1>2, <2>1, <2>2, <2>3, <2>4, WorkerQuiet DEF WorkerStep
<1>3. ASSUME NEW p \in Processes, CollectStep(p) \/ Crash(p)
      PROVE  [Lifecycle!Next]_(Lifecycle!vars)
  BY <1>1, <1>3, CollectSteps, CrashQuiet
<1>4. CASE RequestStep
  <2>1. ASSUME NEW s \in Sources, QueueJob(s) PROVE Lifecycle!Next
    BY <2>1, AddRefines DEF QueueJob
  <2>2. ASSUME NEW p \in Requests, NEW s \in Sources, RequestScan(p, s) PROVE Lifecycle!Next
    BY <2>2, AddRefines DEF RequestScan
  <2>3. ASSUME NEW p \in Requests, NEW s \in Sources, PostSignals(p, s) PROVE FALSE
    BY <2>3 DEF PostSignals, Ready
  <2>4. ASSUME NEW s \in Sources, Configure(s) \/ Disconnect(s) \/ Reconnect(s)
        PROVE  UNCHANGED Lifecycle!vars
    BY <1>0, <2>4, OthersStill DEF table
  <2>5. QED
    BY <1>4, <2>1, <2>2, <2>3, <2>4, RetryRefines DEF RequestStep
<1>5. CASE Tick \/ UNCHANGED vars
  BY <1>0, <1>5, OthersStill DEF table
<1>6. QED BY <1>2, <1>3, <1>4, <1>5 DEF Next

(* Scan jobs keep the life cycle the API describes (docs/OPERATIONS.md, "Scan *)
(* jobs"), however requests, retries, crashes and takeovers interleave, if      *)
(* workers finish within their leases and nobody posts signals for a job.      *)
THEOREM JobsKeepTheirLifecycle ==
  ASSUME Timely, "post" \notin Operations
  PROVE  Spec => JobsKeepLifecycle
<1>1. TypeInv /\ LeaseHeld /\ HandInv /\ [Next]_vars => HandInv'
  BY HandStep, NextType, LeaseHeldExcludes
<1>2. TypeInv /\ HandInv /\ [Next]_vars => [Lifecycle!Next]_(Lifecycle!vars)
  BY LifecycleStep, NextType
<1>3. Init => LeaseHeld
  BY DEF Init, LeaseHeld, Working, Processes
<1>4. TypeInv /\ LeaseHeld /\ [Next]_vars => LeaseHeld'
  BY LeaseHeldStep
<1>5. QED
  BY <1>1, <1>2, <1>3, <1>4, InitRefines, InitHand, TypesHold, PTL
  DEF Spec, JobsKeepLifecycle, Lifecycle!Spec
=============================================================================
