----------------------------- MODULE Collection -----------------------------
(***************************************************************************)
(* Scheduled and requested mailbox collection of SentinelSME: schedules    *)
(* with leases, the polling worker, scan jobs, signal ingestion and the    *)
(* API requests that race with them, for one workspace in production.      *)
(*                                                                         *)
(* A step is one database transaction, or one read whose result is used    *)
(* after other transactions may have committed (PostgreSQL, READ           *)
(* COMMITTED).  Requests hold the workspace's AppUser row lock from        *)
(* authentication to their first commit, so a request with one commit is   *)
(* one step; the worker takes that lock only where workspace_write does.   *)
(*                                                                         *)
(* Instants are kept as offsets from now: Tick moves every one of them.    *)
(***************************************************************************)
EXTENDS Integers, FiniteSets

CONSTANTS
  Workers,      \* polling worker processes
  Requests,     \* API requests that span several transactions
  Sources,      \* Gmail and controlled sources of the workspace
  Gmail,        \* the sources of type gmail; the others are controlled
  Messages,     \* external identifiers a mailbox sample can contain
  JobLimit,     \* scan jobs a workspace may retain (2000 in the code)
  Lease,        \* LEASE_MINUTES, in ticks
  MaxFailures,  \* MAX_FAILURES
  Intervals,    \* the interval_minutes a user may choose, in ticks
  RetryBase,    \* the factor 15 of the retry delay, in ticks
  MaxDelay,     \* the cap 1440 of the retry delay, in ticks
  MaxStall,     \* bound: ticks between a worker's clock read and its claim
  Timely,       \* a worker always finishes within its lease
  Operations,   \* kinds of user operation that happen
  MaxCrashes,   \* bound on process crashes
  None

Processes == Workers \cup Requests
Jobs == 1..JobLimit
NoJob == 0
Schedulable == Gmail    \* --enable-demo is refused in production

OperationKinds ==
  {"configure", "disconnect", "reconnect", "retry", "queue", "scan", "post"}

ASSUME ProcessAssumption ==
  /\ Workers \cap Requests = {}
  /\ None \notin Processes \cup Sources \cup Nat
  /\ Gmail \subseteq Sources
  /\ IsFiniteSet(Sources) /\ IsFiniteSet(Messages)

ASSUME NumberAssumption ==
  /\ JobLimit \in Nat
  /\ Lease \in Nat /\ MaxStall \in Nat /\ MaxStall < Lease
  /\ MaxFailures \in Nat \ {0}
  /\ Intervals \subseteq Nat \ {0}
  /\ RetryBase \in Nat \ {0} /\ MaxDelay \in Nat \ {0}
  /\ MaxCrashes \in Nat

ASSUME ModeAssumption ==
  Timely \in BOOLEAN /\ Operations \subseteq OperationKinds

VARIABLES
  connected,    \* Source.status = "active" (with its credential, for Gmail)
  enabled, interval, nextRun, leaseId, leaseLeft, failures, lastJob,
                \* one ScanSchedule per source; nextRun and leaseLeft are offsets
  jobState, jobSource, jobTrigger, imported,      \* ScanJob
  owner,        \* Signal.scan_job_id by source and external identifier: None when there
                \* is no such signal, NoJob when it was posted without a job
  lock,         \* holder of the workspace's AppUser row lock
  pc, at, job, batch,     \* what each process is doing, with what
  age,          \* ticks since the worker read the clock it claims with
  seen,         \* schedule attributes held in the process's ORM session
  crashes

schedule == <<enabled, interval, nextRun, leaseId, leaseLeft, failures, lastJob>>
lease == <<leaseId, leaseLeft>>
jobs == <<jobState, jobSource, jobTrigger, imported>>
local == <<at, job, batch, age, seen>>
vars == <<connected, schedule, jobs, owner, lock, pc, local, crashes>>

-----------------------------------------------------------------------------
JobStates == {"absent", "queued", "completed", "failed"}

Stages ==
  {"idle", "claiming", "claimed", "checking", "abandoning", "creating", "linking",
   "scanning", "empty", "sampled", "ingesting", "scanFailing", "scanMarking",
   "failing", "marking", "succeeded", "releasing", "failed", "backingOff"}

(* Attributes of a schedule as a session last loaded them.  interval 0 stands *)
(* for an instance that a rollback expired and nothing has reloaded.          *)
Snapshot == [interval : Nat, failures : 0..(MaxFailures + 1), enabled : BOOLEAN]
NoSnapshot == [interval |-> 0, failures |-> 0, enabled |-> FALSE]
Load(s) == [interval |-> interval[s], failures |-> failures[s], enabled |-> enabled[s]]

ScheduleType ==
  /\ connected \in [Sources -> BOOLEAN]
  /\ enabled \in [Sources -> BOOLEAN]
  /\ interval \in [Sources -> Nat]
  /\ nextRun \in [Sources -> {t \in Int : t >= -MaxStall}]
  /\ leaseId \in [Sources -> Workers \cup {None}]
  /\ leaseLeft \in [Sources -> (-MaxStall)..Lease]
  /\ failures \in [Sources -> 0..(MaxFailures + 1)]
  /\ lastJob \in [Sources -> Jobs \cup {NoJob}]

JobType ==
  /\ jobState \in [Jobs -> JobStates]
  /\ jobSource \in [Jobs -> Sources \cup {None}]
  /\ jobTrigger \in [Jobs -> {"schedule", "user"}]
  /\ imported \in [Jobs -> Nat]
  /\ owner \in [Sources \X Messages -> Jobs \cup {NoJob, None}]

ProcessType ==
  /\ lock \in Processes \cup {None}
  /\ pc \in [Processes -> Stages]
  /\ at \in [Processes -> Sources \cup {None}]
  /\ job \in [Processes -> Jobs \cup {NoJob}]
  /\ batch \in [Processes -> SUBSET Messages]
  /\ age \in [Processes -> 0..MaxStall]
  /\ seen \in [Processes -> Snapshot]
  /\ crashes \in 0..MaxCrashes

TypeOK == ScheduleType /\ JobType /\ ProcessType

Init ==
  /\ connected = [s \in Sources |-> TRUE]
  /\ \E i \in Intervals :
       /\ interval = [s \in Sources |-> i]
       /\ nextRun = [s \in Sources |-> i]
  /\ enabled = [s \in Sources |-> s \in Schedulable]
  /\ leaseId = [s \in Sources |-> None]
  /\ leaseLeft = [s \in Sources |-> -MaxStall]
  /\ failures = [s \in Sources |-> 0]
  /\ lastJob = [s \in Sources |-> NoJob]
  /\ jobState = [j \in Jobs |-> "absent"]
  /\ jobSource = [j \in Jobs |-> None]
  /\ jobTrigger = [j \in Jobs |-> "user"]
  /\ imported = [j \in Jobs |-> 0]
  /\ owner = [x \in Sources \X Messages |-> None]
  /\ lock = None
  /\ pc = [p \in Processes |-> "idle"]
  /\ at = [p \in Processes |-> None]
  /\ job = [p \in Processes |-> NoJob]
  /\ batch = [p \in Processes |-> {}]
  /\ age = [p \in Processes |-> 0]
  /\ seen = [p \in Processes |-> NoSnapshot]
  /\ crashes = 0

-----------------------------------------------------------------------------
Goto(p, stage) == pc' = [pc EXCEPT ![p] = stage]

(* A process returns to its loop, or its request ends: nothing is kept. *)
Rest(p) ==
  /\ Goto(p, "idle")
  /\ at' = [at EXCEPT ![p] = None]
  /\ job' = [job EXCEPT ![p] = NoJob]
  /\ batch' = [batch EXCEPT ![p] = {}]
  /\ age' = [age EXCEPT ![p] = 0]
  /\ seen' = [seen EXCEPT ![p] = NoSnapshot]

(* The sample is spent, and a rollback expires what the session had loaded. *)
Fail(p, stage) ==
  /\ Goto(p, stage)
  /\ batch' = [batch EXCEPT ![p] = {}]
  /\ seen' = [seen EXCEPT ![p] = NoSnapshot]
  /\ UNCHANGED <<at, job, age>>

(* A worker goes on to complete_lease, which needs the source alone (and, on *)
(* success, the schedule it loaded); a request ends.                         *)
Settle(p, stage) ==
  IF p \notin Workers THEN Rest(p)
  ELSE /\ Goto(p, stage)
       /\ job' = [job EXCEPT ![p] = NoJob]
       /\ batch' = [batch EXCEPT ![p] = {}]
       /\ UNCHANGED <<at, age, seen>>

(* the next free row of the job table *)
Fresh(j) == jobState[j] = "absent" /\ \A k \in Jobs : k < j => jobState[k] # "absent"

AddJob(j, s, trigger) ==
  /\ jobState' = [jobState EXCEPT ![j] = "queued"]
  /\ jobSource' = [jobSource EXCEPT ![j] = s]
  /\ jobTrigger' = [jobTrigger EXCEPT ![j] = trigger]
  /\ UNCHANGED imported

SetJob(j, state) ==
  /\ jobState' = [jobState EXCEPT ![j] = state]
  /\ UNCHANGED <<jobSource, jobTrigger, imported>>

-----------------------------------------------------------------------------
(* The worker: run_due. *)

EligibleUnleased(s, a) == enabled[s] /\ nextRun[s] + a <= 0 /\ leaseId[s] = None

(* claim_due's predicate, as seen by a worker whose clock read is a ticks old *)
Eligible(s, a) ==
  /\ enabled[s]
  /\ nextRun[s] + a <= 0
  /\ leaseId[s] = None \/ leaseLeft[s] + a <= 0

(* SELECT ... ORDER BY next_run_at LIMIT 1 *)
Pick(p) ==
  /\ pc[p] = "idle"
  /\ \E s \in Schedulable :
       /\ Eligible(s, 0)
       /\ \A t \in Schedulable : Eligible(t, 0) => nextRun[s] <= nextRun[t]
       /\ at' = [at EXCEPT ![p] = s]
  /\ Goto(p, "claiming")
  /\ UNCHANGED <<connected, schedule, jobs, owner, lock, job, batch, age, seen, crashes>>

ClaimUnchecked(p) == TRUE

(* UPDATE ... WHERE the predicate still holds; no row means another claimed. *)
ClaimEligible(p) == Eligible(at[p], age[p])

LeaseFromLateClock(a) == Lease + a

(* lease_until counts from the clock read, not from the commit. *)
LeaseFrom(a) == Lease - a

Claim(p) ==
  /\ pc[p] = "claiming"
  /\ IF ClaimEligible(p)
     THEN /\ leaseId' = [leaseId EXCEPT ![at[p]] = p]
          /\ leaseLeft' = [leaseLeft EXCEPT ![at[p]] = LeaseFrom(age[p])]
          /\ age' = [age EXCEPT ![p] = 0]
          /\ Goto(p, "claimed")
          /\ UNCHANGED <<at, job, batch, seen>>
     ELSE Rest(p) /\ UNCHANGED lease
  /\ UNCHANGED <<connected, enabled, interval, nextRun, failures, lastJob,
                 jobs, owner, lock, crashes>>

(* db.get(ScanSchedule): the attributes read here stay in the session. *)
LoadSchedule(p) ==
  /\ pc[p] = "claimed"
  /\ seen' = [seen EXCEPT ![p] = Load(at[p])]
  /\ job' = [job EXCEPT ![p] = lastJob[at[p]]]
  /\ Goto(p, IF lastJob[at[p]] = NoJob THEN "creating" ELSE "checking")
  /\ UNCHANGED <<connected, schedule, jobs, owner, lock, at, batch, age, crashes>>

UnfinishedOrDone(j) == jobState[j] \in {"queued", "completed"}

(* status in {"queued", "running"}; running is never committed *)
Unfinished(j) == jobState[j] = "queued"

(* previous.status in {"queued", "running"}, then the SELECT of              *)
(* mark_scan_job_failed; its rollback expires the session's schedule.        *)
CheckPrevious(p) ==
  /\ pc[p] = "checking"
  /\ IF Unfinished(job[p])
     THEN /\ Goto(p, "abandoning")
          /\ seen' = [seen EXCEPT ![p] = NoSnapshot]
     ELSE Goto(p, "creating") /\ UNCHANGED seen
  /\ UNCHANGED <<connected, schedule, jobs, owner, lock, at, job, batch, age, crashes>>

AbandonPrevious(p) ==
  /\ pc[p] = "abandoning"
  /\ SetJob(job[p], "failed")
  /\ Goto(p, "creating")
  /\ UNCHANGED <<connected, schedule, owner, lock, local, crashes>>

(* create_scan_job commits on its own, before the schedule refers to the job. *)
CreateScheduled(p) ==
  /\ pc[p] = "creating"
  /\ lock = None
  /\ \/ \E j \in Jobs :
          /\ Fresh(j) /\ connected[at[p]]
          /\ AddJob(j, at[p], "schedule")
          /\ job' = [job EXCEPT ![p] = j]
          /\ Goto(p, "linking")
     \/ /\ ~connected[at[p]] \/ \A j \in Jobs : jobState[j] # "absent"
        /\ job' = [job EXCEPT ![p] = NoJob]
        /\ Goto(p, "failing")
        /\ UNCHANGED jobs
  /\ UNCHANGED <<connected, schedule, owner, lock, at, batch, age, seen, crashes>>

LinkJob(p) ==
  /\ pc[p] = "linking"
  /\ lastJob' = [lastJob EXCEPT ![at[p]] = job[p]]
  /\ Goto(p, "scanning")
  /\ UNCHANGED <<connected, enabled, interval, nextRun, lease, failures,
                 jobs, owner, lock, local, crashes>>

(* The invitation was withdrawn: the schedule is paused and the run fails. *)
InvitationWithdrawn(p) ==
  /\ pc[p] = "scanning" /\ p \in Workers
  /\ enabled' = [enabled EXCEPT ![at[p]] = FALSE]
  /\ Fail(p, "failing")
  /\ UNCHANGED <<connected, interval, nextRun, lease, failures, lastJob,
                 jobs, owner, lock, crashes>>

-----------------------------------------------------------------------------
(* scan_mailbox, run by the worker and by POST /gmail/scan. *)

(* The worker's call is refused for a disconnected source before it guards   *)
(* the job.  _access_token needs the credential that disconnect deletes; the *)
(* provider may fail, return nothing, or return any sample.  Reading         *)
(* maximum_messages reloads an expired schedule.                             *)
Reload(p) ==
  IF p \in Workers /\ seen[p] = NoSnapshot THEN Load(at[p]) ELSE seen[p]

Fetch(p) ==
  /\ pc[p] = "scanning"
  /\ \/ p \in Workers /\ ~connected[at[p]] /\ Fail(p, "failing")
     \/ Fail(p, "scanFailing")
     \/ /\ connected[at[p]]
        /\ seen' = [seen EXCEPT ![p] = Reload(p)]
        /\ \E b \in SUBSET Messages :
             /\ batch' = [batch EXCEPT ![p] = b]
             /\ Goto(p, IF b = {} THEN "empty" ELSE "sampled")
        /\ UNCHANGED <<at, job, age>>
  /\ UNCHANGED <<connected, schedule, jobs, owner, lock, crashes>>

(* An empty sample completes the job by primary key, whatever became of it. *)
CompleteEmpty(p) ==
  /\ pc[p] = "empty"
  /\ SetJob(job[p], "completed")
  /\ Settle(p, "succeeded")
  /\ UNCHANGED <<connected, schedule, owner, lock, crashes>>

-----------------------------------------------------------------------------
(* ingest_signals: one transaction under the workspace lock, in which the    *)
(* job's status is read first and written last.                              *)

AfterIngestError(p) == IF at[p] \in Gmail THEN "scanFailing" ELSE "failing"

IngestibleAnyway(p) ==
  job[p] # NoJob => jobSource[job[p]] = at[p] /\ jobState[job[p]] = "queued"

(* session.refresh(source), then the job's source and status *)
Ingestible(p) ==
  /\ connected[at[p]]
  /\ job[p] # NoJob => jobSource[job[p]] = at[p] /\ jobState[job[p]] = "queued"

AllSignals(p) == {at[p]} \X batch[p]

(* what the sample adds: the messages without a signal of this source yet *)
NewSignals(p) == {x \in {at[p]} \X batch[p] : owner[x] = None}

BeginIngest(p) ==
  /\ pc[p] = "sampled"
  /\ lock = None
  /\ IF Ingestible(p)
     THEN /\ lock' = p
          /\ Goto(p, "ingesting")
          /\ batch' = [batch EXCEPT ![p] = {x[2] : x \in NewSignals(p)}]
          /\ UNCHANGED <<at, job, age, seen>>
     ELSE Fail(p, AfterIngestError(p)) /\ UNCHANGED lock
  /\ UNCHANGED <<connected, schedule, jobs, owner, crashes>>

(* INSERTs what was new when it looked, and writes the job by primary key. *)
CommitIngest(p) ==
  /\ pc[p] = "ingesting"
  /\ owner' = [x \in Sources \X Messages |->
                 IF x \in {at[p]} \X batch[p] THEN job[p] ELSE owner[x]]
  /\ IF job[p] = NoJob
     THEN UNCHANGED jobs
     ELSE /\ jobState' = [jobState EXCEPT ![job[p]] = "completed"]
          /\ imported' = [imported EXCEPT ![job[p]] = @ + Cardinality({at[p]} \X batch[p])]
          /\ UNCHANGED <<jobSource, jobTrigger>>
  /\ lock' = None
  /\ Settle(p, "succeeded")
  /\ UNCHANGED <<connected, schedule, crashes>>

(* A capability mismatch, the retained-signal limit or any other error. *)
AbortIngest(p) ==
  /\ pc[p] = "ingesting"
  /\ lock' = None
  /\ Fail(p, AfterIngestError(p))
  /\ UNCHANGED <<connected, schedule, jobs, owner, crashes>>

-----------------------------------------------------------------------------
(* mark_scan_job_failed: the status is read, then the row is written by      *)
(* primary key in a transaction that takes no workspace lock.  A failed      *)
(* Gmail scan marks once in scan_mailbox and once more in run_due.           *)

Markable(p) == job[p] # NoJob /\ jobSource[job[p]] = at[p] /\ Unfinished(job[p])

MarkRead(p, write) ==
  /\ Markable(p)
  /\ Goto(p, write)
  /\ UNCHANGED <<connected, schedule, jobs, owner, lock, local, crashes>>

(* After scan_mailbox's marking a worker's run_due marks the job again. *)
AfterScan(p) ==
  IF p \in Workers THEN Goto(p, "failing") /\ UNCHANGED local ELSE Rest(p)

MarkInScan(p) ==
  \/ pc[p] = "scanFailing" /\ MarkRead(p, "scanMarking")
  \/ /\ pc[p] = "scanFailing" /\ ~Markable(p)
     /\ AfterScan(p)
     /\ UNCHANGED <<connected, schedule, jobs, owner, lock, crashes>>
  \/ /\ pc[p] = "scanMarking"
     /\ SetJob(job[p], "failed")
     /\ AfterScan(p)
     /\ UNCHANGED <<connected, schedule, owner, lock, crashes>>

MarkInCaller(p) ==
  \/ pc[p] = "failing" /\ MarkRead(p, "marking")
  \/ /\ pc[p] = "failing" /\ ~Markable(p)
     /\ Settle(p, "failed")
     /\ UNCHANGED <<connected, schedule, jobs, owner, lock, crashes>>
  \/ /\ pc[p] = "marking"
     /\ SetJob(job[p], "failed")
     /\ Settle(p, "failed")
     /\ UNCHANGED <<connected, schedule, owner, lock, crashes>>

-----------------------------------------------------------------------------
(* complete_lease: the row is found by lease, then written by primary key.   *)
(* The ORM writes only attributes whose value differs from the one loaded.   *)

Backoff(n) ==
  LET delay == RetryBase * 2^n IN IF delay \in 1..MaxDelay THEN delay ELSE MaxDelay

HoldsLease(p) == leaseId[at[p]] = p

FindLease(p) ==
  \/ /\ pc[p] = "succeeded"
     /\ IF HoldsLease(p) THEN Goto(p, "releasing") /\ UNCHANGED local ELSE Rest(p)
     /\ UNCHANGED <<connected, schedule, jobs, owner, lock, crashes>>
  \/ /\ pc[p] = "failed"
     /\ IF HoldsLease(p)
        THEN /\ Goto(p, "backingOff")
             /\ seen' = [seen EXCEPT ![p] = Load(at[p])]
             /\ UNCHANGED <<at, job, batch, age>>
        ELSE Rest(p)
     /\ UNCHANGED <<connected, schedule, jobs, owner, lock, crashes>>

ClearLease(s) ==
  /\ leaseId' = [leaseId EXCEPT ![s] = None]
  /\ leaseLeft' = [leaseLeft EXCEPT ![s] = -MaxStall]

ReleaseSuccess(p) ==
  /\ pc[p] = "releasing"
  /\ failures' = IF seen[p].failures = 0 THEN failures
                 ELSE [failures EXCEPT ![at[p]] = 0]
  /\ nextRun' = [nextRun EXCEPT ![at[p]] = seen[p].interval]
  /\ ClearLease(at[p])
  /\ Rest(p)
  /\ UNCHANGED <<connected, enabled, interval, lastJob, jobs, owner, lock, crashes>>

ExhaustedLate(n) == n > MaxFailures

Exhausted(n) == n >= MaxFailures

(* Bound: counts past the pausing threshold are not told apart. *)
FailureCap == MaxFailures + 1
Increment(n) == IF n < FailureCap THEN n + 1 ELSE FailureCap

ReleaseFailure(p) ==
  /\ pc[p] = "backingOff"
  /\ LET n == Increment(seen[p].failures) IN
       /\ failures' = [failures EXCEPT ![at[p]] = n]
       /\ enabled' = IF Exhausted(n) /\ seen[p].enabled
                     THEN [enabled EXCEPT ![at[p]] = FALSE] ELSE enabled
       /\ nextRun' = [nextRun EXCEPT ![at[p]] = Backoff(n)]
  /\ ClearLease(at[p])
  /\ Rest(p)
  /\ UNCHANGED <<connected, interval, lastJob, jobs, owner, lock, crashes>>

-----------------------------------------------------------------------------
(* Requests.  Each needs the workspace lock for its first transaction. *)

Ready(kind) == kind \in Operations /\ lock = None

Configure(s) ==
  /\ Ready("configure")
  /\ s \in Schedulable
  /\ \E on \in BOOLEAN, i \in Intervals :
       /\ on => connected[s]
       /\ enabled' = [enabled EXCEPT ![s] = on]
       /\ interval' = [interval EXCEPT ![s] = i]
       /\ nextRun' = [nextRun EXCEPT ![s] = i]
  /\ failures' = [failures EXCEPT ![s] = 0]
  /\ UNCHANGED <<connected, lease, lastJob, jobs, owner, lock, pc, local, crashes>>

DisconnectOnly(s) ==
  /\ Ready("disconnect")
  /\ connected' = [connected EXCEPT ![s] = FALSE]
  /\ UNCHANGED <<schedule, jobs, owner, lock, pc, local, crashes>>

(* disconnect_gmail and update_source_status both pause the schedule. *)
Disconnect(s) ==
  /\ Ready("disconnect")
  /\ connected' = [connected EXCEPT ![s] = FALSE]
  /\ enabled' = [enabled EXCEPT ![s] = FALSE]
  /\ UNCHANGED <<interval, nextRun, lease, failures, lastJob, jobs, owner, lock,
                 pc, local, crashes>>

(* The last transaction of the consent callback takes no lock. *)
Reconnect(s) ==
  /\ "reconnect" \in Operations
  /\ connected' = [connected EXCEPT ![s] = TRUE]
  /\ UNCHANGED <<schedule, jobs, owner, lock, pc, local, crashes>>

Retry(j) ==
  /\ Ready("retry")
  /\ jobState[j] = "failed" /\ connected[jobSource[j]]
  /\ SetJob(j, "queued")
  /\ UNCHANGED <<connected, schedule, owner, lock, pc, local, crashes>>

QueueJob(s) ==
  /\ Ready("queue")
  /\ connected[s]
  /\ \E j \in Jobs : Fresh(j) /\ AddJob(j, s, "user")
  /\ UNCHANGED <<connected, schedule, owner, lock, pc, local, crashes>>

RequestScan(p, s) ==
  /\ Ready("scan")
  /\ pc[p] = "idle" /\ s \in Gmail /\ connected[s]
  /\ \E j \in Jobs : Fresh(j) /\ AddJob(j, s, "user") /\ job' = [job EXCEPT ![p] = j]
  /\ at' = [at EXCEPT ![p] = s]
  /\ Goto(p, "scanning")
  /\ UNCHANGED <<connected, schedule, owner, lock, batch, age, seen, crashes>>

(* POST /sources/{id}/signals, with or without a job; refused for Gmail, and *)
(* a refusal marks the job it names.                                         *)
PostSignals(p, s) ==
  /\ Ready("post")
  /\ pc[p] = "idle"
  /\ \E j \in {k \in Jobs : jobState[k] # "absent"} \cup {NoJob},
        b \in SUBSET Messages \ {{}} :
       /\ job' = [job EXCEPT ![p] = j]
       /\ batch' = [batch EXCEPT ![p] = b]
  /\ at' = [at EXCEPT ![p] = s]
  /\ Goto(p, IF s \in Gmail THEN "failing" ELSE "sampled")
  /\ UNCHANGED <<connected, schedule, jobs, owner, lock, age, seen, crashes>>

-----------------------------------------------------------------------------
(* A crash loses the process's memory, its locks and its open transaction. *)
Crash(p) ==
  /\ pc[p] # "idle"
  /\ crashes < MaxCrashes
  /\ crashes' = crashes + 1
  /\ lock' = IF lock = p THEN None ELSE lock
  /\ Rest(p)
  /\ UNCHANGED <<connected, schedule, jobs, owner>>

Later(t) == IF t <= -MaxStall THEN -MaxStall ELSE t - 1

Working(p) == p \in Workers /\ pc[p] \notin {"idle", "claiming"}

(* Timely excludes time passing a lease by while its holder still works:     *)
(* the code bounds a scan to 120 seconds and a lease lasts ten minutes.      *)
Tick ==
  /\ \A p \in Processes : pc[p] = "claiming" => age[p] < MaxStall
  /\ Timely => \A p \in Workers :
       Working(p) /\ leaseId[at[p]] = p => leaseLeft[at[p]] > 1
  /\ nextRun' = [s \in Sources |-> Later(nextRun[s])]
  /\ leaseLeft' = [s \in Sources |-> Later(leaseLeft[s])]
  /\ age' = [p \in Processes |-> IF pc[p] = "claiming" THEN age[p] + 1 ELSE age[p]]
  /\ UNCHANGED <<connected, enabled, interval, leaseId, failures, lastJob, jobs,
                 owner, lock, pc, at, job, batch, seen, crashes>>

-----------------------------------------------------------------------------
WorkerStep(p) ==
  \/ Pick(p) \/ Claim(p) \/ LoadSchedule(p) \/ CheckPrevious(p) \/ AbandonPrevious(p)
  \/ CreateScheduled(p) \/ LinkJob(p)
  \/ FindLease(p) \/ ReleaseSuccess(p) \/ ReleaseFailure(p)

CollectStep(p) ==
  \/ Fetch(p) \/ CompleteEmpty(p) \/ BeginIngest(p) \/ CommitIngest(p)
  \/ AbortIngest(p) \/ MarkInScan(p) \/ MarkInCaller(p)

RequestStep ==
  \/ \E s \in Sources : Configure(s) \/ Disconnect(s) \/ Reconnect(s) \/ QueueJob(s)
  \/ \E j \in Jobs : Retry(j)
  \/ \E p \in Requests, s \in Sources : RequestScan(p, s) \/ PostSignals(p, s)

Next ==
  \/ \E p \in Workers : WorkerStep(p) \/ InvitationWithdrawn(p)
  \/ \E p \in Processes : CollectStep(p) \/ Crash(p)
  \/ RequestStep
  \/ Tick

Spec == Init /\ [][Next]_vars

(* The worker loops for ever and restarts after a crash; a request handler   *)
(* runs to its end; the clock advances.                                      *)
Fairness ==
  /\ \A p \in Workers : WF_vars(WorkerStep(p))
  /\ \A p \in Processes : WF_vars(CollectStep(p))
  /\ WF_vars(Tick)

LiveSpec == Spec /\ Fairness
-----------------------------------------------------------------------------
(* Properties. *)

Signals(j) == {x \in Sources \X Messages : owner[x] = j}

(* However jobs are retried, abandoned and raced, a job's imported_count is   *)
(* the number of signals whose scan_job_id names it (ingest_signals adds the *)
(* batch's count to the job it completes).                                   *)
ImportedIsAttributed == \A j \in Jobs : imported[j] = Cardinality(Signals(j))

(* docs/OPERATIONS.md, "A disconnected source cannot ... ingest signals": no  *)
(* signal is committed for a source that a request has disconnected, not even *)
(* by a collection that had begun before (ingest_signals' second look).       *)
NoIngestWhileDisconnected ==
  [][\A s \in Sources : ~connected[s] =>
       \A m \in Messages : owner'[<<s, m>>] = owner[<<s, m>>]]_vars

(* Disconnecting pauses recurring collection for good: reconnecting, failing,  *)
(* backing off or completing a run never leaves a disconnected source enabled. *)
DisconnectedIsPaused == \A s \in Schedulable : enabled[s] => connected[s]

(* Two workers never collect the same source at once, provided each finishes  *)
(* within its lease (claim_due's compare-and-set and lease expiry).           *)
OneCollector ==
  \A p, q \in Workers : Working(p) /\ Working(q) /\ at[p] = at[q] => p = q

(* docs/SCHEDULING.md, "A third consecutive failure pauses the schedule (no    *)
(* fourth automatic attempt)".                                                *)
ExhaustedIsPaused == \A s \in Sources : failures[s] >= MaxFailures => ~enabled[s]

(* mark_scan_job_failed, "Persist a safe terminal failure after rolling back   *)
(* partial ingestion": a failed job has imported nothing.                     *)
FailedImportedNothing == \A j \in Jobs : jobState[j] = "failed" => Signals(j) = {}

(* docs/SCHEDULING.md, "the next worker marks the abandoned job failed": a     *)
(* queued scheduled job is in some worker's hands or is the job its schedule   *)
(* refers to, where the next claim finds it.                                  *)
NoOrphanedJob ==
  \A j \in Jobs : jobState[j] = "queued" /\ jobTrigger[j] = "schedule" =>
    \/ \E p \in Workers : job[p] = j
    \/ lastJob[jobSource[j]] = j

(* A due schedule is run or paused, whichever worker crashes while it holds    *)
(* its lease (leases expire, and the schedule is claimed again).              *)
DueIsServed ==
  \A s \in Schedulable :
    enabled[s] /\ nextRun[s] <= 0 ~> ~enabled[s] \/ nextRun[s] > 0

(* While workers keep within their leases and nobody posts signals for another *)
(* process's job, scan jobs keep the life cycle the API describes.            *)
Lifecycle == INSTANCE JobLifecycle WITH state <- jobState
JobsKeepLifecycle == Lifecycle!Spec

=============================================================================
