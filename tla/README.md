# Formal model of SentinelSME

TLA+ specifications of the SentinelSME prototype (`src/`), model-checked with TLC,
with theorems checked by TLAPS. Lines below refer to files under `src/`.

## The system

One FastAPI service and two kinds of worker share a database (PostgreSQL in
production; SQLite on a desktop). They never call each other: everything they do
to one another goes through rows, row locks and leases.

| Component | State | Operations |
|---|---|---|
| Scan schedules (`scheduling.py`) | `ScanSchedule` rows: enabled, interval, next run, lease, failures, last job | configure, claim a due one, complete a lease |
| Polling worker (`worker.py`) | none; an ORM session per run | maintenance, then up to ten due sources a pass |
| Scan jobs and ingestion (`platform.py`) | `ScanJob`, `Signal`, `Finding`, `Incident`, `SenderHistory` | queue, retry, mark failed, ingest a batch |
| Gmail adapter (`gmail.py`, `gmail_api.py`) | `Source.status`, `OAuthCredential`, `OAuthAttempt` | begin and finish consent, scan, disconnect |
| Explanation jobs (`explanation_jobs.py`, `explanation_worker.py`) | `ExplanationJob` rows with leases and attempts | enqueue, expire, claim, finish |
| Explainer and guidance (`explainer.py`, `guidance.py`, `explain.py`) | `IncidentExplanation`, `Recommendation` | generate under no lock, store if still current; refresh |
| Incidents (`platform.py`, `retention.py`) | `Incident`, `Finding`, `Signal`: status, score, span, evidence | correlate, reopen, transition, expire |
| Trusted senders and context (`platform.py`) | `TrustedSender`, `SenderHistory` | add, remove, first contact |
| Rules and scoring (`rules.py`, `rule_config.py`) | `DetectionRule` rows | normalise, evaluate, combine, seed, import |
| Sign-in and sessions (`auth.py`, `auth_api.py`) | `LoginAttempt`, `AppUser`, `AppSession` | begin and finish login, logout, delete identity |
| Budgets (`budgets.py`) | `RequestBudget` counters per minute | consume |
| Deletion and retention (`retention.py`, `deletion_ledger.py`, `scripts/backup.py`) | receipts on disk, `AppUser.status` | record, purge, expire, restore, reconcile |
| API (`api.py`, `main.py`) | none | authenticate, charge, expire, then one operation |
| Read models, demo, evaluation, legacy detection, deployment checks, console, scripts | none of their own | reads, rendering, launching |

How they interact:

- `auth.principal` locks the user's `AppUser` row for every request that is not a
  GET; `request_context` (`api.py` 97-128) commits twice and locks it again, so
  an operation runs under that lock up to its first commit. `workspace_write` and
  `lock_account` take the same lock inside ingestion, job creation and the
  explainer. The worker holds it nowhere else.
- A schedule is claimed with a compare-and-set and a ten-minute lease; a scan has a
  budget of 120 seconds (`gmail.py` 53).
- Ingestion refreshes an incident's guidance, and with it deletes its explanations
  and, by foreign key, its explanation job.
- Requests enqueue explanation jobs and also expire them; the model worker claims
  them under a lease of its timeout and a minute.
- Disconnecting, consent callbacks, retention and deletion all change rows that a
  worker in the middle of a run has already read.

What is hard: reads used after other transactions have committed (READ COMMITTED,
ORM sessions with `expire_on_commit=False`, `database.py` 64), writes by primary key
after a check, leases that expire under a slow worker, crashes between two commits,
and work that must eventually finish. `PROJECT.json` lists each such hazard at its
line.

What makes each part correct:

- *Schedules, worker:* one collector per source; a due schedule outlives a crashed
  worker's lease; the third
  failure pauses; a disconnect pauses for good.
- *Jobs, ingestion:* a job follows queued, completed or failed; what it counts is what
  it imported; nothing is stored for a disconnected source.
- *Explanations:* bounded queue; no stale or second answer; success means an
  explanation stands; job and guidance follow their life cycle; every job ends.
- *Incidents:* a case is the sum of its retained evidence, within one window; it follows
  its life cycle; a rule code keeps its meaning; first contact is reported whatever the
  order of arrival, and never of a trusted sender.
- *Sessions, deletion:* a confirmed deletion survives crashes and restores; no session
  behind the barrier; nothing of a workspace outlives it; a barrier leads to a purge.
- *Consent:* a code is exchanged once; tokens go with a disconnect.
- *Budgets:* no more than the limit in a minute, of requests that charge in time; no
  counters of somebody who is gone but those of reads.

## Modules

| Module | Contents |
|---|---|
| `JobLifecycle` | what the API promises of a scan job (abstract) |
| `Collection` | schedules, worker, scan jobs, ingestion's control flow and the requests that race with them |
| `MCCollection` | its TLC instances |
| `CollectionProofs` | its theorems |
| `LifecycleProofs` | that it implements `JobLifecycle` |
| `GuidanceLifecycle` | what the API promises of an incident's guidance, its explanation and its job (abstract) |
| `Explanations` | the explanation queue, its workers, and guidance changing under them |
| `MCExplanations` | its TLC instances |
| `ExplanationsProofs` | its theorems, among them that it implements `GuidanceLifecycle` |
| `Workspace` | sign-in, sessions, and the deletion of workspaces across crashes and restores |
| `MCWorkspace` | its TLC instances |
| `WorkspaceProofs` | its theorems |
| `Rules` | normalisation, context, rules, score and edit distance, as operators |
| `RulesProofs` | theorems about the score and the edit distance |
| `CaseFiles` | what the documents promise of a case (abstract) |
| `Incidents` | ingestion, correlation, verdicts, trusted senders, rule imports, expiry |
| `MCIncidents` | its TLC instances, and the edit distance over short words |
| `IncidentsProofs` | its theorems |
| `Consent` | connecting a mailbox and signing in, disconnecting, refreshing tokens |
| `MCConsent` | its TLC instance |
| `ConsentProofs` | its theorems |
| `Budgets` | the counters of requests by user, scope and minute, beside the deletion of the user |
| `MCBudgets` | its TLC instance |
| `BudgetsProofs` | its theorems |

`Collection` and `Incidents` share `ingest_signals`: the first has its locks, its job and
its place in a run, the second what it makes of a signal. `Collection`, `Workspace` and
`Consent` share the consent callback and the disconnect: the first has the schedule, the
second the deletion of the workspace meanwhile, the third the tokens. `Explanations` has
what ingestion does to guidance, and `Budgets` the counter that every request charges before
the operations of the others. `Collection` implements `JobLifecycle`, `Explanations`
implements `GuidanceLifecycle`, and `Incidents` implements `CaseFiles`.

### Collection

One workspace in production. A step is one database transaction, or one read whose
result is used after others may have committed. The variables are the columns of
`ScanSchedule` (`enabled` ... `lastJob`), `Source` (`connected`), `ScanJob`
(`jobState`, `jobSource`, `jobTrigger`, `imported`), `Signal` (`owner`, the job a
signal names), the `AppUser` row lock and, per process, the place in its code, its
arguments and the schedule attributes its session has loaded (`seen`).

- The worker's chain is `Pick`, `Claim`, `LoadSchedule`, `CheckPrevious`,
  `AbandonPrevious`, `CreateScheduled`, `LinkJob`, `Fetch`, `BeginIngest`,
  `CommitIngest` or `AbortIngest`, `MarkInScan`, `MarkInCaller`, `FindLease`,
  `ReleaseSuccess` or `ReleaseFailure`: one action per transaction of `run_due` and of
  what it calls. `Configure`, `Disconnect`, `Reconnect`, `Retry`, `QueueJob`,
  `RequestScan` and `PostSignals` are the requests.
- Time: instants are offsets from now that `Tick` lowers. `claim_due` uses a clock
  read that may be `MaxStall` ticks old when its UPDATE runs; the lease counts from
  that read.
- `running` never appears as a job's state: it is written and replaced within one
  transaction.
- A crash loses the process's memory, its lock and its open transaction. A rollback
  expires the session's objects, so `complete_lease` reloads the schedule after a
  failure and uses what the run loaded at its start after a success.
- A write through the ORM changes only attributes whose value differs from the one
  loaded: `ReleaseSuccess` leaves `failures` and `ReleaseFailure` leaves `enabled`
  alone accordingly.
- `Timely` states that a worker finishes within its lease; the code justifies it with
  the scan budget of 120 seconds against ten minutes. It is a constant, so what
  depends on it says so.
- Bounds: `MaxStall`, `MaxCrashes`, `JobLimit` (2000 in the code) and `FailureCap`
  (counts beyond the pausing threshold are not told apart).
- Left out: the deletion of old jobs by retention, the limit of ten sources a pass
  (the loop starts over), `maximum_messages` and `recent_days`, other error texts.

### Explanations

The jobs of any number of incidents and workspaces. A step is one transaction; an
enqueueing request is one step because it holds the workspace's row lock and an
advisory lock. `Claim` takes the oldest claimable job. `Check`, `Begin`, `Settle`
and `Look` are the sessions and locks of `process_one` and `explain_incident`; the
model answers between `Begin` and `Settle`, where no lock is held. `RefreshGuidance`
and `Delete` stand for ingestion and retention, which remove the incident's
explanations and thereby its job. A lease may expire at any time: nothing here
assumes that a worker is quick. Ages beyond `QueueWait` are not told apart and
`MaxRevision` bounds how often an incident's guidance is refreshed.

`Lifecycle` maps this to `GuidanceLifecycle`, which has one job a case and knows of no
queue, worker or lease: queued and running are both pending, and the explanations of a case
are the revisions that an answer which stands is about. The abstract life cycle lets a job
that was given up succeed late, as `expire` leaves the lease on it, but never without an
explanation.

### Workspace

The production deployment as a whole: users sign in and out, requests of several
transactions run, the worker's pass begins with maintenance, the API starts by
replaying receipts, and an operator restores a backup. The variables are the
database (`status` and `identity` of `AppUser`, a count of `AppSession` rows, and the
kinds of other `rows` that exist for a workspace), an older copy of it (`backup`),
the ledger's `receipts`, the API's startup (`api`, `todo`, `current`), and each
process's step.

- Rows are told apart by what protects them: those that refer to an account, whose
  foreign keys refuse a late write, the credential, and "free" rows that carry only
  the workspace's identifier (audit records, trusted senders, consent attempts).
- A step is one transaction. The `AppUser` row lock is held across steps only by a
  deleting request, between its receipt (`Record`) and its `Barrier`: everything else
  that needs the lock waits for it (`Locked`).
- A request that changes something authenticates, commits, and looks again
  (`Authenticate`, `Operate`); `transition_incident` goes on without a lock
  (`AddTrusted`); a consent callback talks to Google between `Callback` and `Link`.
- `Purged` removes everything at once, being one transaction; whoever comes second
  (`PurgeRequested`, `PurgePending`, `ReplayPurge`) fails as the `ValueError` makes it.
- `Restore` follows `docs/PUBLIC_DEPLOYMENT.md` 91-96: everything stopped, the ledger
  current, workers started after the API.
- `NothingOutlives` is what the documents say, and false with transitions that trust senders
  (`workspace_triage`). `NoEvidenceOutlives` is what is true beside every request: what may be
  left are rows that no key ties to anything.
- Bounds: `Tenants`, `MaxFaults`, `SessionCap` (20 in the code).
- Left out: rate counters (`Budgets` has them), the deployment without production mode,
  where no receipt is written. Evidence that expires by age is in `Incidents`.

### Rules

The stateless part of `rules.py` and `rule_config.py`. A feature is the set of the values
it holds, so that a list, a string, an absent value and a boolean are one kind of thing,
and a text is the set of catalogue phrases found in it. `Normalise` follows
`normalise_signal` type by type, `ApplyContext` adds trusted domains and first contact,
`Matches` and `EvaluateRules` are the matchers and the loop over rules, `Score` is
`combine_weights` in twentieths (every default weight is a multiple of 0.05) and
`DefaultKey` the correlation key. `DefaultRules` is the table of `rules.py` 118-312 without
its texts. `EditDistance` computes the band of `_edit_distance` row by row, the cells it
leaves out and the early exit included. `BandSuffices` compares it with `Levenshtein`, the
recursive definition: TLC over short words, `BandIsExact` for all of them.

- Catalogues keep a few representatives of their phrases. `MaxClaimed` stands for the 20
  claimed domains and is 2 in the violated run.
- Domains are names with two relations given as constants: `Within` (subdomain) and
  `Near` (edit distance at most 2).
- Left out: regular expressions, IP and punycode parsing, redaction; the matcher kinds
  that coincide once a feature is a set; disabled rules.

### Incidents

One workspace. `Ingest`, `PostureCheck`, `Transition`, `TransitionTrusting` and `Expire`
run under the workspace's row lock to their commit and are one step each; a batch is a
run of `Ingest` steps that nobody sees in between. A posture check answers one question
a step. `Record` is `ingest_signals` for one signal, all of it: limits, seeding, context,
history, rules, findings, correlation, score.

- `InReach` has `_correlate`'s four comparisons; `Newest` its order.
- A verdict commits first and then adds its senders one by one, without the lock
  (`AddPending`); a crash or a refusal drops the rest (`DropPending`). Any `TrustLimit` of
  them may be the ones added, where the code takes the first five alphabetically. That
  no second verdict starts meanwhile (`pending = {}`) is a bound.
- A contact's history counts messages; `counted` remembers which, to state the property.
- `context` is what `apply_context` keeps with the signal (`ContextOf`): trusted only without
  an authentication failure, a first contact only of a sender that is not trusted.
- `Expire` compares cases by creation, unlinked signals by receipt and histories by
  their earliest message, as `retention.py` 128-173 does.
- Bounds: `Case`, `MaxNow`. `SignalLimit` does not bind in the run: it is a guard.
- Left out: titles, summaries, guidance, audit records.

### Consent

One browser and one mailbox. The variables are the attempts' rows, the two cookies, the
source's status, the grant whose tokens are stored, the grants that Google honours, and
per process its place and what it has read. A grant is named after the attempt whose
exchange made it; a refreshed token belongs to the same grant.

- A callback is `Lookup`, `Consume` (or `Decline`), `Exchange` (or `ExchangeFails`),
  `ReadSource`, `ReadCredential`, `Store` (or `StoreFails`): each is a transaction, a read
  used later, or a call. A sign-in ends with `Identify`; the user and the session it
  writes are in `Workspace`.
- `Store` writes the status only where it differs from what `ReadSource` saw, and inserts
  or updates the credential as `ReadCredential` found it.
- A disconnect is `StartDisconnect`, `ReadTokens`, `Revoke`, `Remove`; a scan's token is
  `StartScan`, `ReadToken`, `Refresh`, `WriteBack`. `Abort` ends any of them anywhere:
  a crash between the revocation and the commit keeps tokens that Google no longer honours.
- In sign-in mode a request holds its user's row until its first commit. That lock is
  left out, which only adds interleavings.
- `crossed` remembers that a disconnect ran beside the end of a callback.
  `DisconnectRemoves` excepts those runs because it fails there: a disconnect beside a
  callback's last transaction (`gmail.py` 283-313) leaves tokens on a disconnected source,
  although `docs/API.md` says a disconnect always removes them.
- A refresh beside a callback's store (340-342) writes the older consent's tokens back. The
  model has it (`Refresh`, `Store`, `WriteBack`); no property speaks of it.
- `CountLogins` counts before `InsertLogin` without a lock: concurrent sign-ins can
  exceed the limit of 100, which the code calls a bound for local use (`auth.py` 153).

### Budgets

Users, their counters by scope and minute, and requests of one authentication, one clock read
and one charge each. The clock counts minutes, as `consume` does.

- `Authenticate` is `auth.principal` before `consume`: all but reads take the user's row lock
  and keep it to `Charge`, whose commit ends the transaction. `Barrier` and `Purge` need that
  lock.
- `Charge` is one transaction: it removes the counters that are expired by the minute the
  request has read (`Expired`), then inserts or increments its own. A counter goes on
  beyond its limit in the code; here one step beyond is as far as it is told apart
  (`Counted`).
- Minutes pass however long a request takes: nothing in the code bounds the time between its
  clock read and its charge (there is no statement timeout; the proxy gives up after 150
  seconds, the server does not).
- `granted` remembers which requests went on: those not refused by the limit, and whose user
  is still there when `principal` looks again (later refusals only lower it), as far as they
  charged by the end of the minute after the one they read (`InTime`).
- `BudgetKept` is about those requests, beside others of any age. **It is not what
  `docs/API.md` 339 says of all of them:** a counter that has expired and was removed starts
  over for a request of its minute that comes later, so that more than the limit go on, and
  what it inserts stays until the next sweep, so that the "two-minute abuse counters" of
  `entities.py` 183 may be older. Without `InTime` in `Charge` TLC finds
  `BudgetKept` violated within a dozen steps.
- A deleted user never comes back under the same identifier: a new sign-in makes a new one.
- Left out: counters a restored backup brings back, which the first request removes, and the
  `Retry-After` header.
- Users may all be gone and the clock at its bound `MaxMinute`, so that nothing can happen:
  the run does not look for deadlock.

## Runs

| Run | Question | Bounds |
|---|---|---|
| `collection_requests` | Do imports stay accounted for, and does a disconnected source stay silent and paused, whatever requests race with a worker? | 1 worker, 1 posting client, a Gmail and a controlled source, 1 message, 2 jobs, all requests but a Gmail scan on request |
| `collection_timely` | With two workers, late claims and a crash: do leases exclude, does the third failure pause, do jobs keep their life cycle (`JobLifecycle`), is a due schedule served although a worker crashed with its lease? | 2 workers, 1 scanning client, 1 source, 2 jobs, 3 failures, lease 2, stall 1, 1 crash |
| `collection_orphan` | Is an abandoned job always found? **Violated.** | 1 worker, 1 crash |
| `collection_late_failure` | Has a failed job imported nothing? **Violated.** | 1 worker, 1 posting client |
| `explanations_safety` | Do limits hold, is only a current, single answer stored, is success real, is it all `GuidanceLifecycle`? | 2 workers, 2 incidents of one workspace with room for one job, 2 attempts, 2 revisions |
| `explanations_live` | Does the service's limit hold and does every active job end? | 1 worker that may crash for ever, 2 workspaces with room for one job, 3 attempts |
| `workspace` | Is a confirmed deletion final, is the barrier tight, does evidence stay away, does a workspace behind the barrier go? | 1 workspace, 2 requests of all operations, 1 worker, 2 sessions, 2 faults |
| `workspace_triage` | Is nothing left, with transitions that trust senders? **Violated.** | 1 workspace, 2 requests |
| `incidents_safety` | Do cases match their evidence, stay within a window and follow `CaseFiles`; are rule codes, first contact and the edit distance right? | 2 messages and a posture answer at times 0 to 2 that chain, 3 cases, window and retention 1, 2 imports, 1 sender a verdict; all pairs of words of up to 5 letters |
| `incidents_lookalike` | Is a lookalike of a trusted domain always flagged? **Violated.** | 1 message, 4 domains, 2 compared |
| `consent_safety` | Is a code sent once; are tokens gone after a disconnect? | 2 consents, 1 sign-in, 3 processes |
| `budgets` | Is no limit exceeded in a minute by requests that charge in time, beside slow ones; whose counters may a purge miss? | 1 user, 2 requests, limits 2 for reads and 1 for writes, 4 minutes |

Why the bounds suffice: two workers are what it takes to race for a lease or to take
a job over, two jobs to abandon one and start another, one message to import twice,
two revisions to replace a template once, two incidents to compete for a place, two
requests and a worker to purge twice, two faults to crash and then restore, three
times in a row to chain evidence over two windows, two consents and three processes for
a callback delivered twice, or an older and a newer one, beside a disconnect or a scan, four
minutes for a counter to be charged late, expire and be swept. Two bounds leave something
out: `workspace` has one workspace, so that a worker with two to purge, or an identity that
signs up again, is not in a run, and `budgets` one user; their safety theorems are about any
number. `collection_timely` has one source, which is what a workspace has (sign-in requires
the mailbox's address, `gmail_api.py` 51): that a worker takes the longest due source of
several workspaces first (`scheduling.py` 68) is in `Pick`, but no run exercises it. In every passing run each property has a one-definition mutation of the model, in
`PROJECT.json`, that TLC finds violating it.

### What the violated runs show

- `collection_orphan`: `docs/SCHEDULING.md` 12-13 says the next worker marks the
  abandoned job failed. The job is committed (`worker.py` 40) before the schedule
  refers to it (42-43): a crash in between leaves it queued for good.
- `collection_late_failure`: `mark_scan_job_failed` (`platform.py` 302) speaks of a
  failure "after rolling back partial ingestion". It reads the status and then writes
  by primary key without a lock, so it can overwrite a job that completed in between:
  the job is failed, and its signals are stored.

- `workspace_triage`: `auth_api.py` 141 calls the deletion's first commit a barrier for
  new work, and `docs/PRIVACY_AND_RETENTION.md` 176 speaks of the complete workspace.
  `transition_incident` commits, releasing the lock (`platform.py` 1102), before it adds
  trusted senders (1103): a purge in between leaves them, with no user to purge them by.
- `incidents_lookalike`: `docs/RULE_CATALOG.md` 214 says trusted domains are added to those a
  sender is compared with, so that lookalikes of real suppliers are flagged. The union is
  cut to its alphabetically first twenty (`rules.py` 585): a workspace that trusts more may
  not notice a lookalike of a later one.

Two more differences between documents and code that no run is about: a sender is a first
contact again once its earliest message is older than the retention (`SenderHistory` goes by
`first_seen_at`), and an operator who imports a rule under a default's code before
anything seeds the table keeps the default from ever being seeded.

### Fairness

`Collection`: a worker process loops for ever and is restarted by its supervisor
(`worker.py` 130-138), a started request runs to its end, the clock advances: weak
fairness of each worker's steps, of each process's collection steps and of `Tick`.
Nothing is assumed of users, crashes or withdrawn invitations. `Explanations`: the
same of each model worker (`explanation_worker.py` 21-27) and of `Tick`, with crashes
unrestricted. `Workspace`: containers are restarted (`compose.production.yaml` 37), so the
API starts and replays, workers start and maintain, and a request that holds the row
lock reaches its commit, since nothing between the two waits. That the request then
purges is not assumed. `Incidents` and `Consent` state no fairness: users decide what happens
next in them, and nothing they do has to follow. `Budgets` states none either: nothing is
waited for.

## Theorems

For every value of the constants that satisfies the named assumptions, with
TLAPS. Each rests on an inductive invariant, which is why a module's types are proved
first.

| Theorem | Statement | Inductive invariant |
|---|---|---|
| `CollectionProofs!TypeCorrect` | `Spec => []TypeOK` | `TypeInv`: types, and a busy process has a source |
| `DisconnectPauses` | `[]DisconnectedIsPaused` | the property with `TypeInv`: only `Configure` enables, and it looks at the source |
| `DisconnectStopsIngestion` | `NoIngestWhileDisconnected` | `IngestLocked`: who is ingesting holds the lock and its source is connected, as every disconnect needs the lock |
| `ImportAccounting` | `[]ImportedIsAttributed` | with `IngestLocked`: one ingestion at a time, and its batch holds only messages without a signal |
| `LeasesExclude` | `[]OneCollector`, if `Timely` | `LeaseHeld`: a working worker's source carries its lease, unexpired by more than its competitor's late clock allows |
| `ExhaustionPauses` | `[]ExhaustedIsPaused`, if nobody reconfigures | `PausedInv`: what a session has loaded as disabled, or counted, still is |
| `LifecycleProofs!JobsKeepTheirLifecycle` | `JobsKeepLifecycle`, if `Timely` and without posts | `HandInv`, with `LeaseHeld`: a job is in one process's hands, and queued while that process will write it without another look |
| `ExplanationsProofs!TypeCorrect` | `Spec => []TypeOK` | `TypeInv`: with a queued job having no attempts, without which three attempts would not bound claims |
| `StaleAnswersDiscarded`, `OneAnswer` | `[]AnswersAreCurrent`, `[]AnsweredOnce` | `AnswersInv`: both together; only `Settle` stores, to an unanswered present template |
| `SuccessIsReal` | `[]SucceededIsExplained` | `ReportIsTrue`: while a worker about to report success holds the lease, the explanation stands |
| `QueueBounds` | `[]QueueBounded` | itself: only `Enqueue` makes a job active, after counting |
| `GuidanceKeepsItsLifecycle` | `KeepsGuidance`: initial states and steps map to `GuidanceLifecycle` | `SuccessInv` (the property above and `ReportIsTrue`) and `LeaseIsClaimed`: a lease is on a job that was claimed, so a success is one of a pending or a given-up job |
| `WorkspaceProofs!TypeCorrect` | `Spec => []TypeOK` | `TypeInv`: types, and a request past authentication has a workspace |
| `DeletionIsFinal` | `[]DeletedStaysDeleted` | `DeletionInv`: a barrier, in the database or a backup, has a receipt; a receipt being replayed is still to come, current or gone; who holds a receipt has its user locked and active |
| `BarrierExcludesSessions` | `[]NoSessionBehindBarrier` | with `DeletionInv`: when the API opens, nothing is behind a barrier |
| `NothingIsLeft` | `[]NothingOutlives`, without triage | `GoneInv`: a workspace that is gone has no rows but what a transition in progress may add, in the backup too |
| `NoEvidenceIsLeft` | `[]NoEvidenceOutlives` | the same |
| `IncidentsProofs!TypeCorrect` | `Spec => []TypeOK` | `TypeInv`: types, findings of retained signals, signals of existing cases |
| `MatchingAlways`, `SpanAlwaysBounded` | `[]CaseMatchesEvidence`, `[]SpanBounded` | `CaseInv`: both together, as a case's span is that of its evidence |
| `RuleCodesAlwaysStable` | `[]RuleCodesAreStable` | `RuleInv`: once something was found, the table is seeded and codes are unique |
| `FirstContactAlwaysEarliest` | `FirstContactIsEarliest` | `HistoryInv`: a history's time is the earliest of what it counted; with `KeptFirst`, what the context keeps of it |
| `ScoresOnlyGrow` | `ScoreOnlyGrows` | `WeightInv` with `CaseInv`: every finding has a weight that a rule may have, and there are finitely many |
| `RulesProofs!ScoreMonotone` | a subset of findings scores no more | none: induction over the set |
| `RulesProofs!BandIsExact` | `BandSuffices` for all words and every maximum | none: induction over rows and columns |
| `IncidentsProofs!CasesAreFiles` | `KeepsCaseFiles`: initial states and steps map to `CaseFiles` | `CaseInv` |
| `ConsentProofs!TypeCorrect` | `Spec => []TypeOK` | `TypeInv`: what a process works with at each step, and that its attempt is gone |
| `CodesAreExchangedOnce` | `[]ExchangedOnce` | `OnceInv`: who is about to send a code is alone with it, and it is unsent |
| `DisconnectsRemove` | `[]DisconnectRemoves` | `RemovalInv`: if none crossed, a source seen as active still is, and a disconnect that found nothing leaves nothing |
| `BudgetsProofs!TypeCorrect` | `Spec => []TypeOK` | `TypeInv`: what a request under way knows of its user, scope and minutes |
| `BudgetsAreKept` | `[]BudgetKept` | `Counts`: until a minute's counter can expire it counts all that were granted, as nobody has read a clock by which it has |
| `LateCountersExplained` | `[]LateCountersAreReads` | `LateRequests`: what is under way for a user that is gone is a read |

`ExhaustedIsPaused` fails when a user reconfigures a schedule between the two halves of
`complete_lease`; the theorem's assumption is exactly the absence of that operation.

The two theorems of `RulesProofs` are about data. The library's induction theorems are
schemes, which cannot be cited here; its facts that the naturals and the subsets of a
finite set are well-founded are not, so the proofs go by the smallest counterexample
(`WFMin`). That each recursive function exists, and equals its body, is proved the same way.
`BandIsExact` has three parts: a distance is at least the difference of the prefixes' lengths,
so a cell further than the maximum from the diagonal is larger than the maximum; in a row, the
band agrees with the matrix wherever either is within the maximum; and once a row is beyond
it, so is everything below. It says of all words and maxima what `EditDistanceExact` says of
short ones, and `ScoresOnlyGrow` rests on `ScoreMonotone`.

Model-checked only: liveness (`DueIsServed`, `JobEnds`, `DeletionCompletes`), which the
prover does not reach, and the violations.

## Not modelled

- Message parsing, redaction and regular expressions over text, cryptography and token
  verification: pure functions of one input.
- Read APIs, evaluation, benchmark and demo data: they project what is stored, or run the
  rules over fixtures.
- Deployment checks, migrations, console, scripts, the body limit and error texts.
- SQLite has no row locks; the desktop mode, one user and one process, is not what the
  models are about.

## Where it could grow

- The worker that outlives its lease (`Timely = FALSE`), whose consequences have no property
  of their own yet.
- Several workspaces in `Collection`, whose sources compete for the workers.
- Runs that show what the properties except: a request charged late (`InTime` in `Budgets`), a
  disconnect or a refresh beside the end of a callback (`Consent`).
