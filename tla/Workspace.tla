----------------------------- MODULE Workspace -----------------------------
(***************************************************************************)
(* Sign-in, sessions and the deletion of a workspace in SentinelSME's       *)
(* production deployment: the API and its requests, the worker's           *)
(* maintenance, the receipts of deletions on a volume of their own, and an *)
(* operator who restores an older backup of the database.                  *)
(*                                                                         *)
(* A step is one database transaction.  Those that lock the workspace's    *)
(* AppUser row exclude each other; only the deleting request does something *)
(* that lasts (its receipt) while it holds the lock.                       *)
(***************************************************************************)
EXTENDS Integers, FiniteSets

CONSTANTS
  Users,         \* Google identities
  Requests,      \* API requests of several transactions
  Workers,       \* collection workers, whose passes begin with maintenance
  Tenants,       \* bound: workspaces ever created, by their opaque identifier
  SessionCap,    \* sessions a user may have (20 in the code)
  Operations,    \* kinds of request that happen
  MaxFaults,     \* bound: crashes, restores and failed commits
  None

Processes == Requests \cup Workers

OperationKinds == {"change", "triage", "consent", "delete"}

ASSUME WorkspaceAssumption ==
  /\ None \notin Users \cup Tenants
  /\ Requests \cap Workers = {}
  /\ MaxFaults \in Nat
  /\ SessionCap \in Nat \ {0}
  /\ Operations \subseteq OperationKinds

VARIABLES
  status, identity, sessions, rows,     \* the database, by workspace: its AppUser and
                                        \* its sessions, counted, and its other rows
  backup,        \* an older state of the database
  receipts,      \* the deletion ledger, outside the database
  issued,        \* workspaces ever created
  confirmed,     \* workspaces whose deletion was answered with success
  api, todo, current,     \* the API; the receipts it still has to replay at startup
  workersOn,     \* worker containers are started
  pc, at, pending,        \* a process's step, its workspace, a worker's list
  faults

database == <<status, identity, sessions, rows>>
startup == <<api, todo, current>>
process == <<pc, at, pending>>
history == <<issued, confirmed>>
vars == <<database, backup, receipts, history, startup, workersOn, process, faults>>

-----------------------------------------------------------------------------
Statuses == {"absent", "active", "deleting"}

(* Rows that refer to an account ("account" stands for accounts, sources and *)
(* evidence), and rows that carry the workspace's identifier alone.          *)
RowKinds == {"account", "credential", "free"}

Stages == {"idle", "charged", "trailing", "exchanging", "linking", "receipted", "purging",
           "maintaining"}

DatabaseType(d) ==
  /\ d.status \in [Tenants -> Statuses]
  /\ d.identity \in [Tenants -> Users \cup {None}]
  /\ d.sessions \in [Tenants -> 0..SessionCap]
  /\ d.rows \in [Tenants -> SUBSET RowKinds]

Snapshot == [status |-> status, identity |-> identity, sessions |-> sessions, rows |-> rows]

TypeOK ==
  /\ DatabaseType(Snapshot) /\ DatabaseType(backup)
  /\ receipts \subseteq Tenants /\ issued \subseteq Tenants /\ confirmed \subseteq Tenants
  /\ api \in {"down", "replaying", "up"}
  /\ todo \subseteq Tenants /\ current \in Tenants \cup {None}
  /\ workersOn \in BOOLEAN
  /\ pc \in [Processes -> Stages]
  /\ at \in [Processes -> Tenants \cup {None}]
  /\ pending \in [Processes -> SUBSET Tenants]
  /\ faults \in 0..MaxFaults

Init ==
  /\ status = [t \in Tenants |-> "absent"]
  /\ identity = [t \in Tenants |-> None]
  /\ sessions = [t \in Tenants |-> 0]
  /\ rows = [t \in Tenants |-> {}]
  /\ backup = Snapshot
  /\ receipts = {} /\ issued = {} /\ confirmed = {}
  /\ api = "down" /\ todo = {} /\ current = None
  /\ workersOn = FALSE
  /\ pc = [p \in Processes |-> "idle"]
  /\ at = [p \in Processes |-> None]
  /\ pending = [p \in Processes |-> {}]
  /\ faults = 0

-----------------------------------------------------------------------------
(* A deleting request holds the row lock from authentication to its barrier. *)
Locked(t) == \E p \in Requests : pc[p] = "receipted" /\ at[p] = t

Step(p, stage) == pc' = [pc EXCEPT ![p] = stage] /\ UNCHANGED <<at, pending>>

Start(p, t, stage) ==
  /\ pc[p] = "idle"
  /\ pc' = [pc EXCEPT ![p] = stage]
  /\ at' = [at EXCEPT ![p] = t]
  /\ UNCHANGED pending

End(p) ==
  /\ pc' = [pc EXCEPT ![p] = "idle"]
  /\ at' = [at EXCEPT ![p] = None]
  /\ pending' = [pending EXCEPT ![p] = {}]

AddRows(t, kinds) ==
  /\ rows' = [rows EXCEPT ![t] = @ \cup kinds]
  /\ UNCHANGED <<status, identity, sessions>>

(* principal: a session, and a user that is active *)
Signed(t) == api = "up" /\ sessions[t] > 0 /\ status[t] = "active"

(* workspace_write, or principal once the session has been seen: the user's *)
(* row, locked, is active.                                                  *)
Writable(t) == ~Locked(t) /\ status[t] = "active"

-----------------------------------------------------------------------------
(* finish_login's last transaction. *)

UncappedSessions(n) == IF n > SessionCap THEN SessionCap ELSE n

(* the newest nineteen are kept and one is added *)
NewestSessions(n) == IF n > SessionCap - 1 THEN SessionCap - 1 ELSE n

Without(old, t) == IF t = old /\ sessions[t] > 0 THEN sessions[t] - 1 ELSE sessions[t]

(* Signing in again.  The browser may hold a session, of this user or of another. *)
SignIn(u, old) ==
  /\ api = "up"
  /\ \E t \in Tenants :
       /\ identity[t] = u /\ Writable(t)
       /\ sessions' = [[s \in Tenants |-> Without(old, s)] EXCEPT
                         ![t] = NewestSessions(Without(old, t)) + 1]
  /\ UNCHANGED <<status, identity, rows, backup, receipts, history, startup, workersOn,
                 process, faults>>

(* An identity without a workspace gets a new one. *)
SignUp(u) ==
  /\ api = "up"
  /\ \A t \in Tenants : identity[t] # u
  /\ \E t \in Tenants \ issued :
       /\ status' = [status EXCEPT ![t] = "active"]
       /\ identity' = [identity EXCEPT ![t] = u]
       /\ sessions' = [sessions EXCEPT ![t] = 1]
       /\ issued' = issued \cup {t}
  /\ UNCHANGED <<rows, backup, receipts, confirmed, startup, workersOn, process, faults>>

(* logout, or purge_expired *)
EndSession(t) ==
  /\ api = "up" \/ workersOn
  /\ sessions[t] > 0
  /\ sessions' = [sessions EXCEPT ![t] = @ - 1]
  /\ UNCHANGED <<status, identity, rows, backup, receipts, history, startup, workersOn,
                 process, faults>>

-----------------------------------------------------------------------------
(* A request that changes something.  request_context commits the budget and *)
(* what has expired, and the lock with it, then looks at the user again.     *)

Authenticate(p, t) ==
  /\ Operations \cap {"change", "triage"} # {}
  /\ Signed(t) /\ ~Locked(t)
  /\ Start(p, t, "charged")
  /\ UNCHANGED <<database, backup, receipts, history, startup, workersOn, faults>>

OperableAnyway(t) == ~Locked(t)

Operable(t) == Writable(t) /\ sessions[t] > 0

(* The operation's first transaction, unless its own session has ended or it *)
(* is refused.  transition_incident goes on to add trusted senders; deleting *)
(* an account takes the rows that refer to it.                               *)
Operate(p) ==
  /\ pc[p] = "charged"
  /\ LET t == at[p] IN
     \/ /\ Operable(t)
        /\ \/ "change" \in Operations /\ AddRows(t, {"account", "free"}) /\ End(p)
           \/ /\ "change" \in Operations
              /\ rows' = [rows EXCEPT ![t] = {"free"}]
              /\ UNCHANGED <<status, identity, sessions>>
              /\ End(p)
           \/ "triage" \in Operations /\ AddRows(t, {"free"}) /\ Step(p, "trailing")
     \/ ~Locked(t) /\ End(p) /\ UNCHANGED database
  /\ UNCHANGED <<backup, receipts, history, startup, workersOn, faults>>

(* add_trusted_sender takes no lock and looks at no user. *)
AddTrusted(p) ==
  /\ pc[p] = "trailing"
  /\ AddRows(at[p], {"free"})
  /\ End(p)
  /\ UNCHANGED <<backup, receipts, history, startup, workersOn, faults>>

(* The Gmail callback locks the user until the consent attempt is consumed; *)
(* then it talks to Google.                                                 *)
Callback(p, t) ==
  /\ "consent" \in Operations
  /\ Signed(t) /\ ~Locked(t)
  /\ Start(p, t, "exchanging")
  /\ UNCHANGED <<database, backup, receipts, history, startup, workersOn, faults>>

(* create_account and create_source, unless both exist. *)
Link(p) ==
  /\ pc[p] = "exchanging"
  /\ LET t == at[p] IN
     \/ "account" \in rows[t] /\ Step(p, "linking") /\ UNCHANGED database
     \/ Writable(t) /\ AddRows(t, {"account"}) /\ Step(p, "linking")
     \/ ~Locked(t) /\ End(p) /\ UNCHANGED database
  /\ UNCHANGED <<backup, receipts, history, startup, workersOn, faults>>

(* the foreign key of the credential, or of the source it updates *)
ParentExists(t) == "account" \in rows[t]

(* The credential and its audit record are one transaction, without a lock. *)
StoreCredential(p) ==
  /\ pc[p] = "linking"
  /\ IF ParentExists(at[p])
     THEN AddRows(at[p], {"credential", "free"})
     ELSE UNCHANGED database
  /\ End(p)
  /\ UNCHANGED <<backup, receipts, history, startup, workersOn, faults>>

(* create_scan_job and ingest_signals, by a worker. *)
Collect(t) ==
  /\ workersOn
  /\ Writable(t) /\ "account" \in rows[t]
  /\ AddRows(t, {"free"})
  /\ UNCHANGED <<backup, receipts, history, startup, workersOn, process, faults>>

-----------------------------------------------------------------------------
(* Deletion. *)

(* purge_workspace, which raises when somebody else has purged *)
Purgeable(t) == ~Locked(t) /\ status[t] = "deleting"

Purged(t) ==
  /\ status' = [status EXCEPT ![t] = "absent"]
  /\ identity' = [identity EXCEPT ![t] = None]
  /\ sessions' = [sessions EXCEPT ![t] = 0]
  /\ rows' = [rows EXCEPT ![t] = {}]

(* a file that is renamed and synced into the ledger *)
Recorded(t) == receipts \cup {t}

Record(p, t) ==
  /\ "delete" \in Operations
  /\ Signed(t) /\ ~Locked(t)
  /\ receipts' = Recorded(t)
  /\ Start(p, t, "receipted")
  /\ UNCHANGED <<database, backup, history, startup, workersOn, faults>>

LeftSessions(t) == sessions

RevokedSessions(t) == [sessions EXCEPT ![t] = 0]

Barrier(p) ==
  /\ pc[p] = "receipted"
  /\ status' = [status EXCEPT ![at[p]] = "deleting"]
  /\ sessions' = RevokedSessions(at[p])
  /\ Step(p, "purging")
  /\ UNCHANGED <<identity, rows, backup, receipts, history, startup, workersOn, faults>>

(* The barrier's commit fails: the receipt stays, the workspace goes on. *)
BarrierFails(p) ==
  /\ pc[p] = "receipted"
  /\ faults < MaxFaults /\ faults' = faults + 1
  /\ End(p)
  /\ UNCHANGED <<database, backup, receipts, history, startup, workersOn>>

(* The answer is a success unless the worker was faster. *)
PurgeRequested(p) ==
  /\ pc[p] = "purging"
  /\ LET t == at[p] IN
     \/ Purgeable(t) /\ Purged(t) /\ confirmed' = confirmed \cup {t}
     \/ status[t] # "deleting" /\ UNCHANGED <<database, confirmed>>
  /\ End(p)
  /\ UNCHANGED <<backup, receipts, issued, startup, workersOn, faults>>

NothingPending == {}
Deleting == {t \in Tenants : status[t] = "deleting"}

(* production_maintenance reads the list, then purges one after the other. *)
ListDeleting(w) ==
  /\ workersOn /\ pc[w] = "idle"
  /\ pc' = [pc EXCEPT ![w] = "maintaining"]
  /\ pending' = [pending EXCEPT ![w] = Deleting]
  /\ UNCHANGED at
  /\ UNCHANGED <<database, backup, receipts, history, startup, workersOn, faults>>

(* A workspace that is gone by now ends the pass, and the process. *)
PurgePending(w) ==
  /\ pc[w] = "maintaining"
  /\ \/ pending[w] = {} /\ End(w) /\ UNCHANGED database
     \/ \E t \in pending[w] :
          \/ /\ Purgeable(t) /\ Purged(t)
             /\ pending' = [pending EXCEPT ![w] = @ \ {t}]
             /\ UNCHANGED <<pc, at>>
          \/ status[t] # "deleting" /\ End(w) /\ UNCHANGED database
  /\ UNCHANGED <<backup, receipts, history, startup, workersOn, faults>>

-----------------------------------------------------------------------------
(* Startup of the API: reconcile replays every receipt before it serves. *)

NothingToReplay == {}
ToReplay == receipts

StartApi ==
  /\ api = "down"
  /\ api' = "replaying" /\ todo' = ToReplay /\ current' = None
  /\ UNCHANGED <<database, backup, receipts, history, workersOn, process, faults>>

Replay(t) ==
  /\ api = "replaying" /\ current = None /\ t \in todo
  /\ todo' = todo \ {t}
  /\ IF status[t] = "absent"
     THEN UNCHANGED <<status, current>>
     ELSE status' = [status EXCEPT ![t] = "deleting"] /\ current' = t
  /\ UNCHANGED <<identity, sessions, rows, backup, receipts, history, api, workersOn,
                 process, faults>>

(* A worker that purges in between fails the startup, which is tried again. *)
ReplayPurge ==
  /\ api = "replaying" /\ current # None
  /\ \/ Purgeable(current) /\ Purged(current) /\ UNCHANGED <<api, todo>>
     \/ /\ status[current] # "deleting"
        /\ api' = "down" /\ todo' = {}
        /\ UNCHANGED database
  /\ current' = None
  /\ UNCHANGED <<backup, receipts, history, workersOn, process, faults>>

Open ==
  /\ api = "replaying" /\ current = None /\ todo = {}
  /\ api' = "up"
  /\ UNCHANGED <<database, backup, receipts, history, todo, current, workersOn, process,
                 faults>>

(* depends_on: the API is healthy first *)
StartWorkers ==
  /\ api = "up" /\ ~workersOn
  /\ workersOn' = TRUE
  /\ UNCHANGED <<database, backup, receipts, history, startup, process, faults>>

-----------------------------------------------------------------------------
Fault == faults < MaxFaults /\ faults' = faults + 1

(* The API's crash ends its requests and releases their locks. *)
CrashApi ==
  /\ api # "down" /\ Fault
  /\ api' = "down" /\ todo' = {} /\ current' = None
  /\ pc' = [p \in Processes |-> IF p \in Requests THEN "idle" ELSE pc[p]]
  /\ at' = [p \in Processes |-> IF p \in Requests THEN None ELSE at[p]]
  /\ UNCHANGED <<database, backup, receipts, history, workersOn, pending>>

CrashWorker(w) ==
  /\ pc[w] # "idle" /\ Fault
  /\ End(w)
  /\ UNCHANGED <<database, backup, receipts, history, startup, workersOn>>

(* pg_dump's snapshot *)
Backup ==
  /\ backup # Snapshot
  /\ backup' = Snapshot
  /\ UNCHANGED <<database, receipts, history, startup, workersOn, process, faults>>

(* docs/PUBLIC_DEPLOYMENT.md: everything is stopped and an archive restored, *)
(* beside the current ledger.                                                *)
Restore ==
  /\ Fault
  /\ status' = backup.status /\ identity' = backup.identity
  /\ sessions' = backup.sessions /\ rows' = backup.rows
  /\ api' = "down" /\ todo' = {} /\ current' = None
  /\ workersOn' = FALSE
  /\ pc' = [p \in Processes |-> "idle"]
  /\ at' = [p \in Processes |-> None]
  /\ pending' = [p \in Processes |-> {}]
  /\ UNCHANGED <<backup, receipts, history>>

-----------------------------------------------------------------------------
RequestStep(p) ==
  \/ \E t \in Tenants : Authenticate(p, t) \/ Callback(p, t) \/ Record(p, t)
  \/ Operate(p) \/ AddTrusted(p) \/ Link(p) \/ StoreCredential(p)
  \/ Barrier(p) \/ BarrierFails(p) \/ PurgeRequested(p)

Maintain(w) == ListDeleting(w) \/ PurgePending(w)

Startup == StartApi \/ (\E t \in Tenants : Replay(t)) \/ ReplayPurge \/ Open

Next ==
  \/ \E u \in Users : SignUp(u) \/ \E old \in Tenants \cup {None} : SignIn(u, old)
  \/ \E t \in Tenants : EndSession(t) \/ Collect(t)
  \/ \E p \in Requests : RequestStep(p)
  \/ \E w \in Workers : Maintain(w) \/ CrashWorker(w)
  \/ Startup \/ StartWorkers \/ CrashApi
  \/ Backup \/ Restore

Spec == Init /\ [][Next]_vars

(* Containers are restarted unless stopped, and workers loop for ever; a    *)
(* request that holds the row lock ends.                                    *)
Fairness ==
  /\ WF_vars(Startup) /\ WF_vars(StartWorkers)
  /\ \A w \in Workers : WF_vars(Maintain(w))
  /\ \A p \in Requests : WF_vars(Barrier(p))

LiveSpec == Spec /\ Fairness
-----------------------------------------------------------------------------
(* Properties. *)

Serving == api = "up" \/ workersOn

(* docs/PUBLIC_DEPLOYMENT.md, "The API replays receipts before becoming ready, *)
(* preventing an older backup from resurrecting deleted accounts": while the   *)
(* service runs, no workspace exists whose deletion was answered with success, *)
(* whatever crashes and whichever backup is restored.                          *)
DeletedStaysDeleted == Serving => \A t \in confirmed : status[t] = "absent"

(* delete_identity, "Barrier: no new work or sessions may enter this workspace": *)
(* no sign-in, restore or replay leaves a session of a workspace being deleted  *)
(* while requests are served.                                                   *)
NoSessionBehindBarrier ==
  api = "up" => \A t \in Tenants : status[t] = "deleting" => sessions[t] = 0

(* docs/PRIVACY_AND_RETENTION.md, "Users can delete their app identity and      *)
(* complete private workspace": nothing of a workspace is left, or arrives from *)
(* a request or worker that had begun before, once it is gone.                  *)
NothingOutlives ==
  \A t \in Tenants : status[t] = "absent" => rows[t] = {} /\ sessions[t] = 0

(* Of that, what holds beside every request, also a transition that goes on to   *)
(* trust senders without the lock: no evidence, credential or session is left or  *)
(* arrives once the workspace is gone, whatever had begun before.                 *)
NoEvidenceOutlives ==
  \A t \in Tenants : status[t] = "absent" => rows[t] \subseteq {"free"} /\ sessions[t] = 0

(* A workspace behind the barrier goes, whoever crashes first and although the  *)
(* request, the worker and the replay all purge.                                *)
DeletionCompletes ==
  \A t \in Tenants : status[t] = "deleting" ~> status[t] = "absent"
=============================================================================
