-------------------------- MODULE WorkspaceProofs --------------------------
(* Proofs about Workspace, for every value of its constants. *)
EXTENDS Workspace, TLAPS

-----------------------------------------------------------------------------
(* Types.  A request past authentication has a workspace. *)

AtDefined == \A p \in Requests : pc[p] # "idle" => at[p] \in Tenants

TypeInv == TypeOK /\ AtDefined

LEMMA InitType == Init => TypeInv
<1> SUFFICES ASSUME Init PROVE TypeInv
  OBVIOUS
<1>1. 0 \in 0..SessionCap /\ 0 \in 0..MaxFaults
  BY WorkspaceAssumption
<1>2. DatabaseType(Snapshot)
  BY <1>1 DEF Init, DatabaseType, Snapshot, Statuses
<1>3. DatabaseType(backup)
  BY <1>2 DEF Init
<1>4. /\ pc \in [Processes -> Stages] /\ at \in [Processes -> Tenants \cup {None}]
      /\ pending \in [Processes -> SUBSET Tenants] /\ AtDefined
  BY DEF Init, AtDefined, Processes, Stages
<1>5. QED
  BY <1>1, <1>2, <1>3, <1>4 DEF Init, TypeInv, TypeOK

(* The parts of a step. *)
LEMMA StartType ==
  ASSUME TypeInv, NEW p \in Processes, NEW t \in Tenants, NEW stage \in Stages,
         Start(p, t, stage)
  PROVE  /\ pc' \in [Processes -> Stages] /\ at' \in [Processes -> Tenants \cup {None}]
         /\ pending' \in [Processes -> SUBSET Tenants] /\ AtDefined'
  BY DEF TypeInv, TypeOK, AtDefined, Start, Processes

LEMMA EndType ==
  ASSUME TypeInv, NEW p \in Processes, End(p)
  PROVE  /\ pc' \in [Processes -> Stages] /\ at' \in [Processes -> Tenants \cup {None}]
         /\ pending' \in [Processes -> SUBSET Tenants] /\ AtDefined'
  BY DEF TypeInv, TypeOK, AtDefined, End, Processes, Stages

LEMMA StepType ==
  ASSUME TypeInv, NEW p \in Requests, NEW stage \in Stages, Step(p, stage), pc[p] # "idle"
  PROVE  /\ pc' \in [Processes -> Stages] /\ at' \in [Processes -> Tenants \cup {None}]
         /\ pending' \in [Processes -> SUBSET Tenants] /\ AtDefined'
  BY DEF TypeInv, TypeOK, AtDefined, Step, Processes

LEMMA AddRowsType ==
  ASSUME TypeInv, NEW t \in Tenants, NEW kinds \in SUBSET RowKinds, AddRows(t, kinds)
  PROVE  DatabaseType(Snapshot)'
  BY DEF TypeInv, TypeOK, DatabaseType, Snapshot, AddRows

LEMMA PurgedType ==
  ASSUME TypeInv, NEW t \in Tenants, Purged(t)
  PROVE  DatabaseType(Snapshot)'
  BY WorkspaceAssumption DEF TypeInv, TypeOK, DatabaseType, Snapshot, Purged, Statuses

LEMMA SessionsType ==
  ASSUME TypeInv, NEW old
  PROVE  \A t \in Tenants : /\ Without(old, t) \in 0..SessionCap
                            /\ NewestSessions(Without(old, t)) + 1 \in 0..SessionCap
  BY WorkspaceAssumption DEF TypeInv, TypeOK, DatabaseType, Snapshot, Without, NewestSessions

-----------------------------------------------------------------------------
LEMMA SignType ==
  ASSUME TypeInv, NEW u \in Users, SignUp(u) \/ \E old \in Tenants \cup {None} : SignIn(u, old)
  PROVE  TypeInv'
<1>1. CASE SignUp(u)
  <2>1. 1 \in 0..SessionCap
    BY WorkspaceAssumption
  <2>2. DatabaseType(Snapshot)'
    BY <1>1, <2>1 DEF SignUp, TypeInv, TypeOK, DatabaseType, Snapshot, Statuses
  <2>3. issued' \subseteq Tenants
    BY <1>1 DEF SignUp, TypeInv, TypeOK
  <2>4. QED
    BY <1>1, <2>2, <2>3 DEF SignUp, TypeInv, TypeOK, AtDefined, process, startup
<1>2. ASSUME NEW old \in Tenants \cup {None}, SignIn(u, old) PROVE TypeInv'
  BY <1>2, SessionsType
  DEF SignIn, TypeInv, TypeOK, DatabaseType, Snapshot, AtDefined, process, startup, history
<1>3. QED BY <1>1, <1>2

LEMMA RowsType ==
  ASSUME TypeInv, NEW t \in Tenants, EndSession(t) \/ Collect(t)
  PROVE  TypeInv'
<1>1. CASE EndSession(t)
  <2>1. sessions[t] - 1 \in 0..SessionCap
    BY <1>1, WorkspaceAssumption DEF EndSession, TypeInv, TypeOK, DatabaseType, Snapshot
  <2>2. DatabaseType(Snapshot)'
    BY <1>1, <2>1 DEF EndSession, TypeInv, TypeOK, DatabaseType, Snapshot
  <2>3. QED
    BY <1>1, <2>2 DEF EndSession, TypeInv, TypeOK, AtDefined, process, startup, history
<1>2. CASE Collect(t)
  BY <1>2, AddRowsType DEF Collect, TypeInv, TypeOK, AtDefined, RowKinds, process, startup,
                           history
<1>3. QED BY <1>1, <1>2


LEMMA RequestType ==
  ASSUME TypeInv, NEW p \in Requests, RequestStep(p)
  PROVE  TypeInv'
<1> USE DEF RequestStep
<1>0. p \in Processes
  BY DEF Processes
<1>1. ASSUME NEW t \in Tenants, Authenticate(p, t) \/ Callback(p, t)
      PROVE  TypeInv'
  <2>1. Start(p, t, "charged") \/ Start(p, t, "exchanging")
    BY <1>1 DEF Authenticate, Callback
  <2>2. UNCHANGED <<database, backup, receipts, history, startup, workersOn, faults>>
    BY <1>1 DEF Authenticate, Callback
  <2>3. QED
    BY <1>0, <2>1, <2>2, StartType
    DEF TypeInv, TypeOK, DatabaseType, Snapshot, database, history, startup, Stages
<1>2. ASSUME NEW t \in Tenants, Record(p, t)
      PROVE  TypeInv'
  BY <1>0, <1>2, StartType
  DEF Record, Recorded, TypeInv, TypeOK, DatabaseType, Snapshot, database, history, startup,
      Stages
<1>3. CASE Operate(p)
  <2>1. at[p] \in Tenants
    BY <1>3 DEF Operate, TypeInv, AtDefined
  <2>2. DatabaseType(Snapshot)'
    <3>1. CASE AddRows(at[p], {"account", "free"}) \/ AddRows(at[p], {"free"})
      BY <2>1, <3>1, AddRowsType DEF RowKinds
    <3>2. CASE /\ rows' = [rows EXCEPT ![at[p]] = {"free"}]
               /\ UNCHANGED <<status, identity, sessions>>
      BY <2>1, <3>2 DEF TypeInv, TypeOK, DatabaseType, Snapshot, RowKinds
    <3>3. CASE UNCHANGED database
      BY <3>3 DEF TypeInv, TypeOK, DatabaseType, Snapshot, database
    <3>4. QED BY <1>3, <3>1, <3>2, <3>3 DEF Operate
  <2>3. End(p) \/ Step(p, "trailing")
    BY <1>3 DEF Operate
  <2>4. pc[p] # "idle" /\ UNCHANGED <<backup, receipts, history, startup, workersOn, faults>>
    BY <1>3 DEF Operate
  <2>5. QED
    BY <1>0, <2>2, <2>3, <2>4, EndType, StepType
    DEF TypeInv, TypeOK, history, startup, Stages
<1>4. CASE AddTrusted(p)
  <2>1. at[p] \in Tenants
    BY <1>4 DEF AddTrusted, TypeInv, AtDefined
  <2>2. QED
    BY <1>0, <1>4, <2>1, AddRowsType, EndType
    DEF AddTrusted, TypeInv, TypeOK, history, startup, RowKinds
<1>5. CASE Link(p)
  <2>1. at[p] \in Tenants
    BY <1>5 DEF Link, TypeInv, AtDefined
  <2>2. DatabaseType(Snapshot)'
    BY <1>5, <2>1, AddRowsType
    DEF Link, TypeInv, TypeOK, DatabaseType, Snapshot, database, RowKinds
  <2>3. End(p) \/ Step(p, "linking")
    BY <1>5 DEF Link
  <2>4. pc[p] # "idle" /\ UNCHANGED <<backup, receipts, history, startup, workersOn, faults>>
    BY <1>5 DEF Link
  <2>5. QED
    BY <1>0, <2>2, <2>3, <2>4, EndType, StepType
    DEF TypeInv, TypeOK, history, startup, Stages
<1>6. CASE StoreCredential(p)
  <2>1. at[p] \in Tenants
    BY <1>6 DEF StoreCredential, TypeInv, AtDefined
  <2>2. DatabaseType(Snapshot)'
    BY <1>6, <2>1, AddRowsType
    DEF StoreCredential, TypeInv, TypeOK, DatabaseType, Snapshot, database, RowKinds
  <2>3. End(p) /\ UNCHANGED <<backup, receipts, history, startup, workersOn, faults>>
    BY <1>6 DEF StoreCredential
  <2>4. QED
    BY <1>0, <2>2, <2>3, EndType DEF TypeInv, TypeOK, history, startup
<1>7. CASE Barrier(p)
  <2>1. at[p] \in Tenants /\ Step(p, "purging") /\ pc[p] # "idle"
    BY <1>7 DEF Barrier, TypeInv, AtDefined
  <2>2. DatabaseType(Snapshot)'
    BY <1>7, <2>1, WorkspaceAssumption
    DEF Barrier, RevokedSessions, TypeInv, TypeOK, DatabaseType, Snapshot, Statuses
  <2>3. QED
    BY <1>7, <2>1, <2>2, StepType
    DEF Barrier, TypeInv, TypeOK, history, startup, Stages
<1>8. CASE BarrierFails(p)
  <2>1. faults' \in 0..MaxFaults
    BY <1>8, WorkspaceAssumption DEF BarrierFails, TypeInv, TypeOK
  <2>2. QED
    BY <1>0, <1>8, <2>1, EndType
    DEF BarrierFails, TypeInv, TypeOK, DatabaseType, Snapshot, database, history, startup
<1>9. CASE PurgeRequested(p)
  <2>1. at[p] \in Tenants /\ End(p)
    BY <1>9 DEF PurgeRequested, TypeInv, AtDefined
  <2>2. DatabaseType(Snapshot)' /\ confirmed' \subseteq Tenants
    BY <1>9, <2>1, PurgedType
    DEF PurgeRequested, TypeInv, TypeOK, DatabaseType, Snapshot, database
  <2>3. QED
    BY <1>0, <1>9, <2>1, <2>2, EndType DEF PurgeRequested, TypeInv, TypeOK, startup
<1>10. QED
  BY <1>1, <1>2, <1>3, <1>4, <1>5, <1>6, <1>7, <1>8, <1>9

LEMMA MaintainType ==
  ASSUME TypeInv, NEW w \in Workers, Maintain(w) \/ CrashWorker(w)
  PROVE  TypeInv'
<1>0. w \in Processes /\ w \notin Requests
  BY WorkspaceAssumption DEF Processes
<1>1. CASE ListDeleting(w)
  BY <1>0, <1>1
  DEF ListDeleting, Deleting, TypeInv, TypeOK, DatabaseType, Snapshot, AtDefined, Stages,
      database, history, startup
<1>2. CASE PurgePending(w)
  <2>1. CASE End(w) /\ UNCHANGED database
    BY <1>0, <1>2, <2>1, EndType
    DEF PurgePending, TypeInv, TypeOK, DatabaseType, Snapshot, database, history, startup
  <2>2. ASSUME NEW t \in Tenants, Purged(t),
               pending' = [pending EXCEPT ![w] = @ \ {t}], UNCHANGED <<pc, at>>
        PROVE  TypeInv'
    BY <1>0, <1>2, <2>2, PurgedType
    DEF PurgePending, TypeInv, TypeOK, AtDefined, history, startup
  <2>3. pending[w] \subseteq Tenants
    BY <1>0 DEF TypeInv, TypeOK
  <2>4. QED BY <1>2, <2>1, <2>2, <2>3 DEF PurgePending
<1>3. CASE CrashWorker(w)
  <2>1. faults' \in 0..MaxFaults
    BY <1>3, WorkspaceAssumption DEF CrashWorker, Fault, TypeInv, TypeOK
  <2>2. QED
    BY <1>0, <1>3, <2>1, EndType
    DEF CrashWorker, TypeInv, TypeOK, DatabaseType, Snapshot, database, history, startup
<1>4. QED BY <1>1, <1>2, <1>3 DEF Maintain

LEMMA StartupType ==
  ASSUME TypeInv, Startup \/ StartWorkers
  PROVE  TypeInv'
<1> USE DEF TypeInv, TypeOK, AtDefined, process, history
<1>1. CASE StartApi \/ Open \/ StartWorkers
  BY <1>1 DEF StartApi, ToReplay, Open, StartWorkers, DatabaseType, Snapshot, database, startup
<1>2. ASSUME NEW t \in Tenants, Replay(t) PROVE TypeInv'
  BY <1>2 DEF Replay, DatabaseType, Snapshot, Statuses
<1>3. CASE ReplayPurge
  <2>1. DatabaseType(Snapshot)'
    BY <1>3, PurgedType DEF ReplayPurge, DatabaseType, Snapshot, database
  <2>2. QED
    BY <1>3, <2>1 DEF ReplayPurge
<1>4. QED BY <1>1, <1>2, <1>3 DEF Startup

LEMMA OutageType ==
  ASSUME TypeInv, CrashApi \/ Backup \/ Restore
  PROVE  TypeInv'
<1>0. Fault => faults' \in 0..MaxFaults
  BY WorkspaceAssumption DEF Fault, TypeInv, TypeOK
<1>1. CASE CrashApi
  <2>1. /\ pc' \in [Processes -> Stages] /\ at' \in [Processes -> Tenants \cup {None}]
        /\ AtDefined'
    BY <1>1 DEF CrashApi, TypeInv, TypeOK, AtDefined, Processes, Stages
  <2>2. QED
    BY <1>0, <1>1, <2>1
    DEF CrashApi, TypeInv, TypeOK, DatabaseType, Snapshot, database, history
<1>2. CASE Backup
  <2>1. DatabaseType(Snapshot)' /\ DatabaseType(backup)'
    <3>1. UNCHANGED <<status, identity, sessions, rows>> /\ backup' = Snapshot
      BY <1>2 DEF Backup, database
    <3>2. QED
      BY <3>1 DEF TypeInv, TypeOK, DatabaseType, Snapshot
  <2>3. QED
    BY <1>2, <2>1 DEF Backup, TypeInv, TypeOK, AtDefined, history, startup, process
<1>3. CASE Restore
  <2>1. DatabaseType(Snapshot)' /\ DatabaseType(backup)'
    BY <1>3 DEF Restore, TypeInv, TypeOK, DatabaseType, Snapshot
  <2>2. /\ pc' \in [Processes -> Stages] /\ at' \in [Processes -> Tenants \cup {None}]
        /\ pending' \in [Processes -> SUBSET Tenants] /\ AtDefined'
    BY <1>3 DEF Restore, AtDefined, Processes, Stages
  <2>3. QED
    BY <1>0, <1>3, <2>1, <2>2 DEF Restore, TypeInv, TypeOK, history
<1>4. QED BY <1>1, <1>2, <1>3

LEMMA NextType == TypeInv /\ [Next]_vars => TypeInv'
<1> SUFFICES ASSUME TypeInv, [Next]_vars PROVE TypeInv'
  OBVIOUS
<1>1. CASE UNCHANGED vars
  BY <1>1
  DEF vars, database, history, startup, process, TypeInv, TypeOK, DatabaseType, Snapshot,
      AtDefined
<1>2. CASE Next
  BY <1>2, SignType, RowsType, RequestType, MaintainType, StartupType, OutageType DEF Next
<1>3. QED BY <1>1, <1>2

LEMMA TypesHold == Spec => []TypeInv
  BY InitType, NextType, PTL DEF Spec

(* Every variable keeps its type; a user never has more than SessionCap sessions, *)
(* whatever browsers sign in concurrently and whichever backup is restored.       *)
THEOREM TypeCorrect == Spec => []TypeOK
  BY TypesHold, PTL DEF TypeInv
-----------------------------------------------------------------------------
(* Deletion.  What makes a confirmed deletion survive is its receipt: it     *)
(* outlasts the database, and nothing is served before it has been replayed. *)

(* The database, and every backup of it, knows no workspace that was never  *)
(* issued and none behind the barrier that has no receipt.                  *)
ReceiptsKept ==
  /\ confirmed \subseteq receipts /\ receipts \subseteq issued
  /\ \A t \in Tenants :
       /\ status[t] # "absent" => t \in issued
       /\ backup.status[t] # "absent" => t \in issued
       /\ status[t] = "deleting" => t \in receipts
       /\ backup.status[t] = "deleting" => t \in receipts

(* A request between its receipt and its barrier has an active user locked. *)
BarrierAhead ==
  /\ \A p \in Requests :
       /\ pc[p] # "idle" => api = "up"
       /\ pc[p] \in {"receipted", "purging"} => at[p] \in receipts
       /\ pc[p] = "receipted" => status[at[p]] = "active"
  /\ \A p, q \in Requests :
       pc[p] = "receipted" /\ pc[q] = "receipted" /\ at[p] = at[q] => p = q

(* During startup a receipt is still to be replayed or has been. *)
Replayed ==
  api = "replaying" =>
    /\ todo \subseteq receipts
    /\ \A t \in receipts : t \in todo \/ t = current \/ status[t] = "absent"

DeletionInv == ReceiptsKept /\ BarrierAhead /\ Replayed /\ DeletedStaysDeleted

LEMMA InitDeletion == Init => DeletionInv
<1>1. Init => ReceiptsKept
  BY DEF Init, ReceiptsKept, Snapshot
<1>2. Init => BarrierAhead
  BY DEF Init, BarrierAhead, Processes
<1>3. Init => Replayed /\ DeletedStaysDeleted
  BY DEF Init, Replayed, DeletedStaysDeleted
<1>4. QED BY <1>1, <1>2, <1>3 DEF DeletionInv

(* What a process may do to its own step and workspace. *)
Onward ==
  \A p \in Requests :
    /\ pc'[p] # "idle" => api = "up"
    /\ pc'[p] \in {"receipted", "purging"} => pc'[p] = pc[p] /\ at'[p] = at[p]

LEMMA QuietStep ==
  ASSUME DeletionInv, Onward,
         UNCHANGED <<status, backup, receipts, history, startup, workersOn>>
  PROVE  DeletionInv'
<1>1. ReceiptsKept'
  BY DEF DeletionInv, ReceiptsKept, history
<1>2. BarrierAhead'
  BY DEF DeletionInv, BarrierAhead, Onward, startup
<1>3. Replayed'
  BY DEF DeletionInv, Replayed, startup
<1>4. DeletedStaysDeleted'
  BY DEF DeletionInv, DeletedStaysDeleted, Serving, history, startup
<1>5. QED BY <1>1, <1>2, <1>3, <1>4 DEF DeletionInv

LEMMA PurgeStep ==
  ASSUME TypeInv, DeletionInv, NEW t \in Tenants, Purgeable(t), Purged(t), Onward,
         UNCHANGED <<backup, receipts, issued, api, todo, workersOn>>,
         confirmed' = confirmed \/ confirmed' = confirmed \cup {t},
         current' = current \/ current = t
  PROVE  DeletionInv'
<1>1. t \in receipts /\ status' = [status EXCEPT ![t] = "absent"] /\ status[t] = "deleting"
  BY DEF DeletionInv, ReceiptsKept, Purgeable, Purged
<1>2. status'[t] = "absent" /\ \A s \in Tenants \ {t} : status'[s] = status[s]
  BY <1>1 DEF TypeInv, TypeOK, DatabaseType, Snapshot
<1>3. ReceiptsKept'
  BY <1>1, <1>2 DEF DeletionInv, ReceiptsKept
<1>4. BarrierAhead'
  <2>1. ASSUME NEW p \in Requests, pc'[p] = "receipted" PROVE status'[at'[p]] = "active"
    BY <1>1, <1>2, <2>1 DEF DeletionInv, BarrierAhead, Onward, TypeInv, AtDefined
  <2>2. QED BY <2>1 DEF DeletionInv, BarrierAhead, Onward
<1>5. Replayed'
  BY <1>2 DEF DeletionInv, Replayed, TypeInv, TypeOK
<1>6. DeletedStaysDeleted'
  BY <1>2 DEF DeletionInv, DeletedStaysDeleted, Serving, TypeInv, TypeOK
<1>7. QED BY <1>3, <1>4, <1>5, <1>6 DEF DeletionInv

LEMMA EndIsOnward ==
  ASSUME TypeInv, DeletionInv, NEW p \in Processes, End(p)
  PROVE  Onward
  BY DEF TypeInv, TypeOK, DeletionInv, BarrierAhead, Onward, End, Processes

LEMMA StepIsOnward ==
  ASSUME TypeInv, DeletionInv, NEW p \in Requests, NEW stage, Step(p, stage),
         stage \in {"trailing", "linking"}, pc[p] # "idle"
  PROVE  Onward
  BY DEF TypeInv, TypeOK, DeletionInv, BarrierAhead, Onward, Step, Processes

LEMMA StartIsOnward ==
  ASSUME TypeInv, DeletionInv, NEW p \in Requests, NEW t \in Tenants, NEW stage,
         Start(p, t, stage), stage \in {"charged", "exchanging"}, api = "up"
  PROVE  Onward
  BY DEF TypeInv, TypeOK, DeletionInv, BarrierAhead, Onward, Start, Processes

LEMMA SignUpDeletion ==
  ASSUME TypeInv, DeletionInv, NEW u \in Users, SignUp(u)
  PROVE  DeletionInv'
<1>1. PICK t \in Tenants \ issued :
        /\ status' = [status EXCEPT ![t] = "active"] /\ issued' = issued \cup {t}
  BY DEF SignUp
<1>2. status'[t] = "active" /\ \A s \in Tenants \ {t} : status'[s] = status[s]
  BY <1>1 DEF TypeInv, TypeOK, DatabaseType, Snapshot
<1>3. UNCHANGED <<backup, receipts, confirmed, api, todo, current, workersOn, pc, at>>
  BY DEF SignUp, startup, process
<1>4. t \notin receipts /\ t \notin confirmed
  BY <1>1 DEF DeletionInv, ReceiptsKept
<1>5. ReceiptsKept'
  BY <1>1, <1>2, <1>3 DEF DeletionInv, ReceiptsKept
<1>6. BarrierAhead'
  BY <1>2, <1>3, <1>4 DEF DeletionInv, BarrierAhead, TypeInv, AtDefined
<1>7. Replayed'
  BY <1>3 DEF SignUp, Replayed
<1>8. DeletedStaysDeleted'
  BY <1>2, <1>3, <1>4 DEF DeletionInv, DeletedStaysDeleted, Serving, TypeInv, TypeOK
<1>9. QED BY <1>5, <1>6, <1>7, <1>8 DEF DeletionInv

LEMMA RecordDeletion ==
  ASSUME TypeInv, DeletionInv, NEW p \in Requests, NEW t \in Tenants, Record(p, t)
  PROVE  DeletionInv'
<1>1. /\ api = "up" /\ status[t] = "active" /\ ~Locked(t) /\ receipts' = receipts \cup {t}
      /\ UNCHANGED <<status, backup, issued, confirmed, api, todo, current, workersOn>>
  BY DEF Record, Recorded, Signed, database, history, startup
<1>2. /\ pc' = [pc EXCEPT ![p] = "receipted"] /\ at' = [at EXCEPT ![p] = t]
  BY DEF Record, Start
<1>3. ReceiptsKept'
  BY <1>1 DEF DeletionInv, ReceiptsKept
<1>4. BarrierAhead'
  <2>1. /\ pc'[p] = "receipted" /\ at'[p] = t
        /\ \A q \in Requests \ {p} : pc'[q] = pc[q] /\ at'[q] = at[q]
    BY <1>2 DEF TypeInv, TypeOK, Processes
  <2>2. \A q \in Requests : ~(pc[q] = "receipted" /\ at[q] = t)
    BY <1>1 DEF Locked
  <2>3. QED BY <1>1, <2>1, <2>2 DEF DeletionInv, BarrierAhead
<1>5. Replayed' /\ DeletedStaysDeleted'
  BY <1>1 DEF DeletionInv, DeletedStaysDeleted, Serving, Replayed
<1>6. QED BY <1>3, <1>4, <1>5 DEF DeletionInv

LEMMA BarrierDeletion ==
  ASSUME TypeInv, DeletionInv, NEW p \in Requests, Barrier(p)
  PROVE  DeletionInv'
<1> DEFINE t == at[p]
<1>1. pc[p] = "receipted" /\ api = "up" /\ t \in receipts /\ t \in Tenants
  BY DEF Barrier, DeletionInv, BarrierAhead, TypeInv, AtDefined
<1>2. status[t] = "active"
  BY <1>1 DEF DeletionInv, BarrierAhead
<1>3. status'[t] = "deleting" /\ \A s \in Tenants \ {t} : status'[s] = status[s]
  BY <1>1 DEF Barrier, TypeInv, TypeOK, DatabaseType, Snapshot
<1>4. UNCHANGED <<backup, receipts, issued, confirmed, api, todo, current, workersOn, at>>
  BY DEF Barrier, Step, history, startup
<1>5. pc'[p] = "purging" /\ \A q \in Requests \ {p} : pc'[q] = pc[q]
  BY DEF Barrier, Step, TypeInv, TypeOK, Processes
<1>6. ReceiptsKept'
  BY <1>1, <1>3, <1>4 DEF DeletionInv, ReceiptsKept
<1>7. BarrierAhead'
  <2>1. ASSUME NEW q \in Requests, pc'[q] = "receipted" PROVE status'[at'[q]] = "active"
    <3>1. q # p /\ pc[q] = "receipted"
      BY <1>5, <2>1
    <3>2. at[q] # t /\ at[q] \in Tenants
      BY <1>1, <3>1 DEF DeletionInv, BarrierAhead, TypeInv, AtDefined
    <3>3. QED BY <1>3, <1>4, <3>1, <3>2 DEF DeletionInv, BarrierAhead
  <2>2. QED BY <1>1, <1>4, <1>5, <2>1 DEF DeletionInv, BarrierAhead
<1>8. Replayed'
  BY <1>1, <1>4 DEF Replayed
<1>9. DeletedStaysDeleted'
  <2>1. t \notin confirmed
    BY <1>1, <1>2 DEF DeletionInv, DeletedStaysDeleted, Serving
  <2>2. QED
    BY <1>3, <1>4, <2>1 DEF DeletionInv, DeletedStaysDeleted, Serving, TypeInv, TypeOK
<1>10. QED BY <1>6, <1>7, <1>8, <1>9 DEF DeletionInv

LEMMA RequestDeletion ==
  ASSUME TypeInv, DeletionInv, NEW p \in Requests, RequestStep(p)
  PROVE  DeletionInv'
<1>0. p \in Processes
  BY DEF Processes
<1>1. ASSUME NEW t \in Tenants, Authenticate(p, t) \/ Callback(p, t) PROVE DeletionInv'
  <2>1. api = "up" /\ (Start(p, t, "charged") \/ Start(p, t, "exchanging"))
    BY <1>1 DEF Authenticate, Callback, Signed
  <2>2. Onward
    BY <2>1, StartIsOnward
  <2>3. QED
    BY <1>1, <2>2, QuietStep DEF Authenticate, Callback, database
<1>2. CASE Operate(p) \/ AddTrusted(p) \/ Link(p) \/ StoreCredential(p)
  <2>1. pc[p] # "idle" /\ (End(p) \/ Step(p, "trailing") \/ Step(p, "linking"))
    BY <1>2 DEF Operate, AddTrusted, Link, StoreCredential
  <2>2. Onward
    BY <1>0, <2>1, EndIsOnward, StepIsOnward
  <2>3. UNCHANGED <<status, backup, receipts, history, startup, workersOn>>
    BY <1>2 DEF Operate, AddTrusted, Link, StoreCredential, AddRows, database
  <2>4. QED
    BY <2>2, <2>3, QuietStep
<1>3. CASE BarrierFails(p)
  BY <1>0, <1>3, EndIsOnward, QuietStep DEF BarrierFails, database
<1>4. CASE PurgeRequested(p)
  <2>1. at[p] \in Tenants /\ End(p) /\ Onward
    BY <1>0, <1>4, EndIsOnward DEF PurgeRequested, TypeInv, AtDefined
  <2>2. CASE Purgeable(at[p]) /\ Purged(at[p]) /\ confirmed' = confirmed \cup {at[p]}
    <3>1. UNCHANGED <<backup, receipts, issued, api, todo, current, workersOn>>
      BY <1>4 DEF PurgeRequested, startup
    <3>2. QED BY <2>1, <2>2, <3>1, PurgeStep
  <2>3. CASE UNCHANGED <<database, confirmed>>
    BY <1>4, <2>1, <2>3, QuietStep DEF PurgeRequested, database, history
  <2>4. QED BY <1>4, <2>2, <2>3 DEF PurgeRequested
<1>5. QED
  BY <1>1, <1>2, <1>3, <1>4, RecordDeletion, BarrierDeletion DEF RequestStep

LEMMA MaintainDeletion ==
  ASSUME TypeInv, DeletionInv, NEW w \in Workers, Maintain(w) \/ CrashWorker(w)
  PROVE  DeletionInv'
<1>0. w \in Processes /\ w \notin Requests
  BY WorkspaceAssumption DEF Processes
<1>1. CASE ListDeleting(w)
  <2>1. Onward
    BY <1>0, <1>1
    DEF ListDeleting, Onward, DeletionInv, BarrierAhead, TypeInv, TypeOK, Processes
  <2>2. QED BY <1>1, <2>1, QuietStep DEF ListDeleting, database
<1>2. CASE PurgePending(w)
  <2>1. CASE End(w) /\ UNCHANGED database
    BY <1>0, <1>2, <2>1, EndIsOnward, QuietStep DEF PurgePending, database
  <2>2. ASSUME NEW t \in Tenants, Purgeable(t), Purged(t), UNCHANGED <<pc, at>>
        PROVE  DeletionInv'
    <3>1. Onward
      BY <2>2 DEF Onward, DeletionInv, BarrierAhead
    <3>2. UNCHANGED <<backup, receipts, issued, confirmed, api, todo, current, workersOn>>
      BY <1>2 DEF PurgePending, history, startup
    <3>3. QED BY <2>2, <3>1, <3>2, PurgeStep
  <2>3. pending[w] \subseteq Tenants
    BY <1>0 DEF TypeInv, TypeOK
  <2>4. QED BY <1>2, <2>1, <2>2, <2>3 DEF PurgePending
<1>3. CASE CrashWorker(w)
  BY <1>0, <1>3, EndIsOnward, QuietStep DEF CrashWorker, database
<1>4. QED BY <1>1, <1>2, <1>3 DEF Maintain

LEMMA StartupDeletion ==
  ASSUME TypeInv, DeletionInv, Startup \/ StartWorkers
  PROVE  DeletionInv'
<1> USE DEF DeletionInv
<1>1. CASE StartApi
  BY <1>1
  DEF StartApi, ToReplay, ReceiptsKept, BarrierAhead, Replayed, DeletedStaysDeleted, Serving,
      database, history, process
<1>2. ASSUME NEW t \in Tenants, Replay(t) PROVE DeletionInv'
  <2>1. /\ api = "replaying" /\ current = None /\ t \in todo /\ todo' = todo \ {t}
        /\ UNCHANGED <<backup, receipts, issued, confirmed, api, workersOn, pc, at>>
    BY <1>2 DEF Replay, history, process
  <2>2. CASE status[t] = "absent" /\ UNCHANGED <<status, current>>
    BY <2>1, <2>2 DEF ReceiptsKept, BarrierAhead, Replayed, DeletedStaysDeleted, Serving
  <2>3. CASE status[t] # "absent" /\ status' = [status EXCEPT ![t] = "deleting"] /\ current' = t
    <3>1. status'[t] = "deleting" /\ \A s \in Tenants \ {t} : status'[s] = status[s]
      BY <2>3 DEF TypeInv, TypeOK, DatabaseType, Snapshot
    <3>2. t \in receipts
      BY <2>1 DEF Replayed
    <3>3. ReceiptsKept'
      BY <2>1, <3>1, <3>2 DEF ReceiptsKept
    <3>4. BarrierAhead'
      BY <2>1 DEF BarrierAhead
    <3>5. Replayed'
      BY <2>1, <2>3, <3>1, WorkspaceAssumption DEF Replayed, TypeInv, TypeOK
    <3>6. DeletedStaysDeleted'
      BY <2>1, <2>3, <3>1 DEF DeletedStaysDeleted, Serving, TypeInv, TypeOK
    <3>7. QED BY <3>3, <3>4, <3>5, <3>6
  <2>4. QED BY <1>2, <2>2, <2>3 DEF Replay
<1>3. CASE ReplayPurge
  <2>1. /\ api = "replaying" /\ current \in Tenants /\ current' = None
        /\ UNCHANGED <<backup, receipts, issued, confirmed, workersOn, pc, at>>
    BY <1>3 DEF ReplayPurge, history, process, TypeInv, TypeOK
  <2>2. CASE Purgeable(current) /\ Purged(current) /\ UNCHANGED <<api, todo>>
    <3>1. Onward
      BY <2>1 DEF Onward, BarrierAhead
    <3>2. QED BY <2>1, <2>2, <3>1, PurgeStep
  <2>3. CASE api' = "down" /\ UNCHANGED database
    BY <2>1, <2>3
    DEF database, ReceiptsKept, BarrierAhead, Replayed, DeletedStaysDeleted, Serving
  <2>4. QED BY <1>3, <2>2, <2>3 DEF ReplayPurge
<1>4. CASE Open
  <2>1. \A t \in receipts : status[t] = "absent"
    BY <1>4, WorkspaceAssumption DEF Open, Replayed, TypeInv, TypeOK
  <2>2. QED
    BY <1>4, <2>1
    DEF Open, ReceiptsKept, BarrierAhead, Replayed, DeletedStaysDeleted, Serving, database,
        history, process
<1>5. CASE StartWorkers
  BY <1>5
  DEF StartWorkers, ReceiptsKept, BarrierAhead, Replayed, DeletedStaysDeleted, Serving,
      database, history, startup, process
<1>6. QED BY <1>1, <1>2, <1>3, <1>4, <1>5 DEF Startup

LEMMA OutageDeletion ==
  ASSUME TypeInv, DeletionInv, CrashApi \/ Backup \/ Restore
  PROVE  DeletionInv'
<1> USE DEF DeletionInv
<1>1. CASE CrashApi
  <2>1. \A p \in Requests : pc'[p] = "idle"
    BY <1>1 DEF CrashApi, Processes
  <2>2. QED
    BY <1>1, <2>1
    DEF CrashApi, ReceiptsKept, BarrierAhead, Replayed, DeletedStaysDeleted, Serving,
        database, history
<1>2. CASE Backup
  <2>1. UNCHANGED <<status, receipts, issued, confirmed, api, todo, current, workersOn, pc, at>>
    BY <1>2 DEF Backup, database, history, startup, process
  <2>2. backup'.status = status
    BY <1>2 DEF Backup, Snapshot
  <2>3. QED
    BY <2>1, <2>2 DEF ReceiptsKept, BarrierAhead, Replayed, DeletedStaysDeleted, Serving
<1>3. CASE Restore
  <2>1. \A p \in Requests : pc'[p] = "idle"
    BY <1>3 DEF Restore, Processes
  <2>2. QED
    BY <1>3, <2>1
    DEF Restore, ReceiptsKept, BarrierAhead, Replayed, DeletedStaysDeleted, Serving, history
<1>4. QED BY <1>1, <1>2, <1>3

LEMMA DeletionStep == TypeInv /\ DeletionInv /\ [Next]_vars => DeletionInv'
<1> SUFFICES ASSUME TypeInv, DeletionInv, [Next]_vars PROVE DeletionInv'
  OBVIOUS
<1>1. CASE UNCHANGED vars
  <2>1. Onward
    BY <1>1 DEF vars, process, Onward, DeletionInv, BarrierAhead
  <2>2. QED BY <1>1, <2>1, QuietStep DEF vars, database
<1>2. ASSUME NEW u \in Users, NEW old \in Tenants \cup {None}, SignIn(u, old)
      PROVE  DeletionInv'
  <2>1. Onward
    BY <1>2 DEF SignIn, process, Onward, DeletionInv, BarrierAhead
  <2>2. QED BY <1>2, <2>1, QuietStep DEF SignIn
<1>3. ASSUME NEW t \in Tenants, EndSession(t) \/ Collect(t) PROVE DeletionInv'
  <2>1. Onward
    BY <1>3 DEF EndSession, Collect, process, Onward, DeletionInv, BarrierAhead
  <2>2. QED BY <1>3, <2>1, QuietStep DEF EndSession, Collect, AddRows
<1>4. QED
  BY <1>1, <1>2, <1>3, SignUpDeletion, RequestDeletion, MaintainDeletion, StartupDeletion,
     OutageDeletion DEF Next

LEMMA DeletionHolds == Spec => []DeletionInv
  BY InitDeletion, DeletionStep, TypesHold, PTL DEF Spec

(* While the service runs, no workspace exists whose deletion was confirmed: the *)
(* receipt outlasts crashes, failed commits and restored backups.                *)
THEOREM DeletionIsFinal == Spec => []DeletedStaysDeleted
  BY DeletionHolds, PTL DEF DeletionInv

-----------------------------------------------------------------------------
(* Sessions.  A barrier takes them, a sign-in needs an active user, and what a *)
(* backup brings back is purged before the API opens.                          *)

LEMMA SessionsOnlyFall ==
  ASSUME TypeInv, NEW old, NEW t \in Tenants, sessions[t] = 0
  PROVE  Without(old, t) = 0
  BY DEF Without

LEMMA BarrierStep ==
  TypeInv /\ DeletionInv /\ NoSessionBehindBarrier /\ [Next]_vars => NoSessionBehindBarrier'
<1> SUFFICES ASSUME TypeInv, DeletionInv, NoSessionBehindBarrier, [Next]_vars
             PROVE  NoSessionBehindBarrier'
  OBVIOUS
<1> USE DEF NoSessionBehindBarrier
<1>1. CASE UNCHANGED vars
  BY <1>1 DEF vars, database, startup
<1>2. ASSUME NEW u \in Users, NEW old \in Tenants \cup {None}, SignIn(u, old)
      PROVE  NoSessionBehindBarrier'
  <2>1. PICK t \in Tenants :
          /\ status[t] = "active"
          /\ sessions' = [[s \in Tenants |-> Without(old, s)] EXCEPT
                            ![t] = NewestSessions(Without(old, t)) + 1]
    BY <1>2 DEF SignIn, Writable
  <2>2. \A s \in Tenants \ {t} : sessions'[s] = Without(old, s)
    BY <2>1
  <2>3. QED BY <1>2, <2>1, <2>2, SessionsOnlyFall DEF SignIn, startup
<1>3. ASSUME NEW u \in Users, SignUp(u) PROVE NoSessionBehindBarrier'
  <2>1. PICK t \in Tenants : /\ status' = [status EXCEPT ![t] = "active"]
                             /\ sessions' = [sessions EXCEPT ![t] = 1]
    BY <1>3 DEF SignUp
  <2>2. status'[t] = "active"
        /\ \A s \in Tenants \ {t} : status'[s] = status[s] /\ sessions'[s] = sessions[s]
    BY <2>1 DEF TypeInv, TypeOK, DatabaseType, Snapshot
  <2>3. QED BY <1>3, <2>2 DEF SignUp, startup
<1>4. ASSUME NEW t \in Tenants, EndSession(t) \/ Collect(t) PROVE NoSessionBehindBarrier'
  <2>1. \A s \in Tenants : sessions[s] = 0 => sessions'[s] = 0
    BY <1>4 DEF EndSession, Collect, AddRows, TypeInv, TypeOK, DatabaseType, Snapshot
  <2>2. QED BY <1>4, <2>1 DEF EndSession, Collect, AddRows, startup
<1>5. ASSUME NEW t \in Tenants, Purged(t), api' = api PROVE NoSessionBehindBarrier'
  <2>1. status'[t] = "absent"
        /\ \A s \in Tenants \ {t} : status'[s] = status[s] /\ sessions'[s] = sessions[s]
    BY <1>5 DEF Purged, TypeInv, TypeOK, DatabaseType, Snapshot
  <2>2. QED BY <1>5, <2>1
<1>6. ASSUME NEW p \in Requests, RequestStep(p) PROVE NoSessionBehindBarrier'
  <2>1. api' = api
    BY <1>6
    DEF RequestStep, Authenticate, Callback, Record, Operate, AddTrusted, Link, StoreCredential,
        Barrier, BarrierFails, PurgeRequested, startup
  <2>2. CASE Barrier(p)
    <3>1. at[p] \in Tenants
      BY <2>2 DEF Barrier, TypeInv, AtDefined
    <3>2. sessions'[at[p]] = 0
          /\ \A s \in Tenants \ {at[p]} : status'[s] = status[s] /\ sessions'[s] = sessions[s]
      BY <2>2, <3>1
      DEF Barrier, RevokedSessions, TypeInv, TypeOK, DatabaseType, Snapshot
    <3>3. QED BY <2>1, <3>1, <3>2
  <2>3. CASE PurgeRequested(p)
    <3>1. at[p] \in Tenants
      BY <2>3 DEF PurgeRequested, TypeInv, AtDefined
    <3>2. QED BY <1>5, <2>1, <2>3, <3>1 DEF PurgeRequested, database
  <2>4. CASE UNCHANGED <<status, sessions>>
    BY <2>1, <2>4
  <2>5. QED
    BY <1>6, <2>2, <2>3, <2>4
    DEF RequestStep, Authenticate, Callback, Record, Operate, AddTrusted, Link, StoreCredential,
        BarrierFails, AddRows, database
<1>7. ASSUME NEW w \in Workers, Maintain(w) \/ CrashWorker(w) PROVE NoSessionBehindBarrier'
  <2>1. api' = api /\ pending[w] \subseteq Tenants
    BY <1>7
    DEF Maintain, ListDeleting, PurgePending, CrashWorker, startup, TypeInv, TypeOK, Processes
  <2>2. CASE UNCHANGED database
    BY <2>1, <2>2 DEF database
  <2>3. QED
    BY <1>5, <1>7, <2>1, <2>2 DEF Maintain, ListDeleting, PurgePending, CrashWorker
<1>8. CASE Open
  <2>1. \A t \in receipts : status[t] = "absent"
    BY <1>8, WorkspaceAssumption DEF Open, DeletionInv, Replayed, TypeInv, TypeOK
  <2>2. QED
    BY <1>8, <2>1 DEF Open, DeletionInv, ReceiptsKept, database
<1>9. CASE StartWorkers \/ Backup
  BY <1>9 DEF StartWorkers, Backup, database, startup
<1>10. CASE \/ StartApi \/ ReplayPurge \/ CrashApi \/ Restore
            \/ \E t \in Tenants : Replay(t)
  <2>1. api' # "up"
    BY <1>10 DEF StartApi, ReplayPurge, CrashApi, Restore, Replay
  <2>2. QED BY <2>1
<1>11. QED
  BY <1>1, <1>2, <1>3, <1>4, <1>6, <1>7, <1>8, <1>9, <1>10 DEF Next, Startup

(* No sign-in, restore or replay leaves a session of a workspace behind its *)
(* barrier while the API serves.                                            *)
THEOREM BarrierExcludesSessions == Spec => []NoSessionBehindBarrier
<1>1. Init => NoSessionBehindBarrier
  BY DEF Init, NoSessionBehindBarrier
<1>2. QED BY <1>1, BarrierStep, TypesHold, DeletionHolds, PTL DEF Spec

-----------------------------------------------------------------------------
(* What a deletion leaves.  Every row is written under the lock of an active *)
(* user or refers to an account, except the trusted senders of a transition. *)

Left == IF "triage" \in Operations THEN {"free"} ELSE {}

Gone(state, kept, signed) ==
  \A t \in Tenants : state[t] = "absent" => kept[t] \subseteq Left /\ signed[t] = 0

GoneInv ==
  /\ Gone(status, rows, sessions)
  /\ Gone(backup.status, backup.rows, backup.sessions)
  /\ \A p \in Requests : pc[p] = "trailing" => "triage" \in Operations

LEMMA AddRowsGone ==
  ASSUME TypeInv, Gone(status, rows, sessions), NEW t \in Tenants, NEW kinds, AddRows(t, kinds),
         status[t] # "absent"
  PROVE  Gone(status, rows, sessions)'
<1>1. \A s \in Tenants \ {t} : rows'[s] = rows[s]
  BY DEF AddRows, TypeInv, TypeOK, DatabaseType, Snapshot
<1>2. QED BY <1>1 DEF AddRows, Gone

LEMMA PurgedGone ==
  ASSUME TypeInv, Gone(status, rows, sessions), NEW t \in Tenants, Purged(t)
  PROVE  Gone(status, rows, sessions)'
<1>1. rows'[t] = {} /\ sessions'[t] = 0
  BY DEF Purged, TypeInv, TypeOK, DatabaseType, Snapshot
<1>2. \A s \in Tenants \ {t} :
        status'[s] = status[s] /\ rows'[s] = rows[s] /\ sessions'[s] = sessions[s]
  BY DEF Purged, TypeInv, TypeOK, DatabaseType, Snapshot
<1>3. QED BY <1>1, <1>2 DEF Gone

LEMMA RequestGone ==
  ASSUME TypeInv, DeletionInv, GoneInv, NEW p \in Requests,
         RequestStep(p)
  PROVE  GoneInv'
<1> DEFINE t == at[p]
<1>1. Gone(status, rows, sessions)'
  <2> USE DEF GoneInv
  <2>1. CASE UNCHANGED database
    BY <2>1 DEF database, Gone
  <2>2. CASE Operate(p)
    <3>1. t \in Tenants
      BY <2>2 DEF Operate, TypeInv, AtDefined
    <3>2. CASE Operable(t) /\ AddRows(t, {"account", "free"})
      BY <3>1, <3>2, AddRowsGone DEF Operable, Writable
    <3>3. CASE Operable(t) /\ rows' = [rows EXCEPT ![t] = {"free"}]
               /\ UNCHANGED <<status, identity, sessions>>
      <4>1. \A s \in Tenants \ {t} : rows'[s] = rows[s]
        BY <3>3
      <4>2. QED BY <3>3, <4>1 DEF Operable, Writable, Gone
    <3>4. CASE Operable(t) /\ AddRows(t, {"free"})
      BY <3>1, <3>4, AddRowsGone DEF Operable, Writable
    <3>5. QED BY <2>1, <2>2, <3>2, <3>3, <3>4 DEF Operate
  <2>3. CASE AddTrusted(p)
    <3>1. Left = {"free"}
      BY <2>3 DEF AddTrusted, Left
    <3>2. \A s \in Tenants : rows'[s] \subseteq rows[s] \cup {"free"}
      BY <2>3 DEF AddTrusted, AddRows, TypeInv, TypeOK, DatabaseType, Snapshot
    <3>3. UNCHANGED <<status, sessions>>
      BY <2>3 DEF AddTrusted, AddRows
    <3>4. QED BY <3>1, <3>2, <3>3 DEF Gone
  <2>4. CASE Link(p)
    <3>1. t \in Tenants
      BY <2>4 DEF Link, TypeInv, AtDefined
    <3>2. QED BY <2>1, <2>4, <3>1, AddRowsGone DEF Link, Writable
  <2>5. CASE StoreCredential(p)
    <3>1. t \in Tenants
      BY <2>5 DEF StoreCredential, TypeInv, AtDefined
    <3>2. ParentExists(t) => status[t] # "absent"
      BY <3>1 DEF ParentExists, Gone, Left
    <3>3. QED BY <2>1, <2>5, <3>1, <3>2, AddRowsGone DEF StoreCredential
  <2>6. CASE Barrier(p)
    <3>1. t \in Tenants
      BY <2>6 DEF Barrier, TypeInv, AtDefined
    <3>2. /\ sessions'[t] = 0 /\ status'[t] = "deleting" /\ rows' = rows
          /\ \A s \in Tenants \ {t} : status'[s] = status[s] /\ sessions'[s] = sessions[s]
      BY <2>6, <3>1 DEF Barrier, RevokedSessions, TypeInv, TypeOK, DatabaseType, Snapshot
    <3>3. QED BY <3>1, <3>2 DEF Gone
  <2>7. CASE PurgeRequested(p)
    <3>1. t \in Tenants
      BY <2>7 DEF PurgeRequested, TypeInv, AtDefined
    <3>2. QED BY <2>1, <2>7, <3>1, PurgedGone DEF PurgeRequested
  <2>8. QED
    BY <2>1, <2>2, <2>3, <2>4, <2>5, <2>6, <2>7, RequestStep(p)
    DEF RequestStep, Authenticate, Callback, Record, BarrierFails
<1>2. backup' = backup
  BY DEF RequestStep, Authenticate, Callback, Record, Operate, AddTrusted, Link, StoreCredential,
         Barrier, BarrierFails, PurgeRequested
<1>3. \A q \in Requests : pc'[q] = "trailing" => "triage" \in Operations
  <2>1. \/ End(p) \/ Step(p, "linking") \/ Step(p, "purging")
        \/ "triage" \in Operations /\ Step(p, "trailing")
        \/ \E s \in Tenants : \/ Start(p, s, "charged") \/ Start(p, s, "exchanging")
                              \/ Start(p, s, "receipted")
    BY DEF RequestStep, Authenticate, Callback, Record, Operate, AddTrusted, Link,
           StoreCredential, Barrier, BarrierFails, PurgeRequested
  <2>2. QED
    BY <2>1 DEF GoneInv, End, Step, Start, TypeInv, TypeOK, Processes
<1>4. QED BY <1>1, <1>2, <1>3 DEF GoneInv, Gone

LEMMA GoneStep ==
  ASSUME TypeInv, DeletionInv, GoneInv, [Next]_vars
  PROVE  GoneInv'
<1> DEFINE Same == UNCHANGED <<backup, pc>>
<1>1. ASSUME Gone(status, rows, sessions)', Same PROVE GoneInv'
  BY <1>1 DEF GoneInv, Gone
<1>2. CASE UNCHANGED vars
  BY <1>2 DEF vars, database, process, GoneInv, Gone
<1>3. ASSUME NEW u \in Users, NEW old \in Tenants \cup {None}, SignIn(u, old) PROVE GoneInv'
  <2>1. PICK t \in Tenants :
          /\ status[t] = "active"
          /\ sessions' = [[s \in Tenants |-> Without(old, s)] EXCEPT
                            ![t] = NewestSessions(Without(old, t)) + 1]
    BY <1>3 DEF SignIn, Writable
  <2>2. \A s \in Tenants \ {t} : sessions'[s] = Without(old, s)
    BY <2>1
  <2>3. UNCHANGED <<status, rows>> /\ Same
    BY <1>3 DEF SignIn, process
  <2>4. Gone(status, rows, sessions)'
    BY <2>1, <2>2, <2>3, SessionsOnlyFall DEF GoneInv, Gone
  <2>5. QED BY <1>1, <2>3, <2>4
<1>4. ASSUME NEW u \in Users, SignUp(u) PROVE GoneInv'
  <2>1. PICK t \in Tenants : /\ status' = [status EXCEPT ![t] = "active"]
                             /\ sessions' = [sessions EXCEPT ![t] = 1]
    BY <1>4 DEF SignUp
  <2>2. status'[t] = "active"
        /\ \A s \in Tenants \ {t} : status'[s] = status[s] /\ sessions'[s] = sessions[s]
    BY <2>1 DEF TypeInv, TypeOK, DatabaseType, Snapshot
  <2>3. rows' = rows /\ Same
    BY <1>4 DEF SignUp, process
  <2>4. Gone(status, rows, sessions)'
    BY <2>2, <2>3 DEF GoneInv, Gone
  <2>5. QED BY <1>1, <2>3, <2>4
<1>5. ASSUME NEW t \in Tenants, EndSession(t) PROVE GoneInv'
  <2>1. \A s \in Tenants : sessions[s] = 0 => sessions'[s] = 0
    BY <1>5 DEF EndSession, TypeInv, TypeOK, DatabaseType, Snapshot
  <2>2. QED BY <1>1, <1>5, <2>1 DEF EndSession, process, GoneInv, Gone
<1>6. ASSUME NEW t \in Tenants, Collect(t) PROVE GoneInv'
  BY <1>1, <1>6, AddRowsGone DEF Collect, Writable, process, GoneInv
<1>7. ASSUME NEW w \in Workers, Maintain(w) \/ CrashWorker(w) PROVE GoneInv'
  <2>1. w \in Processes /\ w \notin Requests /\ pending[w] \subseteq Tenants
    BY WorkspaceAssumption DEF Processes, TypeInv, TypeOK
  <2>2. backup' = backup /\ \A p \in Requests : pc'[p] = pc[p]
    BY <1>7, <2>1
    DEF Maintain, ListDeleting, PurgePending, CrashWorker, End, TypeInv, TypeOK, Processes
  <2>3. Gone(status, rows, sessions)'
    <3>1. CASE UNCHANGED database
      BY <3>1 DEF database, GoneInv, Gone
    <3>2. QED
      BY <1>7, <2>1, <3>1, PurgedGone
      DEF Maintain, ListDeleting, PurgePending, CrashWorker, GoneInv
  <2>4. QED BY <2>2, <2>3 DEF GoneInv, Gone
<1>8. CASE StartApi \/ Open \/ StartWorkers
  BY <1>1, <1>8 DEF StartApi, Open, StartWorkers, database, process, GoneInv, Gone
<1>9. ASSUME NEW t \in Tenants, Replay(t) PROVE GoneInv'
  <2>1. \A s \in Tenants : status'[s] = "absent" => status[s] = "absent"
    BY <1>9 DEF Replay, TypeInv, TypeOK, DatabaseType, Snapshot
  <2>2. QED BY <1>1, <1>9, <2>1 DEF Replay, process, GoneInv, Gone
<1>10. CASE ReplayPurge
  <2>1. current \in Tenants /\ Same
    BY <1>10 DEF ReplayPurge, process, TypeInv, TypeOK
  <2>2. CASE UNCHANGED database
    BY <1>1, <2>1, <2>2 DEF database, GoneInv, Gone
  <2>3. CASE Purged(current)
    BY <1>1, <2>1, <2>3, PurgedGone DEF GoneInv
  <2>4. QED BY <1>10, <2>2, <2>3 DEF ReplayPurge
<1>11. CASE CrashApi
  <2>1. \A p \in Requests : pc'[p] = "idle"
    BY <1>11 DEF CrashApi, Processes
  <2>2. QED BY <1>11, <2>1 DEF CrashApi, database, GoneInv, Gone
<1>12. CASE Backup
  <2>1. UNCHANGED <<status, rows, sessions, pc>> /\ backup' = Snapshot
    BY <1>12 DEF Backup, database, process
  <2>2. QED BY <2>1 DEF Snapshot, GoneInv, Gone
<1>13. CASE Restore
  <2>1. \A p \in Requests : pc'[p] = "idle"
    BY <1>13 DEF Restore, Processes
  <2>2. QED BY <1>13, <2>1 DEF Restore, GoneInv, Gone
<1>14. QED
  BY <1>2, <1>3, <1>4, <1>5, <1>6, <1>7, <1>8, <1>9, <1>10, <1>11, <1>12, <1>13, RequestGone
  DEF Next, Startup

LEMMA GoneHolds == Spec => []GoneInv
<1>1. Init => GoneInv
  BY DEF Init, GoneInv, Gone, Snapshot, Processes
<1>2. TypeInv /\ DeletionInv /\ GoneInv /\ [Next]_vars => GoneInv'
  BY GoneStep
<1>3. QED BY <1>1, <1>2, TypesHold, DeletionHolds, PTL DEF Spec

(* Without transitions that add trusted senders, nothing of a workspace is left *)
(* or arrives once it is gone, whoever had begun before.                        *)
THEOREM NothingIsLeft ==
  ASSUME "triage" \notin Operations
  PROVE  Spec => []NothingOutlives
<1>1. GoneInv => NothingOutlives
  BY DEF GoneInv, Gone, Left, NothingOutlives
<1>2. QED BY <1>1, GoneHolds, PTL

(* Whichever requests race with a deletion, no evidence, credential or session of *)
(* the workspace is left or arrives afterwards.                                   *)
THEOREM NoEvidenceIsLeft == Spec => []NoEvidenceOutlives
<1>1. GoneInv => NoEvidenceOutlives
  BY DEF GoneInv, Gone, Left, NoEvidenceOutlives
<1>2. QED BY <1>1, GoneHolds, PTL
=============================================================================
