------------------------------ MODULE Budgets ------------------------------
(***************************************************************************)
(* The request budgets of SentinelSME's production API: a counter per user, *)
(* scope and minute, in the shared database, beside the deletion of the    *)
(* user.  Every request authenticates, reads the clock, and later charges  *)
(* the counter of the minute it read, after removing the counters that its *)
(* reading has left behind.  A request that is not a read holds its user's *)
(* row lock from the authentication to the charge.                         *)
(*                                                                         *)
(* The clock counts minutes; what happens within one is not told apart.    *)
(***************************************************************************)
EXTENDS Integers

CONSTANTS
  Users,
  Requests,      \* requests under way
  Limits,        \* REQUEST_LIMITS: by scope, requests in a minute
  MaxMinute,     \* bound: the clock
  None

Scopes == DOMAIN Limits
Minutes == 0..MaxMinute

ASSUME BudgetAssumption ==
  /\ None \notin Users \cup Scopes
  /\ \A s \in Scopes : Limits[s] \in Nat
  /\ MaxMinute \in Nat

VARIABLES
  now,
  user,          \* the status of a user's row; "gone" once it is purged
  count,         \* the counters, by user, scope and minute; 0 is no row
  granted,       \* history: requests let through on such a counter that charged it
                 \* before the end of the next minute
  pc, who, scope, stamp    \* a request's step, its user and scope, the minute it read

counters == <<count, granted>>
request == <<pc, who, scope, stamp>>
vars == <<now, user, counters, request>>

-----------------------------------------------------------------------------
Key == Users \X Scopes \X Minutes

TypeOK ==
  /\ now \in Minutes
  /\ user \in [Users -> {"active", "deleting", "gone"}]
  /\ count \in [Key -> Nat] /\ granted \in [Key -> Nat]
  /\ \A k \in Key : count[k] <= Limits[k[2]] + 1
  /\ pc \in [Requests -> {"idle", "authenticated", "stamped"}]
  /\ who \in [Requests -> Users \cup {None}]
  /\ scope \in [Requests -> Scopes \cup {None}]
  /\ stamp \in [Requests -> Minutes]
  \* A request that locks its user is alone with it, until the charge.
  /\ \A p, q \in Requests :
       pc[p] # "idle" /\ pc[q] # "idle" /\ who[p] = who[q] /\ scope[p] # "read"
         /\ scope[q] # "read" => p = q

Init ==
  /\ now = 0
  /\ user = [u \in Users |-> "active"]
  /\ count = [k \in Key |-> 0] /\ granted = [k \in Key |-> 0]
  /\ pc = [p \in Requests |-> "idle"]
  /\ who = [p \in Requests |-> None] /\ scope = [p \in Requests |-> None]
  /\ stamp = [p \in Requests |-> 0]

-----------------------------------------------------------------------------
NeverLocks(s) == FALSE

(* principal locks the user unless the request is a read. *)
Locks(s) == s # "read"

Locked(u) == \E p \in Requests : pc[p] # "idle" /\ who[p] = u /\ Locks(scope[p])

Authenticate(p, u, s) ==
  /\ pc[p] = "idle"
  /\ user[u] = "active" /\ (Locks(s) => ~Locked(u))
  /\ pc' = [pc EXCEPT ![p] = "authenticated"]
  /\ who' = [who EXCEPT ![p] = u] /\ scope' = [scope EXCEPT ![p] = s]
  /\ UNCHANGED <<now, user, counters, stamp>>

ReadClock(p) ==
  /\ pc[p] = "authenticated"
  /\ pc' = [pc EXCEPT ![p] = "stamped"]
  /\ stamp' = [stamp EXCEPT ![p] = now]
  /\ UNCHANGED <<now, user, counters, who, scope>>

End(p) ==
  /\ pc' = [pc EXCEPT ![p] = "idle"]
  /\ who' = [who EXCEPT ![p] = None] /\ scope' = [scope EXCEPT ![p] = None]
  /\ stamp' = [stamp EXCEPT ![p] = 0]

(* expires_at is the end of the minute after the counter's own *)
ExpiredAtOnce(k, minute) == k[3] + 1 <= minute
Expired(k, minute) == k[3] + 2 <= minute

(* A counter goes on beyond its limit; here, by one. *)
Counted(n, limit) == IF n > limit THEN n ELSE n + 1

(* A request charges before its counter can expire. *)
InTime(p) == now < stamp[p] + 2

(* consume, one transaction: remove what has expired, count, and refuse above *)
(* the limit.  The later look at the user refuses those whose row is gone.    *)
Charge(p) ==
  LET k == <<who[p], scope[p], stamp[p]>>
      n == Counted(count[k], Limits[scope[p]])
  IN /\ pc[p] = "stamped"
     /\ count' = [c \in Key |-> IF c = k THEN n
                                ELSE IF Expired(c, stamp[p]) THEN 0 ELSE count[c]]
     /\ granted' = IF n <= Limits[scope[p]] /\ user[who[p]] # "gone" /\ InTime(p)
                   THEN [granted EXCEPT ![k] = @ + 1] ELSE granted
     /\ End(p)
     /\ UNCHANGED <<now, user>>

(* A refusal, an error of the database, or the end of the process. *)
Abort(p) ==
  /\ pc[p] # "idle"
  /\ End(p)
  /\ UNCHANGED <<now, user, counters>>

-----------------------------------------------------------------------------
(* The barrier of a deletion, and the purge. *)

KeptCounters(u) == count
WithoutCounters(u) == [k \in Key |-> IF k[1] = u THEN 0 ELSE count[k]]

Barrier(u) ==
  /\ user[u] = "active" /\ ~Locked(u)
  /\ user' = [user EXCEPT ![u] = "deleting"]
  /\ UNCHANGED <<now, counters, request>>

Purge(u) ==
  /\ user[u] = "deleting" /\ ~Locked(u)
  /\ user' = [user EXCEPT ![u] = "gone"]
  /\ count' = WithoutCounters(u)
  /\ UNCHANGED <<now, granted, request>>

(* Minutes pass however long a request takes. *)
Tick ==
  /\ now < MaxMinute
  /\ now' = now + 1
  /\ UNCHANGED <<user, counters, request>>

Next ==
  \/ \E p \in Requests, u \in Users, s \in Scopes : Authenticate(p, u, s)
  \/ \E p \in Requests : ReadClock(p) \/ Charge(p) \/ Abort(p)
  \/ \E u \in Users : Barrier(u) \/ Purge(u)
  \/ Tick

Spec == Init /\ [][Next]_vars

-----------------------------------------------------------------------------
(* Properties. *)

(* docs/API.md, "Per-user read/write/collection/explanation budgets": of the   *)
(* requests of a user that read one minute and charge it by the end of the    *)
(* next, no more than the scope's limit go on, although counters are removed   *)
(* and charged by requests that read the clock at any earlier time.  A request *)
(* that is slower than that may charge a counter that was removed meanwhile    *)
(* and starts over: the budget is not kept for it, and it is not counted here. *)
BudgetKept == \A k \in Key : granted[k] <= Limits[k[2]]

(* A counter that is there without its user was charged by a read: every other *)
(* request is over, or sees the barrier, before the user goes, and the purge   *)
(* removes what was charged until then (retention.py 113).                     *)
LateCountersAreReads ==
  \A k \in Key : user[k[1]] = "gone" /\ count[k] > 0 => k[2] = "read"
=============================================================================
