--------------------------- MODULE BudgetsProofs ---------------------------
(* Proofs about Budgets, for every value of its constants. *)
EXTENDS Budgets, TLAPS

-----------------------------------------------------------------------------
(* Types, and what a request under way knows. *)

UnderWay ==
  \A p \in Requests : pc[p] # "idle" =>
    /\ who[p] \in Users /\ scope[p] \in Scopes
    /\ pc[p] = "stamped" => stamp[p] <= now

TypeInv == TypeOK /\ UnderWay

LEMMA KeyParts ==
  /\ \A k \in Key : k[1] \in Users /\ k[2] \in Scopes /\ k[3] \in Minutes
  /\ \A u \in Users, s \in Scopes, m \in Minutes : <<u, s, m>> \in Key
  BY DEF Key

LEMMA InitType == Init => TypeInv
  BY BudgetAssumption, KeyParts DEF Init, TypeInv, TypeOK, UnderWay, Minutes

LEMMA AuthenticateType ==
  ASSUME TypeInv, NEW p \in Requests, NEW u \in Users, NEW s \in Scopes, Authenticate(p, u, s)
  PROVE  TypeInv'
<1>1. ASSUME NEW q \in Requests, pc[q] # "idle", who[q] = u, scope[q] # "read", s # "read"
      PROVE  FALSE
  BY <1>1 DEF Authenticate, Locked, Locks
<1>2. /\ pc' = [pc EXCEPT ![p] = "authenticated"] /\ pc[p] = "idle"
      /\ who' = [who EXCEPT ![p] = u] /\ scope' = [scope EXCEPT ![p] = s]
      /\ UNCHANGED <<now, user, count, granted, stamp>>
  BY DEF Authenticate, counters
<1>3. TypeOK'
  BY <1>1, <1>2 DEF TypeInv, TypeOK
<1>4. UnderWay'
  BY <1>2, BudgetAssumption DEF TypeInv, TypeOK, UnderWay, Minutes
<1>5. QED BY <1>3, <1>4 DEF TypeInv

LEMMA ReadClockType ==
  ASSUME TypeInv, NEW p \in Requests, ReadClock(p)
  PROVE  TypeInv'
<1>1. /\ pc' = [pc EXCEPT ![p] = "stamped"] /\ pc[p] = "authenticated"
      /\ stamp' = [stamp EXCEPT ![p] = now]
      /\ UNCHANGED <<now, user, count, granted, who, scope>>
  BY DEF ReadClock, counters
<1>2. QED BY <1>1, BudgetAssumption DEF TypeInv, TypeOK, UnderWay, Minutes

(* A request that ends leaves the others as they were. *)
LEMMA EndKeeps ==
  ASSUME TypeInv, NEW p \in Requests, End(p)
  PROVE  /\ pc' \in [Requests -> {"idle", "authenticated", "stamped"}]
         /\ who' \in [Requests -> Users \cup {None}]
         /\ scope' \in [Requests -> Scopes \cup {None}]
         /\ stamp' \in [Requests -> Minutes]
         /\ \A q \in Requests : pc'[q] # "idle" =>
              /\ q # p /\ pc'[q] = pc[q] /\ who'[q] = who[q] /\ scope'[q] = scope[q]
              /\ stamp'[q] = stamp[q]
  BY BudgetAssumption DEF End, TypeInv, TypeOK, Minutes

LEMMA AbortType ==
  ASSUME TypeInv, NEW p \in Requests, Abort(p)
  PROVE  TypeInv'
<1>1. End(p) /\ UNCHANGED <<now, user, count, granted>>
  BY DEF Abort, counters
<1>2. QED BY <1>1, EndKeeps DEF TypeInv, TypeOK, UnderWay

(* What a charge does to each counter. *)
LEMMA ChargeCounts ==
  ASSUME TypeInv, NEW p \in Requests, Charge(p)
  PROVE  /\ <<who[p], scope[p], stamp[p]>> \in Key
         /\ Counted(count[<<who[p], scope[p], stamp[p]>>], Limits[scope[p]]) \in Nat
         /\ \A c \in Key :
              count'[c] = IF c = <<who[p], scope[p], stamp[p]>>
                          THEN Counted(count[c], Limits[c[2]])
                          ELSE IF c[3] + 2 <= stamp[p] THEN 0 ELSE count[c]
         /\ \A c \in Key :
              granted'[c] = IF /\ c = <<who[p], scope[p], stamp[p]>>
                               /\ count'[c] <= Limits[c[2]] /\ user[c[1]] # "gone"
                               /\ now < c[3] + 2
                            THEN granted[c] + 1 ELSE granted[c]
         /\ granted' \in [Key -> Nat]
<1> DEFINE k == <<who[p], scope[p], stamp[p]>>
<1>1. pc[p] = "stamped" /\ who[p] \in Users /\ scope[p] \in Scopes /\ stamp[p] \in Minutes
  BY DEF Charge, TypeInv, TypeOK, UnderWay
<1>2. k \in Key /\ k[1] = who[p] /\ k[2] = scope[p] /\ k[3] = stamp[p]
  BY <1>1, KeyParts
<1>3. count[k] \in Nat /\ Limits[scope[p]] \in Nat
  BY <1>1, <1>2, BudgetAssumption DEF TypeInv, TypeOK
<1>4. Counted(count[k], Limits[scope[p]]) \in Nat
  BY <1>3 DEF Counted
<1> HIDE DEF k
<1>5. /\ count' = [c \in Key |-> IF c = k THEN Counted(count[k], Limits[scope[p]])
                                 ELSE IF Expired(c, stamp[p]) THEN 0 ELSE count[c]]
      /\ granted' = IF Counted(count[k], Limits[scope[p]]) <= Limits[scope[p]]
                       /\ user[who[p]] # "gone" /\ now < stamp[p] + 2
                    THEN [granted EXCEPT ![k] = @ + 1] ELSE granted
  BY DEF Charge, InTime, k
<1>6. \A c \in Key :
        count'[c] = IF c = k THEN Counted(count[c], Limits[c[2]])
                    ELSE IF c[3] + 2 <= stamp[p] THEN 0 ELSE count[c]
  BY <1>2, <1>5 DEF Expired
<1>7. \A c \in Key :
        granted'[c] = IF /\ c = k /\ count'[c] <= Limits[c[2]] /\ user[c[1]] # "gone"
                         /\ now < c[3] + 2
                      THEN granted[c] + 1 ELSE granted[c]
  BY <1>2, <1>5, <1>6 DEF TypeInv, TypeOK
<1>8. granted' \in [Key -> Nat]
  BY <1>2, <1>5 DEF TypeInv, TypeOK
<1>9. QED BY <1>2, <1>4, <1>6, <1>7, <1>8 DEF k

LEMMA ChargeType ==
  ASSUME TypeInv, NEW p \in Requests, Charge(p)
  PROVE  TypeInv'
<1>1. End(p) /\ UNCHANGED <<now, user>>
  BY DEF Charge
<1>2. ASSUME NEW c \in Key PROVE count'[c] \in Nat /\ count'[c] <= Limits[c[2]] + 1
  <2>1. count[c] \in Nat /\ count[c] <= Limits[c[2]] + 1 /\ Limits[c[2]] \in Nat
    BY KeyParts, BudgetAssumption DEF TypeInv, TypeOK
  <2>2. count'[c] \in {Counted(count[c], Limits[c[2]]), 0, count[c]}
    BY ChargeCounts
  <2>3. QED BY <2>1, <2>2 DEF Counted
<1>3. count' \in [Key -> Nat]
  <2>1. count' = [c \in Key |-> count'[c]]
    BY DEF Charge
  <2>2. QED BY <1>2, <2>1
<1>4. granted' \in [Key -> Nat]
  BY ChargeCounts
<1>5. QED
  BY <1>1, <1>2, <1>3, <1>4, EndKeeps DEF TypeInv, TypeOK, UnderWay

LEMMA AccountType ==
  ASSUME TypeInv, NEW u \in Users, Barrier(u) \/ Purge(u)
  PROVE  TypeInv'
<1>1. UNCHANGED <<now, granted, pc, who, scope, stamp>>
  BY DEF Barrier, Purge, counters, request
<1>2. user' \in [Users -> {"active", "deleting", "gone"}]
  BY DEF Barrier, Purge, TypeInv, TypeOK
<1>3. count' \in [Key -> Nat] /\ \A c \in Key : count'[c] \in {0, count[c]}
  BY DEF Barrier, Purge, WithoutCounters, counters, TypeInv, TypeOK
<1>4. \A c \in Key : 0 <= Limits[c[2]] + 1
  BY KeyParts, BudgetAssumption
<1>5. \A c \in Key : count'[c] <= Limits[c[2]] + 1
  BY <1>3, <1>4 DEF TypeInv, TypeOK
<1>6. QED BY <1>1, <1>2, <1>3, <1>5 DEF TypeInv, TypeOK, UnderWay

LEMMA TickType ==
  ASSUME TypeInv, Tick
  PROVE  TypeInv'
<1>1. now' = now + 1 /\ now < MaxMinute /\ now \in Minutes
      /\ UNCHANGED <<user, count, granted, pc, who, scope, stamp>>
  BY DEF Tick, counters, request, TypeInv, TypeOK
<1>2. now' \in Minutes /\ now <= now'
  BY <1>1, BudgetAssumption DEF Minutes
<1>3. TypeOK'
  BY <1>1, <1>2 DEF TypeInv, TypeOK
<1>4. UnderWay'
  BY <1>1, BudgetAssumption DEF TypeInv, TypeOK, UnderWay, Minutes
<1>5. QED BY <1>3, <1>4 DEF TypeInv

LEMMA NextType == TypeInv /\ [Next]_vars => TypeInv'
<1> SUFFICES ASSUME TypeInv, [Next]_vars PROVE TypeInv'
  OBVIOUS
<1>1. CASE UNCHANGED vars
  BY <1>1 DEF vars, counters, request, TypeInv, TypeOK, UnderWay
<1>2. QED
  BY <1>1, AuthenticateType, ReadClockType, ChargeType, AbortType, AccountType, TickType
  DEF Next

LEMMA TypesHold == Spec => []TypeInv
  BY InitType, NextType, PTL DEF Spec

(* Every variable keeps its type, and requests that lock one user exclude each other. *)
THEOREM TypeCorrect == Spec => []TypeOK
  BY TypesHold, PTL DEF TypeInv

-----------------------------------------------------------------------------
(* Steps that charge nothing: counters stay, or those of a user go with it. *)

Uncharged ==
  /\ UNCHANGED granted /\ now <= now'
  /\ \A k \in Key : count'[k] = count[k] \/ (count'[k] = 0 /\ user'[k[1]] = "gone")
  /\ \A u \in Users : user[u] = "gone" => user'[u] = "gone"

LEMMA StepKinds ==
  ASSUME TypeInv, [Next]_vars
  PROVE  Uncharged \/ \E p \in Requests : Charge(p)
<1>1. now <= now + 1 /\ now <= now
  BY DEF TypeInv, TypeOK, Minutes
<1>2. ASSUME NEW u \in Users, Purge(u) PROVE Uncharged
  BY <1>1, <1>2, KeyParts
  DEF Purge, Uncharged, WithoutCounters, TypeInv, TypeOK
<1>3. ASSUME NEW u \in Users, Barrier(u) PROVE Uncharged
  BY <1>1, <1>3 DEF Barrier, Uncharged, counters, TypeInv, TypeOK
<1>4. ASSUME UNCHANGED <<user, count, granted>>, now' \in {now, now + 1}
      PROVE  Uncharged
  BY <1>1, <1>4 DEF Uncharged
<1>5. ASSUME NEW p \in Requests, NEW u \in Users, NEW s \in Scopes, Authenticate(p, u, s)
      PROVE  Uncharged
  BY <1>4, <1>5 DEF Authenticate, counters
<1>6. ASSUME NEW p \in Requests, ReadClock(p) \/ Abort(p) PROVE Uncharged
  BY <1>4, <1>6 DEF ReadClock, Abort, counters
<1>7. CASE Tick \/ UNCHANGED vars
  BY <1>4, <1>7 DEF Tick, vars, counters
<1>8. QED BY <1>2, <1>3, <1>5, <1>6, <1>7 DEF Next

-----------------------------------------------------------------------------
(* The budget: while requests that read a minute may still come, its counter is *)
(* there, and counts all that were granted.                                     *)

Counts ==
  \A k \in Key : user[k[1]] # "gone" /\ now < k[3] + 2 => granted[k] <= count[k]

BudgetInv == BudgetKept /\ Counts

LEMMA BudgetStep ==
  ASSUME TypeInv, TypeInv', BudgetInv, [Next]_vars
  PROVE  BudgetInv'
<1>0. \A k \in Key : /\ count[k] \in Nat /\ granted[k] \in Nat /\ k[3] \in Nat
                     /\ Limits[k[2]] \in Nat /\ k[1] \in Users
  BY KeyParts, BudgetAssumption DEF TypeInv, TypeOK, Minutes
<1>1. CASE Uncharged
  <2>1. BudgetKept'
    BY <1>1 DEF Uncharged, BudgetInv, BudgetKept
  <2>2. ASSUME NEW k \in Key, user'[k[1]] # "gone", now' < k[3] + 2
        PROVE  granted'[k] <= count'[k]
    <3>1. now < k[3] + 2 /\ user[k[1]] # "gone"
      BY <1>0, <1>1, <2>2 DEF Uncharged, TypeInv, TypeOK, Minutes
    <3>2. QED BY <1>1, <2>2, <3>1 DEF Uncharged, BudgetInv, Counts
  <2>3. QED BY <2>1, <2>2 DEF BudgetInv, Counts
<1>2. ASSUME NEW p \in Requests, Charge(p) PROVE BudgetInv'
  <2> DEFINE k == <<who[p], scope[p], stamp[p]>>
  <2>1. /\ UNCHANGED <<user, now>> /\ now \in Nat /\ stamp[p] \in Nat /\ stamp[p] <= now
    BY <1>2, BudgetAssumption
    DEF Charge, TypeInv, TypeOK, UnderWay, Minutes
  <2>2. k \in Key /\ k[3] = stamp[p]
    BY <1>2, ChargeCounts
  <2> HIDE DEF k
  <2>3. \A c \in Key :
          /\ count'[c] = IF c = k THEN Counted(count[c], Limits[c[2]])
                         ELSE IF c[3] + 2 <= stamp[p] THEN 0 ELSE count[c]
          /\ granted'[c] = IF /\ c = k /\ count'[c] <= Limits[c[2]] /\ user[c[1]] # "gone"
                              /\ now < c[3] + 2
                           THEN granted[c] + 1 ELSE granted[c]
    <3>1. \A c \in Key :
            count'[c] = IF c = k THEN Counted(count[c], Limits[c[2]])
                        ELSE IF c[3] + 2 <= stamp[p] THEN 0 ELSE count[c]
      BY <1>2, ChargeCounts DEF k
    <3>2. \A c \in Key :
            granted'[c] = IF /\ c = k
                             /\ count'[c] <= Limits[c[2]] /\ user[c[1]] # "gone"
                             /\ now < c[3] + 2
                          THEN granted[c] + 1 ELSE granted[c]
      BY <1>2, ChargeCounts DEF k
    <3>3. QED BY <3>1, <3>2
  <2>4. ASSUME NEW c \in Key, c # k
        PROVE  /\ granted'[c] <= Limits[c[2]]
               /\ user'[c[1]] # "gone" /\ now' < c[3] + 2 => granted'[c] <= count'[c]
    BY <1>0, <2>1, <2>3, <2>4 DEF BudgetInv, BudgetKept, Counts
  <2>5. /\ granted'[k] <= Limits[k[2]]
        /\ user'[k[1]] # "gone" /\ now' < k[3] + 2 => granted'[k] <= count'[k]
    <3>1. user[k[1]] # "gone" /\ now < k[3] + 2 => granted[k] <= count[k]
      BY <2>1, <2>2 DEF BudgetInv, Counts
    <3>2. granted[k] <= Limits[k[2]]
      BY <2>2 DEF BudgetInv, BudgetKept
    <3>3. count'[k] = IF count[k] > Limits[k[2]] THEN count[k] ELSE count[k] + 1
      BY <2>2, <2>3 DEF Counted
    <3>4. QED BY <1>0, <2>1, <2>2, <2>3, <3>1, <3>2, <3>3
  <2>6. QED BY <2>4, <2>5 DEF BudgetInv, BudgetKept, Counts
<1>3. QED BY <1>1, <1>2, StepKinds

(* No more requests of a user that charge the minute they read by the end of the *)
(* next are granted than the scope's limit, however slow the user's others are.  *)
THEOREM BudgetsAreKept == Spec => []BudgetKept
<1>1. Init => BudgetInv
  BY KeyParts, BudgetAssumption DEF Init, BudgetInv, BudgetKept, Counts
<1>2. TypeInv /\ TypeInv' /\ BudgetInv /\ [Next]_vars => BudgetInv'
  BY BudgetStep
<1>3. QED BY <1>1, <1>2, TypesHold, PTL DEF Spec, BudgetInv

-----------------------------------------------------------------------------
(* After a purge: only reads of the user are still under way. *)

LateRequests ==
  \A p \in Requests : pc[p] # "idle" /\ user[who[p]] = "gone" =>
    scope[p] = "read"

LateInv == LateRequests /\ LateCountersAreReads

LEMMA LateAccounts ==
  ASSUME TypeInv, LateInv, NEW u \in Users, Barrier(u) \/ Purge(u)
  PROVE  LateInv'
<1>0. UNCHANGED <<pc, who, scope>>
  BY DEF Barrier, Purge, request
<1>1. CASE Barrier(u)
  <2>1. UNCHANGED count /\ user' = [user EXCEPT ![u] = "deleting"]
    BY <1>1 DEF Barrier, counters
  <2>2. \A v \in Users : user'[v] = "gone" => user[v] = "gone"
    BY <2>1 DEF TypeInv, TypeOK
  <2>3. QED
    BY <1>0, <2>1, <2>2, KeyParts
    DEF LateInv, LateRequests, LateCountersAreReads, TypeInv, UnderWay
<1>2. CASE Purge(u)
  <2>1. /\ ~Locked(u)
        /\ \A v \in Users : v # u => user'[v] = user[v]
        /\ \A k \in Key : count'[k] = IF k[1] = u THEN 0 ELSE count[k]
    BY <1>2 DEF Purge, WithoutCounters, TypeInv, TypeOK
  <2>2. \A p \in Requests : pc[p] # "idle" /\ who[p] = u => scope[p] = "read"
    BY <2>1 DEF Locked, Locks
  <2>3. LateRequests'
    BY <1>0, <2>1, <2>2 DEF LateInv, LateRequests, TypeInv, UnderWay
  <2>4. LateCountersAreReads'
    BY <2>1, KeyParts DEF LateInv, LateCountersAreReads
  <2>5. QED BY <2>3, <2>4 DEF LateInv
<1>3. QED BY <1>1, <1>2

LEMMA LateCharge ==
  ASSUME TypeInv, LateInv, NEW p \in Requests, Charge(p)
  PROVE  LateInv'
<1> DEFINE k == <<who[p], scope[p], stamp[p]>>
<1>1. End(p) /\ UNCHANGED user
  BY DEF Charge
<1>2. LateRequests'
  BY <1>1, EndKeeps DEF LateInv, LateRequests
<1>3. k \in Key /\ k[1] = who[p] /\ k[2] = scope[p] /\ k[3] = stamp[p]
  BY ChargeCounts
<1>4. \A c \in Key : c # k => count'[c] \in {0, count[c]}
  BY ChargeCounts
<1>5. user[who[p]] = "gone" => scope[p] = "read"
  BY DEF Charge, LateInv, LateRequests
<1> HIDE DEF k
<1>6. LateCountersAreReads'
  BY <1>1, <1>3, <1>4, <1>5 DEF LateInv, LateCountersAreReads
<1>7. QED BY <1>2, <1>6 DEF LateInv

LEMMA LateStep ==
  ASSUME TypeInv, LateInv, [Next]_vars
  PROVE  LateInv'
<1>1. ASSUME UNCHANGED <<user, count, pc, who, scope>> PROVE LateInv'
  BY <1>1 DEF LateInv, LateRequests, LateCountersAreReads
<1>2. ASSUME NEW p \in Requests, NEW u \in Users, NEW s \in Scopes, Authenticate(p, u, s)
      PROVE  LateInv'
  BY <1>2 DEF Authenticate, counters, LateInv, LateRequests, LateCountersAreReads,
     TypeInv, TypeOK
<1>3. ASSUME NEW p \in Requests, ReadClock(p) PROVE LateInv'
  BY <1>3 DEF ReadClock, counters, LateInv, LateRequests, LateCountersAreReads,
     TypeInv, TypeOK
<1>4. ASSUME NEW p \in Requests, Abort(p) PROVE LateInv'
  BY <1>4, EndKeeps DEF Abort, counters, LateInv, LateRequests, LateCountersAreReads
<1>5. CASE Tick \/ UNCHANGED vars
  BY <1>1, <1>5 DEF Tick, vars, counters, request
<1>6. QED BY <1>2, <1>3, <1>4, <1>5, LateAccounts, LateCharge DEF Next

(* A counter that is there without its user is that of a read, as only reads may be *)
(* under way when a user is purged, however slow they are.                          *)
THEOREM LateCountersExplained == Spec => []LateCountersAreReads
<1>1. Init => LateInv
  BY KeyParts DEF Init, LateInv, LateRequests, LateCountersAreReads
<1>2. TypeInv /\ LateInv /\ [Next]_vars => LateInv'
  BY LateStep
<1>3. QED BY <1>1, <1>2, TypesHold, PTL DEF Spec, LateInv
=============================================================================
