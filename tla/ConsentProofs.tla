---------------------------- MODULE ConsentProofs ----------------------------
(* Proofs about Consent, for any numbers of attempts and processes. *)
EXTENDS Consent, TLAPS

-----------------------------------------------------------------------------
(* Types.  They need to know what a process works with at each step.         *)

CallbackSteps == {"consume", "exchange", "source", "credential", "store"}

InHand ==
  \A p \in Process :
    /\ step[p] \in CallbackSteps => mine[p] \in All
    /\ step[p] \in {"source", "credential", "store", "revoke", "refresh", "write"}
         => mine[p] \in Attempt
    /\ step[p] = "remove" => mine[p] \in Attempt \cup {None}
    /\ step[p] \in {"exchange", "source", "credential", "store"} => attempt[mine[p]] = "gone"
    /\ step[p] \in {"credential", "store"} => source # "absent"

TypeInv == TypeOK /\ InHand

LEMMA InitType == Init => TypeInv
<1> SUFFICES ASSUME Init PROVE TypeInv
  OBVIOUS
<1>1. TypeOK
  <2>1. crossed \in BOOLEAN
    BY Zenon DEF Init
  <2>2. /\ cookie \in [{"gmail", "login"} -> All \cup {None}] /\ live \subseteq Attempt
        /\ source \in {"absent", "active", "disconnected"} /\ stored = None
        /\ step \in [Process -> Steps] /\ mine \in [Process -> All \cup {None}]
    BY DEF Init, Steps
  <2>3. sawActive \in [Process -> BOOLEAN] /\ sawTokens \in [Process -> BOOLEAN]
    BY DEF Init
  <2>4. /\ attempt \in [All -> {"unused", "open", "expired", "gone"}]
        /\ exchanged \in [All -> Nat] /\ \A a \in All : exchanged[a] > 0 => attempt[a] = "gone"
    BY DEF Init
  <2>5. QED BY <2>1, <2>2, <2>3, <2>4 DEF TypeOK
<1>2. InHand
  BY DEF Init, InHand, CallbackSteps
<1>3. QED BY <1>1, <1>2 DEF TypeInv

(* A step of one process moves it alone, and keeps the flag Boolean. *)
LEMMA GotoStep ==
  ASSUME TypeOK, NEW p \in Process, NEW s \in Steps, Goto(p, s)
  PROVE  /\ step' \in [Process -> Steps] /\ step'[p] = s
         /\ \A q \in Process \ {p} : step'[q] = step[q]
         /\ crossed' \in BOOLEAN
<1>1. /\ step' \in [Process -> Steps] /\ step'[p] = s
      /\ \A q \in Process \ {p} : step'[q] = step[q]
  BY DEF Goto, TypeOK
<1>2. crossed' \in BOOLEAN
  BY Zenon DEF Goto, TypeOK, Beside
<1>3. QED BY <1>1, <1>2

LEMMA EndStep ==
  ASSUME TypeOK, NEW p \in Process, End(p)
  PROVE  /\ step' \in [Process -> Steps] /\ step'[p] = "idle"
         /\ \A q \in Process \ {p} : step'[q] = step[q] /\ mine'[q] = mine[q]
         /\ crossed' \in BOOLEAN
         /\ mine' \in [Process -> All \cup {None}]
         /\ sawActive' \in [Process -> BOOLEAN] /\ sawTokens' \in [Process -> BOOLEAN]
<1>1. "idle" \in Steps BY DEF Steps
<1>2. /\ step' \in [Process -> Steps] /\ step'[p] = "idle"
      /\ \A q \in Process \ {p} : step'[q] = step[q]
      /\ crossed' \in BOOLEAN
  BY <1>1, GotoStep DEF End
<1>3. /\ mine' \in [Process -> All \cup {None}]
      /\ \A q \in Process \ {p} : mine'[q] = mine[q]
  BY DEF End, TypeOK
<1>4. sawActive' \in [Process -> BOOLEAN] /\ sawTokens' \in [Process -> BOOLEAN]
  BY DEF End, TypeOK
<1>5. QED BY <1>2, <1>3, <1>4

(* Attempts only leave their state for a later one. *)
LEMMA RowsType ==
  ASSUME TypeOK
  PROVE  /\ \A K : /\ Purged(K) \in [All -> {"unused", "open", "expired", "gone"}]
                   /\ \A b \in All : attempt[b] = "gone" => Purged(K)[b] = "gone"
                   /\ \A b \in All : attempt[b] # "expired" => Purged(K)[b] = attempt[b]
         /\ \A a \in All :
              /\ Cleared(a) \in [{"gmail", "login"} -> All \cup {None}]
              /\ Consumed(a) \in [All -> {"unused", "open", "expired", "gone"}]
              /\ Consumed(a)[a] = "gone"
              /\ \A b \in All : attempt[b] = "gone" => Consumed(a)[b] = "gone"
              /\ Sent(a) \in [All -> Nat]
              /\ \A b \in All \ {a} : Sent(a)[b] = exchanged[b]
  BY DEF TypeOK, Purged, Cleared, KindOf, Consumed, Sent

LEMMA BeginConsentType ==
  ASSUME TypeInv, NEW a \in Attempt, BeginConsent(a)
  PROVE  TypeInv'
<1>1. TypeOK'
  BY RowsType DEF TypeInv, TypeOK, BeginConsent, provider, mailbox, session, All
<1>2. InHand'
  BY RowsType
  DEF TypeInv, TypeOK, InHand, CallbackSteps, BeginConsent, provider, mailbox, session, All
<1>3. QED BY <1>1, <1>2 DEF TypeInv

LEMMA LapseType ==
  ASSUME TypeInv, NEW a \in All, Lapse(a)
  PROVE  TypeInv'
<1>1. TypeOK'
  BY RowsType DEF TypeInv, TypeOK, Lapse, provider, mailbox, session, All
<1>2. InHand'
  BY RowsType
  DEF TypeInv, TypeOK, InHand, CallbackSteps, Lapse, provider, mailbox, session, All
<1>3. QED BY <1>1, <1>2 DEF TypeInv

LEMMA RefuseCallbackType ==
  ASSUME TypeInv, NEW a \in All, RefuseCallback(a)
  PROVE  TypeInv'
<1>1. TypeOK'
  BY RowsType DEF TypeInv, TypeOK, RefuseCallback, provider, mailbox, session, All
<1>2. InHand'
  BY RowsType
  DEF TypeInv, TypeOK, InHand, CallbackSteps, RefuseCallback, provider, mailbox, session, All
<1>3. QED BY <1>1, <1>2 DEF TypeInv

LEMMA PurgeLoginsType ==
  ASSUME TypeInv, NEW p \in Process, PurgeLogins(p)
  PROVE  TypeInv'
<1>1. "count" \in Steps BY DEF Steps, Connecting, Disconnecting, Refreshing
<1>2. /\ step' \in [Process -> Steps] /\ step'[p] = "count"
      /\ \A q \in Process \ {p} : step'[q] = step[q]
      /\ crossed' \in BOOLEAN
  BY <1>1, GotoStep DEF PurgeLogins, TypeInv
<1>3. TypeOK'
  BY <1>2, RowsType DEF TypeInv, TypeOK, PurgeLogins, provider, mailbox, session
<1>4. InHand'
  BY <1>2, RowsType
  DEF TypeInv, TypeOK, InHand, CallbackSteps, PurgeLogins, provider, mailbox, session
<1>5. QED BY <1>3, <1>4 DEF TypeInv

LEMMA CountLoginsType ==
  ASSUME TypeInv, NEW p \in Process, CountLogins(p)
  PROVE  TypeInv'
<1>1. {"insert", "idle"} \subseteq Steps BY DEF Steps, Connecting, Disconnecting, Refreshing
<1>2. /\ step' \in [Process -> Steps] /\ step'[p] \in {"insert", "idle"}
      /\ \A q \in Process \ {p} : step'[q] = step[q]
      /\ crossed' \in BOOLEAN
  BY <1>1, GotoStep DEF CountLogins, TypeInv
<1>3. TypeOK'
  BY <1>2 DEF TypeInv, TypeOK, CountLogins, provider, mailbox, session
<1>4. InHand'
  BY <1>2
  DEF TypeInv, TypeOK, InHand, CallbackSteps, CountLogins, provider, mailbox, session
<1>5. QED BY <1>3, <1>4 DEF TypeInv

LEMMA InsertLoginType ==
  ASSUME TypeInv, NEW p \in Process, NEW a \in Login, InsertLogin(p, a)
  PROVE  TypeInv'
<1>1. "idle" \in Steps BY DEF Steps, Connecting, Disconnecting, Refreshing
<1>2. /\ step' \in [Process -> Steps] /\ step'[p] = "idle"
      /\ \A q \in Process \ {p} : step'[q] = step[q]
      /\ crossed' \in BOOLEAN
  BY <1>1, GotoStep DEF InsertLogin, TypeInv
<1>3. TypeOK'
  BY <1>2 DEF TypeInv, TypeOK, InsertLogin, provider, mailbox, session, All
<1>4. InHand'
  BY <1>2
  DEF TypeInv, TypeOK, InHand, CallbackSteps, InsertLogin, provider, mailbox, session, All
<1>5. QED BY <1>3, <1>4 DEF TypeInv

LEMMA LookupType ==
  ASSUME TypeInv, NEW p \in Process, NEW a \in All, Lookup(p, a)
  PROVE  TypeInv'
<1>1. "consume" \in Steps BY DEF Steps, Connecting, Disconnecting, Refreshing
<1>2. /\ step' \in [Process -> Steps] /\ step'[p] = "consume"
      /\ \A q \in Process \ {p} : step'[q] = step[q]
      /\ crossed' \in BOOLEAN
  BY <1>1, GotoStep DEF Lookup, TypeInv
<1>3. TypeOK'
  BY <1>2 DEF TypeInv, TypeOK, Lookup, provider, mailbox
<1>4. InHand'
  BY <1>2
  DEF TypeInv, TypeOK, InHand, CallbackSteps, Lookup, provider, mailbox
<1>5. QED BY <1>3, <1>4 DEF TypeInv

LEMMA ConsumeType ==
  ASSUME TypeInv, NEW p \in Process, Consume(p)
  PROVE  TypeInv'
<1>1. "exchange" \in Steps BY DEF Steps, Connecting, Disconnecting, Refreshing
<1>2. /\ step' \in [Process -> Steps] /\ step'[p] = "exchange"
      /\ \A q \in Process \ {p} : step'[q] = step[q]
      /\ crossed' \in BOOLEAN
  BY <1>1, GotoStep DEF Consume, TypeInv
<1>3. TypeOK'
  BY <1>2, RowsType DEF TypeInv, TypeOK, InHand, CallbackSteps, Consume, provider, mailbox, session
<1>4. InHand'
  BY <1>2, RowsType
  DEF TypeInv, TypeOK, InHand, CallbackSteps, Consume, provider, mailbox, session
<1>5. QED BY <1>3, <1>4 DEF TypeInv

LEMMA DeclineType ==
  ASSUME TypeInv, NEW p \in Process, Decline(p)
  PROVE  TypeInv'
<1>1. /\ step' \in [Process -> Steps] /\ step'[p] = "idle"
      /\ \A q \in Process \ {p} : step'[q] = step[q] /\ mine'[q] = mine[q]
      /\ crossed' \in BOOLEAN
      /\ mine' \in [Process -> All \cup {None}]
      /\ sawActive' \in [Process -> BOOLEAN] /\ sawTokens' \in [Process -> BOOLEAN]
  BY EndStep DEF Decline, TypeInv
<1>2. TypeOK'
  BY <1>1, RowsType DEF TypeInv, TypeOK, InHand, CallbackSteps, Decline, provider, mailbox
<1>3. InHand'
  BY <1>1, RowsType
  DEF TypeInv, TypeOK, InHand, CallbackSteps, Decline, provider, mailbox
<1>4. QED BY <1>2, <1>3 DEF TypeInv

LEMMA ExchangeType ==
  ASSUME TypeInv, NEW p \in Process, Exchange(p)
  PROVE  TypeInv'
<1>1. "source" \in Steps BY DEF Steps, Connecting, Disconnecting, Refreshing
<1>2. /\ step' \in [Process -> Steps] /\ step'[p] = "source"
      /\ \A q \in Process \ {p} : step'[q] = step[q]
      /\ crossed' \in BOOLEAN
  BY <1>1, GotoStep DEF Exchange, TypeInv
<1>3. TypeOK'
  BY <1>2, RowsType DEF TypeInv, TypeOK, InHand, CallbackSteps, Exchange, mailbox, session, All
<1>4. InHand'
  BY <1>2, RowsType
  DEF TypeInv, TypeOK, InHand, CallbackSteps, Exchange, mailbox, session, All
<1>5. QED BY <1>3, <1>4 DEF TypeInv

LEMMA ExchangeFailsType ==
  ASSUME TypeInv, NEW p \in Process, ExchangeFails(p)
  PROVE  TypeInv'
<1>1. /\ step' \in [Process -> Steps] /\ step'[p] = "idle"
      /\ \A q \in Process \ {p} : step'[q] = step[q] /\ mine'[q] = mine[q]
      /\ crossed' \in BOOLEAN
      /\ mine' \in [Process -> All \cup {None}]
      /\ sawActive' \in [Process -> BOOLEAN] /\ sawTokens' \in [Process -> BOOLEAN]
  BY EndStep DEF ExchangeFails, TypeInv
<1>2. TypeOK'
  BY <1>1, RowsType DEF TypeInv, TypeOK, InHand, CallbackSteps, ExchangeFails, mailbox
<1>3. InHand'
  BY <1>1, RowsType
  DEF TypeInv, TypeOK, InHand, CallbackSteps, ExchangeFails, mailbox
<1>4. QED BY <1>2, <1>3 DEF TypeInv

LEMMA IdentifyType ==
  ASSUME TypeInv, NEW p \in Process, Identify(p)
  PROVE  TypeInv'
<1>1. /\ step' \in [Process -> Steps] /\ step'[p] = "idle"
      /\ \A q \in Process \ {p} : step'[q] = step[q] /\ mine'[q] = mine[q]
      /\ crossed' \in BOOLEAN
      /\ mine' \in [Process -> All \cup {None}]
      /\ sawActive' \in [Process -> BOOLEAN] /\ sawTokens' \in [Process -> BOOLEAN]
  BY EndStep DEF Identify, TypeInv
<1>2. TypeOK'
  BY <1>1, RowsType DEF TypeInv, TypeOK, InHand, CallbackSteps, Identify, mailbox
<1>3. InHand'
  BY <1>1, RowsType
  DEF TypeInv, TypeOK, InHand, CallbackSteps, Identify, mailbox
<1>4. QED BY <1>2, <1>3 DEF TypeInv

LEMMA ReadSourceType ==
  ASSUME TypeInv, NEW p \in Process, ReadSource(p)
  PROVE  TypeInv'
<1>1. "credential" \in Steps BY DEF Steps, Connecting, Disconnecting, Refreshing
<1>2. /\ step' \in [Process -> Steps] /\ step'[p] = "credential"
      /\ \A q \in Process \ {p} : step'[q] = step[q]
      /\ crossed' \in BOOLEAN
  BY <1>1, GotoStep DEF ReadSource, TypeInv
<1>3. TypeOK'
  BY <1>2 DEF TypeInv, TypeOK, ReadSource, provider
<1>4. InHand'
  BY <1>2
  DEF TypeInv, TypeOK, InHand, CallbackSteps, ReadSource, provider
<1>5. QED BY <1>3, <1>4 DEF TypeInv

LEMMA ReadCredentialType ==
  ASSUME TypeInv, NEW p \in Process, ReadCredential(p)
  PROVE  TypeInv'
<1>1. "store" \in Steps BY DEF Steps, Connecting, Disconnecting, Refreshing
<1>2. /\ step' \in [Process -> Steps] /\ step'[p] = "store"
      /\ \A q \in Process \ {p} : step'[q] = step[q]
      /\ crossed' \in BOOLEAN
  BY <1>1, GotoStep DEF ReadCredential, TypeInv
<1>3. TypeOK'
  BY <1>2 DEF TypeInv, TypeOK, ReadCredential, provider, mailbox
<1>4. InHand'
  BY <1>2
  DEF TypeInv, TypeOK, InHand, CallbackSteps, ReadCredential, provider, mailbox
<1>5. QED BY <1>3, <1>4 DEF TypeInv

LEMMA StoreType ==
  ASSUME TypeInv, NEW p \in Process, Store(p)
  PROVE  TypeInv'
<1>1. /\ step' \in [Process -> Steps] /\ step'[p] = "idle"
      /\ \A q \in Process \ {p} : step'[q] = step[q] /\ mine'[q] = mine[q]
      /\ crossed' \in BOOLEAN
      /\ mine' \in [Process -> All \cup {None}]
      /\ sawActive' \in [Process -> BOOLEAN] /\ sawTokens' \in [Process -> BOOLEAN]
  BY EndStep DEF Store, TypeInv
<1>2. TypeOK'
  BY <1>1, RowsType DEF TypeInv, TypeOK, InHand, CallbackSteps, Store, provider
<1>3. InHand'
  BY <1>1, RowsType
  DEF TypeInv, TypeOK, InHand, CallbackSteps, Store, provider
<1>4. QED BY <1>2, <1>3 DEF TypeInv

LEMMA StoreFailsType ==
  ASSUME TypeInv, NEW p \in Process, StoreFails(p)
  PROVE  TypeInv'
<1>1. /\ step' \in [Process -> Steps] /\ step'[p] = "idle"
      /\ \A q \in Process \ {p} : step'[q] = step[q] /\ mine'[q] = mine[q]
      /\ crossed' \in BOOLEAN
      /\ mine' \in [Process -> All \cup {None}]
      /\ sawActive' \in [Process -> BOOLEAN] /\ sawTokens' \in [Process -> BOOLEAN]
  BY EndStep DEF StoreFails, TypeInv
<1>2. TypeOK'
  BY <1>1 DEF TypeInv, TypeOK, InHand, CallbackSteps, StoreFails, provider, mailbox
<1>3. InHand'
  BY <1>1
  DEF TypeInv, TypeOK, InHand, CallbackSteps, StoreFails, provider, mailbox
<1>4. QED BY <1>2, <1>3 DEF TypeInv

LEMMA StartDisconnectType ==
  ASSUME TypeInv, NEW p \in Process, StartDisconnect(p)
  PROVE  TypeInv'
<1>1. "tokens" \in Steps BY DEF Steps, Connecting, Disconnecting, Refreshing
<1>2. /\ step' \in [Process -> Steps] /\ step'[p] = "tokens"
      /\ \A q \in Process \ {p} : step'[q] = step[q]
      /\ crossed' \in BOOLEAN
  BY <1>1, GotoStep DEF StartDisconnect, TypeInv
<1>3. TypeOK'
  BY <1>2 DEF TypeInv, TypeOK, StartDisconnect, provider, mailbox
<1>4. InHand'
  BY <1>2
  DEF TypeInv, TypeOK, InHand, CallbackSteps, StartDisconnect, provider, mailbox
<1>5. QED BY <1>3, <1>4 DEF TypeInv

LEMMA ReadTokensType ==
  ASSUME TypeInv, NEW p \in Process, ReadTokens(p)
  PROVE  TypeInv'
<1> DEFINE s == IF stored = None THEN "remove" ELSE "revoke"
<1>1. s \in Steps BY DEF Steps, Disconnecting
<1>2. Goto(p, s) BY DEF ReadTokens
<1>3. /\ step' \in [Process -> Steps] /\ step'[p] = s
      /\ \A q \in Process \ {p} : step'[q] = step[q]
      /\ crossed' \in BOOLEAN
  <2> HIDE DEF s
  <2>1. QED BY <1>1, <1>2, GotoStep DEF TypeInv
<1>4. /\ mine' \in [Process -> All \cup {None}] /\ mine'[p] = stored
      /\ \A q \in Process \ {p} : mine'[q] = mine[q]
      /\ UNCHANGED <<attempt, cookie, provider, mailbox, sawActive, sawTokens>>
  BY DEF ReadTokens, TypeInv, TypeOK, All
<1>5. TypeOK'
  BY <1>3, <1>4 DEF TypeInv, TypeOK, provider, mailbox
<1>6. InHand'
  BY <1>3, <1>4 DEF TypeInv, TypeOK, InHand, CallbackSteps, provider, mailbox
<1>7. QED BY <1>5, <1>6 DEF TypeInv

LEMMA RevokeType ==
  ASSUME TypeInv, NEW p \in Process, Revoke(p)
  PROVE  TypeInv'
<1>1. "remove" \in Steps BY DEF Steps, Connecting, Disconnecting, Refreshing
<1>2. /\ step' \in [Process -> Steps] /\ step'[p] = "remove"
      /\ \A q \in Process \ {p} : step'[q] = step[q]
      /\ crossed' \in BOOLEAN
  BY <1>1, GotoStep DEF Revoke, TypeInv
<1>3. TypeOK'
  BY <1>2 DEF TypeInv, TypeOK, Revoke, mailbox, session
<1>4. InHand'
  BY <1>2
  DEF TypeInv, TypeOK, InHand, CallbackSteps, Revoke, mailbox, session
<1>5. QED BY <1>3, <1>4 DEF TypeInv

LEMMA RemoveType ==
  ASSUME TypeInv, NEW p \in Process, Remove(p)
  PROVE  TypeInv'
<1>1. /\ step' \in [Process -> Steps] /\ step'[p] = "idle"
      /\ \A q \in Process \ {p} : step'[q] = step[q] /\ mine'[q] = mine[q]
      /\ crossed' \in BOOLEAN
      /\ mine' \in [Process -> All \cup {None}]
      /\ sawActive' \in [Process -> BOOLEAN] /\ sawTokens' \in [Process -> BOOLEAN]
  BY EndStep DEF Remove, TypeInv
<1>2. TypeOK'
  BY <1>1 DEF TypeInv, TypeOK, InHand, CallbackSteps, Remove, provider, Remaining
<1>3. InHand'
  BY <1>1
  DEF TypeInv, TypeOK, InHand, CallbackSteps, Remove, provider, Remaining
<1>4. QED BY <1>2, <1>3 DEF TypeInv

LEMMA StartScanType ==
  ASSUME TypeInv, NEW p \in Process, StartScan(p)
  PROVE  TypeInv'
<1>1. "token" \in Steps BY DEF Steps, Connecting, Disconnecting, Refreshing
<1>2. /\ step' \in [Process -> Steps] /\ step'[p] = "token"
      /\ \A q \in Process \ {p} : step'[q] = step[q]
      /\ crossed' \in BOOLEAN
  BY <1>1, GotoStep DEF StartScan, TypeInv
<1>3. TypeOK'
  BY <1>2 DEF TypeInv, TypeOK, StartScan, provider, mailbox, session
<1>4. InHand'
  BY <1>2
  DEF TypeInv, TypeOK, InHand, CallbackSteps, StartScan, provider, mailbox, session
<1>5. QED BY <1>3, <1>4 DEF TypeInv

LEMMA ReadTokenType ==
  ASSUME TypeInv, NEW p \in Process, ReadToken(p)
  PROVE  TypeInv'
<1>1. "refresh" \in Steps BY DEF Steps, Connecting, Disconnecting, Refreshing
<1>2. /\ step' \in [Process -> Steps] /\ step'[p] = "refresh"
      /\ \A q \in Process \ {p} : step'[q] = step[q]
      /\ crossed' \in BOOLEAN
  BY <1>1, GotoStep DEF ReadToken, TypeInv
<1>3. TypeOK'
  BY <1>2 DEF TypeInv, TypeOK, ReadToken, provider, mailbox, All
<1>4. InHand'
  BY <1>2
  DEF TypeInv, TypeOK, InHand, CallbackSteps, ReadToken, provider, mailbox, All
<1>5. QED BY <1>3, <1>4 DEF TypeInv

LEMMA RefreshType ==
  ASSUME TypeInv, NEW p \in Process, Refresh(p)
  PROVE  TypeInv'
<1>1. "write" \in Steps BY DEF Steps, Connecting, Disconnecting, Refreshing
<1>2. /\ step' \in [Process -> Steps] /\ step'[p] = "write"
      /\ \A q \in Process \ {p} : step'[q] = step[q]
      /\ crossed' \in BOOLEAN
  BY <1>1, GotoStep DEF Refresh, TypeInv
<1>3. TypeOK'
  BY <1>2 DEF TypeInv, TypeOK, Refresh, provider, mailbox, session
<1>4. InHand'
  BY <1>2
  DEF TypeInv, TypeOK, InHand, CallbackSteps, Refresh, provider, mailbox, session
<1>5. QED BY <1>3, <1>4 DEF TypeInv

LEMMA WriteBackType ==
  ASSUME TypeInv, NEW p \in Process, WriteBack(p)
  PROVE  TypeInv'
<1>1. /\ step' \in [Process -> Steps] /\ step'[p] = "idle"
      /\ \A q \in Process \ {p} : step'[q] = step[q] /\ mine'[q] = mine[q]
      /\ crossed' \in BOOLEAN
      /\ mine' \in [Process -> All \cup {None}]
      /\ sawActive' \in [Process -> BOOLEAN] /\ sawTokens' \in [Process -> BOOLEAN]
  BY EndStep DEF WriteBack, TypeInv
<1>2. TypeOK'
  BY <1>1 DEF TypeInv, TypeOK, InHand, CallbackSteps, WriteBack, provider
<1>3. InHand'
  BY <1>1
  DEF TypeInv, TypeOK, InHand, CallbackSteps, WriteBack, provider
<1>4. QED BY <1>2, <1>3 DEF TypeInv

LEMMA AbortType ==
  ASSUME TypeInv, NEW p \in Process, Abort(p)
  PROVE  TypeInv'
<1>1. /\ step' \in [Process -> Steps] /\ step'[p] = "idle"
      /\ \A q \in Process \ {p} : step'[q] = step[q] /\ mine'[q] = mine[q]
      /\ crossed' \in BOOLEAN
      /\ mine' \in [Process -> All \cup {None}]
      /\ sawActive' \in [Process -> BOOLEAN] /\ sawTokens' \in [Process -> BOOLEAN]
  BY EndStep DEF Abort, TypeInv
<1>2. TypeOK'
  BY <1>1 DEF TypeInv, TypeOK, InHand, CallbackSteps, Abort, provider, mailbox
<1>3. InHand'
  BY <1>1
  DEF TypeInv, TypeOK, InHand, CallbackSteps, Abort, provider, mailbox
<1>4. QED BY <1>2, <1>3 DEF TypeInv

LEMMA NextType == ASSUME TypeInv, Next PROVE TypeInv'
<1>1. ASSUME NEW a \in Attempt, BeginConsent(a) PROVE TypeInv'
  BY <1>1, BeginConsentType
<1>2. ASSUME NEW p \in Process, PurgeLogins(p) PROVE TypeInv'
  BY <1>2, PurgeLoginsType
<1>3. ASSUME NEW p \in Process, CountLogins(p) PROVE TypeInv'
  BY <1>3, CountLoginsType
<1>4. ASSUME NEW p \in Process, NEW a \in Login, InsertLogin(p, a) PROVE TypeInv'
  BY <1>4, InsertLoginType
<1>5. ASSUME NEW a \in All, Lapse(a) PROVE TypeInv'
  BY <1>5, LapseType
<1>6. ASSUME NEW a \in All, RefuseCallback(a) PROVE TypeInv'
  BY <1>6, RefuseCallbackType
<1>7. ASSUME NEW p \in Process, NEW a \in All, Lookup(p, a) PROVE TypeInv'
  BY <1>7, LookupType
<1>8. ASSUME NEW p \in Process, Consume(p) PROVE TypeInv'
  BY <1>8, ConsumeType
<1>9. ASSUME NEW p \in Process, Decline(p) PROVE TypeInv'
  BY <1>9, DeclineType
<1>10. ASSUME NEW p \in Process, Exchange(p) PROVE TypeInv'
  BY <1>10, ExchangeType
<1>11. ASSUME NEW p \in Process, ExchangeFails(p) PROVE TypeInv'
  BY <1>11, ExchangeFailsType
<1>12. ASSUME NEW p \in Process, Identify(p) PROVE TypeInv'
  BY <1>12, IdentifyType
<1>13. ASSUME NEW p \in Process, ReadSource(p) PROVE TypeInv'
  BY <1>13, ReadSourceType
<1>14. ASSUME NEW p \in Process, ReadCredential(p) PROVE TypeInv'
  BY <1>14, ReadCredentialType
<1>15. ASSUME NEW p \in Process, Store(p) PROVE TypeInv'
  BY <1>15, StoreType
<1>16. ASSUME NEW p \in Process, StoreFails(p) PROVE TypeInv'
  BY <1>16, StoreFailsType
<1>17. ASSUME NEW p \in Process, StartDisconnect(p) PROVE TypeInv'
  BY <1>17, StartDisconnectType
<1>18. ASSUME NEW p \in Process, ReadTokens(p) PROVE TypeInv'
  BY <1>18, ReadTokensType
<1>19. ASSUME NEW p \in Process, Revoke(p) PROVE TypeInv'
  BY <1>19, RevokeType
<1>20. ASSUME NEW p \in Process, Remove(p) PROVE TypeInv'
  BY <1>20, RemoveType
<1>21. ASSUME NEW p \in Process, StartScan(p) PROVE TypeInv'
  BY <1>21, StartScanType
<1>22. ASSUME NEW p \in Process, ReadToken(p) PROVE TypeInv'
  BY <1>22, ReadTokenType
<1>23. ASSUME NEW p \in Process, Refresh(p) PROVE TypeInv'
  BY <1>23, RefreshType
<1>24. ASSUME NEW p \in Process, WriteBack(p) PROVE TypeInv'
  BY <1>24, WriteBackType
<1>25. ASSUME NEW p \in Process, Abort(p) PROVE TypeInv'
  BY <1>25, AbortType
<1>26. QED
  BY <1>1, <1>2, <1>3, <1>4, <1>5, <1>6, <1>7, <1>8, <1>9, <1>10, <1>11, <1>12, <1>13, <1>14,
     <1>15, <1>16, <1>17, <1>18, <1>19, <1>20, <1>21, <1>22, <1>23, <1>24, <1>25
  DEF Next, Callback, Disconnect, Scan

LEMMA StutterType == ASSUME TypeInv, UNCHANGED vars PROVE TypeInv'
  BY DEF TypeInv, TypeOK, InHand, vars, provider, mailbox, session

LEMMA TypeInvariant == Spec => []TypeInv
<1>1. Init => TypeInv BY InitType
<1>2. TypeInv /\ [Next]_vars => TypeInv' BY NextType, StutterType
<1>3. QED BY <1>1, <1>2, PTL DEF Spec

(* Every variable keeps its type, only codes whose attempt is gone have been  *)
(* sent, and tokens belong to a source (gmail.py:223-315).                     *)
THEOREM TypeCorrect == Spec => []TypeOK
<1>1. TypeInv => TypeOK BY DEF TypeInv
<1>2. QED BY <1>1, TypeInvariant, PTL

-----------------------------------------------------------------------------
(* A code is sent once: whoever is about to send one is the only one, since it *)
(* removed the row of the attempt.                                             *)

Unsent ==
  /\ \A p \in Process : step[p] = "exchange" => exchanged[mine[p]] = 0
  /\ \A p, q \in Process :
       step[p] = "exchange" /\ step[q] = "exchange" /\ mine[p] = mine[q] => p = q

OnceInv == ExchangedOnce /\ Unsent

LEMMA InitOnce == Init => OnceInv
  BY DEF Init, OnceInv, ExchangedOnce, Unsent

(* A step that sends nothing and brings nobody to the exchange. *)
LEMMA QuietOnce ==
  ASSUME TypeInv, OnceInv, UNCHANGED exchanged,
         \A p \in Process : step'[p] = "exchange" => step[p] = "exchange" /\ mine'[p] = mine[p]
  PROVE  OnceInv'
  BY DEF OnceInv, ExchangedOnce, Unsent

(* The only process with a code sends it and goes on. *)
LEMMA SendOnce ==
  ASSUME TypeInv, OnceInv, NEW p \in Process, step[p] = "exchange", mine[p] \in All,
         exchanged' = [exchanged EXCEPT ![mine[p]] = @ + 1],
         step' \in {[step EXCEPT ![p] = "source"], [step EXCEPT ![p] = "idle"]},
         \A q \in Process \ {p} : mine'[q] = mine[q]
  PROVE  OnceInv'
<1>1. exchanged[mine[p]] = 0 BY DEF OnceInv, Unsent
<1>2. ExchangedOnce'
  BY <1>1 DEF OnceInv, ExchangedOnce, TypeInv, TypeOK
<1>3. \A q \in Process : step'[q] = "exchange" => q # p /\ step[q] = "exchange"
  BY DEF TypeInv, TypeOK
<1>4. \A q \in Process : step'[q] = "exchange" => mine'[q] = mine[q] /\ mine[q] # mine[p]
  BY <1>3 DEF OnceInv, Unsent
<1>5. \A q \in Process : step[q] = "exchange" => mine[q] \in All
  BY DEF TypeInv, InHand, CallbackSteps
<1>6. Unsent'
  BY <1>3, <1>4, <1>5 DEF OnceInv, Unsent, TypeInv, TypeOK
<1>7. QED BY <1>2, <1>6 DEF OnceInv

LEMMA NextOnce == ASSUME TypeInv, OnceInv, Next PROVE OnceInv'
<1>1. ASSUME NEW a \in Attempt, BeginConsent(a) PROVE OnceInv'
  BY <1>1, QuietOnce DEF BeginConsent, provider, session, TypeInv, TypeOK
<1>2. ASSUME NEW p \in Process, PurgeLogins(p) PROVE OnceInv'
  BY <1>2, QuietOnce DEF PurgeLogins, provider, session, Goto, TypeInv, TypeOK
<1>3. ASSUME NEW p \in Process, CountLogins(p) PROVE OnceInv'
  BY <1>3, QuietOnce DEF CountLogins, provider, session, Goto, TypeInv, TypeOK
<1>4. ASSUME NEW p \in Process, NEW a \in Login, InsertLogin(p, a) PROVE OnceInv'
  BY <1>4, QuietOnce DEF InsertLogin, provider, session, Goto, TypeInv, TypeOK
<1>5. ASSUME NEW a \in All, Lapse(a) PROVE OnceInv'
  BY <1>5, QuietOnce DEF Lapse, provider, session, TypeInv, TypeOK
<1>6. ASSUME NEW a \in All, RefuseCallback(a) PROVE OnceInv'
  BY <1>6, QuietOnce DEF RefuseCallback, provider, session, TypeInv, TypeOK
<1>7. ASSUME NEW p \in Process, NEW a \in All, Lookup(p, a) PROVE OnceInv'
  BY <1>7, QuietOnce DEF Lookup, provider, Goto, TypeInv, TypeOK
<1>8. ASSUME NEW p \in Process, Consume(p) PROVE OnceInv'
  <2>1. /\ step' = [step EXCEPT ![p] = "exchange"] /\ UNCHANGED <<exchanged, mine>>
        /\ mine[p] \in All /\ attempt[mine[p]] # "gone"
    BY <1>8 DEF Consume, Goto, Won, provider, session, TypeInv, InHand, CallbackSteps
  <2>2. exchanged[mine[p]] = 0
    BY <2>1 DEF TypeInv, TypeOK
  <2>3. \A q \in Process : step[q] = "exchange" => mine[q] # mine[p]
    BY <2>1 DEF TypeInv, InHand
  <2>4. QED
    BY <2>1, <2>2, <2>3 DEF OnceInv, ExchangedOnce, Unsent, TypeInv, TypeOK
<1>9. ASSUME NEW p \in Process, Decline(p) PROVE OnceInv'
  BY <1>9, QuietOnce DEF Decline, provider, Goto, End, TypeInv, TypeOK
<1>10. ASSUME NEW p \in Process, Exchange(p) PROVE OnceInv'
  <2>1. /\ exchanged' = [exchanged EXCEPT ![mine[p]] = @ + 1]
        /\ step' = [step EXCEPT ![p] = "source"]
        /\ \A q \in Process \ {p} : mine'[q] = mine[q]
        /\ step[p] = "exchange" /\ mine[p] \in All
    BY <1>10 DEF Exchange, Sent, Goto, session, TypeInv, TypeOK, InHand, CallbackSteps
  <2>2. QED
    BY <2>1, SendOnce
<1>11. ASSUME NEW p \in Process, ExchangeFails(p) PROVE OnceInv'
  <2>1. /\ exchanged' = [exchanged EXCEPT ![mine[p]] = @ + 1]
        /\ step' = [step EXCEPT ![p] = "idle"]
        /\ \A q \in Process \ {p} : mine'[q] = mine[q]
        /\ step[p] = "exchange" /\ mine[p] \in All
    BY <1>11 DEF ExchangeFails, Sent, Goto, End, TypeInv, TypeOK, InHand, CallbackSteps
  <2>2. QED
    BY <2>1, SendOnce
<1>12. ASSUME NEW p \in Process, Identify(p) PROVE OnceInv'
  <2>1. /\ exchanged' = [exchanged EXCEPT ![mine[p]] = @ + 1]
        /\ step' = [step EXCEPT ![p] = "idle"]
        /\ \A q \in Process \ {p} : mine'[q] = mine[q]
        /\ step[p] = "exchange" /\ mine[p] \in All
    BY <1>12 DEF Identify, Sent, Goto, End, TypeInv, TypeOK, InHand, CallbackSteps
  <2>2. QED
    BY <2>1, SendOnce
<1>13. ASSUME NEW p \in Process, ReadSource(p) PROVE OnceInv'
  BY <1>13, QuietOnce DEF ReadSource, provider, Goto, TypeInv, TypeOK
<1>14. ASSUME NEW p \in Process, ReadCredential(p) PROVE OnceInv'
  BY <1>14, QuietOnce DEF ReadCredential, provider, Goto, TypeInv, TypeOK
<1>15. ASSUME NEW p \in Process, Store(p) PROVE OnceInv'
  BY <1>15, QuietOnce DEF Store, provider, Goto, End, TypeInv, TypeOK
<1>16. ASSUME NEW p \in Process, StoreFails(p) PROVE OnceInv'
  BY <1>16, QuietOnce DEF StoreFails, provider, Goto, End, TypeInv, TypeOK
<1>17. ASSUME NEW p \in Process, StartDisconnect(p) PROVE OnceInv'
  BY <1>17, QuietOnce DEF StartDisconnect, provider, Goto, TypeInv, TypeOK
<1>18. ASSUME NEW p \in Process, ReadTokens(p) PROVE OnceInv'
  BY <1>18, QuietOnce DEF ReadTokens, provider, Goto, TypeInv, TypeOK
<1>19. ASSUME NEW p \in Process, Revoke(p) PROVE OnceInv'
  BY <1>19, QuietOnce DEF Revoke, session, Goto, TypeInv, TypeOK
<1>20. ASSUME NEW p \in Process, Remove(p) PROVE OnceInv'
  BY <1>20, QuietOnce DEF Remove, provider, Goto, End, TypeInv, TypeOK
<1>21. ASSUME NEW p \in Process, StartScan(p) PROVE OnceInv'
  BY <1>21, QuietOnce DEF StartScan, provider, session, Goto, TypeInv, TypeOK
<1>22. ASSUME NEW p \in Process, ReadToken(p) PROVE OnceInv'
  BY <1>22, QuietOnce DEF ReadToken, provider, Goto, TypeInv, TypeOK
<1>23. ASSUME NEW p \in Process, Refresh(p) PROVE OnceInv'
  BY <1>23, QuietOnce DEF Refresh, provider, session, Goto, TypeInv, TypeOK
<1>24. ASSUME NEW p \in Process, WriteBack(p) PROVE OnceInv'
  BY <1>24, QuietOnce DEF WriteBack, provider, Goto, End, TypeInv, TypeOK
<1>25. ASSUME NEW p \in Process, Abort(p) PROVE OnceInv'
  BY <1>25, QuietOnce DEF Abort, provider, Goto, End, TypeInv, TypeOK
<1>26. QED
  BY <1>1, <1>2, <1>3, <1>4, <1>5, <1>6, <1>7, <1>8, <1>9, <1>10, <1>11, <1>12, <1>13, <1>14,
     <1>15, <1>16, <1>17, <1>18, <1>19, <1>20, <1>21, <1>22, <1>23, <1>24, <1>25
  DEF Next, Callback, Disconnect, Scan

(* However often a callback is delivered, its code is sent once               *)
(* (gmail.py:233-239, auth.py:259-264).                                        *)
THEOREM CodesAreExchangedOnce == Spec => []ExchangedOnce
<1>1. Init => OnceInv BY InitOnce
<1>2. TypeInv /\ OnceInv /\ [Next]_vars => OnceInv'
  <2>1. ASSUME OnceInv, UNCHANGED vars PROVE OnceInv'
    BY <2>1 DEF OnceInv, ExchangedOnce, Unsent, vars, provider, session
  <2>2. QED BY <2>1, NextOnce
<1>3. OnceInv => ExchangedOnce BY DEF OnceInv
<1>4. QED BY <1>1, <1>2, <1>3, TypeInvariant, PTL DEF Spec

-----------------------------------------------------------------------------
(* A disconnect that no callback's end ran beside: the source a callback saw   *)
(* as active still is when it stores, and a disconnect that found no tokens    *)
(* leaves none.                                                                *)

Apart == ~Beside(step, Connecting, Disconnecting)
StillActive ==
  \A p \in Process : step[p] \in Connecting /\ sawActive[p] => source = "active"
NothingLeft == \A p \in Process : step[p] = "remove" /\ mine[p] = None => stored = None
Removed == source = "disconnected" => stored = None

RemovalInv == ~crossed => Apart /\ StillActive /\ NothingLeft /\ Removed

LEMMA InitRemoval == Init => RemovalInv
  BY DEF Init, RemovalInv, Apart, Beside, StillActive, NothingLeft, Removed, Connecting,
      Disconnecting

LEMMA NextRemoval == ASSUME TypeInv, RemovalInv, Next PROVE RemovalInv'
<1>1. ASSUME NEW a \in Attempt, BeginConsent(a) PROVE RemovalInv'
  BY <1>1 DEF BeginConsent, mailbox, session,
      TypeInv, TypeOK, RemovalInv, Apart, Beside, StillActive, NothingLeft, Removed,
      Connecting, Disconnecting
<1>2. ASSUME NEW p \in Process, PurgeLogins(p) PROVE RemovalInv'
  BY <1>2 DEF PurgeLogins, mailbox, session, Goto,
      TypeInv, TypeOK, RemovalInv, Apart, Beside, StillActive, NothingLeft, Removed,
      Connecting, Disconnecting
<1>3. ASSUME NEW p \in Process, CountLogins(p) PROVE RemovalInv'
  BY <1>3 DEF CountLogins, mailbox, session, Goto,
      TypeInv, TypeOK, RemovalInv, Apart, Beside, StillActive, NothingLeft, Removed,
      Connecting, Disconnecting
<1>4. ASSUME NEW p \in Process, NEW a \in Login, InsertLogin(p, a) PROVE RemovalInv'
  BY <1>4 DEF InsertLogin, mailbox, session, Goto,
      TypeInv, TypeOK, RemovalInv, Apart, Beside, StillActive, NothingLeft, Removed,
      Connecting, Disconnecting
<1>5. ASSUME NEW a \in All, Lapse(a) PROVE RemovalInv'
  BY <1>5 DEF Lapse, mailbox, session,
      TypeInv, TypeOK, RemovalInv, Apart, Beside, StillActive, NothingLeft, Removed,
      Connecting, Disconnecting
<1>6. ASSUME NEW a \in All, RefuseCallback(a) PROVE RemovalInv'
  BY <1>6 DEF RefuseCallback, mailbox, session,
      TypeInv, TypeOK, RemovalInv, Apart, Beside, StillActive, NothingLeft, Removed,
      Connecting, Disconnecting
<1>7. ASSUME NEW p \in Process, NEW a \in All, Lookup(p, a) PROVE RemovalInv'
  BY <1>7 DEF Lookup, mailbox, Goto,
      TypeInv, TypeOK, RemovalInv, Apart, Beside, StillActive, NothingLeft, Removed,
      Connecting, Disconnecting
<1>8. ASSUME NEW p \in Process, Consume(p) PROVE RemovalInv'
  BY <1>8 DEF Consume, mailbox, session, Goto,
      TypeInv, TypeOK, RemovalInv, Apart, Beside, StillActive, NothingLeft, Removed,
      Connecting, Disconnecting
<1>9. ASSUME NEW p \in Process, Decline(p) PROVE RemovalInv'
  BY <1>9 DEF Decline, mailbox, Goto, End,
      TypeInv, TypeOK, RemovalInv, Apart, Beside, StillActive, NothingLeft, Removed,
      Connecting, Disconnecting
<1>10. ASSUME NEW p \in Process, Exchange(p) PROVE RemovalInv'
  BY <1>10 DEF Exchange, mailbox, session, Goto,
      TypeInv, TypeOK, RemovalInv, Apart, Beside, StillActive, NothingLeft, Removed,
      Connecting, Disconnecting
<1>11. ASSUME NEW p \in Process, ExchangeFails(p) PROVE RemovalInv'
  BY <1>11 DEF ExchangeFails, mailbox, Goto, End,
      TypeInv, TypeOK, RemovalInv, Apart, Beside, StillActive, NothingLeft, Removed,
      Connecting, Disconnecting
<1>12. ASSUME NEW p \in Process, Identify(p) PROVE RemovalInv'
  BY <1>12 DEF Identify, mailbox, Goto, End,
      TypeInv, TypeOK, RemovalInv, Apart, Beside, StillActive, NothingLeft, Removed,
      Connecting, Disconnecting
<1>13. ASSUME NEW p \in Process, ReadSource(p) PROVE RemovalInv'
  BY <1>13 DEF ReadSource, Goto,
      TypeInv, TypeOK, RemovalInv, Apart, Beside, StillActive, NothingLeft, Removed,
      Connecting, Disconnecting
<1>14. ASSUME NEW p \in Process, ReadCredential(p) PROVE RemovalInv'
  BY <1>14 DEF ReadCredential, mailbox, Goto,
      TypeInv, TypeOK, RemovalInv, Apart, Beside, StillActive, NothingLeft, Removed,
      Connecting, Disconnecting
<1>15. ASSUME NEW p \in Process, Store(p) PROVE RemovalInv'
  BY <1>15 DEF Store, Goto, End,
      TypeInv, TypeOK, RemovalInv, Apart, Beside, StillActive, NothingLeft, Removed,
      Connecting, Disconnecting
<1>16. ASSUME NEW p \in Process, StoreFails(p) PROVE RemovalInv'
  BY <1>16 DEF StoreFails, mailbox, Goto, End,
      TypeInv, TypeOK, RemovalInv, Apart, Beside, StillActive, NothingLeft, Removed,
      Connecting, Disconnecting
<1>17. ASSUME NEW p \in Process, StartDisconnect(p) PROVE RemovalInv'
  BY <1>17 DEF StartDisconnect, mailbox, Goto,
      TypeInv, TypeOK, RemovalInv, Apart, Beside, StillActive, NothingLeft, Removed,
      Connecting, Disconnecting
<1>18. ASSUME NEW p \in Process, ReadTokens(p) PROVE RemovalInv'
  BY <1>18 DEF ReadTokens, mailbox, Goto,
      TypeInv, TypeOK, RemovalInv, Apart, Beside, StillActive, NothingLeft, Removed,
      Connecting, Disconnecting
<1>19. ASSUME NEW p \in Process, Revoke(p) PROVE RemovalInv'
  BY <1>19, ConsentAssumption DEF Revoke, mailbox, session, Goto,
      TypeInv, TypeOK, InHand, RemovalInv, Apart, Beside, StillActive, NothingLeft, Removed,
      Connecting, Disconnecting
<1>20. ASSUME NEW p \in Process, Remove(p) PROVE RemovalInv'
  BY <1>20 DEF Remove, Remaining, Goto, End,
      TypeInv, TypeOK, RemovalInv, Apart, Beside, StillActive, NothingLeft, Removed,
      Connecting, Disconnecting
<1>21. ASSUME NEW p \in Process, StartScan(p) PROVE RemovalInv'
  BY <1>21 DEF StartScan, mailbox, session, Goto,
      TypeInv, TypeOK, RemovalInv, Apart, Beside, StillActive, NothingLeft, Removed,
      Connecting, Disconnecting
<1>22. ASSUME NEW p \in Process, ReadToken(p) PROVE RemovalInv'
  BY <1>22 DEF ReadToken, mailbox, Goto,
      TypeInv, TypeOK, RemovalInv, Apart, Beside, StillActive, NothingLeft, Removed,
      Connecting, Disconnecting
<1>23. ASSUME NEW p \in Process, Refresh(p) PROVE RemovalInv'
  BY <1>23 DEF Refresh, mailbox, session, Goto,
      TypeInv, TypeOK, RemovalInv, Apart, Beside, StillActive, NothingLeft, Removed,
      Connecting, Disconnecting
<1>24. ASSUME NEW p \in Process, WriteBack(p) PROVE RemovalInv'
  BY <1>24 DEF WriteBack, Goto, End,
      TypeInv, TypeOK, RemovalInv, Apart, Beside, StillActive, NothingLeft, Removed,
      Connecting, Disconnecting
<1>25. ASSUME NEW p \in Process, Abort(p) PROVE RemovalInv'
  BY <1>25 DEF Abort, mailbox, Goto, End,
      TypeInv, TypeOK, RemovalInv, Apart, Beside, StillActive, NothingLeft, Removed,
      Connecting, Disconnecting
<1>26. QED
  BY <1>1, <1>2, <1>3, <1>4, <1>5, <1>6, <1>7, <1>8, <1>9, <1>10, <1>11, <1>12, <1>13, <1>14,
     <1>15, <1>16, <1>17, <1>18, <1>19, <1>20, <1>21, <1>22, <1>23, <1>24, <1>25
  DEF Next, Callback, Disconnect, Scan

(* A disconnect removes the tokens whatever Google answers and scans do       *)
(* (gmail.py:545-568), beside no callback's end.                               *)
THEOREM DisconnectsRemove == Spec => []DisconnectRemoves
<1>1. Init => RemovalInv BY InitRemoval
<1>2. TypeInv /\ RemovalInv /\ [Next]_vars => RemovalInv'
  <2>1. ASSUME RemovalInv, UNCHANGED vars PROVE RemovalInv'
    BY <2>1 DEF RemovalInv, Apart, Beside, StillActive, NothingLeft, Removed, vars, mailbox,
        session
  <2>2. QED BY <2>1, NextRemoval
<1>3. RemovalInv => DisconnectRemoves BY DEF RemovalInv, Removed, DisconnectRemoves
<1>4. QED BY <1>1, <1>2, <1>3, TypeInvariant, PTL DEF Spec
=============================================================================
