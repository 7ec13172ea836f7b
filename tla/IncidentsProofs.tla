-------------------------- MODULE IncidentsProofs --------------------------
(* Proofs about Incidents, for every value of its constants. *)
EXTENDS Incidents, RulesProofs

-----------------------------------------------------------------------------
(* Types, group by group of variables. *)

PlatformType ==
  /\ now \in 0..MaxNow /\ imported \subseteq Imports /\ seeded \in BOOLEAN
  /\ source \in [Source -> {"absent", "active", "disconnected"}]

SignalType ==
  /\ received \in [Message -> Int \cup {None}] /\ occurred \in [Message -> Int]
  /\ context \in [Message -> [trusted : BOOLEAN, first : BOOLEAN]]

CaseType ==
  /\ status \in [Case -> Statuses]
  /\ DOMAIN key = Case /\ DOMAIN score = Case
  /\ first \in [Case -> Int] /\ last \in [Case -> Int] /\ created \in [Case -> Int]

HistoryType == history \in [Contact -> [first : Int, counted : SUBSET Message] \cup {None}]

ListType == trusted \subseteq Entries /\ pending \subseteq Entries

(* The foreign keys. *)
LinkType ==
  /\ caseOf \in [Message -> Case \cup {None}]
  /\ \A x \in findings : x.signal \in Message /\ received[x.signal] # None
  /\ \A m \in Message : caseOf[m] # None =>
       received[m] # None /\ status[caseOf[m]] # "absent"

LEMMA TypeParts ==
  TypeOK <=> PlatformType /\ SignalType /\ CaseType /\ HistoryType /\ ListType /\ LinkType
  BY DEF TypeOK, PlatformType, SignalType, CaseType, HistoryType, ListType, LinkType

LEMMA TypePartsNext ==
  PlatformType' /\ SignalType' /\ CaseType' /\ HistoryType' /\ ListType' /\ LinkType' => TypeOK'
  BY DEF TypeOK, PlatformType, SignalType, CaseType, HistoryType, ListType, LinkType

LEMMA InitType == Init => TypeOK
<1> SUFFICES ASSUME Init PROVE TypeOK
  OBVIOUS
<1> seeded \in BOOLEAN
  BY Zenon DEF Init
<1>1. PlatformType
  BY IncidentsAssumption DEF Init, PlatformType
<1>2. SignalType
  BY DEF Init, SignalType, NoContext
<1>3. CaseType
  BY DEF Init, CaseType, Statuses
<1>4. HistoryType /\ ListType /\ LinkType
  BY DEF Init, HistoryType, ListType, LinkType
<1>5. QED
  BY <1>1, <1>2, <1>3, <1>4, TypeParts

-----------------------------------------------------------------------------
(* What recording a signal does. *)

LEMMA TimeIsInt ==
  ASSUME TypeOK, NEW m \in Message
  PROVE  TimeOf(m) \in Int
  BY IncidentsAssumption DEF TypeOK, TimeOf

(* A rule found what a finding says. *)
LEMMA FindingsAreOfSignal ==
  ASSUME NEW m, NEW t, NEW x \in FindingsOf(m, t)
  PROVE  /\ x.signal = m
         /\ \E r \in Table : x.code = r.code /\ x.weight = r.weight
  BY DEF FindingsOf, EvaluateRules

(* The effect on the cases, when there are findings. *)
Opens(c, m) ==
  \E k : OpenCase(c, k, TimeOf(m), FindingsOf(m, TimeOf(m)))

Joins(c, m) ==
  /\ \E k : InReach(c, k, TimeOf(m))
  /\ JoinCase(c, TimeOf(m), FindingsOf(m, TimeOf(m)))

FilesUnder(c, m) ==
  /\ FindingsOf(m, TimeOf(m)) # {}
  /\ caseOf' = [caseOf EXCEPT ![m] = c]
  /\ Opens(c, m) \/ Joins(c, m)

LEMMA RecordFiles ==
  ASSUME NEW m \in Message, Record(m)
  PROVE  \/ FindingsOf(m, TimeOf(m)) = {} /\ UNCHANGED <<cases, caseOf>>
         \/ \E c \in Case : FilesUnder(c, m)
<1> DEFINE t == TimeOf(m)
           fs == FindingsOf(m, t)
           reachable == {c \in Case : InReach(c, KeyOf(m, t), t)}
<1>1. Correlate(m, t, fs)
  BY DEF Record
<1>2. CASE fs = {}
  BY <1>1, <1>2 DEF Correlate
<1>3. CASE fs # {} /\ reachable = {}
  <2>1. PICK c \in Case : OpenCase(c, KeyOf(m, t), t, fs) /\ caseOf' = [caseOf EXCEPT ![m] = c]
    BY <1>1, <1>3 DEF Correlate
  <2>2. QED
    BY <2>1, <1>3 DEF FilesUnder, Opens
<1>4. CASE fs # {} /\ reachable # {}
  <2>1. PICK c \in Newest(reachable) : JoinCase(c, t, fs) /\ caseOf' = [caseOf EXCEPT ![m] = c]
    BY <1>1, <1>4 DEF Correlate
  <2>2. c \in Case /\ InReach(c, KeyOf(m, t), t)
    BY DEF Newest
  <2>3. QED
    BY <2>1, <2>2, <1>4 DEF FilesUnder, Joins
<1>5. QED
  BY <1>2, <1>3, <1>4

(* The findings of the cases afterwards. *)
LEMMA FindingsFiled ==
  ASSUME TypeOK, NEW m \in Message, Record(m), NEW c \in Case, FilesUnder(c, m), NEW d \in Case
  PROVE  FindingsIn(d)' = IF d = c THEN FindingsIn(d) \cup FindingsOf(m, TimeOf(m))
                                   ELSE FindingsIn(d)
<1> DEFINE fs == FindingsOf(m, TimeOf(m))
<1>1. \A x \in findings : x.signal \in Message \ {m}
  BY DEF TypeOK, Record
<1>2. \A x \in fs : x.signal = m
  BY FindingsAreOfSignal
<1>3. findings' = findings \cup fs
  BY DEF Record
<1>4. caseOf \in [Message -> Case \cup {None}] /\ caseOf' = [caseOf EXCEPT ![m] = c]
  BY DEF TypeOK, FilesUnder
<1>5. \A x \in findings : caseOf'[x.signal] = caseOf[x.signal]
  BY <1>1, <1>4
<1>6. \A x \in fs : caseOf'[x.signal] = c
  BY <1>2, <1>4
<1> HIDE DEF fs
<1>7. FindingsIn(d)' = {x \in findings \cup fs : caseOf'[x.signal] = d}
  BY <1>3 DEF FindingsIn
<1>8. QED
  BY <1>5, <1>6, <1>7 DEF FindingsIn, fs

LEMMA NoFindingsFiled ==
  ASSUME TypeOK, NEW m \in Message, Record(m), UNCHANGED caseOf,
         FindingsOf(m, TimeOf(m)) = {}
  PROVE  findings' = findings /\ \A d \in Case : FindingsIn(d)' = FindingsIn(d)
  BY DEF Record, FindingsIn

LEMMA ContactKnown ==
  ASSUME NEW m \in Message, FromSender(m)
  PROVE  ContactOf(m) \in Contact
  BY IncidentsAssumption DEF FromSender, ContactOf

LEMMA HistoryRecorded ==
  ASSUME TypeOK, NEW m \in Message, NEW t \in Int, SenderContext(m, t)
  PROVE  HistoryType'
<1>1. CASE ~FromSender(m)
  BY <1>1 DEF TypeOK, HistoryType, SenderContext
<1>2. CASE FromSender(m)
  <2> DEFINE k == ContactOf(m)
             h == IF history[k] = None THEN [first |-> t, counted |-> {m}]
                  ELSE [first |-> IF t < history[k].first THEN t ELSE history[k].first,
                        counted |-> history[k].counted \cup {m}]
  <2>1. history' = [history EXCEPT ![k] = h]
    BY <1>2 DEF SenderContext
  <2>2. h \in [first : Int, counted : SUBSET Message]
    BY <1>2, ContactKnown DEF TypeOK
  <2>3. QED
    BY <2>1, <2>2 DEF TypeOK, HistoryType
<1>3. QED
  BY <1>1, <1>2

LEMMA CasesRecorded ==
  ASSUME TypeOK, NEW m \in Message, Record(m)
  PROVE  CaseType' /\ LinkType'
<1> DEFINE t == TimeOf(m)
           fs == FindingsOf(m, t)
<1>1. t \in Int /\ now \in Int /\ now # None
  BY TimeIsInt, IncidentsAssumption DEF TypeOK
<1>2. \A x \in fs : x.signal = m
  BY FindingsAreOfSignal
<1>3. received' = [received EXCEPT ![m] = now] /\ findings' = findings \cup fs
  BY DEF Record
<1>4. \A n \in Message : received[n] # None => received'[n] # None
  BY <1>1, <1>3 DEF TypeOK
<1>5. received'[m] # None
  BY <1>1, <1>3 DEF TypeOK
<1>6. \A x \in findings' : x.signal \in Message /\ received'[x.signal] # None
  <2> HIDE DEF fs
  <2>1. QED
    BY <1>2, <1>3, <1>4, <1>5 DEF TypeOK
<1>7. CASE fs = {} /\ UNCHANGED <<cases, caseOf>>
  BY <1>4, <1>6, <1>7 DEF TypeOK, CaseType, LinkType, cases
<1>8. ASSUME NEW c \in Case, FilesUnder(c, m)
      PROVE  CaseType' /\ LinkType'
  <2> HIDE DEF fs
  <2>1. caseOf' = [caseOf EXCEPT ![m] = c]
    BY <1>8 DEF FilesUnder
  <2>2. CaseType' /\ (\A d \in Case : status[d] # "absent" => status'[d] # "absent")
                  /\ status'[c] # "absent"
    <3>1. CASE Opens(c, m)
      <4>1. PICK k : OpenCase(c, k, t, fs)
        BY <3>1 DEF Opens, fs
      <4>2. QED
        BY <4>1, <1>1 DEF TypeOK, CaseType, OpenCase, Statuses
    <3>2. CASE Joins(c, m)
      <4>1. status[c] \notin {"absent", "false_positive"} /\ JoinCase(c, t, fs)
        BY <3>2 DEF Joins, InReach, fs
      <4>2. QED
        BY <4>1, <1>1 DEF TypeOK, CaseType, JoinCase, Statuses
    <3>3. QED
      BY <1>8, <3>1, <3>2 DEF FilesUnder
  <2>3. LinkType'
    BY <2>1, <2>2, <1>4, <1>5, <1>6 DEF TypeOK, LinkType
  <2>4. QED
    BY <2>2, <2>3
<1>9. QED
  BY <1>7, <1>8, RecordFiles

LEMMA RecordType ==
  ASSUME TypeOK, NEW m \in Message, Record(m)
  PROVE  SignalType' /\ CaseType' /\ HistoryType' /\ LinkType'
<1>1. TimeOf(m) \in Int /\ now \in Int
  BY TimeIsInt, IncidentsAssumption DEF TypeOK
<1>2. ContextOf(m, TimeOf(m)) \in [trusted : BOOLEAN, first : BOOLEAN]
  BY DEF ContextOf, NoContext
<1>3. SignalType'
  BY <1>1, <1>2 DEF TypeOK, SignalType, Record
<1>4. HistoryType'
  BY <1>1, HistoryRecorded DEF Record
<1>5. QED
  BY <1>3, <1>4, CasesRecorded

-----------------------------------------------------------------------------
(* Steps that touch neither cases nor evidence. *)

Quiet == UNCHANGED evidence /\ UNCHANGED cases

LEMMA QuietKeeps ==
  ASSUME TypeOK, Quiet
  PROVE  SignalType' /\ CaseType' /\ HistoryType' /\ LinkType'
  BY DEF TypeOK, Quiet, evidence, cases, SignalType, CaseType, HistoryType, LinkType

LEMMA EntriesForType ==
  ASSUME TypeOK, NEW c \in Case, NEW trust \in {"address", "domain"}
  PROVE  EntriesFor(c, trust) \subseteq Entries
<1>1. SendersOf(c) \subseteq DOMAIN DomainOf
  BY IncidentsAssumption DEF SendersOf, FindingsIn, TypeOK
<1>2. \A a \in SendersOf(c) : DomainOf[a] \in Domains
  BY <1>1, IncidentsAssumption
<1>3. QED
  BY <1>1, <1>2 DEF EntriesFor, Entries

LEMMA TransitionType ==
  ASSUME TypeOK, NEW c \in Case, NEW verdict \in ValidTransitions[status[c]],
         status' = [status EXCEPT ![c] = verdict],
         UNCHANGED <<now, rules, source, evidence, key, first, last, score, created>>
  PROVE  PlatformType' /\ SignalType' /\ CaseType' /\ HistoryType' /\ LinkType'
<1>1. status[c] \in Statuses
  BY DEF TypeOK
<1>2. verdict \in Statuses \ {"absent"}
  BY <1>1 DEF ValidTransitions, Statuses
<1>3. QED
  BY <1>2 DEF TypeOK, evidence, rules, PlatformType, SignalType, CaseType, HistoryType, LinkType

LEMMA ExpireType ==
  ASSUME TypeOK, Expire
  PROVE  TypeOK'
<1> DEFINE cutoff == now - Retention
           old == {c \in Case : status[c] # "absent" /\ created[c] < cutoff}
           gone == ExpiredSignals(old, cutoff)
<1>1. PlatformType' /\ ListType'
  BY DEF TypeOK, Expire, PlatformType, ListType, lists, rules
<1>2. SignalType'
  <2>1. occurred' = Cleared(occurred, gone) /\ DOMAIN occurred = Message
    BY DEF Expire, TypeOK
  <2>2. occurred' \in [Message -> Int]
    BY <2>1 DEF Cleared, TypeOK
  <2>3. QED
    BY <2>2 DEF TypeOK, Expire, SignalType, NoContext
<1>3. CaseType'
  <2>1. /\ first' = Cleared(first, old) /\ last' = Cleared(last, old)
        /\ score' = Cleared(score, old) /\ created' = Cleared(created, old)
    BY DEF Expire
  <2>2. /\ first' \in [Case -> Int] /\ last' \in [Case -> Int] /\ created' \in [Case -> Int]
        /\ DOMAIN score' = Case
    BY <2>1 DEF Cleared, TypeOK
  <2>3. status' \in [Case -> Statuses] /\ DOMAIN key' = Case
    BY DEF Expire, TypeOK, Statuses
  <2>4. QED
    BY <2>2, <2>3 DEF CaseType
<1>4. HistoryType'
  BY DEF TypeOK, Expire, HistoryType
<1>5. LinkType'
  <2>1. \A x \in findings' : x \in findings /\ x.signal \in Message /\ x.signal \notin gone
    BY DEF TypeOK, Expire
  <2>2. received' = [m \in Message |-> IF m \in gone THEN None ELSE received[m]]
    BY DEF Expire
  <2>3. \A x \in findings' : x.signal \in Message /\ received'[x.signal] # None
    BY <2>1, <2>2 DEF TypeOK
  <2>4. caseOf' = [m \in Message |-> IF m \in gone THEN None ELSE caseOf[m]]
    BY DEF Expire
  <2>5. status' = [c \in Case |-> IF c \in old THEN "absent" ELSE status[c]]
    BY DEF Expire
  <2>6. ASSUME NEW m \in Message, caseOf'[m] # None
        PROVE  received'[m] # None /\ status'[caseOf'[m]] # "absent"
    <3>1. m \notin gone /\ caseOf'[m] = caseOf[m] /\ caseOf[m] # None /\ received[m] # None
      BY <2>4, <2>6 DEF TypeOK
    <3>2. caseOf[m] \notin old
      BY <3>1 DEF ExpiredSignals, Retained
    <3>3. QED
      BY <3>1, <3>2, <2>2, <2>5 DEF TypeOK
  <2>7. QED
    BY <2>3, <2>4, <2>6 DEF TypeOK, LinkType
<1>6. QED
  BY <1>1, <1>2, <1>3, <1>4, <1>5, TypePartsNext

LEMMA NextType == TypeOK /\ [Next]_vars => TypeOK'
<1> SUFFICES ASSUME TypeOK, [Next]_vars PROVE TypeOK'
  OBVIOUS
<1>1. ASSUME NEW m \in Message, Ingest(m) PROVE TypeOK'
  <2>1. PlatformType' /\ ListType'
    BY <1>1 DEF TypeOK, Ingest, Record, PlatformType, ListType, lists, rules
  <2>2. QED
    BY <1>1, <2>1, RecordType, TypePartsNext DEF Ingest
<1>2. ASSUME NEW m \in Message, PostureCheck(m) PROVE TypeOK'
  <2>1. PlatformType' /\ ListType'
    BY <1>2 DEF TypeOK, PostureCheck, Record, PlatformType, ListType, lists, rules
  <2>2. QED
    BY <1>2, <2>1, RecordType, TypePartsNext DEF PostureCheck
<1>3. ASSUME NEW s \in Controlled, NEW st \in {"active", "disconnected"}, UpdateSource(s, st)
      PROVE  TypeOK'
  <2>1. Quiet /\ PlatformType' /\ ListType'
    BY <1>3 DEF TypeOK, UpdateSource, PlatformType, ListType, lists, rules, Quiet
  <2>2. QED
    BY <2>1, QuietKeeps, TypePartsNext
<1>4. CASE CreatePostureSource
  <2>1. Quiet /\ PlatformType' /\ ListType'
    BY <1>4 DEF TypeOK, CreatePostureSource, PlatformType, ListType, lists, rules, Quiet
  <2>2. QED
    BY <2>1, QuietKeeps, TypePartsNext
<1>5. ASSUME NEW c \in Case, NEW v \in Statuses, Transition(c, v) PROVE TypeOK'
  <2>1. ListType'
    BY <1>5 DEF TypeOK, Transition, ListType, lists
  <2>2. QED
    BY <1>5, <2>1, TransitionType, TypePartsNext DEF Transition
<1>6. ASSUME NEW c \in Case, NEW trust \in {"address", "domain"}, TransitionTrusting(c, trust)
      PROVE  TypeOK'
  <2>1. pending' \subseteq EntriesFor(c, trust) /\ trusted' = trusted
    BY <1>6 DEF TransitionTrusting
  <2>2. ListType'
    BY <2>1, EntriesForType DEF TypeOK, ListType
  <2>3. QED
    BY <1>6, <2>2, TransitionType, TypePartsNext DEF TransitionTrusting
<1>7. ASSUME NEW e \in Entries, AddPending(e) \/ AddTrusted(e) \/ RemoveTrusted(e)
      PROVE  TypeOK'
  <2>1. Quiet /\ PlatformType' /\ ListType'
    BY <1>7 DEF TypeOK, AddPending, AddTrusted, RemoveTrusted, PlatformType, ListType, rules, Quiet
  <2>2. QED
    BY <2>1, QuietKeeps, TypePartsNext
<1>8. CASE DropPending
  <2>1. Quiet /\ PlatformType' /\ ListType'
    BY <1>8 DEF TypeOK, DropPending, PlatformType, ListType, rules, Quiet
  <2>2. QED
    BY <2>1, QuietKeeps, TypePartsNext
<1>9. ASSUME NEW r \in Imports, ImportRule(r) PROVE TypeOK'
  <2>1. Quiet /\ PlatformType' /\ ListType'
    BY <1>9 DEF TypeOK, ImportRule, PlatformType, ListType, lists, rules, Quiet
  <2>2. QED
    BY <2>1, QuietKeeps, TypePartsNext
<1>10. CASE Tick
  <2>1. Quiet /\ PlatformType' /\ ListType'
    BY <1>10, IncidentsAssumption DEF TypeOK, Tick, PlatformType, ListType, lists, rules, Quiet
  <2>2. QED
    BY <2>1, QuietKeeps, TypePartsNext
<1>11. CASE ListRules
  <2>1. Quiet /\ PlatformType' /\ ListType'
    BY <1>11 DEF TypeOK, ListRules, PlatformType, ListType, lists, Quiet
  <2>2. QED
    BY <2>1, QuietKeeps, TypePartsNext
<1>12. CASE UNCHANGED vars
  <2>1. Quiet /\ PlatformType' /\ ListType'
    BY <1>12 DEF TypeOK, vars, PlatformType, ListType, lists, rules, Quiet
  <2>2. QED
    BY <2>1, QuietKeeps, TypePartsNext
<1>13. QED
  BY <1>1, <1>2, <1>3, <1>4, <1>5, <1>6, <1>7, <1>8, <1>9, <1>10, <1>11, <1>12, ExpireType DEF Next

(* Every variable keeps its type, findings refer to retained signals and    *)
(* signals to existing cases.                                                *)
THEOREM TypeCorrect == Spec => []TypeOK
  BY InitType, NextType, PTL DEF Spec

-----------------------------------------------------------------------------
(* A step records a signal, expires evidence, or leaves every case its        *)
(* evidence.                                                                  *)

CasesKept ==
  /\ UNCHANGED evidence /\ UNCHANGED <<key, first, last, score, created>>
  /\ \A c \in Case : status'[c] = "absent" <=> status[c] = "absent"

LEMMA TransitionKeeps ==
  ASSUME TypeOK, NEW c \in Case, NEW verdict \in ValidTransitions[status[c]],
         status' = [status EXCEPT ![c] = verdict]
  PROVE  \A d \in Case : status'[d] = "absent" <=> status[d] = "absent"
<1>1. status[c] \in Statuses
  BY DEF TypeOK
<1>2. status[c] # "absent" /\ verdict # "absent"
  BY <1>1 DEF ValidTransitions, Statuses
<1>3. QED
  BY <1>2 DEF TypeOK

LEMMA StepKinds ==
  ASSUME TypeOK, [Next]_vars
  PROVE  \/ \E m \in Message : Record(m) /\ UNCHANGED imported
         \/ Expire
         \/ CasesKept /\ UNCHANGED imported /\ (seeded => seeded')
         \/ CasesKept /\ \E r \in Imports : ImportRule(r)
<1>1. ASSUME NEW m \in Message, Ingest(m) \/ PostureCheck(m)
      PROVE  Record(m) /\ UNCHANGED imported
  BY <1>1 DEF Ingest, PostureCheck
<1>2. ASSUME NEW s \in Controlled, NEW st \in {"active", "disconnected"}, UpdateSource(s, st)
      PROVE  CasesKept /\ UNCHANGED imported /\ (seeded => seeded')
  BY <1>2 DEF UpdateSource, CasesKept, cases, rules
<1>3. ASSUME NEW c \in Case, NEW v \in Statuses, Transition(c, v)
      PROVE  CasesKept /\ UNCHANGED imported /\ (seeded => seeded')
  BY <1>3, TransitionKeeps DEF Transition, CasesKept, rules
<1>4. ASSUME NEW c \in Case, NEW trust \in {"address", "domain"}, TransitionTrusting(c, trust)
      PROVE  CasesKept /\ UNCHANGED imported /\ (seeded => seeded')
  BY <1>4, TransitionKeeps DEF TransitionTrusting, CasesKept, rules
<1>5. ASSUME NEW e \in Entries, AddPending(e) \/ AddTrusted(e) \/ RemoveTrusted(e)
      PROVE  CasesKept /\ UNCHANGED imported /\ (seeded => seeded')
  BY <1>5 DEF AddPending, AddTrusted, RemoveTrusted, CasesKept, cases, rules
<1>6. ASSUME NEW r \in Imports, ImportRule(r) PROVE CasesKept
  BY <1>6 DEF ImportRule, CasesKept, cases, rules
<1>7. ASSUME CreatePostureSource \/ DropPending \/ Tick \/ ListRules \/ UNCHANGED vars
      PROVE  CasesKept /\ UNCHANGED imported /\ (seeded => seeded')
  BY <1>7 DEF CreatePostureSource, DropPending, Tick, ListRules, vars, CasesKept, cases, rules
<1>8. QED
  BY <1>1, <1>2, <1>3, <1>4, <1>5, <1>6, <1>7 DEF Next

-----------------------------------------------------------------------------
(* Cases and their evidence. *)

Times(c) == {occurred[x.signal] : x \in FindingsIn(c)}

Matching(c) ==
  /\ first[c] \in Times(c) /\ last[c] \in Times(c)
  /\ \A t \in Times(c) : first[c] <= t /\ t <= last[c]
  /\ score[c] = Score(FindingsIn(c))

CaseInv ==
  /\ TypeOK
  /\ \A c \in Case : status[c] # "absent" => Matching(c) /\ last[c] - first[c] <= Window

LEMMA TimesAreInts ==
  ASSUME TypeOK, NEW c \in Case
  PROVE  Times(c) \subseteq Int
  BY DEF TypeOK, Times, FindingsIn

(* A case that takes the findings of m, and the others.                       *)
LEMMA TimesFiled ==
  ASSUME TypeOK, NEW m \in Message, Record(m), NEW c \in Case, FilesUnder(c, m), NEW d \in Case
  PROVE  Times(d)' = IF d = c THEN Times(d) \cup {TimeOf(m)} ELSE Times(d)
<1> DEFINE fs == FindingsOf(m, TimeOf(m))
<1>1. fs # {} /\ \A x \in fs : x.signal = m
  BY FindingsAreOfSignal DEF FilesUnder
<1>2. occurred' = [occurred EXCEPT ![m] = TimeOf(m)] /\ occurred \in [Message -> Int]
  BY DEF Record, TypeOK
<1>3. \A x \in FindingsIn(d) : x.signal \in Message \ {m}
  BY DEF TypeOK, Record, FindingsIn
<1>4. \A x \in FindingsIn(d) : occurred'[x.signal] = occurred[x.signal]
  BY <1>2, <1>3
<1>5. \A x \in fs : occurred'[x.signal] = TimeOf(m)
  BY <1>1, <1>2
<1>6. Times(d)' = {occurred'[x.signal] : x \in FindingsIn(d)'}
  BY DEF Times
<1>7. FindingsIn(d)' = IF d = c THEN FindingsIn(d) \cup fs ELSE FindingsIn(d)
  BY FindingsFiled
<1> HIDE DEF fs
<1>8. CASE d = c
  BY <1>1, <1>4, <1>5, <1>6, <1>7, <1>8 DEF Times
<1>9. CASE d # c
  BY <1>4, <1>6, <1>7, <1>9 DEF Times
<1>10. QED
  BY <1>8, <1>9

LEMMA EmptyWhenAbsent ==
  ASSUME TypeOK, NEW c \in Case, status[c] = "absent"
  PROVE  FindingsIn(c) = {}
<1>1. \A x \in findings : x.signal \in Message
  BY DEF TypeOK
<1>2. \A n \in Message : caseOf[n] # c
  BY IncidentsAssumption DEF TypeOK
<1>3. QED
  BY <1>1, <1>2 DEF FindingsIn

LEMMA OpensMatching ==
  ASSUME CaseInv, NEW m \in Message, Record(m), NEW c \in Case, FilesUnder(c, m), Opens(c, m)
  PROVE  \A d \in Case : status'[d] # "absent" => Matching(d)' /\ last'[d] - first'[d] <= Window
<1> DEFINE t == TimeOf(m)
           fs == FindingsOf(m, t)
<1>1. PICK k : OpenCase(c, k, t, fs)
  BY DEF Opens
<1>2. TypeOK /\ t \in Int /\ FindingsIn(c) = {} /\ Window \in Nat
  BY <1>1, TimeIsInt, EmptyWhenAbsent, IncidentsAssumption DEF CaseInv, OpenCase
<1>3. Times(c)' = {t} /\ FindingsIn(c)' = fs
  BY <1>2, TimesFiled, FindingsFiled DEF Times
<1> HIDE DEF t, fs
<1>4. first'[c] = t /\ last'[c] = t /\ score'[c] = Score(fs)
  BY <1>1 DEF CaseInv, TypeOK, OpenCase
<1>5. Matching(c)' /\ last'[c] - first'[c] <= Window
  BY <1>2, <1>3, <1>4 DEF Matching
<1>6. ASSUME NEW d \in Case \ {c}, status'[d] # "absent"
      PROVE  Matching(d)' /\ last'[d] - first'[d] <= Window
  <2>1. /\ status[d] # "absent" /\ first'[d] = first[d] /\ last'[d] = last[d]
        /\ score'[d] = score[d]
    BY <1>1, <1>6 DEF CaseInv, TypeOK, OpenCase
  <2>2. Times(d)' = Times(d) /\ FindingsIn(d)' = FindingsIn(d)
    BY <1>2, TimesFiled, FindingsFiled
  <2>3. QED
    BY <2>1, <2>2 DEF CaseInv, Matching
<1>7. QED
  BY <1>5, <1>6

LEMMA JoinsMatching ==
  ASSUME CaseInv, NEW m \in Message, Record(m), NEW c \in Case, FilesUnder(c, m), Joins(c, m)
  PROVE  \A d \in Case : status'[d] # "absent" => Matching(d)' /\ last'[d] - first'[d] <= Window
<1> DEFINE t == TimeOf(m)
           fs == FindingsOf(m, t)
<1>1. PICK k : InReach(c, k, t)
  BY DEF Joins
<1>2. JoinCase(c, t, fs)
  BY DEF Joins
<1>3. TypeOK /\ t \in Int /\ Window \in Nat /\ first[c] \in Int /\ last[c] \in Int
  BY TimeIsInt, IncidentsAssumption DEF CaseInv, TypeOK
<1>4. Times(c)' = Times(c) \cup {t} /\ FindingsIn(c)' = FindingsIn(c) \cup fs
  BY <1>3, TimesFiled, FindingsFiled
<1>5. Times(c) \subseteq Int
  BY <1>3, TimesAreInts
<1> HIDE DEF t, fs
<1>6. /\ first'[c] = IF t < first[c] THEN t ELSE first[c]
      /\ last'[c] = IF t > last[c] THEN t ELSE last[c]
      /\ score'[c] = Score(FindingsIn(c) \cup fs)
  BY <1>2 DEF CaseInv, TypeOK, JoinCase, Combined
<1>7. /\ first[c] \in Times(c) /\ last[c] \in Times(c)
      /\ \A u \in Times(c) : first[c] <= u /\ u <= last[c]
      /\ last[c] - first[c] <= Window
      /\ first[c] <= t + Window /\ first[c] >= t - Window
      /\ last[c] <= t + Window /\ last[c] >= t - Window
  BY <1>1 DEF CaseInv, Matching, InReach
<1>8. last'[c] - first'[c] <= Window
  BY <1>3, <1>6, <1>7
<1>9. \A u \in Times(c) \cup {t} : first'[c] <= u /\ u <= last'[c]
  BY <1>3, <1>5, <1>6, <1>7
<1>10. Matching(c)'
  BY <1>3, <1>4, <1>6, <1>7, <1>9 DEF Matching
<1>11. ASSUME NEW d \in Case \ {c}, status'[d] # "absent"
       PROVE  Matching(d)' /\ last'[d] - first'[d] <= Window
  <2>1. /\ status[d] # "absent" /\ first'[d] = first[d] /\ last'[d] = last[d]
        /\ score'[d] = score[d]
    BY <1>2, <1>11 DEF CaseInv, TypeOK, JoinCase
  <2>2. Times(d)' = Times(d) /\ FindingsIn(d)' = FindingsIn(d)
    BY <1>3, TimesFiled, FindingsFiled
  <2>3. QED
    BY <2>1, <2>2 DEF CaseInv, Matching
<1>12. QED
  BY <1>8, <1>10, <1>11

(* Expiry takes all the evidence of a case or none of it. *)
LEMMA ExpireEvidence ==
  ASSUME TypeOK, Expire, NEW c \in Case
  PROVE  IF status'[c] = "absent" THEN FindingsIn(c)' = {}
         ELSE /\ FindingsIn(c)' = FindingsIn(c) /\ Times(c)' = Times(c)
              /\ first'[c] = first[c] /\ last'[c] = last[c] /\ score'[c] = score[c]
              /\ status'[c] = status[c]
<1> DEFINE cutoff == now - Retention
           old == {d \in Case : status[d] # "absent" /\ created[d] < cutoff}
           gone == ExpiredSignals(old, cutoff)
<1>1. status' = [d \in Case |-> IF d \in old THEN "absent" ELSE status[d]]
  BY DEF Expire
<1>2. /\ caseOf' = [m \in Message |-> IF m \in gone THEN None ELSE caseOf[m]]
      /\ findings' = {x \in findings : x.signal \notin gone}
      /\ occurred' = Cleared(occurred, gone)
  BY DEF Expire
<1>3. \A x \in findings : x.signal \in Message /\ x.signal \in Retained
  BY DEF TypeOK, Retained
<1>4. c # None
  BY IncidentsAssumption
<1>5. CASE status'[c] = "absent"
  <2>1. \A x \in findings : caseOf[x.signal] = c => c \in old
    <3>1. ASSUME NEW x \in findings, caseOf[x.signal] = c
          PROVE  c \in old
      <4>1. status[c] # "absent"
        BY <3>1, <1>3, <1>4 DEF TypeOK
      <4>2. QED
        BY <4>1, <1>1, <1>5
    <3>2. QED
      BY <3>1
  <2>2. \A x \in findings : caseOf[x.signal] = c => x.signal \in gone
    BY <2>1, <1>3, <1>4 DEF ExpiredSignals
  <2>3. QED
    BY <2>2, <1>2, <1>3, <1>4, <1>5 DEF FindingsIn
<1>6. CASE status'[c] # "absent"
  <2>1. c \notin old /\ status'[c] = status[c]
    BY <1>1, <1>6
  <2>2. \A x \in FindingsIn(c) : x.signal \in Message \ gone
    BY <2>1, <1>3, <1>4 DEF FindingsIn, ExpiredSignals
  <2>3. FindingsIn(c)' = FindingsIn(c)
    BY <2>2, <1>2, <1>3, <1>4 DEF FindingsIn
  <2>4. \A x \in FindingsIn(c) : occurred'[x.signal] = occurred[x.signal]
    BY <2>2, <1>2 DEF Cleared, TypeOK
  <2>5. Times(c)' = Times(c)
    BY <2>3, <2>4 DEF Times
  <2>6. first'[c] = first[c] /\ last'[c] = last[c] /\ score'[c] = score[c]
    <3>1. /\ first' = Cleared(first, old) /\ last' = Cleared(last, old)
          /\ score' = Cleared(score, old)
      BY DEF Expire
    <3>2. QED
      BY <3>1, <2>1 DEF Cleared, TypeOK
  <2>7. QED
    BY <1>6, <2>1, <2>3, <2>5, <2>6
<1>7. QED
  BY <1>5, <1>6

LEMMA KeptEvidence ==
  ASSUME CasesKept, NEW c \in Case
  PROVE  /\ FindingsIn(c)' = FindingsIn(c) /\ Times(c)' = Times(c)
         /\ first'[c] = first[c] /\ last'[c] = last[c] /\ score'[c] = score[c]
<1>1. findings' = findings /\ caseOf' = caseOf /\ occurred' = occurred
  BY DEF CasesKept, evidence
<1>2. FindingsIn(c)' = FindingsIn(c)
  BY <1>1 DEF FindingsIn
<1>3. QED
  BY <1>1, <1>2 DEF Times, CasesKept

LEMMA InitCase == Init => CaseInv
  BY InitType DEF Init, CaseInv

LEMMA NextCase == CaseInv /\ [Next]_vars => CaseInv'
<1> SUFFICES ASSUME CaseInv, [Next]_vars PROVE CaseInv'
  OBVIOUS
<1>1. TypeOK /\ TypeOK'
  BY NextType DEF CaseInv
<1> DEFINE Good(c) == status[c] # "absent" => Matching(c) /\ last[c] - first[c] <= Window
<1>2. SUFFICES \A c \in Case : Good(c)'
  BY <1>1 DEF CaseInv
<1>3. ASSUME NEW m \in Message, Record(m)
      PROVE  \A c \in Case : Good(c)'
  <2>1. CASE FindingsOf(m, TimeOf(m)) = {} /\ UNCHANGED <<cases, caseOf>>
    <3>1. \A c \in Case : FindingsIn(c)' = FindingsIn(c)
      BY <1>1, <1>3, <2>1, NoFindingsFiled
    <3>2. \A c \in Case : \A x \in FindingsIn(c) : occurred'[x.signal] = occurred[x.signal]
      BY <1>1, <1>3 DEF FindingsIn, Record, TypeOK
    <3>3. \A c \in Case : Times(c)' = Times(c)
      BY <3>1, <3>2 DEF Times
    <3>4. QED
      BY <2>1, <3>1, <3>3 DEF cases, CaseInv, Matching
  <2>2. CASE \E c \in Case : FilesUnder(c, m)
    <3>1. PICK c \in Case : FilesUnder(c, m)
      BY <2>2
    <3>2. Opens(c, m) \/ Joins(c, m)
      BY <3>1 DEF FilesUnder
    <3>3. QED
      BY <1>3, <3>1, <3>2, OpensMatching, JoinsMatching
  <2>3. QED
    BY <1>3, <2>1, <2>2, RecordFiles
<1>4. CASE Expire
  BY <1>1, <1>4, ExpireEvidence DEF CaseInv, Matching
<1>5. CASE CasesKept
  BY <1>5, KeptEvidence DEF CaseInv, Matching, CasesKept
<1>6. QED
  BY <1>1, <1>3, <1>4, <1>5, StepKinds

LEMMA CaseInvHolds == Spec => []CaseInv
  BY InitCase, NextCase, PTL DEF Spec

(* The score and the range of every case are those of its retained evidence. *)
THEOREM MatchingAlways == Spec => []CaseMatchesEvidence
<1>1. CaseInv => CaseMatchesEvidence
  BY DEF CaseInv, CaseMatchesEvidence, Matching, Times
<1>2. QED
  BY <1>1, CaseInvHolds, PTL

(* No chain of evidence stretches a case beyond the correlation window. *)
THEOREM SpanAlwaysBounded == Spec => []SpanBounded
<1>1. CaseInv => SpanBounded
  BY DEF CaseInv, SpanBounded
<1>2. QED
  BY <1>1, CaseInvHolds, PTL

-----------------------------------------------------------------------------
(* Rules: codes are unique, and a finding is of a rule that is still there. *)

CodesUnique == \A q, r \in Table : q.code = r.code => q = r

RuleInv ==
  /\ CodesUnique
  /\ findings # {} => seeded
  /\ \A x \in findings : \E r \in Table : x.code = r.code /\ x.weight = r.weight

LEMMA RuleCode ==
  \A code, type, weight, matcher, test, suppress :
    Rule(code, type, weight, matcher, test, suppress).code = code
  BY DEF Rule

LEMMA DefaultCodes == \A q, r \in DefaultRules : q.code = r.code => q = r
  BY RuleCode, SMTT(60) DEF DefaultRules

LEMMA InitRule == Init => RuleInv
  BY DefaultCodes DEF Init, RuleInv, CodesUnique, Table

LEMMA NextRule == TypeOK /\ RuleInv /\ [Next]_vars => RuleInv'
<1> SUFFICES ASSUME TypeOK, RuleInv, [Next]_vars PROVE RuleInv'
  OBVIOUS
<1>1. ASSUME UNCHANGED imported PROVE Table' = Table
  BY <1>1 DEF Table
<1>2. ASSUME NEW m \in Message, Record(m), UNCHANGED imported PROVE RuleInv'
  <2>1. findings' = findings \cup FindingsOf(m, TimeOf(m)) /\ seeded'
    BY <1>2 DEF Record
  <2>2. \A x \in FindingsOf(m, TimeOf(m)) :
          \E r \in Table : x.code = r.code /\ x.weight = r.weight
    BY FindingsAreOfSignal
  <2>3. QED
    BY <1>1, <1>2, <2>1, <2>2 DEF RuleInv, CodesUnique
<1>3. CASE Expire
  <2>1. findings' \subseteq findings /\ UNCHANGED imported /\ UNCHANGED seeded
    BY <1>3 DEF Expire, rules
  <2>2. QED
    BY <1>1, <2>1 DEF RuleInv, CodesUnique
<1>4. CASE CasesKept /\ UNCHANGED imported /\ (seeded => seeded')
  BY <1>1, <1>4 DEF RuleInv, CodesUnique, CasesKept, evidence
<1>5. ASSUME CasesKept, NEW r \in Imports, ImportRule(r) PROVE RuleInv'
  <2>1. /\ imported' = imported \cup {r} /\ UNCHANGED seeded
        /\ \A q \in Rows : q.code # r.code
    BY <1>5 DEF ImportRule, Importable
  <2>2. findings' = findings
    BY <1>5 DEF CasesKept, evidence
  <2>3. \A q \in imported : q.code # r.code
    BY <2>1 DEF Rows, Table
  <2>4. /\ \A q \in Table' : q = r \/ (q \in Table /\ q.code # r.code)
        /\ r \in Table'
    BY <2>1, <2>3 DEF Table
  <2>5. CodesUnique'
    BY <2>4 DEF RuleInv, CodesUnique
  <2>6. CASE seeded
    <3>1. Table \subseteq Table'
      BY <2>1, <2>6 DEF Rows, Table
    <3>2. QED
      BY <2>1, <2>2, <2>5, <2>6, <3>1 DEF RuleInv
  <2>7. CASE ~seeded
    BY <2>1, <2>2, <2>5, <2>7 DEF RuleInv
  <2>8. QED
    BY <2>6, <2>7
<1>6. QED
  BY <1>2, <1>3, <1>4, <1>5, StepKinds

(* Evidence keeps the meaning its rule had: no import redefines a code. *)
THEOREM RuleCodesAlwaysStable == Spec => []RuleCodesAreStable
<1>1. RuleInv => RuleCodesAreStable
  BY DEF RuleInv, CodesUnique, RuleCodesAreStable
<1>2. QED
  BY <1>1, InitType, NextType, InitRule, NextRule, PTL DEF Spec

-----------------------------------------------------------------------------
(* The history of a contact: the earliest of the messages counted. *)

HistoryInv ==
  \A k \in Contact : history[k] # None =>
    /\ \A x \in history[k].counted : Raw[x].occurred \in Int /\ history[k].first <= Raw[x].occurred
    /\ \E x \in history[k].counted : history[k].first = Raw[x].occurred

LEMMA InitHistory == Init => HistoryInv
  BY DEF Init, HistoryInv

LEMMA TimeOfMail ==
  ASSUME NEW m \in Message, FromSender(m)
  PROVE  TimeOf(m) = Raw[m].occurred /\ Raw[m].occurred \in Int
  BY IncidentsAssumption DEF FromSender, TimeOf

LEMMA SenderContextKeeps ==
  ASSUME TypeOK, HistoryInv, NEW m \in Message, SenderContext(m, TimeOf(m))
  PROVE  HistoryInv'
<1> DEFINE t == TimeOf(m)
           k == ContactOf(m)
<1>1. CASE ~FromSender(m)
  BY <1>1 DEF SenderContext, HistoryInv
<1>2. CASE FromSender(m) /\ history[k] = None
  <2>1. history' = [history EXCEPT ![k] = [first |-> t, counted |-> {m}]]
    BY <1>2 DEF SenderContext
  <2>2. t = Raw[m].occurred /\ t \in Int /\ k \in Contact
    BY <1>2, TimeOfMail, ContactKnown
  <2> HIDE DEF t, k
  <2>3. history'[k] = [first |-> t, counted |-> {m}]
    BY <2>1, <2>2 DEF TypeOK
  <2>4. \A j \in Contact \ {k} : history'[j] = history[j]
    BY <2>1 DEF TypeOK
  <2>5. QED
    BY <2>2, <2>3, <2>4 DEF HistoryInv
<1>3. CASE FromSender(m) /\ history[k] # None
  <2> DEFINE h == history[k]
             f == IF t < h.first THEN t ELSE h.first
  <2>1. history' = [history EXCEPT ![k] = [first |-> f, counted |-> h.counted \cup {m}]]
    BY <1>3 DEF SenderContext
  <2>2. t = Raw[m].occurred /\ t \in Int /\ k \in Contact
    BY <1>3, TimeOfMail, ContactKnown
  <2>3. h.first \in Int
    BY <1>3, <2>2 DEF TypeOK
  <2> HIDE DEF t, k
  <2>4. /\ \A x \in h.counted : Raw[x].occurred \in Int /\ h.first <= Raw[x].occurred
        /\ \E x \in h.counted : h.first = Raw[x].occurred
    BY <1>3, <2>2 DEF HistoryInv
  <2>5. history'[k] = [first |-> f, counted |-> h.counted \cup {m}]
    BY <2>1, <2>2 DEF TypeOK
  <2>6. \A j \in Contact \ {k} : history'[j] = history[j]
    BY <2>1 DEF TypeOK
  <2>7. /\ \A x \in h.counted \cup {m} : Raw[x].occurred \in Int /\ f <= Raw[x].occurred
        /\ \E x \in h.counted \cup {m} : f = Raw[x].occurred
    BY <2>2, <2>3, <2>4
  <2> HIDE DEF h, f
  <2>8. QED
    BY <2>5, <2>6, <2>7 DEF HistoryInv, h
<1>4. QED
  BY <1>1, <1>2, <1>3

LEMMA NextHistory == TypeOK /\ HistoryInv /\ [Next]_vars => HistoryInv'
<1> SUFFICES ASSUME TypeOK, HistoryInv, [Next]_vars PROVE HistoryInv'
  OBVIOUS
<1>1. ASSUME NEW m \in Message, Record(m) PROVE HistoryInv'
  BY <1>1, SenderContextKeeps DEF Record
<1>2. CASE Expire
  BY <1>2 DEF Expire, HistoryInv
<1>3. CASE CasesKept
  BY <1>3 DEF CasesKept, evidence, HistoryInv
<1>4. QED
  BY <1>1, <1>2, <1>3, StepKinds

EarliestStep ==
  \A m \in Message : received[m] = None /\ received'[m] # None /\ FromSender(m) =>
    (context'[m].first <=>
       /\ ~TrustedSender(m)
       /\ history[ContactOf(m)] # None =>
            \A x \in history[ContactOf(m)].counted : occurred'[m] < Raw[x].occurred)

(* The feature that is kept: a first contact of a sender that is not trusted. *)
LEMMA KeptFirst ==
  ASSUME NEW m \in Message, NEW t, FromSender(m)
  PROVE  ContextOf(m, t).first <=> FirstContact(m, t) /\ ~TrustedSender(m)
<1> DEFINE f == Normalise(Raw[m])
<1>1. f.sender = Raw[m].sender /\ f.sender # {}
  BY DEF FromSender, Normalise, NormaliseEmail
<1>2. Features(m, t) = ApplyContext(f, ListedAs("address"), ListedAs("domain"), FirstContact(m, t))
  BY DEF FromSender, Features
<1> HIDE DEF f
<1>3. Features(m, t).first_contact
        = Flag(f.sender # {} /\ FirstContact(m, t)
                 /\ ~Trusts(f, ListedAs("address"), ListedAs("domain")))
  BY <1>2 DEF ApplyContext
<1>4. Features(m, t).first_contact = Flag(FirstContact(m, t) /\ ~TrustedSender(m))
  <2>1. Trusts(f, ListedAs("address"), ListedAs("domain")) <=> TrustedSender(m)
    BY DEF TrustedSender, f
  <2>2. CASE FirstContact(m, t) /\ ~TrustedSender(m)
    BY <1>1, <1>3, <2>1, <2>2 DEF Flag
  <2>3. CASE ~(FirstContact(m, t) /\ ~TrustedSender(m))
    BY <1>1, <1>3, <2>1, <2>3 DEF Flag
  <2>4. QED BY <2>2, <2>3
<1>5. \A b : Flag(b) = Yes <=> b
  BY DEF Flag, Yes, No
<1>6. ContextOf(m, t).first = (Features(m, t).first_contact = Yes)
  BY DEF FromSender, ContextOf
<1>7. QED
  BY <1>4, <1>5, <1>6

LEMMA OnlyRecordReceives ==
  ASSUME TypeOK, [Next]_vars, NEW m \in Message, received[m] = None, received'[m] # None
  PROVE  Record(m)
<1>1. ASSUME NEW n \in Message, Record(n) PROVE n = m
  BY <1>1 DEF Record, TypeOK
<1>2. CASE Expire
  BY <1>2 DEF Expire, TypeOK
<1>3. CASE CasesKept
  BY <1>3 DEF CasesKept, evidence
<1>4. QED
  BY <1>1, <1>2, <1>3, StepKinds

LEMMA StepIsEarliest == TypeOK /\ HistoryInv /\ [Next]_vars => EarliestStep
<1> SUFFICES ASSUME TypeOK, HistoryInv, [Next]_vars,
                    NEW m \in Message, received[m] = None, received'[m] # None, FromSender(m)
             PROVE  context'[m].first <=>
                      /\ ~TrustedSender(m)
                      /\ history[ContactOf(m)] # None =>
                           \A x \in history[ContactOf(m)].counted : occurred'[m] < Raw[x].occurred
  BY DEF EarliestStep
<1> DEFINE t == TimeOf(m)
           k == ContactOf(m)
<1>1. Record(m)
  BY OnlyRecordReceives
<1>2. occurred'[m] = t /\ context'[m].first = ContextOf(m, t).first
  BY <1>1 DEF Record, TypeOK
<1>3. t \in Int /\ k \in Contact
  BY TimeIsInt, ContactKnown
<1> HIDE DEF t
<1>4. FirstContact(m, t) <=> (history[k] # None => t < history[k].first)
  BY DEF FirstContact
<1>5. ASSUME history[k] # None
      PROVE  t < history[k].first <=> \A x \in history[k].counted : t < Raw[x].occurred
  <2>1. history[k].first \in Int
    BY <1>3, <1>5 DEF TypeOK
  <2>2. /\ \A x \in history[k].counted : Raw[x].occurred \in Int /\ history[k].first <= Raw[x].occurred
        /\ \E x \in history[k].counted : history[k].first = Raw[x].occurred
    BY <1>3, <1>5 DEF HistoryInv
  <2>3. QED
    BY <1>3, <2>1, <2>2
<1>6. ContextOf(m, t).first <=> FirstContact(m, t) /\ ~TrustedSender(m)
  BY KeptFirst
<1>7. QED
  BY <1>2, <1>4, <1>5, <1>6

(* A message is a first contact exactly when everything counted of its sender is *)
(* later, in whatever order the messages arrive, and the sender is not trusted.   *)
THEOREM FirstContactAlwaysEarliest == Spec => FirstContactIsEarliest
<1>1. TypeOK /\ HistoryInv /\ [Next]_vars => [EarliestStep]_vars
  BY StepIsEarliest
<1>2. QED
  BY <1>1, InitType, NextType, InitHistory, NextHistory, PTL
     DEF Spec, FirstContactIsEarliest, EarliestStep

-----------------------------------------------------------------------------
(* The cases implement CaseFiles: evidence[c] is FindingsIn(c). *)

LEMMA InitFiles == Init => Files!Init
<1> SUFFICES ASSUME Init PROVE Files!Init
  OBVIOUS
<1>1. \A c \in Case : FindingsIn(c) = {}
  BY DEF Init, FindingsIn
<1>2. QED
  BY <1>1 DEF Init, Files!Init

LEMMA OpenRefines ==
  ASSUME TypeOK, NEW m \in Message, Record(m), NEW c \in Case, FilesUnder(c, m), Opens(c, m)
  PROVE  Files!Open(c)
<1> DEFINE fs == FindingsOf(m, TimeOf(m))
<1>1. fs # {}
  BY DEF FilesUnder
<1>2. status[c] = "absent" /\ status' = [status EXCEPT ![c] = "new"]
  BY DEF Opens, OpenCase
<1>3. \A d \in Case : FindingsIn(d)' = IF d = c THEN FindingsIn(d) \cup fs ELSE FindingsIn(d)
  BY FindingsFiled
<1>4. FindingsIn(c)' # {} /\ \A d \in Case \ {c} : FindingsIn(d)' = FindingsIn(d)
  BY <1>1, <1>3
<1>5. QED
  BY <1>2, <1>4 DEF Files!Open, Files!OthersKept

LEMMA JoinRefines ==
  ASSUME TypeOK, NEW m \in Message, Record(m), NEW c \in Case, FilesUnder(c, m), Joins(c, m)
  PROVE  Files!Grow(c)
<1> DEFINE fs == FindingsOf(m, TimeOf(m))
<1>1. /\ status[c] \in {"new", "under_review", "resolved"}
      /\ status' = [status EXCEPT ![c] = IF @ = "resolved" THEN "under_review" ELSE @]
  BY DEF Joins, InReach, JoinCase, TypeOK, Statuses
<1>2. \A d \in Case : FindingsIn(d)' = IF d = c THEN FindingsIn(d) \cup fs ELSE FindingsIn(d)
  BY FindingsFiled
<1>3. FindingsIn(c) \subseteq FindingsIn(c)' /\ \A d \in Case \ {c} : FindingsIn(d)' = FindingsIn(d)
  BY <1>2
<1>4. QED
  BY <1>1, <1>3 DEF Files!Grow, Files!OthersKept

LEMMA DecideRefines ==
  ASSUME TypeOK, NEW c \in Case, NEW verdict \in ValidTransitions[status[c]],
         status' = [status EXCEPT ![c] = verdict], UNCHANGED evidence
  PROVE  \E v \in {"under_review", "resolved", "false_positive"} : Files!Decide(c, v)
<1>1. status[c] \in Statuses
  BY DEF TypeOK
<1>2. /\ verdict \in {"under_review", "resolved", "false_positive"}
      /\ <<status[c], verdict>> \in Files!Allowed
  BY <1>1 DEF ValidTransitions, Statuses, Files!Allowed
<1>3. \A d \in Case : FindingsIn(d)' = FindingsIn(d)
  BY DEF evidence, FindingsIn
<1>4. [d \in Case |-> FindingsIn(d)]' = [d \in Case |-> FindingsIn(d)]
  BY <1>3
<1>5. QED
  BY <1>2, <1>4 DEF Files!Decide

LEMMA ExpireRefines ==
  ASSUME TypeOK, Expire
  PROVE  \E cs \in SUBSET Case : Files!Discard(cs)
<1> DEFINE cs == {c \in Case : status'[c] = "absent"}
<1>1. status' = [c \in Case |-> IF c \in cs THEN "absent" ELSE status[c]]
  <2>1. status' \in [Case -> Statuses]
    BY ExpireType DEF TypeOK
  <2>2. \A c \in Case \ cs : status'[c] = status[c]
    BY ExpireEvidence
  <2>3. QED
    BY <2>1, <2>2
<1>2. \A c \in Case : FindingsIn(c)' = IF c \in cs THEN {} ELSE FindingsIn(c)
  BY ExpireEvidence
<1> HIDE DEF cs
<1>3. [c \in Case |-> FindingsIn(c)]' =
        [c \in Case |-> IF c \in cs THEN {} ELSE [d \in Case |-> FindingsIn(d)][c]]
  BY <1>2
<1>4. cs \in SUBSET Case
  BY DEF cs
<1>5. QED
  BY <1>1, <1>3, <1>4 DEF Files!Discard

LEMMA StepRefines ==
  ASSUME TypeOK, [Next]_vars
  PROVE  [Files!Next]_(Files!vars)
<1>1. ASSUME NEW m \in Message, Record(m) PROVE [Files!Next]_(Files!vars)
  <2>1. CASE FindingsOf(m, TimeOf(m)) = {} /\ UNCHANGED <<cases, caseOf>>
    <3>1. \A c \in Case : FindingsIn(c)' = FindingsIn(c)
      BY <1>1, <2>1, NoFindingsFiled
    <3>2. [c \in Case |-> FindingsIn(c)]' = [c \in Case |-> FindingsIn(c)]
      BY <3>1
    <3>3. QED
      BY <2>1, <3>2 DEF cases, Files!vars
  <2>2. ASSUME NEW c \in Case, FilesUnder(c, m) PROVE Files!Next
    <3>1. Opens(c, m) \/ Joins(c, m)
      BY <2>2 DEF FilesUnder
    <3>2. Files!Open(c) \/ Files!Grow(c)
      BY <1>1, <2>2, <3>1, OpenRefines, JoinRefines
    <3>3. QED
      BY <3>2 DEF Files!Next
  <2>3. QED
    BY <1>1, <2>1, <2>2, RecordFiles
<1>2. CASE Expire
  BY <1>2, ExpireRefines DEF Files!Next
<1>3. ASSUME NEW c \in Case, NEW v \in Statuses, Transition(c, v) PROVE Files!Next
  BY <1>3, DecideRefines DEF Transition, Files!Next
<1>4. ASSUME NEW c \in Case, NEW trust \in {"address", "domain"}, TransitionTrusting(c, trust)
      PROVE  Files!Next
  BY <1>4, DecideRefines DEF TransitionTrusting, Files!Next
<1>5. ASSUME UNCHANGED status, UNCHANGED evidence PROVE UNCHANGED Files!vars
  <2>1. \A c \in Case : FindingsIn(c)' = FindingsIn(c)
    BY <1>5 DEF evidence, FindingsIn
  <2>2. [c \in Case |-> FindingsIn(c)]' = [c \in Case |-> FindingsIn(c)]
    BY <2>1
  <2>3. QED
    BY <1>5, <2>2 DEF Files!vars
<1>6. ASSUME \/ \E s \in Controlled, st \in {"active", "disconnected"} : UpdateSource(s, st)
             \/ CreatePostureSource \/ DropPending \/ Tick \/ ListRules \/ UNCHANGED vars
             \/ \E e \in Entries : AddPending(e) \/ AddTrusted(e) \/ RemoveTrusted(e)
             \/ \E r \in Imports : ImportRule(r)
      PROVE  UNCHANGED status /\ UNCHANGED evidence
  BY <1>6 DEF UpdateSource, CreatePostureSource, DropPending, Tick, ListRules, vars, AddPending,
       AddTrusted, RemoveTrusted, ImportRule, cases
<1>7. ASSUME NEW m \in Message, Ingest(m) \/ PostureCheck(m) PROVE Record(m)
  BY <1>7 DEF Ingest, PostureCheck
<1>8. QED
  BY <1>1, <1>2, <1>3, <1>4, <1>5, <1>6, <1>7 DEF Next

(* The cases of the platform are case files: they follow the lifecycle, take *)
(* evidence only while no verdict closed them for good, and leave whole.      *)
THEOREM CasesAreFiles == Spec => KeepsCaseFiles
  BY InitFiles, InitType, NextType, StepRefines, PTL DEF Spec, KeepsCaseFiles, Files!Spec

-----------------------------------------------------------------------------
(* Scores never fall.  WeightInv: finitely many rules and findings, each of a *)
(* weight in the range (the import accepts 0.1 to 1).                                *)
WeightInv ==
  /\ IsFiniteSet(imported) /\ \A r \in imported : r.weight \in 2..20
  /\ IsFiniteSet(findings) /\ \A x \in findings : x.weight \in 2..20

LEMMA FewAreFinite ==
  ASSUME NEW a, NEW b, NEW c, NEW d, NEW e
  PROVE  IsFiniteSet({a, b, c, d, e})
<1>1. IsFiniteSet({a})
  BY FS_Singleton
<1>2. IsFiniteSet({a, b})
  BY <1>1, FS_AddElement, {a, b} = {a} \cup {b}
<1>3. IsFiniteSet({a, b, c})
  BY <1>2, FS_AddElement, {a, b, c} = {a, b} \cup {c}
<1>4. IsFiniteSet({a, b, c, d})
  BY <1>3, FS_AddElement, {a, b, c, d} = {a, b, c} \cup {d}
<1>5. QED
  BY <1>4, FS_AddElement, {a, b, c, d, e} = {a, b, c, d} \cup {e}

LEMMA ManyAreFinite ==
  ASSUME NEW a, NEW b, NEW c, NEW d, NEW e, NEW f, NEW g, NEW h, NEW i, NEW j,
         NEW k, NEW l, NEW m, NEW n
  PROVE  IsFiniteSet({a, b, c, d, e, f, g, h, i, j, k, l, m, n})
<1>1. IsFiniteSet({a, b, c, d, e}) /\ IsFiniteSet({f, g, h, i, j}) /\ IsFiniteSet({k, l, m, n, n})
  BY FewAreFinite
<1>2. IsFiniteSet({a, b, c, d, e} \cup {f, g, h, i, j})
  BY <1>1, FS_Union
<1>3. IsFiniteSet(({a, b, c, d, e} \cup {f, g, h, i, j}) \cup {k, l, m, n, n})
  BY <1>1, <1>2, FS_Union
<1>4. {a, b, c, d, e, f, g, h, i, j, k, l, m, n}
        = ({a, b, c, d, e} \cup {f, g, h, i, j}) \cup {k, l, m, n, n}
  OBVIOUS
<1>5. QED
  BY <1>3, <1>4

LEMMA RuleWeight ==
  \A code, type, weight, matcher, test, suppress :
    Rule(code, type, weight, matcher, test, suppress).weight = weight
  BY DEF Rule

LEMMA DefaultWeights == IsFiniteSet(DefaultRules) /\ \A r \in DefaultRules : r.weight \in 2..20
<1> DEFINE Codes == {"EMAIL-001", "EMAIL-002", "EMAIL-003", "EMAIL-004", "EMAIL-005",
                     "EMAIL-006", "EMAIL-007", "EMAIL-008", "URL-001", "URL-002",
                     "FORWARD-001", "SIGNIN-001", "MFA-001", "OAUTH-001"}
           f == [code \in {r.code : r \in DefaultRules} |->
                   CHOOSE r \in DefaultRules : r.code = code]
<1>1. IsFiniteSet(DefaultRules)
  <2>1. IsFiniteSet(Codes)
    BY ManyAreFinite, Zenon
  <2>2. \A r \in DefaultRules : r.code \in Codes
    BY RuleCode, SMTT(60) DEF DefaultRules
  <2> HIDE DEF Codes
  <2>3. IsFiniteSet({r.code : r \in DefaultRules})
    BY <2>1, <2>2, FS_Subset
  <2>4. f \in Surjection({r.code : r \in DefaultRules}, DefaultRules)
    BY DefaultCodes DEF Surjection
  <2>5. QED
    BY <2>3, <2>4, FS_Surjection
<1>2. \A r \in DefaultRules : r.weight \in 2..20
  BY RuleWeight, SMTT(60) DEF DefaultRules
<1>3. QED
  BY <1>1, <1>2

LEMMA TableWeights ==
  ASSUME WeightInv
  PROVE  IsFiniteSet(Table) /\ \A r \in Table : r.weight \in 2..20
<1> DEFINE missing == {d \in DefaultRules : \A r \in imported : r.code # d.code}
<1>1. IsFiniteSet(missing) /\ \A r \in missing : r.weight \in 2..20
  BY DefaultWeights, FS_Subset
<1>2. IsFiniteSet(imported \cup missing)
  BY <1>1, FS_Union DEF WeightInv
<1>3. QED
  BY <1>1, <1>2 DEF WeightInv, Table

LEMMA FindingsWeights ==
  ASSUME WeightInv, NEW m, NEW t
  PROVE  IsFiniteSet(FindingsOf(m, t)) /\ \A x \in FindingsOf(m, t) : x.weight \in 2..20
<1> DEFINE rs == {q \in EvaluateRules(Raw[m].type, Features(m, t), Table) : q.weight >= 2}
           f == [r \in rs |-> [signal |-> m, code |-> r.code, weight |-> r.weight]]
<1>1. rs \subseteq Table
  BY DEF EvaluateRules
<1>2. IsFiniteSet(rs)
  BY <1>1, TableWeights, FS_Subset
<1>3. FindingsOf(m, t) = {[signal |-> m, code |-> r.code, weight |-> r.weight] : r \in rs}
  BY Zenon DEF FindingsOf
<1> HIDE DEF rs
<1>4. f \in Surjection(rs, FindingsOf(m, t))
  BY <1>3 DEF Surjection
<1>5. IsFiniteSet(FindingsOf(m, t))
  BY <1>2, <1>4, FS_Surjection
<1>6. \A x \in FindingsOf(m, t) : x.weight \in 2..20
  BY TableWeights, FindingsAreOfSignal
<1>7. QED
  BY <1>5, <1>6

LEMMA InitWeight == Init => WeightInv
  BY FS_EmptySet DEF Init, WeightInv

LEMMA NextWeight == TypeOK /\ WeightInv /\ [Next]_vars => WeightInv'
<1> SUFFICES ASSUME TypeOK, WeightInv, [Next]_vars PROVE WeightInv'
  OBVIOUS
<1>1. ASSUME NEW m \in Message, Record(m), UNCHANGED imported PROVE WeightInv'
  <2>1. findings' = findings \cup FindingsOf(m, TimeOf(m))
    BY <1>1 DEF Record
  <2>2. /\ IsFiniteSet(FindingsOf(m, TimeOf(m)))
        /\ \A x \in FindingsOf(m, TimeOf(m)) : x.weight \in 2..20
    BY FindingsWeights
  <2>3. IsFiniteSet(findings')
    BY <2>1, <2>2, FS_Union DEF WeightInv
  <2>4. QED
    BY <1>1, <2>1, <2>2, <2>3 DEF WeightInv
<1>2. CASE Expire
  <2>1. findings' \subseteq findings /\ UNCHANGED imported
    BY <1>2 DEF Expire, rules
  <2>2. QED
    BY <2>1, FS_Subset DEF WeightInv
<1>3. CASE CasesKept /\ UNCHANGED imported
  BY <1>3 DEF WeightInv, CasesKept, evidence
<1>4. ASSUME CasesKept, NEW r \in Imports, ImportRule(r) PROVE WeightInv'
  <2>1. imported' = imported \cup {r} /\ r.weight \in 2..20
    BY <1>4 DEF ImportRule, Importable
  <2>2. IsFiniteSet(imported')
    BY <2>1, FS_AddElement DEF WeightInv
  <2>3. QED
    BY <1>4, <2>1, <2>2 DEF WeightInv, CasesKept, evidence
<1>5. QED
  BY <1>1, <1>2, <1>3, <1>4, StepKinds

(* A case that stays loses none of its findings. *)
LEMMA FindingsGrow ==
  ASSUME TypeOK, [Next]_vars, NEW c \in Case, status[c] # "absent", status'[c] # "absent"
  PROVE  FindingsIn(c) \subseteq FindingsIn(c)'
<1>1. ASSUME NEW m \in Message, Record(m) PROVE FindingsIn(c) \subseteq FindingsIn(c)'
  BY <1>1, RecordFiles, NoFindingsFiled, FindingsFiled
<1>2. CASE Expire
  BY <1>2, ExpireEvidence
<1>3. CASE CasesKept
  BY <1>3, KeptEvidence
<1>4. QED
  BY <1>1, <1>2, <1>3, StepKinds

LEMMA ScoresKept ==
  ASSUME CaseInv, WeightInv, CaseInv', WeightInv', [Next]_vars,
         NEW c \in Case, status[c] # "absent", status'[c] # "absent"
  PROVE  score'[c] >= score[c]
<1>1. score[c] = Score(FindingsIn(c)) /\ score'[c] = Score(FindingsIn(c)')
  BY DEF CaseInv, Matching
<1>2. FindingsIn(c) \subseteq FindingsIn(c)'
  BY FindingsGrow DEF CaseInv
<1>3. Weighted(FindingsIn(c)')
  <2>1. FindingsIn(c)' \subseteq findings'
    BY DEF FindingsIn
  <2>2. IsFiniteSet(findings') /\ \A x \in findings' : x.weight \in 2..20
    BY DEF WeightInv
  <2>3. QED
    BY <2>1, <2>2, FS_Subset DEF Weighted
<1>4. Score(FindingsIn(c)) <= Score(FindingsIn(c)')
  BY <1>2, <1>3, ScoreMonotone
<1>5. Score(FindingsIn(c)) \in Int /\ Score(FindingsIn(c)') \in Int
  BY <1>2, <1>3, FS_Subset, LeftRange, ScoreIs DEF Weighted
<1>6. QED
  BY <1>1, <1>4, <1>5

(* While a case exists, no step lowers its score: it combines its findings, of  *)
(* which none is taken away, and more findings never score less.               *)
THEOREM ScoresOnlyGrow == Spec => ScoreOnlyGrows
<1> DEFINE Step ==
             \A c \in Case : status[c] # "absent" /\ status'[c] # "absent" => score'[c] >= score[c]
<1>1. CaseInv /\ WeightInv /\ CaseInv' /\ WeightInv' /\ [Next]_vars => [Step]_vars
  BY ScoresKept
<1>2. CaseInv => TypeOK
  BY DEF CaseInv
<1>3. QED
  BY <1>1, <1>2, InitCase, NextCase, InitWeight, NextWeight, PTL DEF Spec, ScoreOnlyGrows
=============================================================================
