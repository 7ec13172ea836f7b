----------------------------- MODULE Incidents -----------------------------
(***************************************************************************)
(* Evidence and cases of one workspace: ingestion of signals, the context  *)
(* of their senders, correlation into cases, the analyst's verdicts, the   *)
(* list of trusted senders, self-reported posture checks, the operator's   *)
(* rule imports and the expiry of old evidence.                            *)
(*                                                                         *)
(* Ingestion, verdicts and expiry hold the lock of the workspace's row and *)
(* are one step each.  A batch is a run of Ingest steps that nobody sees   *)
(* in between.  Adding to the trusted list takes no lock, and a verdict    *)
(* adds its senders in transactions of their own after its commit.         *)
(***************************************************************************)
EXTENDS Rules

CONSTANTS
  Message,       \* signals that callers deliver, again and again
  Raw,           \* what each carries: account, source, type, time, inputs
  Case,          \* bound: cases at one time
  Contact,       \* <<account, sender>>
  Source,        \* sources of signals, "posture" among them
  Controlled,    \* those whose status the console may set
  Imports,       \* rules the operator may import
  SharedDomains, \* mail providers, which cannot be trusted as a whole
  Window,        \* the correlation window
  Retention,     \* how long evidence is kept
  Skew,          \* how far in the future a signal may lie (a day in the code)
  SignalLimit,   \* retained signals of a workspace (10000 in the code)
  TrustLimit,    \* senders one verdict may trust (5 in the code)
  MaxNow,        \* bound: the last time
  None

ASSUME IncidentsAssumption ==
  /\ Window \in Nat /\ Retention \in Nat /\ Skew \in Nat /\ MaxNow \in Nat
  /\ SignalLimit \in Nat /\ TrustLimit \in Nat
  /\ Controlled \subseteq Source /\ "posture" \in Source
  /\ None \notin Case \cup Int
  /\ None \notin [first : Int, counted : SUBSET Message]
  /\ \A m \in Message : Raw[m].source \in Source /\ Raw[m].occurred \in Int \cup {None}
  /\ \A m \in Message : Raw[m].type = "email" =>
       Raw[m].occurred # None /\ Raw[m].sender \subseteq DOMAIN DomainOf
  /\ \A m \in Message : Raw[m].type = "email" /\ Raw[m].sender # {} =>
       <<Raw[m].account, Raw[m].sender>> \in Contact
  /\ \A a \in DOMAIN DomainOf : DomainOf[a] \in Domains

VARIABLES
  now,
  imported,      \* rules the operator put into the table
  seeded,        \* whether the defaults are in it
  source,        \* a source's status
  received,      \* when a retained signal was received, None when not retained
  occurred,      \* its time
  context,       \* its context features, of e-mails: trusted and first contact
  findings,      \* [signal, code, weight]: what the rules found, copied
  caseOf,        \* the case its findings belong to
  status, key, first, last, score, created,    \* cases
  history,       \* a contact's earliest time and the messages counted
  trusted,       \* trusted senders: <<kind, value>>
  pending        \* trusted senders a verdict still has to add

cases == <<status, key, first, last, score, created>>
evidence == <<received, occurred, context, findings, caseOf, history>>
lists == <<trusted, pending>>
rules == <<imported, seeded>>
vars == <<now, rules, source, evidence, cases, lists>>

-----------------------------------------------------------------------------
Statuses == {"absent", "new", "under_review", "resolved", "false_positive"}

(* The table once seed_rules has inserted the defaults whose code is missing; *)
(* it changes no row.                                                         *)
Table == imported \cup {d \in DefaultRules : \A r \in imported : r.code # d.code}

Rows == IF seeded THEN Table ELSE imported

Entries == ({"address"} \X DOMAIN DomainOf) \cup ({"domain"} \X Domains)

TypeOK ==
  /\ now \in 0..MaxNow /\ imported \subseteq Imports /\ seeded \in BOOLEAN
  /\ source \in [Source -> {"absent", "active", "disconnected"}]
  /\ received \in [Message -> Int \cup {None}] /\ occurred \in [Message -> Int]
  /\ context \in [Message -> [trusted : BOOLEAN, first : BOOLEAN]]
  /\ caseOf \in [Message -> Case \cup {None}]
  /\ status \in [Case -> Statuses]
  /\ DOMAIN key = Case /\ DOMAIN score = Case
  /\ first \in [Case -> Int] /\ last \in [Case -> Int] /\ created \in [Case -> Int]
  /\ history \in [Contact -> [first : Int, counted : SUBSET Message] \cup {None}]
  /\ trusted \subseteq Entries /\ pending \subseteq Entries
  /\ \A x \in findings : x.signal \in Message /\ received[x.signal] # None
  /\ \A m \in Message : caseOf[m] # None =>
       received[m] # None /\ status[caseOf[m]] # "absent"

NoContext == [trusted |-> FALSE, first |-> FALSE]

Init ==
  /\ now = 0
  /\ imported = {} /\ seeded = FALSE
  /\ source = [s \in Source |-> IF s = "posture" THEN "absent" ELSE "active"]
  /\ received = [m \in Message |-> None] /\ occurred = [m \in Message |-> 0]
  /\ context = [m \in Message |-> NoContext]
  /\ findings = {} /\ caseOf = [m \in Message |-> None]
  /\ status = [c \in Case |-> "absent"] /\ key = [c \in Case |-> None]
  /\ first = [c \in Case |-> 0] /\ last = [c \in Case |-> 0]
  /\ score = [c \in Case |-> 0] /\ created = [c \in Case |-> 0]
  /\ history = [k \in Contact |-> None]
  /\ trusted = {} /\ pending = {}

-----------------------------------------------------------------------------
(* Context of a sender. *)

ContactOf(m) == <<Raw[m].account, Raw[m].sender>>
FromSender(m) == Raw[m].type = "email" /\ Raw[m].sender # {}
ListedAs(kind) == {e[2] : e \in {x \in trusted : x[1] = kind}}

Unknown(m, t) == FromSender(m) /\ history[ContactOf(m)] = None

(* Nothing known of the sender, or only later messages. *)
FirstContact(m, t) ==
  /\ FromSender(m)
  /\ history[ContactOf(m)] # None => t < history[ContactOf(m)].first

SenderContext(m, t) ==
  history' = IF ~FromSender(m) THEN history
             ELSE [history EXCEPT ![ContactOf(m)] =
                     IF @ = None THEN [first |-> t, counted |-> {m}]
                     ELSE [first |-> IF t < @.first THEN t ELSE @.first,
                           counted |-> @.counted \cup {m}]]

(* The features of a signal that comes in now at time t. *)
Features(m, t) ==
  LET f == Normalise(Raw[m])
  IN IF Raw[m].type # "email" THEN f
     ELSE ApplyContext(f, ListedAs("address"), ListedAs("domain"), FirstContact(m, t))

(* The two of them that come from the context, kept with the signal. *)
ContextOf(m, t) ==
  IF Raw[m].type # "email" THEN NoContext
  ELSE [trusted |-> Features(m, t).trusted_sender = Yes,
        first |-> Features(m, t).first_contact = Yes]

FindingsOf(m, t) ==
  {[signal |-> m, code |-> r.code, weight |-> r.weight] :
     r \in {q \in EvaluateRules(Raw[m].type, Features(m, t), Table) : q.weight >= 2}}

(* A caller may name the key; otherwise it comes from the features.           *)
KeyOf(m, t) ==
  <<Raw[m].account,
    IF Raw[m].key # None THEN Raw[m].key ELSE DefaultKey(Raw[m].type, Features(m, t))>>

-----------------------------------------------------------------------------
(* Correlation. *)

FindingsIn(c) == {x \in findings : caseOf[x.signal] = c}

OverlapsReach(c, k, t) ==
  /\ status[c] \notin {"absent", "false_positive"}
  /\ key[c] = k
  /\ last[c] >= t - Window /\ first[c] <= t + Window

(* A case a signal of this key and time may join. *)
InReach(c, k, t) ==
  /\ status[c] \notin {"absent", "false_positive"}
  /\ key[c] = k
  /\ last[c] >= t - Window /\ first[c] <= t + Window
  /\ first[c] >= t - Window /\ last[c] <= t + Window

Newest(cs) == {c \in cs : \A d \in cs : last[d] <= last[c]}

NewOnly(c, fs) == Score(fs)
Combined(c, fs) == Score(FindingsIn(c) \cup fs)

OpenCase(c, k, t, fs) ==
  /\ status[c] = "absent"
  /\ status' = [status EXCEPT ![c] = "new"]
  /\ key' = [key EXCEPT ![c] = k]
  /\ first' = [first EXCEPT ![c] = t] /\ last' = [last EXCEPT ![c] = t]
  /\ score' = [score EXCEPT ![c] = Score(fs)]
  /\ created' = [created EXCEPT ![c] = now]

JoinCase(c, t, fs) ==
  /\ status' = [status EXCEPT ![c] = IF @ = "resolved" THEN "under_review" ELSE @]
  /\ first' = [first EXCEPT ![c] = IF t < @ THEN t ELSE @]
  /\ last' = [last EXCEPT ![c] = IF t > @ THEN t ELSE @]
  /\ score' = [score EXCEPT ![c] = Combined(c, fs)]
  /\ UNCHANGED <<key, created>>

Correlate(m, t, fs) ==
  LET k == KeyOf(m, t)
      reachable == {c \in Case : InReach(c, k, t)}
  IN IF fs = {} THEN UNCHANGED <<cases, caseOf>>
     ELSE \E c \in IF reachable = {} THEN Case ELSE Newest(reachable) :
            /\ IF reachable = {} THEN OpenCase(c, k, t, fs) ELSE JoinCase(c, t, fs)
            /\ caseOf' = [caseOf EXCEPT ![m] = c]

Retained == {m \in Message : received[m] # None}

(* The posture check leaves the time to the server. *)
TimeOf(m) == IF Raw[m].occurred = None THEN now ELSE Raw[m].occurred

(* A signal that is still retained is a duplicate and changes nothing here. *)
Record(m) ==
  LET t == TimeOf(m)
      fs == FindingsOf(m, t)
  IN /\ received[m] = None
     /\ Cardinality(Retained) < SignalLimit
     /\ t <= now + Skew
     /\ seeded' = TRUE
     /\ received' = [received EXCEPT ![m] = now]
     /\ occurred' = [occurred EXCEPT ![m] = t]
     /\ context' = [context EXCEPT ![m] = ContextOf(m, t)]
     /\ SenderContext(m, t)
     /\ findings' = findings \cup fs
     /\ Correlate(m, t, fs)

Ingest(m) ==
  /\ source[Raw[m].source] = "active"
  /\ Record(m)
  /\ UNCHANGED <<now, imported, source, lists>>

-----------------------------------------------------------------------------
(* Sources; the posture check makes or reactivates its own. *)

UpdateSource(s, st) ==
  /\ source[s] \notin {"absent", st}
  /\ source' = [source EXCEPT ![s] = st]
  /\ UNCHANGED <<now, rules, evidence, cases, lists>>

CreatePostureSource ==
  /\ source["posture"] = "absent"
  /\ source' = [source EXCEPT !["posture"] = "active"]
  /\ UNCHANGED <<now, rules, evidence, cases, lists>>

(* An answer that is refused rolls the reactivation back: no step. *)
PostureCheck(m) ==
  /\ Raw[m].source = "posture" /\ source["posture"] # "absent"
  /\ source' = [source EXCEPT !["posture"] = "active"]
  /\ Record(m)
  /\ UNCHANGED <<now, imported, lists>>

-----------------------------------------------------------------------------
(* Verdicts and trusted senders. *)

ReopenableTransitions ==
  [new |-> {"under_review", "false_positive"},
   under_review |-> {"resolved", "false_positive"},
   resolved |-> {"under_review"}, false_positive |-> {"under_review"}, absent |-> {}]

ValidTransitions ==
  [new |-> {"under_review", "false_positive"},
   under_review |-> {"resolved", "false_positive"},
   resolved |-> {"under_review"}, false_positive |-> {}, absent |-> {}]

SendersOf(c) == UNION {Raw[x.signal].sender : x \in {y \in FindingsIn(c) :
                                                       Raw[y.signal].type = "email"}}

(* The entries a verdict asks for; a shared provider is refused as a domain. *)
EntriesFor(c, trust) ==
  {<<trust, v>> : v \in IF trust = "address" THEN SendersOf(c)
                        ELSE {DomainOf[a] : a \in SendersOf(c)}}

Acceptable(e) == e[1] = "domain" => e[2] \notin SharedDomains

Transition(c, verdict) ==
  /\ verdict \in ValidTransitions[status[c]]
  /\ status' = [status EXCEPT ![c] = verdict]
  /\ UNCHANGED <<now, rules, source, evidence, key, first, last, score, created, lists>>

TransitionTrusting(c, trust) ==
  /\ "false_positive" \in ValidTransitions[status[c]]
  /\ SendersOf(c) # {}
  /\ \E es \in SUBSET EntriesFor(c, trust) :
       /\ Cardinality(es) <= TrustLimit
       /\ es # EntriesFor(c, trust) => Cardinality(es) = TrustLimit
       /\ \A e \in es : Acceptable(e)
       /\ pending = {} /\ pending' = es
  /\ status' = [status EXCEPT ![c] = "false_positive"]
  /\ UNCHANGED <<now, rules, source, evidence, key, first, last, score, created, trusted>>

AddPending(e) ==
  /\ e \in pending
  /\ trusted' = trusted \cup {e}
  /\ pending' = pending \ {e}
  /\ UNCHANGED <<now, rules, source, evidence, cases>>

(* The API restarts, or an addition fails: the verdict stays. *)
DropPending ==
  /\ pending # {}
  /\ pending' = {}
  /\ UNCHANGED <<now, rules, source, evidence, cases, trusted>>

AddTrusted(e) ==
  /\ Acceptable(e) /\ e \notin trusted
  /\ trusted' = trusted \cup {e}
  /\ UNCHANGED <<now, rules, source, evidence, cases, pending>>

RemoveTrusted(e) ==
  /\ e \in trusted
  /\ trusted' = trusted \ {e}
  /\ UNCHANGED <<now, rules, source, evidence, cases, pending>>

-----------------------------------------------------------------------------
(* The operator, time and retention. *)

ImportRule(r) ==
  /\ Importable(r, Rows)
  /\ imported' = imported \cup {r}
  /\ UNCHANGED <<now, seeded, source, evidence, cases, lists>>

(* Reading the rules seeds them, too. *)
ListRules ==
  /\ seeded' = TRUE
  /\ UNCHANGED <<now, imported, source, evidence, cases, lists>>

Cleared(column, gone) == [x \in DOMAIN column |-> IF x \in gone THEN 0 ELSE column[x]]

AgedSignals(old, cutoff) == {m \in Retained : received[m] < cutoff}

(* The signals linked to the expired cases; those of no case by their receipt. *)
ExpiredSignals(old, cutoff) ==
  {m \in Retained : IF caseOf[m] = None THEN received[m] < cutoff ELSE caseOf[m] \in old}

(* Whole cases by their creation, with their signals; a contact's history by   *)
(* its earliest message.                                                       *)
Expire ==
  LET cutoff == now - Retention
      old == {c \in Case : status[c] # "absent" /\ created[c] < cutoff}
      gone == ExpiredSignals(old, cutoff)
  IN /\ status' = [c \in Case |-> IF c \in old THEN "absent" ELSE status[c]]
     /\ received' = [m \in Message |-> IF m \in gone THEN None ELSE received[m]]
     /\ caseOf' = [m \in Message |-> IF m \in gone THEN None ELSE caseOf[m]]
     /\ findings' = {x \in findings : x.signal \notin gone}
     /\ history' = [k \in Contact |->
          IF history[k] # None /\ history[k].first < cutoff THEN None ELSE history[k]]
     /\ key' = [c \in Case |-> IF c \in old THEN None ELSE key[c]]
     /\ first' = Cleared(first, old) /\ last' = Cleared(last, old)
     /\ score' = Cleared(score, old) /\ created' = Cleared(created, old)
     /\ occurred' = Cleared(occurred, gone)
     /\ context' = [m \in Message |-> IF m \in gone THEN NoContext ELSE context[m]]
     /\ UNCHANGED <<now, rules, source, lists>>

Tick ==
  /\ now < MaxNow
  /\ now' = now + 1
  /\ UNCHANGED <<rules, source, evidence, cases, lists>>

Next ==
  \/ \E m \in Message : Ingest(m) \/ PostureCheck(m)
  \/ \E s \in Controlled, st \in {"active", "disconnected"} : UpdateSource(s, st)
  \/ CreatePostureSource
  \/ \E c \in Case, v \in Statuses : Transition(c, v)
  \/ \E c \in Case, trust \in {"address", "domain"} : TransitionTrusting(c, trust)
  \/ \E e \in Entries : AddPending(e) \/ AddTrusted(e) \/ RemoveTrusted(e)
  \/ DropPending
  \/ \E r \in Imports : ImportRule(r)
  \/ ListRules
  \/ Expire \/ Tick

Spec == Init /\ [][Next]_vars

-----------------------------------------------------------------------------
(* Properties. *)

(* A case is exactly the sum of the evidence that is still there: it has      *)
(* findings, its score combines all of them, and its range is that of their   *)
(* signals (_correlate; expire_workspace_evidence removes whole cases so that *)
(* "a retained case never shows a score whose supporting findings were        *)
(* removed").                                                                  *)
CaseMatchesEvidence ==
  \A c \in Case : status[c] # "absent" =>
    LET times == {occurred[x.signal] : x \in FindingsIn(c)}
    IN /\ first[c] \in times /\ last[c] \in times
       /\ \A t \in times : first[c] <= t /\ t <= last[c]
       /\ score[c] = Score(FindingsIn(c))

(* Evidence that overlaps pairwise cannot chain: no case spans more than one  *)
(* correlation window, whatever the order in which its signals arrive         *)
(* (docs/THREAT_MODEL.md, "cannot chain beyond a total 30-minute window").    *)
SpanBounded == \A c \in Case : status[c] # "absent" => last[c] - first[c] <= Window

(* While a case exists its score never falls: nothing is taken from it.       *)
ScoreOnlyGrows ==
  [][\A c \in Case : status[c] # "absent" /\ status'[c] # "absent" => score'[c] >= score[c]]_vars

(* The sender is on the workspace's list now. *)
TrustedSender(m) == Trusts(Normalise(Raw[m]), ListedAs("address"), ListedAs("domain"))

(* docs/RULE_CATALOG.md, on first_contact: a message is reported as first      *)
(* contact exactly when it is earlier than everything counted in the history  *)
(* of its sender, newest-first deliveries included (_sender_context), and the  *)
(* sender is not trusted when it comes in, whether the message passed its      *)
(* authentication or not ("A trusted sender is never a first contact").        *)
FirstContactIsEarliest ==
  [][\A m \in Message : received[m] = None /\ received'[m] # None /\ FromSender(m) =>
       (context'[m].first <=>
          /\ ~TrustedSender(m)
          /\ history[ContactOf(m)] # None =>
               \A x \in history[ContactOf(m)].counted : occurred'[m] < Raw[x].occurred)]_vars

(* A rule code means the same weight in all evidence ever kept: an import     *)
(* never changes a rule that has been applied (import_rule, "preserve          *)
(* historical evidence"), and seeding never overrides one.                     *)
RuleCodesAreStable ==
  \A x \in findings : \A r \in Table : r.code = x.code => r.weight = x.weight

(* Cases follow the lifecycle and lose evidence only as a whole.              *)
Files == INSTANCE CaseFiles WITH Files <- Case, status <- status,
           evidence <- [c \in Case |-> FindingsIn(c)]
KeepsCaseFiles == Files!Spec

(* docs/RULE_CATALOG.md: "Trusted domains and the domains of trusted addresses *)
(* are added to claimed_domains, so EMAIL-003 flags lookalikes of real         *)
(* suppliers": a message whose sender is a near miss of a trusted domain would *)
(* be flagged if it came in now.                                               *)
LookalikesOfTrustedFlagged ==
  \A m \in Message : Raw[m].type = "email" =>
    LET f == Features(m, Raw[m].occurred)
    IN LooksLike(f.sender_domain, ListedAs("domain")) => f.lookalike_domain = Yes
=============================================================================
