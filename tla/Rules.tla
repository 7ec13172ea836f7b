------------------------------- MODULE Rules -------------------------------
(***************************************************************************)
(* SentinelSME's deterministic detection, as operators: normalisation of a *)
(* signal into features, the workspace's context for an e-mail (trusted    *)
(* senders and first contact), the default rules and their matchers, the   *)
(* combined score.                                                         *)
(*                                                                         *)
(* A feature is the set of values it holds: a list is the set of its items, *)
(* a string a singleton, an empty or absent value {}, a boolean Yes or No. *)
(* A text is the set of catalogue phrases found in it.  Weights are given  *)
(* in twentieths: every default weight is a multiple of 0.05.              *)
(***************************************************************************)
EXTENDS Integers, Sequences, FiniteSets, Functions, FiniteSetsExt

CONSTANTS
  Alphabet,      \* the domains that occur, as a sequence in alphabetical order
  Within,        \* <<d, t>> : domain d is t or a subdomain of t
  Near,          \* <<d, t>> : the edit distance of d and t is at most 2
  DomainOf,      \* the domain of each address
  LabelsOf,      \* the labels of each host, split at dots and hyphens
  MaxClaimed     \* claimed domains compared with a sender (20 in the code)

Domains == {Alphabet[i] : i \in DOMAIN Alphabet}

ASSUME RulesAssumption ==
  /\ Within \subseteq Domains \X Domains /\ Near \subseteq Domains \X Domains
  /\ \A d \in Domains : <<d, d>> \in Within
  /\ MaxClaimed \in Nat \ {0}

Yes == {"true"}
No == {"false"}
Flag(b) == IF b THEN Yes ELSE No

-----------------------------------------------------------------------------
(* Normalisation. *)

UrgentTerms == {"urgent", "click here", "verify your account"}
PaymentChangeTerms == {"new bank details", "new paybill"}
PaymentActionTerms == {"send payment", "paybill number"}
LocalScamTerms == {"mpesa reversal", "kra penalty"}
Shorteners == {"bit.ly", "t.co"}
CredentialLabels == {"account", "login", "secure", "verify"}
TrustedCredentialHosts == {"accounts.google.com", "login.live.com"}
BrandDomains == [kra |-> {"kra.go.ke"}, kcb |-> {"kcbgroup.com"}]
Mechanisms == {"spf", "dkim", "dmarc"}

(* The first n of a set of domains, in alphabetical order. *)
FirstOf(n, S) ==
  {Alphabet[i] : i \in {j \in DOMAIN Alphabet :
     Alphabet[j] \in S /\ Cardinality({k \in 1..j : Alphabet[k] \in S}) <= n}}

(* Whether the sender's domain is a near miss of a claimed one. *)
LooksLike(domains, claimed) ==
  \E d \in domains, c \in claimed : <<d, c>> \notin Within /\ <<d, c>> \in Near

(* The features kept of an e-mail: phrases of the catalogues instead of the  *)
(* text, domains, and the checks that failed.                                *)
NormaliseEmail(raw) ==
  LET domain == {DomainOf[a] : a \in raw.sender}
      claimed == FirstOf(MaxClaimed, raw.claimed)
  IN [sender |-> raw.sender,
      sender_domain |-> domain,
      reply_to_domain |-> {DomainOf[a] : a \in raw.reply_to},
      url_hosts |-> raw.urls,
      matched_terms |-> raw.text \cap UrgentTerms,
      payment_change_terms |-> raw.text \cap PaymentChangeTerms,
      payment_action_terms |-> raw.text \cap PaymentActionTerms,
      local_scam_terms |-> raw.text \cap LocalScamTerms,
      claimed_domains |-> claimed,
      lookalike_domain |-> Flag(LooksLike(domain, claimed)),
      brand_mismatch |-> Flag(\E b \in raw.brand, d \in domain :
                                 \A t \in BrandDomains[b] : <<d, t>> \notin Within),
      authentication_failures |-> raw.failed \cap Mechanisms]

(* The features kept of the other kinds of signal: flags, a domain, an app. *)
Normalise(raw) ==
  CASE raw.type = "email" -> NormaliseEmail(raw)
    [] raw.type = "forwarding" ->
         [target_domain |-> {DomainOf[a] : a \in raw.target}, enabled |-> raw.enabled,
          external |-> raw.external, authorized |-> raw.authorized]
    [] raw.type = "mfa" -> [enabled |-> raw.enabled]
    [] raw.type = "signin" ->
         [source_ip |-> raw.source_ip, unusual |-> raw.unusual, new_device |-> raw.new_device,
          impossible_travel |-> raw.impossible_travel, risk_level |-> raw.risk_level]
    [] raw.type = "oauth_grant" ->
         [app_id |-> raw.app_id, verified |-> raw.verified, broad_scope |-> raw.broad_scope]

(* The sender's domain, or the type of the signal when there is none. *)
KeyField == [email |-> "sender_domain", forwarding |-> "target_domain",
             signin |-> "source_ip", mfa |-> "enabled", oauth_grant |-> "app_id"]

DefaultKey(type, f) ==
  IF f[KeyField[type]] = {} THEN <<KeyField[type], {type}>>
                            ELSE <<KeyField[type], f[KeyField[type]]>>

-----------------------------------------------------------------------------
(* Context: evaluated once, when the e-mail is ingested. *)

Trusts(f, addresses, domains) ==
  \/ f.sender \cap addresses # {}
  \/ f.sender # {} /\ \E d \in f.sender_domain, t \in domains : <<d, t>> \in Within

ApplyContext(f, addresses, domains, first) ==
  LET match == Trusts(f, addresses, domains)
      claimed == FirstOf(MaxClaimed, f.claimed_domains \cup domains
                                       \cup {DomainOf[a] : a \in addresses})
  IN [x \in DOMAIN f \cup {"trusted_sender", "first_contact"} |->
        CASE x = "trusted_sender" -> Flag(match /\ f.authentication_failures = {})
          [] x = "first_contact" -> Flag(f.sender # {} /\ first /\ ~match)
          [] x = "claimed_domains" -> claimed
          [] x = "lookalike_domain" -> Flag(LooksLike(f.sender_domain, claimed))
          [] OTHER -> f[x]]

-----------------------------------------------------------------------------
(* Rules: data, interpreted by the matchers.  The matchers nonempty and       *)
(* equals are all_nonempty and all_equal of one field.                        *)

(* A rule tests fields; what the test compares them with is given by field. *)
Rule(code, type, weight, matcher, test, suppress) ==
  [code |-> code, type |-> type, weight |-> weight, matcher |-> matcher,
   test |-> test, suppress |-> suppress]

Fields(names) == [x \in names |-> {}]
ByTrust == {"trusted_sender"}

DefaultRules == {
  Rule("EMAIL-001", "email", 9, "different_nonempty",
       Fields({"sender_domain", "reply_to_domain"}), ByTrust),
  Rule("EMAIL-002", "email", 6, "all_nonempty", Fields({"matched_terms"}), ByTrust),
  Rule("URL-001", "email", 6, "host_suffix_in", [url_hosts |-> Shorteners], ByTrust),
  Rule("URL-002", "email", 9, "host_label_untrusted",
       [url_hosts |-> CredentialLabels], ByTrust),
  Rule("EMAIL-003", "email", 13, "all_equal", [lookalike_domain |-> Yes], {}),
  Rule("EMAIL-004", "email", 11, "all_equal", [brand_mismatch |-> Yes], {}),
  Rule("EMAIL-005", "email", 11, "all_nonempty", Fields({"authentication_failures"}), {}),
  Rule("EMAIL-006", "email", 10, "all_nonempty",
       Fields({"payment_change_terms", "payment_action_terms"}), {}),
  Rule("EMAIL-007", "email", 7, "all_nonempty",
       Fields({"first_contact", "payment_change_terms"}), {}),
  Rule("EMAIL-008", "email", 6, "all_nonempty", Fields({"local_scam_terms"}), ByTrust),
  Rule("FORWARD-001", "forwarding", 14, "all_equal",
       [enabled |-> Yes, external |-> Yes, authorized |-> No], {}),
  Rule("SIGNIN-001", "signin", 13, "any_equal",
       [unusual |-> Yes, new_device |-> Yes, impossible_travel |-> Yes,
        risk_level |-> {"high"}], {}),
  Rule("MFA-001", "mfa", 12, "all_equal", [enabled |-> No], {}),
  Rule("OAUTH-001", "oauth_grant", 16, "any_equal",
       [broad_scope |-> Yes, verified |-> No], {})}

Truthy(f, field) == f[field] \notin {{}, No}

Under(host, suffixes) == \E s \in suffixes : <<host, s>> \in Within

(* A suppressing flag first, then the rule's matcher. *)
Matches(r, f) ==
  LET fields == DOMAIN r.test
  IN /\ \A flag \in r.suppress : ~Truthy(f, flag)
     /\ CASE r.matcher = "different_nonempty" ->
               /\ \A x \in fields : Truthy(f, x)
               /\ \E x, y \in fields : f[x] # f[y]
          [] r.matcher = "all_nonempty" -> \A x \in fields : Truthy(f, x)
          [] r.matcher = "all_equal" -> \A x \in fields : f[x] = r.test[x]
          [] r.matcher = "any_equal" -> \E x \in fields : f[x] = r.test[x]
          [] r.matcher = "host_suffix_in" ->
               \E x \in fields : \E h \in f[x] : Under(h, r.test[x])
          [] r.matcher = "host_label_in" ->
               \E x \in fields : \E h \in f[x] : LabelsOf[h] \cap r.test[x] # {}
          [] r.matcher = "host_label_untrusted" ->
               \E x \in fields : \E h \in f[x] :
                  ~Under(h, TrustedCredentialHosts) /\ LabelsOf[h] \cap r.test[x] # {}

EvaluateRules(type, f, rules) == {r \in rules : r.type = type /\ Matches(r, f)}

(* The features a rule imported by the operator may read, and what the import *)
(* accepts: a known matcher over approved fields, under a code of its own.    *)
SafeFields == [
  email |-> {"sender_domain", "reply_to_domain", "matched_terms", "url_hosts",
             "payment_change_terms", "payment_action_terms", "claimed_domains",
             "lookalike_domain", "brand_mismatch", "authentication_failures",
             "local_scam_terms", "first_contact", "trusted_sender"},
  forwarding |-> {"target_domain", "enabled", "external", "authorized"},
  signin |-> {"unusual", "new_device", "impossible_travel", "risk_level"},
  mfa |-> {"enabled"},
  oauth_grant |-> {"broad_scope", "verified"}]

HostMatchers == {"host_suffix_in", "host_label_in", "host_label_untrusted"}
Matchers == HostMatchers \cup {"different_nonempty", "all_nonempty", "all_equal", "any_equal"}

ImportableAsAny(r, rules) ==
  /\ r.weight \in 2..20
  /\ r.matcher \in Matchers /\ r.suppress \subseteq ByTrust
  /\ DOMAIN r.test # {} /\ DOMAIN r.test \subseteq SafeFields[r.type]

Importable(r, rules) ==
  /\ \A q \in rules : q.code # r.code
  /\ r.weight \in 2..20
  /\ r.matcher \in Matchers /\ r.suppress \subseteq ByTrust
  /\ DOMAIN r.test # {} /\ DOMAIN r.test \subseteq SafeFields[r.type]
  /\ r.matcher = "different_nonempty" => Cardinality(DOMAIN r.test) = 2
  /\ r.matcher \in HostMatchers => DOMAIN r.test = {"url_hosts"}

-----------------------------------------------------------------------------
(* Score: 1 - prod(1 - w) over the findings, in ten-thousandths, rounded. *)
(* (TLC's integers hold the scores of up to four findings.)               *)

AverageScore(findings) ==
  (500 * FoldFunction(LAMBDA a, b : a + b, 0, [x \in findings |-> x.weight]))
    \div Cardinality(findings)

Product(f) == FoldFunction(LAMBDA a, b : a * b, 1, f)

Score(findings) ==
  LET all == Product([x \in findings |-> 20])
      left == Product([x \in findings |-> 20 - x.weight])
  IN (10000 * (all - left) + all \div 2) \div all

-----------------------------------------------------------------------------
(* Edit distance.  Levenshtein is the textbook definition; EditDistance     *)
(* computes only a band of cells and gives up at the first row beyond it.   *)

Least(S) == Min(S)

Levenshtein(l, r) ==
  LET D[x \in (0..Len(l)) \X (0..Len(r))] ==
        LET i == x[1]
            j == x[2]
        IN IF i = 0 THEN j ELSE IF j = 0 THEN i
           ELSE Least({D[<<i - 1, j>>] + 1, D[<<i, j - 1>>] + 1,
                       D[<<i - 1, j - 1>>] + (IF l[i] = r[j] THEN 0 ELSE 1)})
  IN D[<<Len(l), Len(r)>>]

(* A cell of a row that keeps only its band; outside it, the sentinel. *)
Cell(row, j, sentinel) == IF j \in DOMAIN row THEN row[j] ELSE sentinel

(* The same without its last column. *)
ShortRow(row, i, l, r, maximum) ==
  LET band == {j \in 1..Len(r) : i - maximum <= j /\ j < i + maximum}
      zero == IF i <= maximum THEN {0} ELSE {}
      c[j \in 0..Len(r)] ==
        IF j = 0 THEN IF zero = {} THEN maximum + 1 ELSE i
        ELSE IF j \notin band THEN maximum + 1
        ELSE Least({c[j - 1] + 1, Cell(row, j, maximum + 1) + 1,
                    Cell(row, j - 1, maximum + 1) + (IF l[i] = r[j] THEN 0 ELSE 1)})
  IN [j \in band \cup zero |-> c[j]]

(* The next row: columns i-maximum to i+maximum, and column 0 while in reach. *)
NextRow(row, i, l, r, maximum) ==
  LET band == {j \in 1..Len(r) : i - maximum <= j /\ j <= i + maximum}
      zero == IF i <= maximum THEN {0} ELSE {}
      c[j \in 0..Len(r)] ==
        IF j = 0 THEN IF zero = {} THEN maximum + 1 ELSE i
        ELSE IF j \notin band THEN maximum + 1
        ELSE Least({c[j - 1] + 1, Cell(row, j, maximum + 1) + 1,
                    Cell(row, j - 1, maximum + 1) + (IF l[i] = r[j] THEN 0 ELSE 1)})
  IN [j \in band \cup zero |-> c[j]]

Banded(l, r, maximum) ==
  LET top == [j \in 0..Least({Len(r), maximum}) |-> j]
      Row[i \in 0..Len(l)] == IF i = 0 THEN top ELSE NextRow(Row[i - 1], i, l, r, maximum)
      beyond == \E i \in 1..Len(l) : \A j \in DOMAIN Row[i] : Row[i][j] > maximum
  IN IF beyond THEN maximum + 1
     ELSE Least({Cell(Row[Len(l)], Len(r), maximum + 1), maximum + 1})

EditDistance(l, r, maximum) ==
  IF Len(l) - Len(r) > maximum \/ Len(r) - Len(l) > maximum THEN maximum + 1
  ELSE IF Len(l) > Len(r) THEN Banded(r, l, maximum) ELSE Banded(l, r, maximum)

(* The band loses nothing up to the maximum. *)
BandSuffices(words, maximum) ==
  \A l, r \in words : EditDistance(l, r, maximum) = Least({Levenshtein(l, r), maximum + 1})
=============================================================================
