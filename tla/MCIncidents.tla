---------------------------- MODULE MCIncidents ----------------------------
(* Instances of Incidents, and the edit distance over short strings.         *)
EXTENDS Incidents, TLC

CONSTANTS m1, m2, p1

Mail(sender, t, text, named) ==
  [type |-> "email", account |-> "inbox", source |-> "gmail", occurred |-> t, key |-> named,
   sender |-> {sender}, reply_to |-> {}, urls |-> {}, text |-> text, claimed |-> {},
   brand |-> {}, failed |-> {}]

(* Two messages that their caller correlates with an application, and the    *)
(* posture answer about it: at times 0, 1 and 2 they form a chain.  m2 asks   *)
(* for a payment change.                                                      *)
AppKey == <<"app_id", {"app"}>>

MCRaw == m1 :> Mail("ann@acme", 0, {"urgent"}, AppKey)
      @@ m2 :> Mail("ann@acme", 1, {"new bank details"}, AppKey)
      @@ p1 :> [type |-> "oauth_grant", account |-> "inbox", source |-> "posture",
                occurred |-> None, key |-> None, app_id |-> {"app"}, verified |-> No,
                broad_scope |-> Yes]

MCContact == {<<"inbox", {"ann@acme"}>>}
MCSource == {"gmail", "posture"}
CaseSymmetry == Permutations(Case)
MCAlphabet == <<"acme">>
MCWithin == {<<"acme", "acme">>}
MCNear == {<<"acme", "acme">>}
MCDomainOf == ("ann@acme" :> "acme")
MCLabels == ("acme" :> {"acme"})
MCImports == {Rule("LOCAL-1", "email", 4, "all_nonempty", Fields({"payment_change_terms"}), {}),
              Rule("EMAIL-002", "email", 9, "all_nonempty", Fields({"local_scam_terms"}), {})}

-----------------------------------------------------------------------------
(* A workspace that trusts three suppliers and compares with two of them.    *)
LookRaw == m1 :> Mail("ann@acne", 0, {}, None)
LookContact == {<<"inbox", {"ann@acne"}>>}
LookAlphabet == <<"abbot", "abel", "acme", "acne">>
LookWithin == {<<d, d>> : d \in {"abbot", "abel", "acme", "acne"}}
LookNear == LookWithin \cup {<<"acme", "acne">>, <<"acne", "acme">>}
LookDomainOf == ("ann@acne" :> "acne") @@ ("bob@abbot" :> "abbot")

-----------------------------------------------------------------------------
Words == UNION {[1..n -> {"a", "b"}] : n \in 0..5}

WordsSuffice == BandSuffices(Words, 2)

(* Whenever the rules are evaluated, the banded computation that gives up     *)
(* early answers exactly the edit distance as long as it matters, that is up  *)
(* to the maximum (_edit_distance is compared with <= 2 to recognise a        *)
(* lookalike domain).                                                          *)
EditDistanceExact == [][WordsSuffice]_vars
=============================================================================
