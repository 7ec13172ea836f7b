------------------------------ MODULE Consent ------------------------------
(***************************************************************************)
(* The round trips to Google: single-use attempts to connect a mailbox or  *)
(* to sign in, the callbacks that exchange their codes, and what becomes   *)
(* of the mailbox's tokens when callbacks, disconnects and scans that      *)
(* refresh a token run beside each other.                                  *)
(*                                                                         *)
(* One browser, one mailbox.  A step is one database transaction, one read *)
(* whose result is used after others may have committed, or one call to    *)
(* Google.  In sign-in mode a request holds its user's row until its first *)
(* commit; without that lock there are only more interleavings, so it is   *)
(* left out.  A grant has the name of the attempt whose exchange made it.  *)
(***************************************************************************)
EXTENDS Integers, FiniteSets

CONSTANTS
  Attempt,       \* consents to connect the mailbox
  Login,         \* sign-ins
  Process,       \* requests and scans at one time
  LoginLimit,    \* unfinished sign-ins (100 in the code)
  None

ASSUME ConsentAssumption ==
  /\ Attempt \cap Login = {} /\ None \notin Attempt \cup Login
  /\ LoginLimit \in Nat

VARIABLES
  attempt,       \* attempts' rows
  cookie,        \* what the browser presents: <<mailbox, sign-in>>
  exchanged,     \* how often the code of an attempt was sent to Google
  source,        \* the mailbox's status
  stored,        \* the grant whose tokens the credential row holds
  live,          \* grants Google honours
  step, mine,    \* a process's place, and the attempt or grant it works with
  sawActive,     \* whether it read the source as active
  sawTokens,     \* whether it read a credential
  crossed        \* a disconnect has run beside the end of a callback

provider == <<exchanged, live>>
mailbox == <<source, stored>>
session == <<mine, sawActive, sawTokens>>
vars == <<attempt, cookie, provider, mailbox, step, session, crossed>>

-----------------------------------------------------------------------------
All == Attempt \cup Login

Connecting == {"credential", "store"}
Disconnecting == {"tokens", "revoke", "remove"}
Refreshing == {"refresh", "write"}
Steps == {"idle", "consume", "exchange", "source", "token", "count", "insert"}
           \cup Connecting \cup Disconnecting \cup Refreshing

Beside(st, these, those) == \E p, q \in Process : st[p] \in these /\ st[q] \in those

TypeOK ==
  /\ attempt \in [All -> {"unused", "open", "expired", "gone"}]
  /\ cookie \in [{"gmail", "login"} -> All \cup {None}]
  /\ exchanged \in [All -> Nat] /\ live \subseteq Attempt
  /\ source \in {"absent", "active", "disconnected"}
  /\ stored \in Attempt \cup {None}
  /\ step \in [Process -> Steps] /\ mine \in [Process -> All \cup {None}]
  /\ sawActive \in [Process -> BOOLEAN] /\ sawTokens \in [Process -> BOOLEAN]
  /\ crossed \in BOOLEAN
  \* Only what was consumed is exchanged, and tokens belong to a source.
  /\ \A a \in All : exchanged[a] > 0 => attempt[a] = "gone"
  /\ stored # None => source # "absent"

Init ==
  /\ attempt = [a \in All |-> "unused"]
  /\ cookie = [k \in {"gmail", "login"} |-> None]
  /\ exchanged = [a \in All |-> 0] /\ live = {}
  /\ source = "absent" /\ stored = None
  /\ step = [p \in Process |-> "idle"] /\ mine = [p \in Process |-> None]
  /\ sawActive = [p \in Process |-> FALSE] /\ sawTokens = [p \in Process |-> FALSE]
  /\ crossed = FALSE

Goto(p, s) ==
  /\ step' = [step EXCEPT ![p] = s]
  /\ crossed' = (crossed \/ Beside(step', Connecting, Disconnecting))

(* A process ends and forgets; the answer to a callback clears the cookie. *)
End(p) ==
  /\ Goto(p, "idle")
  /\ mine' = [mine EXCEPT ![p] = None]
  /\ sawActive' = [sawActive EXCEPT ![p] = FALSE]
  /\ sawTokens' = [sawTokens EXCEPT ![p] = FALSE]

KindOf(a) == IF a \in Login THEN "login" ELSE "gmail"
Cleared(a) == [cookie EXCEPT ![KindOf(a)] = None]

-----------------------------------------------------------------------------
(* Beginning. *)

(* Attempts beyond their ten minutes are removed first. *)
Purged(kinds) == [a \in All |-> IF a \in kinds /\ attempt[a] = "expired" THEN "gone"
                                ELSE attempt[a]]

BeginConsent(a) ==
  /\ attempt[a] = "unused"
  /\ attempt' = [Purged(Attempt) EXCEPT ![a] = "open"]
  /\ cookie' = [cookie EXCEPT !["gmail"] = a]
  /\ UNCHANGED <<provider, mailbox, step, session, crossed>>

(* Old sign-ins are purged and committed, then those left are counted, and    *)
(* the new one is inserted: nothing keeps others from beginning in between.   *)
PurgeLogins(p) ==
  /\ step[p] = "idle"
  /\ attempt' = Purged(Login)
  /\ Goto(p, "count")
  /\ UNCHANGED <<cookie, provider, mailbox, session>>

CountLogins(p) ==
  /\ step[p] = "count"
  /\ IF Cardinality({a \in Login : attempt[a] \in {"open", "expired"}}) < LoginLimit
       THEN Goto(p, "insert") ELSE Goto(p, "idle")
  /\ UNCHANGED <<attempt, cookie, provider, mailbox, session>>

InsertLogin(p, a) ==
  /\ step[p] = "insert" /\ attempt[a] = "unused"
  /\ attempt' = [attempt EXCEPT ![a] = "open"]
  /\ cookie' = [cookie EXCEPT !["login"] = a]
  /\ Goto(p, "idle")
  /\ UNCHANGED <<provider, mailbox, session>>

Lapse(a) ==
  /\ attempt[a] = "open"
  /\ attempt' = [attempt EXCEPT ![a] = "expired"]
  /\ UNCHANGED <<cookie, provider, mailbox, step, session, crossed>>

-----------------------------------------------------------------------------
(* The callback. *)

Presented(a) == attempt[a] = "open" /\ cookie[KindOf(a)] = a

Lookup(p, a) ==
  /\ step[p] = "idle" /\ Presented(a)
  /\ mine' = [mine EXCEPT ![p] = a]
  /\ Goto(p, "consume")
  /\ UNCHANGED <<attempt, cookie, provider, mailbox, sawActive, sawTokens>>

(* Expired, unknown or from elsewhere: refused, and the cookie is cleared. *)
RefuseCallback(a) ==
  /\ ~Presented(a) /\ attempt[a] # "unused"
  /\ cookie' = Cleared(a)
  /\ UNCHANGED <<attempt, provider, mailbox, step, session, crossed>>

(* The DELETE removes the row for exactly one of two callbacks. *)
AlwaysWon(a) == TRUE
Won(a) == attempt[a] # "gone"

KeptRow(a) == attempt
Consumed(a) == [attempt EXCEPT ![a] = "gone"]

Consume(p) ==
  /\ step[p] = "consume" /\ Won(mine[p])
  /\ attempt' = Consumed(mine[p])
  /\ Goto(p, "exchange")
  /\ UNCHANGED <<cookie, provider, mailbox, session>>

(* The user said no, or the other callback was first. *)
Decline(p) ==
  /\ step[p] = "consume"
  /\ attempt' = IF Won(mine[p]) THEN Consumed(mine[p]) ELSE attempt
  /\ cookie' = Cleared(mine[p])
  /\ End(p)
  /\ UNCHANGED <<provider, mailbox>>

Sent(a) == [exchanged EXCEPT ![a] = @ + 1]

(* Google grants access, and the answers are what was asked for. *)
Exchange(p) ==
  /\ step[p] = "exchange" /\ mine[p] \in Attempt
  /\ exchanged' = Sent(mine[p])
  /\ live' = live \cup {mine[p]}
  /\ Goto(p, "source")
  /\ UNCHANGED <<attempt, cookie, mailbox, session>>

(* Refused, or another account, whose grant is revoked; or a grant that is    *)
(* dropped: an answer lost or unexpected, a revocation that failed.           *)
ExchangeFails(p) ==
  /\ step[p] = "exchange" /\ mine[p] \in Attempt
  /\ exchanged' = Sent(mine[p])
  /\ live' \in {live, live \cup {mine[p]}}
  /\ cookie' = Cleared(mine[p])
  /\ End(p)
  /\ UNCHANGED <<attempt, mailbox>>

(* A sign-in's code; the identity is verified, and the user and the session   *)
(* written, or not, without touching an attempt again.                        *)
Identify(p) ==
  /\ step[p] = "exchange" /\ mine[p] \in Login
  /\ exchanged' = Sent(mine[p])
  /\ cookie' = Cleared(mine[p])
  /\ End(p)
  /\ UNCHANGED <<attempt, live, mailbox>>

(* The source is made, active, or its status read. *)
ReadSource(p) ==
  /\ step[p] = "source"
  /\ source' = IF source = "absent" THEN "active" ELSE source
  /\ sawActive' = [sawActive EXCEPT ![p] = source # "disconnected"]
  /\ Goto(p, "credential")
  /\ UNCHANGED <<attempt, cookie, provider, stored, mine, sawTokens>>

ReadCredential(p) ==
  /\ step[p] = "credential"
  /\ sawTokens' = [sawTokens EXCEPT ![p] = stored # None]
  /\ Goto(p, "store")
  /\ UNCHANGED <<attempt, cookie, provider, mailbox, mine, sawActive>>

(* The credential is inserted or updated as it was read; the status is        *)
(* written only where it differs from what was read.                          *)
Store(p) ==
  /\ step[p] = "store" /\ sawTokens[p] = (stored # None)
  /\ stored' = mine[p]
  /\ source' = IF sawActive[p] THEN source ELSE "active"
  /\ cookie' = Cleared(mine[p])
  /\ End(p)
  /\ UNCHANGED <<attempt, provider>>

(* The row appeared, or is gone: an integrity or stale-data error. *)
StoreFails(p) ==
  /\ step[p] = "store" /\ sawTokens[p] # (stored # None)
  /\ End(p)
  /\ UNCHANGED <<attempt, cookie, provider, mailbox>>

-----------------------------------------------------------------------------
(* Disconnecting. *)

StartDisconnect(p) ==
  /\ step[p] = "idle" /\ source # "absent"
  /\ sawActive' = [sawActive EXCEPT ![p] = source = "active"]
  /\ Goto(p, "tokens")
  /\ UNCHANGED <<attempt, cookie, provider, mailbox, mine, sawTokens>>

ReadTokens(p) ==
  /\ step[p] = "tokens"
  /\ mine' = [mine EXCEPT ![p] = stored]
  /\ Goto(p, IF stored = None THEN "remove" ELSE "revoke")
  /\ UNCHANGED <<attempt, cookie, provider, mailbox, sawActive, sawTokens>>

(* Google confirms, or does not: the tokens are removed all the same. *)
Revoke(p) ==
  /\ step[p] = "revoke"
  /\ live' \in {live, live \ {mine[p]}}
  /\ Goto(p, "remove")
  /\ UNCHANGED <<attempt, cookie, exchanged, mailbox, session>>

KeptIfUnconfirmed(p) == IF mine[p] \in live THEN stored ELSE None
Remaining(p) == IF mine[p] = None THEN stored ELSE None

Remove(p) ==
  /\ step[p] = "remove"
  /\ stored' = Remaining(p)
  /\ source' = IF sawActive[p] THEN "disconnected" ELSE source
  /\ End(p)
  /\ UNCHANGED <<attempt, cookie, provider>>

-----------------------------------------------------------------------------
(* A scan whose access token runs out. *)

StartScan(p) ==
  /\ step[p] = "idle" /\ source = "active"
  /\ Goto(p, "token")
  /\ UNCHANGED <<attempt, cookie, provider, mailbox, session>>

ReadToken(p) ==
  /\ step[p] = "token" /\ stored # None
  /\ mine' = [mine EXCEPT ![p] = stored]
  /\ Goto(p, "refresh")
  /\ UNCHANGED <<attempt, cookie, provider, mailbox, sawActive, sawTokens>>

Refresh(p) ==
  /\ step[p] = "refresh" /\ mine[p] \in live
  /\ Goto(p, "write")
  /\ UNCHANGED <<attempt, cookie, provider, mailbox, session>>

(* An update of the row that is there, whichever consent it is from by now. *)
WriteBack(p) ==
  /\ step[p] = "write" /\ stored # None
  /\ stored' = mine[p]
  /\ End(p)
  /\ UNCHANGED <<attempt, cookie, provider, source>>

(* A token that is still good, no credential, a refusal, a row that is gone,  *)
(* or a killed process.                                                        *)
Abort(p) ==
  /\ step[p] # "idle"
  /\ End(p)
  /\ UNCHANGED <<attempt, cookie, provider, mailbox>>

Callback(p) ==
  \/ \E a \in All : Lookup(p, a)
  \/ Consume(p) \/ Decline(p) \/ Exchange(p) \/ ExchangeFails(p) \/ Identify(p)
  \/ ReadSource(p) \/ ReadCredential(p) \/ Store(p) \/ StoreFails(p)

Disconnect(p) == StartDisconnect(p) \/ ReadTokens(p) \/ Revoke(p) \/ Remove(p)

Scan(p) == StartScan(p) \/ ReadToken(p) \/ Refresh(p) \/ WriteBack(p)

Next ==
  \/ \E a \in Attempt : BeginConsent(a)
  \/ \E p \in Process : PurgeLogins(p) \/ CountLogins(p)
  \/ \E p \in Process, a \in Login : InsertLogin(p, a)
  \/ \E a \in All : Lapse(a) \/ RefuseCallback(a)
  \/ \E p \in Process : Callback(p) \/ Disconnect(p) \/ Scan(p) \/ Abort(p)

Spec == Init /\ [][Next]_vars

-----------------------------------------------------------------------------
(* Properties. *)

(* However often the browser delivers a callback, the code of an attempt is   *)
(* sent to Google at most once ("Atomic consumption prevents two concurrent    *)
(* callbacks from exchanging the same code").                                  *)
ExchangedOnce == \A a \in All : exchanged[a] <= 1

(* A disconnect removes the tokens, whether or not Google confirms and        *)
(* whatever scans do meanwhile, unless it ran beside the end of a callback:    *)
(* that one may leave tokens behind, although docs/API.md promises none stay.  *)
DisconnectRemoves == ~crossed /\ source = "disconnected" => stored = None
=============================================================================
