--------------------------- MODULE AccountSessions ---------------------------
(***************************************************************************)
(* Accounts and sessions of the three kinds of user.                       *)
(*                                                                         *)
(*  - Readers (services/paid-access): sessions are rows beside the account;*)
(*    one statement joins the two.                                         *)
(*  - Affiliates (services/api): sessions are keys in Redis that carry the *)
(*    credential version; the account is read from PostgreSQL afterwards,  *)
(*    by each request, and nothing revokes a session.                      *)
(*  - The administrator (services/api): a key in Redis, the password in the*)
(*    configuration.                                                       *)
(*                                                                         *)
(* Each statement is its own transaction.  A login reads the account,      *)
(* checks the password against what it read, and stores the session later; *)
(* the password may be reset, or the affiliate disabled, in between.       *)
(***************************************************************************)
EXTENDS Integers

CONSTANTS
    Readers, Affiliates, Admins,
    Tokens,       \* session tokens: the bound on sessions
    Handlers,     \* register and login requests: the bound on them
    Requests,     \* authenticated requests in progress
    MaxChanges,   \* bound on resets and changes of status of an account
    None

Accounts == Readers \cup Affiliates \cup Admins

ASSUME AccountSessionsAssumption ==
    /\ MaxChanges \in Nat /\ None \notin Accounts \cup Tokens
    /\ Readers \cap Affiliates = {} /\ Admins \cap (Readers \cup Affiliates) = {}

VARIABLES
    account,  \* [Accounts -> row]; gen counts what ended the sessions opened before
    sess,     \* [Tokens -> session]; proof is the generation its password was checked in
    handler,  \* [Handlers -> register or login request and the account it read]
    request   \* [Requests -> authenticated request; valid: the session was, when it was read]

vars == <<account, sess, handler, request>>

Generations == 1..(MaxChanges + 1)

NoAccount == [exists |-> FALSE, active |-> FALSE, version |-> 0, gen |-> 0]
FreshAccount == [exists |-> TRUE, active |-> TRUE, version |-> 1, gen |-> 1]
NoSession == [account |-> None, version |-> 0, proof |-> 0, ended |-> FALSE, seen |-> FALSE]
Idle == [at |-> "idle", account |-> None, version |-> 0, proof |-> 0]
NoRequest == [at |-> "idle", token |-> None, valid |-> FALSE]

(* The administrator is in the configuration. *)
Init ==
    /\ account = [a \in Accounts |-> IF a \in Admins THEN FreshAccount ELSE NoAccount]
    /\ sess = [t \in Tokens |-> NoSession]
    /\ handler = [h \in Handlers |-> Idle]
    /\ request = [q \in Requests |-> NoRequest]

(***************************************************************************)
(* Register and login                                                      *)
(***************************************************************************)

FirstVersion == 1

Verified(h, a, version) ==
    handler' = [handler EXCEPT ![h] = [at |-> "verified", account |-> a, version |-> version,
                                       proof |-> account'[a].gen]]

Create(h, a) ==
    /\ ~account[a].exists
    /\ account' = [account EXCEPT ![a] = FreshAccount]
    /\ Verified(h, a, FirstVersion)
    /\ UNCHANGED <<sess, request>>

(* The handler goes on with the row that the insertion returned. *)
RegisterReader(h, a) == a \in Readers /\ handler[h] = Idle /\ Create(h, a)

(* The affiliate is looked up, and inserted by a later statement. *)
LookUpAffiliate(h, a) ==
    /\ a \in Affiliates /\ handler[h] = Idle
    /\ ~account[a].exists
    /\ handler' = [handler EXCEPT ![h].at = "unknown", ![h].account = a]
    /\ UNCHANGED <<account, sess, request>>

CreateAffiliate(h) == handler[h].at = "unknown" /\ Create(h, handler[h].account)

(* The name was taken between the two statements. *)
AffiliateExists(h) ==
    /\ handler[h].at = "unknown"
    /\ account[handler[h].account].exists
    /\ handler' = [handler EXCEPT ![h].at = "failed"]
    /\ UNCHANGED <<account, sess, request>>

(* The password typed is that of the row that was read. *)
Check(h, a) ==
    /\ handler[h] = Idle
    /\ account[a].exists /\ account[a].active
    /\ UNCHANGED <<account, sess, request>>
    /\ Verified(h, a, account[a].version)

LoginReader(h, a) == a \in Readers /\ Check(h, a)

LoginAffiliate(h, a) == a \in Affiliates /\ Check(h, a)

(* Name and password are compared with the configuration. *)
adminLogin(h, a) == a \in Admins /\ Check(h, a)

(* A taken name, an unknown or disabled account, a wrong password. *)
Refuse(h) ==
    /\ handler[h] = Idle
    /\ handler' = [handler EXCEPT ![h].at = "failed"]
    /\ UNCHANGED <<account, sess, request>>

VersionNow(h) == account[handler[h].account].version
VersionRead(h) == handler[h].version

(* The session carries the version that came with the password hash. *)
Store(h, t) ==
    /\ handler[h].at = "verified"
    /\ sess[t] = NoSession
    /\ sess' = [sess EXCEPT ![t] = [account |-> handler[h].account, version |-> VersionRead(h),
                                    proof |-> handler[h].proof, ended |-> FALSE, seen |-> TRUE]]
    /\ handler' = [handler EXCEPT ![h].at = "done"]
    /\ UNCHANGED <<account, request>>

issueSession(h, t) == handler[h].account \in Readers /\ Store(h, t)

(* SET in Redis; an administrator's session carries no version. *)
SetSession(h, t) == handler[h].account \notin Readers /\ Store(h, t)

(* PostgreSQL, Redis or the process fails before the session is stored. *)
Fail(h) ==
    /\ handler[h].at \in {"unknown", "verified"}
    /\ handler' = [handler EXCEPT ![h].at = "failed"]
    /\ UNCHANGED <<account, sess, request>>

(***************************************************************************)
(* Requests with a session                                                 *)
(***************************************************************************)

Opened(t) == sess[t] # NoSession

(* A row that is neither revoked nor idle; a key that Redis still has. *)
Present(t) == Opened(t) /\ ~sess[t].ended /\ sess[t].seen

Current(t) == LET a == account[sess[t].account] IN a.active /\ sess[t].version = a.version

Valid(t) == Present(t) /\ (sess[t].account \notin Admins => Current(t))

Begin(q, t) ==
    /\ request[q] = NoRequest
    /\ request' = [request EXCEPT ![q] = [at |-> "read", token |-> t, valid |-> Valid(t)]]
    /\ UNCHANGED <<account, sess, handler>>

(* One statement, which joins the session with the account. *)
FindAccountBySession(q, t) == sess[t].account \in Readers /\ Valid(t) /\ Begin(q, t)

(* GET in Redis. *)
GetSession(q, t) == sess[t].account \notin Readers /\ Present(t) /\ Begin(q, t)

InProgress(q, realm) == request[q].at = "read" /\ sess[request[q].token].account \in realm

Allow(q) == request' = [request EXCEPT ![q].at = "allowed"] /\ UNCHANGED <<account, handler>>

(* The statement after the one that found the session valid. *)
TouchSession(q) ==
    /\ InProgress(q, Readers)
    /\ sess' = [sess EXCEPT ![request[q].token].seen = @ \/ ~sess[request[q].token].ended]
    /\ Allow(q)

(* EXPIRE slides a key that is there and creates none. *)
requireAdmin(q) == InProgress(q, Admins) /\ Allow(q) /\ UNCHANGED sess

CheckStatusOnly(q) ==
    /\ InProgress(q, Affiliates) /\ account[sess[request[q].token].account].active
    /\ Allow(q) /\ UNCHANGED sess

(* The account is read after the session, and compared with its copy. *)
requireAffiliate(q) == InProgress(q, Affiliates) /\ Current(request[q].token) /\ Allow(q) /\ UNCHANGED sess

(* The key of a refused session is deleted, unless Redis fails. *)
RefuseAffiliate(q) ==
    /\ InProgress(q, Affiliates)
    /\ ~Current(request[q].token)
    /\ sess' \in {sess, [sess EXCEPT ![request[q].token].ended = TRUE]}
    /\ request' = [request EXCEPT ![q] = NoRequest]
    /\ UNCHANGED <<account, handler>>

Finish(q) ==
    /\ request[q].at = "allowed"
    /\ request' = [request EXCEPT ![q] = NoRequest]
    /\ UNCHANGED <<account, sess, handler>>

(* Thirty days, or 24 hours for an administrator, without a request. *)
Expire(t) ==
    /\ Opened(t) /\ sess[t].seen
    /\ sess' = [sess EXCEPT ![t].seen = FALSE]
    /\ UNCHANGED <<account, handler, request>>

End(t, realm) ==
    /\ Opened(t) /\ sess[t].account \in realm
    /\ sess' = [sess EXCEPT ![t].ended = TRUE]
    /\ UNCHANGED <<account, handler, request>>

(* The browser forgets its token even if the store fails to end the session. *)
logoutReader(t) == End(t, Readers)

affiliateLogout(t) == End(t, Affiliates)

adminLogout(t) == End(t, Admins)

(***************************************************************************)
(* What the administrator does to accounts                                 *)
(***************************************************************************)

NextVersion(v) == v + 1

Change(a, active) ==
    /\ account[a].exists /\ account[a].gen <= MaxChanges
    /\ account' = [account EXCEPT ![a].gen = @ + 1, ![a].version = NextVersion(@), ![a].active = active]
    /\ UNCHANGED <<handler, request>>

(* One transaction, which also revokes the sessions there are. *)
ResetPassword(a) ==
    /\ a \in Readers
    /\ Change(a, TRUE)
    /\ sess' = [t \in Tokens |-> IF sess[t].account = a THEN [sess[t] EXCEPT !.ended = TRUE] ELSE sess[t]]

UpdateAffiliatePassword(a) == a \in Affiliates /\ Change(a, account[a].active) /\ UNCHANGED sess

UpdateAffiliateStatus(a, active) == a \in Affiliates /\ Change(a, active) /\ UNCHANGED sess

Next ==
    \/ \E h \in Handlers :
          \/ \E a \in Accounts : 
                \/ RegisterReader(h, a) \/ LookUpAffiliate(h, a)
                \/ LoginReader(h, a) \/ LoginAffiliate(h, a) \/ adminLogin(h, a)
          \/ CreateAffiliate(h) \/ AffiliateExists(h)
          \/ Refuse(h) \/ Fail(h)
          \/ \E t \in Tokens : issueSession(h, t) \/ SetSession(h, t)
    \/ \E t \in Tokens :
          \/ Expire(t)
          \/ logoutReader(t) \/ affiliateLogout(t) \/ adminLogout(t)
          \/ \E q \in Requests : FindAccountBySession(q, t) \/ GetSession(q, t)
    \/ \E q \in Requests :
          \/ TouchSession(q) \/ requireAdmin(q)
          \/ requireAffiliate(q) \/ RefuseAffiliate(q)
          \/ Finish(q)
    \/ \E a \in Accounts :
          \/ ResetPassword(a) \/ UpdateAffiliatePassword(a)
          \/ \E active \in BOOLEAN : UpdateAffiliateStatus(a, active)

Spec == Init /\ [][Next]_vars

(***************************************************************************)
(* Properties                                                              *)
(***************************************************************************)

AccountRows ==
    {NoAccount} \cup [exists : {TRUE}, active : BOOLEAN, version : Generations, gen : Generations]
SessionRows ==
    {NoSession} \cup [account : Accounts, version : Generations, proof : Generations,
                      ended : BOOLEAN, seen : BOOLEAN]
HandlerStates ==
    [at : {"idle", "unknown", "failed"}, account : Accounts \cup {None}, version : {0} \cup Generations,
     proof : {0} \cup Generations]
    \cup [at : {"verified", "done"}, account : Accounts, version : Generations, proof : Generations]
RequestStates == {NoRequest} \cup [at : {"read", "allowed"}, token : Tokens, valid : BOOLEAN]

(* Rows satisfy the schema; every session is of an account and carries a   *)
(* version that account could have had.                                    *)
TypeOK ==
    /\ account \in [Accounts -> AccountRows]
    /\ sess \in [Tokens -> SessionRows]
    /\ handler \in [Handlers -> HandlerStates]
    /\ request \in [Requests -> RequestStates]

(* docs/paid-article-access.md:32: a session that was neither logged out   *)
(* nor idle too long is valid exactly while no reset and, for affiliates,  *)
(* no change of status came after the read its password was checked with,  *)
(* even if it came before the session was stored.                          *)
ValidIffCurrentPassword ==
    \A t \in Tokens : Present(t) => (Valid(t) <=> sess[t].proof = account[sess[t].account].gen)

(* A request is let in only if its session was valid when it was read,     *)
(* although the session and the account come from two stores at two        *)
(* moments and an affiliate may be disabled and enabled in between.        *)
AllowedWasValid == \A q \in Requests : request[q].at = "allowed" => request[q].valid
=============================================================================
