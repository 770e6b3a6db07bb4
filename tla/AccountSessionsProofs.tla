------------------------ MODULE AccountSessionsProofs ------------------------
(* Proofs about AccountSessions, for any accounts, tokens and requests. *)
EXTENDS AccountSessions, TLAPS

(***************************************************************************)
(* What has to be true for the properties to last.                         *)
(***************************************************************************)

(* The version counts the same changes as the history does. *)
VersionsCount == \A a \in Accounts : account[a].version = account[a].gen

(* Nobody changes the administrator's account. *)
AdminsFixed == \A a \in Admins : account[a] = FreshAccount

(* The version of a session, or of a login about to store one, is that of  *)
(* its proof; the account is not behind it, and is active if not ahead.    *)
Vouched(r) ==
    /\ r.version = r.proof
    /\ r.proof <= account[r.account].gen
    /\ r.proof = account[r.account].gen => account[r.account].active

SessionsVouched == \A t \in Tokens : Opened(t) => Vouched(sess[t])

HandlersVouched == \A h \in Handlers : handler[h].at = "verified" => Vouched(handler[h])

LookedUp == \A h \in Handlers : handler[h].at = "unknown" => handler[h].account \in Affiliates

(* A session that was not valid when it was read is an affiliate's, and    *)
(* behind for ever.                                                        *)
Behind(t) == sess[t].account \in Affiliates /\ sess[t].version < account[sess[t].account].version

RequestsRead ==
    \A q \in Requests : request[q].at # "idle" =>
        /\ Opened(request[q].token)
        /\ ~request[q].valid => request[q].at = "read" /\ Behind(request[q].token)

IInv ==
    /\ TypeOK /\ VersionsCount /\ AdminsFixed /\ LookedUp
    /\ SessionsVouched /\ HandlersVouched /\ RequestsRead

(***************************************************************************)
(* What a row or a record of a handler may become                          *)
(***************************************************************************)

(* A row is blank, or has a version and a generation in bounds. *)
LEMMA AccountRow ==
  ASSUME NEW r \in AccountRows
  PROVE  /\ ~r.exists => r = NoAccount
         /\ r.exists => r.version \in Generations /\ r.gen \in Generations /\ r.active \in BOOLEAN
         /\ r.gen \in Int /\ r.version \in Int
<1>1. CASE r = NoAccount
  BY <1>1 DEF NoAccount
<1>2. CASE r # NoAccount
  <2>1. r \in [exists : {TRUE}, active : BOOLEAN, version : Generations, gen : Generations]
    BY <1>2 DEF AccountRows
  <2>2. r.exists = TRUE
    BY <2>1
  <2>3. Generations \subseteq Int
    BY DEF Generations
  <2> QED
    BY <2>1, <2>2, <2>3
<1> QED
  BY <1>1, <1>2

(* The row of a new account. *)
LEMMA NewRow == FreshAccount \in AccountRows /\ FreshAccount.exists
BY AccountSessionsAssumption DEF AccountRows, FreshAccount, Generations

(* The version counts with the generation, so that both are in bounds. *)
LEMMA ChangedRow ==
  ASSUME NEW r \in AccountRows, r.exists, r.version = r.gen, r.gen <= MaxChanges, NEW b \in BOOLEAN
  PROVE  [r EXCEPT !.gen = r.gen + 1, !.version = r.version + 1, !.active = b] \in AccountRows
<1>1. r \in [exists : {TRUE}, active : BOOLEAN, version : Generations, gen : Generations]
  <2>1. r # NoAccount
    BY DEF NoAccount
  <2> QED
    BY <2>1 DEF AccountRows
<1>2. r.gen + 1 \in Generations
  <2>1. r.gen \in Generations
    BY <1>1
  <2> QED
    BY <2>1, AccountSessionsAssumption DEF Generations
<1>3. [r EXCEPT !.gen = r.gen + 1, !.version = r.version + 1, !.active = b]
        \in [exists : {TRUE}, active : BOOLEAN, version : Generations, gen : Generations]
  BY <1>1, <1>2
<1> QED
  BY <1>3 DEF AccountRows

(* A session that was opened has an account and versions in bounds. *)
LEMMA SessionRow ==
  ASSUME NEW r \in SessionRows
  PROVE  /\ r # NoSession => r.account \in Accounts /\ r.version \in Generations /\ r.proof \in Generations
         /\ r # NoSession <=> r.account # None
         /\ r = NoSession => r.account \notin Accounts
BY AccountSessionsAssumption DEF SessionRows, NoSession, Accounts

(* Ending or touching an opened session keeps it a session. *)
LEMMA MarkedRow ==
  ASSUME NEW r \in SessionRows, r # NoSession, NEW b \in BOOLEAN
  PROVE  [r EXCEPT !.ended = b] \in SessionRows /\ [r EXCEPT !.seen = b] \in SessionRows
BY DEF SessionRows

(* A handler that ends keeps the account and versions it had. *)
LEMMA HandlerRow ==
  ASSUME NEW r \in HandlerStates
  PROVE  /\ [r EXCEPT !.at = "failed"] \in HandlerStates
         /\ r.at = "verified" =>
              /\ r.account \in Accounts /\ r.version \in Generations /\ r.proof \in Generations
              /\ [r EXCEPT !.at = "done"] \in HandlerStates
BY DEF HandlerStates, Accounts

(* A handler goes on with the version and generation of a row. *)
LEMMA VerifiedRow ==
  ASSUME NEW a \in Accounts, NEW r \in AccountRows, r.exists
  PROVE  [at |-> "verified", account |-> a, version |-> r.version, proof |-> r.gen] \in HandlerStates
BY AccountRow DEF HandlerStates

(* A handler found no row of the affiliate. *)
LEMMA LookedUpRow ==
  ASSUME NEW a \in Accounts
  PROVE  [[Idle EXCEPT !.at = "unknown"] EXCEPT !.account = a] \in HandlerStates
BY DEF HandlerStates, Idle

(* What a login stores is a session. *)
LEMMA NewSession ==
  ASSUME NEW a \in Accounts, NEW v \in Generations, NEW p \in Generations
  PROVE  [account |-> a, version |-> v, proof |-> p, ended |-> FALSE, seen |-> TRUE] \in SessionRows
BY DEF SessionRows

(* A request before it reads a session, and after. *)
LEMMA ReadRow ==
  /\ NoRequest \in RequestStates
  /\ \A t \in Tokens : [at |-> "read", token |-> t, valid |-> Valid(t)] \in RequestStates
<1>1. \A t \in Tokens : Valid(t) \in BOOLEAN
  BY DEF Valid, Present, Current, Opened
<1> QED
  BY <1>1 DEF RequestStates

(* A request that read a session may be let in. *)
LEMMA RequestRow ==
  ASSUME NEW r \in RequestStates
  PROVE  r.at # "idle" => r.token \in Tokens /\ [r EXCEPT !.at = "allowed"] \in RequestStates
BY DEF RequestStates, NoRequest

(* Every step keeps the types of accounts. *)
LEMMA AccountTypes ==
  ASSUME TypeOK, VersionsCount, LookedUp, [Next]_vars
  PROVE  account' \in [Accounts -> AccountRows]
<1>1. ASSUME NEW h \in Handlers, NEW a \in Accounts,
             RegisterReader(h, a)
      PROVE  account' \in [Accounts -> AccountRows]
  BY <1>1, NewRow DEF RegisterReader, Create, Verified, TypeOK,
     VersionsCount, Accounts
<1>2. ASSUME NEW h \in Handlers, NEW a \in Accounts,
             LookUpAffiliate(h, a)
      PROVE  account' \in [Accounts -> AccountRows]
  BY <1>2 DEF LookUpAffiliate, TypeOK, VersionsCount, Accounts
<1>3. ASSUME NEW h \in Handlers, NEW a \in Accounts,
             LoginReader(h, a) \/ LoginAffiliate(h, a) \/ adminLogin(h, a)
      PROVE  account' \in [Accounts -> AccountRows]
  BY <1>3 DEF LoginReader, LoginAffiliate, adminLogin, Check, Verified,
     TypeOK, VersionsCount, Accounts
<1>4. ASSUME NEW h \in Handlers,
             CreateAffiliate(h)
      PROVE  account' \in [Accounts -> AccountRows]
  BY <1>4, NewRow DEF CreateAffiliate, Create, Verified, TypeOK,
     VersionsCount, Accounts
<1>5. ASSUME NEW h \in Handlers,
             AffiliateExists(h) \/ Refuse(h) \/ Fail(h)
      PROVE  account' \in [Accounts -> AccountRows]
  BY <1>5 DEF AffiliateExists, Refuse, Fail, TypeOK, VersionsCount, Accounts
<1>6. ASSUME NEW h \in Handlers, NEW t \in Tokens,
             issueSession(h, t) \/ SetSession(h, t)
      PROVE  account' \in [Accounts -> AccountRows]
  BY <1>6 DEF issueSession, SetSession, Store, VersionRead, TypeOK,
     VersionsCount, Accounts
<1>7. ASSUME NEW t \in Tokens,
             Expire(t)
      PROVE  account' \in [Accounts -> AccountRows]
  BY <1>7 DEF Expire, TypeOK, VersionsCount, Accounts
<1>8. ASSUME NEW t \in Tokens,
             logoutReader(t) \/ affiliateLogout(t) \/ adminLogout(t)
      PROVE  account' \in [Accounts -> AccountRows]
  BY <1>8 DEF logoutReader, affiliateLogout, adminLogout, End, TypeOK,
     VersionsCount, Accounts
<1>9. ASSUME NEW q \in Requests, NEW t \in Tokens,
             FindAccountBySession(q, t) \/ GetSession(q, t)
      PROVE  account' \in [Accounts -> AccountRows]
  BY <1>9 DEF FindAccountBySession, GetSession, Begin, TypeOK,
     VersionsCount, Accounts
<1>10. ASSUME NEW q \in Requests,
             TouchSession(q)
      PROVE  account' \in [Accounts -> AccountRows]
  BY <1>10 DEF TouchSession, InProgress, Allow, TypeOK, VersionsCount,
     Accounts
<1>11. ASSUME NEW q \in Requests,
             requireAdmin(q) \/ requireAffiliate(q)
      PROVE  account' \in [Accounts -> AccountRows]
  BY <1>11 DEF requireAdmin, requireAffiliate, InProgress, Allow, TypeOK,
     VersionsCount, Accounts
<1>12. ASSUME NEW q \in Requests,
             RefuseAffiliate(q)
      PROVE  account' \in [Accounts -> AccountRows]
  BY <1>12 DEF RefuseAffiliate, InProgress, TypeOK, VersionsCount, Accounts
<1>13. ASSUME NEW q \in Requests,
             Finish(q)
      PROVE  account' \in [Accounts -> AccountRows]
  BY <1>13 DEF Finish, TypeOK, VersionsCount, Accounts
<1>14. ASSUME NEW a \in Accounts,
             ResetPassword(a)
      PROVE  account' \in [Accounts -> AccountRows]
  BY <1>14, AccountRow, ChangedRow DEF ResetPassword, Change, NextVersion,
     TypeOK, VersionsCount, Accounts
<1>15. ASSUME NEW a \in Accounts,
             UpdateAffiliatePassword(a)
      PROVE  account' \in [Accounts -> AccountRows]
  BY <1>15, AccountRow, ChangedRow DEF UpdateAffiliatePassword, Change,
     NextVersion, TypeOK, VersionsCount, Accounts
<1>16. ASSUME NEW a \in Accounts, NEW active \in BOOLEAN,
             UpdateAffiliateStatus(a, active)
      PROVE  account' \in [Accounts -> AccountRows]
  BY <1>16, AccountRow, ChangedRow DEF UpdateAffiliateStatus, Change,
     NextVersion, TypeOK, VersionsCount, Accounts
<1>17. ASSUME UNCHANGED vars
      PROVE  account' \in [Accounts -> AccountRows]
  BY <1>17 DEF vars, TypeOK, VersionsCount, Accounts
<1> QED
  BY <1>1, <1>2, <1>3, <1>4, <1>5, <1>6, <1>7, <1>8, <1>9, <1>10, <1>11,
     <1>12, <1>13, <1>14, <1>15, <1>16, <1>17
  DEF Next

(* Every step keeps the types of sessions. *)
LEMMA SessionTypes ==
  ASSUME TypeOK, [Next]_vars
  PROVE  sess' \in [Tokens -> SessionRows]
<1>1. ASSUME NEW h \in Handlers, NEW a \in Accounts,
             RegisterReader(h, a)
      PROVE  sess' \in [Tokens -> SessionRows]
  BY <1>1 DEF RegisterReader, Create, Verified, TypeOK, Opened
<1>2. ASSUME NEW h \in Handlers, NEW a \in Accounts,
             LookUpAffiliate(h, a)
      PROVE  sess' \in [Tokens -> SessionRows]
  BY <1>2 DEF LookUpAffiliate, TypeOK, Opened
<1>3. ASSUME NEW h \in Handlers, NEW a \in Accounts,
             LoginReader(h, a) \/ LoginAffiliate(h, a) \/ adminLogin(h, a)
      PROVE  sess' \in [Tokens -> SessionRows]
  BY <1>3 DEF LoginReader, LoginAffiliate, adminLogin, Check, Verified,
     TypeOK, Opened
<1>4. ASSUME NEW h \in Handlers,
             CreateAffiliate(h)
      PROVE  sess' \in [Tokens -> SessionRows]
  BY <1>4 DEF CreateAffiliate, Create, Verified, TypeOK, Opened
<1>5. ASSUME NEW h \in Handlers,
             AffiliateExists(h) \/ Refuse(h) \/ Fail(h)
      PROVE  sess' \in [Tokens -> SessionRows]
  BY <1>5 DEF AffiliateExists, Refuse, Fail, TypeOK, Opened
<1>6. ASSUME NEW h \in Handlers, NEW t \in Tokens,
             issueSession(h, t) \/ SetSession(h, t)
      PROVE  sess' \in [Tokens -> SessionRows]
  <2>1. handler[h].at = "verified" /\ handler[h] \in HandlerStates
    BY <1>6 DEF issueSession, SetSession, Store, TypeOK
  <2>2. /\ handler[h].account \in Accounts /\ handler[h].version \in Generations
       /\ handler[h].proof \in Generations
    BY <2>1, HandlerRow
  <2>3. [account |-> handler[h].account, version |-> VersionRead(h), proof |-> handler[h].proof,
        ended |-> FALSE, seen |-> TRUE] \in SessionRows
    BY <2>2, NewSession DEF VersionRead
  <2> QED
    BY <1>6, <2>3 DEF issueSession, SetSession, Store, TypeOK
<1>7. ASSUME NEW t \in Tokens,
             Expire(t)
      PROVE  sess' \in [Tokens -> SessionRows]
  BY <1>7, MarkedRow DEF Expire, TypeOK, Opened
<1>8. ASSUME NEW t \in Tokens,
             logoutReader(t) \/ affiliateLogout(t) \/ adminLogout(t)
      PROVE  sess' \in [Tokens -> SessionRows]
  BY <1>8, MarkedRow DEF logoutReader, affiliateLogout, adminLogout, End,
     TypeOK, Opened
<1>9. ASSUME NEW q \in Requests, NEW t \in Tokens,
             FindAccountBySession(q, t) \/ GetSession(q, t)
      PROVE  sess' \in [Tokens -> SessionRows]
  BY <1>9 DEF FindAccountBySession, GetSession, Begin, TypeOK, Opened
<1>10. ASSUME NEW q \in Requests,
             TouchSession(q)
      PROVE  sess' \in [Tokens -> SessionRows]
  <2>1. LET t == request[q].token IN
         t \in Tokens /\ sess[t] \in SessionRows /\ sess[t] # NoSession
    BY <1>10, RequestRow, SessionRow DEF TouchSession, InProgress, TypeOK,
       Accounts
  <2>2. \A b \in BOOLEAN : [sess[request[q].token] EXCEPT !.seen = b] \in SessionRows
    BY <2>1, MarkedRow
  <2>3. (sess[request[q].token].seen \/ ~sess[request[q].token].ended) \in BOOLEAN
    BY Zenon
  <2> QED
    BY <1>10, <2>1, <2>2, <2>3 DEF TouchSession, TypeOK
<1>11. ASSUME NEW q \in Requests,
             requireAdmin(q) \/ requireAffiliate(q)
      PROVE  sess' \in [Tokens -> SessionRows]
  BY <1>11 DEF requireAdmin, requireAffiliate, InProgress, Allow, TypeOK,
     Opened
<1>12. ASSUME NEW q \in Requests,
             RefuseAffiliate(q)
      PROVE  sess' \in [Tokens -> SessionRows]
  <2>1. LET t == request[q].token IN
         t \in Tokens /\ sess[t] \in SessionRows /\ sess[t] # NoSession
    BY <1>12, RequestRow, SessionRow DEF RefuseAffiliate, InProgress,
       TypeOK, Accounts
  <2>2. [sess[request[q].token] EXCEPT !.ended = TRUE] \in SessionRows
    BY <2>1, MarkedRow
  <2> QED
    BY <1>12, <2>1, <2>2 DEF RefuseAffiliate, TypeOK
<1>13. ASSUME NEW q \in Requests,
             Finish(q)
      PROVE  sess' \in [Tokens -> SessionRows]
  BY <1>13 DEF Finish, TypeOK, Opened
<1>14. ASSUME NEW a \in Accounts,
             ResetPassword(a)
      PROVE  sess' \in [Tokens -> SessionRows]
  BY <1>14, SessionRow, MarkedRow DEF ResetPassword, Change, NextVersion,
     TypeOK, Opened
<1>15. ASSUME NEW a \in Accounts,
             UpdateAffiliatePassword(a)
      PROVE  sess' \in [Tokens -> SessionRows]
  BY <1>15 DEF UpdateAffiliatePassword, Change, NextVersion, TypeOK, Opened
<1>16. ASSUME NEW a \in Accounts, NEW active \in BOOLEAN,
             UpdateAffiliateStatus(a, active)
      PROVE  sess' \in [Tokens -> SessionRows]
  BY <1>16 DEF UpdateAffiliateStatus, Change, NextVersion, TypeOK, Opened
<1>17. ASSUME UNCHANGED vars
      PROVE  sess' \in [Tokens -> SessionRows]
  BY <1>17 DEF vars, TypeOK, Opened
<1> QED
  BY <1>1, <1>2, <1>3, <1>4, <1>5, <1>6, <1>7, <1>8, <1>9, <1>10, <1>11,
     <1>12, <1>13, <1>14, <1>15, <1>16, <1>17
  DEF Next

(* Every step keeps the types of handlers. *)
LEMMA HandlerTypes ==
  ASSUME TypeOK, LookedUp, [Next]_vars
  PROVE  handler' \in [Handlers -> HandlerStates]
<1>1. ASSUME NEW h \in Handlers, NEW a \in Accounts,
             RegisterReader(h, a)
      PROVE  handler' \in [Handlers -> HandlerStates]
  <2>1. account'[a] = FreshAccount /\ a \in Accounts
    BY <1>1 DEF RegisterReader, Create, TypeOK, LookedUp, Accounts
  <2>2. handler' = [handler EXCEPT ![h] = [at |-> "verified", account |-> a,
                   version |-> FreshAccount.version, proof |-> FreshAccount.gen]]
    BY <1>1, <2>1 DEF RegisterReader, Create, Verified, FirstVersion,
       FreshAccount
  <2>3. [at |-> "verified", account |-> a, version |-> FreshAccount.version,
        proof |-> FreshAccount.gen] \in HandlerStates
    BY <2>1, NewRow, VerifiedRow
  <2> QED
    BY <2>2, <2>3 DEF TypeOK
<1>2. ASSUME NEW h \in Handlers, NEW a \in Accounts,
             LookUpAffiliate(h, a)
      PROVE  handler' \in [Handlers -> HandlerStates]
  BY <1>2, LookedUpRow DEF LookUpAffiliate, TypeOK, Accounts
<1>3. ASSUME NEW h \in Handlers, NEW a \in Accounts,
             LoginReader(h, a) \/ LoginAffiliate(h, a) \/ adminLogin(h, a)
      PROVE  handler' \in [Handlers -> HandlerStates]
  BY <1>3, AccountRow, VerifiedRow DEF LoginReader, LoginAffiliate,
     adminLogin, Check, Verified, TypeOK, Accounts
<1>4. ASSUME NEW h \in Handlers,
             CreateAffiliate(h)
      PROVE  handler' \in [Handlers -> HandlerStates]
  <2>1. account'[handler[h].account] = FreshAccount /\ handler[h].account \in Accounts
    BY <1>4 DEF CreateAffiliate, Create, TypeOK, LookedUp,
       Accounts
  <2>2. handler' = [handler EXCEPT ![h] = [at |-> "verified", account |-> handler[h].account,
                   version |-> FreshAccount.version, proof |-> FreshAccount.gen]]
    BY <1>4, <2>1 DEF CreateAffiliate, Create, Verified, FirstVersion,
       FreshAccount
  <2>3. [at |-> "verified", account |-> handler[h].account, version |-> FreshAccount.version,
        proof |-> FreshAccount.gen] \in HandlerStates
    BY <2>1, NewRow, VerifiedRow
  <2> QED
    BY <2>2, <2>3 DEF TypeOK
<1>5. ASSUME NEW h \in Handlers,
             AffiliateExists(h) \/ Refuse(h) \/ Fail(h)
      PROVE  handler' \in [Handlers -> HandlerStates]
  <2>1. handler[h] \in HandlerStates
    BY <1>5 DEF TypeOK
  <2>2. [handler[h] EXCEPT !.at = "failed"] \in HandlerStates
    BY <2>1, HandlerRow
  <2> QED
    BY <1>5, <2>2 DEF AffiliateExists, Refuse, Fail, TypeOK
<1>6. ASSUME NEW h \in Handlers, NEW t \in Tokens,
             issueSession(h, t) \/ SetSession(h, t)
      PROVE  handler' \in [Handlers -> HandlerStates]
  <2>1. handler[h].at = "verified" /\ handler[h] \in HandlerStates
    BY <1>6 DEF issueSession, SetSession, Store, TypeOK
  <2>2. [handler[h] EXCEPT !.at = "done"] \in HandlerStates
    BY <2>1, HandlerRow
  <2> QED
    BY <1>6, <2>2 DEF issueSession, SetSession, Store, TypeOK
<1>7. ASSUME NEW t \in Tokens,
             Expire(t)
      PROVE  handler' \in [Handlers -> HandlerStates]
  BY <1>7 DEF Expire, TypeOK, Accounts
<1>8. ASSUME NEW t \in Tokens,
             logoutReader(t) \/ affiliateLogout(t) \/ adminLogout(t)
      PROVE  handler' \in [Handlers -> HandlerStates]
  BY <1>8 DEF logoutReader, affiliateLogout, adminLogout, End, TypeOK,
     Accounts
<1>9. ASSUME NEW q \in Requests, NEW t \in Tokens,
             FindAccountBySession(q, t) \/ GetSession(q, t)
      PROVE  handler' \in [Handlers -> HandlerStates]
  BY <1>9 DEF FindAccountBySession, GetSession, Begin, TypeOK, Accounts
<1>10. ASSUME NEW q \in Requests,
             TouchSession(q)
      PROVE  handler' \in [Handlers -> HandlerStates]
  BY <1>10 DEF TouchSession, InProgress, Allow, TypeOK, Accounts
<1>11. ASSUME NEW q \in Requests,
             requireAdmin(q) \/ requireAffiliate(q)
      PROVE  handler' \in [Handlers -> HandlerStates]
  BY <1>11 DEF requireAdmin, requireAffiliate, InProgress, Allow, TypeOK,
     Accounts
<1>12. ASSUME NEW q \in Requests,
             RefuseAffiliate(q)
      PROVE  handler' \in [Handlers -> HandlerStates]
  BY <1>12 DEF RefuseAffiliate, InProgress, TypeOK, Accounts
<1>13. ASSUME NEW q \in Requests,
             Finish(q)
      PROVE  handler' \in [Handlers -> HandlerStates]
  BY <1>13 DEF Finish, TypeOK, Accounts
<1>14. ASSUME NEW a \in Accounts,
             ResetPassword(a)
      PROVE  handler' \in [Handlers -> HandlerStates]
  BY <1>14 DEF ResetPassword, Change, NextVersion, TypeOK, Accounts
<1>15. ASSUME NEW a \in Accounts,
             UpdateAffiliatePassword(a)
      PROVE  handler' \in [Handlers -> HandlerStates]
  BY <1>15 DEF UpdateAffiliatePassword, Change, NextVersion, TypeOK,
     Accounts
<1>16. ASSUME NEW a \in Accounts, NEW active \in BOOLEAN,
             UpdateAffiliateStatus(a, active)
      PROVE  handler' \in [Handlers -> HandlerStates]
  BY <1>16 DEF UpdateAffiliateStatus, Change, NextVersion, TypeOK, Accounts
<1>17. ASSUME UNCHANGED vars
      PROVE  handler' \in [Handlers -> HandlerStates]
  BY <1>17 DEF vars, TypeOK, Accounts
<1> QED
  BY <1>1, <1>2, <1>3, <1>4, <1>5, <1>6, <1>7, <1>8, <1>9, <1>10, <1>11,
     <1>12, <1>13, <1>14, <1>15, <1>16, <1>17
  DEF Next

(* Every step keeps the types of requests. *)
LEMMA RequestTypes ==
  ASSUME TypeOK, [Next]_vars
  PROVE  request' \in [Requests -> RequestStates]
<1>1. ASSUME NEW h \in Handlers, NEW a \in Accounts,
             RegisterReader(h, a)
      PROVE  request' \in [Requests -> RequestStates]
  BY <1>1 DEF RegisterReader, Create, Verified, TypeOK
<1>2. ASSUME NEW h \in Handlers, NEW a \in Accounts,
             LookUpAffiliate(h, a)
      PROVE  request' \in [Requests -> RequestStates]
  BY <1>2 DEF LookUpAffiliate, TypeOK
<1>3. ASSUME NEW h \in Handlers, NEW a \in Accounts,
             LoginReader(h, a) \/ LoginAffiliate(h, a) \/ adminLogin(h, a)
      PROVE  request' \in [Requests -> RequestStates]
  BY <1>3 DEF LoginReader, LoginAffiliate, adminLogin, Check, Verified,
     TypeOK
<1>4. ASSUME NEW h \in Handlers,
             CreateAffiliate(h)
      PROVE  request' \in [Requests -> RequestStates]
  BY <1>4 DEF CreateAffiliate, Create, Verified, TypeOK
<1>5. ASSUME NEW h \in Handlers,
             AffiliateExists(h) \/ Refuse(h) \/ Fail(h)
      PROVE  request' \in [Requests -> RequestStates]
  BY <1>5 DEF AffiliateExists, Refuse, Fail, TypeOK
<1>6. ASSUME NEW h \in Handlers, NEW t \in Tokens,
             issueSession(h, t) \/ SetSession(h, t)
      PROVE  request' \in [Requests -> RequestStates]
  BY <1>6 DEF issueSession, SetSession, Store, VersionRead, TypeOK
<1>7. ASSUME NEW t \in Tokens,
             Expire(t)
      PROVE  request' \in [Requests -> RequestStates]
  BY <1>7 DEF Expire, TypeOK
<1>8. ASSUME NEW t \in Tokens,
             logoutReader(t) \/ affiliateLogout(t) \/ adminLogout(t)
      PROVE  request' \in [Requests -> RequestStates]
  BY <1>8 DEF logoutReader, affiliateLogout, adminLogout, End, TypeOK
<1>9. ASSUME NEW q \in Requests, NEW t \in Tokens,
             FindAccountBySession(q, t) \/ GetSession(q, t)
      PROVE  request' \in [Requests -> RequestStates]
  BY <1>9, ReadRow DEF FindAccountBySession, GetSession, Begin, TypeOK
<1>10. ASSUME NEW q \in Requests,
             TouchSession(q)
      PROVE  request' \in [Requests -> RequestStates]
  BY <1>10, RequestRow DEF TouchSession, InProgress, Allow, TypeOK
<1>11. ASSUME NEW q \in Requests,
             requireAdmin(q) \/ requireAffiliate(q)
      PROVE  request' \in [Requests -> RequestStates]
  BY <1>11, RequestRow DEF requireAdmin, requireAffiliate, InProgress,
     Allow, TypeOK
<1>12. ASSUME NEW q \in Requests,
             RefuseAffiliate(q)
      PROVE  request' \in [Requests -> RequestStates]
  BY <1>12, ReadRow DEF RefuseAffiliate, InProgress, TypeOK
<1>13. ASSUME NEW q \in Requests,
             Finish(q)
      PROVE  request' \in [Requests -> RequestStates]
  BY <1>13, ReadRow DEF Finish, TypeOK
<1>14. ASSUME NEW a \in Accounts,
             ResetPassword(a)
      PROVE  request' \in [Requests -> RequestStates]
  BY <1>14 DEF ResetPassword, Change, NextVersion, TypeOK
<1>15. ASSUME NEW a \in Accounts,
             UpdateAffiliatePassword(a)
      PROVE  request' \in [Requests -> RequestStates]
  BY <1>15 DEF UpdateAffiliatePassword, Change, NextVersion, TypeOK
<1>16. ASSUME NEW a \in Accounts, NEW active \in BOOLEAN,
             UpdateAffiliateStatus(a, active)
      PROVE  request' \in [Requests -> RequestStates]
  BY <1>16 DEF UpdateAffiliateStatus, Change, NextVersion, TypeOK
<1>17. ASSUME UNCHANGED vars
      PROVE  request' \in [Requests -> RequestStates]
  BY <1>17 DEF vars, TypeOK
<1> QED
  BY <1>1, <1>2, <1>3, <1>4, <1>5, <1>6, <1>7, <1>8, <1>9, <1>10, <1>11,
     <1>12, <1>13, <1>14, <1>15, <1>16, <1>17
  DEF Next

(***************************************************************************)
(* What a step may do to each variable                                     *)
(***************************************************************************)

(* An account is kept, created, or changed by the administrator of others. *)
AccountStep(a) ==
    \/ account'[a] = account[a]
    \/ ~account[a].exists /\ account'[a] = FreshAccount
    \/ /\ a \notin Admins /\ account[a].exists
       /\ account'[a].gen = account[a].gen + 1
       /\ account'[a].version = account[a].version + 1

(* A session keeps what it was opened with, or is a handler's new one.     *)
SessionStep(t) ==
    \/ /\ sess'[t].account = sess[t].account
       /\ sess'[t].version = sess[t].version
       /\ sess'[t].proof = sess[t].proof
    \/ \E h \in Handlers :
          /\ sess[t] = NoSession /\ handler[h].at = "verified"
          /\ sess'[t].account = handler[h].account
          /\ sess'[t].version = handler[h].version
          /\ sess'[t].proof = handler[h].proof

(* A handler waits for an affiliate's row, or goes on with a proof of the  *)
(* account as it is.                                                       *)
HandlerStep(h) ==
    \/ handler'[h] = handler[h]
    \/ handler'[h].at \in {"failed", "done"}
    \/ handler'[h].at = "unknown" /\ handler'[h].account \in Affiliates
    \/ \E a \in Accounts :
          /\ account'[a].active
          /\ handler'[h] = [at |-> "verified", account |-> a,
                            version |-> account'[a].version, proof |-> account'[a].gen]

(* The session is an affiliate's and not the current one. *)
Stale(t) ==
    /\ sess[t].account \in Affiliates
    /\ account[sess[t].account].active => sess[t].version # account[sess[t].account].version

(* A request reads a session, and is let in on one that was valid when it  *)
(* was read, or is current now.                                            *)
RequestStep(q) ==
    \/ request'[q] = request[q] \/ request'[q] = NoRequest
    \/ /\ request'[q].at = "read" /\ Opened(request'[q].token)
       /\ request'[q].valid \/ Stale(request'[q].token)
    \/ /\ request[q].at = "read"
       /\ request'[q] = [request[q] EXCEPT !.at = "allowed"]
       /\ \/ sess[request[q].token].account \notin Affiliates
          \/ /\ account[sess[request[q].token].account].active
             /\ sess[request[q].token].version = account[sess[request[q].token].account].version

(* Every step does to accounts what AccountStep says. *)
LEMMA AccountSteps ==
  ASSUME TypeOK, AdminsFixed, [Next]_vars
  PROVE  \A x \in Accounts : AccountStep(x)
<1>1. ASSUME NEW h \in Handlers, NEW a \in Accounts,
             RegisterReader(h, a)
      PROVE  \A x \in Accounts : AccountStep(x)
  BY <1>1 DEF RegisterReader, Create, Verified, TypeOK, Accounts,
     AdminsFixed, AccountStep
<1>2. ASSUME NEW h \in Handlers, NEW a \in Accounts,
             LookUpAffiliate(h, a)
      PROVE  \A x \in Accounts : AccountStep(x)
  BY <1>2 DEF LookUpAffiliate, TypeOK, Accounts, AdminsFixed, AccountStep
<1>3. ASSUME NEW h \in Handlers, NEW a \in Accounts,
             LoginReader(h, a) \/ LoginAffiliate(h, a) \/ adminLogin(h, a)
      PROVE  \A x \in Accounts : AccountStep(x)
  BY <1>3 DEF LoginReader, LoginAffiliate, adminLogin, Check, Verified,
     TypeOK, Accounts, AdminsFixed, AccountStep
<1>4. ASSUME NEW h \in Handlers,
             CreateAffiliate(h)
      PROVE  \A x \in Accounts : AccountStep(x)
  BY <1>4 DEF CreateAffiliate, Create, Verified, TypeOK, Accounts,
     AdminsFixed, AccountStep
<1>5. ASSUME NEW h \in Handlers,
             AffiliateExists(h) \/ Refuse(h) \/ Fail(h)
      PROVE  \A x \in Accounts : AccountStep(x)
  BY <1>5 DEF AffiliateExists, Refuse, Fail, TypeOK, Accounts, AdminsFixed,
     AccountStep
<1>6. ASSUME NEW h \in Handlers, NEW t \in Tokens,
             issueSession(h, t) \/ SetSession(h, t)
      PROVE  \A x \in Accounts : AccountStep(x)
  BY <1>6 DEF issueSession, SetSession, Store, VersionRead, TypeOK,
     Accounts, AdminsFixed, AccountStep
<1>7. ASSUME NEW t \in Tokens,
             Expire(t)
      PROVE  \A x \in Accounts : AccountStep(x)
  BY <1>7 DEF Expire, TypeOK, Accounts, AdminsFixed, AccountStep
<1>8. ASSUME NEW t \in Tokens,
             logoutReader(t) \/ affiliateLogout(t) \/ adminLogout(t)
      PROVE  \A x \in Accounts : AccountStep(x)
  BY <1>8 DEF logoutReader, affiliateLogout, adminLogout, End, TypeOK,
     Accounts, AdminsFixed, AccountStep
<1>9. ASSUME NEW q \in Requests, NEW t \in Tokens,
             FindAccountBySession(q, t) \/ GetSession(q, t)
      PROVE  \A x \in Accounts : AccountStep(x)
  BY <1>9 DEF FindAccountBySession, GetSession, Begin, TypeOK, Accounts,
     AdminsFixed, AccountStep
<1>10. ASSUME NEW q \in Requests,
             TouchSession(q)
      PROVE  \A x \in Accounts : AccountStep(x)
  BY <1>10 DEF TouchSession, InProgress, Allow, TypeOK, Accounts,
     AdminsFixed, AccountStep
<1>11. ASSUME NEW q \in Requests,
             requireAdmin(q) \/ requireAffiliate(q)
      PROVE  \A x \in Accounts : AccountStep(x)
  BY <1>11 DEF requireAdmin, requireAffiliate, InProgress, Allow, TypeOK,
     Accounts, AdminsFixed, AccountStep
<1>12. ASSUME NEW q \in Requests,
             RefuseAffiliate(q)
      PROVE  \A x \in Accounts : AccountStep(x)
  BY <1>12 DEF RefuseAffiliate, InProgress, TypeOK, Accounts, AdminsFixed,
     AccountStep
<1>13. ASSUME NEW q \in Requests,
             Finish(q)
      PROVE  \A x \in Accounts : AccountStep(x)
  BY <1>13 DEF Finish, TypeOK, Accounts, AdminsFixed, AccountStep
<1>14. ASSUME NEW a \in Accounts,
             ResetPassword(a)
      PROVE  \A x \in Accounts : AccountStep(x)
  BY <1>14, AccountSessionsAssumption DEF ResetPassword, Change,
     NextVersion, TypeOK, Accounts, AdminsFixed, AccountStep
<1>15. ASSUME NEW a \in Accounts,
             UpdateAffiliatePassword(a)
      PROVE  \A x \in Accounts : AccountStep(x)
  BY <1>15, AccountSessionsAssumption DEF UpdateAffiliatePassword, Change,
     NextVersion, TypeOK, Accounts, AdminsFixed, AccountStep
<1>16. ASSUME NEW a \in Accounts, NEW active \in BOOLEAN,
             UpdateAffiliateStatus(a, active)
      PROVE  \A x \in Accounts : AccountStep(x)
  BY <1>16, AccountSessionsAssumption DEF UpdateAffiliateStatus, Change,
     NextVersion, TypeOK, Accounts, AdminsFixed, AccountStep
<1>17. ASSUME UNCHANGED vars
      PROVE  \A x \in Accounts : AccountStep(x)
  BY <1>17 DEF vars, TypeOK, Accounts, AdminsFixed, AccountStep
<1> QED
  BY <1>1, <1>2, <1>3, <1>4, <1>5, <1>6, <1>7, <1>8, <1>9, <1>10, <1>11,
     <1>12, <1>13, <1>14, <1>15, <1>16, <1>17
  DEF Next

(* Every step does to sessions what SessionStep says. *)
LEMMA SessionSteps ==
  ASSUME TypeOK, [Next]_vars
  PROVE  \A x \in Tokens : SessionStep(x)
<1>1. ASSUME NEW h \in Handlers, NEW a \in Accounts,
             RegisterReader(h, a)
      PROVE  \A x \in Tokens : SessionStep(x)
  BY <1>1 DEF RegisterReader, Create, Verified, TypeOK, SessionStep
<1>2. ASSUME NEW h \in Handlers, NEW a \in Accounts,
             LookUpAffiliate(h, a)
      PROVE  \A x \in Tokens : SessionStep(x)
  BY <1>2 DEF LookUpAffiliate, TypeOK, SessionStep
<1>3. ASSUME NEW h \in Handlers, NEW a \in Accounts,
             LoginReader(h, a) \/ LoginAffiliate(h, a) \/ adminLogin(h, a)
      PROVE  \A x \in Tokens : SessionStep(x)
  BY <1>3 DEF LoginReader, LoginAffiliate, adminLogin, Check, Verified,
     TypeOK, SessionStep
<1>4. ASSUME NEW h \in Handlers,
             CreateAffiliate(h)
      PROVE  \A x \in Tokens : SessionStep(x)
  BY <1>4 DEF CreateAffiliate, Create, Verified, TypeOK, SessionStep
<1>5. ASSUME NEW h \in Handlers,
             AffiliateExists(h) \/ Refuse(h) \/ Fail(h)
      PROVE  \A x \in Tokens : SessionStep(x)
  BY <1>5 DEF AffiliateExists, Refuse, Fail, TypeOK, SessionStep
<1>6. ASSUME NEW h \in Handlers, NEW t \in Tokens,
             issueSession(h, t) \/ SetSession(h, t)
      PROVE  \A x \in Tokens : SessionStep(x)
  BY <1>6 DEF issueSession, SetSession, Store, VersionRead, TypeOK,
     SessionStep
<1>7. ASSUME NEW t \in Tokens,
             Expire(t)
      PROVE  \A x \in Tokens : SessionStep(x)
  BY <1>7 DEF Expire, TypeOK, SessionStep
<1>8. ASSUME NEW t \in Tokens,
             logoutReader(t) \/ affiliateLogout(t) \/ adminLogout(t)
      PROVE  \A x \in Tokens : SessionStep(x)
  <2>1. sess' = [sess EXCEPT ![t].ended = TRUE]
    BY <1>8 DEF logoutReader, affiliateLogout, adminLogout, End
  <2> QED
    BY <2>1 DEF TypeOK, SessionStep
<1>9. ASSUME NEW q \in Requests, NEW t \in Tokens,
             FindAccountBySession(q, t) \/ GetSession(q, t)
      PROVE  \A x \in Tokens : SessionStep(x)
  BY <1>9 DEF FindAccountBySession, GetSession, Begin, TypeOK, SessionStep
<1>10. ASSUME NEW q \in Requests,
             TouchSession(q)
      PROVE  \A x \in Tokens : SessionStep(x)
  BY <1>10 DEF TouchSession, InProgress, Allow, TypeOK, SessionStep
<1>11. ASSUME NEW q \in Requests,
             requireAdmin(q) \/ requireAffiliate(q)
      PROVE  \A x \in Tokens : SessionStep(x)
  BY <1>11 DEF requireAdmin, requireAffiliate, InProgress, Allow, TypeOK,
     SessionStep
<1>12. ASSUME NEW q \in Requests,
             RefuseAffiliate(q)
      PROVE  \A x \in Tokens : SessionStep(x)
  <2>1. CASE sess' = sess
    BY <2>1 DEF SessionStep
  <2>2. CASE sess' = [sess EXCEPT ![request[q].token].ended = TRUE]
    BY <2>2 DEF TypeOK, SessionStep
  <2> QED
    BY <1>12, <2>1, <2>2 DEF RefuseAffiliate
<1>13. ASSUME NEW q \in Requests,
             Finish(q)
      PROVE  \A x \in Tokens : SessionStep(x)
  BY <1>13 DEF Finish, TypeOK, SessionStep
<1>14. ASSUME NEW a \in Accounts,
             ResetPassword(a)
      PROVE  \A x \in Tokens : SessionStep(x)
  BY <1>14 DEF ResetPassword, Change, NextVersion, TypeOK, SessionStep
<1>15. ASSUME NEW a \in Accounts,
             UpdateAffiliatePassword(a)
      PROVE  \A x \in Tokens : SessionStep(x)
  BY <1>15 DEF UpdateAffiliatePassword, Change, NextVersion, TypeOK,
     SessionStep
<1>16. ASSUME NEW a \in Accounts, NEW active \in BOOLEAN,
             UpdateAffiliateStatus(a, active)
      PROVE  \A x \in Tokens : SessionStep(x)
  BY <1>16 DEF UpdateAffiliateStatus, Change, NextVersion, TypeOK,
     SessionStep
<1>17. ASSUME UNCHANGED vars
      PROVE  \A x \in Tokens : SessionStep(x)
  BY <1>17 DEF vars, TypeOK, SessionStep
<1> QED
  BY <1>1, <1>2, <1>3, <1>4, <1>5, <1>6, <1>7, <1>8, <1>9, <1>10, <1>11,
     <1>12, <1>13, <1>14, <1>15, <1>16, <1>17
  DEF Next

(* Every step does to handlers what HandlerStep says. *)
LEMMA HandlerSteps ==
  ASSUME TypeOK, VersionsCount, LookedUp, [Next]_vars
  PROVE  \A x \in Handlers : HandlerStep(x)
<1>1. ASSUME NEW h \in Handlers, NEW a \in Accounts,
             RegisterReader(h, a)
      PROVE  \A x \in Handlers : HandlerStep(x)
  <2>1. account'[a] = FreshAccount /\ a \in Accounts
    BY <1>1 DEF RegisterReader, Create, TypeOK, LookedUp, Accounts
  <2>2. account'[a].active /\ account'[a].version = 1
    BY <2>1 DEF FreshAccount
  <2>3. handler' = [handler EXCEPT ![h] = [at |-> "verified", account |-> a,
                   version |-> 1, proof |-> account'[a].gen]]
    BY <1>1 DEF RegisterReader, Create, Verified, FirstVersion
  <2> QED
    BY <2>1, <2>2, <2>3 DEF TypeOK, HandlerStep
<1>2. ASSUME NEW h \in Handlers, NEW a \in Accounts,
             LookUpAffiliate(h, a)
      PROVE  \A x \in Handlers : HandlerStep(x)
  BY <1>2 DEF LookUpAffiliate, TypeOK, Accounts, VersionsCount, LookedUp,
     HandlerStep
<1>3. ASSUME NEW h \in Handlers, NEW a \in Accounts,
             LoginReader(h, a) \/ LoginAffiliate(h, a) \/ adminLogin(h, a)
      PROVE  \A x \in Handlers : HandlerStep(x)
  BY <1>3 DEF LoginReader, LoginAffiliate, adminLogin, Check, Verified,
     TypeOK, Accounts, VersionsCount, LookedUp, HandlerStep
<1>4. ASSUME NEW h \in Handlers,
             CreateAffiliate(h)
      PROVE  \A x \in Handlers : HandlerStep(x)
  <2>1. account'[handler[h].account] = FreshAccount /\ handler[h].account \in Accounts
    BY <1>4 DEF CreateAffiliate, Create, TypeOK, LookedUp, Accounts
  <2>2. account'[handler[h].account].active /\ account'[handler[h].account].version = 1
    BY <2>1 DEF FreshAccount
  <2>3. handler' = [handler EXCEPT ![h] = [at |-> "verified", account |-> handler[h].account,
                   version |-> 1, proof |-> account'[handler[h].account].gen]]
    BY <1>4 DEF CreateAffiliate, Create, Verified, FirstVersion
  <2> QED
    BY <2>1, <2>2, <2>3 DEF TypeOK, HandlerStep
<1>5. ASSUME NEW h \in Handlers,
             AffiliateExists(h) \/ Refuse(h) \/ Fail(h)
      PROVE  \A x \in Handlers : HandlerStep(x)
  <2>1. handler[h] \in HandlerStates
    BY <1>5 DEF TypeOK
  <2>2. [handler[h] EXCEPT !.at = "failed"].at = "failed"
    BY <2>1 DEF HandlerStates
  <2> QED
    BY <1>5, <2>2 DEF AffiliateExists, Refuse, Fail, TypeOK, HandlerStep
<1>6. ASSUME NEW h \in Handlers, NEW t \in Tokens,
             issueSession(h, t) \/ SetSession(h, t)
      PROVE  \A x \in Handlers : HandlerStep(x)
  <2>1. handler[h] \in HandlerStates
    BY <1>6 DEF TypeOK
  <2>2. [handler[h] EXCEPT !.at = "done"].at = "done"
    BY <2>1 DEF HandlerStates
  <2> QED
    BY <1>6, <2>2 DEF issueSession, SetSession, Store, TypeOK, HandlerStep
<1>7. ASSUME NEW t \in Tokens,
             Expire(t)
      PROVE  \A x \in Handlers : HandlerStep(x)
  BY <1>7 DEF Expire, TypeOK, Accounts, VersionsCount, LookedUp, HandlerStep
<1>8. ASSUME NEW t \in Tokens,
             logoutReader(t) \/ affiliateLogout(t) \/ adminLogout(t)
      PROVE  \A x \in Handlers : HandlerStep(x)
  BY <1>8 DEF logoutReader, affiliateLogout, adminLogout, End, TypeOK,
     Accounts, VersionsCount, LookedUp, HandlerStep
<1>9. ASSUME NEW q \in Requests, NEW t \in Tokens,
             FindAccountBySession(q, t) \/ GetSession(q, t)
      PROVE  \A x \in Handlers : HandlerStep(x)
  BY <1>9 DEF FindAccountBySession, GetSession, Begin, TypeOK, Accounts,
     VersionsCount, LookedUp, HandlerStep
<1>10. ASSUME NEW q \in Requests,
             TouchSession(q)
      PROVE  \A x \in Handlers : HandlerStep(x)
  BY <1>10 DEF TouchSession, InProgress, Allow, TypeOK, Accounts,
     VersionsCount, LookedUp, HandlerStep
<1>11. ASSUME NEW q \in Requests,
             requireAdmin(q) \/ requireAffiliate(q)
      PROVE  \A x \in Handlers : HandlerStep(x)
  BY <1>11 DEF requireAdmin, requireAffiliate, InProgress, Allow, TypeOK,
     Accounts, VersionsCount, LookedUp, HandlerStep
<1>12. ASSUME NEW q \in Requests,
             RefuseAffiliate(q)
      PROVE  \A x \in Handlers : HandlerStep(x)
  BY <1>12 DEF RefuseAffiliate, InProgress, TypeOK, Accounts, VersionsCount,
     LookedUp, HandlerStep
<1>13. ASSUME NEW q \in Requests,
             Finish(q)
      PROVE  \A x \in Handlers : HandlerStep(x)
  BY <1>13 DEF Finish, TypeOK, Accounts, VersionsCount, LookedUp,
     HandlerStep
<1>14. ASSUME NEW a \in Accounts,
             ResetPassword(a)
      PROVE  \A x \in Handlers : HandlerStep(x)
  BY <1>14 DEF ResetPassword, Change, NextVersion, TypeOK, Accounts,
     VersionsCount, LookedUp, HandlerStep
<1>15. ASSUME NEW a \in Accounts,
             UpdateAffiliatePassword(a)
      PROVE  \A x \in Handlers : HandlerStep(x)
  BY <1>15 DEF UpdateAffiliatePassword, Change, NextVersion, TypeOK,
     Accounts, VersionsCount, LookedUp, HandlerStep
<1>16. ASSUME NEW a \in Accounts, NEW active \in BOOLEAN,
             UpdateAffiliateStatus(a, active)
      PROVE  \A x \in Handlers : HandlerStep(x)
  BY <1>16 DEF UpdateAffiliateStatus, Change, NextVersion, TypeOK, Accounts,
     VersionsCount, LookedUp, HandlerStep
<1>17. ASSUME UNCHANGED vars
      PROVE  \A x \in Handlers : HandlerStep(x)
  BY <1>17 DEF vars, TypeOK, Accounts, VersionsCount, LookedUp, HandlerStep
<1> QED
  BY <1>1, <1>2, <1>3, <1>4, <1>5, <1>6, <1>7, <1>8, <1>9, <1>10, <1>11,
     <1>12, <1>13, <1>14, <1>15, <1>16, <1>17
  DEF Next

(* Every step does to requests what RequestStep says. *)
LEMMA RequestSteps ==
  ASSUME TypeOK, [Next]_vars
  PROVE  \A x \in Requests : RequestStep(x)
<1>1. ASSUME NEW h \in Handlers, NEW a \in Accounts,
             RegisterReader(h, a)
      PROVE  \A x \in Requests : RequestStep(x)
  BY <1>1 DEF RegisterReader, Create, Verified, TypeOK, RequestStep
<1>2. ASSUME NEW h \in Handlers, NEW a \in Accounts,
             LookUpAffiliate(h, a)
      PROVE  \A x \in Requests : RequestStep(x)
  BY <1>2 DEF LookUpAffiliate, TypeOK, RequestStep
<1>3. ASSUME NEW h \in Handlers, NEW a \in Accounts,
             LoginReader(h, a) \/ LoginAffiliate(h, a) \/ adminLogin(h, a)
      PROVE  \A x \in Requests : RequestStep(x)
  BY <1>3 DEF LoginReader, LoginAffiliate, adminLogin, Check, Verified,
     TypeOK, RequestStep
<1>4. ASSUME NEW h \in Handlers,
             CreateAffiliate(h)
      PROVE  \A x \in Requests : RequestStep(x)
  BY <1>4 DEF CreateAffiliate, Create, Verified, TypeOK, RequestStep
<1>5. ASSUME NEW h \in Handlers,
             AffiliateExists(h) \/ Refuse(h) \/ Fail(h)
      PROVE  \A x \in Requests : RequestStep(x)
  BY <1>5 DEF AffiliateExists, Refuse, Fail, TypeOK, RequestStep
<1>6. ASSUME NEW h \in Handlers, NEW t \in Tokens,
             issueSession(h, t) \/ SetSession(h, t)
      PROVE  \A x \in Requests : RequestStep(x)
  BY <1>6 DEF issueSession, SetSession, Store, VersionRead, TypeOK,
     RequestStep
<1>7. ASSUME NEW t \in Tokens,
             Expire(t)
      PROVE  \A x \in Requests : RequestStep(x)
  BY <1>7 DEF Expire, TypeOK, RequestStep
<1>8. ASSUME NEW t \in Tokens,
             logoutReader(t) \/ affiliateLogout(t) \/ adminLogout(t)
      PROVE  \A x \in Requests : RequestStep(x)
  BY <1>8 DEF logoutReader, affiliateLogout, adminLogout, End, TypeOK,
     RequestStep
<1>9. ASSUME NEW q \in Requests, NEW t \in Tokens,
             FindAccountBySession(q, t) \/ GetSession(q, t)
      PROVE  \A x \in Requests : RequestStep(x)
  <2>1. Present(t)
    BY <1>9 DEF FindAccountBySession, GetSession, Valid
  <2>2. Opened(t) /\ sess[t].account \in Accounts
    BY <2>1, SessionRow DEF Present, Opened, TypeOK
  <2>3. request' = [request EXCEPT ![q] = [at |-> "read", token |-> t, valid |-> Valid(t)]]
    BY <1>9 DEF FindAccountBySession, GetSession, Begin
  <2>4. request'[q].at = "read" /\ request'[q].token = t
    BY <2>3 DEF TypeOK
  <2>5. CASE Valid(t)
    <3>1. request'[q].valid
      BY <2>3, <2>5 DEF TypeOK
    <3> QED
      BY <2>2, <2>3, <2>4, <3>1 DEF RequestStep, Opened, TypeOK
  <2>6. CASE ~Valid(t)
    <3>1. sess[t].account \notin Readers
      BY <1>9, <2>6 DEF FindAccountBySession, GetSession
    <3>2. sess[t].account \notin Admins
      BY <2>1, <2>6 DEF Valid
    <3>3. sess[t].account \in Affiliates
      BY <2>2, <3>1, <3>2 DEF Accounts
    <3>4. ~Current(t)
      BY <2>1, <2>6 DEF Valid
    <3>5. Stale(t)
      BY <3>3, <3>4 DEF Stale, Current
    <3> QED
      BY <2>2, <2>3, <2>4, <3>5 DEF RequestStep, Opened, Stale, TypeOK
  <2> QED
    BY <2>5, <2>6
<1>10. ASSUME NEW q \in Requests,
             TouchSession(q)
      PROVE  \A x \in Requests : RequestStep(x)
  <2>1. request[q].at = "read" /\ sess[request[q].token].account \notin Affiliates
    BY <1>10, AccountSessionsAssumption DEF TouchSession, InProgress
  <2> QED
    BY <1>10, <2>1 DEF TouchSession, Allow, TypeOK, RequestStep
<1>11. ASSUME NEW q \in Requests,
             requireAdmin(q) \/ requireAffiliate(q)
      PROVE  \A x \in Requests : RequestStep(x)
  <2>1. /\ request[q].at = "read"
       /\ \/ sess[request[q].token].account \notin Affiliates
          \/ /\ account[sess[request[q].token].account].active
             /\ sess[request[q].token].version = account[sess[request[q].token].account].version
    BY <1>11, AccountSessionsAssumption DEF Current,  requireAdmin,
       requireAffiliate, InProgress
  <2> QED
    BY <1>11, <2>1 DEF requireAdmin, requireAffiliate, Allow, TypeOK,
       RequestStep
<1>12. ASSUME NEW q \in Requests,
             RefuseAffiliate(q)
      PROVE  \A x \in Requests : RequestStep(x)
  BY <1>12 DEF RefuseAffiliate, InProgress, TypeOK, RequestStep
<1>13. ASSUME NEW q \in Requests,
             Finish(q)
      PROVE  \A x \in Requests : RequestStep(x)
  BY <1>13 DEF Finish, TypeOK, RequestStep
<1>14. ASSUME NEW a \in Accounts,
             ResetPassword(a)
      PROVE  \A x \in Requests : RequestStep(x)
  BY <1>14 DEF ResetPassword, Change, NextVersion, TypeOK, RequestStep
<1>15. ASSUME NEW a \in Accounts,
             UpdateAffiliatePassword(a)
      PROVE  \A x \in Requests : RequestStep(x)
  BY <1>15 DEF UpdateAffiliatePassword, Change, NextVersion, TypeOK,
     RequestStep
<1>16. ASSUME NEW a \in Accounts, NEW active \in BOOLEAN,
             UpdateAffiliateStatus(a, active)
      PROVE  \A x \in Requests : RequestStep(x)
  BY <1>16 DEF UpdateAffiliateStatus, Change, NextVersion, TypeOK,
     RequestStep
<1>17. ASSUME UNCHANGED vars
      PROVE  \A x \in Requests : RequestStep(x)
  BY <1>17 DEF vars, TypeOK, RequestStep
<1> QED
  BY <1>1, <1>2, <1>3, <1>4, <1>5, <1>6, <1>7, <1>8, <1>9, <1>10, <1>11,
     <1>12, <1>13, <1>14, <1>15, <1>16, <1>17
  DEF Next

(***************************************************************************)
(* The inductive invariant                                                 *)
(***************************************************************************)

(* Nothing but the administrator is there at first. *)
LEMMA InitIInv == Init => IInv
<1> SUFFICES ASSUME Init PROVE IInv
  OBVIOUS
<1>1. account \in [Accounts -> AccountRows] /\ \A a \in Admins : account[a] = FreshAccount
  BY NewRow DEF Init, AccountRows, Accounts
<1>2. VersionsCount
  BY DEF Init, VersionsCount, FreshAccount, NoAccount
<1>3. sess \in [Tokens -> SessionRows] /\ SessionsVouched
  BY DEF Init, SessionRows, SessionsVouched, Opened
<1>4. handler \in [Handlers -> HandlerStates] /\ HandlersVouched /\ LookedUp
  BY DEF Init, HandlerStates, Idle, HandlersVouched, LookedUp
<1>5. request \in [Requests -> RequestStates] /\ RequestsRead
  BY DEF Init, RequestStates, NoRequest, RequestsRead
<1> QED
  BY <1>1, <1>2, <1>3, <1>4, <1>5 DEF IInv, TypeOK, AdminsFixed

(* Every step keeps all types. *)
LEMMA TypeStep ==
  ASSUME TypeOK, VersionsCount, LookedUp, [Next]_vars
  PROVE  TypeOK'
BY AccountTypes, SessionTypes, HandlerTypes, RequestTypes DEF TypeOK

(* Changes raise both counters, and never those of an administrator. *)
LEMMA AccountInv ==
  ASSUME TypeOK, VersionsCount, AdminsFixed, [Next]_vars
  PROVE  VersionsCount' /\ AdminsFixed'
<1>1. \A a \in Accounts : AccountStep(a)
  BY AccountSteps
<1>2. VersionsCount'
  BY <1>1 DEF VersionsCount, AccountStep, FreshAccount
<1>3. AdminsFixed'
  BY <1>1 DEF AdminsFixed, AccountStep, Accounts, FreshAccount
<1> QED
  BY <1>2, <1>3

(* Who is vouched for stays so: an account only moves ahead. *)
LEMMA VouchedStays ==
  ASSUME TypeOK, NEW a \in Accounts, AccountStep(a), NEW p \in Generations,
         p <= account[a].gen, p = account[a].gen => account[a].active
  PROVE  /\ p <= account'[a].gen
         /\ p = account'[a].gen => account'[a].active
<1>1. account[a] \in AccountRows /\ p \in Int /\ p >= 1
  BY DEF TypeOK, Generations
<1>2. account[a].gen \in Int /\ account[a].exists
  BY <1>1, AccountRow DEF NoAccount
<1> QED
  BY <1>1, <1>2 DEF AccountStep

(* A session is vouched for by the login that stores it, and stays so. *)
LEMMA SessionsInv ==
  ASSUME TypeOK, TypeOK', AdminsFixed, SessionsVouched, HandlersVouched, [Next]_vars
  PROVE  SessionsVouched'
<1> SUFFICES ASSUME NEW t \in Tokens, sess'[t] # NoSession
             PROVE  Vouched(sess[t])'
  BY DEF SessionsVouched, Opened
<1>1. \A a \in Accounts : AccountStep(a)
  BY AccountSteps
<1>2. sess'[t].account \in Accounts /\ sess'[t].proof \in Generations
  BY SessionRow DEF TypeOK
<1>3. /\ sess'[t].version = sess'[t].proof
      /\ sess'[t].proof <= account[sess'[t].account].gen
      /\ sess'[t].proof = account[sess'[t].account].gen => account[sess'[t].account].active
  <2>1. SessionStep(t)
    BY SessionSteps
  <2>2. CASE /\ sess'[t].account = sess[t].account
             /\ sess'[t].version = sess[t].version
             /\ sess'[t].proof = sess[t].proof
    <3>1. sess[t] # NoSession
      BY <1>2, <2>2, SessionRow DEF TypeOK
    <3> QED
      BY <2>2, <3>1 DEF SessionsVouched, Opened, Vouched
  <2>3. CASE \E h \in Handlers :
               /\ handler[h].at = "verified"
               /\ sess'[t].account = handler[h].account
               /\ sess'[t].version = handler[h].version
               /\ sess'[t].proof = handler[h].proof
    BY <2>3 DEF HandlersVouched, Vouched
  <2> QED
    BY <2>1, <2>2, <2>3 DEF SessionStep
<1> QED
  BY <1>1, <1>2, <1>3, VouchedStays DEF Vouched

(* A login is vouched for by the row it read, and stays so. *)
LEMMA HandlersInv ==
  ASSUME TypeOK, TypeOK', VersionsCount, AdminsFixed, LookedUp, HandlersVouched, [Next]_vars
  PROVE  HandlersVouched' /\ LookedUp'
<1>1. \A a \in Accounts : AccountStep(a)
  BY AccountSteps
<1>2. VersionsCount'
  BY AccountInv
<1>3. ASSUME NEW h \in Handlers, handler'[h].at = "verified"
      PROVE  Vouched(handler[h])'
  <2>1. handler'[h].account \in Accounts /\ handler'[h].proof \in Generations
    BY <1>3, HandlerRow DEF TypeOK
  <2>2. HandlerStep(h)
    BY HandlerSteps
  <2>3. CASE handler'[h] = handler[h]
    <3>1. Vouched(handler[h])
      BY <1>3, <2>3 DEF HandlersVouched
    <3> QED
      BY <1>1, <2>1, <2>3, <3>1, VouchedStays DEF Vouched
  <2>4. CASE \E a \in Accounts :
               /\ account'[a].active
               /\ handler'[h] = [at |-> "verified", account |-> a,
                                 version |-> account'[a].version, proof |-> account'[a].gen]
    <3>1. PICK a \in Accounts :
            /\ account'[a].active
            /\ handler'[h] = [at |-> "verified", account |-> a,
                              version |-> account'[a].version, proof |-> account'[a].gen]
      BY <2>4
    <3>2. account'[a].gen \in Int /\ account'[a].version = account'[a].gen
      BY <1>2, AccountRow DEF TypeOK, VersionsCount
    <3> QED
      BY <3>1, <3>2 DEF Vouched
  <2> QED
    BY <1>3, <2>2, <2>3, <2>4 DEF HandlerStep
<1>4. LookedUp'
  <2> SUFFICES ASSUME NEW h \in Handlers, handler'[h].at = "unknown"
               PROVE  handler'[h].account \in Affiliates
    BY DEF LookedUp
  <2>1. HandlerStep(h)
    BY HandlerSteps
  <2>2. CASE handler'[h] = handler[h]
    BY <2>2 DEF LookedUp
  <2>3. ASSUME NEW a \in Accounts,
               handler'[h] = [at |-> "verified", account |-> a,
                              version |-> account'[a].version, proof |-> account'[a].gen]
        PROVE  FALSE
    <3>1. handler'[h].at = "verified"
      BY <2>3
    <3> QED
      BY <3>1
  <2> QED
    BY <2>1, <2>2, <2>3 DEF HandlerStep
<1> QED
  BY <1>3, <1>4 DEF HandlersVouched

(* A session that is behind stays behind; what is let in was valid, or is  *)
(* current now and so was when it was read.                                *)
LEMMA RequestsInv ==
  ASSUME TypeOK, TypeOK', VersionsCount, AdminsFixed, SessionsVouched, RequestsRead, [Next]_vars
  PROVE  RequestsRead'
<1>1. \A a \in Accounts : AccountStep(a)
  BY AccountSteps
<1>2. ASSUME NEW t \in Tokens, sess[t] # NoSession
      PROVE  sess'[t] # NoSession /\ (Behind(t) => Behind(t)')
  <2>1. sess'[t].account = sess[t].account /\ sess'[t].version = sess[t].version
    BY <1>2, SessionSteps DEF SessionStep
  <2>2. /\ sess[t].account \in Accounts /\ sess[t].version \in Int
        /\ sess'[t] # NoSession
    BY <1>2, <2>1, SessionRow DEF TypeOK, Generations
  <2>3. account[sess[t].account].version \in Int
    BY <2>2, AccountRow DEF TypeOK
  <2>4. AccountStep(sess[t].account)
    BY <1>1, <2>2
  <2>5. ASSUME Behind(t) PROVE Behind(t)'
    <3>1. account[sess[t].account].exists
      BY <1>2, <2>5, <2>2, AccountRow, SessionRow DEF Behind, TypeOK, NoAccount, Generations
    <3> QED
      BY <2>1, <2>2, <2>3, <2>4, <2>5, <3>1 DEF Behind, AccountStep
  <2> QED
    BY <2>2, <2>5
<1> SUFFICES ASSUME NEW q \in Requests, request'[q].at # "idle"
             PROVE  /\ sess'[request'[q].token] # NoSession
                    /\ ~request'[q].valid => request'[q].at = "read" /\ Behind(request[q].token)'
  BY DEF RequestsRead, Opened
<1>3. RequestStep(q)
  BY RequestSteps
<1>4. CASE request'[q] = request[q]
  <2>1. request[q].token \in Tokens
    BY <1>4, RequestRow DEF TypeOK
  <2>2. /\ sess[request[q].token] # NoSession
        /\ ~request[q].valid => request[q].at = "read" /\ Behind(request[q].token)
    BY <1>4 DEF RequestsRead, Opened
  <2>3. Behind(request[q].token) => Behind(request[q].token)'
    BY <1>2, <1>4, <2>1, <2>2 DEF Behind
  <2> QED
    BY <1>2, <1>4, <2>1, <2>2, <2>3
<1>5. CASE request'[q] = NoRequest
  BY <1>5 DEF NoRequest
<1>6. CASE /\ request'[q].at = "read" /\ Opened(request'[q].token)
           /\ request'[q].valid \/ Stale(request'[q].token)
  <2> DEFINE t == request'[q].token
  <2>1. t \in Tokens /\ sess[t] # NoSession
    BY <1>6, RequestRow DEF TypeOK, Opened
  <2>2. ASSUME ~request'[q].valid PROVE Behind(t)
    <3>1. Stale(t) /\ Vouched(sess[t])
      BY <1>6, <2>1, <2>2 DEF SessionsVouched, Opened
    <3>2. sess[t].account \in Accounts /\ sess[t].proof \in Int
      BY <2>1, SessionRow DEF TypeOK, Generations
    <3>3. account[sess[t].account].gen \in Int
      BY <3>2, AccountRow DEF TypeOK
    <3>4. account[sess[t].account].version = account[sess[t].account].gen
      BY <3>2 DEF VersionsCount
    <3> QED
      BY <3>1, <3>2, <3>3, <3>4 DEF Stale, Vouched, Behind
  <2>3. sess'[t] # NoSession /\ (Behind(t) => Behind(request[q].token)')
    BY <1>2, <2>1 DEF Behind
  <2> QED
    BY <1>6, <2>2, <2>3
<1>7. CASE /\ request[q].at = "read"
           /\ request'[q] = [request[q] EXCEPT !.at = "allowed"]
           /\ \/ sess[request[q].token].account \notin Affiliates
              \/ /\ account[sess[request[q].token].account].active
                 /\ sess[request[q].token].version = account[sess[request[q].token].account].version
  <2>1. request[q].token \in Tokens /\ request'[q].token = request[q].token
    BY <1>7, RequestRow DEF TypeOK, RequestStates
  <2>2. sess[request[q].token] # NoSession
    BY <1>7 DEF RequestsRead, Opened
  <2>3. ~Behind(request[q].token)
    <3>1. sess[request[q].token].account \in Accounts /\ sess[request[q].token].version \in Int
      BY <2>1, <2>2, SessionRow DEF TypeOK, Generations
    <3> QED
      BY <1>7, <3>1 DEF Behind
  <2>4. request[q].valid
    BY <1>7, <2>3 DEF RequestsRead
  <2>5. request'[q].valid
    BY <1>7, <2>4 DEF TypeOK, RequestStates
  <2> QED
    BY <1>2, <2>1, <2>2, <2>5
<1> QED
  BY <1>3, <1>4, <1>5, <1>6, <1>7 DEF RequestStep

(***************************************************************************)
(* Theorems                                                                *)
(***************************************************************************)

(* The invariant holds in every reachable state. *)
THEOREM Invariance == Spec => []IInv
<1>1. IInv /\ [Next]_vars => IInv'
  <2> SUFFICES ASSUME IInv, [Next]_vars PROVE IInv'
    OBVIOUS
  <2>1. TypeOK'
    BY TypeStep DEF IInv
  <2> QED
    BY <2>1, AccountInv, SessionsInv, HandlersInv, RequestsInv DEF IInv
<1> QED
  BY <1>1, InitIInv, PTL DEF Spec

(* Accounts, sessions and requests stay in the states the code gives them, *)
(* for any accounts, tokens, handlers and bounds.                          *)
THEOREM TypeCorrect == Spec => []TypeOK
BY Invariance, PTL DEF IInv

(* A session that was not ended is valid exactly while no change of the    *)
(* account came after the read its password was checked with, for readers, *)
(* affiliates and administrators, whatever is reset between the statements.*)
THEOREM ValidWhileCurrent == Spec => []ValidIffCurrentPassword
<1>1. IInv => ValidIffCurrentPassword
  <2> SUFFICES ASSUME IInv, NEW t \in Tokens, Present(t)
               PROVE  Valid(t) <=> sess[t].proof = account[sess[t].account].gen
    BY DEF ValidIffCurrentPassword
  <2> DEFINE a == sess[t].account
  <2>1. /\ a \in Accounts /\ sess[t].proof \in Generations
        /\ Vouched(sess[t]) /\ account[a].version = account[a].gen
    BY SessionRow DEF IInv, TypeOK, SessionsVouched, VersionsCount, Present, Opened
  <2>2. CASE a \in Admins
    <3>1. account[a].gen = 1 /\ sess[t].proof \in Int /\ sess[t].proof >= 1
      BY <2>1, <2>2 DEF IInv, AdminsFixed, FreshAccount, Generations
    <3>2. sess[t].proof = account[a].gen
      BY <2>1, <3>1 DEF Vouched
    <3> QED
      BY <2>2, <3>2 DEF Valid
  <2>3. CASE a \notin Admins
    BY <2>1, <2>3 DEF Valid, Current, Vouched
  <2> QED
    BY <2>2, <2>3
<1> QED
  BY <1>1, Invariance, PTL

(* A request is let in only on a session that was valid when it was read,  *)
(* whatever happens to session and account between the two reads.          *)
THEOREM LetInOnValid == Spec => []AllowedWasValid
<1>1. IInv => AllowedWasValid
  BY DEF IInv, RequestsRead, AllowedWasValid
<1> QED
  BY <1>1, Invariance, PTL
=============================================================================
