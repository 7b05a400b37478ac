------------------------- MODULE TokenService_proofs -------------------------
(***************************************************************************)
(* Proofs about TokenService for every value of its constants: type        *)
(* correctness, the integrity of the token tables, that a blacklisted      *)
(* token stays refused, that an access token outlives its refresh token    *)
(* only briefly, and that a changed password shuts access tokens out.      *)
(*                                                                         *)
(* The safety proof rests on one inductive invariant, Inv, whose parts     *)
(* relate the history of tokens handed out with the tables (RowsInv), the  *)
(* requests in flight with both (ReqInv), and the blacklist with what was  *)
(* revoked (RevokedInv).                                                   *)
(***************************************************************************)
EXTENDS TokenService, TokenTables_proofs

-----------------------------------------------------------------------------
(* Type correctness. *)

\* A token request's stage tells which fields it has.
LEMMA TokenRequestShape ==
  ASSUME NEW r \in TokenRequests
  PROVE  /\ r.pc = "issue" =>
              r \in [pc : {"issue"}, user : UserIds, salt : Nat]
         /\ r.pc \in {"check", "outstand", "respond"} =>
              r \in [pc : {"check", "outstand", "respond"},
                     op : {"refresh", "blacklist"}, grant : Grants,
                     time : Times]
         /\ r.pc = "blacklist" =>
              r \in [pc : {"blacklist"}, op : {"refresh", "blacklist"},
                     grant : Grants, time : Times, row : Nat]
BY DEF TokenRequests, Idle

\* The operations of tokens.py make well-formed claims.
LEMMA ClaimsType ==
  /\ \A u, salt, t \in Nat, j \in Jtis : for_user(u, salt, t, j) \in Claims
  /\ \A c \in Claims, t \in Nat, j \in Jtis :
       access_token(c, t, j) \in Claims /\ rotated(c, t, j) \in Claims
<1>1. \A salt \in Nat : RevokeClaim(salt) \in HashClaims
  BY DEF RevokeClaim, PasswordHash, NoHash, HashClaims
<1>2. \A t \in Nat : RefreshExp(t) \in Nat /\ AccessExp(t) \in Nat
  BY LifetimesAssumption DEF RefreshExp, AccessExp
<1>3. \A u, salt, t \in Nat, j \in Jtis : for_user(u, salt, t, j) \in Claims
  BY <1>1, <1>2 DEF for_user, Claims, Times
<1>4. \A c \in Claims, t \in Nat, j \in Jtis :
        access_token(c, t, j) \in Claims /\ rotated(c, t, j) \in Claims
  BY <1>2 DEF access_token, rotated, Claims, Times
<1> QED BY <1>3, <1>4

\* The service starts well typed.
LEMMA TypeInit == Init => TypeOK
BY TablesTypeInit DEF Init, TypeOK, TokenRequests

\* Every stage of a token request keeps the types.
LEMMA TypeTokenStep ==
  ASSUME TypeOK, NEW w \in TokenWorkers, TokenStep(w)
  PROVE  TypeOK'
<1> USE DEF TypeOK, TablesTypeOK
<1>1. accountVars' = accountVars => AccountsTypeOK'
  BY DEF accountVars, AccountsTypeOK, Exists
<1>2. \A r \in TokenRequests : [req EXCEPT ![w] = r]
                                 \in [TokenWorkers -> TokenRequests]
  OBVIOUS
<1>3. Idle \in TokenRequests
  BY DEF TokenRequests
<1>4. jtis + 1 \in Jtis /\ jtis + 2 \in Jtis /\ rows + 1 \in Nat
  BY DEF Jtis
<1>5. CASE LoginAuthenticate(w)
  <2>1. PICK u \in UserIds :
          /\ Exists(u)
          /\ req' = [req EXCEPT ![w] =
               [pc |-> "issue", user |-> u, salt |-> users[u].password.salt]]
    BY <1>5 DEF LoginAuthenticate, authenticate
  <2>2. users[u].password.salt \in Nat
    BY <2>1 DEF AccountsTypeOK, UserRows, StoredPasswords, Exists
  <2>3. [pc |-> "issue", user |-> u, salt |-> users[u].password.salt]
          \in TokenRequests
    BY <2>2 DEF TokenRequests
  <2> QED BY <1>1, <1>2, <1>5, <2>1, <2>3 DEF LoginAuthenticate, tableVars, history
<1>6. CASE LoginIssue(w)
  <2> DEFINE r == req[w]
             refresh == for_user(r.user, LoginSalt(r), now, jtis + 1)
             access == access_token(refresh, now, jtis + 2)
  <2>1. r.user \in UserIds /\ r.salt \in Nat
    BY <1>6, TokenRequestShape DEF LoginIssue
  <2>2. r.user \in Nat /\ LoginSalt(r) \in Nat
    BY <2>1, AccountsAssumption DEF UserIds, LoginSalt
  <2>3. refresh \in Claims
    BY <2>2, <1>4, ClaimsType DEF Times
  <2>4. access \in Claims
    BY <2>3, <1>4, ClaimsType DEF Times
  <2>5. [id |-> rows + 1, jti |-> refresh.jti, user |-> r.user,
         expires_at |-> refresh.exp] \in Rows
    BY <2>2, <2>3, <1>4 DEF Rows, Claims
  <2>6. /\ [token |-> refresh, parent |-> NoId, login |-> r.salt] \in Grants
        /\ [token |-> access, parent |-> refresh.jti, login |-> r.salt]
             \in Grants
    BY <2>1, <2>3, <2>4 DEF Grants, NoId, Claims, Jtis
  <2>7. outstanding' \subseteq Rows /\ grants' \subseteq Grants
    BY <1>6, <2>5, <2>6 DEF LoginIssue, Insert
  <2>8. req' \in [TokenWorkers -> TokenRequests]
    BY <1>6, <1>2, <1>3 DEF LoginIssue, Finish
  <2>9. rows' \in Nat /\ jtis' \in Nat
    BY <1>6 DEF LoginIssue, Insert
  <2>10. AccountsTypeOK' /\ UNCHANGED <<now, blacklisted, revoked>>
    BY <1>1, <1>6 DEF LoginIssue, history
  <2> QED BY <2>7, <2>8, <2>9, <2>10
<1>7. CASE TokenBegin(w)
  <2>1. PICK g \in grants, op \in {"refresh", "blacklist"} :
          req' = [req EXCEPT ![w] =
            [pc |-> "check", op |-> op, grant |-> g, time |-> now]]
    BY <1>7 DEF TokenBegin
  <2>2. [pc |-> "check", op |-> op, grant |-> g, time |-> now]
          \in TokenRequests
    BY DEF TokenRequests
  <2> QED BY <1>1, <1>2, <1>7, <2>1, <2>2 DEF TokenBegin, tableVars, history
<1>8. CASE TokenAdmit(w)
  <2>1. [req[w] EXCEPT !.pc = NextStage(req[w].op)] \in TokenRequests
    <3>1. req[w] \in [pc : {"check", "outstand", "respond"},
                      op : {"refresh", "blacklist"}, grant : Grants,
                      time : Times]
      BY <1>8, TokenRequestShape DEF TokenAdmit
    <3>2. NextStage(req[w].op) \in {"outstand", "respond"}
      BY DEF NextStage
    <3> QED BY <3>1, <3>2 DEF TokenRequests
  <2>2. req' = [req EXCEPT ![w] = [req[w] EXCEPT !.pc = NextStage(req[w].op)]]
    BY <1>8 DEF TokenAdmit
  <2> QED BY <1>1, <1>2, <1>8, <2>1, <2>2 DEF TokenAdmit, tableVars, history
<1>9. CASE TokenReject(w)
  BY <1>1, <1>2, <1>3, <1>9 DEF TokenReject, Finish, tableVars, history
<1>10. CASE TokenOutstand(w)
  <2>1. req[w].op \in {"refresh", "blacklist"} /\ req[w].grant \in Grants
        /\ req[w].time \in Times /\ req[w].grant.token \in Claims
    BY <1>10, TokenRequestShape DEF TokenOutstand, Grants
  <2>2. \A id \in Nat : [pc |-> "blacklist", op |-> req[w].op,
                         grant |-> req[w].grant, time |-> req[w].time,
                         row |-> id] \in TokenRequests
    BY <2>1 DEF TokenRequests
  <2>3. \A r \in outstanding : r.id \in Nat
    BY DEF Rows
  <2>4. req' \in [TokenWorkers -> TokenRequests]
    BY <1>10, <1>2, <1>4, <2>2, <2>3 DEF TokenOutstand
  <2>5. [id |-> rows + 1, jti |-> req[w].grant.token.jti, user |-> NoId,
         expires_at |-> req[w].grant.token.exp] \in Rows
    BY <2>1 DEF Rows, NoId, Claims
  <2>6. outstanding' \subseteq Rows /\ rows' \in Nat
    BY <1>10, <1>4, <2>5 DEF TokenOutstand, Insert
  <2> QED BY <1>1, <1>10, <2>4, <2>6 DEF TokenOutstand, history
<1>11. CASE TokenBlacklist(w)
  <2>1. /\ req[w].row \in Nat
        /\ req[w].grant \in Grants
        /\ req[w].time \in Times
        /\ req[w].grant.token.jti \in Jtis
    BY <1>11, TokenRequestShape DEF TokenBlacklist, Grants, Claims
  <2>2. [pc |-> "respond", op |-> "refresh", grant |-> req[w].grant,
         time |-> req[w].time] \in TokenRequests
    BY <2>1 DEF TokenRequests
  <2>3. req' \in [TokenWorkers -> TokenRequests]
    BY <1>11, <1>2, <1>3, <2>2 DEF TokenBlacklist, Finish
  <2>4. blacklisted' \subseteq Nat /\ revoked' \subseteq Jtis
    BY <1>11, <2>1 DEF TokenBlacklist
  <2> QED BY <1>1, <1>11, <2>3, <2>4 DEF TokenBlacklist
<1>12. CASE RefreshRespond(w)
  <2> DEFINE g == req[w].grant
             access == access_token(g.token, MintTime(req[w]), jtis + 1)
             next == rotated(g.token, MintTime(req[w]), jtis + 2)
             Child(t) == [token |-> t, parent |-> g.token.jti,
                          login |-> g.login]
  <2>1. g \in Grants /\ MintTime(req[w]) \in Nat
    BY <1>12, TokenRequestShape DEF RefreshRespond, MintTime, Times
  <2>2. g.token \in Claims /\ g.token.jti \in Nat /\ g.login \in Nat
    BY <2>1 DEF Grants, Claims, Jtis
  <2>3. access \in Claims /\ next \in Claims
    BY <2>1, <2>2, <1>4, ClaimsType
  <2>4. Child(access) \in Grants /\ Child(next) \in Grants
    BY <2>2, <2>3 DEF Grants
  <2>5. grants' \subseteq Grants /\ jtis' \in Nat
    <3>1. \/ grants' = grants \cup {Child(access), Child(next)}
          \/ grants' = grants \cup {Child(access)}
      BY <1>12 DEF RefreshRespond
    <3>2. jtis' \in Nat
      BY <1>12 DEF RefreshRespond
    <3> QED BY <2>4, <3>1, <3>2
  <2>6. req' \in [TokenWorkers -> TokenRequests]
    BY <1>12, <1>2, <1>3 DEF RefreshRespond, Finish
  <2> QED BY <1>1, <1>12, <2>5, <2>6 DEF RefreshRespond, history
<1>13. CASE TokenAbort(w)
  BY <1>1, <1>2, <1>3, <1>13 DEF TokenAbort, Finish, tableVars, history
<1> QED
  BY <1>5, <1>6, <1>7, <1>8, <1>9, <1>10, <1>11, <1>12, <1>13 DEF TokenStep

\* So do the flush command, the admin, deletions, account requests, the clock.
LEMMA TypeOtherStep ==
  ASSUME TypeOK, UNCHANGED <<req, grants>>,
         \/ TablesStep
         \/ \E w \in AccountWorkers : AccountStep(w)
         \/ UNCHANGED vars
  PROVE  TypeOK'
<1>1. TablesTypeOK'
  BY TablesTypeStep DEF vars, TypeOK
<1> QED BY <1>1 DEF TypeOK

\* Every table, request and token of the service keeps its declared shape, for
\* every number of workers and users, every lifetime and every setting.
THEOREM TypeCorrect == Spec => []TypeOK
<1>1. TypeOK /\ [Next]_vars => TypeOK'
  BY TypeTokenStep, TypeOtherStep DEF Next, vars
<1> QED BY TypeInit, <1>1, PTL DEF Spec

-----------------------------------------------------------------------------
(* The inductive invariant. *)

\* A jti names one token, and only jtis handed out are in use.
GrantsInv ==
  /\ \A g \in grants : g.token.jti <= jtis /\ g.parent <= jtis
  /\ \A g, h \in grants : g.token.jti = h.token.jti => g = h

\* An outstanding row says the truth about the token it is for.
RowsInv ==
  /\ \A r \in outstanding : r.id <= rows /\ r.jti <= jtis
  /\ \A r \in outstanding, g \in grants :
       r.jti = g.token.jti =>
         /\ r.expires_at = g.token.exp
         /\ r.user \in {NoId, g.token.user_id}

\* A request in flight is about a token that was handed out; past the check,
\* about a refresh token that was good when the request captured the time;
\* the row it holds, if still there, is that token's.
ReqInv ==
  \A w \in TokenWorkers :
    /\ req[w].pc \in {"check", "outstand", "blacklist", "respond"} =>
         req[w].grant \in grants
    /\ req[w].pc \in {"outstand", "blacklist", "respond"} =>
         /\ check_exp(req[w].grant.token, req[w].time)
         /\ req[w].grant.token.token_type = "refresh"
    /\ req[w].pc = "blacklist" =>
         /\ req[w].row <= rows
         /\ \A r \in outstanding :
              r.id = req[w].row => r.jti = req[w].grant.token.jti

\* A revoked token is one that was handed out or will never be, and while
\* it could still be used its blacklist entry stands.
RevokedInv ==
  /\ \A j \in revoked : j <= jtis
  /\ \A g \in grants :
       (g.token.jti \in revoked /\ g.token.exp > now
          /\ g.token.user_id \notin deleted)
         => IsBlacklisted(g.token.jti)

\* Tokens carry the revocation claim of the login they descend from.
HashInv ==
  \A g \in grants : g.token.hash_password = RevokeClaim(g.login)

Inv ==
  /\ TypeOK
  /\ GrantsInv
  /\ RowsInv
  /\ DBIntegrity
  /\ ReqInv
  /\ RevokedInv
  /\ AccessOutlivesRefreshBriefly
  /\ HashInv

\* The service starts with nothing handed out.
LEMMA InvInit == Init => Inv
<1> SUFFICES ASSUME Init PROVE Inv
  OBVIOUS
<1>1. TypeOK
  BY TypeInit
<1> QED
  BY <1>1
  DEF Inv, Init, TablesInit, AccountsInit, Idle, GrantsInv, RowsInv, DBIntegrity, ReqInv, RevokedInv,
      AccessOutlivesRefreshBriefly, HashInv

\* What is known of a request is still so after a step that leaves it alone,
\* adds tokens and adds or removes rows, new rows under new ids.
LEMMA ReqStable ==
  ASSUME Inv, grants \subseteq grants', rows' \in Nat, rows <= rows',
         \A r \in outstanding' : r \in outstanding \/ r.id > rows,
         NEW v \in TokenWorkers, req'[v] = req[v]
  PROVE  /\ req'[v].pc \in {"check", "outstand", "blacklist", "respond"} =>
              req'[v].grant \in grants'
         /\ req'[v].pc \in {"outstand", "blacklist", "respond"} =>
              /\ check_exp(req'[v].grant.token, req'[v].time)
              /\ req'[v].grant.token.token_type = "refresh"
         /\ req'[v].pc = "blacklist" =>
              /\ req'[v].row <= rows'
              /\ \A r \in outstanding' :
                   r.id = req'[v].row => r.jti = req'[v].grant.token.jti
<1> DEFINE q == req[v]
<1>1. q.pc = "blacklist" => q.row \in Nat
  BY TokenRequestShape DEF Inv, TypeOK, TablesTypeOK
<1>2. rows \in Nat /\ \A r \in outstanding : r \in Rows
  BY DEF Inv, TypeOK, TablesTypeOK
<1>3. ASSUME q.pc = "blacklist"
      PROVE  /\ q.row <= rows'
             /\ \A r \in outstanding' :
                  r.id = q.row => r.jti = q.grant.token.jti
  <2>1. q.row <= rows /\ q.row \in Nat
    BY <1>1, <1>3 DEF Inv, ReqInv
  <2>2. q.row <= rows'
    BY <2>1, <1>2
  <2>3. ASSUME NEW r \in outstanding', r.id = q.row
        PROVE  r.jti = q.grant.token.jti
    <3>1. r \in outstanding
      BY <2>1, <2>3, <1>2
    <3> QED BY <3>1, <2>3, <1>3 DEF Inv, ReqInv
  <2> QED BY <2>2, <2>3
<1> QED BY <1>3 DEF Inv, ReqInv

\* Stages that change only the request, and the steps that change only
\* accounts (no deletion) or the clock.
LEMMA InvQuiet ==
  ASSUME Inv, [Next]_vars,
         UNCHANGED <<outstanding, blacklisted, rows, jtis, grants, revoked,
                     restored, deleted>>,
         now' \in Nat, now <= now', ReqInv'
  PROVE  Inv'
<1>1. TypeOK'
  BY TypeTokenStep, TypeOtherStep DEF Next, vars, Inv
<1>2. GrantsInv' /\ RowsInv' /\ DBIntegrity' /\ HashInv'
      /\ AccessOutlivesRefreshBriefly'
  BY DEF Inv, GrantsInv, RowsInv, DBIntegrity, HashInv,
         AccessOutlivesRefreshBriefly
<1>3. RevokedInv'
  <2>1. \A g \in grants : g.token.exp \in Nat
    BY DEF Inv, TypeOK, TablesTypeOK, Grants, Claims, Times
  <2>2. now \in Nat
    BY DEF Inv, TypeOK, TablesTypeOK, Times
  <2>3. \A g \in grants : g.token.exp > now' => g.token.exp > now
    BY <2>1, <2>2
  <2> QED BY <2>3 DEF Inv, RevokedInv, IsBlacklisted
<1> QED BY <1>1, <1>2, <1>3 DEF Inv

\* Logins that authenticate, requests that begin, pass the check, are refused
\* or die change nothing but the request.
LEMMA InvReqOnly ==
  ASSUME Inv, NEW w \in TokenWorkers,
         \/ LoginAuthenticate(w) \/ TokenBegin(w) \/ TokenAdmit(w)
         \/ TokenReject(w) \/ TokenAbort(w)
  PROVE  Inv'
<1>1. /\ UNCHANGED <<outstanding, blacklisted, rows, jtis, grants, revoked,
                     restored, deleted>>
      /\ now' = now
  BY DEF LoginAuthenticate, TokenBegin, TokenAdmit, TokenReject, TokenAbort,
         accountVars, tableVars, history
<1>2. now \in Nat /\ rows \in Nat /\ req \in [TokenWorkers -> TokenRequests]
  BY DEF Inv, TypeOK, TablesTypeOK, Times
<1>3. ReqInv'
  <2>1. \A v \in TokenWorkers \ {w} : req'[v] = req[v]
    BY <1>2 DEF LoginAuthenticate, TokenBegin, TokenAdmit, TokenReject,
                TokenAbort, Finish
  <2>2. /\ req'[w].pc \in {"check", "outstand", "blacklist", "respond"} =>
             req'[w].grant \in grants'
        /\ req'[w].pc \in {"outstand", "blacklist", "respond"} =>
             /\ check_exp(req'[w].grant.token, req'[w].time)
             /\ req'[w].grant.token.token_type = "refresh"
        /\ req'[w].pc # "blacklist"
    <3>1. CASE LoginAuthenticate(w)
      BY <3>1, <1>2 DEF LoginAuthenticate
    <3>2. CASE TokenBegin(w)
      BY <3>2, <1>1, <1>2 DEF TokenBegin
    <3>3. CASE TokenAdmit(w)
      <4>1. req[w] \in [pc : {"check", "outstand", "respond"},
                        op : {"refresh", "blacklist"}, grant : Grants,
                        time : Times]
        BY <3>3, <1>2, TokenRequestShape DEF TokenAdmit
      <4>2. req'[w] = [req[w] EXCEPT !.pc = NextStage(req[w].op)]
        BY <3>3, <1>2 DEF TokenAdmit
      <4>3. /\ req'[w].pc = NextStage(req[w].op)
            /\ req'[w].grant = req[w].grant
            /\ req'[w].time = req[w].time
        BY <4>1, <4>2
      <4>4. req[w].grant \in grants
        BY <3>3 DEF TokenAdmit, Inv, ReqInv
      <4> QED BY <3>3, <4>3, <4>4, <1>1 DEF TokenAdmit, verify, NextStage
    <3>4. CASE TokenReject(w) \/ TokenAbort(w)
      BY <3>4, <1>2 DEF TokenReject, TokenAbort, Finish, Idle
    <3> QED BY <3>1, <3>2, <3>3, <3>4
  <2>3. /\ grants \subseteq grants' /\ rows' \in Nat /\ rows <= rows'
        /\ \A r \in outstanding' : r \in outstanding \/ r.id > rows
    BY <1>1, <1>2
  <2> QED BY <2>1, <2>2, <2>3, ReqStable DEF ReqInv
<1>4. Next
  BY DEF Next, TokenStep
<1> QED BY <1>1, <1>2, <1>3, <1>4, InvQuiet

\* Account requests and the clock touch no token table.
LEMMA InvAccountsAndClock ==
  ASSUME Inv,
         \/ \E w \in AccountWorkers :
              AccountStep(w) /\ UNCHANGED <<req, grants>>
         \/ Tick /\ UNCHANGED <<req, grants>>
         \/ UNCHANGED vars
  PROVE  Inv'
<1>1. UNCHANGED <<outstanding, blacklisted, rows, jtis, revoked, restored,
                  deleted>>
      /\ (now' = now \/ now' = now + 1)
  BY AccountStepKeepsTables DEF Tick, vars, accountVars, tableVars, history
<1>2. UNCHANGED <<req, grants>>
  BY DEF vars
<1>3. now \in Nat /\ now' \in Nat /\ now <= now'
  BY <1>1 DEF Inv, TypeOK, TablesTypeOK, Times
<1>4. ReqInv'
  BY <1>1, <1>2 DEF Inv, ReqInv
<1>5. [Next]_vars
  BY DEF Next, TablesStep
<1> QED BY <1>1, <1>2, <1>3, <1>4, <1>5, InvQuiet

\* Rows go, and their blacklist entries with them; none that a revocation
\* still needs.
LEMMA InvKeep ==
  ASSUME Inv, TypeOK', NEW kept \in SUBSET outstanding, Keep(kept),
         UNCHANGED <<now, rows, jtis, req, grants, revoked>>,
         deleted \subseteq deleted',
         \A r \in outstanding, g \in grants :
           (r.jti = g.token.jti /\ g.token.exp > now
              /\ g.token.user_id \notin deleted')
             => r \in kept
  PROVE  Inv'
<1>1. outstanding' = kept /\ blacklisted' = CascadeTo(kept)
  BY DEF Keep
<1>2. GrantsInv' /\ HashInv' /\ AccessOutlivesRefreshBriefly'
  BY DEF Inv, GrantsInv, HashInv, AccessOutlivesRefreshBriefly
<1>3. RowsInv'
  BY <1>1 DEF Inv, RowsInv
<1>4. DBIntegrity'
  BY <1>1 DEF Inv, DBIntegrity, CascadeTo
<1>5. ReqInv'
  BY <1>1 DEF Inv, ReqInv
<1>6. RevokedInv'
  <2>1. ASSUME NEW g \in grants, g.token.jti \in revoked, g.token.exp > now,
               g.token.user_id \notin deleted'
        PROVE  IsBlacklisted(g.token.jti)'
    <3>1. PICK r \in outstanding :
            r.jti = g.token.jti /\ r.id \in blacklisted
      BY <2>1 DEF Inv, RevokedInv, IsBlacklisted
    <3>2. r \in kept
      BY <2>1, <3>1
    <3> QED BY <3>1, <3>2, <1>1 DEF IsBlacklisted, CascadeTo
  <2> QED BY <2>1 DEF Inv, RevokedInv
<1> QED BY <1>2, <1>3, <1>4, <1>5, <1>6 DEF Inv

\* The flush command takes no row of an unexpired token.
LEMMA InvFlush ==
  ASSUME Inv, FlushExpiredTokens, UNCHANGED <<req, grants>>
  PROVE  Inv'
<1> DEFINE kept == {r \in outstanding : ~Flushable(r)}
<1>1. TypeOK'
  BY TypeOtherStep DEF Inv, TablesStep
<1>2. /\ Keep(kept)
      /\ UNCHANGED <<now, rows, jtis, req, grants, revoked, deleted>>
  BY DEF FlushExpiredTokens, accountVars, history
<1>3. ASSUME NEW r \in outstanding, NEW g \in grants,
             r.jti = g.token.jti, g.token.exp > now
      PROVE  r \in kept
  <2>1. r.expires_at = g.token.exp
    BY <1>3 DEF Inv, RowsInv
  <2>2. now \in Nat /\ g.token.exp \in Nat
    BY DEF Inv, TypeOK, TablesTypeOK, Grants, Claims, Times
  <2> QED BY <1>3, <2>1, <2>2 DEF Flushable
<1> HIDE DEF kept
<1>4. kept \in SUBSET outstanding
  BY DEF kept
<1> QED BY <1>1, <1>2, <1>3, <1>4, InvKeep

\* A deletion takes only rows of the user it deletes.
LEMMA InvDelete ==
  ASSUME Inv, NEW u \in UserIds, DeleteUserCascade(u),
         UNCHANGED <<req, grants>>
  PROVE  Inv'
<1> DEFINE kept == {r \in outstanding : r.user # u}
<1>1. TypeOK'
  BY TypeOtherStep DEF Inv, TablesStep
<1>2. /\ Keep(kept)
      /\ UNCHANGED <<now, rows, jtis, req, grants, revoked>>
      /\ deleted' = deleted \cup {u}
  BY DEF DeleteUserCascade, DeleteUser, history
<1>3. ASSUME NEW r \in outstanding, NEW g \in grants,
             r.jti = g.token.jti, g.token.user_id \notin deleted'
      PROVE  r \in kept
  <2>1. r.user \in {NoId, g.token.user_id}
    BY <1>3 DEF Inv, RowsInv
  <2>2. g.token.user_id # u /\ NoId # u
    BY <1>2, <1>3, AccountsAssumption DEF NoId, UserIds
  <2> QED BY <2>1, <2>2
<1> HIDE DEF kept
<1>4. kept \in SUBSET outstanding
  BY DEF kept
<1> QED BY <1>1, <1>2, <1>3, <1>4, InvKeep

\* An entry for an outstanding row is added to the blacklist.
LEMMA InvBlacklistRow ==
  ASSUME Inv, TypeOK', NEW r \in outstanding,
         blacklisted' = blacklisted \cup {r.id},
         revoked' = revoked \cup {r.jti},
         UNCHANGED <<now, outstanding, rows, jtis, grants, deleted>>,
         ReqInv'
  PROVE  Inv'
<1>1. GrantsInv' /\ RowsInv' /\ HashInv' /\ AccessOutlivesRefreshBriefly'
  BY DEF Inv, GrantsInv, RowsInv, HashInv, AccessOutlivesRefreshBriefly
<1>2. DBIntegrity'
  BY DEF Inv, DBIntegrity
<1>3. RevokedInv'
  <2>1. \A j \in revoked' : j <= jtis
    BY DEF Inv, RevokedInv, RowsInv
  <2>2. ASSUME NEW g \in grants, g.token.jti \in revoked', g.token.exp > now,
               g.token.user_id \notin deleted
        PROVE  IsBlacklisted(g.token.jti)'
    <3>1. CASE g.token.jti = r.jti
      BY <3>1 DEF IsBlacklisted
    <3>2. CASE g.token.jti \in revoked
      <4>1. IsBlacklisted(g.token.jti)
        BY <2>2, <3>2 DEF Inv, RevokedInv
      <4> QED BY <4>1 DEF IsBlacklisted
    <3> QED BY <2>2, <3>1, <3>2
  <2> QED BY <2>1, <2>2 DEF RevokedInv
<1> QED BY <1>1, <1>2, <1>3 DEF Inv

\* The admin blacklists a row.
LEMMA InvAdminBlacklist ==
  ASSUME Inv, AdminBlacklist, UNCHANGED <<req, grants>>
  PROVE  Inv'
<1>1. TypeOK'
  BY TypeOtherStep DEF Inv, TablesStep
<1>2. UNCHANGED <<now, outstanding, rows, jtis, grants, deleted, req>>
  BY DEF AdminBlacklist, accountVars
<1>3. ReqInv'
  BY <1>2 DEF Inv, ReqInv
<1>4. PICK r \in outstanding : /\ blacklisted' = blacklisted \cup {r.id}
                               /\ revoked' = revoked \cup {r.jti}
  BY DEF AdminBlacklist
<1> QED BY <1>1, <1>2, <1>3, <1>4, InvBlacklistRow

\* A token the admin restores is no longer revoked; its entry was no other's.
LEMMA InvAdminRestore ==
  ASSUME Inv, AdminRestore, UNCHANGED <<req, grants>>
  PROVE  Inv'
<1>1. TypeOK'
  BY TypeOtherStep DEF Inv, TablesStep
<1>2. UNCHANGED <<now, outstanding, rows, jtis, grants, deleted, req>>
  BY DEF AdminRestore, accountVars
<1>3. PICK r \in outstanding : /\ blacklisted' = blacklisted \ {r.id}
                               /\ revoked' = revoked \ {r.jti}
  BY DEF AdminRestore
<1>4. GrantsInv' /\ RowsInv' /\ HashInv' /\ AccessOutlivesRefreshBriefly'
  BY <1>2
  DEF Inv, GrantsInv, RowsInv, HashInv, AccessOutlivesRefreshBriefly
<1>5. DBIntegrity' /\ ReqInv'
  BY <1>2, <1>3 DEF Inv, DBIntegrity, ReqInv
<1>6. RevokedInv'
  <2>1. ASSUME NEW g \in grants, g.token.jti \in revoked', g.token.exp > now,
               g.token.user_id \notin deleted
        PROVE  IsBlacklisted(g.token.jti)'
    <3>1. PICK s \in outstanding :
            s.jti = g.token.jti /\ s.id \in blacklisted
      BY <2>1, <1>3 DEF Inv, RevokedInv, IsBlacklisted
    <3>2. s.id # r.id
      BY <2>1, <3>1, <1>3 DEF Inv, DBIntegrity
    <3> QED BY <3>1, <3>2, <1>2, <1>3 DEF IsBlacklisted
  <2> QED BY <2>1, <1>2, <1>3 DEF Inv, RevokedInv
<1> QED BY <1>1, <1>4, <1>5, <1>6 DEF Inv

\* The blacklist statement of a request: the row it holds is its token's.
LEMMA InvTokenBlacklist ==
  ASSUME Inv, NEW w \in TokenWorkers, TokenBlacklist(w)
  PROVE  Inv'
<1>1. TypeOK'
  BY TypeTokenStep DEF Inv, TokenStep
<1>2. UNCHANGED <<now, outstanding, rows, jtis, grants, deleted>>
  BY DEF TokenBlacklist, accountVars
<1>3. PICK r \in outstanding : r.id = req[w].row
  BY DEF TokenBlacklist
<1>4. r.jti = req[w].grant.token.jti
  BY <1>3 DEF TokenBlacklist, Inv, ReqInv
<1>5. /\ blacklisted' = blacklisted \cup {r.id}
      /\ revoked' = revoked \cup {r.jti}
  BY <1>3, <1>4 DEF TokenBlacklist
<1>6. req \in [TokenWorkers -> TokenRequests] /\ rows \in Nat
  BY DEF Inv, TypeOK, TablesTypeOK
<1>7. ReqInv'
  <2>1. \A v \in TokenWorkers \ {w} : req'[v] = req[v]
    BY <1>6 DEF TokenBlacklist, Finish
  <2>2. \/ req'[w] = Idle
        \/ /\ req'[w].pc = "respond"
           /\ req'[w].grant = req[w].grant
           /\ req'[w].time = req[w].time
    BY <1>6 DEF TokenBlacklist, Finish
  <2>3. /\ req'[w].pc \in {"check", "outstand", "blacklist", "respond"} =>
             req'[w].grant \in grants'
        /\ req'[w].pc \in {"outstand", "blacklist", "respond"} =>
             /\ check_exp(req'[w].grant.token, req'[w].time)
             /\ req'[w].grant.token.token_type = "refresh"
        /\ req'[w].pc # "blacklist"
    <3>1. CASE req'[w] = Idle
      BY <3>1 DEF Idle
    <3>2. CASE req'[w] # Idle
      BY <3>2, <2>2, <1>2 DEF Inv, ReqInv, TokenBlacklist
    <3> QED BY <3>1, <3>2
  <2>4. /\ grants \subseteq grants' /\ rows' \in Nat /\ rows <= rows'
        /\ \A s \in outstanding' : s \in outstanding \/ s.id > rows
    BY <1>2, <1>6
  <2> QED BY <2>1, <2>3, <2>4, ReqStable DEF ReqInv
<1> QED BY <1>1, <1>2, <1>5, <1>7, InvBlacklistRow

\* get_or_create of the outstanding row: a new row tells its token's exp.
LEMMA InvTokenOutstand ==
  ASSUME Inv, NEW w \in TokenWorkers, TokenOutstand(w)
  PROVE  Inv'
<1> DEFINE t == req[w].grant.token
           new == [id |-> rows + 1, jti |-> t.jti, user |-> NoId,
                   expires_at |-> t.exp]
<1>1. TypeOK'
  BY TypeTokenStep DEF Inv, TokenStep
<1>2. UNCHANGED <<now, blacklisted, jtis, grants, revoked, deleted>>
  BY DEF TokenOutstand, accountVars, history
<1>3. req[w].grant \in grants
  BY DEF TokenOutstand, Inv, ReqInv
<1>4. req \in [TokenWorkers -> TokenRequests] /\ rows \in Nat
      /\ \A r \in outstanding : r.id \in Nat
  BY DEF Inv, TypeOK, TablesTypeOK, Rows
<1>5. GrantsInv' /\ HashInv' /\ AccessOutlivesRefreshBriefly'
  BY <1>2 DEF Inv, GrantsInv, HashInv, AccessOutlivesRefreshBriefly
<1>6. CASE /\ UNCHANGED <<outstanding, rows>>
           /\ \E r \in outstanding :
                r.jti = t.jti /\ req'[w].pc = "blacklist"
                  /\ req'[w].row = r.id
  <2>1. RowsInv' /\ DBIntegrity' /\ RevokedInv'
    BY <1>2, <1>6 DEF Inv, RowsInv, DBIntegrity, RevokedInv, IsBlacklisted
  <2>2. PICK r \in outstanding : /\ r.jti = t.jti
                                 /\ req'[w].pc = "blacklist"
                                 /\ req'[w].row = r.id
    BY <1>6
  <2>3. /\ req'[w].grant = req[w].grant
        /\ req'[w].time = req[w].time
        /\ \A v \in TokenWorkers \ {w} : req'[v] = req[v]
    BY <1>4 DEF TokenOutstand
  <2>4. /\ req'[w].grant \in grants'
        /\ check_exp(req'[w].grant.token, req'[w].time)
        /\ req'[w].grant.token.token_type = "refresh"
        /\ req'[w].row <= rows'
    BY <1>2, <1>3, <1>6, <2>2, <2>3 DEF TokenOutstand, Inv, ReqInv, RowsInv
  <2>5. \A s \in outstanding' :
          s.id = req'[w].row => s.jti = req'[w].grant.token.jti
    BY <1>6, <2>2, <2>3 DEF Inv, DBIntegrity
  <2>6. /\ grants \subseteq grants' /\ rows' \in Nat /\ rows <= rows'
        /\ \A s \in outstanding' : s \in outstanding \/ s.id > rows
    BY <1>2, <1>4, <1>6
  <2>7. ReqInv'
    BY <2>2, <2>3, <2>4, <2>5, <2>6, ReqStable DEF ReqInv
  <2> QED BY <1>1, <1>5, <2>1, <2>7 DEF Inv
<1>7. CASE /\ \A r \in outstanding : r.jti # t.jti
           /\ outstanding' = outstanding \cup {new}
           /\ rows' = rows + 1
           /\ req'[w].pc = "blacklist" /\ req'[w].row = rows + 1
  <2>1. new.id = rows + 1 /\ new.jti = t.jti /\ new.expires_at = t.exp
        /\ new.user = NoId
    OBVIOUS
  <2> HIDE DEF new
  <2>2. RowsInv'
    <3>1. \A r \in outstanding' : r.id <= rows' /\ r.jti <= jtis'
      <4>1. \A r \in outstanding : r.id <= rows + 1 /\ r.jti <= jtis
        BY <1>4 DEF Inv, RowsInv
      <4>2. t.jti <= jtis
        BY <1>3 DEF Inv, GrantsInv
      <4>3. new.id <= rows + 1
        BY <2>1, <1>4
      <4> QED BY <1>2, <1>7, <2>1, <4>1, <4>2, <4>3
    <3>2. ASSUME NEW r \in outstanding', NEW g \in grants',
                 r.jti = g.token.jti
          PROVE  /\ r.expires_at = g.token.exp
                 /\ r.user \in {NoId, g.token.user_id}
      <4>1. CASE r \in outstanding
        BY <3>2, <4>1, <1>2 DEF Inv, RowsInv
      <4>2. CASE r = new
        <5>1. g = req[w].grant
          BY <3>2, <4>2, <2>1, <1>2, <1>3 DEF Inv, GrantsInv
        <5> QED BY <5>1, <4>2, <2>1
      <4> QED BY <1>7, <4>1, <4>2
    <3> QED BY <3>1, <3>2 DEF RowsInv
  <2>3. \A r \in outstanding : r.id # new.id /\ r.jti # new.jti
    BY <1>4, <1>7, <2>1 DEF Inv, RowsInv
  <2>4. DBIntegrity'
    <3>1. \A r, s \in outstanding' : (r.id = s.id \/ r.jti = s.jti) => r = s
      BY <1>7, <2>3 DEF Inv, DBIntegrity
    <3>2. \A b \in blacklisted' : \E r \in outstanding' : r.id = b
      BY <1>2, <1>7 DEF Inv, DBIntegrity
    <3> QED BY <3>1, <3>2 DEF DBIntegrity
  <2>5. RevokedInv'
    BY <1>2, <1>7 DEF Inv, RevokedInv, IsBlacklisted
  <2>6. /\ req'[w].grant = req[w].grant
        /\ req'[w].time = req[w].time
        /\ \A v \in TokenWorkers \ {w} : req'[v] = req[v]
    BY <1>4 DEF TokenOutstand
  <2>7. /\ req'[w].grant \in grants'
        /\ check_exp(req'[w].grant.token, req'[w].time)
        /\ req'[w].grant.token.token_type = "refresh"
        /\ req'[w].row <= rows'
    BY <1>2, <1>3, <1>4, <1>7, <2>6 DEF TokenOutstand, Inv, ReqInv
  <2>8. \A s \in outstanding' :
          s.id = req'[w].row => s.jti = req'[w].grant.token.jti
    BY <1>7, <2>1, <2>3, <2>6
  <2>9. /\ grants \subseteq grants' /\ rows' \in Nat /\ rows <= rows'
        /\ \A s \in outstanding' : s \in outstanding \/ s.id > rows
    BY <1>2, <1>4, <1>7, <2>1
  <2>10. ReqInv'
    BY <1>7, <2>6, <2>7, <2>8, <2>9, ReqStable DEF ReqInv
  <2> QED BY <1>1, <1>5, <2>2, <2>4, <2>5, <2>10 DEF Inv
<1> QED BY <1>4, <1>6, <1>7 DEF TokenOutstand, Insert

\* A login mints a pair under two new jtis and records the refresh token.
LEMMA InvLoginIssue ==
  ASSUME Inv, NEW w \in TokenWorkers, LoginIssue(w)
  PROVE  Inv'
<1> DEFINE r == req[w]
           refresh == for_user(r.user, LoginSalt(r), now, jtis + 1)
           access == access_token(refresh, now, jtis + 2)
           gr == [token |-> refresh, parent |-> NoId, login |-> r.salt]
           ga == [token |-> access, parent |-> refresh.jti, login |-> r.salt]
           new == [id |-> rows + 1, jti |-> refresh.jti, user |-> r.user,
                   expires_at |-> refresh.exp]
<1>1. TypeOK'
  BY TypeTokenStep DEF Inv, TokenStep
<1>2. /\ UNCHANGED <<now, blacklisted, revoked, deleted>>
      /\ outstanding' = outstanding \cup {new}
      /\ grants' = grants \cup {gr, ga}
      /\ rows' = rows + 1
      /\ jtis' = jtis + 2
      /\ req' = [req EXCEPT ![w] = Idle]
  BY DEF LoginIssue, Insert, Finish, accountVars, history
<1>3. /\ req \in [TokenWorkers -> TokenRequests]
      /\ rows \in Nat /\ jtis \in Nat /\ now \in Nat
      /\ \A g \in grants : g.token.jti \in Nat /\ g.parent \in Nat
                           /\ g.token.jti > 0
      /\ \A s \in outstanding : s.id \in Nat /\ s.jti \in Nat
  BY DEF Inv, TypeOK, TablesTypeOK, Times, Grants, Claims, Rows, Jtis
<1>4. /\ refresh.jti = jtis + 1
      /\ refresh.exp = now + REFRESH_TOKEN_LIFETIME
      /\ refresh.user_id = r.user
      /\ refresh.token_type = "refresh"
      /\ refresh.hash_password = RevokeClaim(r.salt)
  BY DEF for_user, RefreshExp, LoginSalt
<1>5. /\ access.jti = jtis + 2
      /\ access.exp = now + ACCESS_TOKEN_LIFETIME
      /\ access.token_type = "access"
      /\ access.hash_password = RevokeClaim(r.salt)
  BY DEF access_token, for_user, AccessExp, LoginSalt
<1>6. /\ gr.token = refresh /\ gr.parent = 0 /\ gr.login = r.salt
      /\ ga.token = access /\ ga.parent = jtis + 1 /\ ga.login = r.salt
      /\ new.id = rows + 1 /\ new.jti = jtis + 1 /\ new.user = r.user
      /\ new.expires_at = refresh.exp
  BY <1>4 DEF NoId
<1> HIDE DEF refresh, access, gr, ga, new
<1>7. GrantsInv'
  <2>1. \A g \in grants : g.token.jti <= jtis /\ g.parent <= jtis
    BY DEF Inv, GrantsInv
  <2>2. \A g \in grants' : g.token.jti <= jtis' /\ g.parent <= jtis'
    BY <1>2, <1>3, <1>4, <1>5, <1>6, <2>1
  <2>3. \A g \in grants : g.token.jti # jtis + 1 /\ g.token.jti # jtis + 2
    BY <1>3, <2>1
  <2>4. \A g, h \in grants' : g.token.jti = h.token.jti => g = h
    BY <1>2, <1>3, <1>4, <1>5, <1>6, <2>3 DEF Inv, GrantsInv
  <2> QED BY <2>2, <2>4 DEF GrantsInv
<1>8. RowsInv'
  <2>1. \A s \in outstanding : s.id <= rows /\ s.jti <= jtis
    BY DEF Inv, RowsInv
  <2>2. \A s \in outstanding' : s.id <= rows' /\ s.jti <= jtis'
    BY <1>2, <1>3, <1>6, <2>1
  <2>3. ASSUME NEW s \in outstanding', NEW g \in grants',
               s.jti = g.token.jti
        PROVE  /\ s.expires_at = g.token.exp
               /\ s.user \in {NoId, g.token.user_id}
    <3>1. CASE s \in outstanding
      <4>1. g \in grants
        BY <1>2, <1>3, <1>4, <1>5, <1>6, <2>1, <2>3, <3>1
      <4> QED BY <2>3, <3>1, <4>1 DEF Inv, RowsInv
    <3>2. CASE s = new
      <4>1. g = gr
        BY <1>2, <1>3, <1>5, <1>6, <2>3, <3>2 DEF Inv, GrantsInv
      <4> QED BY <1>4, <1>6, <3>2, <4>1
    <3> QED BY <1>2, <3>1, <3>2
  <2> QED BY <2>2, <2>3 DEF RowsInv
<1>9. DBIntegrity'
  <2>1. \A s \in outstanding : s.id # new.id /\ s.jti # new.jti
    BY <1>3, <1>6 DEF Inv, RowsInv
  <2>2. \A s, q \in outstanding' : (s.id = q.id \/ s.jti = q.jti) => s = q
    BY <1>2, <2>1 DEF Inv, DBIntegrity
  <2>3. \A b \in blacklisted' : \E s \in outstanding' : s.id = b
    BY <1>2 DEF Inv, DBIntegrity
  <2> QED BY <2>2, <2>3 DEF DBIntegrity
<1>10. ReqInv'
  <2>1. /\ grants \subseteq grants' /\ rows' \in Nat /\ rows <= rows'
        /\ \A s \in outstanding' : s \in outstanding \/ s.id > rows
    BY <1>2, <1>3, <1>6
  <2>2. /\ req'[w].pc = "idle"
        /\ \A v \in TokenWorkers \ {w} : req'[v] = req[v]
    BY <1>2, <1>3 DEF Idle
  <2> QED BY <2>1, <2>2, ReqStable DEF ReqInv
<1>11. RevokedInv'
  <2>1. \A j \in revoked : j \in Nat /\ j <= jtis
    BY DEF Inv, RevokedInv, TypeOK, TablesTypeOK, Jtis
  <2>2. \A j \in revoked' : j <= jtis'
    BY <1>2, <1>3, <2>1
  <2>3. ASSUME NEW g \in grants', g.token.jti \in revoked', g.token.exp > now',
               g.token.user_id \notin deleted'
        PROVE  IsBlacklisted(g.token.jti)'
    <3>1. g \in grants
      BY <1>2, <1>3, <1>4, <1>5, <1>6, <2>1, <2>3
    <3>2. IsBlacklisted(g.token.jti)
      BY <1>2, <2>3, <3>1 DEF Inv, RevokedInv
    <3> QED BY <1>2, <3>2 DEF IsBlacklisted
  <2> QED BY <2>2, <2>3 DEF RevokedInv
<1>12. AccessOutlivesRefreshBriefly'
  <2> SUFFICES ASSUME NEW a \in grants', NEW g \in grants',
                      a.token.token_type = "access", a.parent = g.token.jti
               PROVE  a.token.exp < g.token.exp + LEEWAY
                                      + ACCESS_TOKEN_LIFETIME
    BY DEF AccessOutlivesRefreshBriefly
  <2>1. CASE a \in grants
    <3>1. g \in grants
      BY <1>2, <1>3, <1>4, <1>5, <1>6, <2>1 DEF Inv, GrantsInv
    <3> QED BY <2>1, <3>1 DEF Inv, AccessOutlivesRefreshBriefly
  <2>2. CASE a = ga
    <3>1. g = gr
      BY <1>2, <1>3, <1>5, <1>6, <2>2 DEF Inv, GrantsInv
    <3> QED BY <1>3, <1>4, <1>5, <1>6, <2>2, <3>1, LifetimesAssumption
  <2>3. a # gr
    BY <1>4, <1>6
  <2> QED BY <1>2, <2>1, <2>2, <2>3
<1>13. HashInv'
  BY <1>2, <1>4, <1>5, <1>6 DEF Inv, HashInv
<1> QED BY <1>1, <1>7, <1>8, <1>9, <1>10, <1>11, <1>12, <1>13 DEF Inv

\* A refresh mints an access token and perhaps a successor under new jtis,
\* counting from the time at which the refresh token was still good.
LEMMA InvRefreshRespond ==
  ASSUME Inv, NEW w \in TokenWorkers, RefreshRespond(w)
  PROVE  Inv'
<1> DEFINE g0 == req[w].grant
           time == MintTime(req[w])
           access == access_token(g0.token, time, jtis + 1)
           next == rotated(g0.token, time, jtis + 2)
           Child(t) == [token |-> t, parent |-> g0.token.jti,
                        login |-> g0.login]
           ca == Child(access)
           cn == Child(next)
<1>1. TypeOK'
  BY TypeTokenStep DEF Inv, TokenStep
<1>2. /\ UNCHANGED <<now, outstanding, blacklisted, rows, revoked, deleted>>
      /\ \/ grants' = grants \cup {ca, cn} /\ jtis' = jtis + 2
         \/ grants' = grants \cup {ca} /\ jtis' = jtis + 1
      /\ req' = [req EXCEPT ![w] = Idle]
  BY DEF RefreshRespond, Finish, accountVars, history
<1>3. /\ req \in [TokenWorkers -> TokenRequests]
      /\ rows \in Nat /\ jtis \in Nat
      /\ \A g \in grants : g.token.jti \in Nat /\ g.parent \in Nat
                           /\ g.token.exp \in Nat /\ g.token \in Claims
      /\ \A s \in outstanding : s.id \in Nat /\ s.jti \in Nat
  BY DEF Inv, TypeOK, TablesTypeOK, Times, Grants, Claims, Rows, Jtis
<1>4. /\ g0 \in grants
      /\ check_exp(g0.token, time)
      /\ time \in Nat
  <2>1. req[w].time \in Times
    BY <1>3, TokenRequestShape DEF RefreshRespond
  <2> QED BY <2>1 DEF RefreshRespond, Inv, ReqInv, MintTime, Times
<1>5. /\ access.jti = jtis + 1
      /\ access.exp = time + ACCESS_TOKEN_LIFETIME
      /\ access.token_type = "access"
      /\ access.hash_password = g0.token.hash_password
  <2>1. g0.token \in Claims
    BY <1>3, <1>4
  <2> QED BY <2>1 DEF access_token, AccessExp, Claims
<1>6. /\ next.jti = jtis + 2
      /\ next.token_type = g0.token.token_type
      /\ next.hash_password = g0.token.hash_password
  <2>1. g0.token \in Claims
    BY <1>3, <1>4
  <2> QED BY <2>1 DEF rotated, Claims
<1>7. g0.token.token_type = "refresh"
  BY DEF RefreshRespond, Inv, ReqInv
<1>8. /\ ca.token = access /\ ca.parent = g0.token.jti /\ ca.login = g0.login
      /\ cn.token = next /\ cn.parent = g0.token.jti /\ cn.login = g0.login
  OBVIOUS
<1>9. \A g \in grants : g.token.jti <= jtis /\ g.parent <= jtis
  BY DEF Inv, GrantsInv
<1> HIDE DEF access, next, ca, cn, g0, time
<1>10. jtis' \in Nat /\ jtis < jtis'
  BY <1>2, <1>3
<1>11. ASSUME NEW g \in grants', g \notin grants
       PROVE  /\ g.token.jti > jtis /\ g.token.jti <= jtis'
              /\ g.parent = g0.token.jti
              /\ g.login = g0.login
              /\ g.token.hash_password = g0.token.hash_password
              /\ g = ca \/ (g = cn /\ jtis' = jtis + 2)
  BY <1>2, <1>3, <1>5, <1>6, <1>8, <1>11
<1>12. GrantsInv'
  <2>1. \A g \in grants' : g.token.jti <= jtis' /\ g.parent <= jtis'
    BY <1>3, <1>4, <1>9, <1>10, <1>11
  <2>2. ca.token.jti # cn.token.jti
    BY <1>3, <1>5, <1>6, <1>8
  <2>3. \A g, h \in grants' : g.token.jti = h.token.jti => g = h
    BY <1>3, <1>9, <1>11, <2>2 DEF Inv, GrantsInv
  <2> QED BY <2>1, <2>3 DEF GrantsInv
<1>13. RowsInv'
  <2>1. \A s \in outstanding : s.id <= rows /\ s.jti <= jtis
    BY DEF Inv, RowsInv
  <2>2. \A s \in outstanding' : s.id <= rows' /\ s.jti <= jtis'
    BY <1>2, <1>3, <1>10, <2>1
  <2>3. \A s \in outstanding', g \in grants' :
          s.jti = g.token.jti => g \in grants
    BY <1>2, <1>3, <1>11, <2>1
  <2> QED BY <1>2, <2>2, <2>3 DEF Inv, RowsInv
<1>14. DBIntegrity'
  BY <1>2 DEF Inv, DBIntegrity
<1>15. ReqInv'
  <2>1. /\ grants \subseteq grants' /\ rows' \in Nat /\ rows <= rows'
        /\ \A s \in outstanding' : s \in outstanding \/ s.id > rows
    BY <1>2, <1>3
  <2>2. /\ req'[w].pc = "idle"
        /\ \A v \in TokenWorkers \ {w} : req'[v] = req[v]
    BY <1>2, <1>3 DEF Idle
  <2> QED BY <2>1, <2>2, ReqStable DEF ReqInv
<1>16. RevokedInv'
  <2>1. \A j \in revoked : j \in Nat /\ j <= jtis
    BY DEF Inv, RevokedInv, TypeOK, TablesTypeOK, Jtis
  <2>2. \A j \in revoked' : j <= jtis'
    BY <1>2, <1>3, <1>10, <2>1
  <2>3. \A g \in grants' : g.token.jti \in revoked' => g \in grants
    BY <1>2, <1>3, <1>11, <2>1
  <2>4. ASSUME NEW g \in grants', g.token.jti \in revoked', g.token.exp > now',
               g.token.user_id \notin deleted'
        PROVE  IsBlacklisted(g.token.jti)'
    <3>1. IsBlacklisted(g.token.jti)
      BY <1>2, <2>3, <2>4 DEF Inv, RevokedInv
    <3> QED BY <1>2, <3>1 DEF IsBlacklisted
  <2> QED BY <2>2, <2>4 DEF RevokedInv
<1>17. AccessOutlivesRefreshBriefly'
  <2> SUFFICES ASSUME NEW a \in grants', NEW g \in grants',
                      a.token.token_type = "access", a.parent = g.token.jti
               PROVE  a.token.exp < g.token.exp + LEEWAY
                                      + ACCESS_TOKEN_LIFETIME
    BY DEF AccessOutlivesRefreshBriefly
  <2>1. g \in grants
    BY <1>3, <1>4, <1>9, <1>11
  <2>2. CASE a \in grants
    BY <2>1, <2>2 DEF Inv, AccessOutlivesRefreshBriefly
  <2>3. CASE a = ca
    <3>1. g = g0
      BY <1>4, <1>8, <2>1, <2>3 DEF Inv, GrantsInv
    <3>2. g0.token.exp + LEEWAY > time
      BY <1>4 DEF check_exp
    <3>3. a.token.exp = time + ACCESS_TOKEN_LIFETIME
      BY <1>5, <1>8, <2>3
    <3>4. g0.token.exp \in Nat
      BY <1>3, <1>4
    <3> QED BY <3>1, <3>2, <3>3, <3>4, <1>4, LifetimesAssumption
  <2>4. a # cn
    BY <1>6, <1>7, <1>8 DEF g0
  <2> QED BY <1>11, <2>2, <2>3, <2>4
<1>18. HashInv'
  BY <1>4, <1>11 DEF Inv, HashInv
<1> QED BY <1>1, <1>12, <1>13, <1>14, <1>15, <1>16, <1>17, <1>18 DEF Inv

\* Inv is inductive.
LEMMA InvStep == Inv /\ [Next]_vars => Inv'
<1> SUFFICES ASSUME Inv, [Next]_vars PROVE Inv'
  OBVIOUS
<1>1. ASSUME NEW w \in TokenWorkers, TokenStep(w)
      PROVE  Inv'
  BY <1>1, InvReqOnly, InvLoginIssue, InvTokenOutstand, InvTokenBlacklist,
     InvRefreshRespond
  DEF TokenStep
<1>2. ASSUME TablesStep, UNCHANGED <<req, grants>>
      PROVE  Inv'
  BY <1>2, InvDelete, InvFlush, InvAdminBlacklist, InvAdminRestore,
     InvAccountsAndClock
  DEF TablesStep
<1> QED
  BY <1>1, <1>2, InvAccountsAndClock DEF Next

\* The invariant holds in every reachable state: the tables, the requests in
\* flight and the tokens handed out always agree.
THEOREM InvCorrect == Spec => []Inv
BY InvInit, InvStep, PTL DEF Spec

-----------------------------------------------------------------------------
(* What follows from it. *)

\* The outstanding and blacklist tables fit together in every interleaving of
\* any number of workers with flushes, deletions and the admin.
THEOREM TablesKeepIntegrity == Spec => []DBIntegrity
<1>1. Inv => DBIntegrity
  BY DEF Inv
<1> QED BY <1>1, InvCorrect, PTL

\* A blacklisted refresh token is refused until it expires, whatever flushes,
\* crashes, rotations and logouts race with each other, unless the admin
\* restores it or its user is deleted.
THEOREM RevocationHolds == Spec => []RevokedStaysRefused
<1>1. Inv => RevokedStaysRefused
  BY DEF Inv, RevokedInv, RevokedStaysRefused, RefreshAccepts,
         VerifyAccepts, verify
<1> QED BY <1>1, InvCorrect, PTL

\* However slow a refresh request is, its access token ends within one access
\* lifetime of the last moment of the refresh token it came from.
THEOREM AccessLifetimeBound == Spec => []AccessOutlivesRefreshBriefly
<1>1. Inv => AccessOutlivesRefreshBriefly
  BY DEF Inv
<1> QED BY <1>1, InvCorrect, PTL

\* Under CHECK_REVOKE_TOKEN an access token works only while the password
\* verified at its login is the one stored, through any number of rotations.
THEOREM PasswordChangeLocksOut == Spec => []StalePasswordRefused
<1>1. Inv => StalePasswordRefused
  <2> SUFFICES ASSUME Inv, CHECK_REVOKE_TOKEN, NEW g \in grants,
                      Authenticates(g.token)
               PROVE  g.login = users[g.token.user_id].password.salt
    BY DEF StalePasswordRefused
  <2>1. g.token.hash_password = PasswordHash(g.login)
    BY DEF Inv, HashInv, RevokeClaim
  <2>2. g.token.hash_password
          = PasswordHash(users[g.token.user_id].password.salt)
    BY DEF Authenticates
  <2> QED BY <2>1, <2>2 DEF PasswordHash
<1> QED BY <1>1, InvCorrect, PTL
=============================================================================
