------------------------ MODULE SlidingTokens_proofs ------------------------
(***************************************************************************)
(* Proofs about SlidingTokens for every value of its constants: type       *)
(* correctness, that blacklisting one version stops its whole family while *)
(* the family is listed, that it stays listed until its first exp, that a  *)
(* token cannot be kept alive for ever, and that a changed password shuts  *)
(* old versions out.                                                       *)
(***************************************************************************)
EXTENDS SlidingTokens, TokenTables_proofs

-----------------------------------------------------------------------------
(* Type correctness. *)

\* A request's stage tells which fields it has.
LEMMA SlidingRequestShape ==
  ASSUME NEW r \in TokenRequests
  PROVE  /\ r.pc = "issue" =>
              r \in [pc : {"issue"}, user : UserIds, salt : Nat]
         /\ r.pc = "check" =>
              r \in [pc : {"check"}, grant : Grants, time : Times]
BY DEF TokenRequests, Idle

\* for_user and the refresh make well-formed claims.
LEMMA SlidingClaimsType ==
  /\ \A u, salt, t \in Nat, j \in Jtis : SlidingFor(u, salt, t, j) \in SlidingClaims
  /\ \A c \in SlidingClaims, t \in Nat : Slid(c, t) \in SlidingClaims
<1>1. \A salt \in Nat : RevokeClaim(salt) \in HashClaims
  BY DEF RevokeClaim, PasswordHash, NoHash, HashClaims
<1>2. \A t \in Nat : /\ t + SLIDING_TOKEN_LIFETIME \in Nat
                     /\ t + SLIDING_TOKEN_REFRESH_LIFETIME \in Nat
  BY SlidingTokensAssumption
<1>3. \A u, salt, t \in Nat, j \in Jtis :
        SlidingFor(u, salt, t, j) \in SlidingClaims
  BY <1>1, <1>2 DEF SlidingFor, SlidingClaims, Times
<1>4. \A c \in SlidingClaims, t \in Nat : Slid(c, t) \in SlidingClaims
  BY <1>2 DEF Slid, SlidingClaims, Times
<1> QED BY <1>3, <1>4

\* The service starts well typed.
LEMMA SlidingTypeInit == Init => SlidingTypeOK
BY TablesTypeInit DEF Init, SlidingTypeOK, TokenRequests

\* Every stage of a request keeps the types.
LEMMA SlidingTypeTokenStep ==
  ASSUME SlidingTypeOK, NEW w \in TokenWorkers, SlidingStep(w)
  PROVE  SlidingTypeOK'
<1> USE DEF SlidingTypeOK, TablesTypeOK
<1>1. accountVars' = accountVars => AccountsTypeOK'
  BY DEF accountVars, AccountsTypeOK, Exists
<1>2. \A r \in TokenRequests : [req EXCEPT ![w] = r]
                                 \in [TokenWorkers -> TokenRequests]
  OBVIOUS
<1>3. Idle \in TokenRequests
  BY DEF TokenRequests
<1>4. jtis + 1 \in Jtis /\ rows + 1 \in Nat
  BY DEF Jtis
<1>5. CASE LoginAuthenticate(w)
  <2>1. PICK u \in UserIds :
          /\ Exists(u)
          /\ req' = [req EXCEPT ![w] =
               [pc |-> "issue", user |-> u, salt |-> users[u].password.salt]]
    BY <1>5 DEF LoginAuthenticate, authenticate
  <2>2. users[u].password.salt \in Nat
    BY <2>1 DEF AccountsTypeOK, UserRows, StoredPasswords, Exists
  <2>3. [pc |-> "issue", user |-> u, salt |-> users[u].password.salt]
          \in TokenRequests
    BY <2>2 DEF TokenRequests
  <2> QED BY <1>1, <1>2, <1>5, <2>1, <2>3 DEF LoginAuthenticate, tableVars, history
<1>6. CASE LoginIssue(w)
  <2> DEFINE r == req[w]
             t == SlidingFor(r.user, LoginSalt(r), now, jtis + 1)
  <2>1. r.user \in UserIds /\ r.salt \in Nat
    BY <1>6, SlidingRequestShape DEF LoginIssue
  <2>2. r.user \in Nat /\ LoginSalt(r) \in Nat
    BY <2>1, AccountsAssumption DEF UserIds, LoginSalt
  <2>3. t \in SlidingClaims
    BY <2>2, <1>4, SlidingClaimsType DEF Times
  <2>4. t.jti \in Jtis /\ t.exp \in Times
    BY <2>3 DEF SlidingClaims
  <2> HIDE DEF t
  <2>5. [id |-> rows + 1, jti |-> t.jti, user |-> r.user, expires_at |-> t.exp]
          \in Rows
    BY <2>2, <2>4, <1>4 DEF Rows
  <2>6. [token |-> t, family |-> t.jti, born |-> now, login |-> r.salt] \in Grants
    BY <2>1, <2>3, <2>4 DEF Grants
  <2>7. outstanding' \subseteq Rows /\ grants' \subseteq Grants
    BY <1>6, <2>5, <2>6 DEF LoginIssue, Insert, t
  <2>8. req' \in [TokenWorkers -> TokenRequests]
    BY <1>6, <1>2, <1>3 DEF LoginIssue, Finish
  <2>9. rows' \in Nat /\ jtis' \in Nat
    BY <1>6 DEF LoginIssue, Insert
  <2>10. AccountsTypeOK' /\ UNCHANGED <<now, blacklisted, revoked>>
    BY <1>1, <1>6 DEF LoginIssue, history
  <2> QED BY <2>7, <2>8, <2>9, <2>10
<1>7. CASE RefreshBegin(w)
  <2>1. PICK g \in grants :
          req' = [req EXCEPT ![w] = [pc |-> "check", grant |-> g, time |-> now]]
    BY <1>7 DEF RefreshBegin
  <2>2. [pc |-> "check", grant |-> g, time |-> now] \in TokenRequests
    BY DEF TokenRequests
  <2> QED BY <1>1, <1>2, <1>7, <2>1, <2>2 DEF RefreshBegin, tableVars, history
<1>8. CASE RefreshAnswer(w)
  <2> DEFINE g == req[w].grant
             new == [g EXCEPT !.token = Slid(g.token, req[w].time)]
  <2>1. g \in Grants /\ req[w].time \in Nat
    BY <1>8, SlidingRequestShape DEF RefreshAnswer, Times
  <2>2. Slid(g.token, req[w].time) \in SlidingClaims
    BY <2>1, SlidingClaimsType DEF Grants
  <2>3. new \in Grants
    BY <2>1, <2>2 DEF Grants
  <2>4. grants' = grants \cup {new}
    BY <1>8, <2>1 DEF RefreshAnswer, Grants
  <2>5. req' \in [TokenWorkers -> TokenRequests]
    BY <1>8, <1>2, <1>3 DEF RefreshAnswer, Finish
  <2>6. grants' \subseteq Grants
    BY <2>3, <2>4
  <2> QED BY <1>1, <1>8, <2>5, <2>6 DEF RefreshAnswer, tableVars, history
<1>9. CASE RefreshReject(w)
  BY <1>1, <1>2, <1>3, <1>9 DEF RefreshReject, Finish, tableVars, history
<1>10. CASE RequestAbort(w)
  BY <1>1, <1>2, <1>3, <1>10 DEF RequestAbort, Finish, tableVars, history
<1> QED
  BY <1>5, <1>6, <1>7, <1>8, <1>9, <1>10 DEF SlidingStep

\* So do the flush command, the admin, deletions, account requests, the clock.
LEMMA SlidingTypeOtherStep ==
  ASSUME SlidingTypeOK, UNCHANGED <<req, grants>>,
         \/ TablesStep
         \/ \E w \in AccountWorkers : AccountStep(w)
         \/ UNCHANGED vars
  PROVE  SlidingTypeOK'
<1>1. TablesTypeOK'
  BY TablesTypeStep DEF vars, SlidingTypeOK
<1> QED BY <1>1 DEF SlidingTypeOK

\* Every table, request and version keeps its declared shape, for every number
\* of workers and users, every lifetime and every setting.
THEOREM SlidingTypeCorrect == Spec => []SlidingTypeOK
<1>1. SlidingTypeOK /\ [Next]_vars => SlidingTypeOK'
  BY SlidingTypeTokenStep, SlidingTypeOtherStep DEF Next, vars
<1> QED BY SlidingTypeInit, <1>1, PTL DEF Spec

-----------------------------------------------------------------------------
(* The inductive invariant. *)

\* What a version says about its family: its jti, its refresh window and the
\* revocation claim are those of the login; and versions of one jti agree on
\* when, for whom and with which password that was.
FamilyInv ==
  /\ \A g \in grants :
       /\ g.token.jti = g.family
       /\ g.token.jti <= jtis
       /\ g.token.refresh_exp = g.born + SLIDING_TOKEN_REFRESH_LIFETIME
       /\ g.token.hash_password = RevokeClaim(g.login)
  /\ \A g, h \in grants :
       g.token.jti = h.token.jti =>
         g.born = h.born /\ g.token.user_id = h.token.user_id

\* An outstanding row names its family's user and first exp.
RowsInv ==
  /\ \A r \in outstanding : r.id <= rows /\ r.jti <= jtis
  /\ \A r \in outstanding, g \in grants :
       r.jti = g.token.jti =>
         r.expires_at = FirstExp(g) /\ r.user = g.token.user_id

\* A refresh in flight is about a version that was handed out.
ReqInv ==
  \A w \in TokenWorkers : req[w].pc = "check" => req[w].grant \in grants

\* While the family is listed, what was revoked has its blacklist entry.
RevokedInv ==
  /\ \A j \in revoked : j <= jtis
  /\ \A g \in grants :
       (g.token.jti \in revoked /\ FirstExp(g) > now
          /\ g.token.user_id \notin deleted)
         => IsBlacklisted(g.token.jti)

Inv ==
  /\ SlidingTypeOK
  /\ FamilyInv
  /\ RowsInv
  /\ DBIntegrity
  /\ ReqInv
  /\ RevokedInv
  /\ FamilyStaysListed
  /\ SessionBounded

\* The service starts with nothing handed out.
LEMMA InvInit == Init => Inv
<1> SUFFICES ASSUME Init PROVE Inv
  OBVIOUS
<1>1. SlidingTypeOK
  BY SlidingTypeInit
<1> QED
  BY <1>1 DEF Inv, Init, TablesInit, Idle, FamilyInv, RowsInv, DBIntegrity,
              ReqInv, RevokedInv, FamilyStaysListed, SessionBounded

\* The numbers that the invariant compares.
LEMMA InvNumbers ==
  ASSUME Inv
  PROVE  /\ rows \in Nat /\ jtis \in Nat /\ now \in Nat
         /\ \A g \in grants :
              /\ g.token.jti \in Nat /\ g.born \in Nat /\ g.token.exp \in Nat
              /\ g.token \in SlidingClaims /\ FirstExp(g) \in Nat
         /\ \A r \in outstanding : r.id \in Nat /\ r.jti \in Nat
         /\ req \in [TokenWorkers -> TokenRequests]
<1>1. grants \subseteq Grants /\ outstanding \subseteq Rows
  BY DEF Inv, SlidingTypeOK, TablesTypeOK
<1>2. \A g \in grants :
        /\ g.token.jti \in Nat /\ g.born \in Nat /\ g.token.exp \in Nat
        /\ g.token \in SlidingClaims
  BY <1>1 DEF Grants, SlidingClaims, Times, Jtis
<1>3. \A g \in grants : FirstExp(g) \in Nat
  BY <1>2, SlidingTokensAssumption DEF FirstExp
<1>4. \A r \in outstanding : r.id \in Nat /\ r.jti \in Nat
  BY <1>1 DEF Rows, Jtis
<1> QED BY <1>2, <1>3, <1>4 DEF Inv, SlidingTypeOK, TablesTypeOK, Times

\* Steps that change only requests, accounts (no deletion) or the clock.
LEMMA InvQuiet ==
  ASSUME Inv, SlidingTypeOK',
         UNCHANGED <<outstanding, blacklisted, rows, jtis, grants, revoked,
                     deleted>>,
         now' \in Nat, now <= now', ReqInv'
  PROVE  Inv'
<1>1. FamilyInv' /\ RowsInv' /\ DBIntegrity' /\ SessionBounded'
  BY DEF Inv, FamilyInv, RowsInv, DBIntegrity, SessionBounded, FirstExp
<1>2. \A g \in grants : FirstExp(g)' = FirstExp(g)
                          /\ (FirstExp(g) > now' => FirstExp(g) > now)
  BY InvNumbers DEF FirstExp
<1>3. FamilyStaysListed'
  BY <1>2 DEF Inv, FamilyStaysListed
<1>4. RevokedInv'
  BY <1>2 DEF Inv, RevokedInv, IsBlacklisted
<1> QED BY <1>1, <1>3, <1>4 DEF Inv

\* Logins that authenticate, refreshes that begin, are refused or die.
LEMMA InvReqOnly ==
  ASSUME Inv, NEW w \in TokenWorkers,
         \/ LoginAuthenticate(w) \/ RefreshBegin(w)
         \/ RefreshReject(w) \/ RequestAbort(w)
  PROVE  Inv'
<1>1. /\ UNCHANGED <<outstanding, blacklisted, rows, jtis, grants, revoked,
                     deleted>>
      /\ now' = now
  BY DEF LoginAuthenticate, RefreshBegin, RefreshReject, RequestAbort,
         accountVars, tableVars, history
<1>2. SlidingTypeOK'
  BY SlidingTypeTokenStep DEF Inv, SlidingStep
<1>3. \A v \in TokenWorkers \ {w} : req'[v] = req[v]
  BY InvNumbers
  DEF LoginAuthenticate, RefreshBegin, RefreshReject, RequestAbort, Finish
<1>4. req'[w].pc = "check" => req'[w].grant \in grants
  <2>1. CASE LoginAuthenticate(w)
    BY <2>1, InvNumbers DEF LoginAuthenticate
  <2>2. CASE RefreshBegin(w)
    BY <2>2, InvNumbers DEF RefreshBegin
  <2>3. CASE RefreshReject(w) \/ RequestAbort(w)
    BY <2>3, InvNumbers DEF RefreshReject, RequestAbort, Finish, Idle
  <2> QED BY <2>1, <2>2, <2>3
<1>5. ReqInv'
  BY <1>1, <1>3, <1>4 DEF Inv, ReqInv
<1> QED BY <1>1, <1>2, <1>5, InvNumbers, InvQuiet

\* A login starts a family under a new jti and records it.
LEMMA InvLoginIssue ==
  ASSUME Inv, NEW w \in TokenWorkers, LoginIssue(w)
  PROVE  Inv'
<1> DEFINE r == req[w]
           t == SlidingFor(r.user, LoginSalt(r), now, jtis + 1)
           new == [token |-> t, family |-> t.jti, born |-> now,
                   login |-> r.salt]
           row == [id |-> rows + 1, jti |-> t.jti, user |-> r.user,
                   expires_at |-> t.exp]
<1>1. SlidingTypeOK'
  BY SlidingTypeTokenStep DEF Inv, SlidingStep
<1>2. /\ UNCHANGED <<now, blacklisted, revoked, deleted>>
      /\ outstanding' = outstanding \cup {row}
      /\ grants' = grants \cup {new}
      /\ rows' = rows + 1
      /\ jtis' = jtis + 1
      /\ req' = [req EXCEPT ![w] = Idle]
  BY DEF LoginIssue, Insert, Finish, accountVars, history
<1>3. /\ new.token.jti = jtis + 1 /\ new.family = jtis + 1 /\ new.born = now
      /\ new.token.exp = now + SLIDING_TOKEN_LIFETIME
      /\ new.token.refresh_exp = now + SLIDING_TOKEN_REFRESH_LIFETIME
      /\ new.token.user_id = r.user
      /\ new.token.hash_password = RevokeClaim(new.login)
      /\ row.id = rows + 1 /\ row.jti = jtis + 1 /\ row.user = r.user
      /\ row.expires_at = now + SLIDING_TOKEN_LIFETIME
  BY DEF SlidingFor, LoginSalt
<1> HIDE DEF new, row, t
<1>4. \A g \in grants : g.token.jti # jtis + 1 /\ g.token.jti <= jtis + 1
  BY InvNumbers DEF Inv, FamilyInv
<1>5. \A s \in outstanding : /\ s.jti # jtis + 1 /\ s.jti <= jtis + 1
                             /\ s.id # rows + 1 /\ s.id <= rows + 1
  BY InvNumbers DEF Inv, RowsInv
<1>6. FirstExp(new) = now + SLIDING_TOKEN_LIFETIME
  BY <1>3 DEF FirstExp
<1>7. FamilyInv'
  <2>1. \A g \in grants' :
          /\ g.token.jti = g.family
          /\ g.token.jti <= jtis'
          /\ g.token.refresh_exp = g.born + SLIDING_TOKEN_REFRESH_LIFETIME
          /\ g.token.hash_password = RevokeClaim(g.login)
    BY <1>2, <1>3, <1>4, InvNumbers DEF Inv, FamilyInv
  <2>2. \A g, h \in grants' :
          g.token.jti = h.token.jti =>
            g.born = h.born /\ g.token.user_id = h.token.user_id
    BY <1>2, <1>3, <1>4 DEF Inv, FamilyInv
  <2> QED BY <2>1, <2>2 DEF FamilyInv
<1>8. RowsInv'
  <2>1. \A s \in outstanding' : s.id <= rows' /\ s.jti <= jtis'
    BY <1>2, <1>3, <1>5, InvNumbers
  <2>2. ASSUME NEW s \in outstanding', NEW g \in grants', s.jti = g.token.jti
        PROVE  s.expires_at = FirstExp(g) /\ s.user = g.token.user_id
    <3>1. CASE s \in outstanding /\ g \in grants
      BY <2>2, <3>1 DEF Inv, RowsInv
    <3>2. CASE s = row /\ g = new
      BY <3>2, <1>3, <1>6
    <3> QED BY <2>2, <3>1, <3>2, <1>2, <1>3, <1>4, <1>5
  <2> QED BY <2>1, <2>2 DEF RowsInv, FirstExp
<1>9. DBIntegrity'
  <2>1. \A s, v \in outstanding' : (s.id = v.id \/ s.jti = v.jti) => s = v
    BY <1>2, <1>3, <1>5 DEF Inv, DBIntegrity
  <2>2. \A b \in blacklisted' : \E s \in outstanding' : s.id = b
    BY <1>2 DEF Inv, DBIntegrity
  <2> QED BY <2>1, <2>2 DEF DBIntegrity
<1>10. ReqInv'
  BY <1>2, InvNumbers DEF Inv, ReqInv, Idle
<1>11. RevokedInv'
  <2>1. \A j \in revoked : j <= jtis /\ j \in Nat
    BY DEF Inv, RevokedInv, SlidingTypeOK, TablesTypeOK, Jtis
  <2>2. jtis + 1 \notin revoked /\ \A j \in revoked : j <= jtis + 1
    BY <2>1, InvNumbers
  <2>3. ASSUME NEW g \in grants, g.token.jti \in revoked, FirstExp(g) > now,
               g.token.user_id \notin deleted
        PROVE  IsBlacklisted(g.token.jti)'
    BY <2>3, <1>2 DEF Inv, RevokedInv, IsBlacklisted
  <2> QED BY <2>2, <2>3, <1>2, <1>3 DEF RevokedInv, FirstExp
<1>12. FamilyStaysListed'
  <2>1. ASSUME NEW g \in grants', FirstExp(g) > now',
               g.token.user_id \notin deleted'
        PROVE  \E s \in outstanding' :
                 s.jti = g.token.jti /\ s.user = g.token.user_id
    <3>1. CASE g = new
      BY <3>1, <1>2, <1>3
    <3>2. CASE g \in grants
      BY <2>1, <3>2, <1>2, <1>6 DEF Inv, FamilyStaysListed
    <3> QED BY <3>1, <3>2, <1>2
  <2> QED BY <2>1 DEF FamilyStaysListed, FirstExp
<1>13. SessionBounded'
  <2>1. new.token.exp < new.born + SLIDING_TOKEN_REFRESH_LIFETIME + LEEWAY
                          + SLIDING_TOKEN_LIFETIME
    BY <1>3, InvNumbers, SlidingTokensAssumption, LifetimesAssumption
  <2> QED BY <1>2, <2>1 DEF Inv, SessionBounded
<1> QED BY <1>1, <1>7, <1>8, <1>9, <1>10, <1>11, <1>12, <1>13 DEF Inv

\* A refresh adds a version to the family of the one presented.
LEMMA InvRefreshAnswer ==
  ASSUME Inv, NEW w \in TokenWorkers, RefreshAnswer(w)
  PROVE  Inv'
<1> DEFINE g0 == req[w].grant
           time == req[w].time
           new == [g0 EXCEPT !.token = Slid(g0.token, time)]
<1>1. SlidingTypeOK'
  BY SlidingTypeTokenStep DEF Inv, SlidingStep
<1>2. g0 \in grants /\ g0 \in Grants /\ time \in Nat
  BY SlidingRequestShape, InvNumbers
  DEF RefreshAnswer, Inv, ReqInv, Times
<1>3. /\ UNCHANGED <<now, outstanding, blacklisted, rows, jtis, revoked,
                     deleted>>
      /\ grants' = grants \cup {new}
      /\ req' = [req EXCEPT ![w] = Idle]
  BY <1>2 DEF RefreshAnswer, Finish, accountVars, tableVars, history, Grants
<1>4. /\ new.token.jti = g0.token.jti
      /\ new.token.user_id = g0.token.user_id
      /\ new.token.refresh_exp = g0.token.refresh_exp
      /\ new.token.hash_password = g0.token.hash_password
      /\ new.token.exp = time + SLIDING_TOKEN_LIFETIME
      /\ new.family = g0.family /\ new.born = g0.born /\ new.login = g0.login
  BY <1>2 DEF Slid, Grants, SlidingClaims
<1> HIDE DEF new
<1>5. FamilyInv'
  BY <1>2, <1>3, <1>4 DEF Inv, FamilyInv
<1>6. RowsInv'
  BY <1>2, <1>3, <1>4 DEF Inv, RowsInv, FirstExp
<1>7. DBIntegrity'
  BY <1>3 DEF Inv, DBIntegrity
<1>8. ReqInv'
  BY <1>3, InvNumbers DEF Inv, ReqInv, Idle
<1>9. RevokedInv'
  BY <1>2, <1>3, <1>4 DEF Inv, RevokedInv, IsBlacklisted, FirstExp
<1>10. FamilyStaysListed'
  BY <1>2, <1>3, <1>4 DEF Inv, FamilyStaysListed, FirstExp
<1>11. SessionBounded'
  <2>1. g0.token.refresh_exp = g0.born + SLIDING_TOKEN_REFRESH_LIFETIME
    BY <1>2 DEF Inv, FamilyInv
  <2>2. g0.token.refresh_exp + LEEWAY > time
    BY DEF RefreshAnswer, check_refresh_exp
  <2>3. time + SLIDING_TOKEN_LIFETIME
          < g0.born + SLIDING_TOKEN_REFRESH_LIFETIME + LEEWAY
              + SLIDING_TOKEN_LIFETIME
    BY <1>2, <2>1, <2>2, InvNumbers, SlidingTokensAssumption,
       LifetimesAssumption
  <2> QED BY <1>3, <1>4, <2>3 DEF Inv, SessionBounded
<1> QED BY <1>1, <1>5, <1>6, <1>7, <1>8, <1>9, <1>10, <1>11 DEF Inv

\* Rows go, and their blacklist entries with them; none of a family that is
\* still to be listed.
LEMMA InvKeep ==
  ASSUME Inv, SlidingTypeOK', NEW kept \in SUBSET outstanding, Keep(kept),
         UNCHANGED <<now, rows, jtis, req, grants, revoked>>,
         deleted \subseteq deleted',
         \A r \in outstanding, g \in grants :
           (r.jti = g.token.jti /\ FirstExp(g) > now
              /\ g.token.user_id \notin deleted')
             => r \in kept
  PROVE  Inv'
<1>1. outstanding' = kept /\ blacklisted' = CascadeTo(kept)
  BY DEF Keep
<1>2. FamilyInv' /\ SessionBounded' /\ ReqInv'
  BY DEF Inv, FamilyInv, SessionBounded, ReqInv
<1>3. RowsInv'
  BY <1>1 DEF Inv, RowsInv, FirstExp
<1>4. DBIntegrity'
  BY <1>1 DEF Inv, DBIntegrity, CascadeTo
<1>5. RevokedInv'
  <2>1. ASSUME NEW g \in grants, g.token.jti \in revoked, FirstExp(g) > now,
               g.token.user_id \notin deleted'
        PROVE  IsBlacklisted(g.token.jti)'
    <3>1. PICK r \in outstanding :
            r.jti = g.token.jti /\ r.id \in blacklisted
      BY <2>1 DEF Inv, RevokedInv, IsBlacklisted
    <3>2. r \in kept
      BY <2>1, <3>1
    <3> QED BY <3>1, <3>2, <1>1 DEF IsBlacklisted, CascadeTo
  <2> QED BY <2>1 DEF Inv, RevokedInv, FirstExp
<1>6. FamilyStaysListed'
  <2>1. ASSUME NEW g \in grants, FirstExp(g) > now,
               g.token.user_id \notin deleted'
        PROVE  \E r \in kept :
                 r.jti = g.token.jti /\ r.user = g.token.user_id
    BY <2>1 DEF Inv, FamilyStaysListed
  <2> QED BY <2>1, <1>1 DEF FamilyStaysListed, FirstExp
<1> QED BY <1>2, <1>3, <1>4, <1>5, <1>6 DEF Inv

\* The flush command takes no row before its family's first exp.
LEMMA InvFlush ==
  ASSUME Inv, FlushExpiredTokens, UNCHANGED <<req, grants>>
  PROVE  Inv'
<1> DEFINE kept == {r \in outstanding : ~Flushable(r)}
<1>1. SlidingTypeOK'
  BY SlidingTypeOtherStep DEF Inv, TablesStep
<1>2. /\ Keep(kept)
      /\ UNCHANGED <<now, rows, jtis, req, grants, revoked, deleted>>
  BY DEF FlushExpiredTokens, accountVars, history
<1>3. ASSUME NEW r \in outstanding, NEW g \in grants,
             r.jti = g.token.jti, FirstExp(g) > now
      PROVE  r \in kept
  <2>1. r.expires_at = FirstExp(g)
    BY <1>3 DEF Inv, RowsInv
  <2> QED BY <1>3, <2>1, InvNumbers DEF Flushable
<1> HIDE DEF kept
<1>4. kept \in SUBSET outstanding
  BY DEF kept
<1> QED BY <1>1, <1>2, <1>3, <1>4, InvKeep

\* A deletion takes only rows of the user it deletes.
LEMMA InvDelete ==
  ASSUME Inv, NEW u \in UserIds, DeleteUserCascade(u),
         UNCHANGED <<req, grants>>
  PROVE  Inv'
<1> DEFINE kept == {r \in outstanding : r.user # u}
<1>1. SlidingTypeOK'
  BY SlidingTypeOtherStep DEF Inv, TablesStep
<1>2. /\ Keep(kept)
      /\ UNCHANGED <<now, rows, jtis, req, grants, revoked>>
      /\ deleted' = deleted \cup {u}
  BY DEF DeleteUserCascade, DeleteUser, history
<1>3. ASSUME NEW r \in outstanding, NEW g \in grants,
             r.jti = g.token.jti, g.token.user_id \notin deleted'
      PROVE  r \in kept
  BY <1>2, <1>3 DEF Inv, RowsInv
<1> HIDE DEF kept
<1>4. kept \in SUBSET outstanding
  BY DEF kept
<1> QED BY <1>1, <1>2, <1>3, <1>4, InvKeep

\* The admin blacklists a row, whose jti all versions of its family carry.
LEMMA InvAdminBlacklist ==
  ASSUME Inv, AdminBlacklist, UNCHANGED <<req, grants>>
  PROVE  Inv'
<1>1. SlidingTypeOK'
  BY SlidingTypeOtherStep DEF Inv, TablesStep
<1>2. UNCHANGED <<now, outstanding, rows, jtis, grants, deleted, req>>
  BY DEF AdminBlacklist, accountVars
<1>3. PICK r \in outstanding : /\ blacklisted' = blacklisted \cup {r.id}
                               /\ revoked' = revoked \cup {r.jti}
  BY DEF AdminBlacklist
<1>4. FamilyInv' /\ RowsInv' /\ ReqInv' /\ SessionBounded' /\ FamilyStaysListed'
  BY <1>2
  DEF Inv, FamilyInv, RowsInv, ReqInv, SessionBounded, FamilyStaysListed,
      FirstExp
<1>5. DBIntegrity'
  BY <1>2, <1>3 DEF Inv, DBIntegrity
<1>6. RevokedInv'
  <2>1. \A j \in revoked' : j <= jtis
    BY <1>3 DEF Inv, RevokedInv, RowsInv
  <2>2. ASSUME NEW g \in grants, g.token.jti \in revoked', FirstExp(g) > now,
               g.token.user_id \notin deleted
        PROVE  IsBlacklisted(g.token.jti)'
    <3>1. CASE g.token.jti = r.jti
      BY <3>1, <1>2, <1>3 DEF IsBlacklisted
    <3>2. CASE g.token.jti \in revoked
      BY <2>2, <3>2, <1>2, <1>3 DEF Inv, RevokedInv, IsBlacklisted
    <3> QED BY <2>2, <3>1, <3>2, <1>3
  <2> QED BY <2>1, <2>2, <1>2 DEF RevokedInv, FirstExp
<1> QED BY <1>1, <1>4, <1>5, <1>6 DEF Inv

\* A family the admin restores is no longer revoked; its entry was no other's.
LEMMA InvAdminRestore ==
  ASSUME Inv, AdminRestore, UNCHANGED <<req, grants>>
  PROVE  Inv'
<1>1. SlidingTypeOK'
  BY SlidingTypeOtherStep DEF Inv, TablesStep
<1>2. UNCHANGED <<now, outstanding, rows, jtis, grants, deleted, req>>
  BY DEF AdminRestore, accountVars
<1>3. PICK r \in outstanding : /\ blacklisted' = blacklisted \ {r.id}
                               /\ revoked' = revoked \ {r.jti}
  BY DEF AdminRestore
<1>4. FamilyInv' /\ RowsInv' /\ ReqInv' /\ SessionBounded' /\ FamilyStaysListed'
  BY <1>2
  DEF Inv, FamilyInv, RowsInv, ReqInv, SessionBounded, FamilyStaysListed,
      FirstExp
<1>5. DBIntegrity'
  BY <1>2, <1>3 DEF Inv, DBIntegrity
<1>6. RevokedInv'
  <2>1. ASSUME NEW g \in grants, g.token.jti \in revoked', FirstExp(g) > now,
               g.token.user_id \notin deleted
        PROVE  IsBlacklisted(g.token.jti)'
    <3>1. PICK s \in outstanding :
            s.jti = g.token.jti /\ s.id \in blacklisted
      BY <2>1, <1>3 DEF Inv, RevokedInv, IsBlacklisted
    <3>2. s.id # r.id
      BY <2>1, <3>1, <1>3 DEF Inv, DBIntegrity
    <3> QED BY <3>1, <3>2, <1>2, <1>3 DEF IsBlacklisted
  <2> QED BY <2>1, <1>2, <1>3 DEF Inv, RevokedInv, FirstExp
<1> QED BY <1>1, <1>4, <1>5, <1>6 DEF Inv

\* Account requests, the clock and stuttering touch no token.
LEMMA InvAccountsAndClock ==
  ASSUME Inv,
         \/ Tick /\ UNCHANGED <<req, grants>>
         \/ \E w \in AccountWorkers : AccountStep(w) /\ UNCHANGED <<req, grants>>
         \/ UNCHANGED vars
  PROVE  Inv'
<1>1. SlidingTypeOK'
  BY SlidingTypeOtherStep DEF Inv, TablesStep, vars
<1>2. /\ UNCHANGED <<outstanding, blacklisted, rows, jtis, grants, revoked,
                     deleted, req>>
      /\ now' \in Nat /\ now <= now'
  <2>1. CASE Tick /\ UNCHANGED <<req, grants>>
    BY <2>1, InvNumbers DEF Tick, accountVars, history
  <2>2. CASE \E w \in AccountWorkers :
               AccountStep(w) /\ UNCHANGED <<req, grants>>
    BY <2>2, AccountStepKeepsTables, InvNumbers DEF tableVars, history
  <2>3. CASE UNCHANGED vars
    BY <2>3, InvNumbers DEF vars, accountVars, tableVars, history
  <2> QED BY <2>1, <2>2, <2>3
<1>3. ReqInv'
  BY <1>2 DEF Inv, ReqInv
<1> QED BY <1>1, <1>2, <1>3, InvQuiet

\* The invariant holds for every number of workers, users, versions and ticks.
THEOREM SlidingInvCorrect == Spec => []Inv
<1>1. ASSUME Inv, [Next]_vars PROVE Inv'
  <2>1. ASSUME NEW w \in TokenWorkers, SlidingStep(w) PROVE Inv'
    BY <1>1, <2>1, InvReqOnly, InvLoginIssue, InvRefreshAnswer DEF SlidingStep
  <2>2. ASSUME TablesStep, UNCHANGED <<req, grants>> PROVE Inv'
    BY <1>1, <2>2, InvFlush, InvDelete, InvAdminBlacklist, InvAdminRestore,
       InvAccountsAndClock DEF TablesStep
  <2>3. CASE \/ \E w \in AccountWorkers :
                  AccountStep(w) /\ UNCHANGED <<req, grants>>
             \/ UNCHANGED vars
    BY <1>1, <2>3, InvAccountsAndClock
  <2> QED BY <1>1, <2>1, <2>2, <2>3 DEF Next
<1> QED BY InvInit, <1>1, PTL DEF Spec

-----------------------------------------------------------------------------
(* The properties. *)

\* Blacklisting one version stops every version of its family until the
\* family's first exp.
THEOREM RevocationReachesFamily == Spec => []RevocationCoversFamily
<1>1. Inv => RevocationCoversFamily
  <2> SUFFICES ASSUME Inv, NEW g \in grants, NEW h \in grants,
                      h.family = g.family, h.token.jti \in revoked,
                      FirstExp(g) > now, g.token.user_id \notin deleted
               PROVE  ~Refreshes(g.token) /\ ~Authenticates(g.token)
    BY DEF RevocationCoversFamily
  <2>1. g.token.jti \in revoked
    BY DEF Inv, FamilyInv
  <2>2. IsBlacklisted(g.token.jti)
    BY <2>1 DEF Inv, RevokedInv
  <2> QED BY <2>2 DEF Refreshes, Authenticates, verify
<1> QED BY <1>1, SlidingInvCorrect, PTL

\* Until then the family's row is in the outstanding list.
THEOREM FamiliesListed == Spec => []FamilyStaysListed
<1>1. Inv => FamilyStaysListed
  BY DEF Inv
<1> QED BY <1>1, SlidingInvCorrect, PTL

\* No sequence of refreshes keeps a token alive past its bound.
THEOREM SessionsEnd == Spec => []SessionBounded
<1>1. Inv => SessionBounded
  BY DEF Inv
<1> QED BY <1>1, SlidingInvCorrect, PTL

\* Under CHECK_REVOKE_TOKEN a changed password shuts every version out.
THEOREM SlidingPasswordLocksOut == Spec => []StalePasswordRefused
<1>1. Inv => StalePasswordRefused
  <2> SUFFICES ASSUME Inv, CHECK_REVOKE_TOKEN, NEW g \in grants,
                      Authenticates(g.token)
               PROVE  g.login = users[g.token.user_id].password.salt
    BY DEF StalePasswordRefused
  <2>1. g.token.hash_password = PasswordHash(g.login)
    BY DEF Inv, FamilyInv, RevokeClaim
  <2>2. g.token.hash_password
          = PasswordHash(users[g.token.user_id].password.salt)
    BY DEF Authenticates
  <2> QED BY <2>1, <2>2 DEF PasswordHash
<1> QED BY <1>1, SlidingInvCorrect, PTL
=============================================================================
