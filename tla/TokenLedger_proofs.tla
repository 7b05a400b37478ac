------------------------- MODULE TokenLedger_proofs -------------------------
(***************************************************************************)
(* Proof that TokenService implements TokenLedger, for every value of the  *)
(* constants: each stage of a request, each statement on the tables and    *)
(* each deletion is one step of the ledger, or none.                       *)
(*                                                                         *)
(* The mapping is LedgerUsing and LedgerVoid; beside Inv it needs that an  *)
(* outstanding row is for a token that was handed out (IssuedRowsInv).     *)
(***************************************************************************)
EXTENDS TokenService_proofs

\* What a request is to the ledger.
UsingOf(r) ==
  IF r.pc \in {"idle", "issue"} THEN [at |-> "free"]
  ELSE [at |-> LedgerStage(r.pc), op |-> r.op,
        token |-> r.grant.token, time |-> r.time]

\* A login in progress, or nothing in progress, presents no token.
LEMMA UsingFree ==
  ASSUME NEW r, r.pc \in {"idle", "issue"}
  PROVE  UsingOf(r) = [at |-> "free"]
BY DEF UsingOf

\* Past authentication a request presents the token it holds.
LEMMA UsingToken ==
  ASSUME NEW r, r.pc \in {"check", "outstand", "blacklist", "respond"}
  PROVE  /\ UsingOf(r) = [at |-> LedgerStage(r.pc), op |-> r.op,
                          token |-> r.grant.token, time |-> r.time]
         /\ UsingOf(r).at = LedgerStage(r.pc)
         /\ UsingOf(r).op = r.op
         /\ UsingOf(r).token = r.grant.token
         /\ UsingOf(r).time = r.time
         /\ UsingOf(r) # [at |-> "free"]
<1>1. UsingOf(r) = [at |-> LedgerStage(r.pc), op |-> r.op,
                    token |-> r.grant.token, time |-> r.time]
  BY DEF UsingOf
<1>2. LedgerStage(r.pc) # "free"
  BY DEF LedgerStage
<1>3. [at |-> "free"].at = "free"
  OBVIOUS
<1> QED BY <1>1, <1>2, <1>3

\* How far each stage is with the token.
LEMMA Stages ==
  /\ LedgerStage("check") = "presented"
  /\ LedgerStage("outstand") = "admitted"
  /\ LedgerStage("blacklist") = "admitted"
  /\ LedgerStage("respond") = "cleared"
BY DEF LedgerStage

\* A step of one worker is a step of its presenter.
LEMMA UsingStep ==
  ASSUME req \in [TokenWorkers -> TokenRequests], NEW w \in TokenWorkers,
         NEW r, req' = [req EXCEPT ![w] = r]
  PROVE  /\ LedgerUsing' = [LedgerUsing EXCEPT ![w] = UsingOf(r)]
         /\ LedgerUsing[w] = UsingOf(req[w])
BY DEF LedgerUsing, UsingOf

\* Initially nothing is issued, void or in use.
LEMMA LedgerInitially == Init => Ledger!LedgerInit
<1> SUFFICES ASSUME Init PROVE Ledger!LedgerInit
  OBVIOUS
<1>1. now = 0 /\ grants = {} /\ deleted = {} /\ outstanding = {}
  BY DEF Init, TablesInit, AccountsInit
<1>2. LedgerVoid = {}
  BY <1>1 DEF LedgerVoid
<1>3. LedgerUsing = [p \in TokenWorkers |-> [at |-> "free"]]
  BY DEF Init, LedgerUsing, Idle
<1> QED BY <1>1, <1>2, <1>3 DEF Ledger!LedgerInit, Ledger!Free

-----------------------------------------------------------------------------
(* Rows are for tokens that were handed out. *)

IssuedRowsInv ==
  \A r \in outstanding : \E g \in grants : r.jti = g.token.jti

LedgerInv == Inv /\ IssuedRowsInv

\* Rows are inserted with the token of a login, or for a token presented.
LEMMA IssuedRowsStep == LedgerInv /\ [Next]_vars => LedgerInv'
<1> SUFFICES ASSUME LedgerInv, [Next]_vars PROVE LedgerInv'
  OBVIOUS
<1>1. Inv /\ Inv'
  BY InvStep DEF LedgerInv
<1>2. \A r \in outstanding : \E g \in grants : r.jti = g.token.jti
  BY DEF LedgerInv, IssuedRowsInv
<1>3. ASSUME grants \subseteq grants', outstanding' \subseteq outstanding
      PROVE  IssuedRowsInv'
  BY <1>2, <1>3 DEF IssuedRowsInv
<1>4. ASSUME NEW w \in TokenWorkers, TokenStep(w)
      PROVE  IssuedRowsInv'
  <2>1. CASE LoginIssue(w)
    <3> DEFINE refresh == for_user(req[w].user, LoginSalt(req[w]), now, jtis + 1)
               gr == [token |-> refresh, parent |-> NoId, login |-> req[w].salt]
    <3>1. /\ grants \subseteq grants' /\ gr \in grants'
          /\ \A r \in outstanding' : r \in outstanding \/ r.jti = refresh.jti
      BY <2>1 DEF LoginIssue, Insert
    <3>2. gr.token.jti = refresh.jti
      OBVIOUS
    <3> HIDE DEF gr, refresh
    <3> QED BY <1>2, <3>1, <3>2 DEF IssuedRowsInv
  <2>2. CASE TokenOutstand(w)
    <3>1. req[w].grant \in grants
      BY <1>1, <2>2 DEF TokenOutstand, Inv, ReqInv
    <3>2. /\ grants' = grants
          /\ \A r \in outstanding' :
               r \in outstanding \/ r.jti = req[w].grant.token.jti
      BY <2>2 DEF TokenOutstand, Insert
    <3> QED BY <1>2, <3>1, <3>2 DEF IssuedRowsInv
  <2>3. CASE RefreshRespond(w)
    BY <1>3, <2>3 DEF RefreshRespond
  <2>4. CASE \/ LoginAuthenticate(w) \/ TokenBegin(w) \/ TokenAdmit(w)
             \/ TokenReject(w) \/ TokenBlacklist(w) \/ TokenAbort(w)
    BY <1>3, <2>4 DEF LoginAuthenticate, TokenBegin, TokenAdmit, TokenReject,
                      TokenBlacklist, TokenAbort, tableVars
  <2> QED BY <1>4, <2>1, <2>2, <2>3, <2>4 DEF TokenStep
<1>5. ASSUME TablesStep, UNCHANGED <<req, grants>>
      PROVE  IssuedRowsInv'
  BY <1>3, <1>5 DEF TablesStep, FlushExpiredTokens, AdminBlacklist,
     AdminRestore, DeleteUserCascade, Keep, Tick
<1>6. ASSUME NEW w \in AccountWorkers, AccountStep(w), UNCHANGED <<req, grants>>
      PROVE  IssuedRowsInv'
  BY <1>3, <1>6 DEF AccountStep, tableVars
<1>7. ASSUME UNCHANGED vars
      PROVE  IssuedRowsInv'
  BY <1>3, <1>7 DEF vars, tableVars
<1>8. IssuedRowsInv'
  BY <1>4, <1>5, <1>6, <1>7 DEF Next
<1> QED BY <1>1, <1>8 DEF LedgerInv

\* The empty tables have no row for anything.
LEMMA IssuedRowsInit == Init => LedgerInv
BY InvInit DEF LedgerInv, IssuedRowsInv, Init, TablesInit

-----------------------------------------------------------------------------
(* What is void. *)

\* A row that is inserted voids nothing: no blacklist entry is for its id.
LEMMA VoidKept ==
  ASSUME Inv, UNCHANGED blacklisted,
         \A r \in outstanding : r \in outstanding',
         \A r \in outstanding' : r \in outstanding \/ r.id = rows + 1
  PROVE  LedgerVoid' = LedgerVoid
<1>1. rows \in Nat /\ \A r \in outstanding : r.id \in Nat /\ r.id <= rows
  BY DEF Inv, TypeOK, TablesTypeOK, RowsInv, Rows
<1>2. rows + 1 \notin blacklisted
  BY <1>1 DEF Inv, DBIntegrity
<1> QED BY <1>2 DEF LedgerVoid

\* The ledger's refusal is the lookup in the blacklist.
LEMMA VoidIsBlacklisted ==
  ASSUME NEW j
  PROVE  j \in LedgerVoid <=> IsBlacklisted(j)
BY DEF LedgerVoid, IsBlacklisted

-----------------------------------------------------------------------------
(* The stages of a request. *)

\* A login's tokens are minted under fresh jtis, from each other or from none.
LEMMA LoginIsLogin ==
  ASSUME Inv, NEW w \in TokenWorkers, LoginIssue(w)
  PROVE  Ledger!Login
<1> DEFINE r == req[w]
           refresh == for_user(r.user, LoginSalt(r), now, jtis + 1)
           access == access_token(refresh, now, jtis + 2)
           gr == [token |-> refresh, parent |-> NoId, login |-> r.salt]
           ga == [token |-> access, parent |-> refresh.jti, login |-> r.salt]
<1>1. /\ req \in [TokenWorkers -> TokenRequests] /\ jtis \in Nat
      /\ \A g \in grants : g.token.jti \in Nat /\ g.token.jti <= jtis
  BY DEF Inv, TypeOK, TablesTypeOK, GrantsInv, Grants, Claims, Jtis
<1>2. /\ gr.token.jti = jtis + 1 /\ gr.parent = NoId
      /\ gr.token.token_type = "refresh" /\ gr.token.exp = RefreshExp(now)
      /\ ga.token.jti = jtis + 2 /\ ga.parent = gr.token.jti
      /\ ga.token.token_type = "access" /\ ga.token.exp = AccessExp(now)
  BY DEF for_user, access_token
<1>3. /\ grants' = grants \cup {gr, ga}
      /\ req' = [req EXCEPT ![w] = Idle]
      /\ UNCHANGED <<now, blacklisted, deleted>>
      /\ \A s \in outstanding : s \in outstanding'
      /\ \A s \in outstanding' : s \in outstanding \/ s.id = rows + 1
  BY DEF LoginIssue, Insert, Finish, accountVars
<1> HIDE DEF gr, ga
<1>4. LedgerVoid' = LedgerVoid
  BY <1>3, VoidKept
<1>5. LedgerUsing' = LedgerUsing
  <2>1. UsingOf(req[w]) = [at |-> "free"] /\ UsingOf(Idle) = [at |-> "free"]
    BY UsingFree DEF LoginIssue, Idle
  <2>2. LedgerUsing' = [LedgerUsing EXCEPT ![w] = LedgerUsing[w]]
    BY <1>1, <1>3, <2>1, UsingStep
  <2> QED BY <2>2 DEF LedgerUsing
<1>6. gr \notin grants /\ \A g \in grants' \ grants : g = gr \/ g = ga
  BY <1>1, <1>2, <1>3
<1>7. Ledger!Mint(now)
  BY <1>1, <1>2, <1>3, <1>6
  DEF Ledger!Mint, Ledger!IssuedJtis, Ledger!AccessExp, Ledger!RefreshExp,
      AccessExp, RefreshExp
<1>8. \A i \in grants' \ grants :
        i.parent = 0 \/ \E j \in grants' \ grants : i.parent = j.token.jti
  BY <1>2, <1>3, <1>6 DEF NoId
<1> QED
  BY <1>3, <1>4, <1>5, <1>7, <1>8 DEF Ledger!Login, Ledger!NoParent

\* RefreshToken(...) presents the token; the blacklist lookup lets it in.
LEMMA BeginIsPresent ==
  ASSUME Inv, NEW w \in TokenWorkers, TokenBegin(w)
  PROVE  Ledger!Present(w)
<1>1. /\ req \in [TokenWorkers -> TokenRequests]
      /\ req[w] = Idle
      /\ UNCHANGED <<now, grants, outstanding, blacklisted, deleted>>
  BY DEF Inv, TypeOK, TokenBegin, accountVars, tableVars
<1>2. PICK g \in grants, op \in {"refresh", "blacklist"} :
        /\ check_exp(g.token, now)
        /\ req' = [req EXCEPT ![w] =
             [pc |-> "check", op |-> op, grant |-> g, time |-> now]]
  BY DEF TokenBegin
<1> DEFINE r == [pc |-> "check", op |-> op, grant |-> g, time |-> now]
<1>3. LedgerVoid' = LedgerVoid
  BY <1>1 DEF LedgerVoid
<1>4. LedgerUsing[w] = [at |-> "free"]
      /\ LedgerUsing' = [LedgerUsing EXCEPT ![w] = UsingOf(r)]
  <2>1. UsingOf(Idle) = [at |-> "free"]
    BY UsingFree DEF Idle
  <2> QED BY <1>1, <1>2, <2>1, UsingStep
<1>5. UsingOf(r) = [at |-> "presented", op |-> op, token |-> g.token,
                    time |-> now]
  <2>1. r.pc = "check" /\ r.op = op /\ r.grant = g /\ r.time = now
    OBVIOUS
  <2> HIDE DEF r
  <2> QED BY <2>1, UsingToken, Stages
<1> QED
  BY <1>1, <1>2, <1>3, <1>4, <1>5
  DEF Ledger!Present, Ledger!Free, Ledger!Step, Ledger!check_exp, check_exp

\* The blacklist lookup, exp and the type let the token in.
LEMMA AdmitIsAdmit ==
  ASSUME Inv, NEW w \in TokenWorkers, TokenAdmit(w)
  PROVE  Ledger!Admit(w)
<1> DEFINE q == req[w]
           r == [req[w] EXCEPT !.pc = NextStage(req[w].op)]
<1>1. /\ req \in [TokenWorkers -> TokenRequests]
      /\ q.pc = "check"
      /\ UNCHANGED <<now, grants, outstanding, blacklisted, deleted>>
      /\ verify(q.grant.token, q.time)
      /\ req' = [req EXCEPT ![w] = r]
  BY DEF Inv, TypeOK, TokenAdmit, accountVars, tableVars
<1>2. q \in [pc : {"check", "outstand", "respond"},
             op : {"refresh", "blacklist"}, grant : Grants, time : Times]
  BY <1>1, TokenRequestShape
<1>3. /\ r.pc = NextStage(q.op) /\ r.op = q.op /\ r.grant = q.grant
      /\ r.time = q.time
  BY <1>2
<1> DEFINE at == IF q.op = "refresh"
                    /\ ~(ROTATE_REFRESH_TOKENS /\ BLACKLIST_AFTER_ROTATION)
                 THEN "cleared" ELSE "admitted"
<1>4. r.pc \in {"outstand", "respond"} /\ LedgerStage(r.pc) = at
  BY <1>2, <1>3, Stages DEF NextStage
<1>5. LedgerVoid' = LedgerVoid
  BY <1>1 DEF LedgerVoid
<1> HIDE DEF r, q
<1>6. /\ LedgerUsing[w] = UsingOf(q)
      /\ LedgerUsing' = [LedgerUsing EXCEPT ![w] = UsingOf(r)]
  BY <1>1, UsingStep DEF q
<1>7. /\ UsingOf(q) = [at |-> "presented", op |-> q.op,
                       token |-> q.grant.token, time |-> q.time]
      /\ UsingOf(q).at = "presented"
      /\ UsingOf(q).op = q.op
      /\ UsingOf(q).token = q.grant.token
      /\ UsingOf(q).time = q.time
  BY <1>1, UsingToken, Stages
<1>8. UsingOf(r) = [at |-> at, op |-> q.op,
                    token |-> q.grant.token, time |-> q.time]
  BY <1>3, <1>4, UsingToken
<1> HIDE DEF at
<1>9. UsingOf(r) = [UsingOf(q) EXCEPT !.at = at]
  BY <1>7, <1>8
<1>10. /\ q.grant.token.jti \notin LedgerVoid
       /\ q.grant.token.token_type = "refresh"
       /\ Ledger!check_exp(q.grant.token, q.time)
  BY <1>1, VoidIsBlacklisted DEF verify, check_exp, Ledger!check_exp
<1> QED
  BY <1>1, <1>5, <1>6, <1>7, <1>9, <1>10 DEF Ledger!Admit, Ledger!Step, at

\* A refusal, or an end on the way, is an end; a login's is none.
LEMMA FinishIsEnd ==
  ASSUME Inv, NEW w \in TokenWorkers, TokenReject(w) \/ TokenAbort(w)
  PROVE  Ledger!End(w) \/ UNCHANGED Ledger!ledgerVars
<1>1. /\ req \in [TokenWorkers -> TokenRequests]
      /\ req[w].pc \in {"idle", "issue", "check", "outstand", "blacklist",
                        "respond"}
      /\ UNCHANGED <<now, grants, outstanding, blacklisted, deleted>>
      /\ req' = [req EXCEPT ![w] = Idle]
  BY DEF Inv, TypeOK, TokenRequests, Idle, TokenReject, TokenAbort, Finish,
         accountVars, tableVars
<1>2. LedgerVoid' = LedgerVoid
  BY <1>1 DEF LedgerVoid
<1>3. /\ LedgerUsing[w] = UsingOf(req[w])
      /\ LedgerUsing' = [LedgerUsing EXCEPT ![w] = [at |-> "free"]]
  <2>1. UsingOf(Idle) = [at |-> "free"]
    BY UsingFree DEF Idle
  <2> QED BY <1>1, <2>1, UsingStep
<1>4. CASE req[w].pc \in {"idle", "issue"}
  <2>1. LedgerUsing[w] = [at |-> "free"]
    BY <1>3, <1>4, UsingFree
  <2>2. LedgerUsing' = LedgerUsing
    BY <1>3, <2>1 DEF LedgerUsing
  <2> QED BY <1>1, <1>2, <2>2 DEF Ledger!ledgerVars
<1>5. CASE req[w].pc \in {"check", "outstand", "blacklist", "respond"}
  <2>1. LedgerUsing[w] # [at |-> "free"]
    BY <1>3, <1>5, UsingToken
  <2> QED
    BY <1>1, <1>2, <1>3, <2>1 DEF Ledger!End, Ledger!Free, Ledger!Step
<1> QED BY <1>1, <1>4, <1>5

\* Authentication, and ensuring the outstanding row, are no steps of it.
LEMMA PrepareIsStutter ==
  ASSUME Inv, NEW w \in TokenWorkers,
         LoginAuthenticate(w) \/ TokenOutstand(w)
  PROVE  UNCHANGED Ledger!ledgerVars
<1>1. /\ req \in [TokenWorkers -> TokenRequests]
      /\ UNCHANGED <<now, grants, blacklisted, deleted>>
  BY DEF Inv, TypeOK, LoginAuthenticate, TokenOutstand, accountVars, tableVars
<1>2. CASE LoginAuthenticate(w)
  <2>1. PICK u \in UserIds :
          req' = [req EXCEPT ![w] =
            [pc |-> "issue", user |-> u, salt |-> users[u].password.salt]]
    BY <1>2 DEF LoginAuthenticate
  <2> DEFINE r == [pc |-> "issue", user |-> u, salt |-> users[u].password.salt]
  <2>2. /\ r.pc = "issue" /\ req[w].pc = "idle"
        /\ req' = [req EXCEPT ![w] = r]
    <3>1. req[w].pc = "idle"
      BY <1>2 DEF LoginAuthenticate, Idle
    <3>2. r.pc = "issue"
      OBVIOUS
    <3> QED BY <2>1, <3>1, <3>2
  <2> HIDE DEF r
  <2>3. UsingOf(r) = [at |-> "free"] /\ UsingOf(req[w]) = [at |-> "free"]
    BY <2>2, UsingFree
  <2>4. LedgerUsing' = [LedgerUsing EXCEPT ![w] = LedgerUsing[w]]
    BY <1>1, <2>2, <2>3, UsingStep
  <2>5. LedgerUsing' = LedgerUsing
    BY <2>4 DEF LedgerUsing
  <2>6. outstanding' = outstanding
    BY <1>2 DEF LoginAuthenticate, tableVars
  <2>7. LedgerVoid' = LedgerVoid
    BY <1>1, <2>6 DEF LedgerVoid
  <2> QED BY <1>1, <2>5, <2>7 DEF Ledger!ledgerVars
<1>3. CASE TokenOutstand(w)
  <2>1. PICK id \in Nat :
          req' = [req EXCEPT ![w] =
            [pc |-> "blacklist", op |-> req[w].op, grant |-> req[w].grant,
             time |-> req[w].time, row |-> id]]
    <3>1. rows + 1 \in Nat /\ \A r \in outstanding : r.id \in Nat
      BY DEF Inv, TypeOK, TablesTypeOK, Rows
    <3> QED BY <1>3, <3>1 DEF TokenOutstand
  <2> DEFINE r == [pc |-> "blacklist", op |-> req[w].op,
                   grant |-> req[w].grant, time |-> req[w].time, row |-> id]
  <2>2. /\ r.pc = "blacklist" /\ req[w].pc = "outstand" /\ r.op = req[w].op
        /\ r.grant = req[w].grant /\ r.time = req[w].time
    BY <1>3 DEF TokenOutstand
  <2>3. /\ \A s \in outstanding : s \in outstanding'
        /\ \A s \in outstanding' : s \in outstanding \/ s.id = rows + 1
    BY <1>3 DEF TokenOutstand, Insert
  <2> HIDE DEF r
  <2>4. UsingOf(r) = UsingOf(req[w])
    BY <2>2, UsingToken, Stages
  <2>5. LedgerUsing' = [LedgerUsing EXCEPT ![w] = LedgerUsing[w]]
    BY <1>1, <2>1, <2>4, UsingStep DEF r
  <2>6. LedgerUsing' = LedgerUsing
    BY <2>5 DEF LedgerUsing
  <2>7. LedgerVoid' = LedgerVoid
    BY <1>1, <2>3, VoidKept
  <2> QED BY <1>1, <2>6, <2>7 DEF Ledger!ledgerVars
<1> QED BY <1>2, <1>3

\* Blacklisting makes the token void, and clears the refresh that rotates it.
LEMMA BlacklistIsSpend ==
  ASSUME Inv, NEW w \in TokenWorkers, TokenBlacklist(w)
  PROVE  Ledger!Spend(w)
<1> DEFINE q == req[w]
           r == IF q.op = "refresh"
                THEN [pc |-> "respond", op |-> "refresh", grant |-> q.grant,
                      time |-> q.time]
                ELSE Idle
<1>1. /\ req \in [TokenWorkers -> TokenRequests]
      /\ q.pc = "blacklist"
      /\ UNCHANGED <<now, grants, outstanding, deleted>>
      /\ blacklisted' = blacklisted \cup {q.row}
      /\ req' = [req EXCEPT ![w] = r]
  BY DEF Inv, TypeOK, TokenBlacklist, Finish, accountVars
<1>2. LedgerVoid' = LedgerVoid \cup {q.grant.token.jti}
  <2>1. PICK s \in outstanding : s.id = q.row
    BY DEF TokenBlacklist
  <2>2. \A t \in outstanding : t.id = q.row => t.jti = q.grant.token.jti
    BY <1>1 DEF Inv, ReqInv
  <2> HIDE DEF q
  <2> QED BY <1>1, <2>1, <2>2 DEF LedgerVoid
<1>3. \/ q.op = "refresh" /\ r.pc = "respond" /\ r.op = q.op
         /\ r.grant = q.grant /\ r.time = q.time
      \/ q.op # "refresh" /\ r.pc = "idle"
  BY DEF Idle
<1> HIDE DEF r, q
<1>4. /\ LedgerUsing[w] = UsingOf(q)
      /\ LedgerUsing' = [LedgerUsing EXCEPT ![w] = UsingOf(r)]
  BY <1>1, UsingStep DEF q
<1>5. /\ UsingOf(q) = [at |-> "admitted", op |-> q.op,
                       token |-> q.grant.token, time |-> q.time]
      /\ UsingOf(q).at = "admitted"
      /\ UsingOf(q).op = q.op
      /\ UsingOf(q).token = q.grant.token
  BY <1>1, UsingToken, Stages
<1>6. UsingOf(r) = IF UsingOf(q).op = "refresh"
                   THEN [UsingOf(q) EXCEPT !.at = "cleared"]
                   ELSE [at |-> "free"]
  <2>1. CASE q.op = "refresh"
    <3>1. UsingOf(r) = [at |-> "cleared", op |-> q.op,
                        token |-> q.grant.token, time |-> q.time]
      BY <1>3, <2>1, UsingToken, Stages
    <3> QED BY <1>5, <2>1, <3>1
  <2>2. CASE q.op # "refresh"
    BY <1>3, <1>5, <2>2, UsingFree
  <2> QED BY <2>1, <2>2
<1> QED
  BY <1>1, <1>2, <1>4, <1>5, <1>6
  DEF Ledger!Spend, Ledger!Step, Ledger!Free

\* The answer mints from the token presented, counting from its time.
LEMMA RespondIsAnswer ==
  ASSUME Inv, NEW w \in TokenWorkers, RefreshRespond(w)
  PROVE  Ledger!Answer(w)
<1> DEFINE q == req[w]
           g0 == q.grant
           time == MintTime(q)
           access == access_token(g0.token, time, jtis + 1)
           next == rotated(g0.token, time, jtis + 2)
           Child(t) == [token |-> t, parent |-> g0.token.jti,
                        login |-> g0.login]
           ca == Child(access)
           cn == Child(next)
<1>1. /\ jtis \in Nat /\ req \in [TokenWorkers -> TokenRequests]
      /\ q.pc = "respond"
      /\ g0.token \in Claims /\ g0.token.token_type = "refresh"
      /\ \A g \in grants : g.token.jti \in Nat /\ g.token.jti <= jtis
  BY DEF Inv, TypeOK, TablesTypeOK, Grants, ReqInv, GrantsInv, Claims, Jtis,
         RefreshRespond
<1>2. /\ ca.token.jti = jtis + 1 /\ ca.parent = g0.token.jti
      /\ ca.token.token_type = "access" /\ ca.token.exp = AccessExp(time)
      /\ ca.token.user_id = g0.token.user_id
      /\ ca.token.hash_password = g0.token.hash_password
      /\ cn.token.jti = jtis + 2 /\ cn.parent = g0.token.jti
      /\ cn.token.token_type = "refresh" /\ cn.token.exp = RefreshExp(time)
      /\ cn.token.user_id = g0.token.user_id
      /\ cn.token.hash_password = g0.token.hash_password
  BY <1>1 DEF access_token, rotated, Claims
<1>3. /\ \/ grants' = grants \cup {ca, cn}
         \/ grants' = grants \cup {ca}
      /\ req' = [req EXCEPT ![w] = Idle]
      /\ UNCHANGED <<now, outstanding, blacklisted, deleted>>
  BY DEF RefreshRespond, Finish, accountVars
<1> HIDE DEF ca, cn
<1>4. LedgerVoid' = LedgerVoid
  BY <1>3 DEF LedgerVoid
<1>5. /\ LedgerUsing[w] = UsingOf(q)
      /\ LedgerUsing' = [LedgerUsing EXCEPT ![w] = [at |-> "free"]]
  <2>1. UsingOf(Idle) = [at |-> "free"]
    BY UsingFree DEF Idle
  <2>2. req \in [TokenWorkers -> TokenRequests]
        /\ req' = [req EXCEPT ![w] = Idle]
    BY <1>1, <1>3
  <2>3. /\ LedgerUsing' = [LedgerUsing EXCEPT ![w] = UsingOf(Idle)]
        /\ LedgerUsing[w] = UsingOf(req[w])
    BY <2>2, UsingStep
  <2> QED BY <2>1, <2>3
<1>6. /\ LedgerUsing[w].at = "cleared"
      /\ LedgerUsing[w].token = g0.token
      /\ LedgerUsing[w].time = time
  BY <1>1, <1>5, UsingToken, Stages DEF MintTime
<1>7. \A g \in grants' \ grants : g = ca \/ g = cn
  BY <1>3
<1>8. Ledger!Mint(time)
  BY <1>1, <1>2, <1>3, <1>7
  DEF Ledger!Mint, Ledger!IssuedJtis, Ledger!AccessExp, Ledger!RefreshExp,
      AccessExp, RefreshExp
<1> HIDE DEF time, g0, q
<1> QED
  BY <1>2, <1>3, <1>4, <1>5, <1>6, <1>7, <1>8
  DEF Ledger!Answer, Ledger!Step, Ledger!Free

-----------------------------------------------------------------------------
(* What runs beside the requests. *)

\* Rows that go are those of expired tokens or of the user being deleted.
LEMMA RemovalIsForget ==
  ASSUME Inv, UNCHANGED <<req, grants>>,
         FlushExpiredTokens \/ \E u \in UserIds : DeleteUserCascade(u)
  PROVE  Ledger!Forget
<1>1. /\ now' = now /\ LedgerUsing' = LedgerUsing
      /\ deleted \subseteq deleted'
      /\ outstanding' \subseteq outstanding
      /\ blacklisted' \subseteq blacklisted
      /\ \A b \in blacklisted :
           (\E r \in outstanding' : r.id = b) => b \in blacklisted'
  <2>1. LedgerUsing' = LedgerUsing
    BY DEF LedgerUsing
  <2>2. CASE FlushExpiredTokens
    BY <2>1, <2>2 DEF FlushExpiredTokens, Keep, CascadeTo, accountVars
  <2>3. ASSUME NEW u \in UserIds, DeleteUserCascade(u)
        PROVE  /\ now' = now
               /\ deleted \subseteq deleted'
               /\ outstanding' \subseteq outstanding
               /\ blacklisted' \subseteq blacklisted
               /\ \A b \in blacklisted :
                    (\E r \in outstanding' : r.id = b) => b \in blacklisted'
    BY <2>3 DEF DeleteUserCascade, DeleteUser, Keep, CascadeTo
  <2> QED BY <2>1, <2>2, <2>3
<1>2. ASSUME NEW r \in outstanding, r \notin outstanding',
             NEW g \in grants, g.token.jti = r.jti
      PROVE  g.token.exp <= now \/ g.token.user_id \in deleted'
  <2>1. r.expires_at = g.token.exp /\ r.user \in {NoId, g.token.user_id}
    BY <1>2 DEF Inv, RowsInv
  <2>2. CASE FlushExpiredTokens
    BY <1>2, <2>1, <2>2 DEF FlushExpiredTokens, Keep, Flushable
  <2>3. ASSUME NEW u \in UserIds, DeleteUserCascade(u)
        PROVE  g.token.user_id \in deleted'
    <3>1. r.user = u /\ u \in deleted'
      BY <1>2, <2>3 DEF DeleteUserCascade, DeleteUser, Keep
    <3>2. u # NoId
      BY AccountsAssumption DEF UserIds, NoId
    <3> QED BY <2>1, <3>1, <3>2
  <2> QED BY <2>2, <2>3
<1>3. LedgerVoid' \subseteq LedgerVoid
  BY <1>1 DEF LedgerVoid
<1>4. ASSUME NEW g \in grants, g.token.jti \in LedgerVoid \ LedgerVoid'
      PROVE  g.token.exp <= now \/ g.token.user_id \in deleted'
  <2>1. PICK r \in outstanding : r.jti = g.token.jti /\ r.id \in blacklisted
    BY <1>4 DEF LedgerVoid
  <2>2. r \notin outstanding'
    BY <1>1, <1>4, <2>1 DEF LedgerVoid
  <2> QED BY <1>2, <2>1, <2>2
<1> QED BY <1>1, <1>3, <1>4 DEF Ledger!Forget

\* The admin's entry makes the token of its row void.
LEMMA AdminIsVoid ==
  ASSUME LedgerInv, UNCHANGED <<req, grants>>, AdminBlacklist
  PROVE  Ledger!AdminVoid
<1>1. PICK r \in outstanding : blacklisted' = blacklisted \cup {r.id}
  BY DEF AdminBlacklist
<1>2. UNCHANGED <<now, outstanding, deleted>> /\ LedgerUsing' = LedgerUsing
  BY DEF AdminBlacklist, accountVars, LedgerUsing
<1>3. PICK g \in grants : r.jti = g.token.jti
  BY DEF LedgerInv, IssuedRowsInv
<1>4. LedgerVoid' = LedgerVoid \cup {r.jti}
  BY <1>1, <1>2 DEF LedgerVoid, LedgerInv, Inv, DBIntegrity
<1> QED BY <1>2, <1>3, <1>4 DEF Ledger!AdminVoid, Ledger!IssuedJtis

\* Its removal makes that token good again and no other.
LEMMA AdminIsUnvoid ==
  ASSUME Inv, UNCHANGED <<req, grants>>, AdminRestore
  PROVE  Ledger!AdminUnvoid
<1>1. PICK r \in outstanding : /\ r.id \in blacklisted
                               /\ blacklisted' = blacklisted \ {r.id}
  BY DEF AdminRestore
<1>2. UNCHANGED <<now, outstanding, deleted>> /\ LedgerUsing' = LedgerUsing
  BY DEF AdminRestore, accountVars, LedgerUsing
<1>3. r.jti \in LedgerVoid
  BY <1>1 DEF LedgerVoid
<1>4. \A s \in outstanding : (s.id = r.id \/ s.jti = r.jti) => s = r
  BY DEF Inv, DBIntegrity
<1>5. LedgerVoid' = LedgerVoid \ {r.jti}
  BY <1>1, <1>2, <1>4 DEF LedgerVoid
<1> QED BY <1>2, <1>3, <1>5 DEF Ledger!AdminUnvoid

\* The clock ticks for the ledger too.
LEMMA ClockIsTock ==
  ASSUME UNCHANGED <<req, grants>>, Tick
  PROVE  Ledger!Tock
BY DEF Tick, accountVars, Ledger!Tock, LedgerVoid, LedgerUsing

\* Account requests are no steps of the ledger.
LEMMA AccountIsStutter ==
  ASSUME NEW w \in AccountWorkers, AccountStep(w), UNCHANGED <<req, grants>>
  PROVE  UNCHANGED Ledger!ledgerVars
<1>1. UNCHANGED <<now, outstanding, blacklisted, deleted>>
  BY AccountStepKeepsTables DEF tableVars
<1> QED BY <1>1 DEF Ledger!ledgerVars, LedgerVoid, LedgerUsing

\* Every step of the service is a step of the ledger or none.
LEMMA LedgerStep ==
  LedgerInv /\ [Next]_vars => [Ledger!LedgerNext]_(Ledger!ledgerVars)
<1> SUFFICES ASSUME LedgerInv, [Next]_vars
             PROVE  Ledger!LedgerNext \/ UNCHANGED Ledger!ledgerVars
  OBVIOUS
<1>1. Inv
  BY DEF LedgerInv
<1>2. ASSUME NEW w \in TokenWorkers, TokenStep(w)
      PROVE  Ledger!LedgerNext \/ UNCHANGED Ledger!ledgerVars
  <2>1. \/ Ledger!Login \/ UNCHANGED Ledger!ledgerVars
        \/ Ledger!Present(w) \/ Ledger!End(w) \/ Ledger!Admit(w)
        \/ Ledger!Spend(w) \/ Ledger!Answer(w)
    BY <1>1, <1>2, LoginIsLogin, BeginIsPresent, AdmitIsAdmit, FinishIsEnd,
       PrepareIsStutter, BlacklistIsSpend, RespondIsAnswer
    DEF TokenStep
  <2> QED BY <2>1 DEF Ledger!LedgerNext
<1>3. ASSUME TablesStep, UNCHANGED <<req, grants>>
      PROVE  Ledger!LedgerNext
  <2>1. \/ Ledger!Forget \/ Ledger!AdminVoid \/ Ledger!AdminUnvoid
        \/ Ledger!Tock
    BY <1>1, <1>3, RemovalIsForget, AdminIsVoid, AdminIsUnvoid, ClockIsTock
    DEF TablesStep
  <2> QED BY <2>1 DEF Ledger!LedgerNext
<1>4. ASSUME UNCHANGED vars
      PROVE  UNCHANGED Ledger!ledgerVars
  BY <1>4
  DEF vars, accountVars, tableVars, Ledger!ledgerVars, LedgerVoid, LedgerUsing
<1> QED BY <1>2, <1>3, <1>4, AccountIsStutter DEF Next

\* The token endpoints with their tables, stages, races, crashes, flushes and
\* cascades implement the ledger, for every number of workers and every
\* setting.
THEOREM ServiceImplementsLedger == Spec => ImplementsLedger
<1>1. Init => Ledger!LedgerInit
  BY LedgerInitially
<1>2. Spec => []LedgerInv
  BY IssuedRowsInit, IssuedRowsStep, PTL DEF Spec
<1> QED
  BY <1>1, <1>2, LedgerStep, PTL DEF Spec, ImplementsLedger, Ledger!LedgerSpec
=============================================================================
