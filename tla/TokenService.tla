---------------------------- MODULE TokenService ----------------------------
(***************************************************************************)
(* The token endpoints of an easyjwt auth service with the token_blacklist *)
(* app installed: obtain a pair, refresh and blacklist (logout), running   *)
(* beside what TokenTables and Accounts do.                                *)
(*                                                                         *)
(* A request is a sequence of database statements: its stages are separate *)
(* actions, so requests of several workers, the flush command, the admin   *)
(* and the clock interleave between them.  Statements are atomic (read     *)
(* committed); a worker may die between two of them.                       *)
(***************************************************************************)
EXTENDS TokenTables

CONSTANTS
  TokenWorkers,              \* server processes that run token requests
  ROTATE_REFRESH_TOKENS,     \* settings of the service
  BLACKLIST_AFTER_ROTATION

ASSUME TokenServiceAssumption ==
  /\ IsFiniteSet(TokenWorkers)
  /\ ROTATE_REFRESH_TOKENS \in BOOLEAN
  /\ BLACKLIST_AFTER_ROTATION \in BOOLEAN

VARIABLES
  req,           \* per worker, the token request it is running
  grants         \* history: every token handed to a client

vars == <<accountVars, tableVars, req, grants>>

\* A token a client got, the jti of the refresh token it was made from, and
\* the salt of the password that was verified at the login it descends from.
Grants == [token : Claims, parent : Nat, login : Nat]

\* Token requests in flight.  "time" is what Token.__init__ captured.
TokenRequests ==
  {Idle}
  \* credentials verified; holds the user object that authenticate returned
  \cup [pc : {"issue"}, user : UserIds, salt : Nat]
  \* about to look in the blacklist, to ensure the outstanding row, to answer
  \cup [pc : {"check", "outstand", "respond"}, op : {"refresh", "blacklist"},
        grant : Grants, time : Times]
  \* about to blacklist the outstanding row it has
  \cup [pc : {"blacklist"}, op : {"refresh", "blacklist"}, grant : Grants,
        time : Times, row : Nat]

-----------------------------------------------------------------------------
(* What the service decides from the tables. *)

\* Fault: the clock is read again when the answer is made.
MintTimeNow(r) == now

\* The time a response's tokens count from: that of the Token object.
MintTime(r) == r.time

\* Fault: the user is read again after the password was verified.
LoginSaltReread(r) == users[r.user].password.salt

\* The salt behind the revocation claim of a login: the user object in memory.
LoginSalt(r) == r.salt

\* Fault: verify does not look in the blacklist.
verifyUnlisted(t, current_time) ==
  check_exp(t, current_time) /\ t.token_type = "refresh"

\* BlacklistMixin.verify and Token.verify for a RefreshToken object made at
\* current_time: blacklist, exp, token type.
verify(t, current_time) ==
  /\ ~IsBlacklisted(t.jti)
  /\ check_exp(t, current_time)
  /\ t.token_type = "refresh"

\* The refresh endpoint would admit the token if nothing else ran now.
RefreshAccepts(t) == verify(t, now)

\* TokenVerifySerializer: UntypedToken does not look at type or blacklist; the
\* serializer looks in the blacklist under BLACKLIST_AFTER_ROTATION only.
VerifyAccepts(t) ==
  check_exp(t, now) /\ (BLACKLIST_AFTER_ROTATION => ~IsBlacklisted(t.jti))

\* JWTAuthentication with AccessToken: the user exists, is active, and under
\* CHECK_REVOKE_TOKEN still has the password the token was issued under.
Authenticates(t) ==
  /\ t.token_type = "access"
  /\ check_exp(t, now)
  /\ t.user_id \in UserIds /\ Exists(t.user_id)
  /\ users[t.user_id].is_active
  /\ CHECK_REVOKE_TOKEN =>
       t.hash_password = PasswordHash(users[t.user_id].password.salt)

-----------------------------------------------------------------------------
Init ==
  /\ TablesInit
  /\ req = [w \in TokenWorkers |-> Idle]
  /\ grants = {}

Finish(w) == req' = [req EXCEPT ![w] = Idle]

(* Obtain a pair. *)

\* TokenObtainSerializer.validate: authenticate and the active-user rule.
LoginAuthenticate(w) ==
  /\ req[w] = Idle
  /\ jtis < MaxJti
  /\ rows < MaxRows
  /\ \E u \in UserIds, e \in Emails, p \in Passwords :
       /\ authenticate(u, e, p)
       /\ req' = [req EXCEPT ![w] =
            [pc |-> "issue", user |-> u, salt |-> users[u].password.salt]]
  /\ UNCHANGED <<accountVars, tableVars, grants>>

\* get_token and the answer: the refresh token is made for the user object in
\* memory and recorded as outstanding, the access token derived from it.  The
\* insert needs the user row its foreign key points to.
LoginIssue(w) ==
  /\ req[w].pc = "issue"
  /\ Exists(req[w].user)
  /\ LET salt == LoginSalt(req[w])
         refresh == for_user(req[w].user, salt, now, jtis + 1)
     IN  /\ Insert(refresh.jti, req[w].user, refresh.exp)
         /\ grants' = grants \cup
              {[token |-> refresh, parent |-> NoId, login |-> req[w].salt],
               [token |-> access_token(refresh, now, jtis + 2),
                parent |-> refresh.jti, login |-> req[w].salt]}
  /\ jtis' = jtis + 2
  /\ Finish(w)
  /\ UNCHANGED <<accountVars, now, blacklisted, history>>

(* Refresh and blacklist. *)

\* RefreshToken(attrs["refresh"]) up to the decoder: the time is captured, a
\* token past exp refused there.
TokenBegin(w) ==
  /\ req[w] = Idle
  /\ \E g \in grants, op \in {"refresh", "blacklist"} :
       /\ op = "refresh" => jtis < MaxJti
       /\ check_exp(g.token, now)
       /\ req' = [req EXCEPT ![w] =
            [pc |-> "check", op |-> op, grant |-> g, time |-> now]]
  /\ UNCHANGED <<accountVars, tableVars, grants>>

\* Fault: the outstanding row is not ensured before blacklisting.
NextStageUnrecorded(op) == "blacklist"

\* Fault: a rotation leaves the old token alone.
NextStageUnspent(op) == IF op = "blacklist" THEN "outstand" ELSE "respond"

\* What TokenRefreshSerializer or TokenBlacklistSerializer does with a token
\* that passed verify.
NextStage(op) ==
  IF op = "blacklist" \/ (ROTATE_REFRESH_TOKENS /\ BLACKLIST_AFTER_ROTATION)
  THEN "outstand" ELSE "respond"

\* BlacklistMixin.verify passes.
TokenAdmit(w) ==
  /\ req[w].pc = "check"
  /\ verify(req[w].grant.token, req[w].time)
  /\ req' = [req EXCEPT ![w].pc = NextStage(req[w].op)]
  /\ UNCHANGED <<accountVars, tableVars, grants>>

\* BlacklistMixin.verify raises TokenError: 401.
TokenReject(w) ==
  /\ req[w].pc = "check"
  /\ ~verify(req[w].grant.token, req[w].time)
  /\ Finish(w)
  /\ UNCHANGED <<accountVars, tableVars, grants>>

\* blacklist(): OutstandingToken.objects.get_or_create by jti.  A row it has
\* to create names no user.
TokenOutstand(w) ==
  /\ req[w].pc = "outstand"
  /\ LET t == req[w].grant.token
         Holding(id) == [pc |-> "blacklist", op |-> req[w].op,
                         grant |-> req[w].grant, time |-> req[w].time,
                         row |-> id]
     IN  \/ \E r \in outstanding :
              /\ r.jti = t.jti
              /\ req' = [req EXCEPT ![w] = Holding(r.id)]
              /\ UNCHANGED <<outstanding, rows>>
         \/ /\ \A r \in outstanding : r.jti # t.jti
            /\ Insert(t.jti, NoId, t.exp)
            /\ req' = [req EXCEPT ![w] = Holding(rows + 1)]
  /\ UNCHANGED <<accountVars, now, blacklisted, jtis, grants, history>>

\* blacklist(): BlacklistedToken.objects.get_or_create of the row it holds,
\* which must still be there.  A rotation goes on to mint, a logout is done.
TokenBlacklist(w) ==
  /\ req[w].pc = "blacklist"
  /\ \E r \in outstanding : r.id = req[w].row
  /\ blacklisted' = blacklisted \cup {req[w].row}
  /\ revoked' = revoked \cup {req[w].grant.token.jti}
  /\ IF req[w].op = "refresh"
     THEN req' = [req EXCEPT ![w] =
            [pc |-> "respond", op |-> "refresh", grant |-> req[w].grant,
             time |-> req[w].time]]
     ELSE Finish(w)
  /\ UNCHANGED <<accountVars, now, outstanding, rows, jtis, grants, restored>>

\* The refresh answer: an access token and, when rotating, the same refresh
\* token under a new jti and exp.  No user is looked up, no row is recorded.
RefreshRespond(w) ==
  /\ req[w].pc = "respond"
  /\ LET g == req[w].grant
         access == access_token(g.token, MintTime(req[w]), jtis + 1)
         next == rotated(g.token, MintTime(req[w]), jtis + 2)
         Child(t) == [token |-> t, parent |-> g.token.jti, login |-> g.login]
     IN  \/ /\ ROTATE_REFRESH_TOKENS
            /\ grants' = grants \cup {Child(access), Child(next)}
            /\ jtis' = jtis + 2
         \/ /\ ~ROTATE_REFRESH_TOKENS
            /\ grants' = grants \cup {Child(access)}
            /\ jtis' = jtis + 1
  /\ Finish(w)
  /\ UNCHANGED <<accountVars, now, outstanding, blacklisted, rows, history>>

\* The request fails where it is: the worker dies, a foreign key points to a
\* row that has gone (a 500), or the client has given up.
TokenAbort(w) ==
  /\ req[w] # Idle
  /\ Finish(w)
  /\ UNCHANGED <<accountVars, tableVars, grants>>

TokenStep(w) ==
  \/ LoginAuthenticate(w)
  \/ LoginIssue(w)
  \/ TokenBegin(w)
  \/ TokenAdmit(w)
  \/ TokenReject(w)
  \/ TokenOutstand(w)
  \/ TokenBlacklist(w)
  \/ RefreshRespond(w)
  \/ TokenAbort(w)

Next ==
  \/ \E w \in TokenWorkers : TokenStep(w)
  \/ TablesStep /\ UNCHANGED <<req, grants>>
  \/ \E w \in AccountWorkers : AccountStep(w) /\ UNCHANGED <<req, grants>>

Spec == Init /\ [][Next]_vars

-----------------------------------------------------------------------------
(* Properties. *)

\* The shape of the tables, of the requests in flight and of the tokens.
TypeOK ==
  /\ TablesTypeOK
  /\ req \in [TokenWorkers -> TokenRequests]
  /\ grants \subseteq Grants

\* Once a logout, a rotation or the admin has blacklisted a refresh token, the
\* refresh endpoint refuses it, and so does the verify endpoint when
\* BLACKLIST_AFTER_ROTATION makes it look, until it expires or the admin
\* restores it: through flushes, crashes and every race of requests.  The
\* deletion of its user is the one exception (see RevokedNeverRefreshed).
RevokedStaysRefused ==
  \A g \in grants :
    /\ g.token.jti \in revoked
    /\ g.token.exp > now
    /\ g.token.user_id \notin deleted
    => /\ ~RefreshAccepts(g.token)
       /\ BLACKLIST_AFTER_ROTATION => ~VerifyAccepts(g.token)

\* What RevokedStaysRefused says without the exceptions: a blacklisted token
\* is never accepted again.
RevokedNeverRefreshed ==
  \A g \in grants : g.token.jti \in revoked => ~RefreshAccepts(g.token)

\* However long a refresh request takes, the access token it answers with
\* ends before the refresh token's last moment plus one access lifetime.
AccessOutlivesRefreshBriefly ==
  \A a, g \in grants :
    (a.token.token_type = "access" /\ a.parent = g.token.jti)
      => a.token.exp < g.token.exp + LEEWAY + ACCESS_TOKEN_LIFETIME

\* Under CHECK_REVOKE_TOKEN no access token works unless the password its
\* login verified is the one stored now, through rotations and password
\* changes that race with the login.
StalePasswordRefused ==
  CHECK_REVOKE_TOKEN =>
    \A g \in grants :
      Authenticates(g.token) =>
        g.login = users[g.token.user_id].password.salt

\* Every refresh token handed out and not expired is in the outstanding list
\* (BlacklistMixin: its tokens "insert themselves into an outstanding token
\* list").
OutstandingComplete ==
  \A g \in grants :
    (g.token.token_type = "refresh" /\ g.token.exp > now
       /\ g.token.user_id \notin deleted)
      => \E r \in outstanding : r.jti = g.token.jti

\* A user with a usable token is active ("we'll never issue a token for an
\* inactive user"): no refresh is accepted for an inactive one.
IssuesOnlyToActive ==
  \A g \in grants :
    (Exists(g.token.user_id) /\ ~users[g.token.user_id].is_active)
      => ~RefreshAccepts(g.token)

\* A password change invalidates every outstanding token of the user: none
\* issued under an older password is accepted for a refresh.
PasswordChangeInvalidatesAll ==
  \A g \in grants :
    (Exists(g.token.user_id)
       /\ g.login # users[g.token.user_id].password.salt)
      => ~RefreshAccepts(g.token)

\* One refresh token yields at most one successor for each worker that was
\* refreshing it at once: those past the check and the successors already
\* handed out are never more than the workers, although check and blacklist
\* are separate statements.  (Until it expires; a deleted user or an admin who
\* takes the token off the blacklist lifts the bound.)
Successors(j) ==
  {g \in grants : g.token.token_type = "refresh" /\ g.parent = j}
Admitted(j) ==
  {w \in TokenWorkers :
     /\ req[w].pc \in {"outstand", "blacklist", "respond"}
     /\ req[w].op = "refresh"
     /\ req[w].grant.token.jti = j}
RotationFanOut ==
  (ROTATE_REFRESH_TOKENS /\ BLACKLIST_AFTER_ROTATION) =>
    \A g \in grants :
      (/\ g.token.exp > now
       /\ g.token.user_id \notin deleted
       /\ g.token.jti \notin restored)
      => Cardinality(Successors(g.token.jti))
           + Cardinality(Admitted(g.token.jti)) <= Cardinality(TokenWorkers)

-----------------------------------------------------------------------------
(* The ledger this service implements.  A row with a blacklist entry makes   *)
(* its jti void; a login is no presenter, and ensuring the outstanding row    *)
(* is no step of the ledger.                                                  *)

LedgerVoid == {r.jti : r \in {s \in outstanding : s.id \in blacklisted}}
LedgerStage(pc) ==
  CASE pc = "check" -> "presented"
    [] pc \in {"outstand", "blacklist"} -> "admitted"
    [] pc = "respond" -> "cleared"
LedgerUsing ==
  [w \in TokenWorkers |->
     IF req[w].pc \in {"idle", "issue"} THEN [at |-> "free"]
     ELSE [at |-> LedgerStage(req[w].pc), op |-> req[w].op,
           token |-> req[w].grant.token, time |-> req[w].time]]

Ledger == INSTANCE TokenLedger WITH
  Presenters <- TokenWorkers,
  SingleUse <- ROTATE_REFRESH_TOKENS /\ BLACKLIST_AFTER_ROTATION,
  clock <- now, issued <- grants, void <- LedgerVoid,
  gone <- deleted, using <- LedgerUsing

\* Tables, stages, races, crashes, flushes and cascades taken together are a
\* ledger of tokens: a refresh answers only from a token that was not void
\* when it was let in and, when tokens are single-use, only after making it
\* void; and only expired tokens, or those of a deleted user, stop being void
\* without the admin.
ImplementsLedger == Ledger!LedgerSpec
=============================================================================
