---------------------------- MODULE SlidingTokens ----------------------------
(***************************************************************************)
(* Sliding tokens: obtain, refresh and request authentication, beside what *)
(* TokenTables and Accounts do.  A sliding token is access and refresh     *)
(* token in one; a refresh moves its exp and keeps everything else, its    *)
(* jti included, so that a login starts a family of versions that share a  *)
(* jti and the outstanding row made at the login.                          *)
(*                                                                         *)
(* The blacklist endpoint takes refresh tokens only (verify_token_type):   *)
(* a sliding token is blacklisted in the admin.                            *)
(***************************************************************************)
EXTENDS TokenTables

CONSTANTS
  TokenWorkers,                   \* server processes that run token requests
  SLIDING_TOKEN_LIFETIME,         \* ticks a version lives
  SLIDING_TOKEN_REFRESH_LIFETIME  \* ticks after the login it can be refreshed

ASSUME SlidingTokensAssumption ==
  /\ SLIDING_TOKEN_LIFETIME \in Nat \ {0}
  /\ SLIDING_TOKEN_REFRESH_LIFETIME \in Nat \ {0}

VARIABLES
  req,      \* per worker, the token request it is running
  grants    \* history: every version handed to a client

vars == <<accountVars, tableVars, req, grants>>

\* token_type is always "sliding".
SlidingClaims == [jti : Jtis, user_id : Nat, exp : Times, refresh_exp : Times,
                  hash_password : HashClaims]

\* A version a client got; the jti its family began with, when, and the salt of
\* the password verified then.
Grants == [token : SlidingClaims, family : Jtis, born : Times, login : Nat]

TokenRequests ==
  {Idle}
  \cup [pc : {"issue"}, user : UserIds, salt : Nat]
  \cup [pc : {"check"}, grant : Grants, time : Times]

-----------------------------------------------------------------------------
\* Fault: a new token gets no refresh window.
SlidingForNoWindow(user, salt, current_time, jti) ==
  [jti |-> jti, user_id |-> user,
   exp |-> current_time + SLIDING_TOKEN_LIFETIME,
   hash_password |-> RevokeClaim(salt)]

\* SlidingToken.for_user on a user object holding a password with this salt.
SlidingFor(user, salt, current_time, jti) ==
  [jti |-> jti, user_id |-> user,
   exp |-> current_time + SLIDING_TOKEN_LIFETIME,
   refresh_exp |-> current_time + SLIDING_TOKEN_REFRESH_LIFETIME,
   hash_password |-> RevokeClaim(salt)]

\* Fault: the refreshed token gets a jti of its own, as a rotated one does.
SlidOwnJti(t, current_time) ==
  [t EXCEPT !.exp = current_time + SLIDING_TOKEN_LIFETIME, !.jti = jtis + 1]

\* Fault: the refresh window moves along.
SlidWindowToo(t, current_time) ==
  [t EXCEPT !.exp = current_time + SLIDING_TOKEN_LIFETIME,
            !.refresh_exp = current_time + SLIDING_TOKEN_REFRESH_LIFETIME]

\* set_exp in TokenRefreshSlidingSerializer: only exp moves.
Slid(t, current_time) ==
  [t EXCEPT !.exp = current_time + SLIDING_TOKEN_LIFETIME]

\* BlacklistMixin.verify for a SlidingToken object made at current_time.
verify(t, current_time) ==
  ~IsBlacklisted(t.jti) /\ check_exp(t, current_time)

\* token.check_exp("refresh_exp").
check_refresh_exp(t, current_time) == t.refresh_exp + LEEWAY > current_time

\* JWTAuthentication with SlidingToken among AUTH_TOKEN_CLASSES.
Authenticates(t) ==
  /\ verify(t, now)
  /\ t.user_id \in UserIds /\ Exists(t.user_id)
  /\ users[t.user_id].is_active
  /\ CHECK_REVOKE_TOKEN =>
       t.hash_password = PasswordHash(users[t.user_id].password.salt)

\* The refresh endpoint would accept the token if nothing else ran now.
Refreshes(t) == verify(t, now) /\ check_refresh_exp(t, now)

-----------------------------------------------------------------------------
Init ==
  /\ TablesInit
  /\ req = [w \in TokenWorkers |-> Idle]
  /\ grants = {}

Finish(w) == req' = [req EXCEPT ![w] = Idle]

\* TokenObtainSerializer.validate: authenticate and the active-user rule.
LoginAuthenticate(w) ==
  /\ req[w] = Idle
  /\ jtis < MaxJti
  /\ rows < MaxRows
  /\ \E u \in UserIds, e \in Emails, p \in Passwords :
       /\ authenticate(u, e, p)
       /\ req' = [req EXCEPT ![w] =
            [pc |-> "issue", user |-> u, salt |-> users[u].password.salt]]
  /\ UNCHANGED <<accountVars, tableVars, grants>>

\* Fault: the user is read again after the password was verified.
LoginSaltReread(r) == users[r.user].password.salt

\* The salt behind the revocation claim of a login: the user object in memory.
LoginSalt(r) == r.salt

\* get_token and the answer: the token is recorded as outstanding under its
\* first exp.
LoginIssue(w) ==
  /\ req[w].pc = "issue"
  /\ Exists(req[w].user)
  /\ LET t == SlidingFor(req[w].user, LoginSalt(req[w]), now, jtis + 1)
     IN  /\ Insert(t.jti, req[w].user, t.exp)
         /\ grants' = grants \cup
              {[token |-> t, family |-> t.jti, born |-> now,
                login |-> req[w].salt]}
  /\ jtis' = jtis + 1
  /\ Finish(w)
  /\ UNCHANGED <<accountVars, now, blacklisted, history>>

\* SlidingToken(attrs["token"]) up to the decoder, which refuses it past exp.
RefreshBegin(w) ==
  /\ req[w] = Idle
  /\ \E g \in grants :
       /\ check_exp(g.token, now)
       /\ req' = [req EXCEPT ![w] = [pc |-> "check", grant |-> g, time |-> now]]
  /\ UNCHANGED <<accountVars, tableVars, grants>>

\* The blacklist is looked up; what follows touches no table: the refresh
\* window, the new exp, the answer.
RefreshAnswer(w) ==
  /\ req[w].pc = "check"
  /\ verify(req[w].grant.token, req[w].time)
  /\ check_refresh_exp(req[w].grant.token, req[w].time)
  /\ grants' = grants \cup
       {[req[w].grant EXCEPT !.token = Slid(@, req[w].time)]}
  /\ Finish(w)
  /\ UNCHANGED <<accountVars, tableVars>>

\* TokenError from verify, or from the refresh window: 401.
RefreshReject(w) ==
  /\ req[w].pc = "check"
  /\ \/ ~verify(req[w].grant.token, req[w].time)
     \/ ~check_refresh_exp(req[w].grant.token, req[w].time)
  /\ Finish(w)
  /\ UNCHANGED <<accountVars, tableVars, grants>>

\* The worker dies, or the user of a login has gone: a 500.
RequestAbort(w) ==
  /\ req[w] # Idle
  /\ Finish(w)
  /\ UNCHANGED <<accountVars, tableVars, grants>>

SlidingStep(w) ==
  \/ LoginAuthenticate(w)
  \/ LoginIssue(w)
  \/ RefreshBegin(w)
  \/ RefreshAnswer(w)
  \/ RefreshReject(w)
  \/ RequestAbort(w)

Next ==
  \/ \E w \in TokenWorkers : SlidingStep(w)
  \/ TablesStep /\ UNCHANGED <<req, grants>>
  \/ \E w \in AccountWorkers : AccountStep(w) /\ UNCHANGED <<req, grants>>

Spec == Init /\ [][Next]_vars

-----------------------------------------------------------------------------
(* Properties. *)

\* The shape of the tables, of the requests in flight and of the tokens.
SlidingTypeOK ==
  /\ TablesTypeOK
  /\ req \in [TokenWorkers -> TokenRequests]
  /\ grants \subseteq Grants

\* The expires_at of the family's outstanding row.
FirstExp(g) == g.born + SLIDING_TOKEN_LIFETIME

\* Blacklisting one version of a family stops every version of it, those that a
\* refresh under way is about to hand out included, until the first exp of the
\* family has passed, whatever else is flushed, deleted or refreshed.
RevocationCoversFamily ==
  \A g, h \in grants :
    /\ h.family = g.family /\ h.token.jti \in revoked
    /\ FirstExp(g) > now
    /\ g.token.user_id \notin deleted
    => ~Refreshes(g.token) /\ ~Authenticates(g.token)

\* For the same time the row is in the outstanding list, with its user, and
\* so can be blacklisted at all, whichever version the client holds.
FamilyStaysListed ==
  \A g \in grants :
    (FirstExp(g) > now /\ g.token.user_id \notin deleted)
      => \E r \in outstanding :
           r.jti = g.token.jti /\ r.user = g.token.user_id

\* However often and however slowly it is refreshed, a token ends one lifetime
\* after the refresh window of its login: it cannot be kept alive for ever.
SessionBounded ==
  \A g \in grants :
    g.token.exp < g.born + SLIDING_TOKEN_REFRESH_LIFETIME + LEEWAY
                    + SLIDING_TOKEN_LIFETIME

\* Under CHECK_REVOKE_TOKEN a version works only while the password verified at
\* the login of its family is the one stored.
StalePasswordRefused ==
  CHECK_REVOKE_TOKEN =>
    \A g \in grants :
      Authenticates(g.token) =>
        g.login = users[g.token.user_id].password.salt

\* A blacklisted token that has not expired is refused: what the flush command
\* takes from the outstanding list is expired tokens ("Flushes any expired
\* tokens in the outstanding token list").
RevokedSlidingRefused ==
  \A g \in grants :
    /\ g.token.jti \in revoked
    /\ g.token.exp > now
    /\ g.token.user_id \notin deleted
    => ~Refreshes(g.token) /\ ~Authenticates(g.token)
=============================================================================
