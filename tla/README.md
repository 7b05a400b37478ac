# easyjwt in TLA+

TLA+ modules, TLC runs and TLAPS proofs about `django-easyjwt`: a Django auth
service that issues JSON web tokens (`easyjwt_auth`, with its `token_blacklist`
app), its user table (`easyjwt_user`), and a client app that logs users in
against it (`easyjwt_client`). Paths below are relative to the repository's
root, `src/` in `PROJECT.json`.

The code is small; what is hard about it is that no request takes a lock or opens
a transaction around more than one statement. A login, a refresh, a logout, a
password change is a sequence of reads and writes. Requests of several
processes, the `flushexpiredtokens` command, the admin and the clock come between
those reads and writes in any order, and no test in `tests/` runs two requests
at once.

## 1. The system

| component | state | operations | talks to |
|---|---|---|---|
| token classes (`easyjwt_auth/tokens.py`, `utils.py`) | a token's claims; the time a `Token` object captured | `for_user`, `access_token`, `set_jti/exp/iat`, `check_exp`, `verify`, `blacklist` | token backend, blacklist tables |
| token backend (`backends.py`, `state.py`) | keys | `encode`, `decode` with leeway | PyJWT |
| token endpoints (`serializers.py`, `views.py`) | none between requests | obtain pair, obtain sliding, refresh, refresh sliding, verify, blacklist | user table, token classes |
| token blacklist (`token_blacklist/`) | tables `OutstandingToken`, `BlacklistedToken` | the statements of `tokens.py`, `flushexpiredtokens`, two admin pages, cascades | user table (foreign key) |
| accounts (`easyjwt_user/`, `serializers.py:179-277`) | table `User` | create user, change password, admin add / change / set password / delete | - |
| request authentication (`authentication.py`, `models.py`) | none | header, token, user look-up, password claim; stateless variant | user table |
| client token manager (`easyjwt_client/utils.py`) | none | HTTP calls to the auth service, error mapping | auth service |
| client views (`easyjwt_client/views.py`) | the browser's refresh cookie | obtain, refresh, verify, logout, password form | token manager |
| client authentication and user synchronisation (`authentication.py`, `utils.py:127-220`) | the client's own `User` table | verify a bearer token remotely, get-or-create the local user by address | auth service |
| settings, checks, apps, migrations, locale | static | start-up checks | - |

Components meet in two places: the auth service's database (accounts, tokens and
blacklist share it, deletions cascade from one to the other) and HTTP between client
and auth service.

What makes each one correct, and where that is hard:

- *accounts*. Addresses are unique although every validator looks before the
  write; an edit changes what it means to change although `user.save()` writes every
  column of a row read earlier; deletions are final.
- *blacklist*. A blacklisted token stays refused until it expires, through flushes
  (`expires_at <= now`, while tokens are accepted until `exp + LEEWAY`), crashes and
  races; rows and entries fit together through the cascades.
- *rotation*. `check_blacklist` and `blacklist` are separate statements, so one refresh
  token can have several successors; how many is the question.
- *revocation by password*. The token must carry the digest of the password that
  was verified, and nothing issued before a change may be accepted after it.
- *sliding tokens*. A refresh moves `exp` and keeps the jti, so all versions of a token share
  one outstanding row that has the first `exp`: a blacklisting must reach every version, and a
  session must end.
- *client*. Answers are lost, late and out of order; the cookie is the browser's only copy of
  a token that the auth service may already have replaced or revoked. Its user table is a copy
  that every request overwrites with an answer fetched earlier, found by an address that may
  have moved.

`PROJECT.json` lists every component with its status, and under `hazards` each of
these at its line.

## 2. The modules

| module | what it is | lines of code it stands for |
|---|---|---|
| `TokenClaims` | claims and the pure operations of `tokens.py` on them | `tokens.py`, `utils.py` |
| `Accounts` | the user table and every request that writes it | `serializers.py:179-277`, `easyjwt_user/models.py`, `admin.py` |
| `TokenTables` | the two token tables and what works on them beside the endpoints: flush, blacklist admin, cascades, clock; extends the two above | `token_blacklist/`, `tokens.py` |
| `TokenService` | the pair endpoints; extends `TokenTables` | `serializers.py`, `tokens.py`, `views.py`, `authentication.py` |
| `TokenLedger` | the abstract specification of `TokenService`: which tokens exist, which are void, what may be done with one presented | - |
| `SlidingTokens` | the sliding endpoints; extends `TokenTables` | `serializers.py:86-146`, `tokens.py:300-313`, `authentication.py` |
| `ClientSession` | the refresh cookie: one browser, the client app's cookie views, and what the auth service does with their calls | `easyjwt_client/views.py`, `utils.py` |
| `UserSync` | the client's user table: bearer requests and password logins that follow the auth service's | `easyjwt_client/authentication.py`, `utils.py:151-220`, `easyjwt_user/serializers.py` |
| `MCAccounts`, `MCTokenService`, `MCUserSync` | instances for TLC (`SlidingTokens` and `ClientSession` need none) | - |
| `Accounts_proofs`, `TokenTables_proofs`, `TokenService_proofs`, `SlidingTokens_proofs`, `ClientSession_proofs`, `UserSync_proofs` | theorems, each about the module it is named after | - |
| `TokenFanOut_proofs`, `TokenLedger_proofs` | two more about `TokenService`: the bound on successors, the refinement | - |

### Accounts

`users` maps an id to a row (`email`, `password`, `is_active`) or `NoUser`; ids
are handed out once (`created`). An address is a name and whether it is spelt in lower
case: that is all `create_user`'s lower-casing and the unique index tell apart. A
stored password is the plain text and the salt it was hashed under; `set_password`
takes the next unused salt. `acct[w]` is the request worker `w` runs, and what
it holds in memory.

| code | action |
|---|---|
| `CreateUserSerializer` validators / `create_user` | `CreateUserValidate`, then `InsertUser` |
| `UserCreationForm` (admin add) | `AdminAddValidate`, then `InsertUser` |
| `PasswordChangeSerializer.validate` / `create` / `user.save()` | `PasswordChangeValidate`, `PasswordChangeCreate` or `PasswordChangeCrash`, `SaveUser` |
| `EasyJWTUserAdmin` change, set-password, delete pages | `AdminChangeLoad`, `AdminPasswordLoad`, then `SaveUser`; `DeleteUser` |
| the unique index says no (`IntegrityError`) | `WriteConflict` |
| the process dies | `AbortAccount` |

`SaveUser` writes the whole row that was loaded, and writes it under its old id
when the row has gone meanwhile: that is what Django's `save()` does (UPDATE, then
INSERT when no row matched), and it is why a deletion can be undone.

### TokenTables

`outstanding` and `blacklisted` are the two tables, `rows` and `jtis` what was handed out,
`now` the clock.

| code | action |
|---|---|
| `flushexpiredtokens` | `FlushExpiredTokens` |
| `BlacklistedTokenAdmin` add / delete | `AdminBlacklist`, `AdminRestore` |
| user deletion with its cascades | `DeleteUserCascade` |
| any action of `Accounts` | `AccountStep` |
| time | `Tick` |

### TokenService

`req[w]` is the request worker `w` runs. Each database statement of a request is an action:

| code | action |
|---|---|
| `TokenObtainSerializer.validate` | `LoginAuthenticate` |
| `RefreshToken.for_user`, `OutstandingToken.objects.create`, `access_token` | `LoginIssue` |
| `Token.__init__` up to the decoder (captures the time, refuses an expired token) | `TokenBegin` |
| `BlacklistMixin.verify` | `TokenAdmit`, `TokenReject` |
| `blacklist()`: `OutstandingToken.objects.get_or_create` | `TokenOutstand` |
| `blacklist()`: `BlacklistedToken.objects.get_or_create` | `TokenBlacklist` |
| minting the answer of a refresh | `RefreshRespond` |
| process death, foreign-key error | `TokenAbort` |

The two read-only decisions are operators: `VerifyAccepts` (`TokenVerifySerializer`)
and `Authenticates` (`JWTAuthentication`, with `CHECK_REVOKE_TOKEN`).

History variables record what the properties speak of and no action reads:
`grants` (every token handed out, which token it was made from, and the salt of
the password its login verified), `revoked` and `restored` (jtis blacklisted, and taken off
by the admin), `deleted` (user ids), and the field `loaded` of a save request.
`grants` is also what clients can present: a client may keep and reuse any token it ever got.

`TokenLedger` is what all this promises, without tables, rows, accounts or stages. A token
presented is admitted only if it is a refresh token that is not void at that moment and had not expired
when it was presented; a refresh that must spend its token answers only after making it
void; tokens made from another count from the moment it was presented and keep its user
and claim; and the ledger may forget that a token is void only when the token has
expired or its user is gone. `TokenService` maps to it by `LedgerVoid` (jtis of rows with a blacklist
entry) and `LedgerUsing` (the stage of each request): `LoginAuthenticate`, `TokenOutstand` and all
account steps are stutters, `AdminBlacklist` and `AdminRestore` are `AdminVoid` and `AdminUnvoid`, flushes and
cascades are `Forget`.

### SlidingTokens

A login starts a family of versions that share a jti. `grants` records for each
version its family, when that began, and the salt of the password verified then.

| code | action |
|---|---|
| `TokenObtainSlidingSerializer.validate` | `LoginAuthenticate`, then `LoginIssue` |
| `SlidingToken(attrs["token"])` up to the decoder | `RefreshBegin` |
| `BlacklistMixin.verify`, `check_exp("refresh_exp")`, `set_exp` | `RefreshAnswer`, `RefreshReject` |
| process death, foreign-key error | `RequestAbort` |

The blacklist look-up is the only database statement of a sliding refresh, so what follows it
is one step. The blacklist endpoint takes refresh tokens only, so a sliding token is
blacklisted in the admin (`AdminBlacklist`), and only while its row is listed.

### ClientSession

`jar` is the refresh token in the browser's cookie jar, `request[i]` the `i`-th request
sent, with two program counters: `view`, how far the client app is with it, and `call`,
how far the auth service is with the call the view made. They are separate because the
client gives a call up after `REMOTE_AUTH_REQUEST_TIMEOUT` and the service does not
notice. A token is named by the request that had it minted.

| code | action |
|---|---|
| a tab posts to `token/`, `token/refresh/`, `token/logout/`; the browser attaches the cookie | `Send` |
| `csrf_protect`, `_validate_origin` refuse | `Refuse` |
| the view up to `requests.post`; the early answers without a cookie, or with `BLACKLIST_ON_LOGOUT` off | `CallRemote` |
| `__request` has an answer: success, or one of its `AuthenticationFailed` (logout catches it) | `RemoteReturns` |
| `ConnectionError`, `Timeout`, `RequestException` in `__request` | `RemoteTimeout` |
| `_create_or_update_user` | `SyncUser` |
| `_set_refresh_cookie`, `_clear_refresh_cookie`, applied when the answer arrives | `Deliver`, by `SetCookie` |
| the auth service: `verify` passes; blacklist and mint; an error | `Admit`; `Commit`; `CallFails` |
| a lost process or connection; the cookie's end | `Lose`; `CookieExpires` |

The auth service is here what `TokenService` shows it to be: the check and the
blacklisting are separate steps, so two calls may be admitted with one token. A token's
expiry is one of the reasons for `CallFails`, which may strike any call. `overlapped`
is the one history variable.

### UserSync

`remote` is the auth service's user table, which changes by itself; `local` the client's, by id;
`req[w]` the request worker `w` runs.

| code | action |
|---|---|
| `__verify_token` succeeds; or the auth service accepts the address and password typed | `RequestBegin` |
| `GET /auth/user/` (`TokenUserDetailView`), `_create_or_update_user` up to `response.json()` | `UserFetch` |
| `User.objects.get` by address, the serializer | `LocalLookup` |
| `s.save()` | `LocalSave` |
| `RemoteAuthBackend._get_user_by_kwargs` | `LoginFind` |
| the view runs | `Served` |
| every exception of these, a failed or unanswered call, a dead process | `RequestFails` |
| edits at the auth service, and by the local admin | `RemoteChange`, `RemoteDelete`, `LocalChange`, `LocalDelete` |

`TokenUserSerializer` has `is_staff` and `is_superuser` read-only: `UpdatedRow` keeps `is_staff`
of the loaded row and takes the rest from the answer. A save of a row that has gone
inserts it again under its old id. The names are reduced to the number of the edit that wrote
them (`rev`) and `who` says whose they are.

### What the model takes for granted

- Statements are atomic and see committed data (READ COMMITTED, autocommit: the
  code opens no transaction).
- `uuid4` never repeats; every `set_password` uses a new salt; a signature cannot be forged,
  so only tokens the service made decode (PyJWT is external).
- The `token_blacklist` app is installed; `UPDATE_LAST_LOGIN` is off, its default; `USER_ID_CLAIM`
  is the primary key.
- Time is in ticks. A token is good while `exp + LEEWAY > now`, the test that both
  the decoder and `check_exp` make. `iat` is read by no decision and left out.
- The revocation digest is injective, so it is modelled by the salt.

`Accounts`, `TokenService` and `SlidingTokens` assume no fairness: their properties are safety properties.
`ClientSession` assumes `WF_vars(ViewStep(i))` for every request: a server process goes on with
a request it has, `requests.post` ends because every call is given
`timeout=REMOTE_AUTH_REQUEST_TIMEOUT` (30 seconds by default), and an answer that is sent arrives
unless it is lost. The auth service may stop for ever, and tabs need never send
anything. `UserSync` assumes the same of its workers, `WF_vars(Progress(w))`; a request may always end by failing,
so this makes no call succeed, and that requests keep being served is a hypothesis of
`LocalFollowsRemote`. (The timeout of `requests` is one of silence, not of the whole call: a service that
trickles bytes without end is outside the model.)

The runs turn the deadlock check off because the system may rightly stop (it is idle
between requests, and the bounds end the supply of ticks, jtis, rows and requests).

## 3. What the runs show

Bounds are in the guards: `MaxUsers`, `MaxSalt` (calls of `set_password`),
`MaxTime`, `MaxJti` (no minting request begins past it), `MaxRows` (rows ever inserted).

| run | instance | result |
|---|---|---|
| `accounts` | `AccountsSpec`, 2 workers, 2 users, both spellings of one name, 3 `set_password` calls; 354 027 states | `EmailUnique`, `DeletionSettles`, `SaveChangesOnlyItsFields` hold |
| `rotation` | `TokensSpec`, 2 workers, rotation and blacklisting on, lifetimes 1, last tick 2, jtis until 5, 2 rows; 671 942 states | `DBIntegrity`, `RevokedStaysRefused`, `RotationFanOut`, `AccessOutlivesRefreshBriefly` hold, and the whole implements `TokenLedger` |
| `password` | `Spec` (account requests included), 1 token and 1 account worker, `CHECK_REVOKE_TOKEN` on, no rotation, leeway 1; 1 256 118 states | `StalePasswordRefused` holds |
| `sliding` | `SlidingTokens!Spec`, 1 token and 1 account worker, lifetime 2, refresh window 3, leeway 1, last tick 5, `CHECK_REVOKE_TOKEN` on, one family; 417 888 states | `RevocationCoversFamily`, `FamilyStaysListed`, `SessionBounded`, `StalePasswordRefused` hold |
| `session` | `ClientSession!Spec` with fairness, rotation, blacklisting and logout blacklisting on, 3 requests; 154 837 states | `SpentCookieExplained`, `LogoutLeftoversExplained`, `EveryRequestEnds` hold |
| `usersync` | `UserSync!Spec` with fairness from one of its two like beginnings, 2 workers, 2 users, 2 addresses, 2 local rows, 2 edits by the admins; 427 069 states | `LocalAddressUnique`, `LocalFlagSurvives`, `LocalFollowsRemote` hold |
| `untracked`, `inactive`, `stale_refresh`, `unrevoked`, `sliding_flush`, `logout_race` | one property each | violated: section 5 |

`TokensSpec` starts with one registered user instead of an empty table and leaves out
account requests; `DeleteUserCascade` stays. Nothing the `rotation` properties
speak of reads the password or the address, so what is left out could only add
stuttering; `password` runs the full `Spec`.

Why these bounds are enough for the cases that matter: two workers is the least
number for which a check can be overtaken; with a login taking jtis 1 and 2, `MaxJti = 5`
leaves room for both workers to rotate the same token, or for a rotation of a
rotated one; two rows let a rotated token get a row of its own when
it is blacklisted; a refresh lifetime of 1 with a last tick of 2 lets a token expire
while a request that admitted it is between two statements, the
flush remove its row there, and the request answer a tick after that. Three `set_password` calls are one to create each account and
one change that races. Workers, names and passwords are permuted by
symmetry where no definition tells them apart (`CHOOSE` in `OneUser` ranges over
singletons in those instances).

Three requests in `session` are a login and two more that overlap (two refreshes, a
refresh and a logout), or a whole session one after the other: login, refresh,
logout. Two refreshes that overlap after two logins need four; the safety properties were
also checked with four requests (10.5 million states), and
`SpentCookieExplained` and `LogoutLeftoversExplained` are proved for any number.

In `sliding`, a lifetime of 2 and a window of 3 let a family be refreshed twice or more, and the last
tick is the greatest `exp` that a family begun at tick 0 can reach; one family is enough because
versions of different families share nothing but the tables, whose row and jti bounds `rotation`
exercises. In `usersync`, two workers are two first requests at once; with two addresses and two
edits an address can leave one user (who is deleted) and come to another while
requests of both hold answers; two rows are one for each user.

What the properties say:

- `EmailUnique`: two requests may pass the unique validator together, and the index
  catches the second.
- `DeletionSettles`: a deleted user stays deleted once no request that had loaded it is in
  flight. Before that it can come back: the full-row save inserts it again.
- `SaveChangesOnlyItsFields`: a save loses another request's update only when
  that update fell between its read and its write. It does lose those, so the property bounds
  the loss and does not exclude it: an admin's
  change page reverts a concurrent password change (`easyjwt_user/admin.py:98` puts
  the loaded hash back) and a password change reverts a concurrent deactivation.
- `DBIntegrity`: one row per jti and per id, no blacklist entry without its row.
- `RevokedStaysRefused`: a blacklisted token is refused by refresh (and by verify, where
  `BLACKLIST_AFTER_ROTATION` makes it look; without it verify calls such a token valid, and the
  property says nothing) until it expires. Three things end this: the admin's
  restore, the user's deletion (section 5), and expiry: `expires_at <= now` flushes
  entries while tokens are accepted for a leeway longer
  (`flushexpiredtokens.py:9-12`), hence `exp > now` in the statement and not `check_exp`.
- `RotationFanOut`: the check-then-blacklist race gives one refresh token at most as
  many successors as there are workers that were refreshing it at once; afterwards, none.
- `AccessOutlivesRefreshBriefly`: a request may be arbitrarily slow, but the access token counts from
  the time captured when the refresh token was decoded.
- `StalePasswordRefused`: with `CHECK_REVOKE_TOKEN`, an access token works only while the password
  its login verified is the stored one, although the change may fall between
  `authenticate` and `for_user`.

- `SpentCookieExplained`: tabs that refresh at once cannot strand the browser with a
  blacklisted cookie for good. When its cookie is one, the answer that replaces or clears
  it is still coming, or was lost, timed out or broken: the price of rotating without a
  grace period, and the only way to pay it.
- `LogoutLeftoversExplained`: what a logout leaves behind that overlapped no other request,
  whatever became of its blacklist call. The browser holds no token of the session.
  When the service handled the call, it accepts no token of the session any more. When it did not, two
  things may live on, and nothing else: the token presented, because the call failed or never got there and the view clears the
  cookie all the same (`easyjwt_client/views.py:284`); or a token whose answer was lost. In that
  case the browser still had the token that the lost rotation had spent, so the service refuses the
  logout, and the token nobody received stays good until it expires. The run reaches both.
  Tokens of requests that overlapped others are left out (`logout_race`, section 5), and so is, for the
  service's side, `ROTATE_REFRESH_TOKENS` without `BLACKLIST_AFTER_ROTATION`, where earlier tokens live on by design.
- `EveryRequestEnds`: liveness. Whatever the auth service does, a request the client app has
  is answered or lost; a logout does not hang on the blacklist call.
- `ImplementsLedger`: the refinement above. It is stronger than the invariants of `rotation` in
  what it says of steps: what is looked at when, and what a flush or a cascade at the wrong
  moment may undo. A token can be revoked and flushed between a request's clock reading and its
  look in the blacklist, and is then admitted; the ledger allows it because the flush had to wait
  for the token's expiry.
- `RevocationCoversFamily`: blacklisting any version stops all, the one that a refresh under
  way hands out a moment later included, until the first `exp`; after it see section 5.
- `FamilyStaysListed`: until then the row is there to be blacklisted, with its user, whatever version the
  client holds. After the first `exp` neither property says anything: `sliding_flush` shows what happens then.
- `SessionBounded`: a token ends less than a refresh window, a leeway and a lifetime after its login, however
  often and slowly it is refreshed.
- `LocalAddressUnique`: racing first requests, moved addresses and rows saved back after their deletion never give
  two local rows one address, on which `User.objects.get` would fail for good.
- `LocalFlagSurvives`: a synchronisation changes the local admin's `is_staff` only when the row was
  written between the request's look-up and its save: the stale full-row save does lose it then.
- `LocalFollowsRemote`: liveness. A user whose requests keep being served ends up with a row that has the
  auth service's address, names and `is_active`, and keeps it, although an older answer may be saved
  after a newer one.

Each property has, in `PROJECT.json`, a fault: an operator defined just above
the one it replaces (comment "Fault: ..."), with which TLC finds the property violated under
the same configuration.

## 4. What is proved

For every value of the constants that satisfies the named assumptions
(`LifetimesAssumption`, `AccountsAssumption`, `TokenTablesAssumption`, `TokenServiceAssumption`, `SlidingTokensAssumption`, `ClientSessionAssumption`,
`UserSyncAssumption`: lifetimes are
positive, settings Boolean, bounds natural, `NoUser` is no row, the workers are finitely many), hence for any number of workers, users,
tokens and ticks:

| theorem | statement |
|---|---|
| `AccountsTypeCorrect` | `AccountsSpec => []AccountsTypeOK` |
| `EmailsStayUnique` | `AccountsSpec => []EmailUnique` |
| `AccountsInvCorrect` | `AccountsSpec => []AccountsInv` |
| `SavesKeepOtherFields` | `AccountsSpec => SaveChangesOnlyItsFields` |
| `DeletionsSettle` | `AccountsSpec => DeletionSettles` |
| `TypeCorrect` | `Spec => []TypeOK` |
| `InvCorrect` | `Spec => []Inv` |
| `TablesKeepIntegrity` | `Spec => []DBIntegrity` |
| `RevocationHolds` | `Spec => []RevokedStaysRefused` |
| `AccessLifetimeBound` | `Spec => []AccessOutlivesRefreshBriefly` |
| `PasswordChangeLocksOut` | `Spec => []StalePasswordRefused` |
| `FanOutBounded` | `Spec => []RotationFanOut` |
| `ServiceImplementsLedger` | `Spec => ImplementsLedger` |
| `SlidingTypeCorrect` | `SlidingTokens!Spec => []SlidingTypeOK` |
| `SlidingInvCorrect` | `SlidingTokens!Spec => []Inv` |
| `RevocationReachesFamily` | `SlidingTokens!Spec => []RevocationCoversFamily` |
| `FamiliesListed` | `SlidingTokens!Spec => []FamilyStaysListed` |
| `SessionsEnd` | `SlidingTokens!Spec => []SessionBounded` |
| `SlidingPasswordLocksOut` | `SlidingTokens!Spec => []StalePasswordRefused` |
| `SessionTypeCorrect` | `ClientSession!Spec => []TypeOK` |
| `TabsNeverStrandTheCookie` | `ClientSession!Spec => []SpentCookieExplained` |
| `LogoutLeavesNothingElse` | `ClientSession!Spec => []LogoutLeftoversExplained` |
| `SyncTypeCorrect` | `UserSync!Spec => []SyncTypeOK` |
| `AddressesStayUnique` | `UserSync!Spec => []LocalAddressUnique` |
| `FlagSurvives` | `UserSync!Spec => LocalFlagSurvives` |

`EmailUnique` is inductive with the type invariant: each write is guarded by the index.
The token properties are not, and `Inv` strengthens them:

- `GrantsInv`: a jti names one token, and none above `jtis` is in use. Without
  it a new token could be one that is already revoked, and a blacklist entry
  could be about two tokens.
- `RowsInv`: a row's jti, `expires_at` and user are those of the token. This is what
  makes the flush safe: it deletes by the row's `expires_at`, the properties speak of the
  token's `exp`. It is also what confines a cascade to the deleted user.
- `ReqInv`: the row a request holds between `get_or_create` and the blacklist insert is,
  if it is still there, the row of its token; past the check, the token was good at
  the captured time.
- `RevokedInv`: a revoked, unexpired token of an undeleted user has its entry, the
  inductive form of `RevokedStaysRefused`.
- `HashInv`: the revocation claim is that of the login a token descends from, so rotation
  cannot launder an old password.

`Inv` was model-checked before it was proved. The step proof has one lemma per action that
disturbs something, and shared lemmas for those that leave tables (`InvReqOnly`),
requests (`InvAccountsAndClock`) or history (`InvKeep`) alone.

`SlidingTokens_proofs` has an `Inv` of its own on the same lemmas about the tables. Two of its parts carry the
argument. `FamilyInv`: every version has the jti, the refresh window and the claim of its login, and
versions of one jti agree on when it was and for whom; so one jti is one family, and a
claim never gets newer. `RowsInv`: a row names its family's user and its *first* exp, which no
refresh moves; the flush goes by that, so until then it cannot take the row or its blacklist
entry, whatever `exp` the versions have reached. `RevokedInv` is again the inductive form of
the revocation property; `FamilyStaysListed` and `SessionBounded` are inductive with these.

`LocalAddressUnique` is inductive with `SyncTypeOK`, for the reason `EmailUnique` is: the index
compares with the rows there are at the write, whatever the look-up had found.

For `ClientSession` the strengthening is `SessionInv`. Its heart is `DeliveredInv`: a token in the
jar, or presented by any request, is one whose own answer has been delivered. So the
answer that sets the cookie never sets one that some other request has presented, and
hence none that is already blacklisted; without it the induction would have to allow a
late answer to bring a spent token back. `PathInv` ties the stage of the view to that of the
call, `SpentInv` names the request that each blacklist entry is due to. The steps that only take a
request one stage on share the lemma `StageStep`.

The fan-out bound has a module of its own, for it counts. `FanOutInv` adds two facts to `Inv`: finitely many tokens
were handed out, and `SpentInv`, by which a token that has a successor, or a worker about to make
one, has been revoked. So where the bound applies nobody is let in once there is a successor;
until then the workers let in are among the workers, and afterwards each answer turns one worker
let in into one successor, and crashes only take workers away. `SpentInv` was model-checked on the
`rotation` instance first.

The refinement is proved with one lemma per action of `TokenService`, each naming the ledger's action
it is, or that it is none (`PrepareIsStutter`, `AccountIsStutter`). Beside `Inv` it needs
`IssuedRowsInv`: an outstanding row is for a token handed out, without which the admin could make
a token void that the ledger never issued. What makes the removals legitimate is again `RowsInv`:
the row that is flushed is expired because its token is.

The action properties speak of what a request loaded before. `LoadedInv` (`AccountsInv` for short, with the type
invariant): a save in flight differs from the row it loaded only where its request means to; with a row
nobody wrote meanwhile that is `SaveChangesOnlyItsFields`. `DeletedInv`: only ids handed out are deleted, so an
insert, which takes the next id, cannot bring one back, and `DeletionSettles` is left with saves. `FlagInv`
is the same for `UserSync`: what the serializer made of the row it loaded has that row's `is_staff`.

`LogoutLeftoversExplained` needs more on top of `SessionInv` (`LogoutInv`). `SessionOfInv` says which session a
token belongs to, that of the login it descends from. A request that overlaps no other is sent after the earlier ones
ended and ends before the next is sent (`OrderInv`), and a call that was handled has spent its token
(`HandledInv`). The heart are two invariants about a token from such a request. As long as it is accepted and was delivered, it
is the only one of its session that the browser holds or presents from then on (`CurrentInv`); while it is not delivered, and for ever
when it is lost, the browser holds and presents its predecessor, whose calls the service never admits (`LostInv`).
So at the logout there is one token that may be good: the one presented, or the one that was lost, and then the
call was not handled. `LeftInv` keeps the session ended: no later request and no cookie belongs to it.

Model-checked only: `EveryRequestEnds` and `LocalFollowsRemote`, because liveness under fairness is beyond the
proof system. The violations of section 5 are counterexamples and need no proof.

## 5. Where the code and its documentation disagree

Each is a run whose one property TLC violates.

- `untracked`: rotation sets a new jti and inserts no outstanding row
  (`serializers.py:122`); `tokens.py:235` says such tokens insert themselves. A rotated
  token is invisible to the admin; its row, once a logout creates it, names no user.
- `inactive`: refresh looks no user up (`serializers.py:108`), so a deactivated user's
  tokens refresh on; `easyjwt_auth/models.py:23` relies on the opposite.
- `stale_refresh`: nor does it compare the password claim; `README.md:652` says a
  password change invalidates all outstanding JWTs. The access tokens minted this
  way are refused (`StalePasswordRefused`), the refresh itself is not.
- `unrevoked`: deleting a user cascades to the blacklist entries of its tokens
  (`token_blacklist/models.py:7`), and refresh, which looks no user up, accepts them again.
- `sliding_flush`: a refresh moves a sliding token's `exp` and not its row's `expires_at`
  (`serializers.py:143`), so `flushexpiredtokens`, which says it flushes expired tokens
  (`flushexpiredtokens.py:9`), removes the row and the blacklist entry of a token that
  has not expired: it is accepted again, and cannot be blacklisted any more.
- `logout_race`: a refresh that read the cookie before the logout and whose answer arrives
  after it sets the cookie again (`easyjwt_client/views.py:224`); `README.md:590` says logout
  clears the cookie, `README.md:641` calls the user logged out on the client. When the refresh was
  admitted before the logout blacklisted the token, the new cookie is a live session.

Seen in the models and not given a run:

- The admin's add page stores an address as typed (`easyjwt_user/admin.py:36`), while `README.md:648`
  says addresses are lower-cased: one step shows it.
- An admin's change page reverts a concurrent password change; a duplicate address that differs in case passes the validator and ends in an
  `IntegrityError`; verify ignores the blacklist unless `BLACKLIST_AFTER_ROTATION` is on;
  the flush ignores the leeway.
- A local user is an address: when an address goes to another person at the auth service, that
  person takes over the local row, `is_staff` included (`easyjwt_client/utils.py:185`).
- After a login whose address changed meanwhile, `RemoteAuthBackend` returns the row that has the
  address typed, which may be another one than it has just saved (`authentication.py:36`).
- A row the local admin deactivates is active again after the user's next request: `is_active` is
  among the fields the answer overwrites. A user deactivated or deleted at the auth service keeps its local row as it is.

## 6. What is not modelled

- Signing, algorithms, key files and JWK look-up (`backends.py`): the work of PyJWT. The modules take
  from it that only tokens the service made decode, and that an expired one does not.
- The splitting of the `Authorization` header on both sides, and the stateless `TokenUser`: string
  handling, and a view of the claims that looks nothing up; neither keeps or reads state.
- The auth service's decision on a bearer token inside `UserSync`: `RequestBegin` starts a request for any user,
  because verify looks no user up, and `Fetched` answers for an existing, active one.
- Body mode of the client views, the verify and CSRF-bootstrap views and the password
  forms: they keep no state and pass one call on. CSRF and origin checks are reduced to a
  refusal that any request may meet; that the checks decide rightly is not modelled.
- Settings, start-up checks, apps: static; the settings that matter are constants, and the checks
  are one pass over them that writes nothing.
- The group admin (groups are read by no token decision),
  `create_superuser` (differs in flags nothing here reads), the last-login update (off
  by default), migrations and translations.
- The change page of the blacklist admin, which can only move an entry to another row.

## 7. Plan

Every safety and action property of the runs and the refinement are proved. What could be added:

1. `EmailUnique`, `DeletionSettles` and `SaveChangesOnlyItsFields` for the full `Spec` of `TokenService` and
   `SlidingTokens`, whose account steps are those of `Accounts` and whose cascade deletes a user as
   `DeleteUser` does.
2. An abstract specification of sliding tokens, as `TokenLedger` is of pairs.
