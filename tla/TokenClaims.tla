----------------------------- MODULE TokenClaims -----------------------------
(***************************************************************************)
(* The claims of a JWT issued by easyjwt_auth and the pure operations of   *)
(* easyjwt_auth/tokens.py on them: how a pair is made for a user, how an   *)
(* access token is derived from a refresh token, how a refresh token is    *)
(* rotated, and when a token counts as expired.                            *)
(*                                                                         *)
(* Time is a natural number of clock ticks.  A jti is a natural number     *)
(* handed out freshly by the caller: uuid4 gives a new string each time.   *)
(* Signing is external (PyJWT): a token is its claims, and only tokens the *)
(* service made decode.                                                    *)
(***************************************************************************)
EXTENDS Naturals

CONSTANTS
  ACCESS_TOKEN_LIFETIME,    \* ticks an access token lives
  REFRESH_TOKEN_LIFETIME,   \* ticks a refresh token lives
  LEEWAY,                   \* ticks a token is accepted after its exp
  CHECK_REVOKE_TOKEN        \* whether tokens carry a hash of the password

ASSUME LifetimesAssumption ==
  /\ ACCESS_TOKEN_LIFETIME \in Nat \ {0}
  /\ REFRESH_TOKEN_LIFETIME \in Nat \ {0}
  /\ LEEWAY \in Nat
  /\ CHECK_REVOKE_TOKEN \in BOOLEAN

Times == Nat
Jtis == Nat \ {0}

(***************************************************************************)
(* get_md5_hash_password: a digest of the stored password string.  Django  *)
(* salts every stored password afresh, so the digest determines the salt   *)
(* and is modelled as the salt under a tag; a token issued while           *)
(* CHECK_REVOKE_TOKEN is off has no such claim.                            *)
(***************************************************************************)
NoHash == <<"none", 0>>
PasswordHash(salt) == <<"sha256", salt>>
HashClaims == {"none", "sha256"} \X Nat

\* The claims the service's decisions read ("iat" is read by none of them).
Claims == [token_type : {"access", "refresh"},
           jti : Jtis,
           user_id : Nat,
           exp : Times,
           hash_password : HashClaims]

\* Token.check_exp, and the same test made by the decoder: the token is
\* still good at the time the Token object captured.
check_exp(token, current_time) == token.exp + LEEWAY > current_time

\* Token.set_exp with the lifetime of RefreshToken or AccessToken.
RefreshExp(from_time) == from_time + REFRESH_TOKEN_LIFETIME
AccessExp(from_time) == from_time + ACCESS_TOKEN_LIFETIME

\* The revocation claim for_user puts in: a digest of the password of the
\* user object in memory, nothing when CHECK_REVOKE_TOKEN is off.
RevokeClaim(salt) == IF CHECK_REVOKE_TOKEN THEN PasswordHash(salt) ELSE NoHash

\* RefreshToken.for_user on a user object holding a password with this salt.
for_user(user_id, salt, current_time, jti) ==
  [token_type |-> "refresh",
   jti |-> jti,
   user_id |-> user_id,
   exp |-> RefreshExp(current_time),
   hash_password |-> RevokeClaim(salt)]

\* RefreshToken.access_token: every claim of the refresh token is copied
\* except token_type, exp and jti (no_copy_claims); exp counts from the
\* moment the refresh token object was made.
access_token(refresh, current_time, jti) ==
  [refresh EXCEPT !.token_type = "access",
                  !.exp = AccessExp(current_time),
                  !.jti = jti]

\* set_jti, set_exp, set_iat on the refresh token in TokenRefreshSerializer.
rotated(refresh, current_time, jti) ==
  [refresh EXCEPT !.jti = jti, !.exp = RefreshExp(current_time)]
=============================================================================
