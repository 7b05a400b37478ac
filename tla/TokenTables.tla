----------------------------- MODULE TokenTables -----------------------------
(***************************************************************************)
(* The two tables of the token_blacklist app and what works on them beside *)
(* the token endpoints: the flushexpiredtokens command, the admin of the   *)
(* blacklist, the deletions of Accounts that cascade into them, and the    *)
(* clock.  TokenService (pairs) and SlidingTokens extend it with the       *)
(* requests.                                                               *)
(***************************************************************************)
EXTENDS TokenClaims, Accounts, FiniteSets

CONSTANTS
  MaxTime,   \* bound: the last clock tick
  MaxJti,    \* bound: no request that mints begins past it
  MaxRows    \* bound: outstanding-token rows ever inserted

ASSUME TokenTablesAssumption ==
  /\ MaxTime \in Nat
  /\ MaxJti \in Nat
  /\ MaxRows \in Nat

VARIABLES
  now,           \* the service's clock
  outstanding,   \* the OutstandingToken table
  blacklisted,   \* the BlacklistedToken table: ids of outstanding rows
  rows,          \* ids of outstanding rows handed out so far
  jtis,          \* jtis handed out so far
  revoked,       \* history: jtis blacklisted and not restored since
  restored       \* history: jtis the admin has ever taken off the blacklist

history == <<revoked, restored>>
tableVars == <<now, outstanding, blacklisted, rows, jtis, history>>

NoId == 0   \* a NULL user, or the parent of a token that came from a login

\* An OutstandingToken row (token and created_at are read by nothing).
Rows == [id : Nat, jti : Jtis, user : Nat, expires_at : Times]

TablesInit ==
  /\ AccountsInit
  /\ now = 0
  /\ outstanding = {}
  /\ blacklisted = {}
  /\ rows = 0
  /\ jtis = 0
  /\ revoked = {}
  /\ restored = {}

\* BlacklistedToken.objects.filter(token__jti=jti).exists()
IsBlacklisted(jti) ==
  \E r \in outstanding : r.jti = jti /\ r.id \in blacklisted

\* OutstandingToken.objects.create: a row under the next id.
Insert(jti, user, expires_at) ==
  /\ rows < MaxRows
  /\ outstanding' = outstanding \cup
       {[id |-> rows + 1, jti |-> jti, user |-> user, expires_at |-> expires_at]}
  /\ rows' = rows + 1

\* Fault: the blacklist keeps entries of rows that are gone.
CascadeToNothing(kept) == blacklisted

\* on_delete=CASCADE of BlacklistedToken.token: what is left when only the
\* outstanding rows in "kept" are.
CascadeTo(kept) == {b \in blacklisted : \E r \in kept : r.id = b}

\* Fault: the filter is a tick early.
FlushableEarly(r) == r.expires_at <= now + 1

\* The filter of flushexpiredtokens.
Flushable(r) == r.expires_at <= now

-----------------------------------------------------------------------------
\* Everything that goes when only the outstanding rows "kept" stay.
Keep(kept) ==
  /\ outstanding' = kept
  /\ blacklisted' = CascadeTo(kept)

FlushExpiredTokens ==
  /\ \E r \in outstanding : Flushable(r)
  /\ Keep({r \in outstanding : ~Flushable(r)})
  /\ UNCHANGED <<accountVars, now, rows, jtis, history>>

\* BlacklistedTokenAdmin, add page: any outstanding row not yet blacklisted.
AdminBlacklist ==
  /\ \E r \in outstanding :
       /\ r.id \notin blacklisted
       /\ blacklisted' = blacklisted \cup {r.id}
       /\ revoked' = revoked \cup {r.jti}
  /\ UNCHANGED <<accountVars, now, outstanding, rows, jtis, restored>>

\* BlacklistedTokenAdmin, delete page: the token is good again.
AdminRestore ==
  /\ \E r \in outstanding :
       /\ r.id \in blacklisted
       /\ blacklisted' = blacklisted \ {r.id}
       /\ revoked' = revoked \ {r.jti}
       /\ restored' = restored \cup {r.jti}
  /\ UNCHANGED <<accountVars, now, outstanding, rows, jtis>>

\* Deleting a user takes its outstanding rows and their blacklist entries.
DeleteUserCascade(u) ==
  /\ DeleteUser(u)
  /\ Keep({r \in outstanding : r.user # u})
  /\ UNCHANGED <<now, rows, jtis, history>>

Tick ==
  /\ now < MaxTime
  /\ now' = now + 1
  /\ UNCHANGED <<accountVars, outstanding, blacklisted, rows, jtis, history>>

TablesStep ==
  \/ FlushExpiredTokens
  \/ AdminBlacklist
  \/ AdminRestore
  \/ \E u \in UserIds : DeleteUserCascade(u)
  \/ Tick

AccountStep(w) == WorkerStep(w) /\ UNCHANGED tableVars

-----------------------------------------------------------------------------
(* Properties. *)

\* The shape of the account and token tables.
TablesTypeOK ==
  /\ AccountsTypeOK
  /\ now \in Times
  /\ outstanding \subseteq Rows
  /\ blacklisted \subseteq Nat
  /\ rows \in Nat
  /\ jtis \in Nat
  /\ revoked \subseteq Jtis

\* The tables fit together whatever order logins, logouts, rotations, flushes
\* and deletions come in: one outstanding row per jti and per id, and no
\* blacklist entry outlives its row (an entry that did would blacklist
\* whatever token got the row id, and no logout could be recorded).
DBIntegrity ==
  /\ \A r, s \in outstanding : (r.id = s.id \/ r.jti = s.jti) => r = s
  /\ \A b \in blacklisted : \E r \in outstanding : r.id = b
=============================================================================
