------------------------- MODULE TokenFanOut_proofs -------------------------
(***************************************************************************)
(* Proof about TokenService for any finite number of workers: check,       *)
(* blacklist and answer are separate statements, and yet one refresh token *)
(* has no more successors than workers that were refreshing it at once.    *)
(*                                                                         *)
(* A worker is let in only while the token is not blacklisted; before any  *)
(* worker answers, it has blacklisted the token.  So nobody is let in once *)
(* there is a successor, and from then on each answer turns one worker     *)
(* that was let in into one successor (SpentInv carries the argument).     *)
(***************************************************************************)
EXTENDS TokenService_proofs, FiniteSetTheorems

SingleUse == ROTATE_REFRESH_TOKENS /\ BLACKLIST_AFTER_ROTATION

\* A token with a successor, or with one about to be made, has been revoked;
\* only the admin can have taken that back.
SpentInv ==
  SingleUse =>
    /\ \A g \in grants :
         (g.token.token_type = "refresh" /\ g.parent # NoId)
           => g.parent \in revoked \cup restored
    /\ \A w \in TokenWorkers :
         req[w].pc = "respond" =>
           /\ req[w].op = "refresh"
           /\ req[w].grant.token.jti \in revoked \cup restored

FanOutInv ==
  /\ Inv
  /\ IsFiniteSet(grants)
  /\ SpentInv
  /\ RotationFanOut

\* What SpentInv says stays said, so a step has to keep it for new tokens and
\* for the requests it moves.
LEMMA SpentStable ==
  ASSUME SpentInv,
         revoked \cup restored \subseteq revoked' \cup restored',
         \A g \in grants' \ grants :
           (SingleUse /\ g.token.token_type = "refresh" /\ g.parent # NoId)
             => g.parent \in revoked' \cup restored',
         \A w \in TokenWorkers :
           \/ req'[w] = req[w]
           \/ req'[w].pc # "respond"
           \/ SingleUse => /\ req'[w].op = "refresh"
                           /\ req'[w].grant.token.jti \in revoked' \cup restored'
  PROVE  SpentInv'
BY DEF SpentInv

\* A request answers only after it, or another one, has revoked its token.
LEMMA SpentTokenStep ==
  ASSUME Inv, SpentInv, NEW w \in TokenWorkers, TokenStep(w)
  PROVE  SpentInv'
<1>1. req \in [TokenWorkers -> TokenRequests]
  BY DEF Inv, TypeOK
<1>2. CASE LoginAuthenticate(w) \/ TokenBegin(w)
  <2>1. /\ req'[w].pc # "respond"
        /\ \A v \in TokenWorkers \ {w} : req'[v] = req[v]
        /\ UNCHANGED <<revoked, restored, grants>>
    BY <1>1, <1>2 DEF LoginAuthenticate, TokenBegin, tableVars, history
  <2> QED BY <2>1, SpentStable
<1>3. CASE TokenReject(w) \/ TokenAbort(w)
  <2>1. /\ req'[w].pc # "respond"
        /\ \A v \in TokenWorkers \ {w} : req'[v] = req[v]
        /\ UNCHANGED <<revoked, restored, grants>>
    BY <1>1, <1>3 DEF TokenReject, TokenAbort, Finish, Idle, tableVars, history
  <2> QED BY <2>1, SpentStable
<1>4. CASE LoginIssue(w)
  <2> DEFINE refresh == for_user(req[w].user, LoginSalt(req[w]), now, jtis + 1)
             access == access_token(refresh, now, jtis + 2)
  <2>1. /\ req'[w].pc # "respond"
        /\ \A v \in TokenWorkers \ {w} : req'[v] = req[v]
        /\ UNCHANGED <<revoked, restored>>
    BY <1>1, <1>4 DEF LoginIssue, Finish, Idle, history
  <2>2. access.token_type = "access"
    BY DEF access_token, for_user
  <2>3. \A g \in grants' \ grants :
          g.token.token_type = "access" \/ g.parent = NoId
    BY <1>4, <2>2 DEF LoginIssue
  <2> QED BY <2>1, <2>3, SpentStable
<1>5. CASE TokenAdmit(w)
  <2>1. req[w] \in [pc : {"check", "outstand", "respond"},
                    op : {"refresh", "blacklist"}, grant : Grants,
                    time : Times]
    BY <1>1, <1>5, TokenRequestShape DEF TokenAdmit
  <2>2. /\ req'[w].pc = NextStage(req[w].op)
        /\ \A v \in TokenWorkers \ {w} : req'[v] = req[v]
        /\ UNCHANGED <<revoked, restored, grants>>
    BY <1>1, <1>5, <2>1 DEF TokenAdmit, tableVars, history
  <2>3. SingleUse => req'[w].pc # "respond"
    BY <2>2 DEF NextStage, SingleUse
  <2> QED BY <2>2, <2>3, SpentStable
<1>6. CASE TokenOutstand(w)
  <2>1. /\ req'[w].pc # "respond"
        /\ \A v \in TokenWorkers \ {w} : req'[v] = req[v]
        /\ UNCHANGED <<revoked, restored, grants>>
    BY <1>1, <1>6 DEF TokenOutstand, history
  <2> QED BY <2>1, SpentStable
<1>7. CASE TokenBlacklist(w)
  <2>1. \/ req'[w].pc = "idle"
        \/ req'[w].op = "refresh" /\ req'[w].grant = req[w].grant
    BY <1>1, <1>7 DEF TokenBlacklist, Finish, Idle
  <2>2. /\ \A v \in TokenWorkers \ {w} : req'[v] = req[v]
        /\ revoked' = revoked \cup {req[w].grant.token.jti}
        /\ UNCHANGED <<restored, grants>>
    BY <1>1, <1>7 DEF TokenBlacklist, Finish
  <2> QED BY <2>1, <2>2, SpentStable
<1>8. CASE RefreshRespond(w)
  <2> DEFINE j == req[w].grant.token.jti
  <2>1. /\ req'[w].pc # "respond"
        /\ \A v \in TokenWorkers \ {w} : req'[v] = req[v]
        /\ UNCHANGED <<revoked, restored>>
    BY <1>1, <1>8 DEF RefreshRespond, Finish, Idle, history
  <2>2. SingleUse => j \in revoked \cup restored
    BY <1>8 DEF RefreshRespond, SpentInv
  <2>3. \A g \in grants' \ grants : g.parent = j
    BY <1>8 DEF RefreshRespond
  <2> QED BY <2>1, <2>2, <2>3, SpentStable
<1> QED
  BY <1>2, <1>3, <1>4, <1>5, <1>6, <1>7, <1>8 DEF TokenStep

\* Nothing else that runs makes the revocations fewer that were or were undone.
LEMMA OtherStepFacts ==
  ASSUME Inv,
         \/ TablesStep /\ UNCHANGED <<req, grants>>
         \/ \E w \in AccountWorkers :
              AccountStep(w) /\ UNCHANGED <<req, grants>>
         \/ UNCHANGED vars
  PROVE  /\ UNCHANGED <<req, grants>>
         /\ now' \in Nat /\ now <= now'
         /\ deleted \subseteq deleted'
         /\ restored \subseteq restored'
         /\ revoked \cup restored \subseteq revoked' \cup restored'
<1>1. now \in Nat
  BY DEF Inv, TypeOK, TablesTypeOK, Times
<1>2. UNCHANGED <<req, grants>>
  BY DEF vars
<1>3. CASE FlushExpiredTokens \/ AdminBlacklist \/ Tick
  BY <1>1, <1>2, <1>3
  DEF FlushExpiredTokens, AdminBlacklist, Tick, accountVars, history
<1>4. CASE AdminRestore
  <2>1. PICK r \in outstanding : /\ revoked' = revoked \ {r.jti}
                                 /\ restored' = restored \cup {r.jti}
    BY <1>4 DEF AdminRestore
  <2>2. now' = now /\ deleted' = deleted
    BY <1>4 DEF AdminRestore, accountVars
  <2> QED BY <1>1, <1>2, <2>1, <2>2
<1>5. CASE \E u \in UserIds : DeleteUserCascade(u)
  BY <1>1, <1>2, <1>5 DEF DeleteUserCascade, DeleteUser, history
<1>6. CASE \E w \in AccountWorkers : AccountStep(w)
  BY <1>1, <1>2, <1>6, AccountStepKeepsTables DEF tableVars, history
<1>7. CASE UNCHANGED vars
  BY <1>1, <1>2, <1>7 DEF vars, accountVars, tableVars, history
<1> QED BY <1>3, <1>4, <1>5, <1>6, <1>7 DEF TablesStep

\* Nothing is handed out at the start, and nobody is at work.
LEMMA FanOutInit == Init => FanOutInv
<1> SUFFICES ASSUME Init PROVE FanOutInv
  OBVIOUS
<1>1. grants = {} /\ \A w \in TokenWorkers : req[w] = Idle
  BY DEF Init
<1>2. Inv /\ IsFiniteSet(grants)
  BY <1>1, InvInit, FS_EmptySet
<1> QED BY <1>1, <1>2 DEF FanOutInv, SpentInv, RotationFanOut, Idle

\* The workers let in for a token are at most all workers.
LEMMA AdmittedFinite ==
  ASSUME NEW S \in SUBSET TokenWorkers
  PROVE  /\ IsFiniteSet(S)
         /\ Cardinality(S) \in Nat
         /\ Cardinality(TokenWorkers) \in Nat
         /\ Cardinality(S) <= Cardinality(TokenWorkers)
<1>1. IsFiniteSet(TokenWorkers)
  BY TokenServiceAssumption
<1>2. IsFiniteSet(S) /\ Cardinality(S) <= Cardinality(TokenWorkers)
  BY <1>1, FS_Subset
<1> QED BY <1>1, <1>2, FS_CardinalityType

\* A token that is no exception now was none a step before.
LEMMA ExceptionsLast ==
  ASSUME Inv, NEW g \in grants,
         now' \in Nat, now <= now', deleted \subseteq deleted',
         restored \subseteq restored',
         g.token.exp > now', g.token.user_id \notin deleted',
         g.token.jti \notin restored'
  PROVE  /\ g.token.exp > now
         /\ g.token.user_id \notin deleted
         /\ g.token.jti \notin restored
<1>1. now \in Nat /\ g.token.exp \in Nat
  BY DEF Inv, TypeOK, TablesTypeOK, Times, Grants, Claims
<1> QED BY <1>1

\* Steps that hand out nothing and let nobody in.
LEMMA FanOutShrinks ==
  ASSUME FanOutInv, Inv', SpentInv', grants' = grants,
         now' \in Nat, now <= now', deleted \subseteq deleted',
         restored \subseteq restored',
         \A j \in Jtis : Admitted(j)' \subseteq Admitted(j)
  PROVE  FanOutInv'
<1>1. ASSUME SingleUse, NEW g \in grants,
             g.token.exp > now', g.token.user_id \notin deleted',
             g.token.jti \notin restored'
      PROVE  Cardinality(Successors(g.token.jti)')
               + Cardinality(Admitted(g.token.jti)') <= Cardinality(TokenWorkers)
  <2> DEFINE S == Successors(g.token.jti)
             A == Admitted(g.token.jti)
             B == Admitted(g.token.jti)'
  <2>1. Cardinality(S) + Cardinality(A) <= Cardinality(TokenWorkers)
    BY <1>1, ExceptionsLast DEF FanOutInv, RotationFanOut, SingleUse
  <2>2. Successors(g.token.jti)' = S
    BY DEF Successors
  <2>3. A \in SUBSET TokenWorkers /\ B \in SUBSET A
    <3>1. g.token.jti \in Jtis
      BY DEF FanOutInv, Inv, TypeOK, Grants, Claims
    <3> QED BY <3>1 DEF Admitted
  <2>4. S \in SUBSET grants
    BY DEF Successors
  <2> HIDE DEF S, A, B
  <2>5. IsFiniteSet(A) /\ Cardinality(A) \in Nat
    BY <2>3, AdmittedFinite
  <2>6. IsFiniteSet(B) /\ Cardinality(B) <= Cardinality(A)
    BY <2>3, <2>5, FS_Subset
  <2>7. Cardinality(S) \in Nat /\ Cardinality(B) \in Nat
        /\ Cardinality(TokenWorkers) \in Nat
    BY <2>4, <2>6, FS_Subset, FS_CardinalityType, TokenServiceAssumption
    DEF FanOutInv
  <2> QED BY <2>1, <2>2, <2>5, <2>6, <2>7 DEF B
<1>2. RotationFanOut'
  BY <1>1 DEF RotationFanOut, SingleUse
<1> QED BY <1>2 DEF FanOutInv

\* The stages at which a worker has not been let in, or stays so.
LEMMA FanOutQuietStep ==
  ASSUME FanOutInv, Inv', SpentInv', NEW w \in TokenWorkers,
         \/ LoginAuthenticate(w) \/ TokenBegin(w) \/ TokenReject(w)
         \/ TokenOutstand(w) \/ TokenBlacklist(w) \/ TokenAbort(w)
  PROVE  FanOutInv'
<1>1. /\ req \in [TokenWorkers -> TokenRequests]
      /\ now \in Nat
  BY DEF FanOutInv, Inv, TypeOK, TablesTypeOK, Times
<1>2. UNCHANGED <<now, grants, deleted, restored>>
  BY DEF LoginAuthenticate, TokenBegin, TokenReject, TokenOutstand,
         TokenBlacklist, TokenAbort, accountVars, tableVars, history
<1>3. \A v \in TokenWorkers \ {w} : req'[v] = req[v]
  BY <1>1 DEF LoginAuthenticate, TokenBegin, TokenReject, TokenOutstand,
              TokenBlacklist, TokenAbort, Finish
<1>4. \/ req'[w].pc \in {"idle", "issue", "check"}
      \/ /\ req[w].pc \in {"outstand", "blacklist", "respond"}
         /\ req'[w].op = req[w].op
         /\ req'[w].grant = req[w].grant
  <2>1. CASE LoginAuthenticate(w) \/ TokenBegin(w)
    BY <1>1, <2>1 DEF LoginAuthenticate, TokenBegin
  <2>2. CASE TokenReject(w) \/ TokenAbort(w)
    BY <1>1, <2>2 DEF TokenReject, TokenAbort, Finish, Idle
  <2>3. CASE TokenOutstand(w)
    BY <1>1, <2>3 DEF TokenOutstand
  <2>4. CASE TokenBlacklist(w)
    BY <1>1, <2>4 DEF TokenBlacklist, Finish, Idle
  <2> QED BY <2>1, <2>2, <2>3, <2>4
<1>5. \A j \in Jtis : Admitted(j)' \subseteq Admitted(j)
  BY <1>3, <1>4 DEF Admitted
<1> QED BY <1>1, <1>2, <1>5, FanOutShrinks

\* A worker is let in: its token has no successor yet, unless it is exempt.
LEMMA FanOutAdmit ==
  ASSUME FanOutInv, Inv', SpentInv', NEW w \in TokenWorkers, TokenAdmit(w)
  PROVE  FanOutInv'
<1>1. /\ req \in [TokenWorkers -> TokenRequests]
      /\ UNCHANGED <<now, grants, deleted, restored>>
      /\ now \in Nat
  BY DEF FanOutInv, Inv, TypeOK, TablesTypeOK, Times, TokenAdmit, accountVars,
         tableVars, history
<1>2. ASSUME SingleUse, NEW g \in grants,
             g.token.exp > now, g.token.user_id \notin deleted,
             g.token.jti \notin restored
      PROVE  Cardinality(Successors(g.token.jti)')
               + Cardinality(Admitted(g.token.jti)') <= Cardinality(TokenWorkers)
  <2> DEFINE j == g.token.jti
             S == Successors(j)
             A == Admitted(j)
             B == Admitted(j)'
  <2>1. Cardinality(S) + Cardinality(A) <= Cardinality(TokenWorkers)
    BY <1>2 DEF FanOutInv, RotationFanOut, SingleUse
  <2>2. Successors(g.token.jti)' = S
    BY <1>1 DEF Successors
  <2>3. A \in SUBSET TokenWorkers /\ B \in SUBSET TokenWorkers
    BY DEF Admitted
  <2>4. \A v \in TokenWorkers \ {w} : req'[v] = req[v]
    BY <1>1 DEF TokenAdmit
  <2>5. IsFiniteSet(S) /\ Cardinality(S) \in Nat
    <3>1. S \in SUBSET grants
      BY DEF Successors
    <3> QED BY <3>1, FS_Subset, FS_CardinalityType DEF FanOutInv
  <2>6. CASE req[w].grant.token.jti = j
    <3>1. ~IsBlacklisted(j)
      BY <2>6 DEF TokenAdmit, verify
    <3>2. j \notin revoked
      BY <3>1, <1>2 DEF FanOutInv, Inv, RevokedInv
    <3>3. j # NoId
      BY DEF FanOutInv, Inv, TypeOK, Grants, Claims, Jtis, NoId
    <3>4. S = {}
      BY <1>2, <3>2, <3>3 DEF FanOutInv, SpentInv, Successors
    <3>5. Cardinality(S) = 0
      BY <3>4, FS_EmptySet
    <3> HIDE DEF S, B
    <3> QED BY <2>2, <2>3, <3>5, AdmittedFinite DEF B
  <2>7. CASE req[w].grant.token.jti # j
    <3>1. req'[w].grant = req[w].grant
      <4>1. req[w] \in [pc : {"check", "outstand", "respond"},
                        op : {"refresh", "blacklist"}, grant : Grants,
                        time : Times]
        BY <1>1, TokenRequestShape DEF TokenAdmit
      <4> QED BY <1>1, <4>1 DEF TokenAdmit
    <3>2. B \in SUBSET A
      BY <2>4, <2>7, <3>1 DEF Admitted
    <3> HIDE DEF S, A, B
    <3>3. IsFiniteSet(A) /\ Cardinality(A) \in Nat
      BY <2>3, AdmittedFinite
    <3>4. Cardinality(B) <= Cardinality(A) /\ Cardinality(B) \in Nat
      BY <2>3, <3>2, <3>3, FS_Subset, AdmittedFinite
    <3>5. Cardinality(TokenWorkers) \in Nat
      BY FS_CardinalityType, TokenServiceAssumption
    <3> QED BY <2>1, <2>2, <2>5, <3>3, <3>4, <3>5 DEF B
  <2> QED BY <2>6, <2>7
<1>3. RotationFanOut'
  BY <1>1, <1>2 DEF RotationFanOut, SingleUse
<1> QED BY <1>1, <1>3 DEF FanOutInv

\* A token that is new has no successor, and nobody is refreshing it.
LEMMA NewTokensAreFresh ==
  ASSUME Inv, NEW j \in Nat, j > jtis
  PROVE  /\ j \notin {g.parent : g \in grants}
         /\ Admitted(j) = {}
<1>1. \A g \in grants : g.parent \in Nat /\ g.token.jti \in Nat
  BY DEF Inv, TypeOK, Grants, Claims, Jtis
<1>2. jtis \in Nat
  BY DEF Inv, TypeOK, TablesTypeOK
<1>3. j \notin {g.parent : g \in grants}
  BY <1>1, <1>2 DEF Inv, GrantsInv
<1>4. ASSUME NEW w \in Admitted(j)
      PROVE  FALSE
  <2>1. req[w].grant \in grants /\ req[w].grant.token.jti = j
    BY <1>4 DEF Inv, ReqInv, Admitted
  <2> QED BY <2>1, <1>1, <1>2 DEF Inv, GrantsInv
<1> QED BY <1>3, <1>4

\* Steps that hand out tokens and end their request: a successor takes the
\* place of the worker that made it.
LEMMA FanOutMint ==
  ASSUME FanOutInv, Inv', SpentInv', NEW w \in TokenWorkers,
         req' = [req EXCEPT ![w] = Idle],
         UNCHANGED <<now, deleted, restored>>,
         grants \subseteq grants', IsFiniteSet(grants'),
         \A g \in grants' \ grants :
           /\ g.token.jti > jtis
           /\ g.token.token_type = "access" \/ g.parent <= jtis,
         SingleUse =>
           \A g \in grants :
             \/ Successors(g.token.jti)' = Successors(g.token.jti)
             \/ /\ w \in Admitted(g.token.jti)
                /\ \E n \in grants' :
                     Successors(g.token.jti)' = Successors(g.token.jti) \cup {n}
  PROVE  FanOutInv'
<1>1. /\ req \in [TokenWorkers -> TokenRequests]
      /\ jtis \in Nat
      /\ \A g \in grants' : g.token.jti \in Nat /\ g.parent \in Nat
  BY DEF FanOutInv, Inv, TypeOK, TablesTypeOK, Grants, Claims, Jtis
<1>2. \A j : Admitted(j)' = Admitted(j) \ {w}
  BY <1>1 DEF Admitted, Idle
<1>3. \A j : Admitted(j) \in SUBSET TokenWorkers
  BY DEF Admitted
<1>4. Cardinality(TokenWorkers) \in Nat
  BY FS_CardinalityType, TokenServiceAssumption
<1>5. ASSUME SingleUse, NEW g \in grants,
             g.token.exp > now, g.token.user_id \notin deleted,
             g.token.jti \notin restored
      PROVE  Cardinality(Successors(g.token.jti)')
               + Cardinality(Admitted(g.token.jti)') <= Cardinality(TokenWorkers)
  <2> DEFINE S == Successors(g.token.jti)
             A == Admitted(g.token.jti)
  <2>1. Cardinality(S) + Cardinality(A) <= Cardinality(TokenWorkers)
    BY <1>5 DEF FanOutInv, RotationFanOut, SingleUse
  <2>2. \/ Successors(g.token.jti)' = S
        \/ w \in A /\ \E n \in grants' : Successors(g.token.jti)' = S \cup {n}
    BY <1>5
  <2>3. Admitted(g.token.jti)' = A \ {w}
    BY <1>2
  <2>4. A \in SUBSET TokenWorkers
    BY <1>3
  <2>5. S \in SUBSET grants
    BY DEF Successors
  <2> HIDE DEF S, A
  <2>6. /\ IsFiniteSet(A) /\ Cardinality(A) \in Nat
        /\ IsFiniteSet(S) /\ Cardinality(S) \in Nat
    BY <2>4, <2>5, AdmittedFinite, FS_Subset, FS_CardinalityType DEF FanOutInv
  <2>7. Cardinality(A \ {w})
          = IF w \in A THEN Cardinality(A) - 1 ELSE Cardinality(A)
    BY <2>6, FS_RemoveElement
  <2>8. CASE Successors(g.token.jti)' = S
    BY <1>4, <2>1, <2>3, <2>6, <2>7, <2>8
  <2>9. ASSUME w \in A, NEW n \in grants',
               Successors(g.token.jti)' = S \cup {n}
        PROVE  Cardinality(Successors(g.token.jti)')
                 + Cardinality(Admitted(g.token.jti)')
                   <= Cardinality(TokenWorkers)
    <3>1. \/ Cardinality(S \cup {n}) = Cardinality(S)
          \/ Cardinality(S \cup {n}) = Cardinality(S) + 1
      BY <2>6, FS_AddElement
    <3> QED BY <1>4, <2>1, <2>3, <2>6, <2>7, <2>9, <3>1
  <2> QED BY <2>2, <2>8, <2>9
<1>6. ASSUME NEW g \in grants', g \notin grants
      PROVE  Cardinality(Successors(g.token.jti)')
               + Cardinality(Admitted(g.token.jti)') <= Cardinality(TokenWorkers)
  <2>1. g.token.jti > jtis /\ g.token.jti \in Nat
    BY <1>1, <1>6
  <2>2. /\ g.token.jti \notin {h.parent : h \in grants}
        /\ Admitted(g.token.jti) = {}
    BY <2>1, NewTokensAreFresh DEF FanOutInv
  <2>3. ASSUME NEW h \in grants', h.token.token_type = "refresh",
               h.parent = g.token.jti
        PROVE  FALSE
    <3>1. h \notin grants
      BY <2>2, <2>3
    <3>2. h.parent <= jtis
      BY <2>3, <3>1
    <3> QED BY <1>1, <2>1, <2>3, <3>2
  <2>4. Successors(g.token.jti)' = {}
    BY <2>3 DEF Successors
  <2>5. Admitted(g.token.jti)' = {}
    BY <1>2, <2>2
  <2> QED BY <1>4, <2>4, <2>5, FS_EmptySet
<1>7. RotationFanOut'
  BY <1>5, <1>6 DEF RotationFanOut, SingleUse
<1> QED BY <1>7 DEF FanOutInv

\* A login's tokens succeed none, and none presents them yet.
LEMMA FanOutLogin ==
  ASSUME FanOutInv, Inv', SpentInv', NEW w \in TokenWorkers, LoginIssue(w)
  PROVE  FanOutInv'
<1> DEFINE r == req[w]
           refresh == for_user(r.user, LoginSalt(r), now, jtis + 1)
           access == access_token(refresh, now, jtis + 2)
           gr == [token |-> refresh, parent |-> NoId, login |-> r.salt]
           ga == [token |-> access, parent |-> refresh.jti, login |-> r.salt]
<1>1. jtis \in Nat /\ \A g \in grants : g.token.jti \in Jtis
  BY DEF FanOutInv, Inv, TypeOK, TablesTypeOK, Grants, Claims
<1>2. /\ gr.token.jti = jtis + 1 /\ gr.parent = NoId
      /\ ga.token.jti = jtis + 2 /\ ga.token.token_type = "access"
  BY DEF for_user, access_token
<1>3. /\ grants' = grants \cup {gr, ga}
      /\ req' = [req EXCEPT ![w] = Idle]
      /\ UNCHANGED <<now, deleted, restored>>
  BY DEF LoginIssue, Finish, accountVars, history
<1> HIDE DEF gr, ga
<1>4. IsFiniteSet(grants')
  <2>1. grants' = (grants \cup {gr}) \cup {ga}
    BY <1>3
  <2> QED BY <2>1, FS_AddElement DEF FanOutInv
<1>5. \A g \in grants' \ grants :
        /\ g.token.jti > jtis
        /\ g.token.token_type = "access" \/ g.parent <= jtis
  BY <1>1, <1>2, <1>3 DEF NoId
<1>6. ASSUME NEW g \in grants
      PROVE  Successors(g.token.jti)' = Successors(g.token.jti)
  BY <1>1, <1>2, <1>3 DEF Successors, NoId, Jtis
<1> QED BY <1>3, <1>4, <1>5, <1>6, FanOutMint

\* An answer's successor is that of the token its worker was let in for.
LEMMA FanOutRespond ==
  ASSUME FanOutInv, Inv', SpentInv', NEW w \in TokenWorkers, RefreshRespond(w)
  PROVE  FanOutInv'
<1> DEFINE g0 == req[w].grant
           time == MintTime(req[w])
           access == access_token(g0.token, time, jtis + 1)
           next == rotated(g0.token, time, jtis + 2)
           Child(t) == [token |-> t, parent |-> g0.token.jti,
                        login |-> g0.login]
           ca == Child(access)
           cn == Child(next)
<1>1. /\ jtis \in Nat /\ req \in [TokenWorkers -> TokenRequests]
      /\ g0 \in grants /\ g0.token.jti <= jtis /\ g0.token \in Claims
  BY DEF FanOutInv, Inv, TypeOK, TablesTypeOK, Grants, ReqInv, GrantsInv,
         RefreshRespond
<1>2. /\ ca.token.jti = jtis + 1 /\ ca.token.token_type = "access"
      /\ cn.token.jti = jtis + 2 /\ cn.parent = g0.token.jti
  BY <1>1 DEF access_token, rotated, Claims
<1>3. /\ \/ grants' = grants \cup {ca, cn}
         \/ grants' = grants \cup {ca}
      /\ req' = [req EXCEPT ![w] = Idle]
      /\ UNCHANGED <<now, deleted, restored>>
  BY DEF RefreshRespond, Finish, accountVars, history
<1> HIDE DEF ca, cn
<1>4. IsFiniteSet(grants')
  <2>1. \/ grants' = (grants \cup {ca}) \cup {cn}
        \/ grants' = grants \cup {ca}
    BY <1>3
  <2>2. IsFiniteSet(grants \cup {ca})
    BY FS_AddElement DEF FanOutInv
  <2>3. IsFiniteSet((grants \cup {ca}) \cup {cn})
    BY <2>2, FS_AddElement
  <2> QED BY <2>1, <2>2, <2>3
<1>5. \A g \in grants' \ grants :
        /\ g.token.jti > jtis
        /\ g.token.token_type = "access" \/ g.parent <= jtis
  BY <1>1, <1>2, <1>3
<1>6. ASSUME SingleUse, NEW g \in grants
      PROVE  \/ Successors(g.token.jti)' = Successors(g.token.jti)
             \/ /\ w \in Admitted(g.token.jti)
                /\ \E n \in grants' :
                     Successors(g.token.jti)' = Successors(g.token.jti) \cup {n}
  <2>1. CASE g.token.jti # g0.token.jti
    BY <2>1, <1>2, <1>3 DEF Successors
  <2>2. CASE g.token.jti = g0.token.jti
    <3>1. w \in Admitted(g.token.jti)
      BY <1>6, <2>2 DEF Admitted, RefreshRespond, FanOutInv, SpentInv
    <3>2. \/ Successors(g.token.jti)' = Successors(g.token.jti)
          \/ cn \in grants' /\ Successors(g.token.jti)'
                                 = Successors(g.token.jti) \cup {cn}
      BY <1>2, <1>3 DEF Successors
    <3> QED BY <3>1, <3>2
  <2> QED BY <2>1, <2>2
<1> QED BY <1>3, <1>4, <1>5, <1>6, FanOutMint

\* Every step keeps the count.
LEMMA FanOutStep == FanOutInv /\ [Next]_vars => FanOutInv'
<1> SUFFICES ASSUME FanOutInv, [Next]_vars
             PROVE  FanOutInv'
  OBVIOUS
<1>1. Inv /\ Inv' /\ SpentInv
  BY InvStep DEF FanOutInv
<1>2. ASSUME NEW w \in TokenWorkers, TokenStep(w)
      PROVE  FanOutInv'
  <2>1. SpentInv'
    BY <1>1, <1>2, SpentTokenStep
  <2> QED
    BY <1>1, <1>2, <2>1, FanOutQuietStep, FanOutAdmit, FanOutLogin,
       FanOutRespond
    DEF TokenStep
<1>3. CASE \/ TablesStep /\ UNCHANGED <<req, grants>>
           \/ \E w \in AccountWorkers :
                AccountStep(w) /\ UNCHANGED <<req, grants>>
           \/ UNCHANGED vars
  <2>1. /\ UNCHANGED <<req, grants>>
        /\ now' \in Nat /\ now <= now'
        /\ deleted \subseteq deleted'
        /\ restored \subseteq restored'
        /\ revoked \cup restored \subseteq revoked' \cup restored'
    BY <1>1, <1>3, OtherStepFacts
  <2>2. SpentInv'
    BY <1>1, <2>1, SpentStable
  <2>3. \A j \in Jtis : Admitted(j)' \subseteq Admitted(j)
    BY <2>1 DEF Admitted
  <2> QED BY <1>1, <2>1, <2>2, <2>3, FanOutShrinks
<1> QED BY <1>2, <1>3 DEF Next

\* However many workers race to refresh one token, and whatever flushes,
\* logouts and crashes go on beside them, its successors and the workers that
\* may still make one are together never more than the service's workers.
THEOREM FanOutBounded == Spec => []RotationFanOut
<1>1. FanOutInv => RotationFanOut
  BY DEF FanOutInv
<1> QED BY <1>1, FanOutInit, FanOutStep, PTL DEF Spec
=============================================================================
