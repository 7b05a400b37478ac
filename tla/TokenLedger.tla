----------------------------- MODULE TokenLedger -----------------------------
(***************************************************************************)
(* What an easyjwt auth service promises about the tokens of its pair      *)
(* endpoints, without tables, rows, accounts or stages: which tokens       *)
(* exist, which are void, and what may be done with a token presented.     *)
(* TokenService implements this module.                                    *)
(***************************************************************************)
EXTENDS TokenClaims

CONSTANTS
  Presenters,    \* what presents a token to the service, one at a time
  SingleUse      \* whether a refresh spends the token it presents

VARIABLES
  clock,
  issued,    \* records of every token handed out, with its parent's jti
  void,      \* jtis the service refuses
  gone,      \* users that were deleted
  using      \* per presenter, the token it presents and how far it got

ledgerVars == <<clock, issued, void, gone, using>>

NoParent == 0
Free == [at |-> "free"]

IssuedJtis == {i.token.jti : i \in issued}

\* New tokens appear, under jtis never used, that live one lifetime of their
\* type from the given time.
Mint(from) ==
  /\ issued \subseteq issued'
  /\ \A i \in issued' \ issued :
       /\ i.token.jti \notin IssuedJtis
       /\ i.token.exp = IF i.token.token_type = "access"
                        THEN AccessExp(from) ELSE RefreshExp(from)

Step(p, next) == using' = [using EXCEPT ![p] = next]

-----------------------------------------------------------------------------
LedgerInit ==
  /\ clock = 0
  /\ issued = {}
  /\ void = {}
  /\ gone = {}
  /\ using = [p \in Presenters |-> Free]

\* A login: tokens made from none but each other.
Login ==
  /\ UNCHANGED <<clock, void, gone, using>>
  /\ Mint(clock)
  /\ \A i \in issued' \ issued :
       i.parent = NoParent \/ \E j \in issued' \ issued : i.parent = j.token.jti

\* A token that has not expired is presented.
Present(p) ==
  /\ using[p] = Free
  /\ UNCHANGED <<clock, issued, void, gone>>
  /\ \E i \in issued, op \in {"refresh", "blacklist"} :
       /\ check_exp(i.token, clock)
       /\ Step(p, [at |-> "presented", op |-> op, token |-> i.token,
                   time |-> clock])

\* It is let in: a refresh token, not void now, not expired when it was
\* presented.  A refresh that spends nothing may be answered at once.
Admit(p) ==
  /\ using[p].at = "presented"
  /\ UNCHANGED <<clock, issued, void, gone>>
  /\ using[p].token.jti \notin void
  /\ using[p].token.token_type = "refresh"
  /\ check_exp(using[p].token, using[p].time)
  /\ Step(p, [using[p] EXCEPT !.at =
                IF using[p].op = "refresh" /\ ~SingleUse
                THEN "cleared" ELSE "admitted"])

\* It is made void, which ends a logout and clears a refresh that spends it.
Spend(p) ==
  /\ using[p].at = "admitted"
  /\ UNCHANGED <<clock, issued, gone>>
  /\ void' = void \cup {using[p].token.jti}
  /\ Step(p, IF using[p].op = "refresh"
             THEN [using[p] EXCEPT !.at = "cleared"] ELSE Free)

\* The answer to a refresh: tokens made from the one presented, for its user,
\* that count from the moment it was presented.
Answer(p) ==
  /\ using[p].at = "cleared"
  /\ UNCHANGED <<clock, void, gone>>
  /\ Mint(using[p].time)
  /\ \A i \in issued' \ issued :
       /\ i.parent = using[p].token.jti
       /\ i.token.user_id = using[p].token.user_id
       /\ i.token.hash_password = using[p].token.hash_password
  /\ Step(p, Free)

\* A request ends without an answer, whatever it has done by then.
End(p) ==
  /\ using[p] # Free
  /\ Step(p, Free)
  /\ UNCHANGED <<clock, issued, void, gone>>

\* The admin makes a token void, or good again.
AdminVoid ==
  /\ UNCHANGED <<clock, issued, gone, using>>
  /\ \E j \in IssuedJtis : void' = void \cup {j}
AdminUnvoid ==
  /\ UNCHANGED <<clock, issued, gone, using>>
  /\ \E j \in void : void' = void \ {j}

\* The ledger may forget that a token is void once the token has expired or
\* its user is gone.
Forget ==
  /\ UNCHANGED <<clock, issued, using>>
  /\ gone \subseteq gone'
  /\ void' \subseteq void
  /\ \A i \in issued :
       i.token.jti \in void \ void' =>
         i.token.exp <= clock \/ i.token.user_id \in gone'

Tock ==
  /\ UNCHANGED <<issued, void, gone, using>>
  /\ clock' = clock + 1

LedgerNext ==
  \/ Forget
  \/ \E p \in Presenters :
       Present(p) \/ End(p) \/ Admit(p) \/ Spend(p) \/ Answer(p)
  \/ Login
  \/ AdminVoid
  \/ AdminUnvoid
  \/ Tock

LedgerSpec == LedgerInit /\ [][LedgerNext]_ledgerVars
=============================================================================
