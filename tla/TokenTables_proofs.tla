-------------------------- MODULE TokenTables_proofs --------------------------
(***************************************************************************)
(* Lemmas about the token tables, shared by the proofs about the modules   *)
(* that put requests beside them (TokenService, SlidingTokens).            *)
(***************************************************************************)
EXTENDS TokenTables, Accounts_proofs

\* The tables start well typed.
LEMMA TablesTypeInit == TablesInit => TablesTypeOK
BY AccountsTypeInit DEF TablesInit, TablesTypeOK, Times

\* The flush command, the admin, deletions, account requests and the clock
\* keep the tables well typed.
LEMMA TablesTypeStep ==
  ASSUME TablesTypeOK,
         \/ TablesStep
         \/ \E w \in AccountWorkers : AccountStep(w)
         \/ UNCHANGED <<accountVars, tableVars>>
  PROVE  TablesTypeOK'
<1> USE DEF TablesTypeOK
<1>1. accountVars' = accountVars => AccountsTypeOK'
  BY DEF accountVars, AccountsTypeOK, Exists
<1>2. CASE FlushExpiredTokens
  BY <1>1, <1>2 DEF FlushExpiredTokens, Keep, CascadeTo, history
<1>3. CASE AdminBlacklist
  BY <1>1, <1>3 DEF AdminBlacklist, Rows
<1>4. CASE AdminRestore
  BY <1>1, <1>4 DEF AdminRestore
<1>5. ASSUME NEW u \in UserIds, DeleteUserCascade(u)
      PROVE  TablesTypeOK'
  BY <1>5, AccountsTypeDelete DEF DeleteUserCascade, Keep, CascadeTo, history
<1>6. ASSUME NEW w \in AccountWorkers, AccountStep(w)
      PROVE  TablesTypeOK'
  BY <1>6, AccountsTypeStep DEF AccountStep, tableVars, history
<1>7. CASE Tick
  BY <1>1, <1>7 DEF Tick, Times, history
<1>8. CASE UNCHANGED <<accountVars, tableVars>>
  BY <1>1, <1>8 DEF tableVars, history
<1> QED
  BY <1>2, <1>3, <1>4, <1>5, <1>6, <1>7, <1>8 DEF TablesStep

\* Account requests delete no user, and leave the token tables alone.
LEMMA AccountStepKeepsTables ==
  ASSUME NEW w \in AccountWorkers, AccountStep(w)
  PROVE  UNCHANGED <<deleted, tableVars>>
BY DEF AccountStep, WorkerStep, CreateUserValidate, AdminAddValidate,
       InsertUser, PasswordChangeValidate, PasswordChangeCreate,
       PasswordChangeCrash, AdminChangeLoad, AdminPasswordLoad, SaveUser,
       WriteConflict, AbortAccount
=============================================================================
