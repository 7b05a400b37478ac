--------------------------- MODULE Accounts_proofs ---------------------------
(***************************************************************************)
(* Proofs about Accounts: type correctness, unique addresses, what a       *)
(* full-row save may lose and what it may bring back.  The lemmas speak of *)
(* WorkerStep and DeleteUser one by one, so that TokenService_proofs can   *)
(* use them for the account steps of its own Next.                         *)
(***************************************************************************)
EXTENDS Accounts, TLAPS

USE DEF Exists

\* An idle worker has no request whose stage is any other.
LEMMA IdlePc == Idle.pc = "idle"
BY DEF Idle

\* A request's stage tells which fields it has.
LEMMA RequestShape ==
  ASSUME NEW r \in AccountRequests
  PROVE  /\ r.pc = "insert" => r \in [pc : {"insert"}, row : UserRows]
         /\ r.pc = "create" =>
              r \in [pc : {"create"}, email : Emails, password : Passwords,
                     new_password : Passwords]
         /\ r.pc = "save" =>
              r \in [pc : {"save"}, edits : {"password", "profile"},
                     user : UserIds, loaded : UserRows, row : UserRows]
BY DEF AccountRequests, Idle

\* The service starts with tables and requests of the right shape.
LEMMA AccountsTypeInit == AccountsInit => AccountsTypeOK
BY AccountsAssumption DEF AccountsInit, AccountsTypeOK, AccountRequests, Idle, UserIds

\* Every stage of an account request keeps the shape of the tables and of the
\* requests, and hands out ids in order.
LEMMA AccountsTypeStep ==
  ASSUME AccountsTypeOK, NEW w \in AccountWorkers, WorkerStep(w)
  PROVE  AccountsTypeOK'
<1> USE AccountsAssumption DEF AccountsTypeOK, UserIds
<1>1. ASSUME NEW r \in AccountRequests, acct' = [acct EXCEPT ![w] = r],
             r.pc # "save",
             UNCHANGED <<users, created, deleted>>,
             salts' \in Nat
      PROVE  AccountsTypeOK'
  BY <1>1
<1>2. Idle \in AccountRequests /\ Idle.pc # "save"
  BY DEF Idle, AccountRequests
<1>3. ASSUME NEW p \in Passwords
      PROVE  Salted(p) \in StoredPasswords
  BY DEF Salted, StoredPasswords
<1>4. CASE CreateUserValidate(w)
  <2>1. PICK e \in Emails, p \in Passwords :
          acct' = [acct EXCEPT ![w] =
            [pc |-> "insert",
             row |-> [email |-> Lower(e), password |-> Salted(p),
                      is_active |-> TRUE]]]
    BY <1>4 DEF CreateUserValidate
  <2>2. Lower(e) \in Emails
    BY DEF Lower, Emails
  <2>3. [pc |-> "insert",
         row |-> [email |-> Lower(e), password |-> Salted(p),
                  is_active |-> TRUE]] \in AccountRequests
    BY <2>2, <1>3 DEF AccountRequests, UserRows
  <2>4. salts' \in Nat /\ UNCHANGED <<users, created, deleted>>
    BY <1>4 DEF CreateUserValidate
  <2> QED BY <2>1, <2>3, <2>4, <1>1
<1>5. CASE AdminAddValidate(w)
  <2>1. PICK e \in Emails, p \in Passwords :
          acct' = [acct EXCEPT ![w] =
            [pc |-> "insert",
             row |-> [email |-> e, password |-> Salted(p),
                      is_active |-> TRUE]]]
    BY <1>5 DEF AdminAddValidate
  <2>2. [pc |-> "insert",
         row |-> [email |-> e, password |-> Salted(p),
                  is_active |-> TRUE]] \in AccountRequests
    BY <1>3 DEF AccountRequests, UserRows
  <2>3. salts' \in Nat /\ UNCHANGED <<users, created, deleted>>
    BY <1>5 DEF AdminAddValidate
  <2> QED BY <2>1, <2>2, <2>3, <1>1
<1>6. CASE InsertUser(w)
  <2>1. acct[w].row \in UserRows
    BY <1>6, RequestShape DEF InsertUser
  <2>2. acct' \in [AccountWorkers -> AccountRequests]
        /\ \A v \in AccountWorkers : acct'[v].pc = "save" => acct'[v] = acct[v]
    BY <1>6, <1>2 DEF InsertUser
  <2>3. /\ users' \in [UserIds -> UserRows \cup {NoUser}]
        /\ created' \in 0..MaxUsers
        /\ \A u \in UserIds : users'[u] # NoUser => u <= created'
    BY <1>6, <2>1 DEF InsertUser, NextId
  <2>4. ASSUME NEW v \in AccountWorkers, acct'[v].pc = "save"
        PROVE  acct'[v].user <= created'
    <3>1. acct'[v] = acct[v] /\ acct[v] \in AccountRequests
      BY <2>2, <2>4
    <3>2. acct[v].user \in UserIds /\ acct[v].user <= created
      BY <3>1, <2>4, RequestShape
    <3> QED BY <3>1, <3>2, <1>6 DEF InsertUser
  <2> QED BY <1>6, <2>2, <2>3, <2>4 DEF InsertUser
<1>7. CASE PasswordChangeValidate(w)
  <2>1. PICK e \in Emails, p \in Passwords, new \in Passwords :
          acct' = [acct EXCEPT ![w] =
            [pc |-> "create", email |-> e, password |-> p,
             new_password |-> new]]
    BY <1>7 DEF PasswordChangeValidate
  <2>2. [pc |-> "create", email |-> e, password |-> p,
         new_password |-> new] \in AccountRequests
    BY DEF AccountRequests
  <2> QED BY <1>7, <2>1, <2>2, <1>1 DEF PasswordChangeValidate
<1>8. ASSUME NEW u \in UserIds, Exists(u), NEW x \in UserRows,
             NEW edits \in {"password", "profile"},
             acct' = [acct EXCEPT ![w] =
               [pc |-> "save", edits |-> edits, user |-> u,
                loaded |-> users[u], row |-> x]],
             UNCHANGED <<users, created, deleted>>, salts' \in Nat
      PROVE  AccountsTypeOK'
  <2>1. [pc |-> "save", edits |-> edits, user |-> u,
         loaded |-> users[u], row |-> x] \in AccountRequests
    BY <1>8 DEF AccountRequests
  <2>2. acct' \in [AccountWorkers -> AccountRequests]
    BY <1>8, <2>1
  <2>3. ASSUME NEW v \in AccountWorkers, acct'[v].pc = "save"
        PROVE  acct'[v].user <= created'
    BY <1>8, <2>3
  <2> QED BY <1>8, <2>2, <2>3
<1>9. ASSUME NEW u \in UserIds, Exists(u), NEW p \in Passwords
      PROVE  WithPassword(u, p) \in UserRows
  BY <1>9, <1>3 DEF UserRows, WithPassword
<1>10. CASE PasswordChangeCreate(w)
  <2>1. PICK u \in UserIds :
          /\ authenticate(u, acct[w].email, acct[w].password)
          /\ acct' = [acct EXCEPT ![w] =
            [pc |-> "save", edits |-> "password", user |-> u, loaded |-> users[u],
             row |-> WithPassword(u, acct[w].new_password)]]
    BY <1>10 DEF PasswordChangeCreate
  <2>2. acct[w].new_password \in Passwords
    BY <1>10, RequestShape DEF PasswordChangeCreate
  <2>3. WithPassword(u, acct[w].new_password)
          \in UserRows
    BY <2>1, <2>2, <1>9 DEF authenticate
  <2>4. Exists(u) /\ salts' \in Nat /\ UNCHANGED <<users, created, deleted>>
    BY <1>10, <2>1 DEF PasswordChangeCreate, authenticate
  <2> QED BY <2>1, <2>3, <2>4, <1>8
<1>11. CASE PasswordChangeCrash(w)
  BY <1>11, <1>2, <1>1 DEF PasswordChangeCrash
<1>12. CASE AdminChangeLoad(w)
  <2>1. PICK u \in UserIds, e \in Emails, active \in BOOLEAN :
          /\ Exists(u)
          /\ acct' = [acct EXCEPT ![w] =
            [pc |-> "save", edits |-> "profile", user |-> u, loaded |-> users[u],
             row |-> ProfileForm(u, e, active)]]
    BY <1>12 DEF AdminChangeLoad
  <2>2. ProfileForm(u, e, active) \in UserRows
    BY <2>1 DEF UserRows, ProfileForm
  <2> QED BY <1>12, <2>1, <2>2, <1>8 DEF AdminChangeLoad
<1>13. CASE AdminPasswordLoad(w)
  <2>1. PICK u \in UserIds, p \in Passwords :
          /\ Exists(u)
          /\ acct' = [acct EXCEPT ![w] =
            [pc |-> "save", edits |-> "password", user |-> u, loaded |-> users[u],
             row |-> WithPassword(u, p)]]
    BY <1>13 DEF AdminPasswordLoad
  <2>2. salts' \in Nat /\ UNCHANGED <<users, created, deleted>>
    BY <1>13 DEF AdminPasswordLoad
  <2>3. WithPassword(u, p) \in UserRows
    BY <2>1, <1>9
  <2> QED BY <2>1, <2>2, <2>3, <1>8
<1>14. CASE SaveUser(w)
  <2>1. /\ acct[w].row \in UserRows
        /\ acct[w].user \in UserIds
        /\ acct[w].user <= created
    BY <1>14, RequestShape DEF SaveUser
  <2>2. acct' \in [AccountWorkers -> AccountRequests]
        /\ \A v \in AccountWorkers : acct'[v].pc = "save" => acct'[v] = acct[v]
    BY <1>14, <1>2 DEF SaveUser
  <2>3. /\ users' \in [UserIds -> UserRows \cup {NoUser}]
        /\ \A u \in UserIds : users'[u] # NoUser => u <= created
    BY <1>14, <2>1 DEF SaveUser
  <2> QED BY <1>14, <2>2, <2>3 DEF SaveUser
<1>15. CASE WriteConflict(w)
  BY <1>15, <1>2, <1>1 DEF WriteConflict
<1>16. CASE AbortAccount(w)
  BY <1>16, <1>2, <1>1 DEF AbortAccount
<1> QED
  BY <1>4, <1>5, <1>6, <1>7, <1>10, <1>11, <1>12, <1>13, <1>14, <1>15, <1>16
  DEF WorkerStep

\* So does a deletion.
LEMMA AccountsTypeDelete ==
  ASSUME AccountsTypeOK, NEW u \in UserIds, DeleteUser(u)
  PROVE  AccountsTypeOK'
BY AccountsAssumption DEF AccountsTypeOK, DeleteUser, UserIds

\* In every reachable state the user table and the requests in flight have
\* their declared shape, whatever the numbers of workers and users.
THEOREM AccountsTypeCorrect == AccountsSpec => []AccountsTypeOK
<1>1. AccountsTypeOK /\ [AccountsNext]_accountVars => AccountsTypeOK'
  <2> SUFFICES ASSUME AccountsTypeOK, [AccountsNext]_accountVars
               PROVE  AccountsTypeOK'
    OBVIOUS
  <2>1. CASE UNCHANGED accountVars
    BY <2>1 DEF accountVars, AccountsTypeOK
  <2> QED
    BY <2>1, AccountsTypeStep, AccountsTypeDelete DEF AccountsNext
<1> QED BY AccountsTypeInit, <1>1, PTL DEF AccountsSpec

\* Account requests keep addresses unique: a row is written only past the
\* unique index, whatever the validators saw earlier.
LEMMA EmailUniqueStep ==
  ASSUME AccountsTypeOK, EmailUnique,
         \/ [\E w \in AccountWorkers : WorkerStep(w)]_accountVars
         \/ \E u \in UserIds : DeleteUser(u)
  PROVE  EmailUnique'
<1> USE DEF AccountsTypeOK, UserIds
<1>1. ASSUME users' = users
      PROVE  EmailUnique'
  BY <1>1 DEF EmailUnique
<1>2. ASSUME NEW u \in UserIds, NEW x \in UserRows \cup {NoUser},
             users' = [users EXCEPT ![u] = x],
             x # NoUser => \A v \in UserIds \ {u} :
                             Exists(v) => users[v].email # x.email
      PROVE  EmailUnique'
  BY <1>2 DEF EmailUnique
<1>3. ASSUME NEW w \in AccountWorkers, InsertUser(w)
      PROVE  EmailUnique'
  <2>1. acct[w].row \in UserRows
    BY <1>3, RequestShape DEF InsertUser
  <2>2. created + 1 \in UserIds
    BY <1>3, AccountsAssumption DEF InsertUser
  <2>3. users' = [users EXCEPT ![created + 1] = acct[w].row]
    BY <1>3 DEF InsertUser, NextId
  <2>4. \A v \in UserIds \ {created + 1} :
          Exists(v) => users[v].email # acct[w].row.email
    BY <1>3, AccountsAssumption DEF InsertUser, EmailAllowed
  <2> QED BY <2>1, <2>2, <2>3, <2>4, <1>2
<1>4. ASSUME NEW w \in AccountWorkers, SaveUser(w)
      PROVE  EmailUnique'
  <2>1. acct[w].row \in UserRows /\ acct[w].user \in UserIds
    BY <1>4, RequestShape DEF SaveUser
  <2> QED BY <1>4, <2>1, <1>2 DEF SaveUser, EmailAllowed
<1>5. ASSUME NEW u \in UserIds, DeleteUser(u)
      PROVE  EmailUnique'
  BY <1>5, <1>2 DEF DeleteUser
<1>6. ASSUME NEW w \in AccountWorkers, WorkerStep(w)
      PROVE  EmailUnique'
  BY <1>6, <1>1, <1>3, <1>4
  DEF WorkerStep, CreateUserValidate, AdminAddValidate, PasswordChangeValidate,
      PasswordChangeCreate, PasswordChangeCrash, AdminChangeLoad,
      AdminPasswordLoad, WriteConflict, AbortAccount
<1> QED BY <1>1, <1>5, <1>6 DEF accountVars

\* No two accounts ever share an address, for any number of workers racing
\* through the validators.
THEOREM EmailsStayUnique == AccountsSpec => []EmailUnique
<1>1. AccountsInit => EmailUnique
  BY DEF AccountsInit, EmailUnique
<1>2. AccountsTypeOK /\ EmailUnique /\ [AccountsNext]_accountVars
        => EmailUnique'
  BY EmailUniqueStep DEF AccountsNext
<1> QED BY <1>1, <1>2, AccountsTypeCorrect, PTL DEF AccountsSpec

-----------------------------------------------------------------------------
(* Lost updates and deleted rows: what a request in flight has loaded. *)

\* The user object of a save request differs from the row it was loaded from
\* in the fields the request means to change, and in no other.
KeepsTheRest(r) ==
  /\ r.edits = "profile" => r.row.password = r.loaded.password
  /\ r.edits = "password" =>
       r.row.email = r.loaded.email /\ r.row.is_active = r.loaded.is_active

LoadedInv ==
  \A w \in AccountWorkers : acct[w].pc = "save" => KeepsTheRest(acct[w])

\* Only ids that were handed out have been deleted.
DeletedInv == \A u \in deleted : u <= created

AccountsInv == AccountsTypeOK /\ LoadedInv /\ DeletedInv

\* The service starts with idle workers, who have read nothing.
LEMMA AccountsInvInit == AccountsInit => AccountsInv
BY AccountsTypeInit
DEF AccountsInv, AccountsInit, LoadedInv, DeletedInv, Idle

\* The forms and set_password edit what they are for.
LEMMA EditsKeepTheRest ==
  ASSUME AccountsTypeOK, NEW u \in UserIds, Exists(u)
  PROVE  /\ \A p : /\ WithPassword(u, p).email = users[u].email
                   /\ WithPassword(u, p).is_active = users[u].is_active
         /\ \A e, active : ProfileForm(u, e, active).password
                             = users[u].password
BY DEF AccountsTypeOK, UserRows, WithPassword, ProfileForm

\* Every stage of a request that is loaded keeps the invariant.
LEMMA LoadedStep ==
  ASSUME AccountsTypeOK, LoadedInv, NEW w \in AccountWorkers, WorkerStep(w)
  PROVE  LoadedInv'
<1> USE DEF AccountsTypeOK
<1>1. ASSUME NEW r, acct' = [acct EXCEPT ![w] = r],
             r.pc = "save" => KeepsTheRest(r)
      PROVE  LoadedInv'
  <2> SUFFICES ASSUME NEW v \in AccountWorkers, acct'[v].pc = "save"
               PROVE  KeepsTheRest(acct'[v])
    BY DEF LoadedInv, KeepsTheRest
  <2> QED BY <1>1 DEF LoadedInv
<1>2. ASSUME NEW u \in UserIds, Exists(u), NEW edits \in {"password", "profile"},
             NEW x,
             acct' = [acct EXCEPT ![w] =
               [pc |-> "save", edits |-> edits, user |-> u,
                loaded |-> users[u], row |-> x]],
             edits = "profile" => x.password = users[u].password,
             edits = "password" => /\ x.email = users[u].email
                                   /\ x.is_active = users[u].is_active
      PROVE  LoadedInv'
  <2> DEFINE r == [pc |-> "save", edits |-> edits, user |-> u,
                   loaded |-> users[u], row |-> x]
  <2>1. /\ r.edits = edits /\ r.row = x /\ r.loaded = users[u]
        /\ acct' = [acct EXCEPT ![w] = r]
    BY <1>2
  <2>2. KeepsTheRest(r)
    BY <1>2 DEF KeepsTheRest
  <2> HIDE DEF r
  <2> QED BY <1>1, <2>1, <2>2
<1>3. CASE CreateUserValidate(w) \/ AdminAddValidate(w)
           \/ PasswordChangeValidate(w)
  <2>1. PICK r : acct' = [acct EXCEPT ![w] = r] /\ r.pc # "save"
    BY <1>3 DEF CreateUserValidate, AdminAddValidate, PasswordChangeValidate
  <2> QED BY <1>1, <2>1
<1>4. CASE InsertUser(w) \/ PasswordChangeCrash(w) \/ SaveUser(w)
           \/ WriteConflict(w) \/ AbortAccount(w)
  <2>1. acct' = [acct EXCEPT ![w] = Idle] /\ Idle.pc # "save"
    BY <1>4 DEF InsertUser, PasswordChangeCrash, SaveUser, WriteConflict,
                AbortAccount, Idle
  <2> QED BY <1>1, <2>1
<1>5. CASE PasswordChangeCreate(w)
  BY <1>2, <1>5, EditsKeepTheRest DEF PasswordChangeCreate, authenticate
<1>6. CASE AdminChangeLoad(w)
  <2>1. PICK u \in UserIds, e \in Emails, active \in BOOLEAN :
          /\ Exists(u)
          /\ acct' = [acct EXCEPT ![w] =
               [pc |-> "save", edits |-> "profile", user |-> u,
                loaded |-> users[u], row |-> ProfileForm(u, e, active)]]
    BY <1>6 DEF AdminChangeLoad
  <2>2. ProfileForm(u, e, active).password = users[u].password
    BY <2>1, EditsKeepTheRest
  <2> QED BY <1>2, <2>1, <2>2
<1>7. CASE AdminPasswordLoad(w)
  BY <1>2, <1>7, EditsKeepTheRest DEF AdminPasswordLoad
<1> QED BY <1>3, <1>4, <1>5, <1>6, <1>7 DEF WorkerStep

\* Ids are handed out in order, and what is deleted was there.
LEMMA DeletedStep ==
  ASSUME AccountsTypeOK, DeletedInv,
         \/ \E w \in AccountWorkers : WorkerStep(w)
         \/ \E u \in UserIds : DeleteUser(u)
  PROVE  DeletedInv'
<1> USE DEF AccountsTypeOK, UserIds
<1>1. created \in Nat /\ \A u \in deleted : u \in Nat
  BY AccountsAssumption
<1>2. CASE \E w \in AccountWorkers : WorkerStep(w)
  <2>1. deleted' = deleted /\ (created' = created \/ created' = created + 1)
    BY <1>2
    DEF WorkerStep, CreateUserValidate, AdminAddValidate, InsertUser,
        PasswordChangeValidate, PasswordChangeCreate, PasswordChangeCrash,
        AdminChangeLoad, AdminPasswordLoad, SaveUser, WriteConflict,
        AbortAccount
  <2> QED BY <1>1, <2>1 DEF DeletedInv
<1>3. CASE \E u \in UserIds : DeleteUser(u)
  BY <1>3 DEF DeleteUser, DeletedInv
<1> QED BY <1>2, <1>3

\* A step of any worker, or a deletion, keeps what the workers hold true.
LEMMA AccountsInvStep ==
  ASSUME AccountsInv, [AccountsNext]_accountVars
  PROVE  AccountsInv'
<1> USE DEF AccountsInv
<1>1. CASE \E w \in AccountWorkers : WorkerStep(w)
  BY <1>1, AccountsTypeStep, LoadedStep, DeletedStep
<1>2. CASE \E u \in UserIds : DeleteUser(u)
  <2>1. acct' = acct
    BY <1>2 DEF DeleteUser
  <2>2. LoadedInv'
    BY <2>1 DEF LoadedInv, KeepsTheRest
  <2> QED BY <1>2, <2>2, AccountsTypeDelete, DeletedStep
<1>3. CASE UNCHANGED accountVars
  BY <1>3 DEF accountVars, AccountsTypeOK, LoadedInv, KeepsTheRest, DeletedInv
<1> QED BY <1>1, <1>2, <1>3 DEF AccountsNext

\* In every reachable state a save in flight differs from the row it loaded
\* only where its request means to, and only ids handed out are deleted.
THEOREM AccountsInvCorrect == AccountsSpec => []AccountsInv
<1>1. AccountsInv /\ [AccountsNext]_accountVars => AccountsInv'
  BY AccountsInvStep
<1> QED BY AccountsInvInit, <1>1, PTL DEF AccountsSpec

\* A save that nobody has overtaken changes what its request means to change
\* and nothing else, for any number of workers.
THEOREM SavesKeepOtherFields == AccountsSpec => SaveChangesOnlyItsFields
<1> DEFINE Saves ==
      \A w \in AccountWorkers :
        (SaveUser(w) /\ users[acct[w].user] = acct[w].loaded) =>
          LET before == users[acct[w].user]
              after == users'[acct[w].user]
          IN  /\ acct[w].edits = "profile" => after.password = before.password
              /\ acct[w].edits = "password" =>
                   after.email = before.email /\ after.is_active = before.is_active
<1>1. AccountsInv => Saves
  <2> SUFFICES ASSUME AccountsInv, NEW w \in AccountWorkers, SaveUser(w),
                      users[acct[w].user] = acct[w].loaded
               PROVE  LET before == users[acct[w].user]
                          after == users'[acct[w].user]
                      IN  /\ acct[w].edits = "profile" =>
                               after.password = before.password
                          /\ acct[w].edits = "password" =>
                               /\ after.email = before.email
                               /\ after.is_active = before.is_active
    OBVIOUS
  <2>1. acct[w].user \in UserIds /\ KeepsTheRest(acct[w])
    BY RequestShape DEF SaveUser, AccountsInv, AccountsTypeOK, LoadedInv
  <2>2. users'[acct[w].user] = acct[w].row
    BY <2>1 DEF SaveUser, AccountsInv, AccountsTypeOK
  <2> QED BY <2>1, <2>2 DEF KeepsTheRest
<1>2. SaveChangesOnlyItsFields <=> [][Saves]_accountVars
  BY DEF SaveChangesOnlyItsFields
<1> HIDE DEF Saves
<1> QED BY <1>1, <1>2, AccountsInvCorrect, PTL

\* A deletion is final once no request that had loaded the user is in flight:
\* the id is never handed out again, and nothing else writes the row.
THEOREM DeletionsSettle == AccountsSpec => DeletionSettles
<1> DEFINE Unloaded(u) == \A w \in AccountWorkers :
                            acct[w].pc = "save" => acct[w].user # u
           Settled == \A u \in deleted :
                        (~Exists(u) /\ Unloaded(u)) => ~Exists(u)'
<1>1. AccountsInv /\ [AccountsNext]_accountVars => Settled
  <2> SUFFICES ASSUME AccountsInv, [AccountsNext]_accountVars,
                      NEW u \in deleted, ~Exists(u), Unloaded(u)
               PROVE  ~Exists(u)'
    OBVIOUS
  <2> USE DEF AccountsInv, AccountsTypeOK
  <2>1. u \in UserIds /\ u \in Nat /\ u <= created /\ created \in Nat
    BY AccountsAssumption DEF DeletedInv, UserIds
  <2>2. ASSUME users' = users PROVE ~Exists(u)'
    BY <2>2
  <2>3. ASSUME NEW w \in AccountWorkers, InsertUser(w) PROVE ~Exists(u)'
    BY <2>1, <2>3 DEF InsertUser, NextId
  <2>4. ASSUME NEW w \in AccountWorkers, SaveUser(w) PROVE ~Exists(u)'
    <3>1. acct[w].user # u
      BY <2>4 DEF SaveUser
    <3> QED BY <2>1, <2>4, <3>1 DEF SaveUser
  <2>5. ASSUME NEW v \in UserIds, DeleteUser(v) PROVE ~Exists(u)'
    BY <2>1, <2>5 DEF DeleteUser
  <2>6. ASSUME NEW w \in AccountWorkers, WorkerStep(w) PROVE ~Exists(u)'
    BY <2>2, <2>3, <2>4, <2>6
    DEF WorkerStep, CreateUserValidate, AdminAddValidate,
        PasswordChangeValidate, PasswordChangeCreate, PasswordChangeCrash,
        AdminChangeLoad, AdminPasswordLoad, WriteConflict, AbortAccount
  <2> QED BY <2>2, <2>5, <2>6 DEF AccountsNext, accountVars
<1>2. DeletionSettles <=> [][Settled]_accountVars
  BY DEF DeletionSettles
<1> HIDE DEF Settled
<1> QED BY <1>1, <1>2, AccountsInvCorrect, PTL DEF AccountsSpec
=============================================================================
