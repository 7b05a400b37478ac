------------------------------ MODULE Accounts ------------------------------
(***************************************************************************)
(* The user table of an easyjwt auth service and the requests that write   *)
(* it: create-user, password-change, and the admin's add, change and       *)
(* delete pages.  A request is several database statements with no lock    *)
(* between them (validators read, the save comes later), so its stages are *)
(* separate actions and the requests of several workers interleave.        *)
(***************************************************************************)
EXTENDS Naturals

CONSTANTS
  Names,            \* e-mail addresses up to letter case
  Spellings,        \* how they are typed: TRUE is all in lower case
  Passwords,        \* plain-text passwords
  AccountWorkers,   \* server processes that run account requests
  MaxUsers,         \* bound: rows ever inserted in the user table
  MaxSalt,          \* bound: calls of set_password
  NoUser            \* what a lookup by id returns when there is no row

\* An address is a name and whether it is written in lower case.
Emails == [name : Names, lower : Spellings]
\* A stored password: set_password hashes under a salt of its own.
StoredPasswords == [plain : Passwords, salt : Nat]
UserRows == [email : Emails, password : StoredPasswords, is_active : BOOLEAN]
UserIds == 1..MaxUsers

ASSUME AccountsAssumption ==
  /\ TRUE \in Spellings /\ Spellings \subseteq BOOLEAN
  /\ MaxUsers \in Nat \ {0}
  /\ MaxSalt \in Nat
  /\ NoUser \notin UserRows

VARIABLES
  users,      \* the user table: id -> row, NoUser where there is none
  created,    \* ids handed out so far; the database never reuses one
  salts,      \* salts used so far
  acct,       \* per worker, the account request it is running
  deleted     \* history: ids whose row an admin has deleted

accountVars == <<users, created, salts, acct, deleted>>

-----------------------------------------------------------------------------
(* Requests in flight. *)

Idle == [pc |-> "idle"]

AccountRequests ==
  {Idle}
  \* validated, about to insert a new row
  \cup [pc : {"insert"}, row : UserRows]
  \* password-change validated, create() has not started
  \cup [pc : {"create"}, email : Emails, password : Passwords,
        new_password : Passwords]
  \* holds a user object edited in memory, about to save it; "edits" is what
  \* the request means to change, "loaded" (history) the row it read
  \cup [pc : {"save"}, edits : {"password", "profile"}, user : UserIds,
        loaded : UserRows, row : UserRows]

Exists(u) == users[u] # NoUser
\* Whether a validator that looks for this very address finds none.
EmailFree(e) == \A u \in UserIds : Exists(u) => users[u].email # e

\* Fault: the column has no unique index.
EmailAllowedUnindexed(e, self) == TRUE

\* The unique index on email, for a row written under the id self.
EmailAllowed(e, self) ==
  \A u \in UserIds \ {self} : Exists(u) => users[u].email # e

Lower(e) == [e EXCEPT !.lower = TRUE]

\* django.contrib.auth.authenticate with ModelBackend: the address is looked
\* up as given, the password checked, inactive users refused.
authenticate(u, email, plain) ==
  /\ Exists(u)
  /\ users[u].email = email
  /\ users[u].password.plain = plain
  /\ users[u].is_active

\* Fault: the password is stored as it is.
SaltedNot(plain) == plain

\* set_password: the next unused salt.
Salted(plain) == [plain |-> plain, salt |-> salts + 1]

\* The user object of a request that sets a password.
WithPassword(u, plain) == [users[u] EXCEPT !.password = Salted(plain)]

\* Fault: the form saves the password the browser posted.
ProfileFormPosted(u, e, active) ==
  [users[u] EXCEPT !.email = e, !.is_active = active,
                   !.password = [plain |-> CHOOSE p \in Passwords : TRUE,
                                 salt |-> 0]]

\* The user object behind the admin's change form: clean_password puts the
\* loaded password back.
ProfileForm(u, e, active) ==
  [users[u] EXCEPT !.email = e, !.is_active = active]

\* Fault: the id of a deleted row is handed out again.
NextIdReused == CHOOSE u \in UserIds : ~Exists(u)

\* The id sequence of the user table.
NextId == created + 1

-----------------------------------------------------------------------------
AccountsInit ==
  /\ users = [u \in UserIds |-> NoUser]
  /\ created = 0
  /\ salts = 0
  /\ acct = [w \in AccountWorkers |-> Idle]
  /\ deleted = {}

\* CreateUserSerializer: the unique validator runs on the address as typed,
\* create_user then lower-cases it and hashes the password.
CreateUserValidate(w) ==
  /\ acct[w] = Idle
  /\ salts < MaxSalt
  /\ \E e \in Emails, p \in Passwords :
       /\ EmailFree(e)
       /\ acct' = [acct EXCEPT ![w] =
            [pc |-> "insert",
             row |-> [email |-> Lower(e), password |-> Salted(p),
                      is_active |-> TRUE]]]
  /\ salts' = salts + 1
  /\ UNCHANGED <<users, created, deleted>>

\* The admin's add page: UserCreationForm.save keeps the address as typed.
AdminAddValidate(w) ==
  /\ acct[w] = Idle
  /\ salts < MaxSalt
  /\ \E e \in Emails, p \in Passwords :
       /\ EmailFree(e)
       /\ acct' = [acct EXCEPT ![w] =
            [pc |-> "insert",
             row |-> [email |-> e, password |-> Salted(p),
                      is_active |-> TRUE]]]
  /\ salts' = salts + 1
  /\ UNCHANGED <<users, created, deleted>>

\* user.save() of a new user.
InsertUser(w) ==
  /\ acct[w].pc = "insert"
  /\ created < MaxUsers
  /\ EmailAllowed(acct[w].row.email, 0)
  /\ users' = [users EXCEPT ![NextId] = acct[w].row]
  /\ created' = created + 1
  /\ acct' = [acct EXCEPT ![w] = Idle]
  /\ UNCHANGED <<salts, deleted>>

\* PasswordChangeSerializer.validate: credentials are checked, the user
\* object is thrown away.
PasswordChangeValidate(w) ==
  /\ acct[w] = Idle
  /\ \E u \in UserIds, e \in Emails, p, new \in Passwords :
       /\ authenticate(u, e, p)
       /\ acct' = [acct EXCEPT ![w] =
            [pc |-> "create", email |-> e, password |-> p,
             new_password |-> new]]
  /\ UNCHANGED <<users, created, salts, deleted>>

\* PasswordChangeSerializer.create: authenticates again and sets the new
\* password on the user object it got.
PasswordChangeCreate(w) ==
  /\ acct[w].pc = "create"
  /\ salts < MaxSalt
  /\ \E u \in UserIds :
       /\ authenticate(u, acct[w].email, acct[w].password)
       /\ acct' = [acct EXCEPT ![w] =
            [pc |-> "save", edits |-> "password", user |-> u, loaded |-> users[u],
             row |-> WithPassword(u, acct[w].new_password)]]
  /\ salts' = salts + 1
  /\ UNCHANGED <<users, created, deleted>>

\* The second authenticate returns None: AttributeError, a 500.
PasswordChangeCrash(w) ==
  /\ acct[w].pc = "create"
  /\ \A u \in UserIds : ~authenticate(u, acct[w].email, acct[w].password)
  /\ acct' = [acct EXCEPT ![w] = Idle]
  /\ UNCHANGED <<users, created, salts, deleted>>

\* The admin's change page: the row is loaded, address and is_active edited,
\* the address checked.
AdminChangeLoad(w) ==
  /\ acct[w] = Idle
  /\ \E u \in UserIds, e \in Emails, active \in BOOLEAN :
       /\ Exists(u)
       /\ EmailAllowed(e, u)
       /\ acct' = [acct EXCEPT ![w] =
            [pc |-> "save", edits |-> "profile", user |-> u, loaded |-> users[u],
             row |-> ProfileForm(u, e, active)]]
  /\ UNCHANGED <<users, created, salts, deleted>>

\* The admin's password page, which UserAdmin brings: no old password asked.
AdminPasswordLoad(w) ==
  /\ acct[w] = Idle
  /\ salts < MaxSalt
  /\ \E u \in UserIds, p \in Passwords :
       /\ Exists(u)
       /\ acct' = [acct EXCEPT ![w] =
            [pc |-> "save", edits |-> "password", user |-> u, loaded |-> users[u],
             row |-> WithPassword(u, p)]]
  /\ salts' = salts + 1
  /\ UNCHANGED <<users, created, deleted>>

\* user.save() of a loaded user: an UPDATE of every column; when it matches
\* no row, Django inserts the object under its old id.
SaveUser(w) ==
  /\ acct[w].pc = "save"
  /\ EmailAllowed(acct[w].row.email, acct[w].user)
  /\ users' = [users EXCEPT ![acct[w].user] = acct[w].row]
  /\ acct' = [acct EXCEPT ![w] = Idle]
  /\ UNCHANGED <<created, salts, deleted>>

\* IntegrityError from the unique index on email: a 500, nothing written.
WriteConflict(w) ==
  /\ \/ /\ acct[w].pc = "insert"
        /\ ~EmailAllowed(acct[w].row.email, 0)
     \/ /\ acct[w].pc = "save"
        /\ ~EmailAllowed(acct[w].row.email, acct[w].user)
  /\ acct' = [acct EXCEPT ![w] = Idle]
  /\ UNCHANGED <<users, created, salts, deleted>>

\* The worker dies, or its client's connection does, between two statements.
AbortAccount(w) ==
  /\ acct[w] # Idle
  /\ acct' = [acct EXCEPT ![w] = Idle]
  /\ UNCHANGED <<users, created, salts, deleted>>

\* The admin's delete page.
DeleteUser(u) ==
  /\ Exists(u)
  /\ users' = [users EXCEPT ![u] = NoUser]
  /\ deleted' = deleted \cup {u}
  /\ UNCHANGED <<created, salts, acct>>

WorkerStep(w) ==
  \/ CreateUserValidate(w)
  \/ AdminAddValidate(w)
  \/ InsertUser(w)
  \/ PasswordChangeValidate(w)
  \/ PasswordChangeCreate(w)
  \/ PasswordChangeCrash(w)
  \/ AdminChangeLoad(w)
  \/ AdminPasswordLoad(w)
  \/ SaveUser(w)
  \/ WriteConflict(w)
  \/ AbortAccount(w)

AccountsNext ==
  \/ \E w \in AccountWorkers : WorkerStep(w)
  \/ \E u \in UserIds : DeleteUser(u)

AccountsSpec == AccountsInit /\ [][AccountsNext]_accountVars

-----------------------------------------------------------------------------
(* Properties. *)

\* The shape of the user table and of every request in flight; ids not yet
\* handed out have no row.
AccountsTypeOK ==
  /\ users \in [UserIds -> UserRows \cup {NoUser}]
  /\ created \in 0..MaxUsers
  /\ salts \in Nat
  /\ acct \in [AccountWorkers -> AccountRequests]
  /\ deleted \subseteq UserIds
  /\ \A u \in UserIds : Exists(u) => u <= created
  /\ \A w \in AccountWorkers : acct[w].pc = "save" => acct[w].user <= created

\* No two accounts have the same address, although every validator looks
\* before another request's insert or save: login, which looks the account up
\* by address, never meets two rows.
EmailUnique ==
  \A u, v \in UserIds :
    (u # v /\ Exists(u) /\ Exists(v)) => users[u].email # users[v].email

\* A deletion is final once no request that had loaded the user is still in
\* flight: only such a request's full-row save can bring the row back.
DeletionSettles ==
  [][\A u \in deleted :
       (~Exists(u) /\ \A w \in AccountWorkers :
                         acct[w].pc = "save" => acct[w].user # u)
         => ~Exists(u)']_accountVars

\* A save that nobody has overtaken changes what its request means to change
\* and nothing else: updates are lost only to a row written between a
\* request's read and its full-row save.
SaveChangesOnlyItsFields ==
  [][\A w \in AccountWorkers :
       (SaveUser(w) /\ users[acct[w].user] = acct[w].loaded) =>
         LET before == users[acct[w].user]
             after == users'[acct[w].user]
         IN  /\ acct[w].edits = "profile" => after.password = before.password
             /\ acct[w].edits = "password" =>
                  after.email = before.email /\ after.is_active = before.is_active
    ]_accountVars
=============================================================================
