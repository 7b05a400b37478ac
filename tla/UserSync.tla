------------------------------- MODULE UserSync -------------------------------
(***************************************************************************)
(* The user table of a service that runs easyjwt_client, and how it        *)
(* follows the auth service's: every bearer request (EasyJWTAuthentication)*)
(* and every password login (RemoteAuthBackend) fetches the user from the  *)
(* auth service, looks a local row up by e-mail address, and creates or    *)
(* overwrites it.  Each stage is one remote call or database statement,    *)
(* and the requests of several workers, the admins of both sides and a     *)
(* failing network interleave between them.                                *)
(*                                                                         *)
(* The auth service is external here: its user table changes by itself and *)
(* answers GET /auth/user/ for an existing, active user only.              *)
(***************************************************************************)
EXTENDS Naturals

CONSTANTS
  RemoteUsers,   \* users of the auth service
  Addresses,     \* e-mail addresses
  Workers,       \* server processes of the client service
  MaxRows,       \* bound: local rows ever inserted
  MaxEdits,      \* bound: edits by the admins of both sides
  None           \* no user, no row or no address

LocalIds == 1..MaxRows
Revisions == 0..MaxEdits

\* A user of the auth service; "rev" stands for the names and is the number of
\* the edit that wrote them.
RemoteRows == [email : Addresses, rev : Revisions, is_active : BOOLEAN]

\* A local row: whose names it carries and of which revision, and the flag
\* only the local admin writes (is_staff is read_only in the serializer).
LocalRows == [email : Addresses, who : RemoteUsers, rev : Revisions,
              is_active : BOOLEAN, is_staff : BOOLEAN]

ASSUME UserSyncAssumption ==
  /\ MaxRows \in Nat \ {0}
  /\ MaxEdits \in Nat
  /\ None \notin RemoteRows \cup LocalRows \cup Addresses

VARIABLES
  remote,    \* the auth service's user table
  local,     \* the client's user table: id -> row, None where there is none
  created,   \* local ids handed out so far
  edits,     \* edits made so far
  req        \* per worker, the request it is running

vars == <<remote, local, created, edits, req>>

Idle == [pc |-> "idle"]

\* "typed" is the address a login gave, None in a bearer request.
Requests ==
  {Idle}
  \* has a verified bearer token, or tokens obtained for the typed address
  \cup [pc : {"fetch"}, user : RemoteUsers, typed : Addresses \cup {None}]
  \* has the user's data
  \cup [pc : {"lookup"}, user : RemoteUsers,
        typed : Addresses \cup {None}, data : RemoteRows]
  \* has a validated row: a new one (id 0), or one loaded and overwritten in
  \* memory; "loaded" (history) is the row the lookup found
  \cup [pc : {"save"}, user : RemoteUsers, typed : Addresses \cup {None},
        id : 0..MaxRows, row : LocalRows, loaded : LocalRows \cup {None}]
  \* login: about to look its user up by the address typed
  \cup [pc : {"find"}, user : RemoteUsers, typed : Addresses]
  \* runs the view as a local row
  \cup [pc : {"serve"}, user : RemoteUsers]

Active(u) == remote[u] # None /\ remote[u].is_active
Exists(id) == local[id] # None

\* Fault: the column has no unique index.
AddressAllowedUnindexed(a, self) == TRUE

\* The unique index on email, for a row written under the id self.
AddressAllowed(a, self) ==
  \A id \in LocalIds \ {self} : Exists(id) => local[id].email # a

\* The row TokenUserSerializer.create makes of the user's data.
NewRow(u, data) ==
  [email |-> data.email, who |-> u, rev |-> data.rev,
   is_active |-> data.is_active, is_staff |-> FALSE]

\* Fault: an existing row is taken as it is.
UpdatedRowKept(row, u, data) == row

\* Fault: every field of the data is written, is_staff too.
UpdatedRowAll(row, u, data) == NewRow(u, data)

\* What TokenUserSerializer.update makes of a loaded row: its writable fields
\* come from the data.
UpdatedRow(row, u, data) == [NewRow(u, data) EXCEPT !.is_staff = row.is_staff]

-----------------------------------------------------------------------------
Init ==
  /\ remote \in [RemoteUsers -> {r \in RemoteRows : r.rev = 0 /\ r.is_active}]
  /\ \A u, v \in RemoteUsers : u # v => remote[u].email # remote[v].email
  /\ local = [id \in LocalIds |-> None]
  /\ created = 0
  /\ edits = 0
  /\ req = [w \in Workers |-> Idle]

Finish(w) == req' = [req EXCEPT ![w] = Idle]

\* A bearer request whose token the auth service calls valid (verify looks no
\* user up), or a login whose address and password it accepts.
RequestBegin(w) ==
  /\ req[w] = Idle
  /\ \E u \in RemoteUsers :
     \E typed \in {None} \cup IF Active(u) THEN {remote[u].email} ELSE {} :
       req' = [req EXCEPT ![w] = [pc |-> "fetch", user |-> u, typed |-> typed]]
  /\ UNCHANGED <<remote, local, created, edits>>

\* Fault: the status of the answer is not looked at.
FetchedUnchecked(u) == {remote[u]}

\* What GET /auth/user/ can answer with 200.
Fetched(u) == IF Active(u) THEN {remote[u]} ELSE {}

\* _create_or_update_user up to response.json().
UserFetch(w) ==
  /\ req[w].pc = "fetch"
  /\ \E data \in Fetched(req[w].user) :
       req' = [req EXCEPT ![w] =
         [pc |-> "lookup", user |-> req[w].user, typed |-> req[w].typed,
          data |-> data]]
  /\ UNCHANGED <<remote, local, created, edits>>

\* User.objects.get by address, and the serializer on what it found.  (Its
\* unique validator refuses what the index refuses at the save: one outcome.)
LocalLookup(w) ==
  /\ req[w].pc = "lookup"
  /\ LET data == req[w].data
         Save(id, row, loaded) ==
           [pc |-> "save", user |-> req[w].user, typed |-> req[w].typed,
            id |-> id, row |-> row, loaded |-> loaded]
     IN  \/ \E id \in LocalIds :
              /\ Exists(id) /\ local[id].email = data.email
              /\ req' = [req EXCEPT ![w] =
                   Save(id, UpdatedRow(local[id], req[w].user, data), local[id])]
         \/ /\ \A id \in LocalIds : Exists(id) => local[id].email # data.email
            /\ req' = [req EXCEPT ![w] =
                 Save(0, NewRow(req[w].user, data), None)]
  /\ UNCHANGED <<remote, local, created, edits>>

\* s.save(): an INSERT under the next id, or an UPDATE of every column that
\* becomes an INSERT under the old id when the row has gone.
LocalSave(w) ==
  /\ req[w].pc = "save"
  /\ AddressAllowed(req[w].row.email, req[w].id)
  /\ req[w].id = 0 => created < MaxRows
  /\ LET id == IF req[w].id = 0 THEN created + 1 ELSE req[w].id
     IN  /\ local' = [local EXCEPT ![id] = req[w].row]
         /\ created' = IF req[w].id = 0 THEN id ELSE created
         /\ req' = [req EXCEPT ![w] =
              IF req[w].typed = None
              THEN [pc |-> "serve", user |-> req[w].user]
              ELSE [pc |-> "find", user |-> req[w].user, typed |-> req[w].typed]]
  /\ UNCHANGED <<remote, edits>>

\* RemoteAuthBackend._get_user_by_kwargs: by the address typed, which need not
\* be the address of the row just saved.
LoginFind(w) ==
  /\ req[w].pc = "find"
  /\ \E id \in LocalIds :
       /\ Exists(id) /\ local[id].email = req[w].typed
       /\ req' = [req EXCEPT ![w] = [pc |-> "serve", user |-> req[w].user]]
  /\ UNCHANGED <<remote, local, created, edits>>

\* The view has run.
Served(w) ==
  /\ req[w].pc = "serve"
  /\ Finish(w)
  /\ UNCHANGED <<remote, local, created, edits>>

\* The request ends without a user, having written what it has written: an
\* error or no answer from the auth service (AuthenticationFailed, or a 500 for
\* an error of the verify call other than ConnectionError and Timeout), a
\* validation or IntegrityError, no row for the address typed, a dead worker.
RequestFails(w) ==
  /\ req[w].pc \notin {"idle", "serve"}
  /\ Finish(w)
  /\ UNCHANGED <<remote, local, created, edits>>

Progress(w) ==
  \/ UserFetch(w)
  \/ LocalLookup(w)
  \/ LocalSave(w)
  \/ LoginFind(w)
  \/ Served(w)
  \/ RequestFails(w)

\* The auth service's side: a user's names, address or is_active change.
RemoteChange(u) ==
  /\ remote[u] # None /\ edits < MaxEdits
  /\ \E a \in Addresses, active \in BOOLEAN :
       /\ \A v \in RemoteUsers \ {u} : remote[v] # None => remote[v].email # a
       /\ remote' = [remote EXCEPT ![u] =
            [email |-> a, rev |-> edits + 1, is_active |-> active]]
       /\ edits' = edits + 1
  /\ UNCHANGED <<local, created, req>>

RemoteDelete(u) ==
  /\ remote[u] # None /\ edits < MaxEdits
  /\ remote' = [remote EXCEPT ![u] = None]
  /\ edits' = edits + 1
  /\ UNCHANGED <<local, created, req>>

\* The local admin sets a row's flags, or deletes the row.
LocalChange(id) ==
  /\ Exists(id) /\ edits < MaxEdits
  /\ \E staff, active \in BOOLEAN :
       /\ <<staff, active>> # <<local[id].is_staff, local[id].is_active>>
       /\ local' = [local EXCEPT ![id].is_staff = staff,
                                 ![id].is_active = active]
  /\ edits' = edits + 1
  /\ UNCHANGED <<remote, created, req>>

LocalDelete(id) ==
  /\ Exists(id) /\ edits < MaxEdits
  /\ local' = [local EXCEPT ![id] = None]
  /\ edits' = edits + 1
  /\ UNCHANGED <<remote, created, req>>

Next ==
  \/ \E w \in Workers : RequestBegin(w) \/ Progress(w)
  \/ \E u \in RemoteUsers : RemoteChange(u) \/ RemoteDelete(u)
  \/ \E id \in LocalIds : LocalChange(id) \/ LocalDelete(id)

\* A worker goes on with a request it has: its remote calls end, every one is
\* given REMOTE_AUTH_REQUEST_TIMEOUT.  Nothing makes a request come, an admin
\* act or a call succeed.
Spec == Init /\ [][Next]_vars /\ \A w \in Workers : WF_vars(Progress(w))

-----------------------------------------------------------------------------
(* Properties. *)

\* The shape of both tables and of the requests in flight; local ids not yet
\* handed out have no row.
SyncTypeOK ==
  /\ remote \in [RemoteUsers -> RemoteRows \cup {None}]
  /\ local \in [LocalIds -> LocalRows \cup {None}]
  /\ created \in 0..MaxRows
  /\ edits \in Revisions
  /\ req \in [Workers -> Requests]
  /\ \A id \in LocalIds : Exists(id) => id <= created
  /\ \A w \in Workers : req[w].pc = "save" => req[w].id <= created

\* First requests of one user may run at once, an address may move from one
\* remote user to another, and a deleted row may be saved back: two local rows
\* never get one address, so the lookup by address never meets two.
LocalAddressUnique ==
  \A i, j \in LocalIds :
    (i # j /\ Exists(i) /\ Exists(j)) => local[i].email # local[j].email

\* What the local admin gave a row survives every synchronisation: a save
\* changes is_staff only when the row was written after the save's request had
\* loaded it.
LocalFlagSurvives ==
  [][\A w \in Workers :
       (LocalSave(w) /\ req[w].id # 0 /\ local[req[w].id] = req[w].loaded)
         => local'[req[w].id].is_staff = local[req[w].id].is_staff]_vars

\* The client's copy follows: a user whose requests keep being served ends up
\* with a local row that has the auth service's address and names, and keeps
\* it, although stale answers may be saved after fresher ones.
UserServed(u) == \E w \in Workers : req[w].pc = "serve" /\ req[w].user = u
InSync(u) ==
  Active(u) /\ \E id \in LocalIds :
    /\ Exists(id)
    /\ local[id].email = remote[u].email
    /\ local[id].who = u /\ local[id].rev = remote[u].rev
    /\ local[id].is_active
LocalFollowsRemote ==
  \A u \in RemoteUsers : []<>UserServed(u) => <>[]InSync(u)
=============================================================================
