--------------------------- MODULE UserSync_proofs ---------------------------
(***************************************************************************)
(* Proofs about UserSync for any number of workers, users, addresses, rows *)
(* and edits: type correctness, that the client's table never has one      *)
(* address twice, and that a synchronisation keeps the local admin's flag. *)
(***************************************************************************)
EXTENDS UserSync, TLAPS

USE DEF Exists

\* A request's stage tells which fields it has.
LEMMA SyncRequestShape ==
  ASSUME NEW r \in Requests
  PROVE  /\ r.pc = "fetch" =>
              r \in [pc : {"fetch"}, user : RemoteUsers,
                     typed : Addresses \cup {None}]
         /\ r.pc = "lookup" =>
              r \in [pc : {"lookup"}, user : RemoteUsers,
                     typed : Addresses \cup {None}, data : RemoteRows]
         /\ r.pc = "save" =>
              r \in [pc : {"save"}, user : RemoteUsers,
                     typed : Addresses \cup {None}, id : 0..MaxRows,
                     row : LocalRows, loaded : LocalRows \cup {None}]
         /\ r.pc = "find" =>
              r \in [pc : {"find"}, user : RemoteUsers, typed : Addresses]
BY DEF Requests, Idle

\* The serializer makes rows of the table's shape.
LEMMA SyncRowShape ==
  ASSUME NEW u \in RemoteUsers, NEW data \in RemoteRows
  PROVE  /\ NewRow(u, data) \in LocalRows
         /\ \A row \in LocalRows : UpdatedRow(row, u, data) \in LocalRows
BY DEF NewRow, UpdatedRow, RemoteRows, LocalRows

\* A request that goes to a stage other than the save, the tables as they are.
LEMMA SyncStage ==
  ASSUME SyncTypeOK, NEW w \in Workers, NEW r \in Requests,
         r.pc = "save" => r.id <= created,
         req' = [req EXCEPT ![w] = r],
         UNCHANGED <<remote, local, created, edits>>
  PROVE  SyncTypeOK'
BY DEF SyncTypeOK

-----------------------------------------------------------------------------
(* Type correctness, one lemma per stage that touches more than a request. *)

\* No user is known locally before the first login.
LEMMA SyncTypeInit == Init => SyncTypeOK
BY UserSyncAssumption
   DEF Init, SyncTypeOK, Requests, Idle, LocalIds, Revisions

\* The look-up makes a row of the right shape, under 0 or an id handed out.
LEMMA SyncTypeLookup ==
  ASSUME SyncTypeOK, NEW w \in Workers, LocalLookup(w)
  PROVE  SyncTypeOK'
<1> DEFINE data == req[w].data
           Save(id, row, loaded) ==
             [pc |-> "save", user |-> req[w].user, typed |-> req[w].typed,
              id |-> id, row |-> row, loaded |-> loaded]
<1>1. req[w] \in [pc : {"lookup"}, user : RemoteUsers,
                  typed : Addresses \cup {None}, data : RemoteRows]
  BY SyncRequestShape DEF SyncTypeOK, LocalLookup
<1>2. ASSUME NEW id \in LocalIds, Exists(id)
      PROVE  /\ local[id] \in LocalRows
             /\ id \in 0..MaxRows /\ id <= created
  BY <1>2, UserSyncAssumption DEF SyncTypeOK, LocalIds
<1>3. ASSUME NEW id \in 0..MaxRows, NEW row \in LocalRows,
             NEW loaded \in LocalRows \cup {None}, id <= created,
             req' = [req EXCEPT ![w] = Save(id, row, loaded)]
      PROVE  SyncTypeOK'
  <2>1. Save(id, row, loaded) \in Requests
    BY <1>1 DEF Requests
  <2> QED BY <2>1, <1>3, SyncStage DEF LocalLookup
<1>4. CASE \E id \in LocalIds :
             /\ Exists(id)
             /\ req' = [req EXCEPT ![w] =
                  Save(id, UpdatedRow(local[id], req[w].user, data), local[id])]
  BY <1>1, <1>2, <1>3, <1>4, SyncRowShape
<1>5. CASE req' = [req EXCEPT ![w] =
                     Save(0, NewRow(req[w].user, data), None)]
  <2>1. 0 \in 0..MaxRows /\ 0 <= created
    BY UserSyncAssumption DEF SyncTypeOK
  <2> QED BY <1>1, <1>3, <1>5, <2>1, SyncRowShape
<1> QED BY <1>4, <1>5 DEF LocalLookup

\* The row a save writes, and the id it writes it under.
LEMMA SyncSaveShape ==
  ASSUME SyncTypeOK, NEW w \in Workers, LocalSave(w)
  PROVE  \E id \in LocalIds :
           /\ req[w].row \in LocalRows
           /\ id = IF req[w].id = 0 THEN created + 1 ELSE req[w].id
           /\ local' = [local EXCEPT ![id] = req[w].row]
           /\ created' = IF req[w].id = 0 THEN id ELSE created
           /\ id <= created' /\ created <= created' /\ created' \in 0..MaxRows
<1>1. req[w] \in [pc : {"save"}, user : RemoteUsers,
                  typed : Addresses \cup {None}, id : 0..MaxRows,
                  row : LocalRows, loaded : LocalRows \cup {None}]
  BY SyncRequestShape DEF SyncTypeOK, LocalSave
<1>2. req[w].id <= created
  BY <1>1 DEF SyncTypeOK
<1> DEFINE id == IF req[w].id = 0 THEN created + 1 ELSE req[w].id
<1>3. /\ local' = [local EXCEPT ![id] = req[w].row]
      /\ created' = IF req[w].id = 0 THEN id ELSE created
      /\ req[w].id = 0 => created < MaxRows
  BY DEF LocalSave
<1>4. created \in 0..MaxRows /\ MaxRows \in Nat
  BY UserSyncAssumption DEF SyncTypeOK
<1>5. /\ id \in LocalIds
      /\ id <= created' /\ created <= created' /\ created' \in 0..MaxRows
  <2>1. req[w].id \in 0..MaxRows /\ req[w].row \in LocalRows
    BY <1>1
  <2> QED BY <1>2, <1>3, <1>4, <2>1 DEF LocalIds
<1>6. req[w].row \in LocalRows
  BY <1>1
<1> HIDE DEF id
<1>7. id = IF req[w].id = 0 THEN created + 1 ELSE req[w].id
  BY DEF id
<1> QED BY <1>3, <1>5, <1>6, <1>7

\* Saving a user, in either way the code does it, keeps the shape.
LEMMA SyncTypeSave ==
  ASSUME SyncTypeOK, NEW w \in Workers, LocalSave(w)
  PROVE  SyncTypeOK'
<1>1. PICK id \in LocalIds :
        /\ req[w].row \in LocalRows
        /\ local' = [local EXCEPT ![id] = req[w].row]
        /\ id <= created' /\ created <= created' /\ created' \in 0..MaxRows
  BY SyncSaveShape
<1>2. PICK r \in Requests : r.pc # "save" /\ req' = [req EXCEPT ![w] = r]
  <2>1. req[w] \in [pc : {"save"}, user : RemoteUsers,
                    typed : Addresses \cup {None}, id : 0..MaxRows,
                    row : LocalRows, loaded : LocalRows \cup {None}]
    BY SyncRequestShape DEF SyncTypeOK, LocalSave
  <2>2. CASE req[w].typed = None
    <3>1. [pc |-> "serve", user |-> req[w].user] \in Requests
      BY <2>1 DEF Requests
    <3> QED BY <2>2, <3>1 DEF LocalSave
  <2>3. CASE req[w].typed # None
    <3>1. [pc |-> "find", user |-> req[w].user, typed |-> req[w].typed]
            \in Requests
      BY <2>1, <2>3 DEF Requests
    <3> QED BY <2>3, <3>1 DEF LocalSave
  <2> QED BY <2>2, <2>3
<1>3. local' \in [LocalIds -> LocalRows \cup {None}]
  BY <1>1 DEF SyncTypeOK
<1>4. \A i \in LocalIds : Exists(i)' => i <= created'
  BY <1>1, UserSyncAssumption DEF SyncTypeOK, LocalIds
<1>5. req' \in [Workers -> Requests]
  BY <1>2 DEF SyncTypeOK
<1>6. \A v \in Workers : req'[v].pc = "save" => req'[v].id <= created'
  <2> SUFFICES ASSUME NEW v \in Workers, req'[v].pc = "save"
               PROVE  req'[v].id <= created'
    OBVIOUS
  <2>1. req'[v] = req[v]
    BY <1>2 DEF SyncTypeOK
  <2>2. req[v].id \in 0..MaxRows /\ req[v].id <= created
    BY <2>1, SyncRequestShape DEF SyncTypeOK
  <2> QED BY <1>1, <2>1, <2>2, UserSyncAssumption DEF SyncTypeOK
<1> QED BY <1>1, <1>3, <1>4, <1>5, <1>6 DEF SyncTypeOK, LocalSave

\* Every other step of a request: the tables as they are.
LEMMA SyncTypeStage ==
  ASSUME SyncTypeOK, NEW w \in Workers,
         \/ RequestBegin(w) \/ UserFetch(w) \/ LoginFind(w)
         \/ Served(w) \/ RequestFails(w)
  PROVE  SyncTypeOK'
<1>1. CASE RequestBegin(w)
  <2>1. PICK u \in RemoteUsers, typed \in Addresses \cup {None} :
          req' = [req EXCEPT ![w] =
                    [pc |-> "fetch", user |-> u, typed |-> typed]]
    BY <1>1 DEF RequestBegin, SyncTypeOK, Active, RemoteRows
  <2>2. [pc |-> "fetch", user |-> u, typed |-> typed] \in Requests
    BY DEF Requests
  <2> QED BY <1>1, <2>1, <2>2, SyncStage DEF RequestBegin
<1>2. CASE UserFetch(w)
  <2>1. req[w] \in [pc : {"fetch"}, user : RemoteUsers,
                    typed : Addresses \cup {None}]
    BY <1>2, SyncRequestShape DEF SyncTypeOK, UserFetch
  <2>2. PICK data \in RemoteRows :
          req' = [req EXCEPT ![w] =
                    [pc |-> "lookup", user |-> req[w].user,
                     typed |-> req[w].typed, data |-> data]]
    BY <1>2, <2>1 DEF UserFetch, Fetched, Active, SyncTypeOK
  <2>3. [pc |-> "lookup", user |-> req[w].user, typed |-> req[w].typed,
         data |-> data] \in Requests
    BY <2>1 DEF Requests
  <2> QED BY <1>2, <2>2, <2>3, SyncStage DEF UserFetch
<1>3. CASE LoginFind(w)
  <2>1. [pc |-> "serve", user |-> req[w].user] \in Requests
    BY <1>3, SyncRequestShape DEF SyncTypeOK, LoginFind, Requests
  <2> QED BY <1>3, <2>1, SyncStage DEF LoginFind
<1>4. CASE Served(w) \/ RequestFails(w)
  <2>1. Idle \in Requests /\ Idle.pc # "save"
    BY DEF Requests, Idle
  <2> QED BY <1>4, <2>1, SyncStage DEF Served, RequestFails, Finish
<1> QED BY <1>1, <1>2, <1>3, <1>4

\* Edits at both sides write rows of the tables' shape, or none.
LEMMA SyncTypeEdits ==
  ASSUME SyncTypeOK,
         \/ \E u \in RemoteUsers : RemoteChange(u) \/ RemoteDelete(u)
         \/ \E id \in LocalIds : LocalChange(id) \/ LocalDelete(id)
  PROVE  SyncTypeOK'
<1>1. edits' \in Revisions
  BY UserSyncAssumption
     DEF SyncTypeOK, Revisions, RemoteChange, RemoteDelete, LocalChange,
         LocalDelete
<1>2. CASE \E u \in RemoteUsers : RemoteChange(u) \/ RemoteDelete(u)
  <2>1. remote' \in [RemoteUsers -> RemoteRows \cup {None}]
    BY <1>1, <1>2 DEF SyncTypeOK, RemoteChange, RemoteDelete, RemoteRows
  <2>2. UNCHANGED <<local, created, req>>
    BY <1>2 DEF RemoteChange, RemoteDelete
  <2> QED BY <1>1, <2>1, <2>2 DEF SyncTypeOK
<1>3. CASE \E id \in LocalIds : LocalChange(id)
  <2>1. PICK id \in LocalIds, staff \in BOOLEAN, active \in BOOLEAN :
          /\ Exists(id)
          /\ local' = [local EXCEPT ![id].is_staff = staff,
                                    ![id].is_active = active]
          /\ UNCHANGED <<remote, created, req>>
    BY <1>3 DEF LocalChange
  <2>2. local[id] \in LocalRows
    BY <2>1 DEF SyncTypeOK
  <2>3. local' \in [LocalIds -> LocalRows \cup {None}]
    BY <2>1, <2>2 DEF SyncTypeOK, LocalRows
  <2>4. \A i \in LocalIds : Exists(i)' => Exists(i)
    BY <2>1 DEF SyncTypeOK
  <2> QED BY <1>1, <2>1, <2>3, <2>4 DEF SyncTypeOK
<1>4. CASE \E id \in LocalIds : LocalDelete(id)
  BY <1>1, <1>4 DEF SyncTypeOK, LocalDelete
<1> QED BY <1>2, <1>3, <1>4

\* Every step keeps the shape.
LEMMA SyncTypeStep == SyncTypeOK /\ [Next]_vars => SyncTypeOK'
<1> SUFFICES ASSUME SyncTypeOK, [Next]_vars PROVE SyncTypeOK'
  OBVIOUS
<1>1. CASE \E w \in Workers : RequestBegin(w) \/ Progress(w)
  BY <1>1, SyncTypeStage, SyncTypeLookup, SyncTypeSave DEF Progress
<1>2. CASE UNCHANGED vars
  BY <1>2 DEF vars, SyncTypeOK
<1> QED BY <1>1, <1>2, SyncTypeEdits DEF Next

\* Both tables and the requests in flight are always well formed.
THEOREM SyncTypeCorrect == Spec => []SyncTypeOK
<1> QED BY SyncTypeInit, SyncTypeStep, PTL DEF Spec

-----------------------------------------------------------------------------
(* One row per address. *)

\* A save keeps addresses apart, whatever was looked up before: the index
\* compares with the rows there are at the write.
LEMMA AddressSave ==
  ASSUME SyncTypeOK, LocalAddressUnique, NEW w \in Workers, LocalSave(w)
  PROVE  LocalAddressUnique'
<1>1. PICK id \in LocalIds :
        /\ id = IF req[w].id = 0 THEN created + 1 ELSE req[w].id
        /\ local' = [local EXCEPT ![id] = req[w].row]
  BY SyncSaveShape
<1>2. \A i \in LocalIds \ {id} : Exists(i) => local[i].email # req[w].row.email
  <2>1. CASE req[w].id = 0
    BY <2>1, UserSyncAssumption DEF LocalSave, AddressAllowed, LocalIds
  <2>2. CASE req[w].id # 0
    BY <1>1, <2>2 DEF LocalSave, AddressAllowed
  <2> QED BY <2>1, <2>2
<1>3. /\ local'[id] = req[w].row
      /\ \A i \in LocalIds \ {id} : local'[i] = local[i]
  BY <1>1 DEF SyncTypeOK
<1> QED BY <1>2, <1>3 DEF LocalAddressUnique

\* The local admin writes no address.
LEMMA AddressLocalEdit ==
  ASSUME SyncTypeOK, LocalAddressUnique, NEW id \in LocalIds,
         LocalChange(id) \/ LocalDelete(id)
  PROVE  LocalAddressUnique'
<1>1. CASE LocalChange(id)
  <2>1. PICK staff \in BOOLEAN, active \in BOOLEAN :
          /\ Exists(id)
          /\ local' = [local EXCEPT ![id].is_staff = staff,
                                    ![id].is_active = active]
    BY <1>1 DEF LocalChange
  <2>2. local[id] \in LocalRows
    BY <2>1 DEF SyncTypeOK
  <2>3. \A i \in LocalIds :
          Exists(i)' => Exists(i) /\ local'[i].email = local[i].email
    BY <2>1, <2>2 DEF SyncTypeOK, LocalRows
  <2> QED BY <2>3 DEF LocalAddressUnique
<1>2. CASE LocalDelete(id)
  <2>1. \A i \in LocalIds : Exists(i)' => Exists(i) /\ local'[i] = local[i]
    BY <1>2 DEF LocalDelete, SyncTypeOK
  <2> QED BY <2>1 DEF LocalAddressUnique
<1> QED BY <1>1, <1>2

\* Every step but a save leaves the addresses of the rows there are alone.
LEMMA AddressStep ==
  ASSUME SyncTypeOK, LocalAddressUnique, [Next]_vars
  PROVE  LocalAddressUnique'
<1>1. ASSUME UNCHANGED local PROVE LocalAddressUnique'
  BY <1>1 DEF LocalAddressUnique
<1>2. CASE \E w \in Workers : RequestBegin(w) \/ Progress(w)
  BY <1>1, <1>2, AddressSave
     DEF Progress, RequestBegin, UserFetch, LocalLookup, LoginFind, Served,
         RequestFails
<1>3. CASE \E u \in RemoteUsers : RemoteChange(u) \/ RemoteDelete(u)
  BY <1>1, <1>3 DEF RemoteChange, RemoteDelete
<1>4. CASE \E id \in LocalIds : LocalChange(id) \/ LocalDelete(id)
  BY <1>4, AddressLocalEdit
<1>5. CASE UNCHANGED vars
  BY <1>1, <1>5 DEF vars
<1> QED BY <1>2, <1>3, <1>4, <1>5 DEF Next

\* However first requests race, addresses move and deleted rows come back, no
\* two local rows have one address.
THEOREM AddressesStayUnique == Spec => []LocalAddressUnique
<1>1. Init => LocalAddressUnique
  BY DEF Init, LocalAddressUnique
<1>2. SyncTypeOK /\ LocalAddressUnique /\ [Next]_vars => LocalAddressUnique'
  BY AddressStep
<1> QED BY <1>1, <1>2, SyncTypeCorrect, PTL DEF Spec

-----------------------------------------------------------------------------
(* The local admin's flag. *)

\* The row a synchronisation is about to save over an existing one has the
\* flag of the row it loaded.
FlagInv ==
  \A w \in Workers :
    (req[w].pc = "save" /\ req[w].id # 0)
      => req[w].row.is_staff = req[w].loaded.is_staff

\* Only the look-up makes a request that saves, and the serializer leaves the
\* flag of what it found alone.
LEMMA FlagStep ==
  ASSUME SyncTypeOK, FlagInv, [Next]_vars
  PROVE  FlagInv'
<1> USE DEF SyncTypeOK
<1>1. ASSUME NEW w \in Workers, NEW r, req' = [req EXCEPT ![w] = r],
             (r.pc = "save" /\ r.id # 0) => r.row.is_staff = r.loaded.is_staff
      PROVE  FlagInv'
  BY <1>1 DEF FlagInv
<1>2. ASSUME NEW w \in Workers, LocalLookup(w)
      PROVE  FlagInv'
  <2> DEFINE Save(id, row, loaded) ==
               [pc |-> "save", user |-> req[w].user, typed |-> req[w].typed,
                id |-> id, row |-> row, loaded |-> loaded]
  <2>1. CASE req' = [req EXCEPT ![w] =
                       Save(0, NewRow(req[w].user, req[w].data), None)]
    BY <1>1, <2>1
  <2>2. CASE \E id \in LocalIds :
               /\ Exists(id)
               /\ req' = [req EXCEPT ![w] =
                    Save(id, UpdatedRow(local[id], req[w].user, req[w].data),
                         local[id])]
    <3>1. PICK id \in LocalIds :
            req' = [req EXCEPT ![w] =
              Save(id, UpdatedRow(local[id], req[w].user, req[w].data),
                   local[id])]
      BY <2>2
    <3>2. UpdatedRow(local[id], req[w].user, req[w].data).is_staff
            = local[id].is_staff
      BY DEF UpdatedRow, NewRow
    <3> QED BY <1>1, <3>1, <3>2
  <2> QED BY <1>2, <2>1, <2>2 DEF LocalLookup
<1>3. ASSUME NEW w \in Workers,
             \/ RequestBegin(w) \/ UserFetch(w) \/ LocalSave(w)
             \/ LoginFind(w) \/ Served(w) \/ RequestFails(w)
      PROVE  FlagInv'
  <2>1. CASE RequestBegin(w)
    <3>1. PICK u, typed :
            req' = [req EXCEPT ![w] =
                      [pc |-> "fetch", user |-> u, typed |-> typed]]
      BY <2>1 DEF RequestBegin
    <3> QED BY <1>1, <3>1
  <2>2. CASE UserFetch(w)
    <3>1. PICK data :
            req' = [req EXCEPT ![w] =
              [pc |-> "lookup", user |-> req[w].user, typed |-> req[w].typed,
               data |-> data]]
      BY <2>2 DEF UserFetch
    <3> QED BY <1>1, <3>1
  <2>3. CASE LocalSave(w)
    <3>1. \/ req' = [req EXCEPT ![w] = [pc |-> "serve", user |-> req[w].user]]
          \/ req' = [req EXCEPT ![w] = [pc |-> "find", user |-> req[w].user,
                                        typed |-> req[w].typed]]
      BY <2>3 DEF LocalSave
    <3> QED BY <1>1, <3>1
  <2>4. CASE LoginFind(w)
    BY <1>1, <2>4 DEF LoginFind
  <2>5. CASE Served(w) \/ RequestFails(w)
    BY <1>1, <2>5 DEF Served, RequestFails, Finish, Idle
  <2> QED BY <1>3, <2>1, <2>2, <2>3, <2>4, <2>5
<1>4. ASSUME req' = req PROVE FlagInv'
  BY <1>4 DEF FlagInv
<1>5. CASE \E w \in Workers : RequestBegin(w) \/ Progress(w)
  BY <1>2, <1>3, <1>5 DEF Progress
<1>6. CASE \/ \E u \in RemoteUsers : RemoteChange(u) \/ RemoteDelete(u)
           \/ \E id \in LocalIds : LocalChange(id) \/ LocalDelete(id)
           \/ UNCHANGED vars
  BY <1>4, <1>6 DEF RemoteChange, RemoteDelete, LocalChange, LocalDelete, vars
<1> QED BY <1>5, <1>6 DEF Next

\* No synchronisation changes is_staff, unless the row was written between its
\* look-up and its save.
THEOREM FlagSurvives == Spec => LocalFlagSurvives
<1> DEFINE Saves ==
      \A w \in Workers :
        (LocalSave(w) /\ req[w].id # 0 /\ local[req[w].id] = req[w].loaded)
          => local'[req[w].id].is_staff = local[req[w].id].is_staff
<1>1. Init => FlagInv
  BY DEF Init, FlagInv, Idle
<1>2. SyncTypeOK /\ FlagInv /\ [Next]_vars => FlagInv'
  BY FlagStep
<1>3. SyncTypeOK /\ FlagInv => Saves
  <2> SUFFICES ASSUME SyncTypeOK, FlagInv, NEW w \in Workers, LocalSave(w),
                      req[w].id # 0, local[req[w].id] = req[w].loaded
               PROVE  local'[req[w].id].is_staff = local[req[w].id].is_staff
    OBVIOUS
  <2>1. req[w].id \in LocalIds
    BY SyncSaveShape
  <2>2. local'[req[w].id] = req[w].row
    BY <2>1 DEF LocalSave, SyncTypeOK
  <2> QED BY <2>2 DEF FlagInv, LocalSave
<1>4. LocalFlagSurvives <=> [][Saves]_vars
  BY DEF LocalFlagSurvives
<1> HIDE DEF Saves
<1> QED BY <1>1, <1>2, <1>3, <1>4, SyncTypeCorrect, PTL DEF Spec
=============================================================================
