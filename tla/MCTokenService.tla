--------------------------- MODULE MCTokenService ---------------------------
(***************************************************************************)
(* Instances of TokenService for TLC.  Spec runs everything.  TokensSpec   *)
(* starts from one registered user and leaves out the account requests     *)
(* (their runs are those of MCAccounts and of Spec here), so that more     *)
(* logins, rotations and ticks fit.                                        *)
(***************************************************************************)
EXTENDS TokenService, TLC

Symmetry == Permutations(TokenWorkers)

OneUser ==
  [email |-> [name |-> CHOOSE n \in Names : TRUE, lower |-> TRUE],
   password |-> [plain |-> CHOOSE p \in Passwords : TRUE, salt |-> 1],
   is_active |-> TRUE]

TokensInit ==
  /\ users = [u \in UserIds |-> IF u = 1 THEN OneUser ELSE NoUser]
  /\ created = 1
  /\ salts = 1
  /\ acct = [w \in AccountWorkers |-> Idle]
  /\ deleted = {}
  /\ now = 0
  /\ outstanding = {}
  /\ blacklisted = {}
  /\ rows = 0
  /\ jtis = 0
  /\ req = [w \in TokenWorkers |-> Idle]
  /\ grants = {}
  /\ revoked = {}
  /\ restored = {}

TokensNext ==
  \/ \E w \in TokenWorkers : TokenStep(w)
  \/ TablesStep /\ UNCHANGED <<req, grants>>

TokensSpec == TokensInit /\ [][TokensNext]_vars
=============================================================================
