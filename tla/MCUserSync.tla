----------------------------- MODULE MCUserSync -----------------------------
(***************************************************************************)
(* Two users and two addresses: which of the users starts with which       *)
(* address makes no difference, so one of the two beginnings is enough.    *)
(***************************************************************************)
EXTENDS UserSync

CONSTANTS u1, a1

MCInit == Init /\ remote[u1].email = a1

MCSpec == MCInit /\ [][Next]_vars /\ \A w \in Workers : WF_vars(Progress(w))
=============================================================================
