----------------------------- MODULE MCAccounts -----------------------------
(***************************************************************************)
(* Instances of Accounts for TLC: workers and names are model values, so   *)
(* workers (and names) may be permuted.                                    *)
(***************************************************************************)
EXTENDS Accounts, TLC

Symmetry == Permutations(AccountWorkers) \cup Permutations(Names)
             \cup Permutations(Passwords)
=============================================================================
