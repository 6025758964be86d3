---- MODULE MCAccounts ----
(* Constants for the TLC runs of Accounts.                                 *)
EXTENDS Accounts, TLC

CONSTANTS r1, r2, n1, n2

(* Neither the requests nor the names are told apart.                      *)
Symmetry == Permutations({r1, r2}) \cup Permutations({n1, n2})
====
