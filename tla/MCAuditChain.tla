---- MODULE MCAuditChain ----
(* Constants for the TLC runs of AuditChain.                               *)
EXTENDS AuditChain, TLC

Symmetry == Permutations(Writers) \cup Permutations(Events)
====
