----------------------------- MODULE MCAuditDB -----------------------------
(* The data layer on a small instance. *)
EXTENDS AuditDB, TLC
Symmetry == Permutations(Requests) \cup Permutations(Tenants) \cup Permutations(Conns)
============================================================================
