------------------------------- MODULE MCIdP -------------------------------
(* The identity provider on a small instance. *)
EXTENDS IdP
============================================================================
