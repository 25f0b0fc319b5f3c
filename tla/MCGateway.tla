------------------------------ MODULE MCGateway ------------------------------
(* The gateway on a small instance. *)
EXTENDS Gateway

\* A write and a read of the API.
MCOps == {[path |-> "transfer", method |-> "POST"], [path |-> "balance", method |-> "GET"]}

\* Everything is allowed until a rule is taken back.
MCPolicies == {Rules}
=============================================================================
