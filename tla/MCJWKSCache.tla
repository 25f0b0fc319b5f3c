----------------------------- MODULE MCJWKSCache -----------------------------
(* The JWKS cache on a small instance. *)
EXTENDS JWKSCache
=============================================================================
