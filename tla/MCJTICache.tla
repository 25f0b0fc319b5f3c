---------------------------- MODULE MCJTICache ----------------------------
(* The replay cache on a small instance.  One unit of time stands for 30 s, *)
(* so that Window = 2 and TTL = 4 keep the ratio of 60 s to 2 min.          *)
EXTENDS JTICache
===========================================================================
