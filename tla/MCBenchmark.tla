---------------------------- MODULE MCBenchmark ----------------------------
(* The benchmark route on a small instance. *)
EXTENDS Benchmark
============================================================================
