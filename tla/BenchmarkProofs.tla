--------------------------- MODULE BenchmarkProofs ---------------------------
(***************************************************************************)
(* Theorems about POST /api/benchmark, for any number of calls, any size   *)
(* of a batch and any number of tokens.                                    *)
(***************************************************************************)
EXTENDS Benchmark, TLAPS

(* The inductive invariant.                                                *)

\* Only a running call has requests under way.  That a refusal is always one
\* of a token, and so TypeOK itself, depends on it.
BatchesOK ==
    \A c \in Calls : pc[c] # "running" =>
        sent[c] = 0 /\ ok[c] = 0 /\ refused[c] = 0 /\ other[c] = 0

\* Only tokens that were issued are held, used or rejected: the next token
\* is one that nobody has seen refused.
TokensOK ==
    /\ cachedToken <= issued
    /\ \A c \in Calls : used[c] <= issued
    /\ \A t \in rejected : t <= issued

BenchmarkInv ==
    TypeOK /\ BatchesOK /\ TokensOK /\ NeverSendsNull /\ RejectedForgotten /\ StatisticsSound

\* Four counts whose sum is 0 are 0: the state in which POST is answered.
LEMMA SumIsZero ==
    \A i, j, k, l \in Nat : i + j + k + l = 0 => i = 0 /\ j = 0 /\ k = 0 /\ l = 0
OBVIOUS

\* The invariant under every step of the calls of POST and their requests.
LEMMA BenchmarkInvariant == Spec => []BenchmarkInv
<1> USE BenchmarkAssumption DEF Tokens, Null, Open
<1> USE DEF BenchmarkInv, TypeOK, BatchesOK, TokensOK, NeverSendsNull, RejectedForgotten,
            StatisticsSound
<1>1. Init => BenchmarkInv
  BY DEF Init, Zero
<1>2. BenchmarkInv /\ [Next]_vars => BenchmarkInv'
  <2> SUFFICES ASSUME BenchmarkInv, [Next]_vars PROVE BenchmarkInv'
    OBVIOUS
  <2> USE DEF tokenVars, answerVars, countVars, Goto
  <2>1. ASSUME NEW c \in Calls, POST(c) PROVE BenchmarkInv'
    BY <2>1 DEF POST, SendBatch
  <2>2. ASSUME NEW c \in Calls, FetchToken(c) PROVE BenchmarkInv'
    BY <2>2 DEF FetchToken, SendBatch
  <2>3. ASSUME NEW c \in Calls, FetchTokenFails(c) PROVE BenchmarkInv'
    BY <2>3 DEF FetchTokenFails
  <2>4. ASSUME NEW c \in Calls, Serve(c) PROVE BenchmarkInv'
    BY <2>4 DEF Serve
  <2>5. ASSUME NEW c \in Calls, ReceiveOK(c) PROVE BenchmarkInv'
    BY <2>5 DEF ReceiveOK
  <2>6. ASSUME NEW c \in Calls, ReceiveRefusal(c) PROVE BenchmarkInv'
    <3>1. PICK n \in {1, 2} : latencies' = [latencies EXCEPT ![c] = @ + n]
      BY <2>6 DEF ReceiveRefusal, NoteLatency
    <3>2. pc[c] = "running"
      BY <2>6 DEF ReceiveRefusal
    <3>3. used[c] \in Tokens
      BY <3>2
    <3>4. TypeOK'
      <4>1. latencies' \in [Calls -> Nat]
        BY <3>1
      <4>2. refused' \in [Calls -> Nat]
        BY <2>6 DEF ReceiveRefusal
      <4>3. rejected' \subseteq Tokens /\ cachedToken' \in Tokens \cup {Null}
        BY <2>6, <3>3 DEF ReceiveRefusal
      <4> QED
        BY <2>6, <4>1, <4>2, <4>3 DEF ReceiveRefusal
    <3>5. BatchesOK' /\ TokensOK' /\ NeverSendsNull'
      BY <2>6, <3>2 DEF ReceiveRefusal
    <3>6. RejectedForgotten'
      BY <2>6, <3>3 DEF ReceiveRefusal
    <3>7. StatisticsSound'
      BY <2>6, <3>1 DEF ReceiveRefusal
    <3> QED
      BY <3>4, <3>5, <3>6, <3>7
  <2>7. ASSUME NEW c \in Calls, ReceiveOther(c) PROVE BenchmarkInv'
    <3>1. PICK n \in {1, 2} : latencies' = [latencies EXCEPT ![c] = @ + n]
      BY <2>7 DEF ReceiveOther, NoteLatency
    <3>2. pc[c] = "running"
      BY <2>7 DEF ReceiveOther
    <3>3. TypeOK' /\ BatchesOK' /\ TokensOK' /\ NeverSendsNull' /\ RejectedForgotten'
      BY <2>7, <3>1, <3>2 DEF ReceiveOther
    <3>4. StatisticsSound'
      BY <2>7, <3>1 DEF ReceiveOther
    <3> QED
      BY <3>3, <3>4
  <2>8. ASSUME NEW c \in Calls, Finish(c) PROVE BenchmarkInv'
    <3>1. sent[c] = 0 /\ ok[c] = 0 /\ refused[c] = 0 /\ other[c] = 0
      <4>1. sent[c] \in Nat /\ ok[c] \in Nat /\ refused[c] \in Nat /\ other[c] \in Nat
        OBVIOUS
      <4>2. sent[c] + ok[c] + refused[c] + other[c] = 0
        BY <2>8 DEF Finish
      <4> QED
        BY <4>1, <4>2, SumIsZero
    <3>2. BatchesOK'
      BY <2>8, <3>1 DEF Finish
    <3>3. StatisticsSound'
      BY <2>8 DEF Finish
    <3>4. TypeOK' /\ TokensOK' /\ NeverSendsNull' /\ RejectedForgotten'
      BY <2>8 DEF Finish
    <3> QED
      BY <3>2, <3>3, <3>4
  <2>9. CASE Expire
    BY <2>9 DEF Expire
  <2>10. CASE UNCHANGED vars
    BY <2>10 DEF vars
  <2> QED
    BY <2>1, <2>2, <2>3, <2>4, <2>5, <2>6, <2>7, <2>8, <2>9, <2>10 DEF Next, Progress
<1> QED
  BY <1>1, <1>2, PTL DEF Spec

-----------------------------------------------------------------------------
(* Type correctness of the token cache and of the calls of POST.            *)
THEOREM TypeCorrect == Spec => []TypeOK
BY BenchmarkInvariant, PTL DEF BenchmarkInv

(* POST never builds an Authorization header from an empty cache, although  *)
(* any other call may empty it between two awaits.                          *)
THEOREM HeadersHaveTokens == Spec => []NeverSendsNull
BY BenchmarkInvariant, PTL DEF BenchmarkInv

(* A token for which a 401 or 403 has come back is never in the cache again. *)
THEOREM RefusedTokensForgotten == Spec => []RejectedForgotten
BY BenchmarkInvariant, PTL DEF BenchmarkInv

(* The counters from which POST computes its answer account for every       *)
(* request of the batch.                                                    *)
THEOREM CountersComplete == Spec => []StatisticsSound
BY BenchmarkInvariant, PTL DEF BenchmarkInv
=============================================================================
