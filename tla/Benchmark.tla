------------------------------ MODULE Benchmark ------------------------------
(***************************************************************************)
(* POST /api/benchmark of the dashboard                                    *)
(* (dashboard/src/app/api/benchmark/route.ts).                             *)
(*                                                                         *)
(* All calls share the token in the module variable cachedToken.  Node     *)
(* runs one piece of code at a time and switches at an await only, so a    *)
(* step of this module is what a call does from one await to the next: the *)
(* assignment of a fetched token and the start of the whole batch are one  *)
(* step, and so are an answer and what is done about it.  The requests of  *)
(* a batch are alike and are counted, not named.                           *)
(* A token is named by its number; the DPoP key pair is made once and      *)
(* never changes.                                                          *)
(***************************************************************************)
EXTENDS Integers

CONSTANTS
    Calls,       \* calls of POST that may run at the same time
    N,           \* requestCount (50)
    MaxTokens    \* bound: tokens the IdP issues

ASSUME BenchmarkAssumption == N \in Nat \ {0} /\ MaxTokens \in Nat

VARIABLES
    cachedToken,
    issued,      \* number of tokens issued so far
    valid,       \* tokens that have not expired
    pc,          \* where each call is
    used,        \* the token its batch was sent with
    sent,        \* requests of the batch the gateway has not answered
    ok, refused, other,       \* answers under way: 200; 401 or 403; the rest
    successCount, latencies,  \* latencies: only the length of the array
    rejected     \* history: tokens for which a refusal has been received

tokenVars  == <<cachedToken, issued, valid, rejected>>
answerVars == <<ok, refused, other>>
countVars  == <<successCount, latencies>>
vars == <<tokenVars, pc, used, sent, answerVars, countVars>>

Null == 0
Tokens == 1..MaxTokens
Zero == [c \in Calls |-> 0]

\* Requests of the batch that have not been dealt with.
Open(c) == sent[c] + ok[c] + refused[c] + other[c]

Init ==
    /\ cachedToken = Null /\ issued = 0 /\ valid = {} /\ rejected = {}
    /\ pc = [c \in Calls |-> "idle"]
    /\ used = Zero /\ sent = Zero /\ ok = Zero /\ refused = Zero /\ other = Zero
    /\ successCount = Zero /\ latencies = Zero

Goto(c, l) == pc' = [pc EXCEPT ![c] = l]

-----------------------------------------------------------------------------
(* A call.                                                                 *)

\* The batch: every runRequest goes as far as its fetch, without a pause, so
\* that the proofs and the Authorization headers are made for one token.
SendBatch(c, token) ==
    /\ Goto(c, "running")
    /\ used' = [used EXCEPT ![c] = token]
    /\ sent' = [sent EXCEPT ![c] = N]
    /\ successCount' = [successCount EXCEPT ![c] = 0]
    /\ latencies' = [latencies EXCEPT ![c] = 0]

\* A call comes in and looks at the cache.
POST(c) ==
    /\ pc[c] = "idle"
    /\ \/ /\ cachedToken # Null
          /\ SendBatch(c, cachedToken)
       \/ /\ cachedToken = Null
          /\ Goto(c, "fetching")
          /\ UNCHANGED <<used, sent, countVars>>
    /\ UNCHANGED <<tokenVars, answerVars>>

\* mutant: the batch is sent with what was in the cache before
FetchTokenLate(c) ==
    /\ pc[c] = "fetching" /\ issued < MaxTokens
    /\ issued' = issued + 1 /\ valid' = valid \cup {issued'}
    /\ cachedToken' = issued'
    /\ SendBatch(c, cachedToken)
    /\ UNCHANGED <<rejected, answerVars>>

\* fetchToken returns: the token replaces whatever is in the cache by now.
FetchToken(c) ==
    /\ pc[c] = "fetching" /\ issued < MaxTokens
    /\ issued' = issued + 1 /\ valid' = valid \cup {issued'}
    /\ cachedToken' = issued'
    /\ SendBatch(c, cachedToken')
    /\ UNCHANGED <<rejected, answerVars>>

\* fetchToken throws: the catch of POST empties the cache, whatever is in it.
FetchTokenFails(c) ==
    /\ pc[c] = "fetching"
    /\ cachedToken' = Null
    /\ Goto(c, "idle")
    /\ UNCHANGED <<issued, valid, rejected, used, sent, answerVars, countVars>>

-----------------------------------------------------------------------------
(* The requests of a batch.                                                *)

\* The gateway takes a request with a good token or refuses it, for whatever
\* reason; or there is another status, or no connection.
Serve(c) ==
    /\ sent[c] > 0
    /\ sent' = [sent EXCEPT ![c] = @ - 1]
    /\ \/ used[c] \in valid /\ ok' = [ok EXCEPT ![c] = @ + 1] /\ UNCHANGED <<refused, other>>
       \/ refused' = [refused EXCEPT ![c] = @ + 1] /\ UNCHANGED <<ok, other>>
       \/ other' = [other EXCEPT ![c] = @ + 1] /\ UNCHANGED <<ok, refused>>
    /\ UNCHANGED <<tokenVars, pc, used, countVars>>

ReceiveOK(c) ==
    /\ ok[c] > 0
    /\ ok' = [ok EXCEPT ![c] = @ - 1]
    /\ successCount' = [successCount EXCEPT ![c] = @ + 1]
    /\ latencies' = [latencies EXCEPT ![c] = @ + 1]
    /\ UNCHANGED <<tokenVars, pc, used, sent, refused, other>>

\* The duration is noted when the answer comes, and once more if its body
\* cannot be read: the catch then notes it too.
NoteLatency(c) ==
    \E n \in {1, 2} : latencies' = [latencies EXCEPT ![c] = @ + n]

\* mutant: the refusal is logged only
LogRefusal(c) ==
    /\ refused[c] > 0
    /\ refused' = [refused EXCEPT ![c] = @ - 1]
    /\ rejected' = rejected \cup {used[c]}
    /\ NoteLatency(c)
    /\ UNCHANGED <<cachedToken, issued, valid, pc, used, sent, ok, other, successCount>>

\* 401 or 403: the cache is emptied, also if it holds another token by now.
ReceiveRefusal(c) ==
    /\ refused[c] > 0
    /\ refused' = [refused EXCEPT ![c] = @ - 1]
    /\ cachedToken' = Null
    /\ rejected' = rejected \cup {used[c]}
    /\ NoteLatency(c)
    /\ UNCHANGED <<issued, valid, pc, used, sent, ok, other, successCount>>

\* mutant: a request that fails is not counted
IgnoreOther(c) ==
    /\ other[c] > 0
    /\ other' = [other EXCEPT ![c] = @ - 1]
    /\ UNCHANGED <<tokenVars, pc, used, sent, ok, refused, countVars>>

\* Any other status, or the fetch was rejected.
ReceiveOther(c) ==
    /\ other[c] > 0
    /\ other' = [other EXCEPT ![c] = @ - 1]
    /\ NoteLatency(c)
    /\ UNCHANGED <<tokenVars, pc, used, sent, ok, refused, successCount>>

\* mutant: waits until all requests have succeeded
FinishAllOK(c) ==
    /\ pc[c] = "running" /\ successCount[c] = N
    /\ Goto(c, "idle")
    /\ UNCHANGED <<tokenVars, used, sent, answerVars, countVars>>

\* Promise.all is done; the statistics are computed and sent.
Finish(c) ==
    /\ pc[c] = "running" /\ Open(c) = 0
    /\ Goto(c, "idle")
    /\ UNCHANGED <<tokenVars, used, sent, answerVars, countVars>>

-----------------------------------------------------------------------------
\* A token's lifetime ends, or the IdP changes its key.
Expire ==
    /\ \E t \in valid : valid' = valid \ {t}
    /\ UNCHANGED <<cachedToken, issued, rejected, pc, used, sent, answerVars, countVars>>

\* What happens to a call by itself once it has begun.
Progress(c) ==
    \/ FetchToken(c) \/ FetchTokenFails(c) \/ Serve(c)
    \/ ReceiveOK(c) \/ ReceiveRefusal(c) \/ ReceiveOther(c) \/ Finish(c)

Next == (\E c \in Calls : POST(c) \/ Progress(c)) \/ Expire

Spec == Init /\ [][Next]_vars

\* Every fetch comes back, with an answer or an error (the HTTP client of
\* Node has timeouts), and Node runs what is ready.
FairSpec == Spec /\ \A c \in Calls : WF_vars(Progress(c))

-----------------------------------------------------------------------------
(* Properties.                                                             *)

\* The variables have the values the code gives them.
TypeOK ==
    /\ cachedToken \in Tokens \cup {Null}
    /\ issued \in Nat /\ valid \subseteq Tokens /\ rejected \subseteq Tokens
    /\ pc \in [Calls -> {"idle", "fetching", "running"}]
    /\ used \in [Calls -> Tokens \cup {Null}]
    /\ sent \in [Calls -> Nat]
    /\ ok \in [Calls -> Nat] /\ refused \in [Calls -> Nat] /\ other \in [Calls -> Nat]
    /\ successCount \in [Calls -> Nat] /\ latencies \in [Calls -> Nat]

\* The assertion cachedToken! holds: no batch is sent without a token,
\* although other calls empty the cache while this one waits for its own.
NeverSendsNull == \A c \in Calls : pc[c] = "running" => used[c] # Null

\* Once a refusal of a token has been seen, no batch is started with that
\* token again: neither a late fetch nor another call brings it back.
RejectedForgotten == cachedToken \notin rejected

\* Every request of a batch is in the statistics: the success rate is at most
\* 100 %, and there is at least one duration for each request.
StatisticsSound ==
    \A c \in Calls : pc[c] = "running" =>
        /\ successCount[c] + Open(c) <= N
        /\ latencies[c] + Open(c) >= N

\* Every call is answered, however many others there are.
EveryCallAnswered == \A c \in Calls : pc[c] # "idle" ~> pc[c] = "idle"
=============================================================================
