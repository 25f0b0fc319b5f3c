-------------------------- MODULE DashboardRoutes --------------------------
(***************************************************************************)
(* The API routes of the dashboard (dashboard/src/app/api) that keep no    *)
(* state of their own: /api/metrics, /api/logs, /api/certs,                *)
(* /api/verify-chain and /api/attack.  Each is an operator from the state  *)
(* of the service it asks to the body of its answer; that the service      *)
(* cannot be reached, and the route answers 500, is the caller's case.     *)
(*                                                                         *)
(* A row of audit_logs is named by its id; its block_hash is an HMAC and   *)
(* is represented by that id, so that prev is the id of the row whose      *)
(* block_hash the trigger copied.  A console line is represented by its    *)
(* tag.                                                                    *)
(***************************************************************************)
EXTENDS Integers, FiniteSets, Sequences

CONSTANTS
    Tenants,
    Actions,           \* values of the column action
    CriticalActions,   \* those containing FAIL, BLOCK, REJECT or TAMPER
    WarningActions,    \* those containing UPDATE or DELETE
    LogsLimit,         \* LIMIT of /api/logs                    (50)
    Files,             \* the certificate files
    UnitsPerDay,       \* resolution of a remaining lifetime
    ExpiryDays         \* fewer days than this: "expiring"      (30)

ASSUME RoutesAssumption ==
    /\ CriticalActions \subseteq Actions /\ WarningActions \subseteq Actions
    /\ IsFiniteSet(Files)
    /\ LogsLimit \in Nat \ {0} /\ UnitsPerDay \in Nat \ {0} /\ ExpiryDays \in Nat

Genesis == 0
Row == [id : Nat \ {0}, tenant : Tenants, action : Actions, prev : Nat]

-----------------------------------------------------------------------------
(* GET /api/metrics: the counters and gauges of the gateway.  served is    *)
(* the sum over handlers and statuses, gauge stands for the latencies.     *)

MetricsData == [requests : Nat, overhead : Nat]
MetricsReply(gw) == [requests |-> gw.served, overhead |-> gw.gauge]

-----------------------------------------------------------------------------
(* GET /api/logs: ORDER BY id DESC LIMIT 50, over all tenants.             *)

\* mutant: the oldest rows
LogsReplyOldest(rows) ==
    {r \in rows : Cardinality({q \in rows : q.id < r.id}) < LogsLimit}

LogsReply(rows) == {r \in rows : Cardinality({q \in rows : q.id > r.id}) < LogsLimit}

-----------------------------------------------------------------------------
(* GET /api/certs: a file that does not exist is left out.                 *)

Certs == [Files -> [exists : BOOLEAN, days : Int]]

\* Math.ceil of the remaining time in days; negative once expired
DaysRemaining(units) == -((-units) \div UnitsPerDay)

ExpiringCount(certs) == Cardinality({f \in Files : certs[f].exists /\ certs[f].days < ExpiryDays})

CertsReply(files) ==
    LET certs == [f \in Files |-> [exists |-> files[f].exists,
                                   days   |-> DaysRemaining(files[f].units)]]
    IN  [certificates |-> certs, expiringCount |-> ExpiringCount(certs)]

-----------------------------------------------------------------------------
(* GET /api/verify-chain: the rows of all tenants in id order; the first   *)
(* must start from the genesis hash, every other one continue its          *)
(* neighbour.                                                              *)

\* mutant: continuing any earlier row, or none, will do
StepValidAnywhere(rows, r) == r.prev = Genesis \/ \E q \in rows : q.id < r.id /\ r.prev = q.id

\* mutant: the first row has no case of its own
StepValidNoGenesis(rows, r) ==
    LET before == {q \in rows : q.id < r.id} IN
    \E q \in before : r.prev = q.id /\ \A x \in before : x.id <= q.id

StepValid(rows, r) ==
    LET before == {q \in rows : q.id < r.id} IN
    \/ before = {} /\ r.prev = Genesis
    \/ \E q \in before : r.prev = q.id /\ \A x \in before : x.id <= q.id

\* The steps of the answer.
Steps == [id : Nat \ {0}, valid : BOOLEAN]
VerifyReply(rows) == {[id |-> r.id, valid |-> StepValid(rows, r)] : r \in rows}

-----------------------------------------------------------------------------
(* POST /api/attack, a self-test of the defences.  A value is the list of  *)
(* lines of an answer with status "success"; the empty list is an answer   *)
(* with status "error".                                                    *)

AttackTypes == {"replay", "spoof", "escape", "tamper"}
Tags        == {"info", "attack", "response", "success", "failed", "error"}
ErrorReply  == << >>

\* What GET /authorize returns to a headless client: a code, never a token;
\* with a wrong secret, 401.
AuthorizeFields == {"code"}
AuthorizeRefusal == 401

\* createHash().update(undefined) throws: without a token the test is over.
NeedsToken(lines) ==
    IF "access_token" \in AuthorizeFields THEN lines ELSE {ErrorReply}

ReplayLines ==
    NeedsToken({<<"info", "info", "info", "attack", "response", "attack", "response", c>> :
                    c \in {"success", "failed"}})

EscapeLines ==
    NeedsToken({<<"info", "info", "attack", "response", "info", c>> :
                    c \in {"success", "failed"}})

SpoofLines ==
    {<<"info", "attack", "response",
       IF AuthorizeRefusal \in {400, 401} THEN "success" ELSE "failed">>}

\* mutant: an UPDATE without an error is taken for a refusal
TamperLinesOptimistic(rows) == {<<"info", "attack", "response", "success">>}

\* UPDATE ... WHERE id = 1.  The trigger is FOR EACH ROW: it raises
\* "... immutable ..." if there is such a row and does not run otherwise.
TamperLines(rows) ==
    IF \E r \in rows : r.id = 1 THEN {<<"info", "attack", "response", "success">>}
                                ELSE {<<"info", "attack", "failed">>}

\* The service the test talks to answers.
AttackReplies(type, rows) ==
    CASE type = "replay" -> ReplayLines
      [] type = "spoof"  -> SpoofLines
      [] type = "escape" -> EscapeLines
      [] type = "tamper" -> TamperLines(rows)

\* It cannot be reached: the database error is caught by the test itself,
\* any other one by the handler.
AttackUnreachable(type) ==
    IF type = "tamper" THEN <<"info", "attack", "response", "error">> ELSE ErrorReply
=============================================================================
