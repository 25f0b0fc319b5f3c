------------------------------- MODULE AuditDB -------------------------------
(***************************************************************************)
(* The data layer: gateway/internal/audit/db.go over database/sql's        *)
(* connection pool, and the tables, row-level-security policies and        *)
(* triggers of docker/postgres/init.sql.                                   *)
(*                                                                         *)
(* A request is one call of CreateTransaction ("transfer"), GetBalance     *)
(* ("balance") or GetAuditLogs ("logs").  The three have the same shape:   *)
(* Begin, inject the tenant context, run the statements, Commit, reset     *)
(* the session; every error return runs the deferred cleanup instead.      *)
(* Statements of different requests interleave; PostgreSQL runs them at    *)
(* READ COMMITTED, so that a statement sees what was committed when it     *)
(* starts.                                                                 *)
(*                                                                         *)
(* A request inserts at most one row in each table, so a row is named by   *)
(* the request that inserts it: its tenant_id is tenant[r], its id and     *)
(* prev_hash are id[r] and prev[r].  A block_hash is an HMAC and is taken  *)
(* to be injective: it is represented by the id of its row.                *)
(* Tenant id and audit secret are injected together, so one setting        *)
(* stands for both: a connection without a tenant has no secret either.    *)
(***************************************************************************)
EXTENDS Naturals, FiniteSets

CONSTANTS
    Requests,    \* calls of the three database operations
    Tenants,
    Conns,       \* the connections SetMaxOpenConns allows (25 in the code)
    NoTenant,    \* the empty setting ''
    NoConn       \* the request holds no connection

ASSUME DistinctAssumption == NoTenant \notin Tenants /\ NoConn \notin Conns

VARIABLES
    pc,          \* where each request is
    op, tenant,  \* its operation and tenantID
    conn,        \* the connection its transaction holds
    session,     \* per connection: the app.tenant_id it has outside a transaction
    current,     \* per connection: the app.tenant_id in force now
    pendTx, pendLog,   \* rows inserted and not yet committed
    txRows, logRows,   \* committed rows of transactions and audit_logs
    nextId,      \* audit_logs_id_seq
    id, prev,    \* of the audit row a request inserts
    seen,        \* the rows a query returned to its request
    acked,       \* history: transfers of the tenant confirmed before the request came
    overlapped   \* history: tenants two of whose audit inserts overlapped in time

connVars == <<conn, session, current>>
rowVars  == <<pendTx, pendLog, txRows, logRows>>
idVars   == <<nextId, id, prev>>
vars == <<pc, op, tenant, connVars, rowVars, idVars, seen, acked, overlapped>>

Ops == {"transfer", "balance", "logs"}
Genesis == 0     \* the prev_hash of 64 zeros

Final == {"ok", "error", "lost"}

\* The states in which a statement may run inside the transaction.
InTx == {"ready", "written", "drawn", "logged"}

Init ==
    /\ pc = [r \in Requests |-> "idle"]
    /\ op = [r \in Requests |-> "logs"] /\ tenant = [r \in Requests |-> NoTenant]
    /\ conn = [r \in Requests |-> NoConn]
    /\ session = [c \in Conns |-> NoTenant]
    /\ current = [c \in Conns |-> NoTenant]
    /\ pendTx = {} /\ pendLog = {} /\ txRows = {} /\ logRows = {}
    /\ nextId = 1
    /\ id = [r \in Requests |-> 0] /\ prev = [r \in Requests |-> Genesis]
    /\ seen = [r \in Requests |-> {}] /\ acked = [r \in Requests |-> {}]
    /\ overlapped = {}

-----------------------------------------------------------------------------
(* The pool and the session settings.                                      *)

Free(c) == \A r \in Requests : conn[r] # c

\* current_setting('app.tenant_id', true): what the last set_config on the
\* connection left, whether it was is_local or not.
Setting(c) == current[c]

\* mutant: a role that bypasses row-level security
VisibleAll(r, rows) == rows

\* USING of both RLS policies, for statements of request r
Visible(r, rows) == {x \in rows : tenant[x] = Setting(conn[r])}

\* WITH CHECK of both policies, for a row of request r
CheckRow(r) == tenant[r] = Setting(conn[r])

Goto(r, l) == pc' = [pc EXCEPT ![r] = l]

\* mutant: the settings outlive the transaction
ReleaseKeepsSetting(r) ==
    conn' = [conn EXCEPT ![r] = NoConn] /\ UNCHANGED current

\* A transaction is over: what it set with is_local = true falls back to the
\* value of the session and the connection goes back to the pool.
Release(r) ==
    /\ conn' = [conn EXCEPT ![r] = NoConn]
    /\ current' = [c \in Conns |-> IF c = conn[r] THEN session[c] ELSE current[c]]

-----------------------------------------------------------------------------
(* The successful path.                                                    *)

\* A handler of gateway/internal/api/handlers.go calls the database client.
Receive(r) ==
    /\ pc[r] = "idle"
    /\ \E t \in Tenants, o \in Ops :
          /\ op' = [op EXCEPT ![r] = o]
          /\ tenant' = [tenant EXCEPT ![r] = t]
          /\ acked' = [acked EXCEPT ![r] = {q \in Requests : /\ pc[q] = "ok" /\ tenant[q] = t
                                                             /\ op[q] = "transfer"}]
    /\ Goto(r, "waiting")
    /\ UNCHANGED <<connVars, rowVars, idVars, seen, overlapped>>

\* db.Begin(): waits for a connection of the pool.
Begin(r) ==
    /\ pc[r] = "waiting"
    /\ \E c \in Conns : Free(c) /\ conn' = [conn EXCEPT ![r] = c]
    /\ Goto(r, "begun")
    /\ UNCHANGED <<op, tenant, session, current, rowVars, idVars, seen, acked, overlapped>>

\* mutant: the setting is made on a connection of the pool's choice
InjectElsewhere(r) ==
    /\ pc[r] = "begun"
    /\ \E c \in Conns : Free(c) /\ current' = [current EXCEPT ![c] = tenant[r]]
    /\ Goto(r, "ready")
    /\ UNCHANGED <<op, tenant, conn, session, rowVars, idVars, seen, acked, overlapped>>

\* set_config('app.tenant_id', $1, true); set_config('app.audit_secret', $1, true)
InjectContext(r) ==
    /\ pc[r] = "begun"
    /\ current' = [current EXCEPT ![conn[r]] = tenant[r]]
    /\ Goto(r, "ready")
    /\ UNCHANGED <<op, tenant, conn, session, rowVars, idVars, seen, acked, overlapped>>

\* INSERT INTO transactions
InsertTransaction(r) ==
    /\ pc[r] = "ready" /\ op[r] = "transfer"
    /\ CheckRow(r)
    /\ pendTx' = pendTx \cup {r}
    /\ Goto(r, "written")
    /\ UNCHANGED <<op, tenant, connVars, pendLog, txRows, logRows, idVars, seen, acked, overlapped>>

\* mutant: READ UNCOMMITTED
QueryBalanceDirty(r) ==
    /\ pc[r] = "ready" /\ op[r] = "balance"
    /\ seen' = [seen EXCEPT ![r] = Visible(r, txRows \cup pendTx)]
    /\ Goto(r, "written")
    /\ UNCHANGED <<op, tenant, connVars, rowVars, idVars, acked, overlapped>>

\* SELECT COALESCE(SUM(amount), 0) FROM transactions
QueryBalance(r) ==
    /\ pc[r] = "ready" /\ op[r] = "balance"
    /\ seen' = [seen EXCEPT ![r] = Visible(r, txRows)]
    /\ Goto(r, "written")
    /\ UNCHANGED <<op, tenant, connVars, rowVars, idVars, acked, overlapped>>

\* SELECT ... FROM audit_logs ORDER BY id ASC; reading the logs is not logged
QueryLogs(r) ==
    /\ pc[r] = "ready" /\ op[r] = "logs"
    /\ seen' = [seen EXCEPT ![r] = Visible(r, logRows)]
    /\ Goto(r, "logged")
    /\ UNCHANGED <<op, tenant, connVars, rowVars, idVars, acked, overlapped>>

\* A request that has drawn the id of its audit row and may still commit it.
Writing(q) == pc[q] = "drawn" \/ (pc[q] = "logged" /\ q \in pendLog)

\* INSERT INTO audit_logs, first half: the default of the id column is
\* nextval, which is never undone, and is evaluated before the trigger runs.
DrawId(r) ==
    /\ pc[r] = "written"
    /\ id' = [id EXCEPT ![r] = nextId]
    /\ nextId' = nextId + 1
    /\ overlapped' = IF \E q \in Requests \ {r} : Writing(q) /\ tenant[q] = tenant[r]
                     THEN overlapped \cup {tenant[r]} ELSE overlapped
    /\ Goto(r, "drawn")
    /\ UNCHANGED <<op, tenant, connVars, rowVars, prev, seen, acked>>

\* ORDER BY id DESC LIMIT 1 over rows, or the genesis hash
LastHash(h, rows) ==
    \/ rows = {} /\ h = Genesis
    \/ \E x \in rows : h = id[x] /\ \A y \in rows : id[y] <= id[x]

\* mutant: the trigger function is SECURITY DEFINER and sees all tenants
ChainRowsAllTenants(r) == logRows

\* mutant: only transfers are linked
ChainRowsTransfers(r) == Visible(r, logRows \cap txRows)

\* The trigger's SELECT runs with the rights and settings of the inserting
\* session: it sees the committed rows of the session's tenant.
ChainRows(r) == Visible(r, logRows)

\* Second half: hash_audit_record reads the last block_hash the inserting
\* session can see, and the row is checked against the policy.
HashAuditRecord(r) ==
    /\ pc[r] = "drawn"
    /\ Setting(conn[r]) # NoTenant           \* audit_secret is present
    /\ \E h \in {Genesis} \cup {id[x] : x \in logRows} :
          /\ LastHash(h, ChainRows(r))
          /\ prev' = [prev EXCEPT ![r] = h]
    /\ CheckRow(r)
    /\ pendLog' = pendLog \cup {r}
    /\ Goto(r, "logged")
    /\ UNCHANGED <<op, tenant, connVars, pendTx, txRows, logRows, nextId, id, seen, acked, overlapped>>

\* mutant: the transaction row is lost
ApplyLogOnly(r) ==
    /\ logRows' = logRows \cup (pendLog \cap {r})
    /\ pendTx' = pendTx \ {r} /\ pendLog' = pendLog \ {r}
    /\ UNCHANGED txRows

\* What COMMIT does to the tables.
Apply(r) ==
    /\ txRows' = txRows \cup (pendTx \cap {r})
    /\ logRows' = logRows \cup (pendLog \cap {r})
    /\ pendTx' = pendTx \ {r}
    /\ pendLog' = pendLog \ {r}

\* What ROLLBACK, or the loss of the connection, does to them.
Discard(R) ==
    /\ pendTx' = pendTx \ R
    /\ pendLog' = pendLog \ R
    /\ UNCHANGED <<txRows, logRows>>

\* tx.Commit() succeeds; tx = nil
Commit(r) ==
    /\ pc[r] = "logged"
    /\ Apply(r)
    /\ Release(r)
    /\ Goto(r, "committed")
    /\ UNCHANGED <<op, tenant, session, idVars, seen, acked, overlapped>>

\* set_config('app.tenant_id', '', false): replaces the value of the session
\* and also a local one made earlier on that connection.
ResetOn(c) ==
    /\ session' = [session EXCEPT ![c] = NoTenant]
    /\ current' = [current EXCEPT ![c] = NoTenant]

\* mutant: the reset is sent on any connection, used or not
ResetAny == \E c \in Conns : ResetOn(c)

\* db.Exec of the reset: on whichever connection the pool hands out.
ResetSome == \E c \in Conns : Free(c) /\ ResetOn(c)

\* The reset after a successful commit, then the return to the handler.
ResetAndReturn(r) ==
    /\ pc[r] = "committed"
    /\ ResetSome
    /\ Goto(r, "ok")
    /\ UNCHANGED <<op, tenant, conn, rowVars, idVars, seen, acked, overlapped>>

-----------------------------------------------------------------------------
(* The error paths.                                                        *)

\* db.Begin() fails: nothing to clean up.
BeginFails(r) ==
    /\ pc[r] = "waiting"
    /\ Goto(r, "error")
    /\ UNCHANGED <<op, tenant, connVars, rowVars, idVars, seen, acked, overlapped>>

\* A statement fails: the error return starts the deferred function while
\* the transaction still holds its connection.
StatementFails(r) ==
    /\ pc[r] \in {"begun"} \cup InTx
    /\ Goto(r, "failing")
    /\ UNCHANGED <<op, tenant, connVars, rowVars, idVars, seen, acked, overlapped>>

\* tx.Commit() returns an error: database/sql gives the connection up in
\* any case; whether the server applied the commit is unknown.
CommitFails(r) ==
    /\ pc[r] = "logged"
    /\ Apply(r) \/ Discard({r})
    /\ Release(r)
    /\ Goto(r, "failing")
    /\ UNCHANGED <<op, tenant, session, idVars, seen, acked, overlapped>>

\* mutant: the reset is repeated for ever
DeferredResetAgain(r) ==
    /\ pc[r] = "failing"
    /\ ResetSome
    /\ UNCHANGED <<pc, op, tenant, conn, rowVars, idVars, seen, acked, overlapped>>

\* The deferred function, first statement: a db.Exec, which needs a
\* connection of its own.
DeferredReset(r) ==
    /\ pc[r] = "failing"
    /\ ResetSome
    /\ Goto(r, "resetDone")
    /\ UNCHANGED <<op, tenant, conn, rowVars, idVars, seen, acked, overlapped>>

\* Second statement: tx.Rollback(), a no-op if the transaction is done.
Rollback(r) ==
    /\ pc[r] = "resetDone"
    /\ Discard({r})
    /\ Release(r)
    /\ Goto(r, "error")
    /\ UNCHANGED <<op, tenant, session, idVars, seen, acked, overlapped>>

\* The gateway process dies: PostgreSQL rolls back what was open, and the
\* new process starts with new connections.
Crash ==
    LET lost == {r \in Requests : pc[r] \notin Final \cup {"idle"}} IN
    /\ lost # {}
    /\ pc' = [r \in Requests |-> IF r \in lost THEN "lost" ELSE pc[r]]
    /\ Discard(lost)
    /\ conn' = [r \in Requests |-> NoConn]
    /\ session' = [c \in Conns |-> NoTenant]
    /\ current' = [c \in Conns |-> NoTenant]
    /\ UNCHANGED <<op, tenant, idVars, seen, acked, overlapped>>

-----------------------------------------------------------------------------
Work(r) ==
    \/ Begin(r) \/ InjectContext(r)
    \/ InsertTransaction(r) \/ QueryBalance(r) \/ QueryLogs(r)
    \/ DrawId(r) \/ HashAuditRecord(r)
    \/ Commit(r) \/ ResetAndReturn(r)
    \/ DeferredReset(r) \/ Rollback(r)

Faults(r) == BeginFails(r) \/ StatementFails(r) \/ CommitFails(r)

Next == (\E r \in Requests : Receive(r) \/ Work(r) \/ Faults(r)) \/ Crash

Spec == Init /\ [][Next]_vars

\* The server executes statements, and the pool serves whoever waits as long
\* as some connection comes back.  Nothing makes requests arrive or fail.
FairSpec == Spec /\ \A r \in Requests : WF_vars(Work(r))

-----------------------------------------------------------------------------
(* A valid chain, as dashboard/src/app/api/verify-chain/route.ts checks    *)
(* it: rows sorted by id, the first one starts from the genesis hash and   *)
(* every other one from the block_hash of the row before it.               *)
IsValid(rows) ==
    \A x \in rows : LastHash(prev[x], {y \in rows : id[y] < id[x]})

RowsOf(t) == {x \in logRows : tenant[x] = t}

-----------------------------------------------------------------------------
(* Properties.                                                             *)

\* The variables have the values the code and the schema give them.
TypeOK ==
    /\ pc \in [Requests -> {"idle", "waiting", "begun", "committed", "failing", "resetDone"}
                               \cup InTx \cup Final]
    /\ op \in [Requests -> Ops]
    /\ tenant \in [Requests -> Tenants \cup {NoTenant}]
    /\ conn \in [Requests -> Conns \cup {NoConn}]
    /\ session \in [Conns -> Tenants \cup {NoTenant}]
    /\ current \in [Conns -> Tenants \cup {NoTenant}]
    /\ pendTx \subseteq Requests /\ pendLog \subseteq Requests
    /\ txRows \subseteq Requests /\ logRows \subseteq Requests
    /\ nextId \in Nat
    /\ id \in [Requests -> Nat] /\ prev \in [Requests -> Nat]
    /\ seen \in [Requests -> SUBSET Requests]
    /\ acked \in [Requests -> SUBSET Requests]
    /\ overlapped \subseteq Tenants

\* No query returns a row of another tenant, whatever connection it ran on
\* and whatever ran on that connection before: set_config and the RLS
\* policies work together across the shared pool.
TenantIsolation ==
    \A r \in Requests : \A x \in seen[r] : tenant[x] = tenant[r]

\* A connection in the pool carries nobody's tenant context or audit secret.
IdleConnectionClean == \A c \in Conns : Free(c) => Setting(c) = NoTenant

\* Two requests never share a connection, and the reset of one, after its
\* commit or in its deferred cleanup, never hits the connection on which
\* another one is working: inside a transaction the setting stays the tenant
\* of the request.
ContextHeld ==
    \A r \in Requests : pc[r] \in InTx =>
        /\ Setting(conn[r]) = tenant[r]
        /\ \A q \in Requests \ {r} : conn[q] # conn[r]

\* A transaction is committed exactly when its audit record is, and a
\* confirmed operation other than reading the log is on record.
AuditedTogether ==
    \A r \in Requests :
        /\ r \in txRows <=> r \in logRows /\ op[r] = "transfer"
        /\ pc[r] = "ok" /\ op[r] # "logs" => r \in logRows

\* The balance a request is given counts every transfer that its tenant had
\* seen confirmed before asking.
BalanceCountsConfirmed ==
    \A r \in Requests : pc[r] = "ok" /\ op[r] = "balance" => acked[r] \subseteq seen[r]

\* Every audit record continues a committed record of its own tenant (or
\* starts the chain): never one of another tenant, never one that was rolled
\* back, and never itself.
ChainStaysInTenant ==
    \A r \in logRows : prev[r] # Genesis =>
        \E x \in logRows \ {r} : tenant[x] = tenant[r] /\ id[x] = prev[r]

\* A tenant's records form one chain in id order as long as no two of its
\* audit inserts overlapped in time.
ChainValidUnlessOverlapped == \A t \in Tenants \ overlapped : IsValid(RowsOf(t))

\* What is committed stays: no record is removed or rewritten by a rollback,
\* a commit whose answer was lost, a crash, or another request.
CommittedStays ==
    [][/\ txRows \subseteq txRows' /\ logRows \subseteq logRows'
       /\ \A r \in logRows : id'[r] = id[r] /\ prev'[r] = prev[r] /\ tenant'[r] = tenant[r]]_vars

\* How far a request has come, for its caller.
Stage ==
    [r \in Requests |->
        CASE pc[r] = "idle" -> "new"
          [] pc[r] \in {"waiting", "begun", "ready"} -> "asked"
          [] pc[r] \in {"written", "drawn", "logged"} ->
                IF op[r] = "transfer" THEN "asked" ELSE "read"
          [] pc[r] = "committed" -> "done"
          [] pc[r] = "ok" -> "ok"
          [] OTHER -> "failed"]

Ledger == INSTANCE AuditedLedger
    WITH Calls <- Requests, stage <- Stage, kind <- op, owner <- tenant,
         tx <- txRows, log <- logRows, view <- seen

\* Seen from outside, an operation and its audit record are one step at one
\* moment, and a query returns exactly what its tenant owned at one moment,
\* although each is several statements on a shared connection, any of which
\* may fail and between any of which the process may die.
ImplementsLedger == Ledger!Spec

\* The requests that are inside a call of the database client.
Open == {r \in Requests : pc[r] \notin Final \cup {"idle"}}

\* The next step needs a connection of the pool: db.Begin, or a db.Exec.
NeedsConn(r) == pc[r] \in {"waiting", "committed", "failing"}

Exhausted == \A c \in Conns : ~Free(c)

\* The next step of r has everything it needs: the policies let the row in,
\* the trigger finds its secret and the record to continue, the pool has a
\* connection.
Ready(r) ==
    /\ NeedsConn(r) => ~Exhausted
    /\ pc[r] = "ready" /\ op[r] = "transfer" => CheckRow(r)
    /\ pc[r] = "drawn" => /\ Setting(conn[r]) # NoTenant /\ CheckRow(r)
                          /\ \E h \in {Genesis} \cup {id[x] : x \in logRows} :
                                LastHash(h, ChainRows(r))

\* Every connection is held by a call whose deferred function waits for one.
Blocked == \A c \in Conns : \E r \in Requests : conn[r] = c /\ pc[r] = "failing"

\* A call in db.go waits for nothing but a connection of an exhausted pool,
\* and while the pool is exhausted some holder can go on, unless every
\* connection is held by a failing call: policies, trigger and settings
\* never leave a call without its next step.
OnlyPoolBlocks ==
    /\ \A r \in Open : Ready(r) \/ (NeedsConn(r) /\ Exhausted)
    /\ Exhausted /\ ~Blocked => \E r \in Open : conn[r] # NoConn /\ Ready(r)

\* While fewer calls are under way than the pool has connections, every one
\* of them has its next step, however many of them are failing.
EnoughConnections ==
    IsFiniteSet(Open) /\ IsFiniteSet(Conns) /\ Cardinality(Open) < Cardinality(Conns) =>
        \A r \in Open : Ready(r)

\* Once all connections are held by failing calls nothing frees one: no
\* step but the end of the process leads out.
BlockedUntilRestart == [][Blocked => Blocked' \/ Crash]_vars

\* Every request that reaches the database client is answered.
EveryRequestAnswered == \A r \in Requests : pc[r] = "waiting" ~> pc[r] \in Final

-----------------------------------------------------------------------------
(* What the documentation says of the ledger, and the code does not keep.  *)

\* Every tenant owns one chain in which record N continues record N - 1.
TenantChainValid == \A t \in Tenants : IsValid(RowsOf(t))
=============================================================================
