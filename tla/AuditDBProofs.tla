---------------------------- MODULE AuditDBProofs ----------------------------
(***************************************************************************)
(* Theorems about the data layer, for any sets of requests, tenants and    *)
(* connections.  The invariant is built in layers, each of which uses the  *)
(* ones below it: types, the connection pool and the session settings,     *)
(* the rows of the two tables, and the hash chain.                         *)
(***************************************************************************)
EXTENDS AuditDB, FiniteSetTheorems, WellFoundedInduction, TLAPS

\* A request that has come in has a tenant.
TenantKnown == \A r \in Requests : pc[r] # "idle" => tenant[r] \in Tenants

Typed == TypeOK /\ TenantKnown

-----------------------------------------------------------------------------
\* TypeOK, strengthened by the tenant that Receive gives every request.
LEMMA TypedInvariant == Spec => []Typed
<1>1. Init => Typed
  BY DEF Init, Typed, TypeOK, TenantKnown, Ops, Genesis, InTx, Final
<1>2. Typed /\ [Next]_vars => Typed'
  <2> SUFFICES ASSUME Typed, [Next]_vars PROVE Typed'
    OBVIOUS
  <2> USE DEF Typed, TypeOK, TenantKnown, connVars, rowVars, idVars, Goto, InTx, Final
  <2>1. ASSUME NEW r \in Requests, Receive(r) PROVE Typed'
    BY <2>1 DEF Receive
  <2>2. ASSUME NEW r \in Requests, Work(r) PROVE Typed'
    <3>1. CASE Begin(r)
      BY <3>1 DEF Begin
    <3>2. CASE InjectContext(r)
      BY <3>2 DEF InjectContext
    <3>3. CASE InsertTransaction(r)
      BY <3>3 DEF InsertTransaction
    <3>4. CASE QueryBalance(r)
      BY <3>4 DEF QueryBalance, Visible
    <3>5. CASE QueryLogs(r)
      BY <3>5 DEF QueryLogs, Visible
    <3>6. CASE DrawId(r)
      <4>1. overlapped' \subseteq Tenants
        BY <3>6 DEF DrawId
      <4> QED
        BY <3>6, <4>1 DEF DrawId
    <3>7. CASE HashAuditRecord(r)
      BY <3>7 DEF HashAuditRecord, Genesis
    <3>8. CASE Commit(r)
      BY <3>8 DEF Commit, Apply, Release
    <3>9. CASE ResetAndReturn(r)
      BY <3>9 DEF ResetAndReturn, ResetSome, ResetOn
    <3>10. CASE DeferredReset(r)
      BY <3>10 DEF DeferredReset, ResetSome, ResetOn
    <3>11. CASE Rollback(r)
      BY <3>11 DEF Rollback, Discard, Release
    <3> QED
      BY <2>2, <3>1, <3>2, <3>3, <3>4, <3>5, <3>6, <3>7, <3>8, <3>9, <3>10, <3>11 DEF Work
  <2>3. ASSUME NEW r \in Requests, Faults(r) PROVE Typed'
    BY <2>3 DEF Faults, BeginFails, StatementFails, CommitFails, Apply, Discard, Release
  <2>4. CASE Crash
    BY <2>4 DEF Crash, Discard
  <2>5. CASE UNCHANGED vars
    BY <2>5 DEF vars
  <2> QED
    BY <2>1, <2>2, <2>3, <2>4, <2>5 DEF Next
<1> QED
  BY <1>1, <1>2, PTL DEF Spec

(* Type correctness: every step of db.go and of the triggers keeps the      *)
(* variables within their types.                                            *)
THEOREM TypeCorrect == Spec => []TypeOK
  BY TypedInvariant, PTL DEF Typed

-----------------------------------------------------------------------------
(* The pool and the settings of its connections.                           *)

Holding == {"begun", "failing", "resetDone"} \cup InTx

HoldersOK ==
    /\ \A r \in Requests : conn[r] # NoConn => pc[r] \in Holding
    /\ \A r \in Requests : pc[r] \in {"begun"} \cup InTx => conn[r] \in Conns
    /\ \A r, q \in Requests : conn[r] # NoConn /\ conn[r] = conn[q] => r = q

SettingsOK ==
    /\ \A c \in Conns : session[c] = NoTenant
    /\ \A c \in Conns : Free(c) => current[c] = NoTenant
    /\ \A r \in Requests : pc[r] \in InTx => current[conn[r]] = tenant[r]

PoolInv == Typed /\ HoldersOK /\ SettingsOK

\* The steps of a healthy or failing call of db.go keep the pool in order.
LEMMA PoolWork ==
    ASSUME PoolInv, Typed', NEW r \in Requests, Work(r)
    PROVE  HoldersOK' /\ SettingsOK'
<1> USE DistinctAssumption
    DEF PoolInv, Typed, TypeOK, TenantKnown, HoldersOK, SettingsOK, Holding, InTx,
        Goto, Free, connVars
<1>1. CASE Begin(r)
  <2>1. PICK c \in Conns : Free(c) /\ conn' = [conn EXCEPT ![r] = c]
    BY <1>1 DEF Begin
  <2>2. HoldersOK'
    BY <1>1, <2>1 DEF Begin
  <2>3. SettingsOK'
    <3>1. \A d \in Conns : Free(d)' => Free(d)
      BY <1>1, <2>1 DEF Begin
    <3> QED
      BY <1>1, <2>1, <3>1 DEF Begin
  <2> QED
    BY <2>2, <2>3
<1>2. CASE InjectContext(r)
  <2>1. HoldersOK'
    BY <1>2 DEF InjectContext
  <2>2. conn[r] \in Conns /\ ~Free(conn[r])
    BY <1>2 DEF InjectContext
  <2>3. SettingsOK'
    BY <1>2, <2>2 DEF InjectContext
  <2> QED
    BY <2>1, <2>3
<1>3. CASE InsertTransaction(r) \/ QueryBalance(r) \/ QueryLogs(r) \/ DrawId(r)
           \/ HashAuditRecord(r)
  <2>1. /\ pc[r] \in InTx /\ pc'[r] \in InTx
        /\ \A q \in Requests \ {r} : pc'[q] = pc[q]
        /\ UNCHANGED <<tenant, connVars>>
    BY <1>3 DEF InsertTransaction, QueryBalance, QueryLogs, DrawId, HashAuditRecord
  <2> QED
    BY <2>1
<1>4. CASE Commit(r) \/ Rollback(r)
  <2>1. /\ Release(r) /\ pc'[r] \notin Holding
        /\ \A q \in Requests \ {r} : pc'[q] = pc[q]
        /\ UNCHANGED <<tenant, session>>
    BY <1>4 DEF Commit, Rollback
  <2>2. HoldersOK'
    BY <2>1 DEF Release
  <2>3. SettingsOK'
    <3>1. \A c \in Conns : Free(c)' => Free(c) \/ c = conn[r]
      BY <2>1 DEF Release
    <3>2. \A q \in Requests : pc'[q] \in InTx => q # r /\ conn[q] # conn[r]
      BY <2>1
    <3> QED
      BY <2>1, <3>1, <3>2 DEF Release
  <2> QED
    BY <2>2, <2>3
<1>5. CASE ResetAndReturn(r) \/ DeferredReset(r)
  <2>1. /\ ResetSome /\ UNCHANGED <<tenant, conn>>
        /\ \A q \in Requests \ {r} : pc'[q] = pc[q]
        /\ \/ pc[r] = "committed" /\ pc'[r] = "ok"
           \/ pc[r] = "failing" /\ pc'[r] = "resetDone"
    BY <1>5 DEF ResetAndReturn, DeferredReset
  <2> QED
    BY <2>1 DEF ResetSome, ResetOn
<1> QED
  BY <1>1, <1>2, <1>3, <1>4, <1>5 DEF Work

\* A failing Begin, statement or Commit keeps the pool in order.
LEMMA PoolFaults ==
    ASSUME PoolInv, Typed', NEW r \in Requests, Faults(r)
    PROVE  HoldersOK' /\ SettingsOK'
<1> USE DistinctAssumption
    DEF PoolInv, Typed, TypeOK, TenantKnown, HoldersOK, SettingsOK, Holding, InTx,
        Goto, Free, connVars
<1>1. CASE BeginFails(r) \/ StatementFails(r)
  BY <1>1 DEF BeginFails, StatementFails
<1>2. CASE CommitFails(r)
  <2>1. /\ Release(r) /\ pc'[r] = "failing"
        /\ \A q \in Requests \ {r} : pc'[q] = pc[q]
        /\ UNCHANGED <<tenant, session>>
    BY <1>2 DEF CommitFails
  <2>2. HoldersOK'
    BY <2>1 DEF Release
  <2>3. SettingsOK'
    <3>1. \A c \in Conns : Free(c)' => Free(c) \/ c = conn[r]
      BY <2>1 DEF Release
    <3>2. \A q \in Requests : pc'[q] \in InTx => q # r /\ conn[q] # conn[r]
      BY <2>1
    <3> QED
      BY <2>1, <3>1, <3>2 DEF Release
  <2> QED
    BY <2>2, <2>3
<1> QED
  BY <1>1, <1>2 DEF Faults

\* Connections have one holder each and carry its tenant only while it works.
LEMMA PoolInvariant == Spec => []PoolInv
<1>1. Init => HoldersOK /\ SettingsOK
  BY DistinctAssumption DEF Init, HoldersOK, SettingsOK, Holding, InTx, Free
<1>2. PoolInv /\ Typed' /\ [Next]_vars => HoldersOK' /\ SettingsOK'
  <2> SUFFICES ASSUME PoolInv, Typed', [Next]_vars PROVE HoldersOK' /\ SettingsOK'
    OBVIOUS
  <2>1. ASSUME NEW r \in Requests, Receive(r) PROVE HoldersOK' /\ SettingsOK'
    BY <2>1 DEF Receive, PoolInv, Typed, TypeOK, HoldersOK, SettingsOK, Holding, InTx,
       Goto, Free, connVars
  <2>2. CASE Crash
    BY <2>2, DistinctAssumption DEF Crash, PoolInv, Typed, TypeOK, HoldersOK, SettingsOK,
       Holding, InTx, Final, Free
  <2>3. CASE UNCHANGED vars
    BY <2>3 DEF vars, connVars, PoolInv, HoldersOK, SettingsOK, Free
  <2> QED
    BY <2>1, <2>2, <2>3, PoolWork, PoolFaults DEF Next
<1> QED
  BY <1>1, <1>2, TypedInvariant, PTL DEF Spec, PoolInv

(* The pool hands out clean connections: the settings made with is_local    *)
(* are gone when a connection is free, on every path through db.go.         *)
THEOREM ConnectionsClean == Spec => []IdleConnectionClean
<1>1. PoolInv => IdleConnectionClean
  BY DEF PoolInv, SettingsOK, IdleConnectionClean, Setting
<1> QED
  BY <1>1, PoolInvariant, PTL

(* Inside a transaction the setting is the tenant of its own request, and   *)
(* no cleanup of another request reaches that connection.                   *)
THEOREM ContextKept == Spec => []ContextHeld
<1>1. PoolInv => ContextHeld
  <2> SUFFICES ASSUME PoolInv, NEW r \in Requests, pc[r] \in InTx
               PROVE  /\ Setting(conn[r]) = tenant[r]
                      /\ \A q \in Requests \ {r} : conn[q] # conn[r]
    BY DEF ContextHeld
  <2>1. conn[r] \in Conns /\ tenant[r] \in Tenants
    BY DEF PoolInv, HoldersOK, Typed, TenantKnown, InTx
  <2> QED
    BY <2>1, DistinctAssumption DEF PoolInv, HoldersOK, SettingsOK, Setting
<1> QED
  BY <1>1, PoolInvariant, PTL

-----------------------------------------------------------------------------
(* What queries return.                                                    *)

\* Rows and results belong to requests that have come in.
ReadsOK ==
    /\ \A x \in txRows \cup logRows \cup pendTx \cup pendLog : pc[x] # "idle"
    /\ \A r \in Requests : \A x \in seen[r] : pc[x] # "idle" /\ tenant[x] = tenant[r]
    /\ \A r \in Requests : pc[r] = "idle" => seen[r] = {}

\* A query sees rows of its own tenant only.
LEMMA VisibleIsOwn ==
    ASSUME ContextHeld, NEW r \in Requests, pc[r] \in InTx, NEW rows
    PROVE  Visible(r, rows) = {x \in rows : tenant[x] = tenant[r]}
  BY DEF ContextHeld, Visible

\* What the queries of db.go have returned belongs to the tenant that asked.
LEMMA ReadsInvariant == Spec => []ReadsOK
<1>1. Init => ReadsOK
  BY DEF Init, ReadsOK
<1>2. ReadsOK /\ Typed /\ ContextHeld /\ [Next]_vars => ReadsOK'
  <2> SUFFICES ASSUME ReadsOK, Typed, ContextHeld, [Next]_vars PROVE ReadsOK'
    OBVIOUS
  <2> USE DEF ReadsOK, Typed, TypeOK, Goto, rowVars
  <2>1. ASSUME NEW r \in Requests, Receive(r) PROVE ReadsOK'
    BY <2>1 DEF Receive
  <2>2. ASSUME NEW r \in Requests, Work(r) PROVE ReadsOK'
    <3>1. CASE QueryBalance(r)
      <4>1. Visible(r, txRows) = {x \in txRows : tenant[x] = tenant[r]}
        BY <3>1, VisibleIsOwn DEF QueryBalance, InTx
      <4> QED
        BY <3>1, <4>1 DEF QueryBalance
    <3>2. CASE QueryLogs(r)
      <4>1. Visible(r, logRows) = {x \in logRows : tenant[x] = tenant[r]}
        BY <3>2, VisibleIsOwn DEF QueryLogs, InTx
      <4> QED
        BY <3>2, <4>1 DEF QueryLogs
    <3>3. CASE Begin(r) \/ InjectContext(r) \/ DrawId(r) \/ ResetAndReturn(r) \/ DeferredReset(r)
      BY <3>3 DEF Begin, InjectContext, DrawId, ResetAndReturn, DeferredReset
    <3>4. CASE InsertTransaction(r) \/ HashAuditRecord(r)
      BY <3>4 DEF InsertTransaction, HashAuditRecord
    <3>5. CASE Commit(r) \/ Rollback(r)
      BY <3>5 DEF Commit, Rollback, Apply, Discard
    <3> QED
      BY <2>2, <3>1, <3>2, <3>3, <3>4, <3>5 DEF Work
  <2>3. ASSUME NEW r \in Requests, Faults(r) PROVE ReadsOK'
    BY <2>3 DEF Faults, BeginFails, StatementFails, CommitFails, Apply, Discard, InTx
  <2>4. CASE Crash
    BY <2>4 DEF Crash, Discard
  <2>5. CASE UNCHANGED vars
    BY <2>5 DEF vars
  <2> QED
    BY <2>1, <2>2, <2>3, <2>4, <2>5 DEF Next
<1> QED
  BY <1>1, <1>2, TypedInvariant, ContextKept, PTL DEF Spec

(* Tenant isolation: no query of GetBalance or GetAuditLogs returns a row   *)
(* of another tenant, for any number of requests sharing any pool.          *)
THEOREM Isolation == Spec => []TenantIsolation
<1>1. ReadsOK => TenantIsolation
  BY DEF ReadsOK, TenantIsolation
<1> QED
  BY <1>1, ReadsInvariant, PTL

-----------------------------------------------------------------------------
(* The rows of the two tables.                                             *)

\* Where a request with uncommitted rows can be, and what it has by then.
PendingOK ==
    \A r \in Requests :
        /\ r \in pendTx => /\ op[r] = "transfer" /\ r \notin txRows \cup logRows
                          /\ pc[r] \in {"written", "drawn", "logged", "failing", "resetDone"}
        /\ r \in pendLog => /\ op[r] # "logs" /\ r \notin txRows \cup logRows
                           /\ pc[r] \in {"logged", "failing", "resetDone"}
        /\ pc[r] \in {"written", "drawn"} => op[r] # "logs"
        /\ pc[r] \in {"written", "drawn", "logged"} /\ op[r] = "transfer" => r \in pendTx
        /\ pc[r] = "logged" /\ op[r] # "logs" => r \in pendLog

\* A request in the middle of its transaction has nothing committed.
CommittedOK ==
    \A r \in Requests :
        /\ r \in txRows \cup logRows =>
               pc[r] \in {"committed", "failing", "resetDone"} \cup Final
        /\ pc[r] = "committed" /\ op[r] # "logs" => r \in logRows

RowsInv == Typed /\ PendingOK /\ CommittedOK /\ AuditedTogether

\* Rows of the two tables are written and committed in pairs.
LEMMA RowsInvariant == Spec => []RowsInv
<1> USE DEF RowsInv, PendingOK, CommittedOK, AuditedTogether
<1>1. Init => PendingOK /\ CommittedOK /\ AuditedTogether
  BY DEF Init
<1>2. RowsInv /\ Typed' /\ [Next]_vars => PendingOK' /\ CommittedOK' /\ AuditedTogether'
  <2> SUFFICES ASSUME RowsInv, Typed', [Next]_vars
               PROVE  PendingOK' /\ CommittedOK' /\ AuditedTogether'
    OBVIOUS
  <2> USE DEF Typed, TypeOK, Goto, rowVars, Final, InTx, Ops
  <2>1. ASSUME NEW r \in Requests, Receive(r) PROVE PendingOK' /\ CommittedOK' /\ AuditedTogether'
    <3>1. PendingOK'
      BY <2>1 DEF Receive
    <3>2. CommittedOK' /\ AuditedTogether'
      BY <2>1 DEF Receive
    <3> QED
      BY <3>1, <3>2
  <2>2. ASSUME NEW r \in Requests, Work(r) PROVE PendingOK' /\ CommittedOK' /\ AuditedTogether'
    <3>1. CASE Begin(r) \/ InjectContext(r) \/ QueryBalance(r) \/ QueryLogs(r)
      BY <3>1 DEF Begin, InjectContext, QueryBalance, QueryLogs
    <3>2. CASE InsertTransaction(r)
      BY <3>2 DEF InsertTransaction
    <3>3. CASE DrawId(r)
      BY <3>3 DEF DrawId
    <3>4. CASE HashAuditRecord(r)
      BY <3>4 DEF HashAuditRecord
    <3>5. CASE Commit(r)
      BY <3>5 DEF Commit, Apply
    <3>6. CASE ResetAndReturn(r) \/ DeferredReset(r)
      BY <3>6 DEF ResetAndReturn, DeferredReset
    <3>7. CASE Rollback(r)
      BY <3>7 DEF Rollback, Discard
    <3> QED
      BY <2>2, <3>1, <3>2, <3>3, <3>4, <3>5, <3>6, <3>7 DEF Work
  <2>3. ASSUME NEW r \in Requests, Faults(r) PROVE PendingOK' /\ CommittedOK' /\ AuditedTogether'
    <3>1. CASE BeginFails(r) \/ StatementFails(r)
      BY <2>3, <3>1 DEF BeginFails, StatementFails
    <3>2. CASE CommitFails(r) /\ Apply(r)
      BY <3>2 DEF CommitFails, Apply
    <3>3. CASE CommitFails(r) /\ Discard({r})
      BY <3>3 DEF CommitFails, Discard
    <3> QED
      BY <2>3, <3>1, <3>2, <3>3 DEF Faults, CommitFails
  <2>4. CASE Crash
    BY <2>4 DEF Crash, Discard
  <2>5. CASE UNCHANGED vars
    BY <2>5 DEF vars
  <2> QED
    BY <2>1, <2>2, <2>3, <2>4, <2>5 DEF Next
<1> QED
  BY <1>1, <1>2, TypedInvariant, PTL DEF Spec

(* A transaction and its audit record are committed together, and every     *)
(* confirmed transfer and balance query is on record, through failed        *)
(* statements, commits with lost answers and crashes.                       *)
THEOREM AuditComplete == Spec => []AuditedTogether
<1>1. RowsInv => AuditedTogether
  BY DEF RowsInv
<1> QED
  BY <1>1, RowsInvariant, PTL

(* What is committed stays committed and unchanged, whatever fails later:   *)
(* the WORM property as the gateway can observe it.                         *)
THEOREM CommitsAreFinal == Spec => CommittedStays
<1> DEFINE Stays == /\ txRows \subseteq txRows' /\ logRows \subseteq logRows'
                    /\ \A r \in logRows : id'[r] = id[r] /\ prev'[r] = prev[r] /\ tenant'[r] = tenant[r]
<1>1. RowsInv /\ [Next]_vars => [Stays]_vars
  <2> SUFFICES ASSUME RowsInv, Next PROVE Stays
    OBVIOUS
  <2> USE DEF RowsInv, CommittedOK, Typed, TypeOK, Final, rowVars, idVars
  <2>1. ASSUME NEW r \in Requests, Receive(r) PROVE Stays
    BY <2>1 DEF Receive
  <2>2. ASSUME NEW r \in Requests, Work(r) PROVE Stays
    <3>1. CASE DrawId(r) \/ HashAuditRecord(r)
      BY <3>1 DEF DrawId, HashAuditRecord
    <3>2. CASE Commit(r) \/ Rollback(r)
      BY <3>2 DEF Commit, Rollback, Apply, Discard
    <3> QED
      BY <2>2, <3>1, <3>2 DEF Work, Begin, InjectContext, InsertTransaction, QueryBalance,
         QueryLogs, ResetAndReturn, DeferredReset
  <2>3. ASSUME NEW r \in Requests, Faults(r) PROVE Stays
    BY <2>3 DEF Faults, BeginFails, StatementFails, CommitFails, Apply, Discard
  <2>4. CASE Crash
    BY <2>4 DEF Crash, Discard
  <2> QED
    BY <2>1, <2>2, <2>3, <2>4 DEF Next
<1> QED
  BY <1>1, RowsInvariant, PTL DEF Spec, CommittedStays

-----------------------------------------------------------------------------
(* The hash chain.                                                         *)

\* Ids are drawn from the sequence and never reused.
IdsOK ==
    /\ nextId >= 1
    /\ \A r \in Requests : id[r] < nextId
    /\ \A r \in Requests : pc[r] = "drawn" \/ r \in pendLog \cup logRows => id[r] >= 1
    /\ \A r, q \in Requests : id[r] = id[q] /\ id[r] # 0 => r = q

\* The link of a row, committed or not, leads to a committed row of its tenant.
LinksOK ==
    \A r \in logRows \cup pendLog : prev[r] # Genesis =>
        \E x \in logRows \ {r} : tenant[x] = tenant[r] /\ id[x] = prev[r]

ChainLinks == Typed /\ IdsOK /\ LinksOK

\* The links made by hash_audit_record, of committed and of pending rows.
LEMMA LinksInvariant == Spec => []ChainLinks
<1> USE DEF ChainLinks, IdsOK, LinksOK, Genesis
<1>1. Init => IdsOK /\ LinksOK
  BY DEF Init
<1>2. ChainLinks /\ RowsInv /\ ReadsOK /\ ContextHeld /\ Typed' /\ [Next]_vars
          => IdsOK' /\ LinksOK'
  <2> SUFFICES ASSUME ChainLinks, RowsInv, ReadsOK, ContextHeld, Typed', [Next]_vars
               PROVE  IdsOK' /\ LinksOK'
    OBVIOUS
  <2> USE DEF Typed, TypeOK, Goto, rowVars, idVars
  <2>1. ASSUME NEW r \in Requests, Receive(r) PROVE IdsOK' /\ LinksOK'
    BY <2>1 DEF Receive, ReadsOK
  <2>2. ASSUME NEW r \in Requests, Work(r) PROVE IdsOK' /\ LinksOK'
    <3>1. CASE Begin(r) \/ InjectContext(r) \/ QueryBalance(r) \/ QueryLogs(r)
               \/ InsertTransaction(r) \/ ResetAndReturn(r) \/ DeferredReset(r)
      BY <3>1 DEF Begin, InjectContext, QueryBalance, QueryLogs, InsertTransaction,
         ResetAndReturn, DeferredReset
    <3>2. CASE DrawId(r)
      <4>1. r \notin logRows \cup pendLog
        BY <3>2 DEF DrawId, RowsInv, PendingOK, CommittedOK, Final
      <4>2. IdsOK'
        BY <3>2, <4>1 DEF DrawId
      <4>3. LinksOK'
        BY <3>2, <4>1 DEF DrawId
      <4> QED
        BY <4>2, <4>3
    <3>3. CASE HashAuditRecord(r)
      <4>1. r \notin logRows \cup pendLog
        BY <3>3 DEF HashAuditRecord, RowsInv, PendingOK, CommittedOK, Final
      <4>2. IdsOK'
        BY <3>3 DEF HashAuditRecord
      <4>3. Visible(r, logRows) = {x \in logRows : tenant[x] = tenant[r]}
        BY <3>3, VisibleIsOwn DEF HashAuditRecord, InTx
      <4>4. prev'[r] # Genesis => \E x \in logRows : tenant[x] = tenant[r] /\ id[x] = prev'[r]
        BY <3>3, <4>3 DEF HashAuditRecord, ChainRows, LastHash
      <4>5. LinksOK'
        BY <3>3, <4>1, <4>4 DEF HashAuditRecord
      <4> QED
        BY <4>2, <4>5
    <3>4. CASE Commit(r)
      BY <3>4 DEF Commit, Apply
    <3>5. CASE Rollback(r)
      BY <3>5 DEF Rollback, Discard
    <3> QED
      BY <2>2, <3>1, <3>2, <3>3, <3>4, <3>5 DEF Work
  <2>3. ASSUME NEW r \in Requests, Faults(r) PROVE IdsOK' /\ LinksOK'
    BY <2>3 DEF Faults, BeginFails, StatementFails, CommitFails, Apply, Discard, InTx
  <2>4. CASE Crash
    BY <2>4 DEF Crash, Discard
  <2>5. CASE UNCHANGED vars
    BY <2>5 DEF vars
  <2> QED
    BY <2>1, <2>2, <2>3, <2>4, <2>5 DEF Next
<1> QED
  BY <1>1, <1>2, TypedInvariant, RowsInvariant, ReadsInvariant, ContextKept, PTL DEF Spec

(* Every audit record links to a committed record of its own tenant: the    *)
(* trigger of init.sql never mixes chains and never links to a record that  *)
(* is rolled back, although it runs concurrently with other inserts.        *)
THEOREM ChainsSeparate == Spec => []ChainStaysInTenant
<1>1. ChainLinks => ChainStaysInTenant
  BY DEF ChainLinks, LinksOK, ChainStaysInTenant
<1> QED
  BY <1>1, LinksInvariant, PTL

-----------------------------------------------------------------------------
(* One chain per tenant, unless inserts overlap.                           *)

\* A tenant without overlapping inserts has at most one writer; its id is
\* beyond those of the committed records, and the record it has hashed
\* continues the last of them.
WritersOK ==
    \A r \in Requests : Writing(r) /\ tenant[r] \notin overlapped =>
        /\ \A q \in Requests : Writing(q) /\ tenant[q] = tenant[r] => q = r
        /\ \A x \in RowsOf(tenant[r]) : id[x] < id[r]
        /\ pc[r] = "logged" => LastHash(prev[r], RowsOf(tenant[r]))

ChainInv == WritersOK /\ ChainValidUnlessOverlapped

\* If nothing is committed and nobody starts to write, the chain stays as it is.
LEMMA ChainQuiet ==
    ASSUME ChainInv, Typed, ReadsOK,
           UNCHANGED <<logRows, id, prev, overlapped>>,
           \A x \in logRows \cup pendLog : tenant'[x] = tenant[x],
           \A q \in Requests : Writing(q)' =>
               Writing(q) /\ pc'[q] = pc[q] /\ tenant'[q] = tenant[q]
    PROVE  ChainInv'
<1>1. \A t \in Tenants : RowsOf(t)' = RowsOf(t)
  BY DEF RowsOf
<1>2. \A q \in Requests : Writing(q) => tenant[q] \in Tenants
  BY DEF Writing, Typed, TenantKnown
<1>3. WritersOK'
  <2> SUFFICES ASSUME NEW r \in Requests, Writing(r)', tenant'[r] \notin overlapped'
               PROVE  /\ \A q \in Requests : Writing(q)' /\ tenant'[q] = tenant'[r] => q = r
                      /\ \A x \in RowsOf(tenant[r])' : id'[x] < id'[r]
                      /\ pc'[r] = "logged" => LastHash(prev[r], RowsOf(tenant[r]))'
    BY DEF WritersOK
  <2>1. Writing(r) /\ pc'[r] = pc[r] /\ tenant'[r] = tenant[r] /\ tenant[r] \in Tenants
    BY <1>2
  <2>2. RowsOf(tenant[r])' = RowsOf(tenant[r])
    BY <2>1 DEF RowsOf
  <2> QED
    BY <2>1, <2>2 DEF ChainInv, WritersOK, LastHash
<1>4. ChainValidUnlessOverlapped'
  BY <1>1 DEF ChainInv, ChainValidUnlessOverlapped, IsValid, LastHash
<1> QED
  BY <1>3, <1>4 DEF ChainInv

\* A commit appends the writer's record at the end of its tenant's chain.
LEMMA ChainApply ==
    ASSUME ChainInv, Typed, RowsInv, NEW r \in Requests,
           pc[r] = "logged", Apply(r),
           pc'[r] \in {"committed", "failing"}, \A q \in Requests \ {r} : pc'[q] = pc[q],
           UNCHANGED <<tenant, id, prev, overlapped>>
    PROVE  ChainInv'
<1>1. CASE r \notin pendLog
  <2>1. logRows' = logRows /\ pendLog' = pendLog
    BY <1>1 DEF Apply
  <2>2. \A q \in Requests : Writing(q)' => Writing(q) /\ pc'[q] = pc[q]
    BY <2>1 DEF Writing
  <2>3. \A t : RowsOf(t)' = RowsOf(t)
    BY <2>1 DEF RowsOf
  <2> QED
    BY <2>1, <2>2, <2>3 DEF ChainInv, WritersOK, ChainValidUnlessOverlapped, IsValid, LastHash
<1>2. CASE r \in pendLog
  <2>1. logRows' = logRows \cup {r} /\ pendLog' = pendLog \ {r} /\ r \notin logRows
    BY <1>2 DEF Apply, RowsInv, PendingOK
  <2>2. Writing(r) /\ ~Writing(r)'
    BY <1>2, <2>1 DEF Writing
  <2>3. \A q \in Requests : Writing(q)' => Writing(q) /\ pc'[q] = pc[q] /\ q # r
    BY <2>1, <2>2 DEF Writing
  <2>4. \A t : t # tenant[r] => RowsOf(t)' = RowsOf(t)
    BY <2>1 DEF RowsOf
  <2>5. RowsOf(tenant[r])' = RowsOf(tenant[r]) \cup {r}
    BY <2>1 DEF RowsOf
  <2>6. WritersOK'
    <3> SUFFICES ASSUME NEW q \in Requests, Writing(q)', tenant[q] \notin overlapped
                 PROVE  /\ \A p \in Requests : Writing(p)' /\ tenant[p] = tenant[q] => p = q
                        /\ \A x \in RowsOf(tenant[q])' : id[x] < id[q]
                        /\ pc'[q] = "logged" => LastHash(prev[q], RowsOf(tenant[q]))'
      BY DEF WritersOK
    <3>1. Writing(q) /\ q # r /\ pc'[q] = pc[q]
      BY <2>3
    <3>2. tenant[q] # tenant[r]
      BY <2>2, <3>1 DEF ChainInv, WritersOK
    <3>3. RowsOf(tenant[q])' = RowsOf(tenant[q])
      BY <2>4, <3>2
    <3> QED
      BY <2>3, <3>1, <3>3 DEF ChainInv, WritersOK, LastHash
  <2>7. ASSUME NEW t \in Tenants \ overlapped PROVE IsValid(RowsOf(t))'
    <3>1. IsValid(RowsOf(t))
      BY DEF ChainInv, ChainValidUnlessOverlapped
    <3>2. CASE t # tenant[r]
      BY <2>4, <3>1, <3>2 DEF IsValid, LastHash
    <3>3. CASE t = tenant[r]
      <4>1. /\ \A x \in RowsOf(t) : id[x] < id[r]
            /\ LastHash(prev[r], RowsOf(t))
        BY <2>2, <3>3 DEF ChainInv, WritersOK
      <4>2. RowsOf(t)' = RowsOf(t) \cup {r} /\ RowsOf(t) \subseteq Requests
        BY <2>5, <3>3 DEF RowsOf, Typed, TypeOK
      <4>3. {y \in RowsOf(t)' : id[y] < id[r]} = RowsOf(t)
        BY <4>1, <4>2 DEF Typed, TypeOK
      <4>4. \A x \in RowsOf(t) : {y \in RowsOf(t)' : id[y] < id[x]} = {y \in RowsOf(t) : id[y] < id[x]}
        BY <4>1, <4>2 DEF Typed, TypeOK
      <4>5. \A x \in RowsOf(t)' : LastHash(prev[x], {y \in RowsOf(t)' : id[y] < id[x]})
        BY <3>1, <4>1, <4>2, <4>3, <4>4 DEF IsValid
      <4> QED
        BY <4>5 DEF IsValid, LastHash
    <3> QED
      BY <3>2, <3>3
  <2> QED
    BY <2>6, <2>7 DEF ChainInv, ChainValidUnlessOverlapped
<1> QED
  BY <1>1, <1>2

\* The statements of a call keep the chains valid.
LEMMA ChainWork ==
    ASSUME ChainInv, Typed, Typed', RowsInv, ReadsOK, ChainLinks, ContextHeld,
           NEW r \in Requests, Work(r)
    PROVE  ChainInv'
<1> USE DEF Typed, TypeOK, Goto, rowVars, idVars
<1>1. CASE Begin(r) \/ InjectContext(r) \/ QueryBalance(r) \/ InsertTransaction(r)
           \/ ResetAndReturn(r) \/ DeferredReset(r)
  <2>1. /\ UNCHANGED <<logRows, pendLog, id, prev, overlapped, tenant>>
        /\ pc'[r] \notin {"drawn", "logged"} /\ \A q \in Requests \ {r} : pc'[q] = pc[q]
    BY <1>1 DEF Begin, InjectContext, QueryBalance, InsertTransaction, ResetAndReturn,
       DeferredReset
  <2> QED
    BY <2>1, ChainQuiet DEF Writing
<1>2. CASE QueryLogs(r)
  <2>1. r \notin pendLog
    BY <1>2 DEF QueryLogs, RowsInv, PendingOK
  <2>2. \A q \in Requests : Writing(q)' => Writing(q) /\ pc'[q] = pc[q]
    BY <1>2, <2>1 DEF QueryLogs, Writing
  <2> QED
    BY <1>2, <2>2, ChainQuiet DEF QueryLogs
<1>3. CASE Rollback(r)
  <2>1. \A q \in Requests : Writing(q)' => Writing(q) /\ pc'[q] = pc[q]
    BY <1>3 DEF Rollback, Discard, Writing
  <2> QED
    BY <1>3, <2>1, ChainQuiet DEF Rollback, Discard
<1>4. CASE Commit(r)
  BY <1>4, ChainApply DEF Commit
<1>5. CASE DrawId(r)
  <2>1. /\ pc'[r] = "drawn" /\ \A q \in Requests \ {r} : pc'[q] = pc[q] /\ id'[q] = id[q]
        /\ id'[r] = nextId /\ overlapped \subseteq overlapped'
        /\ UNCHANGED <<logRows, pendLog, prev, tenant>>
    BY <1>5 DEF DrawId
  <2>2. /\ tenant[r] \notin overlapped' =>
              \A q \in Requests \ {r} : Writing(q) => tenant[q] # tenant[r]
    BY <1>5 DEF DrawId
  <2>3. r \notin logRows \cup pendLog
    BY <1>5 DEF DrawId, RowsInv, PendingOK, CommittedOK, Final
  <2>4. /\ Writing(r)' /\ \A q \in Requests \ {r} : Writing(q)' <=> Writing(q)
        /\ \A t : RowsOf(t)' = RowsOf(t) /\ RowsOf(t) \subseteq Requests \ {r}
    BY <2>1, <2>3 DEF Writing, RowsOf
  <2>5. WritersOK'
    <3> SUFFICES ASSUME NEW q \in Requests, Writing(q)', tenant[q] \notin overlapped'
                 PROVE  /\ \A p \in Requests : Writing(p)' /\ tenant[p] = tenant[q] => p = q
                        /\ \A x \in RowsOf(tenant[q]) : id'[x] < id'[q]
                        /\ pc'[q] = "logged" => LastHash(prev[q], RowsOf(tenant[q]))'
      BY <2>1, <2>4 DEF WritersOK
    <3>1. CASE q = r
      BY <2>1, <2>2, <2>4, <3>1 DEF ChainLinks, IdsOK
    <3>2. CASE q # r
      <4>1. Writing(q) /\ tenant[q] \notin overlapped
        BY <2>1, <2>4, <3>2
      <4>2. /\ \A p \in Requests : Writing(p) /\ tenant[p] = tenant[q] => p = q
            /\ \A x \in RowsOf(tenant[q]) : id[x] < id[q]
            /\ pc[q] = "logged" => LastHash(prev[q], RowsOf(tenant[q]))
        BY <4>1 DEF ChainInv, WritersOK
      <4>3. pc[q] = "logged" => LastHash(prev[q], RowsOf(tenant[q]))'
        BY <2>1, <2>4, <4>2 DEF LastHash
      <4>4. tenant[q] # tenant[r]
        BY <2>2, <3>2, <4>1
      <4> QED
        BY <2>1, <2>4, <3>2, <4>2, <4>3, <4>4
    <3> QED
      BY <3>1, <3>2
  <2>6. ChainValidUnlessOverlapped'
    <3> SUFFICES ASSUME NEW t \in Tenants, t \notin overlapped' PROVE IsValid(RowsOf(t))'
      BY DEF ChainValidUnlessOverlapped
    <3>1. IsValid(RowsOf(t))
      BY <2>1 DEF ChainInv, ChainValidUnlessOverlapped
    <3>2. \A x \in RowsOf(t) : id'[x] = id[x] /\ prev'[x] = prev[x]
      BY <2>1, <2>4
    <3>3. \A x \in RowsOf(t) : {y \in RowsOf(t) : id'[y] < id'[x]} = {y \in RowsOf(t) : id[y] < id[x]}
      BY <3>2
    <3>4. \A x \in RowsOf(t) : LastHash(prev[x], {y \in RowsOf(t) : id[y] < id[x]})
      BY <3>1 DEF IsValid
    <3>5. \A x \in RowsOf(t) : LastHash(prev[x], {y \in RowsOf(t) : id[y] < id[x]})'
      BY <2>4, <3>2, <3>3, <3>4 DEF LastHash
    <3> QED
      BY <2>4, <3>5 DEF IsValid
  <2> QED
    BY <2>5, <2>6 DEF ChainInv
<1>6. CASE HashAuditRecord(r)
  <2>1. /\ pc[r] = "drawn" /\ pc'[r] = "logged" /\ pendLog' = pendLog \cup {r}
        /\ \A q \in Requests \ {r} : pc'[q] = pc[q] /\ prev'[q] = prev[q]
        /\ UNCHANGED <<logRows, id, tenant, overlapped>>
    BY <1>6 DEF HashAuditRecord
  <2>2. RowsOf(tenant[r]) = Visible(r, logRows)
    BY <2>1, VisibleIsOwn DEF RowsOf, InTx
  <2>3. LastHash(prev'[r], RowsOf(tenant[r]))
    BY <1>6, <2>2 DEF HashAuditRecord, ChainRows
  <2>4. r \notin logRows
    BY <2>1 DEF RowsInv, CommittedOK, Final
  <2>5. /\ \A q \in Requests : Writing(q)' <=> Writing(q)
        /\ \A t : RowsOf(t)' = RowsOf(t) /\ RowsOf(t) \subseteq Requests \ {r}
    BY <2>1, <2>4 DEF Writing, RowsOf
  <2>6. WritersOK'
    <3> SUFFICES ASSUME NEW q \in Requests, Writing(q), tenant[q] \notin overlapped
                 PROVE  /\ \A p \in Requests : Writing(p) /\ tenant[p] = tenant[q] => p = q
                        /\ \A x \in RowsOf(tenant[q]) : id[x] < id[q]
                        /\ pc'[q] = "logged" => LastHash(prev[q], RowsOf(tenant[q]))'
      BY <2>1, <2>5 DEF WritersOK
    <3>1. CASE q = r
      BY <2>1, <2>3, <2>5, <3>1 DEF ChainInv, WritersOK, LastHash
    <3>2. CASE q # r
      BY <2>1, <2>5, <3>2 DEF ChainInv, WritersOK, LastHash
    <3> QED
      BY <3>1, <3>2
  <2>7. ChainValidUnlessOverlapped'
    BY <2>1, <2>5 DEF ChainInv, ChainValidUnlessOverlapped, IsValid, LastHash
  <2> QED
    BY <2>6, <2>7 DEF ChainInv
<1> QED
  BY <1>1, <1>2, <1>3, <1>4, <1>5, <1>6 DEF Work

\* An error of the database keeps the chains valid.
LEMMA ChainFaults ==
    ASSUME ChainInv, Typed, Typed', RowsInv, ReadsOK, NEW r \in Requests, Faults(r)
    PROVE  ChainInv'
<1> USE DEF Typed, TypeOK, Goto, rowVars, idVars
<1>1. CASE BeginFails(r) \/ StatementFails(r)
  <2>1. \A q \in Requests : Writing(q)' => Writing(q) /\ pc'[q] = pc[q]
    BY <1>1 DEF BeginFails, StatementFails, Writing
  <2> QED
    BY <1>1, <2>1, ChainQuiet DEF BeginFails, StatementFails
<1>2. CASE CommitFails(r) /\ Apply(r)
  BY <1>2, ChainApply DEF CommitFails
<1>3. CASE CommitFails(r) /\ Discard({r})
  <2>1. \A q \in Requests : Writing(q)' => Writing(q) /\ pc'[q] = pc[q]
    BY <1>3 DEF CommitFails, Discard, Writing
  <2> QED
    BY <1>3, <2>1, ChainQuiet DEF CommitFails, Discard
<1> QED
  BY <1>1, <1>2, <1>3 DEF Faults, CommitFails

(* A tenant's ledger is one valid chain in id order, as verify-chain tests  *)
(* it, as long as no two of its audit inserts overlapped in time.           *)
THEOREM ChainValid == Spec => []ChainValidUnlessOverlapped
<1>1. Init => ChainInv
  BY DEF Init, ChainInv, WritersOK, Writing, ChainValidUnlessOverlapped, IsValid, RowsOf
<1>2. ChainInv /\ Typed /\ Typed' /\ RowsInv /\ ReadsOK /\ ChainLinks /\ ContextHeld
          /\ [Next]_vars => ChainInv'
  <2> SUFFICES ASSUME ChainInv, Typed, Typed', RowsInv, ReadsOK, ChainLinks, ContextHeld,
                      [Next]_vars
               PROVE  ChainInv'
    OBVIOUS
  <2>1. ASSUME NEW r \in Requests, Receive(r) PROVE ChainInv'
    <3>1. \A q \in Requests : Writing(q)' => Writing(q) /\ pc'[q] = pc[q] /\ tenant'[q] = tenant[q]
      BY <2>1 DEF Receive, Goto, Writing, rowVars, Typed, TypeOK
    <3>2. \A x \in logRows \cup pendLog : tenant'[x] = tenant[x]
      BY <2>1 DEF Receive, ReadsOK, Typed, TypeOK
    <3> QED
      BY <2>1, <3>1, <3>2, ChainQuiet DEF Receive, rowVars, idVars
  <2>2. CASE Crash
    <3>1. \A q \in Requests : Writing(q)' => Writing(q) /\ pc'[q] = pc[q]
      BY <2>2 DEF Crash, Discard, Writing
    <3> QED
      BY <2>2, <3>1, ChainQuiet DEF Crash, Discard, idVars
  <2>3. CASE UNCHANGED vars
    <3>1. \A q \in Requests : Writing(q)' <=> Writing(q)
      BY <2>3 DEF vars, rowVars, Writing
    <3> QED
      BY <2>3, <3>1, ChainQuiet DEF vars, rowVars, idVars
  <2> QED
    BY <2>1, <2>2, <2>3, ChainWork, ChainFaults DEF Next
<1>3. ChainInv => ChainValidUnlessOverlapped
  BY DEF ChainInv
<1> QED
  BY <1>1, <1>2, <1>3, TypedInvariant, RowsInvariant, ReadsInvariant, LinksInvariant,
     ContextKept, PTL DEF Spec

-----------------------------------------------------------------------------
(* What a balance counts.                                                  *)

BalanceInv ==
    \A r \in Requests :
        /\ \A q \in acked[r] : q \in txRows /\ tenant[q] = tenant[r] /\ pc[q] # "idle"
        /\ pc[r] = "idle" => acked[r] = {}
        /\ pc[r] \in {"written", "drawn", "logged", "committed", "ok"} /\ op[r] = "balance"
               => acked[r] \subseteq seen[r]

(* Read your writes across requests: a balance given to a tenant counts     *)
(* every transfer whose confirmation preceded the query, on whatever        *)
(* connections the two ran.                                                 *)
THEOREM BalanceCurrent == Spec => []BalanceCountsConfirmed
<1>1. Init => BalanceInv
  BY DEF Init, BalanceInv
<1>2. BalanceInv /\ RowsInv /\ ContextHeld /\ [Next]_vars => BalanceInv'
  <2> SUFFICES ASSUME BalanceInv, RowsInv, ContextHeld, [Next]_vars PROVE BalanceInv'
    OBVIOUS
  <2> USE DEF BalanceInv, RowsInv, Typed, TypeOK, Goto, rowVars
  <2>1. ASSUME NEW r \in Requests, Receive(r) PROVE BalanceInv'
    <3>1. \A q \in Requests : pc[q] = "ok" /\ op[q] = "transfer" => q \in txRows
      BY DEF AuditedTogether
    <3> QED
      BY <2>1, <3>1 DEF Receive
  <2>2. ASSUME NEW r \in Requests, Work(r) PROVE BalanceInv'
    <3>1. CASE QueryBalance(r)
      <4>1. Visible(r, txRows) = {x \in txRows : tenant[x] = tenant[r]}
        BY <3>1, VisibleIsOwn DEF QueryBalance, InTx
      <4> QED
        BY <3>1, <4>1 DEF QueryBalance
    <3>2. CASE QueryLogs(r)
      BY <3>2 DEF QueryLogs
    <3>3. CASE Begin(r) \/ InjectContext(r) \/ DrawId(r) \/ ResetAndReturn(r) \/ DeferredReset(r)
               \/ InsertTransaction(r) \/ HashAuditRecord(r)
      BY <3>3 DEF Begin, InjectContext, DrawId, ResetAndReturn, DeferredReset,
         InsertTransaction, HashAuditRecord
    <3>4. CASE Commit(r) \/ Rollback(r)
      BY <3>4 DEF Commit, Rollback, Apply, Discard
    <3> QED
      BY <2>2, <3>1, <3>2, <3>3, <3>4 DEF Work
  <2>3. ASSUME NEW r \in Requests, Faults(r) PROVE BalanceInv'
    BY <2>3 DEF Faults, BeginFails, StatementFails, CommitFails, Apply, Discard
  <2>4. CASE Crash
    BY <2>4 DEF Crash, Discard
  <2>5. CASE UNCHANGED vars
    BY <2>5 DEF vars
  <2> QED
    BY <2>1, <2>2, <2>3, <2>4, <2>5 DEF Next
<1>3. BalanceInv => BalanceCountsConfirmed
  BY DEF BalanceInv, BalanceCountsConfirmed
<1> QED
  BY <1>1, <1>2, <1>3, RowsInvariant, ContextKept, PTL DEF Spec

-----------------------------------------------------------------------------
(* AuditDB implements AuditedLedger.                                       *)

\* A step of one request that leaves its operation alone changes the stage
\* of that request only.
LEMMA StageMoves ==
    ASSUME Typed, Typed', NEW r \in Requests, NEW l, Goto(r, l), op' = op
    PROVE  Stage' = [Stage EXCEPT ![r] = Stage'[r]]
<1>1. /\ Stage = [q \in Requests |-> Stage[q]] /\ Stage' = [q \in Requests |-> Stage'[q]]
  BY DEF Stage
<1>2. \A q \in Requests \ {r} : pc'[q] = pc[q]
  BY DEF Typed, TypeOK, Goto
<1>3. \A q \in Requests \ {r} : Stage'[q] = Stage[q]
  BY <1>2 DEF Stage
<1> QED
  BY <1>1, <1>3

\* Statements that no caller notices.
LEMMA StageStays ==
    ASSUME Typed, Typed', NEW r \in Requests, NEW l, Goto(r, l), op' = op, Stage'[r] = Stage[r]
    PROVE  Stage' = Stage
<1>1. Stage = [q \in Requests |-> Stage[q]]
  BY DEF Stage
<1> QED
  BY <1>1, StageMoves

\* Every step of a request is one step of its call, or none.
LEMMA LedgerWork ==
    ASSUME Typed, Typed', ContextHeld, RowsInv, NEW r \in Requests, Work(r)
    PROVE  [Ledger!Next]_Ledger!vars
<1> USE DEF Typed, TypeOK, Ledger!vars, Ledger!Next
<1>1. CASE Begin(r) \/ InjectContext(r) \/ DeferredReset(r)
  <2>1. /\ \E l : Goto(r, l)
        /\ Stage'[r] = Stage[r] /\ UNCHANGED <<op, tenant, txRows, logRows, seen>>
    BY <1>1 DEF Begin, InjectContext, DeferredReset, Goto, Stage, rowVars
  <2> QED
    BY <2>1, StageStays
<1>2. CASE InsertTransaction(r) \/ DrawId(r) \/ HashAuditRecord(r)
  <2>1. /\ \E l : Goto(r, l)
        /\ Stage'[r] = Stage[r] /\ UNCHANGED <<op, tenant, txRows, logRows, seen>>
    BY <1>2 DEF InsertTransaction, DrawId, HashAuditRecord, Goto, Stage, rowVars
  <2> QED
    BY <2>1, StageStays
<1>3. CASE QueryBalance(r)
  <2>1. Visible(r, txRows) = Ledger!Own(r, txRows)
    BY <1>3, VisibleIsOwn DEF QueryBalance, InTx, Ledger!Own
  <2>2. Stage[r] = "asked" /\ Stage'[r] = "read" /\ op[r] = "balance"
    BY <1>3 DEF QueryBalance, Goto, Stage
  <2>3. Stage' = [Stage EXCEPT ![r] = Stage'[r]]
    BY <1>3, StageMoves DEF QueryBalance
  <2>4. Ledger!Read(r)
    BY <1>3, <2>1, <2>2, <2>3 DEF QueryBalance, Ledger!Read, rowVars
  <2> QED
    BY <2>4
<1>4. CASE QueryLogs(r)
  <2>1. Visible(r, logRows) = Ledger!Own(r, logRows)
    BY <1>4, VisibleIsOwn DEF QueryLogs, InTx, Ledger!Own
  <2>2. Stage[r] = "asked" /\ Stage'[r] = "read" /\ op[r] = "logs"
    BY <1>4 DEF QueryLogs, Goto, Stage
  <2>3. Stage' = [Stage EXCEPT ![r] = Stage'[r]]
    BY <1>4, StageMoves DEF QueryLogs
  <2>4. Ledger!Read(r)
    BY <1>4, <2>1, <2>2, <2>3 DEF QueryLogs, Ledger!Read, rowVars
  <2> QED
    BY <2>4
<1>5. CASE Commit(r)
  <2>1. Ledger!Due(r) /\ Stage'[r] = "done"
    BY <1>5 DEF Commit, Goto, Stage, Ledger!Due
  <2>2. Stage' = [Stage EXCEPT ![r] = Stage'[r]]
    BY <1>5, StageMoves DEF Commit
  <2>3. Ledger!Record(r)
    BY <1>5 DEF Commit, Apply, Ledger!Record, RowsInv, PendingOK
  <2>4. Ledger!Perform(r)
    BY <1>5, <2>1, <2>2, <2>3 DEF Commit, Ledger!Perform
  <2> QED
    BY <2>4
<1>6. CASE ResetAndReturn(r)
  <2>1. Stage[r] = "done" /\ Stage'[r] = "ok"
    BY <1>6 DEF ResetAndReturn, Goto, Stage
  <2>2. Stage' = [Stage EXCEPT ![r] = Stage'[r]]
    BY <1>6, StageMoves DEF ResetAndReturn
  <2>3. Ledger!Confirm(r)
    BY <1>6, <2>1, <2>2 DEF ResetAndReturn, Ledger!Confirm, rowVars
  <2> QED
    BY <2>3
<1>7. CASE Rollback(r)
  <2>1. Stage'[r] = Stage[r]
    BY <1>7 DEF Rollback, Goto, Stage
  <2> QED
    BY <1>7, <2>1, StageStays DEF Rollback, Discard
<1> QED
  BY <1>1, <1>2, <1>3, <1>4, <1>5, <1>6, <1>7 DEF Work

\* So is an error, whether or not the server applied the commit.
LEMMA LedgerFaults ==
    ASSUME Typed, Typed', RowsInv, NEW r \in Requests, Faults(r)
    PROVE  [Ledger!Next]_Ledger!vars
<1> USE DEF Typed, TypeOK, Ledger!vars, Ledger!Next
<1>1. CASE BeginFails(r) \/ StatementFails(r)
  <2>1. /\ \E l : Goto(r, l)
        /\ UNCHANGED <<op, tenant, txRows, logRows, seen>>
    BY <1>1 DEF BeginFails, StatementFails, rowVars
  <2>2. Ledger!Open(r) /\ Stage'[r] = "failed"
    BY <1>1 DEF BeginFails, StatementFails, InTx, Goto, Stage, Ledger!Open
  <2>3. Stage' = [Stage EXCEPT ![r] = Stage'[r]]
    BY <2>1, StageMoves
  <2>4. Ledger!Fail(r)
    BY <2>1, <2>2, <2>3 DEF Ledger!Fail
  <2> QED
    BY <2>4
<1>2. CASE CommitFails(r)
  <2>1. Ledger!Open(r) /\ Ledger!Due(r) /\ Stage'[r] = "failed"
    BY <1>2 DEF CommitFails, Goto, Stage, Ledger!Open, Ledger!Due
  <2>2. Stage' = [Stage EXCEPT ![r] = Stage'[r]]
    BY <1>2, StageMoves DEF CommitFails
  <2>3. Ledger!Record(r) \/ UNCHANGED <<txRows, logRows>>
    <3>1. CASE Apply(r)
      BY <1>2, <3>1 DEF CommitFails, Apply, Ledger!Record, RowsInv, PendingOK
    <3>2. CASE Discard({r})
      BY <3>2 DEF Discard
    <3> QED
      BY <1>2, <3>1, <3>2 DEF CommitFails
  <2>4. Ledger!Fail(r)
    BY <1>2, <2>1, <2>2, <2>3 DEF CommitFails, Ledger!Fail
  <2> QED
    BY <2>4
<1> QED
  BY <1>1, <1>2 DEF Faults

(* Refinement: CreateTransaction, GetBalance and GetAuditLogs, with their   *)
(* failures, lost commits and crashes, implement the atomic ledger.         *)
THEOREM Refinement == Spec => ImplementsLedger
<1>1. Init => Ledger!Init
  BY DEF Init, Ledger!Init, Stage
<1>2. Typed /\ Typed' /\ ContextHeld /\ RowsInv /\ [Next]_vars
      => [Ledger!Next]_Ledger!vars
  <2> SUFFICES ASSUME Typed, Typed', ContextHeld, RowsInv, [Next]_vars
               PROVE  [Ledger!Next]_Ledger!vars
    OBVIOUS
  <2>1. ASSUME NEW r \in Requests, Receive(r) PROVE [Ledger!Next]_Ledger!vars
    <3>1. Stage[r] = "new" /\ Stage'[r] = "asked"
      BY <2>1 DEF Receive, Goto, Stage, Typed, TypeOK
    <3>2. \A q \in Requests \ {r} : Stage'[q] = Stage[q]
      BY <2>1 DEF Receive, Goto, Stage, Typed, TypeOK
    <3>3. Stage = [q \in Requests |-> Stage[q]] /\ Stage' = [q \in Requests |-> Stage'[q]]
      BY DEF Stage
    <3>4. Stage' = [Stage EXCEPT ![r] = "asked"]
      BY <3>1, <3>2, <3>3
    <3>5. Ledger!Ask(r)
      BY <2>1, <3>1, <3>4 DEF Receive, Ledger!Ask, Ledger!Kinds, Ops, rowVars
    <3> QED
      BY <3>5 DEF Ledger!Next
  <2>2. ASSUME NEW r \in Requests, Work(r) PROVE [Ledger!Next]_Ledger!vars
    BY <2>2, LedgerWork
  <2>3. ASSUME NEW r \in Requests, Faults(r) PROVE [Ledger!Next]_Ledger!vars
    BY <2>3, LedgerFaults
  <2>4. CASE Crash
    <3>1. \A r \in Requests : Stage'[r] = IF Ledger!Open(r) THEN "failed" ELSE Stage[r]
      BY <2>4 DEF Crash, Stage, Final, InTx, Ledger!Open, Typed, TypeOK
    <3>2. Stage' = [q \in Requests |-> Stage'[q]]
      BY DEF Stage
    <3>3. Ledger!FailAll
      BY <2>4, <3>1, <3>2 DEF Crash, Discard, Ledger!FailAll
    <3> QED
      BY <3>3 DEF Ledger!Next
  <2>5. CASE UNCHANGED vars
    BY <2>5 DEF vars, rowVars, Stage, Ledger!vars
  <2> QED
    BY <2>1, <2>2, <2>3, <2>4, <2>5 DEF Next
<1> QED
  BY <1>1, <1>2, TypedInvariant, ContextKept, RowsInvariant, PTL
     DEF Spec, ImplementsLedger, Ledger!Spec

-----------------------------------------------------------------------------
(* Who waits for whom.                                                     *)

\* A set of natural numbers has a smallest one: less-than is well-founded.
LEMMA LeastNumber ==
    ASSUME NEW T, T \subseteq Nat, T # {}
    PROVE  \E x \in T : \A y \in T : x <= y
<1> DEFINE R == OpToRel(<, Nat)
<1>1. IsWellFoundedOn(R, Nat)
  BY NatLessThanWellFounded
<1>2. \A x, y \in Nat : x < y => <<x, y>> \in R
  BY DEF OpToRel
<1> HIDE DEF R
<1>3. PICK x \in T : \A y \in T : ~(<<y, x>> \in R)
  BY <1>1, WFMin
<1>4. \A y \in T : ~(y < x)
  BY <1>2, <1>3
<1> QED
  BY <1>4

\* ORDER BY id DESC LIMIT 1 has an answer: the ids of the rows are bounded by
\* the sequence, and the least bound is the id of a row.
LEMMA LastHashExists ==
    ASSUME Typed, IdsOK, NEW rows, rows \subseteq logRows
    PROVE  \E h \in {Genesis} \cup {id[x] : x \in logRows} : LastHash(h, rows)
<1>1. CASE rows = {}
  BY <1>1 DEF LastHash
<1>2. CASE rows # {}
  <2> DEFINE Bounds == {n \in Nat : \A y \in rows : id[y] <= n}
  <2>1. \A y \in rows : id[y] \in Nat /\ id[y] >= 1 /\ id[y] < nextId
    BY DEF Typed, TypeOK, IdsOK
  <2>2. nextId \in Bounds
    BY <2>1 DEF Typed, TypeOK
  <2>3. PICK n \in Bounds : \A m \in Bounds : n <= m
    BY <2>2, LeastNumber, Bounds \subseteq Nat
  <2>4. PICK x \in rows : id[x] = n
    <3> SUFFICES ASSUME \A y \in rows : id[y] # n PROVE FALSE
      OBVIOUS
    <3>1. n \in Nat /\ \A y \in rows : id[y] <= n - 1
      BY <2>1
    <3>2. n - 1 \in Nat
      BY <1>2, <2>1, <3>1
    <3>3. n - 1 \in Bounds
      BY <3>1, <3>2
    <3> QED
      BY <2>3, <3>1, <3>3
  <2> QED
    BY <2>4 DEF LastHash
<1> QED
  BY <1>1, <1>2

\* A call that needs no connection has its next step.
LEMMA OthersReady ==
    ASSUME PoolInv, IdsOK, NEW r \in Requests, ~NeedsConn(r)
    PROVE  Ready(r)
<1>1. ASSUME pc[r] \in InTx PROVE CheckRow(r) /\ Setting(conn[r]) # NoTenant
  <2>1. conn[r] \in Conns /\ tenant[r] \in Tenants
    BY <1>1 DEF PoolInv, HoldersOK, Typed, TenantKnown, InTx
  <2> QED
    BY <1>1, <2>1, DistinctAssumption DEF PoolInv, SettingsOK, Setting, CheckRow
<1>2. \E h \in {Genesis} \cup {id[x] : x \in logRows} : LastHash(h, ChainRows(r))
  <2>1. ChainRows(r) \subseteq logRows
    BY DEF ChainRows, Visible
  <2> QED
    BY <2>1, LastHashExists DEF PoolInv
<1> QED
  BY <1>1, <1>2 DEF Ready, InTx

(* The pool is all that a call of db.go can wait for: RLS policies, trigger *)
(* and session settings always let its next statement through, and an       *)
(* exhausted pool moves on unless every holder is a failing call.           *)
THEOREM PoolIsTheOnlyWait == Spec => []OnlyPoolBlocks
<1>1. PoolInv /\ IdsOK => OnlyPoolBlocks
  <2> SUFFICES ASSUME PoolInv, IdsOK PROVE OnlyPoolBlocks
    OBVIOUS
  <2>1. ASSUME NEW r \in Open PROVE Ready(r) \/ (NeedsConn(r) /\ Exhausted)
    <3>1. CASE NeedsConn(r) /\ ~Exhausted
      BY <3>1 DEF Ready, NeedsConn
    <3> QED
      BY <3>1, OthersReady DEF Open
  <2>2. ASSUME Exhausted, ~Blocked PROVE \E r \in Open : conn[r] # NoConn /\ Ready(r)
    <3>1. PICK c \in Conns : \A r \in Requests : conn[r] = c => pc[r] # "failing"
      BY <2>2 DEF Blocked
    <3>2. PICK r \in Requests : conn[r] = c
      BY <2>2 DEF Exhausted, Free
    <3>3. conn[r] # NoConn /\ pc[r] \in Holding \ {"failing"}
      BY <3>1, <3>2, DistinctAssumption DEF PoolInv, HoldersOK
    <3>4. r \in Open /\ ~NeedsConn(r)
      BY <3>3 DEF Open, NeedsConn, Holding, InTx, Final
    <3> QED
      BY <3>3, <3>4, OthersReady
  <2> QED
    BY <2>1, <2>2 DEF OnlyPoolBlocks
<1> QED
  BY <1>1, PoolInvariant, LinksInvariant, PTL DEF ChainLinks

\* Every connection taken from the pool is held by a call of its own.
LEMMA HoldersCounted ==
    ASSUME PoolInv, Exhausted, IsFiniteSet(Open)
    PROVE  IsFiniteSet(Conns) /\ Cardinality(Conns) <= Cardinality(Open)
<1> DEFINE f == [c \in Conns |-> CHOOSE r \in Requests : conn[r] = c]
<1>1. \A c \in Conns : f[c] \in Requests /\ conn[f[c]] = c
  BY DEF Exhausted, Free
<1>2. \A c \in Conns : f[c] \in Open
  BY <1>1, DistinctAssumption DEF PoolInv, HoldersOK, Holding, InTx, Final, Open
<1> HIDE DEF f
<1>3. f \in [Conns -> Open]
  BY <1>2 DEF f
<1>4. f \in Injection(Conns, Open)
  BY <1>1, <1>3 DEF Injection, IsInjective
<1> QED
  BY <1>4, FS_Injection

(* With fewer calls under way than the pool has connections (25 in db.go),  *)
(* each of them has its next step, however many are failing: a call holds   *)
(* at most one connection and waits for at most one more.                   *)
THEOREM PoolSuffices == Spec => []EnoughConnections
<1>1. PoolInv /\ OnlyPoolBlocks => EnoughConnections
  <2> SUFFICES ASSUME PoolInv, OnlyPoolBlocks, IsFiniteSet(Open), IsFiniteSet(Conns),
                      Cardinality(Open) < Cardinality(Conns)
               PROVE  \A r \in Open : Ready(r)
    BY DEF EnoughConnections
  <2>1. Cardinality(Open) \in Nat /\ Cardinality(Conns) \in Nat
    BY FS_CardinalityType
  <2>2. ~Exhausted
    BY <2>1, HoldersCounted
  <2> QED
    BY <2>2 DEF OnlyPoolBlocks
<1> QED
  BY <1>1, PoolInvariant, PoolIsTheOnlyWait, PTL

(* The self-deadlock of the deferred reset, for a pool of any size: when    *)
(* every connection is held by a call that is failing, each waits for a     *)
(* connection before it gives its own back, and only the end of the process *)
(* frees one.                                                               *)
THEOREM DeadlockIsFinal == Spec => BlockedUntilRestart
<1>1. PoolInv /\ [Next]_vars => [Blocked => Blocked' \/ Crash]_vars
  <2> SUFFICES ASSUME PoolInv, Next, Blocked, ~Crash PROVE Blocked'
    OBVIOUS
  <2>1. \A c \in Conns : ~Free(c)
    BY DEF Blocked, Free
  <2>2. PICK r \in Requests : Receive(r) \/ Work(r) \/ Faults(r)
    BY DEF Next
  <2>3. /\ pc[r] # "failing"
        /\ \A q \in Requests \ {r} : pc'[q] = pc[q] /\ conn'[q] = conn[q]
    <3> USE DEF PoolInv, Typed, TypeOK, Goto, connVars
    <3>1. CASE Receive(r)
      BY <3>1 DEF Receive
    <3>2. CASE Work(r)
      BY <3>2, <2>1 DEF Work, Begin, InjectContext, InsertTransaction, QueryBalance, QueryLogs,
         DrawId, HashAuditRecord, Commit, ResetAndReturn, DeferredReset, Rollback, ResetSome, Release
    <3>3. CASE Faults(r)
      BY <3>3 DEF Faults, BeginFails, StatementFails, CommitFails, Release, InTx
    <3> QED
      BY <2>2, <3>1, <3>2, <3>3
  <2> QED
    BY <2>3 DEF Blocked
<1> QED
  BY <1>1, PoolInvariant, PTL DEF Spec, BlockedUntilRestart
==============================================================================
