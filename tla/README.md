# TLA+ verification of secure-fapi-zta-darkservices

This directory holds TLA+ models of the repository's identity provider, gateway,
audit ledger and dashboard, the TLC configurations that check them, and TLAPS proofs of
their safety properties. Paths below are relative to the repository's root.

## 1. The system

A client obtains an access token from the **IdP** (OAuth 2.1 with PKCE and
DPoP) and calls the **gateway**, which checks the DPoP proof, the token, the
network identity and the decision of an external **PDP**, and then works on
**PostgreSQL**, where row-level security keeps tenants apart and a trigger
chains the audit records by hash. A **dashboard** (Next.js: a page in the
browser and API routes on the server) shows metrics, records and certificates,
verifies the chain, runs self-tests of the defences and a benchmark.

```
 client --/authorize,/token--> IdP --(key file)--> /jwks
   |                                                 ^
   | DPoP proof + token                              | GetPublicKey
   v                                                 |
 gateway: SecureAPI -> EnforcePolicy -> handler -----+
            |  replay cache   |  gRPC CheckAccess -> PDP
            v                 v
          audit/db.go --pool--> PostgreSQL (RLS, hash_audit_record)
                                     ^
 page.tsx --polls, buttons--> routes-+--> gateway /metrics, IdP, certificate files
```

### Inventory

| component | state | operations | interacts through | what is hard |
|---|---|---|---|---|
| DPoP replay cache (`gateway/internal/auth/jti.go`, `idp/store/memory.go`) | `sync.Map` jti -> expiry | `IsJTIUsedAndSave`, sweep goroutine | called by `SecureAPI` and `TokenHandler`; relies on the iat window of `VerifyDPoPProof` | duplicates racing each other and the sweep; the windows just meeting; restarts |
| data layer and ledger (`gateway/internal/audit/db.go`, `docker/postgres/init.sql`) | pool of connections with session settings; tables `transactions`, `audit_logs`; id sequence | `CreateTransaction`, `GetBalance`, `GetAuditLogs`; RLS policies; hash and WORM triggers | handlers; the dashboard reads the table | a tenant's setting on a shared connection; errors and crashes between statements; a commit whose answer is lost; concurrent trigger runs; pool exhaustion |
| identity provider (`idp/handler`, `idp/store`, `idp/crypto`) | map code -> AuthCodeInfo, used jtis | `/authorize`, `/token`, sweep | client; replay cache | `Load` and `Delete` of a code are two steps; a code is consumed before the checks; duplicates |
| signing key and JWKS cache (`idp/config`, `idp/handler/jwks.go`, `JWKSCache` in `gateway/internal/auth/crypto.go`) | key file; the gateway's key map, `lastUpdate`, RWMutex | key creation and loading, `/jwks`, `GetPublicKey`, `FetchKeys` | HTTP between gateway and IdP | values read before a lock and used after it; lock held over I/O; outages; crash while the file is written |
| middleware chain and PDP client (`gateway/internal/middleware`, `pdpclient`, `api`, `main.go`) | per request only; replay cache; the PDP's policy | `SecureAPI`, `EnforcePolicy`, `CheckAccess`, handlers | all of the above | order of checks; timeout against a late answer; fail-open; duplicates; restart |
| local policy engine (`gateway/internal/policy/pdp.go`) | rules | `Evaluate` | not wired to a route | - |
| telemetry (`gateway/internal/telemetry`) | counters and gauges, in memory | increments and records under a mutex, `ServeMetrics` | the dashboard polls it | gone with the process |
| client (`client/`) | token, key | one pass: authorize, token, API calls | IdP, gateway | no retry |
| dashboard routes (`dashboard/src/app/api`) | `cachedToken` in `benchmark`; none in `attack`, `metrics`, `logs`, `certs`, `verify-chain` | one handler each | gateway, IdP, database, certificate files | 50 concurrent requests share the token; the chain is checked over all tenants |
| dashboard page (`dashboard/src/app/page.tsx`) | React state: what the last polls brought, the console and verdict of the check, the simulator's console, the countdown | `fetchData` every 1.5 s, `handleVerifyChain`, `runAttackSimulation`, `runBenchmark`, timers, tabs | dashboard routes | overlapping polls without numbers; polls that fail in one part; verdicts on rows read long before; three writers of one status; timers nobody cancels; the ways out of a handler |
| OpenZiti wrappers, certificates, scripts, generated gRPC code | - | I/O | - | - |

`PROJECT.json` lists the same components with their status, the hazards with
the lines where they bite, and for every definition of the models the source
lines it stands for.

## 2. Modules

Each component has a module, a module `MC<name>` with its configurations, and
a module `<name>Proofs`.

### JTICache
A request is a goroutine whose steps are the points where it reads the clock or
touches the map: `VerifyDPoPProof` (the iat test), `ReadClock` (`time.Now()`),
`LoadOrStore`, and `StoreExpired`, the renewal of an entry found expired. The
sweep has a step for the start of `Range`, one per visited key and a separate
`SweepDelete`, because `Range` judges a value and `Delete` then removes a key.
`Restart` empties the map. The proof's iat comes from a client clock that is
off by up to `Skew`; `MaxDelay` is the longest a request takes from the iat
test to the map.

`ReplayGuard` is what `SecureAPI` and `TokenHandler` rely on: one test-and-set
on the set of proofs this process has let through, without a clock, an expiry
or a sweep. JTICache implements it (`ImplementsGuard`): `spent` is the set of
proofs accepted in this lifetime, `covered` those that have been made with the
margin; for a proof without the margin the guard may forget, but still calls
used only what it has let through. IdP and Gateway use the cache in this form:
their `IsJTIUsedAndSave` is the guard's `Accept` or `Reject`, `jtis` its
`spent`, and which proofs are covered is an input. What they promise of a proof
they promise of the covered ones.

### AuditDB
A request runs one of the three operations; each SQL statement is a step.
`session` is what `set_config` leaves on a connection at session level,
`current` the value in force: `InjectContext` (`is_local = true`) sets `current`
alone and the end of the transaction falls back to `session`; a reset
(`ResetOn`, `is_local = false`) sets both, also in the middle of a
transaction, so that a reset on a connection in use would show.
`Visible` and `CheckRow` are the `USING` and `WITH CHECK` of the RLS policies.
`DrawId` and `HashAuditRecord` split the audit insert where PostgreSQL does:
the default of `id` is drawn before the trigger reads the last committed row.
`StatementFails`, `BeginFails`, `CommitFails` (committed or not) and `Crash`
are the faults. `ResetAndReturn` is the reset after a commit,
`DeferredReset` and `Rollback` the deferred cleanup of an error return, in the
code's order: the reset needs a free connection while the first is still held.

`AuditedLedger` is what callers may rely on: an operation and its audit record
happen in one step between call and answer or not at all, a read sees exactly
the caller's own rows of that moment, an error leaves open whether the effect
is there. AuditDB implements it (`ImplementsLedger`) under the mapping `Stage`:
an operation is "read" once its query has run, "done" from the commit on;
statements, connections, settings, triggers and the two rows of an open
transaction map to stutters.

### IdP
`AuthorizeHandler` stores a code and only then may fail, so `delivered` is
separate from `saved`: delivered is a code that was sent off to the
`redirect_uri` of the request, which the code compares with nothing, so anybody
may present it. A `/token` request goes through `LoadCode`,
`DeleteCode`, `CheckGrant` (expiry, secret, PKCE), `VerifyDPoPProof`,
`IsJTIUsedAndSave` and `IssueToken`. Sweep and restart are as in JTICache. The
jti half of the store is ReplayGuard's contract, with `Covered` the proofs for
which it binds. The history variable `late` marks a request that presents
its code after another one has taken it, whatever became of that one: a token,
a failed check or the end of the process.

`CodeExchange` is what `/authorize` and `/token` promise together: a code is
open from the moment it is made until it is closed, once and for good; requests
that come while it is open are in, and when it is closed those who can show that
it is theirs may get a token, one per covered proof; whoever comes later gets
nothing. IdP implements it (`ImplementsExchange`): `Stage` maps a request that
has loaded its code to "in", one past the jti check to "granted", and an open
code is one in the store. That several may be in is the race of `idp_once`; what
the exchange says is that nothing worse comes of it.

### JWKSCache
The IdP side has the key file with its in-between state `Truncated`
(`os.OpenFile` with `O_TRUNC` before the PEM is written), start-up, stop and
loss of the file. The gateway side is `GetPublicKey`: `Hit` under the read
lock; otherwise `Lock`, the request to `/jwks` (`JWKSHandler` answers),
`FetchSucceeds` or `FetchFails`, and `ReadAgain`. The cache is not persisted, so a restart
of the gateway is simply another behaviour.

### Gateway
The chain in the code's order: `VerifyDPoPProof`, `IsJTIUsedAndSave`,
`CheckToken`, `CheckIdentity`, `CheckAccess`, the PDP's `Decide`,
`ReceiveDecision` or `PDPUnavailable`, then `BadRequest` or `Perform`. The PDP's policy changes at any time.
The other components appear as what their modules establish: the replay cache
by its contract (`covered`), the key lookup as an outcome that may fail, the
database as "confirmed: done; error: perhaps done". `ProofMatches` is htm, htu
and ath, the last skipped when the token is empty, which the model allows for an
unsigned token: such a request spends its proof and fails at `CheckToken`.
A request that was `allowed` may stay in its handler for ever, waiting for the
rest of the body or, as `db_pool` shows, for a connection.

`AccessMonitor` is the chain as the data sees it: a reference monitor that
admits a covered proof once per lifetime, grants at one moment by the policy of that
moment to somebody entitled, and then carries out at most once. Gateway
implements it (`ImplementsMonitor`). Under the mapping `Stage` the grant is the
PDP's decision, before the gateway has the answer, or `PDPUnavailable` if
fail-open is configured; token, identity and the remote call are stutters.
`Entitled` is what the checks are for: proof, token and connection of one
client, the proof made for this operation.

### Benchmark
`POST /api/benchmark`, the dashboard route whose state outlives a request. Node
switches between calls only at an `await`, so `POST` and `FetchToken` include
the start of the whole batch (`SendBatch`); the gateway's answers
(`Serve`, with whatever status) are received one by one by `ReceiveOK`,
`ReceiveRefusal` (401 and 403: the cache is emptied) and `ReceiveOther`.
`FetchTokenFails` is the `catch` of `POST`. The requests of a batch are alike
and are counted.

### DashboardRoutes and SOCDashboard
`DashboardRoutes` has the five routes without state as operators from the state
of the service they ask to the body of the answer: `MetricsReply`, `LogsReply`,
`CertsReply` (with `Math.ceil` of a lifetime), `VerifyReply` (one step per row,
`StepValid` as the loop compares links) and `AttackReplies` (the console lines
of the self-tests, by what the IdP or the trigger answers).

`SOCDashboard` composes them with the page and with what they read: the
gateway's telemetry, the committed rows, the certificate files. The browser
runs one piece of script at a time, so a step goes from one `await`, timer or
click to the next with all its setters. A poll is `fetchData` (from `Mount` or
`Interval`), then three times `Answer`, where the service is read, and
`ApplyMetrics`, `ApplyLogs` or `ApplyCerts`, where the page writes: the two are
apart, so that answers of two polls may be applied in the other order. The
check is `handleVerifyChain`, `VerifyAnswer`, `VerifyBegin` and `VerifyBlock`
per step; the simulation `ExecuteAttack`, `AttackAnswer`, `AttackLine` and,
independent of them, `AttackTimer`; the benchmark `runBenchmark`,
`BenchmarkAnswer` and `CooldownTimer`, both of which set the countdown and so
run its effect (`CooldownEffect`: the old timer is cleared and one of 1 s set,
`ticking` until `Second` has passed and `due` until it fires, each with the
value its closure has captured). Guards of buttons are the `disabled`
conditions of the page and that its tab is shown. `Serve`, `StopOrStart`,
`CommitRecord`, `Age` and `Replace` are the services going on meanwhile.
`shown`, `asOf`, `alone`, `clock`, `atClick`, `checked`, `rowsAtAttack` and
`rested` (seconds since the last result of a benchmark) are history. A console line is represented by its tag, a row's hash by its id.

### Abstractions common to all
Cryptography is sound: a hash or HMAC is injective and is represented by what
it was made from, a signature verifies only under its own key. A payload, an
amount or a JSON document is left out. Time is an integer.
Definitions marked `mutant` are deliberately wrong variants; `PROJECT.json`
says which definition each replaces and which property then fails.

## 3. Runs

| run | configuration | checks | bounds |
|---|---|---|---|
| `jti` | `MCJTICache.cfg` | `AcceptedAtMostOnce`, `EntryKeptUntilExpiry`, the refinement `ImplementsGuard`, `ExpiredEntryRemoved` | 2 requests with 1 proof, 1 restart; in units of 30 s Window 2, TTL 4, clocks off by up to 2 (with and without the margin), MaxDelay 1, clock to 6: past the expiry of the first entry, so that it is swept, or renewed by `StoreExpired` |
| `db` | `MCAuditDB.cfg` | `TenantIsolation`, `IdleConnectionClean`, `ContextHeld`, `BalanceCountsConfirmed`, `ChainStaysInTenant`, `ChainValidUnlessOverlapped`, `OnlyPoolBlocks`, the refinement `ImplementsLedger` | 3 requests, 2 tenants, 2 connections: connections are contended, reused by the other tenant, and a third record can follow two overlapping ones |
| `db_answers` | `MCAuditDBLive.cfg` | `EveryRequestAnswered` | fewer requests than connections |
| `idp` | `MCIdP.cfg` | `DuplicateGetsOneToken`, `LateGetsNothing`, the refinement `ImplementsExchange`, `ExpiredCodeRemoved` | 1 code, 2 requests, 2 clients, 2 verifiers, 2 proofs of which 1 is covered, CodeTTL 1, clock to 2, 1 restart |
| `jwks` | `MCJWKSCache.cfg` | `KeyRecentlyPublished`, `OutageTolerated`, `KeySurvivesRestart`, `EveryCallReturns` | 2 calls, 2 keys, TTL 2, Timeout 1, clock to 3: a key is replaced while the old one is cached, and the cache ages out |
| `gateway` | `MCGateway.cfg` | the refinement `ImplementsMonitor`, `HolderBound`, `OneEffectPerProof`, `AnswersTruthful`, `EveryRequestAnswered` | 2 requests with the same proof, covered or not, 2 clients, connections of one of them and without an identity, a write and a read, 1 restart; all rules in force at first, 1 change of the policy, which is then a revocation at any point; Ziti enforced, fail-closed |
| `benchmark` | `MCBenchmark.cfg` | `NeverSendsNull`, `RejectedForgotten`, `StatisticsSound`, `EveryCallAnswered` | 2 calls with batches of 2 requests, 2 tokens: answers to a batch sent with the first token come in after the second was fetched |
| `dash` | `MCSOCDashboard.cfg` | `NewestUnlessOverlapped`, `ScreenConsistent`, `AlarmExplained`, `SecureMeansIntact`, `CompromisedExplained`, `BusyFlags`, `SelfTestTruthful`, `CooldownKept`, `EveryOperationEnds`, `EventuallyFresh` | 2 polls in flight, 2 tenants, 2 rows of which `/api/logs` returns 1, 1 certificate with half days, chart of 2 points, countdown of 2; eleven scenarios (`MCBounds`), each a choice of how many events of each kind may happen |

Some definitions of the modules are in no configuration because they are proved
(section 5): the type invariants; `AuditedTogether` and `CommittedStays`, which
follow from `ImplementsLedger`; `ReplayMeansAccepted` and `Mediated`, which
follow from `ImplementsGuard` and `ImplementsMonitor`; and the theorems that
say more about a liveness property or a finding: `SweepThorough` (JTICache and
IdP), `LockComesBack`, `EnoughConnections`, `BlockedUntilRestart`,
`SecureMeansOneTenant`. TLC has been run on each of these before it was proved.
`Ready` of AuditDB, the guards of a call's next step, was compared with
`ENABLED Work(r)` in all states of `db`; the two agree.

More requests, codes or connections than these add no new kind of conflict:
every property speaks of at most two requests and one proof, code, key or
tenant pair, and the proofs of section 5 drop the bounds for all safety
properties. The scenarios of `dash` keep apart events that meet in no part of
the page's state (say, the certificates and the simulator); each combines
those that do: polls that overlap or fail while what they read changes, commits
during a check, alarms of a simulation and of a record, the gateway going down
between benchmarks. Two rows are enough for a broken, a forked and an intact
chain and for ids committed out of order, a limit of 1 for a full console.
One scenario lets the user leave the tab and come back during a check, another
while benchmarks and their countdown run. In `gateway` the connections of the
second client are left out because the two clients are alike and one proof can
succeed for one of them only: somebody else's connection is the first client's
with the second client's proof and token.
`MaxTime`, `MaxLife`, `MaxRestarts`, `MaxUpdates`,
`MaxKeys` and `MaxTokens` only end the exploration.
`CHECK_DEADLOCK` is off where every request may be finished and nothing else
is bound to happen; symmetry is used only in `db`, which has no liveness
property. That `PDP_FAIL_OPEN` and a gateway without Ziti keep the safety
properties is left to the proofs.

Four more questions have the answer "no" (section 6): `db_pool`, `db_chain`,
`idp_once` and `dash_verdict` each check one sentence of the documentation, and
TLC gives a counterexample.

## 4. Fairness

Weak fairness is assumed only for steps the code takes by itself: a running
goroutine goes on (Go's scheduler), the ticker starts the sweep and the sweep
visits and deletes, a database statement returns a result or an error, an
HTTP fetch ends after 5 s and a PDP call after 80 ms at the latest, because
both have timeouts. In Gateway it is assumed of the middlewares only: a handler
may wait for ever for a body or a connection, and `EveryRequestAnswered` there
says that a request is answered or reaches its handler; that a database call
returns while there are connections enough is the property of the same name in
AuditDB. In the dashboard Node runs what is ready and a `fetch`
ends with an answer or an error, on the server and in the browser; timers fire
and the interval goes on for as long as the page is open, for which seconds pass
(`Second`). Nothing is assumed of
users and clients, of changes of the services, the IdP, the PDP, its
administrator, faults, restarts or the passing of time elsewhere. A request waiting for
a lock or a connection gets it when it is continuously free; no liveness
property needs strong fairness in these instances.

## 5. Proofs

All theorems hold for every value of the constants (any number of requests,
clients, proofs, connections, tenants, any times) under the `ASSUME`s of the
modules, which say no more than that numbers are natural, flags Boolean and
the null values distinct.

**JTICacheProofs.** The cache is only as good as its margin: `InMargin(p)` says
that iat + Window + MaxDelay < mintedAt + TTL, which in the code means a client
clock less than 60 s minus the request's delay ahead. For such a proof the
invariant `IInv` says that it is stale before its entry expires, so a request
never finds its entry expired (`NeverExpired`) and nothing is renewed behind
the sweep's back (`DoomedOK`: a doomed key still has the value the sweep read),
and that the entry of an accepted proof stays while the proof could still be
presented (`GuardOK`). The other conjuncts bound the times of proofs
(`MintOK`), of requests in flight (`FlightOK`) and of entries (`EntryOK`).
`ReplayMeansAccepted` holds for all proofs, with an invariant of its own
(`EntriesExplained`): every entry was put there by a request this process let
through.

The refinement `Spec => ImplementsGuard` takes the two together. The step that
answers a request (`LoadOrStore`, or `StoreExpired` for an entry found expired)
is `Accept` or `Reject`: `GuardOK` says that a covered proof which was spent is
still in the map, so that the request is not told "new"; `EntriesExplained`
says that an entry means spent. Clock, iat test passed and sweep map to
stutters. `SweepsThorough` is the safety half of `ExpiredEntryRemoved`: as long
as no request takes longer than an entry lives (`MaxDelay <= TTL`), what a
sweep has passed had not expired when it started.

**AuditDBProofs.** Invariants in layers, each using the ones before:
`Typed`; `PoolInv` (every connection has one holder, what a connection would fall
back to is always empty, what is in force is the holder's, and resets reach free
connections only); `ReadsOK`; `RowsInv`
(pending and committed rows come in pairs); `ChainLinks` (ids are distinct and
links lead to committed rows of the tenant); and `ChainInv`, whose `WritersOK`
says that the only writer of a tenant without overlaps has a higher id than
all its committed rows and has read the last of them. `BalanceInv` carries
`acked` from arrival to answer. Without these, e.g. `TenantIsolation` is not
inductive: it says nothing of the setting a query is about to run under.

The refinement `Spec => ImplementsLedger` uses these layers. `StageStays` and
`StageMoves` say which steps leave the mapped stages alone and how the others
move them; `LedgerWork` takes the steps of a request one by one (most stutter,
a query is `Read`, a commit is `Perform`, of both rows at once by
`RowsInv`, an answer is `Confirm` or `Fail`), `LedgerFaults` the failures and
the crash (`FailAll`). That a query's result is exactly the tenant's
rows is where row-level security and `PoolInv` come in.

Who waits for whom: `PoolIsTheOnlyWait` says that a call has its next step
(`Ready`) or needs a connection of an exhausted pool, and that an exhausted
pool has a holder that can go on unless the state is `Blocked`: every
connection is held by a failing call. It needs that the settings are in place
at every statement (`PoolInv`) and that the trigger's query has an answer
(`LastHashExists`: ids are bounded by the sequence, and the least bound of a
set of rows is the id of one of them, since natural numbers are well-founded).
`DeadlockIsFinal` says that `Blocked` ends only with the process.
`PoolSuffices` gives the other side: with fewer calls under way than
connections none ever waits, by the injection from connections to holders
(`HoldersCounted`); it is the safety half of run `db_answers`.

**IdPProofs.** `IdPInv`: where a code is while requests hold it, that a proof
used for a token is in the jti set or its code is dead, what a request at each
stage has shown, and that two requests past the jti check do not have the same
covered proof. A restart forgets the proofs but also the codes, which is why
`DuplicateGetsOneToken` survives it. `LateGetsNothing` rests on the first part:
once a request is past `DeleteCode` the code is in nobody's hands but those who
loaded it before. `SweepsThorough` is as in JTICacheProofs.
The refinement `Spec => ImplementsExchange` takes the steps one by one:
`AuthorizeHandler` is `Make`, `LoadCode` is `Enter` or `Refuse`, the first
`DeleteCode` and the sweep's are `Close` (a second `Delete` is a stutter), the
jti check is `Grant`, where `IdPInv` supplies that the code is no longer in the
store and that the request has shown secret and verifier.

**JWKSCacheProofs.** `CacheInv`: the order of the times, mutual exclusion of
fetches, that the cached key was published at or after `lastUpdate - Timeout`,
and what the local copies of a call may be. For `KeySurvivesRestart` a second
invariant, `KeyInv`, counts: the keys given out together with the one on file
and the one in use are at most the losses of the file plus the one on file; a
crash between creating and writing the file leaves one that stops the IdP, not
one that lets it choose another key. `LockReturns` is the safety half of
`EveryCallReturns`: a held lock belongs to a call whose HTTP request is not
older than its timeout.

**GatewayProofs.** `ChainInv`: what a request at each stage has shown
(`ChecksOK`), which decision it has (`DecisionsOK`), that its proof is in the
cache of its lifetime (`SpentOK`) and that no two requests of a lifetime with
the same covered proof are past the cache (`ExclusiveOK`). Of a proof that is
not covered nothing is claimed.
The refinement `Spec => ImplementsMonitor` adds `UndecidedOK` (a request that
has not asked has no decision, so that a restart or a second delivery cannot
inherit one). `EntitledThere` turns `ChecksOK` into `Entitled` at the moment of
the grant, `MonitorHandle` takes the steps of a request and `MonitorOther` the
PDP, its policy and the restart.

**BenchmarkProofs.** `BenchmarkInv`: only a running call has requests under way
(`BatchesOK`), and every token held, used or rejected is one that was issued
(`TokensOK`), so that the next token fetched is not among the rejected ones.
`TypeOK` is part of it and not inductive alone: that a refusal concerns a token
follows from `BatchesOK` and `NeverSendsNull`.

**SOCDashboardProofs.** For any number of polls in flight, rows, tenants and
certificates, and any `Bounds`. The invariant falls into parts that speak of
different variables, each proved with the ones it needs: `ServerOK` (the
services; the ledger only grows), `LeftOK`, `BenchInv` (no countdown and no old
error while a benchmark runs; its `CountdownOK`: a pending timer
has captured the number on the button, and that number covers the rest of the
cooldown, with a second to spare if the timer is due), `FeedInv` (its `OrderOK`: while a poll is alone
nobody else is in flight, and everything on the screen is at most as new as its
answer), `InboxInv` (an answer counts its own certificates and its rows are
finite), `ScreenInv`, `AlarmInv`, `AttackInv` (`Truth` of the lines that still
wait to be shown, kept because rows are never removed) and `VerifyInv`
(`Reading`: the rows of the click were read and the steps that have left the
queue were valid). `ValidIsIntact` shows that what the route checks, link by
link, is that the rows form one chain, and `FirstIsStep` that the loop's next
step exists (natural numbers are well-founded). Neither the verdicts nor the
consoles are inductive alone: they are about what was read before and is shown
later. `TypeCorrect` puts the parts together.

`SecureIsOneTenant`: an intact chain of rows of the ledger has one tenant. The
rows of the ledger link within tenants (`LedgerOK`, which is what AuditDB's
`ChainsSeparate` establishes of the table); the first record of a second tenant
in id order would have to continue an earlier one of that tenant, or start from
the genesis hash behind a record of the first (`IntactIsOneTenant`).

Only model-checked: the liveness properties (`ExpiredEntryRemoved`,
`ExpiredCodeRemoved`, `EveryRequestAnswered` of both modules,
`EveryCallReturns`, `EveryCallAnswered`, `EveryOperationEnds`,
`EventuallyFresh`), which the prover does not support. For four of them the
safety half is proved (`SweepsThorough` twice, `PoolSuffices`, `LockReturns`).

## 6. Where code and documents disagree

1. `db_pool`: on errors `db.go` asks for a second connection before it gives
   back the first; enough simultaneous errors block the pool for good. Rolling
   back first cures it. `DeadlockIsFinal` and `PoolSuffices` say the same of any
   pool: for good once all holders fail, never with fewer calls than
   connections.
2. `db_chain`: overlapping audit inserts of one tenant fork the chain. It is
   valid exactly as far as `ChainValidUnlessOverlapped` says.
3. `idp_once`: two requests between `Load` and `Delete` both get the code.
   `LoadAndDelete` cures it. What holds is `DuplicateGetsOneToken`,
   `LateGetsNothing` and, of all requests together, `ImplementsExchange`.
4. `dash_verdict`: the page's check takes the records of all tenants for one
   chain, the trigger makes one per tenant. One record of each of two tenants
   and the card says "INTEGRITY COMPROMISED" and "A modification attempt or
   broken hash-link was detected". Checking tenant by tenant cures it. What
   holds is `CompromisedExplained`; `SecureIsOneTenant` says that as soon as two
   tenants have records no check ends with "INTEGRITY SECURE".

Observations without a run:

- The iat test of `VerifyDPoPProof` admits 60 s on either side, both ends
  included, and a cache entry lives 2 min: the two windows just meet, and a
  client clock 60 s ahead leaves no time for a delay between the test and the
  cache. `AcceptedAtMostOnce` states the margin (`InMargin`); a longer TTL
  makes it unconditional. What gateway and IdP promise of a proof
  (`OneEffectPerProof`, `ImplementsMonitor`, `DuplicateGetsOneToken`,
  `ImplementsExchange`) is conditional on it in the same way: a proof without
  the margin may be let through twice.
- `/authorize` sends a code to whatever `redirect_uri` the request names; there
  is no registration to compare it with. Secret, verifier and proof at `/token`
  are what ties a token to a client.
- A `/token` request that fails a check has used up its code all the same
  (`DeleteCode` precedes `CheckGrant`), where `docs/security/threat-model.md`
  speaks of removal after a successful exchange; `LateGetsNothing` covers what
  the code guarantees.
- After a failed fetch `GetPublicKey` falls back on the key it had read before
  it waited for the lock, not on what is in the cache by then.
- A late 401 to an old token makes `benchmark/route.ts` drop the newer token it
  holds, which costs a fetch and nothing else; a request whose error body
  cannot be read leaves two durations in its statistics, which is why
  `StatisticsSound` bounds their number from below only.
- The self-tests "replay" and "escape" of `attack/route.ts` read
  `access_token` from the answer of `/authorize`, which gives a code only; the
  hash of `undefined` throws, and both end in an error (`NeedsToken`).
- The self-test "tamper" reports [FAILED] on a ledger without a record 1, since
  a trigger FOR EACH ROW does not run (`TamperLines`).
- Of today's actions (`CREATE_TRANSACTION`, `GET_BALANCE`) none is CRITICAL to
  the page; it is checked for any action text.
- A check that cannot reach the database is shown as "INTEGRITY COMPROMISED",
  told apart only by the console's last line (`CompromisedExplained`).
- `verify-chain` compares links and never recomputes a `block_hash`, so that
  "SECURE" is about the links (`Intact`).
- A poll takes back the alarm of a simulation before its 4 s are over.

## 7. Not modelled

The OpenZiti wrappers, certificate and deployment scripts are I/O without state
of their own; the gRPC code is generated; constructing the PDP connection is
configuration; `RequireRole` is not used by any route. The local policy engine
is not wired to a route: it compares three strings with a fixed list of rules.
The client makes one pass without retry; its requests are inputs of IdP and
Gateway and its proofs an action of JTICache. Of the page, the node panel
(which keeps the values of the click that opened it), the drawing of charts and
the tabs that only display are left out; of telemetry, the single counters and
gauges. The refresh token is an opaque string that no endpoint accepts.

## 8. Plan

Done, each with its runs and proofs: JTICache with its refinement of
ReplayGuard, AuditDB with its refinement of AuditedLedger, IdP with its
refinement of CodeExchange, JWKSCache, Gateway with its refinement of
AccessMonitor, Benchmark, DashboardRoutes and SOCDashboard. Left, in order of importance:

1. The client's pass composed with IdP and Gateway: a token obtained is usable,
   and what a repeated call after a lost answer may do twice.
2. The local policy engine as an operator, compared with the relation given by
   its rules, once a route uses it.
