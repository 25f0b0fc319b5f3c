---------------------------- MODULE SOCDashboard ----------------------------
(***************************************************************************)
(* The page of the dashboard (SOCDashboard in dashboard/src/app/page.tsx)  *)
(* together with the routes it calls and what those routes look at: the    *)
(* gateway's telemetry, the table audit_logs and the certificate files.    *)
(*                                                                         *)
(* The browser runs one piece of script at a time: a step of the page is   *)
(* what it does from one await, timer or click to the next, with all the   *)
(* state setters in between (React applies them together).  Every 1.5 s a  *)
(* poll is started whether the ones before have ended or not; a poll asks  *)
(* /api/metrics, /api/logs and /api/certs, one after the other.  Of an     *)
(* answer to a poll the instant at which the service was read and the      *)
(* instant at which the page applies it are two steps: answers of two      *)
(* polls may be applied in the other order.                                *)
(*                                                                         *)
(* Three buttons start operations of their own: the check of the ledger,   *)
(* the attack simulation (a self-test of the defences) and the benchmark.  *)
(*                                                                         *)
(* A load of the page is one behaviour; what is on the server when it is   *)
(* loaded is Init's choice.                                                *)
(***************************************************************************)
EXTENDS DashboardRoutes

CONSTANTS
    Polls,           \* bound: polls that may be in flight at once
    HistoryLength,   \* points of the latency chart            (10)
    CooldownTime,    \* seconds between two benchmarks         (30)
    MaxId,           \* bound: highest id of a row
    Lifetime,        \* of a new certificate, in units
    Bounds           \* bound: how many events of each kind may happen

Sources == {"metrics", "logs", "certs"}

\* The kinds of events that are bounded.
Kinds == {"gateway", "ledger", "critical", "certs", "faults", "overlaps",
          "checks", "simulations", "benchmarks", "tabs"}

ASSUME PageAssumption ==
    /\ HistoryLength \in Nat /\ HistoryLength >= 2
    /\ CooldownTime \in Nat /\ MaxId \in Nat /\ Lifetime \in Int
    /\ Bounds \subseteq [Kinds -> Nat]

VARIABLES
    gateway,         \* [up, served, gauge]: the process and its telemetry
    ledger,          \* the committed rows of audit_logs
    files,           \* the certificate files and their remaining lifetime
    left,            \* what is left of the bounds
    clock,           \* history: changes of gateway, ledger and files so far
    \* the polls
    isMounted, stage, phase, inbox,
    asOf, alone,               \* history: see Answer and StartPoll
    shown,                     \* history: the time of what is on the screen
    \* what a poll puts on the screen
    isOffline, errorMessage, throughput, activeTunnels, latencyHistory,
    logs, identities, healthStatus, certificates, expiringCertsCount,
    \* the check of the ledger
    isVerifying, verifyPC, queue, verificationSteps, verificationSuccess,
    atClick, checked,          \* history: rows at the click, rows read
    \* the attack simulation
    isAttacking, attackPC, lines, attackSteps,
    alarms,                    \* pending setTimeout(..., 4000)
    rowsAtAttack,              \* history: rows at the click
    \* the benchmark
    isBenchmarking, benchmarkResult, benchmarkError, cooldown,
    ticking, due,              \* pending setTimeout(() => setCooldown(cooldown - 1), 1000),
                               \* by the cooldown they captured: younger than a second,
                               \* and a second old or more
    rested,                    \* history: seconds since the last result, up to CooldownTime
    activeTab

serverVars  == <<gateway, ledger, files, clock>>
pollVars    == <<isMounted, stage, phase, inbox, asOf, alone>>
metricsVars == <<isOffline, errorMessage, throughput, activeTunnels, latencyHistory>>
logsVars    == <<logs, identities>>
certsVars   == <<certificates, expiringCertsCount>>
verifyVars  == <<isVerifying, verifyPC, queue, verificationSteps, verificationSuccess,
                 atClick, checked>>
attackVars  == <<isAttacking, attackPC, lines, attackSteps, rowsAtAttack>>
cooldownVars == <<cooldown, ticking, due, rested>>
benchVars   == <<isBenchmarking, benchmarkResult, benchmarkError, cooldownVars>>
vars == <<serverVars, left, pollVars, shown, metricsVars, logsVars, certsVars,
          healthStatus, alarms, verifyVars, attackVars, benchVars, activeTab>>

\* Everything but what a poll reads and writes.
operationVars == <<verifyVars, attackVars, benchVars, alarms, activeTab>>
screenVars    == <<metricsVars, logsVars, certsVars, healthStatus, shown>>

\* The tabs with a button of their own; "other" stands for the eight that
\* only display.
Tabs == {"other", "ledger", "attacks", "performance"}

\* The lines of the two consoles: that of the check, and that of the
\* simulator, which begins with the type of the simulation.
CheckLines  == {"connect", "access", "found", "block", "fail", "error", "allVerified", "verified"}
AttackLines == AttackTypes \cup Tags

NoCert  == [exists |-> FALSE, days |-> 0]
Nothing == [metrics |-> [requests |-> 0, overhead |-> 0], logs |-> {},
            certs |-> [certificates |-> [f \in Files |-> NoCert], expiringCount |-> 0]]

InitServer ==
    /\ gateway = [up |-> TRUE, served |-> 0, gauge |-> 0]
    /\ ledger = {}
    /\ files = [f \in Files |-> [exists |-> TRUE, units |-> Lifetime]]
    /\ left \in Bounds /\ clock = 0

InitFeed ==
    /\ isMounted = FALSE
    /\ stage = [p \in Polls |-> "metrics"] /\ phase = [p \in Polls |-> "idle"]
    /\ inbox = [p \in Polls |-> Nothing]
    /\ asOf = [p \in Polls |-> 0]
    /\ alone = [p \in Polls |-> TRUE]
    /\ shown = [s \in Sources |-> 0]
    /\ isOffline = TRUE /\ errorMessage = FALSE
    /\ throughput = 0 /\ activeTunnels = 0 /\ latencyHistory = << >>
    /\ logs = {} /\ identities = {} /\ healthStatus = "HEALTHY"
    /\ certificates = [f \in Files |-> NoCert] /\ expiringCertsCount = 0

InitOperations ==
    /\ isVerifying = FALSE /\ verifyPC = "idle" /\ queue = {}
    /\ verificationSteps = << >> /\ verificationSuccess = "null"
    /\ atClick = {} /\ checked = {}
    /\ isAttacking = "null" /\ attackPC = "idle" /\ lines = << >>
    /\ attackSteps = << >> /\ alarms = 0 /\ rowsAtAttack = {}
    /\ isBenchmarking = FALSE /\ benchmarkResult = FALSE /\ benchmarkError = FALSE
    /\ cooldown = 0 /\ ticking = {} /\ due = {} /\ rested = CooldownTime
    /\ activeTab = "other"

Init == InitServer /\ InitFeed /\ InitOperations

\* One of the events of kind k that the bounds allow.
Spend(k) == left[k] > 0 /\ left' = [left EXCEPT ![k] = @ - 1]

-----------------------------------------------------------------------------
(* The services behind the routes.                                         *)

Changes(k) ==
    /\ Spend(k)
    /\ clock' = clock + 1
    /\ UNCHANGED <<pollVars, screenVars, operationVars>>

\* A handler of the gateway counts its request and records its latencies.
Serve ==
    /\ gateway.up
    /\ \E g \in {0, 1} :
          gateway' = [gateway EXCEPT !.served = @ + 1, !.gauge = g]
    /\ Changes("gateway") /\ UNCHANGED <<ledger, files>>

\* The process stops, or starts with empty telemetry.
StopOrStart ==
    /\ gateway' = [up |-> ~gateway.up, served |-> 0, gauge |-> 0]
    /\ Changes("gateway") /\ UNCHANGED <<ledger, files>>

\* A transaction commits an audit record.  Ids are drawn before the commit,
\* so that they need not come in order, and the record continues one of its
\* tenant's that was committed when it was hashed, or none (AuditDB).
CommitRecord ==
    /\ \E i \in 1..MaxId, t \in Tenants, a \in Actions :
          /\ \A r \in ledger : r.id # i
          /\ \E h \in {Genesis} \cup {r.id : r \in {q \in ledger : q.tenant = t}} :
                ledger' = ledger \cup {[id |-> i, tenant |-> t, action |-> a, prev |-> h]}
          /\ Changes(IF a \in CriticalActions THEN "critical" ELSE "ledger")
    /\ UNCHANGED <<gateway, files>>

\* Time passes for the certificates.
Age ==
    /\ files' = [f \in Files |-> [files[f] EXCEPT !.units = @ - 1]]
    /\ Changes("certs") /\ UNCHANGED <<gateway, ledger>>

\* scripts write a new certificate, or the directory is cleaned.
Replace ==
    /\ \E f \in Files, e \in BOOLEAN :
          files' = [files EXCEPT ![f] = [exists |-> e, units |-> Lifetime]]
    /\ Changes("certs") /\ UNCHANGED <<gateway, ledger>>

-----------------------------------------------------------------------------
(* The polls: fetchData.                                                   *)

InFlight(p) == phase[p] # "idle"
Answered(p) == phase[p] \in {"ok", "failed"}

\* fetchData is called.  History: alone[p] says that no other poll has been in
\* flight since p was started.
StartPoll(p) ==
    /\ stage' = [stage EXCEPT ![p] = "metrics"]
    /\ phase' = [phase EXCEPT ![p] = "sent"]
    /\ alone' = [q \in Polls |-> IF q = p THEN \A r \in Polls \ {p} : ~InFlight(r)
                                          ELSE ~InFlight(q)]
    /\ \/ (\A r \in Polls : ~InFlight(r)) /\ UNCHANGED left
       \/ (\E r \in Polls : InFlight(r)) /\ Spend("overlaps")
    /\ UNCHANGED <<serverVars, inbox, asOf, screenVars, operationVars>>

\* Polls are alike: any name that is not in use will do.
fetchData ==
    /\ \E p \in Polls : ~InFlight(p)
    /\ StartPoll(CHOOSE p \in Polls : ~InFlight(p))

\* The page is mounted: the first poll, and the interval is set up.
Mount ==
    /\ ~isMounted
    /\ isMounted' = TRUE
    /\ fetchData

\* setInterval(fetchData, 1500) does not wait for earlier polls.
Interval ==
    /\ isMounted
    /\ fetchData
    /\ UNCHANGED isMounted

\* mutant: the answer may come from a cache that was filled at the load
AnswerCached(p) ==
    /\ phase[p] = "sent"
    /\ phase' = [phase EXCEPT ![p] = "ok"]
    /\ inbox' = [inbox EXCEPT ![p] = Nothing]
    /\ asOf' \in {[asOf EXCEPT ![p] = clock], [asOf EXCEPT ![p] = 0]}
    /\ UNCHANGED <<serverVars, left, isMounted, stage, alone, screenVars, operationVars>>

\* The route reads its service (or cannot) and answers.  History: asOf[p] is the
\* time of the answer.
Answer(p) ==
    /\ phase[p] = "sent"
    /\ \/ /\ stage[p] = "metrics" => gateway.up
          /\ phase' = [phase EXCEPT ![p] = "ok"]
          /\ inbox' = [inbox EXCEPT ![p] =
                CASE stage[p] = "metrics" -> [Nothing EXCEPT !.metrics = MetricsReply(gateway)]
                  [] stage[p] = "logs"    -> [Nothing EXCEPT !.logs = LogsReply(ledger)]
                  [] stage[p] = "certs"   -> [Nothing EXCEPT !.certs = CertsReply(files)]]
          /\ UNCHANGED left
       \/ /\ \/ stage[p] = "metrics" /\ ~gateway.up /\ UNCHANGED left
             \/ Spend("faults")
          /\ phase' = [phase EXCEPT ![p] = "failed"]
          /\ UNCHANGED inbox
    /\ asOf' = [asOf EXCEPT ![p] = clock]
    /\ UNCHANGED <<serverVars, isMounted, stage, alone, screenVars, operationVars>>

Then(p, next) ==
    /\ stage' = [stage EXCEPT ![p] = next]
    /\ phase' = [phase EXCEPT ![p] = IF next = "metrics" THEN "idle" ELSE "sent"]
    /\ inbox' = [inbox EXCEPT ![p] = Nothing]
    /\ asOf' = [asOf EXCEPT ![p] = 0]
    /\ UNCHANGED <<serverVars, left, isMounted, alone, operationVars>>

\* mutant: prev.slice(-10)
WindowTooLong(history, entry) ==
    Append(SubSeq(history, IF Len(history) <= HistoryLength THEN 1 ELSE 2, Len(history)), entry)

\* prev.slice(-9) and the new entry
Window(history, entry) ==
    Append(SubSeq(history, IF Len(history) < HistoryLength THEN 1 ELSE 2, Len(history)), entry)

ApplyMetrics(p) ==
    LET data == inbox[p].metrics IN
    /\ stage[p] = "metrics" /\ Answered(p)
    /\ \/ /\ phase[p] = "ok"
          /\ activeTunnels' = IF data.overhead > 0 THEN 1 ELSE 0
          /\ throughput' = data.requests
          /\ latencyHistory' = Window(latencyHistory, data.overhead)
          /\ isOffline' = FALSE /\ errorMessage' = FALSE
       \/ /\ phase[p] = "failed"
          /\ isOffline' = TRUE /\ errorMessage' = TRUE
          /\ UNCHANGED <<activeTunnels, throughput, latencyHistory>>
    /\ shown' = [shown EXCEPT !["metrics"] = asOf[p]]
    /\ Then(p, "logs")
    /\ UNCHANGED <<logsVars, certsVars, healthStatus>>

Level(action) ==
    IF action \in CriticalActions THEN "CRITICAL"
    ELSE IF action \in WarningActions THEN "WARNING" ELSE "INFO"

LogEvents(rows) == {[id |-> r.id, level |-> Level(r.action)] : r \in rows}
Critical(events) == {l \in events : l.level = "CRITICAL"}

\* mutant: the status is computed from the state of the last rendering
ShowLogsStale(rows) ==
    /\ logs' = LogEvents(rows)
    /\ identities' = {r.tenant : r \in rows}
    /\ healthStatus' = IF Critical(logs) # {} THEN "UNDER_ATTACK" ELSE "HEALTHY"

\* dbLogs, the identities and the status, all three from one answer.
ShowLogs(rows) ==
    /\ logs' = LogEvents(rows)
    /\ identities' = {r.tenant : r \in rows}
    /\ healthStatus' = IF Critical(LogEvents(rows)) # {} THEN "UNDER_ATTACK" ELSE "HEALTHY"

ApplyLogs(p) ==
    /\ stage[p] = "logs" /\ Answered(p)
    /\ \/ /\ phase[p] = "ok"
          /\ ShowLogs(inbox[p].logs)
          /\ shown' = [shown EXCEPT !["logs"] = asOf[p]]
       \/ /\ phase[p] = "failed"
          /\ UNCHANGED <<logsVars, healthStatus, shown>>
    /\ Then(p, "certs")
    /\ UNCHANGED <<metricsVars, certsVars>>

ApplyCerts(p) ==
    /\ stage[p] = "certs" /\ Answered(p)
    /\ \/ /\ phase[p] = "ok"
          /\ certificates' = inbox[p].certs.certificates
          /\ expiringCertsCount' = inbox[p].certs.expiringCount
          /\ shown' = [shown EXCEPT !["certs"] = asOf[p]]
       \/ /\ phase[p] = "failed"
          /\ UNCHANGED <<certsVars, shown>>
    /\ Then(p, "metrics")
    /\ UNCHANGED <<metricsVars, logsVars, healthStatus>>

PollStep(p) == Answer(p) \/ ApplyMetrics(p) \/ ApplyLogs(p) \/ ApplyCerts(p)

-----------------------------------------------------------------------------
(* The check of the ledger: handleVerifyChain.                             *)

feedVars == <<pollVars, metricsVars, logsVars, certsVars, shown>>

\* The button of the tab "ledger" is disabled while a check runs.
VerifyButton == activeTab = "ledger" /\ ~isVerifying

\* The handler itself has no guard.
handleVerifyChain ==
    /\ VerifyButton
    /\ Spend("checks")
    /\ isVerifying' = TRUE /\ verificationSuccess' = "null"
    /\ verificationSteps' = <<"connect", "access">>
    /\ verifyPC' = "connecting" /\ queue' = {}
    /\ atClick' = ledger /\ checked' = {}
    /\ UNCHANGED <<serverVars, feedVars, healthStatus, alarms, attackVars, benchVars, activeTab>>

\* What a step of a running check leaves alone.
VerifyFrame == UNCHANGED <<serverVars, feedVars, healthStatus, alarms, attackVars, benchVars,
                           activeTab, atClick>>

\* mutant: the early return forgets the flag
ConcludeBusy(conclusion, verdict) ==
    /\ verificationSteps' = verificationSteps \o conclusion
    /\ verificationSuccess' = verdict
    /\ UNCHANGED isVerifying
    /\ verifyPC' = "idle" /\ queue' = {}

\* The check ends: with the lines of its conclusion and its verdict.
Conclude(conclusion, verdict) ==
    /\ verificationSteps' = verificationSteps \o conclusion
    /\ verificationSuccess' = verdict
    /\ isVerifying' = FALSE
    /\ verifyPC' = "idle" /\ queue' = {}

\* delay(600) is over, the route reads the table and answers; or it fails.
VerifyAnswer ==
    /\ verifyPC = "connecting"
    /\ \/ /\ verificationSteps' = Append(verificationSteps, "found")
          /\ verifyPC' = "found" /\ queue' = VerifyReply(ledger)
          /\ checked' = ledger
          /\ UNCHANGED <<left, isVerifying, verificationSuccess>>
       \/ /\ Spend("faults")
          /\ Conclude(<<"error">>, "false")
          /\ UNCHANGED checked
    /\ VerifyFrame

First(steps) == CHOOSE s \in steps : \A t \in steps : s.id <= t.id

\* The top of the loop: the next step is announced, or there is none.
\* isValid of the answer is that all steps are valid, and they have been.
NextStep(rest) ==
    \/ /\ rest # {}
       /\ verificationSteps' = Append(verificationSteps, "block")
       /\ verifyPC' = "block" /\ queue' = rest
       /\ UNCHANGED <<isVerifying, verificationSuccess>>
    \/ /\ rest = {}
       /\ Conclude(<<"allVerified", "verified">>, "true")

\* delay(500) is over.
VerifyBegin ==
    /\ verifyPC = "found"
    /\ NextStep(queue)
    /\ UNCHANGED <<left, checked>> /\ VerifyFrame

\* delay(100) is over: the announced step is looked at.
VerifyBlock ==
    /\ verifyPC = "block"
    /\ \/ First(queue).valid /\ NextStep(queue \ {First(queue)})
       \/ ~First(queue).valid /\ Conclude(<<"fail">>, "false")
    /\ UNCHANGED <<left, checked>> /\ VerifyFrame

VerifyStep == VerifyAnswer \/ VerifyBegin \/ VerifyBlock

\* The card "Ledger Integrity State".
LedgerCard ==
    CASE verificationSuccess = "null"  -> "Waiting for check"
      [] verificationSuccess = "true"  -> "INTEGRITY SECURE"
      [] verificationSuccess = "false" -> "INTEGRITY COMPROMISED"

-----------------------------------------------------------------------------
(* The attack simulation: runAttackSimulation and the alarm of its button. *)

AttackFrame == UNCHANGED <<serverVars, feedVars, verifyVars, benchVars, activeTab>>

\* onClick: the simulation is started, the alarm is shown, and a timer that
\* nobody cancels will take it back.
ExecuteAttack(type) ==
    /\ activeTab = "attacks" /\ isAttacking = "null"
    /\ Spend("simulations")
    /\ isAttacking' = type /\ attackSteps' = <<type>>
    /\ attackPC' = "sent" /\ lines' = << >>
    /\ healthStatus' = "UNDER_ATTACK" /\ alarms' = alarms + 1
    /\ rowsAtAttack' = ledger
    /\ AttackFrame

AttackTimer ==
    /\ alarms > 0
    /\ alarms' = alarms - 1
    /\ healthStatus' = "HEALTHY"
    /\ UNCHANGED <<left, attackVars>> /\ AttackFrame

EndAttack == isAttacking' = "null" /\ attackPC' = "idle" /\ lines' = << >>

\* The route answers: with lines, which are then shown one by one, or with
\* an error.
AttackAnswer ==
    /\ attackPC = "sent"
    /\ \E reply \in AttackReplies(isAttacking, ledger) \cup {AttackUnreachable(isAttacking)} :
          /\ \/ reply \in AttackReplies(isAttacking, ledger) /\ UNCHANGED left
             \/ reply \notin AttackReplies(isAttacking, ledger) /\ Spend("faults")
          /\ \/ /\ reply # ErrorReply
                /\ attackPC' = "lines" /\ lines' = reply
                /\ UNCHANGED <<isAttacking, attackSteps>>
             \/ /\ reply = ErrorReply
                /\ attackSteps' = Append(attackSteps, "error")
                /\ EndAttack
    /\ UNCHANGED <<healthStatus, alarms, rowsAtAttack>> /\ AttackFrame

\* 500 ms later: one more line; after the last one the button is enabled.
AttackLine ==
    /\ attackPC = "lines"
    /\ attackSteps' = Append(attackSteps, Head(lines))
    /\ \/ Len(lines) > 1 /\ lines' = Tail(lines) /\ UNCHANGED <<isAttacking, attackPC>>
       \/ Len(lines) = 1 /\ EndAttack
    /\ UNCHANGED <<left, healthStatus, alarms, rowsAtAttack>> /\ AttackFrame

-----------------------------------------------------------------------------
(* The benchmark: runBenchmark (the route is module Benchmark).            *)

BenchFrame == UNCHANGED <<serverVars, feedVars, healthStatus, alarms, verifyVars, attackVars,
                          activeTab>>

\* The button is also disabled while the gateway is thought to be down.
BenchmarkButton ==
    activeTab = "performance" /\ ~isBenchmarking /\ cooldown = 0 /\ ~isOffline

\* The handler looks at two of the button's conditions again.
runBenchmark ==
    /\ BenchmarkButton
    /\ cooldown = 0 /\ ~isBenchmarking
    /\ Spend("benchmarks")
    /\ isBenchmarking' = TRUE
    /\ benchmarkError' = FALSE /\ benchmarkResult' = FALSE
    /\ UNCHANGED cooldownVars /\ BenchFrame

\* mutant: the delay of setTimeout is left out
CooldownEffectAtOnce ==
    /\ ticking' = {}
    /\ due' = IF cooldown' > 0 THEN {cooldown'} ELSE {}

\* mutant: the effect does not depend on [cooldown]
CooldownEffectOnce ==
    /\ ticking' = IF cooldown' = CooldownTime /\ cooldown' > 0 THEN {cooldown'} ELSE {}
    /\ due' = {}

\* The effect on [cooldown]: what is pending is cleared, and a timer is set
\* unless the countdown is over.
CooldownEffect ==
    /\ ticking' = IF cooldown' > 0 THEN {cooldown'} ELSE {}
    /\ due' = {}

\* POST /api/benchmark answers with the statistics or an error.
BenchmarkAnswer ==
    /\ isBenchmarking
    /\ \/ /\ benchmarkResult' = TRUE /\ cooldown' = CooldownTime
          /\ CooldownEffect /\ rested' = 0
          /\ UNCHANGED benchmarkError
       \/ /\ benchmarkError' = TRUE
          /\ UNCHANGED <<benchmarkResult, cooldownVars>>
    /\ isBenchmarking' = FALSE
    /\ UNCHANGED left /\ BenchFrame

\* A timer that is due fires: the cooldown is what it captured less one.
CooldownTimer ==
    /\ \E v \in due : cooldown' = v - 1
    /\ CooldownEffect
    /\ UNCHANGED <<left, isBenchmarking, benchmarkResult, benchmarkError, rested>> /\ BenchFrame

\* A second passes.  A timer that is due may not have fired yet: the browser
\* was busy, or the tab was in the background.
Second ==
    /\ ticking # {} \/ rested < CooldownTime
    /\ due' = due \cup ticking /\ ticking' = {}
    /\ rested' = IF rested < CooldownTime THEN rested + 1 ELSE rested
    /\ UNCHANGED <<left, isBenchmarking, benchmarkResult, benchmarkError, cooldown>> /\ BenchFrame

-----------------------------------------------------------------------------
\* The sidebar.
SelectTab(tab) ==
    /\ tab # activeTab
    /\ Spend("tabs")
    /\ activeTab' = tab
    /\ UNCHANGED <<serverVars, feedVars, healthStatus, alarms, verifyVars, attackVars, benchVars>>

ServerNext == Serve \/ StopOrStart \/ CommitRecord \/ Age \/ Replace

Click ==
    \/ handleVerifyChain \/ runBenchmark
    \/ \E type \in AttackTypes : ExecuteAttack(type)
    \/ \E tab \in Tabs : SelectTab(tab)

Feed == Mount \/ Interval \/ \E p \in Polls : PollStep(p)

Next ==
    \/ ServerNext \/ Click \/ Feed
    \/ VerifyStep
    \/ AttackTimer \/ AttackAnswer \/ AttackLine
    \/ BenchmarkAnswer \/ CooldownTimer \/ Second

Spec == Init /\ [][Next]_vars

\* Time passes, timers fire, the interval goes on for as long as the page is open, and
\* every fetch comes back with an answer or an error.  Nothing makes the
\* services change or the user click.
FairSpec ==
    /\ Spec
    /\ WF_vars(Mount) /\ WF_vars(Interval)
    /\ \A p \in Polls : WF_vars(PollStep(p))
    /\ WF_vars(VerifyStep)
    /\ WF_vars(AttackTimer) /\ WF_vars(AttackAnswer \/ AttackLine)
    /\ WF_vars(BenchmarkAnswer) /\ WF_vars(CooldownTimer) /\ WF_vars(Second)

-----------------------------------------------------------------------------
(* What the page shows.                                                    *)

calculateSecurityScore ==
    LET score == 100 - Cardinality(Critical(logs)) * 10 IN
    IF isOffline THEN 0 ELSE IF score > 10 THEN score ELSE 10

\* The certificates printed in red.
RedCertificates == {f \in Files : certificates[f].exists /\ certificates[f].days < ExpiryDays}

\* The lower bar: the latest entry of the chart, or 0.00 ms.
GatewayLatency ==
    IF Len(latencyHistory) > 0 /\ ~isOffline THEN latencyHistory[Len(latencyHistory)] ELSE 0

-----------------------------------------------------------------------------
(* Properties.                                                             *)

\* The variables have the values the code gives them.
TypeOK ==
    /\ gateway \in [up : BOOLEAN, served : Nat, gauge : Nat]
    /\ ledger \subseteq Row /\ clock \in Nat /\ left \in [Kinds -> Nat]
    /\ files \in [Files -> [exists : BOOLEAN, units : Int]]
    /\ isMounted \in BOOLEAN
    /\ stage \in [Polls -> Sources]
    /\ phase \in [Polls -> {"idle", "sent", "ok", "failed"}]
    /\ inbox \in [Polls -> [metrics : MetricsData, logs : SUBSET Row,
                            certs : [certificates : Certs, expiringCount : Nat]]]
    /\ asOf \in [Polls -> Nat] /\ alone \in [Polls -> BOOLEAN]
    /\ shown \in [Sources -> Nat]
    /\ isOffline \in BOOLEAN /\ errorMessage \in BOOLEAN
    /\ throughput \in Nat /\ activeTunnels \in {0, 1}
    /\ latencyHistory \in Seq(Nat)
    /\ logs \subseteq [id : Nat \ {0}, level : {"CRITICAL", "WARNING", "INFO"}]
    /\ identities \subseteq Tenants
    /\ healthStatus \in {"HEALTHY", "UNDER_ATTACK"}
    /\ certificates \in Certs /\ expiringCertsCount \in Nat
    /\ isVerifying \in BOOLEAN /\ verifyPC \in {"idle", "connecting", "found", "block"}
    /\ queue \subseteq Steps
    /\ verificationSteps \in Seq(CheckLines) /\ verificationSuccess \in {"null", "true", "false"}
    /\ atClick \subseteq Row /\ checked \subseteq Row /\ rowsAtAttack \subseteq Row
    /\ isAttacking \in AttackTypes \cup {"null"} /\ attackPC \in {"idle", "sent", "lines"}
    /\ lines \in Seq(Tags) /\ attackSteps \in Seq(AttackLines) /\ alarms \in Nat
    /\ isBenchmarking \in BOOLEAN /\ benchmarkResult \in BOOLEAN
    /\ benchmarkError \in BOOLEAN /\ cooldown \in Nat
    /\ ticking \subseteq Nat /\ due \subseteq Nat /\ rested \in Nat
    /\ activeTab \in Tabs

\* setInterval starts polls that overlap, and nothing numbers them: an answer
\* may replace a newer one on the screen.  But only then: a poll during which
\* no other was in flight never puts older data on the screen than is there.
NewestUnlessOverlapped ==
    [][\A p \in Polls : Answered(p) /\ phase'[p] # phase[p] /\ alone[p]
           => \A s \in Sources : shown'[s] >= shown[s]]_vars

\* Every row continues the row just before it in id order.
Intact(rows) ==
    \A r \in rows : /\ r.prev < r.id
                    /\ r.prev = Genesis \/ \E q \in rows : q.id = r.prev
                    /\ ~\E q \in rows : r.prev < q.id /\ q.id < r.id

\* "INTEGRITY SECURE" vouches for every record that was in the ledger when
\* the button was pressed: they were all in the answer, and the rows of the
\* answer form one chain, although records are committed meanwhile and the
\* steps are shown one by one long after they were read.
SecureMeansIntact ==
    LedgerCard = "INTEGRITY SECURE" => atClick \subseteq checked /\ Intact(checked)

\* The route checks the rows of all tenants as one chain, and each tenant has
\* a chain of its own: "INTEGRITY SECURE" can only be said of a ledger that
\* had records of one tenant when it was read.
SecureMeansOneTenant ==
    LedgerCard = "INTEGRITY SECURE" => \A a, b \in checked : a.tenant = b.tenant

\* "INTEGRITY COMPROMISED" is never left unexplained: the console ends with
\* [FAIL], and then a link is broken in the rows that were read, or with
\* [ERROR], and then nothing was read.
CompromisedExplained ==
    LedgerCard = "INTEGRITY COMPROMISED" =>
        \/ verificationSteps[Len(verificationSteps)] = "fail" /\ ~Intact(checked)
        \/ verificationSteps[Len(verificationSteps)] = "error" /\ checked = {}

\* The flags that disable the buttons are up exactly while the handler is
\* under way, on every way out of it: the early return of a failed check, the
\* catch, the finally.  A card is shown only when no check runs.
BusyFlags ==
    /\ isVerifying <=> verifyPC # "idle"
    /\ isAttacking = "null" <=> attackPC = "idle"
    /\ isVerifying => verificationSuccess = "null"

\* The console of the simulator says [SUCCESS] only of a request that was
\* refused (the IdP refuses a wrong secret; the trigger refuses to change an
\* existing record), and [FAILED] only if there was no record 1 to change
\* when the button was pressed.
SelfTestTruthful ==
    LET last == attackSteps[Len(attackSteps)] IN
    attackSteps # << >> =>
        /\ last = "success" => \/ attackSteps[1] = "spoof"
                               \/ attackSteps[1] = "tamper" /\ \E r \in ledger : r.id = 1
        /\ last = "failed" => attackSteps[1] = "tamper" /\ \A r \in rowsAtAttack : r.id # 1

\* "UNDER ATTACK" has a reason: a critical record among those on the screen,
\* or a simulation whose 4 s are not over.
AlarmExplained ==
    healthStatus = "UNDER_ATTACK" => Critical(logs) # {} \/ alarms > 0

\* The parts of the screen agree, whichever polls wrote them: the card counts
\* the certificates printed in red, a connected page has no error and has a
\* latency to show, the chart never outgrows its window, and the score is
\* full exactly if the page is connected and no threat is counted.
ScreenConsistent ==
    /\ expiringCertsCount = Cardinality(RedCertificates)
    /\ ~isOffline => ~errorMessage /\ latencyHistory # << >>
    /\ Len(latencyHistory) <= HistoryLength
    /\ calculateSecurityScore = 100 <=> ~isOffline /\ Critical(logs) = {}

\* The gateway has CooldownTime seconds of rest after every benchmark that
\* succeeded before the page starts another, and the number on the button is
\* never smaller than what is left of them: the chain of one-second timers
\* that set one another neither runs ahead of time nor doubles.
CooldownKept ==
    /\ isBenchmarking => rested >= CooldownTime
    /\ cooldown + rested >= CooldownTime

\* Every operation ends and its button comes back, also when the tab is left.
EveryOperationEnds ==
    /\ isVerifying ~> ~isVerifying
    /\ isAttacking # "null" ~> isAttacking = "null"
    /\ isBenchmarking ~> ~isBenchmarking
    /\ cooldown > 0 ~> cooldown = 0

\* The console shows the newest rows, as many as there is room for.
ShowsNewest(rows) ==
    /\ logs \subseteq LogEvents(rows)
    /\ logs = LogEvents(rows) \/ Cardinality(logs) = LogsLimit
    /\ \A l \in logs, r \in rows : r.id > l.id => \E k \in logs : k.id = r.id

\* The screen is what the services say now.
Fresh ==
    /\ isOffline = ~gateway.up
    /\ gateway.up => throughput = gateway.served /\ GatewayLatency = gateway.gauge
    /\ ShowsNewest(ledger)
    /\ identities = {r.tenant : r \in {q \in ledger : \E l \in logs : l.id = q.id}}
    /\ healthStatus = "UNDER_ATTACK" <=> Critical(logs) # {}
    /\ \A f \in Files : certificates[f].exists = files[f].exists
    /\ RedCertificates = {f \in Files : /\ files[f].exists
                                       /\ files[f].units <= (ExpiryDays - 1) * UnitsPerDay}

\* Once the services stay as they are, the screen becomes right and stays
\* right: late answers of overlapping polls, failed polls and timers of old
\* alarms are all overtaken.
EventuallyFresh == <>[]Fresh

-----------------------------------------------------------------------------
(* What the page says of its check, and the code does not keep.            *)

\* "INTEGRITY COMPROMISED" means that the hash chain of some tenant is broken.
CompromisedMeansBroken ==
    LedgerCard = "INTEGRITY COMPROMISED" =>
        \E t \in Tenants : ~Intact({r \in checked : r.tenant = t})
=============================================================================
