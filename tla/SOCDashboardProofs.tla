------------------------- MODULE SOCDashboardProofs -------------------------
(***************************************************************************)
(* Theorems about the dashboard's page, for any number of polls in flight, *)
(* of rows, tenants and certificates, and without the bounds on events     *)
(* (Bounds may be any set).  The invariant falls into parts that speak of  *)
(* different variables: the services, the benchmark, the polls and the     *)
(* order of their answers, the screen, the check of the ledger, the        *)
(* simulator.                                                              *)
(***************************************************************************)
EXTENDS SOCDashboard, SequenceTheorems, FiniteSetTheorems, WellFoundedInduction, TLAPS

-----------------------------------------------------------------------------
(* Which parts of the page a step of each kind leaves alone.               *)

PageStep == Click \/ Feed \/ VerifyStep \/ AttackTimer \/ AttackAnswer \/ AttackLine
            \/ BenchmarkAnswer \/ CooldownTimer \/ Second

\* Whatever a service does, the page notices only by asking.
LEMMA ServerFrame ==
    ASSUME ServerNext
    PROVE  UNCHANGED <<pollVars, screenVars, operationVars>>
  BY DEF ServerNext, Serve, StopOrStart, CommitRecord, Age, Replace, Changes

\* The page changes nothing on the server.
LEMMA PageFrame ==
    ASSUME PageStep
    PROVE  UNCHANGED serverVars
<1>1. Click => UNCHANGED serverVars
  BY DEF Click, handleVerifyChain, runBenchmark, BenchFrame, ExecuteAttack, AttackFrame, SelectTab
<1>2. Feed => UNCHANGED serverVars
  BY DEF Feed, Mount, Interval, fetchData, StartPoll, PollStep, Answer, ApplyMetrics, ApplyLogs,
         ApplyCerts, Then
<1>3. VerifyStep => UNCHANGED serverVars
  BY DEF VerifyStep, VerifyAnswer, VerifyBegin, VerifyBlock, VerifyFrame
<1>4. AttackTimer \/ AttackAnswer \/ AttackLine => UNCHANGED serverVars
  BY DEF AttackTimer, AttackAnswer, AttackLine, AttackFrame
<1>5. BenchmarkAnswer \/ CooldownTimer \/ Second => UNCHANGED serverVars
  BY DEF BenchmarkAnswer, CooldownTimer, Second, BenchFrame
<1> QED
  BY <1>1, <1>2, <1>3, <1>4, <1>5 DEF PageStep

\* Polls do not touch the operations.
LEMMA FeedFrame ==
    ASSUME Feed
    PROVE  UNCHANGED <<serverVars, operationVars>>
  BY DEF Feed, Mount, Interval, fetchData, StartPoll, PollStep, Answer, ApplyMetrics, ApplyLogs,
         ApplyCerts, Then

-----------------------------------------------------------------------------
(* The services and the bounds.                                            *)

ServerOK ==
    /\ gateway \in [up : BOOLEAN, served : Nat, gauge : Nat]
    /\ ledger \subseteq Row /\ IsFiniteSet(ledger)
    /\ files \in [Files -> [exists : BOOLEAN, units : Int]]
    /\ clock \in Nat

\* The ledger only grows.
LEMMA LedgerGrows ==
    ASSUME ServerOK, [Next]_vars
    PROVE  ledger \subseteq ledger'
<1>1. CASE ServerNext
  BY <1>1 DEF ServerNext, Serve, StopOrStart, CommitRecord, Age, Replace
<1>2. CASE PageStep
  BY <1>2, PageFrame DEF serverVars
<1> QED
  BY <1>1, <1>2 DEF Next, PageStep, vars, serverVars

LEMMA ServerInvariant == Spec => []ServerOK
<1>1. Init => ServerOK
  BY PageAssumption, FS_EmptySet DEF Init, InitServer, ServerOK
<1>2. ServerOK /\ [Next]_vars => ServerOK'
  <2> SUFFICES ASSUME ServerOK, [Next]_vars PROVE ServerOK'
    OBVIOUS
  <2>1. CASE Serve \/ StopOrStart
    <3>1. gateway' \in [up : BOOLEAN, served : Nat, gauge : Nat]
      <4>1. CASE Serve
        <5>1. PICK g \in {0, 1} : gateway' = [gateway EXCEPT !.served = @ + 1, !.gauge = g]
          BY <4>1 DEF Serve
        <5>2. gateway' = [up |-> gateway.up, served |-> gateway.served + 1, gauge |-> g]
          BY <5>1 DEF ServerOK
        <5>3. gateway.up \in BOOLEAN /\ gateway.served + 1 \in Nat /\ g \in Nat
          BY DEF ServerOK
        <5> QED
          BY <5>2, <5>3
      <4>2. CASE StopOrStart
        <5>1. (~gateway.up) \in BOOLEAN
          OBVIOUS
        <5> QED
          BY <4>2, <5>1 DEF StopOrStart
      <4> QED
        BY <2>1, <4>1, <4>2
    <3>2. UNCHANGED <<ledger, files>> /\ clock' = clock + 1
      BY <2>1 DEF Serve, StopOrStart, Changes
    <3> QED
      BY <3>1, <3>2 DEF ServerOK
  <2>2. CASE CommitRecord
    <3>1. PICK i \in 1..MaxId, t \in Tenants, a \in Actions, h \in Nat :
               ledger' = ledger \cup {[id |-> i, tenant |-> t, action |-> a, prev |-> h]}
      BY <2>2 DEF CommitRecord, ServerOK, Row, Genesis
    <3>2. h \in Nat /\ i \in Nat \ {0}
      BY PageAssumption
    <3>3. ledger' \subseteq Row
      BY <3>1, <3>2 DEF ServerOK, Row
    <3>4. IsFiniteSet(ledger')
      BY <3>1, FS_AddElement DEF ServerOK
    <3>5. UNCHANGED <<gateway, files>> /\ clock' = clock + 1
      BY <2>2 DEF CommitRecord, Changes
    <3> QED
      BY <3>3, <3>4, <3>5 DEF ServerOK
  <2>3. CASE Age
    BY <2>3 DEF Age, Changes, ServerOK
  <2>4. CASE Replace
    BY <2>4, PageAssumption DEF Replace, Changes, ServerOK
  <2>5. CASE PageStep
    BY <2>5, PageFrame DEF serverVars, ServerOK
  <2>6. CASE UNCHANGED vars
    BY <2>6 DEF vars, serverVars, ServerOK
  <2> QED
    BY <2>1, <2>2, <2>3, <2>4, <2>5, <2>6 DEF Next, ServerNext, PageStep
<1> QED
  BY <1>1, <1>2, PTL DEF Spec

LeftOK == left \in [Kinds -> Nat] /\ activeTab \in Tabs

LEMMA LeftInvariant == Spec => []LeftOK
<1>1. Init => LeftOK
  BY PageAssumption DEF Init, InitServer, InitOperations, LeftOK, Tabs
<1>2. LeftOK /\ [Next]_vars => LeftOK'
  <2> SUFFICES ASSUME LeftOK, [Next]_vars PROVE LeftOK'
    OBVIOUS
  <2> USE DEF LeftOK
  <2>1. \A k \in Kinds : Spend(k) => left' \in [Kinds -> Nat]
    BY DEF Spend
  <2>2. CASE ServerNext
    <3>1. \E k \in Kinds : Spend(k)
      BY <2>2 DEF ServerNext, Serve, StopOrStart, CommitRecord, Age, Replace, Changes, Kinds
    <3> QED
      BY <2>1, <2>2, <3>1, ServerFrame DEF operationVars
  <2>3. CASE Click
    <3>1. \E k \in Kinds : Spend(k)
      BY <2>3 DEF Click, handleVerifyChain, runBenchmark, ExecuteAttack, SelectTab, Kinds
    <3>2. activeTab' \in Tabs
      BY <2>3 DEF Click, handleVerifyChain, runBenchmark, BenchFrame, ExecuteAttack, AttackFrame,
                  SelectTab
    <3> QED
      BY <2>1, <3>1, <3>2
  <2>4. CASE Feed
    <3>1. UNCHANGED left \/ \E k \in Kinds : Spend(k)
      BY <2>4 DEF Feed, Mount, Interval, fetchData, StartPoll, PollStep, Answer, ApplyMetrics,
                  ApplyLogs, ApplyCerts, Then, Kinds
    <3> QED
      BY <2>1, <2>4, <3>1, FeedFrame DEF operationVars
  <2>5. CASE VerifyStep
    <3>1. UNCHANGED left \/ \E k \in Kinds : Spend(k)
      BY <2>5 DEF VerifyStep, VerifyAnswer, VerifyBegin, VerifyBlock, Kinds
    <3> QED
      BY <2>1, <2>5, <3>1 DEF VerifyStep, VerifyAnswer, VerifyBegin, VerifyBlock, VerifyFrame
  <2>6. CASE AttackTimer \/ AttackAnswer \/ AttackLine
    <3>1. UNCHANGED left \/ \E k \in Kinds : Spend(k)
      BY <2>6 DEF AttackTimer, AttackAnswer, AttackLine, Kinds
    <3> QED
      BY <2>1, <2>6, <3>1 DEF AttackTimer, AttackAnswer, AttackLine, AttackFrame
  <2>7. CASE BenchmarkAnswer \/ CooldownTimer \/ Second
    BY <2>7 DEF BenchmarkAnswer, CooldownTimer, Second, BenchFrame
  <2>8. CASE UNCHANGED vars
    BY <2>8 DEF vars
  <2> QED
    BY <2>2, <2>3, <2>4, <2>5, <2>6, <2>7, <2>8 DEF Next
<1> QED
  BY <1>1, <1>2, PTL DEF Spec

-----------------------------------------------------------------------------
(* The benchmark.                                                          *)

BenchOK ==
    /\ isBenchmarking \in BOOLEAN /\ benchmarkResult \in BOOLEAN
    /\ benchmarkError \in BOOLEAN

\* A pending timer carries the present number, and a due one has waited for
\* its second: that is why the number cannot run ahead of the seconds.
CountdownOK ==
    /\ cooldown \in Nat /\ rested \in Nat
    /\ ticking \subseteq {cooldown} \ {0} /\ due \subseteq {cooldown} \ {0}
    /\ cooldown + rested >= CooldownTime
    /\ due # {} => cooldown + rested > CooldownTime

\* The countdown is over while a benchmark runs.
BenchInv == BenchOK /\ CountdownOK /\ (isBenchmarking => cooldown = 0)

\* Starting a benchmark, its answer, the timer and the clock keep it so.
LEMMA BenchSteps ==
    ASSUME BenchInv, runBenchmark \/ BenchmarkAnswer \/ CooldownTimer \/ Second
    PROVE  BenchInv'
<1> USE PageAssumption
<1>1. CASE runBenchmark
  <2>1. BenchOK'
    BY <1>1, Zenon DEF runBenchmark, BenchOK
  <2>2. CountdownOK' /\ cooldown' = 0
    BY <1>1 DEF runBenchmark, cooldownVars, BenchInv, CountdownOK
  <2> QED
    BY <2>1, <2>2 DEF BenchInv
<1>2. CASE BenchmarkAnswer
  <2>1. BenchOK' /\ isBenchmarking' = FALSE
    BY <1>2, Zenon DEF BenchmarkAnswer, BenchInv, BenchOK
  <2>2. CASE UNCHANGED cooldownVars
    BY <2>1, <2>2 DEF BenchInv, CountdownOK, cooldownVars
  <2>3. CASE cooldown' = CooldownTime /\ CooldownEffect /\ rested' = 0
    BY <2>1, <2>3 DEF BenchInv, CountdownOK, CooldownEffect
  <2> QED
    BY <1>2, <2>2, <2>3 DEF BenchmarkAnswer
<1>3. CASE CooldownTimer
  <2>1. PICK v \in due : cooldown' = v - 1
    BY <1>3 DEF CooldownTimer
  <2>2. v = cooldown /\ cooldown > 0 /\ cooldown + rested > CooldownTime /\ ~isBenchmarking
    BY DEF BenchInv, CountdownOK
  <2>3. UNCHANGED <<isBenchmarking, benchmarkResult, benchmarkError, rested>> /\ CooldownEffect
    BY <1>3 DEF CooldownTimer
  <2>4. CountdownOK'
    BY <2>1, <2>2, <2>3 DEF BenchInv, CountdownOK, CooldownEffect
  <2> QED
    BY <2>2, <2>3, <2>4 DEF BenchInv, BenchOK
<1>4. CASE Second
  <2>1. /\ due' = due \cup ticking /\ ticking' = {}
        /\ rested' = IF rested < CooldownTime THEN rested + 1 ELSE rested
        /\ UNCHANGED <<isBenchmarking, benchmarkResult, benchmarkError, cooldown>>
    BY <1>4 DEF Second
  <2>2. CASE rested < CooldownTime
    <3>1. CountdownOK'
      BY <2>1, <2>2 DEF BenchInv, CountdownOK
    <3> QED
      BY <2>1, <3>1 DEF BenchInv, BenchOK
  <2>3. CASE ~(rested < CooldownTime)
    \* whatever is pending carries a positive number
    <3>1. due' \subseteq {cooldown} \ {0} /\ rested' = rested /\ rested >= CooldownTime
      BY <2>1, <2>3 DEF BenchInv, CountdownOK
    <3>2. ASSUME due' # {} PROVE cooldown > 0
      <4>1. PICK v : v \in due'
        BY <3>2
      <4>2. v = cooldown /\ v # 0
        BY <3>1, <4>1
      <4> QED
        BY <4>2 DEF BenchInv, CountdownOK
    <3>3. due' # {} => cooldown + rested > CooldownTime
      BY <3>1, <3>2 DEF BenchInv, CountdownOK
    <3>4. CountdownOK'
      BY <2>1, <3>1, <3>3 DEF BenchInv, CountdownOK
    <3> QED
      BY <2>1, <3>4 DEF BenchInv, BenchOK
  <2> QED
    BY <2>2, <2>3
<1> QED
  BY <1>1, <1>2, <1>3, <1>4

\* The invariant of the benchmark and its countdown.
LEMMA BenchInvariant == Spec => []BenchInv
<1>1. Init => BenchInv
  <2> SUFFICES ASSUME Init PROVE BenchInv
    OBVIOUS
  <2>1. CountdownOK /\ cooldown = 0
    BY PageAssumption DEF Init, InitOperations, CountdownOK
  <2>2. isBenchmarking = FALSE /\ benchmarkResult = FALSE /\ benchmarkError = FALSE
    BY DEF Init, InitOperations
  <2> QED
    BY <2>1, <2>2, Zenon DEF BenchInv, BenchOK
<1>2. BenchInv /\ [Next]_vars => BenchInv'
  <2> SUFFICES ASSUME BenchInv, [Next]_vars PROVE BenchInv'
    OBVIOUS
  <2>1. CASE runBenchmark \/ BenchmarkAnswer \/ CooldownTimer \/ Second
    BY <2>1, BenchSteps
  <2>4. CASE UNCHANGED benchVars
    BY <2>4 DEF benchVars, cooldownVars, BenchInv, BenchOK, CountdownOK
  <2>5. ServerNext \/ Feed => UNCHANGED benchVars
    BY ServerFrame, FeedFrame DEF operationVars
  <2>6. Click => runBenchmark \/ UNCHANGED benchVars
    BY DEF Click, handleVerifyChain, ExecuteAttack, AttackFrame, SelectTab
  <2>7. VerifyStep \/ AttackTimer \/ AttackAnswer \/ AttackLine => UNCHANGED benchVars
    BY DEF VerifyStep, VerifyAnswer, VerifyBegin, VerifyBlock, VerifyFrame,
           AttackTimer, AttackAnswer, AttackLine, AttackFrame
  <2> QED
    BY <2>1, <2>4, <2>5, <2>6, <2>7 DEF Next, vars
<1> QED
  BY <1>1, <1>2, PTL DEF Spec

(* runBenchmark and the effect on [cooldown]: after a result the page lets  *)
(* CooldownTime seconds pass before it starts another benchmark, and the    *)
(* countdown it shows never promises less.                                  *)
THEOREM CooldownRespected == Spec => []CooldownKept
<1>1. BenchInv => CooldownKept
  BY PageAssumption DEF BenchInv, BenchOK, CountdownOK, CooldownKept
<1> QED
  BY <1>1, BenchInvariant, PTL

-----------------------------------------------------------------------------
(* The polls and the order of their answers.                               *)

FeedTyped ==
    /\ isMounted \in BOOLEAN
    /\ stage \in [Polls -> Sources]
    /\ phase \in [Polls -> {"idle", "sent", "ok", "failed"}]
    /\ asOf \in [Polls -> Nat] /\ alone \in [Polls -> BOOLEAN]
    /\ shown \in [Sources -> Nat]

\* What a poll that is alone knows of the screen: nobody else is about to
\* write to it, and its own answer is at least as new.
OrderOK ==
    /\ \A p \in Polls : asOf[p] <= clock
    /\ \A s \in Sources : shown[s] <= clock
    /\ \A p, q \in Polls : alone[p] /\ InFlight(p) /\ q # p => ~InFlight(q)
    /\ \A p \in Polls : alone[p] /\ Answered(p) => \A s \in Sources : shown[s] <= asOf[p]

FeedInv == FeedTyped /\ OrderOK

\* A poll that is started is alone, or neither it nor the others are.
LEMMA FeedStart ==
    ASSUME FeedInv, clock \in Nat, NEW p \in Polls, ~InFlight(p), StartPoll(p), isMounted' \in BOOLEAN
    PROVE  FeedInv'
<1> USE DEF FeedInv, FeedTyped, OrderOK, StartPoll, InFlight, Answered, serverVars, screenVars
<1>1. FeedTyped'
  <2>1. alone' \in [Polls -> BOOLEAN]
    BY DEF StartPoll
  <2> QED
    BY <2>1 DEF Sources
<1>2. (\A q \in Polls : asOf[q] <= clock)' /\ (\A s \in Sources : shown[s] <= clock)'
  OBVIOUS
<1>3. \A q \in Polls : phase'[q] = IF q = p THEN "sent" ELSE phase[q]
  OBVIOUS
<1>4. \A q, r \in Polls : alone'[q] /\ phase'[q] # "idle" /\ r # q => phase'[r] = "idle"
  <2> SUFFICES ASSUME NEW q \in Polls, NEW r \in Polls, alone'[q], phase'[q] # "idle", r # q
               PROVE  phase'[r] = "idle"
    OBVIOUS
  <2>1. q = p
    BY <1>3
  <2> QED
    BY <1>3, <2>1
<1>5. \A q \in Polls : alone'[q] /\ phase'[q] \in {"ok", "failed"}
                       => \A s \in Sources : shown'[s] <= asOf'[q]
  BY <1>3
<1> QED
  BY <1>1, <1>2, <1>4, <1>5

\* An answer is as new as can be.
LEMMA FeedAnswer ==
    ASSUME FeedInv, clock \in Nat, NEW p \in Polls, Answer(p)
    PROVE  FeedInv'
<1> USE DEF FeedInv, FeedTyped, OrderOK, InFlight, Answered
<1>1. /\ UNCHANGED <<isMounted, stage, alone, shown, clock>>
      /\ asOf' = [asOf EXCEPT ![p] = clock]
      /\ phase[p] = "sent"
      /\ phase' = [phase EXCEPT ![p] = "ok"] \/ phase' = [phase EXCEPT ![p] = "failed"]
  BY DEF Answer, serverVars, screenVars
<1>2. FeedTyped'
  BY <1>1
<1>3. (\A q \in Polls : asOf[q] <= clock)' /\ (\A s \in Sources : shown[s] <= clock)'
  BY <1>1
<1>4. \A q \in Polls : phase'[q] # "idle" <=> phase[q] # "idle"
  BY <1>1
<1>5. \A q, r \in Polls : alone'[q] /\ phase'[q] # "idle" /\ r # q => ~(phase'[r] # "idle")
  BY <1>1, <1>4
<1>6. \A q \in Polls : alone'[q] /\ phase'[q] \in {"ok", "failed"}
                       => \A s \in Sources : shown'[s] <= asOf'[q]
  BY <1>1
<1> QED
  BY <1>2, <1>3, <1>5, <1>6

\* What an application of an answer does to the polls and to the screen.
Applies(p) ==
    /\ Answered(p)
    /\ \/ phase' = [phase EXCEPT ![p] = "sent"]
       \/ phase' = [phase EXCEPT ![p] = "idle"]
    /\ \E next \in Sources : stage' = [stage EXCEPT ![p] = next]
    /\ asOf' = [asOf EXCEPT ![p] = 0]
    /\ UNCHANGED <<isMounted, alone, clock>>
    /\ UNCHANGED shown \/ \E s \in Sources : shown' = [shown EXCEPT ![s] = asOf[p]]

LEMMA ApplyIsApplies ==
    ASSUME NEW p \in Polls, ApplyMetrics(p) \/ ApplyLogs(p) \/ ApplyCerts(p)
    PROVE  Applies(p)
<1>1. ApplyMetrics(p) => Applies(p)
  BY DEF ApplyMetrics, Then, Applies, serverVars, Sources
<1>2. ApplyLogs(p) => Applies(p)
  BY DEF ApplyLogs, Then, Applies, serverVars, Sources
<1>3. ApplyCerts(p) => Applies(p)
  BY DEF ApplyCerts, Then, Applies, serverVars, Sources
<1> QED
  BY <1>1, <1>2, <1>3

LEMMA FeedApply ==
    ASSUME FeedInv, clock \in Nat, NEW p \in Polls, Applies(p)
    PROVE  FeedInv'
<1> USE DEF FeedInv, FeedTyped, OrderOK, InFlight, Answered, Applies
<1>1. FeedTyped'
  OBVIOUS
<1>2. (\A q \in Polls : asOf[q] <= clock)' /\ (\A s \in Sources : shown[s] <= clock)'
  OBVIOUS
<1>3. \A q \in Polls : phase'[q] # "idle" => phase[q] # "idle"
  OBVIOUS
<1>4. \A q, r \in Polls : alone'[q] /\ phase'[q] # "idle" /\ r # q => ~(phase'[r] # "idle")
  BY <1>3
<1>5. \A q \in Polls : alone'[q] /\ phase'[q] \in {"ok", "failed"}
                       => \A s \in Sources : shown'[s] <= asOf'[q]
  <2> SUFFICES ASSUME NEW q \in Polls, alone'[q], phase'[q] \in {"ok", "failed"}
               PROVE  \A s \in Sources : shown'[s] <= asOf'[q]
    OBVIOUS
  <2>1. q # p
    OBVIOUS
  <2>2. phase[q] # "idle" /\ alone[q] /\ phase[p] # "idle"
    BY <2>1
  <2> QED
    BY <2>1, <2>2
<1> QED
  BY <1>1, <1>2, <1>4, <1>5

\* Steps that are not the polls' own leave the polls and the times alone,
\* except that the services' clock goes on.
LEMMA FeedQuiet ==
    ASSUME Next, ~Feed
    PROVE  /\ UNCHANGED <<pollVars, shown>> /\ UNCHANGED <<metricsVars, logsVars, certsVars>>
           /\ clock' = clock \/ clock' = clock + 1
<1>1. CASE ServerNext
  <2>1. clock' = clock + 1
    BY <1>1 DEF ServerNext, Serve, StopOrStart, CommitRecord, Age, Replace, Changes
  <2> QED
    BY <1>1, <2>1, ServerFrame DEF screenVars
<1>2. CASE Click
  BY <1>2 DEF Click, handleVerifyChain, runBenchmark, BenchFrame, ExecuteAttack, AttackFrame,
              SelectTab, feedVars, serverVars
<1>3. CASE VerifyStep
  BY <1>3 DEF VerifyStep, VerifyAnswer, VerifyBegin, VerifyBlock, VerifyFrame, feedVars, serverVars
<1>4. CASE AttackTimer \/ AttackAnswer \/ AttackLine
  BY <1>4 DEF AttackTimer, AttackAnswer, AttackLine, AttackFrame, feedVars, serverVars
<1>5. CASE BenchmarkAnswer \/ CooldownTimer \/ Second
  BY <1>5 DEF BenchmarkAnswer, CooldownTimer, Second, BenchFrame, feedVars, serverVars
<1> QED
  BY <1>1, <1>2, <1>3, <1>4, <1>5 DEF Next

LEMMA FeedInvariant == Spec => []FeedInv
<1>1. Init => FeedInv
  <2> SUFFICES ASSUME Init PROVE FeedInv
    OBVIOUS
  <2> USE DEF Init, InitServer, InitFeed
  <2>1. FeedTyped
    BY DEF FeedTyped, Sources
  <2>2. \A p \in Polls : ~InFlight(p) /\ ~Answered(p)
    BY DEF InFlight, Answered
  <2>3. OrderOK
    BY <2>2 DEF OrderOK
  <2> QED
    BY <2>1, <2>3 DEF FeedInv
<1>2. FeedInv /\ ServerOK /\ [Next]_vars => FeedInv'
  <2> SUFFICES ASSUME FeedInv, ServerOK, [Next]_vars PROVE FeedInv'
    OBVIOUS
  <2>0. clock \in Nat
    BY DEF ServerOK
  <2>1. CASE Mount \/ Interval
    <3> DEFINE p == CHOOSE q \in Polls : ~InFlight(q)
    <3>1. p \in Polls /\ ~InFlight(p) /\ StartPoll(p)
      BY <2>1 DEF Mount, Interval, fetchData
    <3>2. isMounted' \in BOOLEAN
      BY <2>1 DEF Mount, Interval, FeedInv, FeedTyped
    <3> HIDE DEF p
    <3> QED
      BY <2>0, <3>1, <3>2, FeedStart
  <2>2. ASSUME NEW p \in Polls, PollStep(p) PROVE FeedInv'
    BY <2>0, <2>2, FeedAnswer, ApplyIsApplies, FeedApply DEF PollStep
  <2>3. CASE Next /\ ~Feed
    <3>1. UNCHANGED <<pollVars, shown>> /\ (clock' = clock \/ clock' = clock + 1)
      BY <2>3, FeedQuiet
    <3> QED
      BY <2>0, <3>1 DEF FeedInv, FeedTyped, OrderOK, InFlight, Answered, pollVars
  <2>4. CASE UNCHANGED vars
    BY <2>4 DEF vars, FeedInv, FeedTyped, OrderOK, InFlight, Answered, pollVars, serverVars
  <2> QED
    BY <2>1, <2>2, <2>3, <2>4 DEF Feed
<1> QED
  BY <1>1, <1>2, ServerInvariant, PTL DEF Spec

(* fetchData: only polls that overlap can put older data in the place of    *)
(* newer data; the answers of a poll that is alone are never behind.        *)
THEOREM NewestShown == Spec => NewestUnlessOverlapped
<1>1. FeedInv /\ [Next]_vars =>
          [\A p \in Polls : Answered(p) /\ phase'[p] # phase[p] /\ alone[p]
               => \A s \in Sources : shown'[s] >= shown[s]]_vars
  <2> SUFFICES ASSUME FeedInv, Next, NEW p \in Polls, Answered(p), phase'[p] # phase[p], alone[p],
                      NEW s \in Sources
               PROVE  shown'[s] >= shown[s]
    OBVIOUS
  <2> USE DEF FeedInv, FeedTyped
  <2>1. CASE Mount \/ Interval
    <3>1. shown' = shown
      BY <2>1 DEF Mount, Interval, fetchData, StartPoll, screenVars
    <3> QED
      BY <3>1
  <2>2. ASSUME NEW q \in Polls, PollStep(q) PROVE shown'[s] >= shown[s]
    <3>1. CASE Answer(q)
      BY <3>1 DEF Answer, screenVars
    <3>2. CASE Applies(q)
      <4>1. q = p
        BY <3>2 DEF Applies
      <4>2. shown[s] <= asOf[p]
        BY DEF OrderOK
      <4> QED
        BY <3>2, <4>1, <4>2 DEF Applies
    <3> QED
      BY <2>2, <3>1, <3>2, ApplyIsApplies DEF PollStep
  <2>3. CASE ~Feed
    BY <2>3, FeedQuiet
  <2> QED
    BY <2>1, <2>2, <2>3 DEF Feed
<1> QED
  BY <1>1, FeedInvariant, PTL DEF Spec, NewestUnlessOverlapped

-----------------------------------------------------------------------------
(* The screen.                                                             *)

\* The count of any list of certificates is a number.
LEMMA CountIsNat ==
    ASSUME NEW certs
    PROVE  ExpiringCount(certs) \in Nat
<1> DEFINE S == {f \in Files : certs[f].exists /\ certs[f].days < ExpiryDays}
<1>1. IsFiniteSet(S)
  BY RoutesAssumption, FS_Subset
<1>2. Cardinality(S) \in Nat
  BY <1>1, FS_CardinalityType
<1> QED
  BY <1>2 DEF ExpiringCount

\* An empty answer, as an inbox has it between two answers.
LEMMA NothingOK ==
    /\ Nothing \in [metrics : MetricsData, logs : SUBSET Row,
                    certs : [certificates : Certs, expiringCount : Nat]]
    /\ IsFiniteSet(Nothing.logs)
    /\ Nothing.certs.expiringCount = ExpiringCount(Nothing.certs.certificates)
<1>1. {f \in Files : [g \in Files |-> NoCert][f].exists
                     /\ [g \in Files |-> NoCert][f].days < ExpiryDays} = {}
  BY DEF NoCert
<1>2. ExpiringCount([g \in Files |-> NoCert]) = 0
  BY <1>1, FS_EmptySet DEF ExpiringCount
<1>3. [g \in Files |-> NoCert] \in Certs
  BY DEF Certs, NoCert
<1> QED
  BY <1>2, <1>3, FS_EmptySet DEF Nothing, MetricsData

Message == [metrics : MetricsData, logs : SUBSET Row,
            certs : [certificates : Certs, expiringCount : Nat]]

\* What a route answers is a message, its list of rows is finite, and it
\* counts its own certificates.
MessageOK(m) ==
    /\ m \in Message
    /\ IsFiniteSet(m.logs)
    /\ m.certs.expiringCount = ExpiringCount(m.certs.certificates)

LEMMA RepliesOK ==
    ASSUME ServerOK
    PROVE  /\ MessageOK([Nothing EXCEPT !.metrics = MetricsReply(gateway)])
           /\ MessageOK([Nothing EXCEPT !.logs = LogsReply(ledger)])
           /\ MessageOK([Nothing EXCEPT !.certs = CertsReply(files)])
<1> USE DEF MessageOK, Message
<1>0. MessageOK(Nothing)
  BY NothingOK
<1> HIDE DEF MessageOK
<1>1. MessageOK([Nothing EXCEPT !.metrics = MetricsReply(gateway)])
  <2>1. MetricsReply(gateway) \in MetricsData
    BY DEF ServerOK, MetricsReply, MetricsData
  <2> QED
    BY <1>0, <2>1 DEF MessageOK
<1>2. MessageOK([Nothing EXCEPT !.logs = LogsReply(ledger)])
  <2>1. LogsReply(ledger) \subseteq ledger
    BY DEF LogsReply
  <2>2. IsFiniteSet(LogsReply(ledger)) /\ LogsReply(ledger) \in SUBSET Row
    BY <2>1, FS_Subset DEF ServerOK
  <2> QED
    BY <1>0, <2>2 DEF MessageOK
<1>3. MessageOK([Nothing EXCEPT !.certs = CertsReply(files)])
  <2> DEFINE certs == [f \in Files |-> [exists |-> files[f].exists,
                                        days   |-> DaysRemaining(files[f].units)]]
  <2>1. \A u \in Int : DaysRemaining(u) \in Int
    BY RoutesAssumption DEF DaysRemaining
  <2>2. certs \in Certs
    BY <2>1 DEF ServerOK, Certs
  <2>3. CertsReply(files) = [certificates |-> certs, expiringCount |-> ExpiringCount(certs)]
    BY DEF CertsReply
  <2>4. ExpiringCount(certs) \in Nat
    BY CountIsNat
  <2> HIDE DEF certs
  <2> QED
    BY <1>0, <2>2, <2>3, <2>4 DEF MessageOK
<1> QED
  BY <1>1, <1>2, <1>3

InboxInv == inbox \in [Polls -> Message] /\ \A p \in Polls : MessageOK(inbox[p])

LEMMA InboxInvariant == Spec => []InboxInv
<1>0. MessageOK(Nothing) /\ \A m : MessageOK(m) => m \in Message
  BY NothingOK DEF MessageOK, Message
<1>1. Init => InboxInv
  BY <1>0 DEF Init, InitFeed, InboxInv
<1>2. InboxInv /\ ServerOK /\ FeedInv /\ [Next]_vars => InboxInv'
  <2> SUFFICES ASSUME InboxInv, ServerOK, FeedInv, [Next]_vars PROVE InboxInv'
    OBVIOUS
  <2>1. ASSUME NEW p \in Polls, NEW m, MessageOK(m), inbox' = [inbox EXCEPT ![p] = m]
        PROVE  InboxInv'
    BY <1>0, <2>1 DEF InboxInv
  <2>2. CASE Mount \/ Interval
    BY <2>2 DEF Mount, Interval, fetchData, StartPoll, InboxInv
  <2>3. ASSUME NEW p \in Polls, Answer(p) PROVE InboxInv'
    <3> DEFINE m == CASE stage[p] = "metrics" -> [Nothing EXCEPT !.metrics = MetricsReply(gateway)]
                      [] stage[p] = "logs"    -> [Nothing EXCEPT !.logs = LogsReply(ledger)]
                      [] stage[p] = "certs"   -> [Nothing EXCEPT !.certs = CertsReply(files)]
    <3>1. UNCHANGED inbox \/ inbox' = [inbox EXCEPT ![p] = m]
      BY <2>3 DEF Answer
    <3>2. stage[p] \in {"metrics", "logs", "certs"}
      BY DEF FeedInv, FeedTyped, Sources
    <3>3. MessageOK(m)
      <4>1. CASE stage[p] = "metrics"
        BY <4>1, RepliesOK
      <4>2. CASE stage[p] = "logs"
        BY <4>2, RepliesOK
      <4>3. CASE stage[p] = "certs"
        BY <4>3, RepliesOK
      <4> QED
        BY <3>2, <4>1, <4>2, <4>3
    <3> HIDE DEF m
    <3>4. CASE UNCHANGED inbox
      BY <3>4 DEF InboxInv
    <3> QED
      BY <2>1, <3>1, <3>3, <3>4
  <2>4. ASSUME NEW p \in Polls, ApplyMetrics(p) \/ ApplyLogs(p) \/ ApplyCerts(p) PROVE InboxInv'
    BY <1>0, <2>1, <2>4 DEF ApplyMetrics, ApplyLogs, ApplyCerts, Then
  <2>5. CASE Next /\ ~Feed
    BY <2>5, FeedQuiet DEF pollVars, InboxInv
  <2>6. CASE UNCHANGED vars
    BY <2>6 DEF vars, pollVars, InboxInv
  <2> QED
    BY <2>2, <2>3, <2>4, <2>5, <2>6 DEF Feed, PollStep
<1> QED
  BY <1>1, <1>2, ServerInvariant, FeedInvariant, PTL DEF Spec

MetricsOK ==
    /\ isOffline \in BOOLEAN /\ errorMessage \in BOOLEAN
    /\ throughput \in Nat /\ activeTunnels \in {0, 1}
    /\ latencyHistory \in Seq(Nat) /\ Len(latencyHistory) <= HistoryLength
    /\ isOffline = FALSE => errorMessage = FALSE /\ latencyHistory # << >>

LogsOK ==
    /\ logs \subseteq [id : Nat \ {0}, level : {"CRITICAL", "WARNING", "INFO"}]
    /\ IsFiniteSet(logs)
    /\ identities \subseteq Tenants

CertsOK == certificates \in Certs /\ expiringCertsCount = ExpiringCount(certificates)

\* The chart drops its oldest point when it is full, and never is empty.
LEMMA WindowOK ==
    ASSUME NEW history \in Seq(Nat), Len(history) <= HistoryLength, NEW entry \in Nat
    PROVE  /\ Window(history, entry) \in Seq(Nat)
           /\ Len(Window(history, entry)) <= HistoryLength
           /\ Window(history, entry) # << >>
<1> DEFINE m == IF Len(history) < HistoryLength THEN 1 ELSE 2
<1> DEFINE tail == SubSeq(history, m, Len(history))
<1>1. m \in 1..(Len(history) + 1) /\ Len(history) \in Nat /\ m \in {1, 2}
      /\ (m = 1 => Len(history) < HistoryLength)
  BY PageAssumption
<1> HIDE DEF m
<1>2. tail \in Seq(Nat) /\ Len(tail) <= Len(history) - m + 1
  BY <1>1, SubSeqProperties
<1>3. Len(tail) < HistoryLength /\ Len(tail) \in Nat
  BY <1>1, <1>2, PageAssumption
<1>4. Window(history, entry) = Append(tail, entry)
  BY DEF Window, m
<1> HIDE DEF tail
<1>5. Append(tail, entry) \in Seq(Nat) /\ Len(Append(tail, entry)) = Len(tail) + 1
  BY <1>2
<1>6. Append(tail, entry) # << >>
  BY <1>2, <1>3, <1>5
<1> QED
  BY <1>3, <1>4, <1>5, <1>6, PageAssumption

\* What the page makes of a finite list of rows.
LEMMA EventsOK ==
    ASSUME NEW rows \in SUBSET Row, IsFiniteSet(rows)
    PROVE  /\ LogEvents(rows) \subseteq [id : Nat \ {0}, level : {"CRITICAL", "WARNING", "INFO"}]
           /\ IsFiniteSet(LogEvents(rows))
           /\ {r.tenant : r \in rows} \subseteq Tenants
<1>1. \A a : Level(a) \in {"CRITICAL", "WARNING", "INFO"}
  BY DEF Level
<1> DEFINE event == [r \in rows |-> [id |-> r.id, level |-> Level(r.action)]]
<1>2. event \in Surjection(rows, LogEvents(rows))
  BY DEF Surjection, LogEvents
<1>3. IsFiniteSet(LogEvents(rows))
  BY <1>2, FS_Surjection
<1> QED
  BY <1>1, <1>3 DEF LogEvents, Row

ScreenInv == MetricsOK /\ LogsOK /\ CertsOK

\* An answer with metrics connects the page; a failed one disconnects it.
LEMMA MetricsApplied ==
    ASSUME MetricsOK, InboxInv, NEW p \in Polls, ApplyMetrics(p)
    PROVE  MetricsOK'
<1> DEFINE data == inbox[p].metrics
<1>0. data.requests \in Nat /\ data.overhead \in Nat
  BY DEF InboxInv, Message, MetricsData
<1>1. CASE phase[p] = "failed"
  <2>1. /\ isOffline' = TRUE /\ errorMessage' = TRUE
        /\ UNCHANGED <<activeTunnels, throughput, latencyHistory>>
    BY <1>1, Zenon DEF ApplyMetrics
  <2> QED
    BY <2>1 DEF MetricsOK
<1>2. CASE phase[p] = "ok"
  <2>1. /\ activeTunnels' = (IF data.overhead > 0 THEN 1 ELSE 0)
        /\ throughput' = data.requests
        /\ latencyHistory' = Window(latencyHistory, data.overhead)
    BY <1>2 DEF ApplyMetrics
  <2>2. isOffline' = FALSE /\ errorMessage' = FALSE
    BY <1>2, Zenon DEF ApplyMetrics
  <2> HIDE DEF data
  <2>3. activeTunnels' \in {0, 1} /\ throughput' \in Nat
    BY <1>0, <2>1
  <2>4. /\ latencyHistory' \in Seq(Nat) /\ Len(latencyHistory') <= HistoryLength
        /\ latencyHistory' # << >>
    BY <1>0, <2>1, WindowOK DEF MetricsOK
  <2> QED
    BY <2>2, <2>3, <2>4, Zenon DEF MetricsOK
<1> QED
  BY <1>1, <1>2 DEF ApplyMetrics, Answered

LEMMA ScreenInvariant == Spec => []ScreenInv
<1>1. Init => ScreenInv
  <2> SUFFICES ASSUME Init PROVE ScreenInv
    OBVIOUS
  <2>1. MetricsOK
    <3>1. isOffline = TRUE /\ errorMessage = FALSE
      BY Zenon DEF Init, InitFeed
    <3>2. throughput \in Nat /\ activeTunnels \in {0, 1}
      BY DEF Init, InitFeed
    <3>3. latencyHistory \in Seq(Nat) /\ Len(latencyHistory) <= HistoryLength
      BY PageAssumption DEF Init, InitFeed
    <3> QED
      BY <3>1, <3>2, <3>3, Zenon DEF MetricsOK
  <2>2. LogsOK
    BY FS_EmptySet DEF Init, InitFeed, LogsOK
  <2>3. CertsOK
    <3>1. certificates = Nothing.certs.certificates /\ expiringCertsCount = Nothing.certs.expiringCount
      BY DEF Init, InitFeed, Nothing
    <3> QED
      BY <3>1, NothingOK DEF CertsOK
  <2> QED
    BY <2>1, <2>2, <2>3 DEF ScreenInv
<1>2. ScreenInv /\ InboxInv /\ [Next]_vars => ScreenInv'
  <2> SUFFICES ASSUME ScreenInv, InboxInv, [Next]_vars PROVE ScreenInv'
    OBVIOUS
  <2>1. UNCHANGED metricsVars => MetricsOK'
    BY DEF ScreenInv, MetricsOK, metricsVars
  <2>2. UNCHANGED logsVars => LogsOK'
    BY DEF ScreenInv, LogsOK, logsVars
  <2>3. UNCHANGED certsVars => CertsOK'
    BY DEF ScreenInv, CertsOK, certsVars
  <2>4. CASE Mount \/ Interval
    BY <2>1, <2>2, <2>3, <2>4 DEF Mount, Interval, fetchData, StartPoll, screenVars, ScreenInv
  <2>5. ASSUME NEW p \in Polls, PollStep(p) PROVE ScreenInv'
    <3>0. MessageOK(inbox[p])
      BY DEF InboxInv
    <3>1. CASE Answer(p)
      BY <2>1, <2>2, <2>3, <3>1 DEF Answer, screenVars, ScreenInv
    <3>2. CASE ApplyMetrics(p)
      <4>1. UNCHANGED logsVars /\ UNCHANGED certsVars
        BY <3>2 DEF ApplyMetrics
      <4> QED
        BY <2>2, <2>3, <3>2, <4>1, MetricsApplied DEF ScreenInv
    <3>3. CASE ApplyLogs(p)
      <4>1. UNCHANGED metricsVars /\ UNCHANGED certsVars
        BY <3>3 DEF ApplyLogs
      <4>2. LogsOK'
        <5>1. CASE UNCHANGED logsVars
          BY <2>2, <5>1
        <5>2. CASE ShowLogs(inbox[p].logs)
          <6>1. inbox[p].logs \in SUBSET Row /\ IsFiniteSet(inbox[p].logs)
            BY <3>0 DEF MessageOK, Message
          <6> QED
            BY <5>2, <6>1, EventsOK DEF ShowLogs, LogsOK
        <5> QED
          BY <3>3, <5>1, <5>2 DEF ApplyLogs
      <4> QED
        BY <2>1, <2>3, <4>1, <4>2 DEF ScreenInv
    <3>4. CASE ApplyCerts(p)
      <4>1. UNCHANGED metricsVars /\ UNCHANGED logsVars
        BY <3>4 DEF ApplyCerts
      <4>2. CertsOK'
        <5>1. CASE UNCHANGED certsVars
          BY <2>3, <5>1
        <5>2. CASE /\ certificates' = inbox[p].certs.certificates
                   /\ expiringCertsCount' = inbox[p].certs.expiringCount
          BY <3>0, <5>2 DEF MessageOK, Message, CertsOK
        <5> QED
          BY <3>4, <5>1, <5>2 DEF ApplyCerts
      <4> QED
        BY <2>1, <2>2, <4>1, <4>2 DEF ScreenInv
    <3> QED
      BY <2>5, <3>1, <3>2, <3>3, <3>4 DEF PollStep
  <2>6. CASE Next /\ ~Feed
    <3>1. UNCHANGED metricsVars /\ UNCHANGED logsVars /\ UNCHANGED certsVars
      BY <2>6, FeedQuiet
    <3> QED
      BY <2>1, <2>2, <2>3, <3>1 DEF ScreenInv
  <2>7. CASE UNCHANGED vars
    BY <2>1, <2>2, <2>3, <2>7 DEF vars, ScreenInv
  <2> QED
    BY <2>4, <2>5, <2>6, <2>7 DEF Feed
<1> QED
  BY <1>1, <1>2, InboxInvariant, PTL DEF Spec

(* fetchData: whichever polls wrote its parts, the screen agrees with      *)
(* itself (the card and the red certificates, the connection and the error *)
(* message, the chart and its window, the score and the threats).          *)
THEOREM ScreenAgrees == Spec => []ScreenConsistent
<1>1. ScreenInv => ScreenConsistent
  <2> SUFFICES ASSUME ScreenInv PROVE ScreenConsistent
    OBVIOUS
  <2>1. expiringCertsCount = Cardinality(RedCertificates)
    BY DEF ScreenInv, CertsOK, ExpiringCount, RedCertificates
  <2>2. Len(latencyHistory) <= HistoryLength
    BY DEF ScreenInv, MetricsOK
  <2>3. ~isOffline => ~errorMessage /\ latencyHistory # << >>
    BY DEF ScreenInv, MetricsOK
  <2>4. calculateSecurityScore = 100 <=> ~isOffline /\ Critical(logs) = {}
    <3> DEFINE n == Cardinality(Critical(logs))
    <3>1. IsFiniteSet(Critical(logs))
      BY FS_Subset DEF ScreenInv, LogsOK, Critical
    <3>2. n \in Nat /\ (n = 0 <=> Critical(logs) = {})
      BY <3>1, FS_CardinalityType, FS_EmptySet
    <3>3. isOffline \in BOOLEAN
      BY DEF ScreenInv, MetricsOK
    <3>4. calculateSecurityScore
            = IF isOffline THEN 0 ELSE IF 100 - n * 10 > 10 THEN 100 - n * 10 ELSE 10
      BY DEF calculateSecurityScore
    <3> HIDE DEF n
    <3>5. CASE isOffline = TRUE
      <4>1. calculateSecurityScore = 0
        BY <3>4, <3>5
      <4> QED
        BY <3>5, <4>1
    <3>6. CASE isOffline = FALSE
      <4>1. calculateSecurityScore = 100 <=> n = 0
        BY <3>2, <3>4, <3>6
      <4> QED
        BY <3>2, <3>6, <4>1
    <3> QED
      BY <3>3, <3>5, <3>6
  <2> QED
    BY <2>1, <2>2, <2>3, <2>4 DEF ScreenConsistent
<1> QED
  BY <1>1, ScreenInvariant, PTL

-----------------------------------------------------------------------------
(* The alarm.                                                              *)

AlarmInv ==
    /\ healthStatus \in {"HEALTHY", "UNDER_ATTACK"} /\ alarms \in Nat
    /\ AlarmExplained

LEMMA AlarmInvariant == Spec => []AlarmInv
<1>1. Init => AlarmInv
  BY DEF Init, InitFeed, InitOperations, AlarmInv, AlarmExplained
<1>2. AlarmInv /\ [Next]_vars => AlarmInv'
  <2> SUFFICES ASSUME AlarmInv, [Next]_vars PROVE AlarmInv'
    OBVIOUS
  <2>1. CASE UNCHANGED <<healthStatus, alarms, logs>>
    BY <2>1 DEF AlarmInv, AlarmExplained, Critical
  <2>2. ASSUME NEW type \in AttackTypes, ExecuteAttack(type) PROVE AlarmInv'
    <3>1. healthStatus' = "UNDER_ATTACK" /\ alarms' \in Nat /\ alarms' > 0
      BY <2>2 DEF ExecuteAttack, AlarmInv
    <3> QED
      BY <3>1 DEF AlarmInv, AlarmExplained
  <2>3. CASE AttackTimer
    <3>1. healthStatus' = "HEALTHY" /\ alarms' \in Nat
      BY <2>3 DEF AttackTimer, AlarmInv
    <3> QED
      BY <3>1 DEF AlarmInv, AlarmExplained
  <2>4. ASSUME NEW p \in Polls, ApplyLogs(p) PROVE AlarmInv'
    <3>1. UNCHANGED alarms
      BY <2>4 DEF ApplyLogs, Then, operationVars
    <3>2. CASE ShowLogs(inbox[p].logs)
      BY <3>1, <3>2 DEF ShowLogs, AlarmInv, AlarmExplained, Critical
    <3>3. CASE UNCHANGED <<logsVars, healthStatus, shown>>
      BY <2>1, <3>1, <3>3 DEF logsVars
    <3> QED
      BY <2>4, <3>2, <3>3 DEF ApplyLogs
  <2>5. CASE Click /\ ~\E type \in AttackTypes : ExecuteAttack(type)
    BY <2>1, <2>5 DEF Click, handleVerifyChain, runBenchmark, BenchFrame, SelectTab, feedVars, logsVars
  <2>6. CASE Feed /\ ~\E p \in Polls : ApplyLogs(p)
    <3>1. UNCHANGED <<logsVars, healthStatus>>
      BY <2>6 DEF Feed, Mount, Interval, fetchData, StartPoll, PollStep, Answer, ApplyMetrics,
                  ApplyCerts, screenVars
    <3> QED
      BY <2>1, <2>6, <3>1, FeedFrame DEF operationVars, logsVars
  <2>7. CASE ServerNext
    BY <2>1, <2>7, ServerFrame DEF screenVars, operationVars, logsVars
  <2>8. CASE VerifyStep
    BY <2>1, <2>8 DEF VerifyStep, VerifyAnswer, VerifyBegin, VerifyBlock, VerifyFrame, feedVars,
                      logsVars
  <2>9. CASE AttackAnswer \/ AttackLine
    BY <2>1, <2>9 DEF AttackAnswer, AttackLine, AttackFrame, feedVars, logsVars
  <2>10. CASE BenchmarkAnswer \/ CooldownTimer \/ Second
    BY <2>1, <2>10 DEF BenchmarkAnswer, CooldownTimer, Second, BenchFrame, feedVars, logsVars
  <2>11. CASE UNCHANGED vars
    BY <2>1, <2>11 DEF vars, logsVars
  <2>12. Click => \/ \E type \in AttackTypes : ExecuteAttack(type)
                  \/ Click /\ ~\E type \in AttackTypes : ExecuteAttack(type)
    OBVIOUS
  <2> QED
    BY <2>2, <2>3, <2>4, <2>5, <2>6, <2>7, <2>8, <2>9, <2>10, <2>11, <2>12 DEF Next
<1> QED
  BY <1>1, <1>2, PTL DEF Spec

(* fetchData and the timer of a simulation both write the status: whichever *)
(* comes last, an alarm on the screen has a reason.                        *)
THEOREM AlarmsExplained == Spec => []AlarmExplained
  BY AlarmInvariant, PTL DEF AlarmInv

-----------------------------------------------------------------------------
(* The simulator.                                                          *)

\* What a conclusion claims of a simulation of the given type, with the
\* ledger as it is now.
Truth(type, line) ==
    /\ line = "success" => \/ type = "spoof"
                           \/ type = "tamper" /\ \E r \in ledger : r.id = 1
    /\ line = "failed" => type = "tamper" /\ \A r \in rowsAtAttack : r.id # 1

\* The lines that wait to be shown are true, as is the last one shown, and
\* the console begins with the type that was clicked.
AttackInv ==
    /\ isAttacking \in AttackTypes \cup {"null"} /\ attackPC \in {"idle", "sent", "lines"}
    /\ isAttacking = "null" <=> attackPC = "idle"
    /\ rowsAtAttack \subseteq ledger
    /\ lines \in Seq(Tags) /\ (attackPC = "lines" => lines # << >>)
    /\ \A i \in 1..Len(lines) : Truth(isAttacking, lines[i])
    /\ attackSteps \in Seq(AttackLines)
    /\ isAttacking # "null" => attackSteps # << >> /\ attackSteps[1] = isAttacking
    /\ attackSteps # << >> => Truth(attackSteps[1], attackSteps[Len(attackSteps)])

\* Every line of an answer is true when it is given.
LEMMA RepliesTrue ==
    ASSUME rowsAtAttack \subseteq ledger, NEW type \in AttackTypes,
           NEW reply \in AttackReplies(type, ledger) \cup {AttackUnreachable(type)},
           reply # ErrorReply
    PROVE  /\ reply \in Seq(Tags) /\ reply # << >>
           /\ \A i \in 1..Len(reply) : Truth(type, reply[i])
<1>1. NeedsToken({}) = {ErrorReply} /\ \A S : NeedsToken(S) = {ErrorReply}
  BY DEF NeedsToken, AuthorizeFields
<1>2. CASE type = "replay" \/ type = "escape"
  <2>1. AttackReplies(type, ledger) = {ErrorReply}
    BY <1>1, <1>2 DEF AttackReplies, ReplayLines, EscapeLines
  <2>2. AttackUnreachable(type) = ErrorReply
    BY <1>2 DEF AttackUnreachable
  <2> QED
    BY <2>1, <2>2
<1>3. CASE type = "spoof"
  <2>1. reply = <<"info", "attack", "response", "success">>
    BY <1>3 DEF AttackReplies, AttackUnreachable, SpoofLines, AuthorizeRefusal
  <2>2. \A line : line # "failed" => Truth("spoof", line)
    BY DEF Truth
  <2>3. reply \in Seq(Tags) /\ reply # << >>
    BY <2>1 DEF Tags
  <2>4. \A i \in 1..Len(reply) : reply[i] # "failed"
    BY <2>1
  <2> QED
    BY <1>3, <2>2, <2>3, <2>4
<1>4. CASE type = "tamper"
  <2>1. CASE \E r \in ledger : r.id = 1
    <3>1. \/ reply = <<"info", "attack", "response", "success">>
          \/ reply = <<"info", "attack", "response", "error">>
      BY <1>4, <2>1 DEF AttackReplies, AttackUnreachable, TamperLines
    <3>2. \A line : line # "failed" => Truth("tamper", line)
      BY <2>1 DEF Truth
    <3>3. reply \in Seq(Tags) /\ reply # << >>
      <4>1. CASE reply = <<"info", "attack", "response", "success">>
        BY <4>1 DEF Tags
      <4>2. CASE reply = <<"info", "attack", "response", "error">>
        BY <4>2 DEF Tags
      <4> QED
        BY <3>1, <4>1, <4>2
    <3>4. \A i \in 1..Len(reply) : reply[i] # "failed"
      BY <3>1
    <3> QED
      BY <1>4, <3>2, <3>3, <3>4
  <2>2. CASE ~\E r \in ledger : r.id = 1
    <3>1. \/ reply = <<"info", "attack", "failed">>
          \/ reply = <<"info", "attack", "response", "error">>
      BY <1>4, <2>2 DEF AttackReplies, AttackUnreachable, TamperLines
    <3>2. \A line : line # "success" => Truth("tamper", line)
      BY <2>2 DEF Truth
    <3>3. reply \in Seq(Tags) /\ reply # << >>
      <4>1. CASE reply = <<"info", "attack", "failed">>
        BY <4>1 DEF Tags
      <4>2. CASE reply = <<"info", "attack", "response", "error">>
        BY <4>2 DEF Tags
      <4> QED
        BY <3>1, <4>1, <4>2
    <3>4. \A i \in 1..Len(reply) : reply[i] # "success"
      BY <3>1
    <3> QED
      BY <1>4, <3>2, <3>3, <3>4
  <2> QED
    BY <2>1, <2>2
<1> QED
  BY <1>2, <1>3, <1>4 DEF AttackTypes

LEMMA AttackStart ==
    ASSUME AttackInv, NEW type \in AttackTypes, ExecuteAttack(type)
    PROVE  AttackInv'
<1>1. /\ isAttacking' = type /\ attackPC' = "sent" /\ lines' = << >>
      /\ attackSteps' = <<type>> /\ rowsAtAttack' = ledger /\ ledger' = ledger
  BY DEF ExecuteAttack, AttackFrame, serverVars
<1>2. type # "null" /\ type # "success" /\ type # "failed" /\ type \in AttackLines
  BY DEF AttackTypes, AttackLines
<1>3. attackSteps' \in Seq(AttackLines) /\ Len(attackSteps') = 1 /\ attackSteps'[1] = type
      /\ attackSteps' # << >>
  BY <1>1, <1>2
<1>4. Truth(type, type)'
  BY <1>2 DEF Truth
<1>5. lines' \in Seq(Tags) /\ \A i \in 1..Len(lines') : FALSE
  BY <1>1
<1> QED
  BY <1>1, <1>2, <1>3, <1>4, <1>5 DEF AttackInv

\* A step that appends a true line to the console keeps it true.
LEMMA ConsoleGrows ==
    ASSUME AttackInv, isAttacking # "null", NEW line \in Tags, Truth(isAttacking, line),
           attackSteps' = Append(attackSteps, line), UNCHANGED <<ledger, rowsAtAttack>>
    PROVE  /\ attackSteps' \in Seq(AttackLines) /\ attackSteps' # << >>
           /\ attackSteps'[1] = isAttacking
           /\ Truth(attackSteps[1], attackSteps[Len(attackSteps)])'
<1>1. /\ attackSteps \in Seq(AttackLines) /\ attackSteps # << >> /\ attackSteps[1] = isAttacking
      /\ line \in AttackLines
  BY DEF AttackInv, AttackLines
<1>2. Len(attackSteps) \in Nat /\ Len(attackSteps) >= 1
  BY <1>1
<1>3. /\ attackSteps' \in Seq(AttackLines) /\ Len(attackSteps') = Len(attackSteps) + 1
      /\ attackSteps'[1] = isAttacking /\ attackSteps'[Len(attackSteps')] = line
  BY <1>1, <1>2
<1>4. attackSteps' # << >>
  BY <1>2, <1>3
<1> QED
  BY <1>3, <1>4 DEF Truth

LEMMA AttackAnswered ==
    ASSUME AttackInv, AttackAnswer
    PROVE  AttackInv'
<1>1. PICK reply \in AttackReplies(isAttacking, ledger) \cup {AttackUnreachable(isAttacking)} :
          \/ /\ reply # ErrorReply
             /\ attackPC' = "lines" /\ lines' = reply
             /\ UNCHANGED <<isAttacking, attackSteps>>
          \/ /\ reply = ErrorReply
             /\ attackSteps' = Append(attackSteps, "error")
             /\ EndAttack
  BY DEF AttackAnswer
<1>2. UNCHANGED <<ledger, rowsAtAttack>> /\ attackPC = "sent"
  BY DEF AttackAnswer, AttackFrame, serverVars
<1>3. isAttacking \in AttackTypes /\ isAttacking # "null"
  BY <1>2 DEF AttackInv
<1>4. CASE reply # ErrorReply
  <2>1. /\ reply \in Seq(Tags) /\ reply # << >>
        /\ \A i \in 1..Len(reply) : Truth(isAttacking, reply[i])
    BY <1>3, <1>4, RepliesTrue DEF AttackInv
  <2> QED
    BY <1>1, <1>2, <1>3, <1>4, <2>1 DEF AttackInv, Truth
<1>5. CASE reply = ErrorReply
  <2>1. Truth(isAttacking, "error") /\ "error" \in Tags
    BY DEF Truth, Tags
  <2>2. /\ attackSteps' \in Seq(AttackLines) /\ attackSteps' # << >>
        /\ Truth(attackSteps[1], attackSteps[Len(attackSteps)])'
    BY <1>1, <1>2, <1>3, <1>5, <2>1, ConsoleGrows
  <2>3. isAttacking' = "null" /\ attackPC' = "idle" /\ lines' = << >>
    BY <1>1, <1>5 DEF EndAttack
  <2>4. lines' \in Seq(Tags) /\ \A i \in 1..Len(lines') : FALSE
    BY <2>3
  <2> QED
    BY <1>2, <2>2, <2>3, <2>4 DEF AttackInv
<1> QED
  BY <1>4, <1>5

LEMMA AttackLineShown ==
    ASSUME AttackInv, AttackLine
    PROVE  AttackInv'
<1>1. /\ attackPC = "lines" /\ UNCHANGED <<ledger, rowsAtAttack>>
      /\ attackSteps' = Append(attackSteps, Head(lines))
  BY DEF AttackLine, AttackFrame, serverVars
<1>2. isAttacking \in AttackTypes /\ isAttacking # "null"
  BY <1>1 DEF AttackInv
<1>3. lines \in Seq(Tags) /\ lines # << >> /\ Len(lines) \in Nat /\ Len(lines) >= 1
  BY <1>1 DEF AttackInv
<1>4. Head(lines) \in Tags /\ Head(lines) = lines[1]
  BY <1>3
<1>5. Truth(isAttacking, Head(lines))
  BY <1>3, <1>4 DEF AttackInv
<1>6. /\ attackSteps' \in Seq(AttackLines) /\ attackSteps' # << >>
      /\ attackSteps'[1] = isAttacking
      /\ Truth(attackSteps[1], attackSteps[Len(attackSteps)])'
  BY <1>1, <1>2, <1>4, <1>5, ConsoleGrows
<1>7. CASE Len(lines) > 1 /\ lines' = Tail(lines) /\ UNCHANGED <<isAttacking, attackPC>>
  <2>1. lines' \in Seq(Tags) /\ Len(lines') = Len(lines) - 1
        /\ \A i \in 1..Len(lines') : lines'[i] = lines[i + 1]
    BY <1>3, <1>7
  <2>2. lines' # << >>
    BY <1>3, <1>7, <2>1
  <2>3. \A i \in 1..Len(lines') : i + 1 \in 1..Len(lines)
    BY <1>3, <2>1
  <2>4. \A i \in 1..Len(lines') : Truth(isAttacking, lines'[i])
    BY <2>1, <2>3 DEF AttackInv
  <2> QED
    BY <1>1, <1>2, <1>6, <1>7, <2>1, <2>2, <2>4 DEF AttackInv, Truth
<1>8. CASE EndAttack
  <2>1. isAttacking' = "null" /\ attackPC' = "idle" /\ lines' = << >>
    BY <1>8 DEF EndAttack
  <2>2. lines' \in Seq(Tags) /\ \A i \in 1..Len(lines') : FALSE
    BY <2>1
  <2> QED
    BY <1>1, <1>6, <2>1, <2>2 DEF AttackInv
<1> QED
  BY <1>7, <1>8 DEF AttackLine

LEMMA AttackInvariant == Spec => []AttackInv
<1>1. Init => AttackInv
  BY DEF Init, InitServer, InitOperations, AttackInv
<1>2. AttackInv /\ ServerOK /\ [Next]_vars => AttackInv'
  <2> SUFFICES ASSUME AttackInv, ServerOK, [Next]_vars PROVE AttackInv'
    OBVIOUS
  <2>1. CASE UNCHANGED attackVars
    <3>1. UNCHANGED <<isAttacking, attackPC, lines, attackSteps, rowsAtAttack>>
      BY <2>1 DEF attackVars
    <3>2. ledger \subseteq ledger'
      BY LedgerGrows
    <3>3. \A i \in 1..Len(lines) : Truth(isAttacking, lines[i])'
      BY <3>1, <3>2 DEF AttackInv, Truth
    <3>4. attackSteps # << >> => Truth(attackSteps[1], attackSteps[Len(attackSteps)])'
      BY <3>1, <3>2 DEF AttackInv, Truth
    <3> QED
      BY <3>1, <3>2, <3>3, <3>4 DEF AttackInv
  <2>2. Click => \/ \E type \in AttackTypes : ExecuteAttack(type)
                 \/ UNCHANGED attackVars
    BY DEF Click, handleVerifyChain, runBenchmark, BenchFrame, SelectTab
  <2>3. ServerNext \/ Feed => UNCHANGED attackVars
    BY ServerFrame, FeedFrame DEF operationVars
  <2>4. VerifyStep \/ AttackTimer \/ BenchmarkAnswer \/ CooldownTimer \/ Second => UNCHANGED attackVars
    BY DEF VerifyStep, VerifyAnswer, VerifyBegin, VerifyBlock, VerifyFrame, AttackTimer,
           BenchmarkAnswer, CooldownTimer, Second, BenchFrame
  <2> QED
    BY <2>1, <2>2, <2>3, <2>4, AttackStart, AttackAnswered, AttackLineShown DEF Next, vars
<1> QED
  BY <1>1, <1>2, ServerInvariant, PTL DEF Spec

(* runAttackSimulation: the console says [SUCCESS] only of a request that  *)
(* was refused and [FAILED] only if there was no record to change, although *)
(* records are committed while the lines are shown one by one.             *)
THEOREM SelfTestHonest == Spec => []SelfTestTruthful
<1>1. AttackInv => SelfTestTruthful
  BY DEF AttackInv, SelfTestTruthful, Truth
<1> QED
  BY <1>1, AttackInvariant, PTL

-----------------------------------------------------------------------------
(* The check of the ledger.                                                *)

\* A set of natural numbers has a smallest one: less-than is well-founded.
LEMMA LeastNumber ==
    ASSUME NEW T, T \subseteq Nat, T # {}
    PROVE  \E x \in T : \A y \in T : x <= y
<1> DEFINE R == OpToRel(<, Nat)
<1>1. IsWellFoundedOn(R, Nat)
  BY NatLessThanWellFounded
<1>2. \A x, y \in Nat : x < y => <<x, y>> \in R
  BY DEF OpToRel
<1> HIDE DEF R
<1>3. PICK x \in T : \A y \in T : ~(<<y, x>> \in R)
  BY <1>1, WFMin
<1>4. \A y \in T : ~(y < x)
  BY <1>2, <1>3
<1>5. \A y \in T : x <= y
  BY <1>4
<1> QED
  BY <1>5

\* The loop takes a step that is there.
LEMMA FirstIsStep ==
    ASSUME NEW steps \in SUBSET Steps, steps # {}
    PROVE  First(steps) \in steps
<1> DEFINE ids == {s.id : s \in steps}
<1>1. ids \subseteq Nat /\ ids # {}
  BY DEF Steps
<1>2. PICK x \in ids : \A y \in ids : x <= y
  BY <1>1, LeastNumber
<1>3. \E s \in steps : \A t \in steps : s.id <= t.id
  BY <1>2
<1> QED
  BY <1>3 DEF First

\* All steps of an answer are valid just if the rows form one chain.
LEMMA ValidIsIntact ==
    ASSUME NEW rows \in SUBSET Row
    PROVE  (\A s \in VerifyReply(rows) : s.valid) <=> Intact(rows)
<1>1. (\A s \in VerifyReply(rows) : s.valid) <=> (\A r \in rows : StepValid(rows, r))
  <2>1. \A r \in rows : [id |-> r.id, valid |-> StepValid(rows, r)].valid = StepValid(rows, r)
    BY Zenon
  <2>2. ASSUME \A s \in VerifyReply(rows) : s.valid, NEW r \in rows PROVE StepValid(rows, r)
    <3>1. [id |-> r.id, valid |-> StepValid(rows, r)] \in VerifyReply(rows)
      BY Zenon DEF VerifyReply
    <3> QED
      BY <2>1, <2>2, <3>1, Zenon
  <2>3. ASSUME \A r \in rows : StepValid(rows, r), NEW s \in VerifyReply(rows) PROVE s.valid
    <3>1. PICK r \in rows : s = [id |-> r.id, valid |-> StepValid(rows, r)]
      BY Zenon DEF VerifyReply
    <3> QED
      BY <2>1, <2>3, <3>1, Zenon
  <2> QED
    BY <2>2, <2>3, Zenon
<1>2. ASSUME NEW r \in rows, StepValid(rows, r)
      PROVE  /\ r.prev < r.id
             /\ r.prev = Genesis \/ \E q \in rows : q.id = r.prev
             /\ ~\E q \in rows : r.prev < q.id /\ q.id < r.id
  <2> DEFINE before == {q \in rows : q.id < r.id}
  <2>0. \A q \in rows : q.id \in Nat \ {0} /\ q.prev \in Nat
    BY DEF Row
  <2>1. CASE before = {} /\ r.prev = Genesis
    BY <2>0, <2>1 DEF Genesis
  <2>2. CASE \E q \in before : r.prev = q.id /\ \A x \in before : x.id <= q.id
    <3>1. PICK q \in before : r.prev = q.id /\ \A x \in before : x.id <= q.id
      BY <2>2
    <3>2. \A x \in rows : x.id < r.id => x.id <= r.prev
      BY <3>1
    <3> QED
      BY <2>0, <3>1, <3>2
  <2> QED
    BY <1>2, <2>1, <2>2 DEF StepValid
<1>3. ASSUME NEW r \in rows,
             r.prev < r.id,
             r.prev = Genesis \/ \E q \in rows : q.id = r.prev,
             ~\E q \in rows : r.prev < q.id /\ q.id < r.id
      PROVE  StepValid(rows, r)
  <2> DEFINE before == {q \in rows : q.id < r.id}
  <2>0. \A q \in rows : q.id \in Nat \ {0} /\ q.prev \in Nat
    BY DEF Row
  <2>1. CASE r.prev = Genesis
    <3>1. before = {}
      BY <1>3, <2>0, <2>1 DEF Genesis
    <3> QED
      BY <2>1, <3>1 DEF StepValid
  <2>2. CASE \E q \in rows : q.id = r.prev
    <3>1. PICK q \in rows : q.id = r.prev
      BY <2>2
    <3>2. q \in before /\ \A x \in before : x.id <= q.id
      BY <1>3, <2>0, <3>1
    <3> QED
      BY <3>1, <3>2 DEF StepValid
  <2> QED
    BY <1>3, <2>1, <2>2
<1> QED
  BY <1>1, <1>2, <1>3 DEF Intact

\* An answer consists of steps.
LEMMA ReplyIsSteps ==
    ASSUME NEW rows \in SUBSET Row
    PROVE  VerifyReply(rows) \in SUBSET Steps
<1>1. \A r \in rows : StepValid(rows, r) \in BOOLEAN
  BY DEF StepValid
<1>2. \A r \in rows : r.id \in Nat \ {0}
  BY DEF Row
<1>3. ASSUME NEW r \in rows PROVE [id |-> r.id, valid |-> StepValid(rows, r)] \in Steps
  BY <1>1, <1>2 DEF Steps
<1> QED
  BY <1>3, Zenon DEF VerifyReply

\* From the answer on: the rows of the click were read, and the steps that
\* are not in the queue any more were valid.
Reading ==
    /\ atClick \subseteq checked /\ queue \subseteq VerifyReply(checked)
    /\ \A s \in VerifyReply(checked) \ queue : s.valid

Vouched == atClick \subseteq checked /\ \A s \in VerifyReply(checked) : s.valid

Explained ==
    \/ /\ verificationSteps[Len(verificationSteps)] = "fail"
       /\ ~\A s \in VerifyReply(checked) : s.valid
    \/ verificationSteps[Len(verificationSteps)] = "error" /\ checked = {}

VerifyTyped ==
    /\ isVerifying \in BOOLEAN /\ verifyPC \in {"idle", "connecting", "found", "block"}
    /\ queue \in SUBSET Steps /\ verificationSteps \in Seq(CheckLines)
    /\ verificationSuccess \in {"null", "true", "false"}
    /\ atClick \subseteq ledger /\ checked \subseteq ledger

VerifyInv ==
    /\ VerifyTyped
    /\ isVerifying <=> verifyPC # "idle"
    /\ verifyPC # "idle" => verificationSuccess = "null"
    /\ verifyPC = "connecting" => checked = {}
    /\ verifyPC \in {"found", "block"} => Reading
    /\ verifyPC = "block" => queue # {}
    /\ verificationSuccess = "true" => Vouched
    /\ verificationSuccess = "false" => Explained

\* A line put at the end of the console.
LEMMA LastLine ==
    ASSUME NEW steps \in Seq(CheckLines), NEW line \in CheckLines
    PROVE  /\ steps \o <<line>> \in Seq(CheckLines)
           /\ (steps \o <<line>>)[Len(steps \o <<line>>)] = line
           /\ Append(steps, line) \in Seq(CheckLines)
<1>1. <<line>> \in Seq(CheckLines) /\ Len(<<line>>) = 1 /\ <<line>>[1] = line
  OBVIOUS
<1>2. Len(steps) \in Nat
  OBVIOUS
<1>3. /\ steps \o <<line>> \in Seq(CheckLines)
      /\ Len(steps \o <<line>>) = Len(steps) + 1
      /\ \A i \in 1..(Len(steps) + 1) :
            (steps \o <<line>>)[i] = IF i <= Len(steps) THEN steps[i] ELSE <<line>>[i - Len(steps)]
  BY <1>1, ConcatProperties
<1>4. (steps \o <<line>>)[Len(steps) + 1] = <<line>>[1]
  <2>1. Len(steps) + 1 \in 1..(Len(steps) + 1) /\ ~(Len(steps) + 1 <= Len(steps))
        /\ (Len(steps) + 1) - Len(steps) = 1
    BY <1>2
  <2> QED
    BY <1>3, <2>1
<1> QED
  BY <1>1, <1>3, <1>4

\* What the two ends of a check leave behind.
LEMMA VerifyFailed ==
    ASSUME VerifyInv, NEW line \in {"fail", "error"}, Conclude(<<line>>, "false"),
           line = "fail" => ~\A s \in VerifyReply(checked) : s.valid,
           line = "error" => checked = {},
           UNCHANGED <<checked, atClick, ledger>>
    PROVE  VerifyInv'
<1>1. /\ verificationSteps' = verificationSteps \o <<line>> /\ verificationSuccess' = "false"
      /\ verifyPC' = "idle" /\ queue' = {}
  BY DEF Conclude
<1>2. isVerifying' = FALSE
  BY Zenon DEF Conclude
<1>3. line \in CheckLines
  BY DEF CheckLines
<1>4. /\ verificationSteps' \in Seq(CheckLines)
      /\ verificationSteps'[Len(verificationSteps')] = line
  BY <1>1, <1>3, LastLine DEF VerifyInv, VerifyTyped
<1>5. Explained'
  BY <1>4 DEF Explained
<1>6. VerifyTyped'
  <2>1. /\ verifyPC' \in {"idle", "connecting", "found", "block"} /\ queue' \in SUBSET Steps
        /\ verificationSuccess' \in {"null", "true", "false"}
        /\ atClick' \subseteq ledger' /\ checked' \subseteq ledger'
    BY <1>1 DEF VerifyInv, VerifyTyped
  <2>2. isVerifying' \in BOOLEAN
    BY <1>2
  <2> QED
    BY <1>4, <2>1, <2>2 DEF VerifyTyped
<1>7. ~isVerifying'
  BY <1>2
<1> QED
  BY <1>1, <1>5, <1>6, <1>7 DEF VerifyInv

LEMMA VerifyPassed ==
    ASSUME VerifyInv, Conclude(<<"allVerified", "verified">>, "true"), Vouched,
           UNCHANGED <<checked, atClick, ledger>>
    PROVE  VerifyInv'
<1>1. /\ verificationSteps' = verificationSteps \o <<"allVerified", "verified">>
      /\ verificationSuccess' = "true"
      /\ verifyPC' = "idle" /\ queue' = {}
  BY DEF Conclude
<1>2. isVerifying' = FALSE
  BY Zenon DEF Conclude
<1>3. <<"allVerified", "verified">> \in Seq(CheckLines)
  BY DEF CheckLines
<1>4. verificationSteps' \in Seq(CheckLines)
  BY <1>1, <1>3, ConcatProperties DEF VerifyInv, VerifyTyped
<1>5. Vouched'
  BY DEF Vouched
<1>6. VerifyTyped'
  <2>1. /\ verifyPC' \in {"idle", "connecting", "found", "block"} /\ queue' \in SUBSET Steps
        /\ verificationSuccess' \in {"null", "true", "false"}
        /\ atClick' \subseteq ledger' /\ checked' \subseteq ledger'
    BY <1>1 DEF VerifyInv, VerifyTyped
  <2>2. isVerifying' \in BOOLEAN
    BY <1>2
  <2> QED
    BY <1>4, <2>1, <2>2 DEF VerifyTyped
<1>7. ~isVerifying'
  BY <1>2
<1> QED
  BY <1>1, <1>5, <1>6, <1>7 DEF VerifyInv

\* The top of the loop, with what is left of the queue.
LEMMA VerifyGoesOn ==
    ASSUME VerifyInv, verifyPC \in {"found", "block"},
           NEW rest, rest \subseteq queue, \A s \in queue \ rest : s.valid,
           NextStep(rest), UNCHANGED <<checked, atClick, ledger>>
    PROVE  VerifyInv'
<1>0. Reading
  BY DEF VerifyInv
<1>1. CASE rest = {}
  <2>1. Vouched
    BY <1>0, <1>1 DEF Reading, Vouched
  <2> QED
    BY <1>1, <2>1, VerifyPassed DEF NextStep
<1>2. CASE rest # {}
  <2>1. /\ verificationSteps' = Append(verificationSteps, "block")
        /\ verifyPC' = "block" /\ queue' = rest
        /\ UNCHANGED <<isVerifying, verificationSuccess>>
    BY <1>2 DEF NextStep
  <2>2. "block" \in CheckLines
    BY DEF CheckLines
  <2>3. verificationSteps' \in Seq(CheckLines)
    BY <2>1, <2>2, LastLine DEF VerifyInv, VerifyTyped
  <2>4. VerifyTyped'
    BY <2>1, <2>3 DEF VerifyInv, VerifyTyped
  <2>5. Reading'
    <3>1. atClick' \subseteq checked' /\ queue' \subseteq VerifyReply(checked)'
      BY <1>0, <2>1 DEF Reading
    <3>2. \A s \in VerifyReply(checked)' \ queue' : s.valid
      BY <1>0, <2>1 DEF Reading
    <3> QED
      BY <3>1, <3>2 DEF Reading
  <2> QED
    BY <1>2, <2>1, <2>4, <2>5 DEF VerifyInv
<1> QED
  BY <1>1, <1>2

LEMMA VerifyStarts ==
    ASSUME VerifyInv, handleVerifyChain
    PROVE  VerifyInv'
<1>1. /\ verificationSuccess' = "null" /\ verificationSteps' = <<"connect", "access">>
      /\ verifyPC' = "connecting" /\ queue' = {}
      /\ atClick' = ledger /\ checked' = {} /\ ledger' = ledger
  BY DEF handleVerifyChain, serverVars
<1>2. isVerifying' = TRUE
  BY Zenon DEF handleVerifyChain
<1>3. verificationSteps' \in Seq(CheckLines)
  BY <1>1 DEF CheckLines
<1>4. isVerifying' \in BOOLEAN /\ isVerifying'
  BY <1>2
<1>5. VerifyTyped'
  BY <1>1, <1>3, <1>4 DEF VerifyTyped
<1> QED
  BY <1>1, <1>4, <1>5 DEF VerifyInv

\* The rows of the click are among those that are read: the ledger grows.
LEMMA VerifyAnswered ==
    ASSUME VerifyInv, ServerOK, VerifyAnswer
    PROVE  VerifyInv'
<1>0. verifyPC = "connecting" /\ UNCHANGED <<atClick, ledger>>
  BY DEF VerifyAnswer, VerifyFrame, serverVars
<1>1. CASE /\ verificationSteps' = Append(verificationSteps, "found")
           /\ verifyPC' = "found" /\ queue' = VerifyReply(ledger)
           /\ checked' = ledger
           /\ UNCHANGED <<left, isVerifying, verificationSuccess>>
  <2>1. "found" \in CheckLines
    BY DEF CheckLines
  <2>2. verificationSteps' \in Seq(CheckLines)
    BY <1>1, <2>1, LastLine DEF VerifyInv, VerifyTyped
  <2>3. queue' \in SUBSET Steps
    BY <1>1, ReplyIsSteps DEF ServerOK
  <2>4. VerifyTyped'
    BY <1>0, <1>1, <2>2, <2>3 DEF VerifyInv, VerifyTyped
  <2>5. Reading'
    <3>1. queue' = VerifyReply(checked)'
      BY <1>1
    <3>2. atClick' \subseteq checked'
      BY <1>0, <1>1 DEF VerifyInv, VerifyTyped
    <3> QED
      BY <3>1, <3>2 DEF Reading
  <2> QED
    BY <1>0, <1>1, <2>4, <2>5 DEF VerifyInv
<1>2. CASE Conclude(<<"error">>, "false") /\ UNCHANGED checked
  BY <1>0, <1>2, VerifyFailed DEF VerifyInv
<1> QED
  BY <1>1, <1>2 DEF VerifyAnswer

LEMMA VerifyLoops ==
    ASSUME VerifyInv, VerifyBegin \/ VerifyBlock
    PROVE  VerifyInv'
<1>0. UNCHANGED <<checked, atClick, ledger>>
  BY DEF VerifyBegin, VerifyBlock, VerifyFrame, serverVars
<1>1. CASE VerifyBegin
  <2>1. verifyPC = "found" /\ NextStep(queue)
    BY <1>1 DEF VerifyBegin
  <2> QED
    BY <1>0, <2>1, VerifyGoesOn
<1>2. CASE VerifyBlock
  <2> DEFINE s == First(queue)
  <2>1. verifyPC = "block" /\ queue # {} /\ queue \in SUBSET Steps
    BY <1>2 DEF VerifyBlock, VerifyInv, VerifyTyped
  <2>2. s \in queue
    BY <2>1, FirstIsStep
  <2>3. \/ s.valid /\ NextStep(queue \ {s})
        \/ ~s.valid /\ Conclude(<<"fail">>, "false")
    BY <1>2, Zenon DEF VerifyBlock
  <2> HIDE DEF s
  <2>4. CASE s.valid /\ NextStep(queue \ {s})
    <3>1. \A t \in queue \ (queue \ {s}) : t.valid
      BY <2>4
    <3> QED
      BY <1>0, <2>1, <2>4, <3>1, VerifyGoesOn
  <2>5. CASE ~s.valid /\ Conclude(<<"fail">>, "false")
    <3>1. ~\A t \in VerifyReply(checked) : t.valid
      BY <2>1, <2>2, <2>5 DEF VerifyInv, Reading
    <3> QED
      BY <1>0, <2>5, <3>1, VerifyFailed
  <2> QED
    BY <2>3, <2>4, <2>5
<1> QED
  BY <1>1, <1>2

LEMMA VerifyInvariant == Spec => []VerifyInv
<1>1. Init => VerifyInv
  <2> SUFFICES ASSUME Init PROVE VerifyInv
    OBVIOUS
  <2>1. isVerifying = FALSE
    BY Zenon DEF Init, InitOperations
  <2>2. isVerifying \in BOOLEAN /\ ~isVerifying
    BY <2>1
  <2>3. /\ verifyPC = "idle" /\ queue = {} /\ verificationSteps = << >>
        /\ verificationSuccess = "null" /\ atClick = {} /\ checked = {}
    BY DEF Init, InitOperations
  <2>4. verificationSteps \in Seq(CheckLines)
    BY <2>3
  <2>5. VerifyTyped
    BY <2>2, <2>3, <2>4 DEF VerifyTyped
  <2> QED
    BY <2>2, <2>3, <2>5 DEF VerifyInv
<1>2. VerifyInv /\ ServerOK /\ [Next]_vars => VerifyInv'
  <2> SUFFICES ASSUME VerifyInv, ServerOK, [Next]_vars PROVE VerifyInv'
    OBVIOUS
  <2>1. CASE UNCHANGED verifyVars
    <3>1. UNCHANGED <<isVerifying, verifyPC, queue, verificationSteps, verificationSuccess,
                      atClick, checked>>
      BY <2>1 DEF verifyVars
    <3>2. VerifyTyped'
      BY <3>1, LedgerGrows DEF VerifyInv, VerifyTyped
    <3> QED
      BY <3>1, <3>2 DEF VerifyInv, Reading, Vouched, Explained
  <2>2. Click => handleVerifyChain \/ UNCHANGED verifyVars
    BY DEF Click, runBenchmark, BenchFrame, ExecuteAttack, AttackFrame, SelectTab
  <2>3. ServerNext \/ Feed => UNCHANGED verifyVars
    BY ServerFrame, FeedFrame DEF operationVars
  <2>4. AttackTimer \/ AttackAnswer \/ AttackLine \/ BenchmarkAnswer \/ CooldownTimer \/ Second
            => UNCHANGED verifyVars
    BY DEF AttackTimer, AttackAnswer, AttackLine, AttackFrame, BenchmarkAnswer, CooldownTimer, Second,
           BenchFrame
  <2>5. VerifyStep \/ handleVerifyChain => VerifyInv'
    BY VerifyStarts, VerifyAnswered, VerifyLoops DEF VerifyStep
  <2>6. Next => \/ VerifyStep \/ handleVerifyChain
                \/ UNCHANGED verifyVars
    BY <2>2, <2>3, <2>4, Zenon DEF Next
  <2> QED
    BY <2>1, <2>5, <2>6 DEF vars
<1> QED
  BY <1>1, <1>2, ServerInvariant, PTL DEF Spec

(* handleVerifyChain: a verdict "INTEGRITY SECURE" vouches for all records *)
(* of the instant of the click, whatever is committed meanwhile.           *)
THEOREM SecureIsIntact == Spec => []SecureMeansIntact
<1>1. VerifyInv /\ ServerOK => SecureMeansIntact
  <2> SUFFICES ASSUME VerifyInv, ServerOK, LedgerCard = "INTEGRITY SECURE"
               PROVE  atClick \subseteq checked /\ Intact(checked)
    BY Zenon DEF SecureMeansIntact
  <2>1. verificationSuccess \in {"null", "true", "false"}
    BY DEF VerifyInv, VerifyTyped
  <2>2. verificationSuccess = "true"
    BY <2>1, Zenon DEF LedgerCard
  <2>3. Vouched /\ checked \in SUBSET Row
    BY <2>2 DEF VerifyInv, VerifyTyped, ServerOK
  <2> QED
    BY <2>3, ValidIsIntact DEF Vouched
<1> QED
  BY <1>1, VerifyInvariant, ServerInvariant, PTL

(* handleVerifyChain: a verdict "INTEGRITY COMPROMISED" stands below the   *)
(* line that explains it.                                                  *)
THEOREM CompromiseIsExplained == Spec => []CompromisedExplained
<1>1. VerifyInv /\ ServerOK => CompromisedExplained
  <2> SUFFICES ASSUME VerifyInv, ServerOK, LedgerCard = "INTEGRITY COMPROMISED"
               PROVE  \/ /\ verificationSteps[Len(verificationSteps)] = "fail"
                         /\ ~Intact(checked)
                      \/ /\ verificationSteps[Len(verificationSteps)] = "error"
                         /\ checked = {}
    BY Zenon DEF CompromisedExplained
  <2>1. verificationSuccess \in {"null", "true", "false"}
    BY DEF VerifyInv, VerifyTyped
  <2>2. verificationSuccess = "false"
    BY <2>1, Zenon DEF LedgerCard
  <2>3. Explained /\ checked \in SUBSET Row
    BY <2>2 DEF VerifyInv, VerifyTyped, ServerOK
  <2> QED
    BY <2>3, ValidIsIntact DEF Explained
<1> QED
  BY <1>1, VerifyInvariant, ServerInvariant, PTL

(* The buttons are disabled exactly while their handlers are under way.    *)
THEOREM FlagsRight == Spec => []BusyFlags
<1>1. VerifyInv /\ AttackInv => BusyFlags
  BY DEF VerifyInv, AttackInv, BusyFlags
<1> QED
  BY <1>1, VerifyInvariant, AttackInvariant, PTL

-----------------------------------------------------------------------------
(* All parts together: the variables have the values the code gives them.  *)
THEOREM TypeCorrect == Spec => []TypeOK
<1>1. ServerOK /\ LeftOK /\ BenchInv /\ FeedInv /\ InboxInv /\ ScreenInv /\ AlarmInv
        /\ AttackInv /\ VerifyInv => TypeOK
  <2> SUFFICES ASSUME ServerOK, LeftOK, BenchInv, FeedInv, InboxInv, ScreenInv, AlarmInv,
                      AttackInv, VerifyInv
               PROVE  TypeOK
    OBVIOUS
  <2>1. /\ gateway \in [up : BOOLEAN, served : Nat, gauge : Nat]
        /\ ledger \subseteq Row /\ clock \in Nat /\ left \in [Kinds -> Nat]
        /\ files \in [Files -> [exists : BOOLEAN, units : Int]]
        /\ activeTab \in Tabs
    BY DEF ServerOK, LeftOK
  <2>2. /\ isMounted \in BOOLEAN
        /\ stage \in [Polls -> Sources]
        /\ phase \in [Polls -> {"idle", "sent", "ok", "failed"}]
        /\ asOf \in [Polls -> Nat] /\ alone \in [Polls -> BOOLEAN]
        /\ shown \in [Sources -> Nat]
    BY Zenon DEF FeedInv, FeedTyped
  <2>3. inbox \in [Polls -> [metrics : MetricsData, logs : SUBSET Row,
                             certs : [certificates : Certs, expiringCount : Nat]]]
    BY Zenon DEF InboxInv, Message
  <2>4. /\ isOffline \in BOOLEAN /\ errorMessage \in BOOLEAN
        /\ throughput \in Nat /\ activeTunnels \in {0, 1}
        /\ latencyHistory \in Seq(Nat)
        /\ logs \subseteq [id : Nat \ {0}, level : {"CRITICAL", "WARNING", "INFO"}]
        /\ identities \subseteq Tenants
    BY Zenon DEF ScreenInv, MetricsOK, LogsOK
  <2>5. certificates \in Certs /\ expiringCertsCount \in Nat
    BY CountIsNat DEF ScreenInv, CertsOK
  <2>6. healthStatus \in {"HEALTHY", "UNDER_ATTACK"} /\ alarms \in Nat
    BY DEF AlarmInv
  <2>7. /\ isVerifying \in BOOLEAN /\ verifyPC \in {"idle", "connecting", "found", "block"}
        /\ queue \subseteq Steps
        /\ verificationSteps \in Seq(CheckLines)
        /\ verificationSuccess \in {"null", "true", "false"}
        /\ atClick \subseteq Row /\ checked \subseteq Row
    BY DEF VerifyInv, VerifyTyped, ServerOK
  <2>8. /\ isAttacking \in AttackTypes \cup {"null"} /\ attackPC \in {"idle", "sent", "lines"}
        /\ lines \in Seq(Tags) /\ attackSteps \in Seq(AttackLines)
        /\ rowsAtAttack \subseteq Row
    BY DEF AttackInv, ServerOK
  <2>9. /\ isBenchmarking \in BOOLEAN /\ benchmarkResult \in BOOLEAN
        /\ benchmarkError \in BOOLEAN /\ cooldown \in Nat
        /\ ticking \subseteq Nat /\ due \subseteq Nat /\ rested \in Nat
    BY DEF BenchInv, BenchOK, CountdownOK
  <2> QED
    BY <2>1, <2>2, <2>3, <2>4, <2>5, <2>6, <2>7, <2>8, <2>9, Zenon DEF TypeOK
<1> QED
  BY <1>1, ServerInvariant, LeftInvariant, BenchInvariant, FeedInvariant, InboxInvariant,
     ScreenInvariant, AlarmInvariant, AttackInvariant, VerifyInvariant, PTL

-----------------------------------------------------------------------------
(* One chain over all tenants.                                             *)

\* The records of the ledger: ids are unique, and a record continues one of
\* its own tenant or none (CommitRecord, from the trigger of init.sql).
LedgerOK ==
    /\ \A a, b \in ledger : a.id = b.id => a = b
    /\ \A a \in ledger : a.prev # Genesis => \E b \in ledger : b.id = a.prev /\ b.tenant = a.tenant

\* Tenants' chains stay apart in the table that the routes read.
LEMMA LedgerInvariant == Spec => []LedgerOK
<1>1. Init => LedgerOK
  BY DEF Init, InitServer, LedgerOK
<1>2. LedgerOK /\ [Next]_vars => LedgerOK'
  <2> SUFFICES ASSUME LedgerOK, [Next]_vars PROVE LedgerOK'
    OBVIOUS
  <2>1. CASE CommitRecord
    <3>0. PICK i \in 1..MaxId, t \in Tenants, a \in Actions :
              /\ \A r \in ledger : r.id # i
              /\ \E h \in {Genesis} \cup {r.id : r \in {q \in ledger : q.tenant = t}} :
                    ledger' = ledger \cup {[id |-> i, tenant |-> t, action |-> a, prev |-> h]}
      BY <2>1 DEF CommitRecord
    <3>1. PICK h \in {Genesis} \cup {r.id : r \in {q \in ledger : q.tenant = t}} :
              ledger' = ledger \cup {[id |-> i, tenant |-> t, action |-> a, prev |-> h]}
      BY <3>0
    <3> DEFINE new == [id |-> i, tenant |-> t, action |-> a, prev |-> h]
    <3>2. new.id = i /\ new.tenant = t /\ new.prev = h
      OBVIOUS
    <3> HIDE DEF new
    <3>3. ledger' = ledger \cup {new}
      BY <3>1 DEF new
    <3>4. h # Genesis => \E b \in ledger : b.id = h /\ b.tenant = t
      BY <3>1
    <3> QED
      BY <3>0, <3>2, <3>3, <3>4 DEF LedgerOK
  <2>2. ASSUME UNCHANGED ledger PROVE LedgerOK'
    BY <2>2 DEF LedgerOK
  <2>3. CASE Serve \/ StopOrStart \/ Age \/ Replace
    BY <2>2, <2>3 DEF Serve, StopOrStart, Age, Replace
  <2>4. CASE PageStep
    BY <2>2, <2>4, PageFrame DEF serverVars
  <2>5. CASE UNCHANGED vars
    BY <2>2, <2>5 DEF vars, serverVars
  <2> QED
    BY <2>1, <2>3, <2>4, <2>5 DEF Next, ServerNext, PageStep
<1> QED
  BY <1>1, <1>2, PTL DEF Spec

\* An unbroken chain of rows of the ledger has one tenant: the first record of
\* a second tenant would have to start from the genesis hash behind a record
\* of the first, or continue an earlier record of the second.
LEMMA IntactIsOneTenant ==
    ASSUME LedgerOK, NEW rows, rows \subseteq ledger, rows \subseteq Row, Intact(rows)
    PROVE  \A a, b \in rows : a.tenant = b.tenant
<1> USE DEF Row, Genesis
<1>1. \A a, b \in rows : a.id = b.id => a = b
  BY DEF LedgerOK
<1>2. \A r \in rows : r.id \in Nat /\ r.id > 0 /\ r.prev \in Nat
  OBVIOUS
<1>3. \A r \in rows : r.prev # 0 => \E q \in rows : q.id = r.prev /\ q.tenant = r.tenant
  <2> SUFFICES ASSUME NEW r \in rows, r.prev # 0
               PROVE  \E q \in rows : q.id = r.prev /\ q.tenant = r.tenant
    OBVIOUS
  <2>1. PICK q \in rows : q.id = r.prev
    BY DEF Intact
  <2>2. PICK b \in ledger : b.id = r.prev /\ b.tenant = r.tenant
    BY DEF LedgerOK
  <2>3. q = b
    BY <2>1, <2>2 DEF LedgerOK
  <2> QED
    BY <2>1, <2>2, <2>3
<1>4. \A r \in rows : r.prev < r.id /\ ~\E q \in rows : r.prev < q.id /\ q.id < r.id
  BY DEF Intact
<1> SUFFICES ASSUME NEW a \in rows, NEW b \in rows, a.tenant # b.tenant PROVE FALSE
  OBVIOUS
<1> DEFINE ids == {r.id : r \in rows}
<1>5. PICK first \in rows : \A r \in rows : first.id <= r.id
  <2>1. PICK n \in ids : \A m \in ids : n <= m
    <3>1. ids \subseteq Nat /\ ids # {}
      BY <1>2
    <3> QED
      BY <3>1, LeastNumber
  <2> QED
    BY <2>1
<1> DEFINE others == {r \in rows : r.tenant # first.tenant}
           otherIds == {r.id : r \in others}
<1>6. PICK r \in others : \A q \in others : r.id <= q.id
  <2>1. PICK n \in otherIds : \A m \in otherIds : n <= m
    <3>1. otherIds \subseteq Nat
      BY <1>2
    <3>2. a \in others \/ b \in others
      OBVIOUS
    <3>3. otherIds # {}
      BY <3>2
    <3> QED
      BY <3>1, <3>3, LeastNumber
  <2> QED
    BY <2>1
<1>7. first.id < r.id
  BY <1>1, <1>2, <1>5
<1>8. CASE r.prev = 0
  BY <1>2, <1>4, <1>7, <1>8
<1>9. CASE r.prev # 0
  <2>1. PICK q \in rows : q.id = r.prev /\ q.tenant = r.tenant
    BY <1>3, <1>9
  <2>2. q \in others /\ q.id < r.id
    BY <1>4, <2>1
  <2> QED
    BY <1>2, <1>6, <2>2
<1> QED
  BY <1>8, <1>9

(* "INTEGRITY SECURE" is never shown for a ledger in which two tenants had  *)
(* records when /api/verify-chain read it, for any numbers of tenants and   *)
(* records and whatever is committed meanwhile: the route's one chain over  *)
(* all tenants is only there when there is one tenant.                      *)
THEOREM SecureIsOneTenant == Spec => []SecureMeansOneTenant
<1>1. SecureMeansIntact /\ LedgerOK /\ TypeOK /\ VerifyInv => SecureMeansOneTenant
  <2> SUFFICES ASSUME SecureMeansIntact, LedgerOK, VerifyInv, TypeOK,
                      LedgerCard = "INTEGRITY SECURE"
               PROVE  \A a, b \in checked : a.tenant = b.tenant
    BY DEF SecureMeansOneTenant
  <2>1. Intact(checked)
    BY DEF SecureMeansIntact
  <2>2. checked \subseteq ledger /\ checked \subseteq Row
    BY DEF VerifyInv, VerifyTyped, TypeOK
  <2> QED
    BY <2>1, <2>2, IntactIsOneTenant
<1> QED
  BY <1>1, SecureIsIntact, LedgerInvariant, VerifyInvariant, TypeCorrect, PTL
=============================================================================
