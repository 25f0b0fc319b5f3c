---------------------------- MODULE GatewayProofs ----------------------------
(***************************************************************************)
(* Theorems about the middleware chain, for any number of requests,        *)
(* proofs, clients and operations, both settings of EnforceZiti and both   *)
(* of FailOpen.                                                            *)
(***************************************************************************)
EXTENDS Gateway, TLAPS

(* Type correctness of the chain SecureAPI, EnforcePolicy, handler.         *)
THEOREM TypeCorrect == Spec => []TypeOK
<1> USE GatewayAssumption
<1>1. Init => TypeOK
  BY DEF Init, TypeOK
<1>2. TypeOK /\ [Next]_vars => TypeOK'
  <2> SUFFICES ASSUME TypeOK, [Next]_vars PROVE TypeOK'
    OBVIOUS
  <2> USE DEF TypeOK, inputVars, pdpVars, lifeVars, Goto, InFlight, Final, Refused
  <2>1. ASSUME NEW r \in Requests, Receive(r) PROVE TypeOK'
    BY <2>1 DEF Receive
  <2>2. ASSUME NEW r \in Requests, Handle(r) PROVE TypeOK'
    <3>1. CASE VerifyDPoPProof(r) \/ IsJTIUsedAndSave(r) \/ CheckToken(r) \/ CheckIdentity(r)
      BY <3>1 DEF VerifyDPoPProof, IsJTIUsedAndSave, CheckToken, CheckIdentity
    <3>2. CASE CheckAccess(r) \/ ReceiveDecision(r) \/ PDPUnavailable(r)
      BY <3>2 DEF CheckAccess, ReceiveDecision, PDPUnavailable
    <3>3. CASE BadRequest(r) \/ Perform(r)
      BY <3>3 DEF BadRequest, Perform
    <3> QED
      BY <2>2, <3>1, <3>2, <3>3 DEF Handle, Middleware
  <2>3. ASSUME NEW r \in Requests, Decide(r) PROVE TypeOK'
    BY <2>3 DEF Decide
  <2>4. CASE UpdatePolicy
    <3>1. PICK rule \in Rules :
              policy' = IF rule \in policy THEN policy \ {rule} ELSE policy \cup {rule}
      BY <2>4 DEF UpdatePolicy
    <3>2. policy' \subseteq Rules
      BY <3>1
    <3> QED
      BY <2>4, <3>2 DEF UpdatePolicy
  <2>5. CASE Restart
    BY <2>5 DEF Restart
  <2>6. CASE UNCHANGED vars
    BY <2>6 DEF vars
  <2> QED
    BY <2>1, <2>2, <2>3, <2>4, <2>5, <2>6 DEF Next
<1> QED
  BY <1>1, <1>2, PTL DEF Spec

-----------------------------------------------------------------------------
(* The inductive invariant: what each stage of the chain has established,  *)
(* kept up to the effect on the database.                                  *)

Admitted == {"unused", "bound", "authenticated", "asking", "allowed"}

\* Behind SecureAPI's checks of the proof, the token and the connection.
ChecksOK ==
    \A r \in Requests :
        /\ pc[r] \in Admitted \cup {"verified"} \/ r \in done => ProofMatches(r)
        /\ pc[r] \in {"bound", "authenticated", "asking", "allowed"} \/ r \in done
               => token[r] # NoClient /\ maker[proof[r]] = token[r]
        /\ pc[r] \in {"authenticated", "asking", "allowed"} \/ r \in done => PeerOK(r)

\* Behind EnforcePolicy; an effect only comes with one of three answers.
DecisionsOK ==
    \A r \in Requests :
        /\ pc[r] = "allowed" \/ r \in done => decision[r] = "allow" \/ FailOpen
        /\ r \in done => pc[r] \in {"ok", "500", "lost"}
        /\ pc[r] = "ok" => r \in done

\* Before EnforcePolicy asks, nobody has decided.
UndecidedOK ==
    \A r \in Requests :
        pc[r] \in {"idle", "received", "verified", "unused", "bound", "authenticated"}
            => decision[r] = "none"

\* A request that was let through in this lifetime has left its proof in the
\* replay cache.
SpentOK ==
    \A r \in Requests :
        /\ pc[r] \in InFlight => lifeOf[r] = life
        /\ lifeOf[r] <= life
        /\ (pc[r] \in Admitted \/ r \in done) /\ lifeOf[r] = life => proof[r] \in jtis

\* Of two requests with one covered proof the cache lets one through per
\* lifetime.
ExclusiveOK ==
    \A r, q \in Requests :
        /\ r # q /\ proof[r] = proof[q] /\ proof[r] \in covered
        /\ pc[r] \in Admitted \/ r \in done
        /\ pc[q] \in Admitted \/ q \in done
        => lifeOf[r] # lifeOf[q]

ChainInv == ChecksOK /\ DecisionsOK /\ UndecidedOK /\ SpentOK /\ ExclusiveOK

\* Every step of the middleware chain and of the handlers keeps the invariant.
LEMMA HandleInv ==
    ASSUME TypeOK, ChainInv, NEW r \in Requests, Handle(r)
    PROVE  ChainInv'
<1> USE GatewayAssumption DEF ChainInv, TypeOK, Admitted, InFlight, inputVars, pdpVars, lifeVars, Goto,
        ProofMatches, PeerOK, GetZitiIdentity
<1>1. CASE VerifyDPoPProof(r)
  <2> USE <1>1 DEF VerifyDPoPProof
  <2>1. ChecksOK'
    BY DEF ChecksOK
  <2>2. DecisionsOK' /\ SpentOK'
    BY DEF DecisionsOK, SpentOK
  <2>3. UndecidedOK'
    BY DEF UndecidedOK
  <2>4. ExclusiveOK'
    BY DEF ExclusiveOK
  <2> QED
    BY <2>1, <2>2, <2>3, <2>4
<1>2. CASE IsJTIUsedAndSave(r)
  <2> USE <1>2 DEF IsJTIUsedAndSave
  <2>1. ChecksOK'
    BY DEF ChecksOK
  <2>2. DecisionsOK' /\ UndecidedOK'
    BY DEF DecisionsOK, UndecidedOK
  <2>3. SpentOK'
    BY DEF SpentOK
  <2>4. ExclusiveOK'
    BY DEF ExclusiveOK, SpentOK, DecisionsOK
  <2> QED
    BY <2>1, <2>2, <2>3, <2>4
<1>3. CASE CheckToken(r) \/ CheckIdentity(r) \/ CheckAccess(r)
  <2> USE <1>3 DEF CheckToken, CheckIdentity, CheckAccess
  <2>1. ChecksOK'
    BY DEF ChecksOK
  <2>2. DecisionsOK' /\ SpentOK'
    BY DEF DecisionsOK, SpentOK
  <2>3. UndecidedOK'
    BY DEF UndecidedOK
  <2>4. ExclusiveOK'
    BY DEF ExclusiveOK
  <2> QED
    BY <2>1, <2>2, <2>3, <2>4
<1>4. CASE ReceiveDecision(r) \/ PDPUnavailable(r) \/ BadRequest(r)
  <2> USE <1>4 DEF ReceiveDecision, PDPUnavailable, BadRequest
  <2>1. ChecksOK'
    BY DEF ChecksOK
  <2>2. DecisionsOK' /\ SpentOK'
    BY DEF DecisionsOK, SpentOK
  <2>3. UndecidedOK'
    BY DEF UndecidedOK
  <2>4. ExclusiveOK'
    BY DEF ExclusiveOK
  <2> QED
    BY <2>1, <2>2, <2>3, <2>4
<1>5. CASE Perform(r)
  <2> USE <1>5 DEF Perform
  <2>1. ChecksOK'
    BY DEF ChecksOK
  <2>2. DecisionsOK' /\ SpentOK'
    BY DEF DecisionsOK, SpentOK
  <2>3. UndecidedOK'
    BY DEF UndecidedOK
  <2>4. ExclusiveOK'
    BY DEF ExclusiveOK
  <2> QED
    BY <2>1, <2>2, <2>3, <2>4
<1> QED
  BY <1>1, <1>2, <1>3, <1>4, <1>5 DEF Handle, Middleware

\* So do arrivals, the PDP, its administrator and restarts of the gateway.
LEMMA OtherInv ==
    ASSUME TypeOK, ChainInv,
           Restart \/ UpdatePolicy \/ \E r \in Requests : Receive(r) \/ Decide(r)
    PROVE  ChainInv'
<1> USE GatewayAssumption DEF ChainInv, TypeOK, Admitted, InFlight, inputVars, pdpVars, lifeVars, Goto,
        ProofMatches, PeerOK, GetZitiIdentity
<1>1. CASE Restart
  <2> USE <1>1 DEF Restart
  <2>1. ChecksOK'
    BY DEF ChecksOK
  <2>2. DecisionsOK' /\ UndecidedOK'
    BY DEF DecisionsOK, UndecidedOK
  <2>3. SpentOK'
    BY DEF SpentOK
  <2>4. ExclusiveOK'
    BY DEF SpentOK, ExclusiveOK
  <2> QED
    BY <2>1, <2>2, <2>3, <2>4
<1>2. CASE UpdatePolicy
  <2> USE <1>2 DEF UpdatePolicy
  <2>1. ChecksOK' /\ DecisionsOK' /\ UndecidedOK'
    BY DEF ChecksOK, DecisionsOK, UndecidedOK
  <2>2. SpentOK' /\ ExclusiveOK'
    BY DEF SpentOK, ExclusiveOK
  <2> QED
    BY <2>1, <2>2
<1>3. ASSUME NEW r \in Requests, Receive(r) PROVE ChainInv'
  <2> USE <1>3 DEF Receive
  <2>1. ChecksOK'
    BY DEF ChecksOK
  <2>2. DecisionsOK' /\ UndecidedOK' /\ SpentOK'
    BY DEF DecisionsOK, UndecidedOK, SpentOK
  <2>3. r \notin done
    BY DEF DecisionsOK
  <2>4. ExclusiveOK'
    BY <2>3 DEF ExclusiveOK
  <2> QED
    BY <2>1, <2>2, <2>4
<1>4. ASSUME NEW r \in Requests, Decide(r) PROVE ChainInv'
  <2> USE <1>4 DEF Decide
  <2>1. ChecksOK'
    BY DEF ChecksOK
  <2>2. DecisionsOK' /\ UndecidedOK'
    BY DEF DecisionsOK, UndecidedOK
  <2>3. SpentOK' /\ ExclusiveOK'
    BY DEF SpentOK, ExclusiveOK
  <2> QED
    BY <2>1, <2>2, <2>3
<1> QED
  BY <1>1, <1>2, <1>3, <1>4

\* What a request has passed determines how far it is along the chain.
LEMMA ChainInvariant == Spec => []ChainInv
<1>1. Init => ChainInv
  BY DEF Init, ChainInv, ChecksOK, DecisionsOK, UndecidedOK, SpentOK, ExclusiveOK, Admitted, InFlight
<1>2. TypeOK /\ ChainInv /\ [Next]_vars => ChainInv'
  <2> SUFFICES ASSUME TypeOK, ChainInv, [Next]_vars PROVE ChainInv'
    OBVIOUS
  <2>1. CASE UNCHANGED vars
    BY <2>1 DEF vars, inputVars, pdpVars, lifeVars, ChainInv, ChecksOK, DecisionsOK, UndecidedOK,
       SpentOK, ExclusiveOK, InFlight, ProofMatches, PeerOK, GetZitiIdentity
  <2> QED
    BY <2>1, HandleInv, OtherInv DEF Next
<1> QED
  BY <1>1, <1>2, TypeCorrect, PTL DEF Spec

-----------------------------------------------------------------------------
(* EnforcePolicy: nothing reaches the database that the PDP has not         *)
(* allowed, unless PDP_FAIL_OPEN is set.                                    *)
THEOREM CompleteMediation == Spec => []Mediated
<1>1. TypeOK /\ ChainInv => Mediated
  BY GatewayAssumption DEF TypeOK, ChainInv, DecisionsOK, Mediated
<1> QED
  BY <1>1, TypeCorrect, ChainInvariant, PTL

(* SecureAPI: every effect is tied to the key, the operation, the token and *)
(* the connection of one client.                                            *)
THEOREM EffectsBound == Spec => []HolderBound
<1>1. TypeOK /\ ChainInv => HolderBound
  <2> SUFFICES ASSUME TypeOK, ChainInv, NEW r \in done
               PROVE  /\ token[r] \in Clients /\ maker[proof[r]] = token[r]
                      /\ madeFor[proof[r]] = <<op[r], token[r]>>
                      /\ peer[r] = token[r] \/ (peer[r] = NoClient /\ ~EnforceZiti)
    BY DEF HolderBound
  <2>1. /\ token[r] \in Clients /\ maker[proof[r]] = token[r]
        /\ ProofMatches(r) /\ PeerOK(r)
    BY GatewayAssumption DEF TypeOK, ChainInv, ChecksOK
  <2>2. madeFor[proof[r]] \in Ops \X Clients
    BY DEF TypeOK
  <2>3. madeFor[proof[r]] = <<op[r], token[r]>>
    BY <2>1, <2>2, GatewayAssumption DEF ProofMatches
  <2> QED
    BY <2>1, <2>3 DEF PeerOK, GetZitiIdentity
<1> QED
  BY <1>1, TypeCorrect, ChainInvariant, PTL

(* The replay check comes before every effect: one per lifetime for a proof *)
(* that the cache covers, in the sense of ReplayGuard and JTICache.         *)
THEOREM ProofsSpentOnce == Spec => []OneEffectPerProof
<1>1. TypeOK /\ ChainInv => OneEffectPerProof
  BY DEF TypeOK, ChainInv, ExclusiveOK, OneEffectPerProof
<1> QED
  BY <1>1, TypeCorrect, ChainInvariant, PTL

(* A refusal means that nothing was done, a success that it was.            *)
THEOREM AnswersHold == Spec => []AnswersTruthful
<1>1. ChainInv => AnswersTruthful
  BY DEF ChainInv, DecisionsOK, AnswersTruthful, Refused
<1> QED
  BY <1>1, ChainInvariant, PTL

-----------------------------------------------------------------------------
(* The chain implements the monitor.  IsJTIUsedAndSave admits; the PDP's    *)
(* decision, or under PDP_FAIL_OPEN its absence, grants; the database       *)
(* performs.  The checks in between only refuse or go on.                   *)

Asks == [r \in Requests |-> Asked(r)]

\* What was sent with the requests does not change.
LEMMA InputsStay ==
    ASSUME UNCHANGED inputVars
    PROVE  Asks' = Asks /\ proof' = proof /\ covered' = covered /\ Entitled' = Entitled
  BY DEF inputVars, Asks, Asked, Entitled, ProofMatches, PeerOK, GetZitiIdentity

\* A step of one request changes its own stage only.
LEMMA StageMoves ==
    ASSUME TypeOK, NEW r \in Requests, NEW l, Goto(r, l), decision' = decision
    PROVE  Stage' = [Stage EXCEPT ![r] = Stage'[r]]
<1>1. \A q \in Requests \ {r} : pc'[q] = pc[q]
  BY DEF TypeOK, Goto
<1>2. \A q \in Requests \ {r} : Stage'[q] = Stage[q]
  BY <1>1 DEF Stage, Refused
<1>3. Stage' = [q \in Requests |-> Stage'[q]] /\ Stage = [q \in Requests |-> Stage[q]]
  BY DEF Stage, Refused
<1> QED
  BY <1>2, <1>3

\* A step that leaves its own stage alone leaves all alone.
LEMMA StageStays ==
    ASSUME TypeOK, NEW r \in Requests, NEW l, Goto(r, l), decision' = decision,
           Stage'[r] = Stage[r]
    PROVE  Stage' = Stage
<1>1. Stage = [q \in Requests |-> Stage[q]]
  BY DEF Stage, Refused
<1> QED
  BY <1>1, StageMoves

\* A request that is turned away.
LEMMA Refusal ==
    ASSUME TypeOK, NEW r \in Requests, pc[r] \in InFlight, NEW l \in Refused, Goto(r, l),
           UNCHANGED <<inputVars, jtis, pdpVars, done>>
    PROVE  Monitor!Next
<1>1. Stage[r] \in {"new", "admitted", "granted"}
  BY DEF InFlight, Stage, Refused
<1>2. pc'[r] = l
  BY DEF TypeOK, Goto
<1>3. Stage'[r] = "refused"
  BY <1>2 DEF Refused, Stage
<1>4. Stage' = [Stage EXCEPT ![r] = "refused"]
  BY <1>3, StageMoves DEF pdpVars
<1>5. Monitor!Refuse(r)
  BY <1>1, <1>4, InputsStay DEF Monitor!Refuse, Monitor!Move, Monitor!inputs, Asks, pdpVars
<1> QED
  BY <1>5 DEF Monitor!Next

\* A request that goes on without the monitor noticing.
LEMMA Passage ==
    ASSUME TypeOK, NEW r \in Requests, NEW l, Goto(r, l), Stage'[r] = Stage[r],
           UNCHANGED <<inputVars, jtis, pdpVars, done>>
    PROVE  UNCHANGED Monitor!vars
<1>1. Stage' = Stage
  BY StageStays DEF pdpVars
<1> QED
  BY <1>1, InputsStay DEF Monitor!vars, Monitor!inputs, Asks, pdpVars

\* Who asks the PDP has passed the checks of SecureAPI.
LEMMA EntitledThere ==
    ASSUME TypeOK, ChainInv, NEW r \in Requests, pc[r] = "asking"
    PROVE  r \in Entitled
  BY DEF TypeOK, ChainInv, ChecksOK, Admitted, Entitled

\* SecureAPI, EnforcePolicy and the handlers, step by step.
LEMMA MonitorHandle ==
    ASSUME TypeOK, ChainInv, NEW r \in Requests, Handle(r)
    PROVE  Monitor!Next \/ UNCHANGED Monitor!vars
<1>0. pc \in [Requests -> {"idle"} \cup InFlight \cup Final]
  BY DEF TypeOK
<1>1. CASE VerifyDPoPProof(r) \/ CheckToken(r) \/ CheckIdentity(r) \/ CheckAccess(r)
  <2>1. /\ UNCHANGED <<inputVars, jtis, pdpVars, done>>
        /\ pc[r] \in InFlight
    BY <1>1 DEF VerifyDPoPProof, CheckToken, CheckIdentity, CheckAccess, InFlight
  <2>2. CASE \E l \in Refused : Goto(r, l)
    BY <2>1, <2>2, Refusal
  <2>3. CASE \/ pc[r] = "received" /\ Goto(r, "verified")
             \/ pc[r] = "unused" /\ Goto(r, "bound")
             \/ pc[r] = "bound" /\ Goto(r, "authenticated")
    <3>1. Stage'[r] = Stage[r]
      BY <1>0, <2>3 DEF Goto, Stage, Refused
    <3> QED
      BY <2>1, <2>3, <3>1, Passage
  <2>4. CASE CheckAccess(r)
    <3>1. decision[r] # "allow"
      BY <2>4 DEF CheckAccess, ChainInv, UndecidedOK
    <3>2. Stage'[r] = Stage[r]
      BY <1>0, <2>4, <3>1 DEF CheckAccess, Goto, Stage, Refused, pdpVars
    <3> QED
      BY <2>1, <2>4, <3>2, Passage DEF CheckAccess
  <2> QED
    BY <1>1, <2>2, <2>3, <2>4 DEF VerifyDPoPProof, CheckToken, CheckIdentity, Refused
<1>2. CASE IsJTIUsedAndSave(r)
  <2>1. /\ pc[r] = "verified" /\ jtis' = jtis \cup {proof[r]}
        /\ UNCHANGED <<inputVars, pdpVars, done>>
    BY <1>2 DEF IsJTIUsedAndSave
  <2>2. CASE proof[r] \in jtis /\ Goto(r, "401")
    <3>1. jtis' = jtis
      BY <2>1, <2>2
    <3> QED
      BY <2>1, <2>2, <3>1, Refusal DEF InFlight, Refused
  <2>3. CASE (proof[r] \in covered => proof[r] \notin jtis) /\ Goto(r, "unused")
    <3>1. Stage[r] = "new" /\ Stage'[r] = "admitted"
      BY <1>0, <2>1, <2>3 DEF Goto, Stage, Refused
    <3>2. Stage' = [Stage EXCEPT ![r] = "admitted"]
      BY <2>1, <2>3, <3>1, StageMoves DEF pdpVars
    <3>3. Monitor!Admit(r)
      BY <2>1, <2>3, <3>1, <3>2, InputsStay
      DEF Monitor!Admit, Monitor!Move, Monitor!inputs, Asks, pdpVars
    <3> QED
      BY <3>3 DEF Monitor!Next
  <2> QED
    BY <1>2, <2>2, <2>3 DEF IsJTIUsedAndSave
<1>3. CASE ReceiveDecision(r)
  <2>1. pc[r] = "asking" /\ UNCHANGED <<inputVars, jtis, pdpVars, done>>
    BY <1>3 DEF ReceiveDecision
  <2>2. CASE decision[r] = "allow"
    <3>1. Goto(r, "allowed")
      BY <1>3, <2>2 DEF ReceiveDecision
    <3>2. Stage'[r] = Stage[r]
      BY <1>0, <2>1, <2>2, <3>1 DEF Goto, Stage, Refused
    <3> QED
      BY <2>1, <3>1, <3>2, Passage
  <2>3. CASE decision[r] # "allow"
    BY <1>3, <2>1, <2>3, Refusal DEF ReceiveDecision, InFlight, Refused
  <2> QED
    BY <2>2, <2>3
<1>4. CASE PDPUnavailable(r)
  <2>1. pc[r] = "asking" /\ UNCHANGED <<inputVars, jtis, pdpVars, done>>
    BY <1>4 DEF PDPUnavailable
  <2>2. CASE ~FailOpen
    BY <1>4, <2>1, <2>2, Refusal DEF PDPUnavailable, InFlight, Refused
  <2>3. CASE FailOpen
    <3>1. Goto(r, "allowed")
      BY <1>4, <2>3 DEF PDPUnavailable
    <3>2. Stage'[r] = "granted"
      BY <1>0, <3>1 DEF Goto, Stage, Refused
    <3>3. CASE decision[r] = "allow"
      <4>1. Stage[r] = "granted"
        BY <2>1, <3>3 DEF Stage, Refused
      <4> QED
        BY <2>1, <3>1, <3>2, <4>1, Passage
    <3>4. CASE decision[r] # "allow"
      <4>1. Stage[r] = "admitted"
        BY <2>1, <3>4 DEF Stage, Refused
      <4>2. Stage' = [Stage EXCEPT ![r] = "granted"]
        BY <2>1, <3>1, <3>2, StageMoves DEF pdpVars
      <4>3. r \in Entitled
        BY <2>1, EntitledThere
      <4>4. Monitor!Grant(r)
        BY <2>1, <2>3, <4>1, <4>2, <4>3, InputsStay
        DEF Monitor!Grant, Monitor!Move, Monitor!inputs, Asks, pdpVars
      <4> QED
        BY <4>4 DEF Monitor!Next
    <3> QED
      BY <3>3, <3>4
  <2> QED
    BY <2>2, <2>3
<1>5. CASE BadRequest(r)
  BY <1>5, Refusal DEF BadRequest, InFlight, Refused
<1>6. CASE Perform(r)
  <2>1. pc[r] = "allowed" /\ UNCHANGED <<inputVars, jtis, pdpVars>>
    BY <1>6 DEF Perform
  <2>2. Stage[r] = "granted"
    BY <2>1 DEF Stage, Refused
  <2>3. CASE done' = done \cup {r} /\ Goto(r, "ok")
    <3>1. Stage'[r] = "ok"
      BY <1>0, <2>3 DEF Goto, Stage, Refused
    <3>2. Stage' = [Stage EXCEPT ![r] = "ok"]
      BY <2>1, <2>3, <3>1, StageMoves DEF pdpVars
    <3>3. Monitor!Perform(r)
      BY <2>1, <2>2, <2>3, <3>2, InputsStay
      DEF Monitor!Perform, Monitor!Move, Monitor!inputs, Asks, pdpVars
    <3> QED
      BY <3>3 DEF Monitor!Next
  <2>4. CASE done' \in {done, done \cup {r}} /\ Goto(r, "500")
    <3>1. Stage'[r] = "unknown"
      BY <1>0, <2>4 DEF Goto, Stage, Refused
    <3>2. Stage' = [Stage EXCEPT ![r] = "unknown"]
      BY <2>1, <2>4, <3>1, StageMoves DEF pdpVars
    <3>3. Monitor!Fail(r)
      BY <2>1, <2>2, <2>4, <3>2, InputsStay
      DEF Monitor!Fail, Monitor!Move, Monitor!inputs, Asks, pdpVars
    <3> QED
      BY <3>3 DEF Monitor!Next
  <2> QED
    BY <1>6, <2>3, <2>4 DEF Perform
<1> QED
  BY <1>1, <1>2, <1>3, <1>4, <1>5, <1>6 DEF Handle, Middleware

\* Arrivals, the PDP, its administrator and the end of the process.
LEMMA MonitorOther ==
    ASSUME TypeOK, ChainInv,
           Restart \/ UpdatePolicy \/ \E r \in Requests : Receive(r) \/ Decide(r)
    PROVE  Monitor!Next \/ UNCHANGED Monitor!vars
<1>0. /\ pc \in [Requests -> {"idle"} \cup InFlight \cup Final]
      /\ decision \in [Requests -> {"none", "allow", "deny"}]
  BY DEF TypeOK
<1>1. CASE Restart
  <2> DEFINE lost == {r \in Requests : pc[r] \in InFlight}
  <2>1. /\ jtis' = {} /\ UNCHANGED <<inputVars, pdpVars>>
        /\ pc' = [r \in Requests |-> IF r \in lost THEN "lost" ELSE pc[r]]
    BY <1>1 DEF Restart
  <2>2. /\ lost \in SUBSET {r \in Requests : Stage[r] \in {"new", "admitted", "granted"}}
        /\ \A r \in Requests : Stage[r] \in {"admitted", "granted"} => r \in lost
    BY <1>0 DEF InFlight, Final, Refused, Stage
  <2>3. Stage' = [r \in Requests |-> IF r \in lost THEN "unknown" ELSE Stage[r]]
    <3>1. \A r \in Requests : Stage'[r] = IF r \in lost THEN "unknown" ELSE Stage[r]
      BY <1>0, <2>1 DEF Stage, Refused, pdpVars
    <3>2. Stage' = [r \in Requests |-> Stage'[r]]
      BY DEF Stage, Refused
    <3> HIDE DEF lost
    <3> QED
      BY <3>1, <3>2
  <2>4. PICK committed \in SUBSET {r \in Requests : pc[r] = "allowed"} : done' = done \cup committed
    BY <1>1 DEF Restart
  <2>5. committed \in SUBSET {r \in Requests : Stage[r] = "granted"}
    BY DEF Stage, Refused
  <2>6. Monitor!Restart
    BY <2>1, <2>2, <2>3, <2>4, <2>5, InputsStay DEF Monitor!Restart, Monitor!inputs, Asks, pdpVars
  <2> QED
    BY <2>6 DEF Monitor!Next
<1>2. CASE UpdatePolicy
  <2>1. policy' # policy /\ UNCHANGED <<inputVars, pc, jtis, decision, done>>
    BY <1>2 DEF UpdatePolicy
  <2>2. Stage' = Stage
    BY <2>1 DEF Stage, Refused
  <2>3. Monitor!ChangePolicy
    BY <2>1, <2>2, InputsStay DEF Monitor!ChangePolicy, Monitor!inputs, Asks
  <2> QED
    BY <2>3 DEF Monitor!Next
<1>3. ASSUME NEW r \in Requests, Receive(r) PROVE UNCHANGED Monitor!vars
  <2>1. /\ pc[r] = "idle" /\ Goto(r, "received")
        /\ UNCHANGED <<inputVars, jtis, pdpVars, done>>
    BY <1>3 DEF Receive
  <2>2. Stage'[r] = Stage[r]
    BY <1>0, <2>1 DEF Goto, Stage, Refused
  <2> QED
    BY <2>1, <2>2, Passage
<1>4. ASSUME NEW r \in Requests, Decide(r) PROVE Monitor!Next \/ UNCHANGED Monitor!vars
  <2>1. /\ pc[r] = "asking" /\ decision[r] = "none"
        /\ decision' = [decision EXCEPT ![r] = IF Asked(r) \in policy THEN "allow" ELSE "deny"]
        /\ UNCHANGED <<inputVars, pc, jtis, policy, done>>
    BY <1>4 DEF Decide
  <2>2. \A q \in Requests \ {r} : Stage'[q] = Stage[q]
    BY <1>0, <2>1 DEF Stage, Refused
  <2>3. Stage' = [q \in Requests |-> Stage'[q]] /\ Stage = [q \in Requests |-> Stage[q]]
    BY DEF Stage, Refused
  <2>4. Stage[r] = "admitted"
    BY <2>1 DEF Stage, Refused
  \* the moment of the grant
  <2>5. CASE Asked(r) \in policy
    <3>1. Stage'[r] = "granted"
      BY <1>0, <2>1, <2>5 DEF Stage, Refused
    <3>2. Stage' = [Stage EXCEPT ![r] = "granted"]
      BY <2>2, <2>3, <3>1
    <3>3. r \in Entitled /\ Asks[r] \in policy
      BY <2>1, <2>5, EntitledThere DEF Asks
    <3>4. Monitor!Grant(r)
      BY <2>1, <2>4, <3>2, <3>3, InputsStay
      DEF Monitor!Grant, Monitor!Move, Monitor!inputs, Asks
    <3> QED
      BY <3>4 DEF Monitor!Next
  <2>6. CASE Asked(r) \notin policy
    <3>1. Stage'[r] = "admitted"
      BY <1>0, <2>1, <2>6 DEF Stage, Refused
    <3>2. Stage' = Stage
      BY <2>2, <2>3, <2>4, <3>1
    <3> QED
      BY <2>1, <3>2, InputsStay DEF Monitor!vars, Monitor!inputs, Asks
  <2> QED
    BY <2>5, <2>6
<1> QED
  BY <1>1, <1>2, <1>3, <1>4

(* SecureAPI, EnforcePolicy, the PDP client and the handlers together are a *)
(* reference monitor, with both settings of PDP_FAIL_OPEN and of Ziti.      *)
THEOREM Refinement == Spec => ImplementsMonitor
<1>1. Init => Monitor!Init
  <2> SUFFICES ASSUME Init PROVE Monitor!Init
    OBVIOUS
  <2>1. Stage = [r \in Requests |-> "new"]
    BY DEF Init, Stage, Refused
  <2> QED
    BY <2>1 DEF Init, Monitor!Init
<1>2. TypeOK /\ ChainInv /\ [Next]_vars => [Monitor!Next]_Monitor!vars
  <2> SUFFICES ASSUME TypeOK, ChainInv, [Next]_vars
               PROVE  Monitor!Next \/ UNCHANGED Monitor!vars
    OBVIOUS
  <2>1. CASE UNCHANGED vars
    <3>1. UNCHANGED inputVars /\ Stage' = Stage
      BY <2>1 DEF vars, pdpVars, Stage, Refused
    <3> QED
      BY <2>1, <3>1, InputsStay DEF vars, pdpVars, Monitor!vars, Monitor!inputs, Asks
  <2> QED
    BY <2>1, MonitorHandle, MonitorOther DEF Next
<1> QED
  BY <1>1, <1>2, TypeCorrect, ChainInvariant, PTL DEF Spec, ImplementsMonitor, Monitor!Spec
=============================================================================
