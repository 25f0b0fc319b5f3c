------------------------------ MODULE IdPProofs ------------------------------
(***************************************************************************)
(* Theorems about the identity provider, for any sets of codes, clients,   *)
(* verifiers, proofs and requests.                                         *)
(***************************************************************************)
EXTENDS IdP, TLAPS

(* Type correctness of /authorize, /token and the sweep of RAMStore.        *)
THEOREM TypeCorrect == Spec => []TypeOK
<1> USE IdPAssumption
<1>1. Init => TypeOK
  BY DEF Init, TypeOK, InFlight
<1>2. TypeOK /\ [Next]_vars => TypeOK'
  <2> SUFFICES ASSUME TypeOK, [Next]_vars PROVE TypeOK'
    OBVIOUS
  <2> USE DEF TypeOK, codeVars, paramVars, sweepVars, Goto, InFlight
  <2>1. CASE Tick
    BY <2>1 DEF Tick
  <2>2. ASSUME NEW c \in Codes, AuthorizeHandler(c) PROVE TypeOK'
    BY <2>2 DEF AuthorizeHandler
  <2>3. ASSUME NEW r \in Requests, Present(r) PROVE TypeOK'
    BY <2>3 DEF Present
  <2>4. ASSUME NEW r \in Requests, TokenHandler(r) PROVE TypeOK'
    BY <2>4 DEF TokenHandler, LoadCode, DeleteCode, CheckGrant, VerifyDPoPProof,
             IsJTIUsedAndSave, IssueToken
  <2>5. CASE SweepStep
    BY <2>5 DEF SweepStep, SweepStart, SweepVisit, SweepDelete
  <2>6. CASE Restart
    BY <2>6 DEF Restart
  <2>7. CASE UNCHANGED vars
    BY <2>7 DEF vars
  <2> QED
    BY <2>1, <2>2, <2>3, <2>4, <2>5, <2>6, <2>7 DEF Next
<1> QED
  BY <1>1, <1>2, PTL DEF Spec

-----------------------------------------------------------------------------
(* The inductive invariant.                                                *)

\* A request that has come in carries a code that was generated and sent; the
\* code of one that has been through GetAndRemoveAuthCode, or is late, is not
\* in the store.
CodesOK ==
    /\ stored \subseteq saved /\ delivered \subseteq saved
    /\ \A r \in Requests : pc[r] # "idle" => code[r] \in delivered
    /\ \A r \in Requests : pc[r] \notin Before => code[r] \notin stored
    /\ \A r \in late : /\ pc[r] \in {"presented", "invalid", "lost"}
                       /\ code[r] \in saved /\ code[r] \notin stored

\* No request can get anywhere with this code any more.
Dead(c) ==
    /\ c \in saved /\ c \notin stored
    /\ \A q \in Requests : code[q] = c => pc[q] \notin InFlight \ {"presented"}

\* The proof behind a token is still remembered, or was forgotten together
\* with the code.
ProofsOK ==
    \A r \in Requests :
        /\ pc[r] = "proven" => dpop[r] \in jtis
        /\ pc[r] = "issued" => dpop[r] \in jtis \/ Dead(code[r])

\* What CheckGrant has established.
GrantsOK ==
    \A r \in Requests : pc[r] \in {"authenticated", "verified", "proven", "issued"} =>
        secret[r] = owner[code[r]] /\ verifier[r] = challenge[code[r]]

\* One of two requests with the same code and covered proof never gets past
\* the replay check.
PairsOK ==
    \A r, q \in Requests :
        r # q /\ pc[r] \in {"proven", "issued"} /\ pc[q] \in {"proven", "issued"}
            /\ code[r] = code[q] /\ dpop[r] \in Covered => dpop[r] # dpop[q]

IdPInv == TypeOK /\ CodesOK /\ ProofsOK /\ GrantsOK /\ PairsOK

\* Every step of TokenHandler keeps the invariant.
LEMMA TokenHandlerInv ==
    ASSUME IdPInv, TypeOK', NEW r \in Requests, TokenHandler(r)
    PROVE  IdPInv'
<1> USE DEF IdPInv, TypeOK, CodesOK, ProofsOK, GrantsOK, PairsOK, Dead, Before,
            InFlight, codeVars, paramVars, Goto
<1>1. CASE LoadCode(r)
  BY <1>1 DEF LoadCode
<1>2. CASE DeleteCode(r)
  <2>1. CodesOK' /\ GrantsOK' /\ PairsOK'
    BY <1>2 DEF DeleteCode
  <2>2. ProofsOK'
    BY <1>2 DEF DeleteCode
  <2> QED
    BY <2>1, <2>2
<1>3. CASE CheckGrant(r)
  BY <1>3 DEF CheckGrant, GrantOK
<1>4. CASE VerifyDPoPProof(r)
  <2>1. CodesOK' /\ GrantsOK' /\ PairsOK'
    BY <1>4 DEF VerifyDPoPProof
  <2>2. ProofsOK'
    BY <1>4 DEF VerifyDPoPProof
  <2> QED
    BY <2>1, <2>2
<1>5. CASE IsJTIUsedAndSave(r)
  <2>1. \A q \in Requests : pc[q] \in {"proven", "issued"} /\ code[q] = code[r] => dpop[q] \in jtis
    BY <1>5 DEF IsJTIUsedAndSave
  <2>2. CASE pc'[r] = "proven"
    <3>1. /\ pc[r] = "verified" /\ pc' = [pc EXCEPT ![r] = "proven"]
          /\ dpop[r] \in Covered => dpop[r] \notin jtis
          /\ jtis' = jtis \cup {dpop[r]}
      BY <1>5, <2>2 DEF IsJTIUsedAndSave
    <3>2. CodesOK' /\ GrantsOK' /\ ProofsOK'
      BY <1>5, <3>1 DEF IsJTIUsedAndSave
    <3>3. PairsOK'
      BY <1>5, <2>1, <3>1 DEF IsJTIUsedAndSave
    <3> QED
      BY <3>2, <3>3
  <2>3. CASE pc'[r] # "proven"
    BY <1>5, <2>3 DEF IsJTIUsedAndSave
  <2> QED
    BY <2>2, <2>3
<1>6. CASE IssueToken(r)
  <2>1. CodesOK' /\ GrantsOK' /\ PairsOK'
    BY <1>6 DEF IssueToken
  <2>2. ProofsOK'
    BY <1>6 DEF IssueToken
  <2> QED
    BY <2>1, <2>2
<1> QED
  BY <1>1, <1>2, <1>3, <1>4, <1>5, <1>6 DEF TokenHandler

\* The invariant of /authorize, /token, the sweep and restarts together.
LEMMA IdPInvariant == Spec => []IdPInv
<1>1. Init => IdPInv
  BY IdPAssumption DEF Init, IdPInv, TypeOK, CodesOK, ProofsOK, GrantsOK, PairsOK, Before, InFlight
<1>2. IdPInv /\ TypeOK' /\ [Next]_vars => IdPInv'
  <2> SUFFICES ASSUME IdPInv, TypeOK', [Next]_vars PROVE IdPInv'
    OBVIOUS
  <2> USE DEF IdPInv, TypeOK, CodesOK, ProofsOK, GrantsOK, PairsOK, Dead, Before,
              InFlight, codeVars, paramVars, Goto
  <2>1. ASSUME NEW c \in Codes, AuthorizeHandler(c) PROVE IdPInv'
    BY <2>1 DEF AuthorizeHandler
  <2>2. ASSUME NEW r \in Requests, Present(r) PROVE IdPInv'
    <3>1. CodesOK'
      BY <2>2 DEF Present
    <3>2. ProofsOK' /\ GrantsOK' /\ PairsOK'
      BY <2>2 DEF Present
    <3> QED
      BY <3>1, <3>2
  <2>3. CASE SweepStep
    BY <2>3 DEF SweepStep, SweepStart, SweepVisit, SweepDelete
  <2>4. CASE Restart
    <3>1. \A q \in Requests : /\ pc'[q] \notin InFlight
                              /\ pc'[q] # pc[q] => pc'[q] = "lost"
      BY <2>4 DEF Restart, InFlight
    <3>2. CodesOK' /\ GrantsOK' /\ PairsOK'
      BY <2>4, <3>1 DEF Restart, InFlight
    <3>3. ProofsOK'
      BY <2>4, <3>1 DEF Restart, InFlight
    <3> QED
      BY <3>2, <3>3
  <2>5. CASE Tick \/ UNCHANGED vars
    BY <2>5 DEF Tick, vars
  <2> QED
    BY <2>1, <2>2, <2>3, <2>4, <2>5, TokenHandlerInv DEF Next
<1> QED
  BY <1>1, <1>2, TypeCorrect, PTL DEF Spec

(* A repeated /token request, with the same code and the same covered proof,*)
(* obtains one token at most, although GetAndRemoveAuthCode alone can let   *)
(* both copies through.                                                     *)
THEOREM OneTokenPerRequest == Spec => []DuplicateGetsOneToken
<1>1. IdPInv => DuplicateGetsOneToken
  BY DEF IdPInv, PairsOK, DuplicateGetsOneToken
<1> QED
  BY <1>1, IdPInvariant, PTL

(* Once a request has been through GetAndRemoveAuthCode, no request that    *)
(* arrives later obtains a token for its code, not even if the first one    *)
(* failed a check of TokenHandler or died with the IdP.                     *)
THEOREM TakenCodesStayTaken == Spec => []LateGetsNothing
<1>1. IdPInv => LateGetsNothing
  BY DEF IdPInv, CodesOK, LateGetsNothing
<1> QED
  BY <1>1, IdPInvariant, PTL

-----------------------------------------------------------------------------
(* /authorize, /token and the sweep implement the exchange: LoadCode enters, *)
(* DeleteCode closes, IsJTIUsedAndSave grants and IssueToken answers.        *)

\* What was sent with the requests, and what a code was made for, stays.
LEMMA InputsStay ==
    ASSUME UNCHANGED <<owner, challenge, paramVars>>
    PROVE  code' = code /\ dpop' = dpop /\ Entitled' = Entitled
  BY DEF paramVars, Entitled

\* A step of one request changes its own stage only.
LEMMA StageMoves ==
    ASSUME TypeOK, NEW r \in Requests, NEW l, Goto(r, l)
    PROVE  Stage' = [Stage EXCEPT ![r] = Stage'[r]]
<1>1. \A q \in Requests \ {r} : pc'[q] = pc[q]
  BY DEF TypeOK, Goto
<1>2. \A q \in Requests \ {r} : Stage'[q] = Stage[q]
  BY <1>1 DEF Stage
<1>3. Stage' = [q \in Requests |-> Stage'[q]] /\ Stage = [q \in Requests |-> Stage[q]]
  BY DEF Stage
<1> QED
  BY <1>2, <1>3

\* A step that leaves its own stage alone leaves all alone.
LEMMA StageStays ==
    ASSUME TypeOK, NEW r \in Requests, NEW l, Goto(r, l), Stage'[r] = Stage[r]
    PROVE  Stage' = Stage
<1>1. Stage = [q \in Requests |-> Stage[q]]
  BY DEF Stage
<1> QED
  BY <1>1, StageMoves

\* A request of /token that is answered with an error.
LEMMA Refusal ==
    ASSUME TypeOK, NEW r \in Requests, pc[r] \in InFlight \ {"proven"}, Goto(r, "invalid"),
           UNCHANGED <<stored, saved, owner, challenge, jtis, paramVars>>
    PROVE  Exchange!Next
<1>1. Stage[r] \in {"new", "in"}
  BY DEF InFlight, Stage
<1>2. pc'[r] = "invalid"
  BY DEF TypeOK, Goto
<1>3. Stage'[r] = "nothing"
  BY <1>2 DEF Stage
<1>4. Stage' = [Stage EXCEPT ![r] = "nothing"]
  BY <1>3, StageMoves
<1>5. Exchange!Refuse(r)
  BY <1>1, <1>4, InputsStay DEF Exchange!Refuse, Exchange!Move, Exchange!inputs
<1> QED
  BY <1>5 DEF Exchange!Next

\* TokenHandler, step by step.
LEMMA ExchangeHandler ==
    ASSUME IdPInv, NEW r \in Requests, TokenHandler(r)
    PROVE  Exchange!Next \/ UNCHANGED Exchange!vars
<1>0. TypeOK /\ pc \in [Requests -> {"idle", "invalid", "issued", "lost"} \cup InFlight]
  BY DEF IdPInv, TypeOK
<1>1. CASE LoadCode(r)
  <2>1. /\ pc[r] = "presented" /\ UNCHANGED <<stored, saved, owner, challenge, jtis, paramVars>>
    BY <1>1 DEF LoadCode, codeVars
  <2>2. CASE code[r] \in stored
    <3>1. Goto(r, "loaded")
      BY <1>1, <2>2 DEF LoadCode
    <3>2. Stage[r] = "new" /\ Stage'[r] = "in"
      BY <1>0, <2>1, <3>1 DEF Goto, Stage
    <3>3. Stage' = [Stage EXCEPT ![r] = "in"]
      BY <1>0, <3>1, <3>2, StageMoves
    <3>4. Exchange!Enter(r)
      BY <2>1, <2>2, <3>2, <3>3, InputsStay DEF Exchange!Enter, Exchange!Move, Exchange!inputs
    <3> QED
      BY <3>4 DEF Exchange!Next
  <2>3. CASE code[r] \notin stored
    BY <1>0, <1>1, <2>1, <2>3, Refusal DEF LoadCode, InFlight
  <2> QED
    BY <2>2, <2>3
<1>2. CASE DeleteCode(r)
  <2>1. /\ pc[r] = "loaded" /\ Goto(r, "taken") /\ stored' = stored \ {code[r]}
        /\ UNCHANGED <<saved, owner, challenge, jtis, paramVars>>
    BY <1>2 DEF DeleteCode, codeVars
  <2>2. Stage'[r] = Stage[r]
    BY <1>0, <2>1 DEF Goto, Stage
  <2>3. Stage' = Stage
    BY <1>0, <2>1, <2>2, StageStays
  \* another request may have been quicker
  <2>4. CASE code[r] \in stored
    <3>1. Exchange!Close(code[r]) /\ code[r] \in Codes
      BY <1>0, <2>1, <2>3, <2>4, InputsStay DEF TypeOK, Exchange!Close, Exchange!inputs
    <3> QED
      BY <3>1 DEF Exchange!Next
  <2>5. CASE code[r] \notin stored
    BY <2>1, <2>3, <2>5, InputsStay DEF Exchange!vars, Exchange!inputs
  <2> QED
    BY <2>4, <2>5
<1>3. CASE CheckGrant(r) \/ VerifyDPoPProof(r)
  <2>1. /\ pc[r] \in {"taken", "authenticated"}
        /\ UNCHANGED <<stored, saved, owner, challenge, jtis, paramVars>>
        /\ \/ Goto(r, "invalid")
           \/ pc[r] = "taken" /\ Goto(r, "authenticated")
           \/ pc[r] = "authenticated" /\ Goto(r, "verified")
    BY <1>3 DEF CheckGrant, VerifyDPoPProof, codeVars
  <2>2. CASE Goto(r, "invalid")
    BY <1>0, <2>1, <2>2, Refusal DEF InFlight
  <2>3. CASE \/ pc[r] = "taken" /\ Goto(r, "authenticated")
             \/ pc[r] = "authenticated" /\ Goto(r, "verified")
    <3>1. Stage'[r] = Stage[r]
      BY <1>0, <2>3 DEF Goto, Stage
    <3>2. Stage' = Stage
      BY <1>0, <2>3, <3>1, StageStays
    <3> QED
      BY <2>1, <3>2, InputsStay DEF Exchange!vars, Exchange!inputs
  <2> QED
    BY <2>1, <2>2, <2>3
<1>4. CASE IsJTIUsedAndSave(r)
  <2>1. /\ pc[r] = "verified" /\ jtis' = jtis \cup {dpop[r]}
        /\ UNCHANGED <<stored, saved, owner, challenge, paramVars>>
    BY <1>4 DEF IsJTIUsedAndSave, codeVars
  <2>2. CASE dpop[r] \in jtis /\ Goto(r, "invalid")
    <3>1. jtis' = jtis
      BY <2>1, <2>2
    <3> QED
      BY <1>0, <2>1, <2>2, <3>1, Refusal DEF InFlight
  <2>3. CASE (dpop[r] \in Covered => dpop[r] \notin jtis) /\ Goto(r, "proven")
    <3>1. Stage[r] = "in" /\ Stage'[r] = "granted"
      BY <1>0, <2>1, <2>3 DEF Goto, Stage
    <3>2. Stage' = [Stage EXCEPT ![r] = "granted"]
      BY <1>0, <2>3, <3>1, StageMoves
    <3>3. r \in Entitled /\ code[r] \in saved \ stored
      BY <2>1 DEF IdPInv, GrantsOK, CodesOK, Before, Entitled
    <3>4. Exchange!Grant(r)
      BY <2>1, <2>3, <3>1, <3>2, <3>3, InputsStay
      DEF Exchange!Grant, Exchange!Move, Exchange!inputs
    <3> QED
      BY <3>4 DEF Exchange!Next
  <2> QED
    BY <1>4, <2>2, <2>3 DEF IsJTIUsedAndSave
<1>5. CASE IssueToken(r)
  <2>1. /\ pc[r] = "proven" /\ Goto(r, "issued")
        /\ UNCHANGED <<stored, saved, owner, challenge, jtis, paramVars>>
    BY <1>5 DEF IssueToken, codeVars
  <2>2. Stage[r] = "granted" /\ Stage'[r] = "token"
    BY <1>0, <2>1 DEF Goto, Stage
  <2>3. Stage' = [Stage EXCEPT ![r] = "token"]
    BY <1>0, <2>1, <2>2, StageMoves
  <2>4. Exchange!Answer(r)
    BY <2>1, <2>2, <2>3, InputsStay DEF Exchange!Answer, Exchange!Move, Exchange!inputs
  <2> QED
    BY <2>4 DEF Exchange!Next
<1> QED
  BY <1>1, <1>2, <1>3, <1>4, <1>5 DEF TokenHandler

\* A step that touches neither requests, codes nor proofs does not show.
LEMMA Unseen ==
    ASSUME UNCHANGED <<stored, saved, owner, challenge, jtis, pc, paramVars>>
    PROVE  UNCHANGED Exchange!vars
<1>1. Stage' = Stage
  BY DEF Stage
<1> QED
  BY <1>1, InputsStay DEF Exchange!vars, Exchange!inputs

\* At most one code is about to be deleted by the sweep.
OneDoomed == doomed = {} \/ \E c \in Codes : doomed = {c}

\* SweepVisit finds one expired code at a time and SweepDelete removes it.
LEMMA OneDoomedInvariant == Spec => []OneDoomed
<1>1. Init => OneDoomed
  BY DEF Init, OneDoomed
<1>2. OneDoomed /\ [Next]_vars => OneDoomed'
  <2> SUFFICES ASSUME OneDoomed, [Next]_vars PROVE OneDoomed'
    OBVIOUS
  <2>1. CASE UNCHANGED doomed
    BY <2>1 DEF OneDoomed
  <2>2. CASE SweepDelete \/ Restart
    BY <2>2 DEF SweepDelete, Restart, OneDoomed
  <2>3. ASSUME NEW c \in Codes, SweepVisit(c) PROVE OneDoomed'
    BY <2>3 DEF SweepVisit, OneDoomed
  <2>4. ASSUME NEW c \in Codes, AuthorizeHandler(c) PROVE UNCHANGED doomed
    BY <2>4 DEF AuthorizeHandler, sweepVars
  <2>5. ASSUME NEW r \in Requests, Present(r) \/ TokenHandler(r) PROVE UNCHANGED doomed
    BY <2>5 DEF Present, TokenHandler, LoadCode, DeleteCode, CheckGrant, VerifyDPoPProof,
       IsJTIUsedAndSave, IssueToken, sweepVars
  <2>6. Tick \/ SweepStart \/ UNCHANGED vars => UNCHANGED doomed
    BY DEF Tick, SweepStart, vars, sweepVars
  <2> QED
    BY <2>1, <2>2, <2>3, <2>4, <2>5, <2>6 DEF Next, SweepStep
<1> QED
  BY <1>1, <1>2, PTL DEF Spec

\* /authorize, arrivals, the sweep, the clock and the end of the process.
LEMMA ExchangeOther ==
    ASSUME IdPInv, OneDoomed,
           Tick \/ SweepStep \/ Restart \/ (\E c \in Codes : AuthorizeHandler(c))
                \/ (\E r \in Requests : Present(r))
    PROVE  Exchange!Next \/ UNCHANGED Exchange!vars
<1>0. TypeOK /\ pc \in [Requests -> {"idle", "invalid", "issued", "lost"} \cup InFlight]
  BY DEF IdPInv, TypeOK
<1>1. CASE Tick \/ SweepStart \/ \E c \in Codes : SweepVisit(c)
  BY <1>1, Unseen DEF Tick, SweepStart, SweepVisit, codeVars
<1>2. CASE SweepDelete
  <2>1. /\ stored' = stored \ doomed /\ doomed # {}
        /\ UNCHANGED <<saved, owner, challenge, jtis, pc, paramVars>>
    BY <1>2 DEF SweepDelete, codeVars
  <2>2. PICK c \in Codes : doomed = {c}
    BY <2>1 DEF OneDoomed
  <2>3. Stage' = Stage
    BY <2>1 DEF Stage
  <2>4. CASE c \in stored
    <3>1. Exchange!Close(c)
      BY <2>1, <2>2, <2>3, <2>4, InputsStay DEF Exchange!Close, Exchange!inputs
    <3> QED
      BY <3>1 DEF Exchange!Next
  <2>5. CASE c \notin stored
    <3>1. stored' = stored
      BY <2>1, <2>2, <2>5
    <3> QED
      BY <2>1, <3>1, Unseen
  <2> QED
    BY <2>4, <2>5
<1>3. CASE Restart
  <2> DEFINE lost == {r \in Requests : pc[r] \in InFlight}
  <2>1. /\ stored' = {} /\ jtis' = {}
        /\ UNCHANGED <<saved, owner, challenge, paramVars>>
        /\ pc' = [r \in Requests |-> IF r \in lost THEN "lost" ELSE pc[r]]
    BY <1>3 DEF Restart, codeVars
  <2>2. /\ lost \in SUBSET {r \in Requests : Stage[r] \in {"new", "in", "granted"}}
        /\ \A r \in Requests : Stage[r] \in {"in", "granted"} => r \in lost
    BY <1>0 DEF InFlight, Stage
  <2>3. Stage' = [r \in Requests |-> IF r \in lost THEN "nothing" ELSE Stage[r]]
    <3>1. \A r \in Requests : Stage'[r] = IF r \in lost THEN "nothing" ELSE Stage[r]
      BY <1>0, <2>1 DEF Stage
    <3>2. Stage' = [r \in Requests |-> Stage'[r]]
      BY DEF Stage
    <3> HIDE DEF lost
    <3> QED
      BY <3>1, <3>2
  <2>4. Exchange!Restart
    BY <2>1, <2>2, <2>3, InputsStay DEF Exchange!Restart, Exchange!inputs
  <2> QED
    BY <2>4 DEF Exchange!Next
<1>4. ASSUME NEW c \in Codes, AuthorizeHandler(c) PROVE Exchange!Next
  <2>1. /\ c \notin saved /\ saved' = saved \cup {c} /\ stored' = stored \cup {c}
        /\ UNCHANGED <<owner, challenge, jtis, pc, paramVars>>
    BY <1>4 DEF AuthorizeHandler
  <2>2. Stage' = Stage
    BY <2>1 DEF Stage
  <2>3. Exchange!Make(c)
    BY <2>1, <2>2, InputsStay DEF Exchange!Make, Exchange!inputs
  <2> QED
    BY <2>3 DEF Exchange!Next
<1>5. ASSUME NEW r \in Requests, Present(r) PROVE UNCHANGED Exchange!vars
  <2>1. /\ pc[r] = "idle" /\ Goto(r, "presented")
        /\ UNCHANGED <<stored, saved, owner, challenge, jtis, paramVars>>
    BY <1>5 DEF Present, codeVars
  <2>2. Stage'[r] = Stage[r]
    BY <1>0, <2>1 DEF Goto, Stage
  <2>3. Stage' = Stage
    BY <1>0, <2>1, <2>2, StageStays
  <2> QED
    BY <2>1, <2>3, InputsStay DEF Exchange!vars, Exchange!inputs
<1> QED
  BY <1>1, <1>2, <1>3, <1>4, <1>5 DEF SweepStep

(* /authorize, /token, RAMStore's sweep and restarts implement the exchange *)
(* of codes for tokens, although GetAndRemoveAuthCode is two steps.          *)
THEOREM Refinement == Spec => ImplementsExchange
<1>1. Init => Exchange!Init
  <2> SUFFICES ASSUME Init PROVE Exchange!Init
    OBVIOUS
  <2>1. Stage = [r \in Requests |-> "new"]
    BY DEF Init, Stage
  <2> QED
    BY <2>1 DEF Init, Exchange!Init
<1>2. IdPInv /\ OneDoomed /\ [Next]_vars => [Exchange!Next]_Exchange!vars
  <2> SUFFICES ASSUME IdPInv, OneDoomed, [Next]_vars
               PROVE  Exchange!Next \/ UNCHANGED Exchange!vars
    OBVIOUS
  <2>1. CASE UNCHANGED vars
    BY <2>1, Unseen DEF vars, codeVars
  <2> QED
    BY <2>1, ExchangeHandler, ExchangeOther DEF Next
<1> QED
  BY <1>1, <1>2, IdPInvariant, OneDoomedInvariant, PTL
  DEF Spec, ImplementsExchange, Exchange!Spec

-----------------------------------------------------------------------------
(* startCleanupTicker: a pass removes every code that had expired when it   *)
(* began, whatever /authorize and /token do meanwhile.                      *)
THEOREM SweepsThorough == Spec => []SweepThorough
<1> DEFINE Inv == SweepThorough /\ sweepNow <= now
<1>1. Init => Inv
  BY DEF Init, SweepThorough
<1>2. Inv /\ IdPInv /\ TypeOK' /\ [Next]_vars => Inv'
  <2> SUFFICES ASSUME Inv, IdPInv, TypeOK', [Next]_vars PROVE Inv'
    OBVIOUS
  <2> USE IdPAssumption DEF SweepThorough, IdPInv, TypeOK, codeVars, sweepVars
  <2>1. ASSUME NEW c \in Codes, AuthorizeHandler(c) PROVE Inv'
    BY <2>1 DEF AuthorizeHandler
  <2>2. ASSUME NEW r \in Requests, Present(r) \/ TokenHandler(r) PROVE Inv'
    <3>1. UNCHANGED <<now, expires, sweep, sweepNow, doomed>> /\ stored' \subseteq stored
      BY <2>2 DEF Present, TokenHandler, LoadCode, DeleteCode, CheckGrant, VerifyDPoPProof,
         IsJTIUsedAndSave, IssueToken
    <3> QED
      BY <3>1
  <2>3. CASE SweepStart
    BY <2>3 DEF SweepStart
  <2>4. ASSUME NEW c \in Codes, SweepVisit(c) PROVE Inv'
    BY <2>4 DEF SweepVisit, Lapsed
  <2>5. CASE SweepDelete \/ Restart
    BY <2>5 DEF SweepDelete, Restart
  <2>6. CASE Tick \/ UNCHANGED vars
    BY <2>6 DEF Tick, vars
  <2> QED
    BY <2>1, <2>2, <2>3, <2>4, <2>5, <2>6 DEF Next, SweepStep
<1> QED
  BY <1>1, <1>2, IdPInvariant, TypeCorrect, PTL DEF Spec
=============================================================================
