------------------------------- MODULE Gateway -------------------------------
(***************************************************************************)
(* The gateway as policy enforcement point: the middleware chain           *)
(* SecureAPI -> EnforcePolicy -> handler that gateway/main.go puts before  *)
(* every route, with the gRPC client of the policy decision point (PDP)    *)
(* and the handlers of gateway/internal/api.                               *)
(*                                                                         *)
(* A request is a goroutine; several requests may carry the same proof (a  *)
(* message delivered twice, a client that repeats itself).  The parts the  *)
(* chain calls are represented by what their own modules show of them:     *)
(* the replay cache (JTICache) by its contract (ReplayGuard), the key      *)
(* lookup (JWKSCache) by an outcome that may always be a failure, the      *)
(* database client (AuditDB) by "confirmed: done; failed: perhaps done",   *)
(* from which a call need not return.                                      *)
(* A client stands for its key, its tenant and its role, which the IdP     *)
(* puts together into one token (IdP).                                     *)
(***************************************************************************)
EXTENDS Naturals

CONSTANTS
    Requests, Proofs, Clients,
    NoClient,     \* no network identity; the subject of a token the IdP did not sign
    Identities,   \* who can connect: clients enrolled in the network, NoClient for others
    Ops,          \* records with the path and the method of a request
    EnforceZiti,  \* as computed by main from USE_ZITI and ENFORCE_ZITI
    FailOpen,     \* PDP_FAIL_OPEN
    InitialPolicies,  \* what the PDP may have been given before the gateway starts
    MaxRestarts,  \* bound: restarts of the gateway
    MaxUpdates    \* bound: updates of the policy

Action(o) == IF o.method \in {"POST", "PUT", "DELETE"} THEN "CREATE" ELSE "READ"

Rules == {<<c, Action(o), o.path>> : c \in Clients, o \in Ops}

ASSUME GatewayAssumption ==
    /\ InitialPolicies \subseteq SUBSET Rules
    /\ NoClient \notin Clients /\ Identities \subseteq Clients \cup {NoClient}
    /\ EnforceZiti \in BOOLEAN /\ FailOpen \in BOOLEAN
    /\ MaxRestarts \in Nat /\ MaxUpdates \in Nat

VARIABLES
    maker, madeFor,     \* of a proof: whose key signed it; its htm, htu and ath
    covered,            \* the proofs whose jti outlives their iat window (JTICache)
    proof, token, op, peer,   \* of a request: DPoP header, Authorization header,
                              \* operation, SourceIdentifier of its connection
    pc,                 \* where a request is; in the end its answer
    jtis,               \* the replay cache
    policy, updates,    \* of the PDP
    decision,           \* what the PDP decided on a request
    done,               \* requests whose operation the database has carried out
    life, lifeOf        \* process lifetimes, and the one a request was received in

inputVars == <<maker, madeFor, covered, proof, token, op, peer>>
pdpVars   == <<policy, updates, decision>>
lifeVars  == <<life, lifeOf>>
vars == <<inputVars, pc, jtis, pdpVars, done, lifeVars>>

\* Answers that the client takes to mean that nothing was done.
Refused == {"400", "401", "403", "503"}
Final == Refused \cup {"ok", "500", "lost"}
InFlight == {"received", "verified", "unused", "bound", "authenticated", "asking", "allowed"}

Init ==
    /\ maker \in [Proofs -> Clients]
    /\ madeFor \in [Proofs -> Ops \X Clients] /\ covered \in SUBSET Proofs
    /\ proof \in [Requests -> Proofs] /\ op \in [Requests -> Ops]
    /\ token \in [Requests -> Clients \cup {NoClient}]
    /\ peer \in [Requests -> Identities]
    /\ pc = [r \in Requests |-> "idle"]
    /\ jtis = {} /\ policy \in InitialPolicies /\ updates = 0
    /\ decision = [r \in Requests |-> "none"]
    /\ done = {}
    /\ life = 0 /\ lifeOf = [r \in Requests |-> 0]

Goto(r, l) == pc' = [pc EXCEPT ![r] = l]

Receive(r) ==
    /\ pc[r] = "idle"
    /\ lifeOf' = [lifeOf EXCEPT ![r] = life]
    /\ Goto(r, "received")
    /\ UNCHANGED <<inputVars, jtis, pdpVars, done, life>>

-----------------------------------------------------------------------------
(* SecureAPI.                                                              *)

\* The proof was made for this method and URL and for this token.  A token
\* the IdP did not sign may have got a proof of its own as well, and ath is
\* not compared if it is empty.
ProofMatches(r) ==
    /\ madeFor[proof[r]][1] = op[r]
    /\ madeFor[proof[r]][2] = token[r] \/ token[r] = NoClient

\* Header checks and VerifyDPoPProof.  A proof may also be malformed or old.
VerifyDPoPProof(r) ==
    /\ pc[r] = "received"
    /\ \/ ProofMatches(r) /\ Goto(r, "verified")
       \/ Goto(r, "401")
    /\ UNCHANGED <<inputVars, jtis, pdpVars, done, lifeVars>>

\* mutant: the proof is looked up but not stored
CheckOnly(r) ==
    /\ pc[r] = "verified"
    /\ Goto(r, IF proof[r] \in jtis THEN "401" ELSE "unused")
    /\ UNCHANGED <<inputVars, jtis, pdpVars, done, lifeVars>>

\* Accept or Reject of ReplayGuard: a proof that is not covered may have been
\* forgotten since it was used.  It is used up from here on, whatever the
\* later checks say.
IsJTIUsedAndSave(r) ==
    /\ pc[r] = "verified"
    /\ \/ (proof[r] \in covered => proof[r] \notin jtis) /\ Goto(r, "unused")
       \/ proof[r] \in jtis /\ Goto(r, "401")
    /\ jtis' = jtis \cup {proof[r]}
    /\ UNCHANGED <<inputVars, pdpVars, done, lifeVars>>

\* mutant: the answer is written and the handler goes on
KeepGoing(r) ==
    /\ pc[r] = "unused"
    /\ Goto(r, "bound")
    /\ UNCHANGED <<inputVars, jtis, pdpVars, done, lifeVars>>

\* jwt.Parse and the comparison of cnf.jkt with the key of the proof.  The
\* token may also have expired, or its key may not be obtainable.
CheckToken(r) ==
    /\ pc[r] = "unused"
    /\ \/ token[r] # NoClient /\ maker[proof[r]] = token[r] /\ Goto(r, "bound")
       \/ Goto(r, "401")
    /\ UNCHANGED <<inputVars, jtis, pdpVars, done, lifeVars>>

\* SourceIdentifier of the connection in the request's context; empty if there
\* is no connection, or one without that method.
GetZitiIdentity(r) == peer[r]

\* The network identity has to be the token's subject; only outside Ziti may
\* it be missing.
PeerOK(r) ==
    GetZitiIdentity(r) = token[r] \/ (~EnforceZiti /\ GetZitiIdentity(r) = NoClient)

CheckIdentity(r) ==
    /\ pc[r] = "bound"
    /\ Goto(r, IF PeerOK(r) THEN "authenticated" ELSE "403")
    /\ UNCHANGED <<inputVars, jtis, pdpVars, done, lifeVars>>

-----------------------------------------------------------------------------
(* EnforcePolicy and PDPClient.CheckAccess.                                *)

\* Subject, action and resource of the CheckAccess request.
Asked(r) == <<token[r], Action(op[r]), op[r].path>>

CheckAccess(r) ==
    /\ pc[r] = "authenticated"
    /\ Goto(r, "asking")
    /\ UNCHANGED <<inputVars, jtis, pdpVars, done, lifeVars>>

\* The PDP evaluates the request under the policy it has at that moment.
Decide(r) ==
    /\ pc[r] = "asking" /\ decision[r] = "none"
    /\ decision' = [decision EXCEPT ![r] = IF Asked(r) \in policy THEN "allow" ELSE "deny"]
    /\ UNCHANGED <<inputVars, pc, jtis, policy, updates, done, lifeVars>>

\* The answer comes in time.
ReceiveDecision(r) ==
    /\ pc[r] = "asking" /\ decision[r] # "none"
    /\ Goto(r, IF decision[r] = "allow" THEN "allowed" ELSE "403")
    /\ UNCHANGED <<inputVars, jtis, pdpVars, done, lifeVars>>

\* mutant: fails open in any case
AlwaysOpen(r) ==
    /\ pc[r] = "asking"
    /\ Goto(r, "allowed")
    /\ UNCHANGED <<inputVars, jtis, pdpVars, done, lifeVars>>

\* mutant: no timeout; only a PDP that has decided can fail to answer
WaitForPDP(r) ==
    /\ pc[r] = "asking" /\ decision[r] # "none"
    /\ Goto(r, IF FailOpen THEN "allowed" ELSE "503")
    /\ UNCHANGED <<inputVars, jtis, pdpVars, done, lifeVars>>

\* The call fails, or its timeout passes before the answer is there, even if
\* the PDP has decided.
PDPUnavailable(r) ==
    /\ pc[r] = "asking"
    /\ Goto(r, IF FailOpen THEN "allowed" ELSE "503")
    /\ UNCHANGED <<inputVars, jtis, pdpVars, done, lifeVars>>

\* The PDP's administrator adds or removes a rule.
UpdatePolicy ==
    /\ updates < MaxUpdates
    /\ updates' = updates + 1
    /\ \E rule \in Rules :
          policy' = IF rule \in policy THEN policy \ {rule} ELSE policy \cup {rule}
    /\ UNCHANGED <<inputVars, pc, jtis, decision, done, lifeVars>>

-----------------------------------------------------------------------------
(* The handlers of gateway/internal/api/handlers.go.                       *)

\* mutant: the answer is 400, but the handler does not return
BadRequestGoesOn(r) ==
    /\ pc[r] = "allowed" /\ op[r].path = "transfer"
    /\ done' = done \cup {r}
    /\ Goto(r, "400")
    /\ UNCHANGED <<inputVars, jtis, pdpVars, lifeVars>>

\* CreateTransferHandler: a body that is not JSON, or an amount <= 0
BadRequest(r) ==
    /\ pc[r] = "allowed" /\ op[r].path = "transfer"
    /\ Goto(r, "400")
    /\ UNCHANGED <<inputVars, jtis, pdpVars, done, lifeVars>>

\* The database client confirms the operation, or reports an error that
\* leaves open whether it was committed.
Perform(r) ==
    /\ pc[r] = "allowed"
    /\ \/ done' = done \cup {r} /\ Goto(r, "ok")
       \/ done' \in {done, done \cup {r}} /\ Goto(r, "500")
    /\ UNCHANGED <<inputVars, jtis, pdpVars, lifeVars>>

\* The process ends and starts again: the replay cache is empty, and of the
\* requests that had reached the database any may have been committed.
Restart ==
    /\ life < MaxRestarts
    /\ life' = life + 1
    /\ jtis' = {}
    /\ \E committed \in SUBSET {r \in Requests : pc[r] = "allowed"} : done' = done \cup committed
    /\ pc' = [r \in Requests |-> IF pc[r] \in InFlight THEN "lost" ELSE pc[r]]
    /\ UNCHANGED <<inputVars, pdpVars, lifeOf>>

-----------------------------------------------------------------------------
\* The steps of SecureAPI and EnforcePolicy.
Middleware(r) ==
    \/ VerifyDPoPProof(r) \/ IsJTIUsedAndSave(r) \/ CheckToken(r) \/ CheckIdentity(r)
    \/ CheckAccess(r) \/ ReceiveDecision(r) \/ PDPUnavailable(r)

\* The steps a request takes on its own once it is received.
Handle(r) == Middleware(r) \/ BadRequest(r) \/ Perform(r)

Next ==
    \/ \E r \in Requests : Receive(r) \/ Handle(r) \/ Decide(r)
    \/ UpdatePolicy
    \/ Restart

Spec == Init /\ [][Next]_vars

\* Goroutines run, and the 80 ms timeout ends a call the PDP does not answer.
\* The PDP itself need not do anything, and a handler may wait for ever: for
\* the rest of the body, or for a connection in its database call.
FairSpec == Spec /\ \A r \in Requests : WF_vars(Middleware(r))

-----------------------------------------------------------------------------
(* Properties.                                                             *)

\* The variables have the values the code gives them.
TypeOK ==
    /\ maker \in [Proofs -> Clients] /\ madeFor \in [Proofs -> Ops \X Clients]
    /\ covered \subseteq Proofs
    /\ proof \in [Requests -> Proofs] /\ op \in [Requests -> Ops]
    /\ token \in [Requests -> Clients \cup {NoClient}]
    /\ peer \in [Requests -> Identities]
    /\ pc \in [Requests -> {"idle"} \cup InFlight \cup Final]
    /\ jtis \subseteq Proofs
    /\ policy \subseteq Rules /\ updates \in Nat
    /\ decision \in [Requests -> {"none", "allow", "deny"}]
    /\ done \subseteq Requests
    /\ life \in Nat /\ lifeOf \in [Requests -> Nat]

\* Nothing is done in the database for a request without the PDP having
\* allowed exactly what EnforcePolicy asked for it: a timeout, a late answer
\* or a crash never stands for a yes, unless PDP_FAIL_OPEN says so.
Mediated ==
    \A r \in done : decision[r] = "allow" \/ FailOpen

\* What is done in the name of a client was asked for with a proof made by
\* that client's key for this very operation and token, and under EnforceZiti
\* over that client's own connection.
HolderBound ==
    \A r \in done :
        /\ token[r] \in Clients
        /\ maker[proof[r]] = token[r]
        /\ madeFor[proof[r]] = <<op[r], token[r]>>
        /\ peer[r] = token[r] \/ (peer[r] = NoClient /\ ~EnforceZiti)

\* One proof that the replay cache covers has one effect per lifetime of the
\* gateway, however often the request that carries it is delivered, whatever
\* became of the others, and although other proofs may be let through twice.
OneEffectPerProof ==
    \A r, q \in done :
        r # q /\ proof[r] = proof[q] /\ proof[r] \in covered => lifeOf[r] # lifeOf[q]

\* A request that is answered with 400, 401, 403 or 503 has done nothing and
\* never will; one that is answered with success is done.
AnswersTruthful ==
    \A r \in Requests : /\ pc[r] \in Refused => r \notin done
                        /\ pc[r] = "ok" => r \in done

\* How far a request has come, for the monitor: it is granted from the moment
\* the PDP decides, before the gateway has the answer.
Stage ==
    [r \in Requests |->
        CASE pc[r] \in {"idle", "received", "verified"} -> "new"
          [] pc[r] \in {"unused", "bound", "authenticated"} -> "admitted"
          [] pc[r] = "asking" -> IF decision[r] = "allow" THEN "granted" ELSE "admitted"
          [] pc[r] = "allowed" -> "granted"
          [] pc[r] = "ok" -> "ok"
          [] pc[r] \in Refused -> "refused"
          [] OTHER -> "unknown"]

\* The request comes from the holder of the token's key, with a proof made
\* for this operation, over the holder's own connection.
Entitled ==
    {r \in Requests : /\ token[r] \in Clients /\ maker[proof[r]] = token[r]
                      /\ ProofMatches(r) /\ PeerOK(r)}

Monitor == INSTANCE AccessMonitor
    WITH Unchecked <- FailOpen, asks <- [r \in Requests |-> Asked(r)],
         entitled <- Entitled, stage <- Stage, spent <- jtis

\* Seen from outside, the chain of middlewares with its remote decision is
\* one monitor: whatever is carried out was granted before, at one moment, by
\* the policy of that moment, to somebody entitled, a covered proof once, and
\* a decision that comes late, twice or not at all does not show.
ImplementsMonitor == Monitor!Spec

\* Every request that is received is answered (or lost in a crash), although
\* the PDP may never answer, unless its handler waits for ever: nothing in the
\* two middlewares can hold a request.
EveryRequestAnswered ==
    \A r \in Requests : pc[r] = "received" ~> pc[r] \in Final \cup {"allowed"}
=============================================================================
