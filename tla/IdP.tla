--------------------------------- MODULE IdP ---------------------------------
(***************************************************************************)
(* The identity provider: /authorize and /token (idp/handler) over the     *)
(* authorization-code half of RAMStore (idp/store/memory.go).              *)
(*                                                                         *)
(* A /token request is a goroutine; its steps are its accesses to shared   *)
(* state.  GetAndRemoveAuthCode is a Load followed by a separate Delete.   *)
(* A code_challenge is named by the code_verifier it was made from         *)
(* (SHA-256 is injective on what is sent), a client_secret by the client   *)
(* it belongs to.  The jti half of RAMStore is the algorithm of JTICache;  *)
(* here it is its contract (ReplayGuard).                                  *)
(***************************************************************************)
EXTENDS Naturals

CONSTANTS
    Codes,       \* values rand.Read can give
    Clients,     \* config.RegisteredClients
    Verifiers,   \* PKCE code verifiers
    Proofs,      \* DPoP proofs for the token endpoint
    Covered,     \* those whose jti outlives their iat window (JTICache)
    Requests,    \* requests to /token
    CodeTTL,     \* lifetime of a code (5 min)
    MaxTime,     \* bound: the clock stops here
    MaxRestarts  \* bound: number of restarts

ASSUME IdPAssumption ==
    Covered \subseteq Proofs /\ CodeTTL \in Nat /\ MaxTime \in Nat /\ MaxRestarts \in Nat

VARIABLES
    now,
    restarts,    \* how many times the process has been restarted
    saved,       \* codes generated so far
    stored,      \* keys of the sync.Map `codes`
    owner, challenge, expires,     \* AuthCodeInfo of a saved code
    delivered,   \* codes that were sent out, to the redirect_uri or in the answer
    jtis,        \* used jtis
    pc,          \* where each /token request is
    code, secret, verifier, dpop,  \* its parameters
    late,        \* history: requests that came when another one was done with their code
    sweep, sweepNow, doomed        \* as in JTICache, for the codes

codeVars  == <<saved, owner, challenge, expires, delivered>>
paramVars == <<code, secret, verifier, dpop>>
sweepVars == <<sweep, sweepNow, doomed>>
vars == <<now, restarts, stored, codeVars, jtis, pc, paramVars, late, sweepVars>>

\* The request has not been through GetAndRemoveAuthCode yet.
Before == {"idle", "presented", "loaded"}

InFlight == {"presented", "loaded", "taken", "authenticated", "verified", "proven"}

Init ==
    /\ now = 0 /\ restarts = 0
    /\ saved = {} /\ stored = {} /\ delivered = {} /\ jtis = {}
    /\ owner \in [Codes -> Clients]
    /\ challenge \in [Codes -> Verifiers]
    /\ expires = [c \in Codes |-> 0]
    /\ pc = [r \in Requests |-> "idle"]
    /\ code \in [Requests -> Codes] /\ dpop \in [Requests -> Proofs]
    /\ secret \in [Requests -> Clients] /\ verifier \in [Requests -> Verifiers]
    /\ late = {}
    /\ sweep = {} /\ sweepNow = 0 /\ doomed = {}

Goto(r, l) == pc' = [pc EXCEPT ![r] = l]

Tick ==
    /\ now < MaxTime
    /\ now' = now + 1
    /\ UNCHANGED <<restarts, stored, codeVars, jtis, pc, paramVars, late, sweepVars>>

-----------------------------------------------------------------------------
(* AuthorizeHandler for a registered client with complete parameters: the  *)
(* code is saved before redirect_uri is parsed and before the headless     *)
(* flow's client_secret is checked, so an error answer leaves behind a     *)
(* code that nobody has been told.  Otherwise the code is sent out to the  *)
(* redirect_uri the request names, which is not compared with anything:    *)
(* who holds the code afterwards is open, so any request may present it.   *)
AuthorizeHandler(c) ==
    /\ c \notin saved
    /\ saved' = saved \cup {c}
    /\ stored' = stored \cup {c}
    /\ expires' = [expires EXCEPT ![c] = now + CodeTTL]
    /\ delivered' \in {delivered, delivered \cup {c}}
    /\ UNCHANGED <<now, restarts, owner, challenge, jtis, pc, paramVars, late, sweepVars>>

-----------------------------------------------------------------------------
(* TokenHandler.                                                           *)

\* A request comes in with the parameters it has.
Present(r) ==
    /\ pc[r] = "idle"
    /\ code[r] \in delivered
    /\ late' = IF \E q \in Requests : code[q] = code[r] /\ pc[q] \notin Before
               THEN late \cup {r} ELSE late
    /\ Goto(r, "presented")
    /\ UNCHANGED <<now, restarts, stored, codeVars, jtis, paramVars, sweepVars>>

\* GetAndRemoveAuthCode: codes.Load
LoadCode(r) ==
    /\ pc[r] = "presented"
    /\ Goto(r, IF code[r] \in stored THEN "loaded" ELSE "invalid")
    /\ UNCHANGED <<now, restarts, stored, codeVars, jtis, paramVars, late, sweepVars>>

\* mutant: the code is not removed
KeepCode(r) ==
    /\ pc[r] = "loaded"
    /\ Goto(r, "taken")
    /\ UNCHANGED <<now, restarts, stored, codeVars, jtis, paramVars, late, sweepVars>>

\* GetAndRemoveAuthCode: codes.Delete, whoever else has loaded it
DeleteCode(r) ==
    /\ pc[r] = "loaded"
    /\ stored' = stored \ {code[r]}
    /\ Goto(r, "taken")
    /\ UNCHANGED <<now, restarts, codeVars, jtis, paramVars, late, sweepVars>>

\* mutant: PKCE is not verified
GrantUnbound(r) == now <= expires[code[r]] /\ secret[r] = owner[code[r]]

\* Not expired, the client's own secret, and VerifyPKCE.
GrantOK(r) ==
    /\ now <= expires[code[r]]
    /\ secret[r] = owner[code[r]]
    /\ verifier[r] = challenge[code[r]]

CheckGrant(r) ==
    /\ pc[r] = "taken"
    /\ Goto(r, IF GrantOK(r) THEN "authenticated" ELSE "invalid")
    /\ UNCHANGED <<now, restarts, stored, codeVars, jtis, paramVars, late, sweepVars>>

\* A proof for another method or URL, an old or a malformed one is refused.
VerifyDPoPProof(r) ==
    /\ pc[r] = "authenticated"
    /\ \E l \in {"verified", "invalid"} : Goto(r, l)
    /\ UNCHANGED <<now, restarts, stored, codeVars, jtis, paramVars, late, sweepVars>>

\* mutant: the replay check is missing
SkipReplayCheck(r) ==
    /\ pc[r] = "verified"
    /\ Goto(r, "proven")
    /\ UNCHANGED <<now, restarts, stored, codeVars, jtis, paramVars, late, sweepVars>>

\* Accept or Reject of ReplayGuard: a proof that is not covered may have been
\* forgotten since it was used.
IsJTIUsedAndSave(r) ==
    /\ pc[r] = "verified"
    /\ \/ (dpop[r] \in Covered => dpop[r] \notin jtis) /\ Goto(r, "proven")
       \/ dpop[r] \in jtis /\ Goto(r, "invalid")
    /\ jtis' = jtis \cup {dpop[r]}
    /\ UNCHANGED <<now, restarts, stored, codeVars, paramVars, late, sweepVars>>

\* The token is signed and sent: sub = owner[code[r]], cnf.jkt of the proof.
IssueToken(r) ==
    /\ pc[r] = "proven"
    /\ Goto(r, "issued")
    /\ UNCHANGED <<now, restarts, stored, codeVars, jtis, paramVars, late, sweepVars>>

-----------------------------------------------------------------------------
(* startCleanupTicker, first loop, and the end of the process.             *)

SweepStart ==
    /\ sweep = {} /\ doomed = {}
    /\ sweep' = Codes
    /\ sweepNow' = now
    /\ UNCHANGED <<now, restarts, stored, codeVars, jtis, pc, paramVars, late, doomed>>

\* mutant: only codes that were sent to a client are looked at
LapsedDelivered(c) == c \in stored /\ c \in delivered /\ sweepNow > expires[c]

\* now.After(info.ExpiresAt)
Lapsed(c) == c \in stored /\ sweepNow > expires[c]

SweepVisit(c) ==
    /\ c \in sweep /\ doomed = {}
    /\ sweep' = sweep \ {c}
    /\ doomed' = IF Lapsed(c) THEN {c} ELSE {}
    /\ UNCHANGED <<now, restarts, stored, codeVars, jtis, pc, paramVars, late, sweepNow>>

SweepDelete ==
    /\ doomed # {}
    /\ stored' = stored \ doomed
    /\ doomed' = {}
    /\ UNCHANGED <<now, restarts, codeVars, jtis, pc, paramVars, late, sweep, sweepNow>>

\* RAMStore is lost with the process, and so are the requests it was serving.
Restart ==
    /\ restarts < MaxRestarts
    /\ restarts' = restarts + 1
    /\ stored' = {} /\ jtis' = {}
    /\ pc' = [r \in Requests |-> IF pc[r] \in InFlight THEN "lost" ELSE pc[r]]
    /\ sweep' = {} /\ doomed' = {}
    /\ UNCHANGED <<now, codeVars, paramVars, late, sweepNow>>

TokenHandler(r) ==
    \/ LoadCode(r) \/ DeleteCode(r) \/ CheckGrant(r)
    \/ VerifyDPoPProof(r) \/ IsJTIUsedAndSave(r) \/ IssueToken(r)

SweepStep == SweepStart \/ (\E c \in Codes : SweepVisit(c)) \/ SweepDelete

Next ==
    \/ Tick
    \/ \E c \in Codes : AuthorizeHandler(c)
    \/ \E r \in Requests : Present(r) \/ TokenHandler(r)
    \/ SweepStep
    \/ Restart

Spec == Init /\ [][Next]_vars

\* Handlers run to completion and the ticker keeps firing; nothing makes
\* clients ask, or time pass.
FairSpec ==
    /\ Spec
    /\ \A r \in Requests : WF_vars(TokenHandler(r))
    /\ WF_vars(SweepStep)

-----------------------------------------------------------------------------
(* Properties.                                                             *)

\* The variables have the values the code gives them.
TypeOK ==
    /\ now \in Nat /\ restarts \in Nat
    /\ saved \subseteq Codes /\ stored \subseteq Codes /\ delivered \subseteq Codes
    /\ jtis \subseteq Proofs
    /\ owner \in [Codes -> Clients] /\ challenge \in [Codes -> Verifiers]
    /\ expires \in [Codes -> Nat]
    /\ pc \in [Requests -> {"idle", "invalid", "issued", "lost"} \cup InFlight]
    /\ code \in [Requests -> Codes] /\ dpop \in [Requests -> Proofs]
    /\ secret \in [Requests -> Clients] /\ verifier \in [Requests -> Verifiers]
    /\ late \subseteq Requests
    /\ sweep \subseteq Codes /\ sweepNow \in Nat /\ doomed \subseteq Codes

\* A /token request that is delivered twice, or repeated by its client as it
\* was, obtains one token at most: where GetAndRemoveAuthCode lets both
\* copies through, IsJTIUsedAndSave stops one, also across a restart, if it
\* covers their proof.
DuplicateGetsOneToken ==
    \A r, q \in Requests :
        r # q /\ pc[r] = "issued" /\ pc[q] = "issued" /\ code[r] = code[q] /\ dpop[r] \in Covered
            => dpop[r] # dpop[q]

\* A request that arrives after another one has been through the store with
\* its code never obtains a token, whatever became of the other: a token, an
\* error of one of the later checks, or the end of the process.  A failed
\* exchange cannot be repeated with better parameters.
LateGetsNothing == \A r \in late : pc[r] # "issued"

\* How far a request has come, for the exchange.
Stage ==
    [r \in Requests |->
        CASE pc[r] \in {"idle", "presented"} -> "new"
          [] pc[r] \in {"loaded", "taken", "authenticated", "verified"} -> "in"
          [] pc[r] = "proven" -> "granted"
          [] pc[r] = "issued" -> "token"
          [] OTHER -> "nothing"]

\* The requests with the secret of the client and the verifier of the session
\* for which their code was made.
Entitled ==
    {r \in Requests : secret[r] = owner[code[r]] /\ verifier[r] = challenge[code[r]]}

Exchange == INSTANCE CodeExchange
    WITH proof <- dpop, entitled <- Entitled, made <- saved, open <- stored,
         stage <- Stage, spent <- jtis

\* Seen from outside, a code is closed once and for good, by a request, the
\* sweep or the end of the process, and a token goes only to somebody who is
\* entitled to it, came while the code was open, and whose fate was decided
\* when nobody could come any more: although GetAndRemoveAuthCode is two
\* steps, and the code is removed before the checks, which may all fail.
ImplementsExchange == Exchange!Spec

\* Of the codes a sweep has passed, none but the one about to be deleted had
\* expired when it started, also not one that was saved or left behind by
\* /authorize meanwhile.
SweepThorough ==
    \A c \in Codes \ (sweep \cup doomed) : c \in stored => expires[c] >= sweepNow

\* A code does not stay in the store for ever, in particular not one that
\* an error answer of /authorize has left behind.
ExpiredCodeRemoved ==
    \A c \in Codes : (c \in stored /\ now > expires[c]) ~> c \notin stored

-----------------------------------------------------------------------------
(* What the documentation says, and the code does not keep.                *)

\* An authorization code can be used once.
CodeUsedOnce ==
    \A r, q \in Requests :
        r # q /\ pc[r] = "issued" /\ pc[q] = "issued" => code[r] # code[q]
=============================================================================
