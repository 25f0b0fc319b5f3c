------------------------------ MODULE JTICache ------------------------------
(***************************************************************************)
(* The DPoP replay cache of the gateway and of the IdP.                    *)
(*                                                                         *)
(* gateway/internal/auth/jti.go and the jti half of idp/store/memory.go    *)
(* are the same algorithm: a sync.Map from a proof's jti to the time at    *)
(* which the entry expires, filled by IsJTIUsedAndSave and emptied by a    *)
(* background sweep.  It is used together with the freshness window of     *)
(* VerifyDPoPProof, and only the two together decide whether one proof     *)
(* can be accepted twice.                                                  *)
(*                                                                         *)
(* A request is a goroutine.  Its steps are the instants at which it       *)
(* touches shared state or reads the clock: the iat test inside            *)
(* VerifyDPoPProof, the time.Now() at the top of IsJTIUsedAndSave, the     *)
(* atomic LoadOrStore, and the Store that renews an expired entry.  A      *)
(* proof is identified with its jti (the client draws a fresh UUID).       *)
(* Time is an integer; the unit is arbitrary.                              *)
(***************************************************************************)
EXTENDS Integers

CONSTANTS
    Proofs,      \* DPoP proofs, each with its own jti
    Requests,    \* HTTP requests; one goroutine each
    Window,      \* accepted distance between iat and now   (60 s)
    TTL,         \* lifetime of a cache entry                (2 min)
    Skew,        \* largest error of a client's clock
    MaxDelay,    \* longest time from the iat test to the end of IsJTIUsedAndSave
    MaxTime,     \* bound: the clock stops here
    MaxLife      \* bound: number of process lifetimes

ASSUME ConstantsAssumption ==
    /\ Window \in Nat /\ TTL \in Nat /\ Skew \in Nat /\ MaxDelay \in Nat
    /\ MaxTime \in Nat /\ MaxLife \in Nat

VARIABLES
    now,         \* the wall clock of the process
    life,        \* how many times the process has been restarted
    mintedAt,    \* when the client made the proof (NotMinted before that)
    iat,         \* the proof's iat claim, taken from the client's own clock
    jtis,        \* the sync.Map: jti -> expiration time, or Absent
    pc,          \* where each request is
    proof,       \* the proof a request carries
    verifiedAt,  \* when VerifyDPoPProof tested the request's iat
    localNow,    \* the request's local variable `now`
    lifeOf,      \* the process lifetime that received the request
    sweep,       \* keys the running sweep has still to visit
    sweepNow,    \* the sweep's local variable `now`
    doomed       \* the key the sweep has found expired and is about to delete

requestVars == <<pc, proof, verifiedAt, localNow, lifeOf>>
sweepVars   == <<sweep, sweepNow, doomed>>
vars == <<now, life, mintedAt, iat, jtis, requestVars, sweepVars>>

Absent    == -1
NotMinted == -1

\* Inside VerifyDPoPProof..IsJTIUsedAndSave
InFlight == {"verified", "clocked", "expired"}

Init ==
    /\ now = 0 /\ life = 0
    /\ mintedAt = [p \in Proofs |-> NotMinted]
    /\ iat = [p \in Proofs |-> 0]
    /\ jtis = [p \in Proofs |-> Absent]
    /\ pc = [r \in Requests |-> "idle"]
    /\ proof \in [Requests -> Proofs]
    /\ verifiedAt = [r \in Requests |-> 0]
    /\ localNow = [r \in Requests |-> 0]
    /\ lifeOf = [r \in Requests |-> 0]
    /\ sweep = {} /\ sweepNow = 0 /\ doomed = {}

-----------------------------------------------------------------------------
(* The environment: time and clients.                                      *)

\* Time passes, but never so far that a request spends more than MaxDelay
\* between the iat test and the end of IsJTIUsedAndSave.
Tick ==
    /\ now < MaxTime
    /\ \A r \in Requests : pc[r] \in InFlight => now < verifiedAt[r] + MaxDelay
    /\ now' = now + 1
    /\ UNCHANGED <<life, mintedAt, iat, jtis, requestVars, sweepVars>>

\* client/crypto/crypto.go GenerateDPoPProof: a proof with a new jti and the
\* client's idea of the time.
GenerateDPoPProof(p) ==
    /\ mintedAt[p] = NotMinted
    /\ mintedAt' = [mintedAt EXCEPT ![p] = now]
    /\ \E d \in -Skew..Skew : iat' = [iat EXCEPT ![p] = now + d]
    /\ UNCHANGED <<now, life, jtis, requestVars, sweepVars>>

-----------------------------------------------------------------------------
(* A request.                                                              *)

\* mutant: a window as long as the lifetime of a cache entry
FreshForTTL(i, t) == t - i <= TTL /\ i - t <= Window

\* time.Since(iat) > 60s || time.Until(iat) > 60s is the rejection; both
\* bounds are therefore inclusive.
Fresh(i, t) == t - i <= Window /\ i - t <= Window

\* VerifyDPoPProof, everything else in the proof being in order.
VerifyDPoPProof(r) ==
    /\ pc[r] = "idle"
    /\ mintedAt[proof[r]] # NotMinted
    /\ pc' = [pc EXCEPT ![r] = IF Fresh(iat[proof[r]], now) THEN "verified"
                                                           ELSE "stale"]
    /\ verifiedAt' = [verifiedAt EXCEPT ![r] = now]
    /\ lifeOf' = [lifeOf EXCEPT ![r] = life]
    /\ UNCHANGED <<now, life, mintedAt, iat, jtis, proof, localNow, sweepVars>>

\* now := time.Now()
ReadClock(r) ==
    /\ pc[r] = "verified"
    /\ localNow' = [localNow EXCEPT ![r] = now]
    /\ pc' = [pc EXCEPT ![r] = "clocked"]
    /\ UNCHANGED <<now, life, mintedAt, iat, jtis, proof, verifiedAt, lifeOf, sweepVars>>

\* mutant: the entry is stored first and then looked up
StoreThenLoad(r) ==
    /\ pc[r] = "clocked"
    /\ jtis' = [jtis EXCEPT ![proof[r]] = localNow[r] + TTL]
    /\ pc' = [pc EXCEPT ![r] = "replay"]
    /\ UNCHANGED <<now, life, mintedAt, iat, proof, verifiedAt, localNow, lifeOf, sweepVars>>

\* val, loaded := LoadOrStore(jti, now.Add(ttl)), and the branch on it.
LoadOrStore(r) ==
    LET p == proof[r] IN
    /\ pc[r] = "clocked"
    /\ \/ /\ jtis[p] = Absent
          /\ jtis' = [jtis EXCEPT ![p] = localNow[r] + TTL]
          /\ pc' = [pc EXCEPT ![r] = "accepted"]
       \/ /\ jtis[p] # Absent
          /\ pc' = [pc EXCEPT ![r] = IF localNow[r] < jtis[p] THEN "replay"
                                                              ELSE "expired"]
          /\ UNCHANGED jtis
    /\ UNCHANGED <<now, life, mintedAt, iat, proof, verifiedAt, localNow, lifeOf, sweepVars>>

\* The expired entry is overwritten: a second, separate access to the map.
StoreExpired(r) ==
    /\ pc[r] = "expired"
    /\ jtis' = [jtis EXCEPT ![proof[r]] = localNow[r] + TTL]
    /\ pc' = [pc EXCEPT ![r] = "accepted"]
    /\ UNCHANGED <<now, life, mintedAt, iat, proof, verifiedAt, localNow, lifeOf, sweepVars>>

-----------------------------------------------------------------------------
(* startCleanupTicker: one goroutine per process.                          *)

\* The ticker fires; Range will visit every key.
SweepStart ==
    /\ sweep = {} /\ doomed = {}
    /\ sweep' = Proofs
    /\ sweepNow' = now
    /\ UNCHANGED <<now, life, mintedAt, iat, jtis, requestVars, doomed>>

\* mutant: !Before instead of After
LapsedOrDue(p) == jtis[p] # Absent /\ sweepNow >= jtis[p]

\* mutant: Before instead of After
NotLapsed(p) == jtis[p] # Absent /\ sweepNow < jtis[p]

\* now.After(expireTime)
Lapsed(p) == jtis[p] # Absent /\ sweepNow > jtis[p]

\* Range hands over one key and the value it had when it was loaded.
SweepVisit(p) ==
    /\ p \in sweep /\ doomed = {}
    /\ sweep' = sweep \ {p}
    /\ doomed' = IF Lapsed(p) THEN {p} ELSE {}
    /\ UNCHANGED <<now, life, mintedAt, iat, jtis, requestVars, sweepNow>>

\* Delete(key) does not look at the value again.
SweepDelete ==
    /\ doomed # {}
    /\ jtis' = [p \in Proofs |-> IF p \in doomed THEN Absent ELSE jtis[p]]
    /\ doomed' = {}
    /\ UNCHANGED <<now, life, mintedAt, iat, requestVars, sweep, sweepNow>>

\* The process stops and starts again: the map is gone, and so is every
\* request that was being served.
Restart ==
    /\ life < MaxLife
    /\ life' = life + 1
    /\ jtis' = [p \in Proofs |-> Absent]
    /\ pc' = [r \in Requests |-> IF pc[r] \in InFlight THEN "dropped" ELSE pc[r]]
    /\ sweep' = {} /\ doomed' = {}
    /\ UNCHANGED <<now, mintedAt, iat, proof, verifiedAt, localNow, lifeOf, sweepNow>>

RequestStep(r) ==
    VerifyDPoPProof(r) \/ ReadClock(r) \/ LoadOrStore(r) \/ StoreExpired(r)

SweepStep == SweepStart \/ (\E p \in Proofs : SweepVisit(p)) \/ SweepDelete

Next ==
    \/ Tick
    \/ \E p \in Proofs : GenerateDPoPProof(p)
    \/ \E r \in Requests : RequestStep(r)
    \/ SweepStep
    \/ Restart

Spec == Init /\ [][Next]_vars

\* Go's scheduler runs every runnable goroutine and the ticker keeps firing.
FairSpec ==
    /\ Spec
    /\ WF_vars(SweepStep)
    /\ \A r \in Requests : WF_vars(ReadClock(r) \/ LoadOrStore(r) \/ StoreExpired(r))

-----------------------------------------------------------------------------
(* Properties.                                                             *)

\* The variables have the values the code gives them.
TypeOK ==
    /\ now \in Nat /\ life \in Nat
    /\ mintedAt \in [Proofs -> Int]
    /\ iat \in [Proofs -> Int]
    /\ jtis \in [Proofs -> Int]
    /\ pc \in [Requests -> {"idle", "verified", "clocked", "expired", "accepted",
                            "replay", "stale", "dropped"}]
    /\ proof \in [Requests -> Proofs]
    /\ verifiedAt \in [Requests -> Nat]
    /\ localNow \in [Requests -> Nat]
    /\ lifeOf \in [Requests -> Nat]
    /\ sweep \subseteq Proofs
    /\ sweepNow \in Nat
    /\ doomed \subseteq Proofs

\* The margin on which the cache depends: the entry of a proof lives at least
\* until TTL after the proof was made; the freshness test passes until
\* iat + Window, and a request may lie another MaxDelay before it reaches the
\* map.  With 60 s and 2 min it holds for every client whose clock is less
\* than 60 s - MaxDelay ahead.
InMargin(p) == iat[p] + Window + MaxDelay < mintedAt[p] + TTL

\* IsJTIUsedAndSave answers "not used" to at most one of the requests that
\* present the same proof to the same process, however they interleave with
\* one another and with the sweep, if the client's clock leaves the margin.
AcceptedAtMostOnce ==
    \A r, q \in Requests :
        /\ r # q
        /\ pc[r] = "accepted" /\ pc[q] = "accepted"
        /\ proof[r] = proof[q]
        /\ InMargin(proof[r])
        => lifeOf[r] # lifeOf[q]

\* IsJTIUsedAndSave answers "used" only if another request with that proof
\* was let through by the same process: concurrent duplicates of a request
\* cannot all be turned away.
ReplayMeansAccepted ==
    \A r \in Requests : pc[r] = "replay" =>
        \E q \in Requests \ {r} : /\ pc[q] = "accepted"
                                  /\ proof[q] = proof[r]
                                  /\ lifeOf[q] = lifeOf[r]

\* As long as the process lives, the entry of a proof with the margin leaves
\* the map only after it has expired, and its expiration time is never moved:
\* the Delete of the sweep and the Store of a request do not undo each other.
EntryKeptUntilExpiry ==
    [][\A p \in Proofs :
          (jtis[p] # Absent /\ jtis'[p] # jtis[p] /\ life' = life /\ InMargin(p))
              => jtis'[p] = Absent /\ now > jtis[p]]_vars

\* A sweep misses nothing it is responsible for: of the entries it has passed,
\* none but the one about to be deleted had expired when it started, although
\* requests store and renew entries behind its back.  After it, the map holds
\* only what was valid at its start or came in since.
SweepThorough ==
    MaxDelay <= TTL =>
        \A p \in Proofs \ (sweep \cup doomed) : jtis[p] # Absent => jtis[p] >= sweepNow

\* What a request has been told, and by whom its proof is remembered.
Answer ==
    [r \in Requests |->
        CASE pc[r] = "accepted" -> "new"
          [] pc[r] = "replay" -> "used"
          [] pc[r] = "stale" -> "refused"
          [] pc[r] = "dropped" -> "dropped"
          [] OTHER -> "waiting"]

Spent == {proof[r] : r \in {q \in Requests : pc[q] = "accepted" /\ lifeOf[q] = life}}

Guard == INSTANCE ReplayGuard
    WITH answer <- Answer, spent <- Spent,
         covered <- {p \in Proofs : mintedAt[p] # NotMinted /\ InMargin(p)}

\* Seen from outside, IsJTIUsedAndSave is one atomic test-and-set on a set
\* that only a restart empties, for every proof with the margin: the two
\* clocks, the LoadOrStore and the Store of a renewal, the sweep's Range and
\* its blind Delete do not show.  Without the margin it may forget a proof,
\* but never reports one as used that it has not let through.
ImplementsGuard == Guard!Spec

\* The map does not grow without bound: an expired entry is eventually
\* removed (or renewed by a request that still finds it there).
ExpiredEntryRemoved ==
    \A p \in Proofs :
        (jtis[p] # Absent /\ jtis[p] < now) ~> (jtis[p] = Absent \/ jtis[p] >= now)
=============================================================================
