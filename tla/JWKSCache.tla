------------------------------ MODULE JWKSCache ------------------------------
(***************************************************************************)
(* The signing key of the IdP on its way to the gateway: the key file and  *)
(* the /jwks endpoint of the IdP (idp/config/config.go, idp/handler/       *)
(* jwks.go) and the cache through which the gateway looks the key up       *)
(* (JWKSCache in gateway/internal/auth/crypto.go).                         *)
(*                                                                         *)
(* A call is one goroutine inside GetPublicKey.  A read under RLock does   *)
(* not block and is one step; FetchKeys keeps the write lock across its    *)
(* HTTP request, so the lock is part of the state, and every call that     *)
(* finds the cache old does a fetch of its own, one after the other.       *)
(* The IdP publishes one key, always under the same kid.  Time is an       *)
(* integer; the unit is arbitrary.                                         *)
(***************************************************************************)
EXTENDS Integers, FiniteSets

CONSTANTS
    Calls,       \* calls of GetPublicKey
    Kids,        \* the kid header of the tokens they are made for
    SigningKid,  \* "idp-signing-key"
    TTL,         \* of the cache (5 min)
    Timeout,     \* of the HTTP client (5 s)
    NoCall,
    MaxKeys,     \* bound: keys the IdP generates
    MaxTime      \* bound: the clock stops here

ASSUME JWKSAssumption ==
    /\ SigningKid \in Kids /\ NoCall \notin Calls
    /\ TTL \in Nat \ {0} /\ Timeout \in Nat /\ MaxKeys \in Nat /\ MaxTime \in Nat

VARIABLES
    now,
    idp,         \* "down", "creating" (the key file) or "up"
    file,        \* content of idp-private.key: a key, Truncated or Missing
    key,         \* AppConfig.PrivateKey
    nextKey,     \* the key GenerateKey returns next
    keys,        \* the gateway's cache for SigningKid: a key or NoKey
    lastUpdate,
    lock,        \* the call that holds mutex.Lock, or NoCall
    pc, kid,     \* where each call is, and its argument
    found,       \* the call's local `key` (NoKey: !ok)
    fetchAt,     \* when the call sent its HTTP request
    response,    \* the key in the answer it got
    answer,      \* what GetPublicKey returned
    startAt,     \* history: when the call looked at the cache first
    warm,        \* history: another call had been given the key before that
    served,      \* history: when /jwks last gave out each key (Never before that)
    losses       \* history: how many times the key file got lost

idpVars  == <<idp, file, key, nextKey, losses>>
cacheVars == <<keys, lastUpdate, lock>>
callVars == <<pc, kid, found, fetchAt, response, answer, startAt, warm>>
vars == <<now, idpVars, cacheVars, callVars, served>>

Keys == 1..MaxKeys
NoKey == 0
Truncated == 0
Missing == -1
Never == -1
LongAgo == -TTL     \* the zero time.Time: older than any ttl

Init ==
    /\ now = 0
    /\ idp = "down" /\ file = Missing /\ key = NoKey /\ nextKey = 1 /\ losses = 0
    /\ keys = NoKey /\ lastUpdate = LongAgo /\ lock = NoCall
    /\ pc = [c \in Calls |-> "idle"]
    /\ kid \in [Calls -> Kids]
    /\ found = [c \in Calls |-> NoKey] /\ response = [c \in Calls |-> NoKey]
    /\ answer = [c \in Calls |-> NoKey]
    /\ fetchAt = [c \in Calls |-> 0] /\ startAt = [c \in Calls |-> 0]
    /\ warm = {}
    /\ served = [k \in Keys |-> Never]

Goto(c, l) == pc' = [pc EXCEPT ![c] = l]

\* Time passes; the HTTP client gives up after Timeout.
Tick ==
    /\ now < MaxTime
    /\ \A c \in Calls : pc[c] \in {"fetching", "answered"} => now < fetchAt[c] + Timeout
    /\ now' = now + 1
    /\ UNCHANGED <<idpVars, cacheVars, callVars, served>>

-----------------------------------------------------------------------------
(* The IdP.                                                                *)

\* LoadOrGenerateKeys with no file: a new key; the file is created empty.
GenerateKey ==
    /\ idp = "down" /\ file = Missing
    /\ nextKey \in Keys
    /\ idp' = "creating"
    /\ file' = Truncated
    /\ key' = nextKey /\ nextKey' = nextKey + 1
    /\ UNCHANGED <<now, losses, cacheVars, callVars, served>>

\* mutant: the key is never written
WriteKeyNot ==
    /\ idp = "creating"
    /\ file' = Missing
    /\ idp' = "up"
    /\ UNCHANGED <<now, key, nextKey, losses, cacheVars, callVars, served>>

\* pem.Encode; only then does the server start.
WriteKey ==
    /\ idp = "creating"
    /\ file' = key
    /\ idp' = "up"
    /\ UNCHANGED <<now, key, nextKey, losses, cacheVars, callVars, served>>

\* LoadOrGenerateKeys with a file.  A truncated one has no PEM block: the
\* process ends with an error and the IdP stays down.
LoadKey ==
    /\ idp = "down" /\ file \in Keys
    /\ idp' = "up"
    /\ key' = file
    /\ UNCHANGED <<now, file, nextKey, losses, cacheVars, callVars, served>>

\* The process ends, at any point.
Stop ==
    /\ idp # "down"
    /\ idp' = "down"
    /\ UNCHANGED <<now, file, key, nextKey, losses, cacheVars, callVars, served>>

\* The file is removed: a new container, or an operator rotating the key.
LoseFile ==
    /\ file # Missing /\ idp # "creating"
    /\ file' = Missing /\ losses' = losses + 1
    /\ UNCHANGED <<now, idp, key, nextKey, cacheVars, callVars, served>>

\* JWKSHandler answers the request of call c.
JWKSHandler(c) ==
    /\ pc[c] = "fetching"
    /\ idp = "up"
    /\ response' = [response EXCEPT ![c] = key]
    /\ served' = [served EXCEPT ![key] = now]
    /\ Goto(c, "answered")
    /\ UNCHANGED <<now, idpVars, cacheVars, kid, found, fetchAt, answer, startAt, warm>>

-----------------------------------------------------------------------------
(* The gateway.                                                            *)

Cached(c) == IF kid[c] = SigningKid THEN keys ELSE NoKey

\* mutant: no look at the age
HitAnyAge(c) == Cached(c) # NoKey

Hit(c) == Cached(c) # NoKey /\ now - lastUpdate < TTL

\* GetPublicKey up to the decision to fetch.
GetPublicKey(c) ==
    /\ pc[c] = "idle" /\ lock = NoCall
    /\ found' = [found EXCEPT ![c] = Cached(c)]
    /\ startAt' = [startAt EXCEPT ![c] = now]
    /\ warm' = IF \E d \in Calls : answer[d] # NoKey THEN warm \cup {c} ELSE warm
    /\ \/ Hit(c) /\ answer' = [answer EXCEPT ![c] = Cached(c)] /\ Goto(c, "returned")
       \/ ~Hit(c) /\ Goto(c, "waiting") /\ UNCHANGED answer
    /\ UNCHANGED <<now, idpVars, cacheVars, kid, fetchAt, response, served>>

\* FetchKeys: mutex.Lock() and the request is sent.
Lock(c) ==
    /\ pc[c] = "waiting" /\ lock = NoCall
    /\ lock' = c
    /\ fetchAt' = [fetchAt EXCEPT ![c] = now]
    /\ Goto(c, "fetching")
    /\ UNCHANGED <<now, idpVars, keys, lastUpdate, kid, found, response, answer, startAt, warm, served>>

\* The answer is decoded, the cache replaced, the lock released.
FetchSucceeds(c) ==
    /\ pc[c] = "answered"
    /\ keys' = response[c]
    /\ lastUpdate' = now
    /\ lock' = NoCall
    /\ Goto(c, "updated")
    /\ UNCHANGED <<now, idpVars, kid, found, fetchAt, response, answer, startAt, warm, served>>

\* mutant: no fallback
FetchFailsForGood(c) ==
    /\ pc[c] \in {"fetching", "answered"}
    /\ lock' = NoCall
    /\ Goto(c, "error")
    /\ UNCHANGED <<now, idpVars, keys, lastUpdate, kid, found, fetchAt, response, answer, startAt, warm, served>>

\* mutant: the error return keeps the lock
FetchFailsLocked(c) ==
    /\ pc[c] \in {"fetching", "answered"}
    /\ answer' = [answer EXCEPT ![c] = found[c]]
    /\ Goto(c, IF found[c] # NoKey THEN "fellBack" ELSE "error")
    /\ UNCHANGED <<now, idpVars, cacheVars, kid, found, fetchAt, response, startAt, warm, served>>

\* No connection, timeout, a bad status or a bad body: the lock is released
\* and the call falls back to the key it had read before, if any.
FetchFails(c) ==
    /\ pc[c] \in {"fetching", "answered"}
    /\ lock' = NoCall
    /\ answer' = [answer EXCEPT ![c] = found[c]]
    /\ Goto(c, IF found[c] # NoKey THEN "fellBack" ELSE "error")
    /\ UNCHANGED <<now, idpVars, keys, lastUpdate, kid, found, fetchAt, response, startAt, warm, served>>

\* After a fetch: the second read of the cache, whatever is in it by now.
ReadAgain(c) ==
    /\ pc[c] = "updated" /\ lock = NoCall
    /\ answer' = [answer EXCEPT ![c] = Cached(c)]
    /\ Goto(c, IF Cached(c) # NoKey THEN "returned" ELSE "error")
    /\ UNCHANGED <<now, idpVars, cacheVars, kid, found, fetchAt, response, startAt, warm, served>>

-----------------------------------------------------------------------------
IdPStep == GenerateKey \/ WriteKey \/ LoadKey \/ Stop \/ LoseFile

Fetch(c) == Lock(c) \/ FetchSucceeds(c) \/ FetchFails(c) \/ ReadAgain(c)

Next ==
    \/ Tick
    \/ IdPStep
    \/ \E c \in Calls : GetPublicKey(c) \/ JWKSHandler(c) \/ Fetch(c)

Spec == Init /\ [][Next]_vars

\* A goroutine that can run does, and a fetch ends by the timeout at the
\* latest.  Nothing makes the IdP run or answer.
FairSpec == Spec /\ \A c \in Calls : WF_vars(Fetch(c))

-----------------------------------------------------------------------------
(* Properties.                                                             *)

\* The variables have the values the code gives them.
TypeOK ==
    /\ now \in Nat
    /\ idp \in {"down", "creating", "up"}
    /\ file \in Keys \cup {Truncated, Missing} /\ key \in Keys \cup {NoKey}
    /\ nextKey \in Nat \ {0} /\ losses \in Nat
    /\ keys \in Keys \cup {NoKey} /\ lastUpdate \in Int /\ lock \in Calls \cup {NoCall}
    /\ pc \in [Calls -> {"idle", "waiting", "fetching", "answered", "updated",
                         "returned", "fellBack", "error"}]
    /\ kid \in [Calls -> Kids]
    /\ found \in [Calls -> Keys \cup {NoKey}]
    /\ response \in [Calls -> Keys \cup {NoKey}]
    /\ answer \in [Calls -> Keys \cup {NoKey}]
    /\ fetchAt \in [Calls -> Nat] /\ startAt \in [Calls -> Nat]
    /\ warm \subseteq Calls
    /\ served \in [Keys -> Int]

\* Unless its own fetch failed, a call is given a key that the IdP was still
\* publishing less than TTL + Timeout before the call: the age test, the
\* lock held across the fetch and the second read add up, also when another
\* call replaces the cache between the fetch and that read.
KeyRecentlyPublished ==
    \A c \in Calls : pc[c] = "returned" =>
        /\ served[answer[c]] # Never
        /\ startAt[c] < served[answer[c]] + TTL + Timeout

\* Once some call has been given the key, no later call for that kid fails,
\* whatever happens to the IdP: an outage never empties the cache.
OutageTolerated ==
    \A c \in warm : kid[c] = SigningKid => pc[c] # "error"

\* The IdP gives out a second key only after the key file of the first one
\* was lost: a key that was ever published is the one on file, and the IdP
\* comes back with it after a crash at any point.
KeySurvivesRestart ==
    Cardinality({k \in Keys : served[k] # Never}) <= losses + 1

\* A held lock is on its way back: its holder is inside its own HTTP request,
\* and has been for no longer than the timeout.
LockComesBack ==
    lock # NoCall => /\ pc[lock] \in {"fetching", "answered"}
                     /\ now <= fetchAt[lock] + Timeout

\* Every call returns, with the IdP up, down or hanging: the lock is always
\* released.
EveryCallReturns ==
    \A c \in Calls : pc[c] = "waiting" ~> pc[c] \in {"returned", "fellBack", "error"}
=============================================================================
