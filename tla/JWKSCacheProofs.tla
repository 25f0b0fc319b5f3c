--------------------------- MODULE JWKSCacheProofs ---------------------------
(***************************************************************************)
(* Theorems about the JWKS cache, for any number of concurrent calls and   *)
(* any TTL and timeout.                                                    *)
(***************************************************************************)
EXTENDS JWKSCache, FiniteSetTheorems, TLAPS

(* Type correctness of the key file, /jwks and GetPublicKey.                *)
THEOREM TypeCorrect == Spec => []TypeOK
<1> USE JWKSAssumption DEF Keys, NoKey, Truncated, Missing, Never
<1>1. Init => TypeOK
  BY DEF Init, TypeOK, LongAgo
<1>2. TypeOK /\ [Next]_vars => TypeOK'
  <2> SUFFICES ASSUME TypeOK, [Next]_vars PROVE TypeOK'
    OBVIOUS
  <2> USE DEF TypeOK, idpVars, cacheVars, callVars, Goto
  <2>1. CASE Tick
    BY <2>1 DEF Tick
  <2>2. CASE IdPStep
    <3>1. CASE GenerateKey
      BY <3>1 DEF GenerateKey
    <3>2. CASE WriteKey
      BY <3>2 DEF WriteKey
    <3>3. CASE LoadKey \/ Stop
      BY <3>3 DEF LoadKey, Stop
    <3>4. CASE LoseFile
      BY <3>4 DEF LoseFile
    <3> QED
      BY <2>2, <3>1, <3>2, <3>3, <3>4 DEF IdPStep
  <2>3. ASSUME NEW c \in Calls, JWKSHandler(c) PROVE TypeOK'
    <3>1. response' \in [Calls -> Keys \cup {NoKey}]
      BY <2>3 DEF JWKSHandler
    <3>2. served' \in [Keys -> Int]
      <4> HIDE DEF Keys
      <4>1. now \in Int /\ served \in [Keys -> Int] /\ served' = [served EXCEPT ![key] = now]
        BY <2>3 DEF JWKSHandler
      <4> QED
        BY ONLY <4>1
    <3>3. pc' \in [Calls -> {"idle", "waiting", "fetching", "answered", "updated",
                            "returned", "fellBack", "error"}]
      BY <2>3 DEF JWKSHandler
    <3> QED
      BY <2>3, <3>1, <3>2, <3>3 DEF JWKSHandler
  <2>4. ASSUME NEW c \in Calls, GetPublicKey(c) PROVE TypeOK'
    <3>1. Cached(c) \in Keys \cup {NoKey}
      BY DEF Cached
    <3>2. /\ found' \in [Calls -> Keys \cup {NoKey}] /\ startAt' \in [Calls -> Nat]
          /\ answer' \in [Calls -> Keys \cup {NoKey}] /\ warm' \subseteq Calls
      BY <2>4, <3>1 DEF GetPublicKey
    <3> QED
      BY <2>4, <3>2 DEF GetPublicKey
  <2>5. ASSUME NEW c \in Calls, Fetch(c) PROVE TypeOK'
    <3>1. CASE Lock(c)
      BY <3>1 DEF Lock
    <3>2. CASE FetchSucceeds(c)
      BY <3>2 DEF FetchSucceeds
    <3>3. CASE FetchFails(c)
      BY <3>3 DEF FetchFails
    <3>4. CASE ReadAgain(c)
      BY <3>4 DEF ReadAgain, Cached
    <3> QED
      BY <2>5, <3>1, <3>2, <3>3, <3>4 DEF Fetch
  <2>6. CASE UNCHANGED vars
    BY <2>6 DEF vars
  <2> QED
    BY <2>1, <2>2, <2>3, <2>4, <2>5, <2>6 DEF Next
<1> QED
  BY <1>1, <1>2, PTL DEF Spec

-----------------------------------------------------------------------------
(* The inductive invariant.                                                *)

Fetching == {"fetching", "answered"}

\* The write lock is held by the call that is fetching, and only by it.
LockOK == \A c \in Calls : pc[c] \in Fetching => lock = c

\* What the calls and the IdP have noted about the time lies in the past,
\* and a fetch is not older than its timeout.
TimesOK ==
    /\ \A c \in Calls : startAt[c] <= now /\ fetchAt[c] <= now
    /\ \A c \in Calls : pc[c] \in Fetching => startAt[c] <= fetchAt[c] /\ now <= fetchAt[c] + Timeout
    /\ lastUpdate <= now /\ \A k \in Keys : served[k] <= now
    /\ idp # "down" => key \in Keys

\* A key in the cache was published not longer than Timeout before the
\* update; one in an answer was published after the request was sent.
PublishedOK ==
    /\ keys # NoKey => served[keys] >= 0 /\ lastUpdate <= served[keys] + Timeout
    /\ \A c \in Calls : pc[c] = "answered" => response[c] \in Keys /\ served[response[c]] >= fetchAt[c]

\* What a call finds in the cache after its own fetch was published after
\* the call began, also if another call has replaced it or is about to.
UpdatedOK ==
    \A c \in Calls : pc[c] = "updated" =>
        /\ keys # NoKey /\ served[keys] >= startAt[c]
        /\ \A d \in Calls : pc[d] \in Fetching => startAt[c] <= fetchAt[d]

\* KeyRecentlyPublished, with the type of the answer.
ReturnedOK ==
    \A c \in Calls : pc[c] = "returned" =>
        /\ answer[c] \in Keys /\ served[answer[c]] >= 0
        /\ startAt[c] < served[answer[c]] + TTL + Timeout

\* Nobody was given a key, or saw one, that was not put in the cache; a warm
\* call has seen one.
WarmOK ==
    /\ \A c \in Calls : answer[c] # NoKey \/ found[c] # NoKey => keys # NoKey
    /\ \A c \in warm : /\ kid[c] = SigningKid => found[c] # NoKey /\ pc[c] # "error"
                       /\ pc[c] # "idle"

CacheInv == TimesOK /\ LockOK /\ PublishedOK /\ UpdatedOK /\ ReturnedOK /\ WarmOK

\* FetchKeys and the second read of GetPublicKey keep the invariant.
LEMMA FetchInv ==
    ASSUME TypeOK, CacheInv, NEW c \in Calls, Fetch(c)
    PROVE  CacheInv'
<1> USE JWKSAssumption DEF CacheInv, TypeOK, Keys, NoKey, idpVars, callVars, cacheVars, Goto, Fetching
<1>1. CASE Lock(c)
  <2> USE <1>1 DEF Lock
  <2>1. TimesOK' /\ LockOK'
    BY DEF TimesOK, LockOK
  <2>2. PublishedOK' /\ ReturnedOK' /\ WarmOK'
    BY DEF PublishedOK, ReturnedOK, WarmOK
  <2>3. UpdatedOK'
    BY DEF UpdatedOK, TimesOK
  <2> QED
    BY <2>1, <2>2, <2>3
<1>2. CASE FetchSucceeds(c)
  <2> USE <1>2 DEF FetchSucceeds
  <2>1. TimesOK' /\ LockOK'
    BY DEF TimesOK, LockOK
  <2>2. PublishedOK'
    BY DEF PublishedOK, TimesOK
  <2>3. UpdatedOK'
    BY SMTT(30) DEF UpdatedOK, TimesOK, LockOK, PublishedOK
  <2>4. ReturnedOK' /\ WarmOK'
    BY DEF ReturnedOK, WarmOK, PublishedOK
  <2> QED
    BY <2>1, <2>2, <2>3, <2>4
<1>3. CASE FetchFails(c)
  <2> USE <1>3 DEF FetchFails
  <2>1. TimesOK' /\ LockOK'
    BY DEF TimesOK, LockOK
  <2>2. PublishedOK' /\ UpdatedOK'
    BY DEF PublishedOK, UpdatedOK
  <2>3. ReturnedOK'
    BY SMTT(30) DEF ReturnedOK
  <2>4. WarmOK'
    BY SMTT(30) DEF WarmOK
  <2> QED
    BY <2>1, <2>2, <2>3, <2>4
<1>4. CASE ReadAgain(c)
  <2> USE <1>4 DEF ReadAgain, Cached
  <2>1. TimesOK' /\ LockOK'
    BY DEF TimesOK, LockOK
  <2>2. PublishedOK' /\ UpdatedOK'
    BY DEF PublishedOK, UpdatedOK
  <2>3. ReturnedOK'
    BY DEF ReturnedOK, UpdatedOK, TimesOK
  <2>4. WarmOK'
    BY DEF WarmOK, UpdatedOK
  <2> QED
    BY <2>1, <2>2, <2>3, <2>4
<1> QED
  BY <1>1, <1>2, <1>3, <1>4 DEF Fetch

\* The first look at the cache keeps the invariant.
LEMMA GetPublicKeyInv ==
    ASSUME TypeOK, CacheInv, NEW c \in Calls, GetPublicKey(c)
    PROVE  CacheInv'
<1> USE JWKSAssumption DEF CacheInv, TypeOK, Keys, NoKey, idpVars, callVars, cacheVars, Goto, Fetching,
        GetPublicKey, Cached
<1>1. TimesOK'
  BY SMTT(30) DEF TimesOK
<1>2. LockOK' /\ PublishedOK'
  BY SMTT(30) DEF LockOK, PublishedOK
<1>3. UpdatedOK'
  BY SMTT(30) DEF UpdatedOK
<1>4. ReturnedOK'
  BY SMTT(30) DEF ReturnedOK, PublishedOK, Hit
<1>5. WarmOK'
  BY SMTT(30) DEF WarmOK
<1> QED
  BY <1>1, <1>2, <1>3, <1>4, <1>5

\* The IdP, its answers on /jwks and the passing of time keep the invariant.
LEMMA IdPInv ==
    ASSUME TypeOK, CacheInv, Tick \/ IdPStep \/ \E c \in Calls : JWKSHandler(c)
    PROVE  CacheInv'
<1> USE JWKSAssumption DEF CacheInv, TypeOK, Keys, NoKey, idpVars, callVars, cacheVars, Goto, Fetching
<1>1. CASE Tick
  <2> USE <1>1 DEF Tick
  <2>1. TimesOK' /\ LockOK' /\ PublishedOK'
    BY DEF TimesOK, LockOK, PublishedOK
  <2>2. UpdatedOK' /\ ReturnedOK' /\ WarmOK'
    BY DEF UpdatedOK, ReturnedOK, WarmOK
  <2> QED
    BY <2>1, <2>2
<1>2. CASE IdPStep
  <2>1. UNCHANGED <<now, cacheVars, callVars, served>>
    BY <1>2 DEF IdPStep, GenerateKey, WriteKey, LoadKey, Stop, LoseFile
  <2>2. TimesOK'
    BY <1>2, <2>1 DEF TimesOK, IdPStep, GenerateKey, WriteKey, LoadKey, Stop, LoseFile
  <2>3. LockOK' /\ PublishedOK' /\ UpdatedOK' /\ ReturnedOK' /\ WarmOK'
    BY <2>1 DEF LockOK, PublishedOK, UpdatedOK, ReturnedOK, WarmOK
  <2> QED
    BY <2>2, <2>3
<1>3. ASSUME NEW c \in Calls, JWKSHandler(c) PROVE CacheInv'
  <2> USE <1>3 DEF JWKSHandler
  <2>1. key \in Keys /\ \A k \in Keys : served'[k] >= served[k]
    BY DEF TimesOK
  <2>2. TimesOK' /\ LockOK' /\ WarmOK'
    BY SMTT(30) DEF TimesOK, LockOK, WarmOK
  <2>3. PublishedOK'
    BY <2>1, SMTT(30) DEF PublishedOK, TimesOK
  <2>4. UpdatedOK'
    BY <2>1, SMTT(30) DEF UpdatedOK, TimesOK
  <2>5. ReturnedOK'
    BY <2>1, SMTT(30) DEF ReturnedOK, TimesOK
  <2> QED
    BY <2>2, <2>3, <2>4, <2>5
<1> QED
  BY <1>1, <1>2, <1>3

\* The invariant of the gateway's cache always holds.
LEMMA CacheInvariant == Spec => []CacheInv
<1>1. Init => CacheInv
  BY JWKSAssumption DEF Init, CacheInv, TimesOK, LockOK, PublishedOK, UpdatedOK, ReturnedOK, WarmOK,
     Fetching, NoKey, LongAgo, Never
<1>2. TypeOK /\ CacheInv /\ [Next]_vars => CacheInv'
  <2> SUFFICES ASSUME TypeOK, CacheInv, [Next]_vars PROVE CacheInv'
    OBVIOUS
  <2>1. CASE UNCHANGED vars
    BY <2>1 DEF vars, idpVars, callVars, cacheVars, CacheInv, TimesOK, LockOK, PublishedOK, UpdatedOK,
       ReturnedOK, WarmOK
  <2> QED
    BY <2>1, FetchInv, GetPublicKeyInv, IdPInv DEF Next
<1> QED
  BY <1>1, <1>2, TypeCorrect, PTL DEF Spec

-----------------------------------------------------------------------------
(* A call whose fetch did not fail is given a key that /jwks was still      *)
(* giving out less than TTL + Timeout before the call, however many calls   *)
(* compete for the lock of JWKSCache.                                       *)
THEOREM KeysRecent == Spec => []KeyRecentlyPublished
<1>1. TypeOK /\ CacheInv => KeyRecentlyPublished
  BY JWKSAssumption DEF CacheInv, ReturnedOK, KeyRecentlyPublished, Never, TypeOK, Keys
<1> QED
  BY <1>1, TypeCorrect, CacheInvariant, PTL

(* Once GetPublicKey has given the key to somebody, no later call for it    *)
(* fails: an outage of the IdP never empties the cache.                     *)
THEOREM OutagesTolerated == Spec => []OutageTolerated
<1>1. CacheInv => OutageTolerated
  BY DEF CacheInv, WarmOK, OutageTolerated
<1> QED
  BY <1>1, CacheInvariant, PTL

-----------------------------------------------------------------------------
(* The keys of the IdP.                                                    *)

Published == {k \in Keys : served[k] # Never}
OnFile    == Keys \cap {file}
InUse     == IF idp = "up" THEN {key} ELSE {}

\* The keys that were given out, and those that can be from now on without
\* GenerateKey.
Known == Published \cup OnFile \cup InUse

\* The server runs with the key on file, or the file has been lost since; a
\* crash between the creation of the file and the writing of the key leaves a
\* file that stops the IdP, not one that lets it choose another key.  Each key
\* beyond the one on file has cost a loss of the file.
KeyInv ==
    /\ idp = "up" => key \in Keys /\ file \in {key, Missing}
    /\ idp = "creating" => key \in Keys /\ file = Truncated
    /\ Cardinality(Known) <= losses + Cardinality(OnFile)

\* Sets of keys are finite; a key more is one more at most.
LEMMA KeySets ==
    /\ \A S \in SUBSET Keys : IsFiniteSet(S) /\ Cardinality(S) \in Nat
    /\ \A S, T \in SUBSET Keys : S \subseteq T => Cardinality(S) <= Cardinality(T)
    /\ \A S \in SUBSET Keys, k \in Keys : Cardinality(S \cup {k}) <= Cardinality(S) + 1
    /\ Cardinality({}) = 0 /\ \A k \in Keys : Cardinality({k}) = 1
<1>1. IsFiniteSet(Keys)
  BY JWKSAssumption, FS_Interval DEF Keys
<1>2. \A S \in SUBSET Keys : IsFiniteSet(S) /\ Cardinality(S) \in Nat
  BY <1>1, FS_Subset, FS_CardinalityType
<1>3. ASSUME NEW S \in SUBSET Keys, NEW T \in SUBSET Keys, S \subseteq T
      PROVE  Cardinality(S) <= Cardinality(T)
  <2>1. IsFiniteSet(T) /\ S \in SUBSET T
    BY <1>2, <1>3
  <2> QED
    BY <2>1, FS_Subset
<1>4. ASSUME NEW S \in SUBSET Keys, NEW k \in Keys
      PROVE  Cardinality(S \cup {k}) <= Cardinality(S) + 1
  <2>1. IsFiniteSet(S) /\ Cardinality(S) \in Nat
    BY <1>2
  <2>2. Cardinality(S \cup {k}) = IF k \in S THEN Cardinality(S) ELSE Cardinality(S) + 1
    BY <2>1, FS_AddElement, Zenon
  <2> DEFINE n == Cardinality(S)
  <2>3. n \in Nat /\ Cardinality(S \cup {k}) = IF k \in S THEN n ELSE n + 1
    BY <2>1, <2>2
  <2> HIDE DEF n
  <2>4. Cardinality(S \cup {k}) <= n + 1
    BY <2>3
  <2> QED
    BY <2>4 DEF n
<1>5. Cardinality({}) = 0 /\ \A k \in Keys : Cardinality({k}) = 1
  BY FS_EmptySet, FS_Singleton
<1> QED
  BY <1>2, <1>3, <1>4, <1>5

\* OnFile is one key, or none.
LEMMA OnFileIs ==
    /\ file \in Keys => OnFile = {file} /\ Cardinality(OnFile) = 1
    /\ file \notin Keys => OnFile = {} /\ Cardinality(OnFile) = 0
  BY KeySets DEF OnFile

LEMMA KeyInvariant == Spec => []KeyInv
<1>0. Missing \notin Keys /\ Truncated \notin Keys
  BY JWKSAssumption DEF Keys, Missing, Truncated
<1>1. Init => KeyInv
  <2> SUFFICES ASSUME Init PROVE KeyInv
    OBVIOUS
  <2>1. Known = {} /\ OnFile = {}
    BY <1>0 DEF Init, Known, Published, OnFile, InUse
  <2> QED
    BY <2>1, KeySets DEF Init, KeyInv
<1>2. TypeOK /\ KeyInv /\ [Next]_vars => KeyInv'
  <2> SUFFICES ASSUME TypeOK, KeyInv, [Next]_vars PROVE KeyInv'
    OBVIOUS
  <2>0. /\ Known \in SUBSET Keys /\ OnFile \in SUBSET Keys /\ losses \in Nat
        /\ Cardinality(Known) \in Nat /\ Cardinality(OnFile) \in Nat
    BY KeySets DEF KeyInv, Known, Published, OnFile, InUse, TypeOK
  <2>1. CASE GenerateKey
    <3>1. /\ idp = "down" /\ file = Missing /\ idp' = "creating" /\ file' = Truncated
          /\ key' \in Keys /\ UNCHANGED <<losses, served>>
      BY <2>1 DEF GenerateKey
    <3>2. Known' = Known /\ OnFile' = OnFile
      BY <1>0, <3>1 DEF Known, Published, OnFile, InUse
    <3> QED
      BY <3>1, <3>2 DEF KeyInv
  <2>2. CASE WriteKey
    <3>1. /\ idp = "creating" /\ idp' = "up" /\ file' = key /\ key \in Keys /\ file = Truncated
          /\ UNCHANGED <<key, losses, served>>
      BY <2>2 DEF WriteKey, KeyInv
    <3>2. Known' = Known \cup {key} /\ OnFile' = {key} /\ OnFile = {}
      BY <1>0, <3>1 DEF Known, Published, OnFile, InUse
    <3>3. Cardinality(Known') <= Cardinality(Known) + 1 /\ Cardinality(OnFile') = 1
          /\ Cardinality(OnFile) = 0 /\ Cardinality(Known') \in Nat
      BY <2>0, <3>1, <3>2, KeySets
    <3>4. Cardinality(Known') <= losses' + Cardinality(OnFile')
      BY <2>0, <3>1, <3>3 DEF KeyInv
    <3> QED
      BY <3>1, <3>4 DEF KeyInv
  <2>3. CASE LoadKey
    <3>1. /\ file \in Keys /\ idp = "down" /\ idp' = "up" /\ key' = file
          /\ UNCHANGED <<file, losses, served>>
      BY <2>3 DEF LoadKey
    <3>2. Known' = Known /\ OnFile' = OnFile
      BY <3>1 DEF Known, Published, OnFile, InUse
    <3> QED
      BY <3>1, <3>2 DEF KeyInv
  <2>4. CASE Stop
    <3>1. idp' = "down" /\ UNCHANGED <<file, key, losses, served>>
      BY <2>4 DEF Stop
    <3>2. Known' \subseteq Known /\ OnFile' = OnFile
      BY <3>1 DEF Known, Published, OnFile, InUse
    <3>3. Cardinality(Known') <= Cardinality(Known) /\ Cardinality(Known') \in Nat
      BY <2>0, <3>2, KeySets
    <3>4. Cardinality(Known') <= losses' + Cardinality(OnFile')
      BY <2>0, <3>1, <3>2, <3>3 DEF KeyInv
    <3> QED
      BY <3>1, <3>4 DEF KeyInv
  <2>5. CASE LoseFile
    <3>1. /\ file' = Missing /\ losses' = losses + 1 /\ idp # "creating"
          /\ UNCHANGED <<idp, key, served>>
      BY <2>5 DEF LoseFile
    <3>2. Known' \subseteq Known /\ OnFile' = {}
      BY <1>0, <3>1 DEF Known, Published, OnFile, InUse
    <3>3. Cardinality(Known') <= Cardinality(Known) /\ Cardinality(Known') \in Nat
          /\ Cardinality(OnFile') = 0
      BY <2>0, <3>2, KeySets
    <3>4. Cardinality(OnFile) <= 1
      BY OnFileIs
    <3>5. Cardinality(Known') <= losses' + Cardinality(OnFile')
      BY <2>0, <3>1, <3>3, <3>4 DEF KeyInv
    <3> QED
      BY <3>1, <3>5 DEF KeyInv
  <2>6. ASSUME NEW c \in Calls, JWKSHandler(c) PROVE KeyInv'
    <3>1. /\ idp = "up" /\ served' = [served EXCEPT ![key] = now]
          /\ UNCHANGED <<idp, file, key, losses>>
      BY <2>6 DEF JWKSHandler, idpVars
    <3>2. Published' \subseteq Published \cup {key}
      BY <3>1 DEF Published, TypeOK
    <3>3. Known' \subseteq Known /\ OnFile' = OnFile
      BY <3>1, <3>2 DEF Known, OnFile, InUse
    <3>4. Cardinality(Known') <= Cardinality(Known) /\ Cardinality(Known') \in Nat
      BY <2>0, <3>3, KeySets
    <3>5. Cardinality(Known') <= losses' + Cardinality(OnFile')
      BY <2>0, <3>1, <3>3, <3>4 DEF KeyInv
    <3> QED
      BY <3>1, <3>5 DEF KeyInv
  <2>7. CASE UNCHANGED <<idpVars, served>>
    <3>1. Known' = Known /\ OnFile' = OnFile /\ UNCHANGED <<idp, file, key, losses>>
      BY <2>7 DEF Known, Published, OnFile, InUse, idpVars
    <3> QED
      BY <3>1 DEF KeyInv
  <2>8. Tick => UNCHANGED <<idpVars, served>>
    BY DEF Tick
  <2>9. ASSUME NEW c \in Calls, GetPublicKey(c) \/ Fetch(c) PROVE UNCHANGED <<idpVars, served>>
    BY <2>9 DEF GetPublicKey, Fetch, Lock, FetchSucceeds, FetchFails, ReadAgain
  <2> QED
    BY <2>1, <2>2, <2>3, <2>4, <2>5, <2>6, <2>7, <2>8, <2>9 DEF Next, IdPStep, vars
<1> QED
  BY <1>1, <1>2, TypeCorrect, PTL DEF Spec

(* LoadOrGenerateKeys: the IdP gives out a second key only after the file   *)
(* of the first one was lost, for a crash at any point of its start.        *)
THEOREM KeysSurvive == Spec => []KeySurvivesRestart
<1>1. TypeOK /\ KeyInv => KeySurvivesRestart
  <2> SUFFICES ASSUME TypeOK, KeyInv PROVE Cardinality(Published) <= losses + 1
    BY DEF KeySurvivesRestart, Published
  <2>1. /\ Known \in SUBSET Keys /\ Published \in SUBSET Known /\ losses \in Nat
    BY DEF KeyInv, Known, Published, OnFile, InUse, TypeOK
  <2>2. Cardinality(Published) <= Cardinality(Known) /\ Cardinality(OnFile) <= 1
        /\ Cardinality(Published) \in Nat /\ Cardinality(Known) \in Nat
        /\ Cardinality(OnFile) \in Nat
    BY <2>1, KeySets, OnFileIs
  <2> QED
    BY <2>1, <2>2 DEF KeyInv
<1> QED
  BY <1>1, TypeCorrect, KeyInvariant, PTL

-----------------------------------------------------------------------------
(* The lock.                                                               *)

(* Every way out of FetchKeys releases the lock: whoever waits for it waits *)
(* for a call inside an HTTP request that is not older than its timeout.    *)
THEOREM LockReturns == Spec => []LockComesBack
<1> DEFINE Held == lock # NoCall => pc[lock] \in Fetching
<1>1. Init => Held
  BY DEF Init
<1>2. TypeOK /\ LockOK /\ Held /\ [Next]_vars => Held'
  <2> SUFFICES ASSUME TypeOK, LockOK, Held, [Next]_vars PROVE Held'
    OBVIOUS
  <2> USE JWKSAssumption DEF TypeOK, LockOK, Fetching, callVars, cacheVars, Goto
  <2>1. CASE Tick \/ IdPStep
    BY <2>1 DEF Tick, IdPStep, GenerateKey, WriteKey, LoadKey, Stop, LoseFile
  <2>2. ASSUME NEW c \in Calls, GetPublicKey(c) \/ JWKSHandler(c) PROVE Held'
    BY <2>2 DEF GetPublicKey, JWKSHandler
  <2>3. ASSUME NEW c \in Calls, Fetch(c) PROVE Held'
    BY <2>3 DEF Fetch, Lock, FetchSucceeds, FetchFails, ReadAgain
  <2>4. CASE UNCHANGED vars
    BY <2>4 DEF vars
  <2> QED
    BY <2>1, <2>2, <2>3, <2>4 DEF Next
<1>3. TypeOK /\ CacheInv /\ Held => LockComesBack
  BY JWKSAssumption DEF TypeOK, CacheInv, TimesOK, Fetching, LockComesBack
<1>4. CacheInv => LockOK
  BY DEF CacheInv
<1> QED
  BY <1>1, <1>2, <1>3, <1>4, TypeCorrect, CacheInvariant, PTL DEF Spec
=============================================================================
