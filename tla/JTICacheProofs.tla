--------------------------- MODULE JTICacheProofs ---------------------------
(***************************************************************************)
(* Theorems about the replay cache, for any sets of proofs and requests    *)
(* and any values of the timing constants.                                 *)
(***************************************************************************)
EXTENDS JTICache, TLAPS

-----------------------------------------------------------------------------
(* The inductive invariant.                                                *)

\* A proof is made at some time in the past.
MintOK ==
    \A p \in Proofs : mintedAt[p] # NotMinted =>
        mintedAt[p] >= 0 /\ mintedAt[p] <= now

\* What a request knows between VerifyDPoPProof and the end of
\* IsJTIUsedAndSave.
FlightOK ==
    \A r \in Requests : pc[r] \in InFlight =>
        /\ mintedAt[proof[r]] # NotMinted
        /\ mintedAt[proof[r]] <= verifiedAt[r]
        /\ verifiedAt[r] <= now /\ now <= verifiedAt[r] + MaxDelay
        /\ verifiedAt[r] <= iat[proof[r]] + Window
        /\ lifeOf[r] = life
        /\ pc[r] # "verified" => verifiedAt[r] <= localNow[r] /\ localNow[r] <= now

\* An entry expires no earlier than TTL after its proof was made.
EntryOK ==
    \A p \in Proofs : jtis[p] # Absent =>
        mintedAt[p] # NotMinted /\ mintedAt[p] + TTL <= jtis[p]

\* While a proof accepted by this process could still be presented, its
\* entry is in the map, if the proof has the margin.
GuardOK ==
    \A r \in Requests : pc[r] = "accepted" =>
        /\ lifeOf[r] <= life
        /\ mintedAt[proof[r]] # NotMinted
        /\ lifeOf[r] = life /\ InMargin(proof[r]) =>
               \/ jtis[proof[r]] # Absent
               \/ now > mintedAt[proof[r]] + TTL

\* With the margin no request ever finds its entry expired.
NeverExpired == \A r \in Requests : pc[r] = "expired" => ~InMargin(proof[r])

\* The key the sweep is about to delete still has the value it read.
DoomedOK ==
    /\ sweepNow <= now
    /\ \A p \in doomed : /\ mintedAt[p] # NotMinted
                         /\ InMargin(p) => jtis[p] # Absent /\ jtis[p] < sweepNow

IInv ==
    /\ TypeOK /\ MintOK /\ FlightOK /\ EntryOK /\ GuardOK
    /\ NeverExpired /\ DoomedOK /\ AcceptedAtMostOnce

-----------------------------------------------------------------------------
(* Type correctness: IsJTIUsedAndSave, VerifyDPoPProof and the sweep keep   *)
(* every variable within its type.                                          *)
THEOREM TypeCorrect == Spec => []TypeOK
<1> USE ConstantsAssumption
<1>1. Init => TypeOK
  BY DEF Init, TypeOK, Absent, NotMinted
<1>2. TypeOK /\ [Next]_vars => TypeOK'
  <2> SUFFICES ASSUME TypeOK, [Next]_vars PROVE TypeOK'
    OBVIOUS
  <2>1. CASE Tick
    BY <2>1 DEF Tick, TypeOK, requestVars, sweepVars
  <2>2. ASSUME NEW p \in Proofs, GenerateDPoPProof(p) PROVE TypeOK'
    BY <2>2 DEF GenerateDPoPProof, TypeOK, requestVars, sweepVars
  <2>3. ASSUME NEW r \in Requests, RequestStep(r) PROVE TypeOK'
    <3>1. CASE VerifyDPoPProof(r)
      BY <3>1 DEF VerifyDPoPProof, TypeOK, sweepVars
    <3>2. CASE ReadClock(r)
      BY <3>2 DEF ReadClock, TypeOK, sweepVars
    <3>3. CASE LoadOrStore(r)
      BY <3>3 DEF LoadOrStore, TypeOK, sweepVars
    <3>4. CASE StoreExpired(r)
      BY <3>4 DEF StoreExpired, TypeOK, sweepVars
    <3> QED
      BY <2>3, <3>1, <3>2, <3>3, <3>4 DEF RequestStep
  <2>4. CASE SweepStart
    BY <2>4 DEF SweepStart, TypeOK, requestVars
  <2>5. ASSUME NEW p \in Proofs, SweepVisit(p) PROVE TypeOK'
    BY <2>5 DEF SweepVisit, Lapsed, TypeOK, requestVars
  <2>6. CASE SweepDelete
    BY <2>6 DEF SweepDelete, TypeOK, requestVars, Absent
  <2>7. CASE Restart
    BY <2>7 DEF Restart, TypeOK, Absent
  <2>8. CASE UNCHANGED vars
    BY <2>8 DEF vars, TypeOK, requestVars, sweepVars
  <2> QED
    BY <2>1, <2>2, <2>3, <2>4, <2>5, <2>6, <2>7, <2>8 DEF Next, SweepStep
<1> QED
  BY <1>1, <1>2, PTL DEF Spec

-----------------------------------------------------------------------------
(* The invariant is inductive.                                             *)
LEMMA InitIInv == Init => IInv
  BY ConstantsAssumption DEF Init, IInv, TypeOK, MintOK, FlightOK, EntryOK, GuardOK,
     NeverExpired, DoomedOK, AcceptedAtMostOnce, InFlight, Absent, NotMinted

\* The steps of VerifyDPoPProof and IsJTIUsedAndSave keep the invariant.
LEMMA RequestIInv ==
    ASSUME IInv, TypeOK', NEW r \in Requests, RequestStep(r)
    PROVE  IInv'
<1> USE ConstantsAssumption DEF Absent, NotMinted, InMargin
<1>1. CASE VerifyDPoPProof(r)
  <2> USE <1>1 DEF VerifyDPoPProof, IInv, TypeOK, sweepVars
  <2>1. MintOK' /\ EntryOK' /\ NeverExpired' /\ DoomedOK'
    BY DEF MintOK, EntryOK, NeverExpired, DoomedOK
  <2>2. FlightOK'
    BY DEF MintOK, FlightOK, InFlight, Fresh
  <2>3. GuardOK' /\ AcceptedAtMostOnce'
    BY DEF GuardOK, AcceptedAtMostOnce
  <2> QED
    BY <2>1, <2>2, <2>3
<1>2. CASE ReadClock(r)
  <2> USE <1>2 DEF ReadClock, IInv, TypeOK, sweepVars
  <2>1. MintOK' /\ EntryOK' /\ NeverExpired' /\ DoomedOK'
    BY DEF MintOK, EntryOK, NeverExpired, DoomedOK
  <2>2. FlightOK'
    BY DEF MintOK, FlightOK, InFlight
  <2>3. GuardOK' /\ AcceptedAtMostOnce'
    BY DEF GuardOK, AcceptedAtMostOnce
  <2> QED
    BY <2>1, <2>2, <2>3
<1>3. CASE LoadOrStore(r)
  <2> USE <1>3 DEF LoadOrStore, IInv, TypeOK, sweepVars
  <2>1. /\ mintedAt[proof[r]] \in Nat /\ mintedAt[proof[r]] <= localNow[r]
        /\ lifeOf[r] = life
        /\ now <= iat[proof[r]] + Window + MaxDelay
        /\ localNow[r] <= now
    BY DEF MintOK, FlightOK, InFlight
  <2>2. InMargin(proof[r]) => now < mintedAt[proof[r]] + TTL
    BY <2>1
  \* nobody has been let through with this proof by this process
  <2>3. CASE jtis[proof[r]] = Absent
    <3>1. \A q \in Requests :
              (pc[q] = "accepted" /\ proof[q] = proof[r] /\ InMargin(proof[r])) => lifeOf[q] # life
      BY <2>1, <2>2, <2>3 DEF GuardOK
    <3>2. /\ jtis' = [jtis EXCEPT ![proof[r]] = localNow[r] + TTL]
          /\ pc' = [pc EXCEPT ![r] = "accepted"]
      BY <2>3
    <3>3. MintOK' /\ EntryOK' /\ NeverExpired' /\ DoomedOK'
      BY <2>1, <2>3, <3>2 DEF MintOK, EntryOK, NeverExpired, DoomedOK
    <3>4. FlightOK'
      BY <3>2 DEF FlightOK, InFlight
    <3>5. GuardOK'
      BY <2>1, <3>2 DEF GuardOK
    <3>6. AcceptedAtMostOnce'
      BY <2>1, <3>1, <3>2 DEF AcceptedAtMostOnce
    <3> QED
      BY <3>3, <3>4, <3>5, <3>6
  <2>4. CASE jtis[proof[r]] # Absent
    <3>1. InMargin(proof[r]) => localNow[r] < jtis[proof[r]]
      BY <2>1, <2>2, <2>4 DEF EntryOK
    <3>2. jtis' = jtis /\ \E l \in {"replay", "expired"} :
              pc' = [pc EXCEPT ![r] = l] /\ (InMargin(proof[r]) => l = "replay")
      BY <2>4, <3>1
    <3>3. MintOK' /\ EntryOK' /\ NeverExpired' /\ DoomedOK'
      BY <3>2 DEF MintOK, EntryOK, NeverExpired, DoomedOK
    <3>4. FlightOK'
      BY <3>2 DEF FlightOK, InFlight
    <3>5. GuardOK' /\ AcceptedAtMostOnce'
      BY <3>2 DEF GuardOK, AcceptedAtMostOnce
    <3> QED
      BY <3>3, <3>4, <3>5
  <2> QED
    BY <2>3, <2>4
\* only a proof without the margin gets here
<1>4. CASE StoreExpired(r)
  <2> USE <1>4 DEF StoreExpired, IInv, TypeOK, sweepVars
  <2>1. /\ ~InMargin(proof[r])
        /\ mintedAt[proof[r]] \in Nat /\ mintedAt[proof[r]] <= localNow[r]
        /\ lifeOf[r] = life
    BY DEF NeverExpired, MintOK, FlightOK, InFlight
  <2>2. MintOK' /\ EntryOK' /\ NeverExpired' /\ DoomedOK'
    BY <2>1 DEF MintOK, EntryOK, NeverExpired, DoomedOK
  <2>3. FlightOK'
    BY DEF FlightOK, InFlight
  <2>4. GuardOK' /\ AcceptedAtMostOnce'
    BY <2>1 DEF GuardOK, AcceptedAtMostOnce
  <2> QED
    BY <2>2, <2>3, <2>4
<1> QED
  BY <1>1, <1>2, <1>3, <1>4 DEF RequestStep

\* The sweep of the expired entries keeps the invariant.
LEMMA SweepIInv ==
    ASSUME IInv, TypeOK', SweepStep
    PROVE  IInv'
<1> USE ConstantsAssumption DEF Absent, NotMinted, InMargin
<1>1. CASE SweepStart
  BY <1>1 DEF SweepStart, requestVars, IInv, TypeOK, MintOK, FlightOK, EntryOK, GuardOK,
     NeverExpired, DoomedOK, AcceptedAtMostOnce
<1>2. ASSUME NEW p \in Proofs, SweepVisit(p) PROVE IInv'
  BY <1>2 DEF SweepVisit, Lapsed, requestVars, IInv, TypeOK, MintOK, FlightOK, EntryOK, GuardOK,
     NeverExpired, DoomedOK, AcceptedAtMostOnce
<1>3. CASE SweepDelete
  <2> USE <1>3 DEF SweepDelete, IInv, requestVars, TypeOK
  <2>1. MintOK' /\ EntryOK' /\ NeverExpired' /\ DoomedOK' /\ AcceptedAtMostOnce'
    BY DEF MintOK, EntryOK, NeverExpired, DoomedOK, AcceptedAtMostOnce
  <2>2. FlightOK'
    BY DEF FlightOK
  \* what is deleted had expired, so its proof can no longer be presented
  <2>3. GuardOK'
    <3> SUFFICES ASSUME NEW r \in Requests, pc[r] = "accepted", lifeOf[r] = life,
                        InMargin(proof[r]), jtis'[proof[r]] = Absent
                 PROVE  now > mintedAt[proof[r]] + TTL
      BY DEF GuardOK
    <3>1. CASE proof[r] \in doomed
      BY <3>1 DEF DoomedOK, EntryOK
    <3>2. CASE proof[r] \notin doomed
      BY <3>2 DEF GuardOK
    <3> QED
      BY <3>1, <3>2
  <2> QED
    BY <2>1, <2>2, <2>3
<1> QED
  BY <1>1, <1>2, <1>3 DEF SweepStep

\* Every step keeps the invariant.
LEMMA NextIInv ==
    ASSUME IInv, TypeOK', [Next]_vars
    PROVE  IInv'
<1> USE ConstantsAssumption DEF Absent, NotMinted, InMargin
<1>1. CASE Tick
  BY <1>1 DEF Tick, requestVars, sweepVars, IInv, TypeOK, MintOK, FlightOK, EntryOK,
     GuardOK, NeverExpired, DoomedOK, AcceptedAtMostOnce
<1>2. ASSUME NEW p \in Proofs, GenerateDPoPProof(p) PROVE IInv'
  <2> USE <1>2 DEF GenerateDPoPProof, requestVars, sweepVars, IInv, TypeOK
  \* nobody carries the new proof yet, so that its margin concerns nobody
  <2>1. \A x \in Proofs : mintedAt[x] # NotMinted =>
            mintedAt'[x] = mintedAt[x] /\ iat'[x] = iat[x]
    OBVIOUS
  <2>2. \A r \in Requests : pc[r] \in {"expired", "accepted"} =>
            mintedAt[proof[r]] # NotMinted /\ InMargin(proof[r])' = InMargin(proof[r])
    BY <2>1 DEF FlightOK, GuardOK, InFlight
  <2>3. MintOK' /\ EntryOK'
    BY DEF MintOK, EntryOK
  <2>4. NeverExpired' /\ AcceptedAtMostOnce'
    BY <2>2 DEF NeverExpired, AcceptedAtMostOnce
  <2>5. DoomedOK'
    BY <2>1 DEF DoomedOK
  <2>6. FlightOK' /\ GuardOK'
    BY DEF FlightOK, GuardOK
  <2> QED
    BY <2>3, <2>4, <2>5, <2>6
<1>3. ASSUME NEW r \in Requests, RequestStep(r) PROVE IInv'
  BY <1>3, RequestIInv
<1>4. CASE SweepStep
  BY <1>4, SweepIInv
<1>5. CASE Restart
  BY <1>5 DEF Restart, IInv, TypeOK, MintOK, FlightOK, EntryOK, GuardOK,
     NeverExpired, DoomedOK, AcceptedAtMostOnce, InFlight
<1>6. CASE UNCHANGED vars
  BY <1>6 DEF vars, requestVars, sweepVars, IInv, TypeOK, MintOK, FlightOK, EntryOK,
     GuardOK, NeverExpired, DoomedOK, AcceptedAtMostOnce
<1> QED
  BY <1>1, <1>2, <1>3, <1>4, <1>5, <1>6 DEF Next

\* The invariant always holds.
LEMMA IInvInvariant == Spec => []IInv
<1>1. IInv /\ TypeOK' /\ [Next]_vars => IInv'
  BY NextIInv
<1> QED
  BY <1>1, InitIInv, TypeCorrect, PTL DEF Spec

-----------------------------------------------------------------------------
(* Single acceptance: IsJTIUsedAndSave lets a proof with the margin through *)
(* at most once per process lifetime, for any number of concurrent requests *)
(* and any interleaving with the sweep and with restarts.                   *)
THEOREM SingleAcceptance == Spec => []AcceptedAtMostOnce
<1>1. IInv => AcceptedAtMostOnce
  BY DEF IInv
<1> QED
  BY <1>1, IInvInvariant, PTL

(* Given the margin, no entry of the map is dropped or moved before it has  *)
(* expired, although startCleanupTicker deletes without looking again and   *)
(* IsJTIUsedAndSave stores without looking again.                           *)
THEOREM EntriesKept == Spec => EntryKeptUntilExpiry
<1> DEFINE Kept == \A p \in Proofs :
                      (jtis[p] # Absent /\ jtis'[p] # jtis[p] /\ life' = life /\ InMargin(p))
                          => jtis'[p] = Absent /\ now > jtis[p]
<1>1. IInv /\ [Next]_vars => [Kept]_vars
  <2> SUFFICES ASSUME IInv, Next, NEW p \in Proofs,
                      jtis[p] # Absent, jtis'[p] # jtis[p], life' = life, InMargin(p)
               PROVE  jtis'[p] = Absent /\ now > jtis[p]
    OBVIOUS
  <2> USE DEF IInv, TypeOK
  <2>1. ASSUME NEW r \in Requests, RequestStep(r) PROVE FALSE
    BY <2>1 DEF RequestStep, VerifyDPoPProof, ReadClock, LoadOrStore, StoreExpired, NeverExpired
  <2>2. CASE SweepDelete
    BY <2>2 DEF SweepDelete, DoomedOK
  <2>3. CASE Restart
    BY <2>3 DEF Restart
  <2> QED
    BY <2>1, <2>2, <2>3 DEF Next, SweepStep, Tick, GenerateDPoPProof, SweepStart, SweepVisit
<1> QED
  BY <1>1, IInvInvariant, PTL DEF Spec, EntryKeptUntilExpiry

(* startCleanupTicker removes every entry that had expired when its pass    *)
(* began, if a request takes no longer than a TTL from its iat test to the  *)
(* map (otherwise it may store an entry that is expired already).           *)
THEOREM SweepsThorough == Spec => []SweepThorough
<1>1. Init => SweepThorough
  BY DEF Init, SweepThorough
<1>2. SweepThorough /\ IInv /\ [Next]_vars => SweepThorough'
  <2> SUFFICES ASSUME SweepThorough, IInv, [Next]_vars, MaxDelay <= TTL,
                      NEW p \in Proofs, p \notin sweep' \cup doomed', jtis'[p] # Absent
               PROVE  jtis'[p] >= sweepNow'
    BY DEF SweepThorough
  <2> USE ConstantsAssumption DEF SweepThorough, IInv, TypeOK, requestVars, sweepVars
  <2>1. ASSUME NEW r \in Requests, RequestStep(r) PROVE jtis'[p] >= sweepNow'
    <3>1. UNCHANGED <<sweep, sweepNow, doomed>>
      BY <2>1 DEF RequestStep, VerifyDPoPProof, ReadClock, LoadOrStore, StoreExpired
    <3>2. CASE jtis' = jtis
      BY <3>1, <3>2
    \* a new entry: its time was read after the iat test
    <3>3. CASE jtis' # jtis
      <4>1. /\ pc[r] \in {"clocked", "expired"}
            /\ jtis' = [jtis EXCEPT ![proof[r]] = localNow[r] + TTL]
        BY <2>1, <3>3 DEF RequestStep, VerifyDPoPProof, ReadClock, LoadOrStore, StoreExpired
      <4>2. now <= localNow[r] + MaxDelay /\ sweepNow <= now
        BY <4>1 DEF FlightOK, InFlight, DoomedOK
      <4> QED
        BY <3>1, <4>1, <4>2
    <3> QED
      BY <3>2, <3>3
  <2>2. CASE SweepStart
    BY <2>2 DEF SweepStart
  <2>3. ASSUME NEW q \in Proofs, SweepVisit(q) PROVE jtis'[p] >= sweepNow'
    BY <2>3 DEF SweepVisit, Lapsed
  <2>4. CASE SweepDelete
    BY <2>4 DEF SweepDelete
  <2>5. CASE Restart
    BY <2>5 DEF Restart
  <2>6. CASE Tick \/ (\E q \in Proofs : GenerateDPoPProof(q)) \/ UNCHANGED vars
    BY <2>6 DEF Tick, GenerateDPoPProof, vars
  <2> QED
    BY <2>1, <2>2, <2>3, <2>4, <2>5, <2>6 DEF Next, SweepStep
<1> QED
  BY <1>1, <1>2, IInvInvariant, PTL DEF Spec

-----------------------------------------------------------------------------
(* The second promise needs no margin.  Its invariant: a request belongs    *)
(* to the running process until it is answered, and every entry was put     *)
(* there by a request this process let through.                             *)
Accepter(p) ==
    \E q \in Requests : pc[q] = "accepted" /\ proof[q] = p /\ lifeOf[q] = life

EntriesExplained ==
    /\ TypeOK
    /\ \A r \in Requests : pc[r] \in InFlight => lifeOf[r] = life
    /\ \A p \in Proofs : jtis[p] # Absent => Accepter(p)
    /\ ReplayMeansAccepted

\* Entries of the map have a cause in this lifetime of the process.
LEMMA EntriesExplainedInvariant == Spec => []EntriesExplained
<1>1. Init => EntriesExplained
  <2> SUFFICES ASSUME Init PROVE EntriesExplained
    OBVIOUS
  <2>1. TypeOK
    BY ConstantsAssumption DEF Init, TypeOK, Absent, NotMinted
  <2> QED
    BY <2>1 DEF Init, EntriesExplained, ReplayMeansAccepted, InFlight
<1>2. EntriesExplained /\ TypeOK' /\ [Next]_vars => EntriesExplained'
  <2> SUFFICES ASSUME EntriesExplained, TypeOK', [Next]_vars PROVE EntriesExplained'
    OBVIOUS
  <2> USE DEF EntriesExplained, Accepter, ReplayMeansAccepted, TypeOK
  <2>1. ASSUME NEW r \in Requests, VerifyDPoPProof(r) PROVE EntriesExplained'
    <3>1. \A q \in Requests : pc[q] \in {"accepted", "replay"} =>
              pc'[q] = pc[q] /\ proof'[q] = proof[q] /\ lifeOf'[q] = lifeOf[q]
      BY <2>1 DEF VerifyDPoPProof
    <3>2. pc'[r] # "replay" /\ \A q \in Requests \ {r} : pc'[q] = pc[q]
      BY <2>1 DEF VerifyDPoPProof
    <3>3. ReplayMeansAccepted'
      BY <3>1, <3>2, <2>1 DEF VerifyDPoPProof
    <3>4. \A p \in Proofs : jtis'[p] # Absent => Accepter(p)'
      BY <3>1, <2>1 DEF VerifyDPoPProof
    <3> QED
      BY <3>3, <3>4, <2>1 DEF VerifyDPoPProof, InFlight
  <2>2. ASSUME NEW r \in Requests, ReadClock(r) PROVE EntriesExplained'
    BY <2>2 DEF ReadClock, InFlight, sweepVars
  <2>3. ASSUME NEW r \in Requests, LoadOrStore(r) PROVE EntriesExplained'
    <3>1. lifeOf[r] = life
      BY <2>3 DEF LoadOrStore, InFlight
    <3>2. \A q \in Requests : pc[q] \in {"accepted", "replay"} => pc'[q] = pc[q]
      BY <2>3 DEF LoadOrStore
    <3>3. \A p \in Proofs : jtis'[p] # Absent => Accepter(p)'
      BY <2>3, <3>1, <3>2 DEF LoadOrStore
    <3>4. pc'[r] = "replay" => Accepter(proof[r])
      BY <2>3 DEF LoadOrStore
    <3>5. ReplayMeansAccepted'
      BY <2>3, <3>1, <3>2, <3>4 DEF LoadOrStore
    <3> QED
      BY <2>3, <3>3, <3>5 DEF LoadOrStore, InFlight
  <2>4. ASSUME NEW r \in Requests, StoreExpired(r) PROVE EntriesExplained'
    <3>1. lifeOf[r] = life
      BY <2>4 DEF StoreExpired, InFlight
    <3>2. \A q \in Requests : pc[q] \in {"accepted", "replay"} => pc'[q] = pc[q]
      BY <2>4 DEF StoreExpired
    <3> QED
      BY <2>4, <3>1, <3>2 DEF StoreExpired, InFlight
  <2>5. CASE SweepStep
    BY <2>5 DEF SweepStep, SweepStart, SweepVisit, SweepDelete, requestVars
  <2>6. CASE Restart
    BY <2>6 DEF Restart, InFlight
  <2>7. CASE Tick \/ (\E p \in Proofs : GenerateDPoPProof(p)) \/ UNCHANGED vars
    BY <2>7 DEF Tick, GenerateDPoPProof, vars, requestVars, sweepVars
  <2> QED
    BY <2>1, <2>2, <2>3, <2>4, <2>5, <2>6, <2>7 DEF Next, RequestStep
<1> QED
  BY <1>1, <1>2, TypeCorrect, PTL DEF Spec

(* No false alarm: whatever the clocks do, IsJTIUsedAndSave reports a       *)
(* proof as used only if another request carrying it was let through.       *)
THEOREM NoFalseReplay == Spec => []ReplayMeansAccepted
<1>1. EntriesExplained => ReplayMeansAccepted
  BY DEF EntriesExplained
<1> QED
  BY <1>1, EntriesExplainedInvariant, PTL

-----------------------------------------------------------------------------
(* The cache implements the guard.  LoadOrStore and StoreExpired are the    *)
(* moments at which a request gets its answer; all other steps of the       *)
(* request, and the whole sweep, are stutters.                              *)

Covered == {p \in Proofs : mintedAt[p] # NotMinted /\ InMargin(p)}

\* A step of one request to place l changes its answer and no other.
LEMMA AnswerMoves ==
    ASSUME TypeOK, NEW r \in Requests, NEW l, pc' = [pc EXCEPT ![r] = l],
           pc[r] \in {"idle"} \cup InFlight
    PROVE  /\ Answer[r] = "waiting"
           /\ l \in InFlight => Answer' = Answer
           /\ l = "accepted" => Answer' = [Answer EXCEPT ![r] = "new"]
           /\ l = "replay" => Answer' = [Answer EXCEPT ![r] = "used"]
           /\ l = "stale" => Answer' = [Answer EXCEPT ![r] = "refused"]
  BY DEF TypeOK, Answer, InFlight

\* The spent proofs are those of the requests let through in this lifetime.
LEMMA SpentIs ==
    \A p : p \in Spent <=> \E q \in Requests : /\ pc[q] = "accepted" /\ lifeOf[q] = life
                                               /\ proof[q] = p
  BY DEF Spent

\* VerifyDPoPProof, IsJTIUsedAndSave: each step is a step of the guard.
LEMMA GuardRequest ==
    ASSUME IInv, EntriesExplained, NEW r \in Requests, RequestStep(r)
    PROVE  Guard!Next \/ UNCHANGED Guard!vars
<1> USE DEF TypeOK
<1>0. TypeOK
  BY DEF IInv
<1>1. CASE VerifyDPoPProof(r)
  <2> USE <1>1 DEF VerifyDPoPProof
  <2>1. pc[r] = "idle" /\ UNCHANGED <<proof, mintedAt, iat>>
    OBVIOUS
  <2>2. Covered' = Covered
    BY <2>1 DEF Covered, InMargin
  <2>3. Spent' = Spent
    BY <1>0 DEF Spent
  <2>4. CASE Fresh(iat[proof[r]], now)
    <3>1. Answer' = Answer
      BY <1>0, <2>1, <2>4, AnswerMoves DEF InFlight
    <3> QED
      BY <2>1, <2>2, <2>3, <3>1 DEF Guard!vars, Covered
  <2>5. CASE ~Fresh(iat[proof[r]], now)
    <3>1. Answer[r] = "waiting" /\ Answer' = [Answer EXCEPT ![r] = "refused"]
      BY <1>0, <2>1, <2>5, AnswerMoves
    <3> QED
      BY <2>1, <2>2, <2>3, <3>1 DEF Guard!Next, Guard!Refuse, Guard!Give, Covered
  <2> QED
    BY <2>4, <2>5
<1>2. CASE ReadClock(r)
  <2> USE <1>2 DEF ReadClock
  <2>1. UNCHANGED <<proof, mintedAt, iat>> /\ Answer' = Answer
    BY <1>0, AnswerMoves DEF InFlight
  <2>2. Covered' = Covered /\ Spent' = Spent
    BY <1>0 DEF Covered, InMargin, Spent
  <2> QED
    BY <2>1, <2>2 DEF Guard!vars, Covered
<1>3. CASE LoadOrStore(r)
  <2>1. /\ pc[r] = "clocked" /\ lifeOf[r] = life
        /\ UNCHANGED <<proof, mintedAt, iat, life, lifeOf>>
    BY <1>3 DEF LoadOrStore, IInv, FlightOK, InFlight
  <2>2. Covered' = Covered
    BY <2>1 DEF Covered, InMargin
  \* not in the map: whoever was let through before has a spent margin
  <2>3. CASE jtis[proof[r]] = Absent
    <3>1. pc' = [pc EXCEPT ![r] = "accepted"]
      BY <1>3, <2>3 DEF LoadOrStore
    <3>2. Answer[r] = "waiting" /\ Answer' = [Answer EXCEPT ![r] = "new"]
      BY <1>0, <2>1, <3>1, AnswerMoves DEF InFlight
    <3>3. Spent' = Spent \cup {proof[r]}
      BY <1>0, <2>1, <3>1 DEF Spent
    <3>4. InMargin(proof[r]) => now < mintedAt[proof[r]] + TTL
      <4>1. /\ mintedAt[proof[r]] \in Int /\ iat[proof[r]] \in Int /\ verifiedAt[r] \in Nat
            /\ now \in Nat
            /\ now <= verifiedAt[r] + MaxDelay /\ verifiedAt[r] <= iat[proof[r]] + Window
        BY <1>0, <2>1 DEF IInv, FlightOK, InFlight
      <4> QED
        BY <4>1, ConstantsAssumption DEF InMargin
    <3>5. InMargin(proof[r]) => proof[r] \notin Spent
      <4>1. proof[r] \in Spent /\ InMargin(proof[r]) => now > mintedAt[proof[r]] + TTL
        BY <2>3, SpentIs DEF IInv, GuardOK
      <4>2. now \in Int /\ mintedAt[proof[r]] + TTL \in Int
        BY <1>0, ConstantsAssumption
      <4> QED
        BY <3>4, <4>1, <4>2
    <3>6. proof[r] \in Covered => proof[r] \notin Spent
      BY <3>5 DEF Covered
    <3>7. Guard!Accept(r)
      BY <2>1, <2>2, <3>2, <3>3, <3>6 DEF Guard!Accept, Guard!Give, Covered
    <3> QED
      BY <3>7 DEF Guard!Next
  <2>4. CASE jtis[proof[r]] # Absent
    <3>1. PICK l \in {"replay", "expired"} : pc' = [pc EXCEPT ![r] = l]
      BY <1>3, <2>4 DEF LoadOrStore
    <3>2. Spent' = Spent
      BY <1>0, <2>1, <3>1 DEF Spent
    <3>3. CASE l = "replay"
      <4>1. Answer[r] = "waiting" /\ Answer' = [Answer EXCEPT ![r] = "used"]
        BY <1>0, <2>1, <3>1, <3>3, AnswerMoves DEF InFlight
      <4>2. proof[r] \in Spent
        BY <1>0, <2>4, SpentIs DEF EntriesExplained, Accepter
      <4>3. Guard!Reject(r)
        BY <2>1, <2>2, <3>2, <4>1, <4>2 DEF Guard!Reject, Guard!Give, Covered
      <4> QED
        BY <4>3 DEF Guard!Next
    <3>4. CASE l = "expired"
      <4>1. Answer' = Answer
        BY <1>0, <2>1, <3>1, <3>4, AnswerMoves DEF InFlight
      <4> QED
        BY <2>1, <2>2, <3>2, <4>1 DEF Guard!vars, Covered
    <3> QED
      BY <3>3, <3>4
  <2> QED
    BY <2>3, <2>4
\* renewal of an expired entry: its proof is not covered
<1>4. CASE StoreExpired(r)
  <2>1. /\ pc[r] = "expired" /\ lifeOf[r] = life
        /\ UNCHANGED <<proof, mintedAt, iat, life, lifeOf>>
        /\ pc' = [pc EXCEPT ![r] = "accepted"]
    BY <1>4 DEF StoreExpired, IInv, FlightOK, InFlight
  <2>2. Covered' = Covered /\ proof[r] \notin Covered
    BY <2>1 DEF Covered, InMargin, IInv, NeverExpired
  <2>3. Answer[r] = "waiting" /\ Answer' = [Answer EXCEPT ![r] = "new"]
    BY <1>0, <2>1, AnswerMoves DEF InFlight
  <2>4. Spent' = Spent \cup {proof[r]}
    BY <1>0, <2>1 DEF Spent
  <2>5. Guard!Accept(r)
    BY <2>1, <2>2, <2>3, <2>4 DEF Guard!Accept, Guard!Give, Covered
  <2> QED
    BY <2>5 DEF Guard!Next
<1> QED
  BY <1>1, <1>2, <1>3, <1>4 DEF RequestStep

\* A new proof, a restart, and everything the guard does not see.
LEMMA GuardOther ==
    ASSUME IInv, Tick \/ SweepStep \/ Restart \/ \E p \in Proofs : GenerateDPoPProof(p)
    PROVE  Guard!Next \/ UNCHANGED Guard!vars
<1>0. TypeOK
  BY DEF IInv
<1>1. CASE Tick \/ SweepStep
  <2>1. UNCHANGED <<requestVars, mintedAt, iat, life>>
    BY <1>1 DEF Tick, SweepStep, SweepStart, SweepVisit, SweepDelete
  <2>2. Answer' = Answer /\ Spent' = Spent /\ Covered' = Covered /\ proof' = proof
    BY <2>1 DEF requestVars, Answer, Spent, Covered, InMargin
  <2> QED
    BY <2>2 DEF Guard!vars, Covered
<1>2. CASE Restart
  <2> DEFINE lost == {r \in Requests : pc[r] \in InFlight}
  <2>1. /\ pc' = [r \in Requests |-> IF pc[r] \in InFlight THEN "dropped" ELSE pc[r]]
        /\ life' = life + 1 /\ UNCHANGED <<proof, mintedAt, iat, lifeOf>>
    BY <1>2 DEF Restart
  <2>2. lost \in SUBSET {r \in Requests : Answer[r] = "waiting"}
    BY <1>0 DEF Answer, InFlight, TypeOK
  <2>3. Answer' = [r \in Requests |-> IF r \in lost THEN "dropped" ELSE Answer[r]]
    BY <1>0, <2>1 DEF Answer, InFlight, TypeOK
  <2>4. Spent' = {}
    <3>1. \A q \in Requests : pc'[q] = "accepted" => lifeOf'[q] # life'
      BY <1>0, <2>1 DEF IInv, GuardOK, TypeOK
    <3> QED
      BY <3>1 DEF Spent
  <2>5. Covered' = Covered
    BY <2>1 DEF Covered, InMargin
  <2>6. Guard!Restart
    BY <2>1, <2>2, <2>3, <2>4, <2>5 DEF Guard!Restart, Covered
  <2> QED
    BY <2>6 DEF Guard!Next
<1>3. ASSUME NEW p \in Proofs, GenerateDPoPProof(p)
      PROVE  Guard!Next \/ UNCHANGED Guard!vars
  <2>1. /\ mintedAt[p] = NotMinted /\ UNCHANGED <<requestVars, life>>
        /\ \A x \in Proofs \ {p} : mintedAt'[x] = mintedAt[x] /\ iat'[x] = iat[x]
    BY <1>0, <1>3 DEF GenerateDPoPProof, TypeOK
  <2>2. Answer' = Answer /\ Spent' = Spent /\ proof' = proof
    BY <2>1 DEF requestVars, Answer, Spent
  <2>3. p \notin Spent
    BY <2>1, SpentIs DEF IInv, GuardOK
  <2>4. Covered' = Covered \/ Covered' = Covered \cup {p}
    BY <2>1 DEF Covered, InMargin
  <2>5. CASE Covered' = Covered
    BY <2>2, <2>5 DEF Guard!vars, Covered
  <2>6. CASE Covered' = Covered \cup {p}
    BY <2>2, <2>3, <2>6 DEF Guard!Next, Guard!Cover, Covered
  <2> QED
    BY <2>4, <2>5, <2>6
<1> QED
  BY <1>1, <1>2, <1>3

(* IsJTIUsedAndSave behind VerifyDPoPProof is an atomic test-and-set: the   *)
(* sync.Map with its expiring entries, renewals and sweep implements the    *)
(* set of spent proofs that the IdP and the gateway take it for.            *)
THEOREM Refinement == Spec => ImplementsGuard
<1>1. Init => Guard!Init
  <2> SUFFICES ASSUME Init PROVE Guard!Init
    OBVIOUS
  <2>1. Answer = [r \in Requests |-> "waiting"] /\ Spent = {} /\ Covered = {}
    BY DEF Init, Answer, Spent, Covered
  <2> QED
    BY <2>1 DEF Init, Guard!Init, Covered
<1>2. IInv /\ EntriesExplained /\ [Next]_vars => [Guard!Next]_Guard!vars
  <2> SUFFICES ASSUME IInv, EntriesExplained, [Next]_vars
               PROVE  Guard!Next \/ UNCHANGED Guard!vars
    OBVIOUS
  <2>1. CASE UNCHANGED vars
    BY <2>1 DEF vars, requestVars, Guard!vars, Answer, Spent, InMargin
  <2> QED
    BY <2>1, GuardRequest, GuardOther DEF Next
<1> QED
  BY <1>1, <1>2, IInvInvariant, EntriesExplainedInvariant, PTL DEF Spec, ImplementsGuard, Guard!Spec
=============================================================================
