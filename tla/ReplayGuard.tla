----------------------------- MODULE ReplayGuard -----------------------------
(***************************************************************************)
(* What SecureAPI and TokenHandler rely on when they call IsJTIUsedAndSave *)
(* behind VerifyDPoPProof: one test-and-set on a set of spent proofs.      *)
(* There is no clock, no expiry and no sweep here; JTICache implements     *)
(* this, and IdP and Gateway use the cache in this form.                   *)
(*                                                                         *)
(* The guard binds for covered proofs.  One that is not covered may be let *)
(* through again, but it too is called used only after it was let through. *)
(***************************************************************************)
CONSTANTS Requests, Proofs

VARIABLES
    proof,      \* the proof a request presents
    answer,     \* waiting, new, used, refused or dropped
    spent,      \* proofs this process has let through
    covered     \* proofs for which the guard binds

vars == <<proof, answer, spent, covered>>

Init ==
    /\ proof \in [Requests -> Proofs]
    /\ answer = [r \in Requests |-> "waiting"]
    /\ spent = {} /\ covered = {}

Give(r, a) == answer[r] = "waiting" /\ answer' = [answer EXCEPT ![r] = a]

\* A proof is made, and it is settled whether the guard binds for it.
Cover(p) ==
    /\ p \notin spent
    /\ covered' = covered \cup {p}
    /\ UNCHANGED <<proof, answer, spent>>

\* Not used: test and set in one step.
Accept(r) ==
    /\ proof[r] \in covered => proof[r] \notin spent
    /\ Give(r, "new")
    /\ spent' = spent \cup {proof[r]}
    /\ UNCHANGED <<proof, covered>>

\* Used.
Reject(r) ==
    /\ proof[r] \in spent
    /\ Give(r, "used")
    /\ UNCHANGED <<proof, spent, covered>>

\* Turned away before the guard is asked.
Refuse(r) ==
    /\ Give(r, "refused")
    /\ UNCHANGED <<proof, spent, covered>>

\* The process ends: it forgets the proofs and drops requests it was serving.
Restart ==
    /\ spent' = {}
    /\ \E lost \in SUBSET {r \in Requests : answer[r] = "waiting"} :
          answer' = [r \in Requests |-> IF r \in lost THEN "dropped" ELSE answer[r]]
    /\ UNCHANGED <<proof, covered>>

Next ==
    \/ \E p \in Proofs : Cover(p)
    \/ \E r \in Requests : Accept(r) \/ Reject(r) \/ Refuse(r)
    \/ Restart

Spec == Init /\ [][Next]_vars
=============================================================================
