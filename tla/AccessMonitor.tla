---------------------------- MODULE AccessMonitor ----------------------------
(***************************************************************************)
(* What stands before the data: a reference monitor.  A request is         *)
(* admitted, one per covered proof and process lifetime, granted at one    *)
(* moment by the policy of that moment, to somebody entitled to ask, and   *)
(* only then carried out, once, and answered.  There are no headers,       *)
(* tokens, keys, network identities or remote calls here; Gateway          *)
(* implements this.                                                        *)
(***************************************************************************)
CONSTANTS
    Requests,
    Unchecked    \* the monitor may grant without the policy (PDP_FAIL_OPEN)

VARIABLES
    asks, proof,   \* what a request asks for, and the proof it comes with
    covered,       \* the proofs with which one may ask once only
    entitled,      \* the requests whose sender may ask for it
    stage,         \* new, admitted, granted, ok, refused or unknown
    spent,         \* proofs used up in this lifetime
    policy,        \* what may be asked for now
    done           \* requests that were carried out

inputs == <<asks, proof, covered, entitled>>
vars == <<inputs, stage, spent, policy, done>>

Init ==
    /\ stage = [r \in Requests |-> "new"]
    /\ spent = {} /\ done = {}

Move(r, from, to) == stage[r] \in from /\ stage' = [stage EXCEPT ![r] = to]

\* The proof is used up, whatever the outcome.
Admit(r) ==
    /\ Move(r, {"new"}, "admitted")
    /\ proof[r] \in covered => proof[r] \notin spent
    /\ spent' = spent \cup {proof[r]}
    /\ UNCHANGED <<inputs, policy, done>>

Grant(r) ==
    /\ Move(r, {"admitted"}, "granted")
    /\ r \in entitled
    /\ asks[r] \in policy \/ Unchecked
    /\ UNCHANGED <<inputs, spent, policy, done>>

\* A refusal at any point before the effect, also after a grant.
Refuse(r) ==
    /\ Move(r, {"new", "admitted", "granted"}, "refused")
    /\ UNCHANGED <<inputs, spent, policy, done>>

Perform(r) ==
    /\ Move(r, {"granted"}, "ok")
    /\ done' = done \cup {r}
    /\ UNCHANGED <<inputs, spent, policy>>

\* An error that leaves open whether it was carried out.
Fail(r) ==
    /\ Move(r, {"granted"}, "unknown")
    /\ done' \in {done, done \cup {r}}
    /\ UNCHANGED <<inputs, spent, policy>>

ChangePolicy ==
    /\ policy' # policy
    /\ UNCHANGED <<inputs, stage, spent, done>>

\* The process ends: requests are lost, some of the granted ones after they
\* were carried out, and the proofs are forgotten.
Restart ==
    /\ spent' = {}
    /\ \E lost \in SUBSET {r \in Requests : stage[r] \in {"new", "admitted", "granted"}} :
          /\ \A r \in Requests : stage[r] \in {"admitted", "granted"} => r \in lost
          /\ stage' = [r \in Requests |-> IF r \in lost THEN "unknown" ELSE stage[r]]
    /\ \E carried \in SUBSET {r \in Requests : stage[r] = "granted"} : done' = done \cup carried
    /\ UNCHANGED <<inputs, policy>>

Next ==
    \/ \E r \in Requests : Admit(r) \/ Grant(r) \/ Refuse(r) \/ Perform(r) \/ Fail(r)
    \/ ChangePolicy
    \/ Restart

Spec == Init /\ [][Next]_vars
=============================================================================
