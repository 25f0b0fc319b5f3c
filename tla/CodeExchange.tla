---------------------------- MODULE CodeExchange ----------------------------
(***************************************************************************)
(* What /authorize and /token promise together: an exchange of codes for   *)
(* tokens.  A code is open from the moment it is made until it is closed,  *)
(* once and for good.  A request that comes while its code is open is in;  *)
(* those that are in may get a token when the code is closed, if they are  *)
(* entitled to it, one of them per covered proof.  Whoever comes later     *)
(* gets nothing.  There is no clock, no store, no PKCE, no secret and no   *)
(* sweep here; IdP implements this.                                        *)
(***************************************************************************)
CONSTANTS Codes, Requests,
    Covered      \* proofs with which one gets on once only

VARIABLES
    code, proof,   \* the code and the proof a request comes with
    entitled,      \* the requests that can show that their code is theirs
    made, open,    \* codes made so far, and those that can still be used
    stage,         \* new, in, granted, token or nothing
    spent          \* proofs used up in this lifetime

inputs == <<code, proof, entitled>>
vars == <<inputs, made, open, stage, spent>>

Init ==
    /\ made = {} /\ open = {} /\ spent = {}
    /\ stage = [r \in Requests |-> "new"]

Move(r, from, to) == stage[r] \in from /\ stage' = [stage EXCEPT ![r] = to]

Make(c) ==
    /\ c \notin made
    /\ made' = made \cup {c} /\ open' = open \cup {c}
    /\ UNCHANGED <<inputs, stage, spent>>

\* A request takes the code, or it is too old.
Close(c) ==
    /\ c \in open
    /\ open' = open \ {c}
    /\ UNCHANGED <<inputs, made, stage, spent>>

Enter(r) ==
    /\ code[r] \in open
    /\ Move(r, {"new"}, "in")
    /\ UNCHANGED <<inputs, made, open, spent>>

\* The one step that decides: nobody else can enter with this code any more.
Grant(r) ==
    /\ code[r] \in made \ open
    /\ r \in entitled
    /\ proof[r] \in Covered => proof[r] \notin spent
    /\ Move(r, {"in"}, "granted")
    /\ spent' = spent \cup {proof[r]}
    /\ UNCHANGED <<inputs, made, open>>

Answer(r) ==
    /\ Move(r, {"granted"}, "token")
    /\ UNCHANGED <<inputs, made, open, spent>>

Refuse(r) ==
    /\ Move(r, {"new", "in"}, "nothing")
    /\ UNCHANGED <<inputs, made, open, spent>>

\* The process ends: all codes are closed, nobody is in any more, and the
\* proofs are forgotten.
Restart ==
    /\ open' = {} /\ spent' = {}
    /\ \E lost \in SUBSET {r \in Requests : stage[r] \in {"new", "in", "granted"}} :
          /\ \A r \in Requests : stage[r] \in {"in", "granted"} => r \in lost
          /\ stage' = [r \in Requests |-> IF r \in lost THEN "nothing" ELSE stage[r]]
    /\ UNCHANGED <<inputs, made>>

Next ==
    \/ \E c \in Codes : Make(c) \/ Close(c)
    \/ \E r \in Requests : Enter(r) \/ Grant(r) \/ Answer(r) \/ Refuse(r)
    \/ Restart

Spec == Init /\ [][Next]_vars
=============================================================================
