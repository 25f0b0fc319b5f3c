---------------------------- MODULE AuditedLedger ----------------------------
(***************************************************************************)
(* What the data layer promises its callers: an operation and its audit    *)
(* record happen at once, at one moment between call and answer, or not at *)
(* all, and a tenant sees only what is its own.  There are no connections, *)
(* transactions, settings or triggers here; AuditDB implements this.       *)
(*                                                                         *)
(* An operation is named by its call, and so are its rows.                 *)
(***************************************************************************)
CONSTANTS Calls, Tenants, NoTenant

VARIABLES
    stage,      \* of a call: new, asked, read, done, ok or failed
    kind,       \* transfer, balance or logs
    owner,      \* the tenant it is made for
    tx, log,    \* the transfers, and the operations on record
    view        \* what a reading call was given

vars == <<stage, kind, owner, tx, log, view>>

Kinds == {"transfer", "balance", "logs"}

Init ==
    /\ stage = [c \in Calls |-> "new"]
    /\ kind = [c \in Calls |-> "logs"] /\ owner = [c \in Calls |-> NoTenant]
    /\ tx = {} /\ log = {}
    /\ view = [c \in Calls |-> {}]

Ask(c) ==
    /\ stage[c] = "new"
    /\ stage' = [stage EXCEPT ![c] = "asked"]
    /\ \E k \in Kinds, t \in Tenants :
          kind' = [kind EXCEPT ![c] = k] /\ owner' = [owner EXCEPT ![c] = t]
    /\ UNCHANGED <<tx, log, view>>

\* The owner's rows, as they are at this moment.
Own(c, rows) == {x \in rows : owner[x] = owner[c]}

Read(c) ==
    /\ stage[c] = "asked" /\ kind[c] # "transfer"
    /\ stage' = [stage EXCEPT ![c] = "read"]
    /\ view' = [view EXCEPT ![c] = IF kind[c] = "balance" THEN Own(c, tx) ELSE Own(c, log)]
    /\ UNCHANGED <<kind, owner, tx, log>>

\* Nothing is left to do but the effect itself.
Due(c) == stage[c] = IF kind[c] = "transfer" THEN "asked" ELSE "read"

\* The effect: the transfer, if it is one, and its record, in one step.
\* Reading the log leaves no record.
Record(c) ==
    /\ tx' = IF kind[c] = "transfer" THEN tx \cup {c} ELSE tx
    /\ log' = IF kind[c] # "logs" THEN log \cup {c} ELSE log

Perform(c) ==
    /\ Due(c)
    /\ Record(c)
    /\ stage' = [stage EXCEPT ![c] = "done"]
    /\ UNCHANGED <<kind, owner, view>>

Confirm(c) ==
    /\ stage[c] = "done"
    /\ stage' = [stage EXCEPT ![c] = "ok"]
    /\ UNCHANGED <<kind, owner, tx, log, view>>

Open(c) == stage[c] \in {"asked", "read", "done"}

\* An error says nothing of the effect: it may be there, complete.
Fail(c) ==
    /\ Open(c)
    /\ (Due(c) /\ Record(c)) \/ UNCHANGED <<tx, log>>
    /\ stage' = [stage EXCEPT ![c] = "failed"]
    /\ UNCHANGED <<kind, owner, view>>

\* The process dies, and with it every call that is open.
FailAll ==
    /\ stage' = [c \in Calls |-> IF Open(c) THEN "failed" ELSE stage[c]]
    /\ UNCHANGED <<kind, owner, tx, log, view>>

Next ==
    \/ \E c \in Calls : Ask(c) \/ Read(c) \/ Perform(c) \/ Confirm(c) \/ Fail(c)
    \/ FailAll

Spec == Init /\ [][Next]_vars
=============================================================================
