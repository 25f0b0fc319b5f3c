--------------------------- MODULE MCSOCDashboard ---------------------------
(* The dashboard page on a small instance.  The bounds are a choice of     *)
(* scenarios, so that events which have nothing to do with one another are *)
(* not combined.                                                           *)
EXTENDS SOCDashboard

\* The bounds of a scenario: 0 of every kind that is not named.
Scenario(b) == [k \in Kinds |-> IF k \in DOMAIN b THEN b[k] ELSE 0]

PollScenarios ==
    { \* polls overlap while what they read changes
      Scenario([gateway |-> 2, overlaps |-> 1]),
      Scenario([critical |-> 1, overlaps |-> 1]),
      Scenario([certs |-> 2, overlaps |-> 1]),
      \* more rows than /api/logs returns
      Scenario([critical |-> 1, ledger |-> 1]),
      \* a poll fails
      Scenario([gateway |-> 2, faults |-> 1]) }

ClickScenarios ==
    { \* records are committed while the ledger is checked
      Scenario([ledger |-> 2, checks |-> 1, tabs |-> 1]),
      \* a second check after one that may have failed, the tab left and
      \* entered again meanwhile
      Scenario([checks |-> 2, faults |-> 1, tabs |-> 3]),
      \* the alarm of a simulation and one with a reason
      Scenario([critical |-> 1, simulations |-> 1, tabs |-> 1]),
      \* two simulations: two timers
      Scenario([simulations |-> 2, faults |-> 1, tabs |-> 1]),
      \* two benchmarks, the gateway going down in between
      Scenario([gateway |-> 1, faults |-> 1, benchmarks |-> 2, tabs |-> 1]),
      \* the countdown while its tab is left and entered again
      Scenario([benchmarks |-> 2, tabs |-> 3]) }

MCBounds == PollScenarios \cup ClickScenarios

\* Two tenants' records and a check in which nothing fails.
MCCheckBounds == {Scenario([ledger |-> 2, checks |-> 1, tabs |-> 1])}
=============================================================================
