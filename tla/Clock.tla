------------------------------- MODULE Clock -------------------------------
(* The clock that an app's instances share, and a bound on it.             *)
EXTENDS Integers

CONSTANT MaxTime      \* where the clock stops

ASSUME ClockAssumption == MaxTime \in Nat

VARIABLE clock

Tick ==
    /\ clock < MaxTime
    /\ clock' = clock + 1
=============================================================================
