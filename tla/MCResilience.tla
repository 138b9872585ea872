--------------------------- MODULE MCResilience ---------------------------
(* Three callers on two slots: one can wait for a slot, and come out of    *)
(* the wait, while the circuit trips, cools down and is probed.            *)
EXTENDS Resilience

CONSTANTS c1, c2, c3

ThreeCallers == {c1, c2, c3}
TwoCallers == {c1, c2}
=============================================================================
