------------------------- MODULE MCStaleNotifications -------------------------
(* Hosts and a configuration for the run of StaleNotifications. *)
EXTENDS StaleNotifications, TLC

CONSTANTS h1, h2

TwoHosts == {h1, h2}

(* In half seconds: stale after one second, then after one and a half. *)
HalfSeconds == [stale |-> 2, warning |-> 3, delete |-> 6]

Symmetric == Permutations(TwoHosts)
=============================================================================
