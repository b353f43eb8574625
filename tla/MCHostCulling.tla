--------------------------- MODULE MCHostCulling ---------------------------
(* Actors and configurations for the run of HostCulling. *)
EXTENDS HostCulling, TLC

CONSTANTS c1, j1, w1, w2, h1

OneConsumer == {c1}
OneJob      == {j1}
TwoWriters  == {w1, w2}
OneHost     == {h1}

(* In seconds: the defaults, and bodies that lengthen the warning, bring   *)
(* the deletion forward, or lead back.                                     *)
Defaults   == [stale |-> 1, warning |-> 2, delete |-> 3]
SomeBodies == {[stale |-> 2], [warning |-> 2, delete |-> 4], [delete |-> 3]}

Symmetric == Permutations(TwoWriters)
=============================================================================
