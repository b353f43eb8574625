------------------------------ MODULE MCOutbox ------------------------------
(* Model values and symmetry for the runs of Outbox. Columns stand for:    *)
(* insights_id a reporter field, groups the workspace, display_name any    *)
(* column Kessel is not told of.                                           *)
EXTENDS Outbox, TLC

CONSTANTS h1, h2, s1, s2, v1, v2

OneSession  == {s1}
TwoSessions == {s1, s2}
OneHost     == {h1}
TwoHosts    == {h1, h2}
Columns     == {"insights_id", "groups", "display_name"}
Reported    == {"insights_id", "groups"}
Values      == {v1, v2}

Symmetric == Permutations(Host) \union Permutations(Session) \union Permutations(Val)
=============================================================================
