------------------------------ MODULE MCGroups ------------------------------
(* Requests, hosts and groups for the runs of Groups. *)
EXTENDS Groups, TLC

CONSTANTS q1, q2, h1, h2, ga, gb, gu

TwoProcs == {q1, q2}
TwoHosts == {h1, h2}
TwoGroups == {ga, gb, gu}

AllKinds == {"add", "remove", "patch", "rename", "update", "delete"}
Emptying == {{"remove"}, {"delete"}, {"rename"}, {"remove", "delete"}, {"rename", "delete"}}

Symmetric == Permutations(Proc) \union Permutations(Host) \union Permutations(Group \ {Ungrouped})
=============================================================================
