-------------------------- MODULE MCWorkspaceWait --------------------------
(* Waiters for the runs of WorkspaceWait: one wants the ungrouped          *)
(* workspace, the other creates one of its own.                            *)
EXTENDS WorkspaceWait

CONSTANTS w1, w2, own, ungrouped

TwoWaiters    == {w1, w2}
TwoWorkspaces == {own, ungrouped}
OneEach == [w \in TwoWaiters |-> IF w = w2 THEN own ELSE ungrouped]
=============================================================================
