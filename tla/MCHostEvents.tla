---------------------------- MODULE MCHostEvents ----------------------------
(* Actors for the runs of HostEvents. *)
EXTENDS HostEvents

CONSTANTS i1, p1, d1, e1

OneIngester  == {i1}
OnePatcher   == {p1}
OneDeleter   == {d1}
OneReaper    == {e1}
=============================================================================
