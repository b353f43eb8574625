--------------------------- MODULE MCSystemCache ---------------------------
(* Actors for the runs of SystemCache. *)
EXTENDS SystemCache, TLC

CONSTANTS r1, w1, w2, i1, d1

OneReader   == {r1}
TwoPatchers == {w1, w2}
OneIngester == {i1}
OneRemover  == {d1}

OnlyPlain == {"plain"}

Symmetric == Permutations(Reader) \union Permutations(Patcher)
=============================================================================
