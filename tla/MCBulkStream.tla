--------------------------- MODULE MCBulkStream ---------------------------
(* Sessions are interchangeable: Init gives every one any kind.            *)
EXTENDS BulkStream, TLC

Symmetric == Permutations(Sessions)
===========================================================================
