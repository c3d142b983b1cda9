----------------------------- MODULE MCTaskApi -----------------------------
(* TaskApi for TLC: the requests are interchangeable.                      *)
EXTENDS TaskApi, TLC

Symmetry == Permutations(Requests)

=============================================================================
