---------------------------- MODULE MCRedisTask ----------------------------
(* Small instances of RedisTask. *)
EXTENDS RedisTask, TLC

\* Goroutines are interchangeable, and so are ids: nothing orders them.
ProcSymmetry == Permutations(Procs)
Symmetry     == Permutations(Procs) \cup Permutations(Ids)

=============================================================================
