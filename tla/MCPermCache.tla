----------------------------- MODULE MCPermCache -----------------------------
(* Instances of PermCache for TLC: permissions and workers are interchangeable. *)
EXTENDS PermCache, TLC

Symmetry == Permutations(Perm) \cup Permutations(Worker)
=============================================================================
