----------------------------- MODULE MCSessions -----------------------------
(* Instances of Sessions for TLC: rows and workers are interchangeable.     *)
EXTENDS Sessions, TLC

Symmetry == Permutations(Token) \cup Permutations(Worker)
=============================================================================
