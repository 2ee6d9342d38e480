------------------------------- MODULE MCDesk -------------------------------
(* Desk on small instances. *)
EXTENDS Desk, TLC

Symmetry == Permutations(Worker) \cup Permutations(Genre) \cup Permutations(Title)
=============================================================================
