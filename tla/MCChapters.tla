----------------------------- MODULE MCChapters -----------------------------
(* Instances of Chapters for TLC: rows, jobs and requests are interchangeable. *)
EXTENDS Chapters, TLC

Symmetry == Permutations(Row) \cup Permutations(Job) \cup Permutations(Worker)
=============================================================================
