------------------------------ MODULE MCRewards ------------------------------
(* Instances of Rewards for TLC: users, chapters and workers are interchangeable. *)
EXTENDS Rewards, TLC

Symmetry == Permutations(User) \cup Permutations(Chapter) \cup Permutations(Worker)

\* The admin takes a point away.
Amounts == {-1}
=============================================================================
