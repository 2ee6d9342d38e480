---------------------------- MODULE MCClientKeys ----------------------------
(* ClientKeys on small instances. *)
EXTENDS ClientKeys, TLC

MCLimit == [k \in Counter |-> IF k = "rl" THEN 2 ELSE 1]

Symmetry == Permutations(Worker)
=============================================================================
