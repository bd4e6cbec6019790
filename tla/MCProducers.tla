---------------------------- MODULE MCProducers ----------------------------
(***************************************************************************)
(* Three producers, which only their state tells apart.                    *)
(***************************************************************************)
EXTENDS Producers, TLC

CONSTANTS a, b, c

Symmetry == Permutations(Producers)
=============================================================================
