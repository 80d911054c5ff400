------------------------------ MODULE MCMerkle ------------------------------
(* Small instances of Merkle for TLC. *)
EXTENDS Merkle, TLC

CONSTANTS a, b

\* Contents are interchangeable: a hash only holds them.
Symmetry == Permutations({a, b})
=============================================================================
