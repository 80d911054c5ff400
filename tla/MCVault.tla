------------------------------- MODULE MCVault -------------------------------
(* Small instances of Vault for TLC. *)
EXTENDS Vault, TLC

CONSTANTS i1, i2, r1, r2, u, x, y, none

Symmetry == Permutations({x, y})
=============================================================================
