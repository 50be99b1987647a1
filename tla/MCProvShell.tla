---------------------------- MODULE MCProvShell ----------------------------
(* Values TLC needs to check ProvShell: one name has a row, another has none. *)
EXTENDS ProvShell, TLC
CONSTANTS u1, u2, a1, light, other
Symmetry == Permutations(Uuids)
=============================================================================
