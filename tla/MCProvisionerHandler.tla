------------------------ MODULE MCProvisionerHandler ------------------------
(* Values TLC needs to check ProvisionerHandler on small networks. *)
EXTENDS ProvisionerHandler, TLC

CONSTANTS d1, d2, r1, r2, switch

(* Both devices advertise the name of one row, with one recipe or with two. *)
Fixed == switch :> <<r1>>
Rotating == switch :> <<r1, r2>>
MCRowOf == [d \in Devices |-> switch]

Symmetry == Permutations(Devices)
=============================================================================
