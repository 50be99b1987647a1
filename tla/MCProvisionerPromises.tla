----------------------- MODULE MCProvisionerPromises -----------------------
(* Values TLC needs to check ProvisionerPromises on small networks. *)
EXTENDS ProvisionerPromises, TLC

CONSTANTS d1, d2, r1, r2, switch

(* Both devices advertise the name of one row that rotates two recipes. *)
Rotating == switch :> <<r1, r2>>
MCRowOf == [d \in Devices |-> switch]

Symmetry == Permutations(Devices)
=============================================================================
