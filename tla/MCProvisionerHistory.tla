------------------------ MODULE MCProvisionerHistory ------------------------
(* Values TLC needs to check ProvisionerHistory on small networks. *)
EXTENDS ProvisionerHistory, TLC

CONSTANTS d1, d2, r1, r2, switch

(* Both devices advertise the name of one row that rotates two recipes. *)
Rotating == switch :> <<r1, r2>>
MCRowOf == [d \in Devices |-> switch]

Symmetry == Permutations(Devices)
=============================================================================
