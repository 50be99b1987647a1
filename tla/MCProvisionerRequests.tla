----------------------- MODULE MCProvisionerRequests -----------------------
(* Values TLC needs to check ProvisionerRequests on small networks. *)
EXTENDS ProvisionerRequests, TLC

CONSTANTS d1, d2, r1, r2, switch, fixture

(* Both devices advertise the name of one row, with one recipe or with two, *)
Fixed == switch :> <<r1>>
Rotating == switch :> <<r1, r2>>
MCRowOf == [d \in Devices |-> switch]

(* or each the name of a row of its own. *)
TwoRows == switch :> <<r1>> @@ fixture :> <<r2>>
RowOfEach == [d \in Devices |-> IF d = d1 THEN switch ELSE fixture]
=============================================================================
