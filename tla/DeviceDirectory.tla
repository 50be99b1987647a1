--------------------------- MODULE DeviceDirectory ---------------------------
(***************************************************************************)
(* What the provisioner cache promises its callers, without slots, cursors *)
(* or search orders: a directory of at most Capacity devices by UUID, each *)
(* with the address, the name, the listing and the last attempt known of   *)
(* it.  When a device is admitted to a full directory another one leaves,  *)
(* an unnamed one before a named one before a listed one.                  *)
(***************************************************************************)
EXTENDS Integers, FiniteSets

CONSTANTS Uuids, Addrs, Names, Times, Capacity, None, Never

VARIABLE dir

Known == DOMAIN dir

(* A device of which only the UUID and the address, if any, are known. *)
Blank(a) == [addr |-> a, name |-> None, listed |-> FALSE, attempt |-> Never]

(* The devices last heard from address a: one at most. *)
Owners(a) == {u \in Known : dir[u].addr = a}

Unlisted == {u \in Known : ~dir[u].listed}

Unnamed == {u \in Unlisted : dir[u].name = None}

(* The devices that may leave to make room. *)
MayLeave ==
  IF Unnamed # {} THEN Unnamed ELSE IF Unlisted # {} THEN Unlisted ELSE Known

(* The directory with the devices of gone replaced by u. *)
With(gone, u, device) ==
  [v \in (Known \ gone) \cup {u} |-> IF v = u THEN device ELSE dir[v]]

Admit(u, device) ==
  \/ Cardinality(Known) < Capacity /\ dir' = With({}, u, device)
  \/ /\ Cardinality(Known) = Capacity
     /\ \E v \in MayLeave : dir' = With({v}, u, device)

(* A known device moves to address a, and takes over the name and the listing
   of a different UUID that used the address before. *)
Move(a, u) ==
  LET before == Owners(a) \ {u}
      inherited == {dir[v].name : v \in before}
  IN  /\ u \in Known
      /\ \E name \in IF before = {} \/ dir[u].name # None THEN {dir[u].name}
                     ELSE inherited :
           dir' = With(before, u,
                    [addr |-> a, name |-> name,
                     listed |-> \E v \in before \cup {u} : dir[v].listed,
                     attempt |-> dir[u].attempt])

(* An unknown UUID replaces the one that used address a, or is admitted. *)
Appear(a, u) ==
  /\ u \notin Known
  /\ IF Owners(a) # {} THEN dir' = With(Owners(a), u, Blank(a))
                       ELSE Admit(u, Blank(a))

HearName(a, n) ==
  \E u \in Owners(a) : dir' = [dir EXCEPT ![u].name = n]

HearBeacon(u) == u \notin Known /\ Admit(u, Blank(None))

List(us) ==
  /\ us # {}
  /\ \A u \in us : dir[u].name # None
  /\ dir' = [u \in Known |-> [dir[u] EXCEPT !.listed = @ \/ u \in us]]

Attempt(u, now) == u \in Known /\ dir' = [dir EXCEPT ![u].attempt = now]

Forget(u) == u \in Known /\ dir' = [v \in Known \ {u} |-> dir[v]]

Init == dir = << >>

Next ==
  \/ \E a \in Addrs, u \in Uuids : Move(a, u) \/ Appear(a, u)
  \/ \E a \in Addrs, n \in Names : HearName(a, n)
  \/ \E u \in Uuids : HearBeacon(u) \/ Forget(u)
  \/ \E us \in SUBSET Known : List(us)
  \/ \E u \in Uuids, now \in Times : Attempt(u, now)

Spec == Init /\ [][Next]_dir
=============================================================================
