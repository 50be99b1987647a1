----------------------------- MODULE MCProvCache -----------------------------
(* Values TLC needs to check ProvCache on small caches. *)
EXTENDS ProvCache, TLC

(* UUIDs, addresses and names are only compared for equality. *)
Symmetry ==
  Permutations(Uuids) \cup Permutations(Addrs) \cup Permutations(Names)
=============================================================================
