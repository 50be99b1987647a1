------------------------- MODULE ProvDirectoryProofs -------------------------
(***************************************************************************)
(* The provisioner cache (ProvCache) implements a directory of CacheMax    *)
(* devices (DeviceDirectory): every call of its API is one step of the     *)
(* directory, or none at all.                                              *)
(*                                                                         *)
(* The proof rests on the invariant of the cache: an entry in use has a    *)
(* UUID no other entry has, so the directory is the entries in use, read   *)
(* by UUID; and the address belongs to one entry, so what the cache finds  *)
(* at the first match is all that a caller could mean.                     *)
(***************************************************************************)
EXTENDS ProvCacheProofs

-----------------------------------------------------------------------------
(* The directory of a cache                                                *)

UsedSlots == {s \in Slots : cache[s].in_use}

LEMMA DeviceFields ==
  ASSUME NEW e
  PROVE  /\ Device(e).addr = e.addr
         /\ Device(e).name = e.name
         /\ Device(e).listed = e.scan_visible
         /\ Device(e).attempt = e.last_attempt_ms
BY Zenon DEF Device

LEMMA DirectoryDomain == DOMAIN directory = CachedUuids
BY DEF directory

LEMMA DirectoryEntry ==
  ASSUME IInv, NEW s \in UsedSlots
  PROVE  /\ cache[s].uuid \in CachedUuids
         /\ directory[cache[s].uuid] = Device(cache[s])
<1>1. cache[s].uuid \in CachedUuids
  BY DEF CachedUuids, UsedSlots
<1>2. SlotsWithUuid(cache[s].uuid) = {s}
  BY DEF SlotsWithUuid, UsedSlots, IInv, UuidUnique
<1>3. (CHOOSE t \in SlotsWithUuid(cache[s].uuid) : TRUE) = s
  BY <1>2
<1> QED BY <1>1, <1>3 DEF directory

LEMMA CachedSlot ==
  ASSUME NEW u \in CachedUuids
  PROVE  \E s \in UsedSlots : cache[s].uuid = u
BY DEF CachedUuids, UsedSlots

(* The directory of the next state is the function that has its domain and
   agrees with its entries. *)
LEMMA NextDirectory ==
  ASSUME IInv', NEW F, F = [u \in DOMAIN F |-> F[u]],
         \A s \in Slots : cache'[s].in_use =>
            /\ cache'[s].uuid \in DOMAIN F
            /\ F[cache'[s].uuid] = Device(cache'[s]),
         \A u \in DOMAIN F :
            \E s \in Slots : cache'[s].in_use /\ cache'[s].uuid = u
  PROVE  directory' = F
<1>1. CachedUuids' = DOMAIN F
  BY DEF CachedUuids
<1>2. directory' = [u \in CachedUuids' |-> directory'[u]]
  BY DEF directory
<1>3. ASSUME NEW u \in DOMAIN F
      PROVE  directory'[u] = F[u]
  <2>1. PICK s \in Slots : cache'[s].in_use /\ cache'[s].uuid = u
    OBVIOUS
  <2>2. (SlotsWithUuid(u))' = {s}
    BY <2>1 DEF SlotsWithUuid, IInv, UuidUnique
  <2>3. (CHOOSE t \in (SlotsWithUuid(u))' : TRUE) = s
    BY <2>2
  <2>4. directory'[u] = Device(cache'[s])
    BY <1>1, <2>3 DEF directory
  <2> QED BY <2>1, <2>4
<1> QED BY <1>1, <1>2, <1>3

(* There is room in the directory exactly if an entry is free. *)
LEMMA DirectorySize ==
  ASSUME IInv
  PROVE  /\ FreeSlots # {} => Cardinality(CachedUuids) < CacheMax
         /\ FreeSlots = {} => Cardinality(CachedUuids) = CacheMax
<1> DEFINE f == [s \in UsedSlots |-> cache[s].uuid]
<1>1. f \in Bijection(UsedSlots, CachedUuids)
  <2>1. f \in [UsedSlots -> CachedUuids]
    BY DEF CachedUuids, UsedSlots
  <2>2. \A s, t \in UsedSlots : f[s] = f[t] => s = t
    BY DEF UsedSlots, IInv, UuidUnique
  <2>3. \A u \in CachedUuids : \E s \in UsedSlots : f[s] = u
    BY CachedSlot
  <2> QED BY <2>1, <2>2, <2>3 DEF Bijection, Injection, Surjection, IsInjective
<1>2. ExistsBijection(UsedSlots, CachedUuids)
  BY <1>1 DEF ExistsBijection
<1>3. /\ IsFiniteSet(Slots) /\ Cardinality(Slots) = CacheMax
  <2>1. 0 \in Int /\ CacheMax - 1 \in Int /\ ~(0 > CacheMax - 1)
    BY CacheMaxAssumption
  <2>2. /\ IsFiniteSet(0 .. CacheMax - 1)
        /\ Cardinality(0 .. CacheMax - 1) = CacheMax - 1 - 0 + 1
    BY <2>1, FS_Interval
  <2> QED BY <2>2, CacheMaxAssumption DEF Slots
<1>4. UsedSlots \in SUBSET Slots
  BY DEF UsedSlots
<1>5. /\ IsFiniteSet(UsedSlots) /\ Cardinality(UsedSlots) <= CacheMax
      /\ Cardinality(UsedSlots) = CacheMax => UsedSlots = Slots
  BY <1>3, <1>4, FS_Subset
<1>6. Cardinality(CachedUuids) = Cardinality(UsedSlots)
  BY <1>2, <1>5, FS_Bijection
<1>7. Cardinality(UsedSlots) \in Nat
  BY <1>5, FS_CardinalityType
<1>8. FreeSlots = Slots \ UsedSlots
  BY DEF FreeSlots, UsedSlots
<1>9. CASE FreeSlots = {}
  <2>1. UsedSlots = Slots
    BY <1>4, <1>8, <1>9
  <2> QED BY <1>3, <1>6, <1>9, <2>1
<1>10. CASE FreeSlots # {}
  <2>1. Cardinality(UsedSlots) # CacheMax
    BY <1>5, <1>8, <1>10
  <2> QED BY <1>5, <1>6, <1>7, <1>10, <2>1, CacheMaxAssumption
<1> QED BY <1>9, <1>10

-----------------------------------------------------------------------------
(* A device enters                                                         *)

(* The entry that is evicted is that of a device that may leave. *)
LEMMA VictimMayLeave ==
  ASSUME IInv, NEW k \in Victims, FreeSlots = {}
  PROVE  k \in UsedSlots /\ cache[k].uuid \in Directory!MayLeave
<1>1. UsedSlots = Slots
  BY DEF UsedSlots, FreeSlots
<1>2. \A s \in Slots :
        /\ cache[s].uuid \in CachedUuids
        /\ directory[cache[s].uuid] = Device(cache[s])
  BY <1>1, DirectoryEntry
<1>3. \A u \in CachedUuids : \E s \in Slots : cache[s].uuid = u
  BY <1>1, CachedSlot
<1>4. Directory!Known = CachedUuids
  BY DirectoryDomain DEF Directory!Known
<1>5. Directory!Unlisted = {u \in CachedUuids : ~directory[u].listed}
  BY <1>4 DEF Directory!Unlisted
<1>6. \A s \in Slots :
        /\ ~cache[s].scan_visible <=> cache[s].uuid \in Directory!Unlisted
        /\ ~cache[s].scan_visible /\ cache[s].name = None
             <=> cache[s].uuid \in Directory!Unnamed
  <2> SUFFICES ASSUME NEW s \in Slots
               PROVE  /\ ~cache[s].scan_visible
                            <=> cache[s].uuid \in Directory!Unlisted
                      /\ ~cache[s].scan_visible /\ cache[s].name = None
                            <=> cache[s].uuid \in Directory!Unnamed
    OBVIOUS
  <2>1. /\ directory[cache[s].uuid].listed = cache[s].scan_visible
        /\ directory[cache[s].uuid].name = cache[s].name
    BY <1>2, DeviceFields, Zenon
  <2>2. ~cache[s].scan_visible <=> cache[s].uuid \in Directory!Unlisted
    BY <1>2, <1>5, <2>1, Zenon
  <2> QED BY <2>1, <2>2, Zenon DEF Directory!Unnamed
<1>7. /\ Directory!Unnamed \subseteq CachedUuids
      /\ Directory!Unlisted \subseteq CachedUuids
  BY <1>5 DEF Directory!Unnamed
<1>8. k \in Slots
  BY DEF Victims
<1>9. CASE \E s \in Slots : ~cache[s].scan_visible /\ cache[s].name = None
  <2>1. ~cache[k].scan_visible /\ cache[k].name = None
    BY <1>9 DEF Victims, evict_match
  <2> QED BY <1>1, <1>6, <1>8, <2>1 DEF Directory!MayLeave
<1>10. CASE /\ ~\E s \in Slots : ~cache[s].scan_visible /\ cache[s].name = None
            /\ \E s \in Slots : ~cache[s].scan_visible
  <2>1. ~cache[k].scan_visible
    BY <1>10 DEF Victims, evict_match
  <2>2. Directory!Unnamed = {}
    BY <1>3, <1>6, <1>7, <1>10
  <2> QED BY <1>1, <1>6, <1>8, <2>1, <2>2 DEF Directory!MayLeave
<1>11. CASE ~\E s \in Slots : ~cache[s].scan_visible
  <2>1. Directory!Unnamed = {} /\ Directory!Unlisted = {}
    BY <1>3, <1>6, <1>7, <1>11
  <2> QED BY <1>1, <1>2, <1>4, <1>8, <2>1 DEF Directory!MayLeave
<1> QED BY <1>9, <1>10, <1>11

(* The directory counts as the cache does. *)
LEMMA SameCardinality ==
  ASSUME NEW S
  PROVE  Directory!Cardinality(S) = Cardinality(S)
BY DEF Directory!Cardinality, Cardinality

-----------------------------------------------------------------------------
(* One entry is written                                                    *)

(* Who leaves when slot k is overwritten. *)
Gone(k) == IF cache[k].in_use THEN {cache[k].uuid} ELSE {}

LEMMA OneEntryWritten ==
  ASSUME IInv, IInv', NEW k \in Slots, NEW e, e.in_use,
         cache' = [cache EXCEPT ![k] = e]
  PROVE  directory' = Directory!With(Gone(k), e.uuid, Device(e))
<1> DEFINE F == Directory!With(Gone(k), e.uuid, Device(e))
<1>1. /\ cache'[k] = e
      /\ \A s \in Slots : s # k => cache'[s] = cache[s]
  BY DEF IInv, TypeOK
<1>2. /\ F = [u \in DOMAIN F |-> F[u]]
      /\ DOMAIN F = (CachedUuids \ Gone(k)) \cup {e.uuid}
      /\ F[e.uuid] = Device(e)
      /\ \A u \in CachedUuids \ Gone(k) : u # e.uuid => F[u] = directory[u]
  BY DirectoryDomain DEF Directory!With, Directory!Known
<1> HIDE DEF F
<1>3. ASSUME NEW s \in Slots, cache'[s].in_use
      PROVE  cache'[s].uuid \in DOMAIN F /\ F[cache'[s].uuid] = Device(cache'[s])
  <2>1. CASE s = k
    BY <1>1, <1>2, <2>1
  <2>2. CASE s # k
    <3>1. cache'[s] = cache[s] /\ s \in UsedSlots
      BY <1>1, <1>3, <2>2 DEF UsedSlots
    <3>2. cache[s].uuid # e.uuid
      BY <1>1, <1>3, <2>2 DEF IInv, UuidUnique
    <3>3. cache[s].uuid \notin Gone(k)
      BY <2>2, <3>1 DEF Gone, UsedSlots, IInv, UuidUnique
    <3> QED BY <1>2, <3>1, <3>2, <3>3, DirectoryEntry
  <2> QED BY <2>1, <2>2
<1>4. ASSUME NEW u \in DOMAIN F
      PROVE  \E s \in Slots : cache'[s].in_use /\ cache'[s].uuid = u
  <2>1. CASE u = e.uuid
    BY <1>1, <2>1
  <2>2. CASE u # e.uuid
    <3>1. PICK s \in UsedSlots : cache[s].uuid = u
      BY <1>2, <1>4, <2>2, CachedSlot
    <3>2. s # k
      BY <1>2, <1>4, <2>2, <3>1 DEF Gone, UsedSlots
    <3> QED BY <1>1, <3>1, <3>2 DEF UsedSlots
  <2> QED BY <2>1, <2>2
<1>5. directory' = F
  BY <1>2, <1>3, <1>4, NextDirectory
<1> QED BY <1>5 DEF F

(* The entry of a device changes and stays its own. *)
LEMMA OneEntryChanged ==
  ASSUME IInv, IInv', NEW u, NEW k \in SlotsWithUuid(u), NEW e,
         e.in_use, e.uuid = u, cache' = [cache EXCEPT ![k] = e]
  PROVE  /\ u \in CachedUuids
         /\ directory[u] = Device(cache[k])
         /\ directory' = [directory EXCEPT ![u] = Device(e)]
         /\ directory' = Directory!With({}, u, Device(e))
<1>1. k \in UsedSlots /\ cache[k].uuid = u /\ cache[k].in_use /\ k \in Slots
  BY DEF SlotsWithUuid, UsedSlots
<1>2. u \in CachedUuids /\ directory[u] = Device(cache[k])
  BY <1>1, DirectoryEntry
<1>3. directory' = Directory!With({u}, u, Device(e))
  BY <1>1, OneEntryWritten DEF Gone
<1>4. /\ (CachedUuids \ {u}) \cup {u} = CachedUuids
      /\ (CachedUuids \ {}) \cup {u} = CachedUuids
  BY <1>2
<1>5. [directory EXCEPT ![u] = Device(e)]
        = [v \in CachedUuids |-> IF v = u THEN Device(e) ELSE directory[v]]
  BY DirectoryDomain
<1> QED BY <1>2, <1>3, <1>4, <1>5, DirectoryDomain
        DEF Directory!With, Directory!Known

(* A device that was unknown takes a slot alloc_entry_locked returned. *)
LEMMA InsertAdmits ==
  ASSUME IInv, IInv', NEW k \in Slots, alloc_entry_locked(k), NEW e, e.in_use,
         cache' = [cache EXCEPT ![k] = e]
  PROVE  Directory!Admit(e.uuid, Device(e))
<1>1. directory' = Directory!With(Gone(k), e.uuid, Device(e))
  BY OneEntryWritten
<1>2. Directory!Known = CachedUuids
  BY DirectoryDomain DEF Directory!Known
<1>3. CASE FreeSlots # {}
  <2>1. Gone(k) = {}
    BY <1>3 DEF alloc_entry_locked, First, FreeSlots, Gone
  <2> QED BY <1>1, <1>2, <1>3, <2>1, DirectorySize, SameCardinality
         DEF Directory!Admit
<1>4. CASE FreeSlots = {}
  <2>1. k \in Victims
    BY <1>4 DEF alloc_entry_locked, First
  <2>2. k \in UsedSlots /\ cache[k].uuid \in Directory!MayLeave
    BY <1>4, <2>1, VictimMayLeave
  <2>3. Gone(k) = {cache[k].uuid}
    BY <2>2 DEF Gone, UsedSlots
  <2> QED BY <1>1, <1>2, <1>4, <2>2, <2>3, DirectorySize, SameCardinality
         DEF Directory!Admit
<1> QED BY <1>3, <1>4

-----------------------------------------------------------------------------
(* An advertisement                                                        *)

LEMMA OwnersAreFound ==
  ASSUME IInv, NEW a \in Addrs
  PROVE  Directory!Owners(a) = {cache[s].uuid : s \in SlotsWithAddr(a)}
<1>1. Directory!Owners(a) = {u \in CachedUuids : directory[u].addr = a}
  BY DirectoryDomain DEF Directory!Owners, Directory!Known
<1>2. \A s \in UsedSlots :
        /\ cache[s].uuid \in CachedUuids
        /\ directory[cache[s].uuid].addr = cache[s].addr
  BY DirectoryEntry, DeviceFields
<1>3. \A u \in CachedUuids : \E s \in UsedSlots : cache[s].uuid = u
  BY CachedSlot
<1>4. SlotsWithAddr(a) = {s \in UsedSlots : cache[s].addr = a}
  BY DEF SlotsWithAddr, UsedSlots
<1> QED BY <1>1, <1>2, <1>3, <1>4

(* No two entries share the address. *)
LEMMA FoundOwnsAddress ==
  ASSUME IInv, NEW a \in Addrs, NEW i \in SlotsWithAddr(a)
  PROVE  /\ SlotsWithAddr(a) = {i}
         /\ Directory!Owners(a) = {cache[i].uuid}
         /\ i \in UsedSlots
<1>1. SlotsWithAddr(a) = {i}
  BY NoneAssumption DEF SlotsWithAddr, IInv, AddrUnique
<1>2. Directory!Owners(a) = {cache[i].uuid}
  BY <1>1, OwnersAreFound
<1> QED BY <1>1, <1>2 DEF SlotsWithAddr, UsedSlots

(* An entry found by address is freed and the one found by UUID rewritten. *)
LEMMA TwoEntriesMerged ==
  ASSUME IInv, IInv', NEW u, NEW i \in UsedSlots, NEW j \in SlotsWithUuid(u),
         i # j, NEW e, e.in_use, e.uuid = u,
         cache' = [cache EXCEPT ![i] = Cleared(FALSE), ![j] = e]
  PROVE  directory' = Directory!With({cache[i].uuid}, u, Device(e))
<1> DEFINE F == Directory!With({cache[i].uuid}, u, Device(e))
<1>1. /\ i \in Slots /\ j \in Slots /\ j \in UsedSlots /\ cache[j].uuid = u
      /\ cache[i].uuid # u
  BY DEF UsedSlots, SlotsWithUuid, IInv, UuidUnique
<1>2. /\ cache'[j] = e /\ ~cache'[i].in_use
      /\ \A s \in Slots : s # i /\ s # j => cache'[s] = cache[s]
  BY <1>1 DEF IInv, TypeOK, Cleared
<1>3. /\ F = [v \in DOMAIN F |-> F[v]]
      /\ DOMAIN F = (CachedUuids \ {cache[i].uuid}) \cup {u}
      /\ F[u] = Device(e)
      /\ \A v \in CachedUuids \ {cache[i].uuid} : v # u => F[v] = directory[v]
  BY DirectoryDomain DEF Directory!With, Directory!Known
<1> HIDE DEF F
<1>4. ASSUME NEW s \in Slots, cache'[s].in_use
      PROVE  cache'[s].uuid \in DOMAIN F /\ F[cache'[s].uuid] = Device(cache'[s])
  <2>1. CASE s = j
    BY <1>2, <1>3, <2>1
  <2>2. CASE s # j
    <3>1. s # i /\ cache'[s] = cache[s] /\ s \in UsedSlots
      BY <1>2, <1>4, <2>2 DEF UsedSlots
    <3>2. cache[s].uuid # u /\ cache[s].uuid # cache[i].uuid
      BY <1>1, <2>2, <3>1 DEF IInv, UuidUnique, UsedSlots
    <3> QED BY <1>3, <3>1, <3>2, DirectoryEntry
  <2> QED BY <2>1, <2>2
<1>5. ASSUME NEW v \in DOMAIN F
      PROVE  \E s \in Slots : cache'[s].in_use /\ cache'[s].uuid = v
  <2>1. CASE v = u
    BY <1>1, <1>2, <2>1
  <2>2. CASE v # u
    <3>1. PICK s \in UsedSlots : cache[s].uuid = v
      BY <1>3, <1>5, <2>2, CachedSlot
    <3>2. s # i /\ s # j
      BY <1>1, <1>3, <1>5, <2>2, <3>1
    <3> QED BY <1>2, <3>1, <3>2 DEF UsedSlots
  <2> QED BY <2>1, <2>2
<1>6. directory' = F
  BY <1>3, <1>4, <1>5, NextDirectory
<1> QED BY <1>6 DEF F

LEMMA BlankDevice ==
  ASSUME NEW a, NEW u, NEW e, e = [Cleared(TRUE) EXCEPT !.addr = a, !.uuid = u]
  PROVE  Device(e) = Directory!Blank(a) /\ e.in_use /\ e.uuid = u
<1>1. /\ e.addr = a /\ e.name = None /\ e.scan_visible = FALSE
      /\ e.last_attempt_ms = Never /\ e.uuid = u /\ e.in_use
  BY DEF Cleared
<1>2. Device(e) = Directory!Blank(a)
  BY <1>1, Zenon DEF Device, Directory!Blank
<1> QED BY <1>1, <1>2

LEMMA MergeMoves ==
  ASSUME IInv, IInv', NEW a \in Addrs, NEW u \in Uuids,
         NEW i \in SlotsWithAddr(a), NEW j \in SlotsWithUuid(u),
         MergeIntoUuid(a, i, j)
  PROVE  Directory!Move(a, u)
<1>1. PICK name, visible, e :
        /\ name = IF cache[j].name = None THEN cache[i].name ELSE cache[j].name
        /\ visible = (cache[j].scan_visible \/ cache[i].scan_visible)
        /\ e = [cache[j] EXCEPT !.addr = a, !.name = name,
                                !.scan_visible = visible]
        /\ cache' = [cache EXCEPT ![i] = Cleared(FALSE), ![j] = e]
  BY DEF MergeIntoUuid
<1>2. /\ i # j /\ cache[j] \in Entry /\ cache[j].in_use /\ cache[j].uuid = u
      /\ j \in UsedSlots
  BY DEF MergeIntoUuid, SlotsWithUuid, UsedSlots, IInv, TypeOK
<1>3. i \in UsedSlots /\ Directory!Owners(a) = {cache[i].uuid}
  BY FoundOwnsAddress
<1> DEFINE w == cache[i].uuid
<1>4. w # u
  BY <1>2, <1>3 DEF UsedSlots, IInv, UuidUnique
<1>5. /\ e.in_use /\ e.uuid = u
      /\ Device(e) = [addr |-> a, name |-> name, listed |-> visible,
                      attempt |-> cache[j].last_attempt_ms]
  <2>1. e = [cache[j] EXCEPT !.addr = a, !.name = name,
                              !.scan_visible = visible]
    BY <1>1, Zenon
  <2>2. /\ e.addr = a /\ e.name = name /\ e.scan_visible = visible
        /\ e.last_attempt_ms = cache[j].last_attempt_ms
        /\ e.uuid = cache[j].uuid /\ e.in_use = cache[j].in_use
    BY <1>2, <2>1 DEF Entry
  <2> QED BY <1>2, <2>2, Zenon DEF Device
<1>6. directory' = Directory!With({w}, u, Device(e))
  <2>1. cache' = [cache EXCEPT ![i] = Cleared(FALSE), ![j] = e]
    BY <1>1, Zenon
  <2>2. i \in UsedSlots /\ i # j /\ e.in_use /\ e.uuid = u
    BY <1>2, <1>3, <1>5, Zenon
  <2> QED BY <2>1, <2>2, TwoEntriesMerged
<1>7. /\ u \in CachedUuids /\ directory[u] = Device(cache[j])
      /\ directory[w] = Device(cache[i])
  BY <1>2, <1>3, DirectoryEntry
<1>8. /\ directory[u].name = cache[j].name /\ directory[w].name = cache[i].name
      /\ directory[u].attempt = cache[j].last_attempt_ms
      /\ directory[u].listed = cache[j].scan_visible
      /\ directory[w].listed = cache[i].scan_visible
  BY <1>7, DeviceFields, Zenon
<1>9. /\ Directory!Owners(a) \ {u} = {w}
      /\ u \in Directory!Known
  BY <1>3, <1>4, <1>7, DirectoryDomain DEF Directory!Known
<1>10. visible = \E v \in {w} \cup {u} : directory[v].listed
  BY <1>1, <1>8, Zenon
<1>11. name \in IF directory[u].name # None THEN {directory[u].name}
                ELSE {directory[v].name : v \in {w}}
  BY <1>1, <1>8
<1>12. directory' = Directory!With({w}, u,
          [addr |-> a, name |-> name,
           listed |-> \E v \in {w} \cup {u} : directory[v].listed,
           attempt |-> directory[u].attempt])
  BY <1>5, <1>6, <1>8, <1>10, Zenon
<1> HIDE DEF w
<1> QED BY <1>9, <1>11, <1>12 DEF Directory!Move

LEMMA UpdateMoves ==
  ASSUME IInv, IInv', NEW a \in Addrs, NEW u \in Uuids,
         NEW j \in SlotsWithUuid(u), SlotsWithAddr(a) \subseteq {j},
         UpdateAddr(a, j)
  PROVE  Directory!Move(a, u)
<1>1. PICK e : e = [cache[j] EXCEPT !.addr = a]
  OBVIOUS
<1>2. /\ cache' = [cache EXCEPT ![j] = e]
      /\ cache[j] \in Entry /\ cache[j].in_use /\ cache[j].uuid = u
  BY <1>1 DEF UpdateAddr, SlotsWithUuid, IInv, TypeOK
<1>3. /\ e.addr = a /\ e.name = cache[j].name
      /\ e.scan_visible = cache[j].scan_visible
      /\ e.last_attempt_ms = cache[j].last_attempt_ms
      /\ e.uuid = cache[j].uuid /\ e.in_use = cache[j].in_use
  BY <1>1, <1>2 DEF Entry
<1>4. e.in_use /\ e.uuid = u
  BY <1>2, <1>3, Zenon
<1>5. /\ u \in CachedUuids /\ directory[u] = Device(cache[j])
      /\ directory' = Directory!With({}, u, Device(e))
  BY <1>2, <1>4, OneEntryChanged
<1>6. /\ directory[u].name = cache[j].name
      /\ directory[u].attempt = cache[j].last_attempt_ms
      /\ directory[u].listed = cache[j].scan_visible
  BY <1>5, DeviceFields, Zenon
<1>7. cache[j].scan_visible \in BOOLEAN
  BY <1>2 DEF Entry
<1>8. cache[j].scan_visible = \E v \in {u} : directory[v].listed
  BY <1>6, <1>7, Zenon
<1>9. /\ Directory!Owners(a) \ {u} = {} /\ u \in Directory!Known
      /\ {} \cup {u} = {u}
  BY <1>2, <1>5, OwnersAreFound, DirectoryDomain DEF Directory!Known
<1>10. Device(e) =
         [addr |-> a, name |-> directory[u].name,
          listed |-> \E v \in {u} : directory[v].listed,
          attempt |-> directory[u].attempt]
  BY <1>3, <1>6, <1>8, Zenon DEF Device
<1>11. directory' = Directory!With({}, u,
          [addr |-> a, name |-> directory[u].name,
           listed |-> \E v \in {} \cup {u} : directory[v].listed,
           attempt |-> directory[u].attempt])
  BY <1>5, <1>9, <1>10, Zenon
<1>12. directory[u].name \in {directory[u].name}
  OBVIOUS
<1> QED BY <1>9, <1>11, <1>12, Zenon DEF Directory!Move

LEMMA UnknownUuid ==
  ASSUME IInv, NEW u, SlotsWithUuid(u) = {}
  PROVE  u \notin Directory!Known
BY DirectoryDomain, CachedSlot DEF Directory!Known, SlotsWithUuid, UsedSlots

LEMMA ReuseAppears ==
  ASSUME IInv, IInv', NEW a \in Addrs, NEW u \in Uuids, SlotsWithUuid(u) = {},
         NEW i \in SlotsWithAddr(a), ReuseAddrEntry(a, u, i)
  PROVE  Directory!Appear(a, u)
<1>1. /\ i \in UsedSlots /\ i \in Slots /\ cache[i].uuid \notin {None, u}
      /\ Directory!Owners(a) = {cache[i].uuid}
  BY FoundOwnsAddress DEF UsedSlots, SlotsWithUuid, IInv, WellFormed
<1>2. PICK e : e = [Cleared(TRUE) EXCEPT !.addr = a, !.uuid = u]
  OBVIOUS
<1>3. cache' = [cache EXCEPT ![i] = e]
  BY <1>1, <1>2 DEF ReuseAddrEntry, IInv, TypeOK
<1>4. Device(e) = Directory!Blank(a) /\ e.in_use /\ e.uuid = u
  BY <1>2, BlankDevice
<1>5. directory' = Directory!With(Directory!Owners(a), u, Directory!Blank(a))
  BY <1>1, <1>3, <1>4, OneEntryWritten DEF Gone, UsedSlots
<1> QED BY <1>1, <1>5, UnknownUuid DEF Directory!Appear

LEMMA InsertAppears ==
  ASSUME IInv, IInv', NEW a \in Addrs, NEW u \in Uuids, SlotsWithUuid(u) = {},
         SlotsWithAddr(a) = {}, NEW k \in Slots, InsertAdv(a, u, k)
  PROVE  Directory!Appear(a, u)
<1>1. PICK e : e = [Cleared(TRUE) EXCEPT !.addr = a, !.uuid = u]
  OBVIOUS
<1>2. cache' = [cache EXCEPT ![k] = e] /\ alloc_entry_locked(k)
  BY <1>1 DEF InsertAdv
<1>3. Device(e) = Directory!Blank(a) /\ e.in_use /\ e.uuid = u
  BY <1>1, BlankDevice
<1>4. Directory!Admit(u, Directory!Blank(a))
  BY <1>2, <1>3, InsertAdmits
<1>5. Directory!Owners(a) = {}
  BY OwnersAreFound
<1> QED BY <1>4, <1>5, UnknownUuid DEF Directory!Appear

LEMMA AdvertisementMovesOrAppears ==
  ASSUME IInv, IInv', NEW a \in Addrs, NEW u \in Uuids,
         prov_cache_adv_uuid_seen(a, u)
  PROVE  Directory!Move(a, u) \/ Directory!Appear(a, u)
<1>1. CASE \E i \in First(SlotsWithAddr(a)), j \in First(SlotsWithUuid(u)) :
             MergeIntoUuid(a, i, j)
  BY <1>1, MergeMoves DEF First
<1>2. CASE \E j \in First(SlotsWithUuid(u)) :
             SlotsWithAddr(a) \subseteq {j} /\ UpdateAddr(a, j)
  BY <1>2, UpdateMoves DEF First
<1>3. CASE /\ SlotsWithUuid(u) = {}
           /\ \E i \in First(SlotsWithAddr(a)) : ReuseAddrEntry(a, u, i)
  BY <1>3, ReuseAppears DEF First
<1>4. CASE /\ SlotsWithUuid(u) = {} /\ SlotsWithAddr(a) = {}
           /\ \E k \in Slots : InsertAdv(a, u, k)
  BY <1>4, InsertAppears
<1> QED BY <1>1, <1>2, <1>3, <1>4 DEF prov_cache_adv_uuid_seen

-----------------------------------------------------------------------------
(* The other calls                                                         *)

LEMMA NameIsHeard ==
  ASSUME IInv, IInv', NEW a \in Addrs, NEW n \in Names,
         prov_cache_scan_rsp_name_seen(a, n)
  PROVE  Directory!HearName(a, n)
<1>1. PICK s \in SlotsWithAddr(a) : cache' = [cache EXCEPT ![s].name = n]
  BY DEF prov_cache_scan_rsp_name_seen, First
<1>2. PICK e : e = [cache[s] EXCEPT !.name = n]
  OBVIOUS
<1> DEFINE u == cache[s].uuid
<1>3. /\ cache' = [cache EXCEPT ![s] = e] /\ cache[s] \in Entry
      /\ s \in UsedSlots /\ s \in SlotsWithUuid(u)
      /\ Directory!Owners(a) = {u}
  BY <1>1, <1>2, FoundOwnsAddress DEF SlotsWithUuid, UsedSlots, IInv, TypeOK
<1>4. /\ e.addr = cache[s].addr /\ e.name = n
      /\ e.scan_visible = cache[s].scan_visible
      /\ e.last_attempt_ms = cache[s].last_attempt_ms
      /\ e.uuid = u /\ e.in_use = cache[s].in_use
  BY <1>2, <1>3 DEF Entry
<1>5. e.in_use
  BY <1>3, <1>4, Zenon DEF UsedSlots
<1> HIDE DEF u
<1>6. /\ u \in CachedUuids /\ directory[u] = Device(cache[s])
      /\ directory' = [directory EXCEPT ![u] = Device(e)]
  BY <1>3, <1>4, <1>5, OneEntryChanged
<1>7. Device(e) = [addr |-> cache[s].addr, name |-> n,
                   listed |-> cache[s].scan_visible,
                   attempt |-> cache[s].last_attempt_ms]
  BY <1>4, Zenon DEF Device
<1>8. [directory[u] EXCEPT !.name = n] = Device(e)
  BY <1>6, <1>7 DEF Device
<1>9. directory' = [directory EXCEPT ![u].name = n]
  BY <1>6, <1>8
<1> QED BY <1>3, <1>9 DEF Directory!HearName

LEMMA BeaconIsHeard ==
  ASSUME IInv, IInv', NEW u \in Uuids, prov_cache_ensure_uuid(u)
  PROVE  Directory!HearBeacon(u)
<1>1. PICK e : e = [Cleared(TRUE) EXCEPT !.addr = None, !.uuid = u]
  OBVIOUS
<1>2. PICK k \in Slots : alloc_entry_locked(k) /\ cache' = [cache EXCEPT ![k] = e]
  BY <1>1 DEF prov_cache_ensure_uuid
<1>3. Device(e) = Directory!Blank(None) /\ e.in_use /\ e.uuid = u
  BY <1>1, BlankDevice
<1>4. Directory!Admit(u, Directory!Blank(None))
  BY <1>2, <1>3, InsertAdmits
<1> QED BY <1>4, UnknownUuid DEF Directory!HearBeacon, prov_cache_ensure_uuid

LEMMA AttemptIsNoted ==
  ASSUME IInv, IInv', NEW u \in Uuids, NEW now \in Times,
         prov_cache_mark_attempt(u, now)
  PROVE  Directory!Attempt(u, now)
<1>1. PICK s \in SlotsWithUuid(u) :
        cache' = [cache EXCEPT ![s].last_attempt_ms = now]
  BY DEF prov_cache_mark_attempt, First
<1>2. PICK e : e = [cache[s] EXCEPT !.last_attempt_ms = now]
  OBVIOUS
<1>3. /\ cache' = [cache EXCEPT ![s] = e] /\ cache[s] \in Entry
      /\ cache[s].in_use /\ cache[s].uuid = u
  BY <1>1, <1>2 DEF SlotsWithUuid, IInv, TypeOK
<1>4. /\ e.addr = cache[s].addr /\ e.name = cache[s].name
      /\ e.scan_visible = cache[s].scan_visible
      /\ e.last_attempt_ms = now
      /\ e.uuid = cache[s].uuid /\ e.in_use = cache[s].in_use
  BY <1>2, <1>3 DEF Entry
<1>5. e.in_use /\ e.uuid = u
  BY <1>3, <1>4, Zenon
<1>6. /\ u \in CachedUuids /\ directory[u] = Device(cache[s])
      /\ directory' = [directory EXCEPT ![u] = Device(e)]
  BY <1>3, <1>5, OneEntryChanged
<1>7. Device(e) = [addr |-> cache[s].addr, name |-> cache[s].name,
                   listed |-> cache[s].scan_visible, attempt |-> now]
  BY <1>4, Zenon DEF Device
<1>8. [directory[u] EXCEPT !.attempt = now] = Device(e)
  BY <1>6, <1>7 DEF Device
<1>9. directory' = [directory EXCEPT ![u].attempt = now]
  BY <1>6, <1>8
<1> QED BY <1>6, <1>9, DirectoryDomain DEF Directory!Attempt, Directory!Known

LEMMA DeviceIsForgotten ==
  ASSUME IInv, IInv', NEW u \in Uuids, prov_cache_on_configuration_success(u)
  PROVE  Directory!Forget(u)
<1>1. PICK k \in SlotsWithUuid(u) : cache' = [cache EXCEPT ![k] = Cleared(FALSE)]
  BY DEF prov_cache_on_configuration_success, First
<1>2. /\ k \in UsedSlots /\ k \in Slots /\ cache[k].uuid = u
      /\ ~cache'[k].in_use
      /\ \A s \in Slots : s # k => cache'[s] = cache[s]
  BY <1>1 DEF SlotsWithUuid, UsedSlots, IInv, TypeOK, Cleared
<1>3. u \in CachedUuids
  BY <1>2, DirectoryEntry
<1> DEFINE F == [v \in CachedUuids \ {u} |-> directory[v]]
<1>4. ASSUME NEW s \in Slots, cache'[s].in_use
      PROVE  cache'[s].uuid \in DOMAIN F /\ F[cache'[s].uuid] = Device(cache'[s])
  <2>1. s # k /\ cache'[s] = cache[s] /\ s \in UsedSlots
    BY <1>2, <1>4 DEF UsedSlots
  <2>2. cache[s].uuid # u
    BY <1>2, <2>1 DEF UsedSlots, IInv, UuidUnique
  <2> QED BY <2>1, <2>2, DirectoryEntry
<1>5. ASSUME NEW v \in DOMAIN F
      PROVE  \E s \in Slots : cache'[s].in_use /\ cache'[s].uuid = v
  <2>1. PICK s \in UsedSlots : cache[s].uuid = v
    BY CachedSlot
  <2> QED BY <1>2, <2>1 DEF UsedSlots
<1>6. F = [v \in DOMAIN F |-> F[v]]
  OBVIOUS
<1> HIDE DEF F
<1>7. directory' = F
  BY <1>4, <1>5, <1>6, NextDirectory
<1> QED BY <1>3, <1>7, DirectoryDomain DEF F, Directory!Forget, Directory!Known

(* Whoever the call lists is listed, all else stays. *)
LEMMA DevicesAreListed ==
  ASSUME IInv, IInv', NEW us \in SUBSET CachedUuids,
         \A s \in Slots :
           cache'[s] = IF cache[s].in_use /\ cache[s].uuid \in us
                       THEN [cache[s] EXCEPT !.scan_visible = TRUE] ELSE cache[s]
  PROVE  directory' =
           [u \in Directory!Known |->
              [directory[u] EXCEPT !.listed = directory[u].listed \/ u \in us]]
<1> DEFINE F == [u \in CachedUuids |->
                   [directory[u] EXCEPT !.listed = directory[u].listed \/ u \in us]]
<1>1. ASSUME NEW s \in Slots
      PROVE  /\ cache'[s].in_use = cache[s].in_use
             /\ cache'[s].uuid = cache[s].uuid
             /\ cache'[s].addr = cache[s].addr /\ cache'[s].name = cache[s].name
             /\ cache'[s].last_attempt_ms = cache[s].last_attempt_ms
             /\ cache[s].in_use =>
                  cache'[s].scan_visible
                    = (cache[s].scan_visible \/ cache[s].uuid \in us)
  <2>1. cache[s] \in Entry
    BY DEF IInv, TypeOK
  <2>2. CASE cache[s].in_use /\ cache[s].uuid \in us
    <3>1. cache'[s] = [cache[s] EXCEPT !.scan_visible = TRUE]
      BY <2>2
    <3>2. cache'[s].scan_visible = TRUE
      BY <2>1, <3>1 DEF Entry
    <3>3. cache'[s].scan_visible = (cache[s].scan_visible \/ cache[s].uuid \in us)
      BY <2>2, <3>2, Zenon
    <3> QED BY <2>1, <3>1, <3>3 DEF Entry
  <2>3. CASE ~(cache[s].in_use /\ cache[s].uuid \in us)
    <3>1. cache'[s] = cache[s]
      BY <2>3
    <3>2. cache[s].scan_visible \in BOOLEAN
      BY <2>1 DEF Entry
    <3>3. cache[s].in_use =>
            cache'[s].scan_visible
              = (cache[s].scan_visible \/ cache[s].uuid \in us)
      BY <2>3, <3>1, <3>2, Zenon
    <3> QED BY <3>1, <3>3
  <2> QED BY <2>2, <2>3
<1>2. ASSUME NEW c, NEW l
      PROVE  [Device(c) EXCEPT !.listed = l]
               = [addr |-> c.addr, name |-> c.name, listed |-> l,
                  attempt |-> c.last_attempt_ms]
  BY DEF Device
<1>3. ASSUME NEW s \in Slots, cache'[s].in_use
      PROVE  cache'[s].uuid \in DOMAIN F /\ F[cache'[s].uuid] = Device(cache'[s])
  <2> DEFINE u == cache[s].uuid
  <2>1. s \in UsedSlots /\ cache'[s].uuid = u /\ cache[s].in_use
    BY <1>1, <1>3 DEF UsedSlots
  <2>2. u \in CachedUuids /\ directory[u] = Device(cache[s])
    BY <2>1, DirectoryEntry
  <2> HIDE DEF u
  <2>3. PICK l : l = (directory[u].listed \/ u \in us)
    OBVIOUS
  <2>4. cache'[s].scan_visible = l
    <3>1. directory[u].listed = cache[s].scan_visible
      BY <2>2, DeviceFields, Zenon
    <3>2. cache'[s].scan_visible = (cache[s].scan_visible \/ u \in us)
      BY <1>1, <2>1, Zenon DEF u
    <3> QED BY <2>3, <3>1, <3>2, Zenon
  <2>5. F[u] = [Device(cache[s]) EXCEPT !.listed = l]
    BY <2>2, <2>3, Zenon
  <2>6. F[u] = [addr |-> cache[s].addr, name |-> cache[s].name, listed |-> l,
                attempt |-> cache[s].last_attempt_ms]
    BY <1>2, <2>5, Zenon
  <2>7. F[u] = Device(cache'[s])
    BY <1>1, <2>4, <2>6, Zenon DEF Device
  <2> QED BY <2>1, <2>2, <2>7
<1>4. ASSUME NEW v \in DOMAIN F
      PROVE  \E s \in Slots : cache'[s].in_use /\ cache'[s].uuid = v
  <2>1. PICK s \in UsedSlots : cache[s].uuid = v
    BY CachedSlot
  <2> QED BY <1>1, <2>1 DEF UsedSlots
<1>5. F = [v \in DOMAIN F |-> F[v]] /\ DOMAIN F = Directory!Known
  BY DirectoryDomain DEF Directory!Known
<1> HIDE DEF F
<1>6. directory' = F
  BY <1>3, <1>4, <1>5, NextDirectory
<1>7. CachedUuids = Directory!Known
  BY DirectoryDomain DEF Directory!Known
<1> QED BY <1>6, <1>7, Zenon DEF F

LEMMA MarkLists ==
  ASSUME IInv, IInv', NEW u \in Uuids, prov_cache_maybe_mark_visible(u)
  PROVE  Directory!List({u}) /\ {u} \subseteq Directory!Known
<1>1. PICK k \in SlotsWithUuid(u) :
        /\ cache[k].name # None
        /\ cache' = [cache EXCEPT ![k].scan_visible = TRUE]
  BY DEF prov_cache_maybe_mark_visible, First
<1>2. k \in UsedSlots /\ k \in Slots /\ cache[k].uuid = u
  BY DEF SlotsWithUuid, UsedSlots
<1>3. u \in CachedUuids /\ directory[u] = Device(cache[k])
  BY <1>2, DirectoryEntry
<1>4. \A s \in Slots :
        cache'[s] = IF cache[s].in_use /\ cache[s].uuid \in {u}
                    THEN [cache[s] EXCEPT !.scan_visible = TRUE] ELSE cache[s]
  BY <1>1, <1>2 DEF UsedSlots, IInv, TypeOK, UuidUnique
<1>5. directory' =
        [v \in Directory!Known |->
           [directory[v] EXCEPT !.listed = directory[v].listed \/ v \in {u}]]
  BY <1>3, <1>4, DevicesAreListed
<1>6. directory[u].name # None
  BY <1>1, <1>3, DeviceFields
<1> QED BY <1>3, <1>5, <1>6, DirectoryDomain DEF Directory!List, Directory!Known

LEMMA MarkAllLists ==
  ASSUME IInv, IInv', prov_cache_mark_all_ready_visible
  PROVE  \/ \E us \in SUBSET Directory!Known : Directory!List(us)
         \/ directory' = directory
<1> DEFINE us == {u \in CachedUuids : directory[u].name # None}
<1>1. \A s \in UsedSlots :
        /\ cache[s].uuid \in us <=> cache[s].name # None
        /\ cache[s].uuid # None
  BY DirectoryEntry, DeviceFields DEF UsedSlots, IInv, WellFormed
<1>2. us \in SUBSET CachedUuids
  OBVIOUS
<1> HIDE DEF us
<1>3. \A s \in Slots :
        cache'[s] = IF cache[s].in_use /\ cache[s].uuid \in us
                    THEN [cache[s] EXCEPT !.scan_visible = TRUE] ELSE cache[s]
  BY <1>1 DEF prov_cache_mark_all_ready_visible, UsedSlots
<1>4. directory' =
        [u \in Directory!Known |->
           [directory[u] EXCEPT !.listed = directory[u].listed \/ u \in us]]
  BY <1>2, <1>3, DevicesAreListed
<1>5. us \in SUBSET Directory!Known
  BY <1>2, DirectoryDomain DEF Directory!Known
<1>6. CASE us # {}
  <2>1. \A u \in us : directory[u].name # None
    BY DEF us
  <2>2. Directory!List(us)
    BY <1>4, <1>6, <2>1 DEF Directory!List
  <2> QED BY <1>5, <2>2
<1>7. CASE us = {}
  <2>1. \A s \in Slots : cache'[s] = cache[s]
    BY <1>3, <1>7
  <2>2. cache' = cache
    BY <2>1 DEF IInv, TypeOK
  <2> QED BY <2>2 DEF directory, CachedUuids, SlotsWithUuid
<1> QED BY <1>6, <1>7

-----------------------------------------------------------------------------

LEMMA InitDirectory == Init => Directory!Init
<1> SUFFICES ASSUME Init PROVE directory = << >>
  BY DEF Directory!Init
<1>1. CachedUuids = {}
  BY DEF CachedUuids, Init, Cleared
<1> QED BY <1>1 DEF directory

LEMMA CallIsDirectoryStep ==
  ASSUME IInv, IInv', [Next]_vars
  PROVE  [Directory!Next]_directory
<1>1. CASE \E a \in Addrs, u \in Uuids : prov_cache_adv_uuid_seen(a, u)
  BY <1>1, AdvertisementMovesOrAppears DEF Directory!Next
<1>2. CASE \E a \in Addrs, n \in Names : prov_cache_scan_rsp_name_seen(a, n)
  BY <1>2, NameIsHeard DEF Directory!Next
<1>3. CASE \E u \in Uuids : prov_cache_ensure_uuid(u)
  BY <1>3, BeaconIsHeard DEF Directory!Next
<1>4. CASE \E u \in Uuids : prov_cache_maybe_mark_visible(u)
  BY <1>4, MarkLists DEF Directory!Next
<1>5. CASE prov_cache_mark_all_ready_visible
  BY <1>5, MarkAllLists DEF Directory!Next
<1>6. CASE \E u \in Uuids, now \in Times : prov_cache_mark_attempt(u, now)
  BY <1>6, AttemptIsNoted DEF Directory!Next
<1>7. CASE \E u \in Uuids : prov_cache_on_configuration_success(u)
  BY <1>7, DeviceIsForgotten DEF Directory!Next
<1>8. CASE UNCHANGED vars
  BY <1>8 DEF vars, directory, CachedUuids, SlotsWithUuid
<1> QED BY <1>1, <1>2, <1>3, <1>4, <1>5, <1>6, <1>7, <1>8 DEF Next

(* The array of slots, with its searches, merges and eviction cursor, behaves
   as a directory of CacheMax devices: what a caller sees of a device changes
   only as the directory allows. *)
THEOREM CacheIsADirectory == Spec => ImplementsDirectory
<1>1. IInv /\ IInv' /\ [Next]_vars => [Directory!Next]_directory
  BY CallIsDirectoryStep
<1> QED BY <1>1, InitDirectory, Invariant, PTL
        DEF Spec, ImplementsDirectory, Directory!Spec
=============================================================================
