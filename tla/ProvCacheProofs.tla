--------------------------- MODULE ProvCacheProofs ---------------------------
(***************************************************************************)
(* Proofs about the provisioner cache, for every size of the cache and all *)
(* sets of UUIDs, addresses and names.                                     *)
(***************************************************************************)
EXTENDS ProvCache, FiniteSetTheorems, WellFoundedInduction, TLAPS

(* The inductive invariant: types, at most one entry for a UUID and for an
   address, what a free entry and a listed one hold. *)
IInv ==
  /\ TypeOK
  /\ WellFormed
  /\ UuidUnique
  /\ AddrUnique
  /\ VisibleIsNamed

-----------------------------------------------------------------------------
(* Entries                                                                 *)

(* entry_clear leaves a well-typed entry. *)
LEMMA ClearedType ==
  ASSUME NEW inUse \in BOOLEAN
  PROVE  Cleared(inUse) \in Entry
BY DEF Cleared, Entry

(* The allocator returns a slot and leaves the cursor inside the array. *)
LEMMA AllocType ==
  ASSUME TypeOK, NEW s \in Slots, alloc_entry_locked(s)
  PROVE  evict_cursor' \in Slots
<1>1. CASE UNCHANGED evict_cursor
  BY <1>1 DEF TypeOK
<1>2. CASE evict_cursor' = (s + 1) % CacheMax
  BY <1>2, CacheMaxAssumption DEF Slots
<1> QED BY <1>1, <1>2 DEF alloc_entry_locked

(* What an entry must satisfy to be stored in slot s next to the others. *)
Fits(e, s) ==
  /\ e.in_use <=> e.uuid # None
  /\ ~e.in_use => e.name = None /\ ~e.scan_visible
  /\ e.in_use /\ e.scan_visible => e.name # None
  /\ \A t \in Slots : t # s /\ cache[t].in_use /\ e.in_use
       => /\ cache[t].uuid # e.uuid
          /\ e.addr # None => cache[t].addr # e.addr

(* Every call but two changes one entry: the invariant survives if it fits. *)
LEMMA StoreKeepsIInv ==
  ASSUME IInv, NEW s \in Slots, NEW e \in Entry, Fits(e, s),
         cache' = [cache EXCEPT ![s] = e], evict_cursor' \in Slots
  PROVE  IInv'
<1>1. cache \in [Slots -> Entry]
  BY DEF IInv, TypeOK
<1>2. /\ cache'[s] = e
      /\ \A t \in Slots : t # s => cache'[t] = cache[t]
  BY <1>1
<1>3. TypeOK'
  BY <1>1 DEF TypeOK
<1>4. WellFormed'
  BY <1>2 DEF IInv, WellFormed, Fits
<1>5. UuidUnique'
  <2> SUFFICES ASSUME NEW t \in Slots, NEW r \in Slots, t # r,
                      cache'[t].in_use, cache'[r].in_use,
                      cache'[t].uuid = cache'[r].uuid
               PROVE  FALSE
    BY DEF UuidUnique
  <2>1. CASE t # s /\ r # s
    BY <1>2, <2>1 DEF IInv, UuidUnique
  <2>2. CASE t = s \/ r = s
    BY <1>2, <2>2 DEF Fits
  <2> QED BY <2>1, <2>2
<1>6. AddrUnique'
  <2> SUFFICES ASSUME NEW t \in Slots, NEW r \in Slots, t # r,
                      cache'[t].in_use, cache'[r].in_use,
                      cache'[t].addr # None, cache'[t].addr = cache'[r].addr
               PROVE  FALSE
    BY DEF AddrUnique
  <2>1. CASE t # s /\ r # s
    BY <1>2, <2>1 DEF IInv, AddrUnique
  <2>2. CASE t = s \/ r = s
    BY <1>2, <2>2 DEF Fits
  <2> QED BY <2>1, <2>2
<1>7. VisibleIsNamed'
  BY <1>2 DEF IInv, VisibleIsNamed, VisibleSlots, Fits
<1> QED BY <1>3, <1>4, <1>5, <1>6, <1>7 DEF IInv

-----------------------------------------------------------------------------
(* The calls, one lemma each                                               *)

LEMMA InsertKeepsIInv ==
  ASSUME IInv, NEW s \in Slots, NEW u \in Uuids, NEW a \in Addrs \cup {None},
         SlotsWithUuid(u) = {}, a # None => SlotsWithAddr(a) = {},
         alloc_entry_locked(s),
         cache' = [cache EXCEPT ![s] = [Cleared(TRUE) EXCEPT !.addr = a,
                                                             !.uuid = u]]
  PROVE  IInv'
<1> DEFINE e == [Cleared(TRUE) EXCEPT !.addr = a, !.uuid = u]
<1>1. /\ e \in Entry
      /\ e.in_use /\ e.addr = a /\ e.uuid = u /\ e.name = None
      /\ ~e.scan_visible
  BY DEF Cleared, Entry
<1>2. cache' = [cache EXCEPT ![s] = e]
  OBVIOUS
<1> HIDE DEF e
<1>3. Fits(e, s)
  BY <1>1, NoneAssumption DEF Fits, SlotsWithUuid, SlotsWithAddr
<1>4. evict_cursor' \in Slots
  BY AllocType DEF IInv
<1> QED BY <1>1, <1>2, <1>3, <1>4, StoreKeepsIInv

(* A device moved to an address no other entry holds. *)
LEMMA UpdateAddrKeepsIInv ==
  ASSUME IInv, NEW a \in Addrs, NEW u \in Uuids, NEW j \in SlotsWithUuid(u),
         SlotsWithAddr(a) \subseteq {j}, UpdateAddr(a, j)
  PROVE  IInv'
<1> DEFINE e == [cache[j] EXCEPT !.addr = a]
<1>1. j \in Slots /\ cache[j] \in Entry /\ cache[j].in_use
  BY DEF SlotsWithUuid, IInv, TypeOK
<1>2. /\ e \in Entry
      /\ e.in_use = cache[j].in_use /\ e.addr = a /\ e.uuid = cache[j].uuid
      /\ e.name = cache[j].name /\ e.scan_visible = cache[j].scan_visible
  BY <1>1 DEF Entry
<1>3. cache' = [cache EXCEPT ![j] = e] /\ evict_cursor' \in Slots
  BY DEF UpdateAddr, IInv, TypeOK
<1> HIDE DEF e
<1>4. Fits(e, j)
  BY <1>1, <1>2 DEF Fits, SlotsWithAddr, IInv, WellFormed, UuidUnique,
    VisibleIsNamed, VisibleSlots
<1> QED BY <1>1, <1>2, <1>3, <1>4, StoreKeepsIInv

(* An address whose UUID changed, to one that is not in the cache. *)
LEMMA ReuseAddrKeepsIInv ==
  ASSUME IInv, NEW a \in Addrs, NEW u \in Uuids, NEW i \in SlotsWithAddr(a),
         SlotsWithUuid(u) = {}, ReuseAddrEntry(a, u, i)
  PROVE  IInv'
<1> DEFINE e == [Cleared(TRUE) EXCEPT !.addr = a, !.uuid = u]
<1>1. /\ i \in Slots /\ cache[i] \in Entry
      /\ cache[i].in_use /\ cache[i].addr = a
  BY DEF SlotsWithAddr, IInv, TypeOK
<1>2. cache[i].uuid \notin {None, u}
  BY <1>1 DEF SlotsWithUuid, IInv, WellFormed
<1>3. /\ e \in Entry
      /\ e.in_use /\ e.addr = a /\ e.uuid = u /\ e.name = None
      /\ ~e.scan_visible
  BY DEF Cleared, Entry
<1>4. cache' = [cache EXCEPT ![i] = e] /\ evict_cursor' \in Slots
  BY <1>2 DEF ReuseAddrEntry, IInv, TypeOK
<1> HIDE DEF e
<1>5. Fits(e, i)
  BY <1>1, <1>3, NoneAssumption DEF Fits, SlotsWithUuid, IInv, AddrUnique
<1> QED BY <1>1, <1>3, <1>4, <1>5, StoreKeepsIInv

(* The merge frees one entry and moves the address to another: as if the first
   were stored blank, and then the second were stored. *)
LEMMA MergeKeepsIInv ==
  ASSUME IInv, NEW a \in Addrs, NEW u \in Uuids, NEW i \in SlotsWithAddr(a),
         NEW j \in SlotsWithUuid(u), MergeIntoUuid(a, i, j)
  PROVE  IInv'
<1> DEFINE name == IF cache[j].name = None THEN cache[i].name ELSE cache[j].name
           visible == cache[j].scan_visible \/ cache[i].scan_visible
           e == [cache[j] EXCEPT !.addr = a, !.name = name,
                                 !.scan_visible = visible]
<1>1. /\ i \in Slots /\ j \in Slots /\ i # j
      /\ cache \in [Slots -> Entry]
      /\ cache[i] \in Entry /\ cache[i].in_use /\ cache[i].addr = a
      /\ cache[j] \in Entry /\ cache[j].in_use /\ cache[j].uuid # None
  BY DEF SlotsWithAddr, SlotsWithUuid, MergeIntoUuid, IInv, TypeOK, WellFormed
<1>2. name \in Names \cup {None} /\ visible \in BOOLEAN
  BY <1>1 DEF Entry
<1>3. visible => name # None
  BY <1>1 DEF IInv, VisibleIsNamed, VisibleSlots
<1>4. cache' = [cache EXCEPT ![i] = Cleared(FALSE), ![j] = e]
  BY <1>1 DEF MergeIntoUuid
<1> HIDE DEF name, visible
<1>5. /\ e \in Entry
      /\ e.in_use = cache[j].in_use /\ e.addr = a /\ e.uuid = cache[j].uuid
      /\ e.name = name /\ e.scan_visible = visible
  BY <1>1, <1>2 DEF Entry
<1> HIDE DEF e
<1>6. /\ Cleared(FALSE) \in Entry /\ ~Cleared(FALSE).in_use
      /\ Cleared(FALSE).uuid = None /\ Cleared(FALSE).name = None
      /\ ~Cleared(FALSE).scan_visible
  BY DEF Cleared, Entry
<1>7. /\ cache' \in [Slots -> Entry]
      /\ cache'[i] = Cleared(FALSE) /\ cache'[j] = e
      /\ \A t \in Slots : t # i /\ t # j => cache'[t] = cache[t]
  BY <1>1, <1>4, <1>5, <1>6
<1>8. TypeOK'
  BY <1>7 DEF TypeOK, MergeIntoUuid, IInv
<1>9. WellFormed'
  <2> SUFFICES ASSUME NEW t \in Slots
               PROVE  /\ cache'[t].in_use <=> cache'[t].uuid # None
                      /\ ~cache'[t].in_use => /\ cache'[t].name = None
                                              /\ ~cache'[t].scan_visible
    BY DEF WellFormed
  <2>1. CASE t = i
    BY <1>6, <1>7, <2>1
  <2>2. CASE t = j
    BY <1>1, <1>5, <1>7, <2>2
  <2>3. CASE t # i /\ t # j
    BY <1>7, <2>3 DEF IInv, WellFormed
  <2> QED BY <2>1, <2>2, <2>3
<1>10. UuidUnique'
  <2> SUFFICES ASSUME NEW t \in Slots, NEW r \in Slots, t # r,
                      cache'[t].in_use, cache'[r].in_use,
                      cache'[t].uuid = cache'[r].uuid
               PROVE  FALSE
    BY DEF UuidUnique
  <2>1. t # i /\ r # i
    BY <1>6, <1>7
  <2>2. /\ cache[t].in_use /\ cache[r].in_use
        /\ cache[t].uuid = cache[r].uuid
    BY <1>1, <1>5, <1>7, <2>1
  <2> QED BY <2>2 DEF IInv, UuidUnique
<1>11. AddrUnique'
  <2> SUFFICES ASSUME NEW t \in Slots, NEW r \in Slots, t # r,
                      cache'[t].in_use, cache'[r].in_use,
                      cache'[t].addr # None, cache'[t].addr = cache'[r].addr
               PROVE  FALSE
    BY DEF AddrUnique
  <2>1. t # i /\ r # i
    BY <1>6, <1>7
  <2>2. CASE t # j /\ r # j
    BY <1>7, <2>1, <2>2 DEF IInv, AddrUnique
  <2>3. CASE t = j \/ r = j
    BY <1>1, <1>5, <1>7, <2>1, <2>3 DEF IInv, AddrUnique
  <2> QED BY <2>2, <2>3
<1>12. VisibleIsNamed'
  BY <1>1, <1>3, <1>5, <1>6, <1>7 DEF IInv, VisibleIsNamed, VisibleSlots
<1> QED BY <1>8, <1>9, <1>10, <1>11, <1>12 DEF IInv

(* A PB-GATT advertisement, whichever of its four cases applies. *)
LEMMA AdvKeepsIInv ==
  ASSUME IInv, NEW a \in Addrs, NEW u \in Uuids, prov_cache_adv_uuid_seen(a, u)
  PROVE  IInv'
<1>1. CASE \E i \in First(SlotsWithAddr(a)), j \in First(SlotsWithUuid(u)) :
             MergeIntoUuid(a, i, j)
  BY <1>1, MergeKeepsIInv DEF First
<1>2. CASE \E j \in First(SlotsWithUuid(u)) :
             SlotsWithAddr(a) \subseteq {j} /\ UpdateAddr(a, j)
  BY <1>2, UpdateAddrKeepsIInv DEF First
<1>3. CASE /\ SlotsWithUuid(u) = {}
           /\ \E i \in First(SlotsWithAddr(a)) : ReuseAddrEntry(a, u, i)
  BY <1>3, ReuseAddrKeepsIInv DEF First
<1>4. CASE /\ SlotsWithUuid(u) = {} /\ SlotsWithAddr(a) = {}
           /\ \E s \in Slots : InsertAdv(a, u, s)
  BY <1>4, InsertKeepsIInv DEF InsertAdv
<1> QED BY <1>1, <1>2, <1>3, <1>4 DEF prov_cache_adv_uuid_seen

LEMMA NameKeepsIInv ==
  ASSUME IInv, NEW a \in Addrs, NEW n \in Names,
         prov_cache_scan_rsp_name_seen(a, n)
  PROVE  IInv'
<1>1. PICK s \in First(SlotsWithAddr(a)) : cache' = [cache EXCEPT ![s].name = n]
  BY DEF prov_cache_scan_rsp_name_seen
<1> DEFINE e == [cache[s] EXCEPT !.name = n]
<1>2. s \in Slots /\ cache[s] \in Entry /\ cache[s].in_use
  BY DEF First, SlotsWithAddr, IInv, TypeOK
<1>3. /\ e \in Entry
      /\ e.in_use = cache[s].in_use /\ e.addr = cache[s].addr
      /\ e.uuid = cache[s].uuid /\ e.name = n
  BY <1>2 DEF Entry
<1>4. cache' = [cache EXCEPT ![s] = e] /\ evict_cursor' \in Slots
  BY <1>1 DEF prov_cache_scan_rsp_name_seen, IInv, TypeOK
<1> HIDE DEF e
<1>5. Fits(e, s)
  BY <1>2, <1>3, NoneAssumption
  DEF Fits, IInv, WellFormed, UuidUnique, AddrUnique
<1> QED BY <1>2, <1>3, <1>4, <1>5, StoreKeepsIInv

(* A beacon of a UUID the cache does not hold. *)
LEMMA EnsureKeepsIInv ==
  ASSUME IInv, NEW u \in Uuids, prov_cache_ensure_uuid(u)
  PROVE  IInv'
<1>1. PICK s \in Slots :
        /\ alloc_entry_locked(s)
        /\ cache' = [cache EXCEPT
             ![s] = [Cleared(TRUE) EXCEPT !.addr = None, !.uuid = u]]
  BY DEF prov_cache_ensure_uuid
<1> QED BY <1>1, InsertKeepsIInv DEF prov_cache_ensure_uuid

LEMMA VisibleKeepsIInv ==
  ASSUME IInv, NEW u \in Uuids, prov_cache_maybe_mark_visible(u)
  PROVE  IInv'
<1>1. PICK s \in First(SlotsWithUuid(u)) :
        /\ cache[s].name # None
        /\ cache' = [cache EXCEPT ![s].scan_visible = TRUE]
  BY DEF prov_cache_maybe_mark_visible
<1> DEFINE e == [cache[s] EXCEPT !.scan_visible = TRUE]
<1>2. s \in Slots /\ cache[s] \in Entry /\ cache[s].in_use
  BY DEF First, SlotsWithUuid, IInv, TypeOK
<1>3. /\ e \in Entry
      /\ e.in_use = cache[s].in_use /\ e.addr = cache[s].addr
      /\ e.uuid = cache[s].uuid /\ e.name = cache[s].name
  BY <1>2 DEF Entry
<1>4. cache' = [cache EXCEPT ![s] = e] /\ evict_cursor' \in Slots
  BY <1>1 DEF prov_cache_maybe_mark_visible, IInv, TypeOK
<1> HIDE DEF e
<1>5. Fits(e, s)
  BY <1>1, <1>2, <1>3 DEF Fits, IInv, WellFormed, UuidUnique, AddrUnique
<1> QED BY <1>2, <1>3, <1>4, <1>5, StoreKeepsIInv

LEMMA AttemptKeepsIInv ==
  ASSUME IInv, NEW u \in Uuids, NEW now \in Times,
         prov_cache_mark_attempt(u, now)
  PROVE  IInv'
<1>1. PICK s \in First(SlotsWithUuid(u)) :
        cache' = [cache EXCEPT ![s].last_attempt_ms = now]
  BY DEF prov_cache_mark_attempt
<1> DEFINE e == [cache[s] EXCEPT !.last_attempt_ms = now]
<1>2. s \in Slots /\ cache[s] \in Entry /\ cache[s].in_use
  BY DEF First, SlotsWithUuid, IInv, TypeOK
<1>3. /\ e \in Entry
      /\ e.in_use = cache[s].in_use /\ e.addr = cache[s].addr
      /\ e.uuid = cache[s].uuid /\ e.name = cache[s].name
      /\ e.scan_visible = cache[s].scan_visible
  BY <1>2, TimesAssumption DEF Entry
<1>4. cache' = [cache EXCEPT ![s] = e] /\ evict_cursor' \in Slots
  BY <1>1 DEF prov_cache_mark_attempt, IInv, TypeOK
<1> HIDE DEF e
<1>5. Fits(e, s)
  BY <1>2, <1>3 DEF Fits, IInv, WellFormed, UuidUnique, AddrUnique,
    VisibleIsNamed, VisibleSlots
<1> QED BY <1>2, <1>3, <1>4, <1>5, StoreKeepsIInv

LEMMA SuccessKeepsIInv ==
  ASSUME IInv, NEW u \in Uuids, prov_cache_on_configuration_success(u)
  PROVE  IInv'
<1>1. PICK s \in Slots : cache' = [cache EXCEPT ![s] = Cleared(FALSE)]
  BY DEF prov_cache_on_configuration_success, First, SlotsWithUuid
<1>2. /\ Cleared(FALSE) \in Entry /\ ~Cleared(FALSE).in_use
      /\ Cleared(FALSE).uuid = None /\ Cleared(FALSE).name = None
      /\ ~Cleared(FALSE).scan_visible
  BY DEF Cleared, Entry
<1>3. Fits(Cleared(FALSE), s) /\ evict_cursor' \in Slots
  BY <1>2 DEF Fits, prov_cache_on_configuration_success, IInv, TypeOK
<1> QED BY <1>1, <1>2, <1>3, StoreKeepsIInv

(* `prov scan on` changes the listing of entries and nothing else of them. *)
LEMMA ListAllKeepsIInv ==
  ASSUME IInv, prov_cache_mark_all_ready_visible
  PROVE  IInv'
<1>1. cache \in [Slots -> Entry]
  BY DEF IInv, TypeOK
<1>2. ASSUME NEW t \in Slots
      PROVE  /\ cache'[t] \in Entry
             /\ cache'[t].in_use = cache[t].in_use
             /\ cache'[t].addr = cache[t].addr
             /\ cache'[t].uuid = cache[t].uuid
             /\ cache'[t].name = cache[t].name
             /\ \/ cache'[t].scan_visible = cache[t].scan_visible
                \/ cache[t].in_use /\ cache[t].name # None
  BY <1>1 DEF prov_cache_mark_all_ready_visible, Entry
<1>3. TypeOK'
  BY <1>2 DEF TypeOK, IInv, prov_cache_mark_all_ready_visible
<1>4. WellFormed'
  BY <1>2 DEF IInv, WellFormed
<1>5. UuidUnique' /\ AddrUnique'
  BY <1>2 DEF IInv, UuidUnique, AddrUnique
<1>6. VisibleIsNamed'
  BY <1>2 DEF IInv, WellFormed, VisibleIsNamed, VisibleSlots
<1> QED BY <1>3, <1>4, <1>5, <1>6 DEF IInv

-----------------------------------------------------------------------------
(* The theorems                                                            *)

LEMMA InitIInv == Init => IInv
<1> SUFFICES ASSUME Init PROVE IInv
  OBVIOUS
<1> DEFINE Zeroed(now) == [Cleared(FALSE) EXCEPT !.last_attempt_ms = now]
           e == Zeroed(0)
<1>1. /\ e \in Entry
      /\ ~e.in_use /\ ~e.scan_visible /\ e.uuid = None /\ e.name = None
  <2>1. ASSUME NEW now \in Int
        PROVE  LET z == Zeroed(now)
               IN  /\ z \in Entry
                   /\ ~z.in_use /\ ~z.scan_visible
                   /\ z.uuid = None /\ z.name = None
    BY DEF Cleared, Entry
  <2> HIDE DEF Zeroed
  <2> QED BY <2>1
<1>2. cache = [s \in Slots |-> e]
  BY DEF Init
<1> HIDE DEF e
<1>3. \A s \in Slots : cache[s] = e
  BY <1>2
<1>4. 0 \in Slots
  BY CacheMaxAssumption DEF Slots
<1>5. TypeOK
  BY <1>1, <1>2, <1>4 DEF Init, TypeOK
<1> QED
  BY <1>1, <1>3, <1>5 DEF IInv, WellFormed, UuidUnique, AddrUnique,
    VisibleIsNamed, VisibleSlots

LEMMA NextIInv == IInv /\ [Next]_vars => IInv'
<1> SUFFICES ASSUME IInv, [Next]_vars PROVE IInv'
  OBVIOUS
<1>1. CASE \E a \in Addrs, u \in Uuids : prov_cache_adv_uuid_seen(a, u)
  BY <1>1, AdvKeepsIInv
<1>2. CASE \E a \in Addrs, n \in Names : prov_cache_scan_rsp_name_seen(a, n)
  BY <1>2, NameKeepsIInv
<1>3. CASE \E u \in Uuids : prov_cache_ensure_uuid(u)
  BY <1>3, EnsureKeepsIInv
<1>4. CASE \E u \in Uuids : prov_cache_maybe_mark_visible(u)
  BY <1>4, VisibleKeepsIInv
<1>5. CASE prov_cache_mark_all_ready_visible
  BY <1>5, ListAllKeepsIInv
<1>6. CASE \E u \in Uuids, now \in Times : prov_cache_mark_attempt(u, now)
  BY <1>6, AttemptKeepsIInv
<1>7. CASE \E u \in Uuids : prov_cache_on_configuration_success(u)
  BY <1>7, SuccessKeepsIInv
<1>8. CASE UNCHANGED vars
  BY <1>8 DEF vars, IInv, TypeOK, WellFormed, UuidUnique, AddrUnique,
    VisibleIsNamed, VisibleSlots
<1> QED
  BY <1>1, <1>2, <1>3, <1>4, <1>5, <1>6, <1>7, <1>8 DEF Next

(* The inductive invariant holds in every state of the cache. *)
THEOREM Invariant == Spec => []IInv
BY InitIInv, NextIInv, PTL DEF Spec

(* Every entry and the eviction cursor keep their types: the cursor never
   leaves the array. *)
THEOREM TypeCorrect == Spec => []TypeOK
<1>1. IInv => TypeOK
  BY DEF IInv
<1> QED BY <1>1, Invariant, PTL

(* However advertisements, beacons, merges and evictions follow one another,
   no UUID and no address ever has two entries, so that the first match of a
   search is the only one. *)
THEOREM OneEntryPerDevice == Spec => [](UuidUnique /\ AddrUnique)
<1>1. IInv => UuidUnique /\ AddrUnique
  BY DEF IInv
<1> QED BY <1>1, Invariant, PTL

(* `prov scan` lists only devices whose UUID and name are both known. *)
THEOREM ListedDevicesAreNamed == Spec => [](VisibleIsNamed /\ WellFormed)
<1>1. IInv => VisibleIsNamed /\ WellFormed
  BY DEF IInv
<1> QED BY <1>1, Invariant, PTL

(* An entry in use has a UUID: a UUID is what finds it, and nothing of a device
   stays behind in an entry that is freed. *)
THEOREM EntriesHaveUuids == Spec => []WellFormed
<1>1. IInv => WellFormed
  BY DEF IInv
<1> QED BY <1>1, Invariant, PTL

(* Merges, address changes and evictions never leave two entries with one
   address. *)
THEOREM OneEntryPerAddress == Spec => []AddrUnique
<1>1. IInv => AddrUnique
  BY DEF IInv
<1> QED BY <1>1, Invariant, PTL

-----------------------------------------------------------------------------
(* What a call leaves of an entry                                          *)

(* A device that stays in the cache stays in its slot, with its last attempt. *)
Stays(u, s) ==
  \A t \in Slots :
    cache'[t].in_use /\ cache'[t].uuid = u
      => t = s /\ cache'[s].last_attempt_ms = cache[s].last_attempt_ms

LEMMA StoreStays ==
  ASSUME IInv, NEW u \in Uuids, NEW s \in SlotsWithUuid(u),
         NEW k \in Slots, NEW e, cache' = [cache EXCEPT ![k] = e],
         e.in_use /\ e.uuid = u
           => k = s /\ e.last_attempt_ms = cache[s].last_attempt_ms
  PROVE  Stays(u, s)
<1>1. /\ cache'[k] = e
      /\ \A t \in Slots : t # k => cache'[t] = cache[t]
  BY DEF IInv, TypeOK
<1>2. s \in Slots /\ cache[s].in_use /\ cache[s].uuid = u
  BY DEF SlotsWithUuid
<1> SUFFICES ASSUME NEW t \in Slots, cache'[t].in_use, cache'[t].uuid = u
             PROVE  t = s /\ cache'[s].last_attempt_ms = cache[s].last_attempt_ms
  BY DEF Stays
<1>3. CASE t = k
  BY <1>1, <1>3
<1>4. CASE t # k
  <2>1. t = s
    BY <1>1, <1>2, <1>4 DEF IInv, UuidUnique
  <2> QED BY <1>1, <1>4, <2>1
<1> QED BY <1>3, <1>4

(* An entry whose UUID and last attempt are left alone. *)
LEMMA ChangeStays ==
  ASSUME IInv, NEW u \in Uuids, NEW s \in SlotsWithUuid(u),
         NEW k \in Slots, cache[k].in_use,
         NEW e, cache' = [cache EXCEPT ![k] = e],
         e.in_use => /\ e.uuid = cache[k].uuid
                     /\ e.last_attempt_ms = cache[k].last_attempt_ms
  PROVE  Stays(u, s)
<1>1. cache[k].uuid = u => k = s
  BY DEF IInv, UuidUnique, SlotsWithUuid
<1> QED BY <1>1, StoreStays

(* A device that enters the cache is another one. *)
LEMMA InsertStays ==
  ASSUME IInv, NEW u \in Uuids, NEW s \in SlotsWithUuid(u),
         NEW k \in Slots, NEW v, NEW a, SlotsWithUuid(v) = {},
         cache' = [cache EXCEPT ![k] = [Cleared(TRUE) EXCEPT !.addr = a,
                                                             !.uuid = v]]
  PROVE  Stays(u, s)
<1> DEFINE e == [Cleared(TRUE) EXCEPT !.addr = a, !.uuid = v]
<1>1. e.uuid = v /\ v # u
  BY DEF Cleared
<1>2. cache' = [cache EXCEPT ![k] = e]
  OBVIOUS
<1> HIDE DEF e
<1> QED BY <1>1, <1>2, StoreStays

LEMMA AdvStays ==
  ASSUME IInv, NEW u \in Uuids, NEW s \in SlotsWithUuid(u),
         NEW a \in Addrs, NEW v \in Uuids, prov_cache_adv_uuid_seen(a, v)
  PROVE  Stays(u, s)
<1>1. CASE \E i \in First(SlotsWithAddr(a)), j \in First(SlotsWithUuid(v)) :
             MergeIntoUuid(a, i, j)
  <2>1. PICK i \in Slots, j \in Slots :
          /\ cache[j].in_use /\ MergeIntoUuid(a, i, j)
    BY <1>1 DEF First, SlotsWithAddr, SlotsWithUuid
  <2> DEFINE name == IF cache[j].name = None THEN cache[i].name
                     ELSE cache[j].name
             visible == cache[j].scan_visible \/ cache[i].scan_visible
             e == [cache[j] EXCEPT !.addr = a, !.name = name,
                                   !.scan_visible = visible]
  <2>2. cache' = [cache EXCEPT ![i] = Cleared(FALSE), ![j] = e] /\ i # j
    BY <2>1 DEF MergeIntoUuid
  <2>3. cache \in [Slots -> Entry] /\ cache[j] \in Entry
    BY <2>1 DEF IInv, TypeOK
  <2> HIDE DEF name, visible
  <2>4. /\ e.uuid = cache[j].uuid
        /\ e.last_attempt_ms = cache[j].last_attempt_ms
    BY <2>3 DEF Entry
  <2> HIDE DEF e
  <2>5. /\ cache'[i] = Cleared(FALSE) /\ cache'[j] = e
        /\ \A t \in Slots : t # i /\ t # j => cache'[t] = cache[t]
    BY <2>1, <2>2, <2>3
  <2>6. ~Cleared(FALSE).in_use
    BY DEF Cleared
  <2>7. ASSUME NEW t \in Slots, cache'[t].in_use, cache'[t].uuid = u
        PROVE  t = s /\ cache'[s].last_attempt_ms = cache[s].last_attempt_ms
    <3>1. t # i
      BY <2>5, <2>6, <2>7
    <3>2. /\ cache[t].in_use /\ cache[t].uuid = u
          /\ cache'[t].last_attempt_ms = cache[t].last_attempt_ms
      BY <2>1, <2>4, <2>5, <2>7, <3>1
    <3>3. t = s
      BY <3>2 DEF IInv, UuidUnique, SlotsWithUuid
    <3> QED BY <3>2, <3>3
  <2> QED BY <2>7 DEF Stays
<1>2. CASE \E j \in First(SlotsWithUuid(v)) : UpdateAddr(a, j)
  <2>1. PICK j \in Slots : cache[j].in_use /\ UpdateAddr(a, j)
    BY <1>2 DEF First, SlotsWithUuid
  <2> DEFINE e == [cache[j] EXCEPT !.addr = a]
  <2>2. cache[j] \in Entry /\ cache' = [cache EXCEPT ![j] = e]
    BY <2>1 DEF UpdateAddr, IInv, TypeOK
  <2>3. /\ e.uuid = cache[j].uuid
        /\ e.last_attempt_ms = cache[j].last_attempt_ms
    BY <2>2 DEF Entry
  <2> HIDE DEF e
  <2> QED BY <2>1, <2>2, <2>3, ChangeStays
<1>3. CASE /\ SlotsWithUuid(v) = {}
           /\ \E i \in First(SlotsWithAddr(a)) : ReuseAddrEntry(a, v, i)
  <2>1. PICK i \in Slots : cache[i].in_use /\ ReuseAddrEntry(a, v, i)
    BY <1>3 DEF First, SlotsWithAddr
  <2>2. cache[i].uuid \notin {None, v}
    BY <1>3, <2>1 DEF SlotsWithUuid, IInv, WellFormed
  <2>3. cache' = [cache EXCEPT ![i] = [Cleared(TRUE) EXCEPT !.addr = a,
                                                            !.uuid = v]]
    BY <2>1, <2>2 DEF ReuseAddrEntry, IInv, TypeOK
  <2> QED BY <1>3, <2>1, <2>3, InsertStays
<1>4. CASE /\ SlotsWithUuid(v) = {}
           /\ \E k \in Slots : InsertAdv(a, v, k)
  BY <1>4, InsertStays DEF InsertAdv
<1> QED BY <1>1, <1>2, <1>3, <1>4 DEF prov_cache_adv_uuid_seen

(* A call that rewrites one entry in use, not its UUID nor its last attempt. *)
LEMMA NameStays ==
  ASSUME IInv, NEW u \in Uuids, NEW s \in SlotsWithUuid(u),
         NEW a \in Addrs, NEW n \in Names, prov_cache_scan_rsp_name_seen(a, n)
  PROVE  Stays(u, s)
<1>1. PICK k \in Slots :
        cache[k].in_use /\ cache' = [cache EXCEPT ![k].name = n]
  BY DEF prov_cache_scan_rsp_name_seen, First, SlotsWithAddr
<1> DEFINE e == [cache[k] EXCEPT !.name = n]
<1>2. cache[k] \in Entry /\ cache' = [cache EXCEPT ![k] = e]
  BY <1>1 DEF IInv, TypeOK
<1>3. e.uuid = cache[k].uuid /\ e.last_attempt_ms = cache[k].last_attempt_ms
  BY <1>2 DEF Entry
<1> HIDE DEF e
<1> QED BY <1>1, <1>2, <1>3, ChangeStays

LEMMA VisibleStays ==
  ASSUME IInv, NEW u \in Uuids, NEW s \in SlotsWithUuid(u),
         NEW v \in Uuids, prov_cache_maybe_mark_visible(v)
  PROVE  Stays(u, s)
<1>1. PICK k \in Slots :
        cache[k].in_use /\ cache' = [cache EXCEPT ![k].scan_visible = TRUE]
  BY DEF prov_cache_maybe_mark_visible, First, SlotsWithUuid
<1> DEFINE e == [cache[k] EXCEPT !.scan_visible = TRUE]
<1>2. cache[k] \in Entry /\ cache' = [cache EXCEPT ![k] = e]
  BY <1>1 DEF IInv, TypeOK
<1>3. e.uuid = cache[k].uuid /\ e.last_attempt_ms = cache[k].last_attempt_ms
  BY <1>2 DEF Entry
<1> HIDE DEF e
<1> QED BY <1>1, <1>2, <1>3, ChangeStays

LEMMA ListAllStays ==
  ASSUME IInv, NEW u \in Uuids, NEW s \in SlotsWithUuid(u),
         prov_cache_mark_all_ready_visible
  PROVE  Stays(u, s)
<1>1. ASSUME NEW t \in Slots
      PROVE  /\ cache'[t].in_use = cache[t].in_use
             /\ cache'[t].uuid = cache[t].uuid
             /\ cache'[t].last_attempt_ms = cache[t].last_attempt_ms
  BY DEF IInv, TypeOK, prov_cache_mark_all_ready_visible, Entry
<1> QED BY <1>1 DEF Stays, IInv, UuidUnique, SlotsWithUuid

LEMMA SuccessStays ==
  ASSUME IInv, NEW u \in Uuids, NEW s \in SlotsWithUuid(u),
         NEW v \in Uuids, prov_cache_on_configuration_success(v)
  PROVE  Stays(u, s)
<1>1. PICK k \in Slots :
        cache[k].in_use /\ cache' = [cache EXCEPT ![k] = Cleared(FALSE)]
  BY DEF prov_cache_on_configuration_success, First, SlotsWithUuid
<1>2. ~Cleared(FALSE).in_use
  BY DEF Cleared
<1> QED BY <1>1, <1>2, ChangeStays

(* An attempt of another device. *)
LEMMA AttemptStays ==
  ASSUME IInv, NEW u \in Uuids, NEW s \in SlotsWithUuid(u),
         NEW v \in Uuids, v # u, NEW now \in Times, prov_cache_mark_attempt(v, now)
  PROVE  Stays(u, s)
<1>1. PICK k \in Slots :
        /\ cache[k].in_use /\ cache[k].uuid = v
        /\ cache' = [cache EXCEPT ![k].last_attempt_ms = now]
  BY DEF prov_cache_mark_attempt, First, SlotsWithUuid
<1> DEFINE e == [cache[k] EXCEPT !.last_attempt_ms = now]
<1>2. cache[k] \in Entry /\ cache' = [cache EXCEPT ![k] = e]
  BY <1>1 DEF IInv, TypeOK
<1>3. e.uuid # u
  BY <1>1, <1>2 DEF Entry
<1> HIDE DEF e
<1> QED BY <1>2, <1>3, StoreStays

LEMMA EnsureStays ==
  ASSUME IInv, NEW u \in Uuids, NEW s \in SlotsWithUuid(u),
         NEW v \in Uuids, prov_cache_ensure_uuid(v)
  PROVE  Stays(u, s)
BY InsertStays DEF prov_cache_ensure_uuid

LEMMA NextStays ==
  ASSUME IInv, [Next]_vars, NEW u \in Uuids, NEW s \in SlotsWithUuid(u),
         ~ \E now \in Times : prov_cache_mark_attempt(u, now)
  PROVE  Stays(u, s)
<1>1. CASE \E a \in Addrs, v \in Uuids : prov_cache_adv_uuid_seen(a, v)
  BY <1>1, AdvStays
<1>2. CASE \E a \in Addrs, n \in Names : prov_cache_scan_rsp_name_seen(a, n)
  BY <1>2, NameStays
<1>3. CASE \E v \in Uuids : prov_cache_ensure_uuid(v)
  BY <1>3, EnsureStays
<1>4. CASE \E v \in Uuids : prov_cache_maybe_mark_visible(v)
  BY <1>4, VisibleStays
<1>5. CASE prov_cache_mark_all_ready_visible
  BY <1>5, ListAllStays
<1>6. CASE \E v \in Uuids, now \in Times : prov_cache_mark_attempt(v, now)
  <2>1. PICK v \in Uuids, now \in Times : prov_cache_mark_attempt(v, now)
    BY <1>6
  <2>2. v # u
    BY <2>1
  <2> QED BY <2>1, <2>2, AttemptStays
<1>7. CASE \E v \in Uuids : prov_cache_on_configuration_success(v)
  BY <1>7, SuccessStays
<1>8. CASE UNCHANGED vars
  BY <1>8 DEF vars, Stays, SlotsWithUuid, IInv, UuidUnique
<1> QED BY <1>1, <1>2, <1>3, <1>4, <1>5, <1>6, <1>7, <1>8 DEF Next

(* No call but the stamp of an attempt of that very device changes when a
   device that stays in the cache was last tried: auto mode never tries it
   early and never forgets it. *)
THEOREM CooldownsSurvive == Spec => CooldownSurvives
<1> DEFINE Forgotten(s, t) ==
             /\ cache[s].in_use /\ cache'[t].in_use /\ cache[s].uuid = cache'[t].uuid
             /\ cache'[t].last_attempt_ms # cache[s].last_attempt_ms
<1>1. IInv /\ [Next]_vars
        => [\A s, t \in Slots : Forgotten(s, t) =>
              \E now \in Times : prov_cache_mark_attempt(cache[s].uuid, now)]_vars
  <2> SUFFICES ASSUME IInv, [Next]_vars, NEW s \in Slots, NEW t \in Slots,
                      Forgotten(s, t),
                      ~ \E now \in Times :
                          prov_cache_mark_attempt(cache[s].uuid, now)
               PROVE  FALSE
    OBVIOUS
  <2>1. cache[s].uuid \in Uuids /\ s \in SlotsWithUuid(cache[s].uuid)
    BY DEF IInv, TypeOK, WellFormed, SlotsWithUuid, Entry
  <2>2. Stays(cache[s].uuid, s)
    BY <2>1, NextStays
  <2> QED BY <2>2 DEF Stays
<1> QED BY <1>1, Invariant, PTL DEF Spec, CooldownSurvives

-----------------------------------------------------------------------------
(* Who is evicted                                                          *)

(* The slot for a new entry: a free one; else an unnamed one, if there is one
   that is not listed; a listed one only if all are. *)
LEMMA WhereNewEntriesGo ==
  ASSUME IInv, NEW k \in Slots, alloc_entry_locked(k)
  PROVE  /\ (\E s \in Slots : cache[s].name = None /\ ~cache[s].scan_visible)
              => cache[k].name = None /\ ~cache[k].scan_visible
         /\ cache[k].in_use /\ cache[k].scan_visible => VisibleSlots = Slots
<1>1. CASE k \in FreeSlots
  BY <1>1 DEF FreeSlots, IInv, WellFormed
<1>2. CASE FreeSlots = {} /\ k \in Victims
  <2>1. \A s \in Slots : cache[s].in_use
    BY <1>2 DEF FreeSlots
  <2> DEFINE matched(pass) == {s \in Slots : evict_match(cache[s], pass)}
  <2>2. CASE matched(0) # {}
    <3>1. evict_match(cache[k], 0)
      BY <1>2, <2>2 DEF Victims
    <3> QED BY <3>1 DEF evict_match
  <2>3. CASE matched(0) = {} /\ matched(1) # {}
    <3>1. evict_match(cache[k], 1)
      BY <1>2, <2>3 DEF Victims
    <3>2. ~ \E s \in Slots : cache[s].name = None /\ ~cache[s].scan_visible
      BY <2>3 DEF evict_match
    <3> QED BY <3>1, <3>2 DEF evict_match
  <2>4. CASE matched(0) = {} /\ matched(1) = {}
    <3>1. \A s \in Slots : cache[s].scan_visible
      BY <2>4, <2>1 DEF evict_match, IInv, TypeOK, Entry
    <3> QED BY <2>1, <3>1 DEF VisibleSlots
  <2> QED BY <2>2, <2>3, <2>4
<1> QED BY <1>1, <1>2 DEF alloc_entry_locked, First

(* A beacon pushes no named device out while an unnamed, unlisted one is left. *)
THEOREM BeaconsSpareNamed == Spec => BeaconsEvictUnnamedFirst
<1> DEFINE Beacon ==
             /\ \E s \in Slots : cache[s].name = None /\ ~cache[s].scan_visible
             /\ \E u \in Uuids : prov_cache_ensure_uuid(u)
<1>1. IInv /\ [Next]_vars
        => [Beacon => \A s \in Slots :
                        cache[s].name # None => cache'[s] = cache[s]]_vars
  <2> SUFFICES ASSUME IInv, Beacon, NEW s \in Slots, cache[s].name # None
               PROVE  cache'[s] = cache[s]
    OBVIOUS
  <2>1. PICK u \in Uuids, k \in Slots :
          /\ alloc_entry_locked(k)
          /\ cache' = [cache EXCEPT
               ![k] = [Cleared(TRUE) EXCEPT !.addr = None, !.uuid = u]]
    BY DEF prov_cache_ensure_uuid
  <2>2. k # s
    BY <2>1, WhereNewEntriesGo
  <2> QED BY <2>1, <2>2 DEF IInv, TypeOK
<1> QED BY <1>1, Invariant, PTL DEF Spec, BeaconsEvictUnnamedFirst

(* What explains that a listed device is no longer in the cache. *)
Readdressed(u) ==
  \E s \in SlotsWithUuid(u), t \in Slots :
    /\ cache'[t].in_use /\ cache'[t].uuid # u
    /\ cache[s].addr # None /\ cache'[t].addr = cache[s].addr

(* An entry that is stored pushes out the one that was in its slot only. *)
LEMMA OneLeaves ==
  ASSUME IInv, NEW u, NEW s \in SlotsWithUuid(u), NEW k \in Slots, NEW e,
         cache' = [cache EXCEPT ![k] = e], u \notin CachedUuids'
  PROVE  k = s
<1>1. s \in Slots /\ cache[s].in_use /\ cache[s].uuid = u
  BY DEF SlotsWithUuid
<1>2. k # s => cache'[s] = cache[s]
  BY <1>1 DEF IInv, TypeOK
<1> QED BY <1>1, <1>2 DEF CachedUuids

LEMMA InsertPushesOut ==
  ASSUME IInv, NEW s \in VisibleSlots, NEW k \in Slots, alloc_entry_locked(k),
         NEW e, cache' = [cache EXCEPT ![k] = e],
         cache[s].uuid \notin CachedUuids'
  PROVE  VisibleSlots = Slots
<1>1. /\ s \in SlotsWithUuid(cache[s].uuid) /\ cache[s].in_use
      /\ cache[s].scan_visible
  BY DEF VisibleSlots, SlotsWithUuid
<1>2. k = s
  BY <1>1, OneLeaves
<1> QED BY <1>1, <1>2, WhereNewEntriesGo

LEMMA AdvPushesOut ==
  ASSUME IInv, NEW s \in VisibleSlots, NEW a \in Addrs, NEW v \in Uuids,
         prov_cache_adv_uuid_seen(a, v), cache[s].uuid \notin CachedUuids'
  PROVE  VisibleSlots = Slots \/ Readdressed(cache[s].uuid)
<1> DEFINE u == cache[s].uuid
<1>1. /\ s \in Slots /\ cache[s].in_use /\ s \in SlotsWithUuid(u)
      /\ cache \in [Slots -> Entry]
  BY DEF VisibleSlots, SlotsWithUuid, IInv, TypeOK
<1>2. a # None
  BY NoneAssumption
<1>3. CASE \E i \in First(SlotsWithAddr(a)), j \in First(SlotsWithUuid(v)) :
             MergeIntoUuid(a, i, j)
  <2>1. PICK i \in Slots, j \in Slots :
          /\ cache[i].addr = a
          /\ cache[j].in_use /\ MergeIntoUuid(a, i, j)
    BY <1>3 DEF First, SlotsWithAddr, SlotsWithUuid
  <2> DEFINE name == IF cache[j].name = None THEN cache[i].name
                     ELSE cache[j].name
             visible == cache[j].scan_visible \/ cache[i].scan_visible
             e == [cache[j] EXCEPT !.addr = a, !.name = name,
                                   !.scan_visible = visible]
  <2>2. cache' = [cache EXCEPT ![i] = Cleared(FALSE), ![j] = e] /\ i # j
    BY <2>1 DEF MergeIntoUuid
  <2> HIDE DEF name, visible
  <2>3. e.uuid = cache[j].uuid /\ e.addr = a /\ e.in_use
    BY <1>1, <2>1 DEF Entry
  <2> HIDE DEF e
  <2>4. /\ cache'[j] = e
        /\ \A t \in Slots : t # i /\ t # j => cache'[t] = cache[t]
    BY <1>1, <2>1, <2>2
  <2>5. s # j
    BY <1>1, <2>3, <2>4 DEF CachedUuids
  <2>6. s = i
    BY <1>1, <2>4, <2>5 DEF CachedUuids
  <2>7. cache'[j].in_use /\ cache'[j].addr = a /\ cache'[j].uuid # u
    BY <2>1, <2>3, <2>4 DEF CachedUuids
  <2> QED BY <1>1, <1>2, <2>1, <2>6, <2>7 DEF Readdressed
<1>4. CASE \E j \in First(SlotsWithUuid(v)) : UpdateAddr(a, j)
  <2>1. PICK j \in Slots : UpdateAddr(a, j)
    BY <1>4 DEF First, SlotsWithUuid
  <2>2. /\ cache'[s].in_use /\ cache'[s].uuid = u
    BY <1>1, <2>1 DEF UpdateAddr, Entry
  <2> QED BY <1>1, <2>2 DEF CachedUuids
<1>5. CASE /\ SlotsWithUuid(v) = {}
           /\ \E i \in First(SlotsWithAddr(a)) : ReuseAddrEntry(a, v, i)
  <2>1. PICK i \in Slots :
          cache[i].in_use /\ cache[i].addr = a /\ ReuseAddrEntry(a, v, i)
    BY <1>5 DEF First, SlotsWithAddr
  <2>2. cache[i].uuid \notin {None, v} /\ u # v
    BY <1>1, <1>5, <2>1 DEF SlotsWithUuid, IInv, WellFormed
  <2> DEFINE e == [Cleared(TRUE) EXCEPT !.addr = a, !.uuid = v]
  <2>3. cache' = [cache EXCEPT ![i] = e]
    BY <2>1, <2>2 DEF ReuseAddrEntry, IInv, TypeOK
  <2>4. e.in_use /\ e.uuid = v /\ e.addr = a
    BY DEF Cleared
  <2> HIDE DEF e
  <2>5. i = s
    BY <1>1, <2>1, <2>3, OneLeaves
  <2>6. cache'[s] = e
    BY <1>1, <2>3, <2>5
  <2> QED BY <1>1, <1>2, <2>1, <2>2, <2>4, <2>5, <2>6 DEF Readdressed
<1>6. CASE \E k \in Slots : InsertAdv(a, v, k)
  BY <1>6, InsertPushesOut DEF InsertAdv
<1> QED BY <1>3, <1>4, <1>5, <1>6 DEF prov_cache_adv_uuid_seen

(* The other calls take nobody out of the cache. *)
LEMMA OthersPushNobodyOut ==
  ASSUME IInv, NEW s \in Slots, cache[s].in_use,
         \/ \E a \in Addrs, n \in Names : prov_cache_scan_rsp_name_seen(a, n)
         \/ \E v \in Uuids : prov_cache_maybe_mark_visible(v)
         \/ prov_cache_mark_all_ready_visible
         \/ \E v \in Uuids, now \in Times : prov_cache_mark_attempt(v, now)
         \/ UNCHANGED vars
  PROVE  cache[s].uuid \in CachedUuids'
<1>1. cache \in [Slots -> Entry]
  BY DEF IInv, TypeOK
<1>2. CASE \E a \in Addrs, n \in Names : prov_cache_scan_rsp_name_seen(a, n)
  <2>1. cache'[s].in_use /\ cache'[s].uuid = cache[s].uuid
    BY <1>1, <1>2 DEF prov_cache_scan_rsp_name_seen, Entry
  <2> QED BY <2>1 DEF CachedUuids
<1>3. CASE \E v \in Uuids : prov_cache_maybe_mark_visible(v)
  <2>1. cache'[s].in_use /\ cache'[s].uuid = cache[s].uuid
    BY <1>1, <1>3 DEF prov_cache_maybe_mark_visible, Entry
  <2> QED BY <2>1 DEF CachedUuids
<1>4. CASE prov_cache_mark_all_ready_visible
  <2>1. cache'[s].in_use /\ cache'[s].uuid = cache[s].uuid
    BY <1>1, <1>4 DEF prov_cache_mark_all_ready_visible, Entry
  <2> QED BY <2>1 DEF CachedUuids
<1>5. CASE \E v \in Uuids, now \in Times : prov_cache_mark_attempt(v, now)
  <2>1. cache'[s].in_use /\ cache'[s].uuid = cache[s].uuid
    BY <1>1, <1>5 DEF prov_cache_mark_attempt, Entry
  <2> QED BY <2>1 DEF CachedUuids
<1>6. CASE UNCHANGED vars
  BY <1>6 DEF CachedUuids, vars
<1> QED BY <1>2, <1>3, <1>4, <1>5, <1>6

(* A listed device leaves the cache only because it was configured, because
   another UUID uses its address, or because every entry is listed. *)
THEOREM ListedStay == Spec => ListedLeavesForAReason
<1> DEFINE Reason(u) ==
             \/ prov_cache_on_configuration_success(u)
             \/ VisibleSlots = Slots
             \/ \E s \in SlotsWithUuid(u), t \in Slots :
                  /\ cache'[t].in_use /\ cache'[t].uuid # u
                  /\ cache[s].addr # None /\ cache'[t].addr = cache[s].addr
<1>1. IInv /\ [Next]_vars
        => [\A u \in ListedUuids \ CachedUuids' : Reason(u)]_vars
  <2> SUFFICES ASSUME IInv, [Next]_vars, NEW u \in ListedUuids,
                      u \notin CachedUuids'
               PROVE  Reason(u)
    OBVIOUS
  <2>1. PICK s \in VisibleSlots : cache[s].uuid = u
    BY DEF ListedUuids
  <2>2. s \in Slots /\ cache[s].in_use /\ s \in SlotsWithUuid(u)
    BY <2>1 DEF VisibleSlots, SlotsWithUuid
  <2>3. CASE \E a \in Addrs, v \in Uuids : prov_cache_adv_uuid_seen(a, v)
    <3>1. VisibleSlots = Slots \/ Readdressed(u)
      BY <2>1, <2>3, AdvPushesOut
    <3> QED BY <3>1 DEF Readdressed
  <2>4. CASE \E v \in Uuids : prov_cache_ensure_uuid(v)
    <3>1. VisibleSlots = Slots
      BY <2>1, <2>4, InsertPushesOut DEF prov_cache_ensure_uuid
    <3> QED BY <3>1
  <2>5. CASE \E v \in Uuids : prov_cache_on_configuration_success(v)
    <3>1. PICK v \in Uuids : prov_cache_on_configuration_success(v)
      BY <2>5
    <3>2. PICK k \in Slots :
            /\ cache[k].in_use /\ cache[k].uuid = v
            /\ cache' = [cache EXCEPT ![k] = Cleared(FALSE)]
      BY <3>1 DEF prov_cache_on_configuration_success, First, SlotsWithUuid
    <3>3. k = s
      BY <2>2, <3>2, OneLeaves
    <3>4. v = u
      BY <2>1, <3>2, <3>3
    <3> QED BY <3>1, <3>4
  <2>6. CASE \/ \E a \in Addrs, n \in Names : prov_cache_scan_rsp_name_seen(a, n)
             \/ \E v \in Uuids : prov_cache_maybe_mark_visible(v)
             \/ prov_cache_mark_all_ready_visible
             \/ \E v \in Uuids, now \in Times : prov_cache_mark_attempt(v, now)
             \/ UNCHANGED vars
    BY <2>1, <2>2, <2>6, OthersPushNobodyOut
  <2> QED BY <2>3, <2>4, <2>5, <2>6 DEF Next
<1> QED BY <1>1, Invariant, PTL DEF Spec, ListedLeavesForAReason

-----------------------------------------------------------------------------
(* Numbers in the list: what the two loops over the array compute.  Induction
   over the slots is by the least counterexample. *)

(* A set of places in the array has a first one.  The intervals that end in the
   set are finite sets, and of these one is the smallest. *)
LEMMA LeastPlace ==
  ASSUME NEW T \in SUBSET (0 .. CacheMax), T # {}
  PROVE  \E x \in T : \A y \in T : x <= y
<1> DEFINE S == 0 .. CacheMax
           F == {0 .. x : x \in T}
<1>1. IsFiniteSet(S)
  BY FS_Interval, CacheMaxAssumption
<1>2. IsWellFoundedOn(StrictSubsetOrdering(S), SUBSET S)
  BY <1>1, FS_FiniteSubsetsOfFinite, FS_StrictSubsetOrderingWellFounded
<1>3. F \subseteq SUBSET S /\ F # {}
  <2>1. \A x \in T : 0 .. x \in SUBSET S
    BY CacheMaxAssumption
  <2> HIDE DEF S
  <2> QED BY <2>1
<1> HIDE DEF F, S
<1>4. PICK X \in F : \A Y \in F : <<Y, X>> \notin StrictSubsetOrdering(S)
  BY <1>2, <1>3, WFMin
<1>5. PICK x \in T : X = 0 .. x
  BY DEF F
<1>6. ASSUME NEW y \in T
      PROVE  x <= y
  <2>1. 0 .. y \in F
    BY DEF F
  <2>2. 0 .. y \in SUBSET S /\ X \in SUBSET S
    BY <1>3, <2>1
  <2>3. ~(0 .. y \subseteq 0 .. x /\ 0 .. y # 0 .. x)
    BY <1>4, <1>5, <2>1, <2>2 DEF StrictSubsetOrdering
  <2>4. y < x => (0 .. y \subseteq 0 .. x /\ x \in 0 .. x /\ x \notin 0 .. y)
    BY CacheMaxAssumption
  <2> QED BY <2>3, <2>4, CacheMaxAssumption
<1> QED BY <1>6

(* The same for the last one. *)
LEMMA GreatestPlace ==
  ASSUME NEW T \in SUBSET (0 .. CacheMax), T # {}
  PROVE  \E x \in T : \A y \in T : y <= x
<1> DEFINE R == {CacheMax - x : x \in T}
<1>1. R \in SUBSET (0 .. CacheMax) /\ R # {}
  <2>1. \A x \in T : CacheMax - x \in 0 .. CacheMax
    BY CacheMaxAssumption
  <2> QED BY <2>1
<1> HIDE DEF R
<1>2. PICK r \in R : \A q \in R : r <= q
  BY <1>1, LeastPlace
<1>3. PICK x \in T : r = CacheMax - x
  BY DEF R
<1>4. \A y \in T : CacheMax - x <= CacheMax - y
  BY <1>2, <1>3 DEF R
<1>5. \A y \in T : y \in Int /\ x \in Int /\ CacheMax \in Int
  BY CacheMaxAssumption
<1>6. \A y \in T : y <= x
  BY <1>4, <1>5
<1> QED BY <1>6

(* What the loop of visible_index_locked counts, slot by slot. *)
Counts(f) ==
  f = [i \in 0 .. CacheMax |->
        IF i = 0 THEN 0
        ELSE IF i - 1 \in VisibleSlots THEN f[i - 1] + 1 ELSE f[i - 1]]

counted ==
  CHOOSE f : Counts(f)

(* How many listed entries lie before a slot is such a count. *)
LEMMA CountExists == Counts(counted)
<1> DEFINE before(i) == {t \in VisibleSlots : t < i}
           g == [i \in 0 .. CacheMax |-> Cardinality(before(i))]
<1>1. \A i \in 0 .. CacheMax : IsFiniteSet(before(i))
  <2>1. IsFiniteSet(Slots)
    BY FS_Interval, CacheMaxAssumption DEF Slots
  <2> QED BY <2>1, FS_Subset DEF VisibleSlots
<1>2. Counts(g)
  <2> SUFFICES ASSUME NEW i \in 0 .. CacheMax
               PROVE  g[i] = IF i = 0 THEN 0
                             ELSE IF i - 1 \in VisibleSlots THEN g[i - 1] + 1
                                  ELSE g[i - 1]
    BY DEF Counts
  <2>1. CASE i = 0
    <3>1. before(i) = {}
      BY <2>1 DEF VisibleSlots, Slots
    <3> QED BY <2>1, <3>1, FS_EmptySet
  <2>2. CASE i # 0
    <3>1. i - 1 \in 0 .. CacheMax /\ i - 1 \notin before(i - 1)
      BY <2>2, CacheMaxAssumption
    <3>2. g[i - 1] = Cardinality(before(i - 1)) /\ g[i] = Cardinality(before(i))
      BY <3>1
    <3>3. before(i) = IF i - 1 \in VisibleSlots
                      THEN before(i - 1) \cup {i - 1} ELSE before(i - 1)
      BY <2>2, CacheMaxAssumption DEF VisibleSlots, Slots
    <3>4. IsFiniteSet(before(i - 1))
      BY <1>1, <3>1
    <3> HIDE DEF before, g
    <3>5. Cardinality(before(i - 1) \cup {i - 1}) = Cardinality(before(i - 1)) + 1
      BY <3>1, <3>4, FS_AddElement
    <3> QED BY <2>2, <3>2, <3>3, <3>5
  <2> QED BY <2>1, <2>2
<1> QED BY <1>2 DEF counted

(* The count goes up by one at each listed entry, and nowhere else. *)
LEMMA CountSteps ==
  /\ counted[0] = 0
  /\ \A i \in Slots :
       counted[i + 1] = IF i \in VisibleSlots THEN counted[i] + 1 ELSE counted[i]
<1>1. \A i \in 0 .. CacheMax :
        counted[i] = IF i = 0 THEN 0
                     ELSE IF i - 1 \in VisibleSlots THEN counted[i - 1] + 1
                          ELSE counted[i - 1]
  BY CountExists DEF Counts
<1>2. 0 \in 0 .. CacheMax
  BY CacheMaxAssumption
<1>3. \A i \in Slots : i + 1 \in 0 .. CacheMax /\ i + 1 # 0 /\ (i + 1) - 1 = i
  BY CacheMaxAssumption DEF Slots
<1> QED BY <1>1, <1>2, <1>3

LEMMA CountIsNatural == \A i \in 0 .. CacheMax : counted[i] \in Nat
<1> SUFFICES ASSUME {i \in 0 .. CacheMax : counted[i] \notin Nat} # {}
             PROVE  FALSE
  OBVIOUS
<1> DEFINE T == {i \in 0 .. CacheMax : counted[i] \notin Nat}
<1>1. PICK x \in T : \A y \in T : x <= y
  BY LeastPlace
<1>2. x # 0
  BY CountSteps
<1>3. x - 1 \in Slots /\ x - 1 \notin T /\ x - 1 \in 0 .. CacheMax
  BY <1>1, <1>2, CacheMaxAssumption DEF Slots
<1>4. counted[x - 1] \in Nat /\ (x - 1) + 1 = x
  BY <1>1, <1>3
<1>5. counted[x] \in {counted[x - 1], counted[x - 1] + 1}
  BY <1>3, <1>4, CountSteps
<1> QED BY <1>1, <1>4, <1>5

(* Later slots have no smaller counts. *)
LEMMA CountGrows ==
  ASSUME NEW i \in 0 .. CacheMax, NEW j \in 0 .. CacheMax, i <= j
  PROVE  counted[i] <= counted[j]
<1> SUFFICES ASSUME ~(counted[i] <= counted[j])
             PROVE  FALSE
  OBVIOUS
<1> DEFINE T == {k \in 0 .. CacheMax : i <= k /\ ~(counted[i] <= counted[k])}
<1>1. PICK x \in T : \A y \in T : x <= y
  BY LeastPlace
<1>2. x # i
  BY <1>1, CountIsNatural
<1>3. x - 1 \in Slots /\ x - 1 \in 0 .. CacheMax /\ i <= x - 1 /\ x - 1 \notin T
  BY <1>1, <1>2, CacheMaxAssumption DEF Slots
<1>4. counted[i] <= counted[x - 1] /\ (x - 1) + 1 = x
  BY <1>1, <1>3
<1>5. counted[x] \in {counted[x - 1], counted[x - 1] + 1}
  BY <1>3, <1>4, CountSteps
<1> QED BY <1>1, <1>3, <1>4, <1>5, CountIsNatural

(* A listed entry is counted before any later slot is reached. *)
LEMMA CountPasses ==
  ASSUME NEW s \in VisibleSlots, NEW j \in 0 .. CacheMax, s < j
  PROVE  counted[s] + 1 <= counted[j]
<1>1. s \in Slots /\ s + 1 \in 0 .. CacheMax /\ s + 1 <= j
  BY CacheMaxAssumption DEF VisibleSlots, Slots
<1>2. counted[s + 1] = counted[s] + 1
  BY <1>1, CountSteps
<1> QED BY <1>1, <1>2, CountGrows

(* The number printed before a listed entry, and how many are listed. *)
LEMMA PrintedIndex ==
  ASSUME NEW s \in VisibleSlots
  PROVE  visible_index_locked(s) = counted[s]
BY DEF visible_index_locked, counted, Counts

(* What the loop of prov_cache_visible_uuid_by_index returns, from every slot
   and with every number of listed entries behind it. *)
Finds(f, idx) ==
  f = [p \in (0 .. CacheMax) \X Nat |->
        IF p[1] = CacheMax THEN None
        ELSE IF p[1] \notin VisibleSlots THEN f[<<p[1] + 1, p[2]>>]
        ELSE IF p[2] = idx THEN cache[p[1]].uuid
        ELSE f[<<p[1] + 1, p[2] + 1>>]]

found(idx) == CHOOSE f : Finds(f, idx)

LEMMA LookedUp ==
  ASSUME NEW idx
  PROVE  prov_cache_visible_uuid_by_index(idx) = found(idx)[<<0, 0>>]
BY DEF prov_cache_visible_uuid_by_index, found, Finds

(* The listed entries from slot i on that get number idx, when visible_idx is
   the number of the next one. *)
Numbered(idx, i, visible_idx) ==
  {s \in VisibleSlots : i <= s /\ visible_idx + (counted[s] - counted[i]) = idx}

UuidOf(S) == IF S = {} THEN None ELSE cache[CHOOSE s \in S : TRUE].uuid

(* The loop returns the UUID of the entry that gets the number, if any does. *)
LEMMA FoundExists ==
  ASSUME NEW idx \in Nat
  PROVE  Finds(found(idx), idx)
<1> DEFINE g == [p \in (0 .. CacheMax) \X Nat |-> UuidOf(Numbered(idx, p[1], p[2]))]
<1>1. ASSUME NEW i \in 0 .. CacheMax, NEW k \in Nat
      PROVE  g[<<i, k>>] = IF i = CacheMax THEN None
                       ELSE IF i \notin VisibleSlots THEN g[<<i + 1, k>>]
                       ELSE IF k = idx THEN cache[i].uuid
                       ELSE g[<<i + 1, k + 1>>]
  <2>0. \A s \in VisibleSlots : s \in 0 .. CacheMax /\ s # CacheMax
    BY CacheMaxAssumption DEF VisibleSlots, Slots
  <2>1. CASE i = CacheMax
    <3>1. Numbered(idx, i, k) = {}
      BY <2>0, <2>1, CacheMaxAssumption DEF Numbered
    <3> QED BY <2>1, <3>1 DEF UuidOf
  <2>2. CASE i # CacheMax
    <3>1. i \in Slots /\ i + 1 \in 0 .. CacheMax /\ k + 1 \in Nat
      BY <2>2, CacheMaxAssumption DEF Slots
    <3>2. /\ g[<<i, k>>] = UuidOf(Numbered(idx, i, k))
          /\ g[<<i + 1, k>>] = UuidOf(Numbered(idx, i + 1, k))
          /\ g[<<i + 1, k + 1>>] = UuidOf(Numbered(idx, i + 1, k + 1))
      BY <3>1
    <3>3. counted[i] \in Nat /\ \A s \in VisibleSlots : counted[s] \in Nat
      BY <2>0, CountIsNatural
    <3> HIDE DEF g
    <3>4. CASE i \notin VisibleSlots
      <4>1. counted[i + 1] = counted[i]
        BY <3>1, <3>4, CountSteps
      <4>2. \A s \in VisibleSlots : i <= s <=> i + 1 <= s
        BY <2>0, <3>4, CacheMaxAssumption
      <4>3. Numbered(idx, i, k) = Numbered(idx, i + 1, k)
        BY <4>1, <4>2 DEF Numbered
      <4> QED BY <2>2, <3>2, <3>4, <4>3
    <3>5. CASE i \in VisibleSlots /\ k = idx
      <4>1. \A s \in VisibleSlots : i < s => counted[i] + 1 <= counted[s]
        BY <2>0, <3>5, CountPasses
      <4>2. Numbered(idx, i, k) = {i}
        <5>1. i \in Numbered(idx, i, k)
          BY <3>3, <3>5, CacheMaxAssumption DEF Numbered
        <5>2. \A s \in Numbered(idx, i, k) : s = i
          BY <2>0, <3>3, <3>5, <4>1, CacheMaxAssumption DEF Numbered
        <5> QED BY <5>1, <5>2
      <4> QED BY <2>2, <3>2, <3>5, <4>2 DEF UuidOf
    <3>6. CASE i \in VisibleSlots /\ k # idx
      <4>1. counted[i + 1] = counted[i] + 1
        BY <3>1, <3>6, CountSteps
      <4>2. i \notin Numbered(idx, i, k)
        BY <3>3, <3>6 DEF Numbered
      <4>3. \A s \in VisibleSlots :
              k + (counted[s] - counted[i])
                = (k + 1) + (counted[s] - counted[i + 1])
        BY <3>3, <4>1
      <4>4. \A s \in VisibleSlots : s # i => (i <= s <=> i + 1 <= s)
        BY <2>0, CacheMaxAssumption
      <4>5. ~(i + 1 <= i)
        BY CacheMaxAssumption
      <4>6. Numbered(idx, i, k) = Numbered(idx, i + 1, k + 1)
        BY <4>2, <4>3, <4>4, <4>5 DEF Numbered
      <4> QED BY <2>2, <3>2, <3>6, <4>6
    <3> QED BY <3>4, <3>5, <3>6
  <2> QED BY <2>1, <2>2
<1>2. Finds(g, idx)
  <2>1. g = [p \in (0 .. CacheMax) \X Nat |-> g[p]]
    OBVIOUS
  <2> HIDE DEF g
  <2>2. ASSUME NEW p \in (0 .. CacheMax) \X Nat
        PROVE  g[p] = IF p[1] = CacheMax THEN None
                      ELSE IF p[1] \notin VisibleSlots THEN g[<<p[1] + 1, p[2]>>]
                      ELSE IF p[2] = idx THEN cache[p[1]].uuid
                      ELSE g[<<p[1] + 1, p[2] + 1>>]
    <3>1. p[1] \in 0 .. CacheMax /\ p[2] \in Nat /\ p = <<p[1], p[2]>>
      OBVIOUS
    <3>2. g[<<p[1], p[2]>>]
            = IF p[1] = CacheMax THEN None
              ELSE IF p[1] \notin VisibleSlots THEN g[<<p[1] + 1, p[2]>>]
              ELSE IF p[2] = idx THEN cache[p[1]].uuid
              ELSE g[<<p[1] + 1, p[2] + 1>>]
      BY <1>1, <3>1
    <3> QED BY <3>1, <3>2
  <2> QED BY <2>1, <2>2, Zenon DEF Finds
<1> QED BY <1>2 DEF found

LEMMA FoundSteps ==
  ASSUME NEW idx \in Nat, NEW i \in 0 .. CacheMax, NEW k \in Nat
  PROVE  found(idx)[<<i, k>>] = IF i = CacheMax THEN None
                            ELSE IF i \notin VisibleSlots
                                 THEN found(idx)[<<i + 1, k>>]
                            ELSE IF k = idx THEN cache[i].uuid
                            ELSE found(idx)[<<i + 1, k + 1>>]
<1> DEFINE f == found(idx)
<1>1. Finds(f, idx)
  BY FoundExists
<1> HIDE DEF f
<1>2. \A p \in (0 .. CacheMax) \X Nat :
        f[p] = IF p[1] = CacheMax THEN None
               ELSE IF p[1] \notin VisibleSlots THEN f[<<p[1] + 1, p[2]>>]
               ELSE IF p[2] = idx THEN cache[p[1]].uuid
               ELSE f[<<p[1] + 1, p[2] + 1>>]
  BY <1>1, Zenon DEF Finds
<1>3. <<i, k>> \in (0 .. CacheMax) \X Nat
  OBVIOUS
<1>4. f[<<i, k>>] = IF i = CacheMax THEN None
                    ELSE IF i \notin VisibleSlots THEN f[<<i + 1, k>>]
                    ELSE IF k = idx THEN cache[i].uuid
                    ELSE f[<<i + 1, k + 1>>]
  BY <1>2, <1>3
<1> QED BY <1>4 DEF f

(* From no slot on does the loop pass over the entry with the number. *)
LEMMA FindsListed ==
  ASSUME NEW s \in VisibleSlots
  PROVE  prov_cache_visible_uuid_by_index(counted[s]) = cache[s].uuid
<1> DEFINE idx == counted[s]
           at(i) == found(idx)[<<i, counted[i]>>]
           T == {i \in 0 .. CacheMax : i <= s /\ at(i) # cache[s].uuid}
<1>1. s \in Slots /\ s \in 0 .. CacheMax /\ s # CacheMax /\ idx \in Nat
  BY CountIsNatural, CacheMaxAssumption DEF VisibleSlots, Slots
<1> SUFFICES T = {}
  <2>1. 0 \in 0 .. CacheMax /\ 0 <= s
    BY <1>1, CacheMaxAssumption
  <2>2. T = {} => at(0) = cache[s].uuid
    BY <2>1
  <2> HIDE DEF T
  <2> QED BY <2>2, LookedUp, CountSteps
<1> SUFFICES ASSUME T # {}
             PROVE  FALSE
  OBVIOUS
<1>2. PICK x \in T : \A y \in T : y <= x
  BY GreatestPlace
<1>3. x \in 0 .. CacheMax /\ x <= s /\ at(x) # cache[s].uuid
  BY <1>2
<1>4. at(s) = cache[s].uuid
  BY <1>1, FoundSteps
<1>5. x < s /\ x \in Slots /\ x + 1 \in 0 .. CacheMax /\ x + 1 <= s
  BY <1>1, <1>3, <1>4, CacheMaxAssumption DEF Slots
<1>6. at(x + 1) = cache[s].uuid
  BY <1>2, <1>5
<1>7. x # CacheMax /\ counted[x] \in Nat
  BY <1>5, CountIsNatural, CacheMaxAssumption DEF Slots
<1>8. x \in VisibleSlots => counted[x] # idx
  BY <1>1, <1>5, <1>7, CountPasses
<1>9. at(x) = at(x + 1)
  <2> HIDE DEF idx
  <2>1. counted[x + 1] = IF x \in VisibleSlots THEN counted[x] + 1
                         ELSE counted[x]
    BY <1>5, CountSteps
  <2>2. found(idx)[<<x, counted[x]>>]
          = IF x = CacheMax THEN None
            ELSE IF x \notin VisibleSlots
                 THEN found(idx)[<<x + 1, counted[x]>>]
            ELSE IF counted[x] = idx THEN cache[x].uuid
            ELSE found(idx)[<<x + 1, counted[x] + 1>>]
    BY <1>1, <1>3, <1>7, FoundSteps
  <2> QED BY <1>7, <1>8, <2>1, <2>2
<1> QED BY <1>3, <1>6, <1>9

(* The loop for the number after the last one runs to the end of the array. *)
LEMMA FindsNothing ==
  prov_cache_visible_uuid_by_index(counted[CacheMax]) = None
<1> DEFINE idx == counted[CacheMax]
           at(i) == found(idx)[<<i, counted[i]>>]
           T == {i \in 0 .. CacheMax : at(i) # None}
<1>1. CacheMax \in 0 .. CacheMax /\ 0 \in 0 .. CacheMax /\ idx \in Nat
  BY CountIsNatural, CacheMaxAssumption
<1> SUFFICES T = {}
  <2>1. T = {} => at(0) = None
    BY <1>1
  <2> HIDE DEF T
  <2> QED BY <2>1, <1>1, LookedUp, CountSteps
<1> SUFFICES ASSUME T # {}
             PROVE  FALSE
  OBVIOUS
<1>2. PICK x \in T : \A y \in T : y <= x
  BY GreatestPlace
<1>3. x \in 0 .. CacheMax /\ at(x) # None
  BY <1>2
<1>4. at(CacheMax) = None
  BY <1>1, FoundSteps
<1>5. x # CacheMax /\ x \in Slots /\ x + 1 \in 0 .. CacheMax /\ ~(x + 1 <= x)
  BY <1>3, <1>4, CacheMaxAssumption DEF Slots
<1>6. at(x + 1) = None
  BY <1>2, <1>5
<1>7. counted[x] \in Nat
  BY <1>3, CountIsNatural
<1>8. x \in VisibleSlots => counted[x] # idx
  <2>1. x < CacheMax
    BY <1>5, CacheMaxAssumption DEF Slots
  <2> QED BY <1>1, <1>7, <2>1, CountPasses
<1>9. at(x) = at(x + 1)
  <2> HIDE DEF idx
  <2>1. counted[x + 1] = IF x \in VisibleSlots THEN counted[x] + 1
                         ELSE counted[x]
    BY <1>5, CountSteps
  <2>2. found(idx)[<<x, counted[x]>>]
          = IF x = CacheMax THEN None
            ELSE IF x \notin VisibleSlots
                 THEN found(idx)[<<x + 1, counted[x]>>]
            ELSE IF counted[x] = idx THEN cache[x].uuid
            ELSE found(idx)[<<x + 1, counted[x] + 1>>]
    BY <1>1, <1>3, <1>7, FoundSteps
  <2> QED BY <1>5, <1>8, <2>1, <2>2
<1> QED BY <1>3, <1>6, <1>9

(* How many entries prov_cache_visible_count finds is where the counts end. *)
LEMMA CountEnds == counted[CacheMax] = prov_cache_visible_count
<1> DEFINE before(i) == {t \in VisibleSlots : t < i}
           T == {i \in 0 .. CacheMax : counted[i] # Cardinality(before(i))}
<1>1. T = {}
  <2> SUFFICES ASSUME T # {}
               PROVE  FALSE
    OBVIOUS
  <2>1. PICK x \in T : \A y \in T : x <= y
    BY LeastPlace
  <2>2. x # 0
    <3>1. before(0) = {}
      BY DEF VisibleSlots, Slots
    <3>2. Cardinality(before(0)) = 0
      BY <3>1, FS_EmptySet, Zenon
    <3> HIDE DEF before
    <3>3. counted[x] # Cardinality(before(x))
      BY <2>1
    <3> QED BY <3>2, <3>3, CountSteps
  <2>3. /\ x - 1 \in Slots /\ x - 1 \in 0 .. CacheMax /\ ~(x <= x - 1)
        /\ (x - 1) + 1 = x
    BY <2>1, <2>2, CacheMaxAssumption DEF Slots
  <2>4. counted[x - 1] = Cardinality(before(x - 1))
    BY <2>1, <2>3
  <2>5. before(x) = IF x - 1 \in VisibleSlots
                    THEN before(x - 1) \cup {x - 1} ELSE before(x - 1)
    BY <2>1, CacheMaxAssumption DEF VisibleSlots, Slots
  <2>6. x - 1 \notin before(x - 1) /\ IsFiniteSet(before(x - 1))
    <3>1. IsFiniteSet(Slots) /\ before(x - 1) \in SUBSET Slots
      BY FS_Interval, CacheMaxAssumption DEF Slots, VisibleSlots
    <3>2. x - 1 \notin before(x - 1)
      BY <2>3, CacheMaxAssumption
    <3> QED BY <3>1, <3>2, FS_Subset
  <2> HIDE DEF before
  <2>7. Cardinality(before(x - 1) \cup {x - 1}) = Cardinality(before(x - 1)) + 1
    BY <2>6, FS_AddElement
  <2>8. counted[x] = IF x - 1 \in VisibleSlots THEN counted[x - 1] + 1
                     ELSE counted[x - 1]
    BY <2>3, CountSteps
  <2>9. counted[x] # Cardinality(before(x))
    BY <2>1
  <2> QED BY <2>4, <2>5, <2>7, <2>8, <2>9
<1>2. before(CacheMax) = VisibleSlots /\ CacheMax \in 0 .. CacheMax
  BY CacheMaxAssumption DEF VisibleSlots, Slots
<1>3. counted[CacheMax] = Cardinality(before(CacheMax))
  BY <1>1, <1>2
<1> QED BY <1>2, <1>3 DEF prov_cache_visible_count

(* The two loops count alike, in every state and for every size of the cache:
   the number printed before an entry leads the look-up back to its UUID, and
   the first number past the list to none. *)
THEOREM NumbersNameEntries == Spec => []IndexNamesEntry
<1>1. IndexNamesEntry
  BY PrintedIndex, FindsListed, FindsNothing, CountEnds DEF IndexNamesEntry
<1> QED BY <1>1, PTL
=============================================================================
