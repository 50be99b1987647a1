------------------------------ MODULE ProvCache ------------------------------
(***************************************************************************)
(* The unified provisioner cache (prov_cache.c): a fixed array of entries  *)
(* that joins what the mesh stack and the LE scanner learn, separately,    *)
(* about one unprovisioned device: its UUID, its address, its GAP name,    *)
(* whether `prov scan` lists it and when auto mode last tried it.          *)
(*                                                                         *)
(* Every function of the API holds cache_mutex from its first access to    *)
(* its last, so each is one action.  The have_addr, have_uuid and          *)
(* have_name flags are folded into their fields: a field holds None while  *)
(* its flag is false.  A name, an address and a UUID are opaque values.    *)
(* The calls that only read are operators, at the end of the module.       *)
(***************************************************************************)
EXTENDS Integers, FiniteSets

CONSTANTS
  Uuids,      (* device UUIDs                                              *)
  Addrs,      (* BLE addresses                                             *)
  Names,      (* GAP names                                                 *)
  Times,      (* uptimes, in ms, the callers of mark_attempt read          *)
  CacheMax,   (* PROV_CACHE_MAX, CONFIG_MESH_PROVISIONER_SCAN_UUID_CACHE_MAX *)
  None,       (* a field whose have_ flag is false                         *)
  Never       (* INT64_MIN in last_attempt_ms                              *)

ASSUME CacheMaxAssumption == CacheMax \in Nat \ {0}
ASSUME NoneAssumption == None \notin Uuids \cup Addrs \cup Names
ASSUME TimesAssumption == Times \subseteq Int /\ Never \notin Int

VARIABLES
  cache,        (* the entries, by slot                                    *)
  evict_cursor  (* where the next search for a victim starts               *)

vars == <<cache, evict_cursor>>

Slots == 0 .. CacheMax - 1

Entry ==
  [in_use : BOOLEAN, addr : Addrs \cup {None}, uuid : Uuids \cup {None},
   name : Names \cup {None}, scan_visible : BOOLEAN,
   last_attempt_ms : Int \cup {Never}]

TypeOK ==
  /\ cache \in [Slots -> Entry]
  /\ evict_cursor \in Slots

-----------------------------------------------------------------------------
(* Entries and searches                                                    *)

(* entry_clear, in an entry that stays in use or not. *)
Cleared(inUse) ==
  [in_use |-> inUse, addr |-> None, uuid |-> None, name |-> None,
   scan_visible |-> FALSE, last_attempt_ms |-> Never]

(* The searches scan the array upwards and stop at the first match. *)
First(S) == {s \in S : \A t \in S : s <= t}

SlotsWithAddr(a) == {s \in Slots : cache[s].in_use /\ cache[s].addr = a}

SlotsWithUuid(u) == {s \in Slots : cache[s].in_use /\ cache[s].uuid = u}

FreeSlots == {s \in Slots : ~cache[s].in_use}

(* Mutant: unnamed entries are not taken first. *)
evict_match_any_unlisted(entry, pass) ==
  \/ pass \in {0, 1} /\ ~entry.scan_visible
  \/ pass = 2

(* Mutant: listed entries are not spared. *)
evict_match_listed(entry, pass) ==
  \/ pass = 0 /\ ~entry.scan_visible /\ entry.name = None
  \/ pass \in {1, 2}

evict_match(entry, pass) ==
  \/ pass = 0 /\ ~entry.scan_visible /\ entry.name = None
  \/ pass = 1 /\ ~entry.scan_visible
  \/ pass = 2

(* The entries the first successful pass of alloc_entry_locked matches. *)
Victims ==
  LET matched(pass) == {s \in Slots : evict_match(cache[s], pass)}
  IN  IF matched(0) # {} THEN matched(0)
      ELSE IF matched(1) # {} THEN matched(1) ELSE matched(2)

(* How far a slot lies after the cursor, walking round the array. *)
Offset(s) == IF s >= evict_cursor THEN s - evict_cursor
                                  ELSE s + CacheMax - evict_cursor

(* Mutant: the cursor runs off the array. *)
alloc_entry_locked_unwrapped(s) ==
  \/ s \in First(FreeSlots) /\ UNCHANGED evict_cursor
  \/ /\ FreeSlots = {}
     /\ s \in Victims
     /\ \A t \in Victims : Offset(s) <= Offset(t)
     /\ evict_cursor' = s + 1

(* Slot s is the one alloc_entry_locked returns. *)
alloc_entry_locked(s) ==
  \/ /\ s \in First(FreeSlots)
     /\ UNCHANGED evict_cursor
  \/ /\ FreeSlots = {}
     /\ s \in Victims
     /\ \A t \in Victims : Offset(s) <= Offset(t)
     /\ evict_cursor' = (s + 1) % CacheMax

-----------------------------------------------------------------------------
(* The API                                                                 *)

(* A static array: all bytes zero, nothing in use. *)
Init ==
  /\ cache = [s \in Slots |-> [Cleared(FALSE) EXCEPT !.last_attempt_ms = 0]]
  /\ evict_cursor = 0

(* Mutant: the entry found by address is not freed. *)
MergeIntoUuid_keeps_both(a, i, j) ==
  /\ i # j
  /\ cache' = [cache EXCEPT
       ![j] = [cache[j] EXCEPT
                 !.addr = a,
                 !.name = IF cache[j].name = None THEN cache[i].name
                          ELSE cache[j].name,
                 !.scan_visible = cache[j].scan_visible
                                    \/ cache[i].scan_visible]]
  /\ UNCHANGED evict_cursor

(* One device was in the cache twice, once by address and once by UUID: the
   entry found by UUID takes over what it lacks, the other one is freed. *)
MergeIntoUuid(a, i, j) ==
  /\ i # j
  /\ cache' = [cache EXCEPT
       ![i] = Cleared(FALSE),
       ![j] = [cache[j] EXCEPT
                 !.addr = a,
                 !.name = IF cache[j].name = None THEN cache[i].name
                          ELSE cache[j].name,
                 !.scan_visible = cache[j].scan_visible
                                    \/ cache[i].scan_visible]]
  /\ UNCHANGED evict_cursor

(* Mutant: the entry is cleared as if its UUID had changed. *)
UpdateAddr_clears(a, j) ==
  /\ cache' = [cache EXCEPT
       ![j] = [Cleared(TRUE) EXCEPT !.addr = a, !.uuid = cache[j].uuid]]
  /\ UNCHANGED evict_cursor

(* The device is known by UUID only, or by both in one entry. *)
UpdateAddr(a, j) ==
  /\ cache' = [cache EXCEPT ![j].addr = a]
  /\ UNCHANGED evict_cursor

(* Mutant: the new device inherits what was known of the old one. *)
ReuseAddrEntry_inherits(a, u, i) ==
  /\ cache' = [cache EXCEPT ![i] = [@ EXCEPT !.addr = a, !.uuid = u]]
  /\ UNCHANGED evict_cursor

(* The address is known, with another UUID or with none. *)
ReuseAddrEntry(a, u, i) ==
  /\ cache' = [cache EXCEPT
       ![i] = [(IF @.uuid \notin {None, u} THEN Cleared(TRUE) ELSE @)
                 EXCEPT !.addr = a, !.uuid = u]]
  /\ UNCHANGED evict_cursor

(* Neither is known. *)
InsertAdv(a, u, s) ==
  /\ alloc_entry_locked(s)
  /\ cache' = [cache EXCEPT
       ![s] = [Cleared(TRUE) EXCEPT !.addr = a, !.uuid = u]]

(* A PB-GATT advertisement paired an address with a UUID. *)
prov_cache_adv_uuid_seen(a, u) ==
  LET byAddr == SlotsWithAddr(a)
      byUuid == SlotsWithUuid(u)
  IN  \/ \E i \in First(byAddr), j \in First(byUuid) : MergeIntoUuid(a, i, j)
      \/ \E j \in First(byUuid) : byAddr \subseteq {j} /\ UpdateAddr(a, j)
      \/ byUuid = {} /\ \E i \in First(byAddr) : ReuseAddrEntry(a, u, i)
      \/ byUuid = {} /\ byAddr = {} /\ \E s \in Slots : InsertAdv(a, u, s)

(* A scan response carried a name; one from an unknown address is dropped. *)
prov_cache_scan_rsp_name_seen(a, n) ==
  /\ \E s \in First(SlotsWithAddr(a)) :
       cache' = [cache EXCEPT ![s].name = n]
  /\ UNCHANGED evict_cursor

(* Mutant: the UUID is not looked up first. *)
prov_cache_ensure_uuid_unchecked(u) ==
  \E s \in Slots :
    /\ alloc_entry_locked(s)
    /\ cache' = [cache EXCEPT
         ![s] = [Cleared(TRUE) EXCEPT !.addr = None, !.uuid = u]]

(* A PB-ADV beacon carries a UUID and no address. *)
prov_cache_ensure_uuid(u) ==
  /\ SlotsWithUuid(u) = {}
  /\ \E s \in Slots :
       /\ alloc_entry_locked(s)
       /\ cache' = [cache EXCEPT
            ![s] = [Cleared(TRUE) EXCEPT !.addr = None, !.uuid = u]]

(* Mutant: the name is not asked for. *)
prov_cache_maybe_mark_visible_unnamed(u) ==
  /\ \E s \in First(SlotsWithUuid(u)) :
       /\ ~cache[s].scan_visible
       /\ cache' = [cache EXCEPT ![s].scan_visible = TRUE]
  /\ UNCHANGED evict_cursor

prov_cache_maybe_mark_visible(u) ==
  /\ \E s \in First(SlotsWithUuid(u)) :
       /\ cache[s].name # None
       /\ ~cache[s].scan_visible
       /\ cache' = [cache EXCEPT ![s].scan_visible = TRUE]
  /\ UNCHANGED evict_cursor

prov_cache_mark_all_ready_visible ==
  /\ cache' = [s \in Slots |->
       IF cache[s].in_use /\ cache[s].uuid # None /\ cache[s].name # None
       THEN [cache[s] EXCEPT !.scan_visible = TRUE] ELSE cache[s]]
  /\ UNCHANGED evict_cursor

prov_cache_mark_attempt(u, now) ==
  /\ \E s \in First(SlotsWithUuid(u)) :
       cache' = [cache EXCEPT ![s].last_attempt_ms = now]
  /\ UNCHANGED evict_cursor

(* Mutant: the entry is freed and not cleared. *)
prov_cache_on_configuration_success_uncleared(u) ==
  /\ \E s \in First(SlotsWithUuid(u)) :
       cache' = [cache EXCEPT ![s].in_use = FALSE]
  /\ UNCHANGED evict_cursor

prov_cache_on_configuration_success(u) ==
  /\ \E s \in First(SlotsWithUuid(u)) :
       cache' = [cache EXCEPT ![s] = Cleared(FALSE)]
  /\ UNCHANGED evict_cursor

Next ==
  \/ \E a \in Addrs, u \in Uuids : prov_cache_adv_uuid_seen(a, u)
  \/ \E a \in Addrs, n \in Names : prov_cache_scan_rsp_name_seen(a, n)
  \/ \E u \in Uuids : prov_cache_ensure_uuid(u)
  \/ \E u \in Uuids : prov_cache_maybe_mark_visible(u)
  \/ prov_cache_mark_all_ready_visible
  \/ \E u \in Uuids, now \in Times : prov_cache_mark_attempt(u, now)
  \/ \E u \in Uuids : prov_cache_on_configuration_success(u)

Spec == Init /\ [][Next]_vars

-----------------------------------------------------------------------------
(* The calls that only read                                                *)

VisibleSlots == {s \in Slots : cache[s].in_use /\ cache[s].scan_visible}

prov_cache_visible_count == Cardinality(VisibleSlots)

(* The number `prov scan` prints before an entry: idx[i] is what the loop has
   counted when it comes to slot i. *)
visible_index_locked(needle) ==
  LET idx[i \in 0 .. CacheMax] ==
        IF i = 0 THEN 0
        ELSE IF i - 1 \in VisibleSlots THEN idx[i - 1] + 1 ELSE idx[i - 1]
  IN  idx[IF needle \in VisibleSlots THEN needle ELSE CacheMax]

(* Mutant: an entry is passed over when it is free, not when it is unlisted. *)
prov_cache_visible_uuid_by_index_all(idx) ==
  LET from[p \in (0 .. CacheMax) \X Nat] ==
        IF p[1] = CacheMax THEN None
        ELSE IF p[1] \in FreeSlots THEN from[<<p[1] + 1, p[2]>>]
        ELSE IF p[2] = idx THEN cache[p[1]].uuid
        ELSE from[<<p[1] + 1, p[2] + 1>>]
  IN  from[<<0, 0>>]

(* The UUID a user means by a number, None standing for -ENOENT: the loop from
   slot p[1] on, with visible_idx at p[2]. *)
prov_cache_visible_uuid_by_index(idx) ==
  LET from[p \in (0 .. CacheMax) \X Nat] ==
        IF p[1] = CacheMax THEN None
        ELSE IF p[1] \notin VisibleSlots THEN from[<<p[1] + 1, p[2]>>]
        ELSE IF p[2] = idx THEN cache[p[1]].uuid
        ELSE from[<<p[1] + 1, p[2] + 1>>]
  IN  from[<<0, 0>>]

(* The name an entry gives its UUID, None when lookup_name returns false. *)
prov_cache_lookup_name(u) ==
  IF SlotsWithUuid(u) = {} THEN None
  ELSE cache[CHOOSE s \in First(SlotsWithUuid(u)) : TRUE].name

retry_ready_locked(entry, now, retry) ==
  /\ entry.in_use /\ entry.uuid # None
  /\ \/ entry.last_attempt_ms = Never
     \/ now - entry.last_attempt_ms >= retry

prov_cache_should_auto_attempt(u, now, retry) ==
  \E s \in First(SlotsWithUuid(u)) : retry_ready_locked(cache[s], now, retry)

(* The slots a pass of the retry work may stop at next, at most one. *)
prov_cache_find_next_auto_candidate(cursor, now, retry) ==
  First({s \in Slots : s >= cursor /\ retry_ready_locked(cache[s], now, retry)})

-----------------------------------------------------------------------------
(* What the cache promises                                                 *)

(* Once the call that allocated it returns, an entry in use has a UUID, and an
   entry that is free keeps nothing of the device it held. *)
WellFormed ==
  \A s \in Slots :
    /\ cache[s].in_use <=> cache[s].uuid # None
    /\ ~cache[s].in_use => cache[s].name = None /\ ~cache[s].scan_visible

(* No UUID has two entries.  The searches stop at the first match, so a second
   entry would keep a name or a cooldown nobody finds. *)
UuidUnique ==
  \A s, t \in Slots :
    cache[s].in_use /\ cache[t].in_use /\ cache[s].uuid = cache[t].uuid
      => s = t

(* No address has two entries, however adverts, beacons, merges, address
   changes and evictions follow one another. *)
AddrUnique ==
  \A s, t \in Slots :
    /\ cache[s].in_use /\ cache[t].in_use
    /\ cache[s].addr # None /\ cache[s].addr = cache[t].addr
    => s = t

(* A device appears in `prov scan` only when both its UUID and its name are
   known, also after a merge handed the listing from one entry to another. *)
VisibleIsNamed ==
  \A s \in VisibleSlots : cache[s].uuid # None /\ cache[s].name # None

(* The loop that prints a number and the loop that looks one up count alike: the
   number printed for a listed entry names that entry's UUID, and the first
   number past the list names nothing. *)
IndexNamesEntry ==
  /\ \A s \in VisibleSlots :
       prov_cache_visible_uuid_by_index(visible_index_locked(s)) = cache[s].uuid
  /\ prov_cache_visible_uuid_by_index(prov_cache_visible_count) = None

CachedUuids == {cache[s].uuid : s \in {t \in Slots : cache[t].in_use}}

ListedUuids == {cache[s].uuid : s \in VisibleSlots}

(* A listed device leaves the cache only because it was configured, because
   its address now advertises another UUID, or because every entry is listed
   and one had to be evicted. *)
ListedLeavesForAReason ==
  [][\A u \in ListedUuids \ CachedUuids' :
       \/ prov_cache_on_configuration_success(u)
       \/ VisibleSlots = Slots
       \/ \E s \in SlotsWithUuid(u), t \in Slots :
            /\ cache'[t].in_use /\ cache'[t].uuid # u
            /\ cache[s].addr # None /\ cache'[t].addr = cache[s].addr]_vars

(* Attempts of a device that stays cached are forgotten by no call: its
   cooldown changes only when an attempt of that very device is stamped. *)
CooldownSurvives ==
  [][\A s, t \in Slots :
       /\ cache[s].in_use /\ cache'[t].in_use /\ cache[s].uuid = cache'[t].uuid
       /\ cache'[t].last_attempt_ms # cache[s].last_attempt_ms
       => \E now \in Times : prov_cache_mark_attempt(cache[s].uuid, now)]_vars

(* An eviction never takes a named entry while an unnamed, unlisted one is
   there, so a flood of beacons does not push out the devices scanned so far. *)
BeaconsEvictUnnamedFirst ==
  [][(/\ \E s \in Slots : cache[s].name = None /\ ~cache[s].scan_visible
      /\ \E u \in Uuids : prov_cache_ensure_uuid(u))
     => \A s \in Slots : cache[s].name # None => cache'[s] = cache[s]]_vars

-----------------------------------------------------------------------------
(* The cache implements a directory of CacheMax devices: slots, search order,
   merges and the eviction cursor are invisible to its callers. *)

(* What the entry of a device says of it. *)
Device(entry) ==
  [addr |-> entry.addr, name |-> entry.name, listed |-> entry.scan_visible,
   attempt |-> entry.last_attempt_ms]

directory ==
  [u \in CachedUuids |-> Device(cache[CHOOSE s \in SlotsWithUuid(u) : TRUE])]

Directory == INSTANCE DeviceDirectory WITH Capacity <- CacheMax, dir <- directory

ImplementsDirectory == Directory!Spec
=============================================================================
