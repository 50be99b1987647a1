--------------------------- MODULE ProvShellProofs ---------------------------
(***************************************************************************)
(* Proofs about the shell and auto mode (ProvShell), for every size of the *)
(* cache, every set of devices and names and every retry interval.         *)
(*                                                                         *)
(* All the threads do to the cache are calls of its API, so what is proved *)
(* of the cache alone holds under them.  The invariant adds what a thread  *)
(* between two calls knows: Held, of the UUIDs it has in hand, and Owing,  *)
(* of the devices a retry pass still has to try.                           *)
(***************************************************************************)
EXTENDS ProvShell, ProvCacheProofs

(* A thread in the middle of something has a UUID in hand. *)
Held ==
  /\ bt.at # "idle" => bt.uuid \in Uuids
  /\ pass.at \in Attempt => pass.uuid \in Uuids

Base == IInv /\ ShellTypeOK /\ Held

-----------------------------------------------------------------------------
(* The cache under its callers                                             *)

LEMMA FoundIsFirst ==
  ASSUME IInv, NEW u, Found(u)
  PROVE  \E s \in First(SlotsWithUuid(u)) : cache[s].in_use /\ cache[s].uuid = u
<1>1. PICK s \in SlotsWithUuid(u) : TRUE
  BY DEF Found
<1>2. \A t \in SlotsWithUuid(u) : t = s
  BY DEF SlotsWithUuid, IInv, UuidUnique
<1>3. s \in First(SlotsWithUuid(u))
  BY <1>2, CacheMaxAssumption DEF First, SlotsWithUuid, Slots
<1> QED BY <1>3 DEF SlotsWithUuid

LEMMA StampIsACall ==
  ASSUME NEW w, w.uuid \in Uuids, w.now_ms \in 0 .. MaxTime, Stamps(w)
  PROVE  [Next]_vars
<1>1. w.now_ms \in Times
  BY ShellAssumption
<1> QED BY <1>1 DEF Stamps, Next

(* Whatever a thread does, it does to the cache by one call of its API, or
   not at all. *)
LEMMA StepIsACall ==
  ASSUME Base, [ShellNext]_shellVars
  PROVE  [Next]_vars
<1>1. CASE Receive
  BY <1>1 DEF Receive, adv_ind, scan_rsp, feed_beacon, Next
<1>2. CASE Bluetooth
  <2>1. CASE mark_noted
    <3>1. bt.uuid \in Uuids
      BY <2>1 DEF mark_noted, Base, Held
    <3> QED BY <2>1, <3>1 DEF mark_noted, Next
  <2>2. CASE beacon_stamp
    <3>1. /\ bt.uuid \in Uuids /\ bt.now_ms \in 0 .. MaxTime
      BY <2>2 DEF beacon_stamp, Stamps, Base, Held, ShellTypeOK, Place
    <3> QED BY <2>2, <3>1, StampIsACall DEF beacon_stamp
  <2>3. CASE \/ note_uuid_update \/ beacon_auto
             \/ beacon_should \/ beacon_lookup \/ beacon_request
    BY <2>3 DEF note_uuid_update, beacon_auto, beacon_should, beacon_lookup,
      beacon_request
  <2> QED BY <1>2, <2>1, <2>2, <2>3 DEF Bluetooth
<1>3. CASE RetryPass
  <2>1. CASE retry_stamp
    <3>1. /\ pass.uuid \in Uuids /\ pass.now_ms \in 0 .. MaxTime
      BY <2>1 DEF retry_stamp, Stamps, Base, Held, ShellTypeOK, Place, Attempt
    <3> QED BY <2>1, <3>1, StampIsACall DEF retry_stamp
  <2>2. CASE \/ retry_begin \/ retry_find \/ retry_end
             \/ retry_should \/ retry_lookup \/ retry_request
    BY <2>2 DEF retry_begin, retry_find, retry_end, retry_should, retry_lookup,
      retry_request
  <2> QED BY <1>3, <2>1, <2>2 DEF RetryPass
<1>4. CASE Command
  BY <1>4 DEF Command, scan_set_state, cmd_auto, scan_mark, cmd_provision, Next
<1>5. CASE Handler
  BY <1>5 DEF Handler, handler_ready, session_ends, node_configured, Next
<1>6. CASE tick \/ UNCHANGED shellVars
  BY <1>6 DEF tick, shellVars
<1> QED BY <1>1, <1>2, <1>3, <1>4, <1>5, <1>6 DEF ShellNext

LEMMA CacheKeepsIInv ==
  ASSUME Base, [ShellNext]_shellVars
  PROVE  IInv' /\ TypeOK'
BY StepIsACall, NextIInv DEF Base, IInv

-----------------------------------------------------------------------------
(* Types                                                                   *)

(* All of ShellTypeOK but the cache, and what a thread holds. *)
ThreadsOK ==
  /\ now \in 0 .. MaxTime
  /\ queued \in BOOLEAN /\ cursor \in 0 .. CacheMax
  /\ pass \in Place({"idle", "find"} \cup Attempt)
  /\ bt \in Place({"idle", "note", "beacon_note", "mark", "beacon_mark", "auto"}
                    \cup Attempt)
  /\ owed \subseteq Uuids

FlagsOK ==
  /\ scan_active \in BOOLEAN /\ auto_provision_enabled \in BOOLEAN
  /\ listing \in BOOLEAN
  /\ handler_ready_flag \in {0, 1} /\ provision_busy_flag \in {0, 1}

LEMMA FlagsKeepTypes ==
  ASSUME FlagsOK, [ShellNext]_shellVars
  PROVE  FlagsOK'
<1>1. CASE Receive
  BY <1>1 DEF Receive, adv_ind, scan_rsp, feed_beacon, FedVars, FlagsOK, handler
<1>2. CASE note_uuid_update \/ mark_noted
  BY <1>2 DEF note_uuid_update, mark_noted, FedVars, FlagsOK, handler
<1>3. CASE beacon_auto \/ beacon_should \/ beacon_lookup \/ beacon_request \/ beacon_stamp
  BY <1>3 DEF beacon_auto, beacon_should, beacon_lookup, beacon_request,
    beacon_stamp, BeaconVars, Requests, FlagsOK
<1>4. CASE retry_begin \/ retry_find \/ retry_end
  BY <1>4 DEF retry_begin, retry_find, retry_end, PassVars, FlagsOK
<1>5. CASE retry_should \/ retry_lookup \/ retry_request \/ retry_stamp
  BY <1>5 DEF retry_should, retry_lookup, retry_request, retry_stamp, PassVars,
    Requests, FlagsOK
<1>6. CASE Command
  BY <1>6 DEF Command, scan_set_state, cmd_auto, scan_mark, cmd_provision,
    ShellVars, FlagsOK, handler
<1>7. CASE Handler
  BY <1>7 DEF Handler, handler_ready, session_ends, node_configured,
    HandlerVars, FlagsOK, handler
<1>8. CASE tick \/ UNCHANGED shellVars
  BY <1>8 DEF tick, shellVars, FlagsOK, handler
<1> QED BY <1>1, <1>2, <1>3, <1>4, <1>5, <1>6, <1>7, <1>8
        DEF ShellNext, Bluetooth, RetryPass

LEMMA PlaceType ==
  ASSUME NEW places, NEW at \in places, NEW u \in Uuids \cup {None},
         NEW t \in 0 .. MaxTime
  PROVE  At(at, u, t) \in Place(places)
BY DEF At, Place

LEMMA MovePlace ==
  ASSUME NEW places, NEW w \in Place(places), NEW others, NEW at \in others
  PROVE  /\ [w EXCEPT !.at = at] \in Place(others)
         /\ [w EXCEPT !.at = at].at = at
         /\ [w EXCEPT !.at = at].uuid = w.uuid
         /\ [w EXCEPT !.at = at].now_ms = w.now_ms
BY DEF Place

LEMMA TimeAssumption == 0 \in 0 .. MaxTime
BY ShellAssumption

PassPlaces == {"idle", "find"} \cup Attempt
BtPlaces ==
  {"idle", "note", "beacon_note", "mark", "beacon_mark", "auto"} \cup Attempt

LEMMA Idling ==
  /\ Idle \in Place(PassPlaces) /\ Idle \in Place(BtPlaces) /\ Idle.at = "idle"
  /\ Find \in Place(PassPlaces) /\ Find.at = "find"
BY TimeAssumption, PlaceType DEF Idle, Find, PassPlaces, BtPlaces, At

(* The attempt of either thread goes on with the UUID in hand. *)
LEMMA AttemptGoesOn ==
  ASSUME NEW places, NEW w \in Place(places), Attempt \subseteq places,
         NEW rest \in Place(places), rest.at \notin Attempt
  PROVE  /\ ShouldAttempt(w, rest) \in Place(places)
         /\ LookUp(w, rest) \in Place(places)
         /\ Request(w, rest) \in Place(places)
         /\ \/ ShouldAttempt(w, rest) = rest
            \/ ShouldAttempt(w, rest).uuid = w.uuid
         /\ LookUp(w, rest) = rest \/ LookUp(w, rest).uuid = w.uuid
         /\ Request(w, rest) = rest \/ Request(w, rest).uuid = w.uuid
<1>1. {"lookup", "request", "requested", "busy"} \subseteq places
  BY DEF Attempt
<1> QED BY <1>1, MovePlace DEF ShouldAttempt, LookUp, Request

(* Who is owed was in the cache. *)
LEMMA CachedAreUuids ==
  ASSUME IInv
  PROVE  CachedUuids \subseteq Uuids
BY DEF CachedUuids, IInv, TypeOK, WellFormed, Entry

LEMMA OweShrinks ==
  ASSUME NEW U \in SUBSET Uuids, Owe(U)
  PROVE  owed' \subseteq Uuids
BY DEF Owe

LEMMA BluetoothKeepsTypes ==
  ASSUME Base, Receive \/ Bluetooth
  PROVE  ThreadsOK' /\ (bt'.at # "idle" => bt'.uuid \in Uuids)
                    /\ (pass'.at \in Attempt => pass'.uuid \in Uuids)
<1>1. /\ ThreadsOK /\ IInv /\ bt \in Place(BtPlaces)
      /\ pass.at \in Attempt => pass.uuid \in Uuids
      /\ bt.at # "idle" => bt.uuid \in Uuids
      /\ owed \in SUBSET Uuids /\ now \in 0 .. MaxTime
  BY DEF Base, ShellTypeOK, ThreadsOK, Held, BtPlaces
<1>2. UNCHANGED <<now, queued, pass, cursor>>
  BY DEF Receive, adv_ind, scan_rsp, feed_beacon, FedVars, work, Bluetooth,
    note_uuid_update, mark_noted, beacon_auto, beacon_should, beacon_lookup,
    beacon_request, beacon_stamp, BeaconVars
<1>3. owed' \subseteq Uuids
  <2>1. CASE CacheCall \/ UNCHANGED owed
    BY <1>1, <2>1, OweShrinks DEF CacheCall
  <2>2. CASE Owe(owed \ {bt.uuid})
    BY <1>1, <2>2, OweShrinks
  <2> QED
    BY <2>1, <2>2 DEF Receive, adv_ind, scan_rsp, feed_beacon, Bluetooth,
      note_uuid_update, mark_noted, beacon_auto, beacon_should, beacon_lookup,
      beacon_request, beacon_stamp
<1>4. SUFFICES bt' \in Place(BtPlaces) /\ (bt'.at # "idle" => bt'.uuid \in Uuids)
  BY <1>1, <1>2, <1>3 DEF ThreadsOK, BtPlaces
<1>5. /\ Idle \in Place(BtPlaces) /\ Idle.at = "idle"
      /\ 0 \in 0 .. MaxTime
      /\ {"idle", "note", "beacon_note", "mark", "beacon_mark", "auto", "should"}
           \subseteq BtPlaces
      /\ "idle" \notin Attempt /\ Attempt \subseteq BtPlaces
  BY Idling, TimeAssumption DEF BtPlaces, Attempt
<1>6. CASE Receive
  <2>1. CASE \E a \in Addrs, u \in Uuids : adv_ind(a, u)
    BY <1>5, <2>1, PlaceType DEF adv_ind, At
  <2>2. CASE \E a \in Addrs, n \in Names : scan_rsp(a, n)
    <3>1. PICK s \in Slots :
            bt' = IF cache[s].uuid = None THEN Idle
                  ELSE At("note", cache[s].uuid, 0)
      BY <2>2 DEF scan_rsp, First, SlotsWithAddr
    <3>2. cache[s].uuid \in Uuids \cup {None}
      BY <1>1 DEF IInv, TypeOK, Entry
    <3> QED BY <1>5, <3>1, <3>2, PlaceType DEF At
  <2>3. CASE \E u \in Uuids : feed_beacon(u)
    BY <1>5, <2>3, PlaceType DEF feed_beacon, At
  <2> QED BY <1>6, <2>1, <2>2, <2>3 DEF Receive
<1>7. AfterNote \in Place(BtPlaces) /\ (AfterNote.at # "idle" =>
                                           AfterNote.uuid = bt.uuid /\ bt.at # "idle")
  BY <1>1, <1>5, MovePlace DEF AfterNote
<1>8. CASE note_uuid_update \/ mark_noted
  <2>1. \/ bt' = AfterNote
        \/ /\ bt.at # "idle"
           /\ \/ bt' = [bt EXCEPT !.at = "mark"]
              \/ bt' = [bt EXCEPT !.at = "beacon_mark"]
    BY <1>8 DEF note_uuid_update, mark_noted
  <2>2. \A at \in {"mark", "beacon_mark"} :
          /\ [bt EXCEPT !.at = at] \in Place(BtPlaces)
          /\ [bt EXCEPT !.at = at].uuid = bt.uuid
    BY <1>1, <1>5, MovePlace
  <2> QED BY <1>1, <1>7, <2>1, <2>2
<1>9. CASE beacon_auto
  BY <1>1, <1>5, <1>9, PlaceType DEF beacon_auto, At
<1>10. CASE beacon_should
  <2>1. bt' = ShouldAttempt(bt, Idle) /\ bt.at # "idle"
    BY <1>10 DEF beacon_should
  <2>2. /\ ShouldAttempt(bt, Idle) \in Place(BtPlaces)
        /\ \/ ShouldAttempt(bt, Idle) = Idle
           \/ ShouldAttempt(bt, Idle).uuid = bt.uuid
    BY <1>1, <1>5, AttemptGoesOn
  <2> QED BY <1>1, <1>5, <2>1, <2>2
<1>11. CASE beacon_request
  <2>1. bt' = Request(bt, Idle) /\ bt.at # "idle"
    BY <1>11 DEF beacon_request, Requests
  <2>2. /\ Request(bt, Idle) \in Place(BtPlaces)
        /\ \/ Request(bt, Idle) = Idle
           \/ Request(bt, Idle).uuid = bt.uuid
    BY <1>1, <1>5, AttemptGoesOn
  <2> QED BY <1>1, <1>5, <2>1, <2>2
<1>12. CASE beacon_stamp
  BY <1>5, <1>12 DEF beacon_stamp
<1>13. CASE beacon_lookup
  <2>1. bt' = LookUp(bt, Idle) /\ bt.at # "idle"
    BY <1>13 DEF beacon_lookup
  <2>2. /\ LookUp(bt, Idle) \in Place(BtPlaces)
        /\ LookUp(bt, Idle) = Idle \/ LookUp(bt, Idle).uuid = bt.uuid
    BY <1>1, <1>5, AttemptGoesOn
  <2> QED BY <1>1, <1>5, <2>1, <2>2
<1> QED BY <1>6, <1>8, <1>9, <1>10, <1>11, <1>12, <1>13 DEF Bluetooth

LEMMA RetryKeepsTypes ==
  ASSUME Base, RetryPass
  PROVE  ThreadsOK' /\ (bt'.at # "idle" => bt'.uuid \in Uuids)
                    /\ (pass'.at \in Attempt => pass'.uuid \in Uuids)
<1>1. /\ ThreadsOK /\ IInv /\ pass \in Place(PassPlaces)
      /\ pass.at \in Attempt => pass.uuid \in Uuids
      /\ bt.at # "idle" => bt.uuid \in Uuids
      /\ owed \in SUBSET Uuids /\ now \in 0 .. MaxTime
      /\ queued \in BOOLEAN /\ cursor \in 0 .. CacheMax
      /\ 0 \in 0 .. CacheMax
  BY CacheMaxAssumption DEF Base, ShellTypeOK, ThreadsOK, Held, PassPlaces
<1>2. now' = now /\ bt' = bt
  BY DEF RetryPass, retry_begin, retry_find, retry_end, retry_should,
    retry_lookup, retry_request, retry_stamp, PassVars
<1>3. SUFFICES /\ pass' \in Place(PassPlaces) /\ owed' \subseteq Uuids
               /\ queued' \in BOOLEAN /\ cursor' \in 0 .. CacheMax
               /\ pass'.at \in Attempt => pass'.uuid \in Uuids
  BY <1>1, <1>2 DEF ThreadsOK, PassPlaces
<1>4. /\ Idle \in Place(PassPlaces) /\ Idle.at = "idle"
      /\ Find \in Place(PassPlaces) /\ Find.at = "find"
      /\ {"idle", "find", "should"} \subseteq PassPlaces
      /\ "idle" \notin Attempt /\ "find" \notin Attempt
      /\ Attempt \subseteq PassPlaces
  BY Idling DEF PassPlaces, Attempt
<1>5. CASE retry_begin
  <2>1. owed' \subseteq Uuids
    BY <1>1, <1>5, CachedAreUuids DEF retry_begin
  <2> QED BY <1>1, <1>4, <1>5, <2>1 DEF retry_begin
<1>6. CASE retry_find
  <2>1. PICK s \in Slots :
          /\ retry_ready_locked(cache[s], now, PROV_AUTO_RETRY_MS)
          /\ pass' = At("should", cache[s].uuid, now) /\ cursor' = s + 1
    BY <1>6 DEF retry_find, Candidates, prov_cache_find_next_auto_candidate,
      First
  <2>2. cache[s].uuid \in Uuids
    BY <1>1, <2>1 DEF retry_ready_locked, IInv, TypeOK, Entry
  <2>3. s + 1 \in 0 .. CacheMax
    BY CacheMaxAssumption DEF Slots
  <2>4. pass' \in Place(PassPlaces) /\ pass'.uuid \in Uuids
    BY <1>1, <1>4, <2>1, <2>2, PlaceType DEF At
  <2>5. queued' = queued /\ owed' = owed
    BY <1>6 DEF retry_find
  <2> QED BY <1>1, <2>1, <2>3, <2>4, <2>5
<1>7. CASE retry_end
  BY <1>1, <1>4, <1>7 DEF retry_end
<1>8. CASE retry_should
  <2>1. /\ pass' = ShouldAttempt(pass, Find) /\ pass.at \in Attempt
        /\ UNCHANGED <<queued, cursor, owed>>
    BY <1>8 DEF retry_should, Attempt
  <2>2. /\ ShouldAttempt(pass, Find) \in Place(PassPlaces)
        /\ \/ ShouldAttempt(pass, Find) = Find
           \/ ShouldAttempt(pass, Find).uuid = pass.uuid
    BY <1>1, <1>4, AttemptGoesOn
  <2> QED BY <1>1, <1>4, <2>1, <2>2
<1>9. CASE retry_request
  <2>1. /\ pass' = Request(pass, Find) /\ pass.at \in Attempt
        /\ UNCHANGED <<queued, cursor, owed>>
    BY <1>9 DEF retry_request, Requests, Attempt
  <2>2. /\ Request(pass, Find) \in Place(PassPlaces)
        /\ \/ Request(pass, Find) = Find
           \/ Request(pass, Find).uuid = pass.uuid
    BY <1>1, <1>4, AttemptGoesOn
  <2> QED BY <1>1, <1>4, <2>1, <2>2
<1>10. CASE retry_stamp
  <2>1. /\ queued' = queued
        /\ \/ pass' = Idle /\ cursor' = 0 /\ owed' = {}
           \/ pass' = Find /\ cursor' = cursor /\ Owe(owed \ {pass.uuid})
    BY <1>10 DEF retry_stamp
  <2> QED BY <1>1, <1>4, <2>1, OweShrinks
<1>11. CASE retry_lookup
  <2>1. /\ pass' = LookUp(pass, Find) /\ pass.at \in Attempt
        /\ UNCHANGED <<queued, cursor, owed>>
    BY <1>11 DEF retry_lookup, Attempt
  <2>2. /\ LookUp(pass, Find) \in Place(PassPlaces)
        /\ LookUp(pass, Find) = Find \/ LookUp(pass, Find).uuid = pass.uuid
    BY <1>1, <1>4, AttemptGoesOn
  <2> QED BY <1>1, <1>4, <2>1, <2>2
<1> QED BY <1>5, <1>6, <1>7, <1>8, <1>9, <1>10, <1>11 DEF RetryPass

LEMMA OthersKeepTypes ==
  ASSUME Base, Command \/ Handler \/ tick \/ UNCHANGED shellVars
  PROVE  ThreadsOK' /\ (bt'.at # "idle" => bt'.uuid \in Uuids)
                    /\ (pass'.at \in Attempt => pass'.uuid \in Uuids)
<1>1. /\ ThreadsOK /\ owed \in SUBSET Uuids
      /\ queued \in BOOLEAN /\ auto_provision_enabled \in BOOLEAN
      /\ pass.at \in Attempt => pass.uuid \in Uuids
      /\ bt.at # "idle" => bt.uuid \in Uuids
  BY DEF Base, ShellTypeOK, ThreadsOK, Held
<1>2. UNCHANGED <<bt, pass, cursor>>
  BY DEF Command, scan_set_state, cmd_auto, scan_mark, cmd_provision, ShellVars,
    work, Handler, handler_ready, session_ends, node_configured, HandlerVars,
    tick, shellVars
<1>3. queued' \in BOOLEAN
  <2>1. \/ UNCHANGED queued
        \/ \E on \in BOOLEAN : prov_shell_auto_retry_submit(on)
    BY <1>1 DEF Command, scan_set_state, cmd_auto, scan_mark, cmd_provision,
      ShellVars, work, Handler, handler_ready, session_ends, node_configured,
      tick, shellVars
  <2> QED BY <1>1, <2>1 DEF prov_shell_auto_retry_submit
<1>4. now' \in 0 .. MaxTime
  <2>1. now \in 0 .. MaxTime /\ MaxTime \in Nat
    BY <1>1, ShellAssumption DEF ThreadsOK
  <2>2. CASE tick
    BY <2>1, <2>2 DEF tick
  <2>3. CASE Command \/ Handler \/ UNCHANGED shellVars
    BY <2>1, <2>3 DEF Command, scan_set_state, cmd_auto, scan_mark,
      cmd_provision, ShellVars, Handler, handler_ready, session_ends,
      node_configured, HandlerVars, shellVars
  <2> QED BY <2>2, <2>3
<1>5. owed' \subseteq Uuids
  <2>1. CacheCall \/ UNCHANGED owed
    BY DEF Command, scan_set_state, cmd_auto, scan_mark, cmd_provision,
      Handler, handler_ready, session_ends, node_configured, tick, shellVars
  <2> QED BY <1>1, <2>1, OweShrinks DEF CacheCall
<1> QED BY <1>1, <1>2, <1>3, <1>4, <1>5 DEF ThreadsOK

LEMMA NextBase == Base /\ [ShellNext]_shellVars => Base'
<1> SUFFICES ASSUME Base, [ShellNext]_shellVars PROVE Base'
  OBVIOUS
<1>1. IInv' /\ TypeOK'
  BY CacheKeepsIInv
<1>2. FlagsOK'
  BY FlagsKeepTypes DEF Base, ShellTypeOK, FlagsOK
<1>3. ThreadsOK' /\ Held'
  BY BluetoothKeepsTypes, RetryKeepsTypes, OthersKeepTypes DEF ShellNext, Held
<1> QED BY <1>1, <1>2, <1>3 DEF Base, ShellTypeOK, FlagsOK, ThreadsOK

LEMMA InitBase == ShellInit => Base
<1> SUFFICES ASSUME ShellInit PROVE Base
  OBVIOUS
<1>1. IInv /\ TypeOK
  BY InitIInv DEF ShellInit, IInv
<1>2. now = 0 /\ cursor = 0 /\ pass = Idle /\ bt = Idle /\ owed = {}
  BY DEF ShellInit
<1>3. ThreadsOK
  <2>1. now \in 0 .. MaxTime /\ cursor \in 0 .. CacheMax
    BY <1>2, TimeAssumption, CacheMaxAssumption
  <2>2. pass \in Place(PassPlaces) /\ bt \in Place(BtPlaces)
    BY <1>2, Idling
  <2>3. queued \in BOOLEAN /\ owed \subseteq Uuids
    BY <1>2 DEF ShellInit
  <2> QED BY <2>1, <2>2, <2>3 DEF ThreadsOK, PassPlaces, BtPlaces
<1>4. FlagsOK
  BY DEF ShellInit, FlagsOK
<1>5. Held
  BY <1>2, Idling DEF Held, Attempt
<1> QED BY <1>1, <1>3, <1>4, <1>5 DEF Base, ShellTypeOK, FlagsOK, ThreadsOK

THEOREM ShellBase == ShellSpec => []Base
BY InitBase, NextBase, PTL DEF ShellSpec

(* Every thread is at a place it can be at, the cursor of a retry pass within
   the cache or just past it. *)
THEOREM ShellTypeCorrect == ShellSpec => []ShellTypeOK
<1>1. Base => ShellTypeOK
  BY DEF Base
<1> QED BY <1>1, ShellBase, PTL

(* The shell, auto mode, the scanner and the handler together use the cache as
   the cache's own specification allows, whatever is proved of it holds here. *)
THEOREM ShellUsesTheCache == ShellSpec => Spec
<1>1. ShellInit => Init
  BY DEF ShellInit
<1>2. Base /\ [ShellNext]_shellVars => [Next]_vars
  BY StepIsACall
<1> QED BY <1>1, <1>2, ShellBase, PTL DEF ShellSpec, Spec

-----------------------------------------------------------------------------
(* Listing                                                                 *)

(* An entry `prov scan` ought to list and does not. *)
Unlisted(e) == e.in_use /\ e.name # None /\ ~e.scan_visible

(* An advertisement concerns its UUID: of other entries, none is new here. *)
LEMMA AdvUnlisted ==
  ASSUME IInv, NEW a \in Addrs, NEW v \in Uuids, prov_cache_adv_uuid_seen(a, v),
         NEW t \in Slots, Unlisted(cache'[t])
  PROVE  cache'[t].uuid = v \/ Unlisted(cache[t])
<1>1. cache \in [Slots -> Entry]
  BY DEF IInv, TypeOK
<1>2. CASE \E i \in First(SlotsWithAddr(a)), j \in First(SlotsWithUuid(v)) :
             MergeIntoUuid(a, i, j)
  <2>1. PICK i \in Slots, j \in Slots :
          /\ cache[j].uuid = v /\ MergeIntoUuid(a, i, j)
    BY <1>2 DEF First, SlotsWithAddr, SlotsWithUuid
  <2> DEFINE name == IF cache[j].name = None THEN cache[i].name
                     ELSE cache[j].name
             visible == cache[j].scan_visible \/ cache[i].scan_visible
             e == [cache[j] EXCEPT !.addr = a, !.name = name,
                                   !.scan_visible = visible]
  <2>2. cache' = [cache EXCEPT ![i] = Cleared(FALSE), ![j] = e] /\ i # j
    BY <2>1 DEF MergeIntoUuid
  <2> HIDE DEF name, visible
  <2>3. e.uuid = v
    BY <1>1, <2>1 DEF Entry
  <2> HIDE DEF e
  <2>4. /\ cache'[j] = e /\ cache'[i] = Cleared(FALSE)
        /\ t # i /\ t # j => cache'[t] = cache[t]
    BY <1>1, <2>1, <2>2
  <2>5. ~Unlisted(Cleared(FALSE))
    BY DEF Unlisted, Cleared
  <2> QED BY <2>3, <2>4, <2>5
<1>3. CASE \E j \in First(SlotsWithUuid(v)) : UpdateAddr(a, j)
  <2>1. PICK j \in Slots : UpdateAddr(a, j)
    BY <1>3 DEF First, SlotsWithUuid
  <2>2. /\ cache'[t].in_use = cache[t].in_use /\ cache'[t].name = cache[t].name
        /\ cache'[t].scan_visible = cache[t].scan_visible
    BY <1>1, <2>1 DEF UpdateAddr, Entry
  <2> QED BY <2>2 DEF Unlisted
<1>4. CASE /\ SlotsWithUuid(v) = {}
           /\ \E i \in First(SlotsWithAddr(a)) : ReuseAddrEntry(a, v, i)
  <2>1. PICK i \in Slots : cache[i].in_use /\ ReuseAddrEntry(a, v, i)
    BY <1>4 DEF First, SlotsWithAddr
  <2>2. cache[i].uuid \notin {None, v}
    BY <1>4, <2>1 DEF SlotsWithUuid, IInv, WellFormed
  <2> DEFINE e == [Cleared(TRUE) EXCEPT !.addr = a, !.uuid = v]
  <2>3. cache' = [cache EXCEPT ![i] = e]
    BY <1>1, <2>1, <2>2 DEF ReuseAddrEntry
  <2>4. ~Unlisted(e)
    BY DEF Unlisted, Cleared
  <2> HIDE DEF e
  <2> QED BY <1>1, <2>1, <2>3, <2>4
<1>5. CASE \E k \in Slots : InsertAdv(a, v, k)
  <2> DEFINE e == [Cleared(TRUE) EXCEPT !.addr = a, !.uuid = v]
  <2>1. PICK k \in Slots : cache' = [cache EXCEPT ![k] = e]
    BY <1>5 DEF InsertAdv
  <2>2. ~Unlisted(e)
    BY DEF Unlisted, Cleared
  <2> HIDE DEF e
  <2> QED BY <1>1, <2>1, <2>2
<1> QED BY <1>2, <1>3, <1>4, <1>5 DEF prov_cache_adv_uuid_seen

LEMMA EnsureUnlisted ==
  ASSUME IInv, NEW v \in Uuids, prov_cache_ensure_uuid(v),
         NEW t \in Slots, Unlisted(cache'[t])
  PROVE  Unlisted(cache[t])
<1> DEFINE e == [Cleared(TRUE) EXCEPT !.addr = None, !.uuid = v]
<1>1. PICK k \in Slots : cache' = [cache EXCEPT ![k] = e]
  BY DEF prov_cache_ensure_uuid
<1>2. ~Unlisted(e)
  BY NoneAssumption DEF Unlisted, Cleared
<1> HIDE DEF e
<1> QED BY <1>1, <1>2 DEF IInv, TypeOK

(* The entry that is marked is the one with the UUID. *)
LEMMA MarkUnlisted ==
  ASSUME IInv, NEW u \in Uuids,
         IF Markable(u) THEN prov_cache_maybe_mark_visible(u) ELSE UNCHANGED vars,
         NEW t \in Slots, Unlisted(cache'[t])
  PROVE  Unlisted(cache[t]) /\ cache'[t].uuid = cache[t].uuid /\ cache[t].uuid # u
<1>1. CASE Markable(u)
  <2>1. PICK s \in First(SlotsWithUuid(u)) :
          cache' = [cache EXCEPT ![s].scan_visible = TRUE]
    BY <1>1 DEF prov_cache_maybe_mark_visible
  <2>2. s \in Slots /\ cache[s] \in Entry /\ cache[s].in_use /\ cache[s].uuid = u
    BY <2>1 DEF First, SlotsWithUuid, IInv, TypeOK
  <2>3. t # s
    BY <2>1, <2>2 DEF Unlisted, IInv, TypeOK, Entry
  <2>4. cache'[t] = cache[t]
    BY <2>1, <2>2, <2>3 DEF IInv, TypeOK
  <2> QED BY <2>2, <2>3, <2>4 DEF IInv, UuidUnique, Unlisted
<1>2. CASE ~Markable(u)
  <2>1. cache' = cache
    BY <1>2 DEF vars
  <2>2. SUFFICES ASSUME cache[t].uuid = u
                 PROVE  FALSE
    BY <2>1
  <2>3. Found(u)
    BY <2>1, <2>2 DEF Found, SlotsWithUuid, Unlisted
  <2>4. PICK s \in First(SlotsWithUuid(u)) : cache[s].in_use /\ cache[s].uuid = u
    BY <2>3, FoundIsFirst
  <2>5. s = t
    BY <2>1, <2>2, <2>4 DEF First, SlotsWithUuid, IInv, UuidUnique, Unlisted
  <2> QED BY <1>2, <2>1, <2>4, <2>5 DEF Markable, Unlisted
<1> QED BY <1>1, <1>2

LEMMA StampUnlisted ==
  ASSUME IInv, NEW u, NEW now_ms,
         prov_cache_mark_attempt(u, now_ms) \/ UNCHANGED vars,
         NEW t \in Slots, Unlisted(cache'[t])
  PROVE  Unlisted(cache[t]) /\ cache'[t].uuid = cache[t].uuid
<1>1. CASE prov_cache_mark_attempt(u, now_ms)
  <2>1. PICK s \in Slots : cache' = [cache EXCEPT ![s].last_attempt_ms = now_ms]
    BY <1>1 DEF prov_cache_mark_attempt, First, SlotsWithUuid
  <2>2. /\ cache'[t].in_use = cache[t].in_use /\ cache'[t].name = cache[t].name
        /\ cache'[t].scan_visible = cache[t].scan_visible
        /\ cache'[t].uuid = cache[t].uuid
    BY <2>1 DEF IInv, TypeOK, Entry
  <2> QED BY <2>2 DEF Unlisted
<1>2. CASE UNCHANGED vars
  BY <1>2 DEF vars
<1> QED BY <1>1, <1>2

LEMMA SuccessUnlisted ==
  ASSUME IInv, NEW u, prov_cache_on_configuration_success(u) \/ UNCHANGED vars,
         NEW t \in Slots, Unlisted(cache'[t])
  PROVE  Unlisted(cache[t]) /\ cache'[t].uuid = cache[t].uuid
<1>1. CASE prov_cache_on_configuration_success(u)
  <2>1. PICK s \in Slots : cache' = [cache EXCEPT ![s] = Cleared(FALSE)]
    BY <1>1 DEF prov_cache_on_configuration_success, First, SlotsWithUuid
  <2>2. ~Unlisted(Cleared(FALSE))
    BY DEF Unlisted, Cleared
  <2> QED BY <2>1, <2>2 DEF IInv, TypeOK
<1>2. CASE UNCHANGED vars
  BY <1>2 DEF vars
<1> QED BY <1>1, <1>2

LEMMA NotedIsNotIdle == Idle.at \notin Noting
BY DEF Idle, At, Noting

(* A report leaves at most the device it is about unlisted, and notes it. *)
LEMMA ReceiveMissesNobody ==
  ASSUME Base, NobodyNamedIsMissed, Receive, scan_active', ~listing',
         NEW t \in Slots, Unlisted(cache'[t])
  PROVE  bt'.uuid = cache'[t].uuid /\ bt'.at \in Noting
<1>1. bt = Idle /\ scan_active /\ ~listing /\ IInv
  <2>1. bt = Idle /\ IInv /\ scan_active' = scan_active /\ listing' = listing
    BY DEF Receive, adv_ind, scan_rsp, feed_beacon, Receives, FedVars, Base
  <2> QED BY <2>1, Zenon
<1>2. ~Unlisted(cache[t])
  BY <1>1, NotedIsNotIdle DEF NobodyNamedIsMissed, Unlisted
<1>3. CASE \E a \in Addrs, u \in Uuids : adv_ind(a, u)
  BY <1>1, <1>2, <1>3, AdvUnlisted DEF adv_ind, At, Noting
<1>4. CASE \E a \in Addrs, n \in Names : scan_rsp(a, n)
  <2>1. PICK a \in Addrs, n \in Names : scan_rsp(a, n)
    BY <1>4
  <2>2. PICK s \in First(SlotsWithAddr(a)) :
          bt' = IF cache[s].uuid = None THEN Idle
                ELSE At("note", cache[s].uuid, 0)
    BY <2>1 DEF scan_rsp
  <2>3. PICK r \in First(SlotsWithAddr(a)) :
          cache' = [cache EXCEPT ![r].name = n]
    BY <2>1 DEF scan_rsp, prov_cache_scan_rsp_name_seen
  <2>4. s = r /\ s \in Slots /\ cache[s].in_use
    BY <2>2, <2>3, <1>1 DEF First, SlotsWithAddr, IInv, AddrUnique,
      NoneAssumption, Slots
  <2>5. t = s
    BY <1>1, <1>2, <2>3, <2>4 DEF IInv, TypeOK
  <2>6. cache'[t].uuid = cache[s].uuid /\ cache[s].uuid # None
    BY <1>1, <2>3, <2>4, <2>5 DEF IInv, TypeOK, WellFormed, Entry
  <2> QED BY <2>2, <2>6 DEF At, Noting
<1>5. CASE \E u \in Uuids : feed_beacon(u)
  BY <1>1, <1>2, <1>5, EnsureUnlisted DEF feed_beacon, vars
<1> QED BY <1>3, <1>4, <1>5 DEF Receive

LEMMA NotingMissesNobody ==
  ASSUME Base, NobodyNamedIsMissed, Bluetooth, scan_active', ~listing',
         NEW t \in Slots, Unlisted(cache'[t])
  PROVE  bt'.uuid = cache'[t].uuid /\ bt'.at \in Noting
<1>1. /\ scan_active /\ ~listing /\ IInv /\ bt \in Place(BtPlaces)
      /\ bt.at # "idle" => bt.uuid \in Uuids
  BY DEF Bluetooth, note_uuid_update, mark_noted, beacon_auto, beacon_should,
    beacon_lookup, beacon_request, beacon_stamp, FedVars, BeaconVars, Base,
    Held, ShellTypeOK, BtPlaces
<1>2. Unlisted(cache[t]) => bt.uuid = cache[t].uuid /\ bt.at \in Noting
  BY <1>1 DEF NobodyNamedIsMissed, Unlisted
<1>3. CASE note_uuid_update
  <2>1. cache' = cache /\ bt.uuid = cache[t].uuid
    BY <1>2, <1>3 DEF note_uuid_update, vars
  <2>2. bt' \in {[bt EXCEPT !.at = "mark"], [bt EXCEPT !.at = "beacon_mark"]}
    BY <1>1, <1>3 DEF note_uuid_update
  <2>3. bt'.uuid = bt.uuid /\ bt'.at \in {"mark", "beacon_mark"}
    BY <1>1, <2>2 DEF Place
  <2> QED BY <2>1, <2>3 DEF Noting
<1>4. CASE mark_noted
  <2>1. bt.uuid \in Uuids
    BY <1>1, <1>4 DEF mark_noted
  <2> QED BY <1>1, <1>2, <1>4, <2>1, MarkUnlisted DEF mark_noted
<1>5. CASE beacon_auto \/ beacon_should \/ beacon_lookup \/ beacon_request
  BY <1>2, <1>5 DEF beacon_auto, beacon_should, beacon_lookup, beacon_request,
    Requests, vars, Noting
<1>6. CASE beacon_stamp
  <2>1. prov_cache_mark_attempt(bt.uuid, bt.now_ms) \/ UNCHANGED vars
    BY <1>6 DEF beacon_stamp, Stamps
  <2>2. Unlisted(cache[t])
    BY <1>1, <2>1, StampUnlisted
  <2> QED BY <1>2, <1>6, <2>2 DEF beacon_stamp, Stamps, Noting
<1> QED BY <1>3, <1>4, <1>5, <1>6 DEF Bluetooth

LEMMA OthersMissNobody ==
  ASSUME Base, NobodyNamedIsMissed,
         RetryPass \/ Command \/ Handler \/ tick \/ UNCHANGED shellVars,
         scan_active', ~listing', NEW t \in Slots, Unlisted(cache'[t])
  PROVE  bt'.uuid = cache'[t].uuid /\ bt'.at \in Noting
<1>1. IInv /\ bt' = bt
  BY DEF Base, RetryPass, retry_begin, retry_find, retry_end, retry_should,
    retry_lookup, retry_request, retry_stamp, PassVars, Command, scan_set_state,
    cmd_auto, scan_mark, cmd_provision, ShellVars, Handler, handler_ready,
    session_ends, node_configured, HandlerVars, tick, shellVars
<1>2. scan_active /\ ~listing /\ Unlisted(cache[t])
        => bt.uuid = cache[t].uuid /\ bt.at \in Noting
  BY DEF NobodyNamedIsMissed, Unlisted
<1>3. CASE RetryPass
  <2>1. scan_active /\ ~listing
    <3>1. scan_active' = scan_active /\ listing' = listing
      BY <1>3 DEF RetryPass, retry_begin, retry_find, retry_end, retry_should,
        retry_lookup, retry_request, retry_stamp, PassVars
    <3> QED BY <3>1, Zenon
  <2>2. prov_cache_mark_attempt(pass.uuid, pass.now_ms) \/ UNCHANGED vars
    BY <1>3 DEF RetryPass, retry_begin, retry_find, retry_end, retry_should,
      retry_lookup, retry_request, retry_stamp, Stamps
  <2>3. Unlisted(cache[t]) /\ cache'[t].uuid = cache[t].uuid
    BY <1>1, <2>2, StampUnlisted
  <2> QED BY <1>1, <1>2, <2>1, <2>3
<1>4. CASE Command
  <2>1. CASE \E on \in BOOLEAN : scan_set_state(on)
    BY <2>1 DEF scan_set_state
  <2>2. CASE scan_mark
    <3>1. prov_cache_mark_all_ready_visible
      BY <2>2 DEF scan_mark
    <3> QED BY <1>1, <3>1 DEF prov_cache_mark_all_ready_visible, Unlisted, IInv,
          TypeOK, WellFormed, Entry
  <2>3. CASE (\E on \in BOOLEAN : cmd_auto(on)) \/ cmd_provision
    BY <1>1, <1>2, <2>3 DEF cmd_auto, cmd_provision, vars
  <2> QED BY <1>4, <2>1, <2>2, <2>3 DEF Command
<1>5. CASE Handler
  <2>1. scan_active /\ ~listing
    <3>1. scan_active' = scan_active /\ listing' = listing
      BY <1>5 DEF Handler, handler_ready, session_ends, node_configured,
        HandlerVars
    <3> QED BY <3>1, Zenon
  <2>2. (\E u \in Uuids : prov_cache_on_configuration_success(u)) \/ UNCHANGED vars
    BY <1>5 DEF Handler, handler_ready, session_ends, node_configured
  <2>3. Unlisted(cache[t]) /\ cache'[t].uuid = cache[t].uuid
    BY <1>1, <2>2, SuccessUnlisted
  <2> QED BY <1>1, <1>2, <2>1, <2>3
<1>6. CASE tick \/ UNCHANGED shellVars
  <2>1. cache' = cache /\ scan_active' = scan_active /\ listing' = listing
    BY <1>6 DEF tick, shellVars, vars
  <2>2. scan_active /\ ~listing /\ Unlisted(cache[t])
    BY <2>1, Zenon
  <2> QED BY <1>1, <1>2, <2>1, <2>2
<1> QED BY <1>3, <1>4, <1>5, <1>6

(* While scanning is on, whoever has a UUID and a name is listed, or is just
   about to be: the look at scan_active and the listing of `prov scan on` miss
   nobody between them. *)
THEOREM ScanMissesNobody == ShellSpec => []NobodyNamedIsMissed
<1>1. ShellInit => NobodyNamedIsMissed
  BY DEF ShellInit, NobodyNamedIsMissed
<1>2. Base /\ NobodyNamedIsMissed /\ [ShellNext]_shellVars
        => NobodyNamedIsMissed'
  <2> SUFFICES ASSUME Base, NobodyNamedIsMissed, [ShellNext]_shellVars,
                      scan_active', ~listing',
                      NEW t \in Slots, Unlisted(cache'[t])
               PROVE  bt'.uuid = cache'[t].uuid /\ bt'.at \in Noting
    BY DEF NobodyNamedIsMissed, Unlisted
  <2> QED BY ReceiveMissesNobody, NotingMissesNobody, OthersMissNobody
          DEF ShellNext
<1> QED BY <1>1, <1>2, ShellBase, PTL DEF ShellSpec

-----------------------------------------------------------------------------
(* The retry pass                                                          *)

(* A search over a set of slots that is not empty stops somewhere. *)
LEMMA LeastSlot ==
  ASSUME NEW S \in SUBSET Slots, S # {}
  PROVE  First(S) # {}
<1> DEFINE less == OpToRel(<, Nat)
<1>1. IsWellFoundedOn(less, Nat)
  BY NatLessThanWellFounded
<1>2. \A x, y \in Nat : <<x, y>> \in less <=> x < y
  BY DEF OpToRel
<1>3. S \subseteq Nat
  BY CacheMaxAssumption DEF Slots
<1> HIDE DEF less
<1>4. \E x \in S : \A y \in S : <<y, x>> \notin less
  BY <1>1, <1>3, WFMin
<1>5. PICK x \in S : \A y \in S : ~(y < x)
  BY <1>2, <1>3, <1>4
<1> QED BY <1>3, <1>5 DEF First

(* An attempt is due for the entry that has the UUID. *)
Ready(u, t) ==
  \E s \in SlotsWithUuid(u) : retry_ready_locked(cache[s], t, PROV_AUTO_RETRY_MS)

(* The pass has the device in hand, and will not find it in cooldown, *)
InHand(u) ==
  /\ pass.at \in Attempt /\ pass.uuid = u
  /\ pass.at = "should" => Ready(u, pass.now_ms)

(* or has yet to come to its slot. *)
Ahead(u) ==
  \E s \in SlotsWithUuid(u) :
    s >= cursor /\ retry_ready_locked(cache[s], now, PROV_AUTO_RETRY_MS)

(* Whoever is owed an attempt gets it in this pass. *)
Owing ==
  \A u \in owed :
    /\ pass.at # "idle" /\ handler_ready_flag = 1 /\ HasRow(u)
    /\ InHand(u) \/ Ahead(u)

(* A device that stays in the cache, and is not tried, is as ready as it was. *)
LEMMA ReadyKept ==
  ASSUME IInv, NEW u \in Uuids, u \in CachedUuids',
         \A s \in SlotsWithUuid(u) : Stays(u, s),
         NEW s \in SlotsWithUuid(u), NEW t,
         retry_ready_locked(cache[s], t, PROV_AUTO_RETRY_MS)
  PROVE  /\ s \in Slots /\ cache'[s].in_use /\ cache'[s].uuid = u
         /\ retry_ready_locked(cache'[s], t, PROV_AUTO_RETRY_MS)
<1>1. PICK r \in Slots : cache'[r].in_use /\ cache'[r].uuid = u
  BY DEF CachedUuids
<1>2. r = s /\ cache'[s].last_attempt_ms = cache[s].last_attempt_ms
  BY <1>1 DEF Stays
<1>3. u # None
  BY NoneAssumption
<1> QED BY <1>1, <1>2, <1>3 DEF retry_ready_locked

(* A call of another thread leaves the pass its debts: whoever it leaves in the
   cache with a row is still in hand or ahead. *)
LEMMA CallKeepsOwing ==
  ASSUME Base, Owing, UNCHANGED <<now, pass, cursor, handler_ready_flag>>,
         \A u \in owed' : /\ u \in owed /\ u \in CachedUuids' /\ HasRow(u)'
                          /\ \A s \in SlotsWithUuid(u) : Stays(u, s)
  PROVE  Owing'
<1> SUFFICES ASSUME NEW u \in owed'
             PROVE  /\ pass'.at # "idle" /\ handler_ready_flag' = 1 /\ HasRow(u)'
                    /\ InHand(u)' \/ Ahead(u)'
  BY DEF Owing
<1>1. /\ u \in owed /\ u \in Uuids /\ u \in CachedUuids' /\ HasRow(u)' /\ IInv
      /\ \A s \in SlotsWithUuid(u) : Stays(u, s)
  BY DEF Base, ShellTypeOK
<1>2. /\ pass.at # "idle" /\ handler_ready_flag = 1
      /\ InHand(u) \/ Ahead(u)
  BY <1>1 DEF Owing
<1>3. ASSUME NEW t, NEW s \in SlotsWithUuid(u),
             retry_ready_locked(cache[s], t, PROV_AUTO_RETRY_MS)
      PROVE  /\ s \in Slots /\ cache'[s].in_use /\ cache'[s].uuid = u
             /\ retry_ready_locked(cache'[s], t, PROV_AUTO_RETRY_MS)
  BY <1>1, <1>3, ReadyKept
<1>4. CASE InHand(u)
  <2>1. ASSUME pass.at = "should"
        PROVE  \E s \in Slots :
                 /\ cache'[s].in_use /\ cache'[s].uuid = u
                 /\ retry_ready_locked(cache'[s], pass.now_ms, PROV_AUTO_RETRY_MS)
    <3>1. PICK s \in SlotsWithUuid(u) :
            retry_ready_locked(cache[s], pass.now_ms, PROV_AUTO_RETRY_MS)
      BY <1>4, <2>1 DEF InHand, Ready
    <3> QED BY <1>3, <3>1
  <2>2. InHand(u)'
    BY <1>4, <2>1 DEF InHand, Ready, SlotsWithUuid
  <2> QED BY <1>1, <1>2, <2>2
<1>5. CASE Ahead(u)
  <2>1. PICK s \in SlotsWithUuid(u) :
          s >= cursor /\ retry_ready_locked(cache[s], now, PROV_AUTO_RETRY_MS)
    BY <1>5 DEF Ahead
  <2>2. Ahead(u)'
    BY <1>3, <2>1 DEF Ahead, SlotsWithUuid
  <2> QED BY <1>1, <1>2, <2>2
<1> QED BY <1>2, <1>4, <1>5

(* Time passing makes nobody less ready. *)
LEMMA TimeKeepsOwing ==
  ASSUME Base, Owing, now' >= now, now' \in Int,
         UNCHANGED <<vars, pass, cursor, handler_ready_flag, owed>>
  PROVE  Owing'
<1> SUFFICES ASSUME NEW u \in owed
             PROVE  /\ pass'.at # "idle" /\ handler_ready_flag' = 1 /\ HasRow(u)'
                    /\ InHand(u)' \/ Ahead(u)'
  BY DEF Owing
<1>1. /\ cache' = cache /\ now \in Int /\ cache \in [Slots -> Entry]
      /\ PROV_AUTO_RETRY_MS \in Int
  BY ShellAssumption DEF vars, Base, ShellTypeOK, TypeOK
<1>2. /\ pass.at # "idle" /\ handler_ready_flag = 1 /\ HasRow(u)
      /\ InHand(u) \/ Ahead(u)
  BY DEF Owing
<1>3. HasRow(u)'
  BY <1>1, <1>2 DEF HasRow, prov_cache_lookup_name, SlotsWithUuid, First
<1>4. CASE InHand(u)
  <2>1. InHand(u)'
    BY <1>1, <1>4 DEF InHand, Ready, SlotsWithUuid
  <2> QED BY <1>2, <1>3, <2>1
<1>5. CASE Ahead(u)
  <2>1. PICK s \in SlotsWithUuid(u) :
          s >= cursor /\ retry_ready_locked(cache[s], now, PROV_AUTO_RETRY_MS)
    BY <1>5 DEF Ahead
  <2>2. cache[s].last_attempt_ms \in Int \cup {Never}
    BY <1>1 DEF SlotsWithUuid, Entry
  <2>3. retry_ready_locked(cache[s], now', PROV_AUTO_RETRY_MS)
    BY <1>1, <2>1, <2>2 DEF retry_ready_locked
  <2>4. Ahead(u)'
    BY <1>1, <2>1, <2>3 DEF Ahead, SlotsWithUuid
  <2> QED BY <1>2, <1>3, <2>4
<1> QED BY <1>2, <1>4, <1>5

LEMMA SameCacheStays ==
  ASSUME IInv, cache' = cache, NEW u \in Uuids, NEW s \in SlotsWithUuid(u)
  PROVE  Stays(u, s)
BY DEF Stays, SlotsWithUuid, IInv, UuidUnique

LEMMA SameCacheSameRow ==
  ASSUME cache' = cache, NEW u
  PROVE  HasRow(u)' <=> HasRow(u)
BY DEF HasRow, prov_cache_lookup_name, SlotsWithUuid, First

LEMMA BluetoothKeepsOwing ==
  ASSUME Base, Owing, Receive \/ Bluetooth
  PROVE  Owing'
<1>1. /\ IInv /\ owed \subseteq Uuids /\ now \in Int
      /\ bt.at # "idle" => bt.uuid \in Uuids
      /\ bt.now_ms \in Times
  BY ShellAssumption DEF Base, Held, ShellTypeOK, Place
<1>2. UNCHANGED <<now, pass, cursor, handler_ready_flag>>
  BY DEF Receive, adv_ind, scan_rsp, feed_beacon, FedVars, work, handler,
    Bluetooth, note_uuid_update, mark_noted, beacon_auto, beacon_should,
    beacon_lookup, beacon_request, beacon_stamp, BeaconVars
<1>3. CASE Receive
  <2>1. CacheCall
    BY <1>3 DEF Receive, adv_ind, scan_rsp, feed_beacon
  <2>2. ASSUME NEW u \in owed, NEW s \in SlotsWithUuid(u)
        PROVE  Stays(u, s)
    <3>1. CASE \E a \in Addrs, v \in Uuids : adv_ind(a, v)
      BY <1>1, <3>1, AdvStays DEF adv_ind
    <3>2. CASE \E a \in Addrs, n \in Names : scan_rsp(a, n)
      BY <1>1, <3>2, NameStays DEF scan_rsp
    <3>3. CASE \E v \in Uuids : feed_beacon(v)
      BY <1>1, <3>3, EnsureStays, SameCacheStays DEF feed_beacon, vars
    <3> QED BY <1>3, <3>1, <3>2, <3>3 DEF Receive
  <2> QED BY <1>2, <2>1, <2>2, CallKeepsOwing DEF CacheCall, Owe
<1>4. CASE mark_noted
  <2>1. CacheCall /\ bt.uuid \in Uuids
    BY <1>1, <1>4 DEF mark_noted
  <2>2. ASSUME NEW u \in owed, NEW s \in SlotsWithUuid(u)
        PROVE  Stays(u, s)
    BY <1>1, <1>4, <2>1, VisibleStays, SameCacheStays DEF mark_noted, vars
  <2> QED BY <1>2, <2>1, <2>2, CallKeepsOwing DEF CacheCall, Owe
<1>5. CASE beacon_stamp
  <2>1. Owe(owed \ {bt.uuid}) /\ bt.uuid \in Uuids
    BY <1>1, <1>5 DEF beacon_stamp, Stamps
  <2>2. ASSUME NEW u \in owed, u # bt.uuid, NEW s \in SlotsWithUuid(u)
        PROVE  Stays(u, s)
    BY <1>1, <1>5, <2>1, <2>2, AttemptStays, SameCacheStays
       DEF beacon_stamp, Stamps, vars
  <2> QED BY <1>2, <2>1, <2>2, CallKeepsOwing DEF Owe
<1>6. CASE \/ note_uuid_update \/ beacon_auto
           \/ beacon_should \/ beacon_lookup \/ beacon_request
  <2>1. UNCHANGED <<vars, owed>>
    BY <1>6 DEF note_uuid_update, beacon_auto, beacon_should, beacon_lookup,
      beacon_request
  <2> QED BY <1>1, <1>2, <2>1, TimeKeepsOwing
<1> QED BY <1>3, <1>4, <1>5, <1>6 DEF Bluetooth

LEMMA OthersKeepOwing ==
  ASSUME Base, Owing, Command \/ Handler \/ tick \/ UNCHANGED shellVars
  PROVE  Owing'
<1>1. IInv /\ owed \subseteq Uuids /\ now \in Int
  BY ShellAssumption DEF Base, ShellTypeOK
<1>2. UNCHANGED <<pass, cursor>>
  BY DEF Command, scan_set_state, cmd_auto, scan_mark, cmd_provision, ShellVars,
    work, Handler, handler_ready, session_ends, node_configured, HandlerVars,
    tick, shellVars
<1>3. CASE scan_mark
  <2>1. CacheCall /\ UNCHANGED <<now, handler_ready_flag>>
    BY <1>3 DEF scan_mark, ShellVars
  <2>2. ASSUME NEW u \in owed, NEW s \in SlotsWithUuid(u)
        PROVE  Stays(u, s)
    BY <1>1, <1>3, ListAllStays DEF scan_mark
  <2> QED BY <1>2, <2>1, <2>2, CallKeepsOwing DEF CacheCall, Owe
<1>4. CASE \E v \in Uuids : node_configured(v)
  <2>1. CacheCall /\ UNCHANGED <<now, handler_ready_flag>>
    BY <1>4 DEF node_configured, HandlerVars, handler
  <2>2. ASSUME NEW u \in owed, NEW s \in SlotsWithUuid(u)
        PROVE  Stays(u, s)
    BY <1>1, <1>4, SuccessStays, SameCacheStays DEF node_configured, vars
  <2> QED BY <1>2, <2>1, <2>2, CallKeepsOwing DEF CacheCall, Owe
<1>5. CASE handler_ready
  BY <1>5 DEF handler_ready, Owing
<1>6. CASE tick
  <2>1. /\ now' = now + 1
        /\ UNCHANGED <<vars, handler_ready_flag, owed>>
    BY <1>6 DEF tick, handler
  <2> QED BY <1>1, <1>2, <2>1, TimeKeepsOwing
<1>7. CASE \/ \E on \in BOOLEAN : scan_set_state(on) \/ cmd_auto(on)
           \/ cmd_provision \/ session_ends \/ UNCHANGED shellVars
  <2>1. UNCHANGED <<now, vars, handler_ready_flag, owed>>
    BY <1>7 DEF scan_set_state, cmd_auto, cmd_provision, ShellVars,
      session_ends, HandlerVars, shellVars, handler
  <2> QED BY <1>1, <1>2, <2>1, TimeKeepsOwing
<1> QED BY <1>3, <1>4, <1>5, <1>6, <1>7 DEF Command, Handler

(* The pass itself: it pays, or goes on to, those it owes. *)
LEMMA RetryKeepsOwing ==
  ASSUME Base, Owing, RetryPass
  PROVE  Owing'
<1>1. /\ IInv /\ owed \subseteq Uuids /\ pass \in Place(PassPlaces)
      /\ cursor \in Int /\ pass.now_ms \in Times
      /\ pass.at \in Attempt => pass.uuid \in Uuids
      /\ cache \in [Slots -> Entry] /\ Slots \subseteq Nat
  BY CacheMaxAssumption, ShellAssumption
     DEF Base, Held, ShellTypeOK, Place, PassPlaces, TypeOK, Slots
<1>2. now' = now /\ handler_ready_flag' = handler_ready_flag
  BY DEF RetryPass, retry_begin, retry_find, retry_end, retry_should,
    retry_lookup, retry_request, retry_stamp, PassVars
<1>3. /\ Find.at = "find" /\ "find" \notin Attempt /\ "find" # "idle"
      /\ "idle" \notin Attempt
  BY Idling DEF Attempt
<1>4. ASSUME owed' = {}
      PROVE  Owing'
  BY <1>4 DEF Owing
<1>5. CASE retry_begin
  <2>1. SUFFICES ASSUME NEW u \in owed'
                 PROVE  /\ pass'.at # "idle" /\ handler_ready_flag' = 1
                        /\ HasRow(u)' /\ Ahead(u)'
    BY DEF Owing
  <2>2. /\ cache' = cache /\ cursor' = 0 /\ pass' = Find
        /\ handler_ready_flag = 1 /\ HasRow(u)
        /\ prov_cache_should_auto_attempt(u, now, PROV_AUTO_RETRY_MS)
    <3>1. auto_provision_enabled /\ handler_ready_flag # 0
      BY <1>5, <2>1 DEF retry_begin
    <3>2. handler_ready_flag = 1
      BY <3>1 DEF Base, ShellTypeOK
    <3> QED BY <1>5, <2>1, <3>1, <3>2 DEF retry_begin, vars
  <2>3. PICK s \in SlotsWithUuid(u) :
          retry_ready_locked(cache[s], now, PROV_AUTO_RETRY_MS)
    BY <2>2 DEF prov_cache_should_auto_attempt, First
  <2>4. Ahead(u)'
    BY <1>1, <1>2, <2>2, <2>3 DEF Ahead, SlotsWithUuid
  <2> QED BY <1>2, <1>3, <2>2, <2>4, SameCacheSameRow
<1>6. CASE retry_find
  <2>1. SUFFICES ASSUME NEW u \in owed
                 PROVE  /\ pass'.at # "idle" /\ handler_ready_flag' = 1
                        /\ HasRow(u)' /\ (InHand(u)' \/ Ahead(u)')
    BY <1>6 DEF retry_find, Owing
  <2>2. PICK s \in Candidates :
          /\ pass' = At("should", cache[s].uuid, now) /\ cursor' = s + 1
    BY <1>6 DEF retry_find
  <2>3. cache' = cache
    BY <1>6 DEF retry_find, vars
  <2>4. PICK r \in SlotsWithUuid(u) :
          r >= cursor /\ retry_ready_locked(cache[r], now, PROV_AUTO_RETRY_MS)
    BY <1>3, <1>6 DEF Owing, InHand, Ahead, retry_find
  <2>5. s \in Slots /\ r \in Slots /\ s <= r
    BY <2>2, <2>4 DEF Candidates, prov_cache_find_next_auto_candidate, First,
      SlotsWithUuid
  <2>6. CASE r = s
    <3>1. pass'.at = "should" /\ pass'.uuid = u /\ pass'.now_ms = now
      BY <2>2, <2>4, <2>6 DEF At, SlotsWithUuid
    <3>2. InHand(u)'
      BY <2>3, <2>4, <3>1 DEF InHand, Ready, SlotsWithUuid, Attempt
    <3> QED BY <1>2, <2>3, <3>1, <3>2, SameCacheSameRow DEF Owing
  <2>7. CASE r # s
    <3>1. r >= cursor'
      BY <1>1, <2>2, <2>5, <2>7
    <3>2. Ahead(u)'
      BY <1>2, <2>3, <2>4, <3>1 DEF Ahead, SlotsWithUuid
    <3>3. pass'.at # "idle"
      BY <2>2 DEF At
    <3> QED BY <1>2, <2>3, <3>2, <3>3, SameCacheSameRow DEF Owing
  <2> QED BY <2>6, <2>7
<1>7. CASE retry_end
  BY <1>4, <1>7 DEF retry_end
<1>8. CASE retry_should
  <2>1. SUFFICES ASSUME NEW u \in owed
                 PROVE  /\ pass'.at # "idle" /\ handler_ready_flag' = 1
                        /\ HasRow(u)' /\ (InHand(u)' \/ Ahead(u)')
    BY <1>8 DEF retry_should, Owing
  <2>2. /\ cache' = cache /\ cursor' = cursor /\ pass.at = "should"
        /\ pass' = ShouldAttempt(pass, Find)
    BY <1>8 DEF retry_should, vars
  <2>3. ShouldAttempt(pass, Find) \in {[pass EXCEPT !.at = "lookup"], Find}
    BY DEF ShouldAttempt
  <2>4. [pass EXCEPT !.at = "lookup"].at = "lookup"
    BY <1>1 DEF Place
  <2>5. /\ pass'.at # "idle" /\ handler_ready_flag' = 1 /\ HasRow(u)'
    BY <1>2, <1>3, <2>2, <2>3, <2>4, SameCacheSameRow DEF Owing
  <2>6. CASE InHand(u)
    <3>1. PICK s \in SlotsWithUuid(u) :
            retry_ready_locked(cache[s], pass.now_ms, PROV_AUTO_RETRY_MS)
      BY <2>2, <2>6 DEF InHand, Ready
    <3>2. PICK r \in First(SlotsWithUuid(u)) : TRUE
      BY <1>1, <3>1, FoundIsFirst DEF Found
    <3>3. r = s
      BY <1>1, <3>1, <3>2 DEF First, SlotsWithUuid, IInv, UuidUnique
    <3>4. pass' = [pass EXCEPT !.at = "lookup"] /\ pass.uuid = u
      BY <2>2, <2>6, <3>1, <3>2, <3>3
         DEF ShouldAttempt, prov_cache_should_auto_attempt, InHand
    <3>5. InHand(u)'
      BY <1>1, <3>4 DEF InHand, Attempt, Place
    <3> QED BY <2>5, <3>5
  <2>7. CASE Ahead(u)
    <3>1. Ahead(u)'
      BY <1>2, <2>2, <2>7 DEF Ahead, SlotsWithUuid
    <3> QED BY <2>5, <3>1
  <2> QED BY <2>6, <2>7 DEF Owing
<1>9. CASE retry_request
  <2>1. SUFFICES ASSUME NEW u \in owed
                 PROVE  /\ pass'.at # "idle" /\ handler_ready_flag' = 1
                        /\ HasRow(u)' /\ (InHand(u)' \/ Ahead(u)')
    BY <1>9 DEF retry_request, Owing
  <2>2. /\ cache' = cache /\ cursor' = cursor /\ pass' = Request(pass, Find)
    BY <1>9 DEF retry_request, vars
  <2>3. \A at : /\ [pass EXCEPT !.at = at].at = at
                /\ [pass EXCEPT !.at = at].uuid = pass.uuid
    BY <1>1 DEF Place
  <2>4. /\ pass'.at # "idle" /\ handler_ready_flag' = 1 /\ HasRow(u)'
    BY <1>2, <1>3, <2>2, <2>3, SameCacheSameRow DEF Owing, Request
  <2>5. CASE InHand(u)
    <3>1. HasRow(u) /\ handler_ready_flag = 1 /\ pass.uuid = u
      BY <2>5 DEF Owing, InHand
    <3>2. pass'.at \in {"requested", "busy"} /\ pass'.uuid = u
      BY <2>2, <2>3, <3>1 DEF Request
    <3>3. InHand(u)'
      BY <3>2 DEF InHand, Attempt
    <3> QED BY <2>4, <3>3
  <2>6. CASE Ahead(u)
    <3>1. Ahead(u)'
      BY <1>2, <2>2, <2>6 DEF Ahead, SlotsWithUuid
    <3> QED BY <2>4, <3>1
  <2> QED BY <2>5, <2>6 DEF Owing
<1>10. CASE retry_stamp
  <2>1. SUFFICES ASSUME pass.at = "busy", pass' = Find, cursor' = cursor,
                        Owe(owed \ {pass.uuid}), NEW u \in owed'
                 PROVE  /\ pass'.at # "idle" /\ handler_ready_flag' = 1
                        /\ HasRow(u)' /\ Ahead(u)'
    BY <1>4, <1>10 DEF retry_stamp, Stamps, Owing
  <2>2. /\ u \in owed /\ u # pass.uuid /\ u \in CachedUuids' /\ HasRow(u)'
    BY <2>1 DEF Owe
  <2>3. PICK s \in SlotsWithUuid(u) :
          s >= cursor /\ retry_ready_locked(cache[s], now, PROV_AUTO_RETRY_MS)
    BY <2>2 DEF Owing, InHand, Ahead
  <2>4. pass.uuid \in Uuids
    BY <1>1, <2>1 DEF Attempt
  <2>5. ASSUME NEW r \in SlotsWithUuid(u)
        PROVE  Stays(u, r)
    BY <1>1, <1>10, <2>2, <2>4, AttemptStays, SameCacheStays
       DEF retry_stamp, Stamps, vars
  <2>6. /\ s \in Slots /\ cache'[s].in_use /\ cache'[s].uuid = u
        /\ retry_ready_locked(cache'[s], now, PROV_AUTO_RETRY_MS)
    BY <1>1, <2>2, <2>3, <2>5, ReadyKept
  <2>7. Ahead(u)'
    BY <1>2, <2>1, <2>3, <2>6 DEF Ahead, SlotsWithUuid
  <2>8. handler_ready_flag = 1
    BY <2>2 DEF Owing
  <2> QED BY <1>2, <1>3, <2>1, <2>2, <2>7, <2>8
<1>11. CASE retry_lookup
  <2>1. SUFFICES ASSUME NEW u \in owed
                 PROVE  /\ pass'.at # "idle" /\ handler_ready_flag' = 1
                        /\ HasRow(u)' /\ (InHand(u)' \/ Ahead(u)')
    BY <1>11 DEF retry_lookup, Owing
  <2>2. /\ cache' = cache /\ cursor' = cursor /\ pass' = LookUp(pass, Find)
    BY <1>11 DEF retry_lookup, vars
  <2>3. \A at : /\ [pass EXCEPT !.at = at].at = at
                /\ [pass EXCEPT !.at = at].uuid = pass.uuid
    BY <1>1 DEF Place
  <2>4. /\ pass'.at # "idle" /\ handler_ready_flag' = 1 /\ HasRow(u)'
    BY <1>2, <1>3, <2>2, <2>3, SameCacheSameRow DEF Owing, LookUp
  <2>5. CASE InHand(u)
    <3>1. HasRow(u) /\ pass.uuid = u
      BY <2>5 DEF Owing, InHand
    <3>2. pass'.at = "request" /\ pass'.uuid = u
      BY <2>2, <2>3, <3>1 DEF LookUp
    <3>3. InHand(u)'
      BY <3>2 DEF InHand, Attempt
    <3> QED BY <2>4, <3>3
  <2>6. CASE Ahead(u)
    <3>1. Ahead(u)'
      BY <1>2, <2>2, <2>6 DEF Ahead, SlotsWithUuid
    <3> QED BY <2>4, <3>1
  <2> QED BY <2>5, <2>6 DEF Owing
<1> QED BY <1>5, <1>6, <1>7, <1>8, <1>9, <1>10, <1>11 DEF RetryPass

LEMMA OwingKept ==
  ShellSpec => []Owing
<1>1. ShellInit => Owing
  BY DEF ShellInit, Owing
<1>2. Base /\ Owing /\ [ShellNext]_shellVars => Owing'
  BY BluetoothKeepsOwing, OthersKeepOwing, RetryKeepsOwing DEF ShellNext
<1> QED BY <1>1, <1>2, ShellBase, PTL DEF ShellSpec

(* A pass that finds no further candidate has none to try any more. *)
LEMMA PassEndsPaid ==
  ASSUME Base, Owing, retry_end
  PROVE  owed = {}
<1>1. SUFFICES ASSUME NEW u \in owed
               PROVE  FALSE
  OBVIOUS
<1> DEFINE ahead ==
      {s \in Slots : s >= cursor
                       /\ retry_ready_locked(cache[s], now, PROV_AUTO_RETRY_MS)}
<1>2. Ahead(u)
  BY DEF Owing, InHand, retry_end, Attempt
<1>3. ahead \in SUBSET Slots /\ ahead # {}
  BY <1>2 DEF Ahead, SlotsWithUuid
<1>4. Candidates = First(ahead)
  BY DEF Candidates, prov_cache_find_next_auto_candidate
<1> HIDE DEF ahead
<1> QED BY <1>3, <1>4, LeastSlot DEF retry_end

(* A retry pass that runs out of candidates leaves nobody untried who was ready
   when it began, has a row and is still in the cache: an entry that moves away,
   an eviction or a stamp by the Bluetooth thread does not make it pass over
   another device. *)
THEOREM PassTriesAll == ShellSpec => PassSkipsNobody
<1>1. Base /\ Owing /\ [ShellNext]_shellVars
        => [pass.at # "idle" /\ pass'.at = "idle" /\ pass.at # "requested"
              => owed = {}]_shellVars
  <2> SUFFICES ASSUME Base, Owing, ShellNext,
                      pass.at # "idle", pass'.at = "idle", pass.at # "requested"
               PROVE  owed = {}
    OBVIOUS
  <2>1. CASE RetryPass
    <3>1. /\ pass \in Place(PassPlaces) /\ Find.at = "find" /\ Idle.at = "idle"
      BY Idling DEF Base, ShellTypeOK, PassPlaces
    <3>2. \A at : [pass EXCEPT !.at = at].at = at
      BY <3>1 DEF Place
    <3>3. CASE retry_begin \/ retry_find
      BY <3>1, <3>3 DEF retry_begin, retry_find, At
    <3>4. CASE retry_should \/ retry_lookup \/ retry_request \/ retry_stamp
      BY <3>1, <3>2, <3>4 DEF retry_should, retry_lookup, retry_request,
        retry_stamp, ShouldAttempt, LookUp, Request
    <3>5. CASE retry_end
      BY <3>5, PassEndsPaid
    <3> QED BY <2>1, <3>3, <3>4, <3>5 DEF RetryPass
  <2>2. CASE Receive \/ Bluetooth \/ Command \/ Handler \/ tick
    <3>1. pass' = pass
      BY <2>2 DEF Receive, adv_ind, scan_rsp, feed_beacon, FedVars, work,
        Bluetooth, note_uuid_update, mark_noted, beacon_auto, beacon_should,
        beacon_lookup, beacon_request, beacon_stamp, BeaconVars, Command,
        scan_set_state, cmd_auto, scan_mark, cmd_provision, ShellVars, Handler,
        handler_ready, session_ends, node_configured, HandlerVars, tick
    <3> QED BY <3>1
  <2> QED BY <2>1, <2>2 DEF ShellNext
<1> QED BY <1>1, OwingKept, ShellBase, PTL DEF ShellSpec, PassSkipsNobody
=============================================================================
