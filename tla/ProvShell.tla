------------------------------ MODULE ProvShell ------------------------------
(***************************************************************************)
(* The provisioner's shell and its auto mode (prov_shell.c) over the cache *)
(* (prov_cache.c), with what the scanner (prov_scan_names.c) and the       *)
(* beacons feed it: the listing of `prov scan`, the attempts that a beacon *)
(* and the retry pass make, `prov auto` and `prov provision`.              *)
(*                                                                         *)
(* Four threads call the cache: the Bluetooth thread, the system work      *)
(* queue, the shell and the provisioner.  Each call, and each look at a    *)
(* flag under prov_shell_mutex, is one step: between two of them a thread  *)
(* may be held up, a cooperative one too, since a mutex that others wait   *)
(* for is handed over when it is released.                                 *)
(*                                                                         *)
(* The handler is reduced to the two flags a request looks at and to the   *)
(* end of a configuration; ProvisionerHandler has the rest.                *)
(***************************************************************************)
EXTENDS ProvCache

CONSTANTS
  RowNames,            (* the names a scenario row matches                 *)
  PROV_AUTO_RETRY_MS,
  MaxTime              (* the bound on the clock                           *)

ASSUME ShellAssumption ==
  /\ RowNames \subseteq Names
  /\ PROV_AUTO_RETRY_MS \in Nat /\ MaxTime \in Nat /\ 0 .. MaxTime \subseteq Times

VARIABLES
  now,                     (* k_uptime_get                                 *)
  scan_active,
  auto_provision_enabled,
  queued,                  (* whether auto_retry_work waits to run         *)
  pass,                    (* the retry pass: where it is, the attempt     *)
  cursor,                  (* the slot it goes on from                     *)
  bt,                      (* what the Bluetooth thread has yet to do      *)
  listing,                 (* `prov scan on` has yet to list what is ready *)
  handler_ready_flag, provision_busy_flag,
  owed                     (* history: who was ready when the pass began,
                              has a row and was neither tried nor removed  *)

handler == <<handler_ready_flag, provision_busy_flag>>
work == <<queued, pass, cursor>>
shellVars ==
  <<vars, now, scan_active, auto_provision_enabled, work, bt, listing, handler,
    owed>>

(* A place in a function, the UUID it is about and the now_ms it has read. *)
At(place, u, t) == [at |-> place, uuid |-> u, now_ms |-> t]
Idle == At("idle", None, 0)

ShellInit ==
  /\ Init
  /\ now = 0
  /\ scan_active = FALSE /\ auto_provision_enabled = FALSE
  /\ queued = FALSE /\ pass = Idle /\ cursor = 0
  /\ bt = Idle /\ listing = FALSE
  /\ handler_ready_flag = 0 /\ provision_busy_flag = 0
  /\ owed = {}

Found(u) == SlotsWithUuid(u) # {}

(* mesh_scenario_lookup_recipe_id has a recipe for the name the cache has. *)
HasRow(u) == prov_cache_lookup_name(u) \in RowNames

(* The history moves with every call that changes the cache: whoever leaves it,
   or is given a name without a row, is owed nothing. *)
Owe(U) == owed' = {u \in U : u \in CachedUuids' /\ HasRow(u)'}

CacheCall == Owe(owed)

-----------------------------------------------------------------------------
(* What the scanner and the mesh stack feed                                *)

Receives == bt = Idle

FedVars == <<now, scan_active, auto_provision_enabled, work, listing, handler>>

(* parse_adv_ind_mesh_prov *)
adv_ind(a, u) ==
  /\ Receives
  /\ prov_cache_adv_uuid_seen(a, u)
  /\ bt' = At("note", u, 0)
  /\ CacheCall /\ UNCHANGED FedVars

(* parse_scan_rsp_name: the UUID is the one the cache has for the address. *)
scan_rsp(a, n) ==
  /\ Receives
  /\ prov_cache_scan_rsp_name_seen(a, n)
  /\ \E s \in First(SlotsWithAddr(a)) :
       bt' = IF cache[s].uuid = None THEN Idle ELSE At("note", cache[s].uuid, 0)
  /\ CacheCall /\ UNCHANGED FedVars

(* prov_shell_feed_beacon *)
feed_beacon(u) ==
  /\ Receives
  /\ IF Found(u) THEN UNCHANGED vars ELSE prov_cache_ensure_uuid(u)
  /\ bt' = At("beacon_note", u, 0)
  /\ CacheCall /\ UNCHANGED FedVars

(* Where maybe_print_visible_uuid returns to. *)
AfterNote ==
  IF bt.at \in {"beacon_note", "beacon_mark"} THEN [bt EXCEPT !.at = "auto"]
  ELSE Idle

(* maybe_print_visible_uuid: scan_is_active, *)
note_uuid_update ==
  /\ bt.at \in {"note", "beacon_note"}
  /\ bt' = IF ~scan_active THEN AfterNote
           ELSE IF bt.at = "note" THEN [bt EXCEPT !.at = "mark"]
           ELSE [bt EXCEPT !.at = "beacon_mark"]
  /\ UNCHANGED <<vars, FedVars, owed>>

Markable(u) ==
  \E s \in First(SlotsWithUuid(u)) :
    cache[s].name # None /\ ~cache[s].scan_visible

(* then prov_cache_maybe_mark_visible. *)
mark_noted ==
  /\ bt.at \in {"mark", "beacon_mark"}
  /\ IF Markable(bt.uuid) THEN prov_cache_maybe_mark_visible(bt.uuid)
     ELSE UNCHANGED vars
  /\ bt' = AfterNote
  /\ CacheCall /\ UNCHANGED FedVars

-----------------------------------------------------------------------------
(* An attempt (auto_try_uuid), w being the thread that makes it and rest   *)
(* where it is once the attempt is over.                                   *)

ShouldAttempt(w, rest) ==
  IF prov_cache_should_auto_attempt(w.uuid, w.now_ms, PROV_AUTO_RETRY_MS)
  THEN [w EXCEPT !.at = "lookup"] ELSE rest

(* The name, and with it the row, as they are now. *)
LookUp(w, rest) == IF HasRow(w.uuid) THEN [w EXCEPT !.at = "request"] ELSE rest

(* The request is refused before the handler is ready; one that is accepted
   and one that finds the handler busy are both stamped. *)
Request(w, rest) ==
  IF handler_ready_flag = 0 THEN rest
  ELSE IF provision_busy_flag = 0 THEN [w EXCEPT !.at = "requested"]
  ELSE [w EXCEPT !.at = "busy"]

Requests(w) ==
  /\ w.at = "request"
  /\ provision_busy_flag' =
       IF handler_ready_flag = 1 THEN 1 ELSE provision_busy_flag

Stamps(w) ==
  /\ w.at \in {"requested", "busy"}
  /\ IF Found(w.uuid) THEN prov_cache_mark_attempt(w.uuid, w.now_ms)
     ELSE UNCHANGED vars

BeaconVars ==
  <<now, scan_active, auto_provision_enabled, work, listing,
    handler_ready_flag>>

beacon_auto ==
  /\ bt.at = "auto"
  /\ bt' = IF auto_provision_enabled THEN At("should", bt.uuid, now) ELSE Idle
  /\ UNCHANGED <<vars, BeaconVars, provision_busy_flag, owed>>

beacon_should ==
  /\ bt.at = "should"
  /\ bt' = ShouldAttempt(bt, Idle)
  /\ UNCHANGED <<vars, BeaconVars, provision_busy_flag, owed>>

beacon_lookup ==
  /\ bt.at = "lookup"
  /\ bt' = LookUp(bt, Idle)
  /\ UNCHANGED <<vars, BeaconVars, provision_busy_flag, owed>>

beacon_request ==
  /\ Requests(bt)
  /\ bt' = Request(bt, Idle)
  /\ UNCHANGED <<vars, BeaconVars, owed>>

beacon_stamp ==
  /\ Stamps(bt)
  /\ bt' = Idle
  /\ Owe(owed \ {bt.uuid})
  /\ UNCHANGED <<BeaconVars, provision_busy_flag>>

-----------------------------------------------------------------------------
(* The retry pass (auto_retry_work_handler)                                *)

PassVars ==
  <<now, scan_active, auto_provision_enabled, bt, listing, handler_ready_flag>>

Find == At("find", None, 0)

(* Nobody is owed an attempt by a pass that began before the handler was ready:
   it is refused one after the other. *)
retry_begin ==
  /\ queued /\ pass = Idle
  /\ queued' = FALSE /\ cursor' = 0
  /\ pass' = IF auto_provision_enabled THEN Find ELSE Idle
  /\ owed' = IF ~auto_provision_enabled \/ handler_ready_flag = 0 THEN {}
             ELSE {u \in CachedUuids :
                     HasRow(u) /\ prov_cache_should_auto_attempt(
                                    u, now, PROV_AUTO_RETRY_MS)}
  /\ UNCHANGED <<vars, PassVars, provision_busy_flag>>

Candidates ==
  prov_cache_find_next_auto_candidate(cursor, now, PROV_AUTO_RETRY_MS)

(* Mutant: the slot after a candidate is passed over. *)
retry_find_skips ==
  /\ pass.at = "find"
  /\ \E s \in Candidates :
       pass' = At("should", cache[s].uuid, now) /\ cursor' = s + 2
  /\ UNCHANGED <<vars, queued, PassVars, provision_busy_flag, owed>>

retry_find ==
  /\ pass.at = "find"
  /\ \E s \in Candidates :
       pass' = At("should", cache[s].uuid, now) /\ cursor' = s + 1
  /\ UNCHANGED <<vars, queued, PassVars, provision_busy_flag, owed>>

retry_end ==
  /\ pass.at = "find" /\ Candidates = {}
  /\ pass' = Idle /\ cursor' = 0 /\ owed' = {}
  /\ UNCHANGED <<vars, queued, PassVars, provision_busy_flag>>

retry_should ==
  /\ pass.at = "should"
  /\ pass' = ShouldAttempt(pass, Find)
  /\ UNCHANGED <<vars, queued, cursor, PassVars, provision_busy_flag, owed>>

retry_lookup ==
  /\ pass.at = "lookup"
  /\ pass' = LookUp(pass, Find)
  /\ UNCHANGED <<vars, queued, cursor, PassVars, provision_busy_flag, owed>>

retry_request ==
  /\ Requests(pass)
  /\ pass' = Request(pass, Find)
  /\ UNCHANGED <<vars, queued, cursor, PassVars, owed>>

(* Mutant: a busy handler ends the pass. *)
retry_stamp_stops_at_busy ==
  /\ Stamps(pass)
  /\ pass' = Idle /\ cursor' = 0 /\ owed' = {}
  /\ UNCHANGED <<queued, PassVars, provision_busy_flag>>

(* The first request that is accepted ends the pass. *)
retry_stamp ==
  /\ Stamps(pass)
  /\ IF pass.at = "requested" THEN pass' = Idle /\ cursor' = 0 /\ owed' = {}
     ELSE pass' = Find /\ cursor' = cursor /\ Owe(owed \ {pass.uuid})
  /\ UNCHANGED <<queued, PassVars, provision_busy_flag>>

-----------------------------------------------------------------------------
(* Commands                                                                *)

Types == ~listing

ShellVars == <<now, work, bt, handler_ready_flag>>

(* Mutant: what was ready before is not listed. *)
scan_set_state_unlisted(on) ==
  /\ Types
  /\ scan_active' = on
  /\ listing' = FALSE
  /\ UNCHANGED <<vars, ShellVars, auto_provision_enabled, provision_busy_flag,
                 owed>>

(* `prov scan on`, *)
scan_set_state(on) ==
  /\ Types
  /\ scan_active' = on
  /\ listing' = on
  /\ UNCHANGED <<vars, ShellVars, auto_provision_enabled, provision_busy_flag,
                 owed>>

(* then the listing of all that is ready. *)
scan_mark ==
  /\ listing
  /\ prov_cache_mark_all_ready_visible
  /\ listing' = FALSE
  /\ CacheCall
  /\ UNCHANGED <<ShellVars, scan_active, auto_provision_enabled,
                 provision_busy_flag>>

(* prov_shell_auto_retry_submit, by the flag as it is at the call: work that
   runs already is queued again. *)
prov_shell_auto_retry_submit(enabled) == queued' = (queued \/ enabled)

(* `prov auto on` submits a retry pass.  A step of another thread between the
   two can as well come before or after both. *)
cmd_auto(on) ==
  /\ Types
  /\ auto_provision_enabled' = on
  /\ prov_shell_auto_retry_submit(on)
  /\ UNCHANGED <<vars, now, pass, cursor, bt, listing, scan_active, handler,
                 owed>>

(* `prov provision`, for a listed device or any UUID. *)
cmd_provision ==
  /\ Types /\ handler_ready_flag = 1
  /\ provision_busy_flag' = 1
  /\ UNCHANGED <<vars, ShellVars, listing, scan_active, auto_provision_enabled,
                 owed>>

-----------------------------------------------------------------------------
(* The handler and time                                                    *)

HandlerVars ==
  <<now, scan_active, auto_provision_enabled, pass, cursor, bt, listing>>

handler_ready ==
  /\ handler_ready_flag = 0
  /\ handler_ready_flag' = 1
  /\ UNCHANGED <<vars, HandlerVars, queued, provision_busy_flag, owed>>

session_ends ==
  /\ provision_busy_flag = 1
  /\ provision_busy_flag' = 0
  /\ UNCHANGED <<vars, HandlerVars, queued, handler_ready_flag, owed>>

(* The end of configure_node: the node leaves the cache, and a retry pass is
   submitted; by a node whose configuration is resumed, before the handler is
   ready. *)
node_configured(u) ==
  /\ IF Found(u) THEN prov_cache_on_configuration_success(u)
     ELSE UNCHANGED vars
  /\ prov_shell_auto_retry_submit(auto_provision_enabled)
  /\ CacheCall /\ UNCHANGED <<HandlerVars, handler>>

tick ==
  /\ now < MaxTime
  /\ now' = now + 1
  /\ UNCHANGED <<vars, scan_active, auto_provision_enabled, work, bt, listing,
                 handler, owed>>

-----------------------------------------------------------------------------

Receive ==
  \/ \E a \in Addrs, u \in Uuids : adv_ind(a, u)
  \/ \E a \in Addrs, n \in Names : scan_rsp(a, n)
  \/ \E u \in Uuids : feed_beacon(u)

Bluetooth ==
  \/ note_uuid_update
  \/ mark_noted
  \/ beacon_auto
  \/ beacon_should
  \/ beacon_lookup
  \/ beacon_request
  \/ beacon_stamp

RetryPass ==
  \/ retry_begin
  \/ retry_find
  \/ retry_end
  \/ retry_should
  \/ retry_lookup
  \/ retry_request
  \/ retry_stamp

Command ==
  \/ \E on \in BOOLEAN : scan_set_state(on) \/ cmd_auto(on)
  \/ scan_mark
  \/ cmd_provision

Handler ==
  \/ handler_ready
  \/ session_ends
  \/ \E u \in Uuids : node_configured(u)

ShellNext ==
  \/ Receive
  \/ Bluetooth
  \/ RetryPass
  \/ Command
  \/ Handler
  \/ tick

ShellSpec == ShellInit /\ [][ShellNext]_shellVars

-----------------------------------------------------------------------------
(* What it promises                                                        *)

Place(places) ==
  [at : places, uuid : Uuids \cup {None}, now_ms : 0 .. MaxTime]

Attempt == {"should", "lookup", "request", "requested", "busy"}

ShellTypeOK ==
  /\ TypeOK
  /\ now \in 0 .. MaxTime
  /\ scan_active \in BOOLEAN /\ auto_provision_enabled \in BOOLEAN
  /\ queued \in BOOLEAN /\ listing \in BOOLEAN /\ cursor \in 0 .. CacheMax
  /\ pass \in Place({"idle", "find"} \cup Attempt)
  /\ bt \in Place({"idle", "note", "beacon_note", "mark", "beacon_mark", "auto"}
                    \cup Attempt)
  /\ handler_ready_flag \in {0, 1} /\ provision_busy_flag \in {0, 1}
  /\ owed \subseteq Uuids

Noting == {"note", "beacon_note", "mark", "beacon_mark"}

(* While scanning is on and nobody is in the middle of listing, `prov scan`
   lists every device whose UUID and name are known: between the look at
   scan_active and `prov scan on` no name is lost. *)
NobodyNamedIsMissed ==
  scan_active /\ ~listing
    => \A s \in Slots :
         /\ cache[s].in_use /\ cache[s].name # None /\ ~cache[s].scan_visible
         => bt.uuid = cache[s].uuid /\ bt.at \in Noting

(* "Apply cooldown so this UUID does not starve later candidates": a retry pass
   that runs out of candidates has tried whoever was ready when it began, has a
   row and stayed in the cache, whatever others did to the cache meanwhile. *)
PassSkipsNobody ==
  [][pass.at # "idle" /\ pass'.at = "idle" /\ pass.at # "requested"
       => owed = {}]_shellVars
=============================================================================
