------------------------- MODULE ProvisionerHandler -------------------------
(***************************************************************************)
(* The provisioner handler (provisioner_handler.c): one cooperative thread *)
(* that provisions one device per accepted request and configures every    *)
(* node the CDB does not mark as configured; the request API that the      *)
(* shell, beacons and the retry work call; the node_added callback of the  *)
(* mesh stack; and the record of the last provisioned node, kept in flash  *)
(* so that its configuration is resumed after a reboot.                    *)
(*                                                                         *)
(* The thread is cooperative: between two calls that wait (a semaphore, an *)
(* answer of the configuration client, a flash write) nobody else runs.    *)
(* The locations where it does not wait are in Running, and the other      *)
(* actors step only outside of them.                                       *)
(*                                                                         *)
(* External: the mesh stack (PB-ADV link, CDB, configuration client), the  *)
(* settings back end and the devices.  The name a device advertises fixes  *)
(* its scenario row; scenario_network1.c has name rows only.               *)
(***************************************************************************)
EXTENDS Integers, Sequences

CONSTANTS
  Devices,      (* UUIDs of the devices that can be provisioned            *)
  Recipes,      (* recipe ids other than RECIPE_NONE                       *)
  Rows,         (* scenario rows                                           *)
  RecipesOf,    (* the recipe ids of a row, one if it does not rotate      *)
  RowOf,        (* the row a device's GAP name matches, or NoRow           *)
  MaxNodes,     (* nodes the CDB holds, the provisioner included           *)
  SetupEnds,    (* whether setup_cdb may end with, or without, an app key  *)
  PowerFails,   (* whether the power may fail                              *)
  RECIPE_NONE, NoRow, None,
  dev_uuid      (* the provisioner's own UUID                              *)

ASSUME MaxNodesAssumption == MaxNodes \in Nat \ {0}
ASSUME SentinelAssumption ==
  /\ RECIPE_NONE \notin Recipes
  /\ NoRow \notin Rows
  /\ None # dev_uuid
  /\ {None, dev_uuid} \cap Devices = {}
ASSUME RowsAssumption ==
  /\ RecipesOf \in [Rows -> Seq(Recipes)]
  /\ \A row \in Rows : RecipesOf[row] # << >>
  /\ RowOf \in [Devices -> Rows \cup {NoRow}]
ASSUME SwitchesAssumption == SetupEnds \subseteq BOOLEAN /\ PowerFails \in BOOLEAN

VARIABLES
  pc,                     (* where the thread, or the boot before it, is   *)
  cursor,                 (* the CDB node foreach is at, or resume handles *)
  job,                    (* what the running configure_node applies       *)
  handler_ready_flag,
  provision_busy_flag,
  sem_provision_request,
  sem_node_added,
  pending,                (* pending_prov_uuid and pending_recipe_id       *)
  session_recipe_id,
  node_addr,
  prov_pending,           (* recent_new_addr, 0 when config_pending is 0,
                             and recipe_id                                 *)
  recipe_idx,             (* the next recipe of each row                   *)
  shell,                  (* the request `prov provision` is making        *)
  waiting,                (* the request an auto mode caller makes that
                             waits for prov_pending_mutex, or NoRequest    *)
  cdb,                    (* the CDB nodes in RAM                          *)
  app_key,                (* whether the CDB has the app key, None before
                             the CDB is created                            *)
  named,                  (* the devices whose name prov_cache holds       *)
  link,                   (* the device the stack has a PB-ADV link to     *)
  adding,                 (* the node whose node_added is being saved, or 0 *)
  flash,                  (* the stored prov_pending and CDB nodes         *)
  writing                 (* who has the settings locked for a write of
                             prov_pending, and what is being written       *)

thread == <<pc, cursor, job>>
flags == <<handler_ready_flag, provision_busy_flag>>
request == <<pending, sem_provision_request>>
callback == <<sem_node_added, node_addr, prov_pending>>
choice == <<session_recipe_id, recipe_idx, named>>
callers == <<shell, waiting>>
stack == <<cdb, app_key, link, adding>>
settings == <<flash, writing>>

vars == <<thread, flags, request, callback, choice, callers, stack, settings>>

self_addr == 1
Addrs == self_addr .. MaxNodes

NoNode == [uuid |-> None, configured |-> FALSE]
NoPending == [recent_new_addr |-> 0, recipe_id |-> RECIPE_NONE]
NoRequest == [uuid |-> None, recipe_id |-> RECIPE_NONE]
NoWrite == [by |-> "nobody", record |-> NoPending]
NoJob == [recipe_id |-> RECIPE_NONE, row |-> NoRow]

RecipeIds == Recipes \cup {RECIPE_NONE}
CdbNode == [uuid : Devices \cup {None, dev_uuid}, configured : BOOLEAN]
Request == [uuid : Devices \cup {None}, recipe_id : RecipeIds]
PendingRecord == [recent_new_addr : {0} \cup Addrs, recipe_id : RecipeIds]

(* prov_pending_mutex: only the preemptible shell can lose the CPU with it. *)
MutexFree == shell.at # "locked"

Running ==
  \/ pc \in {"resume", "start", "foreach"}
  \/ pc = "take" /\ sem_provision_request = 1 /\ MutexFree

TypeOK ==
  /\ pc \in {"off", "resume", "clear", "start", "foreach", "apply", "save",
             "take", "wait"}
  /\ cursor \in 0 .. MaxNodes + 1
  /\ job \in [recipe_id : RecipeIds, row : Rows \cup {NoRow}]
  /\ handler_ready_flag \in {0, 1} /\ provision_busy_flag \in {0, 1}
  /\ sem_provision_request \in {0, 1} /\ sem_node_added \in {0, 1}
  /\ pending \in Request /\ session_recipe_id \in RecipeIds
  /\ node_addr \in {0} \cup Addrs
  /\ prov_pending \in PendingRecord
  /\ recipe_idx \in [Rows -> Nat]
  /\ \A row \in Rows : recipe_idx[row] \in 1 .. Len(RecipesOf[row])
  /\ shell \in [at : {"idle", "claimed", "locked", "written"},
                uuid : Devices \cup {None}]
  /\ waiting \in Request
  /\ cdb \in [Addrs -> CdbNode]
  /\ app_key \in BOOLEAN \cup {None}
  /\ named \subseteq Devices
  /\ link \in Devices \cup {None}
  /\ adding \in {0} \cup Addrs
  /\ flash \in [prov_pending : PendingRecord, cdb : [Addrs -> CdbNode]]
  /\ writing \in [by : {"nobody", "thread", "callback"}, record : PendingRecord]

(* All RAM is as after a reset, and nothing is stored. *)
Init ==
  /\ pc = "off" /\ cursor = 0 /\ job = NoJob
  /\ handler_ready_flag = 0 /\ provision_busy_flag = 0
  /\ sem_provision_request = 0 /\ sem_node_added = 0
  /\ pending = NoRequest /\ session_recipe_id = RECIPE_NONE
  /\ node_addr = 0 /\ prov_pending = NoPending
  /\ recipe_idx = [row \in Rows |-> 1]
  /\ shell = [at |-> "idle", uuid |-> None] /\ waiting = NoRequest
  /\ cdb = [a \in Addrs |-> NoNode]
  /\ app_key = None
  /\ named = {} /\ link = None /\ adding = 0
  /\ flash = [prov_pending |-> NoPending, cdb |-> [a \in Addrs |-> NoNode]]
  /\ writing = NoWrite

-----------------------------------------------------------------------------
(* Requests                                                                *)

scenario_row_peek_recipe_id(row) == RecipesOf[row][recipe_idx[row]]

(* k_sem_give, on a semaphore with limit 1. *)
Given(sem) == IF sem < 1 THEN sem + 1 ELSE sem

(* Mutant: the pair is written without the mutex. *)
auto_request_unlocked(d) ==
  /\ ~Running
  /\ handler_ready_flag = 1 /\ provision_busy_flag = 0
  /\ d \in named /\ RowOf[d] # NoRow
  /\ provision_busy_flag' = 1
  /\ pending' = [uuid |-> d,
                 recipe_id |-> scenario_row_peek_recipe_id(RowOf[d])]
  /\ sem_provision_request' = Given(sem_provision_request)
  /\ UNCHANGED <<thread, handler_ready_flag, callback, choice, callers, stack,
                 settings>>

(* Mutant: nothing is compared before the flag is set. *)
auto_request_unchecked(d) ==
  /\ ~Running /\ MutexFree
  /\ handler_ready_flag = 1
  /\ d \in named /\ RowOf[d] # NoRow
  /\ provision_busy_flag' = 1
  /\ pending' = [uuid |-> d,
                 recipe_id |-> scenario_row_peek_recipe_id(RowOf[d])]
  /\ sem_provision_request' = Given(sem_provision_request)
  /\ UNCHANGED <<thread, handler_ready_flag, callback, choice, callers, stack,
                 settings>>

(* Auto mode, on a beacon or from the retry work, both cooperative: the whole
   call is one step if the mutex is free.  Without a row the caller makes no
   request; the cooldown it looks at first is in ProvCache. *)
auto_request(d) ==
  /\ ~Running /\ MutexFree /\ waiting = NoRequest
  /\ handler_ready_flag = 1 /\ provision_busy_flag = 0
  /\ d \in named /\ RowOf[d] # NoRow
  /\ provision_busy_flag' = 1
  /\ pending' = [uuid |-> d,
                 recipe_id |-> scenario_row_peek_recipe_id(RowOf[d])]
  /\ sem_provision_request' = Given(sem_provision_request)
  /\ UNCHANGED <<thread, handler_ready_flag, callback, choice, callers, stack,
                 settings>>

(* Otherwise the caller has looked up its recipe and set the flag when it comes
   to wait for the mutex.  One caller at a time waits: a bound.  It lends the
   shell its priority, so that a second one would have to find the flag cleared
   once more before the shell has stored one byte. *)
auto_request_waits(d) ==
  /\ ~Running /\ ~MutexFree /\ waiting = NoRequest
  /\ handler_ready_flag = 1 /\ provision_busy_flag = 0
  /\ d \in named /\ RowOf[d] # NoRow
  /\ provision_busy_flag' = 1
  /\ waiting' = [uuid |-> d,
                 recipe_id |-> scenario_row_peek_recipe_id(RowOf[d])]
  /\ UNCHANGED <<thread, handler_ready_flag, request, callback, choice, shell,
                 stack, settings>>

(* It gets the mutex before or after the thread, if that waits for it too. *)
auto_request_resumes ==
  /\ pc \notin {"resume", "start", "foreach"} /\ MutexFree
  /\ waiting # NoRequest
  /\ pending' = waiting /\ waiting' = NoRequest
  /\ sem_provision_request' = Given(sem_provision_request)
  /\ UNCHANGED <<thread, flags, callback, choice, shell, stack, settings>>

(* The shell is preempted by a caller that got the mutex it has unlocked. *)
Shell(from, to) ==
  /\ ~Running
  /\ shell.at = from /\ (MutexFree => waiting = NoRequest)
  /\ shell' = [at |-> to, uuid |-> IF to = "idle" THEN None ELSE shell.uuid]
  /\ UNCHANGED <<thread, handler_ready_flag, callback, choice, waiting, stack,
                 settings>>

(* `prov provision`: the compare-and-swap, *)
shell_claim(d) ==
  /\ ~Running
  /\ shell.at = "idle"
  /\ handler_ready_flag = 1 /\ provision_busy_flag = 0
  /\ shell' = [at |-> "claimed", uuid |-> d]
  /\ provision_busy_flag' = 1
  /\ UNCHANGED <<thread, handler_ready_flag, request, callback, choice, waiting,
                 stack, settings>>

(* the copy of the UUID with the mutex held, *)
shell_write_uuid ==
  /\ Shell("claimed", "locked")
  /\ pending' = [pending EXCEPT !.uuid = shell.uuid]
  /\ UNCHANGED <<provision_busy_flag, sem_provision_request>>

(* the recipe and the unlock, *)
shell_write_recipe ==
  /\ Shell("locked", "written")
  /\ pending' = [pending EXCEPT !.recipe_id = RECIPE_NONE]
  /\ UNCHANGED <<provision_busy_flag, sem_provision_request>>

(* Mutant: the thread is not woken. *)
shell_give_nothing ==
  /\ Shell("written", "idle")
  /\ UNCHANGED <<provision_busy_flag, request>>

(* and the wake-up of the thread. *)
shell_give ==
  /\ Shell("written", "idle")
  /\ sem_provision_request' = Given(sem_provision_request)
  /\ UNCHANGED <<provision_busy_flag, pending>>

-----------------------------------------------------------------------------
(* Boot: provisioner_handler_bluetooth_ready                               *)

(* Settings are loaded; the CDB and its app key are made on the first boot
   only, the provisioner's own node is added if it is not stored. *)
provisioner_network_setup ==
  /\ pc = "off"
  /\ pc' = "resume"
  /\ prov_pending' = flash.prov_pending
  /\ cdb' = IF flash.cdb[self_addr] = NoNode
            THEN [flash.cdb EXCEPT ![self_addr].uuid = dev_uuid]
            ELSE flash.cdb
  /\ app_key' \in IF app_key = None THEN SetupEnds ELSE {app_key}
  /\ UNCHANGED <<cursor, job, flags, request, sem_node_added, node_addr,
                 choice, callers, link, adding, settings>>

(* Mutant: the session is asked before the record. *)
latched_recipe_of_session(a) ==
  IF node_addr = a THEN session_recipe_id
  ELSE IF prov_pending.recent_new_addr = a THEN prov_pending.recipe_id
  ELSE RECIPE_NONE

(* The recipe id configure_node starts from, *)
latched_recipe(a) ==
  IF prov_pending.recent_new_addr = a THEN prov_pending.recipe_id
  ELSE IF node_addr = a THEN session_recipe_id
  ELSE RECIPE_NONE

(* the row the cached name finds, *)
known_row(d) == IF d \in named THEN RowOf[d] ELSE NoRow

(* and what it applies: the latched recipe, or the one the row is at. *)
job_for(a) ==
  LET row == known_row(cdb[a].uuid)
  IN  [row |-> row,
       recipe_id |-> IF latched_recipe(a) # RECIPE_NONE THEN latched_recipe(a)
                     ELSE IF row # NoRow THEN scenario_row_peek_recipe_id(row)
                     ELSE RECIPE_NONE]

(* configure_node up to its first wait; job_for(a) must have a recipe. *)
configure_node(a) ==
  /\ job_for(a).recipe_id # RECIPE_NONE
  /\ pc' = "apply" /\ job' = job_for(a) /\ cursor' = a

PendingNode == cdb[prov_pending.recent_new_addr]

(* Mutant: a record of a configured node is not stale. *)
Stale_only_if_gone ==
  prov_pending.recent_new_addr # 0 /\ PendingNode = NoNode

Stale ==
  /\ prov_pending.recent_new_addr # 0
  /\ PendingNode = NoNode \/ PendingNode.configured

Resumable == prov_pending.recent_new_addr # 0 /\ ~Stale

(* prov_pending_save passes the address of the record, which is read once the
   settings are locked for the write: at once, *)
prov_pending_save(by) ==
  writing' = IF writing.by = "nobody" THEN [by |-> by, record |-> prov_pending']
             ELSE writing

OtherWaits(by) ==
  IF by = "thread" THEN adding # 0 ELSE pc \in {"clear", "save"}

(* Mutant: the write under way is to do for both callers. *)
prov_pending_save_ends_coalesced(by) ==
  /\ writing.by = by
  /\ flash' = [flash EXCEPT !.prov_pending = writing.record]
  /\ writing' = IF OtherWaits(by)
                THEN [by |-> IF by = "thread" THEN "callback" ELSE "thread",
                      record |-> writing.record]
                ELSE NoWrite

(* or when the write of the other caller ends. *)
prov_pending_save_ends(by) ==
  /\ writing.by = by
  /\ flash' = [flash EXCEPT !.prov_pending = writing.record]
  /\ writing' = IF OtherWaits(by)
                THEN [by |-> IF by = "thread" THEN "callback" ELSE "thread",
                      record |-> prov_pending]
                ELSE NoWrite

(* A record of a node that is gone or done is cleared, any other is resumed,
   which does nothing when configure_node finds no recipe. *)
provisioner_resume_pending_config ==
  LET a == prov_pending.recent_new_addr
  IN  /\ pc = "resume"
      /\ \/ a = 0 /\ pc' = "start"
            /\ UNCHANGED <<cursor, job, prov_pending, writing>>
         \/ Stale /\ pc' = "clear" /\ prov_pending' = NoPending
            /\ prov_pending_save("thread") /\ UNCHANGED <<cursor, job>>
         \/ Resumable /\ configure_node(a)
            /\ UNCHANGED <<prov_pending, writing>>
         \/ /\ Resumable /\ job_for(a).recipe_id = RECIPE_NONE
            /\ pc' = "start" /\ UNCHANGED <<cursor, job, prov_pending, writing>>
      /\ UNCHANGED <<flags, request, sem_node_added, node_addr, choice, callers,
                     stack, flash>>

resume_saved ==
  /\ pc = "clear"
  /\ prov_pending_save_ends("thread")
  /\ pc' = "start"
  /\ UNCHANGED <<cursor, job, flags, request, callback, choice, callers, stack>>

-----------------------------------------------------------------------------
(* The thread: provisioner_thread                                          *)

(* The top of the loop, up to the start of the iteration over the CDB. *)
loop_top == pc' = "foreach" /\ cursor' = self_addr /\ sem_node_added' = 0

(* The boot ends: requests are accepted and the thread starts. *)
thread_start ==
  /\ pc = "start"
  /\ handler_ready_flag' = 1
  /\ loop_top
  /\ UNCHANGED <<job, provision_busy_flag, request, node_addr, prov_pending,
                 choice, callers, stack, settings>>

NeedsNothing(a) == cdb[a] = NoNode \/ cdb[a].configured

(* A node that is missing, configured, or cannot be given anything. *)
check_unconfigured_skip ==
  /\ pc = "foreach" /\ cursor \in Addrs
  /\ \/ NeedsNothing(cursor)
     \/ cursor = self_addr /\ app_key = FALSE
     \/ cursor # self_addr /\ job_for(cursor).recipe_id = RECIPE_NONE
  /\ cursor' = cursor + 1
  /\ UNCHANGED <<pc, job, flags, request, callback, choice, callers, stack,
                 settings>>

check_unconfigured ==
  /\ pc = "foreach" /\ cursor \in Addrs
  /\ ~NeedsNothing(cursor)
  /\ \/ /\ cursor = self_addr /\ app_key = TRUE
        /\ pc' = "apply" /\ job' = NoJob /\ UNCHANGED cursor
     \/ cursor # self_addr /\ configure_node(cursor)
  /\ UNCHANGED <<flags, request, callback, choice, callers, stack, settings>>

(* Mutant: the iteration does not move on. *)
return_same_node ==
  /\ job' = NoJob
  /\ pc' = IF handler_ready_flag = 0 THEN "start" ELSE "foreach"
  /\ UNCHANGED cursor

(* configure_node returns, to the boot or to the iteration. *)
return ==
  /\ job' = NoJob
  /\ IF handler_ready_flag = 0 THEN pc' = "start" /\ UNCHANGED cursor
                               ELSE pc' = "foreach" /\ cursor' = cursor + 1

Configured == cdb' = [cdb EXCEPT ![cursor].configured = TRUE]

(* Mutant: the node counts as configured all the same. *)
apply_failed_ignored ==
  /\ pc = "apply"
  /\ Configured
  /\ return
  /\ UNCHANGED <<flags, request, callback, choice, callers, app_key, link,
                 adding, settings>>

(* Mutant: the row moves on before the node has taken the recipe. *)
apply_failed_consumed ==
  /\ pc = "apply"
  /\ recipe_idx' = IF job.row = NoRow THEN recipe_idx
                   ELSE [recipe_idx EXCEPT ![job.row] =
                           (@ % Len(RecipesOf[job.row])) + 1]
  /\ return
  /\ UNCHANGED <<flags, request, callback, session_recipe_id, named, callers,
                 stack, settings>>

(* A call of the configuration client failed, or the app key is missing. *)
apply_failed ==
  /\ pc = "apply"
  /\ return
  /\ UNCHANGED <<flags, request, callback, choice, callers, stack, settings>>

configure_self_done ==
  /\ pc = "apply" /\ cursor = self_addr
  /\ Configured
  /\ return
  /\ UNCHANGED <<flags, request, callback, choice, callers, app_key, link,
                 adding, settings>>

(* Mutant: the index runs off the row. *)
scenario_row_consume_recipe_id_unwrapped(row, recipe_id) ==
  recipe_idx' =
    IF row # NoRow /\ scenario_row_peek_recipe_id(row) = recipe_id
    THEN [recipe_idx EXCEPT ![row] = @ + 1] ELSE recipe_idx

(* Mutant: the row moves on whichever recipe was applied. *)
scenario_row_consume_recipe_id_any(row, recipe_id) ==
  recipe_idx' =
    IF row # NoRow
    THEN [recipe_idx EXCEPT ![row] = (@ % Len(RecipesOf[row])) + 1]
    ELSE recipe_idx

scenario_row_consume_recipe_id(row, recipe_id) ==
  recipe_idx' =
    IF row # NoRow /\ scenario_row_peek_recipe_id(row) = recipe_id
    THEN [recipe_idx EXCEPT ![row] = (@ % Len(RecipesOf[row])) + 1]
    ELSE recipe_idx

(* prov_cache_on_configuration_success *)
forget_name(d) == named' = named \ {d}

(* Every step of the recipe was acknowledged.  The write of prov_pending, if
   it is this node's, waits; otherwise the rest follows at once. *)
configure_node_done ==
  LET d == cdb[cursor].uuid
  IN  /\ pc = "apply" /\ cursor # self_addr /\ app_key = TRUE
      /\ scenario_row_consume_recipe_id(job.row, job.recipe_id)
      /\ Configured
      /\ IF prov_pending.recent_new_addr = cursor
         THEN /\ prov_pending' = NoPending /\ prov_pending_save("thread")
              /\ pc' = "save" /\ UNCHANGED <<cursor, job, named>>
         ELSE return /\ forget_name(d) /\ UNCHANGED <<prov_pending, writing>>
      /\ UNCHANGED <<flags, request, sem_node_added, node_addr,
                     session_recipe_id, callers, app_key, link, adding, flash>>

configure_node_saved ==
  /\ pc = "save"
  /\ prov_pending_save_ends("thread")
  /\ forget_name(cdb[cursor].uuid)
  /\ return
  /\ UNCHANGED <<flags, request, callback, session_recipe_id, recipe_idx,
                 callers, stack>>

(* Mutant: the busy flag is left set. *)
foreach_done_busy ==
  /\ pc = "foreach" /\ cursor > MaxNodes
  /\ pc' = "take"
  /\ UNCHANGED <<cursor, job, flags, request, callback, choice, callers, stack,
                 settings>>

foreach_done ==
  /\ pc = "foreach" /\ cursor > MaxNodes
  /\ provision_busy_flag' = 0
  /\ pc' = "take"
  /\ UNCHANGED <<cursor, job, handler_ready_flag, request, callback, choice,
                 callers, stack, settings>>

(* The thread takes a request, latches it and asks for a link. *)
latch ==
  /\ pc = "take" /\ sem_provision_request = 1 /\ MutexFree
  /\ sem_provision_request' = 0
  /\ session_recipe_id' = pending.recipe_id

provision_adv ==
  /\ latch
  /\ link = None
  /\ link' = pending.uuid
  /\ pc' = "wait"
  /\ UNCHANGED <<cursor, job, flags, pending, callback, recipe_idx, named,
                 callers, cdb, app_key, adding, settings>>

provision_adv_failed ==
  /\ latch
  /\ provision_busy_flag' = 0
  /\ loop_top
  /\ UNCHANGED <<job, handler_ready_flag, pending, node_addr, prov_pending,
                 recipe_idx, named, callers, stack, settings>>

node_added_taken ==
  /\ pc = "wait" /\ sem_node_added = 1
  /\ loop_top
  /\ UNCHANGED <<job, flags, request, node_addr, prov_pending, choice, callers,
                 stack, settings>>

(* Ten seconds without node_added. *)
node_added_timeout ==
  /\ pc = "wait" /\ sem_node_added = 0
  /\ provision_busy_flag' = 0
  /\ loop_top
  /\ UNCHANGED <<job, handler_ready_flag, request, node_addr, prov_pending,
                 choice, callers, stack, settings>>

-----------------------------------------------------------------------------
(* The mesh stack, the scanner and the power supply                        *)

InCdb == {cdb[a].uuid : a \in Addrs}

FreeAddrs == {a \in Addrs : cdb[a] = NoNode}

(* The link succeeded: the stack adds the node to the CDB and calls
   node_added, up to its flash write.  The session is the thread's current
   one, whichever request opened the link. *)
node_added(a) ==
  /\ ~Running
  /\ link # None /\ adding = 0
  /\ link \notin InCdb
  /\ a \in FreeAddrs /\ \A b \in FreeAddrs : a <= b
  /\ cdb' = [cdb EXCEPT ![a].uuid = link]
  /\ prov_pending' = [recent_new_addr |-> a, recipe_id |-> session_recipe_id]
  /\ prov_pending_save("callback") /\ adding' = a
  /\ UNCHANGED <<thread, flags, request, sem_node_added, node_addr, choice,
                 callers, app_key, link, flash>>

node_added_saved ==
  /\ ~Running
  /\ adding # 0
  /\ prov_pending_save_ends("callback")
  /\ node_addr' = adding
  /\ sem_node_added' = Given(sem_node_added)
  /\ adding' = 0 /\ link' = None
  /\ UNCHANGED <<thread, flags, request, prov_pending, choice, callers, cdb,
                 app_key>>

link_failed ==
  /\ ~Running
  /\ link # None /\ adding = 0
  /\ link' = None
  /\ UNCHANGED <<thread, flags, request, callback, choice, callers, cdb,
                 app_key, adding, settings>>

(* A device advertises its UUID and its name, or its name is heard while its
   address is still cached, though it has joined since.  That ends when it is
   configured: its entry is cleared, and a node advertises no UUID. *)
name_heard(d) ==
  /\ ~Running /\ pc # "off"
  /\ d \notin named
  /\ \A a \in Addrs : cdb[a].uuid = d => ~cdb[a].configured
  /\ named' = named \cup {d}
  /\ UNCHANGED <<thread, flags, request, callback, session_recipe_id,
                 recipe_idx, callers, stack, settings>>

(* prov_cache evicted the device. *)
name_evicted(d) ==
  /\ ~Running
  /\ d \in named
  /\ forget_name(d)
  /\ UNCHANGED <<thread, flags, request, callback, session_recipe_id,
                 recipe_idx, callers, stack, settings>>

(* The stack's delayed store writes one CDB node; nobody reads it before a
   reboot.  It may overtake callers that wait for the settings lock; that a
   write of the record which has it comes first is left out. *)
cdb_stored(a) ==
  /\ PowerFails
  /\ ~Running /\ pc # "off"
  /\ flash.cdb[a] # cdb[a]
  /\ flash' = [flash EXCEPT !.cdb[a] = cdb[a]]
  /\ UNCHANGED <<thread, flags, request, callback, choice, callers, stack,
                 writing>>

(* RAM is lost.  Flash, the devices and the history stay. *)
power_failed ==
  /\ PowerFails
  /\ ~Running /\ pc # "off"
  /\ pc' = "off" /\ cursor' = 0 /\ job' = NoJob
  /\ handler_ready_flag' = 0 /\ provision_busy_flag' = 0
  /\ sem_provision_request' = 0 /\ sem_node_added' = 0
  /\ pending' = NoRequest /\ session_recipe_id' = RECIPE_NONE
  /\ node_addr' = 0 /\ prov_pending' = NoPending
  /\ recipe_idx' = [row \in Rows |-> 1]
  /\ shell' = [at |-> "idle", uuid |-> None] /\ waiting' = NoRequest
  /\ cdb' = [a \in Addrs |-> NoNode]
  /\ named' = {} /\ link' = None /\ adding' = 0
  /\ writing' = NoWrite
  /\ UNCHANGED <<flash, app_key>>

-----------------------------------------------------------------------------

Boot ==
  \/ provisioner_network_setup
  \/ provisioner_resume_pending_config
  \/ resume_saved
  \/ thread_start

Thread ==
  \/ check_unconfigured_skip
  \/ check_unconfigured
  \/ configure_node_saved
  \/ foreach_done
  \/ provision_adv
  \/ provision_adv_failed
  \/ node_added_taken
  \/ node_added_timeout

Answer == apply_failed \/ configure_self_done \/ configure_node_done

ShellStep == shell_write_uuid \/ shell_write_recipe \/ shell_give

Environment ==
  \/ \E d \in Devices :
       auto_request(d) \/ auto_request_waits(d) \/ shell_claim(d)
  \/ \E a \in Addrs : node_added(a) \/ cdb_stored(a)
  \/ link_failed
  \/ \E d \in Devices : name_heard(d) \/ name_evicted(d)
  \/ power_failed

Next ==
  \/ Boot \/ Thread \/ Answer
  \/ ShellStep \/ auto_request_resumes
  \/ node_added_saved
  \/ Environment

Spec == Init /\ [][Next]_vars

(* What is scheduled runs, a timer that is set expires, the configuration
   client answers or times out, and a flash write ends.  Nothing is assumed of
   requests, devices, links, the scanner, the delayed store or the power. *)
Fairness ==
  /\ WF_vars(Boot) /\ WF_vars(Thread) /\ WF_vars(Answer)
  /\ WF_vars(ShellStep) /\ WF_vars(auto_request_resumes)
  /\ WF_vars(node_added_saved)

FairSpec == Spec /\ Fairness

-----------------------------------------------------------------------------
(* What the handler promises                                               *)

(* The thread never waits for a request while the busy flag turns every caller
   away with -EBUSY, unless the caller that set it is about to wake it. *)
NeverStuckBusy ==
  pc = "take" /\ provision_busy_flag = 1
    => sem_provision_request = 1 \/ shell.at # "idle"

(* While the shell is between the two writes of its pair, nobody else has
   touched the half it wrote: the thread never latches the UUID of one request
   with the recipe of another. *)
PairIntact == shell.at = "locked" => pending.uuid = shell.uuid

(* Once the boot is over, the record of the last provisioned node names a node
   the CDB holds and does not mark as configured, whatever was lost or stored
   before the last power failure. *)
PendingNamesItsNode ==
  handler_ready_flag = 1 /\ prov_pending.recent_new_addr # 0
    => /\ PendingNode # NoNode
       /\ ~PendingNode.configured

(* Flash holds the record that is in RAM whenever no write of it is under way,
   though the callback, the thread and the boot all change it. *)
PendingIsDurable ==
  pc \notin {"off", "clear", "save"} /\ adding = 0
    => flash.prov_pending = prov_pending

(* A rotating row moves on only in the step that completes a node with the very
   recipe the row was at, or because the power failed: a failed link, a failed
   configuration and a latched recipe the row has left consume nothing. *)
SlotIsConsumedByItsRecipe ==
  [][\A row \in Rows :
       recipe_idx'[row] # recipe_idx[row] /\ pc' # "off"
         => /\ job.recipe_id = RecipesOf[row][recipe_idx[row]]
            /\ \E a \in Addrs \ {self_addr} :
                 ~cdb[a].configured /\ cdb'[a].configured]_vars

(* A node that is completed while prov_pending still names it was given the
   recipe recorded for it, if any: neither a reboot, nor a later session, nor a
   row that moved on meanwhile changes what its record says. *)
RecordKeepsRecipe ==
  [][pc = "apply" /\ prov_pending.recent_new_addr = cursor
       /\ prov_pending.recipe_id # RECIPE_NONE /\ prov_pending' = NoPending
       /\ pc' # "off"
     => job.recipe_id = prov_pending.recipe_id]_vars

(* The busy flag never stays set, whatever the link, the node and the flash do:
   -EBUSY is never the answer for ever. *)
BusyEnds == provision_busy_flag = 1 ~> provision_busy_flag = 0

(* A request that was queued is taken by the thread. *)
RequestIsTaken == sem_provision_request = 1 ~> sem_provision_request = 0

=============================================================================
