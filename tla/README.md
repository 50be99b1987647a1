# TLA+ development of the mesh samples

Models, model-checking runs and proofs for the two programs of this repository:

- `src/provisioner_network_setup`: a Bluetooth Mesh **provisioner**. It scans for unprovisioned
  devices, provisions them one at a time over PB-ADV, gives each a recipe (key, bindings,
  subscriptions, publications) chosen by scenario rows, and resumes a configuration that a reboot
  interrupted.
- `src/DimmerWithSerial`: a **dimmer** node: two buttons (dim and toggle, scenes) and serial
  commands that act on the same light.

Contents: [inventory](#inventory), [modules](#modules), [atomicity](#atomicity),
[runs and bounds](#runs-and-bounds), [fairness](#fairness), [proofs](#proofs),
[findings](#findings), [what is not modelled](#what-is-not-modelled), [plan](#plan).

## Inventory

### Provisioner

| Component | State | Operations | Interacts with |
| --- | --- | --- | --- |
| Unified cache, `prov_cache.c` | array of entries (address, UUID, name, listed, last attempt), eviction cursor | `adv_uuid_seen`, `scan_rsp_name_seen`, `ensure_uuid`, `maybe_mark_visible`, `mark_all_ready_visible`, `mark_attempt`, `on_configuration_success`, and reads | called by the scan parser, the shell, auto mode and the handler, under one mutex |
| Handler, `provisioner_handler.c` | request slot (`pending_prov_uuid`, `pending_recipe_id`, two semaphores, two flags), session recipe, `node_addr`, the persisted record `prov_pending`, CDB flags | boot, request API, the thread's loop (configure every unconfigured node, wait for a request, provision, wait for the node), the `node_added` callback | the mesh stack calls `node_added` and beacons; the shell and auto mode call the request API; settings keep the record |
| Scenario and recipes, `mesh_net_cfg.c`, `mesh_recipes.c`, `scenario_network1.c` | `recipe_idx` of each rotating row | find the row of a device, peek and consume its recipe, apply the steps of a recipe | called by the thread and by auto mode, under `scenario_mutex` |
| Shell and auto mode, `prov_shell.c` | `scan_active`, `auto_provision_enabled`, retry work | `prov scan`, `prov provision`, `prov auto`, attempts on beacons and in the retry pass | reads the cache, makes requests of the handler |
| Scan parser, `prov_scan_names.c` | none | splits advertising data into address and UUID, or address and name | feeds the cache |

What makes it hard: the thread, the callbacks of the mesh stack, the scanner, the shell thread and
a work item share the request slot, the session, the record and the cache; the wait for a node
times out after ten seconds while its link may still succeed; several writes to flash are not one;
power may fail between any two of them; a node may fail to answer any step of its recipe.

What makes each part correct:

- *cache*: one entry per device and per address, no list entry without a name, eviction in the
  right order, cooldowns that survive;
- *handler*: no request mixed with another, no caller turned away for ever, the record of the last
  node always durable and always about a node that needs it, no configured mark without a whole
  recipe;
- *scenario and recipes*: a device gets the row the search is meant to find; a configured node was
  told its whole recipe, whatever was lost before; a row moves on only for the node that was given
  the recipe it was at;
- *shell and auto mode*: a scan lists every device that is ready, and a retry pass passes over none.

### Dimmer

| Component | State | Operations | Interacts with |
| --- | --- | --- | --- |
| Buttons, `model_handler.c` | press times, direction, current scene, two delayable works | press, short and long release of either button, start and stop of the dimming | system work queue, kernel timers, mesh clients |
| Serial commands, `serial_cmd.c` | none | `on`, `off`, `dim up`, `dim down` | `model_handler_onoff_set`, `model_handler_dim_step` in the shell thread |

What makes it hard: works, timers, buttons and the shell thread act on the same two works, with the
release of a button and the expiry of the press timer possible in the same millisecond. What makes
it correct: no light dims without an end in sight, and no short press dims.

## Modules

| Module | Models |
| --- | --- |
| `ProvCache` | `prov_cache.c`, every function of its API |
| `DeviceDirectory` | what the cache promises, without slots, cursor or search order |
| `ProvShell` | `prov_shell.c` and the callers of the cache, over `ProvCache` |
| `MeshRecipes` | the macros of `mesh_config_types.h` and the tables of `mesh_recipes.c` and `scenario_network1.c`, as data |
| `MeshNetCfg` | `mesh_net_cfg.c`: the search for a row, its rotation, the application of a recipe message by message |
| `ProvisionerHandler` | `provisioner_handler.c`, with the rotation of rows as its interleavings see it |
| `NodeConfiguration` | what a configuration promises the thread that asks for it, without search, steps and messages |
| `ProvisionerHistory`, `ProvisionerRequests`, `ProvisionerPromises` | the handler with history variables: what a device was given, which requests were accepted, what each of them asked for |
| `Dimmer` | `model_handler.c` and the commands of `serial_cmd.c` |
| `ProvCacheProofs`, `ProvDirectoryProofs`, `ProvShellProofs`, `MeshNetCfgProofs`, `ProvisionerHandlerProofs`, `ProvisionerHistoryProofs`, `ProvisionerPromisesProofs`, `DimmerProofs` | theorems about them |
| `MC...` | values for TLC |

How they build on each other: `ProvShell` EXTENDS `ProvCache`, its steps are calls of the cache;
`ProvCache` implements `DeviceDirectory`; `ProvisionerHistory` and `ProvisionerRequests` EXTEND
`ProvisionerHandler`, `ProvisionerPromises` EXTENDS `ProvisionerHistory`; `MCMeshNetCfg` gives
`MeshNetCfg` the tables of `MeshRecipes`. `MeshNetCfg` and `ProvisionerHistory` both implement
`NodeConfiguration`: this is how the two are composed.

`PROJECT.json` maps every definition to the lines it models. Definitions with the comment "Mutant"
are wrong on purpose: they stand for plausible bugs, no specification uses them, and each
property is known to catch one of them (`mutants` in `PROJECT.json`).

**ProvCache.** `cache` is the array `cache[PROV_CACHE_MAX]`, with the `have_` flags folded into
their fields. Each function holds `cache_mutex` throughout, so each is one action. Searches stop at
the first match, `First(...)`; `alloc_entry_locked(s)` says which slot is returned: a free one, or
else the first one after the cursor that the first successful of three passes matches.
`adv_uuid_seen` has one named case per branch: merge, new address, reused address, new entry.
`last_attempt_ms` of an entry never used is 0, as in zeroed memory, and `Never` (INT64_MIN) after a
clear. Calls that change nothing (a name from an unknown address, a second beacon) are stutters.
The loop that counts the listed entries to print an index (`visible_index_locked`) and the loop that
looks an index up (`prov_cache_visible_uuid_by_index`) are two recursive functions, each with its
loop's own slot and counter; `IndexNamesEntry` compares them.

**DeviceDirectory.** A function from UUIDs to what is known of them, with at most `Capacity`
elements. `ProvCache` implements it under the mapping at its end; what the mapping hides is how the
array finds, merges and evicts.

**ProvShell.** One action per call of the cache and per look at a flag. `bt`, `pass` and `listing`
say where the Bluetooth thread, the retry work and `prov scan on` are, and hold the UUID and the
`now_ms` they have read:

| Code | Actions |
| --- | --- |
| scan reports and beacons | `adv_ind`, `scan_rsp`, `feed_beacon` |
| `maybe_print_visible_uuid` | `note_uuid_update` (the look at `scan_active`), `mark_noted` |
| `auto_try_uuid` from a beacon | `beacon_auto`, `beacon_should`, `beacon_lookup`, `beacon_request`, `beacon_stamp` |
| `auto_retry_work_handler` | `retry_begin`, `retry_find`, `retry_should`, `retry_lookup`, `retry_request`, `retry_stamp`, `retry_end` |
| commands | `scan_set_state` then `scan_mark`; `cmd_auto`; `cmd_provision` |
| handler | `handler_ready`, `session_ends`, `node_configured` (which submits a retry pass) |

The look-up of the name and its row is one step, the request another. A node may be configured before
the handler is ready, by the boot that resumes it. `cmd_auto` sets its flag and submits the pass in one step: what another thread does between the two
is the same before or after both. `owed` is a history variable: who was ready when the pass began,
has a row, is still cached and was not tried since, by the pass or by a beacon. A pass that begins
before the handler is ready owes nothing, each of its requests is refused.

**MeshNetCfg.** One configuration at a time, as the thread makes them, of nodes that keep what
they were told (`conf`) from one attempt to the next. Either the row is searched first
(`mesh_config_apply`) and moved on at the end, or a latched recipe is applied and its row searched
afterwards (`latched_recipe`, `mesh_scenario_consume_recipe_id`). A latched recipe is any that a
look-up can have returned so far, for this device or another (`offered`): a late link hands a device the
recipe of another session, which may be of another row, but never one whose row was not at it.
`offered` begins with the boot; a record that an earlier boot left may hold a recipe of that boot,
which counts as one of `offered` only once its row is at it again. The search is row by row:
`uuid_row`, `name_row`. A step addresses an element or every element with the model
(`apply_step`), and each of its messages is obeyed or refused (`answered`), lost
(`message_lost`) or obeyed with the answer lost (`answer_lost`). What a node answers is a
Configuration Server's: success, invalid model, invalid key, or index already stored. A UUID
is a sequence of hex digits, so a prefix is compared pair by pair as the code does; the name is
the device's or none, since the cache may have lost it at either look-up.

**NodeConfiguration.** The interface between `configure_node` and `mesh_net_cfg.c`. A call takes hold
of a node, a row and a recipe, and ends in one step: nothing happened, or the node has the recipe and
the row moves on if it is at that recipe. `MeshNetCfg` implements it under a mapping that knows the
row and the recipe of a call from its start (`RowOfCall`, `RecipeOfCall`), although the code finds
them later and, for a latched recipe, looks for the row only when all is told: the mapping would be
wrong if the late search could find another row than an early one, if a failed call could leave a
row moved, or if the table could change under a call. `ProvisionerHistory` implements it with what
the thread has latched for the node it waits for; there a request, a link, a joining node or a lost
power could be what changes it. So the one step in which `ProvisionerHandler` has a configuration
succeed or fail stands for the many of `MeshNetCfg`. What is not shown is that the two agree on which
row a device has (`RowOf` of the handler is a constant).

**MeshRecipes.** One operator per macro, one sequence of steps per recipe. What no property reads
(TTL, period, retransmission) is left out.

**ProvisionerHandler.** One action per stretch of code between two waits:

| Code | Actions |
| --- | --- |
| boot | `provisioner_network_setup`, `provisioner_resume_pending_config`, `resume_saved`, `thread_start` |
| iteration over the CDB | `check_unconfigured`, `check_unconfigured_skip`, `foreach_done` |
| `configure_node`, `configure_self` after their wait | `apply_failed`, `configure_self_done`, `configure_node_done`, `configure_node_saved` |
| request taken and wait for the node | `provision_adv`, `provision_adv_failed`, `node_added_taken`, `node_added_timeout` |
| request API | `auto_request`, or `auto_request_waits` and `auto_request_resumes` when the mutex is taken; `shell_claim`, `shell_write_uuid`, `shell_write_recipe`, `shell_give` |
| callback `node_added`, before and after its flash write | `node_added`, `node_added_saved` |
| outside | `link_failed`, `name_heard`, `name_evicted`, `cdb_stored`, `power_failed` |

`prov_pending` folds `config_pending` into `recent_new_addr` (0 when there is nothing pending; the
code sets and clears the two together). `job` is what the running `configure_node` holds in
local variables. Applying a recipe is one wait that ends in success or in failure: the code does
nothing between its steps that others can see. `flash` is what survives `power_failed`; the CDB is
stored by the mesh stack, node by node and later, so `cdb_stored(a)` may come late or never.

`prov_pending_save` hands `settings_save_one` the address of the record, not its value, and the settings
are locked for a write. So a write stores what the record holds when the write begins (`writing`):
at once if nobody else is writing (`prov_pending_save`), else when the other write ends
(`prov_pending_save_ends`). A write that has begun keeps its value although the record in RAM
changes, and the other caller's write follows with the newer one. `cdb_stored` takes no part in
this lock and may overtake callers that wait for it, which allows more than the code.

A caller in auto mode has looked its recipe up and set the busy flag before it waits for
`prov_pending_mutex`; `waiting` is its request. One caller waits at a time: the shell that holds the
mutex inherits the waiter's priority and has three statements to go, and a second waiter would have
to find the flag cleared meanwhile. The thread takes the semaphore and the mutex in one step
(`latch`): the code takes the semaphore first and may wait for the mutex without it.

A name is heard of any device that is not yet configured, a node included whose address is still
cached (`name_heard`).

**ProvisionerPromises.** The documentation's promises to a caller (`SelectedRecipeIsApplied`,
`AcceptedIsKept`, `AddedIsConfigured`) are false in some runs ([findings](#findings)); this module
says which requests they hold for. `made` is the request that waits, as its caller made it, `early` that one
was accepted while the thread was not at its wait (then a second may be accepted before the first
is taken), `opened` the recipe the open link was asked for, or `Unknown` when another request was
taken while it was open, `asked` the same for each device that a record names.

**Dimmer.** `timer[w]` is the time a delayable work is due in, `queue` the works the system work
queue has to run, `since` the age of a press up to the first value beyond the threshold, which is
all the code compares. `light` is a light that obeys the last message it got: its last OnOff value and
the move under way. Any message can miss it (`Sends`, `missed`): sending returns an error that the
buttons log, the works do not read and the serial commands print, and nothing is sent again. `tick` lets one ms pass and is disabled while something is due.

## Atomicity

The provisioner thread (`K_PRIO_COOP`), the Bluetooth threads that call back and the system work
queue (cooperative by Zephyr's defaults, which `prj.conf` keeps) are **cooperative**: each runs until
it waits.
So a stretch without a wait is one action, and while the thread is at a location of `Running`
(which has no wait before the next location) no other actor moves. The waits are the two
semaphores, the mutex held by another, the answer of the configuration client, and a write to
flash, which yields while it is under way. The shell thread is **preemptible**: `prov provision`
is split at each access to the shared request, and `on`/`off`/`dim` at each of their calls. The
callback saves the record under a flash write, therefore it is two actions.

In `ProvShell` the unit is smaller: each call of the cache and each look at a flag under
`prov_shell_mutex` is a step of its own, in every thread. A cooperative thread too can be held up
between two of them, for a mutex that others wait for is handed over when it is released. In
`MeshNetCfg` each message waits for its answer, but only the provisioner thread reads what it
changes; its searches are split row by row because the split costs nothing and shows both loops.

Mutexes of the handler: the only one that can be found taken is `prov_pending_mutex`, by the shell being
preempted inside it; then auto mode (`waiting`) and the thread wait (`MutexFree`), and either may get it
first. The settings lock is held for as long as a write to flash (`writing`).

## Runs and bounds

| Run | Configuration | Properties |
| --- | --- | --- |
| `cache` | 3 slots, 4 UUIDs, 3 addresses, 2 names | types, uniqueness, well-formed entries, listing, indices, eviction reasons, cooldowns, refinement of `DeviceDirectory` |
| `shell` | 2 slots, 2 UUIDs, 1 address, a name with a row and one without, clock 0 to 1, spacing 1 | types, `NobodyNamedIsMissed`, `PassSkipsNobody` |
| `net_cfg` | the shipped recipes and one with `BIND_ALL`/`PUB_ALL`; the shipped scenario and two made to compete; five nodes, of which two hear messages | types, `RowIsBestMatch`, `AppliedIsComplete`, `ConfiguredTalksWithKey`, `RefusedOnlyForItsModels`, `RowMovesWithItsRecipe`, refinement of `NodeConfiguration` |
| `handler_running` | 2 devices, 2 of them nodes, one row with 2 recipes, power stays on, with the history of requests | types, `NeverStuckBusy`, `PairIntact`, `SlotIsConsumedByItsRecipe`, `RecordKeepsRecipe`, `TakenAsMade`, `CarriedThrough` |
| `handler_live` | 1 device, 2 addresses for it, power fails, key made or not | `BusyEnds`, `RequestIsTaken` |
| `handler_power` | 2 devices, one node, power fails, key made or not, with history | `PendingNamesItsNode`, `PendingIsDurable`, `ConfiguredHasRecipe`, refinement of `NodeConfiguration` |
| `dimmer` | threshold 2 ms, timeout 4 ms, 3 scenes | types, `EveryMoveHasItsEnd`, `ShortPressNeverDims`, `MovingEnds` |
| `doc_*` | smallest that shows the disagreement (`doc_groups`: as `net_cfg`, with two fixtures) | one property each, violated; see [findings](#findings) |

Why the bounds are enough to be interesting:

- *cache*: more devices than slots force every pass of the eviction and every wrap of the cursor;
  three addresses for four devices force devices to change and to inherit addresses. The functions
  compare UUIDs, addresses and names only for equality (hence the symmetry) and touch at most two
  entries at a time. One value of `Times` next to `Never` tells an attempt from none.
- *shell*: two devices are a pass that has one to try and one to miss; with one
  address they change slots, take over each other's address and are configured while the pass is
  between two calls. With two slots they never evict each other; eviction during a pass, in caches of
  any size, is covered by the theorems alone. A clock that moves once makes a cooldown hold and run out.
- *net_cfg*: in the shipped scenario no rows compete, so one more has two equal prefixes around a
  longer one and a device that a UUID row and a name row both match; another has patterns that are
  odd or longer than a UUID, a row without a recipe and two rows with one name. The five nodes
  have a model on one element, on several, on none, and one has fewer elements than its composition
  says. Attempts are not bounded, nor is what they lose. `MaxNodes` bounds how many nodes hear any message
  in one run: two of them, any two, are enough for the row of one to move while another is half
  configured, and for the recipe of one to be tried on the other; the theorems hold for any number.
- *handler*: `MaxNodes` counts the provisioner. Two devices let a late link overlap a later request
  and one node be recorded while another is configured; three nodes let the row move on while the
  record of another node waits. With power failures one node beside the provisioner is
  enough to lose it, store it late, and add it again. Liveness takes no
  symmetry and one device: the handler never compares the UUIDs of two requests while it waits, so
  that a late link and a later request of the same device already overlap in every way. A reboot
  between a record and its completion, at another recipe of the row, needs three nodes and power
  failures at once; there `RecordKeepsRecipe` and `CarriedThrough` rest on their theorems. In `handler_power` a row
  moves on at most once, so that its refinement of `NodeConfiguration` shows what requests and
  power failures do to a call; rotations of several calls show in `net_cfg` and
  `handler_running`, and in the theorem. The theorems cover the other sizes.
- *dimmer*: a threshold of two ms has a time before, at and after it; the timeout is longer than a
  press so that stops and starts of successive presses overlap. Nothing else depends on the values,
  and the theorems hold for all of them.

`MaxNodes`, `CacheMax` and `MaxElem` are sizes the code has (the CDB, the cache array, the elements
of a composition); only in `MeshNetCfg`, `MaxNodes` is the bound on nodes that hear messages. The models
put two bounds on counters: `since` is capped one above the threshold, which no comparison sees, and the clock of `ProvShell` stops at `MaxTime`, after
which no cooldown runs out any more; the theorems hold for every `MaxTime`.
No run turns the deadlock check off.

## Fairness

`ProvisionerHandler!Fairness`: weak fairness of the boot, the thread, the answer to a pending
configuration message, the shell inside a request, a caller that waits for the mutex once it is free,
and the flash write of `node_added`. Justified
by the kernel running what is ready, by the ten-second timeout of the wait, by the configuration
client's own timeout (every call answers or returns an error) and by flash writes that end. Nothing
is assumed of requests, links, names, the delayed store or the power: a failure of the power clears
the flag and the semaphore too, and what comes after it is a boot.

`Dimmer!FairSpec`: the work queue runs what is queued, due timers expire, time passes, and the
shell goes on with a command it started. Nothing is assumed of buttons and users.

`ProvShell` and `MeshNetCfg` have no liveness properties. That a retry pass ends holds of the model
only if devices stop changing slots while it runs, which the code cannot ensure: what is stated
instead is what it has done when it ends. A configuration call ends because it is a loop over a
table with an answer or an error at each message.

## Proofs

`tlapm` proves, for every value of the constants that satisfies the assumptions named in the
modules (sizes are positive; sentinels are not members of the sets they stand beside; each row has
at least one recipe). Three assumptions of `MeshNetCfg` are about the tables: each recipe adds
the application key before it uses it (`KeysFirstAssumption`), no recipe makes one model publish
to two groups (`PublicationsAssumption`), and every recipe binds, sooner or later, each
model it makes publish (`BindingsAssumption`). TLC evaluates them on the shipped tables:

| Module | Theorems | Properties |
| --- | --- | --- |
| `ProvCacheProofs` | `TypeCorrect`, `OneEntryPerDevice`, `OneEntryPerAddress`, `EntriesHaveUuids`, `ListedDevicesAreNamed`, `NumbersNameEntries` | `TypeOK`, `UuidUnique`, `AddrUnique`, `WellFormed`, `VisibleIsNamed`, `IndexNamesEntry` |
| | `CooldownsSurvive`, `BeaconsSpareNamed`, `ListedStay` | `CooldownSurvives`, `BeaconsEvictUnnamedFirst`, `ListedLeavesForAReason` |
| `ProvDirectoryProofs` | `CacheIsADirectory` | `ImplementsDirectory`, the refinement |
| `ProvShellProofs` | `ShellTypeCorrect`, `ShellUsesTheCache`, `ScanMissesNobody`, `PassTriesAll` | `ShellTypeOK`, `ProvCache!Spec`, `NobodyNamedIsMissed`, `PassSkipsNobody` |
| `MeshNetCfgProofs` | `TypeCorrect`, `SearchFindsBestMatch`, `ConfiguredIsToldAll` | `TypeOK`, `RowIsBestMatch`, `AppliedIsComplete` |
| | `RefusalsAreForModels`, `RowsMoveForTheirNodes`, `PublishersAreBound` | `RefusedOnlyForItsModels`, `RowMovesWithItsRecipe`, `ConfiguredTalksWithKey` |
| | `CallsAreConfigurations` | `ImplementsConfiguration`, the refinement |
| `ProvisionerHandlerProofs` | `TypeCorrect`, `BusyIsNeverStuck`, `RequestsAreNotMixed`, `RecordIsDurable`, `RecordNamesItsNode` | `TypeOK`, `NeverStuckBusy`, `PairIntact`, `PendingIsDurable`, `PendingNamesItsNode` |
| | `RecordedRecipeIsKept`, `SlotsAreConsumedByTheirRecipe` | `RecordKeepsRecipe`, `SlotIsConsumedByItsRecipe` |
| `ProvisionerHistoryProofs` | `ConfiguredNodesHaveRecipes`, `ThreadConfiguresNodes` | `ConfiguredHasRecipe`, `ImplementsConfiguration` of the handler |
| `ProvisionerPromisesProofs` | `RequestsAreTakenAsMade`, `RequestsAreCarriedThrough` | `TakenAsMade`, `CarriedThrough` |
| `DimmerProofs` | `TypeCorrect`, `MovesAreBounded`, `ShortPressesDoNotDim` | `TypeOK`, `EveryMoveHasItsEnd`, `ShortPressNeverDims` |

The arguments:

- **ProvCache.** The invariant is the conjunction of the safety invariants. None is inductive
  alone: a merge keeps a UUID unique because addresses are unique and entries well formed; a listed
  entry keeps its name through a merge because the entry that hands over the listing has one. The
  steps that rewrite one entry are instances of one lemma on replacing a slot. The action
  properties follow device by device: which entries a call can clear (the merged one and the victim
  of an allocation) and what it leaves of the others. `IndexNamesEntry` is about two loops: their
  recursive functions are shown to exist for every size, and that the loop which looks an index up
  goes from slot and counter to the slot of that index follows by least counterexample.
- **The directory.** `directory` maps a UUID to what its one entry says of it; that it is one
  is the invariant above, without which the mapping would have to choose. Each branch of
  `adv_uuid_seen` is then one directory step, an allocation from a full array an eviction of the
  directory, and calls that only move between slots are stutters.
- **ProvShell.** Every step is a call of the cache or none (`StepIsACall`), so the cache's invariant
  holds under it. `Base` adds the types and `Held`, that a thread in an attempt has a UUID.
  `NobodyNamedIsMissed` is inductive beside it. `PassSkipsNobody` needs `Owing`: whoever is owed is
  the one in hand, or has an entry at or after the cursor that is ready; no call moves a ready device
  to a lower slot without stamping, clearing or renaming it.
- **MeshNetCfg.** The search: `best` is the best row among those before `i`, in either loop. The
  application: the node was told every step before `s`, and the present step on every element not in
  `addrs`; success is returned only beyond the last one. What was told stays told, except that a
  publication replaces another of its model, which is where `PublicationsAssumption` is needed. That
  nobody is refused for want of a key rests on `KeysFirstAssumption`; a row moves on only in the two
  steps that record the node. That a configured node publishes only from bound models
  (`PublishersAreBound`) is about several attempts: whatever the node publishes comes from a recipe that
  was offered. If it is the one the node is configured with, that recipe binds it
  (`BindingsAssumption`). If it is another, either that one bound the model before, and a binding is
  never taken back, or it publishes before it binds, which is the exception the property makes.
- **The configuration refined by MeshNetCfg.** The row of a call is defined by a CHOOSE, so the proof
  needs that the best row exists and is one: the longest matching prefix exists because match lengths
  are bounded by the UUID's (`LeastNatural`, an induction over the naturals that the well-foundedness
  theorems of the library give for one concrete set), and of the rows with it the first is one
  (`OneRow`). The row then stays the same while rows move on, since the search does not read where
  they are (`RowForKept`). A call that looked its row up applies the recipe that row is still at (`TakenFromRow`); a latched recipe is fixed from the start, whosever row it is from. Each step
  goes on with the call, ends it without a trace, or is the one that records the node.
- **ProvisionerHandler.** `IInv` adds to `TypeOK` and the promises five facts about the course of
  the thread: while something is applied or saved the cursor names a node of the CDB that is not,
  or is already, configured (`NodeInHand`); the shell and the callbacks do nothing before the boot
  ends that the boot would trip over (`BootFirst`); address 1 is always the provisioner
  (`SelfIsNode`); the record names a CDB node that is unconfigured unless the boot has yet to look
  at it (`RecordIsPending`); and the recipe being applied to the recorded node is the recorded one
  (`JobIsRecorded`), which makes `RecordKeepsRecipe` a one-step consequence. `PendingIsDurable` needs to
  know of overlapping writes that one is under way as long as somebody waits, and that the last of
  them writes what RAM holds (`WriteIsCurrent`). The history needs in
  addition, of the CDB in RAM and of the one in flash, that nodes other than the provisioner are
  devices and that configured ones have a recipe, that RAM knows every stored node as the same
  device, and that a running job has a recipe (`HInv`). With these, every step of the handler is a step
  of `NodeConfiguration` or leaves its state alone (`StepConfigures`): the node that is configured
  is never the one that joins, and what the thread has latched changes only when it begins or ends.
- **ProvisionerPromises.** Five facts follow a request from its caller to its node: unless an early
  request overlaps, the pair in the slot is its caller's (`OneRequest`); who waits for the mutex waits for the shell
  (`WaitsForShell`); the session of an open link is
  that of the request that opened it (`LinkIsSession`); the record, in RAM, in flash and on its way there, says what
  was asked for the device it names (`RecordsAreAsked`); and the recipe applied to the recorded node is
  the recorded one (`JobIsRecorded`). That about the record needs that neither the stored one nor the one being written names a
  free address while the power is on (`FlashNamesNode`, `WriteNamesNode`): otherwise the next device to get that
  address would be taken for the recorded one after a reboot.
- **Dimmer.** Beside the types, before the dimmer joins nothing is scheduled
  (`NothingBeforeJoining`); each action then either leaves the stop scheduled or queued, sends a
  stop, which the light takes or misses (`SentOrMissed`), or is the cancel of a serial command, whose
  message ends the move or is missed. A start is scheduled only
  by a press; a short release cancels it, and after a long one the age of the press is at least the
  threshold and only grows until the next press. Submitting to the work queue loses no work
  (`SubmitQueues`).

Only model-checked: liveness (`BusyEnds`, `RequestIsTaken`, `MovingEnds`), which is out of the
prover's reach. Every other property of the passing runs is a theorem.

## Findings

Each is a run TLC refutes; `PROJECT.json` quotes the text and explains the run.

| Run | Text says | Code does |
| --- | --- | --- |
| `doc_selected_recipe` | a request's recipe is carried into the configuration | a link that succeeds after its wait is recorded with the later session's recipe: a device of one row is given the recipe of another |
| `doc_accepted_is_kept` | a request that returned 0 is queued | it can be replaced: A is accepted during the iteration that clears the flag, B while the thread waits for A's node, the timeout of that wait clears the flag B set, C is accepted and replaces B |
| `doc_added` | after `node_added` the node is configured | not if it comes while the thread waits for a request, until another request comes |
| `doc_groups` | a fixture with recipe 2 is subscribed to GRP_2 | one half given recipe 1, before another fixture took it and moved the row on, listens to both groups: no recipe deletes a subscription |
| `doc_release` | a long press ends the dimming at once | released in the ms of the threshold, the start follows the stop (no message is missed) |

Smaller disagreements are noted with the hazards in `PROJECT.json` and have no run: two requests
latched before either node is configured hold the same recipe of a row that should alternate; a node
recorded without a recipe is not completed after a reboot, its name being gone from the cache; the
busy flag is clear while the thread serves a request accepted during its iteration; a short press
sends the direction, which long presses and serial commands leave out of step with the light; a press
between the cancels and the message of a serial command schedules a new start; a serial command whose
message cannot be sent has cancelled the stop of a move that then goes on.

Two tables of the provisioner's README disagree with the recipes and need no search: lines 237 and
281 bind the application key on element 1 of the switch, whose recipe binds element 0 only, and lines
290-300 list a Lightness Client for the dimmer, whose recipe binds Level, OnOff and Scene Clients.

## What is not modelled

- The mesh stack, kernel, settings back end and devices, except as the actions listed as outside
  or external. Assumed of them: a link to a device in the CDB adds nothing; the stack has one
  provisioning link at a time; a device whose CDB entry was lost is reset by its user before it is
  provisioned again; a flash write that ends has been made; a configuration call ends.
- In `ProvisionerHandler`: UUID rows of a scenario (`MeshNetCfg` has them; the shipped scenario has
  name rows only), a device that changes its name between requests, rows with a recipe outside the
  table, more than one auto mode caller waiting for the mutex. In `ProvShell`: the whole of the handler but its two flags, UUID rows.
- Failure of the boot (it returns an error and nothing runs), and of writes to settings (logged).
- In `MeshNetCfg`: reboots (one boot; nodes start without an earlier half), a second network or application key, patterns with characters other than hex
  digits, TTL, period and retransmission of publications.
- The scan parser's walk over the bytes of a report, which keeps no state: a report carries any
  UUID or any name. `parse_percent_arg` and other parsing of arguments; names longer than the
  buffer; printed text.
- Attention LED, health client and server, composition data, USB line state, start-up code and the
  build configuration: I/O or straight-line code without state of its own.
- For the dimmer, scene contents, and how long a move lasts that nobody ends: `EveryMoveHasItsEnd` and
  `MovingEnds` except a light that missed the last message, which the code does not handle. Buttons are taken to
  be up at the boot, and joining a network to take longer than a short press.

## Plan

Done: the cache, its refinement, the shell and auto mode, the row search, the recipes, the handler, the
rotation, the configuration that joins handler and recipes, and the dimmer, with every safety invariant,
action property and refinement proved.

1. **Composition of shell and handler**: `ProvShell` with the requests of `ProvisionerHandler` in
   place of the two flags, related by an interface as `NodeConfiguration` is, since the two together
   are beyond TLC.
2. **Cache provenance**: the name cached for a UUID was last sent by an address that advertised it.
3. **Rows of the handler**: `RowOf` derived from the search of `MeshNetCfg` instead of a constant.
4. **Serial arguments**: `parse_percent_arg` as a function over short strings of tokens; truncated
   names in the cache.
