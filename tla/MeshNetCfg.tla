------------------------------ MODULE MeshNetCfg ------------------------------
(***************************************************************************)
(* The configuration of a node (mesh_net_cfg.c): the search for the        *)
(* scenario row of a device, the recipe the row is at, and the application *)
(* of the recipe, one configuration message after another, to a node that  *)
(* may lose messages, lose answers and refuse.                             *)
(*                                                                         *)
(* The callers are the two branches of configure_node (provisioner_        *)
(* handler.c): mesh_config_apply, which looks the row up first, and        *)
(* mesh_config_apply_recipe with a latched recipe, which looks the row up  *)
(* afterwards, to move it on.  Only one call runs at a time: the thread    *)
(* makes them all.  A failed call may be repeated, with either branch.     *)
(*                                                                         *)
(* External: the nodes.  What a node was told is the set conf[d] of the    *)
(* messages it obeyed and that no later one replaced.                      *)
(***************************************************************************)
EXTENDS Integers, Sequences, FiniteSets

CONSTANTS
  Devices,      (* the nodes                                               *)
  Uuid,         (* the UUID of each, as the sequence of its hex digits     *)
  Names, NameOf,    (* the GAP names, and the name of each                *)
  CompOf,       (* composition page 0: the models of each element          *)
  NumElem,      (* num_elem in the CDB, what the device said of itself     *)
  Scenarios,    (* the tables of rows a scenario file may hold             *)
  RecipeSteps,  (* mesh_recipes, of each recipe id but RECIPE_NONE       *)
  Models, Groups,
  MaxElem,      (* MESH_CONFIG_MAX_ELEM_PER_NODE                           *)
  MaxNodes,     (* bound: how many nodes hear any message                  *)
  None, RECIPE_NONE

Recipes == DOMAIN RecipeSteps

StepType ==
  [op : {"netkey_add", "appkey_add", "bind_app", "sub_add", "pub_set"},
   elem_sel : {"addr_off", "all_with_mod"}, elem_param : Nat,
   model : Models \cup {"none"}, group : Groups \cup {"none"}]

RowIds == Seq(Recipes \cup {RECIPE_NONE})

(* A row without rotation is one of a single recipe. *)
Row ==
  [match_type : {"uuid"}, match : Seq(Nat), recipe_ids : RowIds,
   recipe_idx : Nat]
  \cup
  [match_type : {"name"}, match : Names, recipe_ids : RowIds, recipe_idx : Nat]

ASSUME RecipesAssumption ==
  /\ RecipeSteps \in [Recipes -> Seq(StepType)]
  /\ RECIPE_NONE \notin Recipes

(* Every recipe gives the application key before it uses it. *)
ASSUME KeysFirstAssumption ==
  \A r \in Recipes : \A k \in DOMAIN RecipeSteps[r] :
    RecipeSteps[r][k].op \in {"bind_app", "pub_set"}
      => \E j \in 1 .. k - 1 :
           RecipeSteps[r][j].op = "appkey_add"
           /\ RecipeSteps[r][j].elem_sel = "addr_off"

(* No recipe makes one model publish to two groups. *)
ASSUME PublicationsAssumption ==
  \A r \in Recipes : \A j, k \in DOMAIN RecipeSteps[r] :
    LET a == RecipeSteps[r][j]
        b == RecipeSteps[r][k]
    IN  a.op = "pub_set" /\ b.op = "pub_set" /\ a.model = b.model
        => \/ a.group = b.group
           \/ /\ a.elem_sel = "addr_off" /\ b.elem_sel = "addr_off"
              /\ a.elem_param # b.elem_param

ASSUME ScenariosAssumption ==
  \A table \in Scenarios :
    /\ table \in Seq(Row)
    /\ \A r \in DOMAIN table :
         table[r].recipe_ids # << >> /\ table[r].recipe_idx = 1

(* Where a recipe makes a model publish, it binds the model to the application
   key, sooner or later. *)
SameTargets(a, b) ==
  a.elem_sel = b.elem_sel /\ a.elem_param = b.elem_param /\ a.model = b.model

ASSUME BindingsAssumption ==
  \A r \in Recipes : \A a \in DOMAIN RecipeSteps[r] :
    RecipeSteps[r][a].op = "pub_set" =>
      \E b \in DOMAIN RecipeSteps[r] :
        /\ RecipeSteps[r][b].op = "bind_app"
        /\ SameTargets(RecipeSteps[r][a], RecipeSteps[r][b])

ASSUME BoundsAssumption == MaxNodes \in Nat

ASSUME DevicesAssumption ==
  /\ Uuid \in [Devices -> Seq(Nat)] /\ NameOf \in [Devices -> Names]
  /\ CompOf \in [Devices -> Seq(SUBSET Models)]
  /\ None \notin Devices \cup Names

VARIABLES
  rows,       (* the scenario; only recipe_idx ever changes                *)
  offered,    (* the recipes a look-up can have returned so far            *)
  pc,         (* where the running call is                                 *)
  node,       (* whom it configures                                        *)
  node_name,  (* the name the cache gave for it, or None                   *)
  latched,    (* whether the caller has a recipe                           *)
  i, best,    (* the search: the row it is at, the best so far or 0        *)
  recipe_id, s,   (* the recipe that is applied, the step it is at         *)
  addrs,      (* the elements the step has yet to address                  *)
  s_comp_page,    (* the composition fetched last                          *)
  err,        (* what the last call returned                               *)
  conf,       (* what each node was told                                   *)
  done        (* the recipe each configured node was configured with       *)

search == <<i, best>>
call == <<node, node_name, latched, recipe_id>>
vars ==
  <<rows, offered, pc, call, search, s, addrs, s_comp_page, err, conf, done>>

Indices == 1 .. Len(rows)

(* A message: a step, to one element. *)
Message(step, e) ==
  [op |-> step.op, elem |-> e, model |-> step.model, group |-> step.group]

-----------------------------------------------------------------------------
(* Rows                                                                    *)

match_len(row) == Len(row.match) \div 2

(* A pattern that is empty, odd or longer than a UUID matches nothing. *)
uuid_hex_match(uuid_hex, uuid) ==
  /\ Len(uuid_hex) \in 2 .. Len(uuid)
  /\ Len(uuid_hex) % 2 = 0
  /\ uuid_hex = SubSeq(uuid, 1, Len(uuid_hex))

device_name_match(pattern, name) == name # None /\ pattern = name

UuidMatch(r, d) ==
  rows[r].match_type = "uuid" /\ uuid_hex_match(rows[r].match, Uuid[d])

NameMatch(r, name) ==
  rows[r].match_type = "name" /\ device_name_match(rows[r].match, name)

scenario_row_peek_recipe_id(r) == rows[r].recipe_ids[rows[r].recipe_idx]

(* What the search is for: the row with the longest prefix of the UUID, the
   first of several, or else the first with the name. *)
Beats(r, q) ==
  \/ match_len(rows[r]) > match_len(rows[q])
  \/ match_len(rows[r]) = match_len(rows[q]) /\ r <= q

IsRowOf(r, d, name) ==
  \/ /\ r \in Indices /\ UuidMatch(r, d)
     /\ \A q \in Indices : UuidMatch(q, d) => Beats(r, q)
  \/ /\ r \in Indices /\ NameMatch(r, name)
     /\ \A q \in Indices : ~UuidMatch(q, d)
     /\ \A q \in 1 .. r - 1 : ~NameMatch(q, name)
  \/ /\ r = 0
     /\ \A q \in Indices : ~UuidMatch(q, d) /\ ~NameMatch(q, name)

(* What mesh_scenario_lookup_recipe_id has to return now, whichever device is
   looked up and whether its name is known or not. *)
Lookups ==
  {scenario_row_peek_recipe_id(r) :
     r \in {q \in Indices : \E d \in Devices, name \in Names \cup {None} :
             name \in {NameOf[d], None} /\ IsRowOf(q, d, name)}} \cap Recipes

(* Mutant: the index runs off the recipes of the row. *)
scenario_row_consume_recipe_id_unwrapped(r, id) ==
  /\ rows' = IF r # 0 /\ scenario_row_peek_recipe_id(r) = id
             THEN [rows EXCEPT ![r].recipe_idx = @ + 1]
             ELSE rows
  /\ UNCHANGED offered

(* Mutant: a latched recipe the row has left moves it all the same. *)
scenario_row_consume_recipe_id_any(r, id) ==
  /\ rows' = IF r = 0 THEN rows
             ELSE [rows EXCEPT ![r].recipe_idx =
                     (@ % Len(rows[r].recipe_ids)) + 1]
  /\ offered' = offered \cup Lookups'

scenario_row_consume_recipe_id(r, id) ==
  /\ rows' = IF r # 0 /\ scenario_row_peek_recipe_id(r) = id
             THEN [rows EXCEPT ![r].recipe_idx =
                     (@ % Len(rows[r].recipe_ids)) + 1]
             ELSE rows
  /\ offered' = offered \cup Lookups'

-----------------------------------------------------------------------------
Init ==
  /\ rows \in Scenarios /\ offered = Lookups
  /\ pc = "idle" /\ node = None /\ node_name = None /\ latched = FALSE
  /\ i = 1 /\ best = 0
  /\ recipe_id = RECIPE_NONE /\ s = 1 /\ addrs = {}
  /\ s_comp_page = << >> /\ err = "0"
  /\ conf = [d \in Devices |-> {}]
  /\ done = [d \in Devices |-> RECIPE_NONE]

-----------------------------------------------------------------------------
(* configure_node begins and ends                                          *)

Begin(d, isLatched, at) ==
  /\ pc = "idle" /\ done[d] = RECIPE_NONE
  /\ node_name' \in {NameOf[d], None}
  /\ node' = d /\ latched' = isLatched /\ pc' = at
  /\ i' = 1 /\ best' = 0 /\ err' = "0"
  /\ UNCHANGED <<rows, offered, s, addrs, s_comp_page, conf, done>>

mesh_config_apply(d) ==
  /\ Begin(d, FALSE, "uuid_rows")
  /\ recipe_id' = RECIPE_NONE

(* A recipe that a look-up once returned, for this device or, when its link was
   late, for another: prov_pending.recipe_id or session_recipe_id. *)
latched_recipe(d) ==
  /\ Begin(d, TRUE, "fetch")
  /\ recipe_id' \in offered

Return(error) ==
  /\ pc' = "idle" /\ err' = error
  /\ node' = None /\ node_name' = None /\ latched' = FALSE
  /\ i' = 1 /\ best' = 0 /\ recipe_id' = RECIPE_NONE /\ s' = 1 /\ addrs' = {}

-----------------------------------------------------------------------------
(* scenario_find_row                                                       *)

(* Mutant: of two rows with the same prefix length the last one wins. *)
uuid_row_last_wins ==
  /\ pc = "uuid_rows" /\ i <= Len(rows)
  /\ best' = IF /\ UuidMatch(i, node)
                /\ best = 0 \/ match_len(rows[i]) >= match_len(rows[best])
             THEN i ELSE best
  /\ i' = i + 1
  /\ UNCHANGED <<rows, offered, pc, call, s, addrs, s_comp_page, err, conf,
                 done>>

uuid_row ==
  /\ pc = "uuid_rows" /\ i <= Len(rows)
  /\ best' = IF /\ UuidMatch(i, node)
                /\ best = 0 \/ match_len(rows[i]) > match_len(rows[best])
             THEN i ELSE best
  /\ i' = i + 1
  /\ UNCHANGED <<rows, offered, pc, call, s, addrs, s_comp_page, err, conf,
                 done>>

uuid_rows_done ==
  /\ pc = "uuid_rows" /\ i > Len(rows)
  /\ pc' = IF best # 0 THEN "matched" ELSE "name_rows"
  /\ i' = 1
  /\ UNCHANGED <<rows, offered, best, call, s, addrs, s_comp_page, err, conf,
                 done>>

name_row ==
  /\ pc = "name_rows" /\ i <= Len(rows)
  /\ IF NameMatch(i, node_name)
     THEN best' = i /\ pc' = "matched" /\ i' = 1
     ELSE i' = i + 1 /\ UNCHANGED <<best, pc>>
  /\ UNCHANGED <<rows, offered, call, s, addrs, s_comp_page, err, conf, done>>

name_rows_done ==
  /\ pc = "name_rows" /\ i > Len(rows)
  /\ pc' = "matched" /\ i' = 1
  /\ UNCHANGED <<rows, offered, best, call, s, addrs, s_comp_page, err, conf,
                 done>>

(* The row found is peeked at before the recipe is applied, *)
row_found ==
  /\ pc = "matched" /\ ~latched
  /\ IF best = 0 THEN Return("ENOENT")
     ELSE /\ recipe_id' = scenario_row_peek_recipe_id(best) /\ pc' = "fetch"
          /\ UNCHANGED <<search, node, node_name, latched, s, addrs, err>>
  /\ UNCHANGED <<rows, offered, s_comp_page, conf, done>>

(* and moved on after a latched one was. *)
mesh_scenario_consume_recipe_id ==
  /\ pc = "matched" /\ latched
  /\ scenario_row_consume_recipe_id(best, recipe_id)
  /\ done' = [done EXCEPT ![node] = recipe_id]
  /\ Return("0")
  /\ UNCHANGED <<s_comp_page, conf>>

-----------------------------------------------------------------------------
(* mesh_config_apply_recipe                                                *)

CallFailed ==
  /\ Return("failed")
  /\ UNCHANGED <<rows, offered, s_comp_page, conf, done>>

no_such_recipe ==
  /\ pc = "fetch" /\ recipe_id \notin Recipes
  /\ Return("ENOENT")
  /\ UNCHANGED <<rows, offered, s_comp_page, conf, done>>

(* The page is kept before it is found to be of no use. *)
comp_data_fetch ==
  /\ pc = "fetch" /\ recipe_id \in Recipes
  /\ s_comp_page' = CompOf[node]
  /\ \/ /\ Len(CompOf[node]) > MaxElem
        /\ Return("ENOMEM")
     \/ /\ Len(CompOf[node]) <= MaxElem /\ Len(CompOf[node]) # NumElem[node]
        /\ Return("EINVAL")
     \/ /\ Len(CompOf[node]) <= MaxElem /\ Len(CompOf[node]) = NumElem[node]
        /\ pc' = "step" /\ s' = 1
        /\ UNCHANGED <<search, call, addrs, err>>
  /\ UNCHANGED <<rows, offered, conf, done>>

(* No answer, or one that is not page 0 or does not parse. *)
fetch_failed ==
  /\ pc = "fetch" /\ recipe_id \in Recipes
  /\ CallFailed

steps == RecipeSteps[recipe_id]

comp_elem_has_model(comp, e, model) ==
  e + 1 \in DOMAIN comp /\ model \in comp[e + 1]

(* The elements a step addresses, on a node with this composition. *)
Targets(step, comp) ==
  IF step.elem_sel = "addr_off" THEN {step.elem_param}
  ELSE {e \in 0 .. Len(comp) - 1 : comp_elem_has_model(comp, e, step.model)}

BadElement(step, comp) ==
  step.elem_sel = "addr_off" /\ step.elem_param >= Len(comp)

apply_step ==
  /\ pc = "step" /\ s <= Len(steps)
  /\ IF BadElement(steps[s], s_comp_page) THEN Return("EINVAL")
     ELSE /\ addrs' = Targets(steps[s], s_comp_page) /\ pc' = "send"
          /\ UNCHANGED <<search, call, s, err>>
  /\ UNCHANGED <<rows, offered, s_comp_page, conf, done>>

step_done ==
  /\ pc = "send" /\ addrs = {}
  /\ pc' = "step" /\ s' = s + 1
  /\ UNCHANGED <<rows, offered, search, call, addrs, s_comp_page, err, conf,
                 done>>

IsNext(e) == pc = "send" /\ e \in addrs /\ \A f \in addrs : e <= f

(* The node obeys: a publication replaces the one its model had. *)
Obeyed(told, m) ==
  {m} \cup {f \in told : ~(/\ m.op = "pub_set" /\ f.op = "pub_set"
                           /\ f.elem = m.elem /\ f.model = m.model)}

HasAppKey(told) == \E f \in told : f.op = "appkey_add"

(* The status a node answers, by what it has and what it was told. *)
Statuses(d, m) ==
  IF m.op \in {"netkey_add", "appkey_add"}
  THEN IF m \in conf[d] THEN {"success", "idx_already_stored"} ELSE {"success"}
  ELSE IF ~comp_elem_has_model(CompOf[d], m.elem, m.model)
  THEN {"invalid_model"}
  ELSE IF m.op # "sub_add" /\ ~HasAppKey(conf[d]) THEN {"invalid_appkey"}
  ELSE {"success"}

(* Mutant: a key the node has already is an error. *)
mesh_cfg_status_ok_strict(op, status) == status = "success"

mesh_cfg_status_ok(op, status) ==
  \/ status = "success"
  \/ status = "idx_already_stored" /\ op \in {"netkey_add", "appkey_add"}

(* Of the nodes beyond the bound, every message is lost. *)
Hears(d) ==
  conf[d] # {} \/ Cardinality({e \in Devices : conf[e] # {}}) < MaxNodes

answered(e) ==
  LET m == Message(steps[s], e)
  IN  /\ IsNext(e) /\ Hears(node)
      /\ \E status \in Statuses(node, m) :
           IF mesh_cfg_status_ok(m.op, status)
           THEN /\ addrs' = addrs \ {e}
                /\ conf' = [conf EXCEPT ![node] = Obeyed(@, m)]
                /\ UNCHANGED <<pc, search, call, s, err>>
           ELSE Return("EIO") /\ UNCHANGED conf
      /\ UNCHANGED <<rows, offered, s_comp_page, done>>

(* Mutant: the error is overwritten by the next element of the step. *)
message_lost_ignored(e) ==
  /\ IsNext(e)
  /\ addrs' = addrs \ {e}
  /\ UNCHANGED <<rows, offered, pc, search, call, s, s_comp_page, err, conf,
                 done>>

(* The message is lost, or the CDB has no key to send. *)
message_lost(e) == IsNext(e) /\ CallFailed

(* The node obeys and its answer is lost. *)
answer_lost(e) ==
  LET m == Message(steps[s], e)
  IN  /\ IsNext(e) /\ Hears(node)
      /\ "success" \in Statuses(node, m)
      /\ conf' = [conf EXCEPT ![node] = Obeyed(@, m)]
      /\ Return("failed")
      /\ UNCHANGED <<rows, offered, s_comp_page, done>>

(* Every step was acknowledged: the row that was looked up moves on, a latched
   recipe looks its row up now. *)
recipe_applied ==
  /\ pc = "step" /\ s > Len(steps)
  /\ IF latched
     THEN /\ pc' = "uuid_rows" /\ i' = 1 /\ best' = 0
          /\ UNCHANGED <<rows, offered, call, s, addrs, err, done>>
     ELSE /\ scenario_row_consume_recipe_id(best, recipe_id)
          /\ done' = [done EXCEPT ![node] = recipe_id]
          /\ Return("0")
  /\ UNCHANGED <<s_comp_page, conf>>

-----------------------------------------------------------------------------

FindRow ==
  \/ uuid_row
  \/ uuid_rows_done
  \/ name_row
  \/ name_rows_done
  \/ row_found
  \/ mesh_scenario_consume_recipe_id

ApplyRecipe ==
  \/ no_such_recipe
  \/ comp_data_fetch
  \/ fetch_failed
  \/ apply_step
  \/ step_done
  \/ \E e \in addrs : answered(e) \/ message_lost(e) \/ answer_lost(e)
  \/ recipe_applied

Next ==
  \/ \E d \in Devices : mesh_config_apply(d) \/ latched_recipe(d)
  \/ FindRow
  \/ ApplyRecipe

Spec == Init /\ [][Next]_vars

-----------------------------------------------------------------------------
(* What it promises                                                        *)

Locations == {"idle", "uuid_rows", "name_rows", "matched", "fetch", "step",
              "send"}

Messages ==
  [op : {"netkey_add", "appkey_add", "bind_app", "sub_add", "pub_set"},
   elem : Nat, model : Models \cup {"none"}, group : Groups \cup {"none"}]

RowsOK ==
  /\ rows \in Seq(Row)
  /\ \A r \in Indices : rows[r].recipe_idx \in DOMAIN rows[r].recipe_ids

TypeOK ==
  /\ RowsOK /\ offered \subseteq Recipes
  /\ pc \in Locations
  /\ node \in Devices \cup {None} /\ (pc # "idle" => node \in Devices)
  /\ latched \in BOOLEAN
  /\ i \in 1 .. Len(rows) + 1 /\ best \in 0 .. Len(rows)
  /\ recipe_id \in Recipes \cup {RECIPE_NONE}
  /\ (pc \in {"step", "send"} => recipe_id \in Recipes)
  /\ s \in Nat \ {0} /\ addrs \subseteq Nat
  /\ s_comp_page \in Seq(SUBSET Models)
  /\ err \in {"0", "ENOENT", "ENOMEM", "EINVAL", "EIO", "failed"}
  /\ conf \in [Devices -> SUBSET Messages]
  /\ done \in [Devices -> Recipes \cup {RECIPE_NONE}]

(* The row a recipe is taken from, or moved on, is the one with the longest
   prefix of the UUID, the first of several, or else the first with the name:
   the two loops over the table never settle for another. *)
RowIsBestMatch ==
  pc = "matched" \/ (pc \in {"fetch", "step", "send"} /\ ~latched)
    => IsRowOf(best, node, node_name)

(* A configured node was told every step of its recipe on every element the
   step is for, and publishes where that recipe says, whichever attempts and
   other recipes failed before and whichever answers were lost. *)
AppliedIsComplete ==
  \A d \in Devices : done[d] # RECIPE_NONE =>
    \A k \in DOMAIN RecipeSteps[done[d]] :
      LET step == RecipeSteps[done[d]][k]
      IN  \A e \in Targets(step, CompOf[d]) : Message(step, e) \in conf[d]

(* The recipe makes this node publish this before it binds the model. *)
PublishesFirst(r, d, f) ==
  \E k \in DOMAIN RecipeSteps[r] :
    LET step == RecipeSteps[r][k]
    IN  /\ step.op = "pub_set" /\ f = Message(step, f.elem)
        /\ f.elem \in Targets(step, CompOf[d])
        /\ \A j \in 1 .. k - 1 :
             ~(/\ RecipeSteps[r][j].op = "bind_app"
               /\ SameTargets(step, RecipeSteps[r][j]))

(* Whatever a configured node publishes, it is bound to the application key for,
   although each publication of the dimmer is set before its binding; unless it
   was left half given another recipe that publishes before it binds, one that
   a look-up returned, for this node or for another. *)
ConfiguredTalksWithKey ==
  \A d \in Devices : done[d] # RECIPE_NONE =>
    \A f \in conf[d] : f.op = "pub_set" =>
      \/ \E b \in conf[d] :
           b.op = "bind_app" /\ b.elem = f.elem /\ b.model = f.model
      \/ \E r \in offered \ {done[d]} : PublishesFirst(r, d, f)

(* A node refuses a message only because it lacks the model: a repeated call is
   not refused for what an earlier one has done already, nor for a key. *)
RefusedOnlyForItsModels ==
  [][err # "EIO" /\ err' = "EIO"
       => /\ steps[s].op \in {"bind_app", "sub_add", "pub_set"}
          /\ \E e \in addrs :
               IsNext(e)
               /\ ~comp_elem_has_model(CompOf[node], e, steps[s].model)]_vars

(* A row moves on only when a node it is the row of was given the very recipe
   the row was at. *)
RowMovesWithItsRecipe ==
  [][\A r \in Indices : rows'[r].recipe_idx # rows[r].recipe_idx =>
       /\ done'[node] = scenario_row_peek_recipe_id(r)
       /\ done[node] = RECIPE_NONE
       /\ IsRowOf(r, node, node_name)]_vars

(* "| 2 | 0 | Light Lightness Server (0x1300) | GRP_2 |": a configured node is
   subscribed to the groups of its recipe and to no other. *)
SubscribesAsItsRecipe ==
  \A d \in Devices : done[d] # RECIPE_NONE =>
    \A f \in conf[d] : f.op = "sub_add" =>
      \E k \in DOMAIN RecipeSteps[done[d]] :
        LET step == RecipeSteps[done[d]][k]
        IN  step.op = "sub_add" /\ step.model = f.model /\ step.group = f.group

-----------------------------------------------------------------------------
(* Refinement: a call has its row and its recipe from the start, though it finds
   them later, a latched one finds its row only when all is told, and the table
   is looked at again to move the row on. *)

RowFor(d, name) == CHOOSE r \in 0 .. Len(rows) : IsRowOf(r, d, name)

RowOfCall ==
  IF node = None THEN 0
  ELSE IF pc \in {"fetch", "step", "send"} /\ ~latched THEN best
  ELSE RowFor(node, node_name)

RecipeOfCall ==
  IF node = None \/ latched THEN recipe_id
  ELSE LET row == RowOfCall
       IN  IF row = 0 THEN RECIPE_NONE ELSE scenario_row_peek_recipe_id(row)

Configuration ==
  INSTANCE NodeConfiguration WITH
    NoRow <- 0, NoCall <- None, row <- RowOfCall, recipe_id <- RecipeOfCall,
    given <- done

(* The searches, steps and messages of a call, wherever it fails, show as one
   configuration that happens or does not. *)
ImplementsConfiguration == Configuration!Spec
=============================================================================
