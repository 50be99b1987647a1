----------------------------- MODULE MeshRecipes -----------------------------
(***************************************************************************)
(* The recipes (mesh_recipes.c) and the scenario (scenario_network1.c) of  *)
(* the provisioner as data, and the macros they are written with (mesh_    *)
(* config_types.h).  There is one network key and one application key, so  *)
(* a step names neither; TTL, period and retransmission are the same in    *)
(* every publication and are left out.                                     *)
(***************************************************************************)

(* A step: what to do, on which elements, to which model, with which group.
   elem_sel is "addr_off" (the element elem_param) or "all_with_mod" (every
   element whose composition has the model). *)
Step(op, elem_sel, elem_param, model, group) ==
  [op |-> op, elem_sel |-> elem_sel, elem_param |-> elem_param,
   model |-> model, group |-> group]

NETKEY_ADD == Step("netkey_add", "addr_off", 0, "none", "none")
APPKEY_ADD == Step("appkey_add", "addr_off", 0, "none", "none")

BIND(elem_off, model) == Step("bind_app", "addr_off", elem_off, model, "none")
SUB(elem_off, model, addr) == Step("sub_add", "addr_off", elem_off, model, addr)
PUB(elem_off, model, addr) == Step("pub_set", "addr_off", elem_off, model, addr)

BIND_ALL(model) == Step("bind_app", "all_with_mod", 0, model, "none")
SUB_ALL(model, addr) == Step("sub_add", "all_with_mod", 0, model, addr)
PUB_ALL(model, addr) == Step("pub_set", "all_with_mod", 0, model, addr)

-----------------------------------------------------------------------------

light_ctrl_steps(grp) ==
  << NETKEY_ADD, APPKEY_ADD,
     BIND(0, "light_lightness_srv"), SUB(0, "light_lightness_srv", grp),
     BIND(1, "light_lc_srv"),
     BIND(1, "gen_onoff_srv"), SUB(1, "gen_onoff_srv", grp) >>

light_sw_steps(grp) ==
  << NETKEY_ADD, APPKEY_ADD,
     BIND(0, "gen_onoff_cli"), PUB(0, "gen_onoff_cli", grp) >>

light_dimmer_steps(grp) ==
  << NETKEY_ADD, APPKEY_ADD,
     BIND(0, "gen_onoff_cli"), PUB(0, "gen_level_cli", grp),
     BIND(0, "gen_level_cli"), PUB(0, "scene_cli", grp),
     BIND(0, "scene_cli"), PUB(0, "gen_onoff_cli", grp) >>

enocean_bcast_steps ==
  << NETKEY_ADD, APPKEY_ADD,
     BIND(0, "gen_level_cli"), BIND(0, "gen_onoff_cli"),
     PUB(0, "gen_level_cli", "GRP_1"), PUB(0, "gen_onoff_cli", "GRP_1"),
     BIND(1, "gen_level_cli"), BIND(1, "gen_onoff_cli"),
     PUB(1, "gen_level_cli", "GRP_2"), PUB(1, "gen_onoff_cli", "GRP_2") >>

(* The registry, by recipe id; RECIPE_NONE has no steps and no entry. *)
mesh_recipes ==
  [RECIPE_LIGHT_CTRL_1 |-> light_ctrl_steps("GRP_1"),
   RECIPE_LIGHT_CTRL_2 |-> light_ctrl_steps("GRP_2"),
   RECIPE_DIMMER_1 |-> light_dimmer_steps("GRP_1"),
   RECIPE_DIMMER_2 |-> light_dimmer_steps("GRP_2"),
   RECIPE_LIGHT_SW_1 |-> light_sw_steps("GRP_1"),
   RECIPE_LIGHT_SW_2 |-> light_sw_steps("GRP_2"),
   RECIPE_ENOCEAN_BCAST |-> enocean_bcast_steps]

-----------------------------------------------------------------------------
(* Rows.  A row without rotation is one of a single recipe. *)

ScenarioRow(match_type, match, recipe_ids) ==
  [match_type |-> match_type, match |-> match, recipe_ids |-> recipe_ids,
   recipe_idx |-> 1]

NODE_PREFIX(uuid_hex, recipe_id) ==
  ScenarioRow("uuid", uuid_hex, <<recipe_id>>)
NODE_NAME(name, recipe_id) == ScenarioRow("name", name, <<recipe_id>>)
NODE_NAME_ROTATE(name, recipe_ids) == ScenarioRow("name", name, recipe_ids)

scenario_b1_corridor ==
  << NODE_NAME_ROTATE("Mesh Light Switch",
                      <<"RECIPE_LIGHT_SW_1", "RECIPE_LIGHT_SW_2">>),
     NODE_NAME_ROTATE("Mesh Light Fixture",
                      <<"RECIPE_LIGHT_CTRL_1", "RECIPE_LIGHT_CTRL_2">>),
     NODE_NAME("Mesh Silvair EnOcean", "RECIPE_ENOCEAN_BCAST") >>
=============================================================================
