---------------------------- MODULE MCMeshNetCfg ----------------------------
(* Values TLC needs to check MeshNetCfg: the shipped recipes and scenario, one
   recipe with the macros that address all elements with a model, and scenarios
   whose rows compete by prefix and by order. *)
EXTENDS MeshNetCfg

R == INSTANCE MeshRecipes

(* What the README's "Adding or changing recipes" offers and no shipped recipe
   uses: steps for every element with the model. *)
RECIPE_ALL ==
  << R!NETKEY_ADD, R!APPKEY_ADD, R!BIND_ALL("gen_level_cli"),
     R!PUB_ALL("gen_level_cli", "GRP_1") >>

MCRecipes ==
  [r \in DOMAIN R!mesh_recipes \cup {"RECIPE_ALL"} |->
     IF r = "RECIPE_ALL" THEN RECIPE_ALL ELSE R!mesh_recipes[r]]

MCModels ==
  {"light_lightness_srv", "light_lc_srv", "gen_onoff_srv", "gen_onoff_cli",
   "gen_level_cli", "scene_cli"}

MCNames ==
  {"Mesh Light Switch", "Mesh Light Fixture", "Mesh Silvair EnOcean"}

(* Two fixtures of one row; a dimmer with the name of a switch; the wrong device
   is a switch that said it has one element and has two. *)
MCDevices == {"fixture", "fixture2", "enocean", "dimmer", "wrong"}

(* Two of one row, and one that is never configured. *)
TwoFixtures == {"fixture", "fixture2", "wrong"}

Fixture == << {"light_lightness_srv"}, {"light_lc_srv", "gen_onoff_srv"} >>

Switch == << {"gen_onoff_cli"}, {"gen_onoff_cli"} >>

EnOcean ==
  << {"gen_level_cli", "gen_onoff_cli"}, {"gen_level_cli", "gen_onoff_cli"} >>

Dimmer == << {"gen_onoff_cli", "gen_level_cli", "scene_cli"} >>

Device(uuid, name, comp, num_elem) ==
  [uuid |-> uuid, name |-> name, comp |-> comp, num_elem |-> num_elem]

Described ==
  [fixture  |-> Device(<<10, 0, 0, 1>>, "Mesh Light Fixture", Fixture, 2),
   fixture2 |-> Device(<<10, 0, 0, 3>>, "Mesh Light Fixture", Fixture, 2),
   enocean  |-> Device(<<11, 0, 0, 2>>, "Mesh Silvair EnOcean", EnOcean, 2),
   dimmer   |-> Device(<<10, 0, 0, 2>>, "Mesh Light Switch", Dimmer, 1),
   wrong    |-> Device(<<11, 0, 0, 3>>, "Mesh Light Switch", Switch, 1)]

MCUuid == [d \in Devices |-> Described[d].uuid]
MCNameOf == [d \in Devices |-> Described[d].name]
MCCompOf == [d \in Devices |-> Described[d].comp]
MCNumElem == [d \in Devices |-> Described[d].num_elem]

(* Two rows with the prefix of the EnOcean switch, far from each other; a dimmer
   that first matches the shorter of two prefixes and has the name of a row as
   well. *)
Prefixes ==
  << R!NODE_PREFIX(<<11, 0, 0, 2>>, "RECIPE_LIGHT_SW_1"),
     R!NODE_NAME("Mesh Light Switch", "RECIPE_LIGHT_SW_2"),
     R!NODE_PREFIX(<<10, 0>>, "RECIPE_LIGHT_SW_1"),
     R!NODE_PREFIX(<<10, 0, 0, 2>>, "RECIPE_DIMMER_2"),
     R!NODE_PREFIX(<<11, 0, 0, 2>>, "RECIPE_LIGHT_SW_2") >>

(* Patterns that are odd or too long, a row somebody has yet to fill in, and two
   rows with one name. *)
Misfits ==
  << R!NODE_PREFIX(<<10>>, "RECIPE_LIGHT_SW_1"),
     R!NODE_PREFIX(<<10, 0, 0, 2, 0, 0>>, "RECIPE_LIGHT_SW_1"),
     R!NODE_PREFIX(<<10, 0, 0, 1>>, "RECIPE_NONE"),
     R!NODE_PREFIX(<<11, 0, 0, 2>>, "RECIPE_ALL"),
     R!NODE_NAME_ROTATE("Mesh Light Switch",
                        <<"RECIPE_DIMMER_1", "RECIPE_DIMMER_2">>),
     R!NODE_NAME("Mesh Light Switch", "RECIPE_LIGHT_SW_1") >>

MCScenarios == {R!scenario_b1_corridor, Prefixes, Misfits}
=============================================================================
