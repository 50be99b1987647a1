------------------------- MODULE ProvisionerHistory -------------------------
(***************************************************************************)
(* The provisioner handler with a history of each device: the recipe it    *)
(* was last given in full.                                                 *)
(***************************************************************************)
EXTENDS ProvisionerHandler

VARIABLE applied   (* the recipe id the device was last fully given since it
                      joined                                               *)

HistoryInit == applied = [d \in Devices |-> RECIPE_NONE]

NodeJoins == adding = 0 /\ adding' # 0

(* Every step of a recipe was acknowledged by the node. *)
NodeDone == configure_node_done

HistoryNext ==
  applied' = IF NodeDone
             THEN [applied EXCEPT ![cdb[cursor].uuid] = job.recipe_id]
             ELSE IF NodeJoins THEN [applied EXCEPT ![link] = RECIPE_NONE]
             ELSE applied

HistorySpec ==
  Init /\ HistoryInit /\ [][Next /\ HistoryNext]_<<vars, applied>>

-----------------------------------------------------------------------------

(* A node marked as configured, in RAM or in flash, was given a whole recipe
   since it joined, also when a power failure lost its CDB entry and it joined
   again, perhaps at another address. *)
ConfiguredHasRecipe ==
  \A a \in Addrs \ {self_addr}, nodes \in {cdb, flash.cdb} :
    nodes[a].configured => applied[nodes[a].uuid] # RECIPE_NONE

-----------------------------------------------------------------------------
(* Refinement: the call of configure_node the thread waits for.  The handler and
   MeshNetCfg implement the same promises, so the one step in which the handler
   model has the configuration of a node succeed or fail stands for a call of
   MeshNetCfg. *)

Calls == pc = "apply" /\ cursor # self_addr

Table ==
  [row \in Rows |-> [recipe_ids |-> RecipesOf[row], recipe_idx |-> recipe_idx[row]]]

Configuration ==
  INSTANCE NodeConfiguration WITH
    NoCall <- None, given <- applied, rows <- Table,
    node <- IF Calls THEN cdb[cursor].uuid ELSE None,
    row <- IF Calls THEN job.row ELSE NoRow,
    recipe_id <- IF Calls THEN job.recipe_id ELSE RECIPE_NONE

(* While the thread waits for a configuration, requests, links that succeed,
   devices that join or are forgotten and lost power never change the row or
   the recipe it is about, nor make a row move. *)
ImplementsConfiguration == Configuration!Spec
=============================================================================
