------------------------ MODULE ProvisionerRequests ------------------------
(***************************************************************************)
(* What the repository says of the handler and its code does not do, with  *)
(* the history those statements need: the recipes of the requests for a    *)
(* device that the thread took.                                            *)
(***************************************************************************)
EXTENDS ProvisionerHistory

VARIABLE wanted   (* the recipe ids the requests for the device that were taken
                     carried                                               *)

RequestsInit == wanted = [d \in Devices |-> {}]

RequestTaken == sem_provision_request = 1 /\ sem_provision_request' = 0
                  /\ pc' # "off"

RequestsNext ==
  wanted' = IF RequestTaken
            THEN [wanted EXCEPT ![pending.uuid] = @ \cup {pending.recipe_id}]
            ELSE wanted

RequestsSpec ==
  /\ Init /\ HistoryInit /\ RequestsInit
  /\ [][Next /\ HistoryNext /\ RequestsNext]_<<vars, applied, wanted>>

FairRequestsSpec == RequestsSpec /\ Fairness

-----------------------------------------------------------------------------

(* "Queue provisioning for the given device UUID ... Returns 0, -EBUSY": what
   auto mode has queued is not replaced before the thread takes it, by a caller
   that comes later.  A call of the shell that is under way is left aside. *)
AcceptedIsKept ==
  [][sem_provision_request = 1 /\ sem_provision_request' = 1
       /\ pending.recipe_id # RECIPE_NONE /\ shell.at = "idle"
       => pending' = pending]_vars

(* "... and carry the selected recipe into post-provision configuration": a
   configured device, whose requests all selected a recipe, has the recipe one
   of them selected. *)
SelectedRecipeIsApplied ==
  \A a \in Addrs \ {self_addr} :
    cdb[a].configured /\ RECIPE_NONE \notin wanted[cdb[a].uuid]
      => applied[cdb[a].uuid] \in wanted[cdb[a].uuid]

BeingConfigured(a) == pc = "apply" /\ cursor = a

(* "After node_added, configure_node() either calls ...": a node that was added
   with a recipe is configured, or at least tried, unless the power fails. *)
AddedIsConfigured ==
  \A a \in Addrs :
    adding = a /\ prov_pending.recipe_id # RECIPE_NONE
      ~> BeingConfigured(a) \/ pc = "off"
=============================================================================
