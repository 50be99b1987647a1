---------------------- MODULE ProvisionerHistoryProofs ----------------------
(***************************************************************************)
(* Proofs about what a configured node was given (ProvisionerHistory), for *)
(* every network and every power failure.  What makes it true is that a    *)
(* node of the stored CDB is the same device in RAM, so a device that      *)
(* joins again is not one that flash still calls configured.               *)
(***************************************************************************)
EXTENDS ProvisionerHistory, ProvisionerHandlerProofs

OtherAddrs == Addrs \ {self_addr}

(* A node other than the provisioner's own is a device. *)
NodesAreDevices(nodes) ==
  \A a \in OtherAddrs : nodes[a] # NoNode => nodes[a].uuid \in Devices

(* One that is configured was given a recipe. *)
HaveRecipes(nodes) ==
  \A a \in OtherAddrs :
    nodes[a].configured => applied[nodes[a].uuid] # RECIPE_NONE

(* RAM has every stored node, as the same device. *)
StoredIsKnown ==
  pc # "off" =>
    \A a \in Addrs :
      flash.cdb[a] # NoNode => cdb[a].uuid = flash.cdb[a].uuid

(* The thread applies a recipe to a node other than its own. *)
JobHasRecipe ==
  pc = "apply" /\ cursor # self_addr => job.recipe_id # RECIPE_NONE

HInv ==
  /\ applied \in [Devices -> RecipeIds]
  /\ NodesAreDevices(cdb) /\ NodesAreDevices(flash.cdb)
  /\ HaveRecipes(cdb) /\ HaveRecipes(flash.cdb)
  /\ StoredIsKnown /\ JobHasRecipe

-----------------------------------------------------------------------------

(* The history only ever gains a recipe, but for the device that joins. *)
LEMMA HistoryStep ==
  ASSUME IInv, HInv, HistoryNext
  PROVE  /\ applied' \in [Devices -> RecipeIds]
         /\ \A d \in Devices :
              applied[d] # RECIPE_NONE /\ ~(NodeJoins /\ d = link)
                => applied'[d] # RECIPE_NONE
         /\ NodeDone => applied'[cdb[cursor].uuid] # RECIPE_NONE
<1>1. CASE NodeDone
  <2>1. /\ pc = "apply" /\ cursor # self_addr
        /\ applied' = [applied EXCEPT ![cdb[cursor].uuid] = job.recipe_id]
    BY <1>1 DEF HistoryNext, NodeDone, configure_node_done
  <2>2. cursor \in OtherAddrs /\ cdb[cursor] # NoNode
    BY <2>1 DEF IInv, Course, NodeInHand, OtherAddrs
  <2>3. cdb[cursor].uuid \in Devices
    BY <2>2 DEF HInv, NodesAreDevices
  <2>4. job.recipe_id # RECIPE_NONE /\ job.recipe_id \in RecipeIds
    BY <2>1 DEF HInv, JobHasRecipe, IInv, TypeOK
  <2> QED BY <2>1, <2>3, <2>4 DEF HInv
<1>2. CASE ~NodeDone /\ NodeJoins
  <2>1. applied' = [applied EXCEPT ![link] = RECIPE_NONE]
    BY <1>2 DEF HistoryNext
  <2> QED BY <1>2, <2>1 DEF HInv, RecipeIds
<1>3. CASE ~NodeDone /\ ~NodeJoins
  BY <1>3 DEF HistoryNext, HInv
<1> QED BY <1>1, <1>2, <1>3

(* A step that changes no node, in RAM or in flash. *)
LEMMA HistoryFrame ==
  ASSUME IInv, HInv, HistoryNext \/ UNCHANGED applied, ~NodeJoins,
         cdb' = cdb, flash.cdb' = flash.cdb, pc = "off" <=> pc' = "off",
         JobHasRecipe'
  PROVE  HInv'
<1>1. /\ applied' \in [Devices -> RecipeIds]
      /\ \A d \in Devices : applied[d] # RECIPE_NONE => applied'[d] # RECIPE_NONE
  BY HistoryStep DEF HInv
<1>2. \A a \in OtherAddrs :
        /\ cdb[a].configured => cdb[a].uuid \in Devices
        /\ flash.cdb[a].configured => flash.cdb[a].uuid \in Devices
  BY DEF HInv, NodesAreDevices, NoNode
<1>3. HaveRecipes(cdb)' /\ HaveRecipes(flash.cdb)'
  BY <1>1, <1>2 DEF HInv, HaveRecipes
<1> QED BY <1>1, <1>3 DEF HInv, NodesAreDevices, StoredIsKnown

-----------------------------------------------------------------------------
(* The steps                                                               *)

LEMMA BootHistory ==
  ASSUME IInv, HInv, HistoryNext, Boot
  PROVE  HInv'
<1>1. ~NodeJoins
  BY DEF Boot, provisioner_network_setup, provisioner_resume_pending_config,
    resume_saved, thread_start, NodeJoins, stack, callback, callers, settings
<1>2. CASE provisioner_network_setup
  <2>1. /\ pc = "off" /\ pc' = "resume" /\ flash' = flash
        /\ cdb' = IF flash.cdb[self_addr] = NoNode
                  THEN [flash.cdb EXCEPT ![self_addr].uuid = dev_uuid]
                  ELSE flash.cdb
        /\ flash.cdb \in [Addrs -> CdbNode]
    BY <1>2 DEF provisioner_network_setup, IInv, TypeOK, settings
  <2>2. /\ \A a \in OtherAddrs : cdb'[a] = flash.cdb[a]
        /\ flash.cdb[self_addr] # NoNode => cdb' = flash.cdb
    BY <2>1 DEF OtherAddrs
  <2>3. \A a \in Addrs : flash.cdb[a] # NoNode => cdb'[a] = flash.cdb[a]
    BY <2>1, <2>2 DEF OtherAddrs
  <2>4. /\ applied' \in [Devices -> RecipeIds]
        /\ \A d \in Devices : applied[d] # RECIPE_NONE => applied'[d] # RECIPE_NONE
    BY <1>1, HistoryStep
  <2>5. \A a \in OtherAddrs :
          flash.cdb[a].configured => flash.cdb[a].uuid \in Devices
    BY DEF HInv, NodesAreDevices, NoNode
  <2>6. HaveRecipes(cdb)' /\ HaveRecipes(flash.cdb)'
    BY <2>1, <2>2, <2>4, <2>5 DEF HInv, HaveRecipes
  <2>7. NodesAreDevices(cdb)' /\ NodesAreDevices(flash.cdb)'
    BY <2>1, <2>2 DEF HInv, NodesAreDevices
  <2> QED BY <2>1, <2>3, <2>4, <2>6, <2>7 DEF HInv, StoredIsKnown, JobHasRecipe
<1>3. CASE provisioner_resume_pending_config
  <2>1. /\ UNCHANGED <<cdb, flash>> /\ pc # "off" /\ pc' # "off"
        /\ JobHasRecipe'
    BY <1>3 DEF provisioner_resume_pending_config, configure_node, stack,
      JobHasRecipe, callers, settings
  <2> QED BY <1>1, <2>1, HistoryFrame
<1>4. CASE resume_saved \/ thread_start
  <2>1. /\ cdb' = cdb /\ flash.cdb' = flash.cdb /\ pc # "off" /\ pc' # "off"
        /\ JobHasRecipe'
    BY <1>4 DEF resume_saved, thread_start, loop_top, prov_pending_save_ends,
      stack, JobHasRecipe, IInv, TypeOK, callers, settings
  <2> QED BY <1>1, <2>1, HistoryFrame
<1> QED BY <1>2, <1>3, <1>4 DEF Boot

LEMMA ThreadHistory ==
  ASSUME IInv, HInv, HistoryNext, Thread
  PROVE  HInv'
<1>1. adding' = adding /\ cdb' = cdb
  BY DEF Thread, check_unconfigured_skip, check_unconfigured,
    configure_node_saved, foreach_done, provision_adv, provision_adv_failed,
    node_added_taken, node_added_timeout, stack, callers, settings
<1>2. ~NodeJoins
  BY <1>1 DEF NodeJoins
<1>3. flash.cdb' = flash.cdb
  BY DEF Thread, check_unconfigured_skip, check_unconfigured,
    configure_node_saved, foreach_done, provision_adv, provision_adv_failed,
    node_added_taken, node_added_timeout, prov_pending_save_ends, IInv, TypeOK,
    callers, settings
<1>4. pc # "off" /\ pc' # "off"
  BY DEF Thread, check_unconfigured_skip, check_unconfigured, configure_node,
    configure_node_saved, return, foreach_done, latch, provision_adv,
    provision_adv_failed, node_added_taken, node_added_timeout, loop_top,
    callers, settings
<1>5. JobHasRecipe'
  BY DEF Thread, check_unconfigured_skip, check_unconfigured, configure_node,
    configure_node_saved, return, foreach_done, provision_adv,
    provision_adv_failed, node_added_taken, node_added_timeout, loop_top,
    JobHasRecipe, callers, settings
<1> QED BY <1>1, <1>2, <1>3, <1>4, <1>5, HistoryFrame

LEMMA AnswerHistory ==
  ASSUME IInv, HInv, HistoryNext, Answer
  PROVE  HInv'
<1>1. /\ adding' = adding /\ flash' = flash /\ pc = "apply"
      /\ pc' \in {"start", "foreach", "save"}
  BY DEF Answer, apply_failed, configure_self_done, configure_node_done,
    return, stack, callers, settings
<1>2. ~NodeJoins
  BY <1>1 DEF NodeJoins
<1>3. CASE cdb' = cdb
  BY <1>1, <1>2, <1>3, HistoryFrame DEF JobHasRecipe
<1>4. CASE Configured /\ (cursor = self_addr \/ NodeDone)
  <2>1. /\ cursor \in Addrs /\ cdb \in [Addrs -> CdbNode] /\ cdb[cursor] # NoNode
    BY <1>1 DEF IInv, TypeOK, Course, NodeInHand
  <2>2. /\ \A a \in Addrs : a # cursor => cdb'[a] = cdb[a]
        /\ cdb'[cursor].uuid = cdb[cursor].uuid
        /\ \A a \in Addrs : cdb'[a].uuid = cdb[a].uuid
    BY <1>4, <2>1 DEF Configured, CdbNode
  <2>3. /\ applied' \in [Devices -> RecipeIds]
        /\ \A d \in Devices : applied[d] # RECIPE_NONE => applied'[d] # RECIPE_NONE
        /\ NodeDone => applied'[cdb[cursor].uuid] # RECIPE_NONE
    BY <1>2, HistoryStep
  <2>4. \A a \in OtherAddrs :
          /\ cdb[a].configured => cdb[a].uuid \in Devices
          /\ flash.cdb[a].configured => flash.cdb[a].uuid \in Devices
    BY DEF HInv, NodesAreDevices, NoNode
  <2>5. HaveRecipes(cdb)' /\ HaveRecipes(flash.cdb)'
    BY <1>1, <1>4, <2>2, <2>3, <2>4 DEF HInv, HaveRecipes, OtherAddrs
  <2>6. NodesAreDevices(cdb)' /\ NodesAreDevices(flash.cdb)'
    BY <1>1, <2>1, <2>2 DEF HInv, NodesAreDevices, OtherAddrs
  <2>7. StoredIsKnown' /\ JobHasRecipe'
    BY <1>1, <2>2 DEF HInv, StoredIsKnown, JobHasRecipe
  <2> QED BY <2>3, <2>5, <2>6, <2>7 DEF HInv
<1> QED BY <1>3, <1>4 DEF Answer, apply_failed, configure_self_done,
  configure_node_done, NodeDone, stack, callers, settings

(* A device joins at an address that is free in flash too, and no node, in RAM
   or in flash, is that device. *)
LEMMA JoinHistory ==
  ASSUME IInv, HInv, HistoryNext, NEW a \in Addrs, node_added(a)
  PROVE  HInv'
<1>1. /\ link \in Devices /\ link \notin InCdb /\ cdb[a] = NoNode
      /\ cdb' = [cdb EXCEPT ![a].uuid = link] /\ cdb \in [Addrs -> CdbNode]
      /\ UNCHANGED <<pc, cursor, job, flash>> /\ pc # "off"
  BY DEF node_added, FreeAddrs, thread, IInv, TypeOK, Course, BootFirst,
    callers, settings
<1>2. a \in OtherAddrs
  BY <1>1 DEF OtherAddrs, IInv, Course, SelfIsNode
<1>3. flash.cdb[a] = NoNode
  <2>1. SUFFICES ASSUME flash.cdb[a] # NoNode
                 PROVE  FALSE
    OBVIOUS
  <2>2. flash.cdb[a].uuid \in Devices
    BY <1>2, <2>1 DEF HInv, NodesAreDevices
  <2>3. cdb[a].uuid = flash.cdb[a].uuid
    BY <1>1, <2>1 DEF HInv, StoredIsKnown
  <2>4. cdb[a].uuid = None /\ None \notin Devices
    BY <1>1, SentinelAssumption DEF NoNode
  <2> QED BY <2>2, <2>3, <2>4
<1>4. /\ \A b \in Addrs : b # a => cdb'[b] = cdb[b]
      /\ cdb'[a].uuid = link /\ ~cdb'[a].configured
  BY <1>1 DEF NoNode, CdbNode
<1>5. \A b \in OtherAddrs :
        /\ cdb[b].configured => cdb[b].uuid \in Devices /\ cdb[b].uuid # link
        /\ flash.cdb[b].configured =>
             flash.cdb[b].uuid \in Devices /\ flash.cdb[b].uuid # link
  BY <1>1 DEF HInv, NodesAreDevices, StoredIsKnown, NoNode, InCdb, OtherAddrs
<1>6. /\ applied' \in [Devices -> RecipeIds]
      /\ \A d \in Devices \ {link} :
           applied[d] # RECIPE_NONE => applied'[d] # RECIPE_NONE
  BY HistoryStep
<1>7. HaveRecipes(cdb)' /\ HaveRecipes(flash.cdb)'
  BY <1>1, <1>4, <1>5, <1>6 DEF HInv, HaveRecipes, OtherAddrs
<1>8. NodesAreDevices(cdb)' /\ NodesAreDevices(flash.cdb)'
  BY <1>1, <1>4 DEF HInv, NodesAreDevices, OtherAddrs
<1>9. StoredIsKnown' /\ JobHasRecipe'
  BY <1>1, <1>3, <1>4 DEF HInv, StoredIsKnown, JobHasRecipe
<1> QED BY <1>6, <1>7, <1>8, <1>9 DEF HInv

LEMMA StoreHistory ==
  ASSUME IInv, HInv, HistoryNext, NEW a \in Addrs, cdb_stored(a)
  PROVE  HInv'
<1>1. /\ flash' = [flash EXCEPT !.cdb[a] = cdb[a]] /\ pc # "off"
      /\ UNCHANGED <<pc, cursor, job, cdb, adding>>
  BY DEF cdb_stored, thread, stack, callers, settings
<1>2. /\ flash.cdb'[a] = cdb[a]
      /\ \A b \in Addrs : b # a => flash.cdb'[b] = flash.cdb[b]
  BY <1>1 DEF IInv, TypeOK
<1>3. ~NodeJoins
  BY <1>1 DEF NodeJoins
<1>4. /\ applied' \in [Devices -> RecipeIds]
      /\ \A d \in Devices : applied[d] # RECIPE_NONE => applied'[d] # RECIPE_NONE
  BY <1>3, HistoryStep
<1>5. \A b \in OtherAddrs :
        /\ cdb[b].configured => cdb[b].uuid \in Devices
        /\ flash.cdb[b].configured => flash.cdb[b].uuid \in Devices
  BY DEF HInv, NodesAreDevices, NoNode
<1>6. HaveRecipes(cdb)' /\ HaveRecipes(flash.cdb)'
  BY <1>1, <1>2, <1>4, <1>5 DEF HInv, HaveRecipes, OtherAddrs
<1>7. NodesAreDevices(cdb)' /\ NodesAreDevices(flash.cdb)'
  BY <1>1, <1>2 DEF HInv, NodesAreDevices, OtherAddrs
<1>8. StoredIsKnown' /\ JobHasRecipe'
  BY <1>1, <1>2 DEF HInv, StoredIsKnown, JobHasRecipe
<1> QED BY <1>4, <1>6, <1>7, <1>8 DEF HInv

LEMMA PowerHistory ==
  ASSUME IInv, HInv, HistoryNext, power_failed
  PROVE  HInv'
<1>1. /\ flash' = flash /\ cdb' = [a \in Addrs |-> NoNode] /\ pc' = "off"
      /\ adding' = 0
  BY DEF power_failed
<1>2. ~NodeJoins
  BY <1>1 DEF NodeJoins
<1>3. /\ applied' \in [Devices -> RecipeIds]
      /\ \A d \in Devices : applied[d] # RECIPE_NONE => applied'[d] # RECIPE_NONE
  BY <1>2, HistoryStep
<1>4. \A b \in OtherAddrs :
        flash.cdb[b].configured => flash.cdb[b].uuid \in Devices
  BY DEF HInv, NodesAreDevices, NoNode
<1>5. HaveRecipes(cdb)' /\ HaveRecipes(flash.cdb)'
  BY <1>1, <1>3, <1>4 DEF HInv, HaveRecipes, OtherAddrs, NoNode
<1>6. NodesAreDevices(cdb)' /\ NodesAreDevices(flash.cdb)'
  BY <1>1 DEF HInv, NodesAreDevices, OtherAddrs
<1> QED BY <1>1, <1>3, <1>5, <1>6 DEF HInv, StoredIsKnown, JobHasRecipe

(* Requests, links, names and the write of the callback change no node. *)
LEMMA OtherHistory ==
  ASSUME IInv, HInv, HistoryNext,
         \/ ShellStep \/ auto_request_resumes \/ node_added_saved
         \/ link_failed
         \/ \E d \in Devices : \/ auto_request(d) \/ auto_request_waits(d)
                               \/ shell_claim(d)
                               \/ name_heard(d) \/ name_evicted(d)
  PROVE  HInv'
<1>1. /\ UNCHANGED <<pc, cursor, job, cdb>> /\ adding' \in {0, adding}
      /\ flash.cdb' = flash.cdb
  BY DEF ShellStep, shell_write_uuid, shell_write_recipe, shell_give, Shell,
    auto_request_resumes, node_added_saved, prov_pending_save_ends,
      link_failed, auto_request,
    auto_request_waits, shell_claim, name_heard, name_evicted, thread, stack,
    IInv, TypeOK, callers, settings
<1>2. ~NodeJoins
  BY <1>1 DEF NodeJoins
<1>3. JobHasRecipe'
  BY <1>1 DEF HInv, JobHasRecipe
<1> QED BY <1>1, <1>2, <1>3, HistoryFrame

-----------------------------------------------------------------------------

LEMMA InitHInv == Init /\ HistoryInit => HInv
BY DEF Init, HistoryInit, HInv, NodesAreDevices, HaveRecipes, OtherAddrs,
  NoNode, StoredIsKnown, JobHasRecipe, RecipeIds

LEMMA NextHInv ==
  ASSUME IInv, HInv, [Next /\ HistoryNext]_<<vars, applied>>
  PROVE  HInv'
<1>1. CASE UNCHANGED <<vars, applied>>
  <2>1. UNCHANGED <<cdb, flash, pc, cursor, job, adding>>
    BY <1>1 DEF vars, thread, stack, callers, settings
  <2>2. ~NodeJoins /\ JobHasRecipe'
    BY <2>1 DEF NodeJoins, HInv, JobHasRecipe
  <2> QED BY <1>1, <2>1, <2>2, HistoryFrame
<1>2. CASE Next /\ HistoryNext
  <2>1. CASE Environment
    BY <1>2, <2>1, JoinHistory, StoreHistory, PowerHistory, OtherHistory
       DEF Environment
  <2> QED BY <1>2, <2>1, BootHistory, ThreadHistory, AnswerHistory, OtherHistory
          DEF Next
<1> QED BY <1>1, <1>2

LEMMA HistoryInvariance == HistorySpec => [](IInv /\ HInv)
<1>1. IInv /\ HInv /\ [Next /\ HistoryNext]_<<vars, applied>> => HInv' /\ IInv'
  <2> SUFFICES ASSUME IInv, HInv, [Next /\ HistoryNext]_<<vars, applied>>
               PROVE  HInv' /\ IInv'
    OBVIOUS
  <2>1. [Next]_vars
    OBVIOUS
  <2> QED BY <2>1, NextHInv, NextIInv
<1>2. Init /\ HistoryInit => HInv /\ IInv
  BY InitHInv, InitIInv
<1> QED BY <1>1, <1>2, PTL DEF HistorySpec

(* A node that is marked as configured was given a whole recipe since it
   joined, whatever power failures lost of the CDB and of the record. *)
THEOREM ConfiguredNodesHaveRecipes == HistorySpec => []ConfiguredHasRecipe
<1>1. HInv => ConfiguredHasRecipe
  BY DEF HInv, HaveRecipes, OtherAddrs, ConfiguredHasRecipe
<1> QED BY <1>1, HistoryInvariance, PTL

-----------------------------------------------------------------------------
(* The configuration the thread waits for                                  *)

(* The node in hand is a device, of the CDB, and has a recipe. *)
CallIsOfNode ==
  Calls => /\ cdb[cursor].uuid \in Devices \cap InCdb
           /\ job.row \in Rows \cup {NoRow} /\ job.recipe_id \in Recipes

LEMMA CallOfNode == IInv /\ HInv => CallIsOfNode
<1> SUFFICES ASSUME IInv, HInv, Calls
             PROVE  /\ cdb[cursor].uuid \in Devices \cap InCdb
                    /\ job.row \in Rows \cup {NoRow} /\ job.recipe_id \in Recipes
  BY DEF CallIsOfNode
<1>1. cursor \in OtherAddrs /\ cdb[cursor] # NoNode
  BY DEF Calls, IInv, Course, NodeInHand, OtherAddrs
<1>2. cdb[cursor].uuid \in Devices \cap InCdb
  BY <1>1 DEF HInv, NodesAreDevices, InCdb, OtherAddrs
<1>3. job.row \in Rows \cup {NoRow} /\ job.recipe_id \in RecipeIds
  BY DEF IInv, TypeOK
<1> QED BY <1>2, <1>3 DEF HInv, JobHasRecipe, Calls, RecipeIds

LEMMA NextCallOfNode == IInv' /\ HInv' => CallIsOfNode'
BY CallOfNode, PTL

(* A step that leaves the rows and the call alone. *)
LEMMA NoConfiguration ==
  ASSUME HistoryNext \/ UNCHANGED applied, ~NodeDone, ~NodeJoins,
         recipe_idx' = recipe_idx,
         \/ UNCHANGED <<pc, cursor, job, cdb>>
         \/ ~Calls /\ ~Calls'
  PROVE  UNCHANGED Configuration!state
<1>1. applied' = applied
  BY DEF HistoryNext
<1>2. Table' = Table
  BY DEF Table
<1>3. CASE ~Calls /\ ~Calls'
  BY <1>1, <1>2, <1>3 DEF Configuration!state, Configuration!call
<1>4. CASE UNCHANGED <<pc, cursor, job, cdb>>
  <2>1. Calls' <=> Calls
    BY <1>4 DEF Calls
  <2> QED BY <1>1, <1>2, <1>4, <2>1 DEF Configuration!state, Configuration!call
<1> QED BY <1>3, <1>4

(* The thread takes hold of a node. *)
LEMMA CallBegins ==
  ASSUME IInv, HInv, IInv', HInv', HistoryNext, ~NodeDone, ~NodeJoins,
         recipe_idx' = recipe_idx, pc # "apply"
  PROVE  Configuration!Begin \/ UNCHANGED Configuration!state
<1>1. ~Calls
  BY DEF Calls
<1>2. CASE ~Calls'
  BY <1>1, <1>2, NoConfiguration
<1>3. CASE Calls'
  <2>1. /\ (cdb[cursor].uuid)' \in Devices
        /\ job'.row \in Rows \cup {NoRow} /\ job'.recipe_id \in Recipes
    BY <1>3, NextCallOfNode DEF CallIsOfNode
  <2>2. Table' = Table /\ DOMAIN Table = Rows
    BY DEF Table
  <2>3. applied' = applied
    BY DEF HistoryNext
  <2> QED BY <1>1, <1>3, <2>1, <2>2, <2>3 DEF Configuration!Begin
<1> QED BY <1>2, <1>3

LEMMA CallFails ==
  ASSUME IInv, HInv, HistoryNext, apply_failed
  PROVE  Configuration!End \/ UNCHANGED Configuration!state
<1>1. /\ pc = "apply" /\ pc' # "apply" /\ adding' = adding
      /\ recipe_idx' = recipe_idx /\ cdb' = cdb
  BY DEF apply_failed, return, choice, stack, callers, settings
<1>2. ~NodeDone /\ ~NodeJoins
  <2>1. ~NodeJoins
    BY <1>1 DEF NodeJoins
  <2>2. CASE NodeDone
    <3>1. cursor \in Addrs /\ ~cdb[cursor].configured /\ cdb \in [Addrs -> CdbNode]
      BY <1>1 DEF IInv, TypeOK, Course, NodeInHand
    <3>2. cdb'[cursor].configured
      BY <2>2, <3>1 DEF NodeDone, configure_node_done, Configured, CdbNode
    <3> QED BY <1>1, <3>1, <3>2
  <2> QED BY <2>1, <2>2
<1>3. ~Calls'
  BY <1>1 DEF Calls
<1>4. applied' = applied /\ Table' = Table
  BY <1>1, <1>2 DEF HistoryNext, Table
<1>5. CASE Calls
  <2>1. cdb[cursor].uuid # None
    BY <1>5, CallOfNode, SentinelAssumption DEF CallIsOfNode
  <2> QED BY <1>3, <1>4, <1>5, <2>1 DEF Configuration!End, Configuration!Fail,
            Configuration!NoMoreCall, Configuration!call
<1>6. CASE ~Calls
  BY <1>1, <1>2, <1>3, <1>6, NoConfiguration
<1> QED BY <1>5, <1>6

LEMMA CallSucceeds ==
  ASSUME IInv, HInv, HistoryNext, configure_node_done
  PROVE  Configuration!End
<1>1. /\ Calls /\ ~Calls'
      /\ scenario_row_consume_recipe_id(job.row, job.recipe_id)
  BY DEF configure_node_done, Calls, return
<1>2. /\ cdb[cursor].uuid \in Devices
      /\ job.row \in Rows \cup {NoRow} /\ job.recipe_id \in Recipes
  BY <1>1, CallOfNode DEF CallIsOfNode
<1>3. applied' = [applied EXCEPT ![cdb[cursor].uuid] = job.recipe_id]
  BY DEF HistoryNext, NodeDone
<1>4. Table' = IF job.row # NoRow /\ Configuration!At(job.row) = job.recipe_id
               THEN Configuration!MoveOn(job.row) ELSE Table
  <2>1. job.row # NoRow =>
          Configuration!At(job.row) = scenario_row_peek_recipe_id(job.row)
    BY <1>2 DEF Configuration!At, Table, scenario_row_peek_recipe_id
  <2>2. CASE job.row # NoRow /\ Configuration!At(job.row) = job.recipe_id
    <3>1. recipe_idx' = [recipe_idx EXCEPT ![job.row] =
                           (@ % Len(RecipesOf[job.row])) + 1]
      BY <1>1, <2>1, <2>2 DEF scenario_row_consume_recipe_id
    <3>2. recipe_idx \in [Rows -> Nat] /\ job.row \in Rows
      BY <1>2, <2>2 DEF IInv, TypeOK
    <3>3. Table' = Configuration!MoveOn(job.row)
      BY <3>1, <3>2 DEF Table, Configuration!MoveOn
    <3> QED BY <2>2, <3>3
  <2>3. CASE ~(job.row # NoRow /\ Configuration!At(job.row) = job.recipe_id)
    <3>1. recipe_idx' = recipe_idx
      BY <1>1, <2>1, <2>3 DEF scenario_row_consume_recipe_id
    <3> QED BY <2>3, <3>1 DEF Table
  <2> QED BY <2>2, <2>3
<1>5. Configuration!Succeed
  BY <1>1, <1>2, <1>3, <1>4 DEF Configuration!Succeed
<1>6. cdb[cursor].uuid # None
  BY <1>2, SentinelAssumption
<1> QED BY <1>1, <1>5, <1>6 DEF Configuration!End, Configuration!NoMoreCall,
          Configuration!call

(* A device that was configured before may join again, at another address; the
   node in hand is of the CDB, so it is not that one. *)
LEMMA DeviceJoinsAgain ==
  ASSUME IInv, HInv, HistoryNext, NEW a \in Addrs, node_added(a)
  PROVE  \/ \E d \in Devices : Configuration!JoinAgain(d)
         \/ UNCHANGED Configuration!state
<1>1. /\ link \in Devices /\ link \notin InCdb /\ cdb[a] = NoNode
      /\ cdb' = [cdb EXCEPT ![a].uuid = link] /\ cdb \in [Addrs -> CdbNode]
      /\ UNCHANGED <<pc, cursor, job, recipe_idx>> /\ a \in Addrs
      /\ adding = 0 /\ adding' = a /\ a # 0
  BY MaxNodesAssumption DEF node_added, FreeAddrs, thread, choice, IInv,
    TypeOK, Addrs, self_addr, callers, settings
<1>2. NodeJoins /\ ~NodeDone
  <2>1. NodeJoins
    BY <1>1 DEF NodeJoins
  <2>2. ~NodeDone
    BY <1>1 DEF NodeDone, configure_node_done, stack, callers, settings
  <2> QED BY <2>1, <2>2
<1>3. applied' = [applied EXCEPT ![link] = RECIPE_NONE]
  BY <1>2 DEF HistoryNext
<1>4. Table' = Table /\ (Calls' <=> Calls)
  BY <1>1 DEF Table, Calls
<1>5. Calls => cdb'[cursor] = cdb[cursor] /\ cdb[cursor].uuid # link
  <2> SUFFICES ASSUME Calls
               PROVE  cdb'[cursor] = cdb[cursor] /\ cdb[cursor].uuid # link
    OBVIOUS
  <2>1. cursor \in Addrs /\ cdb[cursor] # NoNode
    BY DEF Calls, IInv, Course, NodeInHand
  <2> QED BY <1>1, <2>1 DEF InCdb
<1>6. UNCHANGED Configuration!call
  <2>1. CASE Calls
    <3>1. cursor' = cursor /\ job' = job
      BY <1>1
    <3>2. cdb'[cursor'].uuid = cdb[cursor].uuid
      BY <1>5, <2>1, <3>1
    <3> QED BY <1>4, <2>1, <3>1, <3>2 DEF Configuration!call
  <2>2. CASE ~Calls
    BY <1>4, <2>2 DEF Configuration!call
  <2> QED BY <2>1, <2>2
<1>7. CASE applied[link] # RECIPE_NONE
  <2>1. (IF Calls THEN cdb[cursor].uuid ELSE None) # link
    BY <1>1, <1>5, SentinelAssumption
  <2>2. Configuration!JoinAgain(link)
    BY <1>3, <1>4, <1>6, <1>7, <2>1 DEF Configuration!JoinAgain
  <2> QED BY <1>1, <2>2
<1>8. CASE applied[link] = RECIPE_NONE
  <2>1. applied' = applied
    BY <1>1, <1>3, <1>8 DEF HInv
  <2> QED BY <1>4, <1>6, <2>1 DEF Configuration!state
<1> QED BY <1>7, <1>8

LEMMA PowerRestarts ==
  ASSUME HistoryNext, power_failed
  PROVE  Configuration!Restart
<1>1. /\ pc' = "off" /\ adding' = 0 /\ recipe_idx' = [row \in Rows |-> 1]
  BY DEF power_failed
<1>2. ~NodeDone /\ ~NodeJoins
  BY <1>1 DEF NodeDone, configure_node_done, return, NodeJoins
<1>3. applied' = applied /\ ~Calls'
  BY <1>1, <1>2 DEF HistoryNext, Calls
<1>4. Table' = [row \in DOMAIN Table |-> [Table[row] EXCEPT !.recipe_idx = 1]]
  BY <1>1 DEF Table
<1> QED BY <1>3, <1>4 DEF Configuration!Restart, Configuration!NoMoreCall,
          Configuration!call

LEMMA StepConfigures ==
  ASSUME IInv, HInv, IInv', HInv', [Next /\ HistoryNext]_<<vars, applied>>
  PROVE  [Configuration!Next]_(Configuration!state)
<1>1. CASE UNCHANGED <<vars, applied>>
  <2>1. UNCHANGED <<pc, cursor, job, cdb, recipe_idx, applied>>
    BY <1>1 DEF vars, thread, choice, stack, callers, settings
  <2>2. Table' = Table /\ (Calls' <=> Calls)
    BY <2>1 DEF Table, Calls
  <2> QED BY <2>1, <2>2 DEF Configuration!state, Configuration!call
<1>2. CASE HistoryNext /\ Boot
  <2>1. /\ pc # "apply" /\ recipe_idx' = recipe_idx /\ adding' = adding
    BY <1>2 DEF Boot, provisioner_network_setup, stack, choice,
      provisioner_resume_pending_config, resume_saved, thread_start, callers,
      settings
  <2>2. ~NodeDone /\ ~NodeJoins
    BY <2>1 DEF NodeDone, configure_node_done, NodeJoins
  <2> QED BY <1>2, <2>1, <2>2, CallBegins DEF Configuration!Next
<1>3. CASE HistoryNext /\ Thread
  <2>1. /\ pc # "apply" /\ recipe_idx' = recipe_idx /\ adding' = adding
    BY <1>3 DEF Thread, check_unconfigured_skip, check_unconfigured,
      configure_node_saved, foreach_done, latch, provision_adv,
      provision_adv_failed, node_added_taken, node_added_timeout, stack,
      choice, callers, settings
  <2>2. ~NodeDone /\ ~NodeJoins
    BY <2>1 DEF NodeDone, configure_node_done, NodeJoins
  <2> QED BY <1>3, <2>1, <2>2, CallBegins DEF Configuration!Next
<1>4. CASE HistoryNext /\ configure_self_done
  <2>1. /\ ~Calls /\ ~Calls' /\ recipe_idx' = recipe_idx /\ adding' = adding
        /\ ~NodeDone
    BY <1>4 DEF configure_self_done, return, Calls, choice, NodeDone,
      configure_node_done, callers, settings
  <2>2. ~NodeJoins
    BY <2>1 DEF NodeJoins
  <2> QED BY <1>4, <2>1, <2>2, NoConfiguration
<1>5. CASE /\ HistoryNext
           /\ \/ ShellStep \/ auto_request_resumes \/ node_added_saved
              \/ link_failed
              \/ \E d \in Devices : \/ auto_request(d) \/ auto_request_waits(d)
                                    \/ shell_claim(d)
                                    \/ name_heard(d) \/ name_evicted(d)
              \/ \E a \in Addrs : cdb_stored(a)
  <2>1. /\ UNCHANGED <<pc, cursor, job, cdb>> /\ recipe_idx' = recipe_idx
        /\ adding' \in {0, adding}
    BY <1>5 DEF ShellStep, shell_write_uuid, shell_write_recipe, shell_give,
      Shell, auto_request_resumes, node_added_saved, link_failed, auto_request,
        auto_request_waits,
      shell_claim, name_heard, name_evicted, cdb_stored, thread, stack, choice,
      callers, settings
  <2>2. ~NodeJoins
    BY <2>1 DEF NodeJoins
  <2>3. ~NodeDone
    BY <2>1 DEF NodeDone, configure_node_done, return
  <2> QED BY <1>5, <2>1, <2>2, <2>3, NoConfiguration
<1>6. CASE HistoryNext /\ \E a \in Addrs : node_added(a)
  BY <1>6, DeviceJoinsAgain DEF Configuration!Next
<1>7. CASE HistoryNext /\ power_failed
  BY <1>7, PowerRestarts DEF Configuration!Next
<1>8. CASE HistoryNext /\ (apply_failed \/ configure_node_done)
  BY <1>8, CallFails, CallSucceeds DEF Configuration!Next
<1> QED BY <1>1, <1>2, <1>3, <1>4, <1>5, <1>6, <1>7, <1>8
        DEF Next, Answer, Environment

LEMMA NobodyIsConfigured == Init /\ HistoryInit => Configuration!Init
<1> SUFFICES ASSUME Init, HistoryInit PROVE Configuration!Init
  OBVIOUS
<1>1. ~Calls
  BY DEF Init, Calls
<1>2. \A row \in DOMAIN Table : Table[row].recipe_idx = 1
  BY DEF Init, Table
<1> QED BY <1>1, <1>2 DEF HistoryInit, Configuration!Init, Configuration!call

(* Whatever requests, links, devices that join again and power failures do while
   the thread waits, a node gets the recipe it was to get and its row moves on,
   or nothing of the kind happens. *)
THEOREM ThreadConfiguresNodes == HistorySpec => ImplementsConfiguration
<1>1. IInv /\ HInv /\ IInv' /\ HInv' /\ [Next /\ HistoryNext]_<<vars, applied>>
        => [Configuration!Next]_(Configuration!state)
  BY StepConfigures
<1> QED BY <1>1, NobodyIsConfigured, HistoryInvariance, PTL
        DEF HistorySpec, ImplementsConfiguration, Configuration!Spec
=============================================================================
