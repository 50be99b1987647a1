----------------------- MODULE ProvisionerHandlerProofs -----------------------
(***************************************************************************)
(* Proofs about the provisioner handler, for every set of devices, recipes *)
(* and rows and every size of the network.                                 *)
(***************************************************************************)
EXTENDS ProvisionerHandler, TLAPS

(* What the thread configures is a node the CDB holds and does not mark. *)
NodeInHand ==
  /\ pc \in {"apply", "save"} => cursor \in Addrs
  /\ pc = "apply" => cdb[cursor] # NoNode /\ ~cdb[cursor].configured

(* No request is accepted before the boot is over, and no link is asked for. *)
BootFirst ==
  /\ pc \in {"off", "resume", "clear", "start"} => handler_ready_flag = 0
  /\ pc = "off" => link = None

(* The provisioner's own node is in the CDB, so no other gets its address. *)
SelfIsNode ==
  /\ pc # "off" => cdb[self_addr] # NoNode
  /\ prov_pending.recent_new_addr # self_addr
  /\ flash.prov_pending.recent_new_addr # self_addr
  /\ writing.record.recent_new_addr # self_addr

(* PendingNamesItsNode, from the moment the boot has looked at the record. *)
RecordIsPending ==
  pc \notin {"off", "resume"} /\ prov_pending.recent_new_addr # 0
    => PendingNode # NoNode /\ ~PendingNode.configured

(* The recipe being applied to the node of the record is the recorded one. *)
JobIsRecorded ==
  pc = "apply" /\ prov_pending.recent_new_addr = cursor
    /\ prov_pending.recipe_id # RECIPE_NONE
  => job.recipe_id = prov_pending.recipe_id

Course ==
  NodeInHand /\ BootFirst /\ SelfIsNode /\ RecordIsPending /\ JobIsRecorded

(* Of the callers that have set the record and wait for its write, one is being
   served, and what is written for the last of them is what is in RAM. *)
WriteIsCurrent ==
  /\ writing.by = "nobody" =>
       /\ pc \notin {"clear", "save"} /\ adding = 0
       /\ writing.record = NoPending
  /\ writing.by = "thread" =>
       /\ pc \in {"clear", "save"}
       /\ adding = 0 => writing.record = prov_pending
  /\ writing.by = "callback" =>
       /\ adding # 0 /\ pc # "off"
       /\ pc \notin {"clear", "save"} => writing.record = prov_pending

Promises == NeverStuckBusy /\ PairIntact /\ PendingIsDurable /\ WriteIsCurrent

(* The inductive invariant. *)
IInv == TypeOK /\ Course /\ Promises

-----------------------------------------------------------------------------
(* Types                                                                   *)

(* The constants the actions assign have the types of their variables. *)
LEMMA Types ==
  /\ self_addr \in Addrs /\ 0 \notin Addrs
  /\ NoNode \in CdbNode /\ NoPending \in PendingRecord
  /\ NoRequest \in Request
  /\ NoJob \in [recipe_id : RecipeIds, row : Rows \cup {NoRow}]
  /\ NoWrite \in [by : {"nobody", "thread", "callback"}, record : PendingRecord]
BY MaxNodesAssumption, SentinelAssumption
DEF self_addr, Addrs, NoNode, CdbNode, NoPending, PendingRecord, NoRequest,
  Request, NoJob, RecipeIds, NoWrite

LEMMA PeekType ==
  ASSUME TypeOK, NEW row \in Rows
  PROVE  scenario_row_peek_recipe_id(row) \in Recipes
BY RowsAssumption DEF TypeOK, scenario_row_peek_recipe_id

LEMMA JobType ==
  ASSUME TypeOK, NEW a \in Addrs
  PROVE  job_for(a) \in [recipe_id : RecipeIds, row : Rows \cup {NoRow}]
<1>1. known_row(cdb[a].uuid) \in Rows \cup {NoRow}
  BY RowsAssumption DEF TypeOK, known_row
<1>2. latched_recipe(a) \in RecipeIds
  BY DEF latched_recipe, TypeOK, PendingRecord, RecipeIds
<1> QED
  BY <1>1, <1>2, PeekType DEF job_for, RecipeIds

LEMMA InitType == Init => TypeOK
<1> SUFFICES ASSUME Init PROVE TypeOK
  OBVIOUS
<1>1. /\ recipe_idx \in [Rows -> Nat]
      /\ \A row \in Rows : recipe_idx[row] \in 1 .. Len(RecipesOf[row])
  BY RowsAssumption DEF Init
<1>2. /\ cdb \in [Addrs -> CdbNode]
      /\ flash \in [prov_pending : PendingRecord, cdb : [Addrs -> CdbNode]]
  BY Types DEF Init
<1> QED
  BY <1>1, <1>2, Types, MaxNodesAssumption DEF Init, TypeOK, RecipeIds

-----------------------------------------------------------------------------
(* Types: one lemma for each group of actions                              *)

(* A write that begins writes a record, *)
LEMMA SaveType ==
  ASSUME TypeOK, NEW by \in {"thread", "callback"},
         prov_pending' \in PendingRecord, prov_pending_save(by)
  PROVE  writing' \in [by : {"nobody", "thread", "callback"},
                      record : PendingRecord]
BY DEF TypeOK, prov_pending_save

(* and the end of one changes nothing else of what is stored. *)
LEMMA SaveEndsType ==
  ASSUME TypeOK, NEW by \in {"thread", "callback"}, prov_pending_save_ends(by)
  PROVE  /\ flash' \in [prov_pending : PendingRecord, cdb : [Addrs -> CdbNode]]
         /\ flash'.cdb = flash.cdb
         /\ flash'.prov_pending = writing.record
         /\ writing' \in [by : {"nobody", "thread", "callback"},
                         record : PendingRecord]
         /\ writing'.record \in {prov_pending, NoPending}
<1>1. /\ flash' \in [prov_pending : PendingRecord, cdb : [Addrs -> CdbNode]]
      /\ flash'.cdb = flash.cdb
      /\ flash'.prov_pending = writing.record
  BY DEF TypeOK, prov_pending_save_ends
<1>2. CASE OtherWaits(by)
  BY <1>1, <1>2 DEF TypeOK, prov_pending_save_ends
<1>3. CASE ~OtherWaits(by)
  BY <1>1, <1>3, Types DEF prov_pending_save_ends, NoWrite
<1> QED BY <1>2, <1>3

LEMMA RequestType ==
  ASSUME TypeOK, NEW d \in Devices,
         auto_request(d) \/ auto_request_waits(d) \/ shell_claim(d)
  PROVE  TypeOK'
<1>1. CASE auto_request(d)
  <2>1. pending' \in Request
    BY <1>1, PeekType, RowsAssumption
    DEF auto_request, Request, RecipeIds
  <2> QED
    BY <1>1, <2>1 DEF TypeOK, auto_request, Given, thread, callback, choice,
      stack, callers, settings
<1>2. CASE auto_request_waits(d)
  <2>1. waiting' \in Request
    BY <1>2, PeekType, RowsAssumption
    DEF auto_request_waits, Request, RecipeIds
  <2> QED
    BY <1>2, <2>1 DEF TypeOK, auto_request_waits, thread, request, callback,
      choice, stack, settings
<1>3. CASE shell_claim(d)
  BY <1>3 DEF TypeOK, shell_claim, thread, request, callback, choice, stack,
    settings
<1> QED BY <1>1, <1>2, <1>3

LEMMA ResumesType ==
  ASSUME TypeOK, auto_request_resumes
  PROVE  TypeOK'
BY Types DEF TypeOK, auto_request_resumes, Given, thread, flags, callback,
  choice, stack, settings

LEMMA ShellType ==
  ASSUME TypeOK, ShellStep
  PROVE  TypeOK'
<1>1. CASE shell_write_uuid
  <2>1. /\ pending' \in Request
        /\ shell' \in [at : {"idle", "claimed", "locked", "written"},
                       uuid : Devices \cup {None}]
    BY <1>1 DEF TypeOK, shell_write_uuid, Shell, Request
  <2> QED
    BY <1>1, <2>1 DEF TypeOK, shell_write_uuid, Shell, thread, callback,
      choice, stack, callers, settings
<1>2. CASE shell_write_recipe
  <2>1. /\ pending' \in Request
        /\ shell' \in [at : {"idle", "claimed", "locked", "written"},
                       uuid : Devices \cup {None}]
    BY <1>2 DEF TypeOK, shell_write_recipe, Shell, Request, RecipeIds
  <2> QED
    BY <1>2, <2>1 DEF TypeOK, shell_write_recipe, Shell, thread, callback,
      choice, stack, callers, settings
<1>3. CASE shell_give
  BY <1>3 DEF TypeOK, shell_give, Shell, Given, thread, callback, choice,
    stack, callers, settings
<1> QED BY <1>1, <1>2, <1>3 DEF ShellStep

LEMMA BootType ==
  ASSUME IInv, Boot
  PROVE  TypeOK'
<1>0. TypeOK
  BY DEF IInv
<1>1. CASE provisioner_network_setup
  <2>1. /\ prov_pending' \in PendingRecord
        /\ cdb' \in [Addrs -> CdbNode]
        /\ app_key' \in BOOLEAN \cup {None}
    BY <1>0, <1>1, Types, SwitchesAssumption
    DEF TypeOK, provisioner_network_setup, CdbNode
  <2> QED
    BY <1>0, <1>1, <2>1 DEF TypeOK, provisioner_network_setup, flags, request,
      choice, callers, settings
<1>2. CASE provisioner_resume_pending_config
  <2>1. /\ prov_pending' \in PendingRecord
        /\ cursor' \in 0 .. MaxNodes + 1
        /\ job' \in [recipe_id : RecipeIds, row : Rows \cup {NoRow}]
        /\ pc' \in {"start", "clear", "apply"}
        /\ writing' \in [by : {"nobody", "thread", "callback"},
                        record : PendingRecord]
    BY <1>0, <1>2, Types, JobType, SaveType, MaxNodesAssumption
    DEF TypeOK, provisioner_resume_pending_config, configure_node, Resumable,
      PendingRecord, Addrs, self_addr
  <2> QED
    BY <1>0, <1>2, <2>1 DEF TypeOK, provisioner_resume_pending_config, flags,
      request, choice, stack, callers, settings
<1>3. CASE resume_saved
  BY <1>0, <1>3, SaveEndsType DEF TypeOK, resume_saved, flags, request,
    callback, choice, callers, stack
<1>4. CASE thread_start
  BY <1>0, <1>4, MaxNodesAssumption
  DEF TypeOK, thread_start, loop_top, self_addr, request, choice, stack,
    callers, settings
<1> QED BY <1>1, <1>2, <1>3, <1>4 DEF Boot

(* configure_node returns to the boot or to the iteration. *)
LEMMA ReturnType ==
  ASSUME IInv, pc \in {"apply", "save"}, return
  PROVE  /\ pc' \in {"start", "foreach"}
         /\ cursor' \in 0 .. MaxNodes + 1
         /\ job' \in [recipe_id : RecipeIds, row : Rows \cup {NoRow}]
BY Types, MaxNodesAssumption
DEF IInv, TypeOK, Course, NodeInHand, return, Addrs, self_addr

(* Marking the node in hand changes that flag of that node. *)
LEMMA ConfiguredType ==
  ASSUME IInv, pc = "apply", Configured
  PROVE  /\ cdb' \in [Addrs -> CdbNode]
         /\ cdb'[cursor].configured
         /\ \A a \in Addrs :
              /\ cdb'[a].uuid = cdb[a].uuid
              /\ a # cursor => cdb'[a] = cdb[a]
<1> DEFINE node == [cdb[cursor] EXCEPT !.configured = TRUE]
<1>1. cursor \in Addrs /\ cdb \in [Addrs -> CdbNode] /\ cdb[cursor] \in CdbNode
  BY DEF IInv, TypeOK, Course, NodeInHand
<1>2. node \in CdbNode /\ node.configured /\ node.uuid = cdb[cursor].uuid
  BY <1>1 DEF CdbNode
<1>3. cdb' = [cdb EXCEPT ![cursor] = node]
  BY DEF Configured
<1> HIDE DEF node
<1> QED BY <1>1, <1>2, <1>3

(* The node that joined is the link's device, and not configured. *)
LEMMA JoinedType ==
  ASSUME TypeOK, NEW a \in Addrs, node_added(a)
  PROVE  /\ cdb' \in [Addrs -> CdbNode]
         /\ cdb'[a].uuid = link /\ ~cdb'[a].configured
         /\ \A b \in Addrs : b # a => cdb'[b] = cdb[b]
<1> DEFINE node == [cdb[a] EXCEPT !.uuid = link]
<1>1. cdb \in [Addrs -> CdbNode] /\ cdb[a] = NoNode /\ link \in Devices
  BY DEF TypeOK, node_added, FreeAddrs
<1>2. node \in CdbNode /\ node.uuid = link /\ ~node.configured
  BY <1>1, Types DEF CdbNode, NoNode
<1>3. cdb' = [cdb EXCEPT ![a] = node]
  BY DEF node_added
<1> HIDE DEF node
<1> QED BY <1>1, <1>2, <1>3

LEMMA AnswerType ==
  ASSUME IInv, Answer
  PROVE  TypeOK'
<1>0. TypeOK /\ pc = "apply"
  BY DEF IInv, Answer, apply_failed, configure_self_done, configure_node_done
<1>1. Configured => cdb' \in [Addrs -> CdbNode]
  BY <1>0, ConfiguredType
<1>2. CASE apply_failed
  BY <1>0, <1>2, ReturnType DEF TypeOK, apply_failed, flags, request, callback,
    choice, stack, callers, settings
<1>3. CASE configure_self_done
  BY <1>0, <1>1, <1>3, ReturnType DEF TypeOK, configure_self_done, flags,
    request, callback, choice, callers, settings
<1>4. CASE configure_node_done
  <2>1. /\ recipe_idx' \in [Rows -> Nat]
        /\ \A row \in Rows : recipe_idx'[row] \in 1 .. Len(RecipesOf[row])
    BY <1>0, <1>4, RowsAssumption
    DEF TypeOK, configure_node_done, scenario_row_consume_recipe_id
  <2>2. /\ prov_pending' \in PendingRecord
        /\ named' \subseteq Devices
        /\ writing' \in [by : {"nobody", "thread", "callback"},
                        record : PendingRecord]
    BY <1>0, <1>4, Types, SaveType DEF TypeOK, configure_node_done, forget_name
  <2>3. /\ pc' \in {"start", "foreach", "save"}
        /\ cursor' \in 0 .. MaxNodes + 1
        /\ job' \in [recipe_id : RecipeIds, row : Rows \cup {NoRow}]
    BY <1>0, <1>4, ReturnType DEF TypeOK, configure_node_done
  <2> QED
    BY <1>0, <1>1, <1>4, <2>1, <2>2, <2>3 DEF TypeOK, configure_node_done,
      flags, request, callers, settings
<1> QED BY <1>2, <1>3, <1>4 DEF Answer

LEMMA ThreadType ==
  ASSUME IInv, Thread
  PROVE  TypeOK'
<1>0. TypeOK
  BY DEF IInv
<1>1. CASE check_unconfigured_skip
  BY <1>0, <1>1, MaxNodesAssumption
  DEF TypeOK, check_unconfigured_skip, Addrs, self_addr, flags, request,
    callback, choice, stack, callers, settings
<1>2. CASE check_unconfigured
  <2>1. /\ pc' = "apply"
        /\ cursor' \in 0 .. MaxNodes + 1
        /\ job' \in [recipe_id : RecipeIds, row : Rows \cup {NoRow}]
    BY <1>0, <1>2, Types, JobType
    DEF TypeOK, check_unconfigured, configure_node
  <2> QED
    BY <1>0, <1>2, <2>1 DEF TypeOK, check_unconfigured, flags, request,
      callback, choice, stack, callers, settings
<1>3. CASE configure_node_saved
  BY <1>0, <1>3, ReturnType, SaveEndsType DEF TypeOK, configure_node_saved,
    forget_name, flags, request, callback, callers, stack
<1>4. CASE foreach_done
  BY <1>0, <1>4 DEF TypeOK, foreach_done, request, callback, choice, stack,
    callers, settings
<1>5. CASE provision_adv
  BY <1>0, <1>5 DEF TypeOK, provision_adv, latch, Request, flags, callback,
    callers, settings
<1>6. CASE provision_adv_failed
  BY <1>0, <1>6, MaxNodesAssumption
  DEF TypeOK, provision_adv_failed, latch, loop_top, self_addr, Request, stack,
    callers, settings
<1>7. CASE node_added_taken \/ node_added_timeout
  BY <1>0, <1>7, MaxNodesAssumption
  DEF TypeOK, node_added_taken, node_added_timeout, loop_top, self_addr, flags,
    request, choice, stack, callers, settings
<1> QED
  BY <1>1, <1>2, <1>3, <1>4, <1>5, <1>6, <1>7 DEF Thread

LEMMA EnvironmentType ==
  ASSUME IInv, node_added_saved \/ Environment
  PROVE  TypeOK'
<1>0. TypeOK
  BY DEF IInv
<1>1. ASSUME NEW d \in Devices,
             auto_request(d) \/ auto_request_waits(d) \/ shell_claim(d)
      PROVE  TypeOK'
  BY <1>0, <1>1, RequestType
<1>2. ASSUME NEW a \in Addrs, node_added(a)
      PROVE  TypeOK'
  <2>1. /\ cdb' \in [Addrs -> CdbNode] /\ prov_pending' \in PendingRecord
        /\ writing' \in [by : {"nobody", "thread", "callback"},
                        record : PendingRecord]
    BY <1>0, <1>2, JoinedType, SaveType DEF TypeOK, node_added, PendingRecord
  <2> QED
    BY <1>0, <1>2, <2>1 DEF TypeOK, node_added, thread, flags, request, choice,
      callers, settings
<1>3. ASSUME NEW a \in Addrs, cdb_stored(a)
      PROVE  TypeOK'
  <2> DEFINE nodes == [flash.cdb EXCEPT ![a] = cdb[a]]
  <2>1. nodes \in [Addrs -> CdbNode]
    BY <1>0 DEF TypeOK
  <2>2. flash' = [flash EXCEPT !.cdb = nodes]
    BY <1>0, <1>3 DEF TypeOK, cdb_stored
  <2> HIDE DEF nodes
  <2>3. flash' \in [prov_pending : PendingRecord, cdb : [Addrs -> CdbNode]]
    BY <1>0, <2>1, <2>2 DEF TypeOK
  <2>4. UNCHANGED <<thread, flags, request, callback, choice, callers, stack,
                  writing>>
    BY <1>3 DEF cdb_stored
  <2> QED
    BY <1>0, <2>3, <2>4 DEF TypeOK, thread, flags, request, callback, choice,
      stack, callers, settings
<1>4. ASSUME NEW d \in Devices, name_heard(d) \/ name_evicted(d)
      PROVE  TypeOK'
  BY <1>0, <1>4 DEF TypeOK, name_heard, name_evicted, forget_name, thread,
    flags, request, callback, stack, callers, settings
<1>5. CASE node_added_saved
  BY <1>0, <1>5, SaveEndsType DEF TypeOK, node_added_saved, Given, thread,
    flags, request, choice, callers
<1>6. CASE link_failed
  BY <1>0, <1>6 DEF TypeOK, link_failed, thread, flags, request, callback,
    choice, callers, settings
<1>7. CASE power_failed
  <2>1. /\ recipe_idx' \in [Rows -> Nat]
        /\ \A row \in Rows : recipe_idx'[row] \in 1 .. Len(RecipesOf[row])
        /\ cdb' \in [Addrs -> CdbNode]
    BY <1>7, Types, RowsAssumption DEF power_failed
  <2> QED
    BY <1>0, <1>7, <2>1, Types, MaxNodesAssumption
    DEF TypeOK, power_failed, RecipeIds
<1> QED
  BY <1>1, <1>2, <1>3, <1>4, <1>5, <1>6, <1>7 DEF Environment

-----------------------------------------------------------------------------
(* The course of the thread: one lemma for each group of actions           *)

(* Whoever leaves these alone disturbs nothing of it. *)
LEMMA CourseFrame ==
  ASSUME Course,
         UNCHANGED <<thread, handler_ready_flag, prov_pending, cdb>>,
         link' \in {link, None},
         flash'.prov_pending \in {flash.prov_pending, writing.record},
         writing'.record \in {writing.record, prov_pending, NoPending}
  PROVE  Course'
BY DEF Course, NodeInHand, BootFirst, SelfIsNode, RecordIsPending,
  JobIsRecorded, PendingNode, NoPending, self_addr, thread

LEMMA BootCourse ==
  ASSUME IInv, Boot
  PROVE  Course'
<1>0. TypeOK /\ Course
  BY DEF IInv
<1>1. CASE provisioner_network_setup
  <2>1. cdb'[self_addr] # NoNode
    <3>1. CASE flash.cdb[self_addr] = NoNode
      <4> DEFINE node == [NoNode EXCEPT !.uuid = dev_uuid]
      <4>1. node # NoNode
        BY SentinelAssumption DEF NoNode
      <4>2. cdb' = [flash.cdb EXCEPT ![self_addr] = node]
        BY <1>1, <3>1 DEF provisioner_network_setup
      <4> HIDE DEF node
      <4> QED BY <1>0, <4>1, <4>2, Types DEF TypeOK
    <3>2. CASE flash.cdb[self_addr] # NoNode
      BY <1>1, <3>2 DEF provisioner_network_setup
    <3> QED BY <3>1, <3>2
  <2> QED
    BY <1>0, <1>1, <2>1 DEF Course, NodeInHand, BootFirst, SelfIsNode,
      RecordIsPending, JobIsRecorded, provisioner_network_setup, flags,
      callers, settings
<1>2. CASE provisioner_resume_pending_config
  <2>1. NodeInHand' /\ JobIsRecorded'
    BY <1>0, <1>2 DEF Course, NodeInHand, JobIsRecorded, TypeOK, PendingRecord,
      provisioner_resume_pending_config, configure_node, Resumable, Stale,
      PendingNode, job_for, latched_recipe, stack, callers, settings
  <2>2. RecordIsPending'
    BY <1>0, <1>2 DEF RecordIsPending, provisioner_resume_pending_config,
      configure_node, Resumable, Stale, PendingNode, NoPending, stack, callers,
      settings
  <2>3. BootFirst' /\ SelfIsNode'
    BY <1>0, <1>2 DEF Course, BootFirst, SelfIsNode, NoPending, self_addr,
      provisioner_resume_pending_config, configure_node, prov_pending_save,
      flags, stack
  <2> QED BY <2>1, <2>2, <2>3 DEF Course
<1>3. CASE resume_saved
  BY <1>0, <1>3, SaveEndsType DEF Course, NodeInHand, BootFirst, SelfIsNode,
    RecordIsPending, JobIsRecorded, PendingNode, NoPending, self_addr,
    resume_saved, flags, callback, stack
<1>4. CASE thread_start
  BY <1>0, <1>4 DEF Course, NodeInHand, BootFirst, SelfIsNode, RecordIsPending,
    JobIsRecorded, PendingNode, thread_start, loop_top, stack, callers,
    settings
<1> QED BY <1>1, <1>2, <1>3, <1>4 DEF Boot

LEMMA ReturnCourse ==
  ASSUME Course, pc \in {"apply", "save"}, return,
         UNCHANGED handler_ready_flag
  PROVE  /\ pc' \in {"start", "foreach"}
         /\ NodeInHand' /\ JobIsRecorded'
         /\ pc' = "start" => handler_ready_flag' = 0
BY DEF return, NodeInHand, JobIsRecorded

LEMMA AnswerCourse ==
  ASSUME IInv, Answer
  PROVE  Course'
<1>0. /\ TypeOK /\ Course /\ pc = "apply"
      /\ cursor \in Addrs /\ self_addr \in Addrs
  BY Types DEF IInv, Course, NodeInHand, Answer, apply_failed,
    configure_self_done, configure_node_done
<1>1. CASE apply_failed
  BY <1>0, <1>1, ReturnCourse DEF Course, BootFirst, SelfIsNode,
    RecordIsPending, PendingNode, apply_failed, flags, callback, stack,
    callers, settings
<1>2. ASSUME Configured
      PROVE  \A a \in Addrs : /\ cdb[a] # NoNode => cdb'[a] # NoNode
                              /\ a # cursor => cdb'[a] = cdb[a]
  <2>1. /\ cdb'[cursor].configured
        /\ \A a \in Addrs : a # cursor => cdb'[a] = cdb[a]
    BY <1>0, <1>2, ConfiguredType
  <2>2. ~NoNode.configured
    BY DEF NoNode
  <2> QED BY <2>1, <2>2
<1>3. CASE configure_self_done
  BY <1>0, <1>2, <1>3, ReturnCourse DEF TypeOK, PendingRecord, Course,
    BootFirst, SelfIsNode, RecordIsPending, PendingNode, configure_self_done,
    flags, callback, callers, settings
<1>4. CASE configure_node_done
  <2>1. CASE prov_pending.recent_new_addr = cursor
    BY <1>0, <1>2, <1>4, <2>1 DEF Course, NodeInHand, BootFirst, SelfIsNode,
      RecordIsPending, JobIsRecorded, NoPending, self_addr,
      configure_node_done, prov_pending_save, flags
  <2>2. CASE prov_pending.recent_new_addr # cursor
    BY <1>0, <1>2, <1>4, <2>2, ReturnCourse DEF TypeOK, PendingRecord, Course,
      BootFirst, SelfIsNode, RecordIsPending, PendingNode, configure_node_done,
      flags, callers, settings
  <2> QED BY <2>1, <2>2
<1> QED BY <1>1, <1>3, <1>4 DEF Answer

LEMMA ThreadCourse ==
  ASSUME IInv, Thread
  PROVE  Course'
<1>0. TypeOK /\ Course
  BY DEF IInv
<1>1. CASE check_unconfigured_skip
  BY <1>0, <1>1 DEF Course, NodeInHand, BootFirst, SelfIsNode, RecordIsPending,
    JobIsRecorded, PendingNode, check_unconfigured_skip, flags, callback,
    stack, callers, settings
<1>2. CASE check_unconfigured
  <2>1. NodeInHand' /\ JobIsRecorded'
    BY <1>0, <1>2 DEF Course, SelfIsNode, NodeInHand, JobIsRecorded,
      check_unconfigured, NeedsNothing, configure_node, job_for,
      latched_recipe, callback, stack, callers, settings
  <2> QED
    BY <1>0, <1>2, <2>1 DEF Course, BootFirst, SelfIsNode, RecordIsPending,
      PendingNode, check_unconfigured, configure_node, flags, callback, stack,
      callers, settings
<1>3. CASE configure_node_saved
  BY <1>0, <1>3, ReturnCourse, SaveEndsType DEF Course, BootFirst, SelfIsNode,
    RecordIsPending, PendingNode, NoPending, self_addr, configure_node_saved,
    flags, callback, stack
<1>4. CASE foreach_done
  BY <1>0, <1>4 DEF Course, NodeInHand, BootFirst, SelfIsNode, RecordIsPending,
    JobIsRecorded, PendingNode, foreach_done, callback, stack, callers,
    settings
<1>5. CASE provision_adv
  BY <1>0, <1>5 DEF Course, NodeInHand, BootFirst, SelfIsNode, RecordIsPending,
    JobIsRecorded, PendingNode, provision_adv, latch, flags, callback, callers,
    settings
<1>6. CASE provision_adv_failed
  BY <1>0, <1>6 DEF Course, NodeInHand, BootFirst, SelfIsNode, RecordIsPending,
    JobIsRecorded, PendingNode, provision_adv_failed, latch, loop_top, stack,
    callers, settings
<1>7. CASE node_added_taken \/ node_added_timeout
  BY <1>0, <1>7 DEF Course, NodeInHand, BootFirst, SelfIsNode, RecordIsPending,
    JobIsRecorded, PendingNode, node_added_taken, node_added_timeout, loop_top,
    flags, stack, callers, settings
<1> QED
  BY <1>1, <1>2, <1>3, <1>4, <1>5, <1>6, <1>7 DEF Thread

LEMMA EnvironmentCourse ==
  ASSUME IInv,
         \/ node_added_saved \/ Environment
         \/ ShellStep \/ auto_request_resumes
  PROVE  Course'
<1>0. TypeOK /\ Course
  BY DEF IInv
<1>1. ASSUME NEW d \in Devices,
             \/ auto_request(d) \/ auto_request_waits(d) \/ shell_claim(d)
             \/ name_heard(d) \/ name_evicted(d)
      PROVE  Course'
  BY <1>0, <1>1, CourseFrame DEF auto_request, auto_request_waits, shell_claim,
    name_heard, name_evicted, flags, callback, stack, callers, settings
<1>2. CASE ShellStep
  <2>1. UNCHANGED <<thread, handler_ready_flag, callback, stack, settings>>
    BY <1>2 DEF ShellStep, shell_write_uuid, shell_write_recipe, shell_give,
      Shell
  <2> QED BY <1>0, <2>1, CourseFrame DEF callback, stack, settings
<1>3. CASE link_failed \/ auto_request_resumes
  BY <1>0, <1>3, CourseFrame DEF link_failed, auto_request_resumes, flags,
    callback, stack, settings
<1>7. CASE node_added_saved
  BY <1>0, <1>7, CourseFrame, SaveEndsType DEF node_added_saved, flags
<1>4. ASSUME NEW a \in Addrs, cdb_stored(a)
      PROVE  Course'
  BY <1>0, <1>4, CourseFrame DEF TypeOK, cdb_stored, flags, callback, stack,
    callers, settings
<1>5. ASSUME NEW a \in Addrs, node_added(a)
      PROVE  Course'
  <2>1. /\ cdb'[a].uuid = link /\ link # None /\ ~cdb'[a].configured
        /\ \A b \in Addrs : b # a => cdb'[b] = cdb[b]
        /\ cdb[a] = NoNode
        /\ UNCHANGED <<thread, handler_ready_flag, link, flash>>
        /\ prov_pending'.recent_new_addr = a
        /\ writing'.record \in {writing.record, prov_pending'}
    BY <1>0, <1>5, JoinedType DEF node_added, prov_pending_save, FreeAddrs,
      flags
  <2>2. a # self_addr /\ pc # "off"
    BY <1>0, <2>1 DEF Course, BootFirst, SelfIsNode
  <2>3. \A b \in Addrs : cdb[b] # NoNode => cdb'[b] = cdb[b]
    BY <2>1
  <2>4. cdb'[a] # NoNode
    BY <2>1 DEF NoNode
  <2>5. NodeInHand' /\ JobIsRecorded'
    BY <1>0, <2>1, <2>3 DEF Course, NodeInHand, JobIsRecorded, thread
  <2>6. BootFirst' /\ SelfIsNode' /\ RecordIsPending'
    BY <1>0, <2>1, <2>2, <2>3, <2>4, Types DEF Course, BootFirst, SelfIsNode,
      RecordIsPending, PendingNode, thread
  <2> QED BY <2>5, <2>6 DEF Course
<1>6. CASE power_failed
  BY <1>0, <1>6 DEF Course, NodeInHand, BootFirst, SelfIsNode, RecordIsPending,
    JobIsRecorded, NoPending, NoWrite, self_addr, power_failed
<1> QED
  BY <1>1, <1>2, <1>3, <1>4, <1>5, <1>6, <1>7 DEF Environment

-----------------------------------------------------------------------------
(* The promises: one lemma each                                            *)

(* Whoever sets the flag also gives the semaphore or is about to; only
   foreach_done brings the thread back to it, with the flag cleared. *)
LEMMA BusyStep ==
  ASSUME IInv, [Next]_vars
  PROVE  NeverStuckBusy'
<1>0. TypeOK /\ Course /\ NeverStuckBusy
  BY DEF IInv, Promises
<1>1. CASE Boot
  BY <1>0, <1>1 DEF NeverStuckBusy, callers, Boot, provisioner_network_setup,
    provisioner_resume_pending_config, configure_node, resume_saved,
    thread_start, loop_top
<1>2. CASE Thread
  BY <1>0, <1>2 DEF NeverStuckBusy, callers, Thread, check_unconfigured_skip,
    check_unconfigured, configure_node, configure_node_saved, return,
    foreach_done, provision_adv, provision_adv_failed, node_added_taken,
    node_added_timeout, loop_top
<1>3. CASE Answer
  BY <1>0, <1>3 DEF NeverStuckBusy, callers, Answer, apply_failed,
    configure_self_done, configure_node_done, return
<1>4. CASE ShellStep
  BY <1>0, <1>4 DEF TypeOK, NeverStuckBusy, ShellStep, shell_write_uuid,
    shell_write_recipe, shell_give, Shell, Given, thread
<1>5. ASSUME NEW d \in Devices,
             \/ auto_request(d) \/ auto_request_waits(d) \/ shell_claim(d)
             \/ name_heard(d) \/ name_evicted(d)
      PROVE  NeverStuckBusy'
  BY <1>0, <1>5 DEF TypeOK, NeverStuckBusy, callers, auto_request,
    auto_request_waits, shell_claim, name_heard, name_evicted, MutexFree,
    Given, thread, flags, request
<1>6. ASSUME NEW a \in Addrs, node_added(a) \/ cdb_stored(a)
      PROVE  NeverStuckBusy'
  BY <1>0, <1>6 DEF NeverStuckBusy, node_added, cdb_stored, callers, thread,
    flags,
    request
<1>7. CASE \/ link_failed \/ node_added_saved \/ power_failed
           \/ auto_request_resumes
  BY <1>0, <1>7 DEF TypeOK, NeverStuckBusy, callers, link_failed,
    node_added_saved, power_failed, auto_request_resumes, Given,
    thread, flags, request
<1>8. CASE UNCHANGED vars
  BY <1>0, <1>8 DEF NeverStuckBusy, vars, thread, flags, request, callers
<1> QED
  BY <1>1, <1>2, <1>3, <1>4, <1>5, <1>6, <1>7, <1>8 DEF Next, Environment

(* The mutex keeps the other requests away. *)
LEMMA PairStep ==
  ASSUME IInv, [Next]_vars
  PROVE  PairIntact'
<1>0. TypeOK /\ PairIntact
  BY DEF IInv, Promises
<1>1. CASE Boot
  BY <1>0, <1>1 DEF PairIntact, callers, Boot, provisioner_network_setup,
    provisioner_resume_pending_config, resume_saved, thread_start, request
<1>2. CASE Thread
  BY <1>0, <1>2 DEF PairIntact, callers, Thread, check_unconfigured_skip,
    check_unconfigured, configure_node_saved, foreach_done, provision_adv,
    provision_adv_failed, node_added_taken, node_added_timeout, request
<1>3. CASE Answer
  BY <1>0, <1>3 DEF PairIntact, callers, Answer, apply_failed,
    configure_self_done, configure_node_done, request
<1>4. CASE ShellStep
  <2>1. CASE shell_write_uuid
    <3>1. shell.uuid = shell'.uuid /\ pending'.uuid = shell.uuid
      BY <1>0, <2>1 DEF TypeOK, Request, shell_write_uuid, Shell
    <3> QED BY <3>1 DEF PairIntact
  <2>2. CASE shell_write_recipe \/ shell_give
    BY <2>2 DEF PairIntact, shell_write_recipe, shell_give, Shell
  <2> QED BY <1>4, <2>1, <2>2 DEF ShellStep
<1>5. ASSUME NEW d \in Devices,
             \/ auto_request(d) \/ auto_request_waits(d) \/ shell_claim(d)
             \/ name_heard(d) \/ name_evicted(d)
      PROVE  PairIntact'
  BY <1>0, <1>5 DEF PairIntact, callers, MutexFree, auto_request,
    auto_request_waits, shell_claim, name_heard, name_evicted, request
<1>6. ASSUME NEW a \in Addrs, node_added(a) \/ cdb_stored(a)
      PROVE  PairIntact'
  BY <1>0, <1>6 DEF PairIntact, node_added, cdb_stored, callers, request
<1>7. CASE \/ link_failed \/ node_added_saved \/ power_failed
           \/ auto_request_resumes
  BY <1>0, <1>7 DEF PairIntact, MutexFree, link_failed, node_added_saved,
    power_failed, auto_request_resumes, request, callers
<1>8. CASE UNCHANGED vars
  BY <1>0, <1>8 DEF PairIntact, vars, request, callers
<1> QED
  BY <1>1, <1>2, <1>3, <1>4, <1>5, <1>6, <1>7, <1>8 DEF Next, Environment

(* Whoever changes the record is at, or moves to, a place that saves it. *)
LEMMA DurableStep ==
  ASSUME IInv, [Next]_vars
  PROVE  PendingIsDurable' /\ WriteIsCurrent'
<1> USE DEF PendingIsDurable, WriteIsCurrent
<1>0. TypeOK /\ BootFirst /\ PendingIsDurable /\ WriteIsCurrent
  BY DEF IInv, Course, Promises
<1>1. ASSUME NEW by \in {"thread", "callback"}, prov_pending_save_ends(by),
             UNCHANGED prov_pending
      PROVE  /\ writing.by = by /\ flash'.prov_pending = writing.record
             /\ ~OtherWaits(by)
                  => writing'.by = "nobody" /\ writing'.record = NoPending
             /\ OtherWaits(by) => writing'.record = prov_pending'
             /\ OtherWaits("thread") /\ by = "thread"
                  => writing'.by = "callback"
             /\ OtherWaits("callback") /\ by = "callback"
                  => writing'.by = "thread"
  BY <1>0, <1>1 DEF TypeOK, prov_pending_save_ends, NoWrite
<1>2. ASSUME NEW by \in {"thread", "callback"}, prov_pending_save(by)
      PROVE  /\ writing.by # "nobody" => UNCHANGED writing
             /\ writing.by = "nobody"
                  => writing'.by = by /\ writing'.record = prov_pending'
  BY <1>2 DEF prov_pending_save
<1>3. CASE Boot
  <2>1. CASE resume_saved
    BY <1>0, <1>1, <2>1 DEF resume_saved, OtherWaits, callback, stack
  <2>2. CASE provisioner_resume_pending_config
    BY <1>0, <1>2, <2>2 DEF provisioner_resume_pending_config, configure_node,
      stack
  <2>3. CASE provisioner_network_setup \/ thread_start
    BY <1>0, <2>3 DEF provisioner_network_setup, thread_start, loop_top, stack,
      settings
  <2> QED BY <1>3, <2>1, <2>2, <2>3 DEF Boot
<1>4. CASE Thread
  <2>1. CASE configure_node_saved
    BY <1>0, <1>1, <2>1 DEF configure_node_saved, return, OtherWaits, callback,
      stack
  <2>2. CASE ~configure_node_saved
    BY <1>0, <1>4, <2>2 DEF Thread, check_unconfigured_skip,
      check_unconfigured, configure_node, foreach_done, provision_adv, latch,
      provision_adv_failed, node_added_taken, node_added_timeout, loop_top,
      callback, stack, settings
  <2> QED BY <2>1, <2>2
<1>5. CASE Answer
  <2>1. CASE configure_node_done
    <3>1. CASE prov_pending.recent_new_addr = cursor
      BY <1>0, <1>2, <2>1, <3>1 DEF configure_node_done
    <3>2. CASE prov_pending.recent_new_addr # cursor
      BY <1>0, <2>1, <3>2 DEF configure_node_done, return
    <3> QED BY <3>1, <3>2
  <2>2. CASE apply_failed \/ configure_self_done
    BY <1>0, <2>2 DEF apply_failed, configure_self_done, return, callback,
      stack, settings
  <2> QED BY <1>5, <2>1, <2>2 DEF Answer
<1>6. CASE node_added_saved
  BY <1>0, <1>1, <1>6 DEF node_added_saved, OtherWaits, thread
<1>7. ASSUME NEW d \in Devices,
             \/ auto_request(d) \/ auto_request_waits(d) \/ shell_claim(d)
             \/ name_heard(d) \/ name_evicted(d)
      PROVE  PendingIsDurable' /\ WriteIsCurrent'
  BY <1>0, <1>7 DEF auto_request, auto_request_waits, shell_claim, name_heard,
    name_evicted, thread, callback, stack, settings
<1>8. CASE ShellStep
  <2>1. UNCHANGED <<thread, callback, stack, settings>>
    BY <1>8 DEF ShellStep, shell_write_uuid, shell_write_recipe, shell_give,
      Shell
  <2> QED BY <1>0, <2>1 DEF thread, callback, stack, settings
<1>9. ASSUME NEW a \in Addrs, node_added(a)
      PROVE  PendingIsDurable' /\ WriteIsCurrent'
  BY <1>0, <1>2, <1>9, Types DEF BootFirst, node_added, thread
<1>10. ASSUME NEW a \in Addrs, cdb_stored(a)
       PROVE  PendingIsDurable' /\ WriteIsCurrent'
  <2>1. /\ UNCHANGED <<thread, callback, stack, writing>>
        /\ flash'.prov_pending = flash.prov_pending
    BY <1>0, <1>10 DEF TypeOK, cdb_stored
  <2> QED BY <1>0, <2>1 DEF thread, callback, stack
<1>11. CASE \/ link_failed \/ power_failed \/ auto_request_resumes
            \/ UNCHANGED vars
  BY <1>0, <1>11 DEF link_failed, power_failed, auto_request_resumes, NoWrite,
    vars, thread, callback, stack, settings
<1> QED
  BY <1>3, <1>4, <1>5, <1>6, <1>7, <1>8, <1>9, <1>10, <1>11
  DEF Next, Environment

-----------------------------------------------------------------------------
(* The theorems                                                            *)

LEMMA InitIInv == Init => IInv
<1> SUFFICES ASSUME Init PROVE IInv
  OBVIOUS
<1>1. TypeOK
  BY InitType
<1>2. Course
  BY DEF Init, Course, NodeInHand, BootFirst, SelfIsNode, RecordIsPending,
    JobIsRecorded, NoPending, NoWrite, self_addr
<1>3. Promises
  BY DEF Init, Promises, NeverStuckBusy, PairIntact, PendingIsDurable,
    WriteIsCurrent, NoWrite
<1> QED BY <1>1, <1>2, <1>3 DEF IInv

LEMMA NextIInv == IInv /\ [Next]_vars => IInv'
<1> SUFFICES ASSUME IInv, [Next]_vars PROVE IInv'
  OBVIOUS
<1>1. TypeOK'
  <2>1. CASE UNCHANGED vars
    BY <2>1 DEF IInv, TypeOK, vars, thread, flags, request, callback, choice,
      stack, callers, settings
  <2>2. CASE ShellStep
    BY <2>2, ShellType DEF IInv
  <2> QED
    BY <2>1, <2>2, BootType, ThreadType, AnswerType, ResumesType,
      EnvironmentType DEF Next, IInv
<1>2. Course'
  <2>1. CASE UNCHANGED vars
    BY <2>1, CourseFrame DEF IInv, vars, flags, callback, stack, callers,
      settings
  <2> QED
    BY <2>1, BootCourse, ThreadCourse, AnswerCourse, EnvironmentCourse DEF Next
<1>3. Promises'
  BY BusyStep, PairStep, DurableStep DEF Promises
<1> QED BY <1>1, <1>2, <1>3 DEF IInv

(* The inductive invariant holds in every state of the handler. *)
THEOREM Invariant == Spec => []IInv
BY InitIInv, NextIInv, PTL DEF Spec

(* Every variable keeps its type: the iteration never leaves the CDB, and the
   index of a rotating row always names one of its recipes. *)
THEOREM TypeCorrect == Spec => []TypeOK
<1>1. IInv => TypeOK
  BY DEF IInv
<1> QED BY <1>1, Invariant, PTL

(* The thread never waits for a request behind a busy flag that nobody is
   about to wake it for. *)
THEOREM BusyIsNeverStuck == Spec => []NeverStuckBusy
<1>1. IInv => NeverStuckBusy
  BY DEF IInv, Promises
<1> QED BY <1>1, Invariant, PTL

(* The thread never latches the UUID of one request with the recipe of
   another. *)
THEOREM RequestsAreNotMixed == Spec => []PairIntact
<1>1. IInv => PairIntact
  BY DEF IInv, Promises
<1> QED BY <1>1, Invariant, PTL

(* Flash holds the record of the last provisioned node. *)
THEOREM RecordIsDurable == Spec => []PendingIsDurable
<1>1. IInv => PendingIsDurable
  BY DEF IInv, Promises
<1> QED BY <1>1, Invariant, PTL

(* The record names a node the CDB holds and does not mark as configured, also
   after power failures that lost any part of what was not stored. *)
THEOREM RecordNamesItsNode == Spec => []PendingNamesItsNode
<1>1. IInv => PendingNamesItsNode
  BY DEF IInv, Course, BootFirst, RecordIsPending, PendingNamesItsNode
<1> QED BY <1>1, Invariant, PTL

(* A node that completes while the record names it was given the recipe of the
   record. *)
THEOREM RecordedRecipeIsKept == Spec => RecordKeepsRecipe
<1>1. IInv /\ [Next]_vars =>
        [pc = "apply" /\ prov_pending.recent_new_addr = cursor
           /\ prov_pending.recipe_id # RECIPE_NONE /\ prov_pending' = NoPending
           /\ pc' # "off"
         => job.recipe_id = prov_pending.recipe_id]_vars
  BY DEF IInv, Course, JobIsRecorded
<1> QED BY <1>1, Invariant, PTL DEF Spec, RecordKeepsRecipe

(* A rotating row moves on only when a node is completed with the recipe the
   row was at, or because the power failed. *)
THEOREM SlotsAreConsumedByTheirRecipe == Spec => SlotIsConsumedByItsRecipe
<1> DEFINE Consumed(row) ==
             /\ job.recipe_id = RecipesOf[row][recipe_idx[row]]
             /\ \E a \in Addrs \ {self_addr} :
                  ~cdb[a].configured /\ cdb'[a].configured
<1>1. ASSUME IInv, Next, NEW row \in Rows,
             recipe_idx'[row] # recipe_idx[row], pc' # "off"
      PROVE  Consumed(row)
  <2>1. CASE configure_node_done
    <3>1. row = job.row /\ job.recipe_id = scenario_row_peek_recipe_id(row)
      BY <1>1, <2>1 DEF IInv, TypeOK, configure_node_done,
        scenario_row_consume_recipe_id
    <3>2. /\ pc = "apply" /\ Configured
          /\ cursor \in Addrs \ {self_addr} /\ ~cdb[cursor].configured
      BY <1>1, <2>1 DEF IInv, Course, NodeInHand, configure_node_done
    <3>3. cdb'[cursor].configured
      BY <1>1, <3>2, ConfiguredType
    <3> QED BY <3>1, <3>2, <3>3 DEF scenario_row_peek_recipe_id
  <2>2. CASE ~configure_node_done
    <3>1. CASE Boot \/ Thread
      BY <1>1, <3>1 DEF Boot, provisioner_network_setup,
        provisioner_resume_pending_config, resume_saved, thread_start, Thread,
        check_unconfigured_skip, check_unconfigured, configure_node_saved,
        foreach_done, provision_adv, provision_adv_failed, node_added_taken,
        node_added_timeout, choice, callers, settings
    <3>2. CASE \/ Answer \/ ShellStep \/ node_added_saved
               \/ auto_request_resumes
      BY <1>1, <2>2, <3>2 DEF Answer, apply_failed, configure_self_done,
        ShellStep, shell_write_uuid, shell_write_recipe, shell_give, Shell,
        auto_request_resumes, node_added_saved, choice, callers, settings
    <3>3. CASE Environment
      BY <1>1, <3>3 DEF Environment, auto_request, auto_request_waits,
        shell_claim, node_added, cdb_stored, link_failed, name_heard,
        name_evicted, power_failed, choice, callers, settings
    <3> QED BY <1>1, <3>1, <3>2, <3>3 DEF Next
  <2> QED BY <2>1, <2>2
<1>2. IInv /\ [Next]_vars =>
        [\A row \in Rows :
           recipe_idx'[row] # recipe_idx[row] /\ pc' # "off"
             => Consumed(row)]_vars
  BY <1>1
<1> QED BY <1>2, Invariant, PTL DEF Spec, SlotIsConsumedByItsRecipe
=============================================================================
