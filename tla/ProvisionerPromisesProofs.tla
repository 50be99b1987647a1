---------------------- MODULE ProvisionerPromisesProofs ----------------------
(***************************************************************************)
(* Proofs about what becomes of a request (ProvisionerPromises), for every *)
(* network, every scenario and every power failure.  The chain has four    *)
(* links, each a part of the invariant: the pair of a request that no      *)
(* other one overlaps is its caller's (OneRequest); the session of an open *)
(* link is that of the request that opened it (LinkIsSession); the record, *)
(* in RAM or in flash, says what was asked for the device it names         *)
(* (RecordsAreAsked), which needs that the record in flash never names a   *)
(* free address (FlashNamesNode); the recipe applied to the node of the    *)
(* record is the recorded one (JobIsRecorded, of ProvisionerHandlerProofs).*)
(***************************************************************************)
EXTENDS ProvisionerPromises, ProvisionerHistoryProofs

AskedFor == RecipeIds \cup {Unknown}

PromisesTypeOK ==
  /\ made \in Request /\ early \in BOOLEAN
  /\ opened \in AskedFor /\ asked \in [Devices -> AskedFor]

(* Nothing is under way before the boot is over. *)
QuietBoot ==
  /\ handler_ready_flag = 0 =>
       /\ shell.at = "idle" /\ sem_provision_request = 0
       /\ link = None /\ adding = 0
  /\ pc \in {"foreach", "take", "wait"} => handler_ready_flag = 1
  /\ pc = "off" => prov_pending = NoPending

(* Without an early request there is at most one, and the thread waits for
   it. *)
OneRequest ==
  ~early =>
    /\ shell.at # "idle" \/ sem_provision_request = 1
         => pc = "take" /\ provision_busy_flag = 1
    /\ shell.at # "idle" =>
         /\ sem_provision_request = 0
         /\ made = [uuid |-> shell.uuid, recipe_id |-> RECIPE_NONE]
    /\ shell.at = "written" \/ sem_provision_request = 1 => pending = made
    /\ waiting = NoRequest

(* Who waits for the mutex waits for the shell. *)
WaitsForShell == waiting # NoRequest => shell.at \in {"locked", "written"}

LinkIsSession ==
  link # None /\ opened # Unknown => session_recipe_id = opened

(* While the power is on and the boot has looked at the record. *)
FlashNamesNode ==
  pc \notin {"off", "resume", "clear"}
    /\ flash.prov_pending.recent_new_addr # 0
  => cdb[flash.prov_pending.recent_new_addr].uuid \in Devices

WriteNamesNode ==
  writing.record.recent_new_addr # 0
    => cdb[writing.record.recent_new_addr].uuid \in Devices

RecordIsAsked(record, nodes) ==
  LET d == nodes[record.recent_new_addr].uuid
  IN  record.recent_new_addr # 0 /\ d \in Devices
        => asked[d] \in {record.recipe_id, Unknown}

RecordsAreAsked ==
  /\ pc = "off" => RecordIsAsked(flash.prov_pending, flash.cdb)
  /\ pc # "off" =>
       /\ RecordIsAsked(prov_pending, cdb)
       /\ RecordIsAsked(flash.prov_pending, cdb)
       /\ RecordIsAsked(writing.record, cdb)

PInv ==
  /\ PromisesTypeOK /\ QuietBoot /\ WaitsForShell /\ OneRequest
  /\ LinkIsSession /\ FlashNamesNode /\ WriteNamesNode /\ RecordsAreAsked

-----------------------------------------------------------------------------

LEMMA InitPInv == Init /\ PromisesInit => PInv
<1> SUFFICES ASSUME Init, PromisesInit PROVE PInv
  OBVIOUS
<1>1. PromisesTypeOK
  BY Types DEF PromisesInit, PromisesTypeOK, AskedFor
<1>2. QuietBoot
  BY DEF Init, QuietBoot
<1>3. WaitsForShell /\ OneRequest /\ LinkIsSession /\ FlashNamesNode
  BY DEF Init, WaitsForShell, OneRequest, LinkIsSession, FlashNamesNode
<1>4. WriteNamesNode /\ RecordsAreAsked
  BY DEF Init, WriteNamesNode, RecordsAreAsked, RecordIsAsked, NoPending,
    NoWrite
<1> QED BY <1>1, <1>2, <1>3, <1>4 DEF PInv

(* A record names a device of the CDB, not the provisioner. *)
LEMMA RecordNamesDevice ==
  ASSUME IInv, HInv, pc \notin {"off", "resume"},
         prov_pending.recent_new_addr # 0
  PROVE  PendingNode.uuid \in Devices
<1>1. /\ PendingNode # NoNode
      /\ prov_pending.recent_new_addr \in Addrs \ {self_addr}
  BY DEF IInv, TypeOK, Course, RecordIsPending, SelfIsNode, PendingRecord
<1> QED BY <1>1 DEF HInv, NodesAreDevices, OtherAddrs, PendingNode

(* Nodes keep their devices while the power is on. *)
LEMMA NodesKept ==
  ASSUME IInv, Next, pc # "off", pc' # "off", NEW b \in Addrs,
         cdb[b] # NoNode \/ ~NodeJoins
  PROVE  cdb'[b].uuid = cdb[b].uuid
<1>1. CASE Answer
  <2>1. pc = "apply"
    BY <1>1 DEF Answer, apply_failed, configure_self_done, configure_node_done
  <2>2. Configured \/ cdb' = cdb
    BY <1>1 DEF Answer, apply_failed, configure_self_done, configure_node_done,
      stack, callers, settings
  <2> QED BY <2>1, <2>2, ConfiguredType
<1>2. ASSUME NEW a \in Addrs, node_added(a)
      PROVE  cdb'[b].uuid = cdb[b].uuid
  <2>1. cdb[a] = NoNode /\ NodeJoins
    BY <1>2, Types DEF node_added, FreeAddrs, NodeJoins
  <2>2. a # b
    BY <2>1
  <2> QED BY <1>2, <2>2, JoinedType DEF IInv
<1>3. CASE cdb' = cdb
  BY <1>3
<1>4. CASE \/ Boot \/ Thread \/ ShellStep \/ node_added_saved
           \/ auto_request_resumes
  BY <1>3, <1>4 DEF auto_request_resumes, Boot, provisioner_network_setup,
    provisioner_resume_pending_config, resume_saved, thread_start, Thread,
    check_unconfigured_skip, check_unconfigured, configure_node_saved,
    foreach_done, provision_adv, provision_adv_failed, node_added_taken,
    node_added_timeout, ShellStep, shell_write_uuid, shell_write_recipe,
    shell_give, Shell, node_added_saved, stack, callers, settings
<1>5. CASE Environment
  BY <1>2, <1>3, <1>5 DEF Environment, auto_request, auto_request_waits,
    shell_claim, cdb_stored, link_failed, name_heard, name_evicted,
    power_failed, stack, callers, settings
<1> QED BY <1>1, <1>4, <1>5 DEF Next

-----------------------------------------------------------------------------
(* Types                                                                   *)

LEMMA PromisesTypes ==
  ASSUME IInv, PromisesTypeOK, Next, PromisesNext
  PROVE  PromisesTypeOK'
<1>1. TypeOK'
  BY NextIInv DEF IInv
<1>2. made' \in Request
  <2>1. shell' # shell /\ Accepted => shell'.uuid \in Devices \cup {None}
    BY <1>1 DEF TypeOK
  <2>2. pending' \in Request /\ waiting' \in Request
    BY <1>1 DEF TypeOK
  <2>3. NoRequest \in Request
    BY Types
  <2> QED BY <2>1, <2>2, <2>3 DEF PromisesNext, PromisesTypeOK, MadeBy, Request,
    RecipeIds
<1>3. early' \in BOOLEAN
  BY DEF PromisesNext, PromisesTypeOK
<1>4. opened' \in AskedFor
  BY DEF PromisesNext, PromisesTypeOK, Request, AskedFor
<1>5. asked' \in [Devices -> AskedFor]
  BY DEF PromisesNext, PromisesTypeOK, AskedFor
<1> QED BY <1>2, <1>3, <1>4, <1>5 DEF PromisesTypeOK

-----------------------------------------------------------------------------
(* The boot                                                                *)

LEMMA QuietFrame ==
  ASSUME QuietBoot,
         UNCHANGED <<pc, handler_ready_flag, shell, sem_provision_request,
                     prov_pending, waiting>>,
         link' \in {link, None}, adding' \in {adding, 0}, WaitsForShell
  PROVE  QuietBoot' /\ WaitsForShell'
BY DEF QuietBoot, WaitsForShell

LEMMA QuietKept ==
  ASSUME IInv, QuietBoot, WaitsForShell, Next
  PROVE  QuietBoot' /\ WaitsForShell'
<1>0. TypeOK /\ BootFirst
  BY DEF IInv, Course
<1>1. CASE Boot
  BY <1>0, <1>1 DEF Boot, provisioner_network_setup,
    provisioner_resume_pending_config, configure_node, resume_saved,
    thread_start, loop_top, QuietBoot, WaitsForShell, BootFirst, flags,
    request, callback, stack, callers, settings
<1>2. CASE Thread
  BY <1>0, <1>2 DEF Thread, check_unconfigured_skip, check_unconfigured,
    configure_node, configure_node_saved, return, foreach_done, latch,
    provision_adv, provision_adv_failed, node_added_taken, node_added_timeout,
    loop_top, QuietBoot, WaitsForShell, TypeOK, flags, request, callback,
    stack, callers, settings
<1>3. CASE Answer
  BY <1>0, <1>3 DEF Answer, apply_failed, configure_self_done,
    configure_node_done, return, QuietBoot, WaitsForShell, TypeOK, flags,
    request, callback, stack, callers, settings
<1>4. CASE ShellStep
  BY <1>0, <1>4 DEF ShellStep, shell_write_uuid, shell_write_recipe,
    shell_give, Shell, MutexFree, QuietBoot, WaitsForShell, TypeOK, thread,
    callback, stack, callers, settings
<1>10. CASE auto_request_resumes
  BY <1>0, <1>10 DEF auto_request_resumes, QuietBoot, WaitsForShell, TypeOK,
    thread, flags, callback, stack
<1>5. CASE node_added_saved \/ link_failed
  BY <1>5, QuietFrame DEF node_added_saved, link_failed, thread, flags,
    request, callback, callers, settings
<1>6. ASSUME NEW d \in Devices,
             auto_request(d) \/ auto_request_waits(d) \/ shell_claim(d)
      PROVE  QuietBoot' /\ WaitsForShell'
  BY <1>0, <1>6 DEF auto_request, auto_request_waits, shell_claim, MutexFree,
    QuietBoot, WaitsForShell, TypeOK, thread, callback, stack, callers, settings
<1>7. ASSUME NEW a \in Addrs, node_added(a)
      PROVE  QuietBoot' /\ WaitsForShell'
  BY <1>0, <1>7 DEF node_added, QuietBoot, WaitsForShell, BootFirst, thread,
    flags, request, callers, settings
<1>8. CASE \/ \E a \in Addrs : cdb_stored(a)
           \/ \E d \in Devices : name_heard(d) \/ name_evicted(d)
  BY <1>8, QuietFrame DEF cdb_stored, name_heard, name_evicted, thread, flags,
    request, callback, stack, callers, settings
<1>9. CASE power_failed
  BY <1>9 DEF power_failed, QuietBoot, WaitsForShell
<1> QED BY <1>1, <1>2, <1>3, <1>4, <1>5, <1>6, <1>7, <1>8, <1>9,
           <1>10
        DEF Next, Environment

-----------------------------------------------------------------------------
(* One request at a time                                                   *)

(* A step that is no part of a request. *)
LEMMA RequestFrame ==
  ASSUME OneRequest, PromisesNext,
         UNCHANGED <<request, callers, provision_busy_flag>>,
         pc' = pc \/ pc # "take", pc' # "off" \/ pc = "off",
         QuietBoot, BootFirst, WaitsForShell
  PROVE  OneRequest'
<1>1. ~Accepted /\ ~Taken
  BY DEF Accepted, Taken, request, callers, settings
<1>2. (~early' => made' = made) /\ (early' = early \/ (pc = "off" /\ ~early'))
  BY <1>1 DEF PromisesNext
<1> QED BY <1>2 DEF OneRequest, QuietBoot, BootFirst, WaitsForShell, request,
  callers

LEMMA RequestKept ==
  ASSUME IInv, PInv, Next, PromisesNext
  PROVE  OneRequest'
<1>0. /\ TypeOK /\ BootFirst /\ PairIntact
      /\ QuietBoot /\ WaitsForShell /\ OneRequest /\ early \in BOOLEAN
  BY DEF IInv, Course, Promises, PInv, PromisesTypeOK
<1>1. CASE Boot
  BY <1>0, <1>1, RequestFrame DEF Boot, provisioner_network_setup,
    provisioner_resume_pending_config, configure_node, resume_saved,
    thread_start, loop_top, flags, callers, settings
<1>2. CASE Answer
  BY <1>0, <1>2, RequestFrame DEF Answer, apply_failed, configure_self_done,
    configure_node_done, return, flags, callers, settings
<1>3. CASE \/ check_unconfigured_skip \/ check_unconfigured
           \/ configure_node_saved \/ node_added_taken
  BY <1>0, <1>3, RequestFrame DEF check_unconfigured_skip, check_unconfigured,
    configure_node, configure_node_saved, return, node_added_taken, loop_top,
    flags, callers, settings
<1>4. CASE foreach_done \/ node_added_timeout
  <2>1. /\ pc \in {"foreach", "wait"} /\ pc' # "off"
        /\ UNCHANGED <<request, callers>> /\ provision_busy_flag' = 0
    BY <1>4 DEF foreach_done, node_added_timeout, loop_top
  <2>2. ~Accepted /\ ~Taken
    BY <2>1 DEF Accepted, Taken, request, callers, settings
  <2>3. early' = early
    BY <2>1, <2>2 DEF PromisesNext
  <2> QED BY <1>0, <2>1, <2>3 DEF OneRequest, request, callers, settings
<1>5. CASE provision_adv \/ provision_adv_failed
  <2>1. /\ pc' # "off" /\ UNCHANGED callers /\ sem_provision_request' = 0
        /\ Taken /\ ~Accepted
    BY <1>0, <1>5 DEF provision_adv, provision_adv_failed, latch, loop_top,
      flags, Taken, Accepted, callers, settings
  <2>2. shell.at # "idle" => early' = early
    BY <2>1 DEF PromisesNext
  <2>3. shell.at # "idle" => early
    BY <1>0, <1>5 DEF OneRequest, provision_adv, provision_adv_failed, latch
  <2>4. waiting # NoRequest => early'
    BY <1>0, <2>2, <2>3 DEF WaitsForShell
  <2> QED BY <2>1, <2>2, <2>3, <2>4 DEF OneRequest, callers
<1>6. ASSUME NEW d \in Devices, auto_request(d)
      PROVE  OneRequest'
  <2>1. /\ Accepted /\ pc' = pc /\ UNCHANGED callers /\ waiting = NoRequest
        /\ provision_busy_flag' = 1 /\ provision_busy_flag = 0
    BY <1>6 DEF auto_request, auto_request_waits, Accepted, thread, callers,
      settings
  <2>0. ~Taken
    BY <1>6 DEF auto_request, Given, Taken
  <2>2. (~early' => made' = pending') /\ early' = (early \/ pc # "take")
    BY <2>0, <2>1 DEF PromisesNext, MadeBy, callers
  <2>3. ~early' => ~early /\ pc = "take"
    BY <2>2, Zenon
  <2>4. ~early' => shell.at = "idle"
    BY <1>0, <2>1, <2>3 DEF OneRequest
  <2> QED BY <2>1, <2>2, <2>3, <2>4 DEF OneRequest, callers
<1>11. ASSUME NEW d \in Devices, auto_request_waits(d)
       PROVE  OneRequest'
  <2>1. /\ Accepted /\ shell.at # "idle" /\ provision_busy_flag = 0
    BY <1>11 DEF auto_request_waits, Accepted, MutexFree
  <2>2. early
    BY <1>0, <2>1 DEF OneRequest
  <2>3. early'
    BY <2>1, <2>2 DEF PromisesNext
  <2> QED BY <2>3 DEF OneRequest
<1>12. CASE auto_request_resumes
  <2>1. ~Accepted /\ ~Taken /\ early /\ pc' = pc /\ pc # "off"
    BY <1>0, <1>12 DEF auto_request_resumes, OneRequest, WaitsForShell,
      QuietBoot, BootFirst, Accepted, Taken, Given, flags, thread
  <2>2. early'
    BY <2>1 DEF PromisesNext
  <2> QED BY <2>2 DEF OneRequest
<1>7. ASSUME NEW d \in Devices, shell_claim(d)
      PROVE  OneRequest'
  <2>1. /\ Accepted /\ pc' = pc /\ shell.at = "idle"
        /\ shell' = [at |-> "claimed", uuid |-> d]
        /\ provision_busy_flag' = 1 /\ provision_busy_flag = 0
        /\ UNCHANGED request /\ waiting' = waiting
    BY <1>7 DEF shell_claim, Accepted, thread
  <2>0. ~Taken
    BY <2>1 DEF Taken, request
  <2>2. ~early' => made' = [uuid |-> d, recipe_id |-> RECIPE_NONE]
    BY <2>0, <2>1 DEF PromisesNext, MadeBy
  <2>3. ~early' => ~early /\ pc = "take"
    BY <2>1 DEF PromisesNext
  <2>4. ~early' => sem_provision_request' = 0
    BY <1>0, <2>1, <2>3 DEF OneRequest, request, TypeOK, callers, settings
  <2> QED BY <1>0, <2>1, <2>2, <2>3, <2>4 DEF OneRequest
<1>8. CASE ShellStep
  <2>1. /\ pc' = pc /\ provision_busy_flag' = provision_busy_flag
        /\ shell.at # "idle" /\ waiting' = waiting
    BY <1>8 DEF ShellStep, shell_write_uuid, shell_write_recipe, shell_give,
      Shell, thread, callers, settings
  <2>2. ~Accepted /\ ~Taken /\ pc' # "off"
    BY <1>0, <1>8, <2>1 DEF ShellStep, shell_write_uuid, shell_write_recipe,
      shell_give, Given, Accepted, Taken, TypeOK, QuietBoot, BootFirst
  <2>3. (~early' => made' = made) /\ early' = early
    BY <2>2 DEF PromisesNext
  <2>4. CASE shell_write_uuid
    BY <1>0, <2>1, <2>3, <2>4 DEF OneRequest, shell_write_uuid, Shell
  <2>5. CASE shell_write_recipe
    <3>1. /\ pending' = [pending EXCEPT !.recipe_id = RECIPE_NONE]
          /\ pending.uuid = shell.uuid /\ pending \in Request
      BY <1>0, <2>5 DEF shell_write_recipe, Shell, PairIntact, TypeOK
    <3>2. pending' = [uuid |-> shell.uuid, recipe_id |-> RECIPE_NONE]
      BY <3>1 DEF Request
    <3> QED BY <1>0, <2>1, <2>3, <2>5, <3>2
            DEF OneRequest, shell_write_recipe, Shell
  <2>6. CASE shell_give
    BY <1>0, <2>1, <2>3, <2>6 DEF OneRequest, shell_give, Shell
  <2> QED BY <1>8, <2>4, <2>5, <2>6 DEF ShellStep
<1>9. CASE \/ node_added_saved \/ link_failed
           \/ \E a \in Addrs : node_added(a) \/ cdb_stored(a)
           \/ \E d \in Devices : name_heard(d) \/ name_evicted(d)
  BY <1>0, <1>9, RequestFrame DEF node_added_saved, link_failed, node_added,
    cdb_stored, name_heard, name_evicted, thread, flags, callers, settings
<1>10. CASE power_failed
  BY <1>10 DEF power_failed, OneRequest
<1> QED BY <1>1, <1>2, <1>3, <1>4, <1>5, <1>6, <1>7, <1>8, <1>9, <1>10,
           <1>11, <1>12
        DEF Next, Thread, Environment

-----------------------------------------------------------------------------
(* The link and its session                                                *)

(* Links are opened, and sessions begun, by nobody but the thread. *)
LEMMA LinkKept ==
  ASSUME IInv, PInv, Next, PromisesNext
  PROVE  LinkIsSession'
<1>0. LinkIsSession /\ OneRequest
  BY DEF PInv
<1>1. CASE provision_adv
  <2>1. /\ Taken /\ link = None /\ session_recipe_id' = pending.recipe_id
        /\ sem_provision_request = 1
    BY <1>1 DEF provision_adv, latch, Taken
  <2>2. link' # None =>
          opened' = IF ~early THEN made.recipe_id ELSE Unknown
    BY <2>1 DEF PromisesNext
  <2>3. ~early => made.recipe_id = pending.recipe_id
    BY <1>0, <2>1 DEF OneRequest
  <2> QED BY <2>1, <2>2, <2>3 DEF LinkIsSession
<1>2. CASE provision_adv_failed
  <2>1. Taken /\ link' = link
    BY <1>2 DEF provision_adv_failed, latch, loop_top, Taken, stack, callers,
      settings
  <2>2. link # None => opened' = Unknown
    BY <2>1 DEF PromisesNext
  <2> QED BY <2>1, <2>2 DEF LinkIsSession
<1>3. CASE link' = None
  BY <1>3 DEF LinkIsSession
<1>4. CASE UNCHANGED <<link, session_recipe_id, sem_provision_request>>
  <2>1. ~Taken
    BY <1>4 DEF Taken
  <2>2. link' # None => opened' = opened
    BY <2>1 DEF PromisesNext
  <2> QED BY <1>0, <1>4, <2>2 DEF LinkIsSession
<1>5. CASE ShellStep
  <2>1. link' = link /\ session_recipe_id' = session_recipe_id /\ ~Taken
    BY <1>5 DEF ShellStep, shell_write_uuid, shell_write_recipe, shell_give,
      Shell, Given, Taken, choice, stack, callers, settings
  <2>2. link' # None => opened' = opened
    BY <2>1 DEF PromisesNext
  <2> QED BY <1>0, <2>1, <2>2 DEF LinkIsSession
<1>6. CASE auto_request_resumes \/ \E d \in Devices : auto_request(d)
  <2>1. link' = link /\ session_recipe_id' = session_recipe_id /\ ~Taken
    BY <1>6 DEF auto_request, auto_request_resumes, Given, Taken, choice, stack
  <2>2. link' # None => opened' = opened
    BY <2>1 DEF PromisesNext
  <2> QED BY <1>0, <2>1, <2>2 DEF LinkIsSession
<1>7. CASE Boot \/ Answer
  BY <1>4, <1>7 DEF Boot, provisioner_network_setup,
    provisioner_resume_pending_config, resume_saved, thread_start, Answer,
    apply_failed, configure_self_done, configure_node_done, request, choice,
    stack, callers, settings
<1>8. CASE \/ check_unconfigured_skip \/ check_unconfigured
           \/ configure_node_saved \/ foreach_done
           \/ node_added_taken \/ node_added_timeout
  BY <1>4, <1>8 DEF check_unconfigured_skip, check_unconfigured,
    configure_node_saved, foreach_done, node_added_taken, node_added_timeout,
    request, choice, stack, callers, settings
<1>9. CASE \/ \E a \in Addrs : node_added(a) \/ cdb_stored(a)
           \/ \E d \in Devices : \/ auto_request_waits(d) \/ shell_claim(d)
                                 \/ name_heard(d) \/ name_evicted(d)
  BY <1>4, <1>9 DEF auto_request_waits, node_added, cdb_stored, shell_claim,
    name_heard, name_evicted, request, choice, stack, callers, settings
<1>10. CASE node_added_saved \/ link_failed \/ power_failed
  BY <1>3, <1>10 DEF node_added_saved, link_failed, power_failed, callers,
    settings
<1> QED BY <1>1, <1>2, <1>5, <1>6, <1>7, <1>8, <1>9, <1>10
        DEF Next, Thread, Environment

-----------------------------------------------------------------------------
(* The record and what was asked for                                       *)

(* How a step changes the three records: not at all, or RAM's is emptied, or
   what is being written gets to flash, or one is made for the node that
   joins. *)
LEMMA RecordSteps ==
  ASSUME IInv, QuietBoot, Next, pc # "off", pc' # "off"
  PROVE  \/ /\ prov_pending' \in {prov_pending, NoPending}
            /\ flash'.prov_pending = flash.prov_pending
            /\ writing'.record \in {writing.record, NoPending}
            /\ pc # "clear" \/ pc' = "clear"
            /\ ~NodeJoins
         \/ /\ prov_pending' = prov_pending
            /\ flash'.prov_pending = writing.record
            /\ writing'.record \in {prov_pending, NoPending}
            /\ pc # "resume" /\ ~NodeJoins
         \/ \E a \in Addrs : node_added(a)
<1>0. TypeOK /\ QuietBoot /\ BootFirst
  BY DEF IInv, Course
<1>1. CASE resume_saved \/ configure_node_saved
  BY <1>0, <1>1, SaveEndsType DEF resume_saved, configure_node_saved, callback,
    stack, NodeJoins
<1>2. CASE node_added_saved
  BY <1>0, <1>2, SaveEndsType DEF node_added_saved, QuietBoot, BootFirst,
    NodeJoins
<1>3. CASE provisioner_resume_pending_config \/ configure_node_done
  BY <1>3 DEF provisioner_resume_pending_config, configure_node_done,
    prov_pending_save, stack, NodeJoins
<1>4. CASE provisioner_network_setup \/ thread_start
  BY <1>4 DEF provisioner_network_setup, thread_start, stack, NodeJoins,
    settings
<1>5. CASE \/ check_unconfigured_skip \/ check_unconfigured \/ foreach_done
           \/ provision_adv \/ provision_adv_failed
           \/ node_added_taken \/ node_added_timeout
  BY <1>5 DEF check_unconfigured_skip, check_unconfigured, foreach_done, latch,
    provision_adv, provision_adv_failed, node_added_taken, node_added_timeout,
    callback, stack, NodeJoins, settings
<1>6. CASE apply_failed \/ configure_self_done
  BY <1>6 DEF apply_failed, configure_self_done, callback, stack, NodeJoins,
    settings
<1>7. CASE ShellStep \/ auto_request_resumes
  BY <1>7 DEF ShellStep, shell_write_uuid, shell_write_recipe, shell_give,
    Shell, auto_request_resumes, thread, callback, stack, NodeJoins, settings
<1>8. ASSUME NEW a \in Addrs, cdb_stored(a)
      PROVE  /\ UNCHANGED <<pc, prov_pending, flash.prov_pending, writing>>
             /\ ~NodeJoins
  BY <1>0, <1>8 DEF cdb_stored, TypeOK, thread, callback, stack, NodeJoins
<1>9. CASE \/ link_failed
           \/ \E d \in Devices : \/ auto_request(d) \/ auto_request_waits(d)
                                 \/ shell_claim(d)
                                 \/ name_heard(d) \/ name_evicted(d)
  BY <1>9 DEF link_failed, auto_request, auto_request_waits, shell_claim,
    name_heard, name_evicted, thread, callback, stack, NodeJoins, settings
<1>10. CASE power_failed
  BY <1>10 DEF power_failed
<1> QED BY <1>1, <1>2, <1>3, <1>4, <1>5, <1>6, <1>7, <1>8, <1>9, <1>10
        DEF Next, Boot, Thread, Answer, Environment

(* The power comes back, or goes. *)
LEMMA PowerSteps ==
  ASSUME IInv, QuietBoot, WaitsForShell, Next, pc = "off" \/ pc' = "off"
  PROVE  \/ provisioner_network_setup
         \/ power_failed
         \/ UNCHANGED <<pc, cdb, prov_pending, flash, writing>> /\ ~NodeJoins
<1>0. BootFirst
  BY DEF IInv, Course
<1>1. CASE Boot \/ Thread \/ Answer
  BY <1>1 DEF Boot, provisioner_resume_pending_config, configure_node,
    resume_saved, thread_start, loop_top, Thread, check_unconfigured_skip,
    check_unconfigured, configure_node_saved, return, foreach_done, latch,
    provision_adv, provision_adv_failed, node_added_taken, node_added_timeout,
    Answer, apply_failed, configure_self_done, configure_node_done
<1>2. CASE ShellStep \/ auto_request_resumes
  BY <1>2 DEF ShellStep, shell_write_uuid, shell_write_recipe, shell_give,
    Shell, auto_request_resumes, thread, callback, stack, NodeJoins, settings
<1>3. ASSUME NEW d \in Devices,
             \/ auto_request(d) \/ auto_request_waits(d) \/ shell_claim(d)
             \/ name_heard(d) \/ name_evicted(d)
      PROVE  UNCHANGED <<pc, cdb, prov_pending, flash, writing>> /\ ~NodeJoins
  BY <1>3 DEF auto_request, auto_request_waits, shell_claim, name_heard,
    name_evicted, thread, callback, stack, NodeJoins, settings
<1>4. CASE link_failed
  BY <1>4 DEF link_failed, thread, callback, NodeJoins, settings
<1>5. ASSUME node_added_saved \/ \E a \in Addrs : node_added(a) \/ cdb_stored(a)
      PROVE  FALSE
  BY <1>0, <1>5 DEF node_added_saved, node_added, cdb_stored, thread,
    BootFirst, QuietBoot
<1> QED BY <1>1, <1>2, <1>3, <1>4, <1>5 DEF Next, Environment

(* Before the power comes back nobody writes. *)
LEMMA NothingWritten ==
  ASSUME IInv, QuietBoot, pc = "off"
  PROVE  writing.record = NoPending
BY DEF IInv, Promises, WriteIsCurrent, TypeOK

(* The nodes that are devices stay so while the power is on. *)
LEMMA DevicesKept ==
  ASSUME IInv, Next, pc # "off", pc' # "off", NEW y \in Addrs,
         cdb[y].uuid \in Devices
  PROVE  cdb'[y].uuid \in Devices
<1>1. cdb[y] # NoNode
  BY SentinelAssumption DEF NoNode
<1> QED BY <1>1, NodesKept

LEMMA WriteNamesKept ==
  ASSUME IInv, HInv, PInv, Next
  PROVE  WriteNamesNode'
<1>0. /\ QuietBoot /\ WaitsForShell /\ WriteNamesNode /\ TypeOK
      /\ \A record \in PendingRecord : record.recent_new_addr \in {0} \cup Addrs
      /\ writing.record \in PendingRecord /\ prov_pending \in PendingRecord
      /\ NoPending.recent_new_addr = 0
  BY DEF PInv, IInv, TypeOK, PendingRecord, NoPending
<1>1. CASE pc = "off" \/ pc' = "off"
  <2>1. CASE provisioner_network_setup
    <3>1. writing' = writing /\ writing.record = NoPending
      BY <1>0, <2>1, NothingWritten DEF provisioner_network_setup, settings
    <3> QED BY <1>0, <3>1 DEF WriteNamesNode
  <2>2. CASE power_failed
    BY <1>0, <2>2 DEF power_failed, NoWrite, WriteNamesNode
  <2> QED BY <1>0, <1>1, <2>1, <2>2, PowerSteps DEF WriteNamesNode
<1>2. CASE pc # "off" /\ pc' # "off"
  <2>1. CASE writing'.record \in {writing.record, NoPending}
    BY <1>0, <1>2, <2>1, DevicesKept DEF WriteNamesNode
  <2>2. CASE writing'.record = prov_pending /\ pc # "resume"
    <3>1. prov_pending.recent_new_addr # 0
            => cdb[prov_pending.recent_new_addr].uuid \in Devices
      BY <1>2, <2>2, RecordNamesDevice DEF PendingNode
    <3> QED BY <1>0, <1>2, <2>2, <3>1, DevicesKept DEF WriteNamesNode
  <2>3. ASSUME NEW a \in Addrs, node_added(a),
               writing'.record \notin {writing.record, NoPending}
        PROVE  WriteNamesNode'
    <3>1. writing'.record.recent_new_addr = a
      BY <2>3 DEF node_added, prov_pending_save
    <3>2. cdb'[a].uuid = link /\ link \in Devices
      BY <1>0, <2>3, JoinedType DEF TypeOK, node_added
    <3> QED BY <3>1, <3>2 DEF WriteNamesNode
  <2> QED BY <1>0, <1>2, <2>1, <2>2, <2>3, RecordSteps
<1> QED BY <1>1, <1>2

LEMMA FlashNamesKept ==
  ASSUME IInv, HInv, PInv, Next
  PROVE  FlashNamesNode'
<1>0. /\ QuietBoot /\ WaitsForShell /\ FlashNamesNode /\ WriteNamesNode
      /\ TypeOK /\ BootFirst /\ PendingIsDurable
      /\ flash.prov_pending.recent_new_addr \in {0} \cup Addrs
      /\ writing.record.recent_new_addr \in {0} \cup Addrs
  BY DEF PInv, IInv, Course, Promises, TypeOK, PendingRecord
<1>1. CASE pc = "off" \/ pc' = "off"
  BY <1>0, <1>1, PowerSteps DEF FlashNamesNode, provisioner_network_setup,
    power_failed
<1>2. CASE pc # "off" /\ pc' # "off"
  <2>1. CASE flash'.prov_pending = writing.record
    BY <1>0, <1>2, <2>1, DevicesKept DEF FlashNamesNode, WriteNamesNode
  <2>2. CASE flash'.prov_pending = flash.prov_pending /\ pc # "resume"
             /\ (pc # "clear" \/ pc' = "clear")
    BY <1>0, <1>2, <2>2, DevicesKept DEF FlashNamesNode
  <2>3. CASE flash'.prov_pending = flash.prov_pending /\ pc = "resume"
    <3>1. handler_ready_flag = 0 /\ adding = 0
      BY <1>0, <2>3 DEF BootFirst, QuietBoot
    <3>2. flash.prov_pending = prov_pending
      BY <1>0, <2>3, <3>1 DEF PendingIsDurable
    <3>3. \/ provisioner_resume_pending_config
          \/ pc' = "resume"
      BY <1>2, <2>3, <3>1 DEF Next, Boot, provisioner_network_setup,
        resume_saved, thread_start, Thread, check_unconfigured_skip,
        check_unconfigured, configure_node_saved, foreach_done, latch,
        provision_adv, provision_adv_failed, node_added_taken,
        node_added_timeout, Answer, apply_failed, configure_self_done,
        configure_node_done, ShellStep, shell_write_uuid, shell_write_recipe,
        shell_give, Shell, auto_request_resumes, node_added_saved, Environment,
        auto_request, auto_request_waits, shell_claim, node_added, cdb_stored,
        link_failed, name_heard, name_evicted, power_failed, thread
    <3>4. ASSUME pc' \notin {"resume", "clear"},
                 prov_pending.recent_new_addr # 0
          PROVE  cdb[prov_pending.recent_new_addr].uuid \in Devices
      <4>1. PendingNode # NoNode
        BY <3>3, <3>4 DEF provisioner_resume_pending_config, Resumable, Stale
      <4>2. prov_pending.recent_new_addr \in Addrs \ {self_addr}
        BY <1>0, <3>2, <3>4 DEF IInv, Course, SelfIsNode
      <4> QED BY <4>1, <4>2 DEF HInv, NodesAreDevices, OtherAddrs, PendingNode
    <3> QED BY <1>0, <1>2, <2>3, <3>2, <3>4, DevicesKept DEF FlashNamesNode
  <2>4. ASSUME NEW a \in Addrs, node_added(a)
        PROVE  /\ flash'.prov_pending = flash.prov_pending
               /\ pc # "resume" /\ pc # "clear"
    BY <1>0, <2>4, SentinelAssumption DEF node_added, QuietBoot, BootFirst
  <2> QED BY <1>0, <1>2, <2>1, <2>2, <2>3, <2>4, RecordSteps
<1> QED BY <1>1, <1>2

(* The devices a step does not let join keep what was asked for them, or are
   named by no record any more. *)
LEMMA AskedKept ==
  ASSUME PInv, PromisesNext, NEW d \in Devices, ~(NodeJoins /\ d = link)
  PROVE  asked'[d] \in {asked[d], Unknown}
BY DEF PromisesNext, PInv, PromisesTypeOK

LEMMA RecordsKept ==
  ASSUME IInv, HInv, PInv, Next, PromisesNext
  PROVE  RecordsAreAsked'
<1>0. /\ QuietBoot /\ WaitsForShell /\ RecordsAreAsked
      /\ FlashNamesNode /\ WriteNamesNode /\ LinkIsSession
      /\ TypeOK /\ BootFirst
      /\ prov_pending \in PendingRecord /\ flash.prov_pending \in PendingRecord
      /\ writing.record \in PendingRecord
      /\ \A record \in PendingRecord : record.recent_new_addr \in {0} \cup Addrs
  BY DEF PInv, IInv, Course, TypeOK, PendingRecord
<1>1. CASE provisioner_network_setup
  <2>1. /\ pc = "off" /\ pc' = "resume" /\ flash' = flash
        /\ writing' = writing
        /\ prov_pending' = flash.prov_pending /\ ~NodeJoins
        /\ cdb' = IF flash.cdb[self_addr] = NoNode
                  THEN [flash.cdb EXCEPT ![self_addr].uuid = dev_uuid]
                  ELSE flash.cdb
    BY <1>1 DEF provisioner_network_setup, settings, NodeJoins
  <2>2. flash.prov_pending.recent_new_addr # self_addr
    BY DEF IInv, Course, SelfIsNode
  <2>3. flash.prov_pending.recent_new_addr # 0 =>
          cdb'[flash.prov_pending.recent_new_addr]
            = flash.cdb[flash.prov_pending.recent_new_addr]
    BY <1>0, <2>1, <2>2 DEF TypeOK
  <2>4. \A d \in Devices : asked'[d] \in {asked[d], Unknown}
    BY <2>1, AskedKept
  <2>5. writing'.record.recent_new_addr = 0
    BY <1>0, <2>1, NothingWritten DEF NoPending
  <2> QED BY <1>0, <2>1, <2>3, <2>4, <2>5 DEF RecordsAreAsked, RecordIsAsked
<1>2. CASE power_failed /\ pc # "off"
  <2>1. pc' = "off" /\ flash' = flash /\ ~NodeJoins
    BY <1>2 DEF power_failed, NodeJoins
  <2>2. \A d \in Devices : asked'[d] \in {asked[d], Unknown}
    BY <2>1, AskedKept
  <2>3. \A y \in Addrs :
          flash.cdb[y].uuid \in Devices => cdb[y].uuid = flash.cdb[y].uuid
    BY <1>2, SentinelAssumption DEF HInv, StoredIsKnown, NoNode
  <2> QED BY <1>0, <1>2, <2>1, <2>2, <2>3 DEF RecordsAreAsked, RecordIsAsked
<1>3. CASE UNCHANGED <<pc, cdb, prov_pending, flash, writing>> /\ ~NodeJoins
  <2>1. \A d \in Devices : asked'[d] \in {asked[d], Unknown}
    BY <1>3, AskedKept
  <2> QED BY <1>0, <1>3, <2>1 DEF RecordsAreAsked, RecordIsAsked
<1>4. CASE pc # "off" /\ pc' # "off" /\ ~NodeJoins
  <2>1. \A d \in Devices : asked'[d] \in {asked[d], Unknown}
    BY <1>4, AskedKept
  <2>2. \A y \in Addrs : cdb'[y].uuid = cdb[y].uuid
    BY <1>4, NodesKept
  <2>3. /\ prov_pending' \in {prov_pending, NoPending}
        /\ flash'.prov_pending \in {flash.prov_pending, writing.record}
        /\ writing'.record \in {writing.record, prov_pending, NoPending}
    <3>1. \A a \in Addrs : node_added(a) => NodeJoins
      BY Types DEF node_added, NodeJoins
    <3> QED BY <1>0, <1>4, <3>1, RecordSteps
  <2>4. ASSUME NEW record \in PendingRecord, RecordIsAsked(record, cdb)
        PROVE  RecordIsAsked(record, cdb)'
    BY <1>0, <2>1, <2>2, <2>4 DEF RecordIsAsked
  <2>5. RecordIsAsked(NoPending, cdb)'
    BY DEF RecordIsAsked, NoPending
  <2>6. RecordIsAsked(prov_pending, cdb)'
    BY <1>0, <1>4, <2>3, <2>4, <2>5 DEF RecordsAreAsked, RecordIsAsked
  <2>7. RecordIsAsked(flash.prov_pending, cdb)'
    BY <1>0, <1>4, <2>3, <2>4, <2>5 DEF RecordsAreAsked, RecordIsAsked
  <2>8. RecordIsAsked(writing.record, cdb)'
    BY <1>0, <1>4, <2>3, <2>4, <2>5 DEF RecordsAreAsked, RecordIsAsked
  <2> QED BY <1>4, <2>6, <2>7, <2>8 DEF RecordsAreAsked
<1>5. ASSUME NEW a \in Addrs, node_added(a)
      PROVE  RecordsAreAsked'
  <2>1. /\ NodeJoins /\ link \in Devices /\ link \notin InCdb
        /\ cdb[a] = NoNode /\ pc' = pc /\ flash' = flash
        /\ prov_pending' = [recent_new_addr |-> a,
                            recipe_id |-> session_recipe_id]
        /\ writing'.record \in {writing.record, prov_pending'}
    BY <1>0, <1>5, Types DEF node_added, prov_pending_save, NodeJoins,
      FreeAddrs, TypeOK, thread
  <2>2. handler_ready_flag # 0 /\ pc \notin {"off", "resume", "clear"}
    BY <1>0, <2>1, SentinelAssumption DEF QuietBoot, BootFirst
  <2>3. /\ cdb'[a].uuid = link
        /\ \A b \in Addrs : b # a => cdb'[b] = cdb[b]
    BY <1>0, <1>5, JoinedType
  <2>4. asked'[link] = opened /\ opened \in {session_recipe_id, Unknown}
    BY <1>0, <2>1, SentinelAssumption
       DEF PromisesNext, PInv, PromisesTypeOK, LinkIsSession
  <2>5. RecordIsAsked(prov_pending, cdb)'
    BY <2>1, <2>3, <2>4 DEF RecordIsAsked
  <2>6. ASSUME NEW record \in PendingRecord, RecordIsAsked(record, cdb),
               record.recent_new_addr # 0
                 => cdb[record.recent_new_addr].uuid \in Devices
        PROVE  \/ record.recent_new_addr = 0
               \/ asked'[cdb'[record.recent_new_addr].uuid]
                    \in {record.recipe_id, Unknown}
    <3> SUFFICES ASSUME record.recent_new_addr # 0
                 PROVE  asked'[cdb'[record.recent_new_addr].uuid]
                          \in {record.recipe_id, Unknown}
      OBVIOUS
    <3> DEFINE x == record.recent_new_addr
    <3>1. x \in Addrs /\ cdb[x].uuid \in Devices
      BY <1>0, <2>6
    <3>2. x # a /\ cdb[x].uuid # link
      BY <2>1, <3>1, SentinelAssumption DEF NoNode, InCdb
    <3>3. /\ cdb'[x] = cdb[x]
          /\ asked'[cdb[x].uuid] \in {asked[cdb[x].uuid], Unknown}
      BY <2>3, <3>1, <3>2, AskedKept
    <3> QED BY <2>6, <3>1, <3>3 DEF RecordIsAsked
  <2>7. RecordIsAsked(flash.prov_pending, cdb)'
    BY <1>0, <2>1, <2>2, <2>6
       DEF RecordIsAsked, RecordsAreAsked, FlashNamesNode
  <2>8. RecordIsAsked(writing.record, cdb)'
    <3>1. CASE writing'.record = writing.record
      BY <1>0, <2>2, <2>6, <3>1
         DEF RecordIsAsked, RecordsAreAsked, WriteNamesNode
    <3>2. CASE writing'.record = prov_pending'
      BY <2>5, <3>2 DEF RecordIsAsked
    <3> QED BY <2>1, <3>1, <3>2
  <2> QED BY <2>1, <2>2, <2>5, <2>7, <2>8 DEF RecordsAreAsked
<1>6. pc # "off" /\ pc' # "off" /\ NodeJoins => \E a \in Addrs : node_added(a)
  BY <1>0, RecordSteps
<1>7. pc # "off" \/ ~power_failed
  BY DEF power_failed
<1>8. pc = "off" \/ pc' = "off" =>
        \/ provisioner_network_setup \/ power_failed
        \/ UNCHANGED <<pc, cdb, prov_pending, flash, writing>> /\ ~NodeJoins
  BY <1>0, PowerSteps
<1> QED BY <1>1, <1>2, <1>3, <1>4, <1>5, <1>6, <1>7, <1>8

-----------------------------------------------------------------------------
(* The promises                                                            *)

PromisesVars == <<vars, applied, promises>>

LEMMA NextPInv ==
  ASSUME IInv, HInv, PInv, [Next /\ HistoryNext /\ PromisesNext]_PromisesVars
  PROVE  PInv'
<1>1. CASE Next /\ PromisesNext
  BY <1>1, PromisesTypes, QuietKept, RequestKept, LinkKept, FlashNamesKept,
    WriteNamesKept, RecordsKept DEF PInv
<1>2. CASE UNCHANGED PromisesVars
  <2>1. UNCHANGED <<pc, handler_ready_flag, provision_busy_flag,
                    sem_provision_request, pending, session_recipe_id,
                    prov_pending, shell, waiting, cdb, link, adding, flash,
                    writing, made, early, opened, asked>>
    BY <1>2 DEF PromisesVars, vars, promises, thread, flags, request, callback,
      choice, stack, callers, settings
  <2>2. /\ PromisesTypeOK' /\ QuietBoot' /\ WaitsForShell'
        /\ OneRequest' /\ LinkIsSession'
    BY <2>1 DEF PInv, PromisesTypeOK, QuietBoot, WaitsForShell, OneRequest,
      LinkIsSession
  <2>3. FlashNamesNode' /\ WriteNamesNode' /\ RecordsAreAsked'
    BY <2>1 DEF PInv, FlashNamesNode, WriteNamesNode, RecordsAreAsked,
      RecordIsAsked
  <2> QED BY <2>2, <2>3 DEF PInv
<1> QED BY <1>1, <1>2

LEMMA PromisesInvariance == PromisesSpec => [](IInv /\ HInv /\ PInv)
<1>1. IInv /\ HInv /\ PInv
        /\ [Next /\ HistoryNext /\ PromisesNext]_PromisesVars
      => IInv' /\ HInv' /\ PInv'
  <2> SUFFICES ASSUME IInv, HInv, PInv,
                      [Next /\ HistoryNext /\ PromisesNext]_PromisesVars
               PROVE  IInv' /\ HInv' /\ PInv'
    OBVIOUS
  <2>1. [Next]_vars /\ [Next /\ HistoryNext]_<<vars, applied>>
    BY DEF PromisesVars
  <2> QED BY <2>1, NextIInv, NextHInv, NextPInv
<1>2. Init /\ HistoryInit /\ PromisesInit => IInv /\ HInv /\ PInv
  BY InitIInv, InitHInv, InitPInv
<1> QED BY <1>1, <1>2, PTL DEF PromisesSpec, PromisesVars

(* A request that no early one overlaps reaches the session as its caller made
   it: the busy flag and the mutex keep every other caller from its pair. *)
THEOREM RequestsAreTakenAsMade == PromisesSpec => TakenAsMade
<1>1. IInv /\ HInv /\ PInv => (Taken /\ ~early => pending = made)
  BY DEF PInv, OneRequest, Taken
<1> QED BY <1>1, PromisesInvariance, PTL DEF TakenAsMade

(* The recipe such a request selected is the one its device is configured with,
   if the link was not shared and the record still names the device: over late
   links, later sessions, rows that moved on and reboots. *)
THEOREM RequestsAreCarriedThrough == PromisesSpec => CarriedThrough
<1> DEFINE Carried(a) ==
             Completed(a) /\ pc' # "off" /\ prov_pending.recent_new_addr = a
               /\ asked[cdb[a].uuid] \in Recipes
             => job.recipe_id = asked[cdb[a].uuid]
<1>1. IInv /\ HInv /\ PInv
        /\ [Next /\ HistoryNext /\ PromisesNext]_PromisesVars
      => [\A a \in Addrs \ {self_addr} : Carried(a)]_<<vars, promises>>
  <2> SUFFICES ASSUME IInv, HInv, PInv, Next,
                      NEW a \in Addrs \ {self_addr}, Completed(a), pc' # "off",
                      prov_pending.recent_new_addr = a,
                      asked[cdb[a].uuid] \in Recipes
               PROVE  job.recipe_id = asked[cdb[a].uuid]
    BY DEF PromisesVars
  <2>1. /\ pc # "off" /\ a # 0 /\ TypeOK
    BY Types DEF PInv, QuietBoot, NoPending, IInv
  <2>2. ASSUME NEW b \in Addrs, node_added(b)
        PROVE  FALSE
    BY <2>1, <2>2, JoinedType DEF Completed
  <2>3. Answer /\ Configured
    BY <2>1, <2>2 DEF Completed, Next, Boot, provisioner_network_setup,
      provisioner_resume_pending_config, resume_saved, thread_start, Thread,
      check_unconfigured_skip, check_unconfigured, configure_node_saved,
      foreach_done, provision_adv, provision_adv_failed, node_added_taken,
      node_added_timeout, Answer, apply_failed, configure_self_done,
      configure_node_done, ShellStep, shell_write_uuid, shell_write_recipe,
      shell_give, Shell, auto_request_resumes, node_added_saved, Environment,
      auto_request, auto_request_waits, shell_claim, cdb_stored, link_failed,
      name_heard, name_evicted, power_failed, stack
  <2>4. pc = "apply"
    BY <2>3 DEF Answer, apply_failed, configure_self_done, configure_node_done
  <2>5. cursor = a
    BY <2>3, <2>4, ConfiguredType DEF Completed
  <2>6. cdb[a].uuid \in Devices
    BY <2>4, <2>5 DEF HInv, NodesAreDevices, OtherAddrs, IInv, Course,
      NodeInHand
  <2>7. asked[cdb[a].uuid] = prov_pending.recipe_id
    BY <2>1, <2>6, UnknownAssumption
       DEF PInv, RecordsAreAsked, RecordIsAsked, RecipeIds
  <2>8. job.recipe_id = prov_pending.recipe_id
    BY <2>4, <2>5, <2>7, SentinelAssumption DEF IInv, Course, JobIsRecorded
  <2> QED BY <2>7, <2>8
<1> QED BY <1>1, PromisesInvariance, PTL
        DEF PromisesSpec, CarriedThrough, PromisesVars
=============================================================================
