------------------------ MODULE ProvisionerPromises ------------------------
(***************************************************************************)
(* What becomes of a request (ProvisionerHandler), with the history that   *)
(* statement needs: the request as its caller made it, the recipe it asked *)
(* for when its link was opened, and the recipe that was asked for each    *)
(* device that joined.  ProvisionerRequests has what the documentation     *)
(* says of all requests; this is what is true, and of which ones.          *)
(***************************************************************************)
EXTENDS ProvisionerHistory

CONSTANT Unknown
ASSUME UnknownAssumption == Unknown \notin RecipeIds

VARIABLES
  made,     (* the request that waits to be taken, as its caller made it,
               while there is one only                                     *)
  early,    (* whether one was accepted while the thread was not waiting
               for it, and is not known to be over                         *)
  opened,   (* the recipe the request that opened the link asked for, or
               Unknown when there is no link or more than one request      *)
  asked     (* of each device that a record names, what its link was
               opened with                                                 *)

promises == <<made, early, opened, asked>>

PromisesInit ==
  /\ made = NoRequest /\ early = FALSE
  /\ opened = Unknown /\ asked = [d \in Devices |-> Unknown]

(* The busy flag is taken: by auto mode, with the recipe the row is at, or by
   the shell, which selects none. *)
Accepted ==
  provision_busy_flag = 0 /\ provision_busy_flag' = 1

MadeBy ==
  IF waiting' # waiting THEN waiting'
  ELSE IF shell' # shell
  THEN [uuid |-> shell'.uuid, recipe_id |-> RECIPE_NONE]
  ELSE pending'

(* The thread takes a request. *)
Taken ==
  sem_provision_request = 1 /\ sem_provision_request' = 0 /\ pc' # "off"

(* The record, in RAM, in flash or on its way there, names the device. *)
Recorded(d) ==
  \E record \in {prov_pending, flash.prov_pending, writing.record} :
    /\ record.recent_new_addr # 0
    /\ d \in {cdb[record.recent_new_addr].uuid,
              flash.cdb[record.recent_new_addr].uuid}

PromisesNext ==
  /\ early' = IF Accepted THEN early \/ pc # "take"
              ELSE IF (Taken /\ shell.at = "idle") \/ pc' = "off" THEN FALSE
              ELSE early
  /\ made' = IF Taken \/ early' THEN NoRequest
             ELSE IF Accepted THEN MadeBy ELSE made
  /\ opened' = IF link' = None THEN Unknown
               ELSE IF ~Taken THEN opened
               ELSE IF link = None /\ ~early THEN made.recipe_id ELSE Unknown
  /\ asked' = [d \in Devices |->
                IF NodeJoins /\ d = link THEN opened
                ELSE IF Recorded(d)' THEN asked[d] ELSE Unknown]

PromisesSpec ==
  /\ Init /\ HistoryInit /\ PromisesInit
  /\ [][Next /\ HistoryNext /\ PromisesNext]_<<vars, applied, promises>>

-----------------------------------------------------------------------------

(* A request that is accepted while the thread waits for one is taken as it was
   made: no later caller touches either half of the pair before the thread has
   latched both. *)
TakenAsMade == [][Taken /\ ~early => pending = made]_<<vars, promises>>

Completed(a) == ~cdb[a].configured /\ cdb'[a].configured

(* A node of such a request is configured with the recipe the request selected,
   as long as no other request was taken while its link was open and no other
   node has joined since: neither a link that succeeds after the thread gave it
   up, nor the sessions that followed, nor a row that moved on, nor a reboot
   changes it. *)
CarriedThrough ==
  [][\A a \in Addrs \ {self_addr} :
       Completed(a) /\ pc' # "off" /\ prov_pending.recent_new_addr = a
         /\ asked[cdb[a].uuid] \in Recipes
       => job.recipe_id = asked[cdb[a].uuid]]_<<vars, promises>>
=============================================================================
