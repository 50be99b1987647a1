--------------------------- MODULE MeshNetCfgProofs ---------------------------
(***************************************************************************)
(* Proofs about the configuration of a node (MeshNetCfg), for every table  *)
(* of rows, every recipe table and every set of nodes.                     *)
(*                                                                         *)
(* The invariant has what each loop has established so far: the search of  *)
(* the rows it has seen (SearchIsRight), the application of the steps and  *)
(* elements it has been through (ToldSoFar).                               *)
(***************************************************************************)
EXTENDS MeshNetCfg, SequenceTheorems, WellFoundedInduction, TLAPS

(* Every message of a recipe was obeyed by the node. *)
ToldStep(d, r, k) ==
  \A e \in Targets(RecipeSteps[r][k], CompOf[d]) :
    Message(RecipeSteps[r][k], e) \in conf[d]

ToldAll(d, r) == \A k \in DOMAIN RecipeSteps[r] : ToldStep(d, r, k)

ToldSoFar ==
  /\ pc \in {"step", "send"} =>
       \A k \in DOMAIN RecipeSteps[recipe_id] :
         k < s => ToldStep(node, recipe_id, k)
  /\ pc = "send" =>
       /\ s \in DOMAIN RecipeSteps[recipe_id]
       /\ addrs \subseteq Targets(RecipeSteps[recipe_id][s], CompOf[node])
       /\ \A e \in Targets(RecipeSteps[recipe_id][s], CompOf[node]) \ addrs :
            Message(RecipeSteps[recipe_id][s], e) \in conf[node]
  /\ latched /\ pc \in {"uuid_rows", "name_rows", "matched"} =>
       ToldAll(node, recipe_id)

(* The rows below i that the search of the first loop has seen. *)
BestSoFar ==
  \/ best = 0 /\ \A q \in 1 .. i - 1 : ~UuidMatch(q, node)
  \/ /\ best \in 1 .. i - 1 /\ UuidMatch(best, node)
     /\ \A q \in 1 .. i - 1 : UuidMatch(q, node) => Beats(best, q)

SearchIsRight ==
  /\ pc = "uuid_rows" => BestSoFar
  /\ pc = "name_rows" =>
       /\ best = 0
       /\ \A q \in Indices : ~UuidMatch(q, node)
       /\ \A q \in 1 .. i - 1 : ~NameMatch(q, node_name)
  /\ RowIsBestMatch

(* What the running call holds on to. *)
CallIsOpen ==
  /\ pc # "idle" => done[node] = RECIPE_NONE
  /\ pc \in {"step", "send"} => s_comp_page = CompOf[node]
  /\ latched => pc # "idle" /\ recipe_id \in Recipes

IInv == TypeOK /\ CallIsOpen /\ SearchIsRight /\ ToldSoFar /\ AppliedIsComplete

-----------------------------------------------------------------------------
(* Rows                                                                    *)

(* Moving a row on keeps the table a table and the row within its recipes. *)
LEMMA ConsumeKeepsRows ==
  ASSUME TypeOK, NEW r \in 0 .. Len(rows), NEW id,
         scenario_row_consume_recipe_id(r, id)
  PROVE  /\ rows' \in Seq(Row) /\ Len(rows') = Len(rows)
         /\ \A q \in 1 .. Len(rows) :
              rows'[q].recipe_idx \in DOMAIN rows'[q].recipe_ids
<1>1. CASE rows' = rows
  BY <1>1 DEF TypeOK, RowsOK, Indices
<1>2. CASE rows' # rows
  <2> DEFINE n == (rows[r].recipe_idx % Len(rows[r].recipe_ids)) + 1
             row == [rows[r] EXCEPT !.recipe_idx = n]
  <2>1. r \in 1 .. Len(rows) /\ rows' = [rows EXCEPT ![r] = row]
    BY <1>2 DEF scenario_row_consume_recipe_id
  <2>2. rows \in Seq(Row) /\ rows[r] \in Row
    BY <2>1 DEF TypeOK, RowsOK
  <2>3. /\ rows[r].recipe_ids \in RowIds
        /\ rows[r].recipe_idx \in 1 .. Len(rows[r].recipe_ids)
    BY <2>1, <2>2 DEF TypeOK, RowsOK, Indices, Row, RowIds
  <2>4. n \in 1 .. Len(rows[r].recipe_ids)
    BY <2>3 DEF RowIds
  <2>5. n \in Nat
    BY <2>4, <2>3 DEF RowIds
  <2> HIDE DEF n
  <2>6. row \in Row /\ row.recipe_idx = n /\ row.recipe_ids = rows[r].recipe_ids
    BY <2>2, <2>5 DEF Row
  <2> HIDE DEF row
  <2>7. rows' \in Seq(Row) /\ Len(rows') = Len(rows)
    BY <2>1, <2>2, <2>6
  <2>8. ASSUME NEW q \in 1 .. Len(rows)
        PROVE  rows'[q].recipe_idx \in DOMAIN rows'[q].recipe_ids
    <3>1. CASE q = r
      BY <3>1, <2>1, <2>2, <2>3, <2>4, <2>6 DEF RowIds
    <3>2. CASE q # r
      BY <3>2, <2>1, <2>2 DEF TypeOK, RowsOK, Indices
    <3> QED BY <3>1, <3>2
  <2> QED BY <2>7, <2>8
<1> QED BY <1>1, <1>2

(* A row that moves is the one given, at the very recipe given. *)
LEMMA ConsumeMovesOneRow ==
  ASSUME TypeOK, NEW r \in 0 .. Len(rows), NEW id,
         scenario_row_consume_recipe_id(r, id),
         NEW q \in Indices, rows'[q].recipe_idx # rows[q].recipe_idx
  PROVE  q = r /\ scenario_row_peek_recipe_id(q) = id
<1> DEFINE row == [rows[r] EXCEPT !.recipe_idx =
                     (@ % Len(rows[r].recipe_ids)) + 1]
<1>1. /\ scenario_row_peek_recipe_id(r) = id
      /\ rows' = [rows EXCEPT ![r] = row]
  BY DEF scenario_row_consume_recipe_id
<1> HIDE DEF row
<1>2. q = r
  BY <1>1 DEF TypeOK, RowsOK, Indices
<1> QED BY <1>1, <1>2

-----------------------------------------------------------------------------
(* Messages                                                                *)

LEMMA StepTypes ==
  ASSUME NEW r \in Recipes, NEW k \in DOMAIN RecipeSteps[r]
  PROVE  /\ RecipeSteps[r] \in Seq(StepType)
         /\ k \in 1 .. Len(RecipeSteps[r])
         /\ RecipeSteps[r][k] \in StepType
BY RecipesAssumption

LEMMA TargetsType ==
  ASSUME NEW step \in StepType, NEW d \in Devices
  PROVE  Targets(step, CompOf[d]) \subseteq Nat
BY DevicesAssumption DEF Targets, StepType

LEMMA MessageType ==
  ASSUME NEW step \in StepType, NEW e \in Nat
  PROVE  Message(step, e) \in Messages
BY DEF Message, Messages, StepType

(* No message of a recipe undoes another one of the same recipe. *)
LEMMA ObeyedKeeps ==
  ASSUME NEW r \in Recipes, NEW d \in Devices, NEW told,
         NEW j \in DOMAIN RecipeSteps[r], NEW k \in DOMAIN RecipeSteps[r],
         NEW e \in Targets(RecipeSteps[r][j], CompOf[d]),
         NEW f \in Targets(RecipeSteps[r][k], CompOf[d]),
         Message(RecipeSteps[r][j], e) \in told
  PROVE  Message(RecipeSteps[r][j], e)
           \in Obeyed(told, Message(RecipeSteps[r][k], f))
<1> DEFINE a == RecipeSteps[r][j]
           b == RecipeSteps[r][k]
<1>1. a \in StepType /\ b \in StepType
  BY StepTypes
<1>2. a.op = "pub_set" /\ b.op = "pub_set" /\ a.model = b.model
      => \/ a.group = b.group
         \/ /\ a.elem_sel = "addr_off" /\ b.elem_sel = "addr_off"
            /\ a.elem_param # b.elem_param
  BY PublicationsAssumption
<1> HIDE DEF a, b
<1>3. CASE a.op = "pub_set" /\ b.op = "pub_set" /\ e = f /\ a.model = b.model
  <2>1. a.group = b.group
    BY <1>2, <1>3 DEF Targets, a, b
  <2>2. Message(a, e) = Message(b, f)
    BY <1>3, <2>1 DEF Message
  <2> QED BY <2>2 DEF Obeyed, a, b
<1>4. CASE ~(a.op = "pub_set" /\ b.op = "pub_set" /\ e = f /\ a.model = b.model)
  <2>1. ~(/\ Message(b, f).op = "pub_set" /\ Message(a, e).op = "pub_set"
          /\ Message(a, e).elem = Message(b, f).elem
          /\ Message(a, e).model = Message(b, f).model)
    BY <1>4 DEF Message
  <2>2. Message(a, e) \in told
    BY DEF a, b
  <2> QED BY <2>1, <2>2 DEF Obeyed, a, b
<1> QED BY <1>3, <1>4

(* The node just addressed obeys, and is told of one element more. *)
LEMMA ObeyedIsTold ==
  ASSUME IInv, pc = "send", NEW e \in addrs,
         conf' = [conf EXCEPT ![node] =
                    Obeyed(@, Message(RecipeSteps[recipe_id][s], e))],
         UNCHANGED <<node, recipe_id, done>>
  PROVE  /\ conf' \in [Devices -> SUBSET Messages]
         /\ \A k \in DOMAIN RecipeSteps[recipe_id] :
              k < s => ToldStep(node, recipe_id, k)'
         /\ \A f \in Targets(RecipeSteps[recipe_id][s], CompOf[node])
                       \ (addrs \ {e}) :
              Message(RecipeSteps[recipe_id][s], f) \in conf'[node]
<1>1. /\ node \in Devices /\ recipe_id \in Recipes
      /\ s \in DOMAIN RecipeSteps[recipe_id]
      /\ conf \in [Devices -> SUBSET Messages]
      /\ e \in Targets(RecipeSteps[recipe_id][s], CompOf[node])
  BY DEF IInv, TypeOK, ToldSoFar
<1> DEFINE m == Message(RecipeSteps[recipe_id][s], e)
<1>2. m \in Messages
  BY <1>1, StepTypes, TargetsType, MessageType
<1>3. conf'[node] = Obeyed(conf[node], m)
  BY <1>1
<1>4. conf' \in [Devices -> SUBSET Messages]
  BY <1>1, <1>2 DEF Obeyed
<1>5. ASSUME NEW k \in DOMAIN RecipeSteps[recipe_id], k < s
      PROVE  ToldStep(node, recipe_id, k)'
  <2> SUFFICES ASSUME NEW f \in Targets(RecipeSteps[recipe_id][k], CompOf[node])
               PROVE  Message(RecipeSteps[recipe_id][k], f) \in conf'[node]
    BY DEF ToldStep
  <2>1. Message(RecipeSteps[recipe_id][k], f) \in conf[node]
    BY <1>5 DEF IInv, ToldSoFar, ToldStep
  <2> QED BY <1>1, <1>3, <2>1, ObeyedKeeps
<1>6. ASSUME NEW f \in Targets(RecipeSteps[recipe_id][s], CompOf[node])
                         \ (addrs \ {e})
      PROVE  Message(RecipeSteps[recipe_id][s], f) \in conf'[node]
  <2>1. CASE f = e
    BY <1>3, <2>1 DEF Obeyed
  <2>2. CASE f # e
    <3>1. Message(RecipeSteps[recipe_id][s], f) \in conf[node]
      BY <2>2 DEF IInv, ToldSoFar
    <3> QED BY <1>1, <1>3, <3>1, ObeyedKeeps
  <2> QED BY <2>1, <2>2
<1> QED BY <1>4, <1>5, <1>6

(* The node that is told is not a configured one. *)
LEMMA OthersStayComplete ==
  ASSUME IInv, pc # "idle", done' = done, NEW m,
         conf' = [conf EXCEPT ![node] = Obeyed(@, m)]
  PROVE  AppliedIsComplete'
<1>1. \A d \in Devices : done[d] # RECIPE_NONE => conf'[d] = conf[d]
  BY DEF IInv, TypeOK, CallIsOpen
<1> QED BY <1>1 DEF IInv, AppliedIsComplete

(* A node that was told everything may be configured. *)
LEMMA ConfiguredIsComplete ==
  ASSUME IInv, node \in Devices, ToldAll(node, recipe_id),
         done' = [done EXCEPT ![node] = recipe_id], conf' = conf
  PROVE  AppliedIsComplete'
BY DEF IInv, TypeOK, AppliedIsComplete, ToldAll, ToldStep

-----------------------------------------------------------------------------
(* Calls end                                                               *)

(* Whatever ends a call, nothing is left of it. *)
LEMMA ReturnKeepsIInv ==
  ASSUME IInv, NEW e \in {"0", "ENOENT", "ENOMEM", "EINVAL", "EIO", "failed"},
         Return(e), RowsOK', offered' \subseteq Recipes, s_comp_page' \in Seq(SUBSET Models),
         conf' \in [Devices -> SUBSET Messages],
         done' \in [Devices -> Recipes \cup {RECIPE_NONE}],
         AppliedIsComplete'
  PROVE  IInv'
<1>1. /\ pc' = "idle" /\ err' = e /\ node' = None /\ latched' = FALSE
      /\ i' = 1 /\ best' = 0 /\ recipe_id' = RECIPE_NONE /\ s' = 1
      /\ addrs' = {}
  BY DEF Return
<1>2. Len(rows') \in Nat
  BY DEF RowsOK
<1>3. TypeOK'
  <2>1. /\ pc' \in Locations
        /\ err' \in {"0", "ENOENT", "ENOMEM", "EINVAL", "EIO", "failed"}
    BY <1>1 DEF Locations
  <2>2. /\ node' \in Devices \cup {None} /\ (pc' # "idle" => node' \in Devices)
        /\ latched' \in BOOLEAN
        /\ recipe_id' \in Recipes \cup {RECIPE_NONE}
        /\ (pc' \in {"step", "send"} => recipe_id' \in Recipes)
    BY <1>1
  <2>3. i' \in 1 .. Len(rows') + 1 /\ best' \in 0 .. Len(rows')
    BY <1>1, <1>2
  <2>4. s' \in Nat \ {0} /\ addrs' \subseteq Nat
    BY <1>1
  <2> QED BY <2>1, <2>2, <2>3, <2>4 DEF TypeOK
<1>4. CallIsOpen'
  BY <1>1 DEF CallIsOpen
<1>5. SearchIsRight'
  BY <1>1 DEF SearchIsRight, RowIsBestMatch
<1>6. ToldSoFar'
  BY <1>1 DEF ToldSoFar
<1> QED BY <1>3, <1>4, <1>5, <1>6 DEF IInv

(* A call that fails has changed no row and configured nobody. *)
LEMMA FailureKeepsIInv ==
  ASSUME IInv, NEW e \in {"0", "ENOENT", "ENOMEM", "EINVAL", "EIO", "failed"},
         Return(e), UNCHANGED <<rows, offered, conf, done>>,
         s_comp_page' \in Seq(SUBSET Models)
  PROVE  IInv'
<1>1. RowsOK'
  BY DEF IInv, TypeOK, RowsOK, Indices
<1>2. AppliedIsComplete'
  BY DEF IInv, AppliedIsComplete
<1>3. /\ conf' \in [Devices -> SUBSET Messages]
      /\ done' \in [Devices -> Recipes \cup {RECIPE_NONE}]
      /\ offered' \subseteq Recipes
  BY DEF IInv, TypeOK
<1> QED BY <1>1, <1>2, <1>3, ReturnKeepsIInv

(* The end of a call that succeeded: the row is moved on, or it is not. *)
LEMMA ConsumeKeepsIInv ==
  ASSUME IInv, pc # "idle", ToldAll(node, recipe_id), recipe_id \in Recipes,
         scenario_row_consume_recipe_id(best, recipe_id),
         done' = [done EXCEPT ![node] = recipe_id], Return("0"),
         UNCHANGED <<s_comp_page, conf>>
  PROVE  IInv'
<1>1. node \in Devices /\ best \in 0 .. Len(rows) /\ TypeOK
  BY DEF IInv, TypeOK
<1>2. RowsOK'
  BY <1>1, ConsumeKeepsRows DEF RowsOK, Indices
<1>3. AppliedIsComplete'
  BY <1>1, ConfiguredIsComplete
<1>4. /\ conf' \in [Devices -> SUBSET Messages]
      /\ done' \in [Devices -> Recipes \cup {RECIPE_NONE}]
      /\ s_comp_page' \in Seq(SUBSET Models)
  BY DEF IInv, TypeOK
<1>5. offered' \subseteq Recipes
  BY DEF IInv, TypeOK, scenario_row_consume_recipe_id, Lookups
<1> QED BY <1>2, <1>3, <1>4, <1>5, ReturnKeepsIInv

-----------------------------------------------------------------------------
(* Calls begin                                                             *)

THEOREM InitIInv == Init => IInv
<1> SUFFICES ASSUME Init PROVE IInv
  OBVIOUS
<1>1. rows \in Seq(Row) /\ Len(rows) \in Nat
  BY ScenariosAssumption DEF Init
<1>2. ASSUME NEW r \in Indices
      PROVE  rows[r].recipe_idx \in DOMAIN rows[r].recipe_ids
  <2>1. /\ rows[r] \in Row /\ rows[r].recipe_ids # << >>
        /\ rows[r].recipe_idx = 1
    BY <1>1, ScenariosAssumption DEF Init, Indices
  <2>2. rows[r].recipe_ids \in Seq(Recipes \cup {RECIPE_NONE})
    BY <2>1 DEF Row, RowIds
  <2> QED BY <2>1, <2>2
<1>3. TypeOK
  <2>1. RowsOK /\ offered \subseteq Recipes
    BY <1>1, <1>2 DEF RowsOK, Init, Lookups
  <2>2. i \in 1 .. Len(rows) + 1 /\ best \in 0 .. Len(rows)
    BY <1>1 DEF Init
  <2>3. /\ conf \in [Devices -> SUBSET Messages]
        /\ s_comp_page \in Seq(SUBSET Models)
        /\ done \in [Devices -> Recipes \cup {RECIPE_NONE}]
    BY DEF Init
  <2>4. /\ pc = "idle" /\ node = None /\ latched = FALSE
        /\ recipe_id = RECIPE_NONE /\ s = 1 /\ addrs = {} /\ err = "0"
    BY DEF Init
  <2>5. pc \in Locations /\ pc \notin {"step", "send"}
    BY <2>4 DEF Locations
  <2>6. /\ node \in Devices \cup {None} /\ latched \in BOOLEAN
        /\ recipe_id \in Recipes \cup {RECIPE_NONE}
        /\ err \in {"0", "ENOENT", "ENOMEM", "EINVAL", "EIO", "failed"}
    BY <2>4, Zenon
  <2>7. s \in Nat \ {0} /\ addrs \subseteq Nat
    BY <2>4
  <2> QED BY <2>1, <2>2, <2>3, <2>4, <2>5, <2>6, <2>7 DEF TypeOK
<1>4. CallIsOpen /\ SearchIsRight /\ ToldSoFar /\ AppliedIsComplete
  BY DEF Init, CallIsOpen, SearchIsRight, RowIsBestMatch, ToldSoFar,
    AppliedIsComplete
<1> QED BY <1>3, <1>4 DEF IInv

LEMMA ApplyBegins ==
  ASSUME IInv, NEW d \in Devices, mesh_config_apply(d)
  PROVE  IInv'
<1>1. /\ pc' = "uuid_rows" /\ node' = d /\ latched' = FALSE
      /\ i' = 1 /\ best' = 0 /\ err' = "0" /\ recipe_id' = RECIPE_NONE
      /\ done[d] = RECIPE_NONE
      /\ UNCHANGED <<rows, offered, s, addrs, s_comp_page, conf, done>>
  BY DEF mesh_config_apply, Begin
<1>2. TypeOK'
  <2>1. RowsOK' /\ Len(rows) \in Nat
    BY <1>1 DEF IInv, TypeOK, RowsOK, Indices
  <2>2. i' \in 1 .. Len(rows') + 1 /\ best' \in 0 .. Len(rows')
    BY <1>1, <2>1
  <2>3. /\ pc' \in Locations /\ node' \in Devices
        /\ recipe_id' \in Recipes \cup {RECIPE_NONE}
        /\ pc' \notin {"step", "send"}
    BY <1>1 DEF Locations
  <2> QED BY <1>1, <2>1, <2>2, <2>3 DEF IInv, TypeOK
<1>3. CallIsOpen'
  BY <1>1 DEF CallIsOpen
<1>4. SearchIsRight'
  BY <1>1 DEF SearchIsRight, BestSoFar, RowIsBestMatch
<1>5. ToldSoFar' /\ AppliedIsComplete'
  BY <1>1 DEF ToldSoFar, AppliedIsComplete, IInv
<1> QED BY <1>2, <1>3, <1>4, <1>5 DEF IInv

LEMMA LatchedBegins ==
  ASSUME IInv, NEW d \in Devices, latched_recipe(d)
  PROVE  IInv'
<1>1. /\ pc' = "fetch" /\ node' = d /\ latched' = TRUE
      /\ i' = 1 /\ best' = 0 /\ err' = "0" /\ recipe_id' \in Recipes
      /\ done[d] = RECIPE_NONE
      /\ UNCHANGED <<rows, offered, s, addrs, s_comp_page, conf, done>>
  BY DEF latched_recipe, Begin, IInv, TypeOK
<1>2. TypeOK'
  <2>1. RowsOK' /\ Len(rows) \in Nat
    BY <1>1 DEF IInv, TypeOK, RowsOK, Indices
  <2>2. i' \in 1 .. Len(rows') + 1 /\ best' \in 0 .. Len(rows')
    BY <1>1, <2>1
  <2>3. /\ pc' \in Locations /\ node' \in Devices
        /\ recipe_id' \in Recipes \cup {RECIPE_NONE}
        /\ pc' \notin {"step", "send"}
    BY <1>1 DEF Locations
  <2> QED BY <1>1, <2>1, <2>2, <2>3 DEF IInv, TypeOK
<1>3. CallIsOpen'
  BY <1>1 DEF CallIsOpen
<1>4. SearchIsRight'
  BY <1>1 DEF SearchIsRight, RowIsBestMatch
<1>5. ToldSoFar' /\ AppliedIsComplete'
  BY <1>1 DEF ToldSoFar, AppliedIsComplete, IInv
<1> QED BY <1>2, <1>3, <1>4, <1>5 DEF IInv

-----------------------------------------------------------------------------
(* The search                                                              *)

(* A UUID row that matches has a length. *)
LEMMA MatchLength ==
  ASSUME RowsOK, NEW d \in Devices, NEW r \in Indices, UuidMatch(r, d)
  PROVE  match_len(rows[r]) \in Nat
<1>1. rows[r] \in Row /\ rows[r].match_type = "uuid"
  BY DEF RowsOK, Indices, UuidMatch
<1>2. rows[r].match \in Seq(Nat)
  BY <1>1 DEF Row
<1>3. Len(rows[r].match) \in Nat
  BY <1>2
<1>4. \A n \in Nat : n \div 2 \in Nat
  OBVIOUS
<1> QED BY <1>3, <1>4 DEF match_len

(* What a step of the search leaves alone. *)
LEMMA SearchKeepsTypes ==
  ASSUME IInv, pc # "idle", pc' \in Locations \ {"step", "send"},
         i' \in 1 .. Len(rows) + 1, best' \in 0 .. Len(rows),
         UNCHANGED <<rows, offered, call, s, addrs, s_comp_page, err, conf,
                     done>>
  PROVE  TypeOK'
<1>1. RowsOK'
  BY DEF IInv, TypeOK, RowsOK, Indices
<1>2. pc' \in Locations /\ pc' \notin {"step", "send"} /\ node' \in Devices
  BY DEF IInv, TypeOK, call
<1>3. i' \in 1 .. Len(rows') + 1 /\ best' \in 0 .. Len(rows')
  OBVIOUS
<1> QED BY <1>1, <1>2, <1>3 DEF IInv, TypeOK, call

LEMMA SearchKeepsRest ==
  ASSUME IInv, pc \in {"uuid_rows", "name_rows"},
         pc' \in {"uuid_rows", "name_rows", "matched"},
         UNCHANGED <<rows, offered, call, s, addrs, s_comp_page, err, conf,
                     done>>
  PROVE  CallIsOpen' /\ ToldSoFar' /\ AppliedIsComplete'
<1>1. CallIsOpen'
  BY DEF IInv, CallIsOpen, call
<1>2. AppliedIsComplete'
  BY DEF IInv, AppliedIsComplete
<1>3. ToldSoFar'
  BY DEF IInv, ToldSoFar, ToldAll, ToldStep, call
<1> QED BY <1>1, <1>2, <1>3

LEMMA UuidRowStep ==
  ASSUME IInv, uuid_row
  PROVE  IInv'
<1>1. /\ pc = "uuid_rows" /\ pc' = pc /\ i' = i + 1 /\ i <= Len(rows)
      /\ UNCHANGED <<rows, offered, call, s, addrs, s_comp_page, err, conf,
                     done>>
      /\ node' = node
  BY DEF uuid_row, call
<1>2. /\ RowsOK /\ Len(rows) \in Nat /\ i \in 1 .. Len(rows)
      /\ best \in 0 .. Len(rows) /\ node \in Devices
  BY <1>1 DEF IInv, TypeOK, RowsOK
<1>3. best' \in 0 .. Len(rows) /\ i' \in 1 .. Len(rows) + 1
  BY <1>1, <1>2 DEF uuid_row
<1>4. pc' \in Locations \ {"step", "send"}
  BY <1>1 DEF Locations
<1>5. TypeOK'
  BY <1>1, <1>3, <1>4, SearchKeepsTypes
<1>6. CallIsOpen' /\ ToldSoFar' /\ AppliedIsComplete'
  BY <1>1, SearchKeepsRest
<1>7. \/ best' = 0 /\ \A q \in 1 .. i : ~UuidMatch(q, node)
      \/ /\ best' \in 1 .. i /\ UuidMatch(best', node)
         /\ \A q \in 1 .. i : UuidMatch(q, node) => Beats(best', q)
  <2>1. BestSoFar
    BY <1>1 DEF IInv, SearchIsRight
  <2>2. \A q \in Indices : UuidMatch(q, node) => match_len(rows[q]) \in Nat
    BY <1>2, MatchLength
  <2>3. /\ i \in Indices /\ best \in Indices \cup {0}
        /\ \A q \in 1 .. i : q \in Indices /\ (q = i \/ q \in 1 .. i - 1)
    BY <1>2 DEF Indices
  <2>4. CASE UuidMatch(i, node) /\ best = 0
    <3>1. best' = i
      BY <2>4, <1>1 DEF uuid_row
    <3>2. \A q \in 1 .. i : UuidMatch(q, node) => q = i
      BY <2>1, <2>3, <2>4, <1>2 DEF BestSoFar
    <3> QED BY <3>1, <3>2, <2>4, <1>2 DEF Beats
  <2>5. CASE /\ UuidMatch(i, node) /\ best # 0
             /\ match_len(rows[i]) > match_len(rows[best])
    <3>1. best' = i
      BY <2>5, <1>1 DEF uuid_row
    <3>2. /\ UuidMatch(best, node)
          /\ \A q \in 1 .. i - 1 : UuidMatch(q, node) => Beats(best, q)
      BY <2>1, <2>5 DEF BestSoFar
    <3>3. ASSUME NEW q \in 1 .. i, UuidMatch(q, node)
          PROVE  Beats(i, q)
      <4>1. CASE q = i
        BY <4>1, <1>2 DEF Beats
      <4>2. CASE q \in 1 .. i - 1
        BY <4>2, <2>2, <2>3, <2>5, <3>2, <3>3 DEF Beats
      <4> QED BY <4>1, <4>2, <2>3
    <3> QED BY <3>1, <3>3, <2>5, <1>2
  <2>6. CASE /\ UuidMatch(i, node) /\ best # 0
             /\ ~(match_len(rows[i]) > match_len(rows[best]))
    <3>1. best' = best
      BY <2>6, <1>1 DEF uuid_row
    <3>2. /\ UuidMatch(best, node) /\ best \in 1 .. i - 1
          /\ \A q \in 1 .. i - 1 : UuidMatch(q, node) => Beats(best, q)
      BY <2>1, <2>6 DEF BestSoFar
    <3>3. Beats(best, i)
      BY <2>2, <2>3, <2>6, <3>2, <1>2 DEF Beats
    <3> QED BY <3>1, <3>2, <3>3, <2>3, <1>2
  <2>7. CASE ~UuidMatch(i, node)
    <3>1. best' = best
      BY <2>7, <1>1 DEF uuid_row
    <3> QED BY <3>1, <2>1, <2>3, <2>7, <1>2 DEF BestSoFar
  <2> QED BY <2>4, <2>5, <2>6, <2>7
<1>8. BestSoFar'
  BY <1>1, <1>2, <1>7 DEF BestSoFar, UuidMatch, Beats
<1>9. SearchIsRight'
  BY <1>1, <1>8 DEF SearchIsRight, RowIsBestMatch
<1> QED BY <1>5, <1>6, <1>9 DEF IInv

LEMMA UuidRowsEnd ==
  ASSUME IInv, uuid_rows_done
  PROVE  IInv'
<1>1. /\ pc = "uuid_rows" /\ pc' = IF best # 0 THEN "matched" ELSE "name_rows"
      /\ i' = 1 /\ best' = best /\ ~(i <= Len(rows))
      /\ UNCHANGED <<rows, offered, call, s, addrs, s_comp_page, err, conf,
                     done>>
      /\ node' = node /\ node_name' = node_name
  BY DEF uuid_rows_done, call, IInv, TypeOK, RowsOK
<1>2. /\ Len(rows) \in Nat /\ i = Len(rows) + 1 /\ best \in 0 .. Len(rows)
  BY <1>1 DEF IInv, TypeOK, RowsOK
<1>3. pc' \in Locations \ {"step", "send"}
  BY <1>1 DEF Locations
<1>4. TypeOK'
  BY <1>1, <1>2, <1>3, SearchKeepsTypes
<1>5. CallIsOpen' /\ ToldSoFar' /\ AppliedIsComplete'
  BY <1>1, SearchKeepsRest
<1>6. BestSoFar /\ 1 .. i - 1 = Indices
  BY <1>1, <1>2 DEF IInv, SearchIsRight, Indices
<1>7. CASE best # 0
  <2>1. IsRowOf(best, node, node_name)
    BY <1>6, <1>7 DEF BestSoFar, IsRowOf
  <2>2. IsRowOf(best, node, node_name)'
    BY <1>1, <2>1 DEF IsRowOf, UuidMatch, NameMatch, Beats, Indices
  <2>3. pc' = "matched"
    BY <1>1, <1>7
  <2>4. SearchIsRight'
    BY <2>2, <2>3 DEF SearchIsRight, RowIsBestMatch
  <2> QED BY <1>4, <1>5, <2>4 DEF IInv
<1>8. CASE best = 0
  <2>1. pc' = "name_rows"
    BY <1>1, <1>8
  <2>2. \A q \in Indices : ~UuidMatch(q, node)
    <3>1. \A q \in 1 .. i - 1 : ~UuidMatch(q, node)
      BY <1>2, <1>6, <1>8 DEF BestSoFar
    <3> QED BY <3>1, <1>6
  <2>3. (\A q \in Indices : ~UuidMatch(q, node))'
    BY <1>1, <2>2 DEF UuidMatch, Indices
  <2>4. \A q \in 1 .. i' - 1 : FALSE
    BY <1>1
  <2>5. SearchIsRight'
    BY <1>1, <1>8, <2>1, <2>3, <2>4 DEF SearchIsRight, RowIsBestMatch
  <2> QED BY <1>4, <1>5, <2>5 DEF IInv
<1> QED BY <1>7, <1>8

LEMMA NameRowStep ==
  ASSUME IInv, name_row
  PROVE  IInv'
<1>1. /\ pc = "name_rows" /\ i <= Len(rows)
      /\ UNCHANGED <<rows, offered, call, s, addrs, s_comp_page, err, conf,
                     done>>
      /\ node' = node /\ node_name' = node_name
  BY DEF name_row, call
<1>2. /\ Len(rows) \in Nat /\ i \in Indices
      /\ best = 0 /\ \A q \in Indices : ~UuidMatch(q, node)
      /\ \A q \in 1 .. i - 1 : ~NameMatch(q, node_name)
  BY <1>1 DEF IInv, TypeOK, RowsOK, SearchIsRight, Indices
<1>3. CASE NameMatch(i, node_name)
  <2>1. best' = i /\ pc' = "matched" /\ i' = 1
    BY <1>3 DEF name_row
  <2>2. pc' \in Locations \ {"step", "send"}
    BY <2>1 DEF Locations
  <2>3. TypeOK'
    BY <1>1, <1>2, <2>1, <2>2, SearchKeepsTypes DEF Indices
  <2>4. CallIsOpen' /\ ToldSoFar' /\ AppliedIsComplete'
    BY <1>1, <2>1, SearchKeepsRest
  <2>5. IsRowOf(i, node, node_name)
    BY <1>2, <1>3 DEF IsRowOf
  <2>6. IsRowOf(best, node, node_name)'
    BY <1>1, <2>1, <2>5 DEF IsRowOf, UuidMatch, NameMatch, Beats, Indices
  <2>7. SearchIsRight'
    BY <2>1, <2>6 DEF SearchIsRight, RowIsBestMatch
  <2> QED BY <2>3, <2>4, <2>7 DEF IInv
<1>4. CASE ~NameMatch(i, node_name)
  <2>1. best' = best /\ pc' = pc /\ i' = i + 1
    BY <1>4 DEF name_row
  <2>2. pc' \in Locations \ {"step", "send"}
    BY <1>1, <2>1 DEF Locations
  <2>3. i' \in 1 .. Len(rows) + 1 /\ best' \in 0 .. Len(rows)
    BY <1>2, <2>1 DEF Indices
  <2>4. TypeOK'
    BY <1>1, <2>2, <2>3, SearchKeepsTypes
  <2>5. CallIsOpen' /\ ToldSoFar' /\ AppliedIsComplete'
    BY <1>1, <2>1, SearchKeepsRest
  <2>6. (\A q \in Indices : ~UuidMatch(q, node))'
    BY <1>1, <1>2 DEF UuidMatch, Indices
  <2>7. \A q \in 1 .. i' - 1 : ~NameMatch(q, node_name)
    <3>1. \A q \in 1 .. i' - 1 : q = i \/ q \in 1 .. i - 1
      BY <1>2, <2>1 DEF Indices
    <3> QED BY <1>2, <1>4, <3>1
  <2>8. (\A q \in 1 .. i - 1 : ~NameMatch(q, node_name))'
    BY <1>1, <2>7 DEF NameMatch
  <2>9. SearchIsRight'
    BY <1>1, <1>2, <2>1, <2>6, <2>8 DEF SearchIsRight, RowIsBestMatch
  <2> QED BY <2>4, <2>5, <2>9 DEF IInv
<1> QED BY <1>3, <1>4

LEMMA NameRowsEnd ==
  ASSUME IInv, name_rows_done
  PROVE  IInv'
<1>1. /\ pc = "name_rows" /\ pc' = "matched" /\ i' = 1 /\ best' = best
      /\ ~(i <= Len(rows))
      /\ UNCHANGED <<rows, offered, call, s, addrs, s_comp_page, err, conf,
                     done>>
      /\ node' = node /\ node_name' = node_name
  BY DEF name_rows_done, call, IInv, TypeOK, RowsOK
<1>2. /\ Len(rows) \in Nat /\ i = Len(rows) + 1 /\ best = 0
      /\ \A q \in Indices : ~UuidMatch(q, node)
      /\ \A q \in 1 .. i - 1 : ~NameMatch(q, node_name)
  BY <1>1 DEF IInv, TypeOK, RowsOK, SearchIsRight
<1>3. pc' \in Locations \ {"step", "send"}
  BY <1>1 DEF Locations
<1>4. TypeOK'
  BY <1>1, <1>2, <1>3, SearchKeepsTypes
<1>5. CallIsOpen' /\ ToldSoFar' /\ AppliedIsComplete'
  BY <1>1, SearchKeepsRest
<1>6. IsRowOf(0, node, node_name)
  BY <1>2 DEF IsRowOf, Indices
<1>7. IsRowOf(best, node, node_name)'
  BY <1>1, <1>2, <1>6 DEF IsRowOf, UuidMatch, NameMatch, Beats, Indices
<1>8. SearchIsRight'
  BY <1>1, <1>7 DEF SearchIsRight, RowIsBestMatch
<1> QED BY <1>4, <1>5, <1>8 DEF IInv

LEMMA RowFoundStep ==
  ASSUME IInv, row_found
  PROVE  IInv'
<1>1. /\ pc = "matched" /\ ~latched
      /\ UNCHANGED <<rows, offered, s_comp_page, conf, done>>
  BY DEF row_found
<1>2. CASE best = 0
  <2>1. Return("ENOENT") /\ s_comp_page' \in Seq(SUBSET Models)
    BY <1>1, <1>2 DEF row_found, IInv, TypeOK
  <2> QED BY <1>1, <2>1, FailureKeepsIInv
<1>3. CASE best # 0
  <2>1. /\ recipe_id' = scenario_row_peek_recipe_id(best) /\ pc' = "fetch"
        /\ UNCHANGED <<i, best, node, node_name, latched, s, addrs, err>>
    BY <1>3 DEF row_found, search
  <2>2. RowsOK /\ best \in Indices /\ node \in Devices /\ Len(rows) \in Nat
    BY <1>1, <1>3 DEF IInv, TypeOK, RowsOK, Indices
  <2>3. /\ rows[best].recipe_ids \in Seq(Recipes \cup {RECIPE_NONE})
        /\ rows[best].recipe_idx \in DOMAIN rows[best].recipe_ids
    BY <2>2 DEF RowsOK, Indices, Row, RowIds
  <2>4. recipe_id' \in Recipes \cup {RECIPE_NONE}
    <3>1. rows[best].recipe_ids[rows[best].recipe_idx]
            \in Recipes \cup {RECIPE_NONE}
      BY <2>3
    <3> QED BY <2>1, <3>1 DEF scenario_row_peek_recipe_id
  <2>5. RowsOK'
    BY <1>1, <2>2 DEF RowsOK, Indices
  <2>6. pc' \in Locations /\ pc' \notin {"step", "send"} /\ node' \in Devices
    BY <2>1, <2>2 DEF Locations
  <2>7. TypeOK'
    BY <1>1, <2>1, <2>4, <2>5, <2>6 DEF IInv, TypeOK
  <2>8. CallIsOpen'
    BY <1>1, <2>1 DEF IInv, CallIsOpen
  <2>9. IsRowOf(best, node, node_name)
    BY <1>1 DEF IInv, SearchIsRight, RowIsBestMatch
  <2>10. IsRowOf(best, node, node_name)'
    BY <1>1, <2>1, <2>9 DEF IsRowOf, UuidMatch, NameMatch, Beats, Indices
  <2>11. SearchIsRight'
    BY <2>1, <2>10 DEF SearchIsRight, RowIsBestMatch
  <2>12. ToldSoFar' /\ AppliedIsComplete'
    BY <1>1, <2>1 DEF ToldSoFar, IInv, AppliedIsComplete
  <2> QED BY <2>7, <2>8, <2>11, <2>12 DEF IInv
<1> QED BY <1>2, <1>3

LEMMA ConsumeStep ==
  ASSUME IInv, mesh_scenario_consume_recipe_id
  PROVE  IInv'
<1>1. /\ pc = "matched" /\ latched
      /\ scenario_row_consume_recipe_id(best, recipe_id)
      /\ done' = [done EXCEPT ![node] = recipe_id] /\ Return("0")
      /\ UNCHANGED <<s_comp_page, conf>>
  BY DEF mesh_scenario_consume_recipe_id
<1>2. ToldAll(node, recipe_id) /\ recipe_id \in Recipes
  BY <1>1 DEF IInv, ToldSoFar, CallIsOpen
<1> QED BY <1>1, <1>2, ConsumeKeepsIInv

-----------------------------------------------------------------------------
(* The recipe                                                              *)

LEMMA NoSuchRecipe ==
  ASSUME IInv, no_such_recipe
  PROVE  IInv'
<1>1. Return("ENOENT") /\ UNCHANGED <<rows, offered, conf, done>>
  BY DEF no_such_recipe
<1>2. s_comp_page' \in Seq(SUBSET Models)
  BY DEF no_such_recipe, IInv, TypeOK
<1> QED BY <1>1, <1>2, FailureKeepsIInv

LEMMA CallFails ==
  ASSUME IInv, CallFailed
  PROVE  IInv'
<1>1. Return("failed") /\ UNCHANGED <<rows, offered, conf, done>>
  BY DEF CallFailed
<1>2. s_comp_page' \in Seq(SUBSET Models)
  BY DEF CallFailed, IInv, TypeOK
<1> QED BY <1>1, <1>2, FailureKeepsIInv

LEMMA FetchStep ==
  ASSUME IInv, comp_data_fetch
  PROVE  IInv'
<1>1. /\ pc = "fetch" /\ recipe_id \in Recipes /\ s_comp_page' = CompOf[node]
      /\ UNCHANGED <<rows, offered, conf, done>>
  BY DEF comp_data_fetch
<1>2. node \in Devices /\ CompOf[node] \in Seq(SUBSET Models)
  BY <1>1, DevicesAssumption DEF IInv, TypeOK
<1>3. CASE Return("ENOMEM") \/ Return("EINVAL")
  BY <1>1, <1>2, <1>3, FailureKeepsIInv
<1>4. CASE pc' = "step" /\ s' = 1 /\ UNCHANGED <<search, call, addrs, err>>
  <2>1. /\ node' = node /\ latched' = latched /\ recipe_id' = recipe_id
        /\ node_name' = node_name /\ i' = i /\ best' = best
    BY <1>4 DEF search, call
  <2>2. RowsOK'
    BY <1>1 DEF IInv, TypeOK, RowsOK, Indices
  <2>3. pc' \in Locations
    BY <1>4 DEF Locations
  <2>4. TypeOK'
    BY <1>1, <1>2, <1>4, <2>1, <2>2, <2>3 DEF IInv, TypeOK
  <2>5. CallIsOpen'
    BY <1>1, <1>4, <2>1 DEF IInv, CallIsOpen
  <2>6. ~latched => IsRowOf(best, node, node_name)
    BY <1>1 DEF IInv, SearchIsRight, RowIsBestMatch
  <2>7. (~latched => IsRowOf(best, node, node_name))'
    BY <1>1, <2>1, <2>6 DEF IsRowOf, UuidMatch, NameMatch, Beats, Indices
  <2>8. SearchIsRight'
    BY <1>4, <2>7 DEF SearchIsRight, RowIsBestMatch
  <2>9. \A k \in DOMAIN RecipeSteps[recipe_id'] : ~(k < s')
    BY <1>1, <1>4, <2>1, RecipesAssumption
  <2>10. ToldSoFar'
    BY <1>4, <2>9 DEF ToldSoFar
  <2>11. AppliedIsComplete'
    BY <1>1 DEF IInv, AppliedIsComplete
  <2> QED BY <2>4, <2>5, <2>8, <2>10, <2>11 DEF IInv
<1> QED BY <1>3, <1>4 DEF comp_data_fetch

(* What the steps of the loops over a recipe leave alone. *)
LEMMA LoopKeepsRest ==
  ASSUME IInv, pc \in {"step", "send"}, pc' \in {"step", "send"},
         UNCHANGED <<rows, offered, search, call, s_comp_page, err, done>>,
         s' \in Nat \ {0}, addrs' \subseteq Nat,
         conf' \in [Devices -> SUBSET Messages]
  PROVE  TypeOK' /\ CallIsOpen' /\ SearchIsRight'
<1>1. /\ node' = node /\ latched' = latched /\ recipe_id' = recipe_id
      /\ node_name' = node_name /\ i' = i /\ best' = best
      /\ UNCHANGED <<rows, offered, s_comp_page, err, done>>
  BY DEF search, call
<1>2. RowsOK'
  BY <1>1 DEF IInv, TypeOK, RowsOK, Indices
<1>3. pc' \in Locations /\ node \in Devices /\ recipe_id \in Recipes
  BY DEF Locations, IInv, TypeOK
<1>4. TypeOK'
  BY <1>1, <1>2, <1>3 DEF IInv, TypeOK
<1>5. CallIsOpen'
  BY <1>1 DEF IInv, CallIsOpen
<1>6. ~latched => IsRowOf(best, node, node_name)
  BY DEF IInv, SearchIsRight, RowIsBestMatch
<1>7. (~latched => IsRowOf(best, node, node_name))'
  BY <1>1, <1>6 DEF IsRowOf, UuidMatch, NameMatch, Beats, Indices
<1>8. SearchIsRight'
  BY <1>7 DEF SearchIsRight, RowIsBestMatch
<1> QED BY <1>4, <1>5, <1>8

LEMMA ApplyStep ==
  ASSUME IInv, apply_step
  PROVE  IInv'
<1>1. /\ pc = "step" /\ s <= Len(RecipeSteps[recipe_id])
      /\ UNCHANGED <<rows, offered, s_comp_page, conf, done>>
  BY DEF apply_step, steps
<1>2. CASE Return("EINVAL")
  <2>1. s_comp_page' \in Seq(SUBSET Models)
    BY <1>1 DEF IInv, TypeOK
  <2> QED BY <1>1, <1>2, <2>1, FailureKeepsIInv
<1>3. CASE /\ addrs' = Targets(RecipeSteps[recipe_id][s], s_comp_page)
           /\ pc' = "send" /\ UNCHANGED <<search, call, s, err>>
  <2>1. /\ node \in Devices /\ recipe_id \in Recipes /\ s \in Nat \ {0}
        /\ s_comp_page = CompOf[node]
    BY <1>1 DEF IInv, TypeOK, CallIsOpen
  <2>2. s \in DOMAIN RecipeSteps[recipe_id]
    BY <1>1, <2>1, RecipesAssumption
  <2>3. addrs' = Targets(RecipeSteps[recipe_id][s], CompOf[node])
    BY <1>3, <2>1
  <2>4. addrs' \subseteq Nat
    BY <2>1, <2>2, <2>3, StepTypes, TargetsType
  <2>5. conf' \in [Devices -> SUBSET Messages]
    BY <1>1 DEF IInv, TypeOK
  <2>6. TypeOK' /\ CallIsOpen' /\ SearchIsRight'
    BY <1>1, <1>3, <2>1, <2>4, <2>5, LoopKeepsRest
  <2>7. \A k \in DOMAIN RecipeSteps[recipe_id] :
          k < s => ToldStep(node, recipe_id, k)
    BY <1>1 DEF IInv, ToldSoFar
  <2>8. node' = node /\ recipe_id' = recipe_id /\ s' = s /\ conf' = conf
    BY <1>1, <1>3 DEF call
  <2>9. ToldSoFar'
    BY <1>3, <2>2, <2>3, <2>7, <2>8 DEF ToldSoFar, ToldStep
  <2>10. AppliedIsComplete'
    BY <1>1 DEF IInv, AppliedIsComplete
  <2> QED BY <2>6, <2>9, <2>10 DEF IInv
<1> QED BY <1>2, <1>3 DEF apply_step, steps

LEMMA StepDone ==
  ASSUME IInv, step_done
  PROVE  IInv'
<1>1. /\ pc = "send" /\ addrs = {} /\ pc' = "step" /\ s' = s + 1
      /\ UNCHANGED <<rows, offered, search, call, addrs, s_comp_page, err,
                     conf, done>>
      /\ node' = node /\ recipe_id' = recipe_id /\ conf' = conf
  BY DEF step_done, call
<1>2. /\ node \in Devices /\ recipe_id \in Recipes /\ s \in Nat \ {0}
      /\ conf' \in [Devices -> SUBSET Messages] /\ addrs' \subseteq Nat
      /\ s \in DOMAIN RecipeSteps[recipe_id]
  BY <1>1 DEF IInv, TypeOK, ToldSoFar
<1>3. s' \in Nat \ {0}
  BY <1>1, <1>2
<1>4. TypeOK' /\ CallIsOpen' /\ SearchIsRight'
  BY <1>1, <1>2, <1>3, LoopKeepsRest
<1>5. ToldStep(node, recipe_id, s)
  BY <1>1 DEF IInv, ToldSoFar, ToldStep
<1>6. \A k \in DOMAIN RecipeSteps[recipe_id] :
        k < s => ToldStep(node, recipe_id, k)
  BY <1>1 DEF IInv, ToldSoFar
<1>7. \A k \in DOMAIN RecipeSteps[recipe_id] : k < s + 1 => k < s \/ k = s
  BY <1>2, RecipesAssumption
<1>8. \A k \in DOMAIN RecipeSteps[recipe_id] :
        k < s + 1 => ToldStep(node, recipe_id, k)
  BY <1>5, <1>6, <1>7
<1>9. ToldSoFar'
  BY <1>1, <1>8 DEF ToldSoFar, ToldStep
<1>10. AppliedIsComplete'
  BY <1>1 DEF IInv, AppliedIsComplete
<1> QED BY <1>4, <1>9, <1>10 DEF IInv

LEMMA AnsweredStep ==
  ASSUME IInv, NEW e \in addrs, answered(e)
  PROVE  IInv'
<1> DEFINE m == Message(RecipeSteps[recipe_id][s], e)
<1>1. pc = "send" /\ UNCHANGED <<rows, offered, s_comp_page, done>>
  BY DEF answered, IsNext
<1>2. CASE Return("EIO") /\ UNCHANGED conf
  <2>1. s_comp_page' \in Seq(SUBSET Models)
    BY <1>1 DEF IInv, TypeOK
  <2> QED BY <1>1, <1>2, <2>1, FailureKeepsIInv
<1>3. CASE /\ addrs' = addrs \ {e}
           /\ conf' = [conf EXCEPT ![node] = Obeyed(@, m)]
           /\ UNCHANGED <<pc, search, call, s, err>>
  <2>1. node' = node /\ recipe_id' = recipe_id /\ done' = done
    BY <1>1, <1>3 DEF call
  <2>2. /\ conf' \in [Devices -> SUBSET Messages]
        /\ \A k \in DOMAIN RecipeSteps[recipe_id] :
             k < s => ToldStep(node, recipe_id, k)'
        /\ \A f \in Targets(RecipeSteps[recipe_id][s], CompOf[node])
                      \ (addrs \ {e}) :
             Message(RecipeSteps[recipe_id][s], f) \in conf'[node]
    BY <1>1, <1>3, <2>1, ObeyedIsTold
  <2>3. s' \in Nat \ {0} /\ addrs' \subseteq Nat
    BY <1>3 DEF IInv, TypeOK
  <2>4. TypeOK' /\ CallIsOpen' /\ SearchIsRight'
    BY <1>1, <1>3, <2>2, <2>3, LoopKeepsRest
  <2>5. /\ s \in DOMAIN RecipeSteps[recipe_id]
        /\ addrs \subseteq Targets(RecipeSteps[recipe_id][s], CompOf[node])
    BY <1>1 DEF IInv, ToldSoFar
  <2>6. ToldSoFar'
    BY <1>1, <1>3, <2>1, <2>2, <2>5 DEF ToldSoFar, ToldStep
  <2>7. AppliedIsComplete'
    BY <1>1, <1>3, OthersStayComplete
  <2> QED BY <2>4, <2>6, <2>7 DEF IInv
<1> QED BY <1>2, <1>3 DEF answered, steps

LEMMA AnswerLost ==
  ASSUME IInv, NEW e \in addrs, answer_lost(e)
  PROVE  IInv'
<1> DEFINE m == Message(RecipeSteps[recipe_id][s], e)
<1>1. /\ pc = "send" /\ conf' = [conf EXCEPT ![node] = Obeyed(@, m)]
      /\ Return("failed") /\ UNCHANGED <<rows, offered, s_comp_page, done>>
  BY DEF answer_lost, IsNext, steps
<1>2. AppliedIsComplete'
  BY <1>1, OthersStayComplete
<1>3. /\ node \in Devices /\ recipe_id \in Recipes /\ e \in Nat
      /\ s \in DOMAIN RecipeSteps[recipe_id]
      /\ conf \in [Devices -> SUBSET Messages]
      /\ s_comp_page' \in Seq(SUBSET Models)
      /\ done' \in [Devices -> Recipes \cup {RECIPE_NONE}]
      /\ offered' \subseteq Recipes
  BY <1>1 DEF IInv, TypeOK, ToldSoFar
<1>4. m \in Messages
  BY <1>3, StepTypes, MessageType
<1>5. conf' \in [Devices -> SUBSET Messages]
  BY <1>1, <1>3, <1>4 DEF Obeyed
<1>6. RowsOK'
  BY <1>1 DEF IInv, TypeOK, RowsOK, Indices
<1> QED BY <1>1, <1>2, <1>3, <1>5, <1>6, ReturnKeepsIInv

LEMMA RecipeApplied ==
  ASSUME IInv, recipe_applied
  PROVE  IInv'
<1>1. /\ pc = "step" /\ ~(s <= Len(RecipeSteps[recipe_id]))
      /\ UNCHANGED <<s_comp_page, conf>>
      /\ s > Len(RecipeSteps[recipe_id])
  BY DEF recipe_applied, steps, IInv, TypeOK
<1>2. /\ node \in Devices /\ recipe_id \in Recipes /\ s \in Nat
      /\ Len(RecipeSteps[recipe_id]) \in Nat
  BY <1>1, RecipesAssumption DEF IInv, TypeOK
<1>3. \A k \in DOMAIN RecipeSteps[recipe_id] : k < s
  BY <1>1, <1>2, RecipesAssumption
<1>4. ToldAll(node, recipe_id)
  BY <1>1, <1>3 DEF IInv, ToldSoFar, ToldAll
<1>5. CASE latched
  <2>1. /\ pc' = "uuid_rows" /\ i' = 1 /\ best' = 0
        /\ UNCHANGED <<rows, offered, call, s, addrs, s_comp_page, err, conf,
                       done>>
        /\ node' = node /\ recipe_id' = recipe_id
    BY <1>1, <1>5 DEF recipe_applied, call
  <2>2. pc' \in Locations \ {"step", "send"} /\ pc # "idle"
    BY <1>1, <2>1 DEF Locations
  <2>3. i' \in 1 .. Len(rows) + 1 /\ best' \in 0 .. Len(rows)
    BY <2>1 DEF IInv, TypeOK, RowsOK
  <2>4. TypeOK'
    BY <2>1, <2>2, <2>3, SearchKeepsTypes
  <2>5. CallIsOpen'
    BY <1>1, <2>1 DEF IInv, CallIsOpen, call
  <2>6. SearchIsRight'
    BY <2>1 DEF SearchIsRight, BestSoFar, RowIsBestMatch
  <2>7. ToldSoFar'
    BY <1>4, <2>1 DEF ToldSoFar, ToldAll, ToldStep
  <2>8. AppliedIsComplete'
    BY <2>1 DEF IInv, AppliedIsComplete
  <2> QED BY <2>4, <2>5, <2>6, <2>7, <2>8 DEF IInv
<1>6. CASE ~latched
  <2>1. /\ scenario_row_consume_recipe_id(best, recipe_id)
        /\ done' = [done EXCEPT ![node] = recipe_id] /\ Return("0")
    BY <1>6 DEF recipe_applied
  <2> QED BY <1>1, <1>2, <1>4, <2>1, ConsumeKeepsIInv
<1> QED BY <1>5, <1>6

-----------------------------------------------------------------------------
(* The invariant                                                           *)

LEMMA SearchKeepsIInv ==
  ASSUME IInv, FindRow
  PROVE  IInv'
BY UuidRowStep, UuidRowsEnd, NameRowStep, NameRowsEnd, RowFoundStep,
  ConsumeStep DEF FindRow

LEMMA RecipeKeepsIInv ==
  ASSUME IInv, ApplyRecipe
  PROVE  IInv'
<1>1. CASE no_such_recipe
  BY <1>1, NoSuchRecipe
<1>2. CASE comp_data_fetch
  BY <1>2, FetchStep
<1>3. CASE fetch_failed
  BY <1>3, CallFails DEF fetch_failed
<1>4. CASE apply_step
  BY <1>4, ApplyStep
<1>5. CASE step_done
  BY <1>5, StepDone
<1>6. CASE \E e \in addrs : answered(e) \/ message_lost(e) \/ answer_lost(e)
  <2>1. ASSUME NEW e \in addrs, message_lost(e)
        PROVE  IInv'
    BY <2>1, CallFails DEF message_lost
  <2> QED BY <1>6, <2>1, AnsweredStep, AnswerLost
<1>7. CASE recipe_applied
  BY <1>7, RecipeApplied
<1> QED BY <1>1, <1>2, <1>3, <1>4, <1>5, <1>6, <1>7 DEF ApplyRecipe

LEMMA StutterKeepsIInv ==
  ASSUME IInv, UNCHANGED vars
  PROVE  IInv'
<1>1. /\ UNCHANGED <<rows, offered, pc, node, node_name, latched, i, best,
                     recipe_id, s,
                     addrs, s_comp_page, err, conf, done>>
  BY DEF vars, call, search
<1>2. RowsOK'
  BY <1>1 DEF IInv, TypeOK, RowsOK, Indices
<1>3. TypeOK'
  BY <1>1, <1>2 DEF IInv, TypeOK
<1>4. CallIsOpen' /\ AppliedIsComplete'
  BY <1>1 DEF IInv, CallIsOpen, AppliedIsComplete
<1>5. SearchIsRight'
  BY <1>1 DEF IInv, SearchIsRight, RowIsBestMatch, BestSoFar, IsRowOf,
    UuidMatch, NameMatch, Beats, Indices
<1>6. ToldSoFar'
  BY <1>1 DEF IInv, ToldSoFar, ToldAll, ToldStep
<1> QED BY <1>3, <1>4, <1>5, <1>6 DEF IInv

(* Every step of a configuration keeps the invariant. *)
THEOREM NextIInv == IInv /\ [Next]_vars => IInv'
<1> SUFFICES ASSUME IInv, [Next]_vars PROVE IInv'
  OBVIOUS
<1>1. CASE \E d \in Devices : mesh_config_apply(d) \/ latched_recipe(d)
  BY <1>1, ApplyBegins, LatchedBegins
<1>2. CASE FindRow
  BY <1>2, SearchKeepsIInv
<1>3. CASE ApplyRecipe
  BY <1>3, RecipeKeepsIInv
<1>4. CASE UNCHANGED vars
  BY <1>4, StutterKeepsIInv
<1> QED BY <1>1, <1>2, <1>3, <1>4 DEF Next

THEOREM Invariance == Spec => []IInv
BY InitIInv, NextIInv, PTL DEF Spec

(* A running call always has a node, a recipe it may apply and a place in the
   table, and no rotation leaves a row without a recipe to be at. *)
THEOREM TypeCorrect == Spec => []TypeOK
<1>1. IInv => TypeOK
  BY DEF IInv
<1> QED BY <1>1, Invariance, PTL

(* The search settles for the row the documentation describes: the longest
   UUID prefix, the first of several, else the first with the name. *)
THEOREM SearchFindsBestMatch == Spec => []RowIsBestMatch
<1>1. IInv => RowIsBestMatch
  BY DEF IInv, SearchIsRight
<1> QED BY <1>1, Invariance, PTL

(* A node counts as configured only when it was told the whole recipe. *)
THEOREM ConfiguredIsToldAll == Spec => []AppliedIsComplete
<1>1. IInv => AppliedIsComplete
  BY DEF IInv
<1> QED BY <1>1, Invariance, PTL

-----------------------------------------------------------------------------
(* Steps                                                                   *)

(* By the time a step needs the application key, the node was given it. *)
LEMMA KeyComesFirst ==
  ASSUME IInv, pc = "send",
         RecipeSteps[recipe_id][s].op \in {"bind_app", "pub_set"}
  PROVE  HasAppKey(conf[node])
<1>1. recipe_id \in Recipes /\ s \in DOMAIN RecipeSteps[recipe_id]
  BY DEF IInv, TypeOK, ToldSoFar
<1>2. PICK j \in 1 .. s - 1 :
        /\ RecipeSteps[recipe_id][j].op = "appkey_add"
        /\ RecipeSteps[recipe_id][j].elem_sel = "addr_off"
  BY <1>1, KeysFirstAssumption
<1>3. j \in DOMAIN RecipeSteps[recipe_id] /\ j < s
  BY <1>1, RecipesAssumption
<1> DEFINE step == RecipeSteps[recipe_id][j]
<1>4. \A e \in Targets(step, CompOf[node]) : Message(step, e) \in conf[node]
  BY <1>3 DEF IInv, ToldSoFar, ToldStep
<1>5. step.elem_param \in Targets(step, CompOf[node])
  BY <1>2 DEF Targets
<1>6. Message(step, step.elem_param).op = "appkey_add"
  BY <1>2 DEF Message
<1> QED BY <1>4, <1>5, <1>6 DEF HasAppKey

LEMMA RefusalHasItsReason ==
  ASSUME IInv, NEW e \in addrs, answered(e), err' # err, err' = "EIO"
  PROVE  /\ RecipeSteps[recipe_id][s].op \in {"bind_app", "sub_add", "pub_set"}
         /\ IsNext(e)
         /\ ~comp_elem_has_model(CompOf[node], e,
                                 RecipeSteps[recipe_id][s].model)
<1> DEFINE step == RecipeSteps[recipe_id][s]
           m == Message(step, e)
<1>1. IsNext(e) /\ pc = "send"
  BY DEF answered, IsNext
<1>2. PICK status \in Statuses(node, m) : ~mesh_cfg_status_ok(m.op, status)
  BY DEF answered, steps
<1>3. step \in StepType /\ m.op = step.op /\ m.elem = e /\ m.model = step.model
  <2>1. recipe_id \in Recipes /\ s \in DOMAIN RecipeSteps[recipe_id]
    BY <1>1 DEF IInv, TypeOK, ToldSoFar
  <2> QED BY <2>1, StepTypes DEF Message
<1>4. step.op \in {"bind_app", "pub_set"} => HasAppKey(conf[node])
  BY <1>1, KeyComesFirst
<1> HIDE DEF step, m
<1>5. m.op \notin {"netkey_add", "appkey_add"}
  BY <1>2 DEF Statuses, mesh_cfg_status_ok
<1>6. step.op \in {"bind_app", "sub_add", "pub_set"}
  BY <1>3, <1>5 DEF StepType
<1>7. ~comp_elem_has_model(CompOf[node], e, step.model)
  <2> SUFFICES ASSUME comp_elem_has_model(CompOf[node], m.elem, m.model)
               PROVE  FALSE
    BY <1>3
  <2>1. Statuses(node, m) = {"success"}
    BY <1>3, <1>4, <1>5, <1>6 DEF Statuses
  <2> QED BY <1>2, <2>1 DEF mesh_cfg_status_ok
<1> QED BY <1>1, <1>6, <1>7 DEF step

(* A repeated call is never refused for what an earlier one did, nor for want
   of the application key: only for a model the node has not got. *)
THEOREM RefusalsAreForModels == Spec => RefusedOnlyForItsModels
<1> DEFINE Because ==
             /\ steps[s].op \in {"bind_app", "sub_add", "pub_set"}
             /\ \E e \in addrs :
                  IsNext(e)
                  /\ ~comp_elem_has_model(CompOf[node], e, steps[s].model)
<1>1. IInv /\ [Next]_vars => [err # "EIO" /\ err' = "EIO" => Because]_vars
  <2> SUFFICES ASSUME IInv, [Next]_vars, err # "EIO", err' = "EIO"
               PROVE  Because
    OBVIOUS
  <2>1. CASE \E d \in Devices : mesh_config_apply(d) \/ latched_recipe(d)
    BY <2>1 DEF mesh_config_apply, latched_recipe, Begin
  <2>2. CASE FindRow
    BY <2>2 DEF FindRow, uuid_row, uuid_rows_done, name_row, name_rows_done,
      row_found, mesh_scenario_consume_recipe_id, Return
  <2>3. CASE no_such_recipe \/ comp_data_fetch \/ fetch_failed
    BY <2>3 DEF no_such_recipe, comp_data_fetch, fetch_failed, CallFailed,
      Return
  <2>4. CASE apply_step \/ step_done \/ recipe_applied
    BY <2>4 DEF apply_step, step_done, recipe_applied, Return
  <2>5. CASE \E e \in addrs : message_lost(e) \/ answer_lost(e)
    BY <2>5 DEF message_lost, answer_lost, CallFailed, Return
  <2>6. CASE \E e \in addrs : answered(e)
    BY <2>6, RefusalHasItsReason DEF steps
  <2>7. CASE UNCHANGED vars
    BY <2>7 DEF vars
  <2> QED BY <2>1, <2>2, <2>3, <2>4, <2>5, <2>6, <2>7 DEF Next, ApplyRecipe
<1> QED BY <1>1, Invariance, PTL DEF Spec, RefusedOnlyForItsModels

LEMMA RowMoves ==
  ASSUME IInv, pc # "idle", IsRowOf(best, node, node_name),
         scenario_row_consume_recipe_id(best, recipe_id),
         done' = [done EXCEPT ![node] = recipe_id],
         NEW r \in Indices, rows'[r].recipe_idx # rows[r].recipe_idx
  PROVE  /\ done'[node] = scenario_row_peek_recipe_id(r)
         /\ done[node] = RECIPE_NONE
         /\ IsRowOf(r, node, node_name)
<1>1. TypeOK /\ best \in 0 .. Len(rows) /\ node \in Devices
  BY DEF IInv, TypeOK
<1>2. r = best /\ scenario_row_peek_recipe_id(r) = recipe_id
  BY <1>1, ConsumeMovesOneRow
<1>3. done'[node] = recipe_id /\ done[node] = RECIPE_NONE
  BY <1>1 DEF TypeOK, IInv, CallIsOpen
<1> QED BY <1>2, <1>3

(* A row moves on only for a node it is the row of, that was not configured
   before and is configured now, with the recipe the row was at. *)
THEOREM RowsMoveForTheirNodes == Spec => RowMovesWithItsRecipe
<1> DEFINE Moves(r) ==
             /\ done'[node] = scenario_row_peek_recipe_id(r)
             /\ done[node] = RECIPE_NONE
             /\ IsRowOf(r, node, node_name)
<1>1. IInv /\ [Next]_vars
        => [\A r \in Indices :
              rows'[r].recipe_idx # rows[r].recipe_idx => Moves(r)]_vars
  <2> SUFFICES ASSUME IInv, [Next]_vars, NEW r \in Indices,
                      rows'[r].recipe_idx # rows[r].recipe_idx
               PROVE  Moves(r)
    OBVIOUS
  <2>1. CASE mesh_scenario_consume_recipe_id
    <3>1. IsRowOf(best, node, node_name) /\ pc # "idle"
      BY <2>1 DEF mesh_scenario_consume_recipe_id, IInv, SearchIsRight,
        RowIsBestMatch
    <3> QED BY <2>1, <3>1, RowMoves DEF mesh_scenario_consume_recipe_id
  <2>2. CASE recipe_applied
    <3>1. pc = "step" /\ ~latched
      BY <2>2 DEF recipe_applied
    <3>2. IsRowOf(best, node, node_name)
      BY <3>1 DEF IInv, SearchIsRight, RowIsBestMatch
    <3> QED BY <2>2, <3>1, <3>2, RowMoves DEF recipe_applied
  <2>3. CASE UNCHANGED rows
    BY <2>3
  <2>4. CASE \E d \in Devices : mesh_config_apply(d) \/ latched_recipe(d)
    BY <2>4, <2>3 DEF mesh_config_apply, latched_recipe, Begin
  <2>5. CASE uuid_row \/ uuid_rows_done \/ name_row \/ name_rows_done \/ row_found
    BY <2>5, <2>3 DEF uuid_row, uuid_rows_done, name_row, name_rows_done,
      row_found
  <2>6. CASE \/ no_such_recipe \/ comp_data_fetch \/ fetch_failed
             \/ apply_step \/ step_done
    BY <2>6, <2>3 DEF no_such_recipe, comp_data_fetch, fetch_failed,
      CallFailed, apply_step, step_done
  <2>7. CASE \E e \in addrs : answered(e) \/ message_lost(e) \/ answer_lost(e)
    BY <2>7, <2>3 DEF answered, message_lost, answer_lost, CallFailed
  <2>8. CASE UNCHANGED vars
    BY <2>8, <2>3 DEF vars
  <2> QED BY <2>1, <2>2, <2>4, <2>5, <2>6, <2>7, <2>8
            DEF Next, FindRow, ApplyRecipe
<1> QED BY <1>1, Invariance, PTL DEF Spec, RowMovesWithItsRecipe

-----------------------------------------------------------------------------
(* The table                                                               *)

(* What no call ever changes of the table. *)
TableKept ==
  /\ Len(rows') = Len(rows)
  /\ \A r \in Indices :
       /\ rows'[r].match_type = rows[r].match_type
       /\ rows'[r].match = rows[r].match
       /\ rows'[r].recipe_ids = rows[r].recipe_ids

LEMMA ConsumeKeepsTable ==
  ASSUME IInv, NEW r \in 0 .. Len(rows), NEW id,
         scenario_row_consume_recipe_id(r, id)
  PROVE  TableKept
<1> DEFINE row == [rows[r] EXCEPT !.recipe_idx =
                     (@ % Len(rows[r].recipe_ids)) + 1]
<1>1. rows \in Seq(Row)
  BY DEF IInv, TypeOK, RowsOK
<1>2. CASE rows' = rows
  BY <1>2 DEF TableKept
<1>3. CASE rows' # rows
  <2>1. r \in Indices /\ rows' = [rows EXCEPT ![r] = row]
    BY <1>3 DEF scenario_row_consume_recipe_id, Indices
  <2>2. rows[r] \in Row
    BY <1>1, <2>1 DEF Indices
  <2>3. /\ row.match_type = rows[r].match_type /\ row.match = rows[r].match
        /\ row.recipe_ids = rows[r].recipe_ids
    BY <2>2 DEF Row
  <2> HIDE DEF row
  <2> QED BY <1>1, <2>1, <2>3 DEF TableKept, Indices
<1> QED BY <1>2, <1>3

LEMMA StepKeepsTable == IInv /\ [Next]_vars => TableKept
<1> SUFFICES ASSUME IInv, [Next]_vars PROVE TableKept
  OBVIOUS
<1>1. best \in 0 .. Len(rows)
  BY DEF IInv, TypeOK
<1>2. CASE UNCHANGED rows
  BY <1>2 DEF TableKept
<1>3. CASE mesh_scenario_consume_recipe_id
  BY <1>1, <1>3, ConsumeKeepsTable DEF mesh_scenario_consume_recipe_id
<1>4. CASE recipe_applied
  BY <1>1, <1>2, <1>4, ConsumeKeepsTable DEF recipe_applied
<1>5. CASE \E d \in Devices : mesh_config_apply(d) \/ latched_recipe(d)
  BY <1>5, <1>2 DEF mesh_config_apply, latched_recipe, Begin
<1>6. CASE uuid_row \/ uuid_rows_done \/ name_row \/ name_rows_done \/ row_found
  BY <1>6, <1>2 DEF uuid_row, uuid_rows_done, name_row, name_rows_done,
    row_found
<1>7. CASE \/ no_such_recipe \/ comp_data_fetch \/ fetch_failed
           \/ apply_step \/ step_done
  BY <1>7, <1>2 DEF no_such_recipe, comp_data_fetch, fetch_failed, CallFailed,
    apply_step, step_done
<1>8. CASE \E e \in addrs : answered(e) \/ message_lost(e) \/ answer_lost(e)
  BY <1>8, <1>2 DEF answered, message_lost, answer_lost, CallFailed
<1>9. CASE UNCHANGED vars
  BY <1>9, <1>2 DEF vars
<1> QED BY <1>3, <1>4, <1>5, <1>6, <1>7, <1>8, <1>9
          DEF Next, FindRow, ApplyRecipe

(* Nor does a device ever get another row. *)
LEMMA RowKept ==
  ASSUME TableKept, NEW d, NEW name, NEW r
  PROVE  IsRowOf(r, d, name)' <=> IsRowOf(r, d, name)
<1>1. Indices' = Indices
  BY DEF TableKept, Indices
<1>2. \A q \in Indices :
        /\ UuidMatch(q, d)' <=> UuidMatch(q, d)
        /\ NameMatch(q, name)' <=> NameMatch(q, name)
        /\ match_len(rows'[q]) = match_len(rows[q])
  BY DEF TableKept, UuidMatch, NameMatch, match_len
<1>3. \A q, p \in Indices : Beats(q, p)' <=> Beats(q, p)
  BY <1>2 DEF Beats
<1>4. r \in Indices => \A q \in 1 .. r - 1 : q \in Indices
  BY DEF Indices
<1> QED BY <1>1, <1>2, <1>3, <1>4 DEF IsRowOf

(* A device has one row: it is the best of its UUID, or the first of its name. *)
LEMMA OneRow ==
  ASSUME RowsOK, NEW d \in Devices, NEW r \in Indices, NEW q \in Indices,
         NEW m \in {NameOf[d], None}, NEW n \in {NameOf[d], None},
         IsRowOf(r, d, m), IsRowOf(q, d, n)
  PROVE  r = q
<1>1. r \in Nat \ {0} /\ q \in Nat \ {0}
  BY DEF Indices
<1>2. CASE \E p \in Indices : UuidMatch(p, d)
  <2>1. UuidMatch(r, d) /\ UuidMatch(q, d) /\ Beats(r, q) /\ Beats(q, r)
    BY <1>1, <1>2 DEF IsRowOf
  <2>2. match_len(rows[r]) \in Nat /\ match_len(rows[q]) \in Nat
    BY <2>1, MatchLength
  <2> QED BY <1>1, <2>1, <2>2 DEF Beats
<1>3. CASE \A p \in Indices : ~UuidMatch(p, d)
  <2>1. /\ NameMatch(r, m) /\ \A p \in 1 .. r - 1 : ~NameMatch(p, m)
        /\ NameMatch(q, n) /\ \A p \in 1 .. q - 1 : ~NameMatch(p, n)
    BY <1>1, <1>3 DEF IsRowOf
  <2>2. m = n
    BY <2>1 DEF NameMatch, device_name_match
  <2>3. ~(r < q) /\ ~(q < r)
    BY <1>1, <2>1, <2>2
  <2> QED BY <1>1, <2>3
<1> QED BY <1>2, <1>3

-----------------------------------------------------------------------------
(* The application key of what a node publishes                            *)

(* A publication of a node was set by this step of this recipe, and what the
   recipe binds of the element before, is bound. *)
SetByStep(d, f, r, k) ==
  LET step == RecipeSteps[r][k]
  IN  /\ step.op = "pub_set" /\ f = Message(step, f.elem)
      /\ f.elem \in Targets(step, CompOf[d])
      /\ \A j \in 1 .. k - 1 :
           RecipeSteps[r][j].op = "bind_app"
           /\ SameTargets(step, RecipeSteps[r][j])
             => Message(RecipeSteps[r][j], f.elem) \in conf[d]

PublishesFromOffered ==
  \A d \in Devices : \A f \in conf[d] : f.op = "pub_set" =>
    \E r \in offered : \E k \in DOMAIN RecipeSteps[r] : SetByStep(d, f, r, k)

GivenFromOffered ==
  /\ pc # "idle" => node_name \in {NameOf[node], None}
  /\ pc # "idle" /\ recipe_id \in Recipes => recipe_id \in offered
  /\ Lookups \subseteq offered

PublishersInv == PublishesFromOffered /\ GivenFromOffered

LEMMA PublishersStart == Init => PublishersInv
BY DEF Init, PublishersInv, PublishesFromOffered, GivenFromOffered

LEMMA LookupsKept == UNCHANGED rows => UNCHANGED Lookups
BY DEF Lookups, IsRowOf, UuidMatch, NameMatch, Beats, match_len, Indices,
  scenario_row_peek_recipe_id

(* What was offered stays offered, and what is offered next is added. *)
LEMMA OfferedGrows ==
  [Next]_vars => \/ offered' = offered /\ UNCHANGED Lookups
                 \/ offered' = offered \cup Lookups'
<1> SUFFICES ASSUME [Next]_vars
             PROVE  \/ offered' = offered /\ UNCHANGED Lookups
                    \/ offered' = offered \cup Lookups'
  OBVIOUS
<1>1. CASE UNCHANGED <<rows, offered>>
  BY <1>1, LookupsKept
<1>2. CASE mesh_scenario_consume_recipe_id
  BY <1>2 DEF mesh_scenario_consume_recipe_id, scenario_row_consume_recipe_id
<1>3. CASE recipe_applied
  BY <1>1, <1>3 DEF recipe_applied, scenario_row_consume_recipe_id
<1>4. CASE \E d \in Devices : mesh_config_apply(d) \/ latched_recipe(d)
  BY <1>4, <1>1 DEF mesh_config_apply, latched_recipe, Begin
<1>5. CASE uuid_row \/ uuid_rows_done \/ name_row \/ name_rows_done \/ row_found
  BY <1>5, <1>1 DEF uuid_row, uuid_rows_done, name_row, name_rows_done,
    row_found
<1>6. CASE \/ no_such_recipe \/ comp_data_fetch \/ fetch_failed
           \/ apply_step \/ step_done
  BY <1>6, <1>1 DEF no_such_recipe, comp_data_fetch, fetch_failed, CallFailed,
    apply_step, step_done
<1>7. CASE \E e \in addrs : answered(e) \/ message_lost(e) \/ answer_lost(e)
  BY <1>7, <1>1 DEF answered, message_lost, answer_lost, CallFailed
<1>8. CASE UNCHANGED vars
  BY <1>8, <1>1 DEF vars
<1> QED BY <1>2, <1>3, <1>4, <1>5, <1>6, <1>7, <1>8
        DEF Next, FindRow, ApplyRecipe

(* What a step that tells no node anything keeps. *)
LEMMA UntoldKeep ==
  ASSUME PublishesFromOffered, offered \subseteq offered', UNCHANGED conf
  PROVE  PublishesFromOffered'
<1>1. \A d, f, r, k : SetByStep(d, f, r, k)' <=> SetByStep(d, f, r, k)
  BY DEF SetByStep
<1> QED BY <1>1 DEF PublishesFromOffered

(* A message to a node is a step of the recipe it is given, after those before
   it; no message takes a binding back. *)
LEMMA ToldKeep ==
  ASSUME IInv, GivenFromOffered, PublishesFromOffered,
         offered \subseteq offered', pc = "send", NEW e \in addrs,
         conf' = [conf EXCEPT ![node] =
                    Obeyed(@, Message(RecipeSteps[recipe_id][s], e))]
  PROVE  PublishesFromOffered'
<1> DEFINE m == Message(RecipeSteps[recipe_id][s], e)
<1>1. /\ node \in Devices /\ recipe_id \in Recipes
      /\ conf \in [Devices -> SUBSET Messages]
      /\ s \in DOMAIN RecipeSteps[recipe_id]
      /\ e \in Targets(RecipeSteps[recipe_id][s], CompOf[node])
  BY DEF IInv, TypeOK, ToldSoFar
<1>2. recipe_id \in offered
  BY <1>1 DEF GivenFromOffered
<1>3. ASSUME NEW d \in Devices, NEW b \in conf[d], b.op = "bind_app"
      PROVE  b \in conf'[d]
  BY <1>1, <1>3 DEF Obeyed
<1> SUFFICES ASSUME NEW d \in Devices, NEW f \in conf'[d], f.op = "pub_set"
             PROVE  \E r \in offered : \E k \in DOMAIN RecipeSteps[r] :
                      SetByStep(d, f, r, k)'
  BY DEF PublishesFromOffered
<1>4. CASE f \in conf[d]
  <2>0. PICK r \in offered : \E k \in DOMAIN RecipeSteps[r] : SetByStep(d, f,
    r, k)
    BY <1>4 DEF PublishesFromOffered
  <2>1. PICK k \in DOMAIN RecipeSteps[r] : SetByStep(d, f, r, k)
    BY <2>0
  <2>2. SetByStep(d, f, r, k)'
    BY <1>3, <2>1 DEF SetByStep, Message
  <2> QED BY <2>2
<1>5. CASE f \notin conf[d]
  <2>1. d = node /\ f = m
    BY <1>1, <1>5 DEF Obeyed
  <2>2. RecipeSteps[recipe_id][s].op = "pub_set" /\ f.elem = e
    BY <2>1 DEF Message
  <2>3. ASSUME NEW j \in 1 .. s - 1, RecipeSteps[recipe_id][j].op = "bind_app",
               SameTargets(RecipeSteps[recipe_id][s], RecipeSteps[recipe_id][j])
        PROVE  Message(RecipeSteps[recipe_id][j], e) \in conf'[node]
    <3>1. j \in DOMAIN RecipeSteps[recipe_id] /\ j < s
      BY <1>1, StepTypes
    <3>2. e \in Targets(RecipeSteps[recipe_id][j], CompOf[node])
      BY <1>1, <2>3 DEF SameTargets, Targets
    <3>3. Message(RecipeSteps[recipe_id][j], e) \in conf[node]
      BY <3>1, <3>2 DEF IInv, ToldSoFar, ToldStep
    <3>4. Message(RecipeSteps[recipe_id][j], e).op = "bind_app"
      BY <2>3 DEF Message
    <3> QED BY <1>1, <1>3, <3>3, <3>4
  <2>4. PICK r, k : r = recipe_id /\ k = s
    OBVIOUS
  <2>5. SetByStep(d, f, r, k)'
    BY <1>1, <2>1, <2>2, <2>3, <2>4 DEF SetByStep
  <2> QED BY <1>1, <1>2, <2>4, <2>5
<1> QED BY <1>4, <1>5

LEMMA PublishesKept ==
  IInv /\ PublishersInv /\ [Next]_vars => PublishesFromOffered'
<1> SUFFICES ASSUME IInv, PublishersInv, [Next]_vars
             PROVE  PublishesFromOffered'
  OBVIOUS
<1>1. offered \subseteq offered' /\ GivenFromOffered /\ PublishesFromOffered
  BY OfferedGrows DEF PublishersInv
<1>2. CASE UNCHANGED conf
  BY <1>1, <1>2, UntoldKeep
<1>3. CASE \E e \in addrs : answered(e) \/ message_lost(e) \/ answer_lost(e)
  <2>1. PICK e \in addrs : answered(e) \/ message_lost(e) \/ answer_lost(e)
    BY <1>3
  <2>2. CASE message_lost(e)
    BY <2>2, <1>2 DEF message_lost, CallFailed
  <2>3. CASE answered(e) \/ answer_lost(e)
    <3>1. pc = "send"
      BY <2>3 DEF answered, answer_lost, IsNext
    <3>2. \/ UNCHANGED conf
          \/ conf' = [conf EXCEPT ![node] =
                        Obeyed(@, Message(RecipeSteps[recipe_id][s], e))]
      BY <2>3 DEF answered, answer_lost, steps
    <3> QED BY <1>1, <1>2, <3>1, <3>2, ToldKeep
  <2> QED BY <2>1, <2>2, <2>3
<1>4. CASE \E d \in Devices : mesh_config_apply(d) \/ latched_recipe(d)
  BY <1>4, <1>2 DEF mesh_config_apply, latched_recipe, Begin
<1>5. CASE FindRow
  BY <1>5, <1>2 DEF FindRow, uuid_row, uuid_rows_done, name_row,
    name_rows_done, row_found, mesh_scenario_consume_recipe_id
<1>6. CASE \/ no_such_recipe \/ comp_data_fetch \/ fetch_failed
           \/ apply_step \/ step_done \/ recipe_applied
  BY <1>6, <1>2 DEF no_such_recipe, comp_data_fetch, fetch_failed, CallFailed,
    apply_step, step_done, recipe_applied
<1>7. CASE UNCHANGED vars
  BY <1>7, <1>2 DEF vars
<1> QED BY <1>3, <1>4, <1>5, <1>6, <1>7 DEF Next, ApplyRecipe

(* The row a recipe is taken from is one the device has. *)
LEMMA RowFoundGives ==
  ASSUME IInv, GivenFromOffered, row_found, pc' # "idle"
  PROVE  /\ UNCHANGED <<node, node_name>>
         /\ recipe_id' \in Recipes => recipe_id' \in offered
<1>1. pc = "matched" /\ best # 0
  BY DEF row_found, Return
<1>2. /\ recipe_id' = scenario_row_peek_recipe_id(best)
      /\ UNCHANGED <<node, node_name>>
  BY <1>1 DEF row_found
<1>3. /\ best \in Indices /\ node \in Devices
      /\ IsRowOf(best, node, node_name) /\ node_name \in {NameOf[node], None}
  BY <1>1 DEF IInv, TypeOK, SearchIsRight, RowIsBestMatch, Indices,
    GivenFromOffered
<1>4. node_name \in Names \cup {None}
  BY <1>3, DevicesAssumption
<1>5. recipe_id' \in Recipes => recipe_id' \in Lookups
  BY <1>2, <1>3, <1>4 DEF Lookups
<1> QED BY <1>2, <1>5 DEF GivenFromOffered

LEMMA GivenKept ==
  IInv /\ PublishersInv /\ [Next]_vars => GivenFromOffered'
<1> SUFFICES ASSUME IInv, PublishersInv, [Next]_vars
             PROVE  GivenFromOffered'
  OBVIOUS
<1> DEFINE Given == /\ node_name \in {NameOf[node], None}
                    /\ recipe_id \in Recipes => recipe_id \in offered
<1>1. offered \subseteq offered' /\ Lookups' \subseteq offered'
  BY OfferedGrows DEF PublishersInv, GivenFromOffered
<1>2. pc # "idle" => Given
  BY DEF PublishersInv, GivenFromOffered
<1> SUFFICES ASSUME pc' # "idle" PROVE Given'
  BY <1>1 DEF GivenFromOffered
<1>3. CASE UNCHANGED call /\ pc # "idle"
  BY <1>1, <1>2, <1>3 DEF call
<1>4. CASE \E d \in Devices : mesh_config_apply(d) \/ latched_recipe(d)
  BY <1>1, <1>4, RecipesAssumption DEF mesh_config_apply, latched_recipe, Begin
<1>5. CASE uuid_row \/ uuid_rows_done \/ name_row \/ name_rows_done
  BY <1>3, <1>5 DEF uuid_row, uuid_rows_done, name_row, name_rows_done
<1>6. CASE row_found
  <2>1. GivenFromOffered /\ pc # "idle"
    BY <1>6 DEF row_found, PublishersInv
  <2> QED BY <1>1, <1>2, <1>6, <2>1, RowFoundGives
<1>7. CASE mesh_scenario_consume_recipe_id
  BY <1>7 DEF mesh_scenario_consume_recipe_id, Return
<1>8. CASE \/ no_such_recipe \/ comp_data_fetch \/ fetch_failed
           \/ apply_step \/ step_done \/ recipe_applied
  BY <1>3, <1>8 DEF no_such_recipe, comp_data_fetch, fetch_failed, CallFailed,
    apply_step, step_done, recipe_applied, Return
<1>9. CASE \E e \in addrs : answered(e) \/ message_lost(e) \/ answer_lost(e)
  BY <1>3, <1>9 DEF answered, message_lost, answer_lost, CallFailed, IsNext,
    Return
<1>10. CASE UNCHANGED vars
  BY <1>3, <1>10 DEF vars
<1> QED BY <1>4, <1>5, <1>6, <1>7, <1>8, <1>9, <1>10
        DEF Next, FindRow, ApplyRecipe

LEMMA PublishersInvariance == Spec => [](IInv /\ PublishersInv)
<1>1. IInv /\ PublishersInv /\ [Next]_vars => PublishersInv'
  BY PublishesKept, GivenKept DEF PublishersInv
<1> QED BY <1>1, InitIInv, NextIInv, PublishersStart, PTL DEF Spec

(* A configured node publishes nothing it is not bound to the application key for,
   but what a recipe made it publish that was not the one it was configured with,
   that some look-up had returned, and that publishes before it binds. *)
THEOREM PublishersAreBound == Spec => []ConfiguredTalksWithKey
<1>1. IInv /\ PublishersInv => ConfiguredTalksWithKey
  <2> DEFINE Bound(d, f) ==
        \E b \in conf[d] :
          b.op = "bind_app" /\ b.elem = f.elem /\ b.model = f.model
  <2> SUFFICES ASSUME IInv, PublishersInv, NEW d \in Devices,
                      done[d] # RECIPE_NONE, NEW f \in conf[d], f.op = "pub_set"
               PROVE  \/ Bound(d, f)
                      \/ \E r \in offered \ {done[d]} : PublishesFirst(r, d, f)
    BY DEF ConfiguredTalksWithKey
  <2>0. PICK r \in offered : \E k \in DOMAIN RecipeSteps[r] : SetByStep(d, f,
    r, k)
    BY DEF PublishersInv, PublishesFromOffered
  <2>1. PICK k \in DOMAIN RecipeSteps[r] : SetByStep(d, f, r, k)
    BY <2>0
  <2> DEFINE step == RecipeSteps[r][k]
  <2>2. /\ step.op = "pub_set" /\ f = Message(step, f.elem)
        /\ f.elem \in Targets(step, CompOf[d])
    BY <2>1 DEF SetByStep
  <2>3. f.model = step.model
    BY <2>2 DEF Message
  <2>4. ASSUME NEW b \in DOMAIN RecipeSteps[r],
               RecipeSteps[r][b].op = "bind_app",
               SameTargets(step, RecipeSteps[r][b]),
               Message(RecipeSteps[r][b], f.elem) \in conf[d]
        PROVE  Bound(d, f)
    <3> DEFINE m == Message(RecipeSteps[r][b], f.elem)
    <3>1. m.op = "bind_app" /\ m.elem = f.elem /\ m.model = f.model
      BY <2>3, <2>4 DEF Message, SameTargets
    <3> QED BY <2>4, <3>1
  <2>5. CASE r = done[d]
    <3>1. r \in Recipes
      BY DEF IInv, TypeOK
    <3>2. PICK b \in DOMAIN RecipeSteps[r] :
            /\ RecipeSteps[r][b].op = "bind_app"
            /\ SameTargets(step, RecipeSteps[r][b])
      BY <2>2, <3>1, BindingsAssumption
    <3>3. f.elem \in Targets(RecipeSteps[r][b], CompOf[d])
      BY <2>2, <3>2 DEF SameTargets, Targets
    <3>4. Message(RecipeSteps[r][b], f.elem) \in conf[d]
      BY <2>5, <3>3 DEF IInv, AppliedIsComplete
    <3> QED BY <2>4, <3>2, <3>4
  <2>6. CASE r # done[d] /\ ~PublishesFirst(r, d, f)
    <3>1. r \in Recipes
      BY DEF IInv, TypeOK
    <3>2. PICK j \in 1 .. k - 1 : /\ RecipeSteps[r][j].op = "bind_app"
                                  /\ SameTargets(step, RecipeSteps[r][j])
      BY <2>2, <2>6 DEF PublishesFirst
    <3>3. j \in DOMAIN RecipeSteps[r]
      BY <3>1, <3>2, StepTypes
    <3>4. Message(RecipeSteps[r][j], f.elem) \in conf[d]
      BY <2>1, <3>2 DEF SetByStep
    <3> QED BY <2>4, <3>2, <3>3, <3>4
  <2> QED BY <2>5, <2>6
<1> QED BY <1>1, PublishersInvariance, PTL
-----------------------------------------------------------------------------
(* The call as one configuration                                           *)

LEMMA LeastNatural ==
  ASSUME NEW T, T \subseteq Nat, T # {}
  PROVE  \E n \in T : \A m \in T : n <= m
<1> DEFINE R == {ss \in Nat \X Nat : ss[1] < ss[2]}
<1>1. IsWellFoundedOn(R, Nat)
  BY NatLessThanWellFounded DEF OpToRel
<1>2. \E x \in T : \A y \in T : <<y, x>> \notin R
  <2> HIDE DEF R
  <2> QED BY <1>1, WFMin
<1>3. \A x, y \in T : <<y, x>> \notin R => x <= y
  <2> SUFFICES ASSUME NEW x \in T, NEW y \in T, <<y, x>> \notin R
               PROVE  x <= y
    OBVIOUS
  <2>1. x \in Nat /\ y \in Nat /\ <<y, x>> \in Nat \X Nat
    OBVIOUS
  <2>2. ~(y < x)
    BY <2>1
  <2> QED BY <2>1, <2>2
<1> QED BY <1>2, <1>3

(* Of the rows that match the UUID one beats the others. *)
LEMMA LongestPrefix ==
  ASSUME RowsOK, NEW d \in Devices, \E r \in Indices : UuidMatch(r, d)
  PROVE  \E r \in Indices :
           /\ UuidMatch(r, d)
           /\ \A q \in Indices : UuidMatch(q, d) => Beats(r, q)
<1> DEFINE Left(r) == Len(Uuid[d]) - match_len(rows[r])
           Lefts == {n \in Nat : \E r \in Indices : UuidMatch(r, d) /\ n = Left(r)}
<1>1. \A r \in Indices : UuidMatch(r, d) =>
        match_len(rows[r]) \in Nat /\ Left(r) \in Nat
  <2> SUFFICES ASSUME NEW r \in Indices, UuidMatch(r, d)
               PROVE  match_len(rows[r]) \in Nat /\ Left(r) \in Nat
    OBVIOUS
  <2>1. match_len(rows[r]) \in Nat
    BY MatchLength
  <2>2. Len(rows[r].match) \in 2 .. Len(Uuid[d])
    BY DEF UuidMatch, uuid_hex_match
  <2>3. Len(Uuid[d]) \in Nat
    BY DevicesAssumption
  <2>4. match_len(rows[r]) <= Len(Uuid[d])
    <3>1. \A k, n \in Nat : k <= n => k \div 2 <= n
      OBVIOUS
    <3>2. Len(rows[r].match) \in Nat /\ Len(rows[r].match) <= Len(Uuid[d])
      BY <2>2, <2>3
    <3>3. Len(rows[r].match) \div 2 <= Len(Uuid[d])
      BY <2>3, <3>1, <3>2, Zenon
    <3> QED BY <3>3 DEF match_len
  <2> QED BY <2>1, <2>3, <2>4
<1> HIDE DEF Left
<1>2. Lefts # {} /\ Lefts \subseteq Nat
  BY <1>1
<1>3. PICK n \in Lefts : \A m \in Lefts : n <= m
  <2> HIDE DEF Lefts
  <2> QED BY <1>2, LeastNatural
<1> DEFINE Longest == {r \in Indices : UuidMatch(r, d) /\ n = Left(r)}
<1>4. Longest # {} /\ Longest \subseteq Nat
  BY <1>3 DEF Indices
<1>5. PICK r \in Longest : \A q \in Longest : r <= q
  <2> HIDE DEF Longest
  <2> QED BY <1>4, LeastNatural
<1>6. ASSUME NEW q \in Indices, UuidMatch(q, d)
      PROVE  Beats(r, q)
  <2>1. /\ r \in Indices /\ UuidMatch(r, d) /\ n = Left(r)
        /\ r \in Nat /\ q \in Nat
    BY DEF Indices
  <2>2. Left(q) \in Nat /\ n <= Left(q)
    BY <1>1, <1>3, <1>6
  <2>3. match_len(rows[r]) \in Nat /\ match_len(rows[q]) \in Nat
    BY <1>1, <1>6, <2>1
  <2>4. Left(q) = n => r <= q
    BY <1>5, <1>6
  <2>5. Len(Uuid[d]) \in Nat
    BY DevicesAssumption
  <2> QED BY <2>1, <2>2, <2>3, <2>4, <2>5 DEF Beats, Left
<1> QED BY <1>5, <1>6

(* So a device has a row, or has none, in every table. *)
LEMMA HasRow ==
  ASSUME RowsOK, NEW d \in Devices, NEW name
  PROVE  \E r \in 0 .. Len(rows) : IsRowOf(r, d, name)
<1>1. Len(rows) \in Nat /\ Indices \subseteq 0 .. Len(rows)
  BY DEF RowsOK, Indices
<1>2. CASE \E r \in Indices : UuidMatch(r, d)
  BY <1>1, <1>2, LongestPrefix DEF IsRowOf
<1>3. CASE /\ \A r \in Indices : ~UuidMatch(r, d)
           /\ \E r \in Indices : NameMatch(r, name)
  <2> DEFINE Named == {r \in Indices : NameMatch(r, name)}
  <2>1. Named # {} /\ Named \subseteq Nat
    BY <1>3 DEF Indices
  <2>2. PICK r \in Named : \A q \in Named : r <= q
    <3> HIDE DEF Named
    <3> QED BY <2>1, LeastNatural
  <2>3. \A q \in 1 .. r - 1 : q \in Indices /\ ~(r <= q)
    BY <1>1 DEF Indices
  <2>4. IsRowOf(r, d, name)
    BY <1>3, <2>2, <2>3 DEF IsRowOf
  <2> QED BY <1>1, <2>4
<1>4. CASE \A r \in Indices : ~UuidMatch(r, d) /\ ~NameMatch(r, name)
  <2>1. IsRowOf(0, d, name)
    BY <1>4 DEF IsRowOf
  <2> QED BY <1>1, <2>1
<1> QED BY <1>2, <1>3, <1>4

LEMMA RowForIsRow ==
  ASSUME RowsOK, NEW d \in Devices, NEW name
  PROVE  RowFor(d, name) \in 0 .. Len(rows) /\ IsRowOf(RowFor(d, name), d, name)
BY HasRow DEF RowFor

LEMMA RowForIs ==
  ASSUME RowsOK, NEW d \in Devices, NEW name \in {NameOf[d], None},
         NEW r \in 0 .. Len(rows), IsRowOf(r, d, name)
  PROVE  RowFor(d, name) = r
<1> DEFINE q == RowFor(d, name)
<1>1. q \in 0 .. Len(rows) /\ IsRowOf(q, d, name) /\ Len(rows) \in Nat
  BY RowForIsRow DEF RowsOK
<1> HIDE DEF q
<1>2. r \in Indices \/ r = 0
  BY <1>1 DEF Indices
<1>3. q \in Indices \/ q = 0
  BY <1>1 DEF Indices
<1>4. 0 \notin Indices
  BY DEF Indices
<1>5. CASE r \in Indices /\ q \in Indices
  <2>1. r = q
    BY <1>1, <1>5, OneRow
  <2> QED BY <2>1 DEF q
<1>6. CASE r = 0 \/ q = 0
  <2>1. r = q
    BY <1>1, <1>2, <1>3, <1>4, <1>6 DEF IsRowOf
  <2> QED BY <2>1 DEF q
<1> QED BY <1>2, <1>3, <1>5, <1>6

LEMMA RowForKept ==
  ASSUME TableKept, NEW d, NEW name
  PROVE  RowFor(d, name)' = RowFor(d, name)
<1>1. \A r \in 0 .. Len(rows) : IsRowOf(r, d, name)' <=> IsRowOf(r, d, name)
  BY RowKept
<1> QED BY <1>1 DEF RowFor, TableKept

(* No call holds nobody, and one that looked its row up applies the recipe the
   row is at: no row moves before the call ends. *)
TakenFromRow ==
  /\ pc = "idle" => node = None /\ recipe_id = RECIPE_NONE
  /\ pc \in {"fetch", "step", "send"} /\ ~latched =>
       best # 0 /\ recipe_id = scenario_row_peek_recipe_id(best)

CallInv == IInv /\ GivenFromOffered /\ TakenFromRow

LEMMA TakenFromRowKept == IInv /\ TakenFromRow /\ [Next]_vars => TakenFromRow'
<1> SUFFICES ASSUME IInv, TakenFromRow, [Next]_vars PROVE TakenFromRow'
  OBVIOUS
<1>1. ASSUME NEW e, Return(e) PROVE TakenFromRow'
  BY <1>1 DEF Return, TakenFromRow
<1>2. ASSUME UNCHANGED <<rows, node, latched, best, recipe_id>>, pc # "idle",
             \/ pc' \in {"step", "send"} /\ pc \in {"fetch", "step", "send"}
             \/ pc' \in {"uuid_rows", "name_rows", "matched"}
      PROVE  TakenFromRow'
  BY <1>2 DEF TakenFromRow, scenario_row_peek_recipe_id
<1>3. CASE \E d \in Devices : mesh_config_apply(d) \/ latched_recipe(d)
  BY <1>3 DEF mesh_config_apply, latched_recipe, Begin, TakenFromRow
<1>4. CASE uuid_row \/ uuid_rows_done \/ name_row \/ name_rows_done
  BY <1>4 DEF uuid_row, uuid_rows_done, name_row, name_rows_done, TakenFromRow
<1>5. CASE row_found
  BY <1>1, <1>5 DEF row_found, search, TakenFromRow, scenario_row_peek_recipe_id
<1>6. CASE mesh_scenario_consume_recipe_id
  BY <1>1, <1>6 DEF mesh_scenario_consume_recipe_id
<1>7. CASE no_such_recipe \/ comp_data_fetch \/ fetch_failed
  BY <1>1, <1>2, <1>7 DEF no_such_recipe, comp_data_fetch, fetch_failed,
    CallFailed, search, call
<1>8. CASE apply_step \/ step_done \/ recipe_applied
  <2>1. CASE apply_step
    BY <1>1, <1>2, <2>1 DEF apply_step, search, call
  <2>2. CASE step_done
    BY <1>2, <2>2 DEF step_done, search, call
  <2>3. CASE recipe_applied /\ ~latched
    BY <1>1, <2>3 DEF recipe_applied
  <2>4. CASE recipe_applied /\ latched
    BY <2>4 DEF recipe_applied, call, TakenFromRow
  <2> QED BY <1>8, <2>1, <2>2, <2>3, <2>4
<1>9. CASE \E e \in addrs : answered(e) \/ message_lost(e) \/ answer_lost(e)
  <2>1. PICK e \in addrs : answered(e) \/ message_lost(e) \/ answer_lost(e)
    BY <1>9
  <2>2. CASE answered(e)
    BY <1>1, <1>2, <2>2 DEF answered, IsNext, search, call
  <2>3. CASE message_lost(e) \/ answer_lost(e)
    BY <1>1, <2>3 DEF message_lost, answer_lost, CallFailed
  <2> QED BY <2>1, <2>2, <2>3
<1>10. CASE UNCHANGED vars
  BY <1>10 DEF vars, search, call, TakenFromRow, scenario_row_peek_recipe_id
<1> QED BY <1>3, <1>4, <1>5, <1>6, <1>7, <1>8, <1>9, <1>10
        DEF Next, FindRow, ApplyRecipe

LEMMA CallInvariance == Spec => []CallInv
<1>1. Init => TakenFromRow
  BY DEF Init, TakenFromRow
<1>2. PublishersInv => GivenFromOffered
  BY DEF PublishersInv
<1> QED BY <1>1, <1>2, TakenFromRowKept, PublishersInvariance, PTL
        DEF Spec, CallInv

(* What a call stands for: the row of its node, found yet or not, and the recipe
   the caller latched or that row is at. *)
CallIsTyped ==
  /\ pc # "idle" =>
       /\ node \in Devices /\ node # None
       /\ RowOfCall = RowFor(node, node_name)
       /\ RowOfCall \in 0 .. Len(rows)
       /\ IsRowOf(best, node, node_name) => RowOfCall = best
  /\ pc = "idle" => node = None /\ RowOfCall = 0 /\ RecipeOfCall = RECIPE_NONE
  /\ RecipeOfCall \in Recipes \cup {RECIPE_NONE}

LEMMA OpenCall ==
  ASSUME CallInv, pc # "idle"
  PROVE  /\ node \in Devices /\ node # None
         /\ RowOfCall = RowFor(node, node_name)
         /\ RowOfCall \in 0 .. Len(rows)
         /\ IsRowOf(best, node, node_name) => RowOfCall = best
<1>1. /\ node \in Devices /\ RowsOK /\ best \in 0 .. Len(rows)
      /\ node_name \in {NameOf[node], None}
  BY DEF CallInv, IInv, TypeOK, GivenFromOffered
<1>2. node # None
  BY <1>1, DevicesAssumption
<1>3. IsRowOf(best, node, node_name) => RowFor(node, node_name) = best
  BY <1>1, RowForIs
<1>4. pc \in {"fetch", "step", "send"} /\ ~latched
        => IsRowOf(best, node, node_name)
  BY DEF CallInv, IInv, SearchIsRight, RowIsBestMatch
<1>5. RowOfCall = RowFor(node, node_name)
  BY <1>2, <1>3, <1>4 DEF RowOfCall
<1> QED BY <1>1, <1>2, <1>3, <1>5, RowForIsRow

LEMMA NoCall ==
  ASSUME CallInv, pc = "idle"
  PROVE  node = None /\ RowOfCall = 0 /\ RecipeOfCall = RECIPE_NONE
BY DEF CallInv, TakenFromRow, RowOfCall, RecipeOfCall

LEMMA RecipeOfCallType ==
  ASSUME CallInv
  PROVE  RecipeOfCall \in Recipes \cup {RECIPE_NONE}
<1>1. RowsOK /\ recipe_id \in Recipes \cup {RECIPE_NONE}
  BY DEF CallInv, IInv, TypeOK
<1>2. CASE node = None \/ latched
  BY <1>1, <1>2 DEF RecipeOfCall
<1>3. CASE node # None /\ ~latched
  <2>1. pc # "idle"
    BY <1>3 DEF CallInv, TakenFromRow
  <2>2. RowOfCall \in 0 .. Len(rows)
    BY <2>1, OpenCall
  <2>3. RowOfCall # 0 => RowOfCall \in Indices
    BY <1>1, <2>2 DEF Indices, RowsOK
  <2>4. \A r \in Indices :
          scenario_row_peek_recipe_id(r) \in Recipes \cup {RECIPE_NONE}
    <3> SUFFICES ASSUME NEW r \in Indices
                 PROVE  scenario_row_peek_recipe_id(r)
                          \in Recipes \cup {RECIPE_NONE}
      OBVIOUS
    <3>1. rows[r] \in Row /\ rows[r].recipe_idx \in DOMAIN rows[r].recipe_ids
      BY <1>1 DEF RowsOK, Indices
    <3>2. rows[r].recipe_ids \in Seq(Recipes \cup {RECIPE_NONE})
      BY <3>1 DEF Row, RowIds
    <3> QED BY <3>1, <3>2 DEF scenario_row_peek_recipe_id
  <2> QED BY <1>3, <2>3, <2>4 DEF RecipeOfCall
<1> QED BY <1>2, <1>3

LEMMA CallTypes == CallInv => CallIsTyped
BY OpenCall, NoCall, RecipeOfCallType DEF CallIsTyped

LEMMA NextCallTypes == CallInv' => CallIsTyped'
BY CallTypes, PTL

(* Steps of a search or of a recipe are not to be seen. *)
LEMMA CallGoesOn ==
  ASSUME CallInv, CallInv', pc # "idle", pc' # "idle",
         UNCHANGED <<rows, node, node_name, latched, done>>,
         latched => recipe_id' = recipe_id
  PROVE  UNCHANGED Configuration!state
<1>1. TableKept
  BY DEF TableKept
<1>2. RowFor(node, node_name)' = RowFor(node, node_name)
  BY <1>1, RowForKept
<1>3. RowOfCall' = RowOfCall
  BY <1>2, CallTypes, NextCallTypes DEF CallIsTyped
<1>4. node # None /\ node' # None
  BY CallTypes, NextCallTypes DEF CallIsTyped
<1>5. RecipeOfCall' = RecipeOfCall
  BY <1>3, <1>4 DEF RecipeOfCall, scenario_row_peek_recipe_id
<1> QED BY <1>3, <1>5 DEF Configuration!state, Configuration!call

LEMMA CallEnds ==
  ASSUME CallInv, CallInv', pc # "idle", pc' = "idle",
         Configuration!Fail \/ Configuration!Succeed
  PROVE  Configuration!End
<1>1. node # None
  BY OpenCall
<1>2. node' = None /\ RowOfCall' = 0 /\ RecipeOfCall' = RECIPE_NONE
  BY NextCallTypes DEF CallIsTyped
<1> QED BY <1>1, <1>2 DEF Configuration!End, Configuration!NoMoreCall,
          Configuration!call

LEMMA CallFailsForAll ==
  ASSUME CallInv, CallInv', pc # "idle", NEW e, Return(e),
         UNCHANGED <<rows, done>>
  PROVE  Configuration!End
<1>1. Configuration!Fail /\ pc' = "idle"
  BY DEF Configuration!Fail, Return
<1> QED BY <1>1, CallEnds

LEMMA CallConfigures ==
  ASSUME CallInv, CallInv', pc # "idle", recipe_id \in Recipes,
         IsRowOf(best, node, node_name), RecipeOfCall = recipe_id,
         scenario_row_consume_recipe_id(best, recipe_id),
         done' = [done EXCEPT ![node] = recipe_id], Return("0")
  PROVE  Configuration!End
<1>1. RowOfCall = best
  BY OpenCall
<1>2. Configuration!Succeed
  BY <1>1 DEF Configuration!Succeed, Configuration!At, Configuration!MoveOn,
    scenario_row_consume_recipe_id, scenario_row_peek_recipe_id
<1>3. pc' = "idle"
  BY DEF Return
<1> QED BY <1>2, <1>3, CallEnds

LEMMA CallTakesHold ==
  ASSUME CallInv, CallInv', NEW d \in Devices,
         mesh_config_apply(d) \/ latched_recipe(d)
  PROVE  Configuration!Begin
<1>1. /\ pc = "idle" /\ pc' # "idle" /\ node' = d
      /\ UNCHANGED <<rows, done>>
  BY DEF mesh_config_apply, latched_recipe, Begin
<1>2. node = None
  BY <1>1, NoCall
<1>3. RowOfCall' \in 0 .. Len(rows')
  BY <1>1, NextCallTypes DEF CallIsTyped
<1>4. RowOfCall' \in DOMAIN rows \cup {0}
  BY <1>1, <1>3 DEF CallInv, IInv, TypeOK, RowsOK
<1>5. RecipeOfCall' \in Recipes \cup {RECIPE_NONE}
  BY NextCallTypes DEF CallIsTyped
<1> QED BY <1>1, <1>2, <1>4, <1>5 DEF Configuration!Begin

LEMMA CallIsOneConfiguration ==
  CallInv /\ CallInv' /\ [Next]_vars => [Configuration!Next]_(Configuration!state)
<1> SUFFICES ASSUME CallInv, CallInv', [Next]_vars
             PROVE  \/ Configuration!Begin \/ Configuration!End
                    \/ UNCHANGED Configuration!state
  BY DEF Configuration!Next
<1>1. CASE \E d \in Devices : mesh_config_apply(d) \/ latched_recipe(d)
  BY <1>1, CallTakesHold
<1>2. CASE uuid_row \/ uuid_rows_done \/ name_row \/ name_rows_done
  BY <1>2, CallGoesOn DEF uuid_row, uuid_rows_done, name_row, name_rows_done,
    call
<1>3. CASE row_found
  BY <1>3, CallGoesOn, CallFailsForAll DEF row_found
<1>4. CASE mesh_scenario_consume_recipe_id
  <2>1. /\ pc = "matched" /\ latched /\ Return("0")
        /\ scenario_row_consume_recipe_id(best, recipe_id)
        /\ done' = [done EXCEPT ![node] = recipe_id]
    BY <1>4 DEF mesh_scenario_consume_recipe_id
  <2>2. IsRowOf(best, node, node_name) /\ recipe_id \in Recipes
    BY <2>1 DEF CallInv, IInv, SearchIsRight, RowIsBestMatch, CallIsOpen
  <2>3. RecipeOfCall = recipe_id
    BY <2>1 DEF RecipeOfCall
  <2> QED BY <2>1, <2>2, <2>3, CallConfigures
<1>5. CASE no_such_recipe \/ comp_data_fetch \/ fetch_failed
  BY <1>5, CallGoesOn, CallFailsForAll DEF no_such_recipe, comp_data_fetch,
    fetch_failed, CallFailed, call
<1>6. CASE apply_step \/ step_done
  BY <1>6, CallGoesOn, CallFailsForAll DEF apply_step, step_done, call
<1>7. CASE recipe_applied
  <2>1. CASE latched
    BY <1>7, <2>1, CallGoesOn DEF recipe_applied, call
  <2>2. CASE ~latched
    <3>1. /\ pc = "step" /\ Return("0")
          /\ scenario_row_consume_recipe_id(best, recipe_id)
          /\ done' = [done EXCEPT ![node] = recipe_id]
      BY <1>7, <2>2 DEF recipe_applied
    <3>2. /\ IsRowOf(best, node, node_name) /\ recipe_id \in Recipes
          /\ best # 0 /\ recipe_id = scenario_row_peek_recipe_id(best)
      BY <2>2, <3>1 DEF CallInv, IInv, TypeOK, SearchIsRight, RowIsBestMatch,
        TakenFromRow
    <3>3. RecipeOfCall = recipe_id
      BY <2>2, <3>1, <3>2, OpenCall DEF RecipeOfCall
    <3> QED BY <3>1, <3>2, <3>3, CallConfigures
  <2> QED BY <2>1, <2>2
<1>8. CASE \E e \in addrs : answered(e) \/ message_lost(e) \/ answer_lost(e)
  <2>1. PICK e \in addrs : answered(e) \/ message_lost(e) \/ answer_lost(e)
    BY <1>8
  <2>2. CASE answered(e)
    BY <2>2, CallGoesOn, CallFailsForAll DEF answered, IsNext, call
  <2>3. CASE message_lost(e) \/ answer_lost(e)
    BY <2>3, CallFailsForAll DEF message_lost, answer_lost, CallFailed, IsNext
  <2> QED BY <2>1, <2>2, <2>3
<1>9. CASE UNCHANGED vars
  <2>1. UNCHANGED <<rows, pc, node, node_name, latched, best, recipe_id, done>>
    BY <1>9 DEF vars, call, search
  <2>2. CASE pc # "idle"
    BY <2>1, <2>2, CallGoesOn
  <2>3. CASE pc = "idle"
    BY <2>1, <2>3, CallTypes, NextCallTypes DEF CallIsTyped,
      Configuration!state,
      Configuration!call
  <2> QED BY <2>2, <2>3
<1> QED BY <1>1, <1>2, <1>3, <1>4, <1>5, <1>6, <1>7, <1>8, <1>9
        DEF Next, FindRow, ApplyRecipe

LEMMA NobodyIsConfigured == Init => Configuration!Init
<1> SUFFICES ASSUME Init PROVE Configuration!Init
  OBVIOUS
<1>1. \A r \in DOMAIN rows : rows[r].recipe_idx = 1
  BY ScenariosAssumption DEF Init
<1>2. RowOfCall = 0 /\ RecipeOfCall = RECIPE_NONE
  BY DEF Init, RowOfCall, RecipeOfCall
<1> QED BY <1>1, <1>2 DEF Init, Configuration!Init, Configuration!call

(* A call of either kind, with its search, its steps and every message that may
   be lost or refused, is one configuration that succeeds as a whole or leaves
   no row moved and no node configured. *)
THEOREM CallsAreConfigurations == Spec => ImplementsConfiguration
<1>1. CallInv /\ CallInv' /\ [Next]_vars
        => [Configuration!Next]_(Configuration!state)
  BY CallIsOneConfiguration
<1> QED BY <1>1, NobodyIsConfigured, CallInvariance, PTL
        DEF Spec, ImplementsConfiguration, Configuration!Spec
=============================================================================
