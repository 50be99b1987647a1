-------------------------- MODULE NodeConfiguration --------------------------
(***************************************************************************)
(* What the configuration of a node promises the thread that asks for it,  *)
(* without the search, the steps and the messages: a call takes hold of a  *)
(* node, of a row and of a recipe when it begins, and ends in one step.    *)
(* It fails and leaves every row and every node's recipe as they were, or  *)
(* it succeeds, and the node has that recipe and that row moves on if it   *)
(* still is at that recipe.  Nobody else moves a row; only a power failure *)
(* takes the rows back to their first recipes.                             *)
(***************************************************************************)
EXTENDS Integers, Sequences

CONSTANTS Devices, Recipes, RECIPE_NONE, NoRow, NoCall

VARIABLES
  rows,       (* of each row, its recipe_ids and the recipe_idx it is at    *)
  node,       (* the node a call configures, or NoCall                      *)
  row,        (* the row the node has, or NoRow                             *)
  recipe_id,  (* the recipe the node is to have, or RECIPE_NONE             *)
  given       (* the recipe each node was given since it joined             *)

call == <<node, row, recipe_id>>
state == <<rows, call, given>>

Init ==
  /\ \A r \in DOMAIN rows : rows[r].recipe_idx = 1
  /\ call = <<NoCall, NoRow, RECIPE_NONE>>
  /\ given = [d \in Devices |-> RECIPE_NONE]

(* A device without a row, or at a row nobody has filled in, has no recipe,
   and the call is bound to fail. *)
Begin ==
  /\ node = NoCall /\ node' \in Devices
  /\ row' \in DOMAIN rows \cup {NoRow}
  /\ recipe_id' \in Recipes \cup {RECIPE_NONE}
  /\ UNCHANGED <<rows, given>>

Fail == UNCHANGED <<rows, given>>

At(r) == rows[r].recipe_ids[rows[r].recipe_idx]

MoveOn(r) ==
  [rows EXCEPT ![r].recipe_idx = (@ % Len(rows[r].recipe_ids)) + 1]

Succeed ==
  /\ recipe_id \in Recipes
  /\ given' = [given EXCEPT ![node] = recipe_id]
  /\ rows' = IF row # NoRow /\ At(row) = recipe_id THEN MoveOn(row) ELSE rows

NoMoreCall == call' = <<NoCall, NoRow, RECIPE_NONE>>

End ==
  /\ node # NoCall /\ NoMoreCall
  /\ Fail \/ Succeed

(* A node joins again; never the one that is being configured. *)
JoinAgain(d) ==
  /\ given[d] # RECIPE_NONE /\ node # d
  /\ given' = [given EXCEPT ![d] = RECIPE_NONE]
  /\ UNCHANGED <<rows, call>>

Restart ==
  /\ NoMoreCall
  /\ rows' = [r \in DOMAIN rows |-> [rows[r] EXCEPT !.recipe_idx = 1]]
  /\ UNCHANGED given

Next == Begin \/ End \/ (\E d \in Devices : JoinAgain(d)) \/ Restart

Spec == Init /\ [][Next]_state
=============================================================================
