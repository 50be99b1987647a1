------------------------------- MODULE MCDimmer -------------------------------
(* Dimmer with times and scenes small enough for TLC; see the .cfg files. *)
EXTENDS Dimmer
=============================================================================
