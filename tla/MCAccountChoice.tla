---------------------------- MODULE MCAccountChoice ----------------------------
(* Instances of AccountChoice for TLC; accounts are their ids, which order them. *)
EXTENDS AccountChoice

CONSTANTS c1, w
=============================================================================
