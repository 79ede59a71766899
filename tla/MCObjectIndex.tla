---------------------------- MODULE MCObjectIndex ----------------------------
(***************************************************************************)
(* Three objects in pages and batches of two, so that a listing and a      *)
(* write can each take two steps.  Keys are never symmetric: they have an  *)
(* order.                                                                  *)
(***************************************************************************)
EXTENDS ObjectIndex
=============================================================================
