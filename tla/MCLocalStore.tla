---------------------------- MODULE MCLocalStore ----------------------------
(***************************************************************************)
(* The offline app with two list names and two item names, so that lists   *)
(* and items of the same name meet, and rows before and after the one that *)
(* changes.                                                                *)
(***************************************************************************)
EXTENDS LocalStore

=============================================================================
