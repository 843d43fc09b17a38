---------------------------- MODULE MCInventory ----------------------------
(* A small instance of Inventory. *)
EXTENDS Inventory

CONSTANTS web
=============================================================================
