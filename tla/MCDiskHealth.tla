---------------------------- MODULE MCDiskHealth ----------------------------
(* Small instances of DiskHealth. *)
EXTENDS DiskHealth
=============================================================================
