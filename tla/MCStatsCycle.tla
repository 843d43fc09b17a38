---------------------------- MODULE MCStatsCycle ----------------------------
(* Small instances of StatsCycle. *)
EXTENDS StatsCycle
=============================================================================
