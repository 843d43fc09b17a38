------------------------------ MODULE MCRollup ------------------------------
(* Small instances of Rollup: buckets of two seconds, and a raw window that  *)
(* starts inside a bucket or at its border.                                  *)
EXTENDS Rollup

CONSTANTS stats
=============================================================================
