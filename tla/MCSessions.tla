----------------------------- MODULE MCSessions -----------------------------
(* Small instances of Sessions. *)
EXTENDS Sessions, TLC

CONSTANTS c1, c2, t1, r1, r2

TwoClients  == {c1, c2}
TwoRequests == {r1, r2}

Symmetric == Permutations(TwoClients) \cup Permutations(TwoRequests)
=============================================================================
