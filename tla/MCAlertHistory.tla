--------------------------- MODULE MCAlertHistory ---------------------------
(* Small instances of AlertHistory: a rule that must hold for a while, and a *)
(* restart_loop, which fires at once.                                        *)
EXTENDS AlertHistory, TLC

CONSTANTS cpu, restarts, stats, events

OneKey == {cpu}
LoopKey == {restarts}
BothKeys == {cpu, restarts}
OneLoop == {stats}
TwoLoops == {stats, events}
HoldOne == [k \in Keys |-> IF k = cpu THEN 1 ELSE 0]
HoldTwo == [k \in Keys |-> IF k = cpu THEN 2 ELSE 0]
Symmetric == Permutations(Evaluators)
=============================================================================
