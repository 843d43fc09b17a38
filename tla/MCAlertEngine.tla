---------------------------- MODULE MCAlertEngine ----------------------------
(* A small instance of AlertEngine: a rule with hysteresis that must hold    *)
(* for a while (as cpu, memory and disk), and one that fires at once, from   *)
(* the restart counts.                                                       *)
EXTENDS AlertEngine, TLC

CONSTANTS cpu, restarts, stats, events

BothKeys == {cpu, restarts}
TwoLoops == {stats, events}
HoldOne == [k \in Keys |-> IF k = cpu THEN 1 ELSE 0]
Symmetric == Permutations(Evaluators)
=============================================================================
