---------------------------- MODULE AlertHistory ----------------------------
(* AlertEngine with two history variables, which no action depends on: how   *)
(* long ago each alert last changed state, and how long ago something last   *)
(* spoke against the change that comes next: the opposite change, or an      *)
(* evaluation that got the mutex and decided that the rule holds while its   *)
(* alert is open, or that it does not while none is.                         *)
EXTENDS AlertEngine

CONSTANT Watched   \* the ages that are kept, of "flip" and "contrary"

VARIABLES
    sinceFlip,    \* age of the last transition to firing or to resolved
    contrary      \* age of what last spoke against the next transition

history == <<sinceFlip, contrary>>

Fires(k) == \E n \in DOMAIN alerts' \ DOMAIN alerts : alerts'[n].key = k

Resolves(k) == \E n \in DOMAIN alerts : alerts[n].key = k /\ IsFiring(n) /\ ~IsFiring(n)'

\* In this step an evaluation decides against the next transition of k.
SpeaksAgainst(k) ==
    /\ lock = NoOne
    /\ lock' # NoOne
    /\ k \in active' <=> tracks[k].id > 0

HistoryInit ==
    /\ Init
    /\ sinceFlip = [k \in Keys |-> Never]
    /\ contrary = [k \in Keys |-> Never]

HistoryTick ==
    /\ Tick
    /\ sinceFlip' = [k \in Keys |-> Older(sinceFlip[k])]
    /\ contrary' = [k \in Keys |-> Older(contrary[k])]

HistoryStep ==
    /\ Step
    /\ sinceFlip' = [k \in Keys |->
          IF "flip" \in Watched /\ (Fires(k) \/ Resolves(k)) THEN 0 ELSE sinceFlip[k]]
    /\ contrary' = [k \in Keys |->
          IF "contrary" \in Watched /\ (Fires(k) \/ Resolves(k) \/ SpeaksAgainst(k)) THEN 0 ELSE contrary[k]]

HistoryNext == HistoryTick \/ HistoryStep

HistorySpec == HistoryInit /\ [][HistoryNext]_<<vars, history>>

\* Fairness is that of the engine, whose steps the history only watches.
FairHistorySpec == HistorySpec /\ Fairness

-----------------------------------------------------------------------------
(* Properties *)

AtLeast(age, delay) == age = Never \/ age >= delay

\* What Evaluate keeps of the hold time (.env.example: "How long a threshold
\* must hold before firing"), for any number of loops that overtake each other
\* between their reading of the clock and the mutex: when a rule fires, no
\* evaluation has found it clear for its hold time, less the time for which an
\* evaluation may be late.  It is no more than that: a late one lets the hold
\* begin at its own reading of the clock, before the clear reading that was
\* dealt with meanwhile.
HeldButForLag ==
    [][\A k \in Keys : Fires(k) => AtLeast(contrary[k], HoldFor[k] - MaxLag)]_<<vars, history>>

\* The same of the debounce: when an alert is resolved, it was opened, and its
\* rule was last found to hold, no less than the debounce ago, but for the time
\* for which an evaluation may be late.  So a value that flaps keeps its alert
\* open, through failed updates, kills and restarts.
ClearButForLag ==
    [][\A k \in Keys : Resolves(k) => AtLeast(contrary[k], Debounce - MaxLag)]_<<vars, history>>

\* .env.example: "Minimum gap between state flips for one rule".
GapBetweenFlips ==
    [][\A k \in Keys : Fires(k) \/ Resolves(k) => AtLeast(sinceFlip[k], Debounce)]_<<vars, history>>
=============================================================================
