--------------------------- MODULE AlertLifecycle ---------------------------
(* What internal/alerts promises of the alerts table and of the chat, with   *)
(* no goroutines, no retries and no restarts in sight: a rule has at most    *)
(* one open alert for a target, an alert that was closed stays closed, and   *)
(* the chat hears of an alert only after it was opened, of its end only      *)
(* after it was closed, and never of its beginning after its end.            *)
EXTENDS Integers

CONSTANT Keys     \* rule|target pairs

VARIABLES
    open,     \* the id of the open alert of each key, 0 if there is none
    opened,   \* how many alerts were opened; their ids are 1..opened
    told      \* the notices the chat has received

vars == <<open, opened, told>>

Notice(kind, n) == [kind |-> kind, alert |-> n]

Closed(n) == \A k \in Keys : open[k] # n

Init ==
    /\ open = [k \in Keys |-> 0]
    /\ opened = 0
    /\ told = {}

Open(k) ==
    /\ open[k] = 0
    /\ opened' = opened + 1
    /\ open' = [open EXCEPT ![k] = opened + 1]
    /\ UNCHANGED told

Close(k) ==
    /\ open[k] # 0
    /\ open' = [open EXCEPT ![k] = 0]
    /\ UNCHANGED <<opened, told>>

TellFiring(n) ==
    /\ Notice("resolved", n) \notin told
    /\ told' = told \cup {Notice("firing", n)}
    /\ UNCHANGED <<open, opened>>

TellResolved(n) ==
    /\ Closed(n)
    /\ told' = told \cup {Notice("resolved", n)}
    /\ UNCHANGED <<open, opened>>

Next ==
    \/ \E k \in Keys : Open(k) \/ Close(k)
    \/ \E n \in 1..opened : TellFiring(n) \/ TellResolved(n)

Spec == Init /\ [][Next]_vars
=============================================================================
