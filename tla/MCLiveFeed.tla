----------------------------- MODULE MCLiveFeed -----------------------------
(* Small instances of LiveFeed. *)
EXTENDS LiveFeed

\* A tab connects again after each failure.
Enough == MaxFaults + 1

\* When the tab is mounted, either the alerts are over and the containers will
\* still change, or the other way round.
Over(a) == rows[a] = [state |-> "resolved", acked |-> TRUE]
New(a)  == rows[a].state = "none"

ScenarioInit ==
    /\ FeedInit
    /\ \/ containers = 0 /\ \A a \in Alerts : Over(a)
       \/ containers = MaxChanges /\ \A a \in Alerts : New(a)

ScenarioSpec == ScenarioInit /\ [][FeedNext]_feedVars /\ Fairness
=============================================================================
