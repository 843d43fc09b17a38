------------------------------ MODULE StatsCycle ------------------------------
(* The stats cycle (internal/collector/stats.go): its pool of workers with a *)
(* deadline, and the counters that it keeps from cycle to cycle. The event   *)
(* loop resets the counters of a container that was restarted, and the       *)
(* inventory deletes those of a container that is gone; all three run        *)
(* concurrently.                                                             *)
(*                                                                           *)
(* A container counts its use from zero whenever it is started, so the       *)
(* counters of an answer are those of one of its lives, which is all that is *)
(* kept of them. A container that does not run answers with zeros. What the  *)
(* cycle does with its rates at the end is in Rollup, LiveFeed and           *)
(* AlertEngine.                                                              *)
EXTENDS Integers, Sequences, FiniteSets

CONSTANTS
    Containers,
    Started,      \* those that run when the dashboard starts
    StatsWorkers, \* how many calls of Docker may run at a time
    \* Bounds of the model
    MaxChanges,   \* times that a container is started, stopped or destroyed
    MaxFaults,    \* failures and restarts
    FaultKinds    \* which: "call", "deadline", "list", "inspect", "restart"

ASSUME StatsAssumption ==
    /\ IsFiniteSet(Containers)
    /\ Started \subseteq Containers
    /\ StatsWorkers \in Nat \ {0}
    /\ MaxChanges \in Nat
    /\ MaxFaults \in Nat

Loops == {"inventory", "events"}

\* Of the states of Docker only these matter to Container.Running.
Known  == {"absent", "stopped", "running"}
Event  == [id : Containers, type : {"start", "die", "destroy"}]
NoSnapshot == -1
Zeros      == 0
Snapshot   == Nat \cup {NoSnapshot}
Answer     == [kind : {"stats"}, life : Nat] \cup [kind : {"missing", "failed", "none"}]
NoAnswer   == [kind |-> "none"]

VARIABLES
    docker,   \* the state of each container in Docker
    life,     \* how often it was started
    changes,  \* changes still allowed
    faults,   \* failures still allowed
    events,   \* Docker's events that were not read yet
    known,    \* Collector.state.containers
    stage,    \* where each loop is that changes known
    subject,  \* the event that is being handled
    listed,   \* the answers of ListContainers
    counters, \* Collector.cpuPrev and Collector.counters
    pc,       \* where the stats cycle is
    ids,      \* the containers of the cycle
    todo,     \* those that no worker was given yet
    asked,    \* those that a worker asks for
    results,  \* the channel of results
    expired,  \* the deadline of the cycle has passed
    source,   \* what the interface shows of Docker
    reset,    \* history: containers reset between their answer and its count
    late      \* history: containers whose counters were counted after such a reset

vars == <<docker, life, changes, faults, events, known, stage, subject, listed,
          counters, pc, ids, todo, asked, results, expired, source, reset, late>>

world     == <<docker, life, changes>>
inventory == <<known, stage, subject, listed>>
cycle     == <<pc, ids, todo, asked, results, expired>>
history   == <<reset, late>>

NoEvent  == [type |-> "none"]
NoList   == [c \in Containers |-> "absent"]
NoResult == [c \in Containers |-> NoAnswer]

TypeOK ==
    /\ docker \in [Containers -> Known \cup {"gone"}]
    /\ life \in [Containers -> Nat]
    /\ changes \in 0..MaxChanges
    /\ faults \in 0..MaxFaults
    /\ events \in Seq(Event)
    /\ known \in [Containers -> Known]
    /\ stage \in [Loops -> {"idle", "reset", "apply", "prune"}]
    /\ subject \in Event \cup {NoEvent}
    /\ listed \in [Loops -> [Containers -> Known]]
    /\ counters \in [Containers -> Snapshot]
    /\ pc \in {"idle", "asking", "counted"}
    /\ ids \in SUBSET Containers
    /\ todo \in SUBSET ids
    /\ asked \in SUBSET ids
    /\ results \in [Containers -> Answer]
    /\ expired \in BOOLEAN
    /\ source \in {"ok", "failed"}
    /\ reset \in SUBSET Containers
    /\ late \in SUBSET Containers

\* After bootstrap, with the containers that Docker has.
Init ==
    /\ docker = [c \in Containers |-> IF c \in Started THEN "running" ELSE "absent"]
    /\ life = [c \in Containers |-> IF c \in Started THEN 1 ELSE 0]
    /\ changes = MaxChanges
    /\ faults = MaxFaults
    /\ events = <<>>
    /\ known = docker
    /\ stage = [l \in Loops |-> "idle"]
    /\ subject = NoEvent
    /\ listed = [l \in Loops |-> NoList]
    /\ counters = [c \in Containers |-> NoSnapshot]
    /\ pc = "idle"
    /\ ids = {}
    /\ todo = {}
    /\ asked = {}
    /\ results = NoResult
    /\ expired = FALSE
    /\ source = "ok"
    /\ reset = {}
    /\ late = {}

Fail(kind) == kind \in FaultKinds /\ faults > 0 /\ faults' = faults - 1

-----------------------------------------------------------------------------
(* Docker *)

Change(c, type) ==
    /\ changes > 0
    /\ changes' = changes - 1
    /\ events' = Append(events, [id |-> c, type |-> type])
    /\ UNCHANGED <<faults, inventory, counters, cycle, source, history>>

Start(c) ==
    /\ docker[c] \in {"absent", "stopped"}
    /\ docker' = [docker EXCEPT ![c] = "running"]
    /\ life' = [life EXCEPT ![c] = @ + 1]
    /\ Change(c, "start")

Die(c) ==
    /\ docker[c] = "running"
    /\ docker' = [docker EXCEPT ![c] = "stopped"]
    /\ Change(c, "die")
    /\ UNCHANGED life

\* For good: the id is never used again.
Destroy(c) ==
    /\ docker[c] = "stopped"
    /\ docker' = [docker EXCEPT ![c] = "gone"]
    /\ Change(c, "destroy")
    /\ UNCHANGED life

\* What a list tells of a container.
Told(c) == IF docker[c] = "gone" THEN "absent" ELSE docker[c]

-----------------------------------------------------------------------------
(* The event loop *)

Unread(c) == \E i \in DOMAIN events : events[i] = [id |-> c, type |-> "start"]

Forget(set) == [c \in Containers |-> IF c \in set THEN NoSnapshot ELSE counters[c]]

\* The containers whose results the workers have sent.
Sent == {c \in Containers : results[c] # NoAnswer}

\* faulty: only a death resets the counters
ResetOnDeath ==
    /\ stage["events"] = "idle"
    /\ events # <<>>
    /\ Head(events).type \in {"start", "die"}
    /\ subject' = Head(events)
    /\ events' = Tail(events)
    /\ counters' = IF Head(events).type = "die" THEN Forget({Head(events).id}) ELSE counters
    /\ reset' = IF pc = "asking" THEN reset \cup ({Head(events).id} \cap Sent) ELSE reset
    /\ late' = late \ {Head(events).id}
    /\ stage' = [stage EXCEPT !["events"] = "reset"]
    /\ UNCHANGED <<world, faults, known, listed, cycle, source>>

\* handleEvent calls ResetCounters when a container died or was started.
Reset ==
    /\ stage["events"] = "idle"
    /\ events # <<>>
    /\ Head(events).type \in {"start", "die"}
    /\ subject' = Head(events)
    /\ events' = Tail(events)
    /\ counters' = Forget({Head(events).id})
    /\ reset' = IF pc = "asking" THEN reset \cup ({Head(events).id} \cap Sent) ELSE reset
    /\ late' = late \ {Head(events).id}
    /\ stage' = [stage EXCEPT !["events"] = "reset"]
    /\ UNCHANGED <<world, faults, known, listed, cycle, source>>

HandleDestroy ==
    /\ stage["events"] = "idle"
    /\ events # <<>>
    /\ Head(events).type = "destroy"
    /\ events' = Tail(events)
    /\ known' = [known EXCEPT ![Head(events).id] = "absent"]
    /\ UNCHANGED <<world, faults, stage, subject, listed, counters, cycle, source, history>>

HandleEnds ==
    /\ stage' = [stage EXCEPT !["events"] = "idle"]
    /\ subject' = NoEvent

\* A container that is known is inspected. (Inventory has what may come between
\* the call and its effect.)
Inspect ==
    /\ stage["events"] = "reset"
    /\ known[subject.id] # "absent"
    /\ docker[subject.id] # "gone"
    /\ known' = [known EXCEPT ![subject.id] = docker[subject.id]]
    /\ HandleEnds
    /\ UNCHANGED <<world, faults, events, listed, counters, cycle, source, history>>

InspectFails ==
    /\ stage["events"] = "reset"
    /\ known[subject.id] # "absent"
    /\ IF docker[subject.id] = "gone" THEN UNCHANGED faults ELSE Fail("inspect")
    /\ HandleEnds
    /\ UNCHANGED <<world, events, known, listed, counters, cycle, source, history>>

HandleUnknown ==
    /\ stage["events"] = "reset"
    /\ known[subject.id] = "absent"
    /\ subject.type # "start"
    /\ HandleEnds
    /\ UNCHANGED <<world, faults, events, known, listed, counters, cycle, source, history>>

-----------------------------------------------------------------------------
(* refreshInventory, by the ticker of the inventory loop, and by the event   *)
(* loop when a container was started that it does not know.                  *)

Refreshes(l) ==
    \/ l = "inventory" /\ stage[l] = "idle"
    \/ l = "events" /\ stage[l] = "reset" /\ known[subject.id] = "absent" /\ subject.type = "start"

\* faulty: an answer of Docker does not clear its error
ListQuietly(l) ==
    /\ Refreshes(l)
    /\ listed' = [listed EXCEPT ![l] = [c \in Containers |-> Told(c)]]
    /\ stage' = [stage EXCEPT ![l] = "apply"]
    /\ UNCHANGED <<world, faults, events, known, subject, counters, cycle, source, history>>

List(l) ==
    /\ Refreshes(l)
    /\ listed' = [listed EXCEPT ![l] = [c \in Containers |-> Told(c)]]
    /\ source' = "ok"
    /\ stage' = [stage EXCEPT ![l] = "apply"]
    /\ UNCHANGED <<world, faults, events, known, subject, counters, cycle, history>>

RefreshEnds(l) ==
    /\ stage' = [stage EXCEPT ![l] = "idle"]
    /\ listed' = [listed EXCEPT ![l] = NoList]
    /\ subject' = IF l = "events" THEN NoEvent ELSE subject

ListFails(l) ==
    /\ Refreshes(l)
    /\ Fail("list")
    /\ source' = "failed"
    /\ RefreshEnds(l)
    /\ UNCHANGED <<world, events, known, counters, cycle, history>>

Apply(l) ==
    /\ stage[l] = "apply"
    /\ known' = listed[l]
    /\ stage' = [stage EXCEPT ![l] = "prune"]
    /\ UNCHANGED <<world, faults, events, subject, listed, counters, cycle, source, history>>

\* faulty: the counters of a container that is gone are kept
PruneNothing(l) ==
    /\ stage[l] = "prune"
    /\ RefreshEnds(l)
    /\ UNCHANGED <<world, faults, events, known, counters, cycle, source, history>>

\* The counters are under another mutex than the containers.
Prune(l) ==
    /\ stage[l] = "prune"
    /\ LET gone == {c \in Containers : listed[l][c] = "absent"} IN
          /\ counters' = Forget(gone)
          /\ late' = late \ gone
    /\ RefreshEnds(l)
    /\ UNCHANGED <<world, faults, events, known, cycle, source, reset>>

-----------------------------------------------------------------------------
(* collectStats *)

Begin ==
    /\ pc = "idle"
    /\ ids' = {c \in Containers : known[c] = "running"}
    /\ ids' # {}
    /\ pc' = "asking"
    /\ todo' = ids'
    /\ UNCHANGED <<world, faults, events, inventory, counters, asked, results, expired, source, history>>

\* A free worker takes a container from the channel of jobs.
Hand(c) ==
    /\ c \in todo
    /\ Cardinality(asked) < StatsWorkers
    /\ todo' = todo \ {c}
    /\ asked' = asked \cup {c}
    /\ UNCHANGED <<world, faults, events, inventory, counters, pc, ids, results, expired, source, history>>

\* After the deadline the rest may be left out.
Skip(c) ==
    /\ c \in todo
    /\ expired
    /\ todo' = todo \ {c}
    /\ UNCHANGED <<world, faults, events, inventory, counters, pc, ids, asked, results, expired, source, history>>

Expire ==
    /\ pc = "asking"
    /\ ~expired
    /\ Fail("deadline")
    /\ expired' = TRUE
    /\ UNCHANGED <<world, events, inventory, counters, pc, ids, todo, asked, results, source, history>>

\* faulty: the channel of results has room for one result of each worker
HasRoomForWorkers == Cardinality(Sent) < StatsWorkers

\* The channel of results, which is read only when all workers have ended.
HasRoom == Cardinality(Sent) < Cardinality(ids)

\* A worker sends its result and is free again.
Send(c, result) ==
    /\ c \in asked
    /\ HasRoom
    /\ results' = [results EXCEPT ![c] = result]
    /\ asked' = asked \ {c}
    /\ UNCHANGED <<world, events, inventory, counters, pc, ids, todo, expired, source, history>>

StatsOf(c) ==
    CASE docker[c] = "running" -> [kind |-> "stats", life |-> life[c]]
      [] docker[c] = "stopped" -> [kind |-> "stats", life |-> Zeros]
      [] OTHER                 -> [kind |-> "missing"]

Respond(c) ==
    /\ ~expired
    /\ Send(c, StatsOf(c))
    /\ UNCHANGED faults

\* A call has a timeout of its own, and ends with the cycle.
CallFails(c) ==
    /\ Send(c, [kind |-> "failed"])
    /\ IF expired THEN UNCHANGED faults ELSE Fail("call")

Answered == {c \in Containers : results[c].kind = "stats"}
Missing  == {c \in Containers : results[c].kind = "missing"}

\* CPUPercent and rates: a sample takes two answers of a running container, and
\* counters that did not shrink, which those of another life may or may not have.
Sampled(c) ==
    /\ c \in Answered
    /\ results[c].life # Zeros
    /\ counters[c] \notin {NoSnapshot, Zeros}

\* All workers have ended: the results are counted under the mutex.
Count ==
    /\ pc = "asking"
    /\ todo = {}
    /\ asked = {}
    /\ counters' = [c \in Containers |-> CASE c \in Answered -> results[c].life
                                            [] c \in Missing  -> NoSnapshot
                                            [] OTHER          -> counters[c]]
    /\ late' = (late \ (Answered \cup Missing)) \cup (Answered \cap reset)
    /\ reset' = {}
    /\ pc' = "counted"
    /\ UNCHANGED <<world, faults, events, inventory, ids, todo, asked, results, expired, source>>

EndCycle ==
    /\ pc' = "idle"
    /\ ids' = {}
    /\ todo' = {}
    /\ asked' = {}
    /\ results' = NoResult
    /\ expired' = FALSE

\* Docker is marked as failed if each container has failed.
Report ==
    /\ pc = "counted"
    /\ source' = IF \A c \in ids : results[c].kind \in {"missing", "failed"} THEN "failed" ELSE source
    /\ EndCycle
    /\ UNCHANGED <<world, faults, events, inventory, counters, history>>

\* The dashboard ends and starts again, up to the end of bootstrap.
Restart ==
    /\ Fail("restart")
    /\ events' = <<>>
    /\ known' = [c \in Containers |-> Told(c)]
    /\ stage' = [l \in Loops |-> "idle"]
    /\ subject' = NoEvent
    /\ listed' = [l \in Loops |-> NoList]
    /\ counters' = [c \in Containers |-> NoSnapshot]
    /\ EndCycle
    /\ source' = "ok"
    /\ reset' = {}
    /\ late' = {}
    /\ UNCHANGED world

-----------------------------------------------------------------------------

Refresh(l) == List(l) \/ Apply(l) \/ Prune(l)
Handle     == Reset \/ HandleDestroy \/ Inspect \/ InspectFails \/ HandleUnknown
Worker(c)  == Respond(c) \/ CallFails(c)
Collect    == Begin \/ (\E c \in Containers : Hand(c) \/ Skip(c)) \/ Count \/ Report

Next ==
    \/ \E c \in Containers : Start(c) \/ Die(c) \/ Destroy(c) \/ Worker(c)
    \/ \E l \in Loops : Refresh(l) \/ ListFails(l)
    \/ Handle
    \/ Collect
    \/ Expire
    \/ Restart

Spec == Init /\ [][Next]_vars

\* The tickers go on, and a call of Docker ends, at last by its timeout.
Fairness ==
    /\ WF_vars(Refresh("inventory"))
    /\ WF_vars(Handle \/ Refresh("events"))
    /\ WF_vars(Collect \/ \E c \in Containers : Worker(c))

FairSpec == Spec /\ Fairness

-----------------------------------------------------------------------------
(* Properties *)

\* A rate is computed from two answers of the same life of a container, except
\* if its start has not been read yet, or if the older answer was given before
\* the counters were reset and counted afterwards.
RateWithinALife ==
    [][\A c \in Containers :
          Count /\ Sampled(c) /\ counters[c] # results[c].life => c \in late \/ Unread(c)]_vars

\* A cycle ends whatever Docker does: no worker waits for room in the channel of
\* results, which nobody reads as long as a worker runs.
CycleEnds == pc # "idle" ~> pc = "idle"

\* The counters of a container that is gone do not stay, although an answer that
\* comes after it was destroyed stores them once more.
LeftoversGo == \A c \in Containers : <>[](docker[c] = "gone" => counters[c] = NoSnapshot)

\* Docker is not shown as failed for good once its calls succeed, whichever of
\* the loops marked it.
SourceComesBack == <>[](source = "ok")
=============================================================================
