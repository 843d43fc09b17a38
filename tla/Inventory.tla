----------------------------- MODULE Inventory -----------------------------
(* internal/collector: what Docker has, what the containers map says, and    *)
(* what the containers table says. Two loops keep them together: one lists   *)
(* all containers every STATS_INTERVAL, the other follows Docker's events.   *)
(* Both inspect containers, write the map under its mutex and store it, and  *)
(* neither waits for the other.                                              *)
(*                                                                           *)
(* A map is a function on the ids that are in it. That the event stream      *)
(* skips nothing is the subject of EventStream.                              *)
EXTENDS Integers, Sequences

CONSTANTS
    Ids,         \* containers; Docker never gives an id twice
    \* Bounds of the model
    MaxChanges,  \* changes in Docker
    MaxFaults    \* failed calls, failed transactions, ends of the process

ASSUME InventoryAssumption ==
    /\ MaxChanges \in Nat
    /\ MaxFaults \in Nat

VARIABLES
    docker,   \* the containers that Docker has
    unused,   \* ids that Docker has not given yet
    changes,  \* changes still to come
    events,   \* events that the event loop has not read
    booting,  \* whether bootstrap has yet to return
    memory,   \* state.containers
    table,    \* the containers table
    pc,       \* where each loop is
    answer,   \* what ListContainers returned
    todo,     \* toInspect
    info,     \* what Inspect returned
    records,  \* what persistInventory copied from the map
    faults    \* failures still allowed

vars == <<docker, unused, changes, events, booting, memory, table, pc, answer, todo, info,
          records, faults>>

world == <<docker, unused, changes>>
local == <<answer, todo, info, records>>

Loops == {"inventory", "events"}

States  == {"created", "running", "exited"}
Healths == {"none", "unhealthy"}
Status  == [state : States, health : Healths]
\* due: LastInspected is more than reinspectEvery ago, or never
Known   == [state : States, health : Healths, due : BOOLEAN]
Row     == [state : States, health : Healths, present : BOOLEAN]
Event   == [id : Ids, action : {"create", "start", "destroy", "other"}]

\* The maps from containers to values of S.
Maps(S) == UNION {[ids -> S] : ids \in SUBSET Ids}

Empty == [id \in {} |-> 0]

TypeOK ==
    /\ docker \in Maps(Status)
    /\ unused \in SUBSET Ids
    /\ changes \in 0..MaxChanges
    /\ events \in Seq(Event)
    /\ booting \in BOOLEAN
    /\ memory \in Maps(Known)
    /\ table \in Maps(Row)
    /\ pc \in [Loops -> {"idle", "list", "apply", "inspect", "update", "copy", "upsert"}]
    /\ answer \in [Loops -> Maps(States)]
    /\ todo \in [Loops -> SUBSET Ids]
    /\ info \in [Loops -> Maps(Status)]
    /\ records \in [Loops -> Maps(Status)]
    /\ faults \in 0..MaxFaults
    /\ booting => pc["events"] = "idle"
    /\ pc["inventory"] # "list"
    /\ \A p \in Loops : /\ pc[p] # "apply" => answer[p] = Empty
                        /\ pc[p] # "update" => info[p] = Empty
                        /\ pc[p] # "inspect" /\ pc[p] # "update" => todo[p] = {}

\* The process starts; Docker may have run for long.
Init ==
    /\ docker \in Maps([state : {"running"}, health : {"none"}])
    /\ unused = Ids \ DOMAIN docker
    /\ changes = MaxChanges
    /\ events = <<>>
    /\ booting = TRUE
    /\ memory = Empty
    /\ table = Empty
    /\ pc = [p \in Loops |-> "idle"]
    /\ answer = [p \in Loops |-> Empty]
    /\ todo = [p \in Loops |-> {}]
    /\ info = [p \in Loops |-> Empty]
    /\ records = [p \in Loops |-> Empty]
    /\ faults = MaxFaults

-----------------------------------------------------------------------------
(* Docker *)

\* Docker's map changes at id, and an event tells of it.
Change(id, after, action) ==
    /\ changes > 0
    /\ changes' = changes - 1
    /\ docker' = after
    /\ events' = Append(events, [id |-> id, action |-> action])
    /\ UNCHANGED <<booting, memory, table, pc, local, faults>>

Create(id) ==
    /\ id \in unused
    /\ unused' = unused \ {id}
    /\ Change(id, [i \in DOMAIN docker \cup {id} |->
                      IF i = id THEN [state |-> "created", health |-> "none"] ELSE docker[i]],
              "create")

Start(id) ==
    /\ id \in DOMAIN docker /\ docker[id].state # "running"
    /\ Change(id, [docker EXCEPT ![id].state = "running"], "start")
    /\ UNCHANGED unused

Die(id) ==
    /\ id \in DOMAIN docker /\ docker[id].state = "running"
    /\ Change(id, [docker EXCEPT ![id].state = "exited"], "other")
    /\ UNCHANGED unused

HealthStatus(id) ==
    /\ id \in DOMAIN docker /\ docker[id].state = "running"
    /\ \E h \in Healths \ {docker[id].health} :
          Change(id, [docker EXCEPT ![id].health = h], "other")
    /\ UNCHANGED unused

Destroy(id) ==
    /\ id \in DOMAIN docker /\ docker[id].state # "running"
    /\ Change(id, [i \in DOMAIN docker \ {id} |-> docker[i]], "destroy")
    /\ UNCHANGED unused

-----------------------------------------------------------------------------
(* refreshInventory *)

Goto(p, step) == pc' = [pc EXCEPT ![p] = step]

\* The loop is free. After bootstrap the event loop starts, and may have
\* missed what happened until then.
Return(p) ==
    /\ Goto(p, "idle")
    /\ booting' = FALSE
    /\ \E n \in 0..Len(events) :
          /\ n = 0 \/ booting
          /\ events' = SubSeq(events, n + 1, Len(events))

Fail ==
    /\ faults > 0
    /\ faults' = faults - 1

\* The ticker fires, or the event loop came upon an unknown container.
MayList(p) == pc[p] = IF p = "inventory" THEN "idle" ELSE "list"

List(p) ==
    /\ MayList(p)
    /\ answer' = [answer EXCEPT ![p] = [id \in DOMAIN docker |-> docker[id].state]]
    /\ Goto(p, "apply")
    /\ UNCHANGED <<world, events, booting, memory, table, todo, info, records, faults>>

ListFails(p) ==
    /\ MayList(p)
    /\ Fail
    /\ Return(p)
    /\ UNCHANGED <<world, memory, table, local>>

\* faulty: only what is new
DueIfNew(id) == id \notin DOMAIN memory

Due(id) == id \notin DOMAIN memory \/ memory[id].due

\* Under the mutex: the state is taken from the list, what is not in the list
\* is deleted.
Apply(p) ==
    /\ pc[p] = "apply"
    /\ memory' = [id \in DOMAIN answer[p] |->
                    IF id \in DOMAIN memory
                    THEN [memory[id] EXCEPT !.state = answer[p][id]]
                    ELSE [state |-> answer[p][id], health |-> "none", due |-> TRUE]]
    /\ todo' = [todo EXCEPT ![p] = {id \in DOMAIN answer[p] : Due(id)}]
    /\ answer' = [answer EXCEPT ![p] = Empty]
    /\ Goto(p, "inspect")
    /\ UNCHANGED <<world, events, booting, table, info, records, faults>>

-----------------------------------------------------------------------------
(* inspect *)

Inspect(p, id) ==
    /\ pc[p] = "inspect"
    /\ id \in todo[p]
    /\ id \in DOMAIN docker
    /\ todo' = [todo EXCEPT ![p] = @ \ {id}]
    /\ info' = [info EXCEPT ![p] = [i \in {id} |-> docker[i]]]
    /\ Goto(p, "update")
    /\ UNCHANGED <<world, events, booting, memory, table, answer, records, faults>>

InspectFails(p, id) ==
    /\ pc[p] = "inspect"
    /\ id \in todo[p]
    /\ IF id \in DOMAIN docker THEN Fail ELSE UNCHANGED faults
    /\ todo' = [todo EXCEPT ![p] = @ \ {id}]
    /\ UNCHANGED <<world, events, booting, memory, table, pc, answer, info, records>>

\* faulty: a container that has left the map meanwhile is put back
UpdatedOrAdded(i) ==
    [id \in DOMAIN memory \cup DOMAIN i |->
        IF id \in DOMAIN i
        THEN [state |-> i[id].state, health |-> i[id].health, due |-> FALSE]
        ELSE memory[id]]

\* applyInspect, if the container is still in the map
Updated(i) ==
    [id \in DOMAIN memory |->
        IF id \in DOMAIN i
        THEN [state |-> i[id].state, health |-> i[id].health, due |-> FALSE]
        ELSE memory[id]]

Update(p) ==
    /\ pc[p] = "update"
    /\ memory' = Updated(info[p])
    /\ info' = [info EXCEPT ![p] = Empty]
    /\ Goto(p, "inspect")
    /\ UNCHANGED <<world, events, booting, table, answer, todo, records, faults>>

-----------------------------------------------------------------------------
(* persistInventory *)

Copy(p) ==
    /\ pc[p] = "inspect"
    /\ todo[p] = {}
    /\ records' = [records EXCEPT ![p] =
                     [id \in DOMAIN memory |-> [state  |-> memory[id].state,
                                                health |-> memory[id].health]]]
    /\ Goto(p, "upsert")
    /\ UNCHANGED <<world, events, booting, memory, table, answer, todo, info, faults>>

\* faulty: an empty list takes no part in the second statement
UpsertedOrLeft(r) ==
    [id \in DOMAIN table \cup DOMAIN r |->
        IF id \in DOMAIN r
        THEN [state |-> r[id].state, health |-> r[id].health, present |-> TRUE]
        ELSE [table[id] EXCEPT !.present = table[id].present /\ DOMAIN r = {}]]

\* UpsertContainers: the rows of r are written, all others are not present
Upserted(r) ==
    [id \in DOMAIN table \cup DOMAIN r |->
        IF id \in DOMAIN r
        THEN [state |-> r[id].state, health |-> r[id].health, present |-> TRUE]
        ELSE [table[id] EXCEPT !.present = FALSE]]

Upsert(p) ==
    /\ pc[p] = "upsert"
    /\ table' = Upserted(records[p])
    /\ records' = [records EXCEPT ![p] = Empty]
    /\ Return(p)
    /\ UNCHANGED <<world, memory, answer, todo, info, faults>>

\* The transaction is rolled back, the error is logged.
UpsertFails(p) ==
    /\ pc[p] = "upsert"
    /\ Fail
    /\ records' = [records EXCEPT ![p] = Empty]
    /\ Return(p)
    /\ UNCHANGED <<world, memory, table, answer, todo, info>>

-----------------------------------------------------------------------------
(* handleEvent *)

Reading == ~booting /\ pc["events"] = "idle" /\ events # <<>>

Read == events' = Tail(events)

HandleDestroy ==
    /\ Reading
    /\ Read
    /\ Head(events).action = "destroy"
    /\ memory' = [id \in DOMAIN memory \ {Head(events).id} |-> memory[id]]
    /\ UNCHANGED <<world, booting, table, pc, local, faults>>

HandleKnown ==
    /\ Reading
    /\ Read
    /\ Head(events).action # "destroy"
    /\ Head(events).id \in DOMAIN memory
    /\ todo' = [todo EXCEPT !["events"] = {Head(events).id}]
    /\ Goto("events", "inspect")
    /\ UNCHANGED <<world, booting, memory, table, answer, info, records, faults>>

\* A container appears: everything is listed.
HandleNew ==
    /\ Reading
    /\ Read
    /\ Head(events).action \in {"create", "start"}
    /\ Head(events).id \notin DOMAIN memory
    /\ Goto("events", "list")
    /\ UNCHANGED <<world, booting, memory, table, local, faults>>

HandleUnknown ==
    /\ Reading
    /\ Read
    /\ Head(events).action = "other"
    /\ Head(events).id \notin DOMAIN memory
    /\ UNCHANGED <<world, booting, memory, table, pc, local, faults>>

-----------------------------------------------------------------------------
(* Time, and the end of the process *)

\* reinspectEvery passes.
Age(id) ==
    /\ id \in DOMAIN memory /\ ~memory[id].due
    /\ memory' = [memory EXCEPT ![id].due = TRUE]
    /\ UNCHANGED <<world, events, booting, table, pc, local, faults>>

\* The table stays; bootstrap begins with an empty map.
Restart ==
    /\ Fail
    /\ memory' = Empty
    /\ events' = <<>>
    /\ booting' = TRUE
    /\ pc' = [p \in Loops |-> "idle"]
    /\ answer' = [p \in Loops |-> Empty]
    /\ todo' = [p \in Loops |-> {}]
    /\ info' = [p \in Loops |-> Empty]
    /\ records' = [p \in Loops |-> Empty]
    /\ UNCHANGED <<world, table>>

-----------------------------------------------------------------------------

Step(p) ==
    \/ List(p) \/ Apply(p) \/ Update(p) \/ Copy(p) \/ Upsert(p)
    \/ \E id \in Ids : Inspect(p, id)

StepFails(p) ==
    \/ ListFails(p) \/ UpsertFails(p)
    \/ \E id \in Ids : InspectFails(p, id)

Handle == HandleDestroy \/ HandleKnown \/ HandleNew \/ HandleUnknown

Next ==
    \/ \E id \in Ids : Create(id) \/ Start(id) \/ Die(id) \/ HealthStatus(id) \/ Destroy(id)
    \/ \E p \in Loops : Step(p) \/ StepFails(p)
    \/ Handle
    \/ \E id \in Ids : Age(id)
    \/ Restart

Spec == Init /\ [][Next]_vars

\* Both loops keep running and their calls return: one ticks, the other reads
\* what the stream sends. Time passes.
FairSpec ==
    /\ Spec
    /\ \A p \in Loops : WF_vars(Step(p) \/ StepFails(p))
    /\ WF_vars(Handle)
    /\ \A id \in Ids : WF_vars(Age(id))

-----------------------------------------------------------------------------
(* Properties *)

\* The map has the container if Docker has it, and says of it what Docker says.
Member(id) == id \in DOMAIN memory <=> id \in DOMAIN docker

Right(id) ==
    /\ Member(id)
    /\ id \in DOMAIN memory =>
          memory[id].state = docker[id].state /\ memory[id].health = docker[id].health

\* No list that is yet to be applied is wrong about the container, and no
\* inspection either.
ListsAgree(id) ==
    \A p \in Loops : pc[p] = "apply" =>
        /\ id \in DOMAIN answer[p] <=> id \in DOMAIN docker
        /\ id \in DOMAIN answer[p] => answer[p][id] = docker[id].state

InfosAgree(id) ==
    \A p \in Loops : id \in DOMAIN info[p] =>
        id \in DOMAIN docker /\ info[p][id] = docker[id]

\* Once the map is right about a container, only a change in Docker, the end
\* of the process or an older list makes it wrong again, and an older
\* inspection what it says, but not whether the container is there: not an
\* event that is read late, not a failed call, not the other loop.
OnlyOldAnswersMislead ==
    [][\A id \in Ids : docker' = docker /\ ~Restart /\ ListsAgree(id) =>
          /\ Member(id) => Member(id)'
          /\ Right(id) /\ InfosAgree(id) => Right(id)']_vars

\* When Docker comes to rest, so do the map and the table, with what Docker
\* has: whatever was listed, inspected and stored in which order before.
MemoryConverges == <>[](\A id \in Ids : Right(id))

TableConverges ==
    <>[](/\ {id \in DOMAIN table : table[id].present} = DOMAIN docker
         /\ \A id \in DOMAIN docker : /\ table[id].state = docker[id].state
                                      /\ table[id].health = docker[id].health)
=============================================================================
