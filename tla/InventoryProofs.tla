-------------------------- MODULE InventoryProofs --------------------------
(* Theorems about Inventory for any containers, changes and failures, with   *)
(* machine-checked proofs.                                                   *)
(*                                                                           *)
(* The argument: the map is written in three places. A list is applied as a  *)
(* whole, so it is as right as the list; an inspection only touches a        *)
(* container that is in the map; and an event deletes a container only when  *)
(* Docker has destroyed it, after which Docker never has it again.           *)
EXTENDS Inventory, TLAPS

\* Docker gives an id once, and tells of a container's end after it.
Destroyed ==
    /\ unused \cap DOMAIN docker = {}
    /\ \A n \in DOMAIN events : events[n].action = "destroy" =>
          events[n].id \notin DOMAIN docker /\ events[n].id \notin unused

IInv == TypeOK /\ Destroyed

-----------------------------------------------------------------------------
(* Maps *)

LEMMA MapIntro ==
    ASSUME NEW S, NEW D \in SUBSET Ids, NEW f \in [D -> S]
    PROVE  f \in Maps(S)
  BY DEF Maps

LEMMA MapElim ==
    ASSUME NEW S, NEW f \in Maps(S)
    PROVE  DOMAIN f \in SUBSET Ids /\ f \in [DOMAIN f -> S]
  BY DEF Maps

LEMMA EmptyMap ==
    ASSUME NEW S
    PROVE  Empty \in Maps(S) /\ DOMAIN Empty = {}
<1>1. Empty \in [{} -> S]
  BY DEF Empty
<1> QED
  BY <1>1, MapIntro DEF Empty

\* What each loop holds.
LocalOK ==
    /\ pc \in [Loops -> {"idle", "list", "apply", "inspect", "update", "copy", "upsert"}]
    /\ answer \in [Loops -> Maps(States)]
    /\ todo \in [Loops -> SUBSET Ids]
    /\ info \in [Loops -> Maps(Status)]
    /\ records \in [Loops -> Maps(Status)]
    /\ booting => pc["events"] = "idle"
    /\ pc["inventory"] # "list"
    /\ \A p \in Loops : /\ pc[p] # "apply" => answer[p] = Empty
                        /\ pc[p] # "update" => info[p] = Empty
                        /\ pc[p] # "inspect" /\ pc[p] # "update" => todo[p] = {}

\* What the loops share.
SharedOK ==
    /\ events \in Seq(Event)
    /\ booting \in BOOLEAN
    /\ memory \in Maps(Known)
    /\ table \in Maps(Row)
    /\ faults \in 0..MaxFaults

WorldOK ==
    /\ docker \in Maps(Status)
    /\ unused \in SUBSET Ids
    /\ changes \in 0..MaxChanges

LEMMA Parts == TypeOK <=> WorldOK /\ SharedOK /\ LocalOK
  BY DEF TypeOK, WorldOK, SharedOK, LocalOK

LEMMA InitInvariant == Init => IInv
<1> SUFFICES ASSUME Init PROVE IInv
  OBVIOUS
<1> USE DEF Init
<1>1. docker \in Maps(Status)
  <2>1. docker \in [DOMAIN docker -> [state : {"running"}, health : {"none"}]] /\ DOMAIN docker \in SUBSET Ids
    BY MapElim
  <2>2. docker \in [DOMAIN docker -> Status]
    BY <2>1 DEF Status, States, Healths
  <2> QED
    BY <2>1, <2>2, MapIntro
<1>2. WorldOK
  BY <1>1, InventoryAssumption DEF WorldOK
<1>3. SharedOK
  BY EmptyMap, InventoryAssumption DEF SharedOK
<1>4. LocalOK
  BY EmptyMap DEF LocalOK, Loops
<1>5. Destroyed
  BY DEF Destroyed
<1> QED
  BY <1>2, <1>3, <1>4, <1>5, Parts DEF IInv

-----------------------------------------------------------------------------
(* Docker's steps *)

\* An event is added for a container whose id is no longer unused.
LEMMA ChangeInvariant ==
    ASSUME IInv, NEW id \in Ids, NEW after, NEW action \in {"create", "start", "destroy", "other"},
           Change(id, after, action),
           after \in Maps(Status), unused' \in SUBSET unused,
           unused' \cap DOMAIN after = {},
           DOMAIN after \subseteq DOMAIN docker \cup unused,
           action = "destroy" => id \notin DOMAIN after /\ id \notin unused'
    PROVE  IInv'
<1> USE DEF Change, local
<1>1. WorldOK /\ SharedOK /\ LocalOK
  BY Parts DEF IInv
<1>2. WorldOK'
  BY <1>1, InventoryAssumption DEF WorldOK
<1>3. SharedOK' /\ LocalOK'
  BY <1>1 DEF SharedOK, LocalOK, Event
<1>4. Destroyed'
  <2>1. events \in Seq(Event)
    BY <1>1 DEF SharedOK
  <2>2. SUFFICES ASSUME NEW n \in DOMAIN events', events'[n].action = "destroy"
                 PROVE  events'[n].id \notin DOMAIN docker' /\ events'[n].id \notin unused'
    BY DEF Destroyed
  <2>3. CASE n \in DOMAIN events
    BY <2>1, <2>2, <2>3 DEF IInv, Destroyed
  <2>4. CASE n = Len(events) + 1
    BY <2>1, <2>2, <2>4
  <2> QED
    BY <2>1, <2>3, <2>4
<1> QED
  BY <1>2, <1>3, <1>4 DEF IInv, TypeOK, WorldOK, SharedOK, LocalOK

LEMMA DockerInvariant ==
    ASSUME IInv, NEW id \in Ids,
           Create(id) \/ Start(id) \/ Die(id) \/ HealthStatus(id) \/ Destroy(id)
    PROVE  IInv'
<1>1. /\ DOMAIN docker \in SUBSET Ids
      /\ docker \in [DOMAIN docker -> Status]
      /\ unused \in SUBSET Ids
      /\ unused \cap DOMAIN docker = {}
  BY MapElim DEF IInv, TypeOK, Destroyed
<1>2. CASE Create(id)
  <2> DEFINE after == [i \in DOMAIN docker \cup {id} |->
                         IF i = id THEN [state |-> "created", health |-> "none"] ELSE docker[i]]
  <2>1. after \in [DOMAIN docker \cup {id} -> Status]
    BY <1>1 DEF Status, States, Healths
  <2>2. Change(id, after, "create") /\ unused' = unused \ {id} /\ id \in unused
    BY <1>2 DEF Create
  <2>3. after \in Maps(Status) /\ DOMAIN after = DOMAIN docker \cup {id}
    BY <2>1, <1>1, MapIntro
  <2> HIDE DEF after
  <2> QED
    BY <2>2, <2>3, <1>1, ChangeInvariant
<1>3. CASE Start(id)
  <2> DEFINE after == [docker EXCEPT ![id].state = "running"]
  <2>1. after \in [DOMAIN docker -> Status]
    BY <1>1, <1>3 DEF Start, Status, States
  <2>2. Change(id, after, "start") /\ unused' = unused
    BY <1>3 DEF Start
  <2>3. after \in Maps(Status) /\ DOMAIN after = DOMAIN docker
    BY <2>1, <1>1, MapIntro
  <2> HIDE DEF after
  <2> QED
    BY <2>2, <2>3, <1>1, ChangeInvariant
<1>4. CASE Die(id)
  <2> DEFINE after == [docker EXCEPT ![id].state = "exited"]
  <2>1. after \in [DOMAIN docker -> Status]
    BY <1>1, <1>4 DEF Die, Status, States
  <2>2. Change(id, after, "other") /\ unused' = unused
    BY <1>4 DEF Die
  <2>3. after \in Maps(Status) /\ DOMAIN after = DOMAIN docker
    BY <2>1, <1>1, MapIntro
  <2> HIDE DEF after
  <2> QED
    BY <2>2, <2>3, <1>1, ChangeInvariant
<1>5. CASE HealthStatus(id)
  <2>1. PICK h \in Healths : Change(id, [docker EXCEPT ![id].health = h], "other")
    BY <1>5 DEF HealthStatus
  <2> DEFINE after == [docker EXCEPT ![id].health = h]
  <2>2. after \in [DOMAIN docker -> Status]
    BY <1>1, <1>5 DEF HealthStatus, Status
  <2>3. Change(id, after, "other") /\ unused' = unused
    BY <1>5, <2>1 DEF HealthStatus
  <2>4. after \in Maps(Status) /\ DOMAIN after = DOMAIN docker
    BY <2>2, <1>1, MapIntro
  <2> HIDE DEF after
  <2> QED
    BY <2>3, <2>4, <1>1, ChangeInvariant
<1>6. CASE Destroy(id)
  <2> DEFINE after == [i \in DOMAIN docker \ {id} |-> docker[i]]
  <2>1. after \in [DOMAIN docker \ {id} -> Status]
    BY <1>1
  <2>2. Change(id, after, "destroy") /\ unused' = unused /\ id \in DOMAIN docker
    BY <1>6 DEF Destroy
  <2>3. after \in Maps(Status) /\ DOMAIN after = DOMAIN docker \ {id}
    BY <2>1, <1>1, MapIntro
  <2> HIDE DEF after
  <2> QED
    BY <2>2, <2>3, <1>1, ChangeInvariant
<1> QED
  BY <1>2, <1>3, <1>4, <1>5, <1>6

-----------------------------------------------------------------------------
(* The loops' steps *)

\* Each of them leaves Docker alone and reads a part of the events.
LEMMA LoopsKeepDestroyed ==
    ASSUME TypeOK, Destroyed, UNCHANGED world,
           NEW n \in 0..Len(events), events' = SubSeq(events, n + 1, Len(events))
    PROVE  Destroyed' /\ events' \in Seq(Event)
<1>1. events \in Seq(Event) /\ Len(events) \in Nat
  BY DEF TypeOK
<1>2. /\ events' \in Seq(Event)
      /\ \A m \in DOMAIN events' : m + n \in DOMAIN events /\ events'[m] = events[m + n]
  BY <1>1
<1>3. Destroyed'
  BY <1>2 DEF Destroyed, world
<1> QED
  BY <1>2, <1>3

LEMMA ReadKeepsDestroyed ==
    ASSUME TypeOK, Destroyed, UNCHANGED world, events # <<>>, Read
    PROVE  Destroyed' /\ events' \in Seq(Event) /\ Head(events) \in Event /\ 1 \in DOMAIN events
<1>1. events \in Seq(Event) /\ Len(events) \in Nat
  BY DEF TypeOK
<1>2. /\ events' \in Seq(Event)
      /\ \A m \in DOMAIN events' : m + 1 \in DOMAIN events /\ events'[m] = events[m + 1]
      /\ 1 \in DOMAIN events /\ Head(events) \in Event
  BY <1>1 DEF Read
<1>3. Destroyed'
  BY <1>2 DEF Destroyed, world
<1> QED
  BY <1>2, <1>3

LEMMA SameEvents ==
    ASSUME Destroyed, UNCHANGED <<docker, unused, events>>
    PROVE  Destroyed'
  BY DEF Destroyed

\* List, Apply, inspect and the copy of the map.
LEMMA RefreshInvariant ==
    ASSUME IInv, NEW p \in Loops,
           \/ List(p) \/ Apply(p) \/ Update(p) \/ Copy(p)
           \/ \E id \in Ids : Inspect(p, id) \/ InspectFails(p, id)
    PROVE  IInv'
<1>1. WorldOK /\ SharedOK /\ LocalOK /\ Destroyed
  BY Parts DEF IInv
<1>2. UNCHANGED <<docker, unused, changes, events, booting, table>>
  BY DEF List, Apply, Update, Copy, Inspect, InspectFails, world
<1>3. WorldOK' /\ Destroyed'
  BY <1>1, <1>2, SameEvents DEF WorldOK
<1>4. /\ DOMAIN docker \in SUBSET Ids /\ docker \in [DOMAIN docker -> Status]
      /\ DOMAIN memory \in SUBSET Ids /\ memory \in [DOMAIN memory -> Known]
  BY <1>1, MapElim DEF WorldOK, SharedOK
<1>5. CASE List(p)
  <2> DEFINE a == [id \in DOMAIN docker |-> docker[id].state]
  <2>1. a \in Maps(States)
    <3>1. a \in [DOMAIN docker -> States]
      BY <1>4 DEF Status
    <3> QED
      BY <3>1, <1>4, MapIntro
  <2>2. MayList(p) /\ answer' = [answer EXCEPT ![p] = a] /\ Goto(p, "apply")
        /\ UNCHANGED <<memory, todo, info, records, faults>>
    BY <1>5 DEF List
  <2> HIDE DEF a
  <2>3. LocalOK'
    BY <1>1, <1>2, <2>1, <2>2 DEF LocalOK, SharedOK, Goto, MayList, Loops
  <2>4. SharedOK'
    BY <1>1, <1>2, <2>2 DEF SharedOK
  <2> QED
    BY <1>3, <2>3, <2>4 DEF IInv, TypeOK, WorldOK, SharedOK, LocalOK
<1>6. CASE Apply(p)
  <2>1. DOMAIN answer[p] \in SUBSET Ids /\ answer[p] \in [DOMAIN answer[p] -> States]
    BY <1>1, MapElim DEF LocalOK
  <2>2. memory' \in [DOMAIN answer[p] -> Known]
    BY <1>4, <1>6, <2>1 DEF Apply, Known, Healths
  <2>3. memory' \in Maps(Known)
    BY <2>1, <2>2, MapIntro
  <2>4. SharedOK'
    BY <1>1, <1>2, <1>6, <2>3 DEF SharedOK, Apply
  <2>5. LocalOK'
    BY <1>1, <1>2, <1>6, <2>1, EmptyMap DEF LocalOK, Apply, Goto, Loops
  <2> QED
    BY <1>3, <2>4, <2>5 DEF IInv, TypeOK, WorldOK, SharedOK, LocalOK
<1>7. CASE Update(p)
  <2>1. DOMAIN info[p] \in SUBSET Ids /\ info[p] \in [DOMAIN info[p] -> Status]
    BY <1>1, MapElim DEF LocalOK
  <2>2. memory' \in [DOMAIN memory -> Known]
    BY <1>4, <1>7, <2>1 DEF Update, Updated, Known, Status
  <2>3. memory' \in Maps(Known)
    BY <1>4, <2>2, MapIntro
  <2>4. SharedOK'
    BY <1>1, <1>2, <1>7, <2>3 DEF SharedOK, Update
  <2>5. LocalOK'
    BY <1>1, <1>2, <1>7, EmptyMap DEF LocalOK, Update, Goto, Loops
  <2> QED
    BY <1>3, <2>4, <2>5 DEF IInv, TypeOK, WorldOK, SharedOK, LocalOK
<1>8. CASE Copy(p)
  <2> DEFINE r == [id \in DOMAIN memory |-> [state |-> memory[id].state, health |-> memory[id].health]]
  <2>1. r \in Maps(Status)
    <3>1. r \in [DOMAIN memory -> Status]
      BY <1>4 DEF Known, Status
    <3> QED
      BY <3>1, <1>4, MapIntro
  <2>2. pc[p] = "inspect" /\ todo[p] = {} /\ records' = [records EXCEPT ![p] = r] /\ Goto(p, "upsert")
        /\ UNCHANGED <<memory, answer, todo, info, faults>>
    BY <1>8 DEF Copy
  <2> HIDE DEF r
  <2>3. LocalOK'
    BY <1>1, <1>2, <2>1, <2>2 DEF LocalOK, Goto, Loops
  <2>4. SharedOK'
    BY <1>1, <1>2, <2>2 DEF SharedOK
  <2> QED
    BY <1>3, <2>3, <2>4 DEF IInv, TypeOK, WorldOK, SharedOK, LocalOK
<1>9. ASSUME NEW id \in Ids, Inspect(p, id) PROVE IInv'
  <2> DEFINE i == [j \in {id} |-> docker[j]]
  <2>1. i \in Maps(Status)
    <3>1. i \in [{id} -> Status]
      BY <1>4, <1>9 DEF Inspect
    <3> QED
      BY <3>1, MapIntro
  <2>2. pc[p] = "inspect" /\ todo' = [todo EXCEPT ![p] = @ \ {id}]
        /\ info' = [info EXCEPT ![p] = i] /\ Goto(p, "update")
        /\ UNCHANGED <<memory, answer, records, faults>>
    BY <1>9 DEF Inspect
  <2> HIDE DEF i
  <2>3. LocalOK'
    BY <1>1, <1>2, <2>1, <2>2 DEF LocalOK, Goto, Loops
  <2>4. SharedOK'
    BY <1>1, <1>2, <2>2 DEF SharedOK
  <2> QED
    BY <1>3, <2>3, <2>4 DEF IInv, TypeOK, WorldOK, SharedOK, LocalOK
<1>10. ASSUME NEW id \in Ids, InspectFails(p, id) PROVE IInv'
  <2>1. faults' \in 0..MaxFaults
    BY <1>1, <1>10, InventoryAssumption DEF InspectFails, Fail, SharedOK
  <2>2. SharedOK'
    BY <1>1, <1>2, <1>10, <2>1 DEF SharedOK, InspectFails
  <2>3. LocalOK'
    BY <1>1, <1>2, <1>10 DEF LocalOK, InspectFails, Loops
  <2> QED
    BY <1>3, <2>2, <2>3 DEF IInv, TypeOK, WorldOK, SharedOK, LocalOK
<1> QED
  BY <1>5, <1>6, <1>7, <1>8, <1>9, <1>10

\* A refresh returns, with or without having stored anything.
LEMMA ReturnInvariant ==
    ASSUME IInv, NEW p \in Loops, ListFails(p) \/ Upsert(p) \/ UpsertFails(p)
    PROVE  IInv'
<1>1. TypeOK /\ WorldOK /\ SharedOK /\ LocalOK /\ Destroyed
  BY Parts DEF IInv
<1>2. UNCHANGED world /\ UNCHANGED <<memory, answer, todo, info>> /\ Return(p)
  BY DEF ListFails, Upsert, UpsertFails, local
<1>3. Destroyed' /\ events' \in Seq(Event)
  BY <1>1, <1>2, LoopsKeepDestroyed DEF Return
<1>4. WorldOK'
  BY <1>1, <1>2 DEF WorldOK, world
<1>5. table' \in Maps(Row)
  <2>1. CASE Upsert(p)
    <3>1. /\ DOMAIN table \in SUBSET Ids /\ table \in [DOMAIN table -> Row]
          /\ DOMAIN records[p] \in SUBSET Ids /\ records[p] \in [DOMAIN records[p] -> Status]
      BY <1>1, MapElim DEF SharedOK, LocalOK
    <3>2. table' \in [DOMAIN table \cup DOMAIN records[p] -> Row]
      BY <2>1, <3>1 DEF Upsert, Upserted, Row, Status
    <3> QED
      BY <3>1, <3>2, MapIntro
  <2>2. CASE ListFails(p) \/ UpsertFails(p)
    BY <1>1, <2>2 DEF SharedOK, ListFails, UpsertFails
  <2> QED
    BY <2>1, <2>2
<1>6. faults' \in 0..MaxFaults
  BY <1>1, InventoryAssumption DEF SharedOK, ListFails, Upsert, UpsertFails, Fail
<1>7. SharedOK'
  BY <1>1, <1>2, <1>3, <1>5, <1>6 DEF SharedOK, Return
<1>8. records' \in [Loops -> Maps(Status)]
  BY <1>1, EmptyMap DEF LocalOK, ListFails, Upsert, UpsertFails, local
<1>9. pc[p] # "apply" /\ pc[p] # "update" /\ pc[p] # "inspect"
  BY DEF ListFails, Upsert, UpsertFails, MayList
<1>10. LocalOK'
  BY <1>1, <1>2, <1>8, <1>9 DEF LocalOK, Return, Goto, Loops
<1> QED
  BY <1>3, <1>4, <1>7, <1>10 DEF IInv, TypeOK, WorldOK, SharedOK, LocalOK

LEMMA HandleInvariant ==
    ASSUME IInv, Handle
    PROVE  IInv'
<1>1. TypeOK /\ WorldOK /\ SharedOK /\ LocalOK /\ Destroyed
  BY Parts DEF IInv
<1>2. /\ UNCHANGED world /\ UNCHANGED <<booting, table, answer, info, records, faults>>
      /\ Reading /\ Read
  BY DEF Handle, HandleDestroy, HandleKnown, HandleNew, HandleUnknown, local
<1>3. Destroyed' /\ events' \in Seq(Event) /\ Head(events).id \in Ids
  BY <1>1, <1>2, ReadKeepsDestroyed DEF Reading, Event
<1>4. WorldOK'
  BY <1>1, <1>2 DEF WorldOK, world
<1>5. memory' \in Maps(Known)
  <2>1. CASE HandleDestroy
    <3>1. DOMAIN memory \in SUBSET Ids /\ memory \in [DOMAIN memory -> Known]
      BY <1>1, MapElim DEF SharedOK
    <3>2. memory' \in [DOMAIN memory \ {Head(events).id} -> Known]
      BY <2>1, <3>1 DEF HandleDestroy
    <3> QED
      BY <3>1, <3>2, MapIntro
  <2>2. CASE HandleKnown \/ HandleNew \/ HandleUnknown
    BY <1>1, <2>2 DEF SharedOK, HandleKnown, HandleNew, HandleUnknown
  <2> QED
    BY <2>1, <2>2 DEF Handle
<1>6. SharedOK'
  BY <1>1, <1>2, <1>3, <1>5 DEF SharedOK
<1>7. LocalOK'
  <2>1. CASE HandleKnown
    BY <1>1, <1>2, <1>3, <2>1 DEF LocalOK, HandleKnown, Goto, Loops, Reading
  <2>2. CASE HandleNew
    BY <1>1, <1>2, <2>2 DEF LocalOK, HandleNew, Goto, Loops, Reading, local
  <2>3. CASE HandleDestroy \/ HandleUnknown
    BY <1>1, <1>2, <2>3 DEF LocalOK, HandleDestroy, HandleUnknown, local
  <2> QED
    BY <2>1, <2>2, <2>3 DEF Handle
<1> QED
  BY <1>3, <1>4, <1>6, <1>7 DEF IInv, TypeOK, WorldOK, SharedOK, LocalOK

LEMMA AgeInvariant ==
    ASSUME IInv, NEW id \in Ids, Age(id)
    PROVE  IInv'
<1>1. WorldOK /\ SharedOK /\ LocalOK /\ Destroyed
  BY Parts DEF IInv
<1>2. DOMAIN memory \in SUBSET Ids /\ memory \in [DOMAIN memory -> Known]
  BY <1>1, MapElim DEF SharedOK
<1>3. memory' \in [DOMAIN memory -> Known]
  BY <1>2 DEF Age, Known
<1>4. memory' \in Maps(Known)
  BY <1>2, <1>3, MapIntro
<1>5. WorldOK' /\ SharedOK' /\ LocalOK' /\ Destroyed'
  BY <1>1, <1>4, SameEvents DEF WorldOK, SharedOK, LocalOK, Age, world, local
<1> QED
  BY <1>5 DEF IInv, TypeOK, WorldOK, SharedOK, LocalOK

LEMMA RestartInvariant ==
    ASSUME IInv, Restart
    PROVE  IInv'
<1>1. WorldOK /\ SharedOK /\ LocalOK /\ Destroyed
  BY Parts DEF IInv
<1>2. faults' \in 0..MaxFaults
  BY <1>1, InventoryAssumption DEF Restart, Fail, SharedOK
<1>3. SharedOK' /\ WorldOK'
  BY <1>1, <1>2, EmptyMap DEF SharedOK, WorldOK, Restart, world
<1>4. LocalOK' /\ Destroyed'
  BY <1>1, EmptyMap DEF LocalOK, Destroyed, Restart, Loops, world
<1> QED
  BY <1>3, <1>4 DEF IInv, TypeOK, WorldOK, SharedOK, LocalOK

LEMMA NextInvariant == IInv /\ [Next]_vars => IInv'
<1> SUFFICES ASSUME IInv, [Next]_vars PROVE IInv'
  OBVIOUS
<1>1. ASSUME NEW id \in Ids, Create(id) \/ Start(id) \/ Die(id) \/ HealthStatus(id) \/ Destroy(id)
      PROVE  IInv'
  BY <1>1, DockerInvariant
<1>2. ASSUME NEW p \in Loops, Step(p) \/ StepFails(p)
      PROVE  IInv'
  BY <1>2, RefreshInvariant, ReturnInvariant DEF Step, StepFails
<1>3. CASE Handle
  BY <1>3, HandleInvariant
<1>4. ASSUME NEW id \in Ids, Age(id) PROVE IInv'
  BY <1>4, AgeInvariant
<1>5. CASE Restart
  BY <1>5, RestartInvariant
<1>6. CASE UNCHANGED vars
  BY <1>6 DEF vars, IInv, TypeOK, Destroyed
<1> QED
  BY <1>1, <1>2, <1>3, <1>4, <1>5, <1>6 DEF Next

-----------------------------------------------------------------------------
(* The map *)

\* What one step of the program does to a right map.
LEMMA StaysRight ==
    ASSUME IInv, [Next]_vars, NEW id \in Ids, docker' = docker, ~Restart, ListsAgree(id)
    PROVE  /\ Member(id) => Member(id)'
           /\ Right(id) /\ InfosAgree(id) => Right(id)'
<1> USE DEF Member, Right
<1>1. CASE memory' = memory
  BY <1>1
<1>2. ASSUME NEW p \in Loops, Apply(p)
      PROVE  /\ Member(id) => Member(id)'
             /\ Right(id) /\ InfosAgree(id) => Right(id)'
  BY <1>2 DEF Apply, ListsAgree
<1>3. ASSUME NEW p \in Loops, Update(p)
      PROVE  /\ Member(id) => Member(id)'
             /\ Right(id) /\ InfosAgree(id) => Right(id)'
  BY <1>3 DEF Update, Updated, InfosAgree
<1>4. CASE HandleDestroy
  <2>1. events \in Seq(Event) /\ events # <<>>
    BY <1>4 DEF IInv, TypeOK, HandleDestroy, Reading
  <2>2. 1 \in DOMAIN events /\ Head(events) = events[1]
    BY <2>1
  <2>3. Head(events).id \notin DOMAIN docker
    BY <1>4, <2>2 DEF IInv, Destroyed, HandleDestroy
  <2> QED
    BY <1>4, <2>3 DEF HandleDestroy
<1>5. ASSUME NEW i \in Ids, Age(i)
      PROVE  /\ Member(id) => Member(id)'
             /\ Right(id) /\ InfosAgree(id) => Right(id)'
  <2>1. memory \in [DOMAIN memory -> Known]
    BY MapElim DEF IInv, TypeOK
  <2>2. /\ DOMAIN memory' = DOMAIN memory
        /\ id \in DOMAIN memory => /\ memory'[id].state = memory[id].state
                                   /\ memory'[id].health = memory[id].health
    BY <1>5, <2>1 DEF Age, Known
  <2> QED
    BY <2>2
<1>6. \/ memory' = memory \/ HandleDestroy
      \/ \E p \in Loops : Apply(p) \/ Update(p)
      \/ \E i \in Ids : Age(i)
  BY DEF Next, vars, Create, Start, Die, HealthStatus, Destroy, Change, Step, StepFails, Handle,
         List, Copy, Upsert, Inspect, InspectFails, ListFails, UpsertFails,
         HandleKnown, HandleNew, HandleUnknown
<1> QED
  BY <1>1, <1>2, <1>3, <1>4, <1>5, <1>6

\* The types are kept, and a container that was destroyed is not in Docker
\* again, in every reachable state.
THEOREM Invariance == Spec => []IInv
  BY InitInvariant, NextInvariant, PTL DEF Spec

\* Types are kept, the event loop is idle until bootstrap returns, and no
\* loop keeps an answer that it has used.
THEOREM TypeCorrect == Spec => []TypeOK
<1>1. IInv => TypeOK
  BY DEF IInv
<1> QED
  BY <1>1, Invariance, PTL

\* A map that is right about a container becomes wrong about it only by an
\* answer that is older than Docker's last change to it.
THEOREM RightUnlessMisled == Spec => OnlyOldAnswersMislead
<1>1. IInv /\ [Next]_vars =>
        [\A id \in Ids : docker' = docker /\ ~Restart /\ ListsAgree(id) =>
            /\ Member(id) => Member(id)'
            /\ Right(id) /\ InfosAgree(id) => Right(id)']_vars
  BY StaysRight
<1> QED
  BY <1>1, Invariance, PTL DEF Spec, OnlyOldAnswersMislead
=============================================================================
