------------------------------ MODULE DiskHealth ------------------------------
(* How the health of a disk reaches the screen: the SMART sidecar            *)
(* (cmd/smart), which asks each disk in turn and serves the answers it has,  *)
(* collectSmart of the host cycle (internal/collector/hostcycle.go), the     *)
(* disks table, from which a disk in standby gets its attributes, and the    *)
(* disks in memory, from which the alert rules judge.                        *)
(*                                                                           *)
(* A disk in standby is not woken: its answer has no attributes. Of the      *)
(* attributes only the verdict of Disk.Healthy is modelled.                  *)
EXTENDS Integers

CONSTANTS
    Disks,        \* device names
    \* Bounds of the model
    MaxChanges,   \* times that a disk fails, recovers, falls asleep or wakes up
    MaxFaults,    \* failures and restarts
    FaultKinds    \* which: "query", "fetch", "upsert", "read", "sidecar", "restart"

ASSUME DiskAssumption == MaxChanges \in Nat /\ MaxFaults \in Nat

Verdicts == {"good", "bad"}
Health   == Verdicts \cup {"unknown"}
Disk     == [health : Health, standby : BOOLEAN]
Answers  == Verdicts \cup {"standby", "none"}
NoDisk   == [standby |-> FALSE]

VARIABLES
    health,     \* what each disk would say of itself
    asleep,     \* the disks in standby
    changes,    \* changes still allowed
    faults,     \* failures still allowed
    todo,       \* disks that the refresh of the sidecar has not asked yet
    refreshing, \* a refresh is going on
    out,        \* its answers
    devices,    \* cache.devices of the sidecar
    pc,         \* where collectSmart is
    parsed,     \* the answers that it got
    table,      \* the disks table
    disks,      \* Collector.state.disks
    told,       \* history: the verdict each disk was last shown with and those since
    unstored    \* history: disks whose last verdict could not be stored

vars == <<health, asleep, changes, faults, todo, refreshing, out, devices, pc,
          parsed, table, disks, told, unstored>>

world     == <<health, asleep, changes>>
sidecar   == <<todo, refreshing, out, devices>>
collector == <<pc, parsed, table, disks, told, unstored>>

NoAnswers == [d \in Disks |-> "none"]

TypeOK ==
    /\ health \in [Disks -> Verdicts]
    /\ asleep \in SUBSET Disks
    /\ changes \in 0..MaxChanges
    /\ faults \in 0..MaxFaults
    /\ todo \in SUBSET Disks
    /\ refreshing \in BOOLEAN
    /\ out \in [Disks -> Answers]
    /\ devices \in [Disks -> Answers]
    /\ pc \in {"idle", "upsert", "merge"}
    /\ parsed \in [Disks -> Answers]
    /\ table \in [Disks -> Disk \cup {NoDisk}]
    /\ disks \in [Disks -> Disk \cup {NoDisk}]
    /\ told \in [Disks -> SUBSET Health]
    /\ unstored \in SUBSET Disks

\* Both programs start, with an empty database.
Init ==
    /\ health \in [Disks -> Verdicts]
    /\ asleep \in SUBSET Disks
    /\ changes = MaxChanges
    /\ faults = MaxFaults
    /\ todo = {}
    /\ refreshing = FALSE
    /\ out = NoAnswers
    /\ devices = NoAnswers
    /\ pc = "idle"
    /\ parsed = NoAnswers
    /\ table = [d \in Disks |-> NoDisk]
    /\ disks = [d \in Disks |-> NoDisk]
    /\ told = [d \in Disks |-> {"unknown"}]
    /\ unstored = {}

Fail(kind) == kind \in FaultKinds /\ faults > 0 /\ faults' = faults - 1

-----------------------------------------------------------------------------
(* The disks *)

Change == changes > 0 /\ changes' = changes - 1

\* A sector goes bad, or a pending one is written and is good again.
Turn(d) ==
    /\ Change
    /\ health' = [health EXCEPT ![d] = IF @ = "good" THEN "bad" ELSE "good"]
    /\ UNCHANGED <<asleep, faults, sidecar, collector>>

Sleep(d) ==
    /\ d \notin asleep
    /\ Change
    /\ asleep' = asleep \cup {d}
    /\ UNCHANGED <<health, faults, sidecar, collector>>

Wake(d) ==
    /\ d \in asleep
    /\ Change
    /\ asleep' = asleep \ {d}
    /\ UNCHANGED <<health, faults, sidecar, collector>>

-----------------------------------------------------------------------------
(* cache.refresh of the sidecar *)

Scan ==
    /\ ~refreshing
    /\ refreshing' = TRUE
    /\ todo' = Disks
    /\ out' = NoAnswers
    /\ UNCHANGED <<world, faults, devices, collector>>

\* smartctl -n standby does not wake a disk.
Query(d) ==
    /\ d \in todo
    /\ todo' = todo \ {d}
    /\ out' = [out EXCEPT ![d] = IF d \in asleep THEN "standby" ELSE health[d]]
    /\ UNCHANGED <<world, faults, refreshing, devices, collector>>

\* A disk that does not answer is left out; one that cannot be opened is taken
\* to be in standby.
QueryFails(d) ==
    /\ d \in todo
    /\ Fail("query")
    /\ todo' = todo \ {d}
    /\ \E answer \in {"none", "standby"} : out' = [out EXCEPT ![d] = answer]
    /\ UNCHANGED <<world, refreshing, devices, collector>>

\* faulty: a disk that is in the list already keeps its answer
PublishNew ==
    /\ refreshing
    /\ todo = {}
    /\ devices' = [d \in Disks |-> IF devices[d] = "none" THEN out[d] ELSE devices[d]]
    /\ refreshing' = FALSE
    /\ out' = NoAnswers
    /\ UNCHANGED <<world, faults, todo, collector>>

\* The answers take the place of those of the refresh before.
Publish ==
    /\ refreshing
    /\ todo = {}
    /\ devices' = out
    /\ refreshing' = FALSE
    /\ out' = NoAnswers
    /\ UNCHANGED <<world, faults, todo, collector>>

\* It serves an empty list until its first refresh is done.
SidecarRestarts ==
    /\ Fail("sidecar")
    /\ refreshing' = FALSE
    /\ todo' = {}
    /\ out' = NoAnswers
    /\ devices' = NoAnswers
    /\ UNCHANGED <<world, collector>>

-----------------------------------------------------------------------------
(* collectSmart *)

Awake(d) == parsed[d] \in Verdicts

Fetch ==
    /\ pc = "idle"
    /\ pc' = "upsert"
    /\ parsed' = devices
    /\ told' = [d \in Disks |-> told[d] \cup ({devices[d]} \cap Verdicts)]
    /\ UNCHANGED <<world, faults, sidecar, table, disks, unstored>>

\* faulty: a disk in standby overwrites what is known of it
Overwritten(d) ==
    CASE parsed[d] = "none"    -> table[d]
      [] parsed[d] = "standby" -> [health |-> "unknown", standby |-> TRUE]
      [] Awake(d)              -> [health |-> parsed[d], standby |-> FALSE]

\* The row of a disk after the upsert: in standby it keeps its attributes.
Upserted(d) ==
    CASE parsed[d] = "none"    -> table[d]
      [] parsed[d] = "standby" -> [health  |-> IF table[d] = NoDisk THEN "unknown" ELSE table[d].health,
                                   standby |-> TRUE]
      [] Awake(d)              -> [health |-> parsed[d], standby |-> FALSE]

\* UpsertDisks, one transaction.
Upsert ==
    /\ pc = "upsert"
    /\ pc' = "merge"
    /\ table' = [d \in Disks |-> Upserted(d)]
    /\ unstored' = {d \in unstored : ~Awake(d)}
    /\ UNCHANGED <<world, faults, sidecar, parsed, disks, told>>

\* The cycle goes on without it.
UpsertFails ==
    /\ pc = "upsert"
    /\ Fail("upsert")
    /\ pc' = "merge"
    /\ unstored' = unstored \cup {d \in Disks : Awake(d)}
    /\ UNCHANGED <<world, sidecar, parsed, table, disks, told>>

\* What is shown of a disk, with the row known for it if it is in standby.
Merged(d, row) ==
    CASE parsed[d] = "none"    -> NoDisk
      [] parsed[d] = "standby" -> [health |-> IF row = NoDisk THEN "unknown" ELSE row.health, standby |-> TRUE]
      [] Awake(d)              -> [health |-> parsed[d], standby |-> FALSE]

Show ==
    /\ pc' = "idle"
    /\ parsed' = NoAnswers
    /\ told' = [d \in Disks |-> CASE Awake(d)              -> {parsed[d]}
                                  [] parsed[d] = "standby" -> {Merged(d, table[d]).health}
                                  [] OTHER                 -> told[d]]

\* mergeStandby with the rows of the table.
Merge ==
    /\ pc = "merge"
    /\ Show
    /\ disks' = [d \in Disks |-> Merged(d, table[d])]
    /\ UNCHANGED <<world, faults, sidecar, table, unstored>>

\* They are read only if some disk is in standby. If that fails, a disk in
\* standby is shown without attributes.
MergeFails ==
    /\ pc = "merge"
    /\ \E d \in Disks : parsed[d] = "standby"
    /\ Fail("read")
    /\ Show
    /\ disks' = [d \in Disks |-> Merged(d, NoDisk)]
    /\ UNCHANGED <<world, sidecar, table, unstored>>

\* The sidecar does not answer in time: the disks in memory stay.
FetchFails ==
    /\ pc = "idle"
    /\ Fail("fetch")
    /\ UNCHANGED <<world, sidecar, collector>>

\* The dashboard ends and starts again, without disks until its next cycle.
Restart ==
    /\ Fail("restart")
    /\ pc' = "idle"
    /\ parsed' = NoAnswers
    /\ disks' = [d \in Disks |-> NoDisk]
    /\ UNCHANGED <<world, sidecar, table, told, unstored>>

-----------------------------------------------------------------------------

Refresh == Scan \/ (\E d \in Disks : Query(d)) \/ Publish
Cycle   == Fetch \/ Upsert \/ Merge

Next ==
    \/ \E d \in Disks : Turn(d) \/ Sleep(d) \/ Wake(d) \/ QueryFails(d)
    \/ Refresh
    \/ SidecarRestarts
    \/ Cycle
    \/ UpsertFails
    \/ MergeFails
    \/ FetchFails
    \/ Restart

Spec == Init /\ [][Next]_vars

\* The tickers of the sidecar and of the host loop go on.
Fairness == WF_vars(Refresh) /\ WF_vars(Cycle)

FairSpec == Spec /\ Fairness

-----------------------------------------------------------------------------
(* Properties *)

\* A disk in standby is shown with the verdict it was last shown with, or with
\* one that came since and was stored when the dashboard ended, whether or not
\* it was missing from the list or the dashboard was restarted in between. The
\* exceptions are a table that cannot be read, and a verdict it did not take.
StandbyKeepsVerdict ==
    [][\A d \in Disks :
          Merge /\ disks'[d] # NoDisk /\ disks'[d].standby /\ d \notin unstored =>
              disks'[d].health \in told[d]]_vars

\* When no disk changes and nothing fails any more, each disk is shown as it is,
\* and each in standby is shown as such, whatever was missed before.
ShownConverges ==
    <>[]\A d \in Disks : /\ disks[d] # NoDisk
                         /\ disks[d].standby <=> d \in asleep
                         /\ d \notin asleep => disks[d].health = health[d]
=============================================================================
