--------------------------- MODULE DiskHealthProofs ---------------------------
(* Theorems about DiskHealth for any disks and any number of failures, with  *)
(* machine-checked proofs.                                                   *)
(*                                                                           *)
(* The argument: the row of a disk holds a verdict that was told of it, and  *)
(* after the upsert it holds the one that the cycle has got, unless that     *)
(* verdict was not stored. So a disk that is shown from its row is shown     *)
(* with a verdict that was told.                                             *)
EXTENDS DiskHealth, TLAPS

\* The verdict that the row of a disk gives it in standby.
Known(d) == IF table[d] = NoDisk THEN "unknown" ELSE table[d].health

\* What a row says was told, and so is what a cycle has got.
RowWasTold    == \A d \in Disks : d \notin unstored => Known(d) \in told[d]
ParsedWasTold == \A d \in Disks : Awake(d) => parsed[d] \in told[d]

\* After the upsert the verdict that the cycle has got is in the row.
RowIsParsed ==
    pc = "merge" => \A d \in Disks : Awake(d) /\ d \notin unstored => Known(d) = parsed[d]

IInv == TypeOK /\ RowWasTold /\ ParsedWasTold /\ RowIsParsed

-----------------------------------------------------------------------------
(* Types *)

LEMMA NoAnswersType == NoAnswers \in [Disks -> Answers]
  BY DEF NoAnswers, Answers

LEMMA KnownType == ASSUME TypeOK, NEW d \in Disks PROVE Known(d) \in Health
  BY DEF TypeOK, Known, Disk, Health

LEMMA VerdictIsHealth == \A v \in Verdicts, b \in BOOLEAN : [health |-> v, standby |-> b] \in Disk
  BY DEF Disk, Health

LEMMA UpsertedType == ASSUME TypeOK, NEW d \in Disks PROVE Upserted(d) \in Disk \cup {NoDisk}
<1>1. parsed[d] \in Answers /\ table[d] \in Disk \cup {NoDisk}
  BY DEF TypeOK
<1>2. CASE parsed[d] = "none"
  BY <1>1, <1>2 DEF Upserted, Awake, Verdicts
<1>3. CASE parsed[d] = "standby"
  <2>1. Upserted(d) = [health |-> Known(d), standby |-> TRUE]
    BY <1>3 DEF Upserted, Known, Awake, Verdicts
  <2> QED
    BY <2>1, KnownType DEF Disk
<1>4. CASE Awake(d)
  <2>1. Upserted(d) = [health |-> parsed[d], standby |-> FALSE]
    BY <1>4 DEF Upserted, Awake, Verdicts
  <2> QED
    BY <2>1, <1>4, VerdictIsHealth DEF Awake
<1> QED
  BY <1>1, <1>2, <1>3, <1>4 DEF Answers, Awake

LEMMA MergedType ==
    ASSUME TypeOK, NEW d \in Disks, NEW row \in Disk \cup {NoDisk}
    PROVE  Merged(d, row) \in Disk \cup {NoDisk}
<1>1. parsed[d] \in Answers
  BY DEF TypeOK
<1>2. CASE parsed[d] = "none"
  BY <1>2 DEF Merged, Awake, Verdicts
<1>3. CASE parsed[d] = "standby"
  <2> DEFINE h == IF row = NoDisk THEN "unknown" ELSE row.health
  <2>1. Merged(d, row) = [health |-> h, standby |-> TRUE]
    BY <1>3 DEF Merged, Awake, Verdicts
  <2>2. h \in Health
    BY DEF Disk, Health
  <2> QED
    BY <2>1, <2>2 DEF Disk
<1>4. CASE Awake(d)
  <2>1. Merged(d, row) = [health |-> parsed[d], standby |-> FALSE]
    BY <1>4 DEF Merged, Awake, Verdicts
  <2> QED
    BY <2>1, <1>4, VerdictIsHealth DEF Awake
<1> QED
  BY <1>1, <1>2, <1>3, <1>4 DEF Answers, Awake

LEMMA FailType == ASSUME TypeOK, NEW k, Fail(k) PROVE faults' \in 0..MaxFaults
  BY DiskAssumption DEF TypeOK, Fail

\* What a cycle tells at its end.
LEMMA ShowTold ==
    ASSUME TypeOK, Show, NEW d \in Disks
    PROVE  /\ Awake(d) => told'[d] = {parsed[d]}
           /\ parsed[d] = "standby" => told'[d] = {Known(d)}
           /\ parsed[d] = "none" => told'[d] = told[d]
           /\ told'[d] \in SUBSET Health
<1>1. Awake(d) => told'[d] = {parsed[d]}
  BY DEF Show, Awake, Verdicts
<1>2. parsed[d] = "standby" => told'[d] = {Known(d)}
  <2> SUFFICES ASSUME parsed[d] = "standby" PROVE told'[d] = {Known(d)}
    OBVIOUS
  <2>1. told'[d] = {Merged(d, table[d]).health}
    BY DEF Show, Awake, Verdicts
  <2>2. Merged(d, table[d]) = [health |-> Known(d), standby |-> TRUE]
    BY DEF Merged, Known, Awake, Verdicts
  <2> QED
    BY <2>1, <2>2
<1>3. parsed[d] = "none" => told'[d] = told[d]
  BY DEF Show, Awake, Verdicts
<1>4. parsed[d] \in Answers /\ told[d] \in SUBSET Health
  BY DEF TypeOK
<1>5. told'[d] \in SUBSET Health
  BY <1>1, <1>2, <1>3, <1>4, KnownType DEF Answers, Awake, Health
<1> QED
  BY <1>1, <1>2, <1>3, <1>5

LEMMA InitInvariant == Init => IInv
<1> SUFFICES ASSUME Init PROVE IInv
  OBVIOUS
<1>1. TypeOK
  <2>1. changes \in 0..MaxChanges /\ faults \in 0..MaxFaults
    BY DiskAssumption DEF Init
  <2>2. out \in [Disks -> Answers] /\ devices \in [Disks -> Answers] /\ parsed \in [Disks -> Answers]
    BY NoAnswersType DEF Init
  <2>3. table \in [Disks -> Disk \cup {NoDisk}] /\ disks \in [Disks -> Disk \cup {NoDisk}]
    BY DEF Init
  <2>4. told \in [Disks -> SUBSET Health]
    BY DEF Init, Health
  <2> QED
    BY <2>1, <2>2, <2>3, <2>4 DEF Init, TypeOK
<1>2. RowWasTold /\ ParsedWasTold /\ RowIsParsed
  BY DEF Init, RowWasTold, Known, ParsedWasTold, RowIsParsed, Awake, NoAnswers, Verdicts
<1> QED
  BY <1>1, <1>2 DEF IInv

-----------------------------------------------------------------------------
(* Steps *)

\* The disks and the sidecar: the collector does not notice.
LEMMA OutsideStep ==
    ASSUME IInv, UNCHANGED collector,
           health' \in [Disks -> Verdicts], asleep' \in SUBSET Disks,
           changes' \in 0..MaxChanges, faults' \in 0..MaxFaults,
           todo' \in SUBSET Disks, refreshing' \in BOOLEAN,
           out' \in [Disks -> Answers], devices' \in [Disks -> Answers]
    PROVE  IInv'
<1>1. TypeOK'
  BY DEF IInv, TypeOK, collector
<1>2. RowWasTold' /\ ParsedWasTold' /\ RowIsParsed'
  BY DEF IInv, RowWasTold, Known, ParsedWasTold, RowIsParsed, Awake, collector
<1> QED
  BY <1>1, <1>2 DEF IInv

LEMMA WorldStep ==
    ASSUME IInv, NEW d \in Disks, Turn(d) \/ Sleep(d) \/ Wake(d)
    PROVE  IInv'
<1>1. health' \in [Disks -> Verdicts] /\ asleep' \in SUBSET Disks
  BY DEF IInv, TypeOK, Verdicts, Turn, Sleep, Wake
<1>2. changes' \in 0..MaxChanges
  BY DiskAssumption DEF IInv, TypeOK, Turn, Sleep, Wake, Change
<1> QED
  BY <1>1, <1>2, OutsideStep DEF IInv, TypeOK, Turn, Sleep, Wake, sidecar

LEMMA SidecarStep ==
    ASSUME IInv, Refresh \/ SidecarRestarts \/ FetchFails \/ \E d \in Disks : QueryFails(d)
    PROVE  IInv'
<1>1. CASE Scan \/ Publish
  BY <1>1, NoAnswersType, OutsideStep DEF IInv, TypeOK, Scan, Publish, world
<1>2. ASSUME NEW d \in Disks, Query(d) PROVE IInv'
  <2>1. (IF d \in asleep THEN "standby" ELSE health[d]) \in Answers
    BY DEF IInv, TypeOK, Answers
  <2>2. out' \in [Disks -> Answers]
    BY <1>2, <2>1 DEF IInv, TypeOK, Query
  <2> QED
    BY <1>2, <2>2, OutsideStep DEF IInv, TypeOK, Query, world
<1>3. ASSUME NEW d \in Disks, QueryFails(d) PROVE IInv'
  <2>1. faults' \in 0..MaxFaults
    BY <1>3, FailType DEF IInv, QueryFails
  <2>2. out' \in [Disks -> Answers]
    BY <1>3 DEF IInv, TypeOK, QueryFails, Answers
  <2> QED
    BY <1>3, <2>1, <2>2, OutsideStep DEF IInv, TypeOK, QueryFails, world
<1>4. CASE SidecarRestarts \/ FetchFails
  <2>1. faults' \in 0..MaxFaults
    BY <1>4, FailType DEF IInv, SidecarRestarts, FetchFails
  <2> QED
    BY <1>4, <2>1, NoAnswersType, OutsideStep
       DEF IInv, TypeOK, SidecarRestarts, FetchFails, world, sidecar
<1> QED
  BY <1>1, <1>2, <1>3, <1>4 DEF Refresh

LEMMA FetchStep == ASSUME IInv, Fetch PROVE IInv'
<1> USE DEF world, sidecar
<1>1. /\ parsed' = devices /\ table' = table /\ unstored' = unstored /\ pc' = "upsert"
      /\ \A d \in Disks : told'[d] = told[d] \cup ({devices[d]} \cap Verdicts)
  BY DEF Fetch
<1>2. told' \in [Disks -> SUBSET Health]
  BY DEF Fetch, IInv, TypeOK, Health
<1>3. TypeOK'
  BY <1>2 DEF Fetch, IInv, TypeOK
<1>4. RowWasTold' /\ ParsedWasTold' /\ RowIsParsed'
  BY <1>1 DEF IInv, RowWasTold, Known, ParsedWasTold, RowIsParsed, Awake
<1> QED
  BY <1>3, <1>4 DEF IInv

LEMMA UpsertStep == ASSUME IInv, Upsert PROVE IInv'
<1> USE DEF world, sidecar
<1>1. /\ parsed' = parsed /\ told' = told /\ pc' = "merge"
      /\ table' = [d \in Disks |-> Upserted(d)]
      /\ unstored' = {d \in unstored : ~Awake(d)}
  BY DEF Upsert
<1>2. table' \in [Disks -> Disk \cup {NoDisk}]
  BY <1>1, UpsertedType DEF IInv
<1>3. TypeOK'
  BY <1>1, <1>2 DEF Upsert, IInv, TypeOK
<1>4. ASSUME NEW d \in Disks
      PROVE  Known(d)' = IF Awake(d) THEN parsed[d] ELSE Known(d)
  <2>1. parsed[d] \in Answers /\ table'[d] = Upserted(d)
    BY <1>1 DEF IInv, TypeOK
  <2>2. CASE parsed[d] = "none"
    BY <2>1, <2>2 DEF Upserted, Known, Awake, Verdicts
  <2>3. CASE parsed[d] = "standby"
    <3>1. table'[d] = [health |-> Known(d), standby |-> TRUE]
      BY <2>1, <2>3 DEF Upserted, Known, Awake, Verdicts
    <3> QED
      BY <2>3, <3>1 DEF Known, Awake, Verdicts, NoDisk
  <2>4. CASE Awake(d)
    <3>1. table'[d] = [health |-> parsed[d], standby |-> FALSE]
      BY <2>1, <2>4 DEF Upserted, Awake, Verdicts
    <3> QED
      BY <2>4, <3>1 DEF Known, NoDisk
  <2> QED
    BY <2>1, <2>2, <2>3, <2>4 DEF Answers, Awake
<1>5. RowWasTold'
  BY <1>1, <1>4 DEF IInv, RowWasTold, ParsedWasTold
<1>6. ParsedWasTold'
  BY <1>1 DEF IInv, ParsedWasTold, Awake
<1>7. RowIsParsed'
  <2> SUFFICES ASSUME NEW d \in Disks, Awake(d)' PROVE Known(d)' = parsed'[d]
    BY DEF RowIsParsed
  <2> QED
    BY <1>1, <1>4 DEF Awake
<1> QED
  BY <1>3, <1>5, <1>6, <1>7 DEF IInv

LEMMA UpsertFailsStep == ASSUME IInv, UpsertFails PROVE IInv'
<1> USE DEF world, sidecar
<1>1. /\ parsed' = parsed /\ told' = told /\ table' = table
      /\ unstored' = unstored \cup {d \in Disks : Awake(d)}
  BY DEF UpsertFails
<1>2. faults' \in 0..MaxFaults
  BY FailType DEF IInv, UpsertFails
<1>3. TypeOK'
  BY <1>1, <1>2 DEF UpsertFails, IInv, TypeOK
<1>4. RowWasTold' /\ ParsedWasTold' /\ RowIsParsed'
  BY <1>1 DEF IInv, RowWasTold, Known, ParsedWasTold, RowIsParsed, Awake
<1> QED
  BY <1>3, <1>4 DEF IInv

LEMMA MergeStep == ASSUME IInv, Merge \/ MergeFails PROVE IInv'
<1> USE DEF world, sidecar
<1>1. /\ pc = "merge" /\ pc' = "idle" /\ parsed' = NoAnswers /\ Show
      /\ table' = table /\ unstored' = unstored
  BY DEF Merge, MergeFails, Show
<1>2. faults' \in 0..MaxFaults
  BY FailType DEF IInv, TypeOK, Merge, MergeFails
<1>3. disks' \in [Disks -> Disk \cup {NoDisk}]
  <2>1. CASE Merge
    <3>1. \A d \in Disks : table[d] \in Disk \cup {NoDisk}
      BY DEF IInv, TypeOK
    <3> QED
      BY <2>1, <3>1, MergedType DEF IInv, Merge
  <2>2. CASE MergeFails
    BY <2>2, MergedType DEF IInv, MergeFails
  <2> QED
    BY <2>1, <2>2
<1>4. told' \in [Disks -> SUBSET Health]
  <2>1. \A d \in Disks : told'[d] \in SUBSET Health
    BY <1>1, ShowTold DEF IInv
  <2> QED
    BY <1>1, <2>1 DEF Show
<1>5. TypeOK'
  BY <1>1, <1>2, <1>3, <1>4, NoAnswersType DEF Merge, MergeFails, IInv, TypeOK
<1>6. RowWasTold'
  <2> SUFFICES ASSUME NEW d \in Disks, d \notin unstored PROVE Known(d) \in told'[d]
    BY <1>1 DEF RowWasTold, Known
  <2>1. Awake(d) => Known(d) = parsed[d]
    BY <1>1 DEF IInv, RowIsParsed
  <2>2. Known(d) \in told[d] /\ parsed[d] \in Answers
    BY DEF IInv, TypeOK, RowWasTold
  <2> QED
    BY <1>1, <2>1, <2>2, ShowTold DEF IInv, Answers, Awake
<1>7. ParsedWasTold' /\ RowIsParsed'
  BY <1>1 DEF ParsedWasTold, RowIsParsed, Awake, NoAnswers, Verdicts
<1> QED
  BY <1>5, <1>6, <1>7 DEF IInv

LEMMA RestartStep == ASSUME IInv, Restart PROVE IInv'
<1> USE DEF world, sidecar
<1>1. faults' \in 0..MaxFaults
  BY FailType DEF IInv, Restart
<1>2. TypeOK'
  BY <1>1, NoAnswersType DEF Restart, IInv, TypeOK
<1>3. RowWasTold' /\ ParsedWasTold' /\ RowIsParsed'
  BY DEF Restart, IInv, RowWasTold, Known, ParsedWasTold, RowIsParsed, Awake, NoAnswers, Verdicts
<1> QED
  BY <1>2, <1>3 DEF IInv

LEMMA NextInvariant == IInv /\ [Next]_vars => IInv'
<1> SUFFICES ASSUME IInv, [Next]_vars PROVE IInv'
  OBVIOUS
<1>1. CASE Next
  BY <1>1, WorldStep, SidecarStep, FetchStep, UpsertStep, UpsertFailsStep, MergeStep, RestartStep
     DEF Next, Cycle
<1>2. CASE UNCHANGED vars
  BY <1>2, OutsideStep DEF IInv, TypeOK, vars, collector
<1> QED
  BY <1>1, <1>2

\* The inductive invariant holds.
THEOREM Invariance == Spec => []IInv
BY InitInvariant, NextInvariant, PTL DEF Spec

\* Every state of disks, sidecar, collector and table is well-typed.
THEOREM TypeCorrect == Spec => []TypeOK
<1>1. IInv => TypeOK
  BY DEF IInv
<1> QED
  BY <1>1, Invariance, PTL

\* A disk in standby keeps the verdict that was told of it, through restarts,
\* lost answers and any number of cycles in which it was missing.
THEOREM StandbyKeeps == Spec => StandbyKeepsVerdict
<1> DEFINE Kept(d) == Merge /\ disks'[d] # NoDisk /\ disks'[d].standby /\ d \notin unstored =>
                          disks'[d].health \in told[d]
<1>1. ASSUME IInv, NEW d \in Disks PROVE Kept(d)
  <2> SUFFICES ASSUME Merge, disks'[d] # NoDisk, disks'[d].standby, d \notin unstored
               PROVE  disks'[d].health \in told[d]
    OBVIOUS
  <2>1. disks'[d] = Merged(d, table[d]) /\ parsed[d] \in Answers
    BY <1>1 DEF Merge, IInv, TypeOK
  <2>2. parsed[d] = "standby"
    BY <2>1 DEF Merged, Awake, Answers, NoDisk, Verdicts
  <2>3. Merged(d, table[d]) = [health |-> Known(d), standby |-> TRUE]
    BY <2>2 DEF Merged, Known, Awake, Verdicts
  <2> QED
    BY <1>1, <2>1, <2>3 DEF IInv, RowWasTold
<1>2. IInv /\ [Next]_vars => [\A d \in Disks : Kept(d)]_vars
  BY <1>1, Zenon
<1> QED
  BY <1>2, Invariance, PTL DEF Spec, StandbyKeepsVerdict
=============================================================================
