-------------------------- MODULE AlertEngineProofs --------------------------
(* What holds of AlertEngine for every set of rules, loops and delays, every *)
(* queue length and every number of failures; and of AlertHistory, which     *)
(* watches it.                                                               *)
EXTENDS AlertHistory, SequenceTheorems, TLAPS

\* The rows of the alerts table are rows, whatever their number.
LEMMA RowType ==
    ASSUME TypeOK, NEW n \in DOMAIN alerts
    PROVE  alerts[n] \in Row
  BY DEF TypeOK

\* Ages stay ages.
LEMMA OlderType ==
    ASSUME NEW t \in Time
    PROVE  Older(t) \in Time
  BY EngineAssumption DEF Older, Time, Never

\* Reading a clock gives an age.
LEMMA LagIsTime ==
    ASSUME TypeOK, NEW e \in Evaluators, NEW k \in Keys
    PROVE  /\ lag[e] \in Time
           /\ PendingSince(e, k) \in Time
           /\ ClearSince(e, k) \in Time
<1>1. 0..MaxLag \subseteq Time
  BY EngineAssumption DEF Time, Never
<1>2. lag[e] \in Time
  BY <1>1 DEF TypeOK
<1> QED
  BY <1>2 DEF TypeOK, PendingSince, ClearSince, Track

\* Type correctness of the initial state.
LEMMA TypeInit == Init => TypeOK
<1> SUFFICES ASSUME Init PROVE TypeOK
  OBVIOUS
<1>1. NoTrack \in Track
  BY EngineAssumption DEF NoTrack, Track, Time, Never
<1>2. Idle \in Courier
  BY EngineAssumption DEF Idle, Courier, Nothing, Resolved, Message
<1> QED
  BY <1>1, <1>2, EngineAssumption DEF Init, TypeOK, Level, Stage, AllClear
 
\* Type correctness is preserved by the passing of time.
LEMMA TypeTick == TypeOK /\ Tick => TypeOK'
<1> SUFFICES ASSUME TypeOK, Tick PROVE TypeOK'
  OBVIOUS
<1>1. tracks' \in [Keys -> Track]
  BY OlderType DEF TypeOK, Tick, Track
<1>2. alerts' \in Seq(Row)
  <2>1. \A n \in DOMAIN alerts : alerts'[n] \in Row
    BY RowType, OlderType DEF Tick, Row
  <2>2. DOMAIN alerts = 1..Len(alerts) /\ Len(alerts) \in Nat
    BY DEF TypeOK
  <2>3. alerts' = [n \in 1..Len(alerts) |-> alerts'[n]]
    BY <2>2 DEF Tick
  <2> QED
    BY <2>1, <2>2, <2>3
<1>3. lag' \in [Evaluators -> 0..MaxLag]
  <2>1. ASSUME NEW e \in Evaluators
        PROVE  lag'[e] \in 0..MaxLag
    <3>1. lag[e] \in 0..MaxLag /\ lag'[e] = IF pc[e] \in {"timed", "evaluating"} THEN lag[e] + 1 ELSE lag[e]
      BY DEF TypeOK, Tick
    <3>2. pc[e] \in {"timed", "evaluating"} => lag[e] < MaxLag
      BY DEF Tick
    <3> QED
      BY <3>1, <3>2, EngineAssumption
  <2> QED
    BY <2>1 DEF Tick
<1> QED
  BY <1>1, <1>2, <1>3 DEF TypeOK, Tick, world, delivery

\* A failure is taken from the bound on failures.
LEMMA TypeFault ==
    ASSUME TypeOK, NEW kind, Fault(kind)
    PROVE  faults' \in 0..MaxFaults
  BY EngineAssumption DEF Fault, TypeOK

\* Type correctness is preserved by the environment and by whatever an
\* evaluator does outside the loop over the keys.
LEMMA TypePrepare ==
    ASSUME TypeOK,
           \/ \E k \in Keys : Flip(k)
           \/ \E e \in Evaluators : Prepare(e) \/ CountFails(e) \/ Lock(e) \/ Unlock(e)
    PROVE  TypeOK'
<1>1. ASSUME NEW k \in Keys, Flip(k) PROVE TypeOK'
  <2>1. flips' \in 0..MaxFlips
    BY <1>1, EngineAssumption DEF Flip, TypeOK
  <2>2. level' \in [Keys -> Level]
    <3>1. LevelOf(k) \subseteq Level
      BY DEF LevelOf, Level
    <3>2. PICK l \in LevelOf(k) : level' = [level EXCEPT ![k] = l]
      BY <1>1 DEF Flip
    <3> QED
      BY <3>1, <3>2 DEF TypeOK
  <2> QED
    BY <1>1, <2>1, <2>2 DEF Flip, TypeOK, eval, delivery
<1>2. ASSUME NEW e \in Evaluators, TakeSnapshot(e) PROVE TypeOK'
  <2>1. [j \in Keys |-> IF j \in RestartKeys THEN "clear" ELSE level[j]] \in [Keys -> Level]
    BY DEF TypeOK, Level
  <2>2. snap' \in [Evaluators -> [Keys -> Level]] /\ pc' \in [Evaluators -> Stage]
    BY <1>2, <2>1 DEF TakeSnapshot, TypeOK, Stage
  <2> QED
    BY <1>2, <2>2 DEF TakeSnapshot, TypeOK, world, delivery
<1>3. ASSUME NEW e \in Evaluators, CountRestarts(e) PROVE TypeOK'
  <2>1. [j \in Keys |-> IF j \in RestartKeys THEN level[j] ELSE snap[e][j]] \in [Keys -> Level]
    BY DEF TypeOK
  <2>2. snap' \in [Evaluators -> [Keys -> Level]] /\ pc' \in [Evaluators -> Stage]
    BY <1>3, <2>1 DEF CountRestarts, TypeOK, Stage
  <2> QED
    BY <1>3, <2>2 DEF CountRestarts, TypeOK, world, delivery
<1>4. ASSUME NEW e \in Evaluators, ReadClock(e) PROVE TypeOK'
  BY <1>4 DEF ReadClock, TypeOK, Stage, world, delivery
<1>5. ASSUME NEW e \in Evaluators, CountFails(e) PROVE TypeOK'
  BY <1>5, TypeFault DEF CountFails, TypeOK, Stage, world, delivery
<1>6. ASSUME NEW e \in Evaluators, Lock(e) PROVE TypeOK'
  BY <1>6 DEF Lock, TypeOK, Stage, world, delivery
<1>7. ASSUME NEW e \in Evaluators, Unlock(e) PROVE TypeOK'
  BY <1>7, EngineAssumption DEF Unlock, TypeOK, Stage, AllClear, Level, world, delivery
<1> QED
  BY <1>1, <1>2, <1>3, <1>4, <1>5, <1>6, <1>7 DEF Prepare

\* What a step of the loop over the keys leaves alone keeps its type.
LEMMA TypeTurn ==
    ASSUME TypeOK, NEW e \in Evaluators, NEW k \in Keys, Turn(e, k),
           faults' \in 0..MaxFaults, tracks' \in [Keys -> Track],
           alerts' \in Seq(Row), queue' \in Seq(Message)
    PROVE  TypeOK'
  BY DEF Turn, TypeOK, world, delivery

\* A notice that finds room joins the queue.
LEMMA TypeEnqueue ==
    ASSUME TypeOK, NEW msg \in Message, Enqueue(msg)
    PROVE  queue' \in Seq(Message)
  BY DEF Enqueue, TypeOK

\* Closing a row keeps the table a table.
LEMMA TypeResolveRow ==
    ASSUME TypeOK, NEW n, ResolveRow(n)
    PROVE  /\ alerts' \in Seq(Row)
           /\ Len(alerts') = Len(alerts)
           /\ DOMAIN alerts' = DOMAIN alerts
           /\ \A m \in DOMAIN alerts :
                 /\ alerts'[m].key = alerts[m].key
                 /\ alerts'[m].notified = alerts[m].notified
                 /\ alerts'[m].state = IF m = n THEN "resolved" ELSE alerts[m].state
<1>0. alerts \in Seq(Row) /\ DOMAIN alerts = 1..Len(alerts) /\ Len(alerts) \in Nat
  BY DEF TypeOK
<1>1. CASE n \in DOMAIN alerts /\ IsFiring(n)
  <2>1. alerts' = [alerts EXCEPT ![n] = [alerts[n] EXCEPT !.state = "resolved", !.fired = Never]]
    BY <1>1 DEF ResolveRow
  <2>2. [alerts[n] EXCEPT !.state = "resolved", !.fired = Never] \in Row
    <3>1. alerts[n] \in Row /\ Never \in Time
      BY <1>1, RowType, EngineAssumption DEF Time, Never
    <3> QED
      BY <3>1 DEF Row
  <2>3. \A m \in DOMAIN alerts : alerts[m] \in Row
    BY RowType
  <2>4. alerts' \in Seq(Row) /\ Len(alerts') = Len(alerts) /\ DOMAIN alerts' = DOMAIN alerts
    BY <1>0, <1>1, <2>1, <2>2, ExceptSeq
  <2> QED
    BY <1>1, <2>1, <2>3, <2>4 DEF Row
<1>2. CASE ~(n \in DOMAIN alerts /\ IsFiring(n))
  <2>1. alerts' = alerts
    BY <1>2 DEF ResolveRow
  <2>2. \A m \in DOMAIN alerts : alerts[m].state \in {"firing", "resolved"}
    BY RowType DEF Row
  <2> QED
    BY <1>0, <1>2, <2>1, <2>2 DEF IsFiring
<1> QED
  BY <1>1, <1>2

\* Type correctness is preserved by Engine.Evaluate's loops.
LEMMA TypeEvaluate ==
    ASSUME TypeOK, NEW e \in Evaluators, NEW k \in Keys, EvaluateKey(e, k)
    PROVE  TypeOK'
<1>0. /\ Never \in Time /\ NoTrack \in Track /\ Len(alerts) \in Nat
      /\ tracks \in [Keys -> Track] /\ alerts \in Seq(Row) /\ queue \in Seq(Message)
      /\ faults \in 0..MaxFaults
  BY EngineAssumption DEF TypeOK, NoTrack, Track, Time, Never
<1>a. /\ lag[e] \in Time /\ PendingSince(e, k) \in Time /\ ClearSince(e, k) \in Time
  BY LagIsTime
<1>b. tracks[k] \in Track
  BY <1>0
<1>1. CASE KeepFiring(e, k)
  BY <1>0, <1>1, TypeTurn DEF KeepFiring, Track
<1>2. CASE Hold(e, k)
  BY <1>0, <1>a, <1>2, TypeTurn DEF Hold, Track
<1>3. CASE Fire(e, k)
  <2>1. tracks' \in [Keys -> Track]
    BY <1>0, <1>a, <1>3 DEF Fire, Track
  <2>2. alerts' \in Seq(Row)
    BY <1>0, <1>a, <1>3 DEF Fire, Row
  <2>3. Firing(Len(alerts) + 1) \in Message
    BY <1>0 DEF Firing, Message
  <2>4. queue' \in Seq(Message)
    BY <1>3, <2>3, TypeEnqueue DEF Fire
  <2> QED
    BY <1>0, <1>3, <2>1, <2>2, <2>4, TypeTurn DEF Fire
<1>4. CASE FireFails(e, k)
  BY <1>0, <1>a, <1>4, TypeTurn, TypeFault DEF FireFails, Track
<1>5. CASE Forget(e, k)
  BY <1>0, <1>5, TypeTurn DEF Forget
<1>6. CASE Settle(e, k)
  BY <1>0, <1>a, <1>6, TypeTurn DEF Settle, Track
<1>7. CASE Resolve(e, k)
  <2>1. Resolved(tracks[k].id) \in Message
    BY <1>b DEF Resolved, Message, Track
  <2>2. queue' \in Seq(Message)
    BY <1>7, <2>1, TypeEnqueue DEF Resolve
  <2>3. alerts' \in Seq(Row)
    BY <1>7, TypeResolveRow DEF Resolve
  <2> QED
    BY <1>0, <1>7, <2>2, <2>3, TypeTurn DEF Resolve
<1>8. CASE ResolveFails(e, k)
  BY <1>0, <1>a, <1>8, TypeTurn, TypeFault DEF ResolveFails, Track
<1> QED
  BY <1>1, <1>2, <1>3, <1>4, <1>5, <1>6, <1>7, <1>8 DEF EvaluateKey

\* The delivering goroutine's next attempt keeps its type.
LEMMA TypeNextTry ==
    ASSUME TypeOK, courier.stage = "sending", NextTry
    PROVE  courier' \in Courier
<1>1. /\ courier \in Courier
      /\ courier.tries \in 0..(MaxTries - 1)
      /\ MaxTries \in Nat \ {0}
  BY EngineAssumption DEF TypeOK, Courier
<1>2. Idle \in Courier
  BY EngineAssumption DEF Idle, Courier, Nothing, Resolved, Message
<1>3. CASE courier.tries + 1 = MaxTries
  BY <1>2, <1>3 DEF NextTry
<1>4. CASE courier.tries + 1 # MaxTries
  <2>1. courier.tries + 1 \in 0..(MaxTries - 1)
    BY <1>1, <1>4
  <2>2. courier' = [courier EXCEPT !.tries = courier.tries + 1]
    BY <1>4 DEF NextTry
  <2> QED
    BY <1>1, <2>1, <2>2 DEF Courier
<1> QED
  BY <1>3, <1>4

\* Type correctness is preserved by Engine.Run and Engine.deliver.
LEMMA TypeDeliver ==
    ASSUME TypeOK, Deliver \/ MarkFails \/ SendRefused \/ AnswerLost
    PROVE  TypeOK'
<1>0. /\ Idle \in Courier /\ courier \in Courier /\ queue \in Seq(Message)
      /\ courier.msg \in Message /\ MaxTries \in Nat \ {0}
  BY EngineAssumption DEF TypeOK, Idle, Courier, Nothing, Resolved, Message
<1>1. CASE Dequeue
  <2>1. Head(queue) \in Message /\ Tail(queue) \in Seq(Message)
    BY <1>0, <1>1, HeadTailProperties DEF Dequeue
  <2>2. courier' \in Courier
    BY <1>0, <1>1, <2>1 DEF Dequeue, Courier
  <2> QED
    BY <1>1, <2>1, <2>2 DEF Dequeue, TypeOK, world, eval
<1>2. CASE SendOk
  <2>1. courier' \in Courier
    BY <1>0, <1>2 DEF SendOk, Courier
  <2> QED
    BY <1>0, <1>2, <2>1 DEF SendOk, TypeOK, world, eval
<1>3. CASE Mark
  <2>1. alerts' \in Seq(Row)
    <3>1. CASE courier.msg.alert \in DOMAIN alerts
      <4>1. alerts' = [alerts EXCEPT ![courier.msg.alert] =
                         [alerts[courier.msg.alert] EXCEPT !.notified = TRUE]]
        BY <1>3 DEF Mark
      <4>2. alerts[courier.msg.alert] \in Row
        BY <3>1, RowType
      <4>3. [alerts[courier.msg.alert] EXCEPT !.notified = TRUE] \in Row
        BY <4>2 DEF Row
      <4>4. alerts \in Seq(Row) /\ courier.msg.alert \in 1..Len(alerts)
        BY <3>1 DEF TypeOK
      <4> QED
        BY <4>1, <4>3, <4>4, ExceptSeq
    <3>2. CASE courier.msg.alert \notin DOMAIN alerts
      <4>1. alerts' = alerts
        BY <1>3, <3>2 DEF Mark, TypeOK
      <4> QED
        BY <4>1 DEF TypeOK
    <3> QED
      BY <3>1, <3>2
  <2> QED
    BY <1>0, <1>3, <2>1 DEF Mark, TypeOK, world, eval
<1>4. CASE MarkFails
  BY <1>0, <1>4, TypeFault DEF MarkFails, TypeOK, world, eval
<1>5. CASE SendRefused
  BY <1>0, <1>5, TypeFault, TypeNextTry DEF SendRefused, TypeOK, world, eval
<1>6. CASE AnswerLost
  BY <1>0, <1>6, TypeFault, TypeNextTry DEF AnswerLost, TypeOK, world, eval
<1> QED
  BY <1>1, <1>2, <1>3, <1>4, <1>5, <1>6 DEF Deliver

\* A track that was read back from a firing row is a track.
LEMMA RestoredType ==
    ASSUME TypeOK, NEW n \in DOMAIN alerts
    PROVE  RestoredTrack(n) \in Track /\ RestoredTrack(n).id = n
<1>1. alerts[n].fired \in Time
  BY RowType DEF Row
<1>2. NoTrack \in Track
  BY EngineAssumption DEF NoTrack, Track, Time, Never
<1>3. n \in Nat
  BY DEF TypeOK
<1> QED
  BY <1>1, <1>2, <1>3 DEF RestoredTrack, NoTrack, Track

\* Type correctness is preserved by a kill and by both ways to start.
LEMMA TypeCrash ==
    ASSUME TypeOK, Crash \/ Restart
    PROVE  TypeOK'
<1>0. NoTrack \in Track /\ Idle \in Courier /\ <<>> \in Seq(Message)
  BY EngineAssumption
     DEF NoTrack, Track, Time, Never, Idle, Courier, Nothing, Resolved, Message
<1>1. CASE Crash
  <2>1. faults' \in 0..MaxFaults
    BY <1>1, TypeFault DEF Crash
  <2>2. /\ pc' \in [Evaluators -> Stage]
        /\ snap' \in [Evaluators -> [Keys -> Level]]
        /\ lag' \in [Evaluators -> 0..MaxLag]
    BY <1>1, EngineAssumption DEF Crash, Stage, AllClear, Level
  <2> QED
    BY <1>0, <1>1, <2>1, <2>2 DEF Crash, TypeOK, world
<1>2. CASE Restart /\ Restored
  <2>1. PICK row \in [Keys -> 0..Len(alerts)] :
          tracks' = [k \in Keys |-> IF row[k] = 0 THEN NoTrack ELSE RestoredTrack(row[k])]
    BY <1>2 DEF Restart, Restored
  <2>2. ASSUME NEW k \in Keys, row[k] # 0 PROVE RestoredTrack(row[k]) \in Track
    <3>1. row[k] \in DOMAIN alerts
      BY <2>2 DEF TypeOK
    <3> QED
      BY <3>1, RestoredType
  <2>3. tracks' \in [Keys -> Track]
    BY <1>0, <2>1, <2>2
  <2> QED
    BY <1>2, <2>3 DEF Restart, TypeOK, world, eval, delivery
<1>3. CASE Restart /\ Unrestored
  BY <1>3 DEF Restart, Unrestored, TypeOK, world, eval, delivery
<1> QED
  BY <1>1, <1>2, <1>3 DEF Restart

\* Type correctness is preserved by every step.
LEMMA TypeNext == TypeOK /\ [Next]_vars => TypeOK'
<1> SUFFICES ASSUME TypeOK, [Next]_vars PROVE TypeOK'
  OBVIOUS
<1>1. CASE UNCHANGED vars
  BY <1>1 DEF TypeOK, vars
<1>2. CASE Next
  BY <1>2, TypeTick, TypePrepare, TypeEvaluate, TypeDeliver, TypeCrash DEF Next, Step
<1> QED
  BY <1>1, <1>2

\* Type correctness of the engine, the alerts table and the delivery.
THEOREM TypeCorrect == Spec => []TypeOK
<1> QED
  BY TypeInit, TypeNext, PTL DEF Spec

-----------------------------------------------------------------------------
(* The table and the tracks.  OneFiringRow is not inductive as it stands: a  *)
(* row may only be added for a key whose track has no id, so the tracks must *)
(* know every firing row while the engine runs, and a killed engine must not *)
(* evaluate.                                                                 *)

DownIsQuiet ==
    ~up => /\ lock = NoOne
           /\ \A e \in Evaluators : pc[e] = "idle"
           /\ tracks = [k \in Keys |-> NoTrack]

IInv ==
    /\ TypeOK
    /\ DownIsQuiet
    /\ TrackedRowFires
    /\ OneFiringRow
    /\ DebounceTestIsIdle

\* The invariant holds of an empty table.
LEMMA InvInit == Init => IInv
<1> SUFFICES ASSUME Init PROVE IInv
  OBVIOUS
<1>1. TypeOK
  BY TypeInit
<1>2. DOMAIN alerts = {}
  BY DEF Init
<1>3. \A k \in Keys : tracks[k].id = 0 /\ tracks[k].last = Never
  BY DEF Init, NoTrack
<1>4. up
  BY DEF Init
<1> QED
  BY <1>1, <1>2, <1>3, <1>4
     DEF IInv, DownIsQuiet, TrackedRowFires, OneFiringRow, DebounceTestIsIdle

\* A step that changes no row's key or state and no track's id.
LEMMA InvSame ==
    ASSUME IInv, TypeOK', DownIsQuiet', up' = up,
           DOMAIN alerts' = DOMAIN alerts,
           \A n \in DOMAIN alerts : /\ alerts'[n].key = alerts[n].key
                                   /\ alerts'[n].state = alerts[n].state,
           \A k \in Keys : /\ tracks'[k].id = tracks[k].id
                           /\ tracks'[k].id = 0 => tracks'[k].last = Never
    PROVE  IInv'
<1>0. DOMAIN alerts = 1..Len(alerts) /\ DOMAIN alerts' = 1..Len(alerts')
  BY DEF IInv, TypeOK
<1>1. TrackedRowFires'
  BY <1>0 DEF IInv, TrackedRowFires, FiringRows, IsFiring
<1>2. OneFiringRow'
  <2> SUFFICES ASSUME "restore" \notin FaultKinds
               PROVE  /\ \A m, n \in DOMAIN alerts' :
                            /\ alerts'[m].state = "firing" /\ alerts'[n].state = "firing"
                            /\ alerts'[m].key = alerts'[n].key
                            => m = n
                      /\ up' => \A n \in DOMAIN alerts' :
                                  alerts'[n].state = "firing" => tracks'[alerts'[n].key].id = n
    BY DEF OneFiringRow, IsFiring
  <2>1. \A n \in DOMAIN alerts : alerts[n].key \in Keys
    BY RowType DEF IInv, Row
  <2> QED
    BY <2>1 DEF IInv, OneFiringRow, IsFiring
<1>3. DebounceTestIsIdle'
  BY DEF DebounceTestIsIdle
<1> QED
  BY <1>1, <1>2, <1>3 DEF IInv

\* Fire adds a row for a key that has none.
LEMMA InvFire ==
    ASSUME IInv, TypeOK', NEW e \in Evaluators, NEW k \in Keys, Fire(e, k)
    PROVE  IInv'
<1> DEFINE new == Len(alerts) + 1
<1>0. /\ alerts \in Seq(Row) /\ Len(alerts) \in Nat /\ DOMAIN alerts = 1..Len(alerts)
      /\ tracks \in [Keys -> Track]
  BY DEF IInv, TypeOK
<1>1. up /\ up' = up
  BY EngineAssumption DEF Fire, Turn, IInv, DownIsQuiet
<1>2. /\ DOMAIN alerts' = 1..new
      /\ alerts'[new].key = k /\ alerts'[new].state = "firing"
      /\ \A n \in DOMAIN alerts : alerts'[n] = alerts[n]
  BY <1>0 DEF Fire
<1>3. /\ tracks'[k].id = new
      /\ \A j \in Keys \ {k} : tracks'[j] = tracks[j]
  BY <1>0 DEF Fire
<1>4. tracks[k].id = 0
  BY DEF Fire
<1>5. TrackedRowFires'
  <2> SUFFICES ASSUME NEW j \in Keys, tracks'[j].id > 0
               PROVE  /\ tracks'[j].id \in DOMAIN alerts'
                      /\ alerts'[tracks'[j].id].key = j
                      /\ alerts'[tracks'[j].id].state = "firing"
    BY <1>0, <1>2 DEF TrackedRowFires, FiringRows, IsFiring, TypeOK
  <2>1. CASE j = k
    BY <1>0, <1>2, <1>3, <2>1
  <2>2. CASE j # k
    BY <1>0, <1>2, <1>3, <2>2 DEF IInv, TrackedRowFires, FiringRows, IsFiring
  <2> QED
    BY <2>1, <2>2
<1>6. OneFiringRow'
  <2> SUFFICES ASSUME "restore" \notin FaultKinds
               PROVE  /\ \A m, n \in 1..new :
                            /\ alerts'[m].state = "firing" /\ alerts'[n].state = "firing"
                            /\ alerts'[m].key = alerts'[n].key
                            => m = n
                      /\ \A n \in 1..new :
                            alerts'[n].state = "firing" => tracks'[alerts'[n].key].id = n
    BY <1>2 DEF OneFiringRow, IsFiring
  <2>1. \A n \in DOMAIN alerts :
          alerts[n].state = "firing" => alerts[n].key \in Keys \ {k} /\ tracks[alerts[n].key].id = n
    BY <1>0, <1>1, <1>4, RowType DEF IInv, OneFiringRow, IsFiring, Row
  <2>2. \A n \in 1..new : alerts'[n].state = "firing" => tracks'[alerts'[n].key].id = n
    BY <1>0, <1>2, <1>3, <2>1
  <2> QED
    BY <2>2
<1>7. DebounceTestIsIdle'
  BY <1>0, <1>3 DEF IInv, DebounceTestIsIdle
<1>8. DownIsQuiet'
  BY <1>1 DEF DownIsQuiet
<1> QED
  BY <1>5, <1>6, <1>7, <1>8 DEF IInv

\* Resolve closes the row that its track knows.
LEMMA InvResolve ==
    ASSUME IInv, TypeOK', NEW e \in Evaluators, NEW k \in Keys, Resolve(e, k)
    PROVE  IInv'
<1> DEFINE row == tracks[k].id
<1>0. /\ alerts \in Seq(Row) /\ DOMAIN alerts = 1..Len(alerts)
      /\ tracks \in [Keys -> Track]
  BY DEF IInv, TypeOK
<1>1. up /\ up' = up
  BY EngineAssumption DEF Resolve, Turn, IInv, DownIsQuiet
<1>2. /\ DOMAIN alerts' = DOMAIN alerts /\ Len(alerts') = Len(alerts)
      /\ \A m \in DOMAIN alerts :
            /\ alerts'[m].key = alerts[m].key
            /\ alerts'[m].state = IF m = row THEN "resolved" ELSE alerts[m].state
  BY TypeResolveRow DEF IInv, Resolve
<1>3. /\ tracks'[k] = NoTrack
      /\ \A j \in Keys \ {k} : tracks'[j] = tracks[j]
  BY <1>0 DEF Resolve
<1>4. row \in DOMAIN alerts /\ alerts[row].key = k
  BY <1>0 DEF Resolve, IInv, TrackedRowFires, FiringRows
<1>5. TrackedRowFires'
  <2> SUFFICES ASSUME NEW j \in Keys, tracks'[j].id > 0
               PROVE  /\ tracks'[j].id \in DOMAIN alerts
                      /\ alerts'[tracks'[j].id].key = j
                      /\ alerts'[tracks'[j].id].state = "firing"
    BY <1>0, <1>2 DEF TrackedRowFires, FiringRows, IsFiring
  <2>1. j # k /\ tracks'[j].id = tracks[j].id
    BY <1>3 DEF NoTrack
  <2> QED
    BY <1>0, <1>2, <1>4, <2>1 DEF IInv, TrackedRowFires, FiringRows, IsFiring
<1>6. OneFiringRow'
  <2> SUFFICES ASSUME "restore" \notin FaultKinds
               PROVE  /\ \A m, n \in DOMAIN alerts :
                            /\ alerts'[m].state = "firing" /\ alerts'[n].state = "firing"
                            /\ alerts'[m].key = alerts'[n].key
                            => m = n
                      /\ \A n \in DOMAIN alerts :
                            alerts'[n].state = "firing" => tracks'[alerts'[n].key].id = n
    BY <1>2 DEF OneFiringRow, IsFiring
  <2>1. \A n \in DOMAIN alerts :
          alerts[n].state = "firing" => alerts[n].key \in Keys /\ tracks[alerts[n].key].id = n
    BY <1>1, RowType DEF IInv, OneFiringRow, IsFiring, Row
  <2>2. \A n \in DOMAIN alerts : alerts'[n].state = "firing" => alerts[n].key \in Keys \ {k}
    BY <1>2, <2>1
  <2> QED
    BY <1>2, <1>3, <2>1, <2>2
<1>7. DebounceTestIsIdle'
  BY <1>3 DEF IInv, DebounceTestIsIdle, NoTrack
<1>8. DownIsQuiet'
  BY <1>1 DEF DownIsQuiet
<1> QED
  BY <1>5, <1>6, <1>7, <1>8 DEF IInv

\* The steps that touch neither the rows nor the ids: time and the world.
LEMMA InvWorld ==
    ASSUME IInv, TypeOK', Tick \/ \E k \in Keys : Flip(k)
    PROVE  IInv'
<1>1. CASE Tick
  <2>1. /\ DOMAIN alerts' = DOMAIN alerts
        /\ \A n \in DOMAIN alerts : /\ alerts'[n].key = alerts[n].key
                                   /\ alerts'[n].state = alerts[n].state
    BY <1>1, RowType DEF Tick, Row, IInv
  <2>2. \A k \in Keys : /\ tracks'[k].id = tracks[k].id
                        /\ tracks'[k].last = Older(tracks[k].last)
    <3> SUFFICES ASSUME NEW k \in Keys
                 PROVE  tracks'[k].id = tracks[k].id /\ tracks'[k].last = Older(tracks[k].last)
      OBVIOUS
    <3>1. tracks[k] \in Track
      BY DEF IInv, TypeOK
    <3>2. tracks'[k] = [tracks[k] EXCEPT !.pending = Older(@), !.clear = Older(@), !.last = Older(@)]
      BY <1>1 DEF Tick
    <3> QED
      BY <3>1, <3>2 DEF Track
  <2>6. up' = up /\ lock' = lock /\ pc' = pc
    BY <1>1 DEF Tick
  <2>3. ASSUME NEW k \in Keys, tracks[k] = NoTrack PROVE tracks'[k] = NoTrack
    <3>1. tracks'[k] \in Track
      BY DEF TypeOK
    <3>2. tracks'[k] = [tracks[k] EXCEPT !.pending = Older(@), !.clear = Older(@), !.last = Older(@)]
      BY <1>1 DEF Tick
    <3>3. /\ tracks'[k].pending = Never /\ tracks'[k].clear = Never
          /\ tracks'[k].id = 0 /\ tracks'[k].last = Never
      BY <2>3, <3>2 DEF NoTrack, Older
    <3> QED
      BY <3>1, <3>3 DEF Track, NoTrack
  <2>4. DownIsQuiet'
    <3> SUFFICES ASSUME ~up PROVE tracks' = [k \in Keys |-> NoTrack]
      BY <2>6 DEF DownIsQuiet, IInv
    <3>1. \A k \in Keys : tracks[k] = NoTrack
      BY DEF DownIsQuiet, IInv
    <3> QED
      BY <1>1, <2>3, <3>1 DEF Tick
  <2>5. \A k \in Keys : tracks'[k].id = 0 => tracks'[k].last = Never
    BY <2>2 DEF IInv, DebounceTestIsIdle, Older
  <2> QED
    BY <2>1, <2>2, <2>4, <2>5, <2>6, InvSame
<1>2. ASSUME NEW k \in Keys, Flip(k) PROVE IInv'
  BY <1>2, InvSame DEF Flip, eval, IInv, DownIsQuiet, DebounceTestIsIdle
<1> QED
  BY <1>1, <1>2

\* What an evaluator does outside the loop over the keys.
LEMMA InvPrepare ==
    ASSUME IInv, TypeOK', NEW e \in Evaluators,
           Prepare(e) \/ CountFails(e) \/ Lock(e) \/ Unlock(e)
    PROVE  IInv'
<1>1. up /\ up' = up /\ tracks' = tracks /\ alerts' = alerts
  BY EngineAssumption
     DEF Prepare, TakeSnapshot, CountRestarts, ReadClock, CountFails, Lock, Unlock,
         IInv, DownIsQuiet
<1> QED
  BY <1>1, InvSame DEF IInv, DownIsQuiet, DebounceTestIsIdle

\* Engine.Evaluate's loops.
LEMMA InvEvaluate ==
    ASSUME IInv, TypeOK', NEW e \in Evaluators, NEW k \in Keys, EvaluateKey(e, k)
    PROVE  IInv'
<1>1. CASE Fire(e, k)
  BY <1>1, InvFire
<1>2. CASE Resolve(e, k)
  BY <1>2, InvResolve
<1>3. CASE \/ KeepFiring(e, k) \/ Hold(e, k) \/ FireFails(e, k)
           \/ Forget(e, k) \/ Settle(e, k) \/ ResolveFails(e, k)
  <2>1. up /\ up' = up /\ alerts' = alerts
    BY <1>3, EngineAssumption
       DEF KeepFiring, Hold, FireFails, Forget, Settle, ResolveFails, Turn, IInv, DownIsQuiet
  <2>2. tracks \in [Keys -> Track]
    BY DEF IInv, TypeOK
  <2>3. \A j \in Keys : tracks'[j].id = tracks[j].id
    BY <1>3, <2>2 DEF KeepFiring, Hold, FireFails, Forget, Settle, ResolveFails, Track, NoTrack
  <2>4. \A j \in Keys : tracks'[j].last = tracks[j].last \/ tracks'[j].last = Never
    BY <1>3, <2>2 DEF KeepFiring, Hold, FireFails, Forget, Settle, ResolveFails, Track, NoTrack
  <2>5. \A j \in Keys : tracks'[j].id = 0 => tracks'[j].last = Never
    BY <2>3, <2>4 DEF IInv, DebounceTestIsIdle
  <2>6. DownIsQuiet'
    BY <2>1 DEF DownIsQuiet
  <2> QED
    BY <2>1, <2>3, <2>5, <2>6, InvSame
<1> QED
  BY <1>1, <1>2, <1>3 DEF EvaluateKey

\* The delivering goroutine changes at most notified_at.
LEMMA InvDeliver ==
    ASSUME IInv, TypeOK', Deliver \/ MarkFails \/ SendRefused \/ AnswerLost
    PROVE  IInv'
<1>1. up' = up /\ tracks' = tracks /\ lock' = lock /\ pc' = pc
  BY DEF Deliver, Dequeue, SendOk, Mark, MarkFails, SendRefused, AnswerLost, eval
<1>2. /\ DOMAIN alerts' = DOMAIN alerts
      /\ \A n \in DOMAIN alerts : /\ alerts'[n].key = alerts[n].key
                                 /\ alerts'[n].state = alerts[n].state
  <2>1. CASE Mark
    <3>1. \A n \in DOMAIN alerts : alerts[n] \in Row
      BY RowType DEF IInv
    <3> QED
      BY <2>1, <3>1 DEF Mark, Row
  <2>2. CASE ~Mark
    BY <2>2 DEF Deliver, Dequeue, SendOk, MarkFails, SendRefused, AnswerLost
  <2> QED
    BY <2>1, <2>2
<1> QED
  BY <1>1, <1>2, InvSame DEF IInv, DownIsQuiet, DebounceTestIsIdle

\* A kill forgets every track; a start reads them back from the table.
LEMMA InvCrash ==
    ASSUME IInv, TypeOK', Crash \/ Restart
    PROVE  IInv'
<1>0. alerts' = alerts /\ DOMAIN alerts = 1..Len(alerts)
  BY DEF Crash, Restart, IInv, TypeOK
<1>1. CASE Crash
  <2>1. ~up' /\ \A k \in Keys : tracks'[k] = NoTrack
    BY <1>1 DEF Crash
  <2>2. TrackedRowFires' /\ DebounceTestIsIdle'
    BY <2>1 DEF TrackedRowFires, DebounceTestIsIdle, NoTrack
  <2>3. OneFiringRow'
    BY <1>0, <2>1 DEF IInv, OneFiringRow, IsFiring
  <2>4. DownIsQuiet'
    BY <1>1 DEF Crash, DownIsQuiet
  <2> QED
    BY <2>2, <2>3, <2>4 DEF IInv
<1>2. CASE Restart /\ Restored
  <2>1. up'
    BY <1>2 DEF Restart, Restored
  <2>2. PICK row \in [Keys -> 0..Len(alerts)] :
          /\ \A k \in Keys : IF FiringRows(k) = {} THEN row[k] = 0 ELSE RestoredRow(k, row[k])
          /\ tracks' = [k \in Keys |-> IF row[k] = 0 THEN NoTrack ELSE RestoredTrack(row[k])]
    BY <1>2 DEF Restart, Restored
  <2>3. \A k \in Keys : row[k] # 0 => row[k] \in FiringRows(k) /\ tracks'[k].id = row[k]
    <3> SUFFICES ASSUME NEW k \in Keys, row[k] # 0
                 PROVE  row[k] \in FiringRows(k) /\ tracks'[k].id = row[k]
      OBVIOUS
    <3>1. row[k] \in FiringRows(k)
      BY <2>2 DEF RestoredRow
    <3>2. row[k] \in DOMAIN alerts
      BY <1>0, <3>1 DEF FiringRows
    <3> QED
      BY <2>2, <3>1, <3>2, RestoredType DEF IInv
  <2>4. \A k \in Keys : row[k] = 0 => tracks'[k] = NoTrack /\ FiringRows(k) = {}
    <3> SUFFICES ASSUME NEW k \in Keys, row[k] = 0
                 PROVE  tracks'[k] = NoTrack /\ FiringRows(k) = {}
      OBVIOUS
    <3>1. 0 \notin FiringRows(k)
      BY DEF FiringRows
    <3> QED
      BY <2>2, <3>1 DEF RestoredRow
  <2>5. TrackedRowFires'
    <3> SUFFICES ASSUME NEW k \in Keys, tracks'[k].id > 0
                 PROVE  tracks'[k].id \in FiringRows(k)
      BY <1>0 DEF TrackedRowFires, FiringRows, IsFiring
    <3> QED
      BY <2>3, <2>4 DEF NoTrack
  <2>6. DebounceTestIsIdle'
    BY <2>3, <2>4 DEF DebounceTestIsIdle, NoTrack
  <2>7. OneFiringRow'
    <3> SUFFICES ASSUME "restore" \notin FaultKinds,
                        NEW n \in DOMAIN alerts, IsFiring(n)
                 PROVE  tracks'[alerts[n].key].id = n
      BY <1>0 DEF IInv, OneFiringRow, IsFiring
    <3>1. alerts[n].key \in Keys /\ n \in FiringRows(alerts[n].key)
      BY <1>0, RowType DEF IInv, Row, FiringRows
    <3>2. row[alerts[n].key] \in FiringRows(alerts[n].key)
      BY <2>3, <2>4, <3>1
    <3>3. row[alerts[n].key] = n
      BY <1>0, <3>1, <3>2 DEF IInv, OneFiringRow, FiringRows
    <3>4. row[alerts[n].key] # 0
      BY <1>0, <3>3
    <3> QED
      BY <2>3, <3>1, <3>3, <3>4
  <2>8. DownIsQuiet'
    BY <2>1 DEF DownIsQuiet
  <2> QED
    BY <2>5, <2>6, <2>7, <2>8 DEF IInv
<1>3. CASE Restart /\ Unrestored
  <2>1. "restore" \in FaultKinds /\ up' /\ tracks' = tracks
    BY <1>3 DEF Restart, Unrestored, Fault
  <2>2. TrackedRowFires' /\ DebounceTestIsIdle'
    BY <1>0, <2>1 DEF IInv, TrackedRowFires, DebounceTestIsIdle, FiringRows, IsFiring
  <2> QED
    BY <2>1, <2>2 DEF IInv, OneFiringRow, DownIsQuiet
<1> QED
  BY <1>1, <1>2, <1>3 DEF Restart

\* The invariant is preserved by every step.
LEMMA InvNext == IInv /\ [Next]_vars => IInv'
<1> SUFFICES ASSUME IInv, [Next]_vars PROVE IInv'
  OBVIOUS
<1>0. TypeOK'
  BY TypeNext DEF IInv
<1>1. CASE UNCHANGED vars
  BY <1>0, <1>1, InvSame DEF vars, IInv, DownIsQuiet, DebounceTestIsIdle
<1>2. CASE Next
  BY <1>0, <1>2, InvWorld, InvPrepare, InvEvaluate, InvDeliver, InvCrash DEF Next, Step
<1> QED
  BY <1>1, <1>2

\* The inductive invariant holds in every reachable state.
THEOREM Invariance == Spec => []IInv
<1> QED
  BY InvInit, InvNext, PTL DEF Spec

\* Whatever fails, what the engine remembers of an open alert is a firing row
\* of the same rule and target: resolve never closes a wrong row.
THEOREM TracksAreFiringRows == Spec => []TrackedRowFires
<1>1. IInv => TrackedRowFires
  BY DEF IInv
<1> QED
  BY <1>1, Invariance, PTL

\* As long as Restore reads the table, kills and failed writes never leave a
\* second or a forgotten firing row.
THEOREM AtMostOneFiringRow == Spec => []OneFiringRow
<1>1. IInv => OneFiringRow
  BY DEF IInv
<1> QED
  BY <1>1, Invariance, PTL

\* As long as Restore reads the table, the chat is never told of two alerts of
\* one rule and target that are firing at the same time.
THEOREM NothingIsResent == Spec => []NotResent
<1>1. IInv => NotResent
  BY DEF IInv, OneFiringRow, NotResent, ToldOnce
<1> QED
  BY <1>1, Invariance, PTL

\* The debounce test of Evaluate's first loop is dead code.
THEOREM DebounceTestNeverHolds == Spec => []DebounceTestIsIdle
<1>1. IInv => DebounceTestIsIdle
  BY DEF IInv
<1> QED
  BY <1>1, Invariance, PTL

-----------------------------------------------------------------------------
(* notified_at *)

\* A row is marked only after its own notice was sent.
MarkingWasSent == courier.stage = "marking" => Firing(courier.msg.alert) \in chat

\* A step that marks no row, sends nothing and begins no marking.
LEMMA MarksNothing ==
    ASSUME NotifiedWasDelivered, MarkingWasSent, chat' = chat,
           \A n \in DOMAIN alerts' : alerts'[n].notified => n \in DOMAIN alerts /\ alerts[n].notified,
           courier' = courier \/ courier'.stage # "marking"
    PROVE  NotifiedWasDelivered' /\ MarkingWasSent'
  BY DEF NotifiedWasDelivered, MarkingWasSent, Firing

LEMMA NotifiedEvaluate ==
    ASSUME TypeOK, NotifiedWasDelivered, MarkingWasSent,
           NEW e \in Evaluators, NEW k \in Keys, EvaluateKey(e, k)
    PROVE  NotifiedWasDelivered' /\ MarkingWasSent'
<1>1. chat' = chat /\ courier' = courier
  BY DEF EvaluateKey, KeepFiring, Hold, Fire, FireFails, Forget, Settle, Resolve, ResolveFails,
         Turn, delivery
<1>2. CASE Fire(e, k)
  <2>1. alerts \in Seq(Row) /\ DOMAIN alerts = 1..Len(alerts) /\ Len(alerts) \in Nat
    BY DEF TypeOK
  <2>2. PICK row : row.notified = FALSE /\ alerts' = Append(alerts, row)
    BY <1>2 DEF Fire
  <2>3. /\ DOMAIN alerts' = 1..(Len(alerts) + 1)
        /\ \A n \in 1..Len(alerts) : alerts'[n] = alerts[n]
        /\ alerts'[Len(alerts) + 1] = row
    BY <2>1, <2>2
  <2>4. \A n \in DOMAIN alerts' : alerts'[n].notified => n \in DOMAIN alerts /\ alerts[n].notified
    BY <2>1, <2>2, <2>3
  <2> QED
    BY <1>1, <2>4, MarksNothing
<1>3. CASE Resolve(e, k)
  <2>1. DOMAIN alerts' = DOMAIN alerts /\ \A n \in DOMAIN alerts : alerts'[n].notified = alerts[n].notified
    BY <1>3, TypeResolveRow DEF Resolve
  <2> QED
    BY <1>1, <2>1, MarksNothing
<1>4. CASE ~Fire(e, k) /\ ~Resolve(e, k)
  <2>1. alerts' = alerts
    BY <1>4 DEF EvaluateKey, KeepFiring, Hold, FireFails, Forget, Settle, ResolveFails
  <2> QED
    BY <1>1, <2>1, MarksNothing
<1> QED
  BY <1>2, <1>3, <1>4

LEMMA NotifiedDeliver ==
    ASSUME TypeOK, NotifiedWasDelivered, MarkingWasSent,
           Deliver \/ MarkFails \/ SendRefused \/ AnswerLost
    PROVE  NotifiedWasDelivered' /\ MarkingWasSent'
<1>1. CASE Dequeue \/ MarkFails \/ SendRefused
  <2>1. alerts' = alerts /\ chat' = chat
    BY <1>1 DEF Dequeue, MarkFails, SendRefused
  <2>2. courier'.stage # "marking"
    <3>1. courier \in Courier
      BY DEF TypeOK
    <3>2. CASE Dequeue \/ MarkFails
      BY <3>2 DEF Dequeue, MarkFails, Idle
    <3>3. CASE SendRefused
      BY <3>1, <3>3 DEF SendRefused, NextTry, Idle, Courier
    <3> QED
      BY <1>1, <3>2, <3>3
  <2> QED
    BY <2>1, <2>2, MarksNothing
<1>2. CASE SendOk
  <2>1. alerts' = alerts /\ chat' = chat \cup {courier.msg} /\ courier \in Courier
    BY <1>2 DEF SendOk, TypeOK
  <2>2. CASE courier.msg.kind = "firing"
    <3>1. courier'.msg = courier.msg
      BY <1>2, <2>1, <2>2 DEF SendOk, Courier
    <3>2. Firing(courier.msg.alert) = courier.msg
      BY <2>1, <2>2 DEF Firing, Courier, Message
    <3> QED
      BY <2>1, <3>1, <3>2 DEF NotifiedWasDelivered, MarkingWasSent, Firing
  <2>3. CASE courier.msg.kind # "firing"
    BY <1>2, <2>1, <2>3 DEF SendOk, Idle, NotifiedWasDelivered, MarkingWasSent, Firing
  <2> QED
    BY <2>2, <2>3
<1>3. CASE Mark
  <2>1. /\ courier.stage = "marking" /\ courier' = Idle /\ chat' = chat
        /\ alerts' = [alerts EXCEPT ![courier.msg.alert].notified = TRUE]
    BY <1>3 DEF Mark
  <2>2. MarkingWasSent'
    BY <2>1 DEF MarkingWasSent, Idle
  <2>3. ASSUME NEW n \in DOMAIN alerts', alerts'[n].notified PROVE Firing(n) \in chat'
    <3>1. DOMAIN alerts' = DOMAIN alerts
      BY <2>1
    <3>2. CASE n = courier.msg.alert
      BY <2>1, <3>2 DEF MarkingWasSent
    <3>3. CASE n # courier.msg.alert
      BY <2>1, <2>3, <3>1, <3>3 DEF NotifiedWasDelivered
    <3> QED
      BY <3>2, <3>3
  <2> QED
    BY <2>2, <2>3 DEF NotifiedWasDelivered, Firing
<1>4. CASE AnswerLost
  <2>1. /\ courier.stage = "sending" /\ alerts' = alerts /\ chat' = chat \cup {courier.msg}
        /\ courier \in Courier /\ NextTry
    BY <1>4 DEF AnswerLost, TypeOK
  <2>2. courier'.stage # "marking"
    BY <2>1 DEF NextTry, Idle, Courier
  <2> QED
    BY <2>1, <2>2 DEF NotifiedWasDelivered, MarkingWasSent, Firing
<1> QED
  BY <1>1, <1>2, <1>3, <1>4 DEF Deliver

LEMMA NotifiedNext ==
    TypeOK /\ NotifiedWasDelivered /\ MarkingWasSent /\ [Next]_vars
        => NotifiedWasDelivered' /\ MarkingWasSent'
<1> SUFFICES ASSUME TypeOK, NotifiedWasDelivered, MarkingWasSent, [Next]_vars
             PROVE  NotifiedWasDelivered' /\ MarkingWasSent'
  OBVIOUS
<1> USE DEF delivery
<1>1. CASE Tick
  <2>1. /\ DOMAIN alerts' = DOMAIN alerts /\ chat' = chat /\ courier' = courier
        /\ \A n \in DOMAIN alerts : alerts'[n] = [alerts[n] EXCEPT !.fired = Older(@)]
    BY <1>1 DEF Tick
  <2>2. \A n \in DOMAIN alerts : alerts[n] \in Row
    BY RowType
  <2>3. \A n \in DOMAIN alerts : alerts'[n].notified = alerts[n].notified
    BY <2>1, <2>2 DEF Row
  <2> QED
    BY <2>1, <2>3, MarksNothing
<1>2. ASSUME NEW k \in Keys, Flip(k) PROVE NotifiedWasDelivered' /\ MarkingWasSent'
  BY <1>2, MarksNothing DEF Flip
<1>3. ASSUME NEW e \in Evaluators, Prepare(e) \/ CountFails(e) \/ Lock(e) \/ Unlock(e)
      PROVE  NotifiedWasDelivered' /\ MarkingWasSent'
  BY <1>3, MarksNothing
     DEF Prepare, TakeSnapshot, CountRestarts, ReadClock, CountFails, Lock, Unlock
<1>4. CASE Crash \/ Restart
  BY <1>4, MarksNothing DEF Crash, Restart, Idle
<1>5. CASE UNCHANGED vars
  BY <1>5, MarksNothing DEF vars
<1> QED
  BY <1>1, <1>2, <1>3, <1>4, <1>5, NotifiedEvaluate, NotifiedDeliver DEF Next, Step

\* A row is marked as notified only if the chat got its own notice, through
\* retries, lost answers, restarts and failed writes.
THEOREM MarkedWasDelivered == Spec => []NotifiedWasDelivered
<1>1. Init => NotifiedWasDelivered /\ MarkingWasSent
  BY DEF Init, NotifiedWasDelivered, MarkingWasSent, Idle
<1> QED
  BY <1>1, NotifiedNext, TypeCorrect, PTL DEF Spec

-----------------------------------------------------------------------------
(* The order of the notices.  A notice refers to a row, and a resolved one   *)
(* to a row that is closed, wherever it is on its way; and nothing that is   *)
(* ahead of a firing notice is the resolved notice of the same alert.        *)

Known(m) == m.alert \in DOMAIN alerts /\ (m.kind = "resolved" => ~IsFiring(m.alert))

NoticesAreKnown ==
    /\ \A m \in chat : Known(m)
    /\ \A i \in DOMAIN queue : Known(queue[i])
    /\ courier.stage # "idle" => Known(courier.msg)

QueuedInOrder ==
    \A i \in DOMAIN queue : queue[i].kind = "firing" =>
        /\ Resolved(queue[i].alert) \notin chat
        /\ courier.stage # "idle" => courier.msg # Resolved(queue[i].alert)
        /\ \A j \in 1..(i - 1) : queue[j] # Resolved(queue[i].alert)

SentInOrder ==
    courier.stage = "sending" /\ courier.msg.kind = "firing" =>
        Resolved(courier.msg.alert) \notin chat

OrderInv == NoticesAreKnown /\ QueuedInOrder /\ SentInOrder

\* No row is added, and none changes its key or its state.
SameRows ==
    /\ DOMAIN alerts' = DOMAIN alerts
    /\ \A n \in DOMAIN alerts : /\ alerts'[n].key = alerts[n].key
                                /\ alerts'[n].state = alerts[n].state

\* Only fire and resolve do such a thing.
LEMMA RowsChange ==
    ASSUME TypeOK, [Next]_vars,
           ~ \E e \in Evaluators, k \in Keys : Fire(e, k) \/ Resolve(e, k)
    PROVE  SameRows
<1>0. \A n \in DOMAIN alerts : alerts[n] \in Row
  BY RowType
<1>1. CASE Tick
  BY <1>0, <1>1 DEF Tick, SameRows, Row
<1>2. CASE Mark
  BY <1>0, <1>2 DEF Mark, SameRows, Row
<1>3. ASSUME alerts' = alerts PROVE SameRows
  BY <1>3 DEF SameRows
<1>4. ASSUME NEW k \in Keys, Flip(k) PROVE SameRows
  BY <1>3, <1>4 DEF Flip
<1>5. ASSUME NEW e \in Evaluators, Prepare(e) \/ CountFails(e) \/ Lock(e) \/ Unlock(e)
      PROVE  SameRows
  BY <1>3, <1>5 DEF Prepare, TakeSnapshot, CountRestarts, ReadClock, CountFails, Lock, Unlock
<1>6. ASSUME NEW e \in Evaluators, NEW k \in Keys, EvaluateKey(e, k) PROVE SameRows
  BY <1>3, <1>6 DEF EvaluateKey, KeepFiring, Hold, FireFails, Forget, Settle, ResolveFails
<1>7. CASE Dequeue \/ SendOk \/ MarkFails \/ SendRefused \/ AnswerLost
  BY <1>3, <1>7 DEF Dequeue, SendOk, MarkFails, SendRefused, AnswerLost
<1>8. CASE Crash \/ Restart
  BY <1>3, <1>8 DEF Crash, Restart
<1>9. CASE UNCHANGED vars
  BY <1>3, <1>9 DEF vars
<1> QED
  BY <1>1, <1>2, <1>4, <1>5, <1>6, <1>7, <1>8, <1>9 DEF Next, Step, Deliver

\* The chat hears only what is being sent.
LEMMA ChatChanges ==
    ASSUME [Next]_vars
    PROVE  chat' = chat \/ (courier.stage = "sending" /\ chat' = chat \cup {courier.msg})
<1>1. ASSUME NEW k \in Keys, Flip(k) PROVE chat' = chat
  BY <1>1 DEF Flip, delivery
<1>2. ASSUME NEW e \in Evaluators, Prepare(e) \/ CountFails(e) \/ Lock(e) \/ Unlock(e)
      PROVE  chat' = chat
  BY <1>2 DEF Prepare, TakeSnapshot, CountRestarts, ReadClock, CountFails, Lock, Unlock, delivery
<1>3. ASSUME NEW e \in Evaluators, NEW k \in Keys, EvaluateKey(e, k) PROVE chat' = chat
  BY <1>3
     DEF EvaluateKey, KeepFiring, Hold, Fire, FireFails, Forget, Settle, Resolve, ResolveFails,
         Turn, delivery
<1>4. CASE Dequeue \/ Mark \/ MarkFails \/ SendRefused
  BY <1>4 DEF Dequeue, Mark, MarkFails, SendRefused
<1>5. CASE SendOk \/ AnswerLost
  BY <1>5 DEF SendOk, AnswerLost
<1>6. CASE Tick \/ Crash \/ Restart \/ UNCHANGED vars
  BY <1>6 DEF Tick, Crash, Restart, vars, delivery
<1> QED
  BY <1>1, <1>2, <1>3, <1>4, <1>5, <1>6 DEF Next, Step, Deliver

\* Rows that stay as they are, or are closed, keep every notice known.
LEMMA KnownStays ==
    ASSUME DOMAIN alerts \subseteq DOMAIN alerts',
           \A n \in DOMAIN alerts : IsFiring(n)' => IsFiring(n),
           NEW m, Known(m)
    PROVE  m.alert \in DOMAIN alerts' /\ (m.kind = "resolved" => ~IsFiring(m.alert)')
  BY DEF Known, IsFiring

\* A step that sends, takes and adds no notice.
LEMMA OrderSame ==
    ASSUME OrderInv, DOMAIN alerts \subseteq DOMAIN alerts',
           \A n \in DOMAIN alerts : IsFiring(n)' => IsFiring(n),
           queue' = queue \/ queue' = <<>>,
           courier' = courier \/ courier' = Idle,
           chat' = chat
    PROVE  OrderInv'
<1>1. NoticesAreKnown'
  <2>1. CASE queue' = queue
    BY <2>1, KnownStays DEF OrderInv, NoticesAreKnown, Known, IsFiring, Idle
  <2>2. CASE queue' = <<>>
    BY <2>2, KnownStays DEF OrderInv, NoticesAreKnown, Known, IsFiring, Idle
  <2> QED
    BY <2>1, <2>2
<1>2. QueuedInOrder'
  <2>1. CASE queue' = queue
    BY <2>1 DEF OrderInv, QueuedInOrder, Idle, Resolved
  <2>2. CASE queue' = <<>>
    BY <2>2 DEF QueuedInOrder
  <2> QED
    BY <2>1, <2>2
<1>3. SentInOrder'
  BY DEF OrderInv, SentInOrder, Idle, Resolved
<1> QED
  BY <1>1, <1>2, <1>3 DEF OrderInv

\* A notice is queued: of an alert that has just begun, or of one that is over.
LEMMA OrderEnqueue ==
    ASSUME TypeOK, OrderInv, DOMAIN alerts \subseteq DOMAIN alerts',
           \A n \in DOMAIN alerts : IsFiring(n)' => IsFiring(n),
           courier' = courier, chat' = chat,
           NEW msg \in Message, Enqueue(msg),
           msg.alert \in DOMAIN alerts', msg.kind = "resolved" => ~IsFiring(msg.alert)',
           msg.kind = "firing" => msg.alert \notin DOMAIN alerts
    PROVE  OrderInv'
<1>1. CASE queue' = queue
  BY <1>1, OrderSame
<1>2. CASE queue' = Append(queue, msg)
  <2>1. /\ queue \in Seq(Message) /\ Len(queue) \in Nat
        /\ DOMAIN queue = 1..Len(queue)
        /\ DOMAIN queue' = 1..(Len(queue) + 1)
        /\ queue'[Len(queue) + 1] = msg
        /\ \A i \in 1..Len(queue) : queue'[i] = queue[i]
    BY <1>2 DEF TypeOK
  <2>2. NoticesAreKnown'
    <3>1. \A i \in DOMAIN queue' : i = Len(queue) + 1 \/ i \in DOMAIN queue
      BY <2>1
    <3> QED
      BY <2>1, <3>1, KnownStays DEF OrderInv, NoticesAreKnown, Known, IsFiring
  <2>3. QueuedInOrder'
    <3> SUFFICES ASSUME NEW i \in DOMAIN queue', queue'[i].kind = "firing"
                 PROVE  /\ Resolved(queue'[i].alert) \notin chat
                        /\ courier.stage # "idle" => courier.msg # Resolved(queue'[i].alert)
                        /\ \A j \in 1..(i - 1) : queue'[j] # Resolved(queue'[i].alert)
      BY DEF QueuedInOrder, Resolved
    <3>1. CASE i \in DOMAIN queue
      BY <2>1, <3>1 DEF OrderInv, QueuedInOrder
    <3>2. CASE i = Len(queue) + 1
      <4>1. msg.alert \notin DOMAIN alerts /\ queue'[i] = msg
        BY <2>1, <3>2
      <4>2. ~Known(Resolved(msg.alert))
        BY <4>1 DEF Known, Resolved
      <4>3. \A j \in 1..(i - 1) : Known(queue'[j])
        BY <2>1, <3>2 DEF OrderInv, NoticesAreKnown
      <4> QED
        BY <4>1, <4>2, <4>3 DEF OrderInv, NoticesAreKnown
    <3> QED
      BY <2>1, <3>1, <3>2
  <2>4. SentInOrder'
    BY DEF OrderInv, SentInOrder, Resolved
  <2> QED
    BY <2>2, <2>3, <2>4 DEF OrderInv
<1> QED
  BY <1>1, <1>2 DEF Enqueue

\* A new alert has no notice yet, and the firing notice of an alert that is
\* resolved is ahead of the notice that is queued.
LEMMA OrderEvaluate ==
    ASSUME IInv, OrderInv, NEW e \in Evaluators, NEW k \in Keys, Fire(e, k) \/ Resolve(e, k)
    PROVE  OrderInv'
<1>0. /\ TypeOK /\ alerts \in Seq(Row) /\ Len(alerts) \in Nat /\ DOMAIN alerts = 1..Len(alerts)
      /\ courier' = courier /\ chat' = chat
  BY DEF IInv, TypeOK, Fire, Resolve, Turn, delivery
<1>1. CASE Fire(e, k)
  <2> DEFINE new == Len(alerts) + 1
  <2>1. /\ DOMAIN alerts' = 1..new
        /\ \A n \in DOMAIN alerts : alerts'[n] = alerts[n]
    BY <1>0, <1>1 DEF Fire
  <2>2. /\ Firing(new) \in Message /\ Enqueue(Firing(new))
        /\ Firing(new).alert = new /\ Firing(new).kind = "firing"
    BY <1>0, <1>1 DEF Fire, Firing, Message
  <2>3. DOMAIN alerts \subseteq DOMAIN alerts' /\ new \in DOMAIN alerts' /\ new \notin DOMAIN alerts
    BY <1>0, <2>1
  <2> HIDE DEF new
  <2> QED
    BY <1>0, <2>1, <2>2, <2>3, OrderEnqueue DEF IsFiring
<1>2. CASE Resolve(e, k)
  <2> DEFINE row == tracks[k].id
  <2>1. /\ DOMAIN alerts' = DOMAIN alerts
        /\ \A n \in DOMAIN alerts : alerts'[n].state = IF n = row THEN "resolved" ELSE alerts[n].state
    BY <1>0, <1>2, TypeResolveRow DEF Resolve
  <2>2. row \in DOMAIN alerts /\ row \in Nat
    BY <1>0, <1>2 DEF Resolve, IInv, TrackedRowFires, FiringRows
  <2>3. /\ Resolved(row) \in Message /\ Enqueue(Resolved(row))
        /\ Resolved(row).alert = row /\ Resolved(row).kind = "resolved"
    BY <1>2, <2>2 DEF Resolve, Resolved, Message
  <2> HIDE DEF row
  <2> QED
    BY <1>0, <2>1, <2>2, <2>3, OrderEnqueue DEF IsFiring
<1> QED
  BY <1>1, <1>2

\* One notice at a time leaves the queue, in its order.
LEMMA OrderDeliver ==
    ASSUME TypeOK, OrderInv, SameRows,
           Deliver \/ MarkFails \/ SendRefused \/ AnswerLost
    PROVE  OrderInv'
<1>0. /\ courier \in Courier /\ queue \in Seq(Message) /\ Len(queue) \in Nat
      /\ DOMAIN queue = 1..Len(queue)
  BY DEF TypeOK
<1>1. CASE Dequeue
  <2>1. /\ courier'.stage = "sending" /\ courier'.msg = queue[1]
        /\ courier.stage = "idle" /\ chat' = chat
        /\ queue' = Tail(queue) /\ queue # <<>>
    BY <1>0, <1>1 DEF Dequeue, Idle
  <2>2. /\ DOMAIN queue' = 1..(Len(queue) - 1) /\ 1 \in DOMAIN queue
        /\ \A i \in 1..(Len(queue) - 1) : queue'[i] = queue[i + 1] /\ i + 1 \in DOMAIN queue
    BY <1>0, <2>1
  <2>3. NoticesAreKnown'
    BY <2>1, <2>2, KnownStays DEF OrderInv, NoticesAreKnown, Known, IsFiring, SameRows
  <2>4. QueuedInOrder'
    <3> SUFFICES ASSUME NEW i \in DOMAIN queue', queue'[i].kind = "firing"
                 PROVE  /\ Resolved(queue'[i].alert) \notin chat
                        /\ queue[1] # Resolved(queue'[i].alert)
                        /\ \A j \in 1..(i - 1) : queue'[j] # Resolved(queue'[i].alert)
      BY <2>1 DEF QueuedInOrder, Resolved
    <3>1. i \in Nat /\ queue'[i] = queue[i + 1] /\ i + 1 \in DOMAIN queue
      BY <1>0, <2>2
    <3>2. \A j \in 1..i : queue[j] # Resolved(queue[i + 1].alert)
      <4>1. (i + 1) - 1 = i
        BY <3>1
      <4> QED
        BY <3>1, <4>1 DEF OrderInv, QueuedInOrder
    <3>3. 1 \in 1..i
      BY <2>2
    <3>4. \A j \in 1..(i - 1) : queue'[j] = queue[j + 1] /\ j + 1 \in 1..i
      BY <1>0, <2>2, <3>1
    <3> QED
      BY <3>1, <3>2, <3>3, <3>4 DEF OrderInv, QueuedInOrder
  <2>5. SentInOrder'
    BY <2>1, <2>2 DEF OrderInv, QueuedInOrder, SentInOrder, Resolved
  <2> QED
    BY <2>3, <2>4, <2>5 DEF OrderInv
<1>2. CASE SendOk \/ AnswerLost
  <2>1. /\ courier.stage = "sending" /\ chat' = chat \cup {courier.msg} /\ queue' = queue
    BY <1>2 DEF SendOk, AnswerLost
  <2>2. courier' = Idle \/ courier'.msg = courier.msg
    BY <1>0, <1>2 DEF SendOk, AnswerLost, NextTry, Courier
  <2>3. courier'.stage = "sending" => chat' = chat \/ courier'.msg = courier.msg
    BY <2>2 DEF Idle
  <2>4. NoticesAreKnown'
    BY <2>1, <2>2, KnownStays DEF OrderInv, NoticesAreKnown, Known, IsFiring, SameRows, Idle
  <2>5. QueuedInOrder'
    BY <2>1, <2>2 DEF OrderInv, QueuedInOrder, Resolved, Idle
  <2>6. SentInOrder'
    <3> SUFFICES ASSUME courier'.stage = "sending", courier'.msg.kind = "firing"
                 PROVE  Resolved(courier'.msg.alert) \notin chat'
      BY DEF SentInOrder, Resolved
    <3>1. courier'.msg = courier.msg
      BY <2>2 DEF Idle
    <3>2. Resolved(courier.msg.alert) \notin chat
      BY <2>1, <3>1 DEF OrderInv, SentInOrder
    <3>3. Resolved(courier.msg.alert) # courier.msg
      BY <3>1 DEF Resolved
    <3> QED
      BY <2>1, <3>1, <3>2, <3>3
  <2> QED
    BY <2>4, <2>5, <2>6 DEF OrderInv
<1>3. CASE Mark \/ MarkFails
  <2>1. courier' = Idle /\ queue' = queue /\ chat' = chat
    BY <1>3 DEF Mark, MarkFails
  <2> QED
    BY <2>1, OrderSame DEF SameRows, IsFiring
<1>4. CASE SendRefused
  <2>1. queue' = queue /\ chat' = chat
    BY <1>4 DEF SendRefused
  <2>2. courier' = Idle \/ (courier'.stage = courier.stage /\ courier'.msg = courier.msg)
    BY <1>0, <1>4 DEF SendRefused, NextTry, Courier
  <2>3. NoticesAreKnown'
    BY <2>1, <2>2, KnownStays DEF OrderInv, NoticesAreKnown, Known, IsFiring, SameRows, Idle
  <2>4. QueuedInOrder' /\ SentInOrder'
    BY <2>1, <2>2 DEF OrderInv, QueuedInOrder, SentInOrder, Resolved, Idle
  <2> QED
    BY <2>3, <2>4 DEF OrderInv
<1> QED
  BY <1>1, <1>2, <1>3, <1>4 DEF Deliver

\* At first nothing is on its way.
LEMMA OrderInit == Init => OrderInv
  BY DEF Init, OrderInv, NoticesAreKnown, QueuedInOrder, SentInOrder, Idle

\* The order is kept by every step.
LEMMA OrderNext == IInv /\ OrderInv /\ [Next]_vars => OrderInv'
<1> SUFFICES ASSUME IInv, OrderInv, [Next]_vars PROVE OrderInv'
  OBVIOUS
<1>0. TypeOK
  BY DEF IInv
<1>1. CASE \E e \in Evaluators, k \in Keys : Fire(e, k) \/ Resolve(e, k)
  BY <1>1, OrderEvaluate
<1>2. CASE ~ \E e \in Evaluators, k \in Keys : Fire(e, k) \/ Resolve(e, k)
  <2>1. SameRows
    BY <1>0, <1>2, RowsChange
  <2>2. CASE Deliver \/ MarkFails \/ SendRefused \/ AnswerLost
    BY <1>0, <2>1, <2>2, OrderDeliver
  <2>3. CASE ~(Deliver \/ MarkFails \/ SendRefused \/ AnswerLost)
    <3>1. /\ queue' = queue \/ queue' = <<>>
          /\ courier' = courier \/ courier' = Idle
          /\ chat' = chat
      <4> DEFINE Still == queue' = queue /\ courier' = courier /\ chat' = chat
      <4>1. CASE Crash
        BY <4>1 DEF Crash
      <4>2. CASE Tick \/ Restart \/ UNCHANGED vars
        BY <4>2 DEF Tick, Restart, vars, delivery
      <4>3. ASSUME NEW k \in Keys, Flip(k) PROVE Still
        BY <4>3 DEF Flip, delivery
      <4>4. ASSUME NEW e \in Evaluators, Prepare(e) \/ CountFails(e) \/ Lock(e) \/ Unlock(e)
            PROVE  Still
        BY <4>4 DEF Prepare, TakeSnapshot, CountRestarts, ReadClock, CountFails, Lock, Unlock, delivery
      <4>5. ASSUME NEW e \in Evaluators, NEW k \in Keys, EvaluateKey(e, k) PROVE Still
        BY <1>2, <4>5
           DEF EvaluateKey, KeepFiring, Hold, FireFails, Forget, Settle, ResolveFails, Turn, delivery
      <4> QED
        BY <2>3, <4>1, <4>2, <4>3, <4>4, <4>5 DEF Next, Step
    <3> QED
      BY <2>1, <3>1, OrderSame DEF SameRows, IsFiring
  <2> QED
    BY <2>2, <2>3
<1> QED
  BY <1>1, <1>2

\* Once the chat was told that an alert is resolved it is not told that it is
\* firing, through retries, lost answers, dropped notices and restarts.
THEOREM NoticesStayInOrder == Spec => NoticesInOrder
<1>1. Init => IInv /\ OrderInv
  BY InvInit, OrderInit
<1>2. IInv /\ OrderInv /\ [Next]_vars => (IInv /\ OrderInv)'
  BY InvNext, OrderNext
<1>3. IInv /\ OrderInv /\ [Next]_vars =>
        [\A n \in DOMAIN alerts :
            Resolved(n) \in chat /\ Firing(n) \in chat' => Firing(n) \in chat]_vars
  <2> SUFFICES ASSUME OrderInv, [Next]_vars, NEW n \in DOMAIN alerts,
                      Resolved(n) \in chat, Firing(n) \in chat'
               PROVE  Firing(n) \in chat
    OBVIOUS
  <2>1. chat' = chat \/ (courier.stage = "sending" /\ chat' = chat \cup {courier.msg})
    BY ChatChanges
  <2>2. courier.stage = "sending" => courier.msg # Firing(n)
    BY DEF OrderInv, SentInOrder, Firing, Resolved
  <2> QED
    BY <2>1, <2>2
<1> QED
  BY <1>1, <1>2, <1>3, PTL DEF Spec, NoticesInOrder

\* Whatever the chat was told is true: an alert has a row, and one that the chat
\* takes for resolved is not firing.
ChatIsTrue ==
    /\ \A n : Firing(n) \in chat => n \in DOMAIN alerts
    /\ \A n : Resolved(n) \in chat => n \in DOMAIN alerts /\ ~IsFiring(n)

\* No notice invents an alert, or is ahead of the table, whatever was killed,
\* dropped or sent again, and even if Restore fails.
THEOREM NoticesAreTrue == Spec => []ChatIsTrue
<1>1. Init => IInv /\ OrderInv
  BY InvInit, OrderInit
<1>2. IInv /\ OrderInv /\ [Next]_vars => (IInv /\ OrderInv)'
  BY InvNext, OrderNext
<1>3. IInv /\ OrderInv => ChatIsTrue
  BY DEF OrderInv, NoticesAreKnown, Known, ChatIsTrue, Firing, Resolved
<1> QED
  BY <1>1, <1>2, <1>3, PTL DEF Spec

\* A row keeps its key and is never reopened, and is closed only by the engine
\* that remembers it as the alert of its key.
RowsAreFinal ==
    [][/\ DOMAIN alerts \subseteq DOMAIN alerts'
       /\ \A n \in DOMAIN alerts :
             /\ alerts'[n].key = alerts[n].key
             /\ IsFiring(n)' => IsFiring(n)
             /\ IsFiring(n) /\ ~IsFiring(n)' => up /\ tracks[alerts[n].key].id = n]_vars

\* No history of failures, restarts and overlapping evaluations reopens an
\* alert, or closes the alert of another rule or target.
THEOREM ClosedRowsStayClosed == Spec => RowsAreFinal
<1>1. IInv /\ [Next]_vars =>
        [/\ DOMAIN alerts \subseteq DOMAIN alerts'
         /\ \A n \in DOMAIN alerts :
               /\ alerts'[n].key = alerts[n].key
               /\ IsFiring(n)' => IsFiring(n)
               /\ IsFiring(n) /\ ~IsFiring(n)' => up /\ tracks[alerts[n].key].id = n]_vars
  <2> DEFINE Kept ==
        /\ DOMAIN alerts \subseteq DOMAIN alerts'
        /\ \A n \in DOMAIN alerts :
              /\ alerts'[n].key = alerts[n].key
              /\ IsFiring(n)' => IsFiring(n)
              /\ IsFiring(n) /\ ~IsFiring(n)' => up /\ tracks[alerts[n].key].id = n
  <2> SUFFICES ASSUME IInv, [Next]_vars PROVE Kept
    OBVIOUS
  <2>0. TypeOK /\ TrackedRowFires /\ (~up => lock = NoOne)
    BY DEF IInv, DownIsQuiet
  <2>1. ASSUME NEW e \in Evaluators, NEW k \in Keys, Fire(e, k) PROVE Kept
    <3>1. alerts \in Seq(Row)
      BY <2>0 DEF TypeOK
    <3>2. PICK row : alerts' = Append(alerts, row)
      BY <2>1 DEF Fire
    <3>3. DOMAIN alerts \subseteq DOMAIN alerts' /\ \A n \in DOMAIN alerts : alerts'[n] = alerts[n]
      BY <3>1, <3>2
    <3> QED
      BY <3>3 DEF IsFiring
  <2>2. ASSUME NEW e \in Evaluators, NEW k \in Keys, Resolve(e, k) PROVE Kept
    <3>1. /\ DOMAIN alerts' = DOMAIN alerts
          /\ \A m \in DOMAIN alerts :
                /\ alerts'[m].key = alerts[m].key
                /\ alerts'[m].state = IF m = tracks[k].id THEN "resolved" ELSE alerts[m].state
      BY <2>0, <2>2, TypeResolveRow DEF Resolve
    <3>2. tracks[k].id \in FiringRows(k)
      BY <2>0, <2>2 DEF Resolve, TrackedRowFires
    <3>3. up
      BY <2>0, <2>2, EngineAssumption DEF Resolve, Turn
    <3> QED
      BY <3>1, <3>2, <3>3 DEF IsFiring, FiringRows
  <2>3. CASE ~ \E e \in Evaluators, k \in Keys : Fire(e, k) \/ Resolve(e, k)
    BY <2>0, <2>3, RowsChange DEF SameRows, IsFiring
  <2> QED
    BY <2>1, <2>2, <2>3
<1> QED
  BY <1>1, Invariance, PTL DEF Spec, RowsAreFinal

-----------------------------------------------------------------------------
(* AlertEngine implements AlertLifecycle, as long as Restore reads the       *)
(* table: a step of the engine opens or closes the alert of a key, tells the *)
(* chat something, or changes nothing that the lifecycle sees.               *)

\* The alert of a key that the lifecycle sees.
LEMMA OpenRowFires ==
    ASSUME NEW k \in Keys
    PROVE  /\ FiringRows(k) = {} => OpenRow(k) = 0
           /\ FiringRows(k) # {} => OpenRow(k) \in FiringRows(k)
           /\ OpenRow(k) = 0 => FiringRows(k) = {}
<1>1. FiringRows(k) = {} => OpenRow(k) = 0
  BY DEF OpenRow
<1>2. FiringRows(k) # {} => OpenRow(k) \in FiringRows(k)
  BY DEF OpenRow
<1>3. 0 \notin FiringRows(k)
  BY DEF FiringRows
<1> QED
  BY <1>1, <1>2, <1>3

\* The alert of a key stays what it is while its firing rows do.
LEMMA OpenRowStays ==
    ASSUME NEW k \in Keys, FiringRows(k)' = FiringRows(k)
    PROVE  OpenRow(k)' = OpenRow(k)
  BY DEF OpenRow

\* A step that changes no row's key or state, and tells the chat nothing.
LEMMA LifecycleSame ==
    ASSUME TypeOK, TypeOK', SameRows
    PROVE  /\ Len(alerts') = Len(alerts)
           /\ [k \in Keys |-> OpenRow(k)]' = [k \in Keys |-> OpenRow(k)]
<1>1. /\ DOMAIN alerts = 1..Len(alerts) /\ DOMAIN alerts' = 1..Len(alerts')
      /\ Len(alerts) \in Nat /\ Len(alerts') \in Nat
  BY DEF TypeOK
<1>2. Len(alerts') = Len(alerts)
  BY <1>1 DEF SameRows
<1>3. ASSUME NEW k \in Keys PROVE OpenRow(k)' = OpenRow(k)
  <2>1. FiringRows(k)' = FiringRows(k)
    BY <1>1, <1>2 DEF FiringRows, IsFiring, SameRows
  <2> QED
    BY <2>1, OpenRowStays
<1> QED
  BY <1>2, <1>3

\* fire opens the alert of its key.
LEMMA FireOpens ==
    ASSUME IInv, TypeOK', "restore" \notin FaultKinds,
           NEW e \in Evaluators, NEW k \in Keys, Fire(e, k)
    PROVE  Lifecycle!Open(k)
<1> DEFINE new == Len(alerts) + 1
<1>0. /\ alerts \in Seq(Row) /\ Len(alerts) \in Nat /\ DOMAIN alerts = 1..Len(alerts)
  BY DEF IInv, TypeOK
<1>1. up /\ chat' = chat
  BY EngineAssumption DEF Fire, Turn, IInv, DownIsQuiet, delivery
<1>2. /\ DOMAIN alerts' = 1..new /\ Len(alerts') = new
      /\ alerts'[new].key = k /\ alerts'[new].state = "firing"
      /\ \A n \in DOMAIN alerts : alerts'[n] = alerts[n]
  BY <1>0 DEF Fire
<1>3. FiringRows(k) = {}
  BY <1>0, <1>1 DEF Fire, IInv, OneFiringRow, FiringRows
<1>4. FiringRows(k)' = {new}
  BY <1>0, <1>2, <1>3 DEF FiringRows, IsFiring
<1>5. ASSUME NEW j \in Keys \ {k} PROVE FiringRows(j)' = FiringRows(j)
  BY <1>0, <1>2 DEF FiringRows, IsFiring
<1>6. OpenRow(k) = 0
  BY <1>3, OpenRowFires
<1>7. OpenRow(k)' = new
  BY <1>4 DEF OpenRow
<1>8. ASSUME NEW j \in Keys \ {k} PROVE OpenRow(j)' = OpenRow(j)
  BY <1>5, OpenRowStays
<1>9. [j \in Keys |-> OpenRow(j)]' = [[j \in Keys |-> OpenRow(j)] EXCEPT ![k] = new]
  BY <1>7, <1>8
<1> QED
  BY <1>1, <1>2, <1>6, <1>9 DEF Lifecycle!Open

\* resolve closes it.
LEMMA ResolveCloses ==
    ASSUME IInv, TypeOK', "restore" \notin FaultKinds,
           NEW e \in Evaluators, NEW k \in Keys, Resolve(e, k)
    PROVE  Lifecycle!Close(k)
<1> DEFINE row == tracks[k].id
<1>0. alerts \in Seq(Row) /\ DOMAIN alerts = 1..Len(alerts) /\ TypeOK
  BY DEF IInv, TypeOK
<1>1. up /\ chat' = chat
  BY EngineAssumption DEF Resolve, Turn, IInv, DownIsQuiet, delivery
<1>2. /\ DOMAIN alerts' = DOMAIN alerts /\ Len(alerts') = Len(alerts)
      /\ \A m \in DOMAIN alerts :
            /\ alerts'[m].key = alerts[m].key
            /\ alerts'[m].state = IF m = row THEN "resolved" ELSE alerts[m].state
  BY <1>0, TypeResolveRow DEF Resolve
<1>3. row \in FiringRows(k) /\ row \in DOMAIN alerts /\ alerts[row].key = k
  BY <1>0 DEF Resolve, IInv, TrackedRowFires, FiringRows
<1>4. \A n \in FiringRows(k) : n = row
  BY <1>0, <1>1, <1>3 DEF IInv, OneFiringRow, FiringRows
<1>5. FiringRows(k)' = {}
  BY <1>0, <1>2, <1>4 DEF FiringRows, IsFiring
<1>6. ASSUME NEW j \in Keys \ {k} PROVE FiringRows(j)' = FiringRows(j)
  BY <1>0, <1>2, <1>3 DEF FiringRows, IsFiring
<1>7. OpenRow(k) # 0
  BY <1>3, OpenRowFires
<1>8. OpenRow(k)' = 0
  BY <1>5 DEF OpenRow
<1>9. ASSUME NEW j \in Keys \ {k} PROVE OpenRow(j)' = OpenRow(j)
  BY <1>6, OpenRowStays
<1>10. [j \in Keys |-> OpenRow(j)]' = [[j \in Keys |-> OpenRow(j)] EXCEPT ![k] = 0]
  BY <1>8, <1>9
<1> QED
  BY <1>1, <1>2, <1>7, <1>10 DEF Lifecycle!Close

\* What the courier sends, it may tell.
LEMMA SendTells ==
    ASSUME TypeOK, TypeOK', OrderInv, SameRows,
           courier.stage = "sending", chat' = chat \cup {courier.msg}
    PROVE  \E n \in 1..Len(alerts) : Lifecycle!TellFiring(n) \/ Lifecycle!TellResolved(n)
<1> DEFINE n == courier.msg.alert
<1>1. courier.msg \in Message /\ DOMAIN alerts = 1..Len(alerts)
  BY DEF TypeOK, Courier
<1>2. Known(courier.msg) /\ n \in 1..Len(alerts)
  BY <1>1 DEF OrderInv, NoticesAreKnown, Known
<1>3. /\ Len(alerts') = Len(alerts)
      /\ [k \in Keys |-> OpenRow(k)]' = [k \in Keys |-> OpenRow(k)]
  BY LifecycleSame
<1>4. CASE courier.msg.kind = "firing"
  <2>1. courier.msg = Firing(n)
    BY <1>1, <1>4 DEF Message, Firing
  <2>2. Resolved(n) \notin chat
    BY <1>4 DEF OrderInv, SentInOrder
  <2> QED
    BY <1>2, <1>3, <2>1, <2>2 DEF Lifecycle!TellFiring, Lifecycle!Notice, Firing, Resolved
<1>5. CASE courier.msg.kind = "resolved"
  <2>1. courier.msg = Resolved(n)
    BY <1>1, <1>5 DEF Message, Resolved
  <2>2. \A k \in Keys : n \notin FiringRows(k)
    BY <1>2, <1>5 DEF Known, FiringRows
  <2>3. n # 0
    BY <1>2
  <2>4. \A k \in Keys : OpenRow(k) # n
    BY <2>2, <2>3, OpenRowFires
  <2> QED
    BY <1>2, <1>3, <2>1, <2>4 DEF Lifecycle!TellResolved, Lifecycle!Closed, Lifecycle!Notice, Resolved
<1> QED
  BY <1>1, <1>4, <1>5 DEF Message

\* The engine starts where the lifecycle starts.
LEMMA LifecycleInit == Init => Lifecycle!Init
<1> SUFFICES ASSUME Init PROVE Lifecycle!Init
  OBVIOUS
<1>1. alerts = <<>> /\ Len(alerts) = 0 /\ chat = {}
  BY DEF Init
<1>2. \A k \in Keys : FiringRows(k) = {}
  BY <1>1 DEF FiringRows
<1>3. \A k \in Keys : OpenRow(k) = 0
  BY <1>2, OpenRowFires
<1> QED
  BY <1>1, <1>3 DEF Lifecycle!Init

\* A step of the engine is a step of the lifecycle, or none.
LEMMA LifecycleNext ==
    ASSUME "restore" \notin FaultKinds, IInv, IInv', OrderInv, [Next]_vars
    PROVE  [Lifecycle!Next]_(Lifecycle!vars)
<1>0. TypeOK /\ TypeOK'
  BY DEF IInv
<1>1. CASE \E e \in Evaluators, k \in Keys : Fire(e, k) \/ Resolve(e, k)
  BY <1>0, <1>1, FireOpens, ResolveCloses DEF Lifecycle!Next
<1>2. CASE ~ \E e \in Evaluators, k \in Keys : Fire(e, k) \/ Resolve(e, k)
  <2>1. SameRows
    BY <1>0, <1>2, RowsChange
  <2>2. CASE chat' = chat
    BY <1>0, <2>1, <2>2, LifecycleSame DEF Lifecycle!vars
  <2>3. CASE courier.stage = "sending" /\ chat' = chat \cup {courier.msg}
    BY <1>0, <2>1, <2>3, SendTells DEF Lifecycle!Next
  <2> QED
    BY <2>2, <2>3, ChatChanges
<1> QED
  BY <1>1, <1>2

\* As long as Restore reads the table, the table and the chat behave as if there
\* were one evaluator, no failure and no restart.
THEOREM EngineImplementsLifecycle ==
    ASSUME "restore" \notin FaultKinds
    PROVE  Spec => LifecycleSpec
<1>1. IInv /\ IInv' /\ OrderInv /\ [Next]_vars => [Lifecycle!Next]_(Lifecycle!vars)
  BY LifecycleNext
<1>2. Spec => []OrderInv
  <2>1. Init => IInv /\ OrderInv
    BY InvInit, OrderInit
  <2>2. IInv /\ OrderInv /\ [Next]_vars => (IInv /\ OrderInv)'
    BY InvNext, OrderNext
  <2> QED
    BY <2>1, <2>2, PTL DEF Spec
<1> QED
  BY <1>1, <1>2, LifecycleInit, Invariance, PTL DEF Spec, LifecycleSpec, Lifecycle!Spec

-----------------------------------------------------------------------------
(* The hold time and the debounce, for loops that overtake each other.  What *)
(* a track remembers is a reading of the clock by an evaluation that was late *)
(* by MaxLag at most when it wrote it down; nobody has decided against the   *)
(* track since, unless the holder of the mutex has, and is still to undo it. *)

\* The holder of the mutex has found that k does not hold, or that it does,
\* and has still to come to it.
ToForget(k) == lock # NoOne /\ k \in todo \ active

ToKeep(k) == lock # NoOne /\ k \in todo \cap active

\* A time since which k is pending is younger than what spoke against its
\* firing, but for the lag.
PendingHolds(k) ==
    tracks[k].pending # Never =>
        /\ tracks[k].id = 0
        /\ AtLeast(contrary[k], tracks[k].pending - MaxLag) \/ ToForget(k)

\* The same of the time since which an open alert is clear.
ClearHolds(k) ==
    tracks[k].clear # Never =>
        /\ tracks[k].id # 0
        /\ AtLeast(contrary[k], tracks[k].clear - MaxLag) \/ ToKeep(k)

HistoryInv ==
    /\ contrary \in [Keys -> Time]
    /\ \A k \in Keys : PendingHolds(k) /\ ClearHolds(k)

\* Ages get older together, and never further apart.
LEMMA AtLeastAges ==
    ASSUME NEW s \in Time, NEW t \in Time, t # Never, AtLeast(s, t - MaxLag)
    PROVE  AtLeast(Older(s), Older(t) - MaxLag)
  BY EngineAssumption DEF AtLeast, Older, Time, Never

\* The clock of an evaluation that is late is too old by its lag only.
LEMMA AtLeastLate ==
    ASSUME NEW s \in Time, NEW l \in 0..MaxLag
    PROVE  AtLeast(s, l - MaxLag)
  BY EngineAssumption DEF AtLeast, Time, Never

LEMMA HistoryInvInit == HistoryInit => HistoryInv
<1>1. Never \in Time
  BY EngineAssumption DEF Time, Never
<1> QED
  BY <1>1 DEF HistoryInit, Init, HistoryInv, PendingHolds, ClearHolds, NoTrack

LEMMA HistoryInvTick ==
    ASSUME TypeOK, HistoryInv, HistoryTick
    PROVE  HistoryInv'
<1>1. UNCHANGED <<lock, active, todo>> /\ contrary' = [k \in Keys |-> Older(contrary[k])]
  BY DEF HistoryTick, Tick
<1>2. contrary' \in [Keys -> Time]
  BY <1>1, OlderType DEF HistoryInv
<1>3. ASSUME NEW k \in Keys
      PROVE  (PendingHolds(k) /\ ClearHolds(k))'
  <2>1. tracks[k] \in Track /\ contrary[k] \in Time
    BY DEF TypeOK, HistoryInv
  <2>2. tracks'[k] = [tracks[k] EXCEPT !.pending = Older(@), !.clear = Older(@), !.last = Older(@)]
    BY DEF HistoryTick, Tick
  <2>3. /\ tracks'[k].pending = Older(tracks[k].pending)
        /\ tracks'[k].clear = Older(tracks[k].clear)
        /\ tracks'[k].id = tracks[k].id
        /\ tracks[k].pending \in Time /\ tracks[k].clear \in Time
    BY <2>1, <2>2 DEF Track
  <2>4. (ToForget(k)' <=> ToForget(k)) /\ (ToKeep(k)' <=> ToKeep(k))
    BY <1>1 DEF ToForget, ToKeep
  <2>5. Older(Never) = Never
    BY DEF Older
  <2>6. ASSUME NEW t \in Time, t # Never, AtLeast(contrary[k], t - MaxLag)
        PROVE  AtLeast(contrary'[k], Older(t) - MaxLag)
    BY <1>1, <2>1, <2>6, AtLeastAges DEF AtLeast
  <2>7. PendingHolds(k) /\ ClearHolds(k)
    BY DEF HistoryInv
  <2>8. PendingHolds(k)'
    <3> SUFFICES ASSUME tracks'[k].pending # Never
                 PROVE  /\ tracks'[k].id = 0
                        /\ AtLeast(contrary'[k], tracks'[k].pending - MaxLag) \/ ToForget(k)
      BY <2>4 DEF PendingHolds, AtLeast
    <3> QED
      BY <2>3, <2>5, <2>6, <2>7 DEF PendingHolds
  <2>9. ClearHolds(k)'
    <3> SUFFICES ASSUME tracks'[k].clear # Never
                 PROVE  /\ tracks'[k].id # 0
                        /\ AtLeast(contrary'[k], tracks'[k].clear - MaxLag) \/ ToKeep(k)
      BY <2>4 DEF ClearHolds, AtLeast
    <3> QED
      BY <2>3, <2>5, <2>6, <2>7 DEF ClearHolds
  <2> QED
    BY <2>8, <2>9
<1> QED
  BY <1>2, <1>3 DEF HistoryInv

\* Only fire fires, and only resolve resolves.
LEMMA WhoFires ==
    ASSUME TypeOK, [Next]_vars, NEW k \in Keys, Fires(k)
    PROVE  \E e \in Evaluators : Fire(e, k)
<1>0. /\ alerts \in Seq(Row) /\ DOMAIN alerts = 1..Len(alerts) /\ Len(alerts) \in Nat
      /\ ~SameRows
  BY DEF TypeOK, Fires, SameRows
<1>1. PICK e \in Evaluators, j \in Keys : Fire(e, j) \/ Resolve(e, j)
  BY <1>0, RowsChange
<1>2. CASE Fire(e, j)
  <2>1. /\ DOMAIN alerts' = 1..(Len(alerts) + 1)
        /\ alerts'[Len(alerts) + 1].key = j
    BY <1>0, <1>2 DEF Fire
  <2>2. j = k
    BY <1>0, <2>1 DEF Fires
  <2> QED
    BY <1>2, <2>2
<1>3. CASE Resolve(e, j)
  BY <1>3, TypeResolveRow DEF Resolve, Fires
<1> QED
  BY <1>1, <1>2, <1>3

LEMMA WhoResolves ==
    ASSUME IInv, [Next]_vars, NEW k \in Keys, Resolves(k)
    PROVE  \E e \in Evaluators : Resolve(e, k)
<1>0. /\ alerts \in Seq(Row) /\ DOMAIN alerts = 1..Len(alerts) /\ Len(alerts) \in Nat /\ TypeOK
      /\ ~SameRows
  BY DEF IInv, TypeOK, Resolves, SameRows, IsFiring
<1>1. PICK e \in Evaluators, j \in Keys : Fire(e, j) \/ Resolve(e, j)
  BY <1>0, RowsChange
<1>2. CASE Fire(e, j)
  <2>1. \A n \in DOMAIN alerts : alerts'[n] = alerts[n]
    BY <1>0, <1>2 DEF Fire
  <2> QED
    BY <2>1 DEF Resolves, IsFiring
<1>3. CASE Resolve(e, j)
  <2>1. \A n \in DOMAIN alerts : alerts'[n].state = IF n = tracks[j].id THEN "resolved" ELSE alerts[n].state
    BY <1>0, <1>3, TypeResolveRow DEF Resolve
  <2>2. alerts[tracks[j].id].key = j
    BY <1>3 DEF Resolve, IInv, TrackedRowFires, FiringRows
  <2>3. j = k
    BY <2>1, <2>2 DEF Resolves, IsFiring
  <2> QED
    BY <1>3, <2>3
<1> QED
  BY <1>1, <1>2, <1>3

\* When a rule fires or an alert is resolved, its track is neither pending nor
\* clear.
LEMMA TransitionForgets ==
    ASSUME IInv, [Next]_vars, NEW k \in Keys, Fires(k) \/ Resolves(k)
    PROVE  tracks'[k].pending = Never /\ tracks'[k].clear = Never
<1>1. PICK e \in Evaluators : Fire(e, k) \/ Resolve(e, k)
  BY WhoFires, WhoResolves DEF IInv
<1>2. tracks \in [Keys -> Track]
  BY DEF IInv, TypeOK
<1> QED
  BY <1>1, <1>2 DEF Fire, Resolve, NoTrack

\* Who decides against a track gets the mutex, and will come to it.
LEMMA WhoSpeaks ==
    ASSUME Step, NEW k \in Keys, SpeaksAgainst(k)
    PROVE  tracks' = tracks /\ todo' = Keys
<1>1. lock = NoOne /\ lock' # NoOne
  BY DEF SpeaksAgainst
<1>2. ASSUME NEW j \in Keys PROVE ~Flip(j)
  BY <1>1 DEF Flip, eval
<1>3. ~(Deliver \/ MarkFails \/ SendRefused \/ AnswerLost)
  BY <1>1 DEF Deliver, Dequeue, SendOk, Mark, MarkFails, SendRefused, AnswerLost, eval
<1>4. ~(Crash \/ Restart)
  BY <1>1 DEF Crash, Restart, eval
<1>5. ASSUME NEW e \in Evaluators PROVE ~(Prepare(e) \/ CountFails(e) \/ Unlock(e))
  BY <1>1 DEF Prepare, TakeSnapshot, CountRestarts, ReadClock, CountFails, Unlock
<1>6. ASSUME NEW e \in Evaluators, NEW j \in Keys PROVE ~EvaluateKey(e, j)
  BY <1>1 DEF EvaluateKey, KeepFiring, Hold, Fire, FireFails, Forget, Settle, Resolve,
              ResolveFails, Turn
<1>7. \E e \in Evaluators : Lock(e)
  BY <1>2, <1>3, <1>4, <1>5, <1>6 DEF Step
<1> QED
  BY <1>7 DEF Lock

\* What a turn of a key makes of its track.
LEMMA HistoryTurn ==
    ASSUME TypeOK, HistoryInv, NEW e \in Evaluators, NEW k \in Keys, EvaluateKey(e, k)
    PROVE  /\ tracks'[k].pending # Never =>
                 tracks'[k].id = 0 /\ AtLeast(contrary[k], tracks'[k].pending - MaxLag)
           /\ tracks'[k].clear # Never =>
                 tracks'[k].id # 0 /\ AtLeast(contrary[k], tracks'[k].clear - MaxLag)
<1>1. /\ lock = e /\ k \in todo
      /\ tracks \in [Keys -> Track] /\ tracks[k] \in Track
      /\ contrary[k] \in Time /\ lag[e] \in 0..MaxLag
  BY DEF EvaluateKey, KeepFiring, Hold, Fire, FireFails, Forget, Settle, Resolve, ResolveFails,
         Turn, TypeOK, HistoryInv
<1>2. AtLeast(contrary[k], lag[e] - MaxLag)
  BY <1>1, AtLeastLate
<1>3. /\ k \in active => ~ToForget(k)
      /\ k \notin active => ~ToKeep(k)
  BY DEF ToForget, ToKeep
<1>4. PendingHolds(k) /\ ClearHolds(k)
  BY DEF HistoryInv
<1>5. CASE KeepFiring(e, k)
  <2>1. tracks'[k].clear = Never /\ tracks'[k].pending = tracks[k].pending /\ tracks[k].id # 0
    BY <1>1, <1>5 DEF KeepFiring, Track
  <2> QED
    BY <1>4, <2>1 DEF PendingHolds
<1>6. CASE Hold(e, k) \/ FireFails(e, k)
  <2>1. /\ tracks'[k].clear = Never /\ tracks'[k].pending = PendingSince(e, k)
        /\ tracks'[k].id = 0 /\ k \in active
    BY <1>1, <1>6 DEF Hold, FireFails, Track
  <2> QED
    BY <1>2, <1>3, <1>4, <2>1 DEF PendingSince, PendingHolds
<1>7. CASE Fire(e, k) \/ Forget(e, k) \/ Resolve(e, k)
  BY <1>1, <1>7 DEF Fire, Forget, Resolve, NoTrack
<1>8. CASE Settle(e, k) \/ ResolveFails(e, k)
  <2>1. /\ tracks'[k].pending = Never /\ tracks'[k].clear = ClearSince(e, k)
        /\ tracks'[k].id # 0 /\ k \notin active
    BY <1>1, <1>8 DEF Settle, ResolveFails, Track
  <2> QED
    BY <1>2, <1>3, <1>4, <2>1 DEF ClearSince, ClearHolds
<1> QED
  BY <1>5, <1>6, <1>7, <1>8 DEF EvaluateKey

\* A step that neither speaks against k nor ends its turn.
LEMMA HistoryQuiet ==
    ASSUME HistoryInv, NEW k \in Keys, contrary'[k] = contrary[k],
           \/ /\ tracks'[k] = tracks[k]
              /\ ToForget(k) => ToForget(k)'
              /\ ToKeep(k) => ToKeep(k)'
           \/ tracks'[k].pending = Never /\ tracks'[k].clear = Never
    PROVE  (PendingHolds(k) /\ ClearHolds(k))'
<1>1. PendingHolds(k) /\ ClearHolds(k)
  BY DEF HistoryInv
<1> QED
  BY <1>1 DEF PendingHolds, ClearHolds, AtLeast

\* A step in which nothing is said of k.
LEMMA HistoryUnsaid ==
    ASSUME IInv, HistoryInv, Step, NEW k \in Keys, contrary'[k] = contrary[k]
    PROVE  (PendingHolds(k) /\ ClearHolds(k))'
<1>0. TypeOK
  BY DEF IInv
<1>1. ASSUME UNCHANGED <<lock, active, todo, tracks>>
      PROVE  (PendingHolds(k) /\ ClearHolds(k))'
  BY <1>1, HistoryQuiet DEF ToForget, ToKeep
<1>2. ASSUME NEW j \in Keys, Flip(j) PROVE (PendingHolds(k) /\ ClearHolds(k))'
  BY <1>1, <1>2 DEF Flip, eval
<1>3. CASE Deliver \/ MarkFails \/ SendRefused \/ AnswerLost
  BY <1>1, <1>3 DEF Deliver, Dequeue, SendOk, Mark, MarkFails, SendRefused, AnswerLost, eval
<1>4. ASSUME NEW e \in Evaluators, Prepare(e) \/ CountFails(e)
      PROVE  (PendingHolds(k) /\ ClearHolds(k))'
  BY <1>1, <1>4 DEF Prepare, TakeSnapshot, CountRestarts, ReadClock, CountFails
<1>5. ASSUME NEW e \in Evaluators, Lock(e) \/ Unlock(e)
      PROVE  (PendingHolds(k) /\ ClearHolds(k))'
  <2>1. tracks' = tracks /\ ~ToForget(k) /\ ~ToKeep(k)
    BY <1>5 DEF Lock, Unlock, ToForget, ToKeep
  <2> QED
    BY <2>1, HistoryQuiet
<1>6. ASSUME NEW e \in Evaluators, NEW j \in Keys, EvaluateKey(e, j)
      PROVE  (PendingHolds(k) /\ ClearHolds(k))'
  <2>1. UNCHANGED <<lock, active>> /\ todo' = todo \ {j}
    BY <1>6 DEF EvaluateKey, KeepFiring, Hold, Fire, FireFails, Forget, Settle, Resolve,
                ResolveFails, Turn
  <2>2. CASE j = k
    BY <1>0, <1>6, <2>2, HistoryTurn DEF PendingHolds, ClearHolds, AtLeast
  <2>3. CASE j # k
    <3>1. tracks'[k] = tracks[k]
      BY <1>0, <1>6, <2>3 DEF EvaluateKey, KeepFiring, Hold, Fire, FireFails, Forget, Settle,
                              Resolve, ResolveFails, TypeOK
    <3> QED
      BY <2>1, <2>3, <3>1, HistoryQuiet DEF ToForget, ToKeep
  <2> QED
    BY <2>2, <2>3
<1>7. CASE Crash
  BY <1>7, HistoryQuiet DEF Crash, NoTrack
<1>8. CASE Restart
  <2>1. CASE Restored
    <3>1. PICK row : tracks' = [i \in Keys |-> IF row[i] = 0 THEN NoTrack ELSE RestoredTrack(row[i])]
      BY <2>1 DEF Restored
    <3>2. \A n : RestoredTrack(n).pending = Never /\ RestoredTrack(n).clear = Never
      BY DEF RestoredTrack, NoTrack
    <3>3. tracks'[k].pending = Never /\ tracks'[k].clear = Never
      BY <3>1, <3>2 DEF NoTrack
    <3> QED
      BY <3>3, HistoryQuiet
  <2>2. CASE Unrestored
    BY <1>1, <1>8, <2>2 DEF Restart, Unrestored, eval
  <2> QED
    BY <1>8, <2>1, <2>2 DEF Restart
<1> QED
  BY <1>2, <1>3, <1>4, <1>5, <1>6, <1>7, <1>8 DEF Step

LEMMA HistoryInvStep ==
    ASSUME IInv, HistoryInv, HistoryStep
    PROVE  HistoryInv'
<1>1. Step /\ [Next]_vars
  BY DEF HistoryStep, Next
<1>2. /\ contrary' = [k \in Keys |->
            IF "contrary" \in Watched /\ (Fires(k) \/ Resolves(k) \/ SpeaksAgainst(k)) THEN 0 ELSE contrary[k]]
      /\ contrary \in [Keys -> Time]
  BY DEF HistoryStep, HistoryInv
<1>3. 0 \in Time
  BY EngineAssumption DEF Time, Never
<1>4. contrary' \in [Keys -> Time]
  BY <1>2, <1>3
<1>5. ASSUME NEW k \in Keys
      PROVE  (PendingHolds(k) /\ ClearHolds(k))'
  <2>1. CASE contrary'[k] = contrary[k]
    BY <1>1, <2>1, HistoryUnsaid
  <2>2. CASE Fires(k) \/ Resolves(k)
    BY <1>1, <2>2, TransitionForgets DEF PendingHolds, ClearHolds
  <2>3. CASE SpeaksAgainst(k)
    <3>1. tracks' = tracks /\ todo' = Keys
      BY <1>1, <2>3, WhoSpeaks
    <3>2. /\ lock' # NoOne
          /\ k \in active' <=> tracks[k].id > 0
          /\ tracks[k].id \in Nat
      BY <2>3 DEF SpeaksAgainst, IInv, TypeOK, Track
    <3>3. /\ tracks[k].id = 0 => ToForget(k)'
          /\ tracks[k].id # 0 => ToKeep(k)'
      BY <3>1, <3>2 DEF ToForget, ToKeep
    <3>4. PendingHolds(k) /\ ClearHolds(k)
      BY DEF HistoryInv
    <3> QED
      BY <3>1, <3>3, <3>4 DEF PendingHolds, ClearHolds
  <2> QED
    BY <1>2, <2>1, <2>2, <2>3
<1> QED
  BY <1>4, <1>5 DEF HistoryInv

\* The history watches the engine and does not change it.
LEMMA HistoryOnlyWatches == HistorySpec => Spec
<1>1. HistoryInit => Init
  BY DEF HistoryInit
<1>2. [HistoryNext]_<<vars, history>> => [Next]_vars
  BY DEF HistoryNext, HistoryTick, HistoryStep, Next, vars
<1> QED
  BY <1>1, <1>2, PTL DEF HistorySpec, Spec

LEMMA HistoryInvariance == HistorySpec => [](IInv /\ HistoryInv)
<1>1. Spec => []IInv
  BY Invariance
<1>2. IInv /\ HistoryInv /\ [HistoryNext]_<<vars, history>> => HistoryInv'
  <2> SUFFICES ASSUME IInv, HistoryInv, [HistoryNext]_<<vars, history>>
               PROVE  HistoryInv'
    OBVIOUS
  <2>1. CASE UNCHANGED <<vars, history>>
    BY <2>1 DEF vars, history, HistoryInv, PendingHolds, ClearHolds, AtLeast, ToForget, ToKeep
  <2> QED
    BY <2>1, HistoryInvTick, HistoryInvStep DEF HistoryNext, IInv
<1> QED
  BY <1>1, <1>2, HistoryInvInit, HistoryOnlyWatches, PTL DEF HistorySpec

\* With any number of loops that overtake each other, a rule that fires was not
\* found clear by an evaluation within its hold time, less what an evaluation
\* may be late, through failed inserts and queries, kills and restarts.
THEOREM RuleIsHeldBeforeFiring == HistorySpec => HeldButForLag
<1>1. IInv /\ HistoryInv /\ [HistoryNext]_<<vars, history>> =>
        [\A k \in Keys : Fires(k) => AtLeast(contrary[k], HoldFor[k] - MaxLag)]_<<vars, history>>
  <2> SUFFICES ASSUME IInv, HistoryInv, [Next]_vars, NEW k \in Keys, Fires(k)
               PROVE  AtLeast(contrary[k], HoldFor[k] - MaxLag)
    BY DEF HistoryNext, HistoryTick, HistoryStep, Next, vars
  <2>0. TypeOK
    BY DEF IInv
  <2>1. PICK e \in Evaluators : Fire(e, k)
    BY <2>0, WhoFires
  <2>2. k \in active /\ Since(e, PendingSince(e, k)) >= HoldFor[k]
    BY <2>1 DEF Fire, MayFire
  <2>3. /\ lag[e] \in Nat /\ HoldFor[k] \in Nat /\ MaxLag \in Nat
        /\ contrary[k] \in Time /\ tracks[k].pending \in Time
    BY <2>0, EngineAssumption DEF TypeOK, HistoryInv, Track
  <2>4. CASE tracks[k].pending = Never
    <3>1. HoldFor[k] = 0
      BY <2>2, <2>3, <2>4 DEF Since, PendingSince
    <3> QED
      BY <2>3, <3>1 DEF AtLeast, Time, Never
  <2>5. CASE tracks[k].pending # Never
    <3>1. AtLeast(contrary[k], tracks[k].pending - MaxLag)
      BY <2>2, <2>5 DEF HistoryInv, PendingHolds, ToForget
    <3>2. tracks[k].pending >= HoldFor[k] /\ tracks[k].pending \in Nat
      BY <2>2, <2>3, <2>5, EngineAssumption DEF Since, PendingSince, Time, Never
    <3> QED
      BY <2>3, <3>1, <3>2 DEF AtLeast, Time, Never
  <2> QED
    BY <2>4, <2>5
<1> QED
  BY <1>1, HistoryInvariance, PTL DEF HistorySpec, HeldButForLag

\* With any number of loops that overtake each other, an alert that is resolved
\* was opened, and its rule last found to hold, no less than the debounce ago,
\* less what an evaluation may be late.
THEOREM ValueIsClearBeforeResolving == HistorySpec => ClearButForLag
<1>1. IInv /\ HistoryInv /\ [HistoryNext]_<<vars, history>> =>
        [\A k \in Keys : Resolves(k) => AtLeast(contrary[k], Debounce - MaxLag)]_<<vars, history>>
  <2> SUFFICES ASSUME IInv, HistoryInv, [Next]_vars, NEW k \in Keys, Resolves(k)
               PROVE  AtLeast(contrary[k], Debounce - MaxLag)
    BY DEF HistoryNext, HistoryTick, HistoryStep, Next, vars
  <2>0. TypeOK
    BY DEF IInv
  <2>1. PICK e \in Evaluators : Resolve(e, k)
    BY WhoResolves
  <2>2. k \notin active /\ Since(e, ClearSince(e, k)) >= Debounce
    BY <2>1 DEF Resolve
  <2>3. /\ lag[e] \in Nat /\ Debounce \in Nat /\ MaxLag \in Nat
        /\ contrary[k] \in Time /\ tracks[k].clear \in Time
    BY <2>0, EngineAssumption DEF TypeOK, HistoryInv, Track
  <2>4. CASE tracks[k].clear = Never
    <3>1. Debounce = 0
      BY <2>2, <2>3, <2>4 DEF Since, ClearSince
    <3> QED
      BY <2>3, <3>1 DEF AtLeast, Time, Never
  <2>5. CASE tracks[k].clear # Never
    <3>1. AtLeast(contrary[k], tracks[k].clear - MaxLag)
      BY <2>2, <2>5 DEF HistoryInv, ClearHolds, ToKeep
    <3>2. tracks[k].clear >= Debounce /\ tracks[k].clear \in Nat
      BY <2>2, <2>3, <2>5, EngineAssumption DEF Since, ClearSince, Time, Never
    <3> QED
      BY <2>3, <3>1, <3>2 DEF AtLeast, Time, Never
  <2> QED
    BY <2>4, <2>5
<1> QED
  BY <1>1, HistoryInvariance, PTL DEF HistorySpec, ClearButForLag
=============================================================================
