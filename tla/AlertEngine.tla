---------------------------- MODULE AlertEngine ----------------------------
(* internal/alerts: rule evaluation, the alerts table and Telegram          *)
(* delivery, together with the goroutines that call Engine.Evaluate.        *)
(*                                                                          *)
(* Three collector loops (stats, host, events) each take a snapshot, query  *)
(* the restart counts, read the clock and only then take the engine's       *)
(* mutex, so that evaluations may be applied in another order than the one  *)
(* their data was read in.  One goroutine delivers what they enqueue.       *)
(*                                                                          *)
(* A time.Time is kept as its AGE, the number of ticks since: Tick makes    *)
(* every stored time one tick older, and now.Sub(t) is the age of t minus   *)
(* the age of the reading now.  Ages saturate at MaxAge, above every delay  *)
(* they are compared with, so time itself is unbounded.  Never is the zero  *)
(* time.Time.                                                               *)
EXTENDS Integers, Sequences

CONSTANTS
    Keys,          \* rule|target pairs
    BandKeys,      \* the percent and temperature rules, which have hysteresis
    RestartKeys,   \* the restart_loop rules, fed by RestartCounts
    Evaluators,    \* the goroutines that call Collector.evaluate
    NoOne,         \* nobody holds Engine.mu
    HoldFor,       \* condition.holdFor of each key
    Debounce,      \* AlertThresholds.Debounce
    HasNotifier,   \* a Telegram token is configured
    QueueCap,      \* capacity of Engine.queue
    MaxTries,      \* attempts of one delivery
    FaultKinds,    \* what may fail: a subset of AllFaults
    \* Bounds of the model
    MaxLag,        \* ticks an evaluation may wait after reading the clock
    MaxAge,        \* where ages saturate
    MaxFlips,      \* changes of the monitored world
    MaxFaults      \* failures of any kind but "restore", which needs a crash

AllFaults == {"count", "open", "resolve", "refused", "lost", "mark", "crash", "restore"}

ASSUME EngineAssumption ==
    /\ BandKeys \subseteq Keys
    /\ RestartKeys \subseteq Keys
    /\ NoOne \notin Evaluators
    /\ HoldFor \in [Keys -> Nat]
    /\ Debounce \in Nat
    /\ HasNotifier \in BOOLEAN
    /\ QueueCap \in Nat \ {0}
    /\ MaxTries \in Nat \ {0}
    /\ FaultKinds \subseteq AllFaults
    /\ MaxLag \in Nat
    /\ MaxAge \in Nat
    /\ \A k \in Keys : HoldFor[k] + MaxLag <= MaxAge
    /\ Debounce + MaxLag <= MaxAge
    /\ MaxFlips \in Nat
    /\ MaxFaults \in Nat

VARIABLES
    level,    \* the monitored value of each key: "clear", "band" or "high"
    flips,    \* changes of the world still allowed
    faults,   \* failures still allowed
    up,       \* the dashboard process runs
    pc,       \* where each evaluator is
    snap,     \* the levels each evaluator has read
    lag,      \* the age of each evaluator's reading of the clock
    lock,     \* the holder of Engine.mu
    active,   \* the holder's conditions
    todo,     \* the keys the holder has still to go through
    tracks,   \* Engine.tracks; a key without an entry has NoTrack
    alerts,   \* the alerts table, a row at the index that is its id
    queue,    \* Engine.queue
    courier,  \* the state of Engine.deliver
    chat      \* history: the messages the chat has received

world    == <<level, flips>>
eval     == <<pc, snap, lag, lock, active, todo>>
delivery == <<courier, chat>>
vars     == <<level, flips, faults, up, pc, snap, lag, lock, active, todo,
              tracks, alerts, queue, courier, chat>>

-----------------------------------------------------------------------------
(* Data *)

Level == {"clear", "band", "high"}

\* Only a rule with hysteresis tells the band from the values below it.
LevelOf(k) == IF k \in BandKeys THEN Level ELSE {"clear", "high"}

Never == -1
Time  == Never..MaxAge
Stage == {"idle", "snapped", "counted", "timed", "evaluating"}

Track   == [pending : Time, clear : Time, id : Nat, last : Time]
NoTrack == [pending |-> Never, clear |-> Never, id |-> 0, last |-> Never]

\* A row of the alerts table.  fired is the age of fired_at, which Restore
\* reads from firing rows only; it is dropped when the alert resolves.
Row     == [key : Keys, state : {"firing", "resolved"}, fired : Time, notified : BOOLEAN]
Message == [kind : {"firing", "resolved"}, alert : Nat]

Firing(m)   == [kind |-> "firing", alert |-> m]
Resolved(m) == [kind |-> "resolved", alert |-> m]
Nothing     == Resolved(0)
Idle        == [stage |-> "idle", msg |-> Nothing, tries |-> 0]
Courier     == [stage : {"idle", "sending", "marking"}, msg : Message, tries : 0..(MaxTries - 1)]

AllClear == [k \in Keys |-> "clear"]

Older(t) == IF t = Never \/ t = MaxAge THEN t ELSE t + 1

\* The n-th row is firing.
IsFiring(n) == alerts[n].state = "firing"

FiringRows(k) == {n \in 1..Len(alerts) : alerts[n].key = k /\ IsFiring(n)}

TypeOK ==
    /\ level \in [Keys -> Level]
    /\ flips \in 0..MaxFlips
    /\ faults \in 0..MaxFaults
    /\ up \in BOOLEAN
    /\ pc \in [Evaluators -> Stage]
    /\ snap \in [Evaluators -> [Keys -> Level]]
    /\ lag \in [Evaluators -> 0..MaxLag]
    /\ lock \in Evaluators \cup {NoOne}
    /\ active \in SUBSET Keys
    /\ todo \in SUBSET Keys
    /\ tracks \in [Keys -> Track]
    /\ alerts \in Seq(Row)
    /\ queue \in Seq(Message)
    /\ courier \in Courier
    /\ chat \in SUBSET Message

Init ==
    /\ level = AllClear
    /\ flips = MaxFlips
    /\ faults = MaxFaults
    /\ up = TRUE
    /\ pc = [e \in Evaluators |-> "idle"]
    /\ snap = [e \in Evaluators |-> AllClear]
    /\ lag = [e \in Evaluators |-> 0]
    /\ lock = NoOne
    /\ active = {}
    /\ todo = {}
    /\ tracks = [k \in Keys |-> NoTrack]
    /\ alerts = <<>>
    /\ queue = <<>>
    /\ courier = Idle
    /\ chat = {}

\* One failure of this kind happens in this step.
Fault(kind) ==
    /\ kind \in FaultKinds
    /\ faults > 0
    /\ faults' = faults - 1

-----------------------------------------------------------------------------
(* The environment *)

\* A monitored value crosses a threshold.
Flip(k) ==
    /\ flips > 0
    /\ flips' = flips - 1
    /\ \E l \in LevelOf(k) \ {level[k]} : level' = [level EXCEPT ![k] = l]
    /\ UNCHANGED <<faults, up, eval, tracks, alerts, queue, delivery>>

\* Time passes: whatever is remembered as a time.Time gets older.
Tick ==
    /\ \A e \in Evaluators : pc[e] \in {"timed", "evaluating"} => lag[e] < MaxLag
    /\ lag' = [e \in Evaluators |->
                 IF pc[e] \in {"timed", "evaluating"} THEN lag[e] + 1 ELSE lag[e]]
    /\ tracks' = [k \in Keys |-> [tracks[k] EXCEPT !.pending = Older(@),
                                                   !.clear = Older(@),
                                                   !.last = Older(@)]]
    /\ alerts' = [n \in DOMAIN alerts |-> [alerts[n] EXCEPT !.fired = Older(@)]]
    /\ UNCHANGED <<world, faults, up, pc, snap, lock, active, todo, queue, delivery>>

-----------------------------------------------------------------------------
(* Collector.evaluate, up to the mutex *)

\* snap := c.Snapshot()
TakeSnapshot(e) ==
    /\ up
    /\ pc[e] = "idle"
    /\ pc' = [pc EXCEPT ![e] = "snapped"]
    /\ snap' = [snap EXCEPT ![e] = [k \in Keys |->
                  IF k \in RestartKeys THEN "clear" ELSE level[k]]]
    /\ UNCHANGED <<world, faults, up, lag, lock, active, todo, tracks, alerts, queue, delivery>>

\* restarts := c.store.RestartCounts(...)
CountRestarts(e) ==
    /\ pc[e] = "snapped"
    /\ pc' = [pc EXCEPT ![e] = "counted"]
    /\ snap' = [snap EXCEPT ![e] = [k \in Keys |->
                  IF k \in RestartKeys THEN level[k] ELSE @[k]]]
    /\ UNCHANGED <<world, faults, up, lag, lock, active, todo, tracks, alerts, queue, delivery>>

\* The query failed and the counts are taken as empty.
CountFails(e) ==
    /\ pc[e] = "snapped"
    /\ Fault("count")
    /\ pc' = [pc EXCEPT ![e] = "counted"]
    /\ UNCHANGED <<world, up, snap, lag, lock, active, todo, tracks, alerts, queue, delivery>>

\* now := time.Now(), before e.mu.Lock()
ReadClock(e) ==
    /\ pc[e] = "counted"
    /\ pc' = [pc EXCEPT ![e] = "timed"]
    /\ UNCHANGED <<world, faults, up, snap, lag, lock, active, todo, tracks, alerts, queue, delivery>>

-----------------------------------------------------------------------------
(* Engine.Evaluate, under the mutex.  The steps go through the keys one at  *)
(* a time because the process may be killed between two of them.            *)

\* Whether a rule holds: isFiring lowers the limit of a firing rule.
Holds(e, k) ==
    \/ snap[e][k] = "high"
    \/ snap[e][k] = "band" /\ k \in BandKeys /\ tracks[k].id > 0

Lock(e) ==
    /\ pc[e] = "timed"
    /\ lock = NoOne
    /\ lock' = e
    /\ pc' = [pc EXCEPT ![e] = "evaluating"]
    /\ active' = {k \in Keys : Holds(e, k)}
    /\ todo' = Keys
    /\ UNCHANGED <<world, faults, up, snap, lag, tracks, alerts, queue, delivery>>

\* It is k's turn: the loop over the conditions runs before the other one.
Turn(e, k) ==
    /\ lock = e
    /\ k \in todo
    /\ k \in active \/ todo \cap active = {}
    /\ todo' = todo \ {k}
    /\ UNCHANGED <<world, up, pc, snap, lag, lock, active, delivery>>

\* now.Sub(t), for a time t that is set.
Since(e, t) == t - lag[e]

PendingSince(e, k) == IF tracks[k].pending = Never THEN lag[e] ELSE tracks[k].pending

ClearSince(e, k) == IF tracks[k].clear = Never THEN lag[e] ELSE tracks[k].clear

MayFire(e, k) ==
    /\ Since(e, PendingSince(e, k)) >= HoldFor[k]
    /\ tracks[k].last = Never \/ Since(e, tracks[k].last) >= Debounce

Enqueue(m) ==
    queue' = IF HasNotifier /\ Len(queue) < QueueCap THEN Append(queue, m) ELSE queue

\* Faulty variants of the steps below, one slip of the code each; the runs
\* are repeated with them to see which property notices.
KeepFiringStillClear(e, k) ==
    /\ Turn(e, k)
    /\ k \in active
    /\ tracks[k].id > 0
    /\ UNCHANGED <<faults, tracks, alerts, queue>>

FireErrorIgnored(e, k) ==
    /\ Turn(e, k)
    /\ k \in active
    /\ tracks[k].id = 0
    /\ MayFire(e, k)
    /\ Fault("open")
    /\ tracks' = [tracks EXCEPT ![k].id = Len(alerts) + 1]
    /\ UNCHANGED <<alerts, queue>>

ForgetButPending(e, k) ==
    /\ Turn(e, k)
    /\ k \notin active
    /\ tracks[k].id = 0
    /\ UNCHANGED <<faults, tracks, alerts, queue>>

\* The rule holds and its alert is open already.
KeepFiring(e, k) ==
    /\ Turn(e, k)
    /\ k \in active
    /\ tracks[k].id > 0
    /\ tracks' = [tracks EXCEPT ![k].clear = Never]
    /\ UNCHANGED <<faults, alerts, queue>>

\* The rule holds, but not for long enough.
Hold(e, k) ==
    /\ Turn(e, k)
    /\ k \in active
    /\ tracks[k].id = 0
    /\ ~MayFire(e, k)
    /\ tracks' = [tracks EXCEPT ![k].clear = Never, ![k].pending = PendingSince(e, k)]
    /\ UNCHANGED <<faults, alerts, queue>>

\* Engine.fire: OpenAlert inserts the row, then the alert is queued.
Fire(e, k) ==
    /\ Turn(e, k)
    /\ k \in active
    /\ tracks[k].id = 0
    /\ MayFire(e, k)
    /\ alerts' = Append(alerts, [key |-> k, state |-> "firing", fired |-> lag[e], notified |-> FALSE])
    /\ tracks' = [tracks EXCEPT ![k] = [pending |-> Never, clear |-> Never,
                                        id |-> Len(alerts) + 1, last |-> lag[e]]]
    /\ Enqueue(Firing(Len(alerts) + 1))
    /\ UNCHANGED faults

\* OpenAlert fails: the next evaluation tries again.
FireFails(e, k) ==
    /\ Turn(e, k)
    /\ k \in active
    /\ tracks[k].id = 0
    /\ MayFire(e, k)
    /\ Fault("open")
    /\ tracks' = [tracks EXCEPT ![k].clear = Never, ![k].pending = PendingSince(e, k)]
    /\ UNCHANGED <<alerts, queue>>

\* The rule does not hold and no alert is open.
Forget(e, k) ==
    /\ Turn(e, k)
    /\ k \notin active
    /\ tracks[k].id = 0
    /\ tracks' = [tracks EXCEPT ![k] = NoTrack]
    /\ UNCHANGED <<faults, alerts, queue>>

\* The alert's rule does not hold any more, but not for long enough.
Settle(e, k) ==
    /\ Turn(e, k)
    /\ k \notin active
    /\ tracks[k].id > 0
    /\ Since(e, ClearSince(e, k)) < Debounce
    /\ tracks' = [tracks EXCEPT ![k].pending = Never, ![k].clear = ClearSince(e, k)]
    /\ UNCHANGED <<faults, alerts, queue>>

\* ResolveAlert: UPDATE ... WHERE id = ? AND state = 'firing'
ResolveRow(n) ==
    alerts' = IF n \in DOMAIN alerts /\ IsFiring(n)
              THEN [alerts EXCEPT ![n].state = "resolved", ![n].fired = Never]
              ELSE alerts

\* Faulty variants: the track is left behind, or remembers the transition, or
\* the failure of ResolveAlert is only logged.
ResolveKeepsTrack(e, k) ==
    /\ Turn(e, k)
    /\ k \notin active
    /\ tracks[k].id > 0
    /\ Since(e, ClearSince(e, k)) >= Debounce
    /\ ResolveRow(tracks[k].id)
    /\ Enqueue(Resolved(tracks[k].id))
    /\ UNCHANGED <<faults, tracks>>

ResolveKeepsTransition(e, k) ==
    /\ Turn(e, k)
    /\ k \notin active
    /\ tracks[k].id > 0
    /\ Since(e, ClearSince(e, k)) >= Debounce
    /\ ResolveRow(tracks[k].id)
    /\ Enqueue(Resolved(tracks[k].id))
    /\ tracks' = [tracks EXCEPT ![k] = [NoTrack EXCEPT !.last = lag[e]]]
    /\ UNCHANGED faults

ResolveErrorIgnored(e, k) ==
    /\ Turn(e, k)
    /\ k \notin active
    /\ tracks[k].id > 0
    /\ Since(e, ClearSince(e, k)) >= Debounce
    /\ Fault("resolve")
    /\ Enqueue(Resolved(tracks[k].id))
    /\ tracks' = [tracks EXCEPT ![k] = NoTrack]
    /\ UNCHANGED alerts

\* Engine.resolve: the row is closed, the track is deleted.
Resolve(e, k) ==
    /\ Turn(e, k)
    /\ k \notin active
    /\ tracks[k].id > 0
    /\ Since(e, ClearSince(e, k)) >= Debounce
    /\ ResolveRow(tracks[k].id)
    /\ Enqueue(Resolved(tracks[k].id))
    /\ tracks' = [tracks EXCEPT ![k] = NoTrack]
    /\ UNCHANGED faults

\* ResolveAlert fails: the next evaluation tries again.
ResolveFails(e, k) ==
    /\ Turn(e, k)
    /\ k \notin active
    /\ tracks[k].id > 0
    /\ Since(e, ClearSince(e, k)) >= Debounce
    /\ Fault("resolve")
    /\ tracks' = [tracks EXCEPT ![k].pending = Never, ![k].clear = ClearSince(e, k)]
    /\ UNCHANGED <<alerts, queue>>

Unlock(e) ==
    /\ lock = e
    /\ todo = {}
    /\ lock' = NoOne
    /\ active' = {}
    /\ pc' = [pc EXCEPT ![e] = "idle"]
    /\ snap' = [snap EXCEPT ![e] = AllClear]
    /\ lag' = [lag EXCEPT ![e] = 0]
    /\ UNCHANGED <<world, faults, up, todo, tracks, alerts, queue, delivery>>

EvaluateKey(e, k) ==
    \/ KeepFiring(e, k) \/ Hold(e, k) \/ Fire(e, k) \/ FireFails(e, k)
    \/ Forget(e, k) \/ Settle(e, k) \/ Resolve(e, k) \/ ResolveFails(e, k)

-----------------------------------------------------------------------------
(* Engine.Run and Engine.deliver: one goroutine, one message at a time *)

\* A faulty variant: the newest message goes first.
DequeueNewest ==
    /\ courier = Idle
    /\ queue # <<>>
    /\ courier' = [stage |-> "sending", msg |-> queue[Len(queue)], tries |-> 0]
    /\ queue' = SubSeq(queue, 1, Len(queue) - 1)
    /\ UNCHANGED <<world, faults, up, eval, tracks, alerts, chat>>

Dequeue ==
    /\ courier = Idle
    /\ queue # <<>>
    /\ courier' = [stage |-> "sending", msg |-> Head(queue), tries |-> 0]
    /\ queue' = Tail(queue)
    /\ UNCHANGED <<world, faults, up, eval, tracks, alerts, chat>>

\* Send returns nil.  Only the notice of a firing alert carries its id.
SendOk ==
    /\ courier.stage = "sending"
    /\ chat' = chat \cup {courier.msg}
    /\ courier' = IF courier.msg.kind = "firing"
                  THEN [courier EXCEPT !.stage = "marking"]
                  ELSE Idle
    /\ UNCHANGED <<world, faults, up, eval, tracks, alerts, queue>>

\* MarkAlertNotified
Mark ==
    /\ courier.stage = "marking"
    /\ courier' = Idle
    /\ alerts' = [alerts EXCEPT ![courier.msg.alert].notified = TRUE]
    /\ UNCHANGED <<world, faults, up, eval, tracks, queue, chat>>

\* Its failure is only logged.
MarkFails ==
    /\ courier.stage = "marking"
    /\ Fault("mark")
    /\ courier' = Idle
    /\ UNCHANGED <<world, up, eval, tracks, alerts, queue, chat>>

\* Faulty variants of NextTry: one try too few, and giving up as if the message
\* had been sent.
GiveUpEarly ==
    courier' = IF courier.tries + 2 >= MaxTries
               THEN Idle
               ELSE [courier EXCEPT !.tries = @ + 1]

GiveUpMarking ==
    courier' = IF courier.tries + 1 = MaxTries
               THEN [courier EXCEPT !.stage = IF courier.msg.kind = "firing" THEN "marking" ELSE @]
               ELSE [courier EXCEPT !.tries = @ + 1]

\* After a failed attempt: wait and try again, or give the message up.
NextTry ==
    courier' = IF courier.tries + 1 = MaxTries
               THEN Idle
               ELSE [courier EXCEPT !.tries = @ + 1]

\* The channel refuses or cannot be reached.
SendRefused ==
    /\ courier.stage = "sending"
    /\ Fault("refused")
    /\ NextTry
    /\ UNCHANGED <<world, up, eval, tracks, alerts, queue, chat>>

\* The chat gets the message, but the answer does not come in 15 seconds.
AnswerLost ==
    /\ courier.stage = "sending"
    /\ Fault("lost")
    /\ chat' = chat \cup {courier.msg}
    /\ NextTry
    /\ UNCHANGED <<world, up, eval, tracks, alerts, queue>>

-----------------------------------------------------------------------------
(* The process dies and starts again *)

Crash ==
    /\ up
    /\ Fault("crash")
    /\ up' = FALSE
    /\ pc' = [e \in Evaluators |-> "idle"]
    /\ snap' = [e \in Evaluators |-> AllClear]
    /\ lag' = [e \in Evaluators |-> 0]
    /\ lock' = NoOne
    /\ active' = {}
    /\ todo' = {}
    /\ tracks' = [k \in Keys |-> NoTrack]
    /\ queue' = <<>>
    /\ courier' = Idle
    /\ UNCHANGED <<world, alerts, chat>>

\* Of several firing rows of a key, the one that fired first is read last.
RestoredRow(k, n) ==
    /\ n \in FiringRows(k)
    /\ \A m \in FiringRows(k) : alerts[m].fired <= alerts[n].fired

\* A faulty variant: the row's id is not taken over.
RestoredWithoutId(n) == [NoTrack EXCEPT !.last = alerts[n].fired]

RestoredTrack(n) == [NoTrack EXCEPT !.id = n, !.last = alerts[n].fired]

\* Engine.Restore: the newest firing row of each key becomes its track.
Restored ==
    \E row \in [Keys -> 0..Len(alerts)] :
        /\ \A k \in Keys : IF FiringRows(k) = {} THEN row[k] = 0 ELSE RestoredRow(k, row[k])
        /\ tracks' = [k \in Keys |-> IF row[k] = 0 THEN NoTrack ELSE RestoredTrack(row[k])]

\* Restore fails, which run only logs.
Unrestored == "restore" \in FaultKinds /\ UNCHANGED tracks

\* run: Engine.Restore, then the loops.
Restart ==
    /\ ~up
    /\ up' = TRUE
    /\ Restored \/ Unrestored
    /\ UNCHANGED <<world, faults, eval, alerts, queue, delivery>>

-----------------------------------------------------------------------------

Prepare(e) == TakeSnapshot(e) \/ CountRestarts(e) \/ ReadClock(e)

Deliver == Dequeue \/ SendOk \/ Mark

\* Everything but the passing of time.
Step ==
    \/ \E k \in Keys : Flip(k)
    \/ \E e \in Evaluators :
         \/ Prepare(e) \/ CountFails(e) \/ Lock(e) \/ Unlock(e)
         \/ \E k \in Keys : EvaluateKey(e, k)
    \/ Deliver \/ MarkFails \/ SendRefused \/ AnswerLost
    \/ Crash \/ Restart

Next == Tick \/ Step

Spec == Init /\ [][Next]_vars

\* Each goroutine keeps running, a waiter of Engine.mu gets it in the end
\* (sync.Mutex hands a starving waiter the lock), time passes, and Docker
\* restarts the container.  Nothing makes the environment flip or fail.
Fairness ==
    /\ WF_vars(Tick)
    /\ WF_vars(Deliver)
    /\ WF_vars(Restart)
    /\ \A e \in Evaluators :
         /\ WF_vars(Prepare(e))
         /\ SF_vars(Lock(e))
         /\ WF_vars(Unlock(e) \/ \E k \in Keys : EvaluateKey(e, k))

FairSpec == Spec /\ Fairness

-----------------------------------------------------------------------------
(* Properties *)

\* Every open alert the engine remembers is a firing row of its own rule and
\* target, whatever was killed, failed or came back in between: resolve never
\* closes another rule's row, nor one that is closed already.
TrackedRowFires ==
    \A k \in Keys : tracks[k].id > 0 => tracks[k].id \in FiringRows(k)

\* While Restore never fails, no rule has two firing rows for one target, and
\* no firing row is forgotten by a running engine, which would leave it in the
\* banner for ever.
OneFiringRow ==
    "restore" \notin FaultKinds =>
        /\ \A m, n \in DOMAIN alerts :
              IsFiring(m) /\ IsFiring(n) /\ alerts[m].key = alerts[n].key => m = n
        /\ up => \A n \in DOMAIN alerts : IsFiring(n) => tracks[alerts[n].key].id = n

\* README: "Firing alerts survive a restart without being re-sent".  The chat
\* is told that a rule fires again only after the earlier alert was resolved.
ToldOnce ==
    \A m, n \in DOMAIN alerts :
        /\ m # n
        /\ alerts[m].key = alerts[n].key
        /\ Firing(m) \in chat
        /\ Firing(n) \in chat
        => ~(IsFiring(m) /\ IsFiring(n))

\* The same, given that Restore reads the table.
NotResent == "restore" \notin FaultKinds => ToldOnce

\* notified_at is set only for an alert whose own firing notice the chat got.
NotifiedWasDelivered ==
    \A n \in DOMAIN alerts : alerts[n].notified => Firing(n) \in chat

\* Retries and restarts never reorder the notices of one alert: once the chat
\* was told that it is resolved, it is not told that it is firing.
NoticesInOrder ==
    [][\A n \in DOMAIN alerts :
          Resolved(n) \in chat /\ Firing(n) \in chat' => Firing(n) \in chat]_vars

\* The debounce test in Evaluate's first loop never holds anything back: the
\* tracks it looks at have no open alert, and those have no last transition.
DebounceTestIsIdle ==
    \A k \in Keys : tracks[k].id = 0 => tracks[k].last = Never

\* A value that stays above its threshold ends up with a firing row, through
\* failed inserts and restarts.
FiresInTheEnd ==
    \A k \in Keys :
        level[k] = "high" ~> (level[k] # "high" \/ FiringRows(k) # {})

\* An alert that the engine remembers is resolved when its value stays clear,
\* unless the process is killed before: when it is restored, this holds anew.
ResolvesInTheEnd ==
    \A k \in Keys, n \in 1..2 :
        (level[k] = "clear" /\ tracks[k].id = n) ~> (level[k] # "clear" \/ n \notin FiringRows(k) \/ ~up)

\* A queued notice reaches the chat through every refusal but the last try's,
\* unless the process is killed meanwhile.
QueuedIsDelivered ==
    \A i \in 1..QueueCap, n \in 1..2 :
        (i <= Len(queue) /\ queue[i] = Firing(n) /\ faults < MaxTries)
            ~> (Firing(n) \in chat \/ ~up)

-----------------------------------------------------------------------------
(* What the engine promises: see AlertLifecycle *)

OpenRow(k) == IF FiringRows(k) = {} THEN 0 ELSE CHOOSE n \in FiringRows(k) : TRUE

Lifecycle == INSTANCE AlertLifecycle WITH
    open <- [k \in Keys |-> OpenRow(k)],
    opened <- Len(alerts),
    told <- chat

\* The table and the chat behave as if there were one evaluator, no failure
\* and no restart.
LifecycleSpec == Lifecycle!Spec
=============================================================================
