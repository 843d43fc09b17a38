# Homelab Dashboard: TLA+ models and proofs

This directory models the parts of the dashboard where the order of events decides the
result: rules that fire and resolve, rows that are written, aggregated and pruned, and
notices that are sent, retried and lost. The models are written from the Go code under `internal/` and `cmd/`.
TLC checks small instances of them, TLAPS proves the central theorems for every value
of the constants.

| Module | What it is |
|---|---|
| `AlertLifecycle` | What the alert engine promises, with no goroutines, failures or restarts |
| `AlertEngine` | `internal/alerts` with its callers, the `alerts` table and the delivery of notices |
| `AlertHistory` | `AlertEngine` with history variables, for properties that compare times |
| `AlertEngineProofs` | Theorems about `AlertEngine` and `AlertHistory` |
| `Rollup` | `internal/store`: samples, the hourly rollup, pruning and charts |
| `RollupProofs` | Theorems about `Rollup` |
| `EventStream` | `collector/events.go`: the stream, the stored events, the restart counts |
| `EventStreamProofs` | Theorems about `EventStream` |
| `Inventory` | `collector/inventory.go`: the containers map and table, between two loops and Docker |
| `InventoryProofs` | Theorems about `Inventory` |
| `StatsCycle` | `collector/stats.go`: the worker pool, the counters, and the loops that reset and delete them |
| `StatsCycleProofs` | Theorems about `StatsCycle` |
| `LiveFeed` | `collector/bus.go`, `api/hub.go` and the store of the web interface: a tab follows the server |
| `DiskHealth` | `cmd/smart` and `collectSmart`: how the health of a disk reaches the screen |
| `DiskHealthProofs` | Theorems about `DiskHealth` |
| `UpdateCheck` | `collector/updates.go` and `internal/registry`: whether newer images exist |
| `UpdateCheckProofs` | Theorems about `UpdateCheck` |
| `Sessions` | `internal/auth/session.go`: tokens, logouts, the limit on login attempts |
| `ApiProofs` | Theorems about `Sessions` and `LiveFeed` |
| `MC*` | Small instances for TLC, one per `.cfg` |

## 1. The system

One process (`cmd/dashboard`) polls Docker, Portainer, `/proc` and a SMART sidecar
(`cmd/smart`), keeps what it finds in memory and in SQLite, evaluates alert rules, tells a
Telegram chat, and serves a web interface over HTTP and a WebSocket.

| Component | State | Operations | Speaks to |
|---|---|---|---|
| Alert engine (`internal/alerts`) | `tracks`, `queue`, one mutex | `Evaluate`, `fire`, `resolve`, `Restore`, `Run`, `deliver`, `SendTest` | called by three collector loops; calls the store, the bus and Telegram |
| Collector state (`collector/state.go`, `inventory.go`) | containers, sources, updates, host, disks, under one RWMutex | `refreshInventory`, `inspect`, `persistInventory`, `refreshPortainer`, `snapshot` | Docker, Portainer, the store, the bus |
| Event stream (`collector/events.go`) | `since`, `backoff` | reconnect, `handleEvent` | Docker events, the store, inventory, engine, bus |
| Stats cycle (`collector/stats.go`) | `cpuPrev`, `counters` | worker pool, rates, `ResetCounters` | Docker stats, the store, engine, bus |
| Host cycle (`collector/hostcycle.go`) | `hostPrev`, disks, arrays | `collectHost`, `collectSmart`, `mergeStandby`, rollup loop | `/proc`, SMART sidecar, the store, engine, bus |
| Log scanner (`collector/logs.go`) | `logCursor` | `scanLogs` | Docker logs, the store, bus |
| Update check (`collector/updates.go`, `internal/registry`) | `updateNow` (capacity 1), tokens | `TriggerUpdateCheck`, `runUpdateCheck`, `RunCheck` | registries, the store, bus |
| Samples store (`store/rollup.go`, `samples.go`) | raw and five minute tables, the watermark | inserts, `Rollup`, series queries | written by the cycles, read by the API |
| Other tables (`store/records.go`) | containers, events, log_errors, disks, alerts, image_updates | upserts, inserts, queries | all loops, the API |
| Bus and hub (`collector/bus.go`, `api/hub.go`) | subscriptions of 128 messages each, connections | `Publish`, `Subscribe`, `serve`, `run` | every loop, browsers |
| Browser store (`web/src/store/DashboardProvider.tsx`) | the overview, the connection | load, apply live messages, reconnect | the API, the hub |
| Sessions (`internal/auth`) | revoked ids, login attempts | `Issue`, `Clear`, `Authenticated`, `allow` | the API |
| SMART sidecar (`cmd/smart`) | a cache of `smartctl` answers | `refresh`, `GET /disks` | `smartctl`, the host cycle |
| Parsers and clients | none | `docker`, `portainer`, `registry/reference`, `disks`, `host`, `config` | |

How they interact: the collector starts eight loops. Three of them (stats, host, events)
end each turn with `Collector.evaluate`, which reads a snapshot of the state, then the
restart counts from the database, and calls `Engine.Evaluate`. The engine writes the
`alerts` table, publishes on the bus and queues a notice; one goroutine takes notices from
the queue and sends them. All loops write the same SQLite file, in WAL mode, each through
its own transactions; the rollup loop aggregates and prunes once an hour. Whatever changes
is published on the bus, which copies it to the queue of every connected browser, or drops
it if that queue is full.

### What is hard

* **Interleaving.** Three loops call one engine; they read their data and the clock before
  they take its mutex. Two loops list, inspect and persist containers. Messages race an
  overview that is being loaded.
* **Failures of single steps.** Almost every database error is logged and swallowed, so
  what the memory says and what the table says may part.
* **Restarts.** Tracks and queued notices are gone; firing rows and the watermark stay.
* **Time.** Hold times, debounce, rollup cut-offs and retention compare the wall clock with
  times that were taken earlier, by another goroutine, or before the clock was set back.
* **Delivery.** Sends time out after the chat got the message; the event stream is reopened
  from a whole second; bounded queues drop.

### What makes each component correct

* *Alert engine:* an open alert in memory is a firing row; at most one firing row for a
  rule and target; nothing is sent again after a restart; the end of an alert is never
  followed by its beginning; holds and debounce are kept but for the lag of an evaluation;
  what lasts fires, what ends
  resolves, what is queued is delivered.
* *Samples store:* nothing is pruned before it was aggregated; a row covers its bucket and
  is never replaced by a smaller one; charts miss nothing in their range.
* *Inventory:* memory, table and Docker agree once Docker is quiet; a destroyed container
  does not come back for good.
* *Event stream:* no event is skipped, every event is stored, and counted once.
* *Stats cycle:* the cycle ends; no rate across a restart of a container; no counters of
  containers that are gone; Docker is not shown as failed once it answers.
* *Log scanner:* every matching line is stored once, unless it is older than the window.
* *Update check:* a request is followed by a check that began after it; the verdict that
  there is no update was true at some moment, and so was that of a plain lookup that there
  is one; badges become right after any failure.
* *Live feed:* a connected browser converges to the server's state.
* *Sessions:* a revoked token is never accepted; the limiter allows at most five attempts
  in any minute.
* *Disks:* a disk in standby keeps the verdict it gave; each disk is shown as it is in the end.

## 2. Plan

In order of importance; 1 to 8 are done.

1. `AlertLifecycle`, `AlertEngine`, `AlertHistory`: the core. Abstract specification and
   refinement, failures, crashes, retries, liveness.
2. `AlertEngineProofs`: type correctness, the inductive invariant, one firing row, nothing
   sent again, nothing marked that was not sent, nothing out of order, holds and debounce kept but for one lag, and that
   `AlertEngine` implements `AlertLifecycle`.
3. `Rollup`, `RollupProofs`: samples from insert to pruning, and its theorems.
4. `EventStream`, `EventStreamProofs`: reconnection, redelivery, stored events and restart
   counts.
5. `Inventory`, `InventoryProofs`: `docker`, the containers map and the table; the inventory
   loop and the event loop list, inspect, persist. Convergence under fairness, stale answers.
6. `LiveFeed`: bus, hub and browser, with overviews in flight, full buffers, reconnects and
   acknowledged alerts. Theorem, in `ApiProofs`: a tab is wrong about an alert only if it
   missed a message of it.
7. `StatsCycle`, `StatsCycleProofs`: the pool and its deadline; resets and deletions by two
   other loops. Theorem: rates stay within one life of a container.
8. `DiskHealth`, `UpdateCheck`, `Sessions`, each with its proofs.
9. Open: a composition of `EventStream` and `AlertEngine` for the restart_loop rule; the
   log scanner.

## 3. The alert engine

### State and actions

`tracks`, `queue` and `lock` are the fields of `Engine`. `alerts` is the table, a sequence
whose index is the row id; `courier` is the local state of `deliver`; `pc`, `snap`, `lag`,
`active` and `todo` are the local state of the goroutines inside `Collector.evaluate` and
`Engine.Evaluate`. `chat` is what Telegram has received.

| Code | Action |
|---|---|
| `snap := c.Snapshot()` | `TakeSnapshot` |
| `RestartCounts`, and its failure | `CountRestarts`, `CountFails` |
| `now := time.Now()` | `ReadClock` |
| `e.mu.Lock()`, `conditions`, `isFiring` | `Lock`, `Holds` |
| the loop over the conditions that hold | `KeepFiring`, `Hold`, `Fire`, `FireFails` |
| the loop over the tracks that do not | `Forget`, `Settle`, `Resolve`, `ResolveFails` |
| `e.mu.Unlock()` | `Unlock` |
| `Run`, `deliver` | `Dequeue`, `SendOk`, `SendRefused`, `AnswerLost`, `Mark`, `MarkFails` |
| the end of the process, `Restore` | `Crash`, `Restart` (`Restored`, `Unrestored`) |

The engine goes through its keys one step at a time, although it holds the mutex: the
delivery runs concurrently and the process may be killed between two rows. Map iteration
has no order in Go, so the keys come in any order within each loop.

**Rules.** A rule and its target are a key. Its value is *clear*, in the hysteresis *band*
or *high*; `BandKeys` are the rules that keep firing in the band, `RestartKeys` those fed
by the second query. That is all that `Evaluate` can tell of a rule.

**Time.** A `time.Time` is its age; `Tick` makes every stored time older. Ages saturate at
`MaxAge`, above every delay they are compared with, so time has no end and liveness is
checked on infinite behaviours rather than up to a last second. `lag` is how long ago an
evaluation read the clock; `MaxLag` bounds how long one may wait, and the engine's
comparisons subtract it.

**Failures.** `FaultKinds` says what may fail in a run and `MaxFaults` how often;
`MaxFlips` bounds how often the world changes.

### Runs

| Run | Instance | Shows |
|---|---|---|
| `engine_faults` | 2 loops, a rule with hysteresis and a hold time and one without, one failure of any kind but that of `Restore`, 1 try, queue of 2 | `TrackedRowFires`, `OneFiringRow`, `NotResent`, `NotifiedWasDelivered`, `DebounceTestIsIdle`, `NoticesInOrder`, `LifecycleSpec` |
| `engine_live` | 2 loops, 1 rule with a hold time and a debounce of 2 ticks, of which an evaluation may be late by 1, 2 changes of the world, one failure, a failed `Restore` among them, 2 tries, queue of 1, fairness | `FiresInTheEnd`, `ResolvesInTheEnd`, `QueuedIsDelivered`, `HeldButForLag`, `ClearButForLag` |
| `history_gap` | a rule without a hold time | **violates** `GapBetweenFlips` |

Why the bounds are enough: two loops are enough to overtake each other, and a third adds
only more of the same; two changes are clear, high, clear, and let two evaluations in flight
hold different readings, so that one rule fires, resolves and, read by the later loop with
the older reading, fires again. A hold time of two ticks and a lag of one leave
one tick that must be kept, and whether it is kept depends on the order of the two loops.
One failure, followed by anything, is enough for a row to be left behind, a notice to be
lost or sent without an answer, and a crash is one of them. The queue holds one message or
two, so it fills up; two tries reach both the retry and the give-up.

`AlertLifecycle` has three variables: the open alert of each key, how many were opened, and
what the chat was told. `AlertEngine` implements it with `open` the firing row of the key,
`opened` the length of the table and `told` the chat; every other step is a stutter.

**Fairness** (only in `FairSpec`). Goroutines keep running, so each evaluator's own steps
and the delivery are weakly fair. `Lock` is strongly fair because `sync.Mutex` hands a
starving waiter the lock. Time passes. The process is restarted because the compose file
says `restart: unless-stopped`. Nothing makes the world change, or anything fail; failures
are finitely many, without which nothing could be promised.

### What it finds

* The debounce between transitions has no effect (`history_gap`). `resolve` deletes the
  track, and `lastTransition` with it. The test in `Evaluate` looks only at tracks without
  an open alert, and those never have a last transition: `DebounceTestIsIdle` holds and is
  proved. Rules with a hold time are protected by it; `restart_loop`, `smart_failing`,
  `raid_degraded` and `db_size` are not.
* Holds and debounce are kept only up to the lag of an evaluation. `deploy/.env.example:58`
  says of the hold time "How long a threshold must hold before firing". Each loop reads the
  state and the clock before it takes the mutex, so evaluations overtake each other: *stats* reads high and
  then its clock; the value drops; *events* reads it as clear one tick later, goes first and
  finds nothing to do; the value rises again; *stats* goes next and lets the rule be pending
  since its own, older, clock. The rule fires although an evaluation found it clear within
  the hold time. In the same way an alert resolves although it was found high within the
  debounce. Stated with the full `HoldFor` and `Debounce`, TLC refutes both with
  two loops within seconds; its shortest trace needs one change only, as the clear reading of
*events* may be one from before the rise. `HeldButForLag` and `ClearButForLag` say what remains, for loops
  that overlap in any way: the delay less the time for which one evaluation may wait. That
  allowance is all that is needed, for any number of loops (section 12).
* When `Restore` fails, alerts are opened and sent a second time. `ToldOnce`, which
  `NotResent` states under the condition that it does not fail, is refuted when it may.
  The rows that were not restored have no track, so nothing closes them: they stay firing
  until a later restart restores them, and of several for one rule it restores only one.

## 4. The samples store

`Rollup` follows one series. A sample is its timestamp, and a five minute row is the set of
samples it was computed from, which determines its averages, maxima and count. `held` is
the time a cycle has taken and not stored yet, `rollNow` the time a running rollup was
called with; both may be old when they are used. `records` are rows of the tables that the
same transaction prunes. They are there because they are part of the transaction; that an
open one stays is one condition of a statement (`Expired`), and no property repeats it.

| Code | Action |
|---|---|
| `now := time.Now()` in a cycle | `Sample` |
| `InsertSamples`, `InsertHostSample`; their failure | `Insert`, `Lose` |
| `runRollup` takes the time | `StartRollup` |
| `Store.Rollup`, from `BeginTx` to `Commit` | `RunRollup` |
| an error, a deadline, the end of the process | `AbortRollup` |
| `OpenAlert`, `InsertEvent`, `UpsertContainers`, ... | `WriteRecord`, `CloseRecord` |
| `ContainerSeries`, `HostSeries`, `MountSeries` | `Chart` |

| Run | Instance | Shows |
|---|---|---|
| `rollup` | 5 seconds, buckets of 2, a raw window of 2, retention of 3, the clock is set back once, one alert and one container | `NothingLost`, `WatermarkSplits`, `ShortChartIsComplete`, `RowsNeverShrink` |

The rollup is one action because it is one transaction: SQLite lets no other writer in
after its first write, and refuses that write when another one came between the read of the
watermark and it, which is an `AbortRollup`. The window and the retention differ
by one, so that cut-offs fall inside buckets and at their borders. Five seconds hold three
buckets, one aggregated, one to be aggregated and one that has begun, and let retention
take the first.

A sample that is inserted below the watermark, because its cycle was slow or the clock went
back, is never aggregated: `RolledUp` starts at the watermark. `late` collects those samples;
`NothingLost` is about all the others.

The chart of a day is not among the complete ones: the handler computes `from = now - 24h`, and `ContainerSeries` later asks
whether `time.Since(from)` is at most 24 hours. It never is, so the chart of a day is drawn
from the five minute table, which is filled once an hour.

## 5. The event stream

Docker's events are a log, and an event is its place in it. `EventStream` follows one
container. `since` and the timer are the local state of `eventsLoop`; `next` is Docker's
place in an open stream; `rows` and `lines` are the tables `events` and `log_errors`, the
first a sequence because nothing in it is unique, the second a set because
`UNIQUE (container_id, ts, line)` is. `Causes` says what happens to the container, and `Kinds` what
Docker reports of it.

| Code | Action |
|---|---|
| `GET /events?since=` | `Open` |
| an error, the end of the stream, the timer | `Break`, `Retry` |
| `since = time.Unix(ev.Time, 0)`, `handleEvent` | `Receive` |
| `InsertEvent`, and its failure | `StoreEvent`, `StoreEventFails` |
| `recordErrorLine`, and its failure | `StoreLine`, `StoreLineFails` |
| the rest of `handleEvent` | `Return` |
| the end of the process, `since := time.Now()` | `Restart` |

| Run | Instance | Shows |
|---|---|---|
| `events` | 4 events in 3 seconds, 2 breaks, 1 other failure, fairness | `NoGaps`, `HandledIsStored`, `HandledInTheEnd` |
| `event_twice` | deaths only, 2 breaks | **violates** `LoopHasDeathsOrRestarts` |

Four events are one restart with an event before it, or two deaths with a start between them, and so
they share a second or not; two breaks let a stream break again while it repeats events.
The delay before a retry is any time at all, so `backoff` is not modelled. `FairSpec`
assumes that the goroutine keeps running; breaks are finitely many, because a stream that
always breaks delivers nothing.

`event_twice` is about counting. The loop never skips an event, since it starts again at the
second of the last one, but it handles what shares that second once more, and each time
inserts a row that counts. Apart from that, `RestartCounts` counts the `oom` beside the `die`
of one death, and the `restart` beside the `die` of one `docker restart`.

## 6. The inventory

`docker` is what Docker has, `memory` is `state.containers` and `table` the table
`containers`. A map is a function on the ids that are in it, and of a container only the
state, which lists and inspections both tell, and the health, which inspections alone tell,
are kept. `due` says that `LastInspected` is more than `reinspectEvery` ago. Each loop has
its own `answer` of `ListContainers`, `todo` of ids to inspect, `info` of `Inspect` and
`records` copied for the table; `events` are those the event loop has not read.

| Code | Action |
|---|---|
| `ListContainers`, and its failure | `List`, `ListFails` |
| the first critical section of `refreshInventory` | `Apply` |
| `Inspect`, and its failure or 404 | `Inspect`, `InspectFails` |
| `applyInspect`, if the container is still known | `Update` |
| `persistInventory`: the copy, the transaction, its failure | `Copy`, `Upsert`, `UpsertFails` |
| `handleEvent` | `HandleDestroy`, `HandleKnown`, `HandleNew`, `HandleUnknown` |
| `reinspectEvery` passes | `Age` |
| the end of the process, `Run`, `bootstrap` | `Restart`, `Return` |

During `bootstrap` only one loop runs. The event loop opens its stream afterwards, so
`Return` may skip what came before; that it skips nothing later is shown by `EventStream`.

| Run | Instance | Shows |
|---|---|---|
| `inventory` | 1 container, 4 changes, 2 failures or restarts, fairness | `OnlyOldAnswersMislead`, `MemoryConverges`, `TableConverges` |

The code has no rule against old answers. A list that was fetched before a container was
destroyed puts it back, one from before its creation deletes it, and an inspection that
comes late overwrites a newer state. `OnlyOldAnswersMislead` says that nothing else does
such a thing: not an event that is read late, not a failed call, not the steps of the other
loop. The two convergence properties say that the harm passes: the state with the next list,
the health when the container is inspected again, after at most `reinspectEvery`. A destroyed
container stays present in the table until the next list is stored, since
its event stores nothing.

One container is enough because each step treats every container by itself; what they have
in common, that an empty list is stored by another statement, is reached with one. Four
changes create, start, stop and destroy a container, or leave one that turned unhealthy and
back. The theorem below is for any number. `FairSpec` assumes that both loops keep running and time passes; the
number of failures is finite.

## 7. The stats cycle

`docker`, `life` and `events` are Docker's side: the state of each container, how often it
was started, and what the event loop has not read. A container counts its use from zero
each time it is started, so of its counters only the life is kept that they belong to.
`counters` is `cpuPrev` with `counters`, which always change together; `ids`, `todo`,
`asked` and `results` are the list, the jobs channel, the calls of the workers and the
results channel of one cycle; `known`, `stage`, `subject` and `listed` belong to the event
loop and the inventory loop.

| Code | Action |
|---|---|
| the running containers, the channels | `Begin` |
| `jobs <- id`, a worker, its call and its failure | `Hand`, `Respond`, `CallFails` |
| the deadline: `cycleCtx.Done()` | `Expire`, `Skip` |
| the results under the mutex | `Count` |
| `failures == len(ids)` | `EndCycle` |
| `handleEvent`: `ResetCounters`, delete, inspect, refresh | `Reset`, `HandleDestroy`, `Inspect`, `InspectFails`, `HandleUnknown` |
| `refreshInventory`: the call, its failure, the map, the counters | `List`, `ListFails`, `Apply`, `Prune` |
| the end of the process and `bootstrap` | `Restart` |

| Run | Instance | Shows |
|---|---|---|
| `stats` | 2 containers, 1 worker, 2 changes, one failed call, list or inspection, passed deadline or restart, fairness | `RateWithinALife`, `CycleEnds`, `LeftoversGo`, `SourceComesBack` |

A rate across a restart of a container is possible in two ways, which `RateWithinALife`
names and which are both reached: the cycle counts an answer of the new life before the
event loop has read the start (`Unread`), or it counts an answer that was fetched before the
reset after it, so that the reset is undone (`late`). In both the new counters must not
be smaller than the old ones, or `CPUPercent` gives no rate.

`CycleEnds` rests on the size of the results channel. The cycle hands out all ids before it
reads a result; with room for one result per worker, the workers would wait for it and it for them.

Other facts that the model shows. An id that no worker took before the deadline is not a
failure, while one that Docker answers with 404 is: a cycle in which every container was just
removed marks Docker as failed with "deadline exceeded", although it answered, until the
next list. An answer that comes after its container was destroyed stores the counters again,
and the next refresh of the inventory deletes them (`LeftoversGo`). The event `restart` is
handled as `start` and not modelled apart.

One worker is enough because workers share nothing but the channels, and it makes ids wait
for it. Two containers make an answer wait while another is asked for; two
changes are one restart of a container, or its end and its removal. *Fairness:* the inventory
loop, the event loop and the stats goroutine with its workers keep running. A call ends
because it has a timeout, which is a failure, of which there are finitely many.

## 8. The live feed

`LiveFeed` follows one browser tab. The containers are a version, as a message replaces
them all; an alert changes three times, and each change is published once. `buffer` is what
`Bus.subs` holds for a connection; `serve` and `link` are where `hub.serve` and the tab are
with it; `loads` are the overviews on their way, with what they have read. `doubt` is
the history that the property needs: alerts of which the tab missed a message.

| Code | Action |
|---|---|
| `refreshInventory` finds a change of a state, name or image, a new container or one that is gone | `RefreshInventory` |
| an inspection or `refreshPortainer` changes something else | `ChangeQuietly` |
| `handleEvent`, `runUpdateCheck`, which publish whatever they find | `PublishAnyway` |
| `publishContainers`: the snapshot, then `Publish` | `TakeSnapshot`, `PublishContainers` |
| `fire` and `resolve`: the row, then `Publish` | `Fire`, `Resolve`, `PublishAlert` |
| `handleAlertAck`: `AckAlert`, then `Publish` | `Ack`, `PublishAck` |
| `hub.serve`: accept, subscribe, the end | `Connect`, `Subscribe`, `Return` |
| `hub.write` and `applyLive` | `Deliver` |
| a connection that breaks | `Cut` |
| `onopen` with a reload, `onclose` with a new connection | `OnOpen`, `OnClose` |
| `handleOverview`, its answer, its failure | `ReadOverview`, `Loaded`, `Failed` |

| Run | Instance | Shows |
|---|---|---|
| `live_feed` | 1 alert, 2 loops that publish containers, 1 change of them, 2 connections, room for 2 messages, 1 failure, fairness | `AlertsAreRight`, `ContainersConverge`, `OneSubscription`, `FeedTypeOK` |

A tab shows an alert wrongly only if it missed a message of it and has not loaded an
overview since. It misses one in these cases, and each of them is reached:

* its subscription is full, or its connection is broken and the hub has not noticed;
* the hub accepts the connection before it subscribes (`hub.go`), and the tab, which asks
  for an overview when it is accepted, may get one from before the message;
* an overview that was read before a message is loaded after it, and undoes it;
* there is no overview yet, and live messages are ignored without one. If the request of
  the mount and that of the connection both fail, nothing asks again until it reconnects;
* `FiringAlerts` fails, and the overview is sent with no alerts (`handlers.go`).

Nothing repeats a message of an alert, so such a tab stays wrong until it is reloaded or
reconnects. Nor does the inventory repeat its message: `refreshInventory` publishes only
if something has changed since its last list, and health and stack are not among
what it compares. A tab that missed the message of a change shows the old containers
until the next change, the next event of a container, the next check for updates, a reload
or a reconnection. Of these only the check comes by itself: `runUpdateCheck` ends with
`publishContainers` whether it found anything or not, by a ticker of `UPDATE_INTERVAL`, six
hours unless configured. `ContainersConverge` rests on that ticker and on nothing else,
whichever messages of the inventory are dropped.

The instance starts either with an alert that is over and containers that will still
change or the other way round, because the two share nothing but the buffer; two messages of
each kind fill it. Two connections are one and its replacement. Two loops publish containers;
the event loop, whose action is that of the check without its ticker, is left out of
the instance. *Fairness:* each goroutine, handler and the tab go on, a connection that is
broken is noticed in the end, and the ticker of the update check ticks. Alerts and containers need
not change, no event need come, and connections need not break.

## 9. The health of disks

The sidecar asks one disk after the other and then replaces its list; `collectSmart` gets
the list, upserts it, and shows it with the attributes of disks in standby taken from the
table. Of the attributes only the verdict `Healthy` is kept, which is what `smart_failing`
judges. `out` are the answers of a refresh that is going on, `devices` the list that is
served, `parsed` what the cycle has got of it.

| Code | Action |
|---|---|
| `scan`, `query`, its failure, the new list | `Scan`, `Query`, `QueryFails`, `Publish` |
| the request, its failure | `Fetch`, `FetchFails` |
| `UpsertDisks`, which keeps old values for a disk in standby, and its failure | `Upsert`, `UpsertFails` |
| `mergeStandby` and the state; a table that cannot be read | `Merge`, `MergeFails`, `Show` |
| the end of either program | `SidecarRestarts`, `Restart` |

| Run | Instance | Shows |
|---|---|---|
| `disks` | 2 disks, 2 changes, 1 failure or restart, fairness | `StandbyKeepsVerdict`, `ShownConverges` |

`README.md` says that a disk in standby "keeps its last known attributes". It does, through
restarts of both programs and through cycles in which it is missing, with two exceptions
that the property names: the table cannot be read, and the disk is shown without a verdict;
or its last verdict could not be stored, and an older one is shown. A disk that cannot be
opened is listed as asleep (`smart.go`: exit status 2 and no model), with the same promise. One that smartctl
cannot query at all vanishes from the list and from the screen, and so do all of them while the
sidecar has not finished its first refresh; `ShownConverges` says that they come back.

Two disks are enough because the sidecar asks them in any order and a list may have one and
not the other; two changes let a disk fail and fall asleep. A failed
`scan` leaves the list as it is and is not an action. *Fairness:* the sidecar and the
host cycle go on.

## 10. The update check

`updateNow` is the channel with room for one request, `expired` says that the ten minutes of
a check are over; `lookup`, `head`, `token` and `results` belong to the lookups, `table` is
`image_updates` and `updates` its copy in memory. A tag names a version at its registry,
which is an index that lists an image for this platform, or that image alone; `Primary` and
`Platform` are the two digests. `local` are the digests that Docker keeps of the image
with the tag, which are several if it was pulled in several ways, and `other` those of
other images of its repository.

| Code | Action |
|---|---|
| `TriggerUpdateCheck`, the timer, the request | `Trigger`, `BeginByTimer`, `BeginByRequest` |
| `context.WithTimeout` | `Timeout` |
| `indexLocalDigests`, with the fallback to the repository; its failure | `List` (`Candidates`), `ListFails` |
| the semaphore of `Check`, and its cancelling | `Acquire`, `Cancel` |
| `headManifest`, the challenge, `fetchToken`, `getManifest`, their failures | `Head`, `Challenge`, `FetchToken`, `Get`, `GetDenied`, `LookupFails` |
| the digest of the first answer or else of the second; the children of an index; `contains`; an index that cannot be parsed | `PrimaryTold`, `Children`, `Contains`, `GetUnreadable` |
| the verdicts, upsert, prune, and their failures | `Clear`, `Upsert`, `Prune`, `StoreFails` |
| `loadUpdates`, its failure | `Load`, `LoadFails` |
| the end of the process, `bootstrap` | `Restart` |
| a push, a pull by the tag, by a digest or by another tag, a build, containers, a token that expires | `Push`, `Pull`, `PullOther`, `Build`, `Use`, `Expire` |

| Run | Instance | Shows |
|---|---|---|
| `updates` | 2 images, one behind a token, 1 lookup at a time, 3 versions, 1 push, 1 pull, build or change of use, 1 failure, fairness | `RequestedIsChecked`, `VerdictWasTrue`, `BadgesConverge`, `TypeOK` |

A lookup reads the tag twice, with HEAD and with GET, and compares digests of both with all
that Docker has. When a version is pushed in between, the verdict that there is no update was
still true before or after the push, since one digest that matches is one of a version that was
upstream. The verdict that there is an update need not be:

* no local image has the tag, so that the digests of the whole repository are taken, which
  may be of several images: an image of the first version and an index of the second match
  neither the index that the first answer tells nor the image that the second one lists,
  although one of them was right at each moment;
* the tag named an index and then an image alone, or the other way round: the child that the
  local digest is of is not listed, or not asked for;
* the index cannot be parsed, which the code takes for an index that lists nothing.

In these cases a container gets a badge although its image was never outdated, until the next check. `VerdictWasTrue`
names them (`Plain`) and says that there are no others: without any one of the three
conditions TLC refutes it (the first takes a second change: a build and a pull). The image that has the tag may have any number of
digests; what makes the verdict true is that they are of one image.

Facts that the model shows. When the ten minutes are over, the same context makes the
upsert, the pruning and the load fail, so memory and table stay as they were until the next
check. A failed lookup stores no update for its image, and a badge that was right goes away until
the next check. A token that HEAD accepts and GET does not is not renewed within the lookup.
After `docker pull` the badge goes away, although the container still runs the old image,
since the tag is looked up by name. A restart forgets a request. `BadgesConverge` says that
the next checks repair all of this.

One lookup at a time makes one wait for the other; one push moves a tag within a lookup, and the
three versions are an index, an index of another image, and the image of the first alone. One of the images may be local in every way,
the other one was pulled by its tag. *Fairness:*
a check goes on, every call has a timeout, and a waiting request is taken. The timer is not assumed to be
fair: `BadgesConverge` states it as its condition, and `RequestedIsChecked` must hold
without it.

## 11. Sessions

`attempts` is the map of the limiter, `granted` the history of the attempts it let pass;
`revoked` is the map of tokens that were logged out, and `expiry` the time each token
carries. A request reads the clock in `parse` and again under the mutex, so it has two steps.

| Code | Action |
|---|---|
| `handleLogin`: `allow`, a wrong password | `Allow`, `Refuse`, `Reject` |
| `Issue` | `Issue` |
| `Authenticated`: `parse`, then the map | `BeginCheck`, `Accept`, `Deny` |
| `Clear`: `parse`, then the map | `BeginLogout`, `Logout` |
| the end of the process, `NewManager` | `Restart` |

| Run | Instance | Shows |
|---|---|---|
| `sessions` | 2 clients, limit of 2 in 2 ticks, idle entries deleted above 1 client; 1 token that lives 1 tick, 2 requests at a time, 1 restart, 5 instants | `WithinLimit`, `RefusesOnlyExcess`, `LoggedOutIsRefused` |

The map of logged-out tokens forgets a token when `exp.Before(now)`, and a token is rejected
when `now` is after its expiry. Since the clock is read twice, a check that straddles the last instant of a
token may pass `parse`, find the entry forgotten and accept the token, which by then has
expired; `LoggedOutIsRefused` allows that case and no other. Logouts are in memory only, so
a restart forgets them; the history variables restart with them.

Five instants are more than two windows and longer than a token with its logout. Two clients
reach the capacity, so that one deletes the entry of the other. Fairness is not needed:
all three properties are about single steps and states.

## 12. Proofs

The proof modules were checked by `tlapm` with no leaf left out. They assume only what the
modules assume of their constants: `EngineAssumption`, `RollupAssumption`,
`StreamAssumption`, `InventoryAssumption`, `StatsAssumption`, `DiskAssumption`,
`UpdateAssumption`, `DigestAssumption`, `SessionsAssumption` and `FeedAssumption`, which TLC evaluates in every
run. Each of them proves the type invariant of its modules for every value of the constants,
so the runs do not check it again, except in `updates`, where `TypeOK` also bounds how many
lookups run, and in `live_feed`, where `FeedTypeOK` bounds what a subscription holds.

**`AlertEngineProofs`.** `TypeCorrect` is proved first, one lemma per group of actions.
`IInv` adds `DownIsQuiet`: while the process is down nobody evaluates, nobody holds the
mutex and there are no tracks. It is needed because `OneFiringRow` requires that the tracks
know every firing row *while the engine runs*: `Restart` establishes that from the table,
and nothing may add a row in between. `Fire` keeps it because the key's track has no open
alert, hence, by `OneFiringRow`, the table has no firing row of it. The theorems are
`TracksAreFiringRows`, `AtMostOneFiringRow`, `NothingIsResent` and `DebounceTestNeverHolds`,
for any number of rules, loops, retries and failures.
`MarkedWasDelivered` says that a row is marked as notified only if the chat got its notice;
its invariant adds `MarkingWasSent`, that the courier marks only what it has sent.

`NoticesStayInOrder` needs to know that row ids are not given twice: a notice refers to a
row that exists, and a resolved one to a row that is closed, wherever it is on its way
(`NoticesAreKnown`). Hence `Fire` queues the notice of an alert that no other notice is
about, and nothing ahead of a firing notice is the resolved one of the same alert
(`QueuedInOrder`, `SentInOrder`). This holds even if `Restore` fails.
The same invariant gives `NoticesAreTrue`: whatever the chat was told is of a row of the
table, and what it takes for resolved is not firing. `ClosedRowsStayClosed` is about the table
alone: a row keeps its key, is never reopened, and is closed only by a running engine whose
track of that key holds its id, which is `TrackedRowFires` at the moment of `Resolve`.

`EngineImplementsLifecycle` assumes that `Restore` never fails. `Fire` and `Resolve` open and
close the alert of their key, `SendOk` and `AnswerLost` tell the chat, and every other step
is a stutter. `OneFiringRow` is what makes the refinement mapping well defined, as it
chooses the firing row of a key: one row is added or closed, and no other key changes.

`RuleIsHeldBeforeFiring` and `ValueIsClearBeforeResolving` hold for any number of loops that
overlap in any way. `contrary` is the time since an evaluation that holds the mutex last
decided against the next transition of a rule, and `HistoryInv` relates it to the times
that a track remembers. Such a time is the clock of some evaluation, which was late by at most
`MaxLag` when it wrote it down (`AtLeastLate`), and ages grow together (`AtLeastAges`). So
since a rule became pending nobody has found it clear, but for that lag, unless the present
holder of the mutex has, and has still to come to the rule and clear that time
(`PendingHolds`); and in the same way for the time since which an open
alert is clear (`ClearHolds`). A kill forgets both times, and so does `Restore`, so that a restart only
lengthens holds. A failed insert keeps the pending time and a failed update the clear time, which
is why a rule may fire, or an alert be resolved, later than it should, but never earlier.

**`RollupProofs`.** `NothingLost` is not inductive. `IInv` adds that the watermark is a
multiple of the bucket size (`Aligned`), that what was stored in time above the watermark
is still in the raw table, and that what the raw table misses is older than the raw window
(`RawAhead`). `WholeBuckets` is the arithmetic fact behind it all: a bucket with one sample
below a multiple of the bucket size lies below it altogether. Hence `INSERT OR REPLACE`
never meets a row that is there already (`RowEffect`), and `WatermarkSplits`, `NothingLost`,
`ShortChartIsComplete`, `RowsNeverShrink` and `WatermarkMonotone` follow for every bucket
size, window and retention, any number of writers and any corrections of the clock.

**`EventStreamProofs`.** `NoGaps` says that what was handled leaves nothing behind. It needs
`OlderIsHandled`, which ties `since` to what was handled, so that a stream opened at `since`
misses nothing, and `Streamed`, which says that an open stream has yet to send only what is
not older than `since`, so that the next event cannot set it back. Both rest on `Ordered`,
the order of Docker's log. `ReopeningSkipsNothing` and `HandledEventsAreStored` hold for any
number of events in a second and any number of breaks and restarts.

The other side of it is redelivery. `EventsAreStoredOncePerStream` says that an event has one
row more than there were failures, at most: each stream sends an event once, and each stream
but the first has a failure before it (`CopiesPerStream`, which counts one row less until the
open stream has sent the event and its row was stored or lost). `ReopeningRepeatsLittle` says that what is sent again falls into
the second `since`; it rests on `SeenUpToSince`, that nothing handled is younger, and on
`OlderIsHandled`. The loop keeps `since` in whole seconds and the table has no key, so this
is the most that can be promised.

**`InventoryProofs`.** `IInv` is `TypeOK` with `Destroyed`: a destroy event waits only for a container that
Docker no longer has and, since ids are given once, never has again. `RightUnlessMisled`
needs it for `HandleDestroy`, which deletes without asking Docker. `Apply` takes over a
list as a whole, so the map is as right as the list; `Update` touches only a container that
is in the map. No other step changes what the map says.

**`StatsCycleProofs`.** `RateWithinALife` needs to know which lives an uncounted answer and
the stored counters may come from. `IInv` says that both come from a life that has begun
(`CountersBegan`, `ResultsBegan`), and that they are of an older one only while the next start has
not been read, or if they are `late` (`OldCounters`, `OldResults`); `ResultsAreNewer` orders
the two.

Of the liveness property `CycleEnds` the safety half is proved. The channel of results holds as
many as the cycle has containers, and nobody reads it before the workers are done.
`NoWorkerWaits` shows that a worker with an answer finds room all the same: the container it
asked for is not in the channel yet (`Placed`). `CyclesGoForward` shows that no step of any
loop takes a container back. So a cycle has finitely many steps of its own, and none of them waits
for another; that they are taken is fairness.

**`DiskHealthProofs`.** `StandbyKeepsVerdict` compares the screen with what was told, and
the values travel through the table. `RowWasTold` and `ParsedWasTold` say that what is on
the way was told of that disk, `RowIsParsed` that the row is that of the list between upsert and merge,
unless it was not stored.

**`UpdateCheckProofs`.** `SaysWhatWasTrue` needs that a lookup belongs to the running check, so
that nothing takes its candidates away (`Live`), that the version told by its first answer was
upstream while it ran and so is the present one (`Told`), and that results are those of this
check (`Fresh`). "No update" is then true of the version whose digest matched (`NoUpdateIsTrue`). For
"update", suppose that the local digests, all of one image, know both versions, and that
what was told of them does not match. The index of the first is not among the digests, so
they hold the image of the first itself (`ImageOfIndex`), which is then that of the
second, as they are of one image; but the second answer lists that image
(`UpdateIsTrue`). `DigestAssumption` is what a digest means: it names a content, so an index
has one image for the platform and is not an image. It says nothing of how many digests Docker has.

`RequestsAreKept` and `LookupsGoOn` are the safety half of `RequestedIsChecked` and
`BadgesConverge`: a request that no check has begun for waits in the channel of capacity one,
also when it found the channel full, and while a result is missing some lookup has its turn or
may get it, because a lookup that is done has left its result (`LookedUp`) and given back its turn.

**`ApiProofs`**, about `Sessions`. The limiter looks only at the last window, and its entries are deleted;
`Remembers` says that what is younger than a window is in the log all the same, `Ordered`
that attempts come in the order of time. `NeverMoreThanLimit` follows by counting a set of
places in a sequence. `RevokedIsRemembered` keeps a logged-out token in the map until it
expires. The theorems hold for every limit, window, capacity, lifetime and number of requests.

**`ApiProofs`**, about `LiveFeed`. `TabIsRight` says that `AlertsAreRight` holds for every
number of alerts, connections and failures and every capacity of the buffer. An alert is
shown rightly if *everything on its way* to the tab is right, so the invariant speaks of
lines: what is in the buffer and then in the hands of the publishers. Whatever was published
was written before (`Written`); the message that an alert fires is ahead of the others of
that alert, unless one was missed (`InTurn`); and what is in the line of an alert, applied
in turn to what is shown, leads to what the table says, both for the overview that is shown
and for those that have been read and not yet loaded (`Leading`). `Lines` says that a connection that
was not made, or is broken, has no messages waiting; without it not even `FeedTypeOK` is
inductive, since the tab may only take a message from a connection that it has.
`OneLineAtATime` is the safety half of `OneSubscription`: whenever the hub serves another
connection than the last one, that one is broken. A tab connects only after its last
connection broke, which is a part of `Lines`.

**Only model-checked.** The liveness properties, which need fairness and ENABLED, are out
of the prover's reach; the safety facts they rest on are proved where the paragraphs above
name them. `GapBetweenFlips` is false.

## 13. Not modelled

**The log scanner** (`collector/logs.go`) is one goroutine, and its only shared state are the
cursors, which the inventory deletes. What it may lose follows from the order of its
statements: the cursor of a container is set to the time of the scan before the lines are
stored, so a failed insert, or a scan that takes longer than its minute, loses the lines of
every container that was asked before. Lines that are fetched twice are stored once, because
`log_errors` is unique. Without a cursor it looks back one minute, so lines older than that are not
found after a restart, nor what exceeds 500 lines of one scan, nor the last lines of a
container that stopped, unless it is started again. The cursors of containers that have no
counters are not deleted when they go.

**Numbers and texts.** The thresholds and messages of the rules, averages and the thinning of
charts, the rates of the host and of containers, HTTP routing, the web pages, parsers of
`/proc`, SMART, mdstat and image names, password hashing, configuration.

**Once only.** The migrations, which run in one transaction each, before anything else starts.
