------------------------------ MODULE LiveFeed ------------------------------
(* How a browser tab follows the server: internal/collector/bus.go, which    *)
(* hands each message to the subscribers that have room for it;              *)
(* internal/api/hub.go, one subscription per WebSocket; and the store of the *)
(* web interface, web/src/store/DashboardProvider.tsx, which loads an        *)
(* overview, applies the messages to it, and connects again.                 *)
(*                                                                           *)
(* The containers are a version: a "containers" message replaces them all.   *)
(* It is published when a container comes, goes or changes its state, after  *)
(* an event and after each check for updates; what an inspection or Portainer *)
(* changes waits for one of these.  "host", "disks" and "stats" are published *)
(* in every cycle.  A change of an alert is published once.                  *)
(*                                                                           *)
(* ApiProofs extends this module and Sessions, hence the prefix of FeedSpec  *)
(* and its parts.                                                            *)
EXTENDS Integers, Sequences, FiniteSets

CONSTANTS
    Alerts,       \* ids of rows of the alerts table
    Buffer,       \* messages that a subscription holds (128)
    Callers,      \* of publishContainers: a subset of AllCallers
    \* Bounds of the model
    MaxChanges,   \* changes of the containers
    MaxConns,     \* connections of the tab
    MaxFaults     \* connections that break, requests and queries that fail

AllCallers == {"inventory", "events", "updates"}

ASSUME FeedAssumption ==
    /\ Callers \subseteq AllCallers
    /\ Buffer \in Nat \ {0}
    /\ MaxChanges \in Nat
    /\ MaxConns \in Nat \ {0}
    /\ MaxFaults \in Nat

Versions  == 0..MaxChanges
Conns     == 1..MaxConns
Loads     == 0..MaxConns            \* of the mount, and of each connection

\* A caller has nothing to publish, or is about to take its snapshot.
Quiet == -1
Due   == -2

Message == [type : {"containers"}, version : Versions]
           \cup [type : {"firing", "resolved", "acked"}, id : Alerts]
NoMessage  == [type |-> "none"]
NoOverview == [version |-> -1]

\* What the tab shows of an alert.
Shown == {"absent", "firing", "acked"}

VARIABLES
    containers,  \* Collector.state.containers
    snap,        \* what each caller of publishContainers is about to publish
    rows,        \* the alerts table
    engine,      \* the message of a row that fire or resolve has written
    acking,      \* the message of a row that handleAlertAck has written
    serve,       \* where hub.serve is with each connection
    buffer,      \* Bus.subs: what each subscription holds
    cut,         \* the connections that are broken
    tab,         \* the last connection of the tab, 0 if none
    link,        \* the tab's side of it
    overview,    \* the overview that the tab shows
    loads,       \* GET /api/overview, each with what it has read
    faults,      \* failures still allowed
    doubt        \* history: see below

feedVars == <<containers, snap, rows, engine, acking, serve, buffer, cut, tab, link,
              overview, loads, faults, doubt>>

server  == <<containers, snap, rows, engine, acking>>
wire    == <<serve, buffer, cut>>
browser == <<tab, link, overview, loads>>

LoadSteps == {"unsent", "asked", "answered", "done"}
Load == [step : LoadSteps, version : Versions, alerts : [Alerts -> Shown],
         passed : SUBSET Alerts]

Row == [state : {"none", "firing", "resolved"}, acked : BOOLEAN]

FeedTypeOK ==
    /\ containers \in Versions
    /\ snap \in [Callers -> Versions \cup {Quiet, Due}]
    /\ rows \in [Alerts -> Row]
    /\ engine \in Message \cup {NoMessage}
    /\ acking \in Message \cup {NoMessage}
    /\ serve \in [Conns -> {"new", "accepted", "subscribed", "gone"}]
    /\ buffer \in [Conns -> Seq(Message)]
    /\ \A c \in Conns :
          /\ Len(buffer[c]) <= Buffer
          /\ buffer[c] # <<>> => serve[c] = "subscribed"
    /\ cut \in SUBSET Conns
    /\ tab \in 0..MaxConns
    /\ link \in {"waiting", "connecting", "open"}
    /\ \/ overview = NoOverview
       \/ overview \in [version : Versions, alerts : [Alerts -> Shown]]
    /\ loads \in [Loads -> Load]
    /\ faults \in 0..MaxFaults
    /\ doubt \in SUBSET Alerts

Nothing == [a \in Alerts |-> "absent"]

\* What FiringAlerts tells of the alerts.
Firing ==
    [a \in Alerts |-> IF rows[a].state # "firing" THEN "absent"
                      ELSE IF rows[a].acked THEN "acked" ELSE "firing"]

Unsent == [step |-> "unsent", version |-> 0, alerts |-> Nothing, passed |-> {}]

\* The tab is mounted, at any state of the server: it asks for an overview and starts to connect.
FeedInit ==
    /\ containers \in Versions
    /\ snap = [p \in Callers |-> Quiet]
    /\ rows \in [Alerts -> Row]
    /\ \A a \in Alerts : rows[a].acked => rows[a].state # "none"
    /\ engine = NoMessage
    /\ acking = NoMessage
    /\ serve = [c \in Conns |-> "new"]
    /\ buffer = [c \in Conns |-> <<>>]
    /\ cut = {}
    /\ tab = 0
    /\ link = "waiting"
    /\ overview = NoOverview
    /\ loads = [r \in Loads |->
                   IF r = 0 THEN [Unsent EXCEPT !.step = "asked"] ELSE Unsent]
    /\ faults = MaxFaults
    /\ doubt = {}

Fail == faults > 0 /\ faults' = faults - 1

-----------------------------------------------------------------------------
(* The bus *)

Subscribers == {c \in Conns : serve[c] = "subscribed"}

\* Nobody reads what a broken connection still gets: it is not modelled.
HasRoom(c) == c \in Subscribers \ cut /\ Len(buffer[c]) < Buffer

\* The history variable doubt holds the alerts of which the tab missed a
\* message, and passed, of a request, those of which the tab saw or missed one
\* since the request read the table.
Ids(messages) == {m.id : m \in {n \in messages : n.type # "containers"}}

Pass(ids) ==
    loads' = [r \in Loads |->
                 IF loads[r].step = "answered"
                 THEN [loads[r] EXCEPT !.passed = @ \cup ids]
                 ELSE loads[r]]

Miss(messages) ==
    /\ doubt' = doubt \cup Ids(messages)
    /\ Pass(Ids(messages))

\* faulty: a subscription has no bound
PublishToAll(m) ==
    buffer' = [c \in Conns |-> IF c \in Subscribers \ cut THEN Append(buffer[c], m) ELSE buffer[c]]

\* Publish never waits: a subscription that is full does not get the message.
Publish(m) ==
    buffer' = [c \in Conns |-> IF HasRoom(c) THEN Append(buffer[c], m) ELSE buffer[c]]

Hears == tab # 0 /\ HasRoom(tab)

\* The tab misses m if it does not hear it, or hears it too early.
Reach(m, early) ==
    IF Hears /\ ~early THEN UNCHANGED <<loads, doubt>> ELSE Miss({m})

-----------------------------------------------------------------------------
(* What the server publishes *)

\* An inspection of the inventory or refreshPortainer changes a container
\* (its health, its stack): nothing is published.
ChangeQuietly ==
    /\ containers < MaxChanges
    /\ containers' = containers + 1
    /\ UNCHANGED <<snap, rows, engine, acking, wire, browser, faults, doubt>>

\* refreshInventory finds that a container came, went or changed its state,
\* name or image.  Otherwise it publishes nothing.
RefreshInventory ==
    /\ "inventory" \in Callers
    /\ snap["inventory"] = Quiet
    /\ containers < MaxChanges
    /\ containers' = containers + 1
    /\ snap' = [snap EXCEPT !["inventory"] = Due]
    /\ UNCHANGED <<rows, engine, acking, wire, browser, faults, doubt>>

\* faulty: nothing is published if nothing has changed
PublishIfChanged(p) ==
    /\ snap[p] = Quiet
    /\ \/ /\ containers < MaxChanges
          /\ containers' = containers + 1
          /\ snap' = [snap EXCEPT ![p] = Due]
       \/ UNCHANGED <<containers, snap>>
    /\ UNCHANGED <<rows, engine, acking, wire, browser, faults, doubt>>

\* handleEvent deletes or inspects a container, runUpdateCheck reads the badges
\* of the images, which are shown with the containers: both publish, whether
\* anything has changed or not.
PublishAnyway(p) ==
    /\ snap[p] = Quiet
    /\ containers' \in {containers, containers + 1} \cap Versions
    /\ snap' = [snap EXCEPT ![p] = Due]
    /\ UNCHANGED <<rows, engine, acking, wire, browser, faults, doubt>>

\* publishContainers: the snapshot, and then Publish.
TakeSnapshot(p) ==
    /\ snap[p] = Due
    /\ snap' = [snap EXCEPT ![p] = containers]
    /\ UNCHANGED <<containers, rows, engine, acking, wire, browser, faults, doubt>>

PublishContainers(p) ==
    /\ snap[p] \in Versions
    /\ Publish([type |-> "containers", version |-> snap[p]])
    /\ snap' = [snap EXCEPT ![p] = Quiet]
    /\ UNCHANGED <<containers, rows, engine, acking, serve, cut, browser, faults, doubt>>

\* Engine.fire and Engine.resolve, one at a time.
Fire(a) ==
    /\ engine = NoMessage
    /\ rows[a].state = "none"
    /\ rows' = [rows EXCEPT ![a].state = "firing"]
    /\ engine' = [type |-> "firing", id |-> a]
    /\ UNCHANGED <<containers, snap, acking, wire, browser, faults, doubt>>

Resolve(a) ==
    /\ engine = NoMessage
    /\ rows[a].state = "firing"
    /\ rows' = [rows EXCEPT ![a].state = "resolved"]
    /\ engine' = [type |-> "resolved", id |-> a]
    /\ UNCHANGED <<containers, snap, acking, wire, browser, faults, doubt>>

PublishAlert ==
    /\ engine # NoMessage
    /\ Publish(engine)
    /\ Reach(engine, FALSE)
    /\ engine' = NoMessage
    /\ UNCHANGED <<containers, snap, rows, acking, serve, cut, tab, link,
                   overview, faults>>

\* handleAlertAck, asked by any tab that has read the row.  If the row was not
\* published yet, this tab hears of the acknowledgement before the alert.
Ack(a) ==
    /\ acking = NoMessage
    /\ rows[a].state # "none"
    /\ ~rows[a].acked
    /\ rows' = [rows EXCEPT ![a].acked = TRUE]
    /\ acking' = [type |-> "acked", id |-> a]
    /\ UNCHANGED <<containers, snap, engine, wire, browser, faults, doubt>>

PublishAck ==
    /\ acking # NoMessage
    /\ Publish(acking)
    /\ Reach(acking, engine = [type |-> "firing", id |-> acking.id])
    /\ acking' = NoMessage
    /\ UNCHANGED <<containers, snap, rows, engine, serve, cut, tab, link,
                   overview, faults>>

-----------------------------------------------------------------------------
(* The connection *)

\* hub.serve accepts the connection of the tab, and adds it to hub.conns ...
Connect(c) ==
    /\ link = "waiting"
    /\ c = tab + 1
    /\ tab' = c
    /\ link' = "connecting"
    /\ serve' = [serve EXCEPT ![c] = "accepted"]
    /\ UNCHANGED <<server, buffer, cut, overview, loads, faults, doubt>>

\* ... and subscribes, when the tab may already know that it is connected.
Subscribe(c) ==
    /\ serve[c] = "accepted"
    /\ serve' = [serve EXCEPT ![c] = "subscribed"]
    /\ UNCHANGED <<server, buffer, cut, browser, faults, doubt>>

\* The network breaks it; or a write or a ping times out, and the hub ends it.
Cut(c) ==
    /\ serve[c] \in {"accepted", "subscribed"}
    /\ c \notin cut
    /\ Fail
    /\ cut' = cut \cup {c}
    /\ IF c = tab
       THEN Miss({buffer[c][i] : i \in DOMAIN buffer[c]})
       ELSE UNCHANGED <<loads, doubt>>
    /\ buffer' = [buffer EXCEPT ![c] = <<>>]
    /\ UNCHANGED <<server, serve, tab, link, overview>>

\* serve returns: it unsubscribes, and takes the connection out of hub.conns.
Return(c) ==
    /\ serve[c] = "subscribed"
    /\ c \in cut
    /\ serve' = [serve EXCEPT ![c] = "gone"]
    /\ UNCHANGED <<server, buffer, cut, browser, faults, doubt>>

-----------------------------------------------------------------------------
(* The tab *)

OnOpen ==
    /\ link = "connecting"
    /\ tab \notin cut
    /\ link' = "open"
    /\ loads' = [loads EXCEPT ![tab].step = "asked"]
    /\ UNCHANGED <<server, wire, tab, overview, faults, doubt>>

\* faulty: a connection that is closed before it was open is not tried again
OnCloseWhenOpen ==
    /\ link = "open"
    /\ tab \in cut
    /\ link' = "waiting"
    /\ UNCHANGED <<server, wire, tab, overview, loads, faults, doubt>>

OnClose ==
    /\ link \in {"connecting", "open"}
    /\ tab \in cut
    /\ link' = "waiting"
    /\ UNCHANGED <<server, wire, tab, overview, loads, faults, doubt>>

\* applyLive
Applied(o, m) ==
    CASE m.type = "containers" -> [o EXCEPT !.version = m.version]
      [] m.type = "firing"     -> [o EXCEPT !.alerts[m.id] = "firing"]
      [] m.type = "resolved"   -> [o EXCEPT !.alerts[m.id] = "absent"]
      [] m.type = "acked" /\ o.alerts[m.id] = "firing" -> [o EXCEPT !.alerts[m.id] = "acked"]
      [] OTHER -> o

\* The hub writes the next message, and the tab applies it, or ignores it
\* while there is no overview.
Deliver ==
    /\ link = "open"
    /\ tab \notin cut
    /\ buffer[tab] # <<>>
    /\ LET m == Head(buffer[tab]) IN
       /\ overview' = IF overview = NoOverview THEN NoOverview ELSE Applied(overview, m)
       /\ IF overview = NoOverview
          THEN Miss({m})
          ELSE /\ Pass(Ids({m}))
               /\ UNCHANGED doubt
    /\ buffer' = [buffer EXCEPT ![tab] = Tail(@)]
    /\ UNCHANGED <<server, serve, cut, tab, link, faults>>

\* handleOverview.  It reads the snapshot and then the firing alerts; no
\* message is about both, so that one step for both loses nothing.  A failed
\* query of the alerts is logged, and the overview goes without alerts.
ReadOverview(r) ==
    /\ loads[r].step = "asked"
    /\ \/ /\ loads' = [loads EXCEPT ![r] = [@ EXCEPT !.step = "answered",
                                                    !.version = containers,
                                                    !.alerts = Firing]]
          /\ UNCHANGED faults
       \/ /\ loads' = [loads EXCEPT ![r] = [@ EXCEPT !.step = "answered",
                                                    !.version = containers,
                                                    !.passed = Alerts]]
          /\ Fail
    /\ UNCHANGED <<server, wire, tab, link, overview, doubt>>

Done(r) == loads' = [loads EXCEPT ![r] = [Unsent EXCEPT !.step = "done"]]

\* The alerts of which a message is on its way.
Pending ==
    Ids({engine, acking} \ {NoMessage})
    \cup IF tab = 0 THEN {} ELSE Ids({buffer[tab][i] : i \in DOMAIN buffer[tab]})

\* faulty: the alerts of the overview are added to those that are shown
LoadedMerged(r) ==
    /\ loads[r].step = "answered"
    /\ overview' = [version |-> loads[r].version,
                    alerts |-> [a \in Alerts |->
                                  IF overview # NoOverview /\ loads[r].alerts[a] = "absent"
                                  THEN overview.alerts[a] ELSE loads[r].alerts[a]]]
    /\ doubt' = loads[r].passed \cup (doubt \cap Pending)
    /\ Done(r)
    /\ UNCHANGED <<server, wire, tab, link, faults>>

Loaded(r) ==
    /\ loads[r].step = "answered"
    /\ overview' = [version |-> loads[r].version, alerts |-> loads[r].alerts]
    /\ doubt' = loads[r].passed \cup (doubt \cap Pending)
    /\ Done(r)
    /\ UNCHANGED <<server, wire, tab, link, faults>>

\* The tab keeps the overview it has.
Failed(r) ==
    /\ loads[r].step \in {"asked", "answered"}
    /\ Fail
    /\ Done(r)
    /\ UNCHANGED <<server, wire, tab, link, overview, doubt>>

-----------------------------------------------------------------------------

FeedNext ==
    \/ ChangeQuietly \/ RefreshInventory
    \/ \E p \in Callers \ {"inventory"} : PublishAnyway(p)
    \/ \E p \in Callers : TakeSnapshot(p) \/ PublishContainers(p)
    \/ \E a \in Alerts : Fire(a) \/ Resolve(a) \/ Ack(a)
    \/ PublishAlert
    \/ PublishAck
    \/ \E c \in Conns : Connect(c) \/ Subscribe(c) \/ Cut(c) \/ Return(c)
    \/ OnOpen
    \/ OnClose
    \/ Deliver
    \/ \E r \in Loads :
          \/ ReadOverview(r)
          \/ Loaded(r)
          \/ Failed(r)

FeedSpec == FeedInit /\ [][FeedNext]_feedVars

\* The ticker of the update check repeats, and the goroutines and the tab go
\* on.  Nothing is assumed of changes, of events or of failures.
Fairness ==
    /\ "updates" \in Callers => WF_feedVars(PublishAnyway("updates"))
    /\ \A p \in Callers : WF_feedVars(TakeSnapshot(p) \/ PublishContainers(p))
    /\ WF_feedVars(PublishAlert)
    /\ WF_feedVars(PublishAck)
    /\ \A c \in Conns : WF_feedVars(Connect(c) \/ Subscribe(c) \/ Return(c))
    /\ WF_feedVars(OnOpen \/ OnClose)
    /\ WF_feedVars(Deliver)
    /\ \A r \in Loads : WF_feedVars(ReadOverview(r) \/ Loaded(r))

FairFeedSpec == FeedSpec /\ Fairness

-----------------------------------------------------------------------------
(* Properties *)

\* When no message of an alert is on its way, the tab shows what the table
\* says of it, unless it missed a message and has not loaded an overview since:
\* the subscription was full, or not there (broken, or not made yet), or the
\* tab had no overview, or an overview that was read before a message was
\* loaded after it.
AlertsAreRight ==
    \A a \in Alerts \ (Pending \cup doubt) :
        overview # NoOverview => overview.alerts[a] = Firing[a]

\* Whatever was dropped, published out of order, overwritten by an old overview
\* or changed without being published, the containers that the tab shows become
\* right: the check for updates publishes them again.  Nothing else does, until
\* a container changes, an event comes, or the tab loads or connects again.
ContainersConverge == <>[](overview # NoOverview => overview.version = containers)

\* When connections no longer break, the tab has one, the bus has one
\* subscription, and the hub has forgotten all others.
OneSubscription ==
    <>[](/\ link = "open"
         /\ Subscribers = {tab}
         /\ \A c \in 1..(tab - 1) : serve[c] = "gone")
=============================================================================
