---------------------------- MODULE EventStream ----------------------------
(* internal/collector/events.go: the loop that reads Docker's event stream,  *)
(* opens it again when it breaks, and stores what it reads; and the restart  *)
(* counts that Collector.evaluate takes from the stored rows.                *)
(*                                                                           *)
(* Docker's events are a log, and an event is its place in it. The module    *)
(* follows one container and the events that are counted or end its life.    *)
(* What handleEvent does to the containers map is the subject of Inventory.  *)
EXTENDS Integers, Sequences, FiniteSets

CONSTANTS
    Causes,       \* what happens to the container: a subset of AllCauses
    Threshold,    \* ALERT_RESTART_COUNT
    Window,       \* ALERT_RESTART_WINDOW
    \* Bounds of the model
    MaxTime,      \* the last second
    MaxLog,       \* events of the container
    MaxBreaks,    \* streams that break, or cannot be opened
    MaxFaults     \* failed inserts and ends of the process

AllCauses == {"crash", "oom", "command"}

ASSUME StreamAssumption ==
    /\ Causes \subseteq AllCauses
    /\ Threshold \in Nat \ {0}
    /\ Window \in Nat
    /\ MaxTime \in Nat
    /\ MaxLog \in Nat
    /\ MaxBreaks \in Nat
    /\ MaxFaults \in Nat

VARIABLES
    clock,     \* time.Now().Unix()
    log,       \* Docker: every event so far
    stream,    \* "waiting" for the timer, "opening" or "open"
    since,     \* where the next stream starts, a whole second
    next,      \* Docker: the event that an open stream sends next
    breaks,    \* failures of the stream still allowed
    faults,    \* other failures still allowed
    handling,  \* the event in handleEvent, 0 if none
    step,      \* where handleEvent is
    started,   \* history: the second in which the loop started
    seen,      \* history: the events handled since then
    failed,    \* history: the events whose insert failed
    rows,      \* the events table
    lines      \* log_errors, which is unique in second and text

vars == <<clock, log, stream, since, next, breaks, faults, handling, step,
          started, seen, failed, rows, lines>>

handler == <<handling, step, seen, failed, rows, lines>>

Times == 0..MaxTime
\* A die event with exit code 0 is called a quit here.
Event == [at : Times, kind : {"die", "quit", "oom", "start", "restart"}]
Line  == [at : Times, kind : {"die", "oom"}]

TypeOK ==
    /\ clock \in Times
    /\ log \in Seq(Event)
    /\ stream \in {"waiting", "opening", "open"}
    /\ since \in Times
    /\ next \in Nat \ {0}
    /\ breaks \in 0..MaxBreaks
    /\ faults \in 0..MaxFaults
    /\ handling \in 0..Len(log)
    /\ step \in {"idle", "row", "line", "rest"}
    /\ started \in Times
    /\ seen \in SUBSET DOMAIN log
    /\ failed \in SUBSET DOMAIN log
    /\ rows \in Seq(DOMAIN log)
    /\ lines \in SUBSET Line

\* eventsLoop starts.
Init ==
    /\ clock = 0
    /\ log = <<>>
    /\ stream = "opening"
    /\ since = 0
    /\ next = 1
    /\ breaks = MaxBreaks
    /\ faults = MaxFaults
    /\ handling = 0
    /\ step = "idle"
    /\ started = 0
    /\ seen = {}
    /\ failed = {}
    /\ rows = <<>>
    /\ lines = {}

-----------------------------------------------------------------------------
(* The world *)

Tick ==
    /\ clock < MaxTime
    /\ clock' = clock + 1
    /\ UNCHANGED <<log, stream, since, next, breaks, faults, started, handler>>

Running == log = <<>> \/ log[Len(log)].kind \notin {"die", "quit"}

\* What Docker reports of each thing that may happen.
Kinds(cause) ==
    CASE cause = "crash"   -> <<"die">>
      [] cause = "oom"     -> <<"oom", "die">>
      [] cause = "start"   -> <<"start">>
      [] cause = "command" -> <<"quit", "start", "restart">>   \* docker restart

Emit(cause) ==
    /\ Running <=> cause # "start"
    /\ Len(log) + Len(Kinds(cause)) <= MaxLog
    /\ log' = log \o [i \in DOMAIN Kinds(cause) |-> [at |-> clock, kind |-> Kinds(cause)[i]]]
    /\ UNCHANGED <<clock, stream, since, next, breaks, faults, started, handler>>

-----------------------------------------------------------------------------
(* eventsLoop and Client.Events *)

\* Docker starts with the first event of the second since, or of a later one.
Open ==
    /\ stream = "opening"
    /\ stream' = "open"
    /\ \E n \in 1..(Len(log) + 1) :
          /\ \A i \in DOMAIN log : i < n <=> log[i].at < since
          /\ next' = n
    /\ UNCHANGED <<clock, log, since, breaks, faults, started, handler>>

\* The request fails, or the stream ends between two events.
Break ==
    /\ stream \in {"opening", "open"}
    /\ handling = 0
    /\ breaks > 0
    /\ breaks' = breaks - 1
    /\ stream' = "waiting"
    /\ UNCHANGED <<clock, log, since, next, faults, started, handler>>

\* The timer fires, after a delay that the properties do not depend on.
Retry ==
    /\ stream = "waiting"
    /\ stream' = "opening"
    /\ UNCHANGED <<clock, log, since, next, breaks, faults, started, handler>>

\* faulty: the next stream starts after the second of the last event
SinceAfter(i) == log[i].at + 1

Since(i) == log[i].at

\* An event arrives: since is set, and handleEvent begins.
Receive ==
    /\ stream = "open"
    /\ handling = 0
    /\ next <= Len(log)
    /\ since' = Since(next)
    /\ next' = next + 1
    /\ handling' = next
    /\ step' = "row"
    /\ seen' = seen \cup {next}
    /\ UNCHANGED <<clock, log, stream, breaks, faults, started, failed, rows, lines>>

-----------------------------------------------------------------------------
(* handleEvent *)

StoreEvent ==
    /\ step = "row"
    /\ rows' = Append(rows, handling)
    /\ step' = "line"
    /\ UNCHANGED <<clock, log, stream, since, next, breaks, faults, started,
                   handling, seen, failed, lines>>

\* Its failure is only logged.
StoreEventFails ==
    /\ step = "row"
    /\ faults > 0
    /\ faults' = faults - 1
    /\ failed' = failed \cup {handling}
    /\ step' = "line"
    /\ UNCHANGED <<clock, log, stream, since, next, breaks, started,
                   handling, seen, rows, lines>>

\* faulty: only an exit leaves a line, a death by the OOM killer does not
LineOfExit(e) == {l \in Line : l.at = e.at /\ l.kind = e.kind /\ l.kind = "die"}

\* recordErrorLine: INSERT OR IGNORE
LineOf(e) == {l \in Line : l.at = e.at /\ l.kind = e.kind}

StoreLine ==
    /\ step = "line"
    /\ lines' = lines \cup LineOf(log[handling])
    /\ step' = "rest"
    /\ UNCHANGED <<clock, log, stream, since, next, breaks, faults, started,
                   handling, seen, failed, rows>>

StoreLineFails ==
    /\ step = "line"
    /\ LineOf(log[handling]) # {}
    /\ faults > 0
    /\ faults' = faults - 1
    /\ failed' = failed \cup {handling}
    /\ step' = "rest"
    /\ UNCHANGED <<clock, log, stream, since, next, breaks, started, handling, seen, rows, lines>>

\* The inventory, the message on the bus, evaluate; the next event is read.
Return ==
    /\ step = "rest"
    /\ handling' = 0
    /\ step' = "idle"
    /\ UNCHANGED <<clock, log, stream, since, next, breaks, faults, started,
                   seen, failed, rows, lines>>

\* The process ends and starts again: since := time.Now().
Restart ==
    /\ faults > 0
    /\ faults' = faults - 1
    /\ stream' = "opening"
    /\ since' = clock
    /\ started' = clock
    /\ handling' = 0
    /\ step' = "idle"
    /\ seen' = {}
    /\ UNCHANGED <<clock, log, next, breaks, failed, rows, lines>>

-----------------------------------------------------------------------------

Loop == Open \/ Retry \/ Receive \/ StoreEvent \/ StoreLine \/ Return

Next ==
    \/ Tick
    \/ \E cause \in Causes \cup {"start"} : Emit(cause)
    \/ Loop \/ Break \/ StoreEventFails \/ StoreLineFails \/ Restart

Spec == Init /\ [][Next]_vars

\* The goroutine keeps running; streams break only finitely often.
FairSpec == Spec /\ WF_vars(Loop)

-----------------------------------------------------------------------------
(* Restart counts *)

Counted == {"restart", "die", "quit", "oom"}

\* RestartCounts: rows, not events
RestartCount ==
    Cardinality({r \in DOMAIN rows : log[rows[r]].at >= clock - Window
                                     /\ log[rows[r]].kind \in Counted})

Recent(kinds) == {i \in DOMAIN log : log[i].at >= clock - Window /\ log[i].kind \in kinds}

-----------------------------------------------------------------------------
(* Properties *)

\* Reopening never skips an event: when one is handled, so was every earlier
\* one since the loop started, however many fall into one second and wherever
\* the stream broke.
NoGaps ==
    \A j \in seen : \A i \in 1..j : log[i].at >= started => i \in seen

\* What was handled is in the events table, and a death in the error list,
\* unless an insert of its own failed.
HandledIsStored ==
    \A i \in seen \ failed :
        /\ (i # handling \/ step # "row") => \E r \in DOMAIN rows : rows[r] = i
        /\ (i # handling \/ step = "rest") /\ log[i].kind \in {"die", "oom"} => log[i] \in lines

\* Every event is handled in the end, unless the loop starts anew after it.
HandledInTheEnd ==
    \A i \in 1..MaxLog :
        (i <= Len(log)) ~> (i \in seen \/ (i <= Len(log) /\ log[i].at < started))

\* README: restart_loop fires on "ALERT_RESTART_COUNT die or restart events".
LoopHasDeathsOrRestarts ==
    RestartCount >= Threshold => Cardinality(Recent({"die", "quit", "restart"})) >= Threshold
=============================================================================
