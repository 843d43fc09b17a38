------------------------- MODULE EventStreamProofs -------------------------
(* Theorems about EventStream for every window, threshold and bound, with    *)
(* machine-checked proofs.                                                   *)
(*                                                                           *)
(* The argument: Docker's log is sorted by second. What an open stream has   *)
(* yet to send is not older than since, so since never goes back; what is    *)
(* older than since has been handled, so a stream that starts at since finds *)
(* everything before it done, and repeats what it shares a second with.      *)
EXTENDS EventStream, FiniteSetTheorems, SequenceTheorems, TLAPS

\* Docker's log is sorted, and nothing is later than the clock.
Ordered ==
    /\ \A i, j \in DOMAIN log : i <= j => log[i].at <= log[j].at
    /\ \A i \in DOMAIN log : log[i].at <= clock
    /\ started <= since
    /\ since <= clock

\* All that is older than since was handled.
OlderIsHandled ==
    \A i \in DOMAIN log : started <= log[i].at /\ log[i].at < since => i \in seen

\* An open stream has sent all before next, and what follows is not older than since.
Streamed ==
    stream = "open" =>
        /\ next <= Len(log) + 1
        /\ \A i \in DOMAIN log : i < next /\ started <= log[i].at => i \in seen
        /\ \A i \in DOMAIN log : next <= i => since <= log[i].at

Handler == step = "idle" <=> handling = 0

IInv == TypeOK /\ Ordered /\ OlderIsHandled /\ Streamed /\ Handler /\ NoGaps /\ HandledIsStored

-----------------------------------------------------------------------------

LEMMA Seconds ==
    ASSUME TypeOK
    PROVE  /\ clock \in Nat /\ since \in Nat /\ started \in Nat /\ next \in Nat
           /\ \A i \in DOMAIN log : log[i] \in Event /\ log[i].at \in Nat
<1>1. Times \subseteq Nat
  BY StreamAssumption DEF Times
<1>2. clock \in Nat /\ since \in Nat /\ started \in Nat /\ next \in Nat
  BY <1>1 DEF TypeOK
<1>3. ASSUME NEW i \in DOMAIN log
      PROVE  log[i] \in Event /\ log[i].at \in Nat
  <2>1. log[i] \in Event
    BY <1>3 DEF TypeOK
  <2> QED
    BY <1>1, <2>1 DEF Event
<1> QED
  BY <1>2, <1>3

\* What happens to the container is added to the log in the present second.
LEMMA Emitted ==
    ASSUME TypeOK, NEW cause \in Causes \cup {"start"}, Emit(cause)
    PROVE  /\ log' \in Seq(Event)
           /\ DOMAIN log \subseteq DOMAIN log'
           /\ Len(log) <= Len(log')
           /\ \A i \in DOMAIN log : log'[i] = log[i]
           /\ \A i \in DOMAIN log' \ DOMAIN log : log'[i].at = clock
<1> DEFINE new == [i \in DOMAIN Kinds(cause) |-> [at |-> clock, kind |-> Kinds(cause)[i]]]
<1>1. Kinds(cause) \in Seq({"die", "quit", "oom", "start", "restart"})
  <2>1. CASE cause = "crash"
    BY <2>1 DEF Kinds
  <2>2. CASE cause = "oom"
    BY <2>2 DEF Kinds
  <2>3. CASE cause = "start"
    BY <2>3 DEF Kinds
  <2>4. CASE cause = "command"
    BY <2>4 DEF Kinds
  <2> QED
    BY <2>1, <2>2, <2>3, <2>4, StreamAssumption DEF AllCauses
<1>2. new \in Seq(Event) /\ Len(new) = Len(Kinds(cause))
  <2>1. Len(Kinds(cause)) \in Nat /\ DOMAIN Kinds(cause) = 1..Len(Kinds(cause))
    BY <1>1
  <2>2. \A i \in 1..Len(Kinds(cause)) : new[i] \in Event
    BY <1>1, <2>1 DEF TypeOK, Event
  <2> QED
    BY <2>1, <2>2
<1>3. log' = log \o new
  BY DEF Emit
<1>4. \A i \in DOMAIN new : new[i].at = clock
  OBVIOUS
<1> HIDE DEF new
<1>5. log \in Seq(Event)
  BY DEF TypeOK
<1> QED
  BY <1>2, <1>3, <1>4, <1>5, ConcatProperties

LEMMA InitInvariant == Init => IInv
  BY StreamAssumption
  DEF Init, IInv, TypeOK, Times, Event, Ordered, OlderIsHandled, Streamed, Handler,
      NoGaps, HandledIsStored

LEMMA EmitInvariant ==
    ASSUME IInv, NEW cause \in Causes \cup {"start"}, Emit(cause)
    PROVE  IInv'
<1> USE DEF Emit, handler
<1>1. TypeOK
  BY DEF IInv
<1>0. /\ clock \in Nat /\ since \in Nat /\ started \in Nat /\ next \in Nat
      /\ \A i \in DOMAIN log : log[i].at \in Nat
  BY <1>1, Seconds
<1>2. /\ log' \in Seq(Event)
      /\ DOMAIN log \subseteq DOMAIN log'
      /\ Len(log) <= Len(log')
      /\ \A i \in DOMAIN log : log'[i] = log[i]
      /\ \A i \in DOMAIN log' \ DOMAIN log : log'[i].at = clock
  BY <1>1, Emitted
<1> HIDE DEF Emit
<1>3. UNCHANGED <<clock, stream, since, next, breaks, faults, started, handler>>
  BY DEF Emit
<1>4. TypeOK'
  <2>1. rows' \in Seq(DOMAIN log')
    BY <1>1, <1>2, <1>3 DEF TypeOK
  <2>2. handling' \in 0..Len(log')
    BY <1>1, <1>2, <1>3 DEF TypeOK
  <2> QED
    BY <1>1, <1>2, <1>3, <2>1, <2>2 DEF TypeOK
<1>5. Ordered'
  <2>1. \A i \in DOMAIN log' : log'[i].at <= clock
    BY <1>0, <1>2 DEF IInv, Ordered
  <2>2. ASSUME NEW i \in DOMAIN log', NEW j \in DOMAIN log', i <= j
        PROVE  log'[i].at <= log'[j].at
    <3>1. CASE j \in DOMAIN log
      <4>1. i \in DOMAIN log
        BY <1>1, <1>2, <2>2, <3>1 DEF TypeOK
      <4> QED
        BY <1>2, <2>2, <3>1, <4>1 DEF IInv, Ordered
    <3>2. CASE j \notin DOMAIN log
      BY <1>2, <2>1, <3>2
    <3> QED
      BY <3>1, <3>2
  <2>3. started' <= since' /\ since' <= clock'
    BY <1>3 DEF IInv, Ordered
  <2> QED
    BY <1>3, <2>1, <2>2, <2>3 DEF Ordered
<1>6. OlderIsHandled'
  BY <1>0, <1>2, <1>3 DEF IInv, Ordered, OlderIsHandled
<1>7. Streamed'
  <2>1. SUFFICES ASSUME stream = "open"
                 PROVE  /\ next <= Len(log') + 1
                        /\ \A i \in DOMAIN log' : i < next /\ started <= log'[i].at => i \in seen
                        /\ \A i \in DOMAIN log' : next <= i => since <= log'[i].at
    BY <1>3 DEF Streamed
  <2>2. Len(log) \in Nat /\ Len(log') \in Nat /\ next <= Len(log) + 1
    BY <1>1, <1>2, <2>1 DEF IInv, Streamed, TypeOK
  <2>3. \A i \in DOMAIN log' : i \in DOMAIN log \/ next <= i
    BY <1>0, <1>1, <1>2, <2>2 DEF TypeOK
  <2>4. \A i \in DOMAIN log' : i < next /\ started <= log'[i].at => i \in seen
    BY <1>0, <1>2, <2>1, <2>3 DEF IInv, Streamed
  <2>5. \A i \in DOMAIN log' : next <= i => since <= log'[i].at
    BY <1>0, <1>2, <2>1 DEF IInv, Streamed, Ordered
  <2> QED
    BY <1>0, <1>2, <2>2, <2>4, <2>5
<1>8. Handler'
  BY <1>3 DEF IInv, Handler
<1>9. NoGaps'
  <2>1. \A j \in seen : \A i \in 1..j : i \in DOMAIN log
    BY <1>1 DEF TypeOK
  <2> QED
    BY <1>2, <1>3, <2>1 DEF IInv, NoGaps
<1>10. HandledIsStored'
  BY <1>1, <1>2, <1>3 DEF IInv, HandledIsStored, TypeOK
<1> QED
  BY <1>4, <1>5, <1>6, <1>7, <1>8, <1>9, <1>10 DEF IInv

\* An event arrives: since does not go back, and no earlier event is missing.
LEMMA ReceiveInvariant ==
    ASSUME IInv, Receive
    PROVE  IInv'
<1> USE DEF Receive, Since
<1>1. TypeOK /\ next \in DOMAIN log /\ log[next] \in Event
  BY DEF IInv, TypeOK
<1>2. TypeOK'
  BY <1>1 DEF TypeOK, Event
<1>3. \A i \in DOMAIN log : /\ log[i].at \in Nat
                            /\ i < next => log[i].at <= since'
                            /\ next <= i => since' <= log[i].at
  BY <1>1, Seconds DEF IInv, Ordered
<1>4. \A i \in DOMAIN log : i < next /\ started <= log[i].at => i \in seen
  BY DEF IInv, Streamed
<1>5. since \in Nat /\ started \in Nat /\ since <= since'
  BY <1>1 DEF IInv, Streamed, TypeOK, Times
<1>6. Ordered'
  BY <1>1, <1>3, <1>5 DEF IInv, Ordered, TypeOK, Times
<1>7. OlderIsHandled'
  BY <1>1, <1>3, <1>4, <1>5 DEF OlderIsHandled
<1>8. Streamed'
  BY <1>1, <1>3, <1>4 DEF IInv, Streamed
<1>9. Handler'
  BY <1>1 DEF Handler
<1>10. NoGaps'
  <2>1. SUFFICES ASSUME NEW j \in seen', NEW i \in 1..j, log[i].at >= started
                 PROVE  i \in seen'
    BY DEF NoGaps
  <2>2. CASE j \in seen
    BY <2>1, <2>2 DEF IInv, NoGaps
  <2>3. CASE j = next
    BY <1>1, <1>3, <1>4, <1>5, <2>1, <2>3
  <2> QED
    BY <2>2, <2>3
<1>11. HandledIsStored'
  BY <1>1 DEF IInv, HandledIsStored, TypeOK
<1> QED
  BY <1>2, <1>6, <1>7, <1>8, <1>9, <1>10, <1>11 DEF IInv

\* The stream is opened at since: nothing before that second is missing.
LEMMA OpenInvariant ==
    ASSUME IInv, Open
    PROVE  IInv'
<1> USE DEF Open, handler
<1>1. TypeOK
  BY DEF IInv
<1>2. next' \in 1..(Len(log) + 1) /\ \A i \in DOMAIN log : i < next' <=> log[i].at < since
  OBVIOUS
<1>3. TypeOK'
  BY <1>1, <1>2 DEF TypeOK
<1>4. Streamed'
  <2>1. next' <= Len(log) + 1
    BY <1>1, <1>2 DEF TypeOK
  <2>2. \A i \in DOMAIN log : i < next' /\ started <= log[i].at => i \in seen
    BY <1>2 DEF IInv, OlderIsHandled
  <2>3. \A i \in DOMAIN log : next' <= i => since <= log[i].at
    BY <1>1, <1>2, Seconds DEF TypeOK
  <2> QED
    BY <2>1, <2>2, <2>3 DEF Streamed
<1>5. Ordered' /\ OlderIsHandled' /\ Handler' /\ NoGaps' /\ HandledIsStored'
  BY DEF IInv, Ordered, OlderIsHandled, Handler, NoGaps, HandledIsStored
<1> QED
  BY <1>3, <1>4, <1>5 DEF IInv

\* The loop starts anew: nothing is older than since.
LEMMA RestartInvariant ==
    ASSUME IInv, Restart
    PROVE  IInv'
<1> USE DEF Restart
<1>1. TypeOK /\ TypeOK'
  BY StreamAssumption DEF IInv, TypeOK
<1>2. Ordered'
  BY <1>1 DEF IInv, Ordered, TypeOK, Times
<1>3. OlderIsHandled' /\ Streamed' /\ Handler' /\ NoGaps' /\ HandledIsStored'
  BY <1>1, Seconds DEF OlderIsHandled, Streamed, Handler, NoGaps, HandledIsStored
<1> QED
  BY <1>1, <1>2, <1>3 DEF IInv

\* handleEvent leaves the stream alone, and the tables only grow.
LEMMA HandlerInvariant ==
    ASSUME IInv, StoreEvent \/ StoreEventFails \/ StoreLine \/ StoreLineFails \/ Return
    PROVE  IInv'
<1>1. TypeOK
  BY DEF IInv
<1>2. UNCHANGED <<clock, log, stream, since, next, started, seen>>
  BY DEF StoreEvent, StoreEventFails, StoreLine, StoreLineFails, Return
<1>3. Ordered' /\ OlderIsHandled' /\ Streamed' /\ NoGaps'
  BY <1>2 DEF IInv, Ordered, OlderIsHandled, Streamed, NoGaps
<1>4. CASE StoreEvent
  <2> USE DEF StoreEvent
  <2>1. handling \in DOMAIN log
    BY <1>1, <1>4 DEF IInv, Handler, TypeOK
  <2>2. /\ rows' \in Seq(DOMAIN log)
        /\ Len(rows') = Len(rows) + 1
        /\ \A r \in DOMAIN rows : r \in DOMAIN rows' /\ rows'[r] = rows[r]
        /\ Len(rows) + 1 \in DOMAIN rows' /\ rows'[Len(rows) + 1] = handling
    BY <1>1, <1>4, <2>1 DEF TypeOK
  <2>3. TypeOK' /\ Handler'
    BY <1>1, <1>4, <2>1, <2>2 DEF TypeOK, Handler
  <2>4. HandledIsStored'
    BY <1>4, <2>2 DEF IInv, HandledIsStored
  <2> QED
    BY <1>3, <2>3, <2>4 DEF IInv
<1>5. CASE StoreEventFails
  <2> USE DEF StoreEventFails
  <2>1. handling \in DOMAIN log
    BY <1>1, <1>5 DEF IInv, Handler, TypeOK
  <2>2. faults' \in 0..MaxFaults
    BY <1>1, <1>5, StreamAssumption DEF TypeOK
  <2>3. TypeOK'
    BY <1>1, <1>5, <2>1, <2>2 DEF TypeOK
  <2>4. Handler' /\ HandledIsStored'
    BY <1>5 DEF IInv, Handler, HandledIsStored
  <2> QED
    BY <1>3, <2>3, <2>4 DEF IInv
<1>6. CASE StoreLine
  <2> USE DEF StoreLine
  <2>1. handling \in DOMAIN log /\ log[handling] \in Event
    BY <1>1, <1>6 DEF IInv, Handler, TypeOK
  <2>2. log[handling].kind \in {"die", "oom"} => log[handling] \in lines'
    BY <1>6, <2>1 DEF LineOf, Line, Event
  <2>3. TypeOK' /\ Handler'
    BY <1>1, <1>6, <2>1 DEF IInv, TypeOK, Handler, LineOf
  <2>4. HandledIsStored'
    BY <1>6, <2>2 DEF IInv, HandledIsStored
  <2> QED
    BY <1>3, <2>3, <2>4 DEF IInv
<1>7. CASE StoreLineFails
  <2> USE DEF StoreLineFails
  <2>1. handling \in DOMAIN log
    BY <1>1, <1>7 DEF IInv, Handler, TypeOK
  <2>2. faults' \in 0..MaxFaults
    BY <1>1, <1>7, StreamAssumption DEF TypeOK
  <2>3. TypeOK'
    BY <1>1, <1>7, <2>1, <2>2 DEF TypeOK
  <2>4. Handler' /\ HandledIsStored'
    BY <1>7 DEF IInv, Handler, HandledIsStored
  <2> QED
    BY <1>3, <2>3, <2>4 DEF IInv
<1>8. CASE Return
  BY <1>1, <1>3, <1>8 DEF IInv, Return, TypeOK, Handler, HandledIsStored
<1> QED
  BY <1>4, <1>5, <1>6, <1>7, <1>8

LEMMA NextInvariant == IInv /\ [Next]_vars => IInv'
<1> SUFFICES ASSUME IInv, [Next]_vars PROVE IInv'
  OBVIOUS
<1> USE DEF handler
<1>1. CASE Tick
  <2> USE DEF Tick
  <2>1. TypeOK /\ clock' \in Times
    BY <1>1, StreamAssumption DEF IInv, TypeOK, Times
  <2>2. TypeOK'
    BY <1>1, <2>1 DEF TypeOK
  <2>3. Ordered'
    BY <1>1, <2>1, Seconds DEF IInv, Ordered
  <2>4. OlderIsHandled' /\ Streamed' /\ Handler' /\ NoGaps' /\ HandledIsStored'
    BY <1>1 DEF IInv, OlderIsHandled, Streamed, Handler, NoGaps, HandledIsStored
  <2> QED
    BY <2>2, <2>3, <2>4 DEF IInv
<1>2. ASSUME NEW cause \in Causes \cup {"start"}, Emit(cause) PROVE IInv'
  BY <1>2, EmitInvariant
<1>3. CASE Open
  BY <1>3, OpenInvariant
<1>4. CASE Receive
  BY <1>4, ReceiveInvariant
<1>5. CASE Break
  <2> USE DEF Break
  <2>1. TypeOK /\ breaks' \in 0..MaxBreaks
    BY <1>5, StreamAssumption DEF IInv, TypeOK
  <2>2. TypeOK'
    BY <1>5, <2>1 DEF TypeOK
  <2>3. Ordered' /\ OlderIsHandled' /\ Streamed' /\ Handler' /\ NoGaps' /\ HandledIsStored'
    BY <1>5 DEF IInv, Ordered, OlderIsHandled, Streamed, Handler, NoGaps, HandledIsStored
  <2> QED
    BY <2>2, <2>3 DEF IInv
<1>6. CASE Retry
  BY <1>6 DEF IInv, TypeOK, Ordered, OlderIsHandled, Streamed, Handler, NoGaps, HandledIsStored, Retry
<1>7. CASE StoreEvent \/ StoreEventFails \/ StoreLine \/ StoreLineFails \/ Return
  BY <1>7, HandlerInvariant
<1>8. CASE Restart
  BY <1>8, RestartInvariant
<1>9. CASE UNCHANGED vars
  BY <1>9 DEF vars, IInv, TypeOK, Ordered, OlderIsHandled, Streamed, Handler, NoGaps, HandledIsStored
<1> QED
  BY <1>1, <1>2, <1>3, <1>4, <1>5, <1>6, <1>7, <1>8, <1>9 DEF Next, Loop

-----------------------------------------------------------------------------

\* What is older than since was handled, in every reachable state.
THEOREM Invariance == Spec => []IInv
  BY InitInvariant, NextInvariant, PTL DEF Spec

\* Types are kept: log, tables and times stay in their sets.
THEOREM TypeCorrect == Spec => []TypeOK
<1>1. IInv => TypeOK
  BY DEF IInv
<1> QED
  BY <1>1, Invariance, PTL

\* However often the stream breaks, reopening it at the second of the last
\* event never skips one.
THEOREM ReopeningSkipsNothing == Spec => []NoGaps
<1>1. IInv => NoGaps
  BY DEF IInv
<1> QED
  BY <1>1, Invariance, PTL

\* handleEvent stores each event it is given, and the line of a death,
\* unless the store refuses.
THEOREM HandledEventsAreStored == Spec => []HandledIsStored
<1>1. IInv => HandledIsStored
  BY DEF IInv
<1> QED
  BY <1>1, Invariance, PTL

-----------------------------------------------------------------------------
(* Redelivery.  A stream that is opened again at since sends once more what  *)
(* falls into that second, and a restarted program what follows its start,   *)
(* so an event may be handled and stored more than once.                     *)

\* The rows of an event.
Copies(i) == {r \in DOMAIN rows : rows[r] = i}

\* Failures so far: streams that broke, inserts that failed, restarts.
Failures == (MaxBreaks - breaks) + (MaxFaults - faults)

\* An event is stored once, and at most once more for each failure.
StoredOncePerStream == \A i \in DOMAIN log : Cardinality(Copies(i)) <= 1 + Failures

\* The open stream has sent the event, and its row is no longer to come.
Passed(i) == stream = "open" /\ i < next /\ ~(step = "row" /\ handling = i)

\* Each stream has a failure before it, but for the first.
CopiesPerStream ==
    \A i \in DOMAIN log : Cardinality(Copies(i)) <= IF Passed(i) THEN Failures + 1 ELSE Failures

\* An event is handled while the stream that sent it is open.
Receiving == handling # 0 => stream = "open" /\ handling < next

\* Nothing that was handled is younger than since.
SeenUpToSince == \A i \in seen : log[i].at <= since

RInv == IInv /\ CopiesPerStream /\ Receiving /\ SeenUpToSince

\* What is counted is finite.
LEMMA CopiesAreFinite ==
    ASSUME TypeOK, NEW i
    PROVE  IsFiniteSet(Copies(i)) /\ Cardinality(Copies(i)) \in Nat /\ Copies(i) \subseteq 1..Len(rows)
<1>1. DOMAIN rows = 1..Len(rows) /\ Len(rows) \in Nat
  BY DEF TypeOK
<1>2. IsFiniteSet(1..Len(rows))
  BY <1>1, FS_Interval
<1>3. Copies(i) \subseteq 1..Len(rows)
  BY <1>1 DEF Copies
<1> QED
  BY <1>2, <1>3, FS_Subset, FS_CardinalityType

LEMMA FailuresType == TypeOK => Failures \in Nat /\ breaks \in Nat /\ faults \in Nat
  BY StreamAssumption DEF TypeOK, Failures

\* A step that stores no row, and passes no event.
LEMMA NoCopies ==
    ASSUME RInv, TypeOK', rows' = rows, DOMAIN log \subseteq DOMAIN log',
           Failures <= Failures',
           \A i \in DOMAIN log : Passed(i) => Passed(i)' \/ Failures + 1 <= Failures'
    PROVE  CopiesPerStream'
<1>1. TypeOK /\ Failures \in Nat /\ Failures' \in Nat
  <2>1. TypeOK
    BY DEF RInv, IInv
  <2>2. Failures' \in Nat
    BY StreamAssumption DEF TypeOK, Failures
  <2> QED
    BY <2>1, <2>2, FailuresType
<1> SUFFICES ASSUME NEW i \in DOMAIN log'
             PROVE  Cardinality(Copies(i)') <= IF Passed(i)' THEN Failures' + 1 ELSE Failures'
  BY DEF CopiesPerStream
<1>2. Copies(i)' = Copies(i)
  BY DEF Copies
<1>3. CASE i \in DOMAIN log
  <2>1. Cardinality(Copies(i)) <= IF Passed(i) THEN Failures + 1 ELSE Failures
    BY <1>3 DEF RInv, CopiesPerStream
  <2>2. Cardinality(Copies(i)) \in Nat
    BY <1>1, CopiesAreFinite
  <2> QED
    BY <1>1, <1>2, <1>3, <2>1, <2>2
<1>4. CASE i \notin DOMAIN log
  <2>1. Copies(i) = {}
    BY <1>1, <1>4 DEF Copies, TypeOK
  <2>2. Cardinality({}) = 0
    BY FS_EmptySet
  <2> QED
    BY <1>1, <1>2, <2>1, <2>2
<1> QED
  BY <1>3, <1>4

LEMMA RedeliveryInit == Init => RInv
<1> SUFFICES ASSUME Init PROVE RInv
  OBVIOUS
<1>1. IInv
  BY InitInvariant
<1>2. DOMAIN log = {} /\ seen = {} /\ handling = 0
  BY DEF Init
<1> QED
  BY <1>1, <1>2 DEF RInv, CopiesPerStream, Receiving, SeenUpToSince

\* The row of the event that is being handled is added.
LEMMA RedeliveryStore ==
    ASSUME RInv, StoreEvent
    PROVE  CopiesPerStream'
<1>1. TypeOK /\ Failures \in Nat /\ Failures' = Failures
  <2>1. TypeOK
    BY DEF RInv, IInv
  <2> QED
    BY <2>1, FailuresType DEF StoreEvent, Failures
<1>2. /\ handling \in DOMAIN log /\ stream = "open" /\ handling < next
      /\ step = "row" /\ step' = "line"
      /\ UNCHANGED <<log, stream, next, handling>>
  BY <1>1 DEF RInv, IInv, Handler, Receiving, StoreEvent, TypeOK
<1>3. /\ Len(rows) \in Nat /\ DOMAIN rows = 1..Len(rows) /\ DOMAIN rows' = 1..(Len(rows) + 1)
      /\ rows'[Len(rows) + 1] = handling
      /\ \A r \in 1..Len(rows) : rows'[r] = rows[r]
  BY <1>1, <1>2 DEF StoreEvent, TypeOK
<1> SUFFICES ASSUME NEW i \in DOMAIN log
             PROVE  Cardinality(Copies(i)') <= IF Passed(i)' THEN Failures + 1 ELSE Failures
  BY <1>1, <1>2 DEF CopiesPerStream
<1>4. /\ IsFiniteSet(Copies(i)) /\ Cardinality(Copies(i)) \in Nat
      /\ Cardinality(Copies(i)) <= IF Passed(i) THEN Failures + 1 ELSE Failures
  BY <1>1, CopiesAreFinite DEF RInv, CopiesPerStream
<1>5. CASE i = handling
  <2>1. Copies(i)' = Copies(i) \cup {Len(rows) + 1} /\ Len(rows) + 1 \notin Copies(i)
    BY <1>3, <1>5 DEF Copies
  <2>2. Cardinality(Copies(i)') = Cardinality(Copies(i)) + 1
    BY <1>4, <2>1, FS_AddElement
  <2>3. ~Passed(i) /\ Passed(i)'
    BY <1>2, <1>5 DEF Passed
  <2> QED
    BY <1>1, <1>4, <2>2, <2>3
<1>6. CASE i # handling
  <2>1. Copies(i)' = Copies(i)
    BY <1>3, <1>6 DEF Copies
  <2>2. Passed(i)' <=> Passed(i)
    BY <1>2, <1>6 DEF Passed
  <2> QED
    BY <1>4, <2>1, <2>2
<1> QED
  BY <1>5, <1>6

\* An event arrives: none of the rows that were to come is forgotten.
LEMMA RedeliveryReceive ==
    ASSUME RInv, TypeOK', Receive
    PROVE  CopiesPerStream' /\ Receiving' /\ SeenUpToSince'
<1>1. TypeOK /\ next \in DOMAIN log /\ next \in Nat /\ since \in Nat
      /\ \A i \in DOMAIN log : log[i].at \in Nat
  BY Seconds DEF RInv, IInv, TypeOK, Receive
<1>2. step = "idle" /\ stream = "open"
  BY DEF RInv, IInv, Handler, Receive
<1>3. \A i \in DOMAIN log : Passed(i) => Passed(i)'
  <2> SUFFICES ASSUME NEW i \in DOMAIN log, i < next PROVE Passed(i)'
    BY DEF Passed
  <2> QED
    BY <1>1, <1>2 DEF Passed, Receive, TypeOK
<1>4. CopiesPerStream'
  <2>1. Failures' = Failures /\ Failures \in Nat
    BY <1>1, FailuresType DEF Receive, Failures
  <2> QED
    BY <1>3, <2>1, NoCopies DEF Receive
<1>5. Receiving'
  BY <1>1, <1>2 DEF Receiving, Receive
<1>6. SeenUpToSince'
  <2>1. since <= log[next].at
    BY <1>1, <1>2 DEF RInv, IInv, Streamed
  <2>2. since' = log[next].at /\ seen' = seen \cup {next} /\ log' = log
    BY DEF Receive, Since
  <2>3. \A i \in seen : i \in DOMAIN log /\ log[i].at <= since
    BY <1>1 DEF RInv, SeenUpToSince, TypeOK
  <2> QED
    BY <1>1, <2>1, <2>2, <2>3 DEF SeenUpToSince
<1> QED
  BY <1>4, <1>5, <1>6

LEMMA RedeliveryNext == RInv /\ IInv' /\ [Next]_vars => RInv'
<1> SUFFICES ASSUME RInv, IInv', [Next]_vars PROVE RInv'
  OBVIOUS
<1>0. TypeOK /\ TypeOK' /\ Failures \in Nat
  BY FailuresType DEF RInv, IInv
<1>1. ASSUME UNCHANGED <<log, stream, since, next, breaks, faults, handling, step, seen, rows>>
      PROVE  RInv'
  <2>1. CopiesPerStream'
    BY <1>1 DEF RInv, CopiesPerStream, Copies, Passed, Failures
  <2> QED
    BY <1>1, <2>1 DEF RInv, Receiving, SeenUpToSince
<1>2. ASSUME NEW cause \in Causes \cup {"start"}, Emit(cause) PROVE RInv'
  <2>1. /\ DOMAIN log \subseteq DOMAIN log'
        /\ \A i \in DOMAIN log : log'[i] = log[i]
    BY <1>0, <1>2, Emitted
  <2>2. UNCHANGED <<stream, since, next, breaks, faults, handling, step, seen, rows>>
    BY <1>2 DEF Emit, handler
  <2>3. CopiesPerStream'
    BY <1>0, <2>1, <2>2, NoCopies DEF Passed, Failures
  <2>4. Receiving' /\ SeenUpToSince'
    BY <1>0, <2>1, <2>2 DEF RInv, Receiving, SeenUpToSince, TypeOK
  <2> QED
    BY <2>3, <2>4 DEF RInv
<1>3. CASE Open \/ Retry
  <2>1. /\ stream # "open"
        /\ UNCHANGED <<log, since, breaks, faults, handling, step, seen, rows>>
    BY <1>3 DEF Open, Retry, handler
  <2>2. CopiesPerStream'
    BY <1>0, <2>1, NoCopies DEF Passed, Failures
  <2>3. Receiving' /\ SeenUpToSince'
    BY <2>1 DEF RInv, Receiving, SeenUpToSince
  <2> QED
    BY <2>2, <2>3 DEF RInv
<1>4. CASE Break \/ Restart
  <2>1. /\ UNCHANGED <<log, rows>> /\ handling' = 0
        /\ Failures' = Failures + 1
        /\ seen' = {} \/ UNCHANGED <<seen, since>>
    <3>1. breaks \in Nat /\ faults \in Nat /\ MaxBreaks \in Nat /\ MaxFaults \in Nat
      BY <1>0, FailuresType, StreamAssumption
    <3>2. CASE Break
      BY <3>1, <3>2 DEF Break, Failures, handler
    <3>3. CASE Restart
      BY <3>1, <3>3 DEF Restart, Failures
    <3> QED
      BY <1>4, <3>2, <3>3
  <2>2. CopiesPerStream'
    BY <1>0, <2>1, NoCopies
  <2>3. Receiving' /\ SeenUpToSince'
    BY <2>1 DEF RInv, Receiving, SeenUpToSince
  <2> QED
    BY <2>2, <2>3 DEF RInv
<1>5. CASE Receive
  BY <1>0, <1>5, RedeliveryReceive DEF RInv
<1>6. CASE StoreEvent
  BY <1>6, RedeliveryStore DEF RInv, Receiving, SeenUpToSince, StoreEvent
<1>7. CASE StoreEventFails \/ StoreLineFails
  <2>1. /\ UNCHANGED <<log, stream, since, next, handling, seen, rows>>
        /\ Failures' = Failures + 1
    <3>1. breaks \in Nat /\ faults \in Nat /\ MaxBreaks \in Nat /\ MaxFaults \in Nat
      BY <1>0, FailuresType, StreamAssumption
    <3> QED
      BY <1>7, <3>1 DEF StoreEventFails, StoreLineFails, Failures
  <2>2. CopiesPerStream'
    BY <1>0, <2>1, NoCopies
  <2> QED
    BY <2>1, <2>2 DEF RInv, Receiving, SeenUpToSince
<1>8. CASE StoreLine \/ Return
  <2>1. /\ UNCHANGED <<log, stream, since, next, breaks, faults, seen, rows>>
        /\ step # "row" /\ step' # "row"
        /\ handling' \in {0, handling}
    BY <1>8 DEF StoreLine, Return
  <2>2. CopiesPerStream'
    BY <1>0, <2>1, NoCopies DEF Passed, Failures
  <2> QED
    BY <2>1, <2>2 DEF RInv, Receiving, SeenUpToSince
<1>9. CASE Tick \/ UNCHANGED vars
  BY <1>1, <1>9 DEF Tick, vars, handler
<1> QED
  BY <1>2, <1>3, <1>4, <1>5, <1>6, <1>7, <1>8, <1>9 DEF Next, Loop

LEMMA RedeliveryInvariance == Spec => []RInv
  BY RedeliveryInit, RedeliveryNext, Invariance, PTL DEF Spec

\* Without failures an event is stored once; each failure adds at most one row
\* to it, however many events share its second.
THEOREM EventsAreStoredOncePerStream == Spec => []StoredOncePerStream
<1>1. RInv => StoredOncePerStream
  <2> SUFFICES ASSUME RInv, NEW i \in DOMAIN log PROVE Cardinality(Copies(i)) <= 1 + Failures
    BY DEF StoredOncePerStream
  <2>1. TypeOK
    BY DEF RInv, IInv
  <2>2. Cardinality(Copies(i)) \in Nat /\ Failures \in Nat
    BY <2>1, CopiesAreFinite, FailuresType
  <2> QED
    BY <2>2 DEF RInv, CopiesPerStream
<1> QED
  BY <1>1, RedeliveryInvariance, PTL

\* An event that is handled for the second time since the loop started falls
\* into the second of the event before it.
OnlyTheLastSecondIsRepeated == [][Receive /\ next \in seen => log[next].at = since]_vars

\* A stream that is opened again repeats only the last second, wherever the
\* one before it broke.
THEOREM ReopeningRepeatsLittle == Spec => OnlyTheLastSecondIsRepeated
<1>1. RInv => (Receive /\ next \in seen => log[next].at = since)
  <2> SUFFICES ASSUME RInv, Receive, next \in seen PROVE log[next].at = since
    OBVIOUS
  <2>1. TypeOK /\ next \in DOMAIN log /\ next <= next
    BY DEF RInv, IInv, TypeOK, Receive
  <2>2. log[next].at \in Nat /\ since \in Nat
    BY <2>1, Seconds
  <2>3. log[next].at <= since
    BY DEF RInv, SeenUpToSince
  <2>4. since <= log[next].at
    BY <2>1 DEF RInv, IInv, Streamed, Receive
  <2> QED
    BY <2>2, <2>3, <2>4
<1>2. Spec => [][Receive /\ next \in seen => log[next].at = since]_vars
  BY <1>1, RedeliveryInvariance, PTL
<1> QED
  BY <1>2 DEF OnlyTheLastSecondIsRepeated
=============================================================================
