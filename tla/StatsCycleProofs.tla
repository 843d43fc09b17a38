--------------------------- MODULE StatsCycleProofs ---------------------------
(* Theorems about StatsCycle for any containers, any number of workers and   *)
(* any number of changes and failures, with machine-checked proofs.          *)
(*                                                                           *)
(* The argument: counters, and answers that are not counted yet, of a life   *)
(* that is over are there only while the start of the next one has not been  *)
(* read, or if they were on their way when it was.                           *)
EXTENDS StatsCycle, FiniteSetTheorems, SequenceTheorems, TLAPS

Counts(c) == results[c].kind = "stats" /\ results[c].life # Zeros

\* No life is counted before it has begun.
CountersBegan == \A c \in Containers : counters[c] <= life[c]
ResultsBegan  == \A c \in Containers : results[c].kind = "stats" => results[c].life <= life[c]

\* Counters and results of a life that is over.
OldCounters ==
    \A c \in Containers :
        counters[c] \notin {NoSnapshot, Zeros, life[c]} => c \in late \/ Unread(c)
OldResults ==
    pc = "asking" =>
        \A c \in Containers : Counts(c) /\ results[c].life # life[c] => c \in reset \/ Unread(c)

\* A result is not older than the counters that it is compared with.
ResultsAreNewer ==
    pc = "asking" => \A c \in Containers : Counts(c) => counters[c] <= results[c].life

NoResultsYet == pc = "idle" => results = NoResult

\* Workers ask only during a cycle.
AskedInCycle == todo \cup asked # {} => pc = "asking"

IInv ==
    /\ TypeOK
    /\ CountersBegan
    /\ ResultsBegan
    /\ OldCounters
    /\ OldResults
    /\ ResultsAreNewer
    /\ NoResultsYet
    /\ AskedInCycle


-----------------------------------------------------------------------------
(* Helpers *)

LEMMA FailType == ASSUME TypeOK, NEW k, Fail(k) PROVE faults' \in 0..MaxFaults
  BY StatsAssumption DEF TypeOK, Fail

LEMMA UnreadAfterAppend ==
    ASSUME TypeOK, NEW e \in Event, events' = Append(events, e), NEW c
    PROVE  Unread(c) \/ e = [id |-> c, type |-> "start"] => Unread(c)'
<1>1. events \in Seq(Event)
  BY DEF TypeOK
<1>2. /\ DOMAIN events = 1..Len(events) /\ DOMAIN events' = 1..(Len(events) + 1)
      /\ Len(events) \in Nat
      /\ events'[Len(events) + 1] = e
      /\ \A i \in 1..Len(events) : events'[i] = events[i]
  BY <1>1
<1> QED
  BY <1>2 DEF Unread

LEMMA UnreadAfterTail ==
    ASSUME TypeOK, events # <<>>, events' = Tail(events), NEW c,
           Unread(c), Head(events) # [id |-> c, type |-> "start"]
    PROVE  Unread(c)'
<1>1. events \in Seq(Event)
  BY DEF TypeOK
<1>2. PICK i \in DOMAIN events : events[i] = [id |-> c, type |-> "start"]
  BY DEF Unread
<1>3. /\ DOMAIN events = 1..Len(events) /\ DOMAIN events' = 1..(Len(events) - 1)
      /\ Len(events) \in Nat \ {0}
      /\ \A j \in 1..(Len(events) - 1) : events'[j] = events[j + 1]
      /\ Head(events) = events[1]
  BY <1>1
<1>4. i # 1
  BY <1>2, <1>3
<1>5. i - 1 \in DOMAIN events' /\ events'[i - 1] = events[i]
  BY <1>2, <1>3, <1>4
<1> QED
  BY <1>2, <1>5 DEF Unread

\* A step that changes none of lives, counters, results and history.
LEMMA QuietStep ==
    ASSUME IInv, TypeOK', UNCHANGED <<life, counters, pc, results, history>>,
           todo' \cup asked' \subseteq todo \cup asked,
           \A c \in Containers : Unread(c) => Unread(c)'
    PROVE  IInv'
BY DEF IInv, CountersBegan, ResultsBegan, OldCounters, OldResults, ResultsAreNewer, NoResultsYet,
       AskedInCycle, Counts, history

LEMMA SameEvents == ASSUME UNCHANGED events, NEW c PROVE Unread(c) => Unread(c)'
  BY DEF Unread

LEMMA Numbers ==
    ASSUME TypeOK, NEW c \in Containers
    PROVE  counters[c] \in Int /\ life[c] \in Nat /\ (results[c].kind = "stats" => results[c].life \in Nat)
<1>1. counters[c] \in Snapshot /\ life[c] \in Nat /\ results[c] \in Answer
  BY DEF TypeOK
<1>2. counters[c] \in Int
  BY <1>1 DEF Snapshot, NoSnapshot
<1>3. ASSUME results[c].kind = "stats" PROVE results[c].life \in Nat
  <2>1. results[c] \in [kind : {"stats"}, life : Nat] \/ results[c] \in [kind : {"missing", "failed", "none"}]
    BY <1>1 DEF Answer
  <2>2. results[c] \in [kind : {"missing", "failed", "none"}] => results[c].kind # "stats"
    OBVIOUS
  <2> QED
    BY <1>3, <2>1, <2>2
<1> QED
  BY <1>1, <1>2, <1>3

\* What reading an event means.
LEMMA HeadType ==
    ASSUME TypeOK, events # <<>>
    PROVE  Head(events) \in Event /\ Head(events).id \in Containers /\ Tail(events) \in Seq(Event)
<1>1. events \in Seq(Event)
  BY DEF TypeOK
<1>2. Head(events) \in Event /\ Tail(events) \in Seq(Event)
  BY <1>1
<1> QED
  BY <1>2 DEF Event

LEMMA NoResultType == NoResult \in [Containers -> Answer]
  BY DEF NoResult, NoAnswer, Answer

LEMMA NoListType == NoList \in [Containers -> Known]
  BY DEF NoList, Known

LEMMA InitInvariant == Init => IInv
<1> SUFFICES ASSUME Init PROVE IInv
  OBVIOUS
<1>1. TypeOK
  <2>1. changes \in 0..MaxChanges /\ faults \in 0..MaxFaults
    BY StatsAssumption DEF Init
  <2>2. docker \in [Containers -> Known \cup {"gone"}] /\ known \in [Containers -> Known]
    BY DEF Init, Known
  <2>3. life \in [Containers -> Nat] /\ counters \in [Containers -> Snapshot]
    BY DEF Init, Snapshot, NoSnapshot
  <2>4. listed \in [Loops -> [Containers -> Known]] /\ results \in [Containers -> Answer]
    BY NoListType, NoResultType DEF Init
  <2>5. events \in Seq(Event) /\ subject \in Event \cup {NoEvent}
    BY DEF Init
  <2> QED
    BY <2>1, <2>2, <2>3, <2>4, <2>5 DEF Init, TypeOK
<1>2. \A c \in Containers : counters[c] = NoSnapshot /\ results[c].kind = "none" /\ life[c] \in Nat
  BY DEF Init, NoResult, NoAnswer
<1>3. CountersBegan /\ ResultsBegan /\ OldCounters
  BY <1>2 DEF CountersBegan, ResultsBegan, OldCounters, NoSnapshot
<1>4. OldResults /\ ResultsAreNewer /\ NoResultsYet /\ AskedInCycle
  BY DEF Init, OldResults, ResultsAreNewer, NoResultsYet, AskedInCycle
<1> QED
  BY <1>1, <1>3, <1>4 DEF IInv

-----------------------------------------------------------------------------
(* Docker and the two loops *)

LEMMA StartStep == ASSUME IInv, NEW c \in Containers, Start(c) PROVE IInv'
<1> DEFINE e == [id |-> c, type |-> "start"]
<1>1. e \in Event /\ events' = Append(events, e)
  BY DEF Start, Change, Event
<1>2. /\ life' = [life EXCEPT ![c] = @ + 1]
      /\ UNCHANGED <<counters, pc, todo, asked, results, reset, late>>
  BY DEF Start, Change, cycle, history
<1>3. TypeOK'
  <2>1. changes' \in 0..MaxChanges
    BY StatsAssumption DEF IInv, TypeOK, Start, Change
  <2>2. events' \in Seq(Event)
    BY <1>1 DEF IInv, TypeOK
  <2>3. docker' \in [Containers -> Known \cup {"gone"}] /\ life' \in [Containers -> Nat]
    BY DEF IInv, TypeOK, Start, Known
  <2> QED
    BY <2>1, <2>2, <2>3 DEF IInv, TypeOK, Start, Change, inventory, cycle, history
<1>4. Unread(c)' /\ \A d \in Containers : Unread(d) => Unread(d)'
  BY <1>1, UnreadAfterAppend DEF IInv
<1>5. \A d \in Containers : life[d] \in Nat /\ life'[d] >= life[d] /\ (d # c => life'[d] = life[d])
  BY <1>2 DEF IInv, TypeOK
<1>6. CountersBegan' /\ ResultsBegan'
  <2>1. \A d \in Containers : counters[d] \in Int /\ (results[d].kind = "stats" => results[d].life \in Int)
    BY Numbers DEF IInv
  <2> QED
    BY <1>2, <1>5, <2>1 DEF IInv, CountersBegan, ResultsBegan
<1>7. OldCounters' /\ OldResults'
  BY <1>2, <1>4, <1>5 DEF IInv, OldCounters, OldResults, Counts
<1>8. ResultsAreNewer' /\ NoResultsYet' /\ AskedInCycle'
  BY <1>2 DEF IInv, ResultsAreNewer, NoResultsYet, AskedInCycle, Counts
<1> QED
  BY <1>3, <1>6, <1>7, <1>8 DEF IInv

LEMMA StopStep == ASSUME IInv, NEW c \in Containers, Die(c) \/ Destroy(c) PROVE IInv'
<1>1. PICK e \in Event : events' = Append(events, e)
  BY DEF Die, Destroy, Change, Event
<1>2. TypeOK'
  <2>1. changes' \in 0..MaxChanges
    BY StatsAssumption DEF IInv, TypeOK, Die, Destroy, Change
  <2>2. events' \in Seq(Event)
    BY <1>1 DEF IInv, TypeOK
  <2>3. docker' \in [Containers -> Known \cup {"gone"}]
    BY DEF IInv, TypeOK, Die, Destroy, Known
  <2> QED
    BY <2>1, <2>2, <2>3 DEF IInv, TypeOK, Die, Destroy, Change, inventory, cycle, history
<1>3. \A d \in Containers : Unread(d) => Unread(d)'
  BY <1>1, UnreadAfterAppend DEF IInv
<1> QED
  BY <1>2, <1>3, QuietStep DEF Die, Destroy, Change, cycle

LEMMA ResetStep == ASSUME IInv, Reset PROVE IInv'
<1> DEFINE c == Head(events).id
<1>1. /\ Head(events) \in Event /\ c \in Containers /\ Tail(events) \in Seq(Event)
      /\ events' = Tail(events) /\ events # <<>>
  BY HeadType DEF IInv, Reset
<1>2. /\ UNCHANGED <<life, pc, todo, asked, results>>
      /\ counters' = Forget({c})
      /\ reset' = IF pc = "asking" THEN reset \cup ({c} \cap Sent) ELSE reset
      /\ late' = late \ {c}
  BY DEF Reset, world, cycle
<1>3. \A d \in Containers : counters'[d] = IF d = c THEN NoSnapshot ELSE counters[d]
  BY <1>2 DEF Forget
<1>4. TypeOK'
  <2>1. counters' \in [Containers -> Snapshot]
    BY <1>2 DEF IInv, TypeOK, Forget, Snapshot
  <2>2. reset' \in SUBSET Containers /\ late' \in SUBSET Containers
    BY <1>1, <1>2 DEF IInv, TypeOK
  <2> QED
    BY <1>1, <2>1, <2>2 DEF IInv, TypeOK, Reset, world, cycle
<1>5. \A d \in Containers : Unread(d) /\ d # c => Unread(d)'
  <2> SUFFICES ASSUME NEW d \in Containers, Unread(d), d # c PROVE Unread(d)'
    OBVIOUS
  <2>1. Head(events) # [id |-> d, type |-> "start"]
    OBVIOUS
  <2> QED
    BY <1>1, <2>1, UnreadAfterTail DEF IInv
<1>6. CountersBegan'
  <2>1. \A d \in Containers : life[d] \in Nat
    BY DEF IInv, TypeOK
  <2> QED
    BY <1>2, <1>3, <2>1 DEF IInv, CountersBegan, NoSnapshot
<1>7. OldCounters'
  BY <1>2, <1>3, <1>5 DEF IInv, OldCounters
<1>8. OldResults'
  <2> SUFFICES ASSUME pc = "asking", NEW d \in Containers, Counts(d), results[d].life # life[d]
               PROVE  d \in reset' \/ Unread(d)'
    BY <1>2 DEF OldResults, Counts
  <2>1. d \in reset \/ Unread(d)
    BY DEF IInv, OldResults
  <2>2. d \in Sent
    BY DEF Counts, Sent, NoAnswer
  <2> QED
    BY <1>2, <1>5, <2>1, <2>2
<1>9. ResultsBegan' /\ ResultsAreNewer' /\ NoResultsYet' /\ AskedInCycle'
  <2>1. \A d \in Containers : Counts(d) => results[d].life \in Nat
    BY Numbers DEF IInv, Counts
  <2>2. ResultsAreNewer'
    <3> SUFFICES ASSUME pc = "asking", NEW d \in Containers, Counts(d)
                 PROVE  counters'[d] <= results[d].life
      BY <1>2 DEF ResultsAreNewer, Counts
    <3> QED
      BY <1>3, <2>1 DEF IInv, ResultsAreNewer, NoSnapshot
  <2> QED
    BY <1>2, <2>2 DEF IInv, ResultsBegan, NoResultsYet, AskedInCycle
<1> QED
  BY <1>4, <1>6, <1>7, <1>8, <1>9 DEF IInv

LEMMA HandleStep == ASSUME IInv, Handle PROVE IInv'
<1>1. CASE Reset
  BY <1>1, ResetStep
<1>2. CASE HandleDestroy
  <2>1. /\ Head(events) \in Event /\ Tail(events) \in Seq(Event) /\ Head(events).type = "destroy"
        /\ events' = Tail(events) /\ events # <<>>
    BY <1>2, HeadType DEF IInv, HandleDestroy
  <2>2. TypeOK'
    BY <1>2, <2>1 DEF IInv, TypeOK, HandleDestroy, world, cycle, history, Known
  <2>3. \A d \in Containers : Unread(d) => Unread(d)'
    <3>1. \A d \in Containers : Head(events) # [id |-> d, type |-> "start"]
      BY <2>1
    <3> QED
      BY <2>1, <3>1, UnreadAfterTail DEF IInv
  <2> QED
    BY <1>2, <2>2, <2>3, QuietStep DEF HandleDestroy, world, cycle
<1>3. CASE Inspect
  <2>1. known' \in [Containers -> Known]
    BY <1>3 DEF IInv, TypeOK, Inspect
  <2>2. TypeOK'
    BY <1>3, <2>1 DEF IInv, TypeOK, Inspect, HandleEnds, world, cycle, history
  <2> QED
    BY <1>3, <2>2, SameEvents, QuietStep DEF Inspect, world, cycle
<1>4. CASE InspectFails \/ HandleUnknown
  <2>1. faults' \in 0..MaxFaults
    BY <1>4, FailType DEF IInv, TypeOK, InspectFails, HandleUnknown
  <2>2. TypeOK'
    BY <1>4, <2>1 DEF IInv, TypeOK, InspectFails, HandleUnknown, HandleEnds, world, cycle, history
  <2> QED
    BY <1>4, <2>2, SameEvents, QuietStep DEF InspectFails, HandleUnknown, world, cycle
<1> QED
  BY <1>1, <1>2, <1>3, <1>4 DEF Handle

LEMMA ToldType == ASSUME TypeOK PROVE [c \in Containers |-> Told(c)] \in [Containers -> Known]
  BY DEF TypeOK, Told, Known

LEMMA RefreshStep == ASSUME IInv, NEW l \in Loops, Refresh(l) \/ ListFails(l) PROVE IInv'
<1>1. CASE List(l)
  <2>1. listed' \in [Loops -> [Containers -> Known]]
    BY <1>1, ToldType DEF IInv, TypeOK, List
  <2>2. TypeOK'
    BY <1>1, <2>1 DEF IInv, TypeOK, List, world, cycle, history
  <2> QED
    BY <1>1, <2>2, SameEvents, QuietStep DEF List, world, cycle
<1>2. CASE Apply(l)
  <2>1. TypeOK'
    BY <1>2 DEF IInv, TypeOK, Apply, world, cycle, history
  <2> QED
    BY <1>2, <2>1, SameEvents, QuietStep DEF Apply, world, cycle
<1>3. CASE ListFails(l)
  <2>1. faults' \in 0..MaxFaults
    BY <1>3, FailType DEF IInv, ListFails
  <2>2. listed' \in [Loops -> [Containers -> Known]]
    BY <1>3, NoListType DEF IInv, TypeOK, ListFails, RefreshEnds
  <2>3. TypeOK'
    BY <1>3, <2>1, <2>2 DEF IInv, TypeOK, ListFails, RefreshEnds, world, cycle, history
  <2> QED
    BY <1>3, <2>3, SameEvents, QuietStep DEF ListFails, world, cycle
<1>4. CASE Prune(l)
  <2> DEFINE gone == {c \in Containers : listed[l][c] = "absent"}
  <2>1. /\ counters' = Forget(gone) /\ late' = late \ gone
        /\ UNCHANGED <<life, events, pc, todo, asked, results, reset>>
    BY <1>4 DEF Prune, world, cycle
  <2>2. \A c \in Containers : counters'[c] = IF c \in gone THEN NoSnapshot ELSE counters[c]
    BY <2>1 DEF Forget
  <2>3. TypeOK'
    <3>1. counters' \in [Containers -> Snapshot]
      BY <2>1 DEF IInv, TypeOK, Forget, Snapshot
    <3>2. listed' \in [Loops -> [Containers -> Known]]
      BY <1>4, NoListType DEF IInv, TypeOK, Prune, RefreshEnds
    <3> QED
      BY <1>4, <2>1, <3>1, <3>2 DEF IInv, TypeOK, Prune, RefreshEnds, world, cycle
  <2>4. CountersBegan' /\ OldCounters'
    <3>1. \A c \in Containers : life[c] \in Nat
      BY DEF IInv, TypeOK
    <3> QED
      BY <2>1, <2>2, <3>1, SameEvents DEF IInv, CountersBegan, OldCounters, NoSnapshot
  <2>5. OldResults' /\ ResultsBegan' /\ NoResultsYet' /\ AskedInCycle'
    BY <2>1, SameEvents DEF IInv, OldResults, ResultsBegan, NoResultsYet, AskedInCycle, Counts
  <2>6. ResultsAreNewer'
    <3>1. \A c \in Containers : Counts(c) => results[c].life \in Nat
      BY Numbers DEF IInv, Counts
    <3> QED
      BY <2>1, <2>2, <3>1 DEF IInv, ResultsAreNewer, Counts, NoSnapshot
  <2> QED
    BY <2>3, <2>4, <2>5, <2>6 DEF IInv
<1> QED
  BY <1>1, <1>2, <1>3, <1>4 DEF Refresh

-----------------------------------------------------------------------------
(* The cycle *)

LEMMA AskStep ==
    ASSUME IInv, NEW c \in Containers, Hand(c) \/ Skip(c)
    PROVE  IInv'
<1>1. faults' \in 0..MaxFaults
  BY FailType DEF IInv, TypeOK, Hand, Skip
<1>2. TypeOK'
  BY <1>1 DEF IInv, TypeOK, Hand, Skip, world, inventory, history
<1> QED
  BY <1>2, SameEvents, QuietStep DEF Hand, Skip, world

LEMMA BeginStep == ASSUME IInv, Begin PROVE IInv'
<1>1. TypeOK'
  <2>1. asked = {}
    BY DEF IInv, AskedInCycle, Begin
  <2> QED
    BY <2>1 DEF IInv, TypeOK, Begin, world, inventory, history
<1>2. UNCHANGED <<life, events, counters, results, reset, late>> /\ pc = "idle" /\ pc' = "asking"
  BY DEF Begin, world, history
<1>3. \A c \in Containers : ~Counts(c)'
  BY <1>2 DEF IInv, NoResultsYet, NoResult, NoAnswer, Counts
<1>4. OldResults' /\ ResultsAreNewer' /\ NoResultsYet' /\ AskedInCycle'
  BY <1>2, <1>3 DEF OldResults, ResultsAreNewer, NoResultsYet, AskedInCycle
<1>5. CountersBegan' /\ ResultsBegan' /\ OldCounters'
  BY <1>2, SameEvents DEF IInv, CountersBegan, ResultsBegan, OldCounters
<1> QED
  BY <1>1, <1>4, <1>5 DEF IInv

\* An answer is not older than the life that it is given in.
LEMMA SendStep ==
    ASSUME IInv, NEW c \in Containers, NEW r \in Answer, Send(c, r), faults' \in 0..MaxFaults,
           r.kind = "stats" => r.life \in {Zeros, life[c]}
    PROVE  IInv'
<1>1. /\ UNCHANGED <<life, events, counters, pc, reset, late>>
      /\ results' = [results EXCEPT ![c] = r]
  BY DEF Send, world, history
<1>2. TypeOK'
  BY <1>1 DEF IInv, TypeOK, Send, world, inventory, history
<1>3. \A d \in Containers : results'[d] = IF d = c THEN r ELSE results[d]
  BY <1>1 DEF IInv, TypeOK
<1>4. \A d \in Containers : life[d] \in Nat
  BY DEF IInv, TypeOK
<1>5. CountersBegan' /\ OldCounters' /\ NoResultsYet'
  <2>1. pc # "idle"
    BY DEF IInv, AskedInCycle, Send
  <2> QED
    BY <1>1, <2>1, SameEvents DEF IInv, CountersBegan, OldCounters, NoResultsYet
<1>6. ResultsBegan'
  BY <1>1, <1>3, <1>4 DEF IInv, ResultsBegan, Zeros
<1>7. OldResults'
  BY <1>1, <1>3, SameEvents DEF IInv, OldResults, Counts
<1>8. ResultsAreNewer'
  BY <1>1, <1>3 DEF IInv, ResultsAreNewer, CountersBegan, Counts
<1>9. AskedInCycle'
  BY <1>1 DEF IInv, AskedInCycle, Send
<1> QED
  BY <1>2, <1>5, <1>6, <1>7, <1>8, <1>9 DEF IInv

LEMMA CountStep == ASSUME IInv, Count PROVE IInv'
<1>1. /\ UNCHANGED <<life, events, results>>
      /\ pc = "asking" /\ pc' = "counted"
      /\ late' = (late \ (Answered \cup Missing)) \cup (Answered \cap reset)
      /\ reset' = {}
      /\ \A c \in Containers :
            counters'[c] = IF c \in Answered THEN results[c].life
                           ELSE IF c \in Missing THEN NoSnapshot ELSE counters[c]
  BY DEF Count, world, Answered, Missing
<1>2. TypeOK'
  <2>1. \A c \in Containers : counters'[c] \in Snapshot
    BY <1>1, Numbers DEF IInv, TypeOK, Answered, Snapshot
  <2>2. counters' \in [Containers -> Snapshot]
    BY <2>1 DEF Count
  <2>3. late' \in SUBSET Containers
    BY <1>1 DEF IInv, TypeOK, Answered
  <2> QED
    BY <1>1, <2>2, <2>3 DEF IInv, TypeOK, Count, world, inventory
<1>3. CountersBegan'
  BY <1>1, Numbers DEF IInv, CountersBegan, ResultsBegan, Answered, NoSnapshot
<1>4. OldCounters'
  <2> SUFFICES ASSUME NEW c \in Containers, counters'[c] \notin {NoSnapshot, Zeros, life[c]}
               PROVE  c \in late' \/ Unread(c)
    BY <1>1 DEF OldCounters, Unread
  <2>1. CASE c \in Answered
    <3>1. Counts(c) /\ results[c].life # life[c]
      BY <1>1, <2>1 DEF Counts, Answered
    <3> QED
      BY <1>1, <2>1, <3>1 DEF IInv, OldResults
  <2>2. CASE c \notin Answered
    BY <1>1, <2>2 DEF IInv, OldCounters
  <2> QED
    BY <2>1, <2>2
<1>5. ResultsBegan' /\ OldResults' /\ ResultsAreNewer' /\ NoResultsYet' /\ AskedInCycle'
  BY <1>1 DEF IInv, Count, ResultsBegan, OldResults, ResultsAreNewer, NoResultsYet, AskedInCycle
<1> QED
  BY <1>2, <1>3, <1>4, <1>5 DEF IInv

LEMMA ReportStep == ASSUME IInv, Report PROVE IInv'
<1>1. /\ UNCHANGED <<life, events, counters, reset, late>>
      /\ pc' = "idle" /\ results' = NoResult
  BY DEF Report, EndCycle, world, history
<1>2. TypeOK'
  BY NoResultType DEF IInv, TypeOK, Report, EndCycle, world, inventory, history
<1>3. CountersBegan' /\ OldCounters'
  BY <1>1, SameEvents DEF IInv, CountersBegan, OldCounters
<1>4. ResultsBegan' /\ OldResults' /\ ResultsAreNewer' /\ NoResultsYet' /\ AskedInCycle'
  BY <1>1 DEF Report, EndCycle, ResultsBegan, OldResults, ResultsAreNewer, NoResultsYet, AskedInCycle,
             NoResult, NoAnswer
<1> QED
  BY <1>2, <1>3, <1>4 DEF IInv

LEMMA RestartStep == ASSUME IInv, Restart PROVE IInv'
<1>1. /\ UNCHANGED life
      /\ counters' = [c \in Containers |-> NoSnapshot]
      /\ pc' = "idle" /\ results' = NoResult
  BY DEF Restart, EndCycle, world
<1>2. TypeOK'
  <2>1. faults' \in 0..MaxFaults
    BY FailType DEF IInv, Restart
  <2>2. known' \in [Containers -> Known] /\ listed' \in [Loops -> [Containers -> Known]]
    BY ToldType, NoListType DEF IInv, Restart
  <2>3. counters' \in [Containers -> Snapshot] /\ results' \in [Containers -> Answer]
    BY <1>1, NoResultType DEF Snapshot
  <2>4. events' \in Seq(Event) /\ stage' \in [Loops -> {"idle", "reset", "apply", "prune"}]
    BY DEF Restart
  <2> QED
    BY <2>1, <2>2, <2>3, <2>4 DEF IInv, TypeOK, Restart, EndCycle, world
<1>3. CountersBegan' /\ OldCounters'
  <2>1. \A c \in Containers : life[c] \in Nat
    BY DEF IInv, TypeOK
  <2> QED
    BY <1>1, <2>1 DEF CountersBegan, OldCounters, NoSnapshot
<1>4. ResultsBegan' /\ OldResults' /\ ResultsAreNewer' /\ NoResultsYet' /\ AskedInCycle'
  BY <1>1 DEF Restart, EndCycle, ResultsBegan, OldResults, ResultsAreNewer, NoResultsYet, AskedInCycle,
             NoResult, NoAnswer
<1> QED
  BY <1>2, <1>3, <1>4 DEF IInv

LEMMA StatsOfType ==
    ASSUME TypeOK, NEW c \in Containers
    PROVE  /\ StatsOf(c) \in Answer
           /\ StatsOf(c).kind = "stats" => StatsOf(c).life \in {Zeros, life[c]}
<1>1. life[c] \in Nat
  BY DEF TypeOK
<1>2. CASE docker[c] = "running"
  BY <1>1, <1>2 DEF StatsOf, Answer
<1>3. CASE docker[c] = "stopped"
  BY <1>3 DEF StatsOf, Answer, Zeros
<1>4. CASE docker[c] \notin {"running", "stopped"}
  BY <1>4 DEF StatsOf, Answer
<1> QED
  BY <1>2, <1>3, <1>4

LEMMA WorkerStep == ASSUME IInv, NEW c \in Containers, Worker(c) PROVE IInv'
<1>1. faults' \in 0..MaxFaults
  BY FailType DEF IInv, TypeOK, Worker, Respond, CallFails
<1>2. CASE Respond(c)
  BY <1>1, <1>2, StatsOfType, SendStep DEF IInv, Respond
<1>3. CASE CallFails(c)
  <2>1. [kind |-> "failed"] \in Answer
    BY DEF Answer
  <2> QED
    BY <1>1, <1>3, <2>1, SendStep DEF CallFails
<1> QED
  BY <1>2, <1>3 DEF Worker

LEMMA NextInvariant == IInv /\ [Next]_vars => IInv'
<1> SUFFICES ASSUME IInv, [Next]_vars PROVE IInv'
  OBVIOUS
<1>1. ASSUME NEW c \in Containers, Start(c) \/ Die(c) \/ Destroy(c) \/ Worker(c) PROVE IInv'
  BY <1>1, StartStep, StopStep, WorkerStep
<1>2. ASSUME NEW l \in Loops, Refresh(l) \/ ListFails(l) PROVE IInv'
  BY <1>2, RefreshStep
<1>3. CASE Handle
  BY <1>3, HandleStep
<1>4. CASE Collect
  BY <1>4, BeginStep, AskStep, CountStep, ReportStep DEF Collect
<1>5. CASE Expire
  <2>1. pc = "asking" /\ faults' \in 0..MaxFaults
    BY <1>5, FailType DEF IInv, Expire
  <2>2. TypeOK'
    BY <1>5, <2>1 DEF IInv, TypeOK, Expire, world, inventory, history
  <2> QED
    BY <1>5, <2>2, SameEvents, QuietStep DEF Expire, world
<1>6. CASE Restart
  BY <1>6, RestartStep
<1>7. CASE UNCHANGED vars
  <2>1. TypeOK'
    BY <1>7 DEF IInv, TypeOK, vars
  <2> QED
    BY <1>7, <2>1, SameEvents, QuietStep DEF vars, history
<1> QED
  BY <1>1, <1>2, <1>3, <1>4, <1>5, <1>6, <1>7 DEF Next

-----------------------------------------------------------------------------
(* Theorems *)

\* The inductive invariant holds.
THEOREM Invariance == Spec => []IInv
BY InitInvariant, NextInvariant, PTL DEF Spec

\* The cycle, the loops and what they share are well-typed in every state.
THEOREM TypeCorrect == Spec => []TypeOK
<1>1. IInv => TypeOK
  BY DEF IInv
<1> QED
  BY <1>1, Invariance, PTL

\* A rate whose two answers are of different lives of a container needs a start
\* that was not read, or an older answer that was counted after a reset.
THEOREM RatesStayWithinALife == Spec => RateWithinALife
<1> DEFINE Mixed(c) == Count /\ Sampled(c) /\ counters[c] # results[c].life
           Within   == \A c \in Containers : Mixed(c) => c \in late \/ Unread(c)
<1>1. IInv => Within
  <2> SUFFICES ASSUME IInv, NEW c \in Containers, Mixed(c) PROVE c \in late \/ Unread(c)
    OBVIOUS
  <2>1. Counts(c) /\ pc = "asking" /\ counters[c] \notin {NoSnapshot, Zeros}
    BY DEF Count, Sampled, Counts, Answered
  <2>2. counters[c] <= results[c].life /\ results[c].life <= life[c]
    BY <2>1 DEF IInv, ResultsAreNewer, ResultsBegan, Counts
  <2>3. counters[c] # life[c]
    BY <2>1, <2>2, Numbers DEF IInv, Counts
  <2> QED
    BY <2>1, <2>3 DEF IInv, OldCounters
<1>2. Spec => [][Within]_vars
  BY <1>1, Invariance, PTL
<1> QED
  BY <1>2 DEF RateWithinALife

-----------------------------------------------------------------------------
(* The pool.  That a cycle ends rests on two facts, for any number of        *)
(* containers and workers: a worker that has its answer finds room in the    *)
(* channel of results, and no step takes a container back.                   *)

\* No more calls than workers, and none of them waits for room, although
\* nobody reads the channel as long as one runs.
PoolNeverBlocks ==
    /\ Cardinality(asked) <= StatsWorkers
    /\ asked # {} => HasRoom

\* While the workers run, a container of the cycle goes from todo to asked to
\* Sent, or is left out, and never back.
CycleGoesForward ==
    [][pc = "asking" /\ pc' = "asking" =>
          /\ ids' = ids
          /\ todo' \subseteq todo
          /\ asked' \subseteq asked \cup todo
          /\ Sent \subseteq Sent']_vars

\* Each container of the cycle is in one place.
Placed ==
    /\ todo \cap asked = {}
    /\ (todo \cup asked) \cap Sent = {}
    /\ Sent \subseteq ids
    /\ Cardinality(asked) <= StatsWorkers

\* The containers of a cycle are finitely many.
LEMMA FiniteSets ==
    ASSUME TypeOK
    PROVE  IsFiniteSet(ids) /\ IsFiniteSet(asked) /\ Cardinality(asked) \in Nat
<1>1. ids \subseteq Containers /\ asked \subseteq ids
  BY DEF TypeOK
<1>2. IsFiniteSet(ids) /\ IsFiniteSet(asked)
  BY <1>1, FS_Subset, StatsAssumption
<1> QED
  BY <1>2, FS_CardinalityType

\* A step that asks for no container.
LEMMA PlacedStays ==
    ASSUME TypeOK, Placed, ids' = ids, todo' \subseteq todo, asked' \subseteq asked, Sent' = Sent
    PROVE  Placed'
<1>1. Cardinality(asked') <= Cardinality(asked) /\ Cardinality(asked') \in Nat
  BY FiniteSets, FS_Subset, FS_CardinalityType
<1>2. Cardinality(asked') <= StatsWorkers
  BY <1>1, FiniteSets, StatsAssumption DEF Placed
<1> QED
  BY <1>2 DEF Placed

\* Nobody is placed outside a cycle.
LEMMA NobodyPlaced ==
    ASSUME asked' = {}, todo' = {}, Sent' = {}
    PROVE  Placed'
  BY FS_EmptySet, StatsAssumption DEF Placed

LEMMA PlacedHand ==
    ASSUME TypeOK, Placed, NEW c \in Containers, Hand(c)
    PROVE  Placed'
<1>1. /\ c \in todo /\ c \notin asked
      /\ asked' = asked \cup {c} /\ todo' = todo \ {c} /\ Sent' = Sent /\ ids' = ids
      /\ Cardinality(asked) < StatsWorkers
  BY DEF Hand, Placed, Sent
<1>2. Cardinality(asked') = Cardinality(asked) + 1
  BY <1>1, FiniteSets, FS_AddElement
<1> QED
  BY <1>1, <1>2, FiniteSets, StatsAssumption DEF Placed

LEMMA WorkerSends ==
    ASSUME TypeOK, NEW c \in Containers, Worker(c)
    PROVE  /\ c \in asked /\ asked' = asked \ {c}
           /\ UNCHANGED <<ids, todo, pc>>
           /\ Sent' = Sent \cup {c}
<1>1. PICK r : Send(c, r) /\ r.kind # "none"
  <2>1. StatsOf(c).kind # "none"
    BY DEF StatsOf
  <2>2. [kind |-> "failed"].kind # "none"
    OBVIOUS
  <2> QED
    BY <2>1, <2>2 DEF Worker, Respond, CallFails
<1>2. /\ c \in asked /\ asked' = asked \ {c}
      /\ UNCHANGED <<ids, todo, pc>>
      /\ results' = [results EXCEPT ![c] = r]
  BY <1>1 DEF Send
<1>3. r # NoAnswer
  BY <1>1 DEF NoAnswer
<1>4. Sent' = Sent \cup {c}
  BY <1>2, <1>3 DEF Sent, TypeOK
<1> QED
  BY <1>2, <1>4

LEMMA PlacedSend ==
    ASSUME TypeOK, Placed, NEW c \in Containers, Worker(c)
    PROVE  Placed'
<1>1. /\ c \in asked /\ asked' = asked \ {c} /\ ids' = ids /\ todo' = todo
      /\ Sent' = Sent \cup {c}
  BY WorkerSends
<1>2. Cardinality(asked') <= Cardinality(asked) /\ Cardinality(asked') \in Nat
  BY <1>1, FiniteSets, FS_Subset, FS_CardinalityType
<1>3. Cardinality(asked') <= StatsWorkers
  BY <1>2, FiniteSets, StatsAssumption DEF Placed
<1> QED
  BY <1>1, <1>3 DEF Placed, TypeOK

\* No other loop touches the pool.
LEMMA PoolUntouched ==
    ASSUME [Next]_vars, ~Begin, ~Report, ~Restart,
           ~ \E c \in Containers : Hand(c) \/ Skip(c) \/ Worker(c)
    PROVE  UNCHANGED <<ids, todo, asked, results>>
<1>1. ASSUME NEW c \in Containers, Start(c) \/ Die(c) \/ Destroy(c)
      PROVE  UNCHANGED <<ids, todo, asked, results>>
  BY <1>1 DEF Start, Die, Destroy, Change, cycle
<1>2. ASSUME NEW l \in Loops, Refresh(l) \/ ListFails(l)
      PROVE  UNCHANGED <<ids, todo, asked, results>>
  BY <1>2 DEF Refresh, List, Apply, Prune, ListFails, cycle
<1>3. CASE Handle
  BY <1>3 DEF Handle, Reset, HandleDestroy, Inspect, InspectFails, HandleUnknown, cycle
<1>4. CASE Count \/ Expire \/ UNCHANGED vars
  BY <1>4 DEF Count, Expire, vars
<1> QED
  BY <1>1, <1>2, <1>3, <1>4 DEF Next, Collect

LEMMA PlacedNext == IInv /\ Placed /\ [Next]_vars => Placed'
<1> SUFFICES ASSUME IInv, Placed, [Next]_vars PROVE Placed'
  OBVIOUS
<1>0. TypeOK
  BY DEF IInv
<1>1. ASSUME NEW c \in Containers, Hand(c) \/ Worker(c) PROVE Placed'
  BY <1>0, <1>1, PlacedHand, PlacedSend
<1>2. ASSUME NEW c \in Containers, Skip(c) PROVE Placed'
  BY <1>0, <1>2, PlacedStays DEF Skip, Sent
<1>3. CASE Begin
  <2>1. asked = {} /\ results = NoResult /\ asked' = asked /\ results' = results
    BY <1>3 DEF IInv, AskedInCycle, NoResultsYet, Begin
  <2>2. Sent' = {}
    BY <2>1 DEF Sent, NoResult
  <2> QED
    BY <2>1, <2>2, FS_EmptySet, StatsAssumption DEF Placed
<1>4. CASE Report \/ Restart
  <2>1. asked' = {} /\ todo' = {} /\ results' = NoResult
    BY <1>4 DEF Report, Restart, EndCycle
  <2> QED
    BY <2>1, NobodyPlaced DEF Sent, NoResult
<1>5. CASE UNCHANGED <<ids, todo, asked, results>>
  BY <1>0, <1>5, PlacedStays DEF Sent
<1> QED
  BY <1>1, <1>2, <1>3, <1>4, <1>5, PoolUntouched

LEMMA PoolInvariance == Spec => [](IInv /\ Placed)
<1>1. Init => Placed
  BY FS_EmptySet, StatsAssumption DEF Init, Placed, Sent, NoResult
<1> QED
  BY <1>1, PlacedNext, Invariance, PTL DEF Spec

\* For any number of containers and workers, no worker waits for anybody but
\* Docker: the containers that are asked for are in the channel yet to come.
THEOREM NoWorkerWaits == Spec => []PoolNeverBlocks
<1>1. IInv /\ Placed => PoolNeverBlocks
  <2> SUFFICES ASSUME IInv, Placed, asked # {} PROVE HasRoom
    BY DEF Placed, PoolNeverBlocks
  <2>1. TypeOK
    BY DEF IInv
  <2>2. Sent \subseteq ids /\ Sent # ids
    BY <2>1 DEF Placed, TypeOK
  <2>3. /\ Cardinality(Sent) <= Cardinality(ids) /\ Cardinality(Sent) # Cardinality(ids)
        /\ Cardinality(Sent) \in Nat /\ Cardinality(ids) \in Nat
    BY <2>1, <2>2, FiniteSets, FS_Subset, FS_CardinalityType
  <2> QED
    BY <2>3 DEF HasRoom
<1> QED
  BY <1>1, PoolInvariance, PTL

\* In a cycle containers only go forward, whatever the other loops do: with
\* the theorem before, a cycle has only finitely many steps of its own.
THEOREM CyclesGoForward == Spec => CycleGoesForward
<1> DEFINE Forward == pc = "asking" /\ pc' = "asking" =>
                        /\ ids' = ids
                        /\ todo' \subseteq todo
                        /\ asked' \subseteq asked \cup todo
                        /\ Sent \subseteq Sent'
<1>1. IInv /\ [Next]_vars => Forward
  <2> SUFFICES ASSUME IInv, [Next]_vars PROVE Forward
    OBVIOUS
  <2>1. ASSUME NEW c \in Containers, Hand(c) \/ Skip(c) PROVE Forward
    BY <2>1 DEF Hand, Skip, Sent
  <2>2. ASSUME NEW c \in Containers, Worker(c) PROVE Forward
    <3>1. TypeOK
      BY DEF IInv
    <3> QED
      BY <2>2, <3>1, WorkerSends
  <2>3. CASE Begin \/ Report \/ Restart
    BY <2>3 DEF Begin, Report, Restart, EndCycle
  <2>4. CASE UNCHANGED <<ids, todo, asked, results>>
    BY <2>4 DEF Sent
  <2> QED
    BY <2>1, <2>2, <2>3, <2>4, PoolUntouched
<1>2. Spec => [][Forward]_vars
  BY <1>1, Invariance, PTL DEF Spec
<1> QED
  BY <1>2 DEF CycleGoesForward
=============================================================================
