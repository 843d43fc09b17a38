------------------------- MODULE UpdateCheckProofs -------------------------
(* Theorems about UpdateCheck for any images, registries, numbers of lookups *)
(* and failures, with machine-checked proofs.                                *)
(*                                                                           *)
(* The argument: a lookup that has its turn belongs to the check that runs,  *)
(* so nothing takes its candidates away; and the versions that its two       *)
(* answers told were upstream while it ran. If the local digests, which are  *)
(* of one image, know both versions, and the index of the first is not among *)
(* them, then that image is the one of the first version; if it is not the   *)
(* one that the second answer lists, then that index is among them.          *)
EXTENDS UpdateCheck, FiniteSetTheorems, TLAPS

\* A lookup is of the check that runs, and has no result yet.
Live ==
    \A i \in Images : lookup[i] # "none" =>
        pc = "lookup" /\ i \in images /\ results[i] = NoResult

\* What a lookup was told was upstream while it had its turn.
Told ==
    \A i \in Images : i \in Running =>
        /\ candidates[i] # {}
        /\ upstream[i] \in seen[i]
        /\ lookup[i] = "get" => head[i].version \in seen[i]

\* Results are those of the check that runs, until they are stored.
Fresh == pc \notin {"lookup", "prune"} => \A i \in Images : results[i] = NoResult

IInv == TypeOK /\ Live /\ Told /\ Fresh

-----------------------------------------------------------------------------
(* Types *)

LEMMA ErrorType == Error \in Result
  BY DEF Error, Result

LEMMA NoAnswerType == NoAnswer \in Answer
  BY UpdateAssumption DEF NoAnswer, Answer, Versions

\* A lookup that gets its turn is one more, and one that ends is one less.
LEMMA RunningIsFinite ==
    ASSUME NEW S \in SUBSET Images
    PROVE  IsFiniteSet(S) /\ Cardinality(S) \in Nat
<1>1. IsFiniteSet(S)
  BY UpdateAssumption, FS_Subset
<1> QED
  BY <1>1, FS_CardinalityType

LEMMA RunningGrows ==
    ASSUME NEW i \in Images, Cardinality(Running) < Lookups, Running' \subseteq Running \cup {i}
    PROVE  Cardinality(Running') <= Lookups
<1>1. Running \in SUBSET Images
  BY DEF Running
<1>2. IsFiniteSet(Running) /\ Cardinality(Running) \in Nat
  BY <1>1, RunningIsFinite
<1>3. /\ IsFiniteSet(Running \cup {i})
      /\ Cardinality(Running \cup {i}) \in {Cardinality(Running), Cardinality(Running) + 1}
  <2>1. /\ IsFiniteSet(Running \cup {i})
        /\ Cardinality(Running \cup {i}) = IF i \in Running THEN Cardinality(Running)
                                           ELSE Cardinality(Running) + 1
    BY <1>2, FS_AddElement
  <2> QED
    BY <2>1
<1>4. IsFiniteSet(Running') /\ Cardinality(Running') <= Cardinality(Running \cup {i})
  BY <1>3, FS_Subset
<1>5. Cardinality(Running') \in Nat
  BY <1>4, FS_CardinalityType
<1> QED
  BY <1>2, <1>3, <1>4, <1>5, UpdateAssumption

LEMMA RunningShrinks ==
    ASSUME Cardinality(Running) <= Lookups, Running' \subseteq Running
    PROVE  Cardinality(Running') <= Lookups
<1>1. Running \in SUBSET Images
  BY DEF Running
<1>2. IsFiniteSet(Running) /\ Cardinality(Running) \in Nat
  BY <1>1, RunningIsFinite
<1>3. IsFiniteSet(Running') /\ Cardinality(Running') <= Cardinality(Running)
  BY <1>2, FS_Subset
<1>4. Cardinality(Running') \in Nat
  BY <1>3, FS_CardinalityType
<1> QED
  BY <1>2, <1>3, <1>4, UpdateAssumption

LEMMA InitInvariant == Init => IInv
<1> SUFFICES ASSUME Init PROVE IInv
  OBVIOUS
<1>1. Running = {}
  BY DEF Init, Running
<1>2. Cardinality(Running) <= Lookups
  BY <1>1, FS_EmptySet, UpdateAssumption
<1>3. Known(1) \in SUBSET Digests
  BY UpdateAssumption, DigestAssumption DEF Known, Versions
<1>4. local \in [Images -> SUBSET Digests] /\ other \in [Images -> SUBSET Digests]
  BY <1>3 DEF Init
<1>5. Live /\ Told /\ Fresh
  BY <1>1 DEF Init, Live, Told, Fresh
<1>6. TypeOK
  <2>1. 1 \in Versions /\ 0 \in Nat /\ pushes \in 0..MaxPushes
        /\ changes \in 0..MaxChanges /\ faults \in 0..MaxFaults
    BY UpdateAssumption DEF Init, Versions
  <2>2. /\ pc \in {"idle", "list", "lookup", "upsert", "prune", "load"}
        /\ lookup \in [Images -> {"none", "queued", "head", "auth", "again", "get"}]
        /\ token \in [Images -> {"none", "good", "bad"}]
    BY DEF Init
  <2>3. /\ upstream \in [Images -> Versions] /\ head \in [Images -> Answer]
        /\ candidates \in [Images -> SUBSET Digests] /\ seen \in [Images -> SUBSET Versions]
    BY <2>1, NoAnswerType DEF Init
  <2>4. results \in [Images -> Result \cup {NoResult}] /\ table \in [Images -> Result \cup {NoResult}]
    BY DEF Init
  <2>5. /\ used \in SUBSET Images /\ images \in SUBSET Images /\ updates \in SUBSET Images
        /\ updateNow \in BOOLEAN /\ expired \in BOOLEAN /\ wanted \in BOOLEAN
    BY DEF Init
  <2> QED
    BY <1>2, <1>4, <2>1, <2>2, <2>3, <2>4, <2>5 DEF TypeOK
<1> QED
  BY <1>5, <1>6 DEF IInv

-----------------------------------------------------------------------------
(* Steps of one lookup *)

\* A lookup ends.
LEMMA FoundStep ==
    ASSUME IInv, NEW i \in Images, NEW result \in Result, Found(i, result), lookup[i] # "none",
           UNCHANGED <<world, loop, table, updates>>, token' = token, faults' \in 0..MaxFaults
    PROVE  IInv'
<1>1. /\ lookup' = [lookup EXCEPT ![i] = "none"]
      /\ results' = [results EXCEPT ![i] = result]
      /\ seen' = [seen EXCEPT ![i] = {}]
      /\ head' = [head EXCEPT ![i] = NoAnswer]
  BY DEF Found, Goes
<1>2. Running' \subseteq Running /\ i \notin Running'
  BY <1>1 DEF IInv, TypeOK, Running
<1>3. Cardinality(Running') <= Lookups
  BY <1>2, RunningShrinks DEF IInv, TypeOK
<1>4. TypeOK'
  <2>1. /\ lookup' \in [Images -> {"none", "queued", "head", "auth", "again", "get"}]
        /\ head' \in [Images -> Answer]
        /\ results' \in [Images -> Result \cup {NoResult}]
        /\ seen' \in [Images -> SUBSET Versions]
    BY <1>1, NoAnswerType DEF IInv, TypeOK
  <2> QED
    BY <1>3, <2>1 DEF IInv, TypeOK, world, loop
<1>6. Live'
  BY <1>1 DEF IInv, TypeOK, Live, loop
<1>7. Told'
  <2>0. candidates' = candidates /\ upstream' = upstream
    BY DEF world, loop
  <2> SUFFICES ASSUME NEW j \in Images, j \in Running'
               PROVE  /\ candidates'[j] # {}
                      /\ upstream'[j] \in seen'[j]
                      /\ lookup'[j] = "get" => head'[j].version \in seen'[j]
    BY DEF Told
  <2>1. j \in Running /\ j # i /\ j \in Images
    BY <1>2 DEF Running
  <2>2. seen'[j] = seen[j] /\ lookup'[j] = lookup[j] /\ head'[j] = head[j]
    BY <1>1, <2>1 DEF IInv, TypeOK
  <2> QED
    BY <2>0, <2>1, <2>2 DEF IInv, Told
<1>8. Fresh'
  BY DEF IInv, Live, Fresh, loop
<1> QED
  BY <1>4, <1>6, <1>7, <1>8 DEF IInv

\* A lookup goes on.
LEMMA GoesOn ==
    ASSUME IInv, NEW i \in Images, NEW step \in {"head", "auth", "again", "get"}, Goes(i, step),
           \/ i \in Running /\ seen' = seen
           \/ /\ lookup[i] = "queued" /\ Cardinality(Running) < Lookups /\ candidates[i] # {}
              /\ seen' = [seen EXCEPT ![i] = {upstream[i]}]
              /\ step # "get",
           \/ step # "get" /\ head' = head
           \/ /\ i \in Running
              /\ \E digest \in BOOLEAN :
                    head' = [head EXCEPT ![i] = [version |-> upstream[i], digest |-> digest]],
           UNCHANGED <<world, loop, results, table, updates>>,
           token' \in [Images -> {"none", "good", "bad"}], faults' \in 0..MaxFaults
    PROVE  IInv'
<1>1. lookup' = [lookup EXCEPT ![i] = step]
  BY DEF Goes
<1>2. Running' \subseteq Running \cup {i}
  BY <1>1 DEF IInv, TypeOK, Running
<1>3. Cardinality(Running') <= Lookups
  <2>1. CASE i \in Running
    <3>1. Running' \subseteq Running
      BY <1>2, <2>1
    <3> QED
      BY <3>1, RunningShrinks DEF IInv, TypeOK
  <2>2. CASE lookup[i] = "queued" /\ Cardinality(Running) < Lookups
    BY <2>2, <1>2, RunningGrows
  <2> QED
    BY <2>1, <2>2
<1>4. TypeOK'
  <2>1. /\ lookup' \in [Images -> {"none", "queued", "head", "auth", "again", "get"}]
        /\ head' \in [Images -> Answer]
        /\ seen' \in [Images -> SUBSET Versions]
    <3>1. upstream[i] \in Versions
      BY DEF IInv, TypeOK
    <3>2. \A digest \in BOOLEAN : [version |-> upstream[i], digest |-> digest] \in Answer
      BY <3>1 DEF Answer
    <3>3. head' \in [Images -> Answer]
      BY <3>2 DEF IInv, TypeOK
    <3>4. seen' \in [Images -> SUBSET Versions]
      BY <3>1 DEF IInv, TypeOK
    <3>5. lookup' \in [Images -> {"none", "queued", "head", "auth", "again", "get"}]
      BY <1>1 DEF IInv, TypeOK
    <3> QED
      BY <3>3, <3>4, <3>5
  <2> QED
    BY <1>3, <2>1 DEF IInv, TypeOK, world, loop
<1>6. Live'
  <2>1. lookup[i] # "none"
    BY DEF Running
  <2> QED
    BY <1>1, <2>1 DEF IInv, TypeOK, Live, loop
<1>7. Told'
  <2>0. candidates' = candidates /\ upstream' = upstream
    BY DEF world, loop
  <2> SUFFICES ASSUME NEW j \in Images, j \in Running'
               PROVE  /\ candidates'[j] # {}
                      /\ upstream'[j] \in seen'[j]
                      /\ lookup'[j] = "get" => head'[j].version \in seen'[j]
    BY DEF Told
  <2>1. CASE j # i
    <3>1. j \in Running /\ j \in Images
      BY <1>2, <2>1 DEF Running
    <3>2. seen'[j] = seen[j] /\ lookup'[j] = lookup[j] /\ head'[j] = head[j]
      BY <1>1, <2>1, <3>1 DEF IInv, TypeOK
    <3> QED
      BY <2>0, <3>1, <3>2 DEF IInv, Told
  <2>2. CASE j = i /\ i \in Running /\ seen' = seen
    <3>1. candidates[i] # {} /\ upstream[i] \in seen[i]
      BY <2>2 DEF IInv, Told
    <3>2. step = "get" => head'[i].version = upstream[i]
      BY DEF IInv, TypeOK
    <3>3. lookup'[i] = step
      BY <1>1 DEF IInv, TypeOK
    <3> QED
      BY <2>0, <2>2, <3>1, <3>2, <3>3
  <2>3. CASE /\ j = i /\ lookup[i] = "queued" /\ candidates[i] # {}
             /\ seen' = [seen EXCEPT ![i] = {upstream[i]}]
             /\ step # "get"
    <3>1. lookup'[i] = step /\ seen'[i] = {upstream[i]}
      BY <1>1, <2>3 DEF IInv, TypeOK
    <3> QED
      BY <2>0, <2>3, <3>1
  <2> QED
    BY <2>1, <2>2, <2>3
<1>8. Fresh'
  BY DEF IInv, Fresh, loop
<1> QED
  BY <1>4, <1>6, <1>7, <1>8 DEF IInv

LEMMA LookupStep == ASSUME IInv, NEW i \in Images, Lookup(i) PROVE IInv'
<1> USE DEF stored
<1>0. token \in [Images -> {"none", "good", "bad"}] /\ faults \in 0..MaxFaults
  BY DEF IInv, TypeOK
<1>1. \/ faults' = faults
      \/ Breaks \/ Fail
  BY DEF Lookup, Acquire, Cancel, Head, Challenge, FetchToken, Get, GetUnreadable, GetDenied, LookupFails, Works
<1>2. faults' \in 0..MaxFaults
  BY <1>0, <1>1, UpdateAssumption DEF Breaks, Fail
<1>3. ASSUME NEW result \in Result, Found(i, result), lookup[i] # "none",
             UNCHANGED <<world, loop, table, updates>>, token' = token
      PROVE  IInv'
  BY <1>2, <1>3, FoundStep
<1>4. CASE Acquire(i)
  <2>1. CASE candidates[i] = {}
    BY <1>3, <1>4, <2>1, ErrorType DEF Acquire
  <2>2. CASE candidates[i] # {}
    <3>1. /\ Goes(i, "head") /\ seen' = [seen EXCEPT ![i] = {upstream[i]}] /\ head' = head
          /\ lookup[i] = "queued" /\ Cardinality(Running) < Lookups
          /\ UNCHANGED <<world, loop, results, table, updates>> /\ token' = token
      BY <1>4, <2>2 DEF Acquire
    <3> QED
      BY <1>0, <1>2, <2>2, <3>1, GoesOn
  <2> QED
    BY <2>1, <2>2
<1>5. CASE Cancel(i)
  BY <1>3, <1>5, ErrorType DEF Cancel
<1>6. CASE Head(i)
  <2>1. i \in Running
    BY <1>6 DEF Head, Running
  <2>2. /\ Goes(i, "get") /\ seen' = seen
        /\ \E digest \in BOOLEAN :
              head' = [head EXCEPT ![i] = [version |-> upstream[i], digest |-> digest]]
        /\ UNCHANGED <<world, loop, results, table, updates>> /\ token' = token
    BY <1>6 DEF Head
  <2> QED
    BY <1>0, <1>2, <2>1, <2>2, GoesOn
<1>7. CASE Challenge(i)
  <2>1. CASE lookup[i] = "head" /\ Goes(i, "auth") /\ UNCHANGED <<results, seen, head>>
    <3>1. i \in Running
      BY <2>1 DEF Running
    <3>2. UNCHANGED <<world, loop, results, table, updates>> /\ token' = token
      BY <1>7, <2>1 DEF Challenge
    <3> QED
      BY <1>0, <1>2, <2>1, <3>1, <3>2, GoesOn
  <2>2. CASE lookup[i] = "again" /\ Found(i, Error)
    BY <1>3, <1>7, <2>2, ErrorType DEF Challenge
  <2> QED
    BY <1>7, <2>1, <2>2 DEF Challenge
<1>8. CASE FetchToken(i)
  <2>1. i \in Running
    BY <1>8 DEF FetchToken, Running
  <2>2. /\ Goes(i, "again") /\ seen' = seen /\ head' = head
        /\ UNCHANGED <<world, loop, results, table, updates>>
        /\ token' \in [Images -> {"none", "good", "bad"}]
    BY <1>0, <1>8 DEF FetchToken
  <2> QED
    BY <1>2, <2>1, <2>2, GoesOn
<1>9. CASE Get(i) \/ GetUnreadable(i)
  <2>1. PICK children : Verdict(i, children)
    BY <1>9 DEF Get, GetUnreadable
  <2>2. [error |-> FALSE, available |-> ~Contains(i, upstream[i], children)] \in Result
    <3>1. (~Contains(i, upstream[i], children)) \in BOOLEAN
      OBVIOUS
    <3>2. \A b \in BOOLEAN : [error |-> FALSE, available |-> b] \in Result
      BY DEF Result
    <3> QED
      BY <3>1, <3>2, Zenon
  <2>3. /\ lookup[i] # "none" /\ token' = token
        /\ UNCHANGED <<world, loop, table, updates>>
    BY <1>9 DEF Get, GetUnreadable
  <2> QED
    BY <1>3, <2>1, <2>2, <2>3 DEF Verdict
<1>10. CASE GetDenied(i) \/ LookupFails(i)
  BY <1>3, <1>10, ErrorType DEF GetDenied, LookupFails, Running
<1> QED
  BY <1>4, <1>5, <1>6, <1>7, <1>8, <1>9, <1>10 DEF Lookup

-----------------------------------------------------------------------------
(* Steps of the loop and of the world *)

\* Outside of the lookups, and when each has its result, none goes on.
LEMMA NoneGoesOn ==
    ASSUME IInv, pc # "lookup" \/ \A i \in images : results[i] # NoResult
    PROVE  lookup = [i \in Images |-> "none"]
<1>1. \A i \in Images : lookup[i] = "none"
  BY DEF IInv, Live
<1> QED
  BY <1>1 DEF IInv, TypeOK

LEMMA NoLookup ==
    ASSUME lookup' = [i \in Images |-> "none"]
    PROVE  Live' /\ Told' /\ Cardinality(Running') <= Lookups
<1>1. Running' = {}
  BY DEF Running
<1>2. Cardinality(Running') <= Lookups
  BY <1>1, FS_EmptySet, UpdateAssumption
<1> QED
  BY <1>1, <1>2 DEF Live, Told

LEMMA SameLookups ==
    ASSUME IInv, UNCHANGED <<checks, images, candidates, upstream, pc>>
    PROVE  Live' /\ Told' /\ Fresh' /\ Cardinality(Running') <= Lookups
<1>1. /\ lookup' = lookup /\ head' = head /\ seen' = seen /\ results' = results
      /\ images' = images /\ candidates' = candidates /\ upstream' = upstream /\ pc' = pc
  BY DEF checks
<1>2. Running' = Running
  BY <1>1 DEF Running
<1> QED
  BY <1>1, <1>2 DEF IInv, TypeOK, Live, Told, Fresh

LEMMA FailType == ASSUME IInv, faults' = faults \/ Fail PROVE faults' \in 0..MaxFaults
  BY UpdateAssumption DEF IInv, TypeOK, Fail

LEMMA BreaksType == ASSUME IInv, Works \/ Breaks PROVE faults' \in 0..MaxFaults
  BY FailType DEF Works, Breaks

LEMMA PushStep == ASSUME IInv, NEW i \in Images, Push(i) PROVE IInv'
<1> USE DEF world, loop, checks, stored
<1>1. PICK v \in Versions :
         /\ upstream' = [upstream EXCEPT ![i] = v]
         /\ seen' = [seen EXCEPT ![i] = IF i \in Running THEN @ \cup {v} ELSE @]
  BY DEF Push
<1>2. /\ Running' = Running
      /\ UNCHANGED <<lookup, head, candidates, results, pc, images>>
  BY DEF Push, Running
<1>3. pushes' \in 0..MaxPushes
  BY UpdateAssumption DEF Push, IInv, TypeOK
<1>4. upstream' \in [Images -> Versions] /\ seen' \in [Images -> SUBSET Versions]
  BY <1>1 DEF IInv, TypeOK
<1>5. TypeOK'
  BY <1>2, <1>3, <1>4 DEF Push, IInv, TypeOK
<1>6. Live' /\ Fresh'
  BY <1>2 DEF IInv, Live, Fresh
<1>7. Told'
  <2> SUFFICES ASSUME NEW j \in Images, j \in Running'
               PROVE  /\ candidates'[j] # {}
                      /\ upstream'[j] \in seen'[j]
                      /\ lookup'[j] = "get" => head'[j].version \in seen'[j]
    BY DEF Told
  <2>1. /\ candidates[j] # {} /\ upstream[j] \in seen[j]
        /\ lookup[j] = "get" => head[j].version \in seen[j]
    BY <1>2 DEF IInv, Told
  <2>2. seen[j] \subseteq seen'[j]
    BY <1>1 DEF IInv, TypeOK
  <2>3. upstream'[j] \in seen'[j]
    <3>1. CASE j = i
      BY <1>1, <1>2, <3>1 DEF IInv, TypeOK
    <3>2. CASE j # i
      BY <1>1, <2>1, <3>2 DEF IInv, TypeOK
    <3> QED
      BY <3>1, <3>2
  <2> QED
    BY <1>2, <2>1, <2>2, <2>3
<1> QED
  BY <1>5, <1>6, <1>7 DEF IInv

LEMMA WorldStep ==
    ASSUME IInv, NEW i \in Images, Pull(i) \/ PullOther(i) \/ Build(i) \/ Use(i) \/ Expire(i)
    PROVE  IInv'
<1> USE DEF world, loop, checks, stored
<1>1. Live' /\ Told' /\ Fresh' /\ Cardinality(Running') <= Lookups
  BY SameLookups DEF Pull, PullOther, Build, Use, Expire
<1>3. changes' \in 0..MaxChanges /\ faults' \in 0..MaxFaults
  BY FailType, UpdateAssumption DEF Pull, PullOther, Build, Use, Expire, Change, IInv, TypeOK
<1>4. local' \in [Images -> SUBSET Digests] /\ other' \in [Images -> SUBSET Digests]
  <2>1. CASE Pull(i)
    <3>1. Primary[upstream[i]] \in Digests /\ Held(i) \in SUBSET Digests
      BY DigestAssumption DEF Held, IInv, TypeOK
    <3> QED
      BY <2>1, <3>1 DEF Pull, IInv, TypeOK
  <2>2. CASE PullOther(i) \/ Build(i)
    <3>1. \A d \in Digests : {local[i] \cup {d}, other[i] \cup {d}, {}, Held(i)} \subseteq SUBSET Digests
      BY DEF Held, IInv, TypeOK
    <3>2. CASE PullOther(i)
      BY <3>1, <3>2 DEF PullOther, IInv, TypeOK
    <3>3. CASE Build(i)
      <4>1. Held(i) \in SUBSET Digests
        BY DEF Held, IInv, TypeOK
      <4> QED
        BY <3>3, <4>1 DEF Build, IInv, TypeOK
    <3> QED
      BY <2>2, <3>2, <3>3
  <2>3. CASE Use(i) \/ Expire(i)
    BY <2>3 DEF Use, Expire, IInv, TypeOK
  <2> QED
    BY <2>1, <2>2, <2>3
<1>5. used' \in SUBSET Images /\ token' \in [Images -> {"none", "good", "bad"}]
  BY DEF Pull, PullOther, Build, Use, Expire, IInv, TypeOK
<1>6. UNCHANGED <<upstream, pushes, loop, checks, stored>>
  BY DEF Pull, PullOther, Build, Use, Expire
<1>7. TypeOK'
  BY <1>1, <1>3, <1>4, <1>5, <1>6 DEF IInv, TypeOK
<1> QED
  BY <1>1, <1>7 DEF IInv

LEMMA AskStep == ASSUME IInv, Trigger \/ Timeout \/ UNCHANGED vars PROVE IInv'
<1> USE DEF world, loop, checks, stored
<1>1. Live' /\ Told' /\ Fresh' /\ Cardinality(Running') <= Lookups
  BY SameLookups DEF Trigger, Timeout, vars
<1>2. faults' \in 0..MaxFaults
  BY FailType DEF Trigger, Timeout, vars
<1>3. updateNow' \in BOOLEAN /\ wanted' \in BOOLEAN /\ expired' \in BOOLEAN
  BY DEF Trigger, Timeout, vars, IInv, TypeOK
<1>4. UNCHANGED <<world, pc, images, candidates, checks, token, stored>>
  BY DEF Trigger, Timeout, vars
<1>5. TypeOK'
  BY <1>1, <1>2, <1>3, <1>4 DEF IInv, TypeOK
<1> QED
  BY <1>1, <1>5 DEF IInv

LEMMA BeginStep == ASSUME IInv, BeginByTimer \/ BeginByRequest PROVE IInv'
<1> USE DEF world, loop, checks, stored
<1>1. Begin /\ updateNow' \in BOOLEAN
  BY DEF BeginByTimer, BeginByRequest, IInv, TypeOK
<1>2. lookup' = [i \in Images |-> "none"]
  BY <1>1, NoneGoesOn DEF Begin
<1>3. Live' /\ Told' /\ Cardinality(Running') <= Lookups
  BY <1>2, NoLookup
<1>4. TypeOK' /\ Fresh'
  BY <1>1, <1>3 DEF Begin, IInv, TypeOK, Fresh
<1> QED
  BY <1>3, <1>4 DEF IInv

LEMMA ListStep == ASSUME IInv, List PROVE IInv'
<1> USE DEF world, loop, checks, stored
<1>1. /\ candidates' = [i \in Images |-> IF i \in images THEN Candidates(i) ELSE {}]
      /\ lookup' = [i \in Images |-> IF i \in images THEN "queued" ELSE "none"]
      /\ images' = images /\ results' = results /\ pc' = "lookup" /\ faults' = faults
  BY DEF List, Works
<1>2. Running' = {}
  BY <1>1 DEF Running
<1>3. Cardinality(Running') <= Lookups
  BY <1>2, FS_EmptySet, UpdateAssumption
<1>4. TypeOK'
  <2>1. /\ candidates' \in [Images -> SUBSET Digests]
        /\ lookup' \in [Images -> {"none", "queued", "head", "auth", "again", "get"}]
    BY <1>1 DEF Candidates, IInv, TypeOK
  <2> QED
    BY <1>1, <1>3, <2>1 DEF List, IInv, TypeOK
<1>6. Told' /\ Fresh'
  BY <1>1, <1>2 DEF Told, Fresh
<1>7. Live'
  BY <1>1 DEF Live, Fresh, IInv, List
<1> QED
  BY <1>4, <1>6, <1>7 DEF IInv

\* What takes the results away.
LEMMA ClearStep ==
    ASSUME IInv, Clear, lookup' = [i \in Images |-> "none"],
           UNCHANGED world, faults' \in 0..MaxFaults, pc' \in {"idle", "load"},
           updateNow' \in BOOLEAN, expired' \in BOOLEAN, wanted' \in BOOLEAN,
           head' \in [Images -> Answer], seen' \in [Images -> SUBSET Versions],
           token' \in [Images -> {"none", "good", "bad"}],
           table' \in [Images -> Result \cup {NoResult}],
           updates' = updates \/ updates' = Available(table)
    PROVE  IInv'
<1>1. Live' /\ Told' /\ Cardinality(Running') <= Lookups
  BY NoLookup
<1>2. /\ images' = {}
      /\ candidates' = [i \in Images |-> {}]
      /\ results' = [i \in Images |-> NoResult]
  BY DEF Clear
<1>3. updates' \in SUBSET Images
  BY DEF IInv, TypeOK, Available
<1>4. TypeOK'
  <2>1. lookup' \in [Images -> {"none", "queued", "head", "auth", "again", "get"}]
    OBVIOUS
  <2>2. candidates' \in [Images -> SUBSET Digests] /\ results' \in [Images -> Result \cup {NoResult}]
    BY <1>2
  <2> QED
    BY <1>1, <1>2, <1>3, <2>1, <2>2 DEF IInv, TypeOK, world
<1>5. Fresh'
  BY <1>2 DEF IInv, Fresh, world
<1> QED
  BY <1>1, <1>4, <1>5 DEF IInv

LEMMA EndStep ==
    ASSUME IInv, Prune \/ StoreFails \/ Load \/ LoadFails \/ Restart
    PROVE  IInv'
<1> USE DEF stored
<1>1. lookup' = [i \in Images |-> "none"]
  BY NoneGoesOn DEF Prune, StoreFails, Load, LoadFails, Restart
<1>2. faults' \in 0..MaxFaults
  BY BreaksType, FailType DEF Prune, StoreFails, Load, LoadFails, Restart
<1>3. Clear /\ UNCHANGED world /\ pc' \in {"idle", "load"}
  BY DEF Prune, StoreFails, Load, LoadFails, Restart
<1>4. updateNow' \in BOOLEAN /\ expired' \in BOOLEAN /\ wanted' \in BOOLEAN
  BY DEF IInv, TypeOK, Prune, StoreFails, Load, LoadFails, Restart
<1>5. head' \in [Images -> Answer] /\ seen' \in [Images -> SUBSET Versions]
  BY NoAnswerType DEF IInv, TypeOK, Prune, StoreFails, Load, LoadFails, Restart
<1>6. token' \in [Images -> {"none", "good", "bad"}]
  BY DEF IInv, TypeOK, Prune, StoreFails, Load, LoadFails, Restart
<1>7. table' \in [Images -> Result \cup {NoResult}]
  BY DEF IInv, TypeOK, Prune, StoreFails, Load, LoadFails, Restart
<1>8. updates' = updates \/ updates' = Available(table)
  BY DEF Prune, StoreFails, Load, LoadFails, Restart
<1> QED
  BY <1>1, <1>2, <1>3, <1>4, <1>5, <1>6, <1>7, <1>8, ClearStep

LEMMA UpsertStep == ASSUME IInv, Upsert \/ ListFails PROVE IInv'
<1> USE DEF world, loop, checks, stored
<1>1. lookup' = [i \in Images |-> "none"]
  BY NoneGoesOn DEF Upsert, ListFails
<1>2. Live' /\ Told' /\ Cardinality(Running') <= Lookups
  BY <1>1, NoLookup
<1>3. faults' \in 0..MaxFaults
  BY BreaksType DEF Upsert, ListFails
<1>4. table' \in [Images -> Result \cup {NoResult}]
  BY DEF Upsert, ListFails, IInv, TypeOK
<1>5. TypeOK'
  BY <1>2, <1>3, <1>4 DEF Upsert, ListFails, IInv, TypeOK
<1>6. Fresh'
  BY DEF Upsert, ListFails, IInv, Fresh
<1> QED
  BY <1>2, <1>5, <1>6 DEF IInv

LEMMA NextInvariant == IInv /\ [Next]_vars => IInv'
<1> SUFFICES ASSUME IInv, [Next]_vars PROVE IInv'
  OBVIOUS
<1>1. ASSUME NEW i \in Images, Push(i) \/ Pull(i) \/ PullOther(i) \/ Build(i) \/ Use(i) \/ Expire(i) PROVE IInv'
  BY <1>1, PushStep, WorldStep
<1>2. ASSUME NEW i \in Images, Lookup(i) PROVE IInv'
  BY <1>2, LookupStep
<1>3. CASE Step
  BY <1>2, <1>3, ListStep, UpsertStep, EndStep DEF Step
<1> QED
  BY <1>1, <1>3, AskStep, BeginStep, EndStep DEF Next

\* The inductive invariant holds.
THEOREM Invariance == Spec => []IInv
BY InitInvariant, NextInvariant, PTL DEF Spec

\* Every state is well-typed, and no more than Lookups lookups go on at a time.
THEOREM TypeCorrect == Spec => []TypeOK
<1>1. IInv => TypeOK
  BY DEF IInv
<1> QED
  BY <1>1, Invariance, PTL

-----------------------------------------------------------------------------
(* What a lookup says *)

\* A verdict that there is no update: a local digest is known of a version that
\* the answers told.
LEMMA NoUpdateIsTrue ==
    ASSUME NEW i \in Images, NEW v \in Versions, NEW children, children \subseteq {Platform[v]},
           Contains(i, v, children)
    PROVE  \E u \in {head[i].version, v} : ~OutdatedAt(candidates[i], u)
  BY DEF Contains, PrimaryTold, OutdatedAt, Known

\* All digests of an image that know an index are of the image it lists.
LEMMA ImageOfIndex ==
    ASSUME NEW p \in Digests, NEW h \in Versions, NEW v \in Versions,
           Platform[h] \in Of(p), Primary[v] \in Of(p), IsIndex(v)
    PROVE  Platform[h] = Platform[v]
<1>1. CASE Primary[v] = p
  <2>1. \A w \in Versions : Platform[w] # p
    BY <1>1, DigestAssumption DEF IsIndex
  <2>2. Platform[h] = p
    BY <2>1 DEF Of
  <2> QED
    BY <2>1, <2>2
<1>2. CASE Primary[v] # p
  <2>1. PICK w \in Versions : Platform[w] = p /\ Primary[w] = Primary[v]
    BY <1>2 DEF Of
  <2>2. Platform[v] = p
    BY <2>1, DigestAssumption
  <2>3. Platform[h] = p
    <3>1. CASE Platform[h] # p
      <4>1. PICK u \in Versions : Platform[u] = p /\ Primary[u] = Platform[h]
        BY <3>1 DEF Of
      <4> QED
        BY <4>1, DigestAssumption
    <3> QED
      BY <3>1
  <2> QED
    BY <2>2, <2>3
<1> QED
  BY <1>1, <1>2

\* A verdict that there is an update, of a plain lookup: if local digests knew
\* both versions that the answers told, the image of one of them would be that
\* of the other, and be listed.
LEMMA UpdateIsTrue ==
    ASSUME NEW i \in Images, NEW v \in Versions, head[i].version \in Versions,
           candidates[i] # {}, OfOneImage(candidates[i]),
           IsIndex(head[i].version) = IsIndex(v),
           ~Contains(i, v, Children(i, v))
    PROVE  \E u \in {head[i].version, v} : OutdatedAt(candidates[i], u)
<1> DEFINE h == head[i].version
           C == candidates[i]
<1>1. PrimaryTold(i, v) \notin C /\ (IsIndex(v) => Platform[v] \notin C)
  BY DEF Contains, Children
<1>2. CASE PrimaryTold(i, v) = Primary[v]
  <2>1. C \cap Known(v) = {}
    BY <1>1, <1>2 DEF Known, IsIndex
  <2> QED
    BY <2>1 DEF OutdatedAt
<1>3. CASE PrimaryTold(i, v) = Primary[h] /\ ~IsIndex(h)
  <2>1. C \cap Known(h) = {}
    BY <1>1, <1>3 DEF Known, IsIndex
  <2> QED
    BY <2>1 DEF OutdatedAt
<1>4. CASE PrimaryTold(i, v) = Primary[h] /\ IsIndex(h)
  <2>1. PICK p \in Digests : C \subseteq Of(p)
    BY DEF OfOneImage
  <2>2. IsIndex(v) /\ Platform[v] \notin C /\ Primary[h] \notin C
    BY <1>1, <1>4
  <2>3. ~(Platform[h] \in C /\ Primary[v] \in C)
    BY <2>1, <2>2, ImageOfIndex
  <2>4. C \cap Known(h) = {} \/ C \cap Known(v) = {}
    BY <2>2, <2>3 DEF Known
  <2> QED
    BY <2>4 DEF OutdatedAt
<1> QED
  BY <1>2, <1>3, <1>4 DEF PrimaryTold

\* That there is no update is said only if it was true at some moment of the
\* lookup, and so is, by a plain lookup, that there is one, for any digests,
\* any number of pushes and of lookups at a time.
THEOREM SaysWhatWasTrue == Spec => VerdictWasTrue
<1> DEFINE Ends(i) == results[i] = NoResult /\ results'[i] # NoResult /\ ~results'[i].error
           WasTrue(i) == \/ results'[i].available /\ ~Plain(i)
                         \/ \E v \in seen[i] : results'[i].available = OutdatedAt(candidates[i], v)
<1>1. ASSUME IInv, NEW i \in Images, Next, Ends(i) PROVE WasTrue(i)
  <2>1. ASSUME NEW j \in Images, NEW result, Found(j, result), result.error = TRUE PROVE FALSE
    <3>1. results' = [results EXCEPT ![j] = result]
      BY <2>1 DEF Found
    <3> QED
      BY <1>1, <2>1, <3>1 DEF IInv, TypeOK
  <2>2. Error.error = TRUE
    BY DEF Error
  <2>3. PICK j \in Images : Get(j) \/ GetUnreadable(j)
    <3>1. results' # results /\ results' # [k \in Images |-> NoResult]
      BY <1>1 DEF IInv, TypeOK
    <3>2. PICK j \in Images : Lookup(j)
      <4> USE DEF checks
      <4>1. /\ \A k \in Images : ~Push(k) /\ ~Pull(k) /\ ~PullOther(k) /\ ~Build(k) /\ ~Use(k) /\ ~Expire(k)
            /\ ~Trigger /\ ~BeginByTimer /\ ~BeginByRequest /\ ~Timeout
        BY <3>1 DEF Push, Pull, PullOther, Build, Use, Expire, Trigger, Begin, BeginByTimer,
                    BeginByRequest, Timeout
      <4>2. ~List /\ ~ListFails /\ ~Upsert
        BY <3>1 DEF List, ListFails, Upsert
      <4>3. ~Prune /\ ~StoreFails /\ ~Load /\ ~LoadFails /\ ~Restart
        BY <3>1 DEF Prune, StoreFails, Load, LoadFails, Restart, Clear
      <4> QED
        BY <1>1, <4>1, <4>2, <4>3 DEF Next, Step
    <3>3. ~Acquire(j) /\ ~Challenge(j)
      BY <2>1, <2>2, <3>1 DEF Acquire, Challenge
    <3>4. ~Cancel(j) /\ ~GetDenied(j) /\ ~LookupFails(j)
      BY <2>1, <2>2 DEF Cancel, GetDenied, LookupFails
    <3>5. ~Head(j) /\ ~FetchToken(j)
      BY <3>1 DEF Head, FetchToken
    <3> QED
      BY <3>2, <3>3, <3>4, <3>5 DEF Lookup
  <2>4. PICK children :
           /\ results' = [results EXCEPT ![j] = [error |-> FALSE,
                                                 available |-> ~Contains(j, upstream[j], children)]]
           /\ children \subseteq {Platform[upstream[j]]}
           /\ ~GetUnreadable(j) => children = Children(j, upstream[j])
    BY <2>3 DEF Get, GetUnreadable, Verdict, Found, Children
  <2>5. j = i
    BY <1>1, <2>4 DEF IInv, TypeOK
  <2>6. results'[i] = [error |-> FALSE, available |-> ~Contains(i, upstream[i], children)]
    BY <1>1, <2>4, <2>5 DEF IInv, TypeOK
  <2>7. results'[i].available = ~Contains(i, upstream[i], children)
    BY <2>6
  <2>8. candidates[i] # {} /\ upstream[i] \in seen[i] /\ head[i].version \in seen[i]
    BY <1>1, <2>3, <2>5 DEF Get, GetUnreadable, Running, IInv, Told
  <2>9. head[i].version \in Versions /\ upstream[i] \in Versions
    BY <1>1 DEF IInv, TypeOK, Answer
  <2>10. CASE Contains(i, upstream[i], children)
    <3>1. PICK u \in {head[i].version, upstream[i]} : ~OutdatedAt(candidates[i], u)
      BY <2>4, <2>5, <2>9, <2>10, NoUpdateIsTrue
    <3>2. results'[i].available = FALSE /\ OutdatedAt(candidates[i], u) = FALSE
      BY <2>7, <2>10, <3>1 DEF OutdatedAt
    <3> QED
      BY <2>8, <3>1, <3>2
  <2>11. CASE ~Contains(i, upstream[i], children) /\ Plain(i)
    <3>1. ~Contains(i, upstream[i], Children(i, upstream[i]))
      BY <2>4, <2>5, <2>11 DEF Plain
    <3>2. PICK u \in {head[i].version, upstream[i]} : OutdatedAt(candidates[i], u)
      BY <2>8, <2>9, <2>11, <3>1, UpdateIsTrue DEF Plain
    <3>3. results'[i].available = TRUE /\ OutdatedAt(candidates[i], u) = TRUE
      BY <2>7, <2>11, <3>2 DEF OutdatedAt
    <3> QED
      BY <2>8, <3>2, <3>3
  <2>12. CASE ~Contains(i, upstream[i], children) /\ ~Plain(i)
    BY <2>7, <2>12
  <2> QED
    BY <2>10, <2>11, <2>12
<1>2. IInv /\ [Next]_vars => [\A i \in Images : Ends(i) => WasTrue(i)]_vars
  BY <1>1, Zenon
<1> QED
  BY <1>2, Invariance, PTL DEF Spec, VerdictWasTrue

-----------------------------------------------------------------------------
(* Nobody waits for ever.  What a request and a lookup wait for is there, or *)
(* is being worked on: the liveness that the runs check rests on it.         *)

\* A request that no check has begun for waits in the channel.
RequestIsKept == wanted => updateNow

\* As long as a result is missing, some lookup has its turn, or may get it.
SomeLookupGoesOn ==
    pc = "lookup" /\ (\E i \in images : results[i] = NoResult) =>
        \/ Running # {}
        \/ (\E i \in images : lookup[i] = "queued") /\ Cardinality(Running) < Lookups

\* Each image of the check has its result or a lookup.
LookedUp == pc = "lookup" => \A i \in images : results[i] = NoResult => lookup[i] # "none"

Waiting == RequestIsKept /\ LookedUp

\* A lookup ends with a result.
LEMMA LookupWaiting ==
    ASSUME IInv, Waiting, NEW i \in Images, Lookup(i)
    PROVE  Waiting'
<1>1. UNCHANGED <<pc, updateNow, images, wanted>>
  BY DEF Lookup, Acquire, Cancel, Head, Challenge, FetchToken, Get, GetUnreadable, GetDenied, LookupFails, loop
<1>2. ASSUME NEW result, Found(i, result), result # NoResult PROVE LookedUp'
  BY <1>1, <1>2 DEF Found, Goes, Waiting, LookedUp, IInv, TypeOK
<1>3. ASSUME NEW step, step # "none", Goes(i, step), results' = results PROVE LookedUp'
  BY <1>1, <1>3 DEF Goes, Waiting, LookedUp, IInv, TypeOK
<1>4. Error # NoResult
  <2>1. Error.error = TRUE /\ NoResult.error = FALSE
    BY DEF Error, NoResult
  <2> QED
    BY <2>1
<1>5. \A b : [error |-> FALSE, available |-> b] # NoResult
  <2> SUFFICES ASSUME NEW b, [error |-> FALSE, available |-> b] = NoResult PROVE FALSE
    OBVIOUS
  <2>1. DOMAIN [error |-> FALSE, available |-> b] = {"error", "available"}
    OBVIOUS
  <2>2. DOMAIN NoResult = {"error"}
    BY DEF NoResult
  <2> QED
    BY <2>1, <2>2
<1>6. LookedUp'
  BY <1>2, <1>3, <1>4, <1>5
     DEF Verdict, Lookup, Acquire, Cancel, Head, Challenge, FetchToken, Get, GetUnreadable, GetDenied, LookupFails
<1> QED
  BY <1>1, <1>6 DEF Waiting, RequestIsKept

LEMMA WaitingNext == IInv /\ Waiting /\ [Next]_vars => Waiting'
<1> SUFFICES ASSUME IInv, Waiting, [Next]_vars PROVE Waiting'
  OBVIOUS
<1>1. ASSUME UNCHANGED <<pc, images, results, lookup>>, RequestIsKept' PROVE Waiting'
  BY <1>1 DEF Waiting, LookedUp
<1>2. ASSUME NEW i \in Images, Push(i) \/ Pull(i) \/ PullOther(i) \/ Build(i) \/ Use(i) \/ Expire(i) PROVE Waiting'
  BY <1>1, <1>2 DEF Push, Pull, PullOther, Build, Use, Expire, Waiting, RequestIsKept, loop, checks
<1>3. CASE Trigger \/ Timeout \/ UNCHANGED vars
  BY <1>1, <1>3 DEF Trigger, Timeout, vars, Waiting, RequestIsKept, checks
<1>4. CASE BeginByTimer \/ BeginByRequest
  BY <1>4 DEF BeginByTimer, BeginByRequest, Begin, Waiting, RequestIsKept, LookedUp
<1>5. CASE List
  BY <1>5 DEF List, Waiting, RequestIsKept, LookedUp, IInv, TypeOK
<1>6. CASE ListFails \/ Upsert \/ Prune \/ StoreFails \/ Load \/ LoadFails \/ Restart
  BY <1>6
     DEF ListFails, Upsert, Prune, StoreFails, Load, LoadFails, Restart, Waiting, RequestIsKept, LookedUp
<1>7. ASSUME NEW i \in Images, Lookup(i) PROVE Waiting'
  BY <1>7, LookupWaiting
<1> QED
  BY <1>2, <1>3, <1>4, <1>5, <1>6, <1>7 DEF Next, Step

LEMMA WaitingInvariance == Spec => [](IInv /\ Waiting)
<1>1. Init => Waiting
  BY DEF Init, Waiting, RequestIsKept, LookedUp
<1> QED
  BY <1>1, WaitingNext, Invariance, PTL DEF Spec

\* No request is lost but by the end of the program, whether it comes while the
\* loop is idle, while a check is running, or while another one is waiting.
THEOREM RequestsAreKept == Spec => []RequestIsKept
<1>1. Waiting => RequestIsKept
  BY DEF Waiting
<1> QED
  BY <1>1, WaitingInvariance, PTL

\* The lookups of a check never wait for each other alone, however many there
\* are, how few may go on at a time, and whatever fails.
THEOREM LookupsGoOn == Spec => []SomeLookupGoesOn
<1>1. IInv /\ Waiting => SomeLookupGoesOn
  <2> SUFFICES ASSUME IInv, Waiting, pc = "lookup", Running = {},
                      NEW i \in images, results[i] = NoResult
               PROVE  lookup[i] = "queued" /\ Cardinality(Running) < Lookups
    BY DEF SomeLookupGoesOn
  <2>1. Cardinality(Running) = 0
    BY FS_EmptySet
  <2>2. lookup[i] # "none" /\ i \in Images
    BY DEF Waiting, LookedUp, IInv, TypeOK
  <2>3. lookup[i] = "queued"
    BY <2>2 DEF Running
  <2> QED
    BY <2>1, <2>3, UpdateAssumption
<1> QED
  BY <1>1, WaitingInvariance, PTL
=============================================================================
