---------------------------- MODULE RollupProofs ----------------------------
(* Theorems about Rollup for every bucket size, window, retention and bound, *)
(* with machine-checked proofs.                                              *)
(*                                                                           *)
(* The argument: the watermark is always the start of a bucket, so a bucket  *)
(* lies below it or above it as a whole. What a rollup aggregates is above,  *)
(* and all of it is still in the raw table, because pruning stops at what    *)
(* was rolled up; the rows that are there already are below, so none of them *)
(* is replaced.                                                              *)
EXTENDS Rollup, TLAPS

\* The watermark is the start of a bucket.
Aligned == \E k \in Nat : watermark = Bucket * k

\* What is above the watermark has not been pruned, and what is missing is old.
RawAhead ==
    /\ raw \subseteq stored
    /\ \A s \in stored \ late : s >= watermark => s \in raw
    /\ \A s \in stored : s \in raw \/ s < newest - RawWindow

IInv == TypeOK /\ Aligned /\ WatermarkSplits /\ RawAhead

-----------------------------------------------------------------------------
(* Buckets *)

LEMMA Remainder ==
    ASSUME NEW t \in Nat
    PROVE  /\ t % Bucket \in 0..(Bucket - 1)
           /\ BucketOf(t) \in 0..t
           /\ t \div Bucket \in Nat
           /\ BucketOf(t) = Bucket * (t \div Bucket)
  BY RollupAssumption DEF BucketOf

LEMMA Multiples ==
    ASSUME NEW a \in Nat, NEW b \in Nat, a < b
    PROVE  Bucket * a + Bucket <= Bucket * b
<1>1. PICK d \in Nat : b = a + 1 + d
  <2>1. b - a - 1 \in Nat /\ b = a + 1 + (b - a - 1)
    OBVIOUS
  <2> QED
    BY <2>1
<1>2. Bucket * b = Bucket * a + Bucket + Bucket * d
  BY <1>1, RollupAssumption
<1>3. Bucket * d \in Nat
  BY RollupAssumption
<1> QED
  BY <1>2, <1>3, RollupAssumption

\* A bucket that begins below a multiple of the bucket size ends below it.
LEMMA WholeBuckets ==
    ASSUME NEW k \in Nat, NEW s \in Nat, NEW t \in Nat,
           BucketOf(s) = BucketOf(t), s < Bucket * k
    PROVE  t < Bucket * k
<1> DEFINE a == s \div Bucket
<1>1. a \in Nat /\ BucketOf(s) = Bucket * a /\ BucketOf(t) = Bucket * a
  BY Remainder
<1>2. a < k
  <2>1. SUFFICES ASSUME k <= a PROVE FALSE
    BY <1>1
  <2>2. Bucket * k <= Bucket * a
    <3>1. CASE k = a
      BY <3>1, <1>1, RollupAssumption
    <3>2. CASE k < a
      BY <3>2, Multiples, <1>1, RollupAssumption
    <3> QED
      BY <2>1, <3>1, <3>2, <1>1
  <2>3. Bucket * a <= s
    BY <1>1, Remainder
  <2> QED
    BY <2>2, <2>3, <1>1, RollupAssumption
<1>3. Bucket * a + Bucket <= Bucket * k
  BY <1>1, <1>2, Multiples
<1>4. t = Bucket * a + (t % Bucket) /\ t % Bucket \in 0..(Bucket - 1)
  BY <1>1, Remainder DEF BucketOf
<1> HIDE DEF a
<1> QED
  BY <1>1, <1>3, <1>4, RollupAssumption

LEMMA BucketsAreTimes ==
    ASSUME NEW s \in Times
    PROVE  BucketOf(s) \in Buckets /\ BucketOf(s) \in Times /\ BucketOf(s) <= s
  BY Remainder, RollupAssumption DEF Buckets, Times

-----------------------------------------------------------------------------
(* One rollup *)

\* What RunRollup does to the watermark, to the rows and to the raw table.
LEMMA RollupEffect ==
    ASSUME IInv, RunRollup
    PROVE  LET cutoff == BucketOf(rollNow)
           IN /\ rollNow \in Times /\ cutoff \in Times
              /\ watermark' >= watermark /\ watermark' >= cutoff
              /\ watermark' \in {watermark, cutoff}
              /\ newest' >= newest /\ newest' >= rollNow /\ newest' \in Times
              /\ raw' = {s \in raw : s >= RawCutoff(rollNow, cutoff)}
              /\ RawCutoff(rollNow, cutoff) <= cutoff
              /\ RawCutoff(rollNow, cutoff) <= rollNow - RawWindow
              /\ stored' = stored /\ late' = late
<1>1. rollNow \in Times /\ rollNow \in Nat
  BY DEF IInv, TypeOK, RunRollup, RollupTo, Times, None
<1>2. BucketOf(rollNow) \in Times
  BY <1>1, BucketsAreTimes
<1>3. newest \in Int /\ watermark \in Int /\ RawWindow \in Nat
  BY RollupAssumption DEF IInv, TypeOK, Times, None
<1>4. newest' >= newest /\ newest' >= rollNow /\ newest' \in Times
  BY <1>1, <1>3 DEF RunRollup, RollupTo, Times, IInv, TypeOK, None
<1>5. /\ RawCutoff(rollNow, BucketOf(rollNow)) <= BucketOf(rollNow)
      /\ RawCutoff(rollNow, BucketOf(rollNow)) <= rollNow - RawWindow
  BY <1>1, <1>2, <1>3 DEF RawCutoff, Times
<1>6. /\ watermark' >= watermark /\ watermark' >= BucketOf(rollNow)
      /\ watermark' \in {watermark, BucketOf(rollNow)}
  BY <1>2, <1>3 DEF RunRollup, RollupTo, Advanced, Times
<1> QED
  BY <1>1, <1>2, <1>4, <1>5, <1>6 DEF RunRollup, RollupTo

\* What becomes of one row: it expires, or it stays, or a bucket that had no
\* row gets one with every sample of it that was stored in time.
LEMMA RowEffect ==
    ASSUME IInv, RunRollup, NEW b \in Buckets, b >= rollNow - Retention
    PROVE  /\ \A s \in rows'[b] : s < watermark' /\ BucketOf(s) = b
           /\ rows[b] \subseteq rows'[b]
           /\ \A s \in stored \ late :
                 BucketOf(s) = b /\ s >= watermark /\ s < watermark' => s \in rows'[b]
<1> DEFINE cutoff == BucketOf(rollNow)
           group == {s \in raw : watermark <= s /\ s < cutoff /\ BucketOf(s) = b}
<1>1. cutoff \in Times /\ watermark \in Times /\ watermark' >= watermark
      /\ watermark' >= cutoff /\ rollNow \in Times
  BY RollupEffect DEF IInv, TypeOK
<1>2. b \in Times
  BY BucketsAreTimes DEF Buckets
<1>3. raw \subseteq Times /\ stored \subseteq Times /\ rows[b] \subseteq Times
  BY DEF IInv, TypeOK
<1>4. \A s \in rows[b] : s < watermark /\ BucketOf(s) = b
  BY DEF IInv, WatermarkSplits
<1>5. ~(b < rollNow - Retention)
  BY <1>1, <1>2, RollupAssumption DEF Times
<1>6. CASE ~(cutoff > watermark)
  <2>1. rows'[b] = rows[b]
    BY <1>5, <1>6 DEF RunRollup, RollupTo
  <2>2. watermark' = watermark
    BY <1>6 DEF RunRollup, RollupTo, Advanced
  <2>3. \A s \in stored : ~(s >= watermark /\ s < watermark)
    BY <1>1, <1>3, RollupAssumption DEF Times
  <2> QED
    BY <2>1, <2>2, <2>3, <1>4
<1>7. CASE cutoff > watermark
  <2>1. rows'[b] = IF group = {} THEN rows[b] ELSE group
    BY <1>5, <1>7 DEF RunRollup, RollupTo, RolledUp
  <2>2. watermark' = cutoff
    BY <1>7 DEF RunRollup, RollupTo, Advanced
  <2>3. ASSUME NEW s \in rows[b] PROVE group = {}
    <3>1. SUFFICES ASSUME NEW t \in group PROVE FALSE
      OBVIOUS
    <3>2. PICK k \in Nat : watermark = Bucket * k
      BY DEF IInv, Aligned
    <3>3. s \in Nat /\ t \in Nat /\ BucketOf(s) = BucketOf(t) /\ s < watermark
      BY <1>3, <1>4 DEF Times
    <3>4. t < watermark
      BY <3>2, <3>3, WholeBuckets
    <3> QED
      BY <3>3, <3>4, <1>1 DEF Times
  <2>4. \A s \in rows'[b] : s < watermark' /\ BucketOf(s) = b
    BY <2>1, <2>2, <1>3, <1>4, <1>1 DEF Times
  <2>5. rows[b] \subseteq rows'[b]
    BY <2>1, <2>3
  <2>6. ASSUME NEW s \in stored \ late, BucketOf(s) = b, s >= watermark, s < watermark'
        PROVE  s \in rows'[b]
    <3>1. s \in raw
      BY <2>6 DEF IInv, RawAhead
    <3>2. s \in group
      BY <3>1, <2>6, <2>2, <1>1, <1>3 DEF Times
    <3> QED
      BY <3>2, <2>1
  <2> QED
    BY <2>4, <2>5, <2>6
<1> QED
  BY <1>6, <1>7
-----------------------------------------------------------------------------
(* Type correctness *)

LEMMA InitIInv == Init => IInv
<1> SUFFICES ASSUME Init PROVE IInv
  OBVIOUS
<1>1. 0 \in Times
  BY RollupAssumption DEF Times
<1>2. TypeOK
  BY <1>1, RollupAssumption DEF Init, TypeOK
<1>3. watermark = Bucket * 0
  BY RollupAssumption DEF Init
<1> QED
  BY <1>2, <1>3 DEF Init, IInv, Aligned, WatermarkSplits, RawAhead

LEMMA NextTypeOK == IInv /\ [Next]_vars => TypeOK'
<1> SUFFICES ASSUME IInv, [Next]_vars PROVE TypeOK'
  OBVIOUS
<1> USE DEF IInv, TypeOK
<1>1. CASE Tick
  <2>1. clock + 1 \in Times
    BY <1>1, RollupAssumption DEF Tick, Times
  <2>2. records' \in SUBSET Record
    BY <1>1, <2>1 DEF Tick, Record
  <2> QED
    BY <1>1, <2>1, <2>2 DEF Tick
<1>2. CASE Rewind
  BY <1>2, RollupAssumption DEF Rewind
<1>3. ASSUME NEW w \in Writers, Sample(w) PROVE TypeOK'
  BY <1>3 DEF Sample
<1>4. ASSUME NEW w \in Writers, Insert(w) PROVE TypeOK'
  <2>1. held[w] \in Times
    BY <1>4 DEF Insert
  <2> QED
    BY <1>4, <2>1 DEF Insert
<1>5. ASSUME NEW w \in Writers, Lose(w) PROVE TypeOK'
  BY <1>5 DEF Lose
<1>6. ASSUME NEW kind \in Kinds, WriteRecord(kind) PROVE TypeOK'
  <2>1. 0 \in Times
    BY RollupAssumption DEF Times
  <2>2. [kind |-> kind, at |-> IF kind = "alert" THEN 0 ELSE clock,
         open |-> kind \in {"alert", "container"}] \in Record
    BY <2>1 DEF Record
  <2> QED
    BY <1>6, <2>2 DEF WriteRecord
<1>7. ASSUME NEW r \in records, CloseRecord(r) PROVE TypeOK'
  <2>1. [r EXCEPT !.open = FALSE, !.at = IF r.kind = "alert" THEN clock ELSE @] \in Record
    BY <1>7 DEF Record
  <2> QED
    BY <1>7, <2>1 DEF CloseRecord
<1>8. CASE StartRollup
  BY <1>8 DEF StartRollup
<1>9. CASE RunRollup
  <2>1. rows' \in [Buckets -> SUBSET Times]
    <3>1. RolledUp(watermark, BucketOf(rollNow)) \in [Buckets -> SUBSET Times]
      BY DEF RolledUp
    <3> QED
      BY <1>9, <3>1 DEF RunRollup, RollupTo
  <2>2. watermark' \in Times /\ newest' \in Times
    BY <1>9, RollupEffect
  <2> QED
    BY <1>9, <2>1, <2>2 DEF RunRollup, RollupTo
<1>10. CASE AbortRollup
  BY <1>10 DEF AbortRollup
<1>11. CASE UNCHANGED vars
  BY <1>11 DEF vars
<1> QED
  BY <1>1, <1>2, <1>3, <1>4, <1>5, <1>6, <1>7, <1>8, <1>9, <1>10, <1>11 DEF Next

-----------------------------------------------------------------------------
(* The inductive invariant *)

\* Every step but Insert and RunRollup leaves the tables alone.
LEMMA Bystanders ==
    ASSUME IInv, UNCHANGED <<raw, rows, watermark, stored, late, newest>>
    PROVE  (Aligned /\ WatermarkSplits /\ RawAhead)'
  BY DEF IInv, Aligned, WatermarkSplits, RawAhead

LEMMA InsertKeeps ==
    ASSUME IInv, NEW w \in Writers, Insert(w)
    PROVE  (Aligned /\ WatermarkSplits /\ RawAhead)'
<1> DEFINE x == held[w]
<1>1. x \in Times /\ watermark \in Times
  BY DEF Insert, IInv, TypeOK
<1>2. /\ raw' = raw \cup {x} /\ stored' = stored \cup {x}
      /\ UNCHANGED <<rows, watermark, newest>>
      /\ late' = IF x < watermark THEN late \cup {x} ELSE late
  BY DEF Insert
<1>3. \A s \in stored' \ late' : s \in stored \ late \/ (s = x /\ ~(x < watermark))
  BY <1>2
<1>4. Aligned'
  BY <1>2 DEF IInv, Aligned
<1>5. WatermarkSplits'
  BY <1>2, <1>3 DEF IInv, WatermarkSplits
<1>6. RawAhead'
  BY <1>2, <1>3 DEF IInv, RawAhead
<1> QED
  BY <1>4, <1>5, <1>6

\* The order of integers, for terms the provers do not instantiate themselves.
LEMMA Between ==
    ASSUME NEW x \in Int, NEW y \in Int, NEW z \in Int
    PROVE  /\ x <= y /\ y <= z => x <= z
           /\ x < y /\ y <= z => x < z
  OBVIOUS

\* A bound that moves up.
LEMMA Later ==
    ASSUME NEW p \in Int, NEW q \in Int, p <= q, NEW d \in Int, NEW x \in Int
    PROVE  /\ x >= q - d => x >= p - d /\ ~(x < p - d)
           /\ x < p - d => x < q - d
           /\ p - d <= q - d
  OBVIOUS

LEMMA RollupKeeps ==
    ASSUME IInv, RunRollup
    PROVE  (Aligned /\ WatermarkSplits /\ RawAhead)'
<1> DEFINE cutoff == BucketOf(rollNow)
<1>1. /\ rollNow \in Times /\ cutoff \in Times
      /\ watermark' >= watermark /\ watermark' >= cutoff
      /\ watermark' \in {watermark, cutoff}
      /\ newest' >= newest /\ newest' >= rollNow /\ newest' \in Times
      /\ raw' = {s \in raw : s >= RawCutoff(rollNow, cutoff)}
      /\ RawCutoff(rollNow, cutoff) <= cutoff
      /\ RawCutoff(rollNow, cutoff) <= rollNow - RawWindow
      /\ stored' = stored /\ late' = late
  BY RollupEffect
<1>2. /\ rollNow \in Int /\ cutoff \in Int /\ watermark \in Int /\ watermark' \in Int
      /\ newest \in Int /\ newest' \in Int /\ Retention \in Int /\ RawWindow \in Int
      /\ RawCutoff(rollNow, cutoff) \in Int
      /\ stored \subseteq Int /\ Buckets \subseteq Int
      /\ \A s \in stored : BucketOf(s) \in Buckets
  BY <1>1, RollupAssumption, BucketsAreTimes DEF IInv, TypeOK, Times, None, RawCutoff, Buckets
<1> DEFINE low == RawCutoff(rollNow, cutoff)
<1> HIDE DEF cutoff, low
<1>3. /\ newest \in Int /\ newest' \in Int /\ rollNow \in Int /\ Retention \in Int
      /\ RawWindow \in Int /\ newest' >= newest /\ newest' >= rollNow
  BY <1>1, <1>2
<1>4. \A x \in Int : /\ x >= newest' - Retention => x >= rollNow - Retention
                     /\ x >= newest' - Retention => ~(x < newest - Retention)
                     /\ x < newest - RawWindow => x < newest' - RawWindow
  BY <1>3, Later
<1>5. /\ low \in Int /\ raw' = {t \in raw : t >= low} /\ raw \subseteq Int
      /\ low <= watermark' /\ low <= newest' - RawWindow
  <2>1. /\ low \in Int /\ raw' = {t \in raw : t >= low} /\ raw \subseteq Int
        /\ low <= cutoff /\ low <= rollNow - RawWindow
    BY <1>1, <1>2 DEF low, IInv, RawAhead
  <2>2. low <= watermark'
    BY <2>1, <1>1, <1>2
  <2>3. rollNow - RawWindow <= newest' - RawWindow
    BY <1>3, Later
  <2>4. newest' - RawWindow \in Int /\ rollNow - RawWindow \in Int
    BY <1>3
  <2> QED
    BY <2>1, <2>2, <2>3, <2>4, Between
<1>6. Aligned'
  <2>1. PICK k \in Nat : watermark = Bucket * k
    BY DEF IInv, Aligned
  <2>2. rollNow \div Bucket \in Nat /\ cutoff = Bucket * (rollNow \div Bucket)
    BY <1>1, Remainder DEF cutoff, Times
  <2> QED
    BY <1>1, <2>1, <2>2 DEF Aligned
<1>7. \A b \in Buckets : b < rollNow - Retention => rows'[b] = {}
  BY DEF RunRollup, RollupTo
<1>8. WatermarkSplits'
  <2>1. ASSUME NEW b \in Buckets, NEW s \in rows'[b]
        PROVE  s < watermark' /\ BucketOf(s) = b
    <3>1. b >= rollNow - Retention
      BY <1>7, <1>2, <2>1
    <3> QED
      BY <3>1, <2>1, RowEffect
  <2>2. ASSUME NEW s \in stored \ late, s < watermark', BucketOf(s) >= newest' - Retention
        PROVE  s \in rows'[BucketOf(s)]
    <3> DEFINE b == BucketOf(s)
    <3>0. b \in Buckets /\ b \in Int /\ s \in Int /\ b >= newest' - Retention
      BY <1>2, <2>2
    <3> HIDE DEF b
    <3>1. b >= rollNow - Retention /\ ~(b < newest - Retention)
      BY <1>4, <3>0
    <3>2. CASE s < watermark
      <4>1. s \in rows[b]
        BY <3>1, <3>2 DEF IInv, WatermarkSplits, b
      <4> QED
        BY <4>1, <3>0, <3>1, RowEffect DEF b
    <3>3. CASE s >= watermark
      BY <3>0, <3>1, <3>3, <2>2, RowEffect DEF b
    <3> QED
      BY <3>0, <3>2, <3>3, <1>2
  <2>3. ASSUME NEW s \in (stored \ late)', s < watermark'
        PROVE  s \in rows'[BucketOf(s)] \/ BucketOf(s) < newest' - Retention
    <3>1. s \in stored \ late /\ BucketOf(s) \in Int
      BY <1>1, <1>2, <2>3
    <3> QED
      BY <3>1, <2>2, <2>3, <1>2
  <2> QED
    BY <2>1, <2>3 DEF WatermarkSplits
<1>9. RawAhead'
  <2>1. raw' \subseteq stored'
    BY <1>1 DEF IInv, RawAhead
  <2>2. ASSUME NEW s \in stored \ late, s >= watermark'
        PROVE  s \in raw'
    <3>1. s \in Int /\ s >= watermark
      BY <1>1, <1>2, <2>2
    <3>2. s \in raw /\ s >= low
      BY <1>5, <1>2, <3>1, <2>2 DEF IInv, RawAhead
    <3> QED
      BY <3>2, <1>5
  <2>3. ASSUME NEW s \in stored PROVE s \in raw' \/ s < newest' - RawWindow
    <3>1. s \in Int /\ (s >= low \/ s < low)
      BY <1>2, <1>5
    <3>2. s \in raw \/ s < newest - RawWindow
      BY DEF IInv, RawAhead
    <3> QED
      <4>1. CASE s < newest - RawWindow
        BY <1>4, <3>1, <4>1
      <4>2. CASE s \in raw /\ s >= low
        BY <1>5, <4>2
      <4>3. CASE s < low
        <5>1. newest' - RawWindow \in Int
          BY <1>3
        <5> QED
          BY <1>5, <3>1, <4>3, <5>1, Between
      <4> QED
        BY <3>1, <3>2, <4>1, <4>2, <4>3
  <2> QED
    BY <2>1, <2>2, <2>3, <1>1 DEF RawAhead
<1> QED
  BY <1>6, <1>8, <1>9

LEMMA NextIInv == IInv /\ [Next]_vars => IInv'
<1> SUFFICES ASSUME IInv, [Next]_vars PROVE IInv'
  OBVIOUS
<1>1. CASE RunRollup
  BY <1>1, RollupKeeps, NextTypeOK DEF IInv
<1>2. ASSUME NEW w \in Writers, Insert(w) PROVE IInv'
  BY <1>2, InsertKeeps, NextTypeOK DEF IInv
<1>3. CASE UNCHANGED <<raw, rows, watermark, stored, late, newest>>
  BY <1>3, Bystanders, NextTypeOK DEF IInv
<1>4. ASSUME NEW w \in Writers, Sample(w) \/ Lose(w) PROVE IInv'
  BY <1>3, <1>4 DEF Sample, Lose
<1>5. ASSUME Tick \/ Rewind \/ StartRollup \/ AbortRollup \/ UNCHANGED vars PROVE IInv'
  BY <1>3, <1>5 DEF Tick, Rewind, StartRollup, AbortRollup, vars
<1>6. ASSUME NEW kind \in Kinds, WriteRecord(kind) PROVE IInv'
  BY <1>3, <1>6 DEF WriteRecord
<1>7. ASSUME NEW r \in records, CloseRecord(r) PROVE IInv'
  BY <1>3, <1>7 DEF CloseRecord
<1> QED
  BY <1>1, <1>2, <1>4, <1>5, <1>6, <1>7 DEF Next

\* The argument of this module, as one invariant of the specification.
THEOREM Invariance == Spec => []IInv
<1>1. Init => IInv
  BY InitIInv
<1>2. IInv /\ [Next]_vars => IInv'
  BY NextIInv
<1> QED
  BY <1>1, <1>2, PTL DEF Spec

-----------------------------------------------------------------------------
(* The theorems *)

\* Every table, timestamp and the watermark keep their types.
THEOREM TypeCorrect == Spec => []TypeOK
<1>1. IInv => TypeOK
  BY DEF IInv
<1> QED
  BY <1>1, Invariance, PTL

\* Rows cover their buckets and the watermark separates them from what is to
\* come, for every order of inserts, rollups, failures and clock corrections.
THEOREM WatermarkIsABorder == Spec => []WatermarkSplits
<1>1. IInv => WatermarkSplits
  BY DEF IInv
<1> QED
  BY <1>1, Invariance, PTL

\* No sample stored in time is pruned before it is aggregated.
THEOREM NothingIsLost == Spec => []NothingLost
<1>1. IInv => NothingLost
  <2> SUFFICES ASSUME IInv, NEW s \in stored \ late
               PROVE  s \in raw \/ s \in rows[BucketOf(s)] \/ BucketOf(s) < newest - Retention
    BY DEF NothingLost
  <2>1. s >= watermark \/ s < watermark
    BY RollupAssumption DEF IInv, TypeOK, Times
  <2> QED
    BY <2>1 DEF IInv, WatermarkSplits, RawAhead
<1> QED
  BY <1>1, Invariance, PTL

\* A chart of less than the raw window shows every sample of its range.
THEOREM ShortChartsAreComplete == Spec => []ShortChartIsComplete
<1>1. IInv => ShortChartIsComplete
  <2> SUFFICES ASSUME IInv, newest <= clock, NEW r \in Ranges, r < RawWindow,
                      NEW s \in stored, clock - r <= s, s < clock
               PROVE  s \in Chart(r)
    BY DEF ShortChartIsComplete
  <2>1. clock \in Int /\ newest \in Int /\ s \in Int /\ r \in Int /\ RawWindow \in Int
    BY RollupAssumption DEF IInv, TypeOK, Times, None
  <2>2. ~(s < newest - RawWindow)
    BY <2>1
  <2>3. s \in raw
    BY <2>2 DEF IInv, RawAhead
  <2> QED
    BY <2>3 DEF Chart, UseRaw
<1> QED
  BY <1>1, Invariance, PTL

\* A row is never replaced by one computed from fewer samples.
THEOREM RowsOnlyGrow == Spec => RowsNeverShrink
<1>1. ASSUME IInv, [Next]_vars
      PROVE  [\A b \in Buckets : rows'[b] # {} => rows[b] \subseteq rows'[b]]_vars
  <2>1. ASSUME RunRollup, NEW b \in Buckets, rows'[b] # {} PROVE rows[b] \subseteq rows'[b]
    <3>1. ~(b < rollNow - Retention)
      BY <2>1 DEF RunRollup, RollupTo
    <3>2. b \in Int /\ rollNow - Retention \in Int
      BY <1>1, <2>1, RollupEffect, RollupAssumption, BucketsAreTimes DEF Times, Buckets
    <3> QED
      BY <1>1, <2>1, <3>1, <3>2, RowEffect
  <2>2. RunRollup \/ UNCHANGED rows
    BY <1>1 DEF Next, vars, Tick, Rewind, Sample, Insert, Lose, WriteRecord, CloseRecord,
                StartRollup, AbortRollup
  <2> QED
    BY <2>1, <2>2
<1> QED
  BY <1>1, Invariance, PTL DEF Spec, RowsNeverShrink

\* The watermark does not go back, whatever the clock does.
THEOREM WatermarkNeverGoesBack == Spec => WatermarkMonotone
<1>1. ASSUME IInv, [Next]_vars PROVE [watermark' >= watermark]_vars
  <2>1. CASE RunRollup
    BY <1>1, <2>1, RollupEffect
  <2>2. CASE UNCHANGED watermark
    <3>1. watermark \in Int
      BY <1>1, RollupAssumption DEF IInv, TypeOK, Times
    <3> QED
      BY <2>2, <3>1
  <2>3. RunRollup \/ UNCHANGED watermark
    BY <1>1 DEF Next, vars, Tick, Rewind, Sample, Insert, Lose, WriteRecord, CloseRecord,
                StartRollup, AbortRollup
  <2> QED
    BY <2>1, <2>2, <2>3
<1> QED
  BY <1>1, Invariance, PTL DEF Spec, WatermarkMonotone
=============================================================================
