------------------------------- MODULE Rollup -------------------------------
(* internal/store: one series of samples on its way from the collector into  *)
(* the raw table, from there into the five minute table, and out of both     *)
(* when it is too old; and the rows of the other tables that the same        *)
(* transaction prunes.                                                       *)
(*                                                                           *)
(* A sample is its timestamp: the tables have one row per series and second. *)
(* A row of the five minute table is the set of samples it was computed      *)
(* from, which fixes every average, maximum and count in it.                 *)
EXTENDS Integers, FiniteSets

CONSTANTS
    Bucket,        \* bucketSize
    RawWindow,     \* rawWindow
    Retention,     \* RETENTION_DAYS
    LogRetention,  \* logErrorRetention
    Writers,       \* goroutines that store a sample: stats and host cycles
    Kinds,         \* the other tables with old rows: a subset of AllKinds
    Ranges,        \* ranges a chart may be asked for
    \* Bounds of the model
    MaxTime,       \* the last second
    MaxRewinds     \* times the wall clock is set back

AllKinds == {"event", "log", "alert", "container"}

ASSUME RollupAssumption ==
    /\ Bucket \in Nat \ {0}
    /\ RawWindow \in Nat
    /\ Retention \in Nat
    /\ RawWindow <= Retention
    /\ LogRetention \in Nat
    /\ Kinds \subseteq AllKinds
    /\ Ranges \subseteq Nat
    /\ MaxTime \in Nat
    /\ MaxRewinds \in Nat

VARIABLES
    clock,      \* time.Now().Unix()
    rewinds,    \* times the clock may still be set back
    held,       \* the timestamp each writer has taken and not stored yet
    raw,        \* samples_raw, host_samples_raw or mount_samples_raw
    rows,       \* the five minute table, {} where there is no row
    watermark,  \* meta.rollup_watermark, 0 if there is none
    rollNow,    \* the time a running Rollup was called with
    records,    \* rows of the other tables
    stored,     \* history: every sample that was ever inserted
    late,       \* history: those inserted below the watermark
    newest      \* history: the latest time Rollup has pruned with

vars == <<clock, rewinds, held, raw, rows, watermark, rollNow, records, stored, late, newest>>

Times == 0..MaxTime
None  == -1

\* t.Truncate(bucketSize), and (ts / 300) * 300
BucketOf(t) == t - (t % Bucket)

Buckets == {BucketOf(t) : t \in Times}

\* at is the time that pruning looks at; an alert has resolved_at = 0 while it
\* is firing, a container's last_seen follows the clock while it is present.
Record == [kind : Kinds, at : Times, open : BOOLEAN]

TypeOK ==
    /\ clock \in Times
    /\ rewinds \in 0..MaxRewinds
    /\ held \in [Writers -> Times \cup {None}]
    /\ raw \in SUBSET Times
    /\ rows \in [Buckets -> SUBSET Times]
    /\ watermark \in Times
    /\ rollNow \in Times \cup {None}
    /\ records \in SUBSET Record
    /\ stored \in SUBSET Times
    /\ late \in SUBSET Times
    /\ newest \in Times \cup {None}

Init ==
    /\ clock = 0
    /\ rewinds = MaxRewinds
    /\ held = [w \in Writers |-> None]
    /\ raw = {}
    /\ rows = [b \in Buckets |-> {}]
    /\ watermark = 0
    /\ rollNow = None
    /\ records = {}
    /\ stored = {}
    /\ late = {}
    /\ newest = None

-----------------------------------------------------------------------------
(* The wall clock *)

Tick ==
    /\ clock < MaxTime
    /\ clock' = clock + 1
    /\ records' = {IF r.kind = "container" /\ r.open THEN [r EXCEPT !.at = clock + 1] ELSE r :
                     r \in records}
    /\ UNCHANGED <<rewinds, held, raw, rows, watermark, rollNow, stored, late, newest>>

\* The host's clock is corrected backwards.
Rewind ==
    /\ rewinds > 0
    /\ rewinds' = rewinds - 1
    /\ \E t \in Times : t < clock /\ clock' = t
    /\ UNCHANGED <<held, raw, rows, watermark, rollNow, records, stored, late, newest>>

-----------------------------------------------------------------------------
(* Writers: collectStats and collectHost take the time first *)

Sample(w) ==
    /\ held[w] = None
    /\ held' = [held EXCEPT ![w] = clock]
    /\ UNCHANGED <<clock, rewinds, raw, rows, watermark, rollNow, records, stored, late, newest>>

\* InsertSamples, InsertHostSample: one transaction
Insert(w) ==
    /\ held[w] # None
    /\ raw' = raw \cup {held[w]}
    /\ stored' = stored \cup {held[w]}
    /\ late' = IF held[w] < watermark THEN late \cup {held[w]} ELSE late
    /\ held' = [held EXCEPT ![w] = None]
    /\ UNCHANGED <<clock, rewinds, rows, watermark, rollNow, records, newest>>

\* The insert fails, or the process is killed first: the sample is gone.
Lose(w) ==
    /\ held[w] # None
    /\ held' = [held EXCEPT ![w] = None]
    /\ UNCHANGED <<clock, rewinds, raw, rows, watermark, rollNow, records, stored, late, newest>>

\* A row of another table is written: an event, a log line, an alert that
\* fires, a container that is seen.
WriteRecord(kind) ==
    /\ \A r \in records : r.kind # kind
    /\ records' = records \cup {[kind |-> kind,
                                 at   |-> IF kind = "alert" THEN 0 ELSE clock,
                                 open |-> kind \in {"alert", "container"}]}
    /\ UNCHANGED <<clock, rewinds, held, raw, rows, watermark, rollNow, stored, late, newest>>

\* An alert is resolved, a container is seen no more.
CloseRecord(r) ==
    /\ r.open
    /\ records' = (records \ {r}) \cup
                    {[r EXCEPT !.open = FALSE, !.at = IF r.kind = "alert" THEN clock ELSE @]}
    /\ UNCHANGED <<clock, rewinds, held, raw, rows, watermark, rollNow, stored, late, newest>>

-----------------------------------------------------------------------------
(* Store.Rollup, called hourly by the one rollup loop *)

\* runRollup calls time.Now() and then waits for a connection.
StartRollup ==
    /\ rollNow = None
    /\ rollNow' = clock
    /\ UNCHANGED <<clock, rewinds, held, raw, rows, watermark, records, stored, late, newest>>

\* faulty: leaves out the sample at the lower end of the range
RolledUpAfter(from, to) ==
    [b \in Buckets |->
        LET group == {s \in raw : from < s /\ s < to /\ BucketOf(s) = b}
        IN  IF group = {} THEN rows[b] ELSE group]

\* INSERT OR REPLACE ... SELECT ... WHERE ts >= from AND ts < to GROUP BY bucket
RolledUp(from, to) ==
    [b \in Buckets |->
        LET group == {s \in raw : from <= s /\ s < to /\ BucketOf(s) = b}
        IN  IF group = {} THEN rows[b] ELSE group]

Advanced(cutoff) == IF cutoff > watermark THEN cutoff ELSE watermark

\* faulty: prunes whatever was rolled up, however young
PruneAllRolledUp(now, to) == to

\* rawCutoff: a day ago, but never above what was just rolled up
RawCutoff(now, to) == IF now - RawWindow > to THEN to ELSE now - RawWindow

\* The DELETEs on events, log_errors, alerts and containers.
Expired(r, now) ==
    CASE r.kind = "event"     -> r.at < now - Retention
      [] r.kind = "log"       -> r.at < now - LogRetention
      [] r.kind = "alert"     -> ~r.open /\ r.at < now - Retention
      [] r.kind = "container" -> ~r.open /\ r.at < now - Retention

\* Everything from BeginTx to Commit, up to this cutoff.
RollupTo(cutoff) ==
    /\ rollNow # None
    /\ LET rolled == IF cutoff > watermark THEN RolledUp(watermark, cutoff) ELSE rows
       IN  rows' = [b \in Buckets |-> IF b < rollNow - Retention THEN {} ELSE rolled[b]]
    /\ watermark' = Advanced(cutoff)
    /\ raw' = {s \in raw : s >= RawCutoff(rollNow, cutoff)}
    /\ records' = {r \in records : ~Expired(r, rollNow)}
    /\ newest' = IF rollNow > newest THEN rollNow ELSE newest
    /\ rollNow' = None
    /\ UNCHANGED <<clock, rewinds, held, stored, late>>

\* faulty: up to now, in the middle of a bucket
RunRollupMidBucket == RollupTo(rollNow)

RunRollup == RollupTo(BucketOf(rollNow))

\* The transaction fails (SQLITE_BUSY, a deadline, a kill) and is rolled back.
AbortRollup ==
    /\ rollNow # None
    /\ rollNow' = None
    /\ UNCHANGED <<clock, rewinds, held, raw, rows, watermark, records, stored, late, newest>>

-----------------------------------------------------------------------------

Next ==
    \/ Tick \/ Rewind
    \/ \E w \in Writers : Sample(w) \/ Insert(w) \/ Lose(w)
    \/ \E kind \in Kinds : WriteRecord(kind)
    \/ \E r \in records : CloseRecord(r)
    \/ StartRollup \/ RunRollup \/ AbortRollup

Spec == Init /\ [][Next]_vars

-----------------------------------------------------------------------------
(* Charts: ContainerSeries, HostSeries and MountSeries *)

\* useRaw := time.Since(from) <= rawWindow, where from is the time of the
\* request minus the range: what has passed since is not zero.
UseRaw(range) == range < RawWindow

\* The samples that the answer to a request made now is computed from.
Chart(range) ==
    IF UseRaw(range)
    THEN {s \in raw : clock - range <= s /\ s < clock}
    ELSE UNION {rows[b] : b \in {b \in Buckets : clock - range <= b /\ b < clock}}

-----------------------------------------------------------------------------
(* Properties *)

\* A sample that was stored in time is never lost before its retention ends:
\* it is pruned from the raw table only after it was aggregated, however the
\* inserts, the hourly rollups, their failures and the clock interleave.
NothingLost ==
    \A s \in stored \ late :
        s \in raw \/ s \in rows[BucketOf(s)] \/ BucketOf(s) < newest - Retention

\* A five minute row covers its bucket: a later rollup never replaces a row by
\* one computed from fewer samples.
RowsNeverShrink ==
    [][\A b \in Buckets : rows'[b] # {} => rows[b] \subseteq rows'[b]]_vars

\* What is below the watermark is aggregated, what is above it is not yet.
WatermarkSplits ==
    /\ \A b \in Buckets : \A s \in rows[b] : s < watermark /\ BucketOf(s) = b
    /\ \A s \in stored \ late :
          s < watermark => s \in rows[BucketOf(s)] \/ BucketOf(s) < newest - Retention

\* The watermark does not go back with the clock.
WatermarkMonotone == [][watermark' >= watermark]_vars

\* A chart of less than a day shows every stored sample of its range, unless
\* the clock was set back since the last rollup. A chart of a whole day does not:
\* UseRaw excludes it.
ShortChartIsComplete ==
    newest <= clock =>
        \A r \in {r \in Ranges : r < RawWindow} :
            {s \in stored : clock - r <= s /\ s < clock} \subseteq Chart(r)
=============================================================================
