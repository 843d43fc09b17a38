----------------------------- MODULE UpdateCheck -----------------------------
(* Whether newer images exist: the loop of internal/collector/updates.go,    *)
(* which a timer or a request starts, the check of internal/registry (run.go *)
(* and checker.go), the image_updates table, and the copy of it in memory    *)
(* from which the containers get their badge.                                *)
(*                                                                           *)
(* A tag names a version at its registry: an index, which lists an image for *)
(* this platform, or that image alone.  Docker keeps, for each image it has,  *)
(* the digests under which it was pulled: those of an index, of the image     *)
(* itself, or several of them.                                               *)
EXTENDS Integers, FiniteSets

CONSTANTS
    Images,       \* names of images
    Private,      \* those whose registry wants a token
    Lookups,      \* lookups at a time (4)
    Digests,
    Primary,      \* the digest of each version, which the registry tells
    Platform,     \* the digest of its image for this platform
    \* Bounds of the model
    MaxVersion,   \* versions of a tag
    MaxPushes,    \* pushes of a version
    MaxChanges,   \* images that are pulled, built, taken into use or out of it
    MaxFaults     \* failures, expired tokens, timeouts and restarts

Versions == 1..MaxVersion

ASSUME UpdateAssumption ==
    /\ IsFiniteSet(Images)
    /\ Private \subseteq Images
    /\ Lookups \in Nat \ {0}
    /\ MaxVersion \in Nat \ {0}
    /\ MaxPushes \in Nat
    /\ MaxChanges \in Nat
    /\ MaxFaults \in Nat

\* A digest names a content: an index lists one image for this platform, and
\* is not an image itself.
ASSUME DigestAssumption ==
    /\ Primary \in [Versions -> Digests]
    /\ Platform \in [Versions -> Digests]
    /\ \A v, w \in Versions :
          Primary[v] \in {Primary[w], Platform[w]} => Platform[v] = Platform[w]

Result   == [error : BOOLEAN, available : BOOLEAN]
NoResult == [error |-> FALSE]

\* What the first answer tells: a version, and perhaps its digest.
Answer   == [version : Versions, digest : BOOLEAN]
NoAnswer == [version |-> 1, digest |-> FALSE]

\* The digests by which a version is known upstream.
Known(v) == {Primary[v], Platform[v]}

IsIndex(v) == Primary[v] # Platform[v]

\* Digests of the image p: its own, and those of the versions it is the image of.
Of(p) == {p} \cup {Primary[v] : v \in {w \in Versions : Platform[w] = p}}

OfOneImage(digests) == \E p \in Digests : digests \subseteq Of(p)

VARIABLES
    upstream,    \* the version that each tag names at its registry
    local,       \* Docker: digests of the local image with that tag
    other,       \* Docker: digests of other images of its repository
    used,        \* images of containers, ImagesInUse
    pushes,      \* pushes still allowed
    changes,     \* changes still allowed
    faults,      \* failures still allowed
    pc,          \* where updateLoop is
    updateNow,   \* Collector.updateNow, a channel with room for one
    expired,     \* the ten minutes of the check are over
    images,      \* the images that are checked
    candidates,  \* the local digests of each, as listed
    lookup,      \* where each lookup is
    head,        \* what its first answer told
    token,       \* Checker.tokens
    results,     \* what each lookup found
    table,       \* image_updates
    updates,     \* Collector.state.updates
    wanted,      \* history: a check was asked for and none has begun since
    seen         \* history: the versions upstream during each lookup

vars == <<upstream, local, other, used, pushes, changes, faults, pc, updateNow, expired, images,
          candidates, lookup, head, token, results, table, updates, wanted, seen>>

world  == <<upstream, local, other, used, pushes, changes>>
loop   == <<pc, updateNow, expired, images, candidates, wanted>>
checks == <<lookup, head, results, seen>>
stored == <<table, updates>>

\* The lookups that have their turn.
Running == {i \in Images : lookup[i] \notin {"none", "queued"}}

TypeOK ==
    /\ upstream \in [Images -> Versions]
    /\ local \in [Images -> SUBSET Digests]
    /\ other \in [Images -> SUBSET Digests]
    /\ used \in SUBSET Images
    /\ pushes \in 0..MaxPushes
    /\ changes \in 0..MaxChanges
    /\ faults \in 0..MaxFaults
    /\ pc \in {"idle", "list", "lookup", "upsert", "prune", "load"}
    /\ updateNow \in BOOLEAN
    /\ expired \in BOOLEAN
    /\ images \in SUBSET Images
    /\ candidates \in [Images -> SUBSET Digests]
    /\ lookup \in [Images -> {"none", "queued", "head", "auth", "again", "get"}]
    /\ head \in [Images -> Answer]
    /\ token \in [Images -> {"none", "good", "bad"}]
    /\ results \in [Images -> Result \cup {NoResult}]
    /\ table \in [Images -> Result \cup {NoResult}]
    /\ updates \in SUBSET Images
    /\ wanted \in BOOLEAN
    /\ seen \in [Images -> SUBSET Versions]
    /\ Cardinality(Running) <= Lookups

\* The program starts with an empty database; an image was built here, or
\* pulled by its tag, by a digest, or by both.
Init ==
    /\ upstream = [i \in Images |-> 1]
    /\ local \in [Images -> SUBSET Known(1)]
    /\ other = [i \in Images |-> {}]
    /\ used = Images
    /\ pushes = MaxPushes
    /\ changes = MaxChanges
    /\ faults = MaxFaults
    /\ pc = "idle"
    /\ updateNow = FALSE
    /\ expired = FALSE
    /\ images = {}
    /\ candidates = [i \in Images |-> {}]
    /\ lookup = [i \in Images |-> "none"]
    /\ head = [i \in Images |-> NoAnswer]
    /\ token = [i \in Images |-> "none"]
    /\ results = [i \in Images |-> NoResult]
    /\ table = [i \in Images |-> NoResult]
    /\ updates = {}
    /\ wanted = FALSE
    /\ seen = [i \in Images |-> {}]

Fail == faults > 0 /\ faults' = faults - 1

-----------------------------------------------------------------------------
(* The world *)

\* The tag is moved to a new version, or back to an old one.
Push(i) ==
    /\ pushes > 0
    /\ pushes' = pushes - 1
    /\ \E v \in Versions \ {upstream[i]} :
          /\ upstream' = [upstream EXCEPT ![i] = v]
          /\ seen' = [seen EXCEPT ![i] = IF i \in Running THEN @ \cup {v} ELSE @]
    /\ UNCHANGED <<local, other, used, changes, faults, loop, lookup, head, results, token, stored>>

Change == changes > 0 /\ changes' = changes - 1

\* The digests that Docker has in the repository of i.
Held(i) == local[i] \cup other[i]

\* A pull by the tag gives it to the image of the version: what Docker has of
\* that image already is kept with it, the rest is of images without the tag.
Pull(i) ==
    /\ Change
    /\ LET image == Of(Platform[upstream[i]])
       IN  /\ local' = [local EXCEPT ![i] = {Primary[upstream[i]]} \cup (Held(i) \cap image)]
           /\ other' = [other EXCEPT ![i] = Held(i) \ image]
    /\ UNCHANGED <<upstream, used, pushes, faults, loop, checks, token, stored>>

\* A pull by a digest or by another tag of the repository: of the image that
\* has the tag, or of another one.
PullOther(i) ==
    /\ Change
    /\ \E d \in Digests \ Held(i) :
          IF local[i] # {} /\ OfOneImage(local[i] \cup {d})
          THEN local' = [local EXCEPT ![i] = @ \cup {d}] /\ UNCHANGED other
          ELSE other' = [other EXCEPT ![i] = @ \cup {d}] /\ UNCHANGED local
    /\ UNCHANGED <<upstream, used, pushes, faults, loop, checks, token, stored>>

\* An image that is built here gets the tag, and has no digest.
Build(i) ==
    /\ Change
    /\ local' = [local EXCEPT ![i] = {}]
    /\ other' = [other EXCEPT ![i] = Held(i)]
    /\ UNCHANGED <<upstream, used, pushes, faults, loop, checks, token, stored>>

Use(i) ==
    /\ Change
    /\ used' = IF i \in used THEN used \ {i} ELSE used \cup {i}
    /\ UNCHANGED <<upstream, local, other, pushes, faults, loop, checks, token, stored>>

\* The registry no longer takes a token, which the checker may still keep.
Expire(i) ==
    /\ token[i] = "good"
    /\ Fail
    /\ token' = [token EXCEPT ![i] = "bad"]
    /\ UNCHANGED <<world, loop, checks, stored>>

-----------------------------------------------------------------------------
(* updateLoop *)

\* faulty: a request is ignored while a check is running
TriggerWhenIdle ==
    /\ updateNow' = (updateNow \/ pc = "idle")
    /\ wanted' = TRUE
    /\ UNCHANGED <<world, faults, pc, expired, images, candidates, checks, token, stored>>

\* TriggerUpdateCheck, which does nothing if a request is waiting already.
Trigger ==
    /\ updateNow' = TRUE
    /\ wanted' = TRUE
    /\ UNCHANGED <<world, faults, pc, expired, images, candidates, checks, token, stored>>

Begin ==
    /\ pc = "idle"
    /\ pc' = IF used = {} THEN "prune" ELSE "list"
    /\ images' = used
    /\ expired' = FALSE
    /\ wanted' = FALSE
    /\ UNCHANGED <<world, faults, candidates, checks, token, stored>>

BeginByTimer   == Begin /\ UNCHANGED updateNow
BeginByRequest == updateNow /\ Begin /\ updateNow' = FALSE

\* The context of the check ends; every later step of it fails.
Timeout ==
    /\ pc # "idle"
    /\ ~expired
    /\ Fail
    /\ expired' = TRUE
    /\ UNCHANGED <<world, pc, updateNow, images, candidates, wanted, checks, token, stored>>

Works == ~expired /\ UNCHANGED faults
Breaks == IF expired THEN UNCHANGED faults ELSE Fail

-----------------------------------------------------------------------------
(* RunCheck *)

\* indexLocalDigests: all digests of the image that has the tag or, if there
\* are none, of all images of the repository.
Candidates(i) == IF local[i] # {} THEN local[i] ELSE other[i]

\* ListImages and indexLocalDigests.
List ==
    /\ pc = "list"
    /\ Works
    /\ pc' = "lookup"
    /\ candidates' = [i \in Images |-> IF i \in images THEN Candidates(i) ELSE {}]
    /\ lookup' = [i \in Images |-> IF i \in images THEN "queued" ELSE "none"]
    /\ UNCHANGED <<world, updateNow, expired, images, wanted, head, results, seen, token, stored>>

ListFails ==
    /\ pc = "list"
    /\ Breaks
    /\ pc' = "load"
    /\ UNCHANGED <<world, updateNow, expired, images, candidates, wanted, checks, token, stored>>

Clear ==
    /\ images' = {}
    /\ candidates' = [i \in Images |-> {}]
    /\ results' = [i \in Images |-> NoResult]

\* UpsertImageUpdates: one transaction with the results, failed ones included.
Upsert ==
    /\ pc = "lookup"
    /\ \A i \in images : results[i] # NoResult
    /\ Works
    /\ table' = [i \in Images |-> IF i \in images THEN results[i] ELSE table[i]]
    /\ pc' = "prune"
    /\ UNCHANGED <<world, updateNow, expired, images, candidates, wanted, checks, token, updates>>

\* faulty: rows are kept as long as their images are local
PruneLocal ==
    /\ pc = "prune"
    /\ Works
    /\ table' = [i \in Images |-> IF i \in images \/ local[i] # {} THEN table[i] ELSE NoResult]
    /\ pc' = "load"
    /\ Clear
    /\ UNCHANGED <<world, updateNow, expired, wanted, lookup, head, seen, token, updates>>

\* PruneImageUpdates: the rows of images that were not in use go.
Prune ==
    /\ pc = "prune"
    /\ Works
    /\ table' = [i \in Images |-> IF i \in images THEN table[i] ELSE NoResult]
    /\ pc' = "load"
    /\ Clear
    /\ UNCHANGED <<world, updateNow, expired, wanted, lookup, head, seen, token, updates>>

StoreFails ==
    /\ \/ pc = "lookup" /\ \A i \in images : results[i] # NoResult
       \/ pc = "prune"
    /\ Breaks
    /\ pc' = "load"
    /\ Clear
    /\ UNCHANGED <<world, updateNow, expired, wanted, lookup, head, seen, token, stored>>

Available(rows) == {i \in Images : rows[i] # NoResult /\ rows[i].available}

\* loadUpdates, and publishContainers.
Load ==
    /\ pc = "load"
    /\ Works
    /\ updates' = Available(table)
    /\ pc' = "idle"
    /\ Clear
    /\ UNCHANGED <<world, updateNow, expired, wanted, lookup, head, seen, token, table>>

LoadFails ==
    /\ pc = "load"
    /\ Breaks
    /\ pc' = "idle"
    /\ Clear
    /\ UNCHANGED <<world, updateNow, expired, wanted, lookup, head, seen, token, stored>>

-----------------------------------------------------------------------------
(* checkOne and remoteDigests, for each image in a goroutine *)

Goes(i, step) == lookup' = [lookup EXCEPT ![i] = step]

Found(i, result) ==
    /\ Goes(i, "none")
    /\ results' = [results EXCEPT ![i] = result]
    /\ seen' = [seen EXCEPT ![i] = {}]
    /\ head' = [head EXCEPT ![i] = NoAnswer]

Error == [error |-> TRUE, available |-> FALSE]

\* faulty: a lookup does not wait for its turn
AcquireAtOnce(i) ==
    /\ lookup[i] = "queued"
    /\ IF candidates[i] = {}
       THEN Found(i, Error)
       ELSE /\ Goes(i, "head")
            /\ seen' = [seen EXCEPT ![i] = {upstream[i]}]
            /\ UNCHANGED <<results, head>>
    /\ UNCHANGED <<world, faults, loop, token, stored>>

\* The lookup gets its turn; an image without a local digest needs none.
Acquire(i) ==
    /\ lookup[i] = "queued"
    /\ Cardinality(Running) < Lookups
    /\ IF candidates[i] = {}
       THEN Found(i, Error)
       ELSE /\ Goes(i, "head")
            /\ seen' = [seen EXCEPT ![i] = {upstream[i]}]
            /\ UNCHANGED <<results, head>>
    /\ UNCHANGED <<world, faults, loop, token, stored>>

Cancel(i) ==
    /\ lookup[i] = "queued"
    /\ expired
    /\ Found(i, Error)
    /\ UNCHANGED <<world, faults, loop, token, stored>>

Accepted(i) == i \in Private => token[i] = "good"

\* headManifest, with the token that is cached, or with one that is new.  Not
\* every registry tells the digest.
Head(i) ==
    /\ lookup[i] \in {"head", "again"}
    /\ Accepted(i)
    /\ Works
    /\ Goes(i, "get")
    /\ \E digest \in BOOLEAN :
          head' = [head EXCEPT ![i] = [version |-> upstream[i], digest |-> digest]]
    /\ UNCHANGED <<world, loop, token, results, seen, stored>>

\* It is answered by a challenge: only the first time it is taken up.
Challenge(i) ==
    /\ ~Accepted(i)
    /\ Works
    /\ \/ lookup[i] = "head" /\ Goes(i, "auth") /\ UNCHANGED <<results, seen, head>>
       \/ lookup[i] = "again" /\ Found(i, Error)
    /\ UNCHANGED <<world, loop, token, stored>>

FetchToken(i) ==
    /\ lookup[i] = "auth"
    /\ Works
    /\ Goes(i, "again")
    /\ token' = [token EXCEPT ![i] = "good"]
    /\ UNCHANGED <<world, loop, head, results, seen, stored>>

\* The primary digest: that of the first answer or, without it, of the second.
PrimaryTold(i, v) == Primary[IF head[i].digest THEN head[i].version ELSE v]

\* What the second answer lists.  It is read if the first one was an index.
Children(i, v) == IF IsIndex(head[i].version) /\ IsIndex(v) THEN {Platform[v]} ELSE {}

\* faulty: only one of the local digests is looked at
ContainsFirst(i, v, children) ==
    LET d == CHOOSE d \in candidates[i] : TRUE IN d \in {PrimaryTold(i, v)} \cup children

\* contains, for any of the local digests.
Contains(i, v, children) == candidates[i] \cap ({PrimaryTold(i, v)} \cup children) # {}

Verdict(i, children) ==
    Found(i, [error |-> FALSE, available |-> ~Contains(i, upstream[i], children)])

\* getManifest fetches the index by the tag, which may have moved by now.
Get(i) ==
    /\ lookup[i] = "get"
    /\ Accepted(i)
    /\ Works
    /\ Verdict(i, Children(i, upstream[i]))
    /\ UNCHANGED <<world, loop, token, stored>>

\* What it fetches cannot be parsed: this is no error, and nothing is listed.
GetUnreadable(i) ==
    /\ lookup[i] = "get"
    /\ Accepted(i)
    /\ ~expired
    /\ Fail
    /\ Verdict(i, {})
    /\ UNCHANGED <<world, loop, token, stored>>

\* A token that is refused here is not renewed.
GetDenied(i) ==
    /\ lookup[i] = "get"
    /\ ~Accepted(i)
    /\ Works
    /\ Found(i, Error)
    /\ UNCHANGED <<world, loop, token, stored>>

\* No answer, a status that is an error, or no token.
LookupFails(i) ==
    /\ i \in Running
    /\ Breaks
    /\ Found(i, Error)
    /\ UNCHANGED <<world, loop, token, stored>>

Lookup(i) ==
    \/ Acquire(i)
    \/ Cancel(i)
    \/ Head(i)
    \/ Challenge(i)
    \/ FetchToken(i)
    \/ Get(i)
    \/ GetUnreadable(i)
    \/ GetDenied(i)
    \/ LookupFails(i)

-----------------------------------------------------------------------------

\* The process ends and starts again; bootstrap loads the table.
Restart ==
    /\ Fail
    /\ pc' = "idle"
    /\ updateNow' = FALSE
    /\ expired' = FALSE
    /\ Clear
    /\ lookup' = [i \in Images |-> "none"]
    /\ head' = [i \in Images |-> NoAnswer]
    /\ seen' = [i \in Images |-> {}]
    /\ token' = [i \in Images |-> "none"]
    /\ updates' = Available(table)
    /\ wanted' = FALSE
    /\ UNCHANGED <<world, table>>

Step ==
    \/ List \/ ListFails
    \/ \E i \in Images : Lookup(i)
    \/ Upsert \/ Prune \/ StoreFails
    \/ Load \/ LoadFails

Next ==
    \/ \E i \in Images : Push(i) \/ Pull(i) \/ PullOther(i) \/ Build(i) \/ Use(i) \/ Expire(i)
    \/ Trigger
    \/ BeginByTimer
    \/ BeginByRequest
    \/ Timeout
    \/ Step
    \/ Restart

Spec == Init /\ [][Next]_vars

\* A check that was begun goes on, and a request is taken when the loop is idle.
\* Nothing is assumed of the timer.
Fairness == WF_vars(Step) /\ WF_vars(BeginByRequest)

FairSpec == Spec /\ Fairness

-----------------------------------------------------------------------------
(* Properties *)

\* A check that is asked for, even while one is running, begins in the end
\* without the timer: requests are dropped only when one is waiting already.
\* If the program restarts, it forgets what was asked of it.
RequestedIsChecked == wanted ~> ~wanted

OutdatedAt(digests, v) == digests # {} /\ digests \cap Known(v) = {}

\* The local digests are of one image, and the tag named an index both times or
\* an image both times, and could be read.
Plain(i) ==
    /\ OfOneImage(candidates[i])
    /\ IsIndex(head[i].version) = IsIndex(upstream[i])
    /\ ~GetUnreadable(i)

\* A lookup reads the tag twice, and it may be moved in between.  The verdict
\* that there is no update was true at some moment of the lookup.  So was the
\* other one, however many digests the local image has, unless the lookup was
\* not plain: the digests are of several images (none has the tag, and those of
\* the whole repository are taken), or the tag came to name, or no longer
\* names, an index, or the index could not be read.
VerdictWasTrue ==
    [][\A i \in Images :
          results[i] = NoResult /\ results'[i] # NoResult /\ ~results'[i].error =>
              \/ results'[i].available /\ ~Plain(i)
              \/ \E v \in seen[i] : results'[i].available = OutdatedAt(candidates[i], v)]_vars

\* When nothing changes or fails any more and the timer goes on, the badges
\* become right and the table holds the images in use and no others, whatever
\* failed lookups, timeouts and restarts left there.
BadgesConverge ==
    []<><<BeginByTimer>>_vars =>
        <>[](/\ updates \cap used = {i \in used : OutdatedAt(Candidates(i), upstream[i])}
             /\ {i \in Images : table[i] # NoResult} = used)
=============================================================================
