------------------------------- MODULE Ingest -------------------------------
(***************************************************************************)
(* The ingestion job: denver311.ingestion.run_ingest.ingest() with the      *)
(* ArcGIS client, the discovery step and the landing zone it calls.         *)
(*                                                                          *)
(* Runs is a set of processes, each one execution of the command with its   *)
(* own run id.  They may overlap (a manual backfill beside the scheduled    *)
(* DAG run, a second DAG run) or follow each other (retries, next day).  A  *)
(* step of a run is one network call and the code up to the next one, so    *)
(* everything the source, the bucket and the other runs do can happen       *)
(* between any two calls.                                                   *)
(*                                                                          *)
(* A name with an underscore (Status_OffByOne) is a mutant of the operator  *)
(* that follows it, used to show that the properties depend on it.          *)
(***************************************************************************)
EXTENDS FeatureLayer, Landing

CONSTANTS
    Runs,                 \* the executions of the job
    OneAtATime,           \* the runs are the attempts of one task: no overlap
    Modes,                \* the command lines used: [full, dry] flags
    PageSize,             \* page_size
    ServerCap,            \* the layer's own maxRecordCount
    MaxPages,             \* max_pages, the circuit breaker
    MaxAttempts,          \* attempts per layer query (stop_after_attempt(4))
    MaxDiscoveryAttempts, \* attempts per portal query (stop_after_attempt(3))
    UrlOverride,          \* arcgis_service_url_override is set
    ShouldCreateBucket,   \* settings.should_create_bucket
    CreateAgainFails,     \* create_bucket of an owned bucket is an error
    InitialBuckets,       \* may the bucket (not) exist before the first run
    InitialWatermark,     \* the watermark it then holds
    CountMayBeMissing,    \* a count answer may lack its "count" member
    MaxFaults             \* bound: faults injected over a behaviour

VARIABLES
    pc,         \* where each run is: the call it makes next
    mode,       \* full_refresh and dry_run
    layer,      \* layer_url: the host discovery returned
    attempts,   \* failed attempts of the query in progress
    since,      \* lower end of the extraction window
    expected,   \* expected: the pre-flight count
    offset,     \* iter_pages' offset
    pages,      \* iter_pages' pages, and enumerate's part number
    page,       \* the page just fetched: its OBJECTIDs
    more,       \* exceededTransferLimit of that page
    total,      \* total_records
    high,       \* high_water
    faults,     \* faults injected so far
    \* History, read by no action's guard:
    reach,      \* per run: where the coverage its window continues began
    counted,    \* per run: the rows the count query counted
    seen,       \* per run: the rows its pages returned
    floor       \* reach of the run that stored the watermark

countVars == <<expected, counted>>
loopVars  == <<offset, pages, page, more>>
tallyVars == <<total, high, seen>>
windowVars == <<since, reach>>
setupVars == <<mode, layer>>

runVars == <<pc, setupVars, attempts, windowVars, countVars, loopVars, tallyVars>>
vars == <<layerVars, storeVars, floor, runVars, faults>>

-----------------------------------------------------------------------------
PcValues == {"idle", "resolve", "head_bucket", "create_bucket", "window", "count",
             "fetch", "land", "manifest", "advance", "done", "failed"}

Active(r) == pc[r] \notin {"idle", "done", "failed"}

ASSUME IngestAssumption ==
    /\ IsFiniteSet(Runs)
    /\ Modes \subseteq [full : BOOLEAN, dry : BOOLEAN]
    /\ PageSize \in Nat \ {0}
    /\ ServerCap \in Nat \ {0}
    /\ MaxPages \in Nat \ {0}
    /\ MaxAttempts \in Nat \ {0}
    /\ MaxDiscoveryAttempts \in Nat \ {0}
    /\ MaxFaults \in Nat
    /\ InitialWatermark \in Ticks
    /\ OneAtATime \in BOOLEAN
    /\ UrlOverride \in BOOLEAN
    /\ ShouldCreateBucket \in BOOLEAN
    /\ CreateAgainFails \in BOOLEAN
    /\ CountMayBeMissing \in BOOLEAN
    /\ InitialBuckets \subseteq BOOLEAN

(* The rows the run's predicate selects now, and one page of them. *)
Window(r) == Selected(since[r])

PageCap == IF PageSize <= ServerCap THEN PageSize ELSE ServerCap

(* A fault uses up one unit of the budget. *)
Fault == faults < MaxFaults /\ faults' = faults + 1

(* The host the run resolved still serves the layer. *)
Reachable(r) == layer[r] = host

Goto(r, label) == pc' = [pc EXCEPT ![r] = label]

-----------------------------------------------------------------------------
(* What a run decides from its own state. *)

(* After yielding a page, iter_pages asks for another one unless the page    *)
(* was short with no "more" flag, or the circuit breaker is reached.         *)
AsksForMore_FirstPageOnly(r) == FALSE

AsksForMore(r) ==
    /\ more[r] \/ Cardinality(page[r]) >= PageSize
    /\ pages[r] + 1 < MaxPages

(* high_water after a page: _max_watermark, which skips nulls. *)
Raise(h, rows) ==
    LET values == {h} \cup {stamp[o] : o \in rows}
    IN  CHOOSE m \in values : \A v \in values : v <= m

Status_OffByOne(r) == IF total[r] + 1 < expected[r] THEN "short_read" ELSE "ok"

Status(r) == IF total[r] < expected[r] THEN "short_read" ELSE "ok"

(* The object keys of the pages a run has landed so far. *)
Keys_OneTooMany(r) == {BuildKey(r, p) : p \in 0..pages[r]}

Keys(r) == {BuildKey(r, p) : p \in 0..(pages[r] - 1)}

Manifest_StaleAfter(r) ==
    [run |-> r, status |-> Status(r), expected |-> expected[r], actual |-> total[r],
     files |-> Keys(r), before |-> since[r], after |-> since[r]]

Manifest(r) ==
    [run |-> r, status |-> Status(r), expected |-> expected[r], actual |-> total[r],
     files |-> Keys(r), before |-> since[r], after |-> high[r]]

AdvancesWatermark_Always(r) == high[r] # None

AdvancesWatermark(r) == high[r] # None /\ Status(r) = "ok"

-----------------------------------------------------------------------------
(* The process starts.  Attempts of one DAG task follow each other; runs     *)
(* started by hand or by overlapping DAG runs do not wait.                   *)
Start(r) ==
    /\ pc[r] = "idle"
    /\ OneAtATime => \A q \in Runs : ~Active(q)
    /\ \E m \in Modes : mode' = [mode EXCEPT ![r] = m]
    /\ Goto(r, "resolve")
    /\ UNCHANGED <<layerVars, storeVars, floor, layer, attempts, windowVars,
                   countVars, loopVars, tallyVars, faults>>

AfterResolve(r) ==
    IF ShouldCreateBucket /\ ~mode[r].dry THEN "head_bucket" ELSE "window"

(* resolve_layer_url: the override pins the URL the service had first, else  *)
(* the portal names the current host.                                        *)
Resolve(r) ==
    /\ pc[r] = "resolve"
    /\ layer' = [layer EXCEPT ![r] = IF UrlOverride THEN 0 ELSE host]
    /\ attempts' = [attempts EXCEPT ![r] = 0]
    /\ Goto(r, AfterResolve(r))
    /\ UNCHANGED <<layerVars, storeVars, floor, mode, windowVars, countVars,
                   loopVars, tallyVars, faults>>

(* ensure_bucket, first call: head_bucket. *)
AfterHead_IgnoresAnswer(r) == "create_bucket"

AfterHead(r) == IF bucket THEN "window" ELSE "create_bucket"

HeadBucket(r) ==
    /\ pc[r] = "head_bucket"
    /\ Goto(r, AfterHead(r))
    /\ UNCHANGED <<layerVars, storeVars, floor, setupVars, attempts, windowVars,
                   countVars, loopVars, tallyVars, faults>>

(* ensure_bucket, second call: create_bucket, whose error is not caught. *)
CreateBucket(r) ==
    /\ pc[r] = "create_bucket"
    /\ bucket' = TRUE
    /\ Goto(r, IF bucket /\ CreateAgainFails THEN "failed" ELSE "window")
    /\ UNCHANGED <<layerVars, raw, manifests, watermark, writer, floor, setupVars,
                   attempts, windowVars, countVars, loopVars, tallyVars, faults>>

-----------------------------------------------------------------------------
(* The extraction window.  A dry run reads no watermark; a full refresh      *)
(* wants none; an incremental run with none stored reaches back Lookback.    *)
ReadsWatermark(r) == ~mode[r].full /\ ~mode[r].dry

StoredMark(r) == IF ReadsWatermark(r) THEN watermark ELSE None

SinceOf(r) ==
    IF mode[r].full THEN None
    ELSE IF StoredMark(r) # None THEN StoredMark(r)
    ELSE now - Lookback

DecideWindow(r) ==
    /\ pc[r] = "window"
    /\ ReadsWatermark(r) => bucket
    /\ since' = [since EXCEPT ![r] = SinceOf(r)]
    /\ high' = [high EXCEPT ![r] = SinceOf(r)]
    /\ reach' = [reach EXCEPT ![r] =
                    IF StoredMark(r) # None THEN floor ELSE SinceOf(r)]
    /\ Goto(r, "count")
    /\ UNCHANGED <<layerVars, storeVars, floor, setupVars, attempts, countVars,
                   loopVars, total, seen, faults>>

(* read_watermark re-raises what is not a missing key: a missing bucket is   *)
(* NoSuchBucket.                                                             *)
WindowWithoutBucket(r) ==
    /\ pc[r] = "window"
    /\ ReadsWatermark(r)
    /\ ~bucket
    /\ Goto(r, "failed")
    /\ UNCHANGED <<layerVars, storeVars, floor, setupVars, attempts, windowVars,
                   countVars, loopVars, tallyVars, faults>>

-----------------------------------------------------------------------------
(* client.count(where): payload.get("count", 0). *)
CountWith(r, n) ==
    /\ pc[r] = "count"
    /\ Reachable(r)
    /\ expected' = [expected EXCEPT ![r] = n]
    /\ counted' = [counted EXCEPT ![r] = Window(r)]
    /\ attempts' = [attempts EXCEPT ![r] = 0]
    /\ Goto(r, "fetch")
    /\ UNCHANGED <<layerVars, storeVars, floor, setupVars, windowVars, loopVars,
                   tallyVars>>

Count(r) == CountWith(r, Cardinality(Window(r))) /\ UNCHANGED faults

CountMissing(r) == CountMayBeMissing /\ CountWith(r, 0) /\ Fault

(* iter_pages: one page query.  No features ends the loop. *)
FetchPage(r) ==
    /\ pc[r] = "fetch"
    /\ Reachable(r)
    /\ page' = [page EXCEPT ![r] = PageOf(Window(r), offset[r], PageCap)]
    /\ more' = [more EXCEPT ![r] = Exceeded(Window(r), offset[r], PageCap)]
    /\ attempts' = [attempts EXCEPT ![r] = 0]
    /\ Goto(r, IF page'[r] = {} THEN "manifest" ELSE "land")
    /\ UNCHANGED <<layerVars, storeVars, floor, setupVars, windowVars, countVars,
                   offset, pages, tallyVars, faults>>

(* A transient server issue: an answer with no features where there are some. *)
FetchEmpty(r) ==
    /\ pc[r] = "fetch"
    /\ Reachable(r)
    /\ Fault
    /\ attempts' = [attempts EXCEPT ![r] = 0]
    /\ Goto(r, "manifest")
    /\ UNCHANGED <<layerVars, storeVars, floor, setupVars, windowVars, countVars,
                   loopVars, tallyVars>>

AttemptsAllowed(r) ==
    IF pc[r] = "resolve" THEN MaxDiscoveryAttempts ELSE MaxAttempts

NextAttempt_Forgets(r) == attempts[r]

NextAttempt(r) == attempts[r] + 1

AfterFailedAttempt(r) ==
    IF NextAttempt(r) < AttemptsAllowed(r) THEN pc[r] ELSE "failed"

(* One attempt of a query fails with a retryable error.  The last attempt    *)
(* raises.  A query to a host the layer has left always fails; any other     *)
(* failure is injected.                                                      *)
GoneHost(r) == pc[r] \in {"count", "fetch"} /\ ~Reachable(r)

QueryFails(r) ==
    /\ pc[r] \in {"resolve", "count", "fetch"}
    /\ pc[r] = "resolve" => ~UrlOverride
    /\ IF GoneHost(r) THEN UNCHANGED faults ELSE Fault
    /\ attempts' = [attempts EXCEPT ![r] = NextAttempt(r)]
    /\ Goto(r, AfterFailedAttempt(r))
    /\ UNCHANGED <<layerVars, storeVars, floor, setupVars, windowVars, countVars,
                   loopVars, tallyVars>>

-----------------------------------------------------------------------------
(* The body of the paging loop: tally the page, land it unless dry_run.      *)
NextOffset_FixedStride(r) == offset[r] + PageSize

NextOffset(r) == offset[r] + Cardinality(page[r])

Lands_Always(r) == WritePage(r, pages[r], page[r])

Lands(r) ==
    IF mode[r].dry THEN UNCHANGED raw ELSE WritePage(r, pages[r], page[r])

LandPage(r) ==
    /\ pc[r] = "land"
    /\ bucket \/ mode[r].dry
    /\ Lands(r)
    /\ total' = [total EXCEPT ![r] = @ + Cardinality(page[r])]
    /\ high' = [high EXCEPT ![r] = Raise(@, page[r])]
    /\ seen' = [seen EXCEPT ![r] = @ \cup page[r]]
    /\ offset' = [offset EXCEPT ![r] = NextOffset(r)]
    /\ pages' = [pages EXCEPT ![r] = @ + 1]
    /\ Goto(r, IF AsksForMore(r) THEN "fetch" ELSE "manifest")
    /\ UNCHANGED <<layerVars, bucket, manifests, watermark, writer, floor, setupVars,
                   attempts, windowVars, countVars, page, more, faults>>

(* The end of a dry run: the manifest is built, returned and not stored. *)
FinishDry(r) ==
    /\ pc[r] = "manifest"
    /\ mode[r].dry
    /\ Goto(r, "done")
    /\ UNCHANGED <<layerVars, storeVars, floor, setupVars, attempts, windowVars,
                   countVars, loopVars, tallyVars, faults>>

StoreManifest(r) ==
    /\ pc[r] = "manifest"
    /\ ~mode[r].dry
    /\ bucket
    /\ WriteManifestObject(Manifest(r))
    /\ Goto(r, IF AdvancesWatermark(r) THEN "advance" ELSE "done")
    /\ UNCHANGED <<layerVars, bucket, raw, watermark, writer, floor, setupVars, attempts,
                   windowVars, countVars, loopVars, tallyVars, faults>>

(* Any put into a bucket that does not exist raises. *)
PutWithoutBucket_Swallowed(r) ==
    /\ pc[r] \in {"land", "manifest"}
    /\ ~mode[r].dry
    /\ ~bucket
    /\ Goto(r, "done")
    /\ UNCHANGED <<layerVars, storeVars, floor, setupVars, attempts, windowVars,
                   countVars, loopVars, tallyVars, faults>>

PutWithoutBucket(r) ==
    /\ pc[r] \in {"land", "manifest"}
    /\ ~mode[r].dry
    /\ ~bucket
    /\ Goto(r, "failed")
    /\ UNCHANGED <<layerVars, storeVars, floor, setupVars, attempts, windowVars,
                   countVars, loopVars, tallyVars, faults>>

Advance(r) ==
    /\ pc[r] = "advance"
    /\ WriteWatermark(high[r], r)
    /\ floor' = reach[r]
    /\ Goto(r, "done")
    /\ UNCHANGED <<layerVars, bucket, raw, manifests, setupVars, attempts,
                   windowVars, countVars, loopVars, tallyVars, faults>>

(* The run ends at its next call without making it: the process is killed,   *)
(* the query is rejected (ArcGISQueryError is not retried), the portal names *)
(* no URL, an S3 call raises.                                                *)
Crash(r) ==
    /\ Active(r)
    /\ Fault
    /\ Goto(r, "failed")
    /\ UNCHANGED <<layerVars, storeVars, floor, setupVars, attempts, windowVars,
                   countVars, loopVars, tallyVars>>

-----------------------------------------------------------------------------
Init ==
    /\ LayerInit
    /\ bucket \in InitialBuckets
    /\ raw = {}
    /\ manifests = {}
    /\ watermark = IF bucket THEN InitialWatermark ELSE None
    /\ writer = "nobody"
    /\ floor = watermark
    /\ faults = 0
    /\ pc = [r \in Runs |-> "idle"]
    /\ mode = [r \in Runs |-> [full |-> FALSE, dry |-> FALSE]]
    /\ layer = [r \in Runs |-> 0]
    /\ attempts = [r \in Runs |-> 0]
    /\ since = [r \in Runs |-> None]
    /\ reach = [r \in Runs |-> None]
    /\ expected = [r \in Runs |-> 0]
    /\ counted = [r \in Runs |-> {}]
    /\ offset = [r \in Runs |-> 0]
    /\ pages = [r \in Runs |-> 0]
    /\ page = [r \in Runs |-> {}]
    /\ more = [r \in Runs |-> FALSE]
    /\ total = [r \in Runs |-> 0]
    /\ high = [r \in Runs |-> None]
    /\ seen = [r \in Runs |-> {}]

(* The steps the program takes by itself. *)
RunStep(r) ==
    \/ Resolve(r) \/ HeadBucket(r) \/ CreateBucket(r)
    \/ DecideWindow(r) \/ WindowWithoutBucket(r)
    \/ Count(r) \/ FetchPage(r) \/ LandPage(r)
    \/ FinishDry(r) \/ StoreManifest(r) \/ PutWithoutBucket(r) \/ Advance(r)

(* What goes wrong around it. *)
RunFault(r) == CountMissing(r) \/ FetchEmpty(r) \/ QueryFails(r) \/ Crash(r)

Source == LayerNext /\ UNCHANGED <<storeVars, floor, runVars, faults>>

Next == Source \/ \E r \in Runs : Start(r) \/ RunStep(r) \/ RunFault(r)

Spec == Init /\ [][Next]_vars

(* The process runs, and a query to a host that is gone fails: a run left    *)
(* alone takes its next step.  The scheduler starts every run.  Nothing is   *)
(* assumed of the source, and no fault has to happen.                        *)
FairSpec ==
    /\ Spec
    /\ \A r \in Runs :
          /\ WF_vars(Start(r))
          /\ WF_vars(RunStep(r) \/ (GoneHost(r) /\ QueryFails(r)))

-----------------------------------------------------------------------------
(* Type invariant. *)
StoreTypeOK ==
    /\ bucket \in BOOLEAN
    /\ \A x \in raw :
          /\ x.key \in [run : Runs, part : Nat]
          /\ x.rows \subseteq DOMAIN stamp
    /\ \A m \in manifests :
          /\ m.run \in Runs
          /\ m.status \in {"ok", "short_read"}
    /\ watermark \in Ticks
    /\ writer \in Runs \cup {"nobody"}
    /\ floor \in Ticks

RunTypeOK ==
    /\ pc \in [Runs -> PcValues]
    /\ mode \in [Runs -> [full : BOOLEAN, dry : BOOLEAN]]
    /\ layer \in [Runs -> Nat]
    /\ attempts \in [Runs -> Nat]
    /\ since \in [Runs -> Ticks]
    /\ reach \in [Runs -> Ticks]
    /\ expected \in [Runs -> Nat]
    /\ counted \in [Runs -> SUBSET DOMAIN stamp]
    /\ offset \in [Runs -> Nat]
    /\ pages \in [Runs -> Nat]
    /\ page \in [Runs -> SUBSET DOMAIN stamp]
    /\ more \in [Runs -> BOOLEAN]
    /\ total \in [Runs -> Nat]
    /\ high \in [Runs -> Ticks]
    /\ seen \in [Runs -> SUBSET DOMAIN stamp]
    /\ faults \in Nat

TypeOK == LayerTypeOK /\ StoreTypeOK /\ RunTypeOK

-----------------------------------------------------------------------------
(* The paging loop of the run is over and its status is decided. *)
Tallied(r) == pc[r] \in {"manifest", "advance", "done"}

(* AD-006: a run that reports "ok" has read every row it counted that the    *)
(* layer still serves.  The code compares two numbers; this is about the     *)
(* rows.                                                                     *)
CountReconciles ==
    \A r \in Runs :
        Tallied(r) /\ Status(r) = "ok" => counted[r] \cap live \subseteq seen[r]

(* Rows above base that are neither in the landing zone nor selected by a    *)
(* later query from mark: no incremental run will ever fetch them.           *)
OutOfReach(base, mark) ==
    {o \in Selected(base) : o \notin Landed /\ ~Matches(mark, stamp[o])}

(* AD-005, at-least-once delivery: the stored watermark leaves no row the    *)
(* extraction has been responsible for behind, whatever runs overlapped,     *)
(* crashed or came back short.                                               *)
AtLeastOnce == OutOfReach(floor, watermark) = {}

(* AD-005: after an incremental run that died or came back short, the window *)
(* the next incremental run would use still selects every row the dead run   *)
(* had counted and nobody has landed ("re-reads the same window").           *)
NextWindow == IF watermark # None THEN watermark ELSE now - Lookback

LostRun(r) == pc[r] = "failed" \/ (pc[r] = "done" /\ Status(r) = "short_read")

FailedWindowReread ==
    \A r \in Runs :
        LostRun(r) /\ ReadsWatermark(r) =>
            \A o \in (counted[r] \cap live) \ Landed : Matches(NextWindow, stamp[o])

(* A manifest lists exactly the page objects of its run, and its record      *)
(* count is what those objects hold: the audit trail agrees with the data.   *)
PagesOf(run) == {x \in raw : x.key.run = run}

ManifestFaithful ==
    \A m \in manifests :
        /\ m.files = {x.key : x \in PagesOf(m.run)}
        /\ m.actual = Cardinality(UNION {x.rows : x \in PagesOf(m.run)})

(* The stored watermark is the one the manifest of the run it names          *)
(* announces, and that run was complete: state, audit trail and data agree   *)
(* even when several runs wrote it in turn.                                  *)
WatermarkTraceable ==
    writer # "nobody" =>
        \E m \in manifests :
            m.run = writer /\ m.after = watermark /\ m.status = "ok"

(* No false alarm: a run whose loop ended before it had read as many rows as *)
(* it counted met a fault, lost a row that aged out, or hit the max_pages    *)
(* circuit breaker; arrivals, other runs and clock ticks never cause it.     *)
NoFalseAlarm ==
    \A r \in Runs :
        Tallied(r) /\ Status(r) = "short_read" =>
            faults > 0 \/ live # DOMAIN stamp \/ pages[r] = MaxPages

(* A run only fails for a reason outside the program: a fault, or a host     *)
(* that moved under it.                                                      *)
FailsForAReason ==
    \A r \in Runs : pc[r] = "failed" => faults > 0 \/ layer[r] # host

(* A run that ends without an exception, and is not a dry run, has left its  *)
(* manifest and every row it read in the bucket: a missing bucket is loud.   *)
DoneMeansRecorded ==
    \A r \in Runs :
        pc[r] = "done" /\ ~mode[r].dry =>
            seen[r] \subseteq Landed /\ \E m \in manifests : m.run = r

(* Landed pages are never rewritten or removed: two runs, or two pages of    *)
(* one run, never share an object key.                                       *)
RawAppendOnly == [][raw \subseteq raw']_vars

(* --dry-run: "Query the API but write nothing". *)
DryRunWritesNothing ==
    [][\A r \in Runs : pc'[r] # pc[r] /\ mode[r].dry => UNCHANGED storeVars]_vars

(* Every run comes to an end, however often its queries fail. *)
EveryRunEnds == \A r \in Runs : Active(r) ~> ~Active(r)

(* Eventual delivery: as long as more runs are still to be started than      *)
(* faults and host moves are still to happen, a row the stored watermark     *)
(* selects is landed, or ages out first.  (Without one the window moves on   *)
(* with the clock.)                                                          *)
Spare ==
    Cardinality({r \in Runs : pc[r] = "idle"})
        > (MaxFaults - faults) + (MaxMigrations - host)

EventualDelivery ==
    \A o \in 1..MaxRows :
        (Spare /\ watermark # None /\ o \in Selected(watermark)) ~> (o \in Landed \/ o \notin live)

-----------------------------------------------------------------------------
(* The abstract promise, over the same source and the landing zone. *)
Promise == INSTANCE Delivery WITH
    InitialMark <- InitialWatermark,
    landed <- Landed, mark <- watermark, base <- floor

(* Ingest keeps the promise: its landed pages are deliveries, its watermark  *)
(* write an advance that leaves nothing behind, every other step a stutter.  *)
ImplementsDelivery == Promise!Spec

-----------------------------------------------------------------------------
(* The inductive invariant behind AtLeastOnce and CountReconciles, for a     *)
(* feed in order ("next") from which nothing is withdrawn and whose count    *)
(* answers are complete.                                                     *)

(* S holds the rows of W with the smallest OBJECTIDs. *)
Prefix(S, W) == S \subseteq W /\ \A p \in S, o \in W \ S : p < o

(* Row o could not be missed by a watermark taken from an earlier row. *)
AfterAll(o) == \A p \in DOMAIN stamp : p < o => Matches(stamp[p], stamp[o])

(* w may serve as a watermark whose coverage began at b: it leaves nothing   *)
(* behind, and nothing the source publishes later either.                    *)
Credible(b, w) ==
    /\ OutOfReach(b, w) = {}
    /\ w = b \/ \E p \in DOMAIN stamp : w = stamp[p]

NotBegun(r) == pc[r] \in {"idle", "resolve", "head_bucket", "create_bucket", "window"}
Paging(r)   == pc[r] \in {"fetch", "land", "manifest", "advance", "done"}

(* Before and at the count query nothing is read. *)
NothingRead(r) == total[r] = 0 /\ offset[r] = 0 /\ seen[r] = {}

(* The rows counted are the oldest the predicate selects; any other came     *)
(* after the count.                                                          *)
CountedFirst(r) ==
    /\ Prefix(counted[r], Window(r))
    /\ expected[r] = Cardinality(counted[r])
    /\ \A o \in Window(r) \ counted[r] : AfterAll(o)

(* The rows read so far are the oldest the predicate selects, each once.     *)
ReadInOrder(r) ==
    /\ Prefix(seen[r], Window(r))
    /\ total[r] = Cardinality(seen[r])
    /\ high[r] = since[r] \/ \E p \in seen[r] : high[r] = stamp[p]
    /\ ~mode[r].dry => seen[r] \subseteq Landed

NextPageIsNext(r) ==
    /\ pc[r] \in {"fetch", "land"} => offset[r] = total[r]
    /\ pc[r] = "land" => page[r] \cap seen[r] = {} /\ Prefix(seen[r] \cup page[r], Window(r))
    /\ pc[r] = "advance" => ~mode[r].dry /\ Status(r) = "ok"

RunInv(r) ==
    /\ NotBegun(r) \/ pc[r] = "count" => NothingRead(r)
    /\ pc[r] = "count" => high[r] = since[r]
    /\ pc[r] = "count" \/ Paging(r) => Credible(reach[r], since[r])
    /\ Paging(r) => CountedFirst(r) /\ ReadInOrder(r) /\ NextPageIsNext(r)

(* The object keys a run has still to use are free. *)
FreshKeys == \A x \in raw : x.key.part < pages[x.key.run]

DeliveryInv ==
    /\ live = DOMAIN stamp
    /\ FreshKeys
    /\ Credible(floor, watermark)
    /\ \A r \in Runs : RunInv(r)

-----------------------------------------------------------------------------
(* The inductive invariant behind ManifestFaithful, WatermarkTraceable and   *)
(* DoneMeansRecorded, for any feed, any runs and any faults.                 *)

(* The objects of a run: its pages in order, holding the rows it has read; a *)
(* dry run has none.                                                         *)
ObjectsAgree(r) ==
    /\ {x.key : x \in PagesOf(r)} = IF mode[r].dry THEN {} ELSE Keys(r)
    /\ UNION {x.rows : x \in PagesOf(r)} = IF mode[r].dry THEN {} ELSE seen[r]

(* No row is read twice, rows that age out between two pages included: what  *)
(* has been read and is still served ranks below the offset.                 *)
BelowOffset(r, rows, off) == \A o \in rows \cap Window(r) : Rank(o, Window(r)) <= off

ReadOnce(r) ==
    /\ NotBegun(r) \/ pc[r] = "count" => pages[r] = 0 /\ seen[r] = {}
    /\ total[r] = Cardinality(seen[r])
    /\ offset[r] = total[r]
    /\ pc[r] = "fetch" => BelowOffset(r, seen[r], offset[r])
    /\ pc[r] = "land" =>
          /\ page[r] \cap seen[r] = {}
          /\ BelowOffset(r, seen[r] \cup page[r], offset[r] + Cardinality(page[r]))

(* Where a run may be, given its mode and what it has recorded.              *)
HasManifest(r) == Manifest(r) \in manifests

StageAgrees(r) ==
    /\ mode[r].dry => pc[r] \notin {"head_bucket", "create_bucket", "advance"}
    /\ pc[r] = "advance" => HasManifest(r) /\ Status(r) = "ok"
    /\ pc[r] = "done" /\ ~mode[r].dry => HasManifest(r)

(* Manifests and the watermark are the record of runs that are past them:    *)
(* each says what its run read and landed, and no key is used twice.         *)
AuditInv ==
    /\ FreshKeys
    /\ \A r \in Runs : ObjectsAgree(r) /\ ReadOnce(r) /\ StageAgrees(r)
    /\ \A m \in manifests :
          /\ m = Manifest(m.run) /\ ~mode[m.run].dry
          /\ pc[m.run] \in {"advance", "done", "failed"}
    /\ writer # "nobody" =>
          /\ pc[writer] = "done" /\ HasManifest(writer)
          /\ watermark = high[writer] /\ Status(writer) = "ok"

-----------------------------------------------------------------------------
(* The inductive invariant behind NoFalseAlarm: while nothing has gone wrong *)
(* and no row has aged out, a run reads the rows it counted in order and     *)
(* leaves the loop with all of them, or at the circuit breaker.              *)
Undisturbed == faults = 0 /\ live = DOMAIN stamp

ReadsOn(r) ==
    /\ expected[r] = Cardinality(counted[r])
    /\ counted[r] \subseteq Window(r)
    /\ Prefix(seen[r], Window(r))
    /\ pc[r] \in {"fetch", "land"} => pages[r] < MaxPages
    /\ pc[r] = "land" =>
          /\ Prefix(seen[r] \cup page[r], Window(r))
          /\ more[r] \/ counted[r] \subseteq seen[r] \cup page[r]
    /\ Tallied(r) => counted[r] \subseteq seen[r] \/ pages[r] = MaxPages

(* Whoever pages while nothing is disturbed reads on.                        *)
LoopInv == Undisturbed => \A r \in Runs : Paging(r) => ReadsOn(r)

-----------------------------------------------------------------------------
(* The inductive invariant behind FailsForAReason.                           *)

(* Only one run can find the bucket missing and create it.                   *)
BucketReady ==
    \/ InitialBuckets \subseteq {TRUE}
    \/ ShouldCreateBucket /\ (OneAtATime \/ ~CreateAgainFails)

PastBucket(r) == Active(r) /\ pc[r] \notin {"resolve", "head_bucket", "create_bucket"}

(* Nobody is past the bucket without one, or holds an address that the layer *)
(* never had; so no run has failed for another reason.                       *)
ReasonInv ==
    /\ InitialBuckets \subseteq {TRUE} => bucket
    /\ OneAtATime => \A q, r \in Runs : Active(q) /\ Active(r) => q = r
    /\ \A r \in Runs :
          /\ layer[r] <= host
          /\ PastBucket(r) /\ ~mode[r].dry => bucket
          /\ pc[r] = "create_bucket" => ~bucket \/ ~OneAtATime
          /\ pc[r] = "create_bucket" => ~ (InitialBuckets \subseteq {TRUE})
    /\ FailsForAReason

-----------------------------------------------------------------------------
(* The inductive invariant behind FailedWindowReread, for a watermark that   *)
(* was stored before the first run and that no full refresh can undercut: no *)
(* run moves it below that one.                                              *)
StoredFirst ==
    /\ InitialBuckets = {TRUE}
    /\ InitialWatermark # None
    /\ (\E m \in Modes : m.full) => InitialWatermark = 0

MarkKept(r) ==
    /\ mode[r].full => InitialWatermark = 0
    /\ NotBegun(r) \/ pc[r] = "count" => counted[r] = {}
    /\ (pc[r] = "count" \/ Paging(r)) /\ ~mode[r].dry =>
          /\ reach[r] \in {InitialWatermark, None}
          /\ reach[r] = None => InitialWatermark = 0
          /\ ~mode[r].full => since[r] >= InitialWatermark /\ high[r] >= InitialWatermark
    /\ pc[r] = "advance" => ~mode[r].dry /\ high[r] # None
    /\ ReadsWatermark(r) => \A o \in counted[r] : Matches(InitialWatermark, stamp[o])

(* The watermark, and what a run is about to make of it, are not below the   *)
(* first one.                                                                *)
MarkInv ==
    /\ watermark >= InitialWatermark
    /\ floor \in {InitialWatermark, None}
    /\ floor = None => InitialWatermark = 0
    /\ \A r \in Runs : MarkKept(r)
=============================================================================
