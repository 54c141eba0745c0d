----------------------------- MODULE Transform -----------------------------
(***************************************************************************)
(* The transform job: spark_jobs/run_transform.main with transform.py and   *)
(* the gate of quality_checks.py.  It scans the raw prefix, keeps one row   *)
(* per OBJECTID, refuses a bad batch, replaces the local parquet directory  *)
(* the loader reads and uploads it to the processed/ zone.                  *)
(*                                                                          *)
(* Ingestion runs go on landing files while a job scans, the source goes on *)
(* editing rows between extractions, and a job may die at any step.  Spark  *)
(* is external: it writes one part file per row here, the finest split, so  *)
(* every coarser one is covered.                                            *)
(*                                                                          *)
(* A name with an underscore is a mutant of the operator that follows it.   *)
(***************************************************************************)
EXTENDS Integers, FiniteSets

CONSTANTS
    Objects,        \* the OBJECTIDs of the source's rows, None for those without
    Feeds,          \* ingestion runs, numbered in the order of their run ids
    Jobs,           \* the executions of run_transform
    ListPage,       \* keys in one list_objects_v2 answer
    SourceErrs,     \* the source may hold malformed rows
    MaxTime,        \* bound: instants are 0..MaxTime
    MaxParts,       \* bound: raw files of one ingestion run
    MaxEdits,       \* bound: edits of one source row
    MaxCrashes      \* bound: jobs that die

VARIABLES
    source,      \* the row each OBJECTID has at the source now
    files,       \* raw page objects
    pc,          \* where each job is
    marker,      \* last key its listing returned
    input,       \* files it has downloaded
    clean,       \* clean_df, once the gate has passed
    todo,        \* part files it still has to move or to upload
    local,       \* output/processed_parquet: its part files
    processed,   \* the processed/ zone of the bucket
    crashes,     \* jobs that died so far
    \* History, read by no action's guard:
    before,      \* per job: the files that were there when it started
    last         \* the job that replaced the directory last, or "several"
                 \* once another one has moved files into it as well

feedVars   == <<source, files>>
outputVars == <<local, processed, last>>
jobVars    == <<pc, marker, input, clean, todo, before>>
vars       == <<feedVars, jobVars, outputVars, crashes>>

-----------------------------------------------------------------------------
None == -1      \* a null, below every instant, as nulls-last ranks it

Dates == 0..MaxTime \cup {None}

(* A version of a source row; rev counts the edits before it and is history. *)
(* Of a row that comes without its OBJECTID nothing else matters.            *)
Rows == {r \in [oid : Objects, created : Dates, closed : Dates, rev : 0..MaxEdits] :
            r.oid = None => r.created = 0 /\ r.closed = None /\ r.rev = 0}

PcValues == {"idle", "scan", "clean", "overwrite", "commit", "list", "upload",
             "done", "failed"}

ASSUME TransformAssumption ==
    /\ IsFiniteSet(Objects)
    /\ Feeds \subseteq Nat \ {0}
    /\ ListPage \in Nat \ {0}
    /\ SourceErrs \in BOOLEAN
    /\ None \in Objects => SourceErrs
    /\ MaxTime \in Nat
    /\ MaxParts \in Nat \ {0}
    /\ MaxEdits \in Nat
    /\ MaxCrashes \in Nat
    /\ {"nobody", "several"} \cap Jobs = {}

Active(j) == pc[j] \notin {"idle", "done", "failed"}

Goto(j, label) == pc' = [pc EXCEPT ![j] = label]

-----------------------------------------------------------------------------
(* The gate's row checks: check_business_key_not_null,                       *)
(* check_created_at_not_null and check_closed_before_created, where a null   *)
(* never compares.                                                           *)
WellFormed(row) ==
    /\ row.oid # None
    /\ row.created # None
    /\ row.closed # None => row.closed >= row.created

(* check_business_key_unique. *)
Unique(rows) == \A r, q \in rows : r.oid = q.oid => r = q

Gate_UniqueOnly(rows) == Unique(rows)

Gate_KeylessPasses(rows) ==
    Unique(rows) /\ \A r \in rows : r.oid = None \/ WellFormed(r)

Gate(rows) == Unique(rows) /\ \A r \in rows : WellFormed(r)

(* deduplicate: per OBJECTID a row with the latest creation date.  Versions  *)
(* of one row tie on it, and nothing in the code says which one comes first. *)
Latest(rows, o) ==
    {r \in rows : r.oid = o /\ \A q \in rows : q.oid = o => q.created <= r.created}

Dedups_None(rows) == {rows}

Dedups_NullsFirst(rows) ==
    {S \in SUBSET rows : \A o \in {r.oid : r \in rows} :
        \E r \in rows : /\ r.oid = o
                        /\ \A q \in rows : q.oid = o => q.created >= r.created
                        /\ {q \in S : q.oid = o} = {r}}

Dedups(rows) ==
    {S \in SUBSET rows : \A o \in {r.oid : r \in rows} :
        \E r \in Latest(rows, o) : {q \in S : q.oid = o} = {r}}

RowsOf(fs) == UNION {f.rows : f \in fs}

(* Keys list by partition date and run id, then part. *)
KeyOf(file) == file.feed * MaxParts + file.part

Beyond(m) == {f \in files : KeyOf(f) > m}

(* One answer of the listing after key m, and whether it is the last one.    *)
Listed_WithState(m) ==
    {f \in Beyond(m) : Cardinality({g \in Beyond(m) : KeyOf(g) <= KeyOf(f)}) <= ListPage}
        \cup {[feed |-> 0, part |-> 0, rows |-> {}]}

Listed(m) ==
    {f \in Beyond(m) : Cardinality({g \in Beyond(m) : KeyOf(g) <= KeyOf(f)}) <= ListPage}

LastAnswer(m) == Cardinality(Beyond(m)) <= ListPage

NextMarker(m) ==
    CHOOSE k \in {m} \cup {KeyOf(f) : f \in Listed(m)} :
        \A f \in Listed(m) : KeyOf(f) <= k

PartsOf(j, rows) == {[job |-> j, row |-> r] : r \in rows}

-----------------------------------------------------------------------------
(* The source and ingestion, as far as a job can tell them apart.            *)

(* An agent closes, reopens or corrects a case.  The creation date stays,    *)
(* unless the source was wrong about it.                                     *)
Edit(o) ==
    /\ source[o].rev < MaxEdits
    /\ \E row \in Rows :
          /\ row.oid = o
          /\ row.rev = source[o].rev + 1
          /\ row.created = source[o].created \/ SourceErrs
          /\ WellFormed(row) \/ SourceErrs
          /\ source' = [source EXCEPT ![o] = row]
    /\ UNCHANGED <<files, jobVars, outputVars, crashes>>

(* write_page: the next part of a run, some rows as the source has them now. *)
(* A run may stop anywhere: the job reads no manifest, so it cannot tell.    *)
Land(f) ==
    /\ LET part == Cardinality({x \in files : x.feed = f})
       IN  /\ part < MaxParts
           /\ \E rows \in SUBSET {source[o] : o \in Objects} :
                 /\ rows # {}
                 /\ files' = files \cup {[feed |-> f, part |-> part, rows |-> rows]}
    /\ UNCHANGED <<source, jobVars, outputVars, crashes>>

-----------------------------------------------------------------------------
(* The job. *)

Start(j) ==
    /\ pc[j] = "idle"
    /\ Goto(j, "scan")
    /\ before' = [before EXCEPT ![j] = files]
    /\ UNCHANGED <<feedVars, marker, input, clean, todo, outputVars, crashes>>

(* download_raw_files: one answer of the paginated listing and the objects   *)
(* it names.  Raw objects never change, so reading them is not a step.       *)
(* Without any file, main returns 1.                                         *)
Scan(j) ==
    /\ pc[j] = "scan"
    /\ LET m == marker[j] IN
          /\ input' = [input EXCEPT ![j] = @ \cup Listed(m)]
          /\ marker' = [marker EXCEPT ![j] = NextMarker(m)]
          /\ Goto(j, IF ~LastAnswer(m) THEN "scan"
                     ELSE IF input'[j] = {} THEN "failed" ELSE "clean")
    /\ UNCHANGED <<feedVars, clean, todo, before, outputVars, crashes>>

(* clean_service_requests, then run_quality_checks on its result: a hard     *)
(* failure raises, and nothing has been written yet.  The plan is lazy, but  *)
(* every evaluation reads the same downloaded files in the same order.       *)
Clean_SkipsGate(j) ==
    /\ pc[j] = "clean"
    /\ \E rows \in Dedups(RowsOf(input[j])) :
          /\ clean' = [clean EXCEPT ![j] = rows]
          /\ Goto(j, "overwrite")
    /\ UNCHANGED <<feedVars, marker, input, todo, before, outputVars, crashes>>

Clean(j) ==
    /\ pc[j] = "clean"
    /\ \E rows \in Dedups(RowsOf(input[j])) :
          IF Gate(rows)
          THEN clean' = [clean EXCEPT ![j] = rows] /\ Goto(j, "overwrite")
          ELSE UNCHANGED clean /\ Goto(j, "failed")
    /\ UNCHANGED <<feedVars, marker, input, todo, before, outputVars, crashes>>

(* write.mode("overwrite"): the old directory goes first ...                 *)
Overwrite(j) ==
    /\ pc[j] = "overwrite"
    /\ local' = {}
    /\ last' = j
    /\ todo' = [todo EXCEPT ![j] = PartsOf(j, clean[j])]
    /\ Goto(j, "commit")
    /\ UNCHANGED <<feedVars, marker, input, clean, before, processed, crashes>>

(* Whose files the directory holds once j has moved one in (history).        *)
Owner(j) == IF last = j THEN j ELSE "several"

(* ... and the job commit moves the new part files in, one at a time.        *)
CommitPart_NoWait(j) ==
    /\ pc[j] = "commit"
    /\ \E p \in todo[j] :
          /\ local' = local \cup {p}
          /\ todo' = [todo EXCEPT ![j] = @ \ {p}]
          /\ Goto(j, "list")
    /\ last' = Owner(j)
    /\ UNCHANGED <<feedVars, marker, input, clean, before, processed, crashes>>

CommitPart(j) ==
    /\ pc[j] = "commit"
    /\ \E p \in todo[j] :
          /\ local' = local \cup {p}
          /\ todo' = [todo EXCEPT ![j] = @ \ {p}]
          /\ Goto(j, IF todo[j] = {p} THEN "list" ELSE "commit")
    /\ last' = Owner(j)
    /\ UNCHANGED <<feedVars, marker, input, clean, before, processed, crashes>>

(* upload_parquet: rglob lists whatever the directory holds.                 *)
ListOutput(j) ==
    /\ pc[j] = "list"
    /\ todo' = [todo EXCEPT ![j] = local]
    /\ Goto(j, IF local = {} THEN "done" ELSE "upload")
    /\ UNCHANGED <<feedVars, marker, input, clean, before, outputVars, crashes>>

(* One upload_file; the file may be gone.  The preview and the summary that  *)
(* follow the last one write nothing another component reads.                *)
UploadPart(j) ==
    /\ pc[j] = "upload"
    /\ \E p \in todo[j] :
          IF p \in local
          THEN /\ processed' = processed \cup {p}
               /\ todo' = [todo EXCEPT ![j] = @ \ {p}]
               /\ Goto(j, IF todo[j] = {p} THEN "done" ELSE "upload")
          ELSE Goto(j, "failed") /\ UNCHANGED <<processed, todo>>
    /\ UNCHANGED <<feedVars, marker, input, clean, before, local, last, crashes>>

Crash(j) ==
    /\ Active(j)
    /\ crashes < MaxCrashes
    /\ crashes' = crashes + 1
    /\ Goto(j, "failed")
    /\ UNCHANGED <<feedVars, marker, input, clean, todo, before, outputVars>>

-----------------------------------------------------------------------------
Init ==
    /\ source \in [Objects -> {r \in Rows : r.rev = 0 /\ (WellFormed(r) \/ SourceErrs)}]
    /\ \A o \in Objects : source[o].oid = o
    /\ files = {}
    /\ pc = [j \in Jobs |-> "idle"]
    /\ marker = [j \in Jobs |-> 0]
    /\ input = [j \in Jobs |-> {}]
    /\ clean = [j \in Jobs |-> {}]
    /\ todo = [j \in Jobs |-> {}]
    /\ before = [j \in Jobs |-> {}]
    /\ local = {}
    /\ processed = {}
    /\ last = "nobody"
    /\ crashes = 0

FeedStep == (\E o \in Objects : Edit(o)) \/ (\E f \in Feeds : Land(f))

JobStep(j) ==
    \/ Scan(j)
    \/ Clean(j)
    \/ Overwrite(j)
    \/ CommitPart(j)
    \/ ListOutput(j)
    \/ UploadPart(j)

Next == FeedStep \/ \E j \in Jobs : Start(j) \/ JobStep(j) \/ Crash(j)

Spec == Init /\ [][Next]_vars

-----------------------------------------------------------------------------
(* Properties. *)

PartFiles == [job : Jobs, row : Rows]

TypeOK ==
    /\ source \in [Objects -> Rows]
    /\ files \subseteq [feed : Feeds, part : 0..(MaxParts - 1), rows : SUBSET Rows]
    /\ pc \in [Jobs -> PcValues]
    /\ marker \in [Jobs -> Nat]
    /\ input \in [Jobs -> SUBSET files]
    /\ clean \in [Jobs -> SUBSET Rows]
    /\ todo \in [Jobs -> SUBSET PartFiles]
    /\ before \in [Jobs -> SUBSET files]
    /\ local \subseteq PartFiles
    /\ processed \subseteq PartFiles
    /\ crashes \in 0..MaxCrashes
    /\ last \in Jobs \cup {"nobody", "several"}

Written == local \cup processed

BeforeGate == {"idle", "scan", "clean"}

(* A part file of a batch that has passed the gate. *)
Gated(p) ==
    /\ p.job \in Jobs
    /\ pc[p.job] \notin BeforeGate
    /\ p.row \in clean[p.job]

OnePerObject(parts) == \A p, q \in parts : p.row.oid = q.row.oid => p = q

(* Nothing reaches the parquet directory or the processed zone unless the    *)
(* gate passed the batch it belongs to, whatever else runs or dies           *)
(* (run_transform.py: "a bad batch never reaches Parquet, S3").              *)
GateHolds == \A p \in Written : WellFormed(p.row) /\ p.row \in clean[p.job]

(* What the loader may read after a job replaced the directory and no other  *)
(* job did: one row per OBJECTID, all of them landed, and for every row      *)
(* landed before the job started one at least as recently created.  The scan *)
(* loses no file and dedup no OBJECTID, however ingestion overlaps the job.  *)
OutputComplete ==
    \A j \in Jobs : last = j /\ pc[j] \in {"list", "upload", "done"} =>
        LET rows == {p.row : p \in local}
        IN  /\ OnePerObject(local)
            /\ rows \subseteq RowsOf(files)
            /\ \A r \in RowsOf(before[j]) :
                  \E q \in rows : q.oid = r.oid /\ q.created >= r.created

(* A job that ended well, and whose output is still there, has published all *)
(* it computed.                                                              *)
DoneMeansPublished ==
    \A j \in Jobs : last = j /\ pc[j] = "done" => PartsOf(j, clean[j]) \subseteq processed

(* A file leaves the directory only to make room for a batch that passed the *)
(* gate: a rejected batch leaves the last good output in place.              *)
LastGoodOutputKept ==
    [][~(local \subseteq local') =>
          \E j \in Jobs : pc[j] = "overwrite" /\ clean[j] # {} /\ Gate(clean[j])]_vars

(* A job fails only when it died, when there was nothing to read when it     *)
(* started, when some landed row is malformed, or when another job replaced  *)
(* the directory it was uploading.                                           *)
FailsForAReason ==
    \A j \in Jobs : pc[j] = "failed" =>
        \/ crashes > 0
        \/ before[j] = {}
        \/ \E r \in RowsOf(input[j]) : ~WellFormed(r)
        \/ todo[j] # {} /\ last # j

-----------------------------------------------------------------------------
(* The inductive invariant behind OutputComplete, DoneMeansPublished and     *)
(* FailsForAReason.                                                          *)

(* Files are never empty, and there are finitely many.                       *)
FilesInv ==
    /\ IsFiniteSet(files)
    /\ \A f \in files : f.rows # {}

(* A scan has every file of its start up to its marker, and after its last   *)
(* answer every file of its start: what lands meanwhile only adds to it.     *)
ScanInv(j) ==
    /\ pc[j] = "idle" => marker[j] = 0
    /\ pc[j] = "scan" => \A f \in before[j] : KeyOf(f) <= marker[j] => f \in input[j]
    /\ pc[j] \notin {"idle", "scan", "failed"} => before[j] \subseteq input[j]

(* What deduplicate makes of rows: some of them, one per OBJECTID, and for   *)
(* each of them one at least as recently created.                            *)
CleanOf(batch, rows) ==
    /\ batch \subseteq rows
    /\ Unique(batch)
    /\ \A r \in rows : \E q \in batch : q.oid = r.oid /\ q.created >= r.created

CleanInv(j) ==
    pc[j] \in {"overwrite", "commit", "list", "upload", "done"} =>
        CleanOf(clean[j], RowsOf(input[j]))

(* While the directory is j's alone it holds j's batch, less what j has yet  *)
(* to move in, and the processed zone holds what j no longer has to upload.  *)
WriteInv(j) ==
    last = j =>
        /\ pc[j] = "commit" => local \cup todo[j] = PartsOf(j, clean[j])
        /\ pc[j] \in {"list", "upload", "done"} => local = PartsOf(j, clean[j])
        /\ pc[j] = "upload" => todo[j] \subseteq local /\ local \subseteq processed \cup todo[j]
        /\ pc[j] = "done" => local \subseteq processed

(* Every job has what its scan owes the batch, what its batch owes the       *)
(* directory and what the directory owes the processed zone.                 *)
JobInv ==
    /\ FilesInv
    /\ \A j \in Jobs : ScanInv(j) /\ CleanInv(j) /\ WriteInv(j)
    /\ FailsForAReason

-----------------------------------------------------------------------------
(* What the documents say and the code does not do. *)

(* docs/DECISIONS.md AD-005: duplicates are resolved "keeping the latest by  *)
(* update timestamp": the output never holds a version of a row older than   *)
(* one that was in raw when the job started.                                 *)
LatestVersionWins ==
    \A j \in Jobs : last = j /\ pc[j] = "done" =>
        \A r \in RowsOf(before[j]) : \A p \in local : p.row.oid = r.oid => p.row.rev >= r.rev
=============================================================================
