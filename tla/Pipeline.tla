------------------------------ MODULE Pipeline ------------------------------
(***************************************************************************)
(* The pipeline from the source's rows to the warehouse's facts: the DAG,   *)
(* the transform job with its parquet directory, and the two other tasks at *)
(* the level of what their own modules show of them.  Ingestion lands rows  *)
(* page by page, and returns 0 only if all it counted is landed (Ingest).   *)
(* A load reads the parquet directory file by file, and then shows in the   *)
(* table as a whole (Table, which Warehouse implements).                    *)
(*                                                                          *)
(* A DAG run has one transform job, named after it, and no task is kept     *)
(* from running beside another DAG run's.                                   *)
(*                                                                          *)
(* A name with an underscore is a mutant of the operator that follows it.   *)
(***************************************************************************)
EXTENDS Transform

CONSTANTS
    ByHand      \* whether DAG runs may be triggered by hand: a set of answers

VARIABLES
    byHand,    \* the answer in this behaviour; without it a DAG run starts
               \* once the one before it has ended
    state, tries, report,   \* the DAG's
    feed,      \* run id of each DAG run's ingestion attempt, 0 before the first
    found,     \* files each loader has listed and not read yet
    batch,     \* files it has read
    facts,     \* the table the warehouse shows
    \* History, read by no action's guard:
    whose      \* per DAG run: the job whose directory its loader read last

INSTANCE Dag WITH DagRuns <- Jobs

Store == INSTANCE Table WITH table <- facts

taskVars == <<state, tries, report>>
loadVars == <<found, batch, facts, whose>>
pipeVars == <<byHand, vars, taskVars, feed, loadVars>>

ASSUME PipelineAssumption == ByHand \subseteq BOOLEAN

-----------------------------------------------------------------------------
(* The ingest task.  Attempts take the run ids of Feeds in turn; when none is *)
(* free an attempt is numbered 0 and finds nothing new to land.              *)
FreeFeeds == Feeds \ ({feed[d] : d \in Jobs} \cup {f.feed : f \in files})

Running(d) == Started(d) /\ ~Ended(d)

StartIngest(d) ==
    /\ byHand \/ \A e \in Jobs \ {d} : ~Running(e)
    /\ Launch(d, "ingest")
    /\ \E f \in IF FreeFeeds = {} THEN {0} ELSE FreeFeeds :
          /\ \A g \in FreeFeeds : f <= g
          /\ feed' = [feed EXCEPT ![d] = f]
    /\ UNCHANGED <<byHand, vars, loadVars>>

LandedAll == \A o \in Objects : \E r \in RowsOf(files) : r.oid = o

RowsLandedBy(f, fs) == RowsOf({x \in fs : x.feed = f})

(* The next page: a run pages by OBJECTID and meets each row once.           *)
Ingest(d) ==
    /\ state[d]["ingest"] = "running"
    /\ feed[d] # 0
    /\ Land(feed[d])
    /\ Unique(RowsLandedBy(feed[d], files'))
    /\ RowsLandedBy(feed[d], files') # RowsLandedBy(feed[d], files)
    /\ UNCHANGED <<byHand, taskVars, feed, loadVars>>

(* run_ingest.main: 0 if what was counted is landed, by this run or before.  *)
IngestReturns_Short(d) ==
    /\ Succeed(d, "ingest")
    /\ UNCHANGED <<byHand, vars, feed, loadVars>>

IngestReturns(d) ==
    /\ LandedAll
    /\ Succeed(d, "ingest")
    /\ UNCHANGED <<byHand, vars, feed, loadVars>>

(* A short read, an exception, a killed process.                             *)
IngestFails(d) ==
    /\ crashes < MaxCrashes
    /\ crashes' = crashes + 1
    /\ Fail(d, "ingest")
    /\ UNCHANGED <<byHand, feedVars, jobVars, outputVars, feed, loadVars>>

-----------------------------------------------------------------------------
(* The transform task: the job of module Transform, and its exit code.       *)
StartTransform(d) ==
    /\ Launch(d, "transform")
    /\ Start(d)
    /\ UNCHANGED <<byHand, feed, loadVars>>

Transforms(d) == JobStep(d) /\ UNCHANGED <<byHand, taskVars, feed, loadVars>>

TransformDies(d) == Crash(d) /\ UNCHANGED <<byHand, taskVars, feed, loadVars>>

TransformReturns(d) ==
    /\ \/ pc[d] = "done" /\ Succeed(d, "transform")
       \/ pc[d] = "failed" /\ Fail(d, "transform")
    /\ UNCHANGED <<byHand, vars, feed, loadVars>>

-----------------------------------------------------------------------------
(* The load task: pd.read_parquet lists the directory ...                    *)
StartLoad(d) ==
    /\ Launch(d, "load")
    /\ found' = [found EXCEPT ![d] = local]
    /\ batch' = [batch EXCEPT ![d] = {}]
    /\ whose' = [whose EXCEPT ![d] = last]
    /\ UNCHANGED <<byHand, vars, feed, facts>>

(* ... and reads the files it found, if they are still there.                *)
ReadFile_SkipsMissing(d) ==
    /\ state[d]["load"] = "running"
    /\ \E p \in found[d] :
          /\ found' = [found EXCEPT ![d] = @ \ {p}]
          /\ batch' = [batch EXCEPT ![d] = @ \cup ({p} \cap local)]
    /\ UNCHANGED <<byHand, vars, taskVars, feed, facts, whose>>

ReadFile(d) ==
    /\ state[d]["load"] = "running"
    /\ \E p \in found[d] \cap local :
          /\ found' = [found EXCEPT ![d] = @ \ {p}]
          /\ batch' = [batch EXCEPT ![d] = @ \cup {p}]
    /\ UNCHANGED <<byHand, vars, taskVars, feed, facts, whose>>

AsLoaded(row) == [oid |-> row.oid, value |-> None, created |-> row.created,
                  closed |-> row.closed]

(* Connect, and one transaction: it commits what was read ...                *)
LoadReturns(d) ==
    /\ found[d] = {}
    /\ Store!Load({AsLoaded(p.row) : p \in batch[d]})
    /\ Succeed(d, "load")
    /\ UNCHANGED <<byHand, vars, feed, found, batch, whose>>

(* ... or nothing: a file is gone, or the connection, or the process, or a   *)
(* directory without files is refused.                                       *)
LoadFails(d) ==
    /\ \/ ~(found[d] \subseteq local) /\ UNCHANGED crashes
       \/ found[d] \cup batch[d] = {} /\ UNCHANGED crashes
       \/ crashes < MaxCrashes /\ crashes' = crashes + 1
    /\ Fail(d, "load")
    /\ UNCHANGED <<byHand, feedVars, jobVars, outputVars, feed, found, batch, facts, whose>>

-----------------------------------------------------------------------------
SkipTask(d) == (\E t \in Tasks : Skip(d, t)) /\ UNCHANGED <<byHand, vars, feed, loadVars>>

NotifyTask(d) == Notify(d) /\ UNCHANGED <<byHand, vars, feed, loadVars>>

(* The source's rows change beside everything else.                          *)
SourceEdits == (\E o \in Objects : Edit(o)) /\ UNCHANGED <<byHand, taskVars, feed, loadVars>>

PipelineInit ==
    /\ byHand \in ByHand
    /\ Init
    /\ DagInit
    /\ feed = [d \in Jobs |-> 0]
    /\ found = [d \in Jobs |-> {}]
    /\ batch = [d \in Jobs |-> {}]
    /\ facts = {}
    /\ whose = [d \in Jobs |-> "nobody"]

DagRunStep(d) ==
    \/ StartIngest(d) \/ Ingest(d) \/ IngestReturns(d)
    \/ StartTransform(d) \/ Transforms(d) \/ TransformReturns(d)
    \/ StartLoad(d) \/ ReadFile(d) \/ LoadReturns(d) \/ LoadFails(d)
    \/ SkipTask(d) \/ NotifyTask(d)

PipelineNext ==
    \/ SourceEdits
    \/ \E d \in Jobs : DagRunStep(d) \/ IngestFails(d) \/ TransformDies(d)

PipelineSpec == PipelineInit /\ [][PipelineNext]_pipeVars

(* The scheduler starts DAG runs and tasks, a process takes its next step;   *)
(* the source need not change and nothing has to fail.                       *)
FairPipeline == PipelineSpec /\ \A d \in Jobs : WF_pipeVars(DagRunStep(d))

-----------------------------------------------------------------------------
(* Properties. *)

PipelineTypeOK ==
    /\ TypeOK
    /\ state \in [Jobs -> [Tasks -> TaskStates]]
    /\ tries \in [Jobs -> [Tasks -> Nat]]
    /\ \A d \in Jobs : \A t \in Tasks : tries[d][t] <= Retries(t) + 1
    /\ report \in [Jobs -> [Work -> Final \cup {"none"}]]
    /\ feed \in [Jobs -> Feeds \cup {0}]
    /\ found \in [Jobs -> SUBSET PartFiles]
    /\ batch \in [Jobs -> SUBSET PartFiles]
    /\ whose \in [Jobs -> Jobs \cup {"nobody", "several"}]

(* A DAG run whose load ended well, from the directory as its own transform  *)
(* left it, has in the warehouse every request that was landed when its      *)
(* transform started, and so every one the source showed its ingestion.      *)
GreenLoadCovers ==
    \A d \in Jobs : state[d]["load"] = "success" /\ whose[d] = d =>
        /\ batch[d] = PartsOf(d, clean[d])
        /\ \A o \in Objects : \E f \in facts : f.oid = o

(* The end of the chain keeps the gate's promise (run_transform.py: "a bad   *)
(* batch never reaches Parquet, S3, or the warehouse"): what a fact says it  *)
(* took from rows that passed, whichever jobs' files its loader met.         *)
OnlyGatedRowsLoaded ==
    LET Passed(o) == {r \in UNION {clean[j] : j \in Jobs} : r.oid = o}
    IN  \A f \in facts :
            /\ \E r \in Passed(f.oid) : WellFormed(r) /\ f.created = r.created
            /\ \E r \in Passed(f.oid) : WellFormed(r) /\ f.closed = r.closed

(* What notify_completion prints is how its DAG run ended: no task changes   *)
(* state after it.                                                           *)
ReportIsFinal ==
    \A d \in Jobs : state[d]["notify"] = "success" =>
        \A t \in Work : report[d][t] \in Final /\ report[d][t] = state[d][t]

(* A DAG run that was started ends, however its tasks fail and whoever       *)
(* replaces the files they read.                                             *)
EveryDagRunEnds == \A d \in Jobs : Started(d) ~> Ended(d)

(* One DAG run after the other, more of them than faults: every request gets *)
(* into the warehouse, unless the source shows a malformed row.              *)
EventuallyInWarehouse ==
    byHand \/ MaxCrashes >= Cardinality(Jobs) \/
    <>(\/ \E o \in Objects : ~WellFormed(source[o])
      \/ \A o \in Objects : \E f \in facts : f.oid = o)

-----------------------------------------------------------------------------
(* The inductive invariant behind these properties. *)

(* A task starts after its upstream task succeeded, or is skipped after it   *)
(* ended otherwise; what notify_completion printed is what is so now.        *)
ChainInv(d) ==
    /\ \A t \in {"transform", "load"} : \A u \in Upstream(t) :
          /\ state[d][t] \notin {"none", "upstream_failed"} => state[d][u] = "success"
          /\ state[d][t] = "upstream_failed" => state[d][u] \in Final
    /\ state[d]["notify"] \in {"none", "success"}
    /\ state[d]["notify"] = "success" =>
          state[d]["load"] \in Final /\ report[d] = [t \in Work |-> state[d][t]]

TriesInv(d) ==
    \A t \in Tasks :
        /\ state[d][t] = "none" => tries[d][t] = 0
        /\ state[d][t] = "up_for_retry" => tries[d][t] <= Retries(t)

Shows(rows) == \A o \in Objects : \E r \in rows : r.oid = o

(* What ingestion counted is landed, the transform job saw it, and it ended  *)
(* well where its task did.                                                  *)
CoverInv(d) ==
    /\ state[d]["ingest"] = "success" => LandedAll
    /\ state[d]["transform"] \in {"running", "success"} => Shows(RowsOf(before[d]))
    /\ state[d]["transform"] = "success" => pc[d] = "done"

(* A loader that found its own transform's output has all of it in its hands *)
(* or still to read, and in the table once it has ended.                     *)
LoadInv(d) ==
    /\ state[d]["load"] \in {"running", "success"} /\ whose[d] = d =>
          found[d] \cup batch[d] = PartsOf(d, clean[d])
    /\ state[d]["load"] = "success" => found[d] = {}
    /\ state[d]["load"] = "success" /\ whose[d] = d => Shows(facts)
    /\ \A p \in found[d] \cup batch[d] : Gated(p)

FactType == [oid : Objects, value : {None}, created : Dates, closed : Dates, hours : Int]

(* A fact's date and its progress are each of a row that passed the gate.    *)
FactInv(f) ==
    /\ f \in FactType
    /\ \E p \in PartFiles : Gated(p) /\ p.row.oid = f.oid /\ p.row.created = f.created
    /\ \E p \in PartFiles : Gated(p) /\ p.row.oid = f.oid /\ p.row.closed = f.closed

(* Each task's success carries on what the task before it established, from  *)
(* the landed pages to the facts.                                            *)
PipeInv ==
    /\ \A d \in Jobs : ChainInv(d) /\ TriesInv(d) /\ CoverInv(d) /\ LoadInv(d)
    /\ \A f \in facts : FactInv(f)

-----------------------------------------------------------------------------
(* What the documents say and the code does not do. *)

(* README.md, the data flow: a failed check means "Fail the DAG"; the note   *)
(* on notify_completion: a failed run is visible, not just a red square.     *)
FailedTaskFailsDagRun ==
    \A d \in Jobs : Ended(d) /\ Green(d) => \A t \in Tasks : state[d][t] = "success"
=============================================================================
