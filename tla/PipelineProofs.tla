--------------------------- MODULE PipelineProofs ---------------------------
(***************************************************************************)
(* The pipeline, for any number of DAG runs, run by hand over each other or  *)
(* one after the other, whatever fails.                                      *)
(*                                                                          *)
(* Every step of the pipeline is one of the transform job's own module, or  *)
(* a stutter of it that may count a crash: what TransformProofs shows of the *)
(* jobs holds here (TransformPart).  PipeInv adds to it how far the tasks of *)
(* a DAG run can be from each other, that a job whose task succeeded saw all *)
(* its ingestion landed, and that a load which started from its own job's    *)
(* directory has all of it, read or still to read.                           *)
(***************************************************************************)
EXTENDS Pipeline, TransformProofs

-----------------------------------------------------------------------------
(* What a step of the pipeline is to the transform job. *)

JustCrash ==
    /\ crashes < MaxCrashes
    /\ crashes' = crashes + 1
    /\ UNCHANGED <<feedVars, jobVars, outputVars>>

(* A step of the pipeline is a step of the transform jobs, leaves them       *)
(* alone, or kills one.                                                      *)
LEMMA PipelineStepIsJobStep ==
    ASSUME feed \in [Jobs -> Feeds \cup {0}], [PipelineNext]_pipeVars
    PROVE  [Next]_vars \/ JustCrash
<1>1. CASE UNCHANGED pipeVars
  BY <1>1 DEF pipeVars
<1>2. CASE SourceEdits
  BY <1>2 DEF SourceEdits, Next, FeedStep
<1>3. ASSUME NEW d \in Jobs, StartIngest(d) \/ IngestReturns(d) \/ TransformReturns(d)
                \/ StartLoad(d) \/ ReadFile(d) \/ LoadReturns(d) \/ SkipTask(d) \/ NotifyTask(d)
      PROVE  UNCHANGED vars
  BY <1>3 DEF StartIngest, IngestReturns, TransformReturns, StartLoad, ReadFile,
              LoadReturns, SkipTask, NotifyTask
<1>4. ASSUME NEW d \in Jobs, Ingest(d) PROVE Next
  <2>1. feed[d] \in Feeds
    BY <1>4 DEF Ingest
  <2> QED BY <1>4, <2>1 DEF Ingest, Next, FeedStep
<1>5. ASSUME NEW d \in Jobs, StartTransform(d) \/ Transforms(d) \/ TransformDies(d)
      PROVE  Next
  BY <1>5 DEF StartTransform, Transforms, TransformDies, Next
<1>6. ASSUME NEW d \in Jobs, LoadFails(d) \/ IngestFails(d)
      PROVE  UNCHANGED vars \/ JustCrash
  BY <1>6 DEF LoadFails, IngestFails, JustCrash, vars
<1> QED BY <1>1, <1>2, <1>3, <1>4, <1>5, <1>6 DEF PipelineNext, DagRunStep

(* The invariants of the transform job hold in the pipeline.                 *)
JobPart == TypeOK /\ JobInv /\ GateInv

(* What TransformProofs proves of the jobs holds of them in the pipeline. *)
LEMMA TransformPart == JobPart /\ ([Next]_vars \/ JustCrash) => JobPart'
<1>1. JobPart /\ [Next]_vars => JobPart'
  BY NextJobInv, NextGate DEF JobPart
<1>2. ASSUME JobPart, JustCrash PROVE JobPart'
  <2> USE <1>2 DEF JobPart, JustCrash, feedVars, jobVars, outputVars
  <2>1. TypeOK'
    BY TransformAssumption DEF TypeOK
  <2>2. GateInv'
    BY DEF GateInv, Gated, Written
  <2>3. FilesInv' /\ \A j \in Jobs : ScanInv(j)' /\ CleanInv(j)' /\ WriteInv(j)'
    BY DEF JobInv, FilesInv, ScanInv, CleanInv, WriteInv, KeyOf
  <2>4. crashes' > 0
    BY TransformAssumption DEF TypeOK
  <2>5. FailsForAReason'
    BY <2>4 DEF FailsForAReason
  <2> QED BY <2>1, <2>2, <2>3, <2>5 DEF JobInv
<1> QED BY <1>1, <1>2

(* What is landed stays, a file that passed the gate has passed it, and a    *)
(* job that has ended stays as it is.                                        *)
Settled ==
    /\ files \subseteq files'
    /\ \A p : Gated(p) => Gated(p)'
    /\ \A j \in Jobs : pc[j] = "done" => pc'[j] = "done" /\ clean'[j] = clean[j]

(* Landed files, what a started job saw and what it cleaned do not change. *)
LEMMA JobStepSettles ==
    ASSUME JobPart, [Next]_vars \/ JustCrash
    PROVE  Settled
<1>1. files \subseteq files'
  BY DEF Next, FeedStep, JobStep, Edit, Land, Start, Scan, Clean, Overwrite, CommitPart,
         ListOutput, UploadPart, Crash, JustCrash, vars, feedVars
<1>2. ASSUME NEW j \in Jobs, pc[j] \notin BeforeGate
      PROVE  pc'[j] \notin BeforeGate /\ clean'[j] = clean[j]
  BY <1>2 DEF Next, FeedStep, JobStep, Edit, Land, Start, Scan, Clean, Overwrite, CommitPart,
         ListOutput, UploadPart, Crash, JustCrash, vars, jobVars, Goto, JobPart, TypeOK,
         BeforeGate
<1>3. ASSUME NEW j \in Jobs, pc[j] = "done"
      PROVE  pc'[j] = "done"
  BY <1>3 DEF Next, FeedStep, JobStep, Edit, Land, Start, Scan, Clean, Overwrite, CommitPart,
         ListOutput, UploadPart, Crash, JustCrash, vars, jobVars, Goto, JobPart, TypeOK,
         Active
<1>4. \A p : Gated(p) => Gated(p)'
  BY <1>2 DEF Gated
<1>5. \A j \in Jobs : pc[j] = "done" => pc'[j] = "done" /\ clean'[j] = clean[j]
  BY <1>2, <1>3 DEF BeforeGate
<1> QED BY <1>1, <1>4, <1>5 DEF Settled

-----------------------------------------------------------------------------
(* The tasks of the DAG runs. *)

DagTyped ==
    /\ state \in [Jobs -> [Tasks -> TaskStates]]
    /\ tries \in [Jobs -> [Tasks -> Nat]]
    /\ \A d \in Jobs : \A t \in Tasks : tries[d][t] <= Retries(t) + 1
    /\ report \in [Jobs -> [Work -> Final \cup {"none"}]]

DagInv == DagTyped /\ \A d \in Jobs : ChainInv(d) /\ TriesInv(d)

(* What the scheduler or a process does to a task of d.                      *)
TaskMove(d) ==
    \/ \E t \in Work : Launch(d, t) \/ Succeed(d, t) \/ Fail(d, t) \/ Skip(d, t)
    \/ Notify(d)

(* A step changes the state of one task at most, by one of the operators of  *)
(* Dag.                                                                      *)
LEMMA EveryStepMovesOneTask ==
    ASSUME [PipelineNext]_pipeVars
    PROVE  UNCHANGED taskVars \/ \E d \in Jobs : TaskMove(d)
<1>1. ASSUME NEW d \in Jobs, StartIngest(d) \/ StartTransform(d) \/ StartLoad(d)
      PROVE  \E t \in Work : Launch(d, t)
  BY <1>1 DEF StartIngest, StartTransform, StartLoad, Work
<1>2. ASSUME NEW d \in Jobs, IngestReturns(d) \/ IngestFails(d) \/ TransformReturns(d)
                \/ LoadReturns(d) \/ LoadFails(d)
      PROVE  \E t \in Work : Succeed(d, t) \/ Fail(d, t)
  BY <1>2 DEF IngestReturns, IngestFails, TransformReturns, LoadReturns, LoadFails, Work
<1>3. ASSUME NEW d \in Jobs, SkipTask(d)
      PROVE  \E t \in Work : Skip(d, t)
  BY <1>3 DEF SkipTask, Tasks, Skip
<1>4. ASSUME NEW d \in Jobs, NotifyTask(d)
      PROVE  Notify(d)
  BY <1>4 DEF NotifyTask
<1>5. ASSUME NEW d \in Jobs, Ingest(d) \/ Transforms(d) \/ ReadFile(d) \/ TransformDies(d)
      PROVE  UNCHANGED taskVars
  BY <1>5 DEF Ingest, Transforms, ReadFile, TransformDies, taskVars
<1>6. SourceEdits \/ UNCHANGED pipeVars => UNCHANGED taskVars
  BY DEF SourceEdits, pipeVars, taskVars
<1> QED BY <1>1, <1>2, <1>3, <1>4, <1>5, <1>6 DEF PipelineNext, DagRunStep, TaskMove

(* A move of a work task: out of which state, into which.                    *)
LEMMA MoveOfTask ==
    ASSUME DagTyped, NEW d \in Jobs, NEW t \in Work,
           Launch(d, t) \/ Succeed(d, t) \/ Fail(d, t) \/ Skip(d, t)
    PROVE  /\ state' = [state EXCEPT ![d][t] = state'[d][t]]
           /\ state'[d] = [state[d] EXCEPT ![t] = state'[d][t]]
           /\ report' = report
           /\ \/ /\ state[d][t] \in {"none", "up_for_retry"} /\ Triggered(d, t)
                 /\ state'[d][t] = "running"
                 /\ tries' = [tries EXCEPT ![d][t] = @ + 1]
              \/ /\ state[d][t] = "running"
                 /\ state'[d][t] \in {"success", "failed", "up_for_retry"}
                 /\ state'[d][t] = "up_for_retry" => tries[d][t] <= Retries(t)
                 /\ tries' = tries
              \/ /\ state[d][t] = "none"
                 /\ \E u \in Upstream(t) : state[d][u] \in {"failed", "upstream_failed"}
                 /\ state'[d][t] = "upstream_failed"
                 /\ tries' = tries
<1> t \in Tasks
  BY DEF Tasks
<1>1. CASE Launch(d, t)
  BY <1>1 DEF Launch, DagTyped
<1>2. CASE Succeed(d, t)
  BY <1>2 DEF Succeed, DagTyped
<1>3. CASE Fail(d, t)
  BY <1>3 DEF Fail, AfterFailure, DagTyped
<1>4. CASE Skip(d, t)
  BY <1>4 DEF Skip, DagTyped
<1> QED BY <1>1, <1>2, <1>3, <1>4

(* The >> chain and its retries, written out. *)
LEMMA ChainOfTasks ==
    /\ Upstream("ingest") = {} /\ Upstream("transform") = {"ingest"}
    /\ Upstream("load") = {"transform"} /\ Upstream("notify") = {"load"}
    /\ Work = {"ingest", "transform", "load"} /\ Tasks = Work \cup {"notify"}
    /\ \A t \in Tasks : Retries(t) \in Nat
BY DEF Upstream, Work, Tasks, Retries

(* ChainInv as a statement about the states of one DAG run's tasks.          *)
Chained(st, rep) ==
    /\ st["transform"] \notin {"none", "upstream_failed"} => st["ingest"] = "success"
    /\ st["transform"] = "upstream_failed" => st["ingest"] \in Final
    /\ st["load"] \notin {"none", "upstream_failed"} => st["transform"] = "success"
    /\ st["load"] = "upstream_failed" => st["transform"] \in Final
    /\ st["notify"] \in {"none", "success"}
    /\ st["notify"] = "success" => st["load"] \in Final /\ rep = [t \in Work |-> st[t]]

(* ChainInv speaks of a DAG run's states and report only. *)
LEMMA ChainInvIsChained == \A d : ChainInv(d) <=> Chained(state[d], report[d])
BY ChainOfTasks DEF ChainInv, Chained

(* A move of a work task keeps the chain and the attempts in order. *)
LEMMA WorkMoveKeepsDag ==
    ASSUME DagInv, NEW d \in Jobs, NEW t \in Work,
           Launch(d, t) \/ Succeed(d, t) \/ Fail(d, t) \/ Skip(d, t)
    PROVE  DagInv'
<1> DEFINE to == state'[d][t]
<1>1. /\ state' = [state EXCEPT ![d][t] = to]
      /\ state'[d] = [state[d] EXCEPT ![t] = to]
      /\ report' = report
      /\ \/ /\ state[d][t] \in {"none", "up_for_retry"} /\ Triggered(d, t)
            /\ to = "running"
            /\ tries' = [tries EXCEPT ![d][t] = @ + 1]
         \/ /\ state[d][t] = "running"
            /\ to \in {"success", "failed", "up_for_retry"}
            /\ to = "up_for_retry" => tries[d][t] <= Retries(t)
            /\ tries' = tries
         \/ /\ state[d][t] = "none"
            /\ \E u \in Upstream(t) : state[d][u] \in {"failed", "upstream_failed"}
            /\ to = "upstream_failed"
            /\ tries' = tries
  BY MoveOfTask DEF DagInv
<1> HIDE DEF to
<1>2. t \in Tasks /\ to \in TaskStates /\ DagTyped /\ TriesInv(d)
  BY <1>1, ChainOfTasks DEF TaskStates, DagInv
<1>3. \A e \in Jobs : e # d => state'[e] = state[e] /\ tries'[e] = tries[e]
  BY <1>1, <1>2 DEF DagTyped
<1>4. ASSUME NEW e \in Jobs, NEW u \in Tasks, e # d \/ u # t
      PROVE  state'[e][u] = state[e][u] /\ tries'[e][u] = tries[e][u]
  BY <1>1, <1>2, <1>4 DEF DagTyped
<1>5. /\ tries'[d][t] \in Nat /\ tries'[d][t] <= Retries(t) + 1
      /\ to # "none"
      /\ to = "up_for_retry" => tries'[d][t] <= Retries(t)
  <2>1. tries[d][t] \in Nat /\ Retries(t) \in Nat /\ tries[d][t] <= Retries(t) + 1
    BY <1>2, ChainOfTasks DEF DagTyped
  <2>2. CASE tries' = [tries EXCEPT ![d][t] = @ + 1]
    <3>1. tries'[d][t] = tries[d][t] + 1
      BY <1>2, <2>2 DEF DagTyped
    <3>2. CASE tries' = tries
      BY <1>1, <2>1, <3>1, <3>2
    <3>3. CASE tries' # tries
      <4>1. state[d][t] \in {"none", "up_for_retry"} /\ to = "running"
        BY <1>1, <3>3
      <4>2. tries[d][t] <= Retries(t)
        BY <1>2, <2>1, <4>1 DEF TriesInv
      <4> QED BY <2>1, <3>1, <4>1, <4>2
    <3> QED BY <3>2, <3>3
  <2>3. CASE tries' = tries
    BY <1>1, <2>1, <2>2, <2>3
  <2> QED BY <1>1, <2>2, <2>3
<1>6. DagTyped'
  <2>1. state' \in [Jobs -> [Tasks -> TaskStates]]
    BY <1>1, <1>2 DEF DagTyped
  <2>2. tries' \in [Jobs -> [Tasks -> Nat]]
    BY <1>1, <1>2 DEF DagTyped
  <2>3. \A e \in Jobs : \A u \in Tasks : tries'[e][u] <= Retries(u) + 1
    BY <1>2, <1>4, <1>5 DEF DagTyped
  <2> QED BY <1>1, <1>2, <2>1, <2>2, <2>3 DEF DagTyped
<1>7. ASSUME NEW e \in Jobs PROVE TriesInv(e)'
  <2>1. TriesInv(e)
    BY DEF DagInv
  <2>2. ASSUME NEW u \in Tasks
        PROVE  /\ state'[e][u] = "none" => tries'[e][u] = 0
               /\ state'[e][u] = "up_for_retry" => tries'[e][u] <= Retries(u)
    <3>1. CASE e = d /\ u = t
      BY <1>5, <3>1 DEF to
    <3>2. CASE e # d \/ u # t
      BY <1>4, <2>1, <3>2 DEF TriesInv
    <3> QED BY <3>1, <3>2
  <2> QED BY <2>2 DEF TriesInv
<1>8. Chained(state[d], report[d]) /\ state[d] \in [Tasks -> TaskStates]
  BY <1>2, ChainInvIsChained DEF DagInv, DagTyped
<1>9. Chained(state'[d], report'[d])
  <2>1. CASE t = "ingest"
    <3>1. state[d]["ingest"] \notin Final
      BY <1>1, <2>1, ChainOfTasks DEF Final
    <3> QED BY <1>1, <1>2, <1>8, <2>1, <3>1, ChainOfTasks DEF Chained, Final, TaskStates
  <2>2. CASE t = "transform"
    <3>1. to \notin {"none", "upstream_failed"} => state[d]["ingest"] = "success"
      BY <1>1, <1>8, <2>2, ChainOfTasks DEF Triggered, Chained
    <3>2. to = "upstream_failed" => state[d]["ingest"] \in Final
      BY <1>1, <2>2, ChainOfTasks DEF Final
    <3>3. state[d]["transform"] \notin Final
      BY <1>1, <2>2 DEF Final
    <3> QED BY <1>1, <1>8, <2>2, <3>1, <3>2, <3>3, ChainOfTasks DEF Chained, Final
  <2>3. CASE t = "load"
    <3>1. to \notin {"none", "upstream_failed"} => state[d]["transform"] = "success"
      BY <1>1, <1>8, <2>3, ChainOfTasks DEF Triggered, Chained
    <3>2. to = "upstream_failed" => state[d]["transform"] \in Final
      BY <1>1, <2>3, ChainOfTasks DEF Final
    <3>3. state[d]["load"] \notin Final
      BY <1>1, <2>3 DEF Final
    <3> QED BY <1>1, <1>8, <2>3, <3>1, <3>2, <3>3, ChainOfTasks DEF Chained, Final
  <2> QED BY <2>1, <2>2, <2>3, ChainOfTasks
<1>10. ASSUME NEW e \in Jobs PROVE Chained(state'[e], report'[e])
  BY <1>1, <1>3, <1>9, ChainInvIsChained DEF DagInv
<1>11. \A e \in Jobs : ChainInv(e)' <=> Chained(state'[e], report'[e])
  BY ChainOfTasks DEF ChainInv, Chained
<1> QED BY <1>6, <1>7, <1>10, <1>11 DEF DagInv

(* notify_completion reports final states. *)
LEMMA NotifyKeepsDag ==
    ASSUME DagInv, NEW d \in Jobs, Notify(d)
    PROVE  DagInv'
<1>1. /\ state[d]["notify"] = "none" /\ state[d]["load"] \in Final
      /\ state' = [state EXCEPT ![d]["notify"] = "success"]
      /\ report' = [report EXCEPT ![d] = [t \in Work |-> state[d][t]]]
      /\ tries' = [tries EXCEPT ![d]["notify"] = @ + 1]
  BY ChainOfTasks DEF Notify, Triggered
<1>2. DagTyped /\ "notify" \in Tasks
  BY ChainOfTasks DEF DagInv
<1>3. Chained(state[d], report[d]) /\ TriesInv(d)
  BY ChainInvIsChained DEF DagInv
<1>4. \A t \in Work : state[d][t] \in Final
  BY <1>1, <1>3, ChainOfTasks DEF Chained, Final
<1>5. ASSUME NEW e \in Jobs, NEW u \in Tasks, e # d \/ u # "notify"
      PROVE  state'[e][u] = state[e][u] /\ tries'[e][u] = tries[e][u]
  BY <1>1, <1>2, <1>5 DEF DagTyped
<1>6. /\ state'[d] = [state[d] EXCEPT !["notify"] = "success"]
      /\ tries'[d]["notify"] = 1
      /\ \A e \in Jobs : e # d => state'[e] = state[e] /\ report'[e] = report[e]
  BY <1>1, <1>2, <1>3 DEF DagTyped, TriesInv
<1>7. DagTyped'
  <2>1. state' \in [Jobs -> [Tasks -> TaskStates]]
    BY <1>1, <1>2 DEF DagTyped, TaskStates
  <2>2. tries' \in [Jobs -> [Tasks -> Nat]]
    BY <1>1, <1>2 DEF DagTyped
  <2>3. \A e \in Jobs : \A u \in Tasks : tries'[e][u] <= Retries(u) + 1
    BY <1>2, <1>5, <1>6, ChainOfTasks DEF DagTyped, Retries
  <2>4. report' \in [Jobs -> [Work -> Final \cup {"none"}]]
    BY <1>1, <1>2, <1>4 DEF DagTyped
  <2> QED BY <2>1, <2>2, <2>3, <2>4 DEF DagTyped
<1>8. ASSUME NEW e \in Jobs PROVE TriesInv(e)'
  <2>1. TriesInv(e)
    BY DEF DagInv
  <2>2. ASSUME NEW u \in Tasks
        PROVE  /\ state'[e][u] = "none" => tries'[e][u] = 0
               /\ state'[e][u] = "up_for_retry" => tries'[e][u] <= Retries(u)
    <3>1. CASE e = d /\ u = "notify"
      <4>1. state'[e][u] = "success"
        BY <1>2, <1>6, <3>1 DEF DagTyped
      <4> QED BY <4>1
    <3>2. CASE e # d \/ u # "notify"
      BY <1>5, <2>1, <3>2 DEF TriesInv
    <3> QED BY <3>1, <3>2
  <2> QED BY <2>2 DEF TriesInv
<1>9. ASSUME NEW e \in Jobs PROVE Chained(state'[e], report'[e])
  <2>1. CASE e # d
    BY <1>6, <2>1, ChainInvIsChained DEF DagInv
  <2>2. CASE e = d
    <3>1. \A u \in Work : state'[d][u] = state[d][u]
      BY <1>5, ChainOfTasks
    <3>2. state'[d]["notify"] = "success"
      BY <1>2, <1>6 DEF DagTyped
    <3>3. report'[d] = [u \in Work |-> state'[d][u]]
      BY <1>1, <1>2, <3>1 DEF DagTyped
    <3> QED BY <1>1, <1>3, <2>2, <3>1, <3>2, <3>3, ChainOfTasks DEF Chained
  <2> QED BY <2>1, <2>2
<1>10. \A e \in Jobs : ChainInv(e)' <=> Chained(state'[e], report'[e])
  BY ChainOfTasks DEF ChainInv, Chained
<1> QED BY <1>7, <1>8, <1>9, <1>10 DEF DagInv

(* No step breaks the DAG's part of the invariant. *)
LEMMA StepKeepsDag == DagInv /\ [PipelineNext]_pipeVars => DagInv'
<1> SUFFICES ASSUME DagInv, [PipelineNext]_pipeVars PROVE DagInv'
  OBVIOUS
<1>1. CASE UNCHANGED taskVars
  BY <1>1 DEF taskVars, DagInv, DagTyped, ChainInv, TriesInv
<1>2. ASSUME NEW d \in Jobs, TaskMove(d) PROVE DagInv'
  BY <1>2, WorkMoveKeepsDag, NotifyKeepsDag DEF TaskMove
<1> QED BY <1>1, <1>2, EveryStepMovesOneTask

-----------------------------------------------------------------------------
(* What moves a task into each state that CoverInv and LoadInv speak of.     *)

LoadTyped ==
    /\ feed \in [Jobs -> Feeds \cup {0}]
    /\ found \in [Jobs -> SUBSET PartFiles]
    /\ batch \in [Jobs -> SUBSET PartFiles]
    /\ whose \in [Jobs -> Jobs \cup {"nobody", "several"}]

(* A task operator changes its own task's state and no other one. *)
LEMMA LaunchedOne ==
    ASSUME DagTyped, NEW d \in Jobs, NEW t \in Work,
           Launch(d, t) \/ Succeed(d, t) \/ Fail(d, t) \/ Skip(d, t)
    PROVE  /\ \A e \in Jobs : \A u \in Tasks : e # d \/ u # t => state'[e][u] = state[e][u]
           /\ Launch(d, t) => state'[d][t] = "running"
           /\ Succeed(d, t) => state'[d][t] = "success"
           /\ Fail(d, t) \/ Skip(d, t) => state'[d][t] \notin {"running", "success"}
<1>1. t \in Tasks
  BY DEF Tasks
<1>2. \A e \in Jobs : \A u \in Tasks : e # d \/ u # t => state'[e][u] = state[e][u]
  BY <1>1 DEF Launch, Succeed, Fail, Skip, DagTyped
<1>3. Launch(d, t) => state'[d][t] = "running"
  BY <1>1 DEF Launch, DagTyped
<1>4. Succeed(d, t) => state'[d][t] = "success"
  BY <1>1 DEF Succeed, DagTyped
<1>5. Fail(d, t) \/ Skip(d, t) => state'[d][t] \notin {"running", "success"}
  BY <1>1 DEF Fail, AfterFailure, Skip, DagTyped
<1> QED BY <1>2, <1>3, <1>4, <1>5

(* How a step of the pipeline may change what the states of task t of e say: *)
(* t is launched, returns, or loses a state it had.                          *)
SameOrOut(e, t) == state'[e][t] \in {"running", "success"} => state'[e][t] = state[e][t]

(* Every other task stays in its state, and a failed or skipped one is not   *)
(* running.                                                                  *)
LEMMA OtherTasks ==
    ASSUME DagTyped, NEW d \in Jobs, NEW t \in Work,
           Launch(d, t) \/ Succeed(d, t) \/ Fail(d, t) \/ Skip(d, t)
    PROVE  /\ \A e \in Jobs : \A u \in Tasks : e # d \/ u # t => SameOrOut(e, u)
           /\ Fail(d, t) \/ Skip(d, t) => SameOrOut(d, t)
BY LaunchedOne DEF SameOrOut

(* notify_completion changes no work task. *)
LEMMA NotifyOthers ==
    ASSUME DagTyped, NEW d \in Jobs, Notify(d), NEW e \in Jobs, NEW t \in Work
    PROVE  SameOrOut(e, t)
BY ChainOfTasks DEF Notify, DagTyped, SameOrOut

(* Where no task moves, each stays in its state. *)
LEMMA NoMove == ASSUME UNCHANGED taskVars, NEW e, NEW t PROVE SameOrOut(e, t)
BY DEF taskVars, SameOrOut

(* Each step of the pipeline, by what it does to the tasks.                  *)
LEMMA StepsOfTasks ==
    ASSUME DagTyped, [PipelineNext]_pipeVars, NEW e \in Jobs
    PROVE  /\ SameOrOut(e, "ingest") \/ IngestReturns(e) \/ StartIngest(e)
           /\ SameOrOut(e, "transform") \/ StartTransform(e) \/ TransformReturns(e)
           /\ SameOrOut(e, "load") \/ StartLoad(e) \/ LoadReturns(e)
<1> USE ChainOfTasks
<1>1. CASE UNCHANGED taskVars
  BY <1>1, NoMove
<1>2. ASSUME NEW d \in Jobs, Notify(d)
      PROVE  \A t \in Work : SameOrOut(e, t)
  BY <1>2, NotifyOthers
<1>3. ASSUME NEW d \in Jobs, SkipTask(d)
      PROVE  \A t \in Work : SameOrOut(e, t)
  <2>1. PICK t \in Work : Skip(d, t)
    BY <1>3 DEF SkipTask, Skip
  <2> QED BY <2>1, OtherTasks
<1>4. ASSUME NEW d \in Jobs, StartIngest(d) \/ IngestReturns(d) \/ IngestFails(d)
      PROVE  /\ SameOrOut(e, "ingest") \/ IngestReturns(e) \/ StartIngest(e)
             /\ SameOrOut(e, "transform") /\ SameOrOut(e, "load")
  <2>1. Launch(d, "ingest") \/ Succeed(d, "ingest") \/ Fail(d, "ingest")
    BY <1>4 DEF StartIngest, IngestReturns, IngestFails
  <2>2. IngestFails(d) => Fail(d, "ingest")
    BY DEF IngestFails
  <2> QED BY <1>4, <2>1, <2>2, OtherTasks
<1>5. ASSUME NEW d \in Jobs, StartTransform(d) \/ TransformReturns(d)
      PROVE  /\ SameOrOut(e, "transform") \/ StartTransform(e) \/ TransformReturns(e)
             /\ SameOrOut(e, "ingest") /\ SameOrOut(e, "load")
  <2>1. Launch(d, "transform") \/ Succeed(d, "transform") \/ Fail(d, "transform")
    BY <1>5 DEF StartTransform, TransformReturns
  <2> QED BY <1>5, <2>1, OtherTasks
<1>6. ASSUME NEW d \in Jobs, StartLoad(d) \/ LoadReturns(d) \/ LoadFails(d)
      PROVE  /\ SameOrOut(e, "load") \/ StartLoad(e) \/ LoadReturns(e)
             /\ SameOrOut(e, "ingest") /\ SameOrOut(e, "transform")
  <2>1. Launch(d, "load") \/ Succeed(d, "load") \/ Fail(d, "load")
    BY <1>6 DEF StartLoad, LoadReturns, LoadFails
  <2>2. LoadFails(d) => Fail(d, "load")
    BY DEF LoadFails
  <2> QED BY <1>6, <2>1, <2>2, OtherTasks
<1>7. ASSUME NEW d \in Jobs, Ingest(d) \/ Transforms(d) \/ ReadFile(d) \/ TransformDies(d)
      PROVE  UNCHANGED taskVars
  BY <1>7 DEF Ingest, Transforms, ReadFile, TransformDies, taskVars
<1>8. SourceEdits \/ UNCHANGED pipeVars => UNCHANGED taskVars
  BY DEF SourceEdits, pipeVars, taskVars
<1>9. \A d \in Jobs : NotifyTask(d) => Notify(d)
  BY DEF NotifyTask
<1> QED BY <1>1, <1>2, <1>3, <1>4, <1>5, <1>6, <1>7, <1>8, <1>9 DEF PipelineNext, DagRunStep

-----------------------------------------------------------------------------
(* CoverInv. *)

(* What was landed when a job started is fixed by its start. *)
LEMMA BeforeKept ==
    ASSUME JobPart, feed \in [Jobs -> Feeds \cup {0}], [PipelineNext]_pipeVars, NEW e \in Jobs
    PROVE  StartTransform(e) \/ before'[e] = before[e]
<1>1. ASSUME NEW d \in Jobs, StartTransform(d), d # e PROVE before'[e] = before[e]
  BY <1>1 DEF StartTransform, Start, JobPart, TypeOK
<1>2. ASSUME NEW d \in Jobs, Transforms(d) \/ TransformDies(d) PROVE before' = before
  BY <1>2 DEF Transforms, TransformDies, JobStep, Scan, Clean, Overwrite, CommitPart,
              ListOutput, UploadPart, Crash
<1>3. ASSUME NEW d \in Jobs, Ingest(d) \/ LoadFails(d) \/ IngestFails(d) PROVE before' = before
  BY <1>3 DEF Ingest, Land, LoadFails, IngestFails, jobVars
<1>4. SourceEdits => before' = before
  BY DEF SourceEdits, Edit, jobVars
<1>5. ASSUME NEW d \in Jobs, StartIngest(d) \/ IngestReturns(d) \/ TransformReturns(d)
                \/ StartLoad(d) \/ ReadFile(d) \/ LoadReturns(d) \/ SkipTask(d) \/ NotifyTask(d)
      PROVE  before' = before
  BY <1>5 DEF StartIngest, IngestReturns, TransformReturns, StartLoad, ReadFile,
              LoadReturns, SkipTask, NotifyTask, vars, jobVars
<1>6. UNCHANGED pipeVars => before' = before
  BY DEF pipeVars, vars, jobVars
<1> QED BY <1>1, <1>2, <1>3, <1>4, <1>5, <1>6 DEF PipelineNext, DagRunStep

(* What has been landed stays landed. *)
LEMMA LandedStays ==
    ASSUME Settled, LandedAll
    PROVE  LandedAll'
<1>1. \A r \in RowsOf(files) : r \in RowsOf(files')
  BY DEF RowsOf, Settled
<1> QED BY <1>1 DEF LandedAll, RowsOf

(* No step breaks what ingestion and transform hand on. *)
LEMMA StepKeepsCover ==
    ASSUME JobPart, DagInv, LoadTyped, NEW e \in Jobs, CoverInv(e), [PipelineNext]_pipeVars
    PROVE  CoverInv(e)'
<1>1. Settled
  BY PipelineStepIsJobStep, JobStepSettles DEF LoadTyped
<1>2. /\ SameOrOut(e, "ingest") \/ IngestReturns(e) \/ StartIngest(e)
      /\ SameOrOut(e, "transform") \/ StartTransform(e) \/ TransformReturns(e)
  BY StepsOfTasks DEF DagInv
<1>3. state'[e]["ingest"] = "success" => LandedAll'
  <2>1. StartIngest(e) => state'[e]["ingest"] = "running"
    BY LaunchedOne, ChainOfTasks DEF StartIngest, DagInv
  <2>2. IngestReturns(e) => LandedAll
    BY DEF IngestReturns
  <2> QED BY <1>1, <1>2, <2>1, <2>2, LandedStays DEF CoverInv, SameOrOut
<1>4. CASE StartTransform(e)
  <2>1. state[e]["ingest"] = "success" /\ before'[e] = files /\ files' = files
    BY <1>4, ChainOfTasks DEF StartTransform, Launch, Triggered, Start, JobPart, TypeOK, feedVars
  <2>2. Shows(RowsOf(before'[e]))
    BY <2>1 DEF CoverInv, LandedAll, Shows
  <2>3. state'[e]["transform"] = "running"
    BY <1>4, LaunchedOne, ChainOfTasks DEF StartTransform, DagInv
  <2> QED BY <1>3, <2>2, <2>3 DEF CoverInv, Shows, RowsOf
<1>5. CASE ~StartTransform(e)
  <2>1. before'[e] = before[e]
    BY <1>5, BeforeKept DEF LoadTyped
  <2>2. TransformReturns(e) =>
           /\ state[e]["transform"] = "running"
           /\ state'[e]["transform"] = "success" => pc[e] = "done"
    <3>1. Succeed(e, "transform") \/ Fail(e, "transform") => state[e]["transform"] = "running"
      BY DEF Succeed, Fail
    <3>2. Fail(e, "transform") => state'[e]["transform"] # "success"
      BY LaunchedOne, ChainOfTasks DEF DagInv
    <3> QED BY <3>1, <3>2 DEF TransformReturns
  <2>3. state'[e]["transform"] \in {"running", "success"} => Shows(RowsOf(before[e]))
    BY <1>2, <1>5, <2>2 DEF CoverInv, SameOrOut
  <2>4. state'[e]["transform"] = "success" => pc'[e] = "done"
    BY <1>1, <1>2, <1>5, <2>2 DEF CoverInv, SameOrOut, Settled
  <2> QED BY <1>3, <2>1, <2>3, <2>4 DEF CoverInv, Shows, RowsOf
<1> QED BY <1>4, <1>5

-----------------------------------------------------------------------------
(* What a load does to the table. *)

(* Two dates of gated rows have a difference in hours. *)
LEMMA HoursAreNumbers ==
    ASSUME NEW r, r.created \in Dates, r.closed \in Dates
    PROVE  Store!Hours(r) \in Int
<1>1. Dates \subseteq Int
  BY TransformAssumption DEF Dates, None
<1>2. PICK a \in Int, b \in Int : a = r.created /\ b = r.closed
  BY <1>1
<1>3. Store!Hours(r) = IF b = -1 THEN -1 ELSE b - a
  BY <1>2 DEF Store!Hours, Store!Null
<1> QED BY <1>3

(* The upsert changes a fact's closing date and hours and nothing else. *)
LEMMA RefreshedFact ==
    ASSUME NEW f \in FactType, NEW q, q.closed \in Dates, q.created \in Dates
    PROVE  LET g == Store!Refreshed(f, q)
           IN  /\ g \in FactType
               /\ g.oid = f.oid /\ g.created = f.created /\ g.closed = q.closed
<1>1. PICK k : k = Store!Hours(q)
  OBVIOUS
<1>2. k \in Int
  BY <1>1, HoursAreNumbers
<1>3. PICK g : g = Store!Refreshed(f, q)
  OBVIOUS
<1>4. g = [f EXCEPT !.closed = q.closed, !.hours = k]
  BY <1>1, <1>3 DEF Store!Refreshed
<1>5. g \in FactType /\ g.oid = f.oid /\ g.created = f.created /\ g.closed = q.closed
  BY <1>2, <1>4 DEF FactType
<1> QED BY <1>3, <1>5

(* A loader's row is a row that passed the gate, less its history. *)
LEMMA LoadedRow ==
    ASSUME TypeOK, NEW p, Gated(p)
    PROVE  LET row == AsLoaded(p.row)
           IN  /\ row.oid = p.row.oid /\ row.created = p.row.created /\ row.closed = p.row.closed
               /\ row.created \in Dates /\ row.closed \in Dates
               /\ Store!Fact(row) \in FactType
               /\ Store!Fact(row).oid = row.oid /\ Store!Fact(row).created = row.created
<1>1. p.row \in Rows
  BY DEF Gated, TypeOK
<1>2. /\ AsLoaded(p.row).oid = p.row.oid /\ AsLoaded(p.row).created = p.row.created
      /\ AsLoaded(p.row).closed = p.row.closed /\ AsLoaded(p.row).value = None
  BY DEF AsLoaded
<1>3. p.row.oid \in Objects /\ p.row.created \in Dates /\ p.row.closed \in Dates
  BY <1>1 DEF Rows
<1>4. PICK row : row = AsLoaded(p.row)
  OBVIOUS
<1>5. PICK k : k = Store!Hours(row)
  OBVIOUS
<1>6. k \in Int
  BY <1>2, <1>3, <1>4, <1>5, HoursAreNumbers
<1>7. Store!Fact(row) = [oid |-> row.oid, value |-> row.value, created |-> row.created,
                         closed |-> row.closed, hours |-> k]
  BY <1>5 DEF Store!Fact
<1> QED BY <1>2, <1>3, <1>4, <1>6, <1>7 DEF FactType

(* A load of gated rows leaves facts of gated rows, loses none and brings in *)
(* every row of its batch.                                                   *)
LEMMA LoadChangesFacts ==
    ASSUME TypeOK, NEW d \in Jobs, LoadReturns(d),
           \A p \in batch[d] : p \in PartFiles /\ Gated(p),
           \A f \in facts : FactInv(f)
    PROVE  /\ \A f \in facts' : FactInv(f)
           /\ \A f \in facts : \E g \in facts' : g.oid = f.oid
           /\ \A p \in batch[d] : \E g \in facts' : g.oid = p.row.oid
<1> DEFINE loaded == {AsLoaded(p.row) : p \in batch[d]}
<1>1. PICK first \in Store!Picks(loaded), final \in Store!Picks(loaded) :
         facts' = Store!Merge(loaded, first, final)
  BY DEF LoadReturns, Store!Load
<1> DEFINE oids    == {r.oid : r \in loaded}
           present == {f.oid : f \in facts}
<1>2. /\ DOMAIN first = oids /\ DOMAIN final = oids
      /\ \A o \in oids : /\ first[o] \in loaded /\ first[o].oid = o
                         /\ final[o] \in loaded /\ final[o].oid = o
  BY <1>1 DEF Store!Picks
<1>3. facts' = {IF f.oid \in oids THEN Store!Refreshed(f, final[f.oid]) ELSE f : f \in facts}
                 \cup {Store!Refreshed(Store!Fact(first[o]), final[o]) : o \in oids \ present}
  BY <1>1, <1>2 DEF Store!Merge
<1>4. ASSUME NEW r \in loaded
      PROVE  \E p \in batch[d] :
                /\ p \in PartFiles /\ Gated(p) /\ r = AsLoaded(p.row)
                /\ r.oid = p.row.oid /\ r.created = p.row.created /\ r.closed = p.row.closed
                /\ r.created \in Dates /\ r.closed \in Dates
                /\ Store!Fact(r) \in FactType
                /\ Store!Fact(r).oid = r.oid /\ Store!Fact(r).created = r.created
  <2>1. PICK p \in batch[d] : r = AsLoaded(p.row)
    OBVIOUS
  <2> QED BY <2>1, LoadedRow
<1>5. \A p \in batch[d] : p.row.oid \in oids
  <2>1. ASSUME NEW p \in batch[d] PROVE p.row.oid \in oids
    <3>1. AsLoaded(p.row) \in loaded /\ AsLoaded(p.row).oid = p.row.oid
      BY DEF AsLoaded
    <3> QED BY <3>1
  <2> QED BY <2>1
<1> HIDE DEF loaded, oids
<1>6. ASSUME NEW f, FactInv(f), NEW o \in oids, f.oid = o
      PROVE  FactInv(Store!Refreshed(f, final[o])) /\ Store!Refreshed(f, final[o]).oid = o
  <2>1. final[o] \in loaded /\ final[o].oid = o
    BY <1>2
  <2>2. PICK p \in batch[d] :
           /\ p \in PartFiles /\ Gated(p)
           /\ p.row.oid = o /\ final[o].closed = p.row.closed
           /\ final[o].created \in Dates /\ final[o].closed \in Dates
    BY <1>4, <2>1
  <2>3. PICK g : g = Store!Refreshed(f, final[o])
    OBVIOUS
  <2>4. g \in FactType /\ g.oid = o /\ g.created = f.created /\ g.closed = p.row.closed
    BY <1>6, <2>2, <2>3, RefreshedFact DEF FactInv
  <2>5. FactInv(g)
    BY <1>6, <2>2, <2>4 DEF FactInv
  <2> QED BY <2>3, <2>4, <2>5
<1>7. ASSUME NEW o \in oids
      PROVE  /\ FactInv(Store!Refreshed(Store!Fact(first[o]), final[o]))
             /\ Store!Refreshed(Store!Fact(first[o]), final[o]).oid = o
  <2>1. first[o] \in loaded /\ first[o].oid = o /\ final[o] \in loaded /\ final[o].oid = o
    BY <1>2
  <2>2. PICK p \in batch[d] :
           /\ p \in PartFiles /\ Gated(p)
           /\ p.row.oid = o /\ first[o].created = p.row.created
           /\ Store!Fact(first[o]) \in FactType
           /\ Store!Fact(first[o]).oid = o /\ Store!Fact(first[o]).created = p.row.created
    BY <1>4, <2>1
  <2>3. PICK q \in batch[d] :
           /\ q \in PartFiles /\ Gated(q)
           /\ q.row.oid = o /\ final[o].closed = q.row.closed
           /\ final[o].created \in Dates /\ final[o].closed \in Dates
    BY <1>4, <2>1
  <2>4. PICK f : f = Store!Fact(first[o])
    OBVIOUS
  <2>5. PICK g : g = Store!Refreshed(f, final[o])
    OBVIOUS
  <2>6. g \in FactType /\ g.oid = o /\ g.created = p.row.created /\ g.closed = q.row.closed
    BY <2>2, <2>3, <2>4, <2>5, RefreshedFact
  <2>7. FactInv(g)
    BY <2>2, <2>3, <2>6 DEF FactInv
  <2> QED BY <2>4, <2>5, <2>6, <2>7
<1>8. \A f \in facts' : FactInv(f)
  <2>1. ASSUME NEW f \in facts
        PROVE  FactInv(IF f.oid \in oids THEN Store!Refreshed(f, final[f.oid]) ELSE f)
    BY <1>6
  <2> QED BY <1>3, <1>7, <2>1
<1>9. ASSUME NEW f \in facts PROVE \E g \in facts' : g.oid = f.oid
  <2>1. CASE f.oid \in oids
    BY <1>3, <1>6, <2>1
  <2>2. CASE f.oid \notin oids
    BY <1>3, <2>2
  <2> QED BY <2>1, <2>2
<1>10. ASSUME NEW o \in oids PROVE \E g \in facts' : g.oid = o
  <2>1. CASE o \in present
    BY <1>9, <2>1
  <2>2. CASE o \notin present
    BY <1>3, <1>7, <2>2
  <2> QED BY <2>1, <2>2
<1> QED BY <1>5, <1>8, <1>9, <1>10

-----------------------------------------------------------------------------
(* LoadInv and FactInv. *)

(* What a loader found and read changes when it starts or reads, the facts   *)
(* when a load ends well.                                                    *)
LEMMA LoadVarsKept ==
    ASSUME LoadTyped, [PipelineNext]_pipeVars
    PROVE  /\ \A e \in Jobs :
                 \/ StartLoad(e) \/ ReadFile(e)
                 \/ found'[e] = found[e] /\ batch'[e] = batch[e] /\ whose'[e] = whose[e]
           /\ (\E d \in Jobs : LoadReturns(d)) \/ facts' = facts
<1>1. ASSUME NEW e \in Jobs, NEW d \in Jobs, StartLoad(d) \/ ReadFile(d), d # e
      PROVE  found'[e] = found[e] /\ batch'[e] = batch[e] /\ whose'[e] = whose[e]
  BY <1>1 DEF StartLoad, ReadFile, LoadTyped
<1>2. \A d \in Jobs : StartLoad(d) \/ ReadFile(d) => facts' = facts
  BY DEF StartLoad, ReadFile
<1>3. \A d \in Jobs : LoadReturns(d) => UNCHANGED <<found, batch, whose>>
  BY DEF LoadReturns
<1>4. ASSUME NEW d \in Jobs, StartIngest(d) \/ Ingest(d) \/ IngestReturns(d)
                \/ IngestFails(d) \/ StartTransform(d) \/ Transforms(d) \/ TransformDies(d)
                \/ TransformReturns(d) \/ LoadFails(d) \/ SkipTask(d) \/ NotifyTask(d)
      PROVE  UNCHANGED <<found, batch, facts, whose>>
  BY <1>4 DEF StartIngest, Ingest, IngestReturns, IngestFails, StartTransform, Transforms,
              TransformDies, TransformReturns, LoadFails, SkipTask, NotifyTask, loadVars
<1>5. SourceEdits \/ UNCHANGED pipeVars => UNCHANGED <<found, batch, facts, whose>>
  BY DEF SourceEdits, pipeVars, loadVars
<1> QED BY <1>1, <1>2, <1>3, <1>4, <1>5 DEF PipelineNext, DagRunStep

(* A loader runs after its own transform ended well. *)
LEMMA LoadAfterTransform ==
    ASSUME DagInv, NEW d \in Jobs, CoverInv(d), state[d]["load"] \in {"running", "success"}
    PROVE  state[d]["transform"] = "success" /\ pc[d] = "done" /\ Shows(RowsOf(before[d]))
BY ChainInvIsChained DEF DagInv, Chained, CoverInv

(* A batch that is a job's own shows every request of the source.            *)
LEMMA OwnBatchCovers ==
    ASSUME JobPart, NEW d \in Jobs, pc[d] = "done", Shows(RowsOf(before[d])),
           NEW parts, parts = PartsOf(d, clean[d])
    PROVE  \A o \in Objects : \E p \in parts : p.row.oid = o
<1>1. before[d] \subseteq input[d] /\ CleanOf(clean[d], RowsOf(input[d]))
  BY DEF JobPart, JobInv, ScanInv, CleanInv
<1>2. SUFFICES ASSUME NEW o \in Objects PROVE \E p \in parts : p.row.oid = o
  OBVIOUS
<1>3. PICK r \in RowsOf(input[d]) : r.oid = o
  BY <1>1 DEF Shows, RowsOf
<1>4. PICK q \in clean[d] : q.oid = o
  BY <1>1, <1>3 DEF CleanOf
<1>5. [job |-> d, row |-> q] \in parts
  BY <1>4 DEF PartsOf
<1> QED BY <1>4, <1>5

PipelineInv ==
    /\ JobPart
    /\ DagInv
    /\ LoadTyped
    /\ \A d \in Jobs : CoverInv(d) /\ LoadInv(d)
    /\ \A f \in facts : FactInv(f)

(* No step makes a fact of an ungated row or loses one. *)
LEMMA StepKeepsFactInv ==
    ASSUME PipelineInv, [PipelineNext]_pipeVars
    PROVE  /\ \A f \in facts' : FactInv(f)'
           /\ Shows(facts) => Shows(facts')
<1>1. Settled
  BY PipelineStepIsJobStep, JobStepSettles DEF LoadTyped, PipelineInv
<1>2. \A f : FactInv(f) => FactInv(f)'
  BY <1>1 DEF FactInv, Settled
<1>3. CASE facts' = facts
  BY <1>2, <1>3 DEF PipelineInv
<1>4. ASSUME NEW d \in Jobs, LoadReturns(d)
      PROVE  /\ \A f \in facts' : FactInv(f)
             /\ Shows(facts) => Shows(facts')
  <2>1. \A p \in batch[d] : p \in PartFiles /\ Gated(p)
    BY DEF PipelineInv, LoadInv, LoadTyped
  <2> QED BY <1>4, <2>1, LoadChangesFacts DEF PipelineInv, JobPart, Shows
<1> QED BY <1>2, <1>3, <1>4, LoadVarsKept DEF PipelineInv

(* No step breaks what a loader holds and has loaded. *)
LEMMA StepKeepsLoad ==
    ASSUME PipelineInv, [PipelineNext]_pipeVars, NEW e \in Jobs
    PROVE  LoadInv(e)'
<1>1. Settled /\ DagTyped /\ LoadInv(e) /\ CoverInv(e)
  BY PipelineStepIsJobStep, JobStepSettles DEF LoadTyped, PipelineInv, DagInv
<1>2. CASE StartLoad(e)
  <2>1. /\ found'[e] = local /\ batch'[e] = {} /\ whose'[e] = last
        /\ UNCHANGED vars
    BY <1>2 DEF StartLoad, PipelineInv, LoadTyped
  <2>2. state'[e]["load"] = "running"
    BY <1>1, <1>2, LaunchedOne, ChainOfTasks DEF StartLoad
  <2>3. state[e]["transform"] = "success"
    BY <1>2, ChainOfTasks DEF StartLoad, Launch, Triggered
  <2>4. pc[e] = "done"
    BY <1>1, <2>3 DEF CoverInv
  <2>5. last = e => local = PartsOf(e, clean[e])
    BY <2>4 DEF PipelineInv, JobPart, JobInv, WriteInv
  <2>6. \A p \in local : Gated(p)
    BY DEF PipelineInv, JobPart, GateInv, Written
  <2>7. clean' = clean /\ \A p : Gated(p) => Gated(p)'
    BY <1>1, <2>1 DEF Settled, vars, jobVars
  <2> QED BY <2>1, <2>2, <2>5, <2>6, <2>7 DEF LoadInv, PartsOf
<1>3. CASE ReadFile(e)
  <2>1. PICK p \in found[e] : /\ found' = [found EXCEPT ![e] = @ \ {p}]
                              /\ batch' = [batch EXCEPT ![e] = @ \cup {p}]
    BY <1>3 DEF ReadFile
  <2>2. found'[e] \cup batch'[e] = found[e] \cup batch[e]
    BY <2>1 DEF PipelineInv, LoadTyped
  <2>3. state[e]["load"] = "running" /\ state' = state /\ whose' = whose /\ UNCHANGED vars
    BY <1>3 DEF ReadFile, taskVars
  <2>4. clean' = clean /\ \A x : Gated(x) => Gated(x)'
    BY <1>1, <2>3 DEF Settled, vars, jobVars
  <2> QED BY <1>1, <2>2, <2>3, <2>4 DEF LoadInv, PartsOf
<1>4. CASE LoadReturns(e)
  <2>1. /\ found[e] = {} /\ UNCHANGED <<found, batch, whose>> /\ UNCHANGED vars
        /\ state[e]["load"] = "running"
    BY <1>4 DEF LoadReturns, Succeed
  <2>2. state'[e]["load"] = "success"
    BY <1>1, <1>4, LaunchedOne, ChainOfTasks DEF LoadReturns
  <2>3. clean' = clean /\ \A x : Gated(x) => Gated(x)'
    BY <1>1, <2>1 DEF Settled, vars, jobVars
  <2>4. ASSUME whose[e] = e PROVE Shows(facts')
    <3>1. batch[e] = PartsOf(e, clean[e])
      BY <1>1, <2>1, <2>4 DEF LoadInv
    <3>2. pc[e] = "done" /\ Shows(RowsOf(before[e]))
      BY <1>1, <2>1, LoadAfterTransform DEF PipelineInv
    <3>3. \A o \in Objects : \E p \in batch[e] : p.row.oid = o
      BY <3>1, <3>2, OwnBatchCovers DEF PipelineInv
    <3>4. \A p \in batch[e] : p \in PartFiles /\ Gated(p)
      BY <1>1 DEF PipelineInv, LoadInv, LoadTyped
    <3>5. \A p \in batch[e] : \E g \in facts' : g.oid = p.row.oid
      BY <1>4, <3>4, LoadChangesFacts DEF PipelineInv, JobPart
    <3> QED BY <3>3, <3>5 DEF Shows
  <2>5. \A p \in found'[e] \cup batch'[e] : Gated(p)'
    BY <1>1, <2>1, <2>3 DEF LoadInv
  <2>6. found'[e] \cup batch'[e] = found[e] \cup batch[e]
    BY <2>1
  <2>7. whose'[e] = e => found'[e] \cup batch'[e] = PartsOf(e, clean'[e])
    BY <1>1, <2>1, <2>3, <2>6 DEF LoadInv
  <2> QED BY <2>1, <2>2, <2>4, <2>5, <2>7 DEF LoadInv, Shows, PartsOf
<1>5. CASE ~StartLoad(e) /\ ~ReadFile(e) /\ ~LoadReturns(e)
  <2>1. found'[e] = found[e] /\ batch'[e] = batch[e] /\ whose'[e] = whose[e]
    BY <1>5, LoadVarsKept DEF PipelineInv
  <2>2. SameOrOut(e, "load")
    BY <1>1, <1>5, StepsOfTasks
  <2>3. Shows(facts) => Shows(facts')
    BY StepKeepsFactInv
  <2>4. state[e]["load"] \in {"running", "success"} => clean'[e] = clean[e]
    BY <1>1, LoadAfterTransform DEF PipelineInv, Settled
  <2>5. \A p \in found'[e] \cup batch'[e] : Gated(p)'
    BY <1>1, <2>1 DEF LoadInv, Settled
  <2>6. state'[e]["load"] \in {"running", "success"} => state'[e]["load"] = state[e]["load"]
    BY <2>2 DEF SameOrOut
  <2>7. state'[e]["load"] \in {"running", "success"} /\ whose'[e] = e
            => found'[e] \cup batch'[e] = PartsOf(e, clean'[e])
    BY <1>1, <2>1, <2>4, <2>6 DEF LoadInv
  <2>8. state'[e]["load"] = "success" /\ whose'[e] = e => Shows(facts')
    BY <1>1, <2>1, <2>3, <2>6 DEF LoadInv
  <2>9. state'[e]["load"] = "success" => found'[e] = {}
    BY <1>1, <2>1, <2>6 DEF LoadInv
  <2> QED BY <2>5, <2>7, <2>8, <2>9 DEF LoadInv, Shows, PartsOf
<1> QED BY <1>2, <1>3, <1>4, <1>5

(* No step breaks the types of the loaders' variables. *)
LEMMA StepKeepsLoadTyped ==
    ASSUME PipelineInv, [PipelineNext]_pipeVars
    PROVE  LoadTyped'
<1>1. ASSUME NEW d \in Jobs, StartIngest(d) PROVE feed' \in [Jobs -> Feeds \cup {0}]
  <2>1. PICK f \in Feeds \cup {0} : feed' = [feed EXCEPT ![d] = f]
    BY <1>1 DEF StartIngest, FreeFeeds
  <2> QED BY <2>1 DEF PipelineInv, LoadTyped
<1>2. ASSUME NEW d \in Jobs,
             Ingest(d) \/ IngestReturns(d)
                \/ IngestFails(d) \/ StartTransform(d) \/ Transforms(d) \/ TransformDies(d)
                \/ TransformReturns(d) \/ StartLoad(d) \/ ReadFile(d) \/ LoadReturns(d)
                \/ LoadFails(d) \/ SkipTask(d) \/ NotifyTask(d)
      PROVE  feed' = feed
  BY <1>2 DEF Ingest, IngestReturns, IngestFails, StartTransform, Transforms,
              TransformDies, TransformReturns, StartLoad, ReadFile, LoadReturns, LoadFails,
              SkipTask, NotifyTask
<1>3. SourceEdits \/ UNCHANGED pipeVars => feed' = feed
  BY DEF SourceEdits, pipeVars
<1>4. feed' \in [Jobs -> Feeds \cup {0}]
  BY <1>1, <1>2, <1>3 DEF PipelineNext, DagRunStep, PipelineInv, LoadTyped
<1>5. ASSUME NEW d \in Jobs, StartLoad(d) \/ ReadFile(d)
      PROVE  /\ found' \in [Jobs -> SUBSET PartFiles]
             /\ batch' \in [Jobs -> SUBSET PartFiles]
             /\ whose' \in [Jobs -> Jobs \cup {"nobody", "several"}]
  <2>1. CASE StartLoad(d)
    BY <2>1 DEF StartLoad, PipelineInv, LoadTyped, JobPart, TypeOK
  <2>2. CASE ReadFile(d)
    BY <2>2 DEF ReadFile, PipelineInv, LoadTyped
  <2> QED BY <1>5, <2>1, <2>2
<1>6. ASSUME NEW d \in Jobs, StartIngest(d) \/ Ingest(d) \/ IngestReturns(d)
                \/ IngestFails(d) \/ StartTransform(d) \/ Transforms(d) \/ TransformDies(d)
                \/ TransformReturns(d) \/ LoadReturns(d) \/ LoadFails(d) \/ SkipTask(d)
                \/ NotifyTask(d)
      PROVE  UNCHANGED <<found, batch, whose>>
  BY <1>6 DEF StartIngest, Ingest, IngestReturns, IngestFails, StartTransform, Transforms,
              TransformDies, TransformReturns, LoadReturns, LoadFails, SkipTask, NotifyTask,
              loadVars
<1>7. SourceEdits \/ UNCHANGED pipeVars => UNCHANGED <<found, batch, whose>>
  BY DEF SourceEdits, pipeVars, loadVars
<1>8. /\ found' \in [Jobs -> SUBSET PartFiles]
      /\ batch' \in [Jobs -> SUBSET PartFiles]
      /\ whose' \in [Jobs -> Jobs \cup {"nobody", "several"}]
  BY <1>5, <1>6, <1>7 DEF PipelineNext, DagRunStep, PipelineInv, LoadTyped
<1> QED BY <1>4, <1>8 DEF LoadTyped

(* PipelineInv holds before the first DAG run. *)
LEMMA InitPipeline == PipelineInit => PipelineInv
<1> SUFFICES ASSUME PipelineInit PROVE PipelineInv
  OBVIOUS
<1>1. JobPart
  BY InitJobInv, InitGate DEF PipelineInit, JobPart
<1>2. DagInv
  <2>1. DagTyped
    BY ChainOfTasks DEF PipelineInit, DagInit, DagTyped, TaskStates
  <2>2. \A d \in Jobs : ChainInv(d) /\ TriesInv(d)
    BY ChainOfTasks, ChainInvIsChained DEF PipelineInit, DagInit, Chained, TriesInv
  <2> QED BY <2>1, <2>2 DEF DagInv
<1>3. LoadTyped
  BY DEF PipelineInit, LoadTyped
<1>4. \A d \in Jobs : CoverInv(d) /\ LoadInv(d)
  BY ChainOfTasks DEF PipelineInit, DagInit, CoverInv, LoadInv
<1> QED BY <1>1, <1>2, <1>3, <1>4 DEF PipelineInit, PipelineInv

(* PipelineInv, of which PipeInv is the part that is not TransformProofs',   *)
(* holds in every state, whatever runs beside whatever and whatever fails.   *)
THEOREM PipelineInvariant == PipelineSpec => []PipelineInv
<1>1. PipelineInv /\ [PipelineNext]_pipeVars => PipelineInv'
  <2> SUFFICES ASSUME PipelineInv, [PipelineNext]_pipeVars PROVE PipelineInv'
    OBVIOUS
  <2>1. JobPart'
    BY PipelineStepIsJobStep, TransformPart DEF PipelineInv, LoadTyped
  <2>2. DagInv'
    BY StepKeepsDag DEF PipelineInv
  <2>3. LoadTyped' /\ \A f \in facts' : FactInv(f)'
    BY StepKeepsLoadTyped, StepKeepsFactInv
  <2>4. \A d \in Jobs : CoverInv(d)' /\ LoadInv(d)'
    BY StepKeepsCover, StepKeepsLoad DEF PipelineInv
  <2> QED BY <2>1, <2>2, <2>3, <2>4 DEF PipelineInv
<1> QED BY <1>1, InitPipeline, PTL DEF PipelineSpec

-----------------------------------------------------------------------------
(* The properties. *)

(* Every variable of the pipeline has its type, and no task is tried more    *)
(* often than its retries allow.                                             *)
THEOREM PipelineTypeCorrect == PipelineSpec => []PipelineTypeOK
<1>1. PipelineInv => PipelineTypeOK
  BY DEF PipelineInv, JobPart, DagInv, DagTyped, LoadTyped, PipelineTypeOK
<1> QED BY <1>1, PipelineInvariant, PTL

(* The invariant the runs check is part of the one that is proved. *)
THEOREM PipeInvHolds == PipelineSpec => []PipeInv
<1>1. PipelineInv => PipeInv
  BY DEF PipelineInv, DagInv, PipeInv
<1> QED BY <1>1, PipelineInvariant, PTL

(* A DAG run whose load ended well, from the directory as its own transform  *)
(* left it, has in the warehouse every request its ingestion counted.        *)
THEOREM GreenLoadCoversHolds == PipelineSpec => []GreenLoadCovers
<1>1. PipelineInv => GreenLoadCovers
  BY DEF PipelineInv, LoadInv, GreenLoadCovers, Shows
<1> QED BY <1>1, PipelineInvariant, PTL

(* What notify_completion printed is how the DAG run ended.                  *)
THEOREM ReportIsFinalHolds == PipelineSpec => []ReportIsFinal
<1>1. ASSUME PipelineInv PROVE ReportIsFinal
  <2> SUFFICES ASSUME NEW d \in Jobs, state[d]["notify"] = "success", NEW t \in Work
               PROVE  report[d][t] \in Final /\ report[d][t] = state[d][t]
    BY DEF ReportIsFinal
  <2>1. Chained(state[d], report[d])
    BY <1>1, ChainInvIsChained DEF PipelineInv, DagInv
  <2>2. report[d][t] = state[d][t]
    BY <2>1 DEF Chained
  <2>3. state[d][t] \in Final
    BY <2>1, ChainOfTasks DEF Chained, Final
  <2> QED BY <2>2, <2>3
<1> QED BY <1>1, PipelineInvariant, PTL

(* What a fact says it took from rows that passed the gate.                  *)
THEOREM OnlyGatedRowsLoadedHolds == PipelineSpec => []OnlyGatedRowsLoaded
<1>1. ASSUME PipelineInv PROVE OnlyGatedRowsLoaded
  <2> DEFINE Passed(o) == {r \in UNION {clean[j] : j \in Jobs} : r.oid = o}
  <2>1. \A p : Gated(p) => WellFormed(p.row) /\ p.row \in Passed(p.row.oid)
    BY <1>1 DEF PipelineInv, JobPart, GateInv, Gated
  <2>2. ASSUME NEW f \in facts
        PROVE  /\ \E r \in Passed(f.oid) : WellFormed(r) /\ f.created = r.created
               /\ \E r \in Passed(f.oid) : WellFormed(r) /\ f.closed = r.closed
    <3>1. PICK p : Gated(p) /\ p.row.oid = f.oid /\ p.row.created = f.created
      BY <1>1 DEF PipelineInv, FactInv
    <3>2. PICK q : Gated(q) /\ q.row.oid = f.oid /\ q.row.closed = f.closed
      BY <1>1 DEF PipelineInv, FactInv
    <3> HIDE DEF Passed
    <3> QED BY <2>1, <3>1, <3>2
  <2> QED BY <2>2 DEF OnlyGatedRowsLoaded
<1> QED BY <1>1, PipelineInvariant, PTL

(* A job of the pipeline that ended well, and whose output is still there,   *)
(* has published all it computed.                                            *)
THEOREM PipelinePublishes == PipelineSpec => []DoneMeansPublished
<1>1. PipelineInv => DoneMeansPublished
  BY DEF PipelineInv, JobPart, JobInv, WriteInv, DoneMeansPublished
<1> QED BY <1>1, PipelineInvariant, PTL

(* Whatever the DAG runs overlap: no row the gate refuses is in the parquet  *)
(* directory or the processed zone.                                          *)
THEOREM PipelineGateHolds == PipelineSpec => []GateHolds
<1>1. PipelineInv => GateHolds
  BY DEF PipelineInv, JobPart, GateInv, GateHolds, Gated
<1> QED BY <1>1, PipelineInvariant, PTL

(* Whatever the DAG runs overlap: a job's output, while it is that job's     *)
(* alone, covers all that was landed before its transform task started.      *)
THEOREM PipelineOutputComplete == PipelineSpec => []OutputComplete
<1>1. PipelineInv => OutputComplete
  BY OutputOfJob DEF PipelineInv, JobPart
<1> QED BY <1>1, PipelineInvariant, PTL

(* A DAG run whose gate refuses the batch leaves the last good output for    *)
(* the loaders of the others.                                                *)
THEOREM PipelineKeepsLastGood == PipelineSpec => LastGoodOutputKept
<1>1. PipelineInit => OutputInv
  BY InitOutput DEF PipelineInit
<1>2. ASSUME PipelineInv, [PipelineNext]_pipeVars
      PROVE  [Next]_vars \/ JustCrash
  BY <1>2, PipelineStepIsJobStep DEF PipelineInv, LoadTyped
<1>3. OutputInv /\ JustCrash => OutputInv'
  BY DEF OutputInv, JustCrash, feedVars, jobVars, outputVars
<1>4. PipelineInv /\ OutputInv /\ [PipelineNext]_pipeVars => OutputInv'
  BY <1>2, <1>3, NextOutput
<1>5. PipelineInv /\ OutputInv /\ [PipelineNext]_pipeVars =>
        [~(local \subseteq local') =>
           \E j \in Jobs : pc[j] = "overwrite" /\ clean[j] # {} /\ Gate(clean[j])]_vars
  BY <1>2, OnlyGoodBatchReplaces DEF JustCrash, outputVars
<1> QED
  BY <1>1, <1>4, <1>5, PipelineInvariant, PTL DEF PipelineSpec, LastGoodOutputKept
=============================================================================
