-------------------------------- MODULE Dag --------------------------------
(***************************************************************************)
(* The Airflow DAG of dags/denver311_pipeline.py: its four tasks, their     *)
(* retries and trigger rules.  The scheduler is external; what a task does  *)
(* is left to the module that composes this one with it.                    *)
(*                                                                          *)
(* A name with an underscore is a mutant of the operator that follows it.   *)
(***************************************************************************)
EXTENDS Integers

CONSTANTS DagRuns

VARIABLES
    state,     \* per DAG run: the state of each task instance
    tries,     \* per DAG run: attempts each task has had
    report     \* per DAG run: the states notify_completion printed

Work  == {"ingest", "transform", "load"}
Tasks == Work \cup {"notify"}

TaskStates == {"none", "running", "up_for_retry", "success", "failed", "upstream_failed"}
Final      == {"success", "failed", "upstream_failed"}

(* ingest >> transform >> load_warehouse >> notify_completion() *)
Upstream(t) == CASE t = "ingest"    -> {}
                 [] t = "transform" -> {"ingest"}
                 [] t = "load"      -> {"transform"}
                 [] t = "notify"    -> {"load"}

Leaves == {t \in Tasks : \A u \in Tasks : t \notin Upstream(u)}

Retries(t) == CASE t = "ingest"    -> 3
                [] t = "transform" -> 0
                [] t = "load"      -> 2
                [] t = "notify"    -> 1      \* default_args

-----------------------------------------------------------------------------
(* trigger_rule: all_success, but all_done for notify_completion.            *)
Triggered_AnyDone(d, t) ==
    IF t = "notify" THEN \E u \in Work : state[d][u] \in Final
    ELSE \A u \in Upstream(t) : state[d][u] = "success"

Triggered(d, t) ==
    IF t = "notify" THEN \A u \in Upstream(t) : state[d][u] \in Final
    ELSE \A u \in Upstream(t) : state[d][u] = "success"

Launch(d, t) ==
    /\ state[d][t] \in {"none", "up_for_retry"}
    /\ Triggered(d, t)
    /\ state' = [state EXCEPT ![d][t] = "running"]
    /\ tries' = [tries EXCEPT ![d][t] = @ + 1]
    /\ UNCHANGED report

(* The command returns 0 ... *)
Succeed(d, t) ==
    /\ state[d][t] = "running"
    /\ state' = [state EXCEPT ![d][t] = "success"]
    /\ UNCHANGED <<tries, report>>

(* ... or does not: it is tried again as long as it has retries left.        *)
AfterFailure_Forever(d, t) == "up_for_retry"

AfterFailure(d, t) == IF tries[d][t] <= Retries(t) THEN "up_for_retry" ELSE "failed"

Fail(d, t) ==
    /\ state[d][t] = "running"
    /\ state' = [state EXCEPT ![d][t] = AfterFailure(d, t)]
    /\ UNCHANGED <<tries, report>>

(* A task with trigger rule all_success behind one that did not succeed.     *)
Skip(d, t) ==
    /\ t # "notify"
    /\ state[d][t] = "none"
    /\ \E u \in Upstream(t) : state[d][u] \in {"failed", "upstream_failed"}
    /\ state' = [state EXCEPT ![d][t] = "upstream_failed"]
    /\ UNCHANGED <<tries, report>>

(* notify_completion prints the states its DAG run's tasks have now, which   *)
(* is all it does.                                                           *)
Notify(d) ==
    /\ state[d]["notify"] = "none"
    /\ Triggered(d, "notify")
    /\ state' = [state EXCEPT ![d]["notify"] = "success"]
    /\ report' = [report EXCEPT ![d] = [t \in Work |-> state[d][t]]]
    /\ tries' = [tries EXCEPT ![d]["notify"] = @ + 1]

-----------------------------------------------------------------------------
DagInit ==
    /\ state = [d \in DagRuns |-> [t \in Tasks |-> "none"]]
    /\ tries = [d \in DagRuns |-> [t \in Tasks |-> 0]]
    /\ report = [d \in DagRuns |-> [t \in Work |-> "none"]]

Started(d) == state[d]["ingest"] # "none"

Ended(d) == \A t \in Leaves : state[d][t] \in Final

(* The colour of the DAG run: Airflow looks at the leaf tasks.               *)
Green(d) == \A t \in Leaves : state[d][t] = "success"
=============================================================================
