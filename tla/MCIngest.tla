------------------------------ MODULE MCIngest ------------------------------
(***************************************************************************)
(* Ingest on small instances.  The .cfg files choose the runs, the modes,   *)
(* the promise of the feed and the faults.                                  *)
(***************************************************************************)
EXTENDS Ingest, TLC

(* The command lines: the DAG's, --full, --dry-run. *)
Incremental == [full |-> FALSE, dry |-> FALSE]
FullRefresh == [full |-> TRUE,  dry |-> FALSE]
DryRun      == [full |-> FALSE, dry |-> TRUE]

OnlyIncremental == {Incremental}
OnlyFull        == {FullRefresh}
AllModes        == {Incremental, FullRefresh, DryRun}
WritingModes    == {Incremental, FullRefresh}

(* The runs are interchangeable until they start; safety runs use this. *)
RunSymmetry == Permutations(Runs)
=============================================================================
