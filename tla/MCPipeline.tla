----------------------------- MODULE MCPipeline -----------------------------
(***************************************************************************)
(* Pipeline on small instances.                                              *)
(***************************************************************************)
EXTENDS Pipeline, TLC

DagRunSymmetry == Permutations(Jobs)

Symmetry == Permutations(Objects) \cup DagRunSymmetry
=============================================================================
