---------------------------- MODULE MCTransform ----------------------------
(***************************************************************************)
(* Transform on small instances; the .cfg files choose the source, the       *)
(* overlap and the faults.                                                   *)
(***************************************************************************)
EXTENDS Transform, TLC

(* The rows of one request, and one that comes without its OBJECTID. *)
WithKeyless == {1, None}

JobSymmetry == Permutations(Jobs)
=============================================================================
