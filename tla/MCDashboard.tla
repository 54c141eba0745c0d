---------------------------- MODULE MCDashboard ----------------------------
(***************************************************************************)
(* Dashboard on small instances: the cases a page tells apart.              *)
(***************************************************************************)
EXTENDS Dashboard, TLC

Citizen      == [agency |-> 1, internal |-> FALSE, located |-> TRUE]
Anonymous    == [agency |-> Null, internal |-> FALSE, located |-> TRUE]
Notification == [agency |-> 1, internal |-> TRUE, located |-> FALSE]

RowOf(o, v, c) == [oid |-> o, value |-> v, created |-> 0, closed |-> c]

(* A request is open, closed on the call, and open again; an anonymous one   *)
(* and a notification come in with the second batch.                         *)
Requests ==
    {{RowOf(1, Citizen, Null)},
     {RowOf(1, Citizen, 0), RowOf(2, Anonymous, 1), RowOf(3, Notification, 1)}}

Symmetry == Permutations(Sessions)
=============================================================================
