------------------------------ MODULE Delivery ------------------------------
(***************************************************************************)
(* What extraction promises the rest of the pipeline, without runs, pages,  *)
(* counts or a bucket: rows get delivered in any order and any number of    *)
(* times, and the mark only ever moves to a place that leaves nothing       *)
(* undelivered behind it.  The abstraction of Ingest (AD-004, AD-005).      *)
(***************************************************************************)
EXTENDS FeatureLayer

CONSTANT InitialMark

VARIABLES
    landed,   \* rows delivered at least once
    mark,     \* where the next extraction starts
    base      \* where the coverage the mark stands for began

deliveryVars == <<landed, mark, base>>

-----------------------------------------------------------------------------
(* Rows above b that an extraction from w would miss for good. *)
LeftBehind(b, w) ==
    {o \in Selected(b) : o \notin landed /\ ~Matches(w, stamp[o])}

Deliver ==
    /\ \E rows \in SUBSET DOMAIN stamp : landed' = landed \cup rows
    /\ UNCHANGED <<layerVars, mark, base>>

(* A mark is where its coverage began or the stamp of some row: nothing the  *)
(* source publishes later can then be left behind it.                        *)
Advance ==
    /\ base' \in Ticks
    /\ mark' \in {base'} \cup {stamp[o] : o \in DOMAIN stamp}
    /\ LeftBehind(base', mark') = {}
    /\ UNCHANGED <<layerVars, landed>>

Init ==
    /\ LayerInit
    /\ landed = {}
    /\ mark \in {InitialMark, None}
    /\ base = mark

Next == (LayerNext /\ UNCHANGED deliveryVars) \/ Deliver \/ Advance

Spec == Init /\ [][Next]_<<layerVars, deliveryVars>>

(* Nothing the extraction has been responsible for is left behind the mark. *)
NothingLeftBehind == LeftBehind(base, mark) = {}
=============================================================================
