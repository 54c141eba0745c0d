---------------------------- MODULE MCWarehouse ----------------------------
(***************************************************************************)
(* Warehouse on small instances.  A history is the outputs of two successive *)
(* transforms; the second covers every OBJECTID, the first some of them, in   *)
(* the same order or in the opposite one.                                    *)
(***************************************************************************)
EXTENDS Warehouse

Names == DimValues \cup {Null}

Places ==
    {[o \in Objects |-> o], [o \in Objects |-> Cardinality(Objects) - o]}

OutputOf(objects, place, value, created, closed) ==
    {[oid |-> o, place |-> place[o], value |-> value[o],
      created |-> created[o], closed |-> closed[o]] : o \in objects}

(* Open cases only: what matters is who waits for whom. *)
Open ==
    LET born == [o \in Objects |-> 0]
        end  == [o \in Objects |-> Null]
        id   == [o \in Objects |-> o]
    IN  {<<OutputOf(some, p, v, born, end), OutputOf(Objects, id, v, born, end)>> :
            some \in SUBSET Objects, p \in Places, v \in [Objects -> Names]}

(* Two rows keep their name and creation date and are closed or reopened; in *)
(* a parquet directory given by hand one may lack its creation date.         *)
Reopened ==
    LET two  == {1, 2}
        Ends == [two -> {Null, MaxTime}]
        Born == {d \in [two -> {Null, 0}] : d[1] = 0}
        v    == [o \in two |-> CHOOSE n \in DimValues : TRUE]
        id   == [o \in two |-> o]
    IN  {<<OutputOf(some, p, v, d, c1), OutputOf(two, id, v, [o \in two |-> 0], c2)>> :
            some \in SUBSET two, p \in Places, d \in Born, c1 \in Ends, c2 \in Ends}

Steady == Open \cup Reopened
=============================================================================
