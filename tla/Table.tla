------------------------------- MODULE Table -------------------------------
(***************************************************************************)
(* What the warehouse promises its readers: a table with one fact per       *)
(* OBJECTID, its dimension keys read as the values they stand for, which a  *)
(* committed load changes as a whole and nothing else changes.              *)
(***************************************************************************)
EXTENDS Integers

VARIABLE table   \* what a query sees

(* SQL NULL: an unknown dimension value, an open case. *)
Null == -1

(* A row as the loader inserts it; resolution_hours comes with the row.      *)
Hours(row) == IF row.closed = Null THEN Null ELSE row.closed - row.created

Fact(row) == [oid |-> row.oid, value |-> row.value, created |-> row.created,
              closed |-> row.closed, hours |-> Hours(row)]

(* DO UPDATE SET: the case's progress is taken over, its identity stays.     *)
Refreshed(f, row) == [f EXCEPT !.closed = row.closed, !.hours = Hours(row)]

(* Which row of each OBJECTID a batch has first, or last.                    *)
Picks(batch) ==
    {pick \in [{r.oid : r \in batch} -> batch] : \A o \in DOMAIN pick : pick[o].oid = o}

(* The table once the batch is in it, row after row.                         *)
Merge(batch, first, last) ==
    LET present == {f.oid : f \in table}
    IN  {IF f.oid \in DOMAIN last THEN Refreshed(f, last[f.oid]) ELSE f : f \in table}
        \cup {Refreshed(Fact(first[o]), last[o]) : o \in DOMAIN last \ present}

-----------------------------------------------------------------------------
TableInit == table = {}

(* created_at NOT NULL: a batch with such a row does not get in.  A batch has *)
(* one row per OBJECTID, unless its files are of two outputs; what the first *)
(* of several inserts, the last of them refreshes.                           *)
Load(batch) ==
    /\ \A r \in batch : r.created # Null
    /\ \E first, last \in Picks(batch) :
          /\ \A p, q \in batch : p # q /\ p.oid = q.oid => first[p.oid] # last[p.oid]
          /\ table' = Merge(batch, first, last)

(* What a loader may do: load what it found in the parquet directory.        *)
LoadOneOf(batches) == \E batch \in batches : Load(batch)
=============================================================================
