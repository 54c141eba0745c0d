----------------------------- MODULE Warehouse -----------------------------
(***************************************************************************)
(* The warehouse: the Postgres star schema of warehouse/schema.sql and the  *)
(* loaders of warehouse/load_warehouse.py that fill it.                     *)
(*                                                                          *)
(* A loader reads the transform's output once and upserts it row by row in  *)
(* one transaction; a statement is a step.  Postgres is external: READ      *)
(* COMMITTED, a statement that meets another transaction's uncommitted key  *)
(* waits for its end, a cycle of waiters loses one of them.  The dimensions *)
(* filled through get_or_create_dimension_key are one here; dim_date has    *)
(* its date for a key and shows no more than they do.                       *)
(*                                                                          *)
(* A name with an underscore is a mutant of the operator that follows it.   *)
(***************************************************************************)
EXTENDS Integers, Sequences, FiniteSets

CONSTANTS
    Objects,       \* OBJECTIDs
    DimValues,     \* names a dimension holds
    MaxTime,       \* bound: instants are 0..MaxTime
    Histories,     \* the outputs a transform may leave, one after the other
    Loaders,       \* executions of load_warehouse
    LoadersOverlap,\* two loaders may run at the same time
    MaxCrashes     \* bound: loaders whose process or connection dies

VARIABLES
    outputs,   \* the outputs of this behaviour
    current,   \* the one in the parquet directory now
    dim,       \* the dimension table, committed
    nextKey,   \* its sequence
    fact,      \* fact_service_request, committed
    pc,        \* where each loader is
    batch,     \* the rows it read
    todo,      \* the rows it has not upserted yet
    key,       \* dimension key of the row it works on
    newDim,    \* dimension rows its transaction has inserted
    newFact,   \* fact rows its transaction has inserted or updated
    crashes,   \* loaders that died so far
    \* History, read by no action's guard:
    last       \* the loader that committed last

tableVars == <<dim, fact, last>>
txVars    == <<newDim, newFact>>
runVars   == <<pc, batch, todo, key>>
vars      == <<outputs, current, nextKey, tableVars, txVars, runVars, crashes>>

-----------------------------------------------------------------------------
(* SQL NULL: an unknown dimension value, an open case, a missing key.        *)
Null == -1

Instants == 0..MaxTime

(* A row of the output, with its place in the part files.  resolution_hours  *)
(* is derived in the transform.                                              *)
Rows == [oid : Objects, value : DimValues \cup {Null},
         created : Instants \cup {Null}, closed : Instants \cup {Null}, place : Nat]

IsOutput(rows) ==
    IsFiniteSet(rows) /\ \A r, q \in rows : r.place = q.place => r = q

Hours(row) == IF row.closed = Null THEN Null ELSE row.closed - row.created

PcValues == {"idle", "schema", "dimension", "fact", "commit", "done", "failed"}

ASSUME WarehouseAssumption ==
    /\ Null \notin DimValues
    /\ MaxTime \in Nat
    /\ Histories \subseteq Seq(SUBSET Rows)
    /\ << >> \notin Histories   \* a load follows a transform
    /\ \A h \in Histories : \A i \in DOMAIN h : IsOutput(h[i])
    /\ LoadersOverlap \in BOOLEAN
    /\ MaxCrashes \in Nat
    /\ "nobody" \notin Loaders

Active(l) == pc[l] \in {"schema", "dimension", "fact", "commit"}

Goto(l, label) == pc' = [pc EXCEPT ![l] = label]

Keyed(table, o) == {f \in table : f.oid = o}

First(rows) == CHOOSE r \in rows : \A q \in rows : r.place <= q.place

(* iterrows walks the part files in the order of their names.  Spark spreads *)
(* the rows over them by a hash of the OBJECTID, in as many as the batch has *)
(* the size for: two outputs may have the same OBJECTIDs in opposite orders. *)
Row_SkipsLocked(l) ==
    LET free == {r \in todo[l] : \A q \in Loaders \ {l} : Keyed(newFact[q], r.oid) = {}}
    IN  First(IF free = {} THEN todo[l] ELSE free)

Row(l) == First(todo[l])

-----------------------------------------------------------------------------
(* Locks: a key inserted or updated by an open transaction; and the fact     *)
(* table itself, which CREATE INDEX IF NOT EXISTS locks against its writers  *)
(* before it looks whether the index is there.                               *)
WaitsFor(l, q) ==
    /\ q # l
    /\ \/ pc[l] = "schema" /\ newFact[q] # {}
       \/ pc[l] = "dimension" /\ \E d \in newDim[q] : d.value = Row(l).value
       \/ pc[l] = "fact" /\ Keyed(newFact[q], Row(l).oid) # {}

Waits(l) == \E q \in Loaders : WaitsFor(l, q)

(* Loaders that wait for each other: from each of them, and for each.        *)
Cycle(S) == \A p \in S : (\E q \in S : WaitsFor(p, q)) /\ (\E q \in S : WaitsFor(q, p))

Deadlocked(l) == \E S \in SUBSET Loaders : l \in S /\ Cycle(S)

(* The transaction ends without effect. *)
Rollback_ReturnsNumber(l) ==
    /\ newDim' = [newDim EXCEPT ![l] = {}]
    /\ newFact' = [newFact EXCEPT ![l] = {}]
    /\ nextKey' = IF newDim[l] = {} THEN nextKey ELSE nextKey - 1
    /\ Goto(l, "failed")
    /\ UNCHANGED <<outputs, current, tableVars, batch, todo, key>>

Rollback_KeepsLocks(l) ==
    /\ Goto(l, "failed")
    /\ UNCHANGED <<outputs, current, nextKey, tableVars, txVars, batch, todo, key>>

Rollback(l) ==
    /\ newDim' = [newDim EXCEPT ![l] = {}]
    /\ newFact' = [newFact EXCEPT ![l] = {}]
    /\ Goto(l, "failed")
    /\ UNCHANGED <<outputs, current, nextKey, tableVars, batch, todo, key>>

-----------------------------------------------------------------------------
(* The transform replaces the output, between two reads of it.               *)
NewOutput ==
    /\ current < Len(outputs)
    /\ current' = current + 1
    /\ UNCHANGED <<outputs, nextKey, tableVars, txVars, runVars, crashes>>

AfterRow(rows) == IF rows = {} THEN "commit" ELSE "dimension"

(* main: read_parquet, before there is a connection.                         *)
Read(l) ==
    /\ pc[l] = "idle"
    /\ LoadersOverlap \/ \A q \in Loaders : ~Active(q)
    /\ batch' = [batch EXCEPT ![l] = outputs[current]]
    /\ todo' = [todo EXCEPT ![l] = outputs[current]]
    /\ Goto(l, "schema")
    /\ UNCHANGED <<outputs, current, nextKey, tableVars, txVars, key, crashes>>

(* Connect, apply schema.sql and commit it.                                  *)
ApplySchema(l) ==
    /\ pc[l] = "schema"
    /\ ~Waits(l)
    /\ Goto(l, AfterRow(todo[l]))
    /\ UNCHANGED <<outputs, current, nextKey, tableVars, txVars, batch, todo, key, crashes>>

(* get_or_create_dimension_key: INSERT .. ON CONFLICT DO NOTHING, then       *)
(* SELECT.  The insert draws from the sequence whether or not it conflicts,  *)
(* and no rollback gives the number back.  A null value has no key.          *)
GetOrCreate_SelectFirst(l) ==
    LET v == Row(l).value
        known == {d \in dim \cup newDim[l] : d.value = v}
    IN  /\ pc[l] = "dimension"
        /\ IF v = Null \/ known # {}
           THEN /\ key' = [key EXCEPT ![l] = IF v = Null THEN Null ELSE (CHOOSE d \in known : TRUE).key]
                /\ UNCHANGED <<nextKey, newDim>>
           ELSE /\ key' = [key EXCEPT ![l] = nextKey]
                /\ nextKey' = nextKey + 1
                /\ newDim' = [newDim EXCEPT ![l] = @ \cup {[value |-> v, key |-> nextKey]}]
        /\ Goto(l, "fact")
        /\ UNCHANGED <<outputs, current, tableVars, newFact, batch, todo, crashes>>

GetOrCreate_AlwaysInserts(l) ==
    /\ pc[l] = "dimension"
    /\ ~Waits(l)
    /\ key' = [key EXCEPT ![l] = nextKey]
    /\ nextKey' = nextKey + 1
    /\ newDim' = [newDim EXCEPT ![l] = @ \cup {[value |-> Row(l).value, key |-> nextKey]}]
    /\ Goto(l, "fact")
    /\ UNCHANGED <<outputs, current, tableVars, newFact, batch, todo, crashes>>

GetOrCreate(l) ==
    LET v == Row(l).value
        known == {d \in dim \cup newDim[l] : d.value = v}
    IN  /\ pc[l] = "dimension"
        /\ ~Waits(l)
        /\ \/ /\ v = Null
              /\ key' = [key EXCEPT ![l] = Null]
              /\ UNCHANGED <<nextKey, newDim>>
           \/ /\ v # Null
              /\ known # {}
              /\ \E d \in known : key' = [key EXCEPT ![l] = d.key]
              /\ nextKey' = nextKey + 1
              /\ UNCHANGED newDim
           \/ /\ v # Null
              /\ known = {}
              /\ key' = [key EXCEPT ![l] = nextKey]
              /\ nextKey' = nextKey + 1
              /\ newDim' = [newDim EXCEPT ![l] = @ \cup {[value |-> v, key |-> nextKey]}]
        /\ Goto(l, "fact")
        /\ UNCHANGED <<outputs, current, tableVars, newFact, batch, todo, crashes>>

(* The fact a row inserts ... *)
Inserted(l, row) ==
    [oid |-> row.oid, key |-> key[l], created |-> row.created,
     closed |-> row.closed, hours |-> Hours(row)]

(* ... and what ON CONFLICT (object_id) DO UPDATE SET leaves of the old one. *)
Merged_ClosedOnly(old, new) == [old EXCEPT !.closed = new.closed]

Merged_DoNothing(old, new) == old

Merged(old, new) ==
    [old EXCEPT !.closed = new.closed, !.hours = new.hours]

(* The version of a fact a statement of the transaction meets.               *)
Visible(l, o) ==
    IF Keyed(newFact[l], o) # {} THEN Keyed(newFact[l], o) ELSE Keyed(fact, o)

Upserted(l) ==
    LET new == Inserted(l, Row(l))
        old == Visible(l, Row(l).oid)
    IN  IF old = {} THEN new ELSE Merged(CHOOSE f \in old : TRUE, new)

Upsert_Autocommit(l) ==
    /\ pc[l] = "fact"
    /\ ~Waits(l)
    /\ Row(l).created # Null
    /\ fact' = (fact \ Keyed(fact, Row(l).oid)) \cup {Upserted(l)}
    /\ dim' = dim \cup newDim[l]
    /\ newDim' = [newDim EXCEPT ![l] = {}]
    /\ todo' = [todo EXCEPT ![l] = @ \ {Row(l)}]
    /\ Goto(l, AfterRow(todo'[l]))
    /\ UNCHANGED <<outputs, current, nextKey, last, newFact, batch, key, crashes>>

Upsert(l) ==
    /\ pc[l] = "fact"
    /\ ~Waits(l)
    /\ Row(l).created # Null
    /\ newFact' = [newFact EXCEPT ![l] = (@ \ Keyed(@, Row(l).oid)) \cup {Upserted(l)}]
    /\ todo' = [todo EXCEPT ![l] = @ \ {Row(l)}]
    /\ Goto(l, AfterRow(todo'[l]))
    /\ UNCHANGED <<outputs, current, nextKey, tableVars, newDim, batch, key, crashes>>

(* created_at NOT NULL: the insert is refused and the exception ends main.   *)
Refused(l) ==
    /\ pc[l] = "fact"
    /\ ~Waits(l)
    /\ Row(l).created = Null
    /\ Rollback(l)
    /\ UNCHANGED crashes

(* conn.commit() after the last row. *)
Commit(l) ==
    /\ pc[l] = "commit"
    /\ dim' = dim \cup newDim[l]
    /\ fact' = {f \in fact : Keyed(newFact[l], f.oid) = {}} \cup newFact[l]
    /\ last' = l
    /\ newDim' = [newDim EXCEPT ![l] = {}]
    /\ newFact' = [newFact EXCEPT ![l] = {}]
    /\ Goto(l, "done")
    /\ UNCHANGED <<outputs, current, nextKey, batch, todo, key, crashes>>

(* deadlock_timeout: Postgres cancels a statement of the cycle.              *)
DeadlockAbort(l) ==
    /\ Deadlocked(l)
    /\ Rollback(l)
    /\ UNCHANGED crashes

(* The process or its connection dies; the server rolls back.                *)
Crash(l) ==
    /\ Active(l)
    /\ crashes < MaxCrashes
    /\ crashes' = crashes + 1
    /\ Rollback(l)

-----------------------------------------------------------------------------
Init ==
    /\ outputs \in Histories
    /\ current = 1
    /\ dim = {}
    /\ nextKey = 1
    /\ fact = {}
    /\ pc = [l \in Loaders |-> "idle"]
    /\ batch = [l \in Loaders |-> {}]
    /\ todo = [l \in Loaders |-> {}]
    /\ key = [l \in Loaders |-> Null]
    /\ newDim = [l \in Loaders |-> {}]
    /\ newFact = [l \in Loaders |-> {}]
    /\ crashes = 0
    /\ last = "nobody"

LoadStep(l) ==
    \/ ApplySchema(l)
    \/ GetOrCreate(l)
    \/ Upsert(l)
    \/ Refused(l)
    \/ Commit(l)
    \/ DeadlockAbort(l)

Next == NewOutput \/ \E l \in Loaders : Read(l) \/ LoadStep(l) \/ Crash(l)

Spec == Init /\ [][Next]_vars

(* A loader keeps executing statements; Postgres finds every deadlock.       *)
FairSpec == Spec /\ \A l \in Loaders : WF_vars(LoadStep(l))

-----------------------------------------------------------------------------
(* Properties. *)

Keys == 1..(nextKey - 1)

DimRows == [value : DimValues, key : Keys]

FactRows == [oid : Objects, key : Keys \cup {Null}, created : Instants,
             closed : Instants \cup {Null}, hours : Int]

TypeOK ==
    /\ outputs \in Histories
    /\ current \in DOMAIN outputs
    /\ dim \subseteq DimRows
    /\ nextKey \in Nat \ {0}
    /\ fact \subseteq FactRows
    /\ pc \in [Loaders -> PcValues]
    /\ batch \in [Loaders -> SUBSET Rows]
    /\ todo \in [Loaders -> SUBSET Rows]
    /\ \A l \in Loaders : todo[l] \subseteq batch[l]
    /\ key \in [Loaders -> Keys \cup {Null}]
    /\ newDim \in [Loaders -> SUBSET DimRows]
    /\ newFact \in [Loaders -> SUBSET FactRows]
    /\ crashes \in 0..MaxCrashes
    /\ last \in Loaders \cup {"nobody"}

(* The star stays joined: dimension keys and values are one to one, and the  *)
(* key of a fact is that of the value its row was first loaded with, through *)
(* waits, rollbacks and numbers the sequence lost.                           *)
KeysResolve ==
    /\ \A d, e \in dim : d.value = e.value <=> d.key = e.key
    /\ \A f \in fact : f.key # Null => \E d \in dim : d.key = f.key
    /\ \A f \in fact : \E i \in DOMAIN outputs : \E r \in outputs[i] :
          /\ r.oid = f.oid
          /\ IF r.value = Null THEN f.key = Null ELSE [value |-> r.value, key |-> f.key] \in dim

(* One fact per OBJECTID (schema.sql: a rerun "never creates duplicate fact  *)
(* rows"), holding the status, the closing date and the hours of the last    *)
(* load that committed, never a mixture of two overlapping ones.             *)
LastCommitWins ==
    /\ \A f, g \in fact : f.oid = g.oid => f = g
    /\ last # "nobody" => \A r \in batch[last] : \A f \in Keyed(fact, r.oid) :
          f.closed = r.closed /\ f.hours = Hours(r)

(* Loading the same output again changes nothing but loaded_at               *)
(* (load_warehouse.py, IDEMPOTENCY).                                         *)
ReloadChangesNothing ==
    [][\A l \in Loaders : last # "nobody" /\ last' = l /\ batch[l] = batch[last]
          => dim' = dim /\ fact' = fact]_vars

(* What check_closed_before_created promises of every batch holds of the     *)
(* table that is merged from several of them, and its hours add up.          *)
FactsAddUp ==
    \A f \in fact : f.closed # Null => f.closed >= f.created /\ f.hours = f.closed - f.created

(* Loaders of one output walk its part files in one order.  So a cycle of    *)
(* waiters takes two outputs, between which the order may change, or a       *)
(* loader that was the first to see a dimension value.                       *)
OneOutputOneOrder ==
    \A S \in SUBSET Loaders :
        Cycle(S) => \/ S = {}
                    \/ \E p, q \in S : batch[p] # batch[q]
                    \/ \E p \in S : newDim[p] # {}

(* Every load ends, whoever it has to wait for.                              *)
EveryLoadEnds == \A l \in Loaders : Active(l) ~> pc[l] \in {"done", "failed"}

(* The tables of the star schema, joined, are the abstract table: a load     *)
(* shows at once, at its commit, and merges with what is committed then,     *)
(* however its statements interleave with another loader's.                  *)
Joined ==
    {[oid |-> f.oid,
      value |-> IF f.key = Null THEN Null
                ELSE (CHOOSE d \in dim : d.key = f.key).value,
      created |-> f.created, closed |-> f.closed, hours |-> f.hours] : f \in fact}

Abstract == INSTANCE Table WITH table <- Joined

ImplementsTable ==
    /\ Abstract!TableInit
    /\ [][Abstract!LoadOneOf({outputs[i] : i \in 1..current})]_Joined

-----------------------------------------------------------------------------
(* The inductive invariant behind the properties. *)

InTransaction(l) == pc[l] \in {"dimension", "fact", "commit"}

(* The rows a loader has upserted. *)
Handled(l) == batch[l] \ todo[l]

Oids(rows) == {r.oid : r \in rows}

(* What get_or_create_dimension_key answers where it meets this table. *)
Resolves(table, v, k) == IF v = Null THEN k = Null ELSE [value |-> v, key |-> k] \in table

(* A transaction holds a fact for each row it has upserted, which are the    *)
(* first of its batch, and nothing outlives it but what it has committed.    *)
Progress(l) ==
    /\ pc[l] # "idle" => \E i \in 1..current : batch[l] = outputs[i]
    /\ pc[l] = "schema" => todo[l] = batch[l]
    /\ pc[l] \in {"dimension", "fact"} => todo[l] # {}
    /\ pc[l] \in {"commit", "done"} => todo[l] = {}
    /\ ~InTransaction(l) => newDim[l] = {} /\ newFact[l] = {}
    /\ InTransaction(l) =>
          /\ Oids(newFact[l]) = Oids(Handled(l))
          /\ \A r \in Handled(l) : r.created # Null /\ \A s \in todo[l] : r.place < s.place

(* A dimension row is of one transaction, which inserted it for a row of its *)
(* batch; the rows it upserted, and the one it works on, find theirs.        *)
OwnDim(l) ==
    /\ \A d \in newDim[l] :
          /\ d \notin dim
          /\ \A q \in Loaders \ {l} : d \notin newDim[q]
          /\ \E r \in batch[l] : r.value = d.value
    /\ pc[l] = "fact" => Resolves(dim \cup newDim[l], Row(l).value, key[l])
    /\ InTransaction(l) => \A r \in Handled(l) :
          r.value = Null \/ \E d \in dim \cup newDim[l] : d.value = r.value

(* Committed or not, dimension keys and values are one to one.               *)
AllDim == dim \cup UNION {newDim[l] : l \in Loaders}

OneToOne(table) == \A d, e \in table : d.value = e.value <=> d.key = e.key

OnePerOid(facts) == \A f, g \in facts : f.oid = g.oid => f = g

(* An uncommitted fact is the committed one, or that of the first row of its *)
(* OBJECTID, with the progress of the last; no two transactions have one.    *)
FirstAndLast(l, f, p, q) ==
    /\ p.oid = f.oid /\ q.oid = f.oid
    /\ p = q => \A r \in Handled(l) : r.oid = f.oid => r = p
    /\ f.closed = q.closed /\ f.hours = Hours(q)
    /\ \A g \in Keyed(fact, f.oid) : f.key = g.key /\ f.created = g.created
    /\ Keyed(fact, f.oid) = {} =>
          f.created = p.created /\ Resolves(dim \cup newDim[l], p.value, f.key)

OwnFacts(l) ==
    /\ OnePerOid(newFact[l])
    /\ \A q \in Loaders \ {l} : Oids(newFact[l]) \cap Oids(newFact[q]) = {}
    /\ \A f \in newFact[l] : \E p, q \in Handled(l) : FirstAndLast(l, f, p, q)

(* A committed fact is of a first and a last row of its OBJECTID, too, and   *)
(* the rows of the last load are all in.                                     *)
FromOutputs(f) ==
    \E i, j \in DOMAIN outputs : \E p \in outputs[i], q \in outputs[j] :
        /\ p.oid = f.oid /\ f.created = p.created /\ Resolves(dim, p.value, f.key)
        /\ q.oid = f.oid /\ q.created # Null /\ f.closed = q.closed /\ f.hours = Hours(q)

LoadedFrom(rows) ==
    \A r \in rows :
        /\ r.value = Null \/ \E d \in dim : d.value = r.value
        /\ \E f \in fact : f.oid = r.oid
        /\ \A f \in Keyed(fact, r.oid) : \E q \in rows :
              q.oid = f.oid /\ f.closed = q.closed /\ f.hours = Hours(q)

Committed ==
    /\ OnePerOid(fact)
    /\ \A f \in fact : FromOutputs(f)
    /\ last # "nobody" => pc[last] = "done" /\ LoadedFrom(batch[last])

(* The committed tables and what the open transactions have written are      *)
(* joined, one per key, and each the outcome of the rows handled so far.     *)
WarehouseInv ==
    /\ OneToOne(AllDim)
    /\ Committed
    /\ \A l \in Loaders : Progress(l) /\ OwnDim(l) /\ OwnFacts(l)
=============================================================================
