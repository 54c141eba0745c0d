-------------------------- MODULE WarehouseProofs --------------------------
(***************************************************************************)
(* Theorems about Warehouse: any number of loaders, of rows and of names,   *)
(* any outputs, in any interleaving of their statements, with lost          *)
(* connections and deadlocks.                                               *)
(***************************************************************************)
EXTENDS Warehouse, Bounds

-----------------------------------------------------------------------------
(* Type correctness.                                                        *)

(* The row a loader works on is one of those it has to do, and the first.    *)
LEMMA RowIsFirst ==
    ASSUME TypeOK, NEW l \in Loaders, todo[l] # {}
    PROVE  Row(l) \in todo[l] /\ \A q \in todo[l] : Row(l).place <= q.place
<1> DEFINE places == {r.place : r \in todo[l]}
<1>1. todo[l] \subseteq Rows
  BY DEF TypeOK
<1>2. places \subseteq Nat /\ places # {}
  BY <1>1 DEF Rows
<1>3. PICK m \in places : \A v \in places : m <= v
  <2> HIDE DEF places
  <2> QED BY <1>2, SmallestExists
<1>4. \E r \in todo[l] : \A q \in todo[l] : r.place <= q.place
  BY <1>3
<1> QED BY <1>4 DEF Row, First

(* A batch is finite, and no two of its rows have one place.                 *)
LEMMA BatchIsOrdered ==
    ASSUME TypeOK, NEW l \in Loaders, Progress(l), pc[l] # "idle"
    PROVE  IsOutput(batch[l])
<1>1. PICK i \in 1..current : batch[l] = outputs[i]
  BY DEF Progress
<1>2. outputs \in Histories /\ outputs \in Seq(SUBSET Rows) /\ current \in DOMAIN outputs
  BY WarehouseAssumption DEF TypeOK
<1>3. i \in DOMAIN outputs
  BY <1>2
<1> QED BY <1>1, <1>2, <1>3, WarehouseAssumption

(* A row the table accepts has hours or Null, a number in either case. *)
LEMMA HoursAreInt ==
    ASSUME NEW row \in Rows, row.created # Null
    PROVE  Hours(row) \in Int
BY WarehouseAssumption DEF Hours, Rows, Instants, Null

(* What an upsert writes is a fact. *)
LEMMA UpsertedIsFact ==
    ASSUME TypeOK, NEW l \in Loaders, todo[l] # {}, Row(l).created # Null
    PROVE  Upserted(l) \in FactRows
<1>1. Row(l) \in Rows /\ Row(l).created \in Instants
  BY RowIsFirst DEF TypeOK, Rows
<1>2. Hours(Row(l)) \in Int /\ key[l] \in Keys \cup {Null}
  BY <1>1, HoursAreInt DEF TypeOK
<1>3. Inserted(l, Row(l)) \in FactRows
  BY <1>1, <1>2 DEF Inserted, FactRows, Rows
<1>4. Visible(l, Row(l).oid) \subseteq FactRows
  BY DEF Visible, Keyed, TypeOK
<1>5. ASSUME NEW f \in FactRows PROVE Merged(f, Inserted(l, Row(l))) \in FactRows
  BY <1>3 DEF Merged, FactRows
<1> QED BY <1>3, <1>4, <1>5 DEF Upserted

(* The first state is well typed. *)
LEMMA InitTypeOK == Init => TypeOK
<1> SUFFICES ASSUME Init PROVE TypeOK
  OBVIOUS
<1>1. outputs \in Seq(SUBSET Rows) /\ outputs # << >>
  BY WarehouseAssumption DEF Init
<1>2. current \in DOMAIN outputs
  BY <1>1 DEF Init
<1>3. /\ dim \subseteq DimRows /\ fact \subseteq FactRows /\ nextKey \in Nat \ {0}
      /\ newDim \in [Loaders -> SUBSET DimRows] /\ newFact \in [Loaders -> SUBSET FactRows]
  BY DEF Init
<1>4. /\ pc \in [Loaders -> PcValues] /\ batch \in [Loaders -> SUBSET Rows]
      /\ \A l \in Loaders : todo[l] \subseteq batch[l]
      /\ todo \in [Loaders -> SUBSET Rows]
      /\ key \in [Loaders -> Keys \cup {Null}] /\ last \in Loaders \cup {"nobody"}
  BY DEF Init, PcValues
<1>5. crashes \in 0..MaxCrashes
  BY WarehouseAssumption DEF Init
<1> QED BY <1>2, <1>3, <1>4, <1>5 DEF Init, TypeOK

(* A longer sequence keeps every key it has given out.                       *)
LEMMA KeysGrow ==
    ASSUME nextKey \in Nat \ {0}, nextKey' \in {nextKey, nextKey + 1}
    PROVE  Keys \subseteq Keys' /\ DimRows \subseteq DimRows' /\ FactRows \subseteq FactRows'
<1>1. nextKey \in Int /\ nextKey' \in Int /\ nextKey <= nextKey'
  OBVIOUS
<1>2. \A a, b \in Int : a <= b => 1..(a - 1) \subseteq 1..(b - 1)
  OBVIOUS
<1>3. Keys \subseteq Keys'
  BY <1>1, <1>2, Zenon DEF Keys
<1> QED BY <1>3 DEF DimRows, FactRows

(* Every step of a loader keeps the types.                                   *)
LEMMA StepTypeOK ==
    ASSUME TypeOK, NEW l \in Loaders, Progress(l), Read(l) \/ LoadStep(l) \/ Crash(l)
    PROVE  TypeOK'
<1>1. nextKey' \in {nextKey, nextKey + 1} /\ nextKey \in Nat \ {0}
  BY DEF Read, LoadStep, ApplySchema, GetOrCreate, Upsert, Refused, Commit, DeadlockAbort, Crash,
         Rollback, TypeOK
<1>2. Keys \subseteq Keys' /\ DimRows \subseteq DimRows' /\ FactRows \subseteq FactRows'
  BY <1>1, KeysGrow
<1>3. /\ dim \subseteq DimRows' /\ fact \subseteq FactRows' /\ key \in [Loaders -> Keys' \cup {Null}]
      /\ newDim \in [Loaders -> SUBSET DimRows'] /\ newFact \in [Loaders -> SUBSET FactRows']
  BY <1>2 DEF TypeOK
<1>4. /\ pc \in [Loaders -> PcValues] /\ batch \in [Loaders -> SUBSET Rows]
      /\ todo \in [Loaders -> SUBSET Rows] /\ \A q \in Loaders : todo[q] \subseteq batch[q]
      /\ outputs \in Histories /\ current \in DOMAIN outputs /\ crashes \in 0..MaxCrashes
      /\ last \in Loaders \cup {"nobody"}
  BY DEF TypeOK
<1>5. nextKey' \in Nat \ {0}
  BY <1>1
<1> HIDE DEF TypeOK
<1>6. CASE Read(l)
  <2>1. outputs[current] \in SUBSET Rows
    BY <1>4, WarehouseAssumption
  <2>2. /\ batch' \in [Loaders -> SUBSET Rows] /\ pc' \in [Loaders -> PcValues]
        /\ todo' \in [Loaders -> SUBSET Rows]
        /\ \A q \in Loaders : todo'[q] \subseteq batch'[q]
    BY <1>4, <1>6, <2>1 DEF Read, Goto, PcValues, TypeOK
  <2> QED BY <1>3, <1>4, <1>5, <1>6, <2>2 DEF Read, TypeOK, tableVars, txVars
<1>7. CASE ApplySchema(l)
  <2>1. pc' \in [Loaders -> PcValues]
    BY <1>4, <1>7 DEF ApplySchema, Goto, AfterRow, PcValues
  <2> QED BY <1>3, <1>4, <1>5, <1>7, <2>1 DEF ApplySchema, TypeOK, tableVars, txVars
<1>8. CASE GetOrCreate(l)
  <2>1. todo[l] # {} /\ Row(l) \in Rows
    BY <1>4, <1>8, RowIsFirst DEF Progress, GetOrCreate
  <2>2. pc' \in [Loaders -> PcValues]
    BY <1>4, <1>8 DEF GetOrCreate, Goto, PcValues
  <2>3. key' \in [Loaders -> Keys' \cup {Null}]
    BY <1>1, <1>3, <1>8 DEF GetOrCreate, Keys, TypeOK, DimRows
  <2>4. newDim' \in [Loaders -> SUBSET DimRows']
    BY <1>1, <1>3, <1>8, <2>1 DEF GetOrCreate, Keys, DimRows, Rows
  <2> QED BY <1>3, <1>4, <1>5, <1>8, <2>2, <2>3, <2>4 DEF GetOrCreate, TypeOK, tableVars
<1>9. CASE Upsert(l)
  <2>1. Upserted(l) \in FactRows'
    BY <1>2, <1>9, UpsertedIsFact DEF Progress, Upsert
  <2>2. newFact' \in [Loaders -> SUBSET FactRows']
    BY <1>3, <1>9, <2>1 DEF Upsert, Keyed
  <2>3. /\ pc' \in [Loaders -> PcValues] /\ todo' \in [Loaders -> SUBSET Rows]
        /\ \A q \in Loaders : todo'[q] \subseteq batch[q]
    BY <1>4, <1>9 DEF Upsert, Goto, AfterRow, PcValues, TypeOK
  <2> QED BY <1>3, <1>4, <1>5, <1>9, <2>2, <2>3 DEF Upsert, TypeOK, tableVars
<1>10. CASE Commit(l)
  <2>1. dim' \subseteq DimRows' /\ fact' \subseteq FactRows'
    BY <1>3, <1>10 DEF Commit
  <2>2. newDim' \in [Loaders -> SUBSET DimRows'] /\ newFact' \in [Loaders -> SUBSET FactRows']
    BY <1>3, <1>10 DEF Commit
  <2>3. pc' \in [Loaders -> PcValues]
    BY <1>4, <1>10 DEF Commit, Goto, PcValues
  <2> QED BY <1>3, <1>4, <1>5, <1>10, <2>1, <2>2, <2>3 DEF Commit, TypeOK
<1>11. CASE Rollback(l) /\ crashes' \in 0..MaxCrashes
  <2>1. newDim' \in [Loaders -> SUBSET DimRows'] /\ newFact' \in [Loaders -> SUBSET FactRows']
    BY <1>3, <1>11 DEF Rollback
  <2>2. pc' \in [Loaders -> PcValues]
    BY <1>4, <1>11 DEF Rollback, Goto, PcValues
  <2> QED BY <1>3, <1>4, <1>5, <1>11, <2>1, <2>2 DEF Rollback, TypeOK, tableVars
<1>12. Refused(l) \/ DeadlockAbort(l) \/ Crash(l) => Rollback(l) /\ crashes' \in 0..MaxCrashes
  BY <1>4, WarehouseAssumption DEF Refused, DeadlockAbort, Crash
<1> QED BY <1>6, <1>7, <1>8, <1>9, <1>10, <1>11, <1>12 DEF LoadStep

-----------------------------------------------------------------------------
(* The inductive invariant, step by step.                                    *)

(* What a step of one loader leaves to the others.                           *)
LEMMA OthersStay ==
    ASSUME TypeOK, NEW l \in Loaders, Read(l) \/ LoadStep(l) \/ Crash(l)
    PROVE  /\ UNCHANGED <<outputs, current>>
           /\ \A q \in Loaders \ {l} :
                /\ pc'[q] = pc[q] /\ batch'[q] = batch[q] /\ todo'[q] = todo[q]
                /\ key'[q] = key[q] /\ newDim'[q] = newDim[q] /\ newFact'[q] = newFact[q]
                /\ Row(q)' = Row(q) /\ Handled(q)' = Handled(q)
           /\ UNCHANGED <<dim, fact, last>> \/ Commit(l)
<1>1. /\ UNCHANGED <<outputs, current>>
      /\ \A q \in Loaders \ {l} :
            /\ pc'[q] = pc[q] /\ batch'[q] = batch[q] /\ todo'[q] = todo[q]
            /\ key'[q] = key[q] /\ newDim'[q] = newDim[q] /\ newFact'[q] = newFact[q]
  BY DEF Read, LoadStep, ApplySchema, GetOrCreate, Upsert, Refused, Commit, DeadlockAbort, Crash,
         Rollback, Goto, TypeOK, tableVars, txVars
<1>2. UNCHANGED <<dim, fact, last>> \/ Commit(l)
  BY DEF Read, LoadStep, ApplySchema, GetOrCreate, Upsert, Refused, DeadlockAbort, Crash,
         Rollback, tableVars
<1>3. \A q \in Loaders \ {l} : Row(q)' = Row(q) /\ Handled(q)' = Handled(q)
  BY <1>1 DEF Row, First, Handled
<1> QED BY <1>1, <1>2, <1>3

(* What a transaction that ends without effect leaves behind.                *)
LEMMA RolledBack ==
    ASSUME TypeOK, NEW l \in Loaders, Refused(l) \/ DeadlockAbort(l) \/ Crash(l)
    PROVE  /\ pc'[l] = "failed" /\ newDim'[l] = {} /\ newFact'[l] = {}
           /\ batch'[l] = batch[l] /\ UNCHANGED <<dim, fact, last, nextKey>>
BY DEF Refused, DeadlockAbort, Crash, Rollback, Goto, TypeOK, tableVars

(* What the upsert of a row changes in the transaction's facts.              *)
LEMMA UpsertOf ==
    ASSUME TypeOK, NEW l \in Loaders, Progress(l), Upsert(l)
    PROVE  /\ pc[l] = "fact" /\ pc'[l] = AfterRow(todo'[l]) /\ batch'[l] = batch[l]
           /\ Row(l) \in todo[l] /\ \A q \in todo[l] : Row(l).place <= q.place
           /\ todo'[l] = todo[l] \ {Row(l)}
           /\ Handled(l)' = Handled(l) \cup {Row(l)}
           /\ Row(l) \in batch[l] /\ Row(l) \notin Handled(l) /\ Row(l).created # Null
           /\ newFact'[l] = (newFact[l] \ Keyed(newFact[l], Row(l).oid)) \cup {Upserted(l)}
           /\ newDim'[l] = newDim[l]
           /\ UNCHANGED <<dim, fact, last, nextKey>>
<1>1. /\ pc[l] = "fact" /\ pc'[l] = AfterRow(todo'[l]) /\ batch'[l] = batch[l]
      /\ todo'[l] = todo[l] \ {Row(l)} /\ Row(l).created # Null
      /\ newFact'[l] = (newFact[l] \ Keyed(newFact[l], Row(l).oid)) \cup {Upserted(l)}
      /\ newDim'[l] = newDim[l]
      /\ UNCHANGED <<dim, fact, last, nextKey>>
  BY DEF Upsert, Goto, TypeOK, tableVars
<1>2. Row(l) \in todo[l] /\ \A q \in todo[l] : Row(l).place <= q.place
  BY <1>1, RowIsFirst DEF Progress
<1>3. todo[l] \subseteq batch[l]
  BY DEF TypeOK
<1> QED BY <1>1, <1>2, <1>3 DEF Handled

(* The fact an upsert leaves has the row's OBJECTID and its progress.        *)
LEMMA UpsertedIs ==
    ASSUME TypeOK, NEW l \in Loaders, todo[l] # {}
    PROVE  /\ Upserted(l).oid = Row(l).oid
           /\ Upserted(l).closed = Row(l).closed /\ Upserted(l).hours = Hours(Row(l))
           /\ Visible(l, Row(l).oid) = {} =>
                 Upserted(l).key = key[l] /\ Upserted(l).created = Row(l).created
           /\ Visible(l, Row(l).oid) # {} =>
                 \E g \in Visible(l, Row(l).oid) :
                    Upserted(l).key = g.key /\ Upserted(l).created = g.created
<1>1. Visible(l, Row(l).oid) \subseteq FactRows /\ \A g \in Visible(l, Row(l).oid) : g.oid = Row(l).oid
  BY DEF Visible, Keyed, TypeOK
<1>2. CASE Visible(l, Row(l).oid) = {}
  BY <1>2 DEF Upserted, Inserted
<1>3. CASE Visible(l, Row(l).oid) # {}
  <2>1. PICK g \in Visible(l, Row(l).oid) : g = (CHOOSE f \in Visible(l, Row(l).oid) : TRUE)
    BY <1>3
  <2>2. Upserted(l) = Merged(g, Inserted(l, Row(l)))
    BY <1>3, <2>1 DEF Upserted
  <2>3. g \in FactRows /\ g.oid = Row(l).oid
    BY <1>1
  <2>4. /\ Upserted(l).oid = g.oid /\ Upserted(l).key = g.key /\ Upserted(l).created = g.created
        /\ Upserted(l).closed = Row(l).closed /\ Upserted(l).hours = Hours(Row(l))
    BY <2>2, <2>3 DEF Merged, Inserted, FactRows
  <2> QED BY <1>3, <2>3, <2>4
<1> QED BY <1>2, <1>3

(* No step of a loader breaks what any loader has handled so far. *)
LEMMA StepKeepsProgress ==
    ASSUME TypeOK, WarehouseInv, NEW l \in Loaders, Read(l) \/ LoadStep(l) \/ Crash(l)
    PROVE  \A q \in Loaders : Progress(q)'
<1>1. \A q \in Loaders \ {l} : Progress(q)'
  BY OthersStay DEF WarehouseInv, Progress, InTransaction
<1>2. Progress(l)
  BY DEF WarehouseInv
<1>3. CASE Read(l)
  <2>1. /\ pc[l] = "idle" /\ pc'[l] = "schema" /\ batch'[l] = outputs[current]
        /\ todo'[l] = batch'[l] /\ UNCHANGED <<newDim, newFact, outputs, current>>
    BY <1>3 DEF Read, Goto, TypeOK, txVars
  <2>2. newDim[l] = {} /\ newFact[l] = {}
    BY <1>2, <2>1 DEF Progress, InTransaction
  <2>3. outputs \in Seq(SUBSET Rows) /\ current \in DOMAIN outputs
    BY WarehouseAssumption DEF TypeOK
  <2>4. current \in 1..current
    BY <2>3
  <2> QED BY <1>1, <2>1, <2>2, <2>4 DEF Progress, InTransaction
<1>4. CASE ApplySchema(l)
  <2>1. /\ pc[l] = "schema" /\ pc'[l] = AfterRow(todo[l]) /\ todo[l] = batch[l]
        /\ UNCHANGED <<newDim, newFact, outputs, current, batch, todo>>
    BY <1>2, <1>4 DEF ApplySchema, Goto, TypeOK, txVars, Progress
  <2>2. newDim[l] = {} /\ newFact[l] = {} /\ Handled(l) = {} /\ Handled(l)' = {}
    BY <1>2, <2>1 DEF Progress, InTransaction, Handled
  <2>3. pc'[l] \in {"commit", "dimension"} /\ (pc'[l] = "commit" <=> todo[l] = {})
    BY <2>1 DEF AfterRow
  <2>4. Oids(newFact[l])' = Oids(Handled(l))' /\ \A r \in Handled(l)' : FALSE
    BY <2>1, <2>2 DEF Oids
  <2>5. Progress(l)'
    BY <1>2, <2>1, <2>2, <2>3, <2>4 DEF Progress, InTransaction
  <2> QED BY <1>1, <2>5
<1>5. CASE GetOrCreate(l)
  <2>1. /\ pc[l] = "dimension" /\ pc'[l] = "fact"
        /\ UNCHANGED <<newFact, outputs, current, batch, todo>>
    BY <1>5 DEF GetOrCreate, Goto, TypeOK
  <2> QED BY <1>1, <1>2, <2>1 DEF Progress, InTransaction, Handled
<1>6. CASE Upsert(l)
  <2>1. pc'[l] \in {"commit", "dimension"} /\ (pc'[l] = "commit" <=> todo'[l] = {})
    BY <1>2, <1>6, UpsertOf DEF AfterRow
  <2>2. Upserted(l).oid = Row(l).oid
    BY <1>2, <1>6, UpsertOf, UpsertedIs
  <2>3. Oids(newFact[l]) = Oids(Handled(l))
    BY <1>2, <1>6, UpsertOf DEF Progress, InTransaction
  <2>4. Oids(newFact'[l]) = Oids(newFact[l]) \cup {Row(l).oid}
    BY <1>2, <1>6, <2>2, UpsertOf DEF Oids, Keyed
  <2>5. Oids(Handled(l)') = Oids(Handled(l)) \cup {Row(l).oid}
    BY <1>2, <1>6, UpsertOf DEF Oids
  <2>6. Oids(newFact[l])' = Oids(Handled(l))'
    BY <2>3, <2>4, <2>5 DEF Oids
  <2>7. \A r \in Handled(l)' : r.created # Null /\ \A s \in todo'[l] : r.place < s.place
    <3>1. ASSUME NEW s \in todo[l] \ {Row(l)} PROVE Row(l).place < s.place
      <4>1. Row(l) \in batch[l] /\ s \in batch[l] /\ batch[l] \subseteq Rows /\ Row(l).place <= s.place
        BY <1>2, <1>6, UpsertOf DEF TypeOK
      <4>2. pc[l] # "idle"
        BY <1>6 DEF Upsert
      <4>3. Row(l).place # s.place
        BY <1>2, <3>1, <4>1, <4>2, BatchIsOrdered DEF IsOutput
      <4> QED BY <4>1, <4>3 DEF Rows
    <3>2. \A r \in Handled(l) : r.created # Null /\ \A s \in todo[l] : r.place < s.place
      BY <1>2, <1>6 DEF Progress, InTransaction, Upsert
    <3> QED BY <1>2, <1>6, <3>1, <3>2, UpsertOf
  <2>8. UNCHANGED <<outputs, current>> /\ pc[l] = "fact" /\ batch'[l] = batch[l]
    BY <1>2, <1>6, UpsertOf DEF Upsert
  <2> QED BY <1>1, <1>2, <2>1, <2>6, <2>7, <2>8 DEF Progress, InTransaction
<1>7. CASE Commit(l)
  <2>1. /\ pc[l] = "commit" /\ pc'[l] = "done" /\ newDim'[l] = {} /\ newFact'[l] = {}
        /\ UNCHANGED <<outputs, current, batch, todo>>
    BY <1>7 DEF Commit, Goto, TypeOK
  <2> QED BY <1>1, <1>2, <2>1 DEF Progress, InTransaction
<1>8. CASE Refused(l) \/ DeadlockAbort(l) \/ Crash(l)
  <2>1. pc[l] # "idle"
    <3>1. CASE DeadlockAbort(l)
      BY <3>1 DEF DeadlockAbort, Deadlocked, Cycle, WaitsFor
    <3> QED BY <1>8, <3>1 DEF Refused, Crash, Active
  <2>2. UNCHANGED <<outputs, current>>
    BY OthersStay
  <2> QED BY <1>1, <1>2, <1>8, <2>1, <2>2, RolledBack DEF Progress, InTransaction
<1> QED BY <1>3, <1>4, <1>5, <1>6, <1>7, <1>8 DEF LoadStep

(* A loader that does nothing keeps its claim to its dimension rows, if no    *)
(* other inserts one of them and the committed ones are still there.         *)
LEMMA OwnDimKept ==
    ASSUME NEW q \in Loaders, OwnDim(q), dim \subseteq dim',
           pc'[q] = pc[q], batch'[q] = batch[q], key'[q] = key[q], newDim'[q] = newDim[q],
           Row(q)' = Row(q), Handled(q)' = Handled(q),
           \A d \in newDim[q] : d \notin dim' /\ \A p \in Loaders \ {q} : d \notin newDim'[p]
    PROVE  OwnDim(q)'
<1>1. \A v, k : Resolves(dim \cup newDim[q], v, k) => Resolves((dim \cup newDim[q])', v, k)
  BY DEF Resolves
<1>2. pc'[q] = "fact" => Resolves(dim \cup newDim[q], Row(q).value, key[q])'
  BY <1>1 DEF OwnDim, Resolves
<1>3. InTransaction(q)' = InTransaction(q)
  BY DEF InTransaction
<1>4. InTransaction(q)' => \A r \in Handled(q)' :
          r.value = Null \/ \E d \in (dim \cup newDim[q])' : d.value = r.value
  BY <1>3 DEF OwnDim
<1>5. \A d \in newDim'[q] :
          /\ d \notin dim' /\ \A p \in Loaders \ {q} : d \notin newDim'[p]
          /\ \E r \in batch'[q] : r.value = d.value
  BY DEF OwnDim
<1> QED BY <1>2, <1>4, <1>5 DEF OwnDim

(* A value no one has, or holds, gets a key no one has.                      *)
LEMMA InsertKeepsDim ==
    ASSUME TypeOK, WarehouseInv, NEW l \in Loaders, GetOrCreate(l), Row(l).value # Null,
           {d \in dim \cup newDim[l] : d.value = Row(l).value} = {}
    PROVE  OneToOne(AllDim)' /\ \A q \in Loaders : OwnDim(q)'
<1> DEFINE v == Row(l).value
           new == [value |-> v, key |-> nextKey]
<1>1. Progress(l) /\ OwnDim(l)
  BY DEF WarehouseInv
<1>2. /\ pc[l] = "dimension" /\ pc'[l] = "fact" /\ ~Waits(l)
      /\ UNCHANGED <<dim, batch, todo>>
      /\ key'[l] = nextKey /\ newDim' = [newDim EXCEPT ![l] = @ \cup {new}]
  BY DEF GetOrCreate, Goto, TypeOK, tableVars
<1>3. Row(l) \in batch[l] /\ Row(l)' = Row(l) /\ Handled(l)' = Handled(l)
  <2>1. Row(l) \in todo[l] /\ todo[l] \subseteq batch[l]
    BY <1>1, <1>2, RowIsFirst DEF Progress, TypeOK
  <2> QED BY <1>2, <2>1 DEF Row, Handled
<1>4. \A e \in AllDim : e.key \in Keys /\ e.value # v
  <2> SUFFICES ASSUME NEW e \in AllDim PROVE e.key \in Keys /\ e.value # v
    OBVIOUS
  <2>1. e \in DimRows
    BY DEF AllDim, TypeOK
  <2>2. ASSUME NEW q \in Loaders \ {l}, e \in newDim[q] PROVE e.value # v
    BY <1>2, <2>2 DEF Waits, WaitsFor
  <2>3. e.value # v
    BY <2>2 DEF AllDim
  <2> QED BY <2>1, <2>3 DEF DimRows
<1>5. nextKey \notin Keys
  BY DEF Keys, TypeOK
<1>6. newDim \in [Loaders -> SUBSET DimRows]
  BY DEF TypeOK
<1>7. /\ newDim'[l] = newDim[l] \cup {new}
      /\ \A q \in Loaders \ {l} : newDim'[q] = newDim[q]
  BY <1>2, <1>6
<1>8. new \notin AllDim
  BY <1>4, <1>5
<1>9. OneToOne(AllDim)'
  <2>1. OneToOne(AllDim)
    BY DEF WarehouseInv
  <2>2. AllDim' \subseteq AllDim \cup {new}
    BY <1>2, <1>7 DEF AllDim
  <2> QED BY <1>4, <1>5, <2>1, <2>2 DEF OneToOne
<1>10. \A q \in Loaders \ {l} : OwnDim(q)'
  <2> SUFFICES ASSUME NEW q \in Loaders \ {l} PROVE OwnDim(q)'
    OBVIOUS
  <2>1. OwnDim(q) /\ newDim[q] \subseteq AllDim
    BY DEF WarehouseInv, AllDim
  <2>2. \A d \in newDim[q] : d \notin dim' /\ \A p \in Loaders \ {q} : d \notin newDim'[p]
    BY <1>2, <1>7, <1>8, <2>1 DEF OwnDim
  <2>3. /\ pc'[q] = pc[q] /\ batch'[q] = batch[q] /\ key'[q] = key[q] /\ newDim'[q] = newDim[q]
        /\ Row(q)' = Row(q) /\ Handled(q)' = Handled(q)
    BY OthersStay DEF LoadStep
  <2> QED BY <1>2, <2>1, <2>2, <2>3, OwnDimKept
<1>11. OwnDim(l)'
  <2>1. ASSUME NEW d \in newDim'[l]
        PROVE  /\ d \notin dim' /\ \A q \in Loaders \ {l} : d \notin newDim'[q]
               /\ \E r \in batch'[l] : r.value = d.value
    <3>1. CASE d = new
      <4>1. d \notin dim /\ \A q \in Loaders \ {l} : d \notin newDim[q]
        BY <1>8, <3>1 DEF AllDim
      <4>2. d.value = v
        BY <3>1
      <4> QED BY <1>2, <1>3, <1>7, <4>1, <4>2
    <3>2. CASE d \in newDim[l]
      BY <1>1, <1>2, <1>7, <3>2 DEF OwnDim
    <3> QED BY <1>7, <3>1, <3>2
  <2>2. Resolves(dim \cup newDim[l], Row(l).value, key[l])'
    BY <1>2, <1>3, <1>7 DEF Resolves
  <2>3. \A r \in Handled(l)' : r.value = Null \/ \E d \in (dim \cup newDim[l])' : d.value = r.value
    BY <1>1, <1>2, <1>3, <1>7 DEF OwnDim, InTransaction
  <2> QED BY <2>1, <2>2, <2>3 DEF OwnDim
<1> QED BY <1>9, <1>10, <1>11

(* A loader whose dimension rows stay or go.                                 *)
LEMMA StepKeepsDim ==
    ASSUME TypeOK, WarehouseInv, NEW l \in Loaders, Read(l) \/ LoadStep(l) \/ Crash(l)
    PROVE  OneToOne(AllDim)' /\ \A q \in Loaders : OwnDim(q)'
<1>1. Progress(l) /\ OwnDim(l) /\ OneToOne(AllDim)
  BY DEF WarehouseInv
<1>2. ASSUME UNCHANGED dim, newDim'[l] \subseteq newDim[l]
      PROVE  OneToOne(AllDim)' /\ \A q \in Loaders \ {l} : OwnDim(q)'
  <2>1. \A q \in Loaders \ {l} : newDim'[q] = newDim[q]
    BY OthersStay
  <2>2. AllDim' \subseteq AllDim
    BY <1>2, <2>1 DEF AllDim
  <2>3. ASSUME NEW q \in Loaders \ {l} PROVE OwnDim(q)'
    <3>1. OwnDim(q)
      BY DEF WarehouseInv
    <3>2. \A d \in newDim[q] : d \notin dim' /\ \A p \in Loaders \ {q} : d \notin newDim'[p]
      BY <1>2, <2>1, <3>1 DEF OwnDim
    <3> QED BY <1>2, <3>1, <3>2, OthersStay, OwnDimKept
  <2> QED BY <1>1, <2>2, <2>3 DEF OneToOne
<1>3. ASSUME UNCHANGED dim, newDim'[l] \subseteq newDim[l], batch'[l] = batch[l],
             pc'[l] = "fact" => Resolves(dim \cup newDim[l], Row(l).value, key[l])',
             InTransaction(l)' => \A r \in Handled(l)' :
                r.value = Null \/ \E d \in (dim \cup newDim[l])' : d.value = r.value
      PROVE  OneToOne(AllDim)' /\ \A q \in Loaders : OwnDim(q)'
  <2>1. \A q \in Loaders \ {l} : newDim'[q] = newDim[q]
    BY OthersStay
  <2>2. \A d \in newDim'[l] :
          /\ d \notin dim' /\ \A p \in Loaders \ {l} : d \notin newDim'[p]
          /\ \E r \in batch'[l] : r.value = d.value
    BY <1>1, <1>3, <2>1 DEF OwnDim
  <2>3. OwnDim(l)'
    BY <1>3, <2>2 DEF OwnDim
  <2> QED BY <1>2, <1>3, <2>3
<1>4. CASE Read(l)
  <2>1. pc[l] = "idle" /\ pc'[l] = "schema" /\ UNCHANGED <<newDim, dim>>
    BY <1>4 DEF Read, Goto, TypeOK, txVars, tableVars
  <2>2. newDim[l] = {}
    BY <1>1, <2>1 DEF Progress, InTransaction
  <2>3. OwnDim(l)'
    BY <2>1, <2>2 DEF OwnDim, InTransaction
  <2> QED BY <1>2, <2>1, <2>3
<1>5. CASE ApplySchema(l)
  <2>1. /\ pc[l] = "schema" /\ pc'[l] # "fact" /\ UNCHANGED <<newDim, dim, batch, todo>>
    BY <1>5 DEF ApplySchema, Goto, AfterRow, TypeOK, txVars, tableVars
  <2>2. Handled(l)' = {}
    BY <1>1, <2>1 DEF Progress, Handled
  <2> QED BY <1>3, <2>1, <2>2
<1>6. CASE GetOrCreate(l)
  <2> DEFINE v == Row(l).value
             known == {d \in dim \cup newDim[l] : d.value = v}
  <2>1. CASE v # Null /\ known = {}
    BY <1>6, <2>1, InsertKeepsDim
  <2>2. CASE v = Null \/ known # {}
    <3>1. /\ pc[l] = "dimension" /\ UNCHANGED <<newDim, dim, batch, todo>>
          /\ \/ v = Null /\ key'[l] = Null
             \/ v # Null /\ \E d \in known : key'[l] = d.key
      BY <1>6, <2>2 DEF GetOrCreate, TypeOK, tableVars
    <3>2. Row(l)' = Row(l) /\ Handled(l)' = Handled(l)
      BY <3>1 DEF Row, Handled
    <3>3. \A d \in known : d = [value |-> v, key |-> d.key]
      BY DEF TypeOK, DimRows
    <3>4. Resolves(dim \cup newDim[l], v, key'[l])
      BY <3>1, <3>3 DEF Resolves
    <3>5. Resolves(dim \cup newDim[l], Row(l).value, key[l])'
      BY <3>1, <3>2, <3>4 DEF Resolves
    <3>6. \A r \in Handled(l) : r.value = Null \/ \E d \in dim \cup newDim[l] : d.value = r.value
      BY <1>1, <3>1 DEF OwnDim, InTransaction
    <3> QED BY <1>3, <3>1, <3>2, <3>5, <3>6
  <2> QED BY <2>1, <2>2
<1>7. CASE Upsert(l)
  <2>1. /\ pc[l] = "fact" /\ pc'[l] # "fact" /\ UNCHANGED dim /\ newDim'[l] = newDim[l]
        /\ batch'[l] = batch[l] /\ Handled(l)' = Handled(l) \cup {Row(l)}
    BY <1>1, <1>7, UpsertOf DEF AfterRow
  <2>2. Row(l).value = Null \/ \E d \in dim \cup newDim[l] : d.value = Row(l).value
    <3>1. Resolves(dim \cup newDim[l], Row(l).value, key[l])
      BY <1>1, <2>1 DEF OwnDim
    <3>2. [value |-> Row(l).value, key |-> key[l]].value = Row(l).value
      OBVIOUS
    <3> QED BY <3>1, <3>2 DEF Resolves
  <2>3. \A r \in Handled(l) : r.value = Null \/ \E d \in dim \cup newDim[l] : d.value = r.value
    BY <1>1, <2>1 DEF OwnDim, InTransaction
  <2> QED BY <1>3, <2>1, <2>2, <2>3
<1>8. CASE Commit(l)
  <2>1. /\ pc'[l] = "done" /\ newDim'[l] = {} /\ dim' = dim \cup newDim[l]
        /\ \A q \in Loaders \ {l} : newDim'[q] = newDim[q]
    BY <1>8 DEF Commit, Goto, TypeOK
  <2>2. AllDim' \subseteq AllDim
    BY <2>1 DEF AllDim
  <2>3. OneToOne(AllDim)'
    BY <1>1, <2>2 DEF OneToOne
  <2>4. ASSUME NEW q \in Loaders \ {l} PROVE OwnDim(q)'
    <3>1. OwnDim(q)
      BY DEF WarehouseInv
    <3>2. \A d \in newDim[q] : d \notin dim' /\ \A p \in Loaders \ {q} : d \notin newDim'[p]
      BY <2>1, <3>1 DEF OwnDim
    <3> QED BY <2>1, <3>1, <3>2, OthersStay, OwnDimKept
  <2>5. OwnDim(l)'
    BY <2>1 DEF OwnDim, InTransaction
  <2> QED BY <2>3, <2>4, <2>5
<1>9. CASE Refused(l) \/ DeadlockAbort(l) \/ Crash(l)
  BY <1>3, <1>9, RolledBack DEF InTransaction
<1> QED BY <1>4, <1>5, <1>6, <1>7, <1>8, <1>9 DEF LoadStep

(* Uncommitted facts stay what they are while the dimension grows and what   *)
(* is committed of their OBJECTIDs stays.                                    *)
LEMMA OwnFactsKept ==
    ASSUME NEW q \in Loaders, OwnFacts(q), newFact'[q] = newFact[q],
           dim \cup newDim[q] \subseteq dim' \cup newDim'[q],
           newFact[q] # {} => Handled(q)' = Handled(q),
           \A f \in newFact[q] : Keyed(fact', f.oid) = Keyed(fact, f.oid),
           \A p \in Loaders \ {q} : Oids(newFact[q]) \cap Oids(newFact'[p]) = {}
    PROVE  OwnFacts(q)'
<1>1. \A v, k : Resolves(dim \cup newDim[q], v, k) => Resolves((dim \cup newDim[q])', v, k)
  BY DEF Resolves
<1>2. ASSUME NEW f \in newFact[q], NEW a \in Handled(q), NEW b \in Handled(q), FirstAndLast(q, f, a, b)
      PROVE  FirstAndLast(q, f, a, b)'
  <2>1. Keyed(fact, f.oid)' = Keyed(fact, f.oid) /\ Handled(q)' = Handled(q)
    BY DEF Keyed
  <2>2. Keyed(fact, f.oid) = {} => Resolves(dim \cup newDim[q], a.value, f.key)'
    BY <1>1, <1>2 DEF FirstAndLast, Resolves
  <2> QED BY <1>2, <2>1, <2>2 DEF FirstAndLast, Hours
<1>3. \A f \in newFact'[q] : \E a, b \in Handled(q)' : FirstAndLast(q, f, a, b)'
  <2> SUFFICES ASSUME NEW f \in newFact[q] PROVE \E a, b \in Handled(q)' : FirstAndLast(q, f, a, b)'
    OBVIOUS
  <2>1. PICK a \in Handled(q), b \in Handled(q) : FirstAndLast(q, f, a, b)
    BY DEF OwnFacts
  <2> QED BY <1>2, <2>1
<1>4. OnePerOid(newFact[q])' /\ \A p \in Loaders \ {q} : (Oids(newFact[q]) \cap Oids(newFact[p]))' = {}
  BY DEF OwnFacts, OnePerOid, Oids
<1> QED BY <1>3, <1>4 DEF OwnFacts

(* The transaction that upserts a row.                                       *)
LEMMA UpsertKeepsOwnFacts ==
    ASSUME TypeOK, WarehouseInv, NEW l \in Loaders, Upsert(l)
    PROVE  OwnFacts(l)'
<1>a. PICK row : row = Row(l)
  OBVIOUS
<1>b. PICK u : u = Upserted(l)
  OBVIOUS
<1> DEFINE o == row.oid
           rest == newFact[l] \ Keyed(newFact[l], o)
<1>1. Progress(l) /\ OwnFacts(l) /\ OwnDim(l) /\ Committed
  BY DEF WarehouseInv
<1>2. /\ pc[l] = "fact" /\ newFact'[l] = rest \cup {u} /\ Handled(l)' = Handled(l) \cup {row}
      /\ row \notin Handled(l) /\ newDim'[l] = newDim[l] /\ UNCHANGED <<dim, fact>>
      /\ todo[l] # {} /\ \A q \in Loaders \ {l} : newFact'[q] = newFact[q]
  BY <1>1, <1>a, <1>b, UpsertOf, OthersStay DEF LoadStep
<1>3. /\ u.oid = o /\ u.closed = row.closed /\ u.hours = Hours(row)
      /\ Visible(l, o) = {} => u.key = key[l] /\ u.created = row.created
      /\ Visible(l, o) # {} => \E g \in Visible(l, o) : u.key = g.key /\ u.created = g.created
  BY <1>2, <1>a, <1>b, UpsertedIs
<1>4. OnePerOid(rest \cup {u})
  BY <1>1, <1>3 DEF OwnFacts, OnePerOid, Keyed
<1>5. \A q \in Loaders \ {l} : Oids(rest \cup {u}) \cap Oids(newFact[q]) = {}
  <2> SUFFICES ASSUME NEW q \in Loaders \ {l}, NEW f \in rest \cup {u}, NEW g \in newFact[q], f.oid = g.oid
               PROVE  FALSE
    BY DEF Oids
  <2>1. CASE f = u
    <3>1. Keyed(newFact[q], o) # {}
      BY <1>3, <2>1 DEF Keyed
    <3> QED BY <1>2, <1>a, <3>1 DEF Upsert, Waits, WaitsFor
  <2>2. CASE f \in newFact[l]
    BY <1>1, <2>2 DEF OwnFacts, Oids
  <2> QED BY <2>1, <2>2
<1>6. ASSUME NEW f \in rest PROVE \E p, q \in Handled(l)' : FirstAndLast(l, f, p, q)'
  <2>1. PICK p \in Handled(l), q \in Handled(l) : FirstAndLast(l, f, p, q)
    BY <1>1 DEF OwnFacts
  <2>2. f.oid # o
    BY DEF Keyed
  <2>3. FirstAndLast(l, f, p, q)'
    BY <1>2, <2>1, <2>2 DEF FirstAndLast, Keyed, Resolves, Hours
  <2> QED BY <1>2, <2>3
<1>7. \E p, q \in Handled(l)' : FirstAndLast(l, u, p, q)'
  <2>1. CASE Keyed(newFact[l], o) = {}
    <3>1. \A r \in Handled(l)' : r.oid = o => r = row
      BY <1>1, <1>2, <2>1 DEF Progress, InTransaction, Oids, Keyed
    <3>2. Visible(l, o) = Keyed(fact, o)
      BY <2>1 DEF Visible
    <3>3. \A g \in Keyed(fact, o) : u.key = g.key /\ u.created = g.created
      BY <1>1, <1>3, <3>2 DEF Committed, OnePerOid, Keyed
    <3>4. Keyed(fact, o) = {} => u.created = row.created /\ Resolves(dim \cup newDim[l], row.value, u.key)
      BY <1>1, <1>2, <1>3, <1>a, <3>2 DEF OwnDim
    <3>5. FirstAndLast(l, u, row, row)'
      BY <1>2, <1>3, <3>1, <3>3, <3>4 DEF FirstAndLast, Keyed, Resolves, Hours
    <3> QED BY <1>2, <3>5
  <2>2. CASE Keyed(newFact[l], o) # {}
    <3>1. PICK g \in newFact[l] : g.oid = o /\ u.key = g.key /\ u.created = g.created
      BY <1>3, <2>2 DEF Visible, Keyed
    <3>2. PICK p \in Handled(l), q \in Handled(l) : FirstAndLast(l, g, p, q)
      BY <1>1 DEF OwnFacts
    <3>3. FirstAndLast(l, u, p, row)'
      BY <1>2, <1>3, <3>1, <3>2 DEF FirstAndLast, Keyed, Resolves, Hours
    <3> QED BY <1>2, <3>3
  <2> QED BY <2>1, <2>2
<1>8. \A f \in newFact'[l] : \E p, q \in Handled(l)' : FirstAndLast(l, f, p, q)'
  BY <1>2, <1>6, <1>7
<1>9. OnePerOid(newFact[l])' /\ \A q \in Loaders \ {l} : (Oids(newFact[l]) \cap Oids(newFact[q]))' = {}
  <2> HIDE DEF rest
  <2> QED BY <1>2, <1>4, <1>5 DEF OnePerOid, Oids
<1> QED BY <1>8, <1>9 DEF OwnFacts

(* No step of a loader breaks what any open transaction has written: a fact  *)
(* that one has written is locked for the others.                            *)
LEMMA StepKeepsFacts ==
    ASSUME TypeOK, WarehouseInv, NEW l \in Loaders, Read(l) \/ LoadStep(l) \/ Crash(l)
    PROVE  \A q \in Loaders : OwnFacts(q)'
<1>1. Progress(l) /\ \A q \in Loaders : OwnFacts(q)
  BY DEF WarehouseInv
<1>2. \A q \in Loaders \ {l} :
         newFact'[q] = newFact[q] /\ newDim'[q] = newDim[q] /\ Handled(q)' = Handled(q)
  BY OthersStay
<1>3. ASSUME newFact'[l] \subseteq newFact[l], UNCHANGED <<dim, fact>>
      PROVE  \A q \in Loaders \ {l} : OwnFacts(q)'
  <2> SUFFICES ASSUME NEW q \in Loaders \ {l} PROVE OwnFacts(q)'
    OBVIOUS
  <2>1. \A p \in Loaders \ {q} : Oids(newFact[q]) \cap Oids(newFact'[p]) = {}
    BY <1>1, <1>2, <1>3 DEF OwnFacts, Oids
  <2> QED BY <1>1, <1>2, <1>3, <2>1, OwnFactsKept
<1>4. CASE newFact[l] = {} /\ newFact'[l] = {} /\ UNCHANGED <<dim, fact>>
  BY <1>3, <1>4 DEF OwnFacts, OnePerOid, Oids
<1>5. CASE Read(l) \/ ApplySchema(l)
  <2>1. pc[l] \in {"idle", "schema"} /\ UNCHANGED <<newFact, dim, fact>>
    BY <1>5 DEF Read, ApplySchema, txVars, tableVars
  <2>2. newFact[l] = {}
    BY <1>1, <2>1 DEF Progress, InTransaction
  <2> QED BY <1>4, <2>1, <2>2
<1>6. CASE GetOrCreate(l)
  <2>1. UNCHANGED <<newFact, batch, todo, dim, fact>> /\ newDim[l] \subseteq newDim'[l]
    BY <1>6 DEF GetOrCreate, TypeOK, tableVars
  <2>2. Handled(l)' = Handled(l) /\ \A p \in Loaders \ {l} : Oids(newFact[l]) \cap Oids(newFact'[p]) = {}
    BY <1>1, <2>1 DEF Handled, OwnFacts
  <2>3. OwnFacts(l)'
    BY <1>1, <2>1, <2>2, OwnFactsKept
  <2> QED BY <1>3, <2>1, <2>3
<1>7. CASE Upsert(l)
  <2>1. OwnFacts(l)'
    BY <1>7, UpsertKeepsOwnFacts
  <2>2. UNCHANGED <<dim, fact>>
    BY <1>1, <1>7, UpsertOf
  <2>3. ASSUME NEW q \in Loaders \ {l} PROVE OwnFacts(q)'
    <3>1. ASSUME NEW p \in Loaders \ {q} PROVE Oids(newFact[q]) \cap Oids(newFact'[p]) = {}
      <4>1. CASE p = l
        BY <1>2, <2>1, <4>1 DEF OwnFacts, Oids
      <4>2. CASE p # l
        BY <1>1, <1>2, <4>2 DEF OwnFacts
      <4> QED BY <4>1, <4>2
    <3> QED BY <1>1, <1>2, <2>2, <3>1, OwnFactsKept
  <2> QED BY <2>1, <2>3
<1>8. CASE Commit(l)
  <2>1. /\ newFact'[l] = {} /\ dim \subseteq dim'
        /\ fact' = {f \in fact : Keyed(newFact[l], f.oid) = {}} \cup newFact[l]
    BY <1>8 DEF Commit, TypeOK
  <2>2. ASSUME NEW q \in Loaders \ {l} PROVE OwnFacts(q)'
    <3>1. \A f \in newFact[q] : Keyed(newFact[l], f.oid) = {}
      BY <1>1 DEF OwnFacts, Oids, Keyed
    <3>2. \A f \in newFact[q] : Keyed(fact', f.oid) = Keyed(fact, f.oid)
      BY <2>1, <3>1 DEF Keyed
    <3>3. \A p \in Loaders \ {q} : Oids(newFact[q]) \cap Oids(newFact'[p]) = {}
      BY <1>1, <1>2, <2>1 DEF OwnFacts, Oids
    <3> QED BY <1>1, <1>2, <2>1, <3>2, <3>3, OwnFactsKept
  <2>3. OwnFacts(l)'
    BY <2>1 DEF OwnFacts, OnePerOid, Oids
  <2> QED BY <2>2, <2>3
<1>9. CASE Refused(l) \/ DeadlockAbort(l) \/ Crash(l)
  <2>1. newFact'[l] = {} /\ UNCHANGED <<dim, fact>>
    BY <1>9, RolledBack
  <2>2. OwnFacts(l)'
    BY <2>1 DEF OwnFacts, OnePerOid, Oids
  <2> QED BY <1>3, <2>1, <2>2
<1> QED BY <1>5, <1>6, <1>7, <1>8, <1>9 DEF LoadStep

(* The commit puts the transaction's rows in, and they are whole.            *)
LEMMA CommitKeepsCommitted ==
    ASSUME TypeOK, WarehouseInv, NEW l \in Loaders, Commit(l)
    PROVE  Committed'
<1>1. Progress(l) /\ OwnFacts(l) /\ OwnDim(l) /\ Committed
  BY DEF WarehouseInv
<1>2. /\ pc[l] = "commit" /\ pc'[l] = "done" /\ last' = l /\ dim' = dim \cup newDim[l]
      /\ fact' = {f \in fact : Keyed(newFact[l], f.oid) = {}} \cup newFact[l]
      /\ UNCHANGED <<outputs, batch>>
  BY DEF Commit, Goto, TypeOK
<1>3. Handled(l) = batch[l] /\ \E i \in DOMAIN outputs : batch[l] = outputs[i]
  <2>1. PICK i \in 1..current : batch[l] = outputs[i]
    BY <1>1, <1>2 DEF Progress
  <2>2. outputs \in Seq(SUBSET Rows) /\ current \in DOMAIN outputs
    BY WarehouseAssumption DEF TypeOK
  <2>3. i \in DOMAIN outputs
    BY <2>2
  <2> QED BY <1>1, <1>2, <2>1, <2>3 DEF Progress, Handled
<1>4. Oids(newFact[l]) = Oids(batch[l])
  BY <1>1, <1>2, <1>3 DEF Progress, InTransaction
<1>5. OnePerOid(fact')
  BY <1>1, <1>2 DEF Committed, OwnFacts, OnePerOid, Keyed
<1>6. ASSUME NEW f \in fact'
      PROVE  \E i, j \in DOMAIN outputs : \E p \in outputs[i], q \in outputs[j] :
                /\ p.oid = f.oid /\ f.created = p.created /\ Resolves(dim', p.value, f.key)
                /\ q.oid = f.oid /\ q.created # Null /\ f.closed = q.closed /\ f.hours = Hours(q)
  <2>1. ASSUME NEW g \in fact
        PROVE  \E i \in DOMAIN outputs : \E p \in outputs[i] :
                  p.oid = g.oid /\ g.created = p.created /\ Resolves(dim', p.value, g.key)
    BY <1>1, <1>2 DEF Committed, FromOutputs, Resolves
  <2>2. CASE f \in newFact[l]
    <3>1. PICK a \in Handled(l), q \in Handled(l) : FirstAndLast(l, f, a, q)
      BY <1>1, <2>2 DEF OwnFacts
    <3>2. q.created # Null /\ q.oid = f.oid /\ f.closed = q.closed /\ f.hours = Hours(q)
      BY <1>1, <1>2, <3>1 DEF Progress, InTransaction, FirstAndLast
    <3>3. \E i \in DOMAIN outputs : \E p \in outputs[i] :
             p.oid = f.oid /\ f.created = p.created /\ Resolves(dim', p.value, f.key)
      <4>1. CASE Keyed(fact, f.oid) = {}
        <5>1. a.oid = f.oid /\ f.created = a.created /\ Resolves(dim', a.value, f.key)
          BY <1>2, <3>1, <4>1 DEF FirstAndLast
        <5> QED BY <1>3, <5>1
      <4>2. CASE Keyed(fact, f.oid) # {}
        <5>1. PICK g \in fact : g.oid = f.oid /\ g.key = f.key /\ g.created = f.created
          BY <3>1, <4>2 DEF FirstAndLast, Keyed
        <5> QED BY <2>1, <5>1
      <4> QED BY <4>1, <4>2
    <3> QED BY <1>3, <3>2, <3>3
  <2>3. CASE f \in fact
    BY <1>1, <1>2, <2>3 DEF Committed, FromOutputs, Resolves
  <2> QED BY <1>2, <2>2, <2>3
<1>7. ASSUME NEW r \in batch[l]
      PROVE  /\ r.value = Null \/ \E d \in dim' : d.value = r.value
             /\ \E f \in fact' : f.oid = r.oid
             /\ \A f \in Keyed(fact', r.oid) : \E q \in batch[l] :
                    q.oid = f.oid /\ f.closed = q.closed /\ f.hours = Hours(q)
  <2>1. r.value = Null \/ \E d \in dim' : d.value = r.value
    BY <1>1, <1>2, <1>3 DEF OwnDim, InTransaction
  <2>2. PICK g \in newFact[l] : g.oid = r.oid
    BY <1>4 DEF Oids
  <2>3. ASSUME NEW f \in Keyed(fact', r.oid)
        PROVE  \E q \in batch[l] : q.oid = f.oid /\ f.closed = q.closed /\ f.hours = Hours(q)
    <3>1. f \in newFact[l]
      BY <1>2, <2>2 DEF Keyed
    <3> QED BY <1>1, <1>3, <3>1 DEF OwnFacts, FirstAndLast
  <2> QED BY <1>2, <2>1, <2>2, <2>3
<1>8. \A f \in fact' : FromOutputs(f)'
  BY <1>2, <1>6 DEF FromOutputs, Resolves, Hours
<1>9. LoadedFrom(batch[last])'
  BY <1>2, <1>7 DEF LoadedFrom, Keyed, Hours
<1>10. OnePerOid(fact)'
  BY <1>5 DEF OnePerOid
<1> QED BY <1>2, <1>8, <1>9, <1>10 DEF Committed

(* The committed tables stay in order while nobody commits. *)
LEMMA CommittedKept ==
    ASSUME Committed, UNCHANGED <<outputs, dim, fact, last>>,
           last # "nobody" => pc'[last] = pc[last] /\ batch'[last] = batch[last]
    PROVE  Committed'
<1>1. OnePerOid(fact)'
  BY DEF Committed, OnePerOid
<1>2. \A f \in fact' : FromOutputs(f)'
  <2> SUFFICES ASSUME NEW f \in fact PROVE FromOutputs(f)'
    OBVIOUS
  <2>1. PICK i \in DOMAIN outputs, j \in DOMAIN outputs : \E p \in outputs[i], q \in outputs[j] :
          /\ p.oid = f.oid /\ f.created = p.created /\ Resolves(dim, p.value, f.key)
          /\ q.oid = f.oid /\ q.created # Null /\ f.closed = q.closed /\ f.hours = Hours(q)
    BY DEF Committed, FromOutputs
  <2>2. PICK p \in outputs[i], q \in outputs[j] :
          /\ p.oid = f.oid /\ f.created = p.created /\ Resolves(dim, p.value, f.key)
          /\ q.oid = f.oid /\ q.created # Null /\ f.closed = q.closed /\ f.hours = Hours(q)
    BY <2>1
  <2>3. /\ p \in outputs'[i] /\ q \in outputs'[j] /\ i \in DOMAIN outputs' /\ j \in DOMAIN outputs'
        /\ p.oid = f.oid /\ f.created = p.created /\ Resolves(dim', p.value, f.key)
        /\ q.oid = f.oid /\ q.created # Null /\ f.closed = q.closed /\ f.hours = Hours(q)
    BY <2>2
  <2> QED BY <2>3, Zenon DEF FromOutputs, Resolves, Hours
<1>3. last # "nobody" => LoadedFrom(batch[last])'
  BY DEF Committed, LoadedFrom, Keyed, Hours
<1> QED BY <1>1, <1>2, <1>3 DEF Committed

(* A commit makes of the tables those of its batch, row by row. *)
LEMMA StepKeepsCommitted ==
    ASSUME TypeOK, WarehouseInv, NEW l \in Loaders, Read(l) \/ LoadStep(l) \/ Crash(l)
    PROVE  Committed'
<1>1. CASE Commit(l)
  BY <1>1, CommitKeepsCommitted
<1>2. CASE UNCHANGED <<dim, fact, last>>
  <2>1. Committed /\ UNCHANGED outputs
    BY OthersStay DEF WarehouseInv
  <2>2. pc[l] # "done"
    <3>1. CASE DeadlockAbort(l)
      BY <3>1 DEF DeadlockAbort, Deadlocked, Cycle, WaitsFor
    <3> QED BY <3>1 DEF Read, LoadStep, ApplySchema, GetOrCreate, Upsert, Refused, Commit, Crash, Active
  <2>3. last # "nobody" => pc'[last] = pc[last] /\ batch'[last] = batch[last]
    BY <2>1, <2>2, OthersStay DEF Committed, TypeOK
  <2> QED BY <1>2, <2>1, <2>3, CommittedKept
<1> QED BY <1>1, <1>2, OthersStay

(* A new output touches no loader. *)
LEMMA OutputKeepsInv == TypeOK /\ WarehouseInv /\ NewOutput => TypeOK' /\ WarehouseInv'
<1> SUFFICES ASSUME TypeOK, WarehouseInv, NewOutput PROVE TypeOK' /\ WarehouseInv'
  OBVIOUS
<1>1. /\ UNCHANGED <<outputs, nextKey, dim, fact, last, newDim, newFact, pc, batch, todo, key, crashes>>
      /\ current' = current + 1 /\ current < Len(outputs)
  BY DEF NewOutput, tableVars, txVars, runVars
<1>2. outputs \in Seq(SUBSET Rows) /\ current \in DOMAIN outputs
  BY WarehouseAssumption DEF TypeOK
<1>3. current' \in DOMAIN outputs /\ \A i \in 1..current : i \in 1..current'
  BY <1>1, <1>2
<1>4. TypeOK'
  BY <1>1, <1>3 DEF TypeOK, DimRows, FactRows, Keys
<1>5. ASSUME NEW l \in Loaders PROVE Progress(l)' /\ OwnDim(l)' /\ OwnFacts(l)'
  <2>1. Progress(l) /\ OwnDim(l) /\ OwnFacts(l)
    BY DEF WarehouseInv
  <2>2. Row(l)' = Row(l) /\ Handled(l)' = Handled(l)
    BY <1>1 DEF Row, First, Handled
  <2>3. Progress(l)'
    BY <1>1, <1>3, <2>1, <2>2 DEF Progress, InTransaction, Oids
  <2>4. OwnDim(l)'
    BY <1>1, <2>1, <2>2 DEF OwnDim, InTransaction, Resolves
  <2>5. OwnFacts(l)'
    BY <1>1, <2>1, <2>2, OwnFactsKept DEF OwnFacts, Oids
  <2> QED BY <2>3, <2>4, <2>5
<1>6. OneToOne(AllDim)' /\ Committed'
  BY <1>1, CommittedKept DEF WarehouseInv, OneToOne, AllDim
<1> QED BY <1>4, <1>5, <1>6 DEF WarehouseInv

(* Standing still breaks nothing. *)
LEMMA StutterKeepsInv == TypeOK /\ WarehouseInv /\ UNCHANGED vars => TypeOK' /\ WarehouseInv'
<1> SUFFICES ASSUME TypeOK, WarehouseInv, UNCHANGED vars PROVE TypeOK' /\ WarehouseInv'
  OBVIOUS
<1>1. UNCHANGED <<outputs, current, nextKey, dim, fact, last, newDim, newFact, pc, batch, todo, key, crashes>>
  BY DEF vars, tableVars, txVars, runVars
<1>2. TypeOK'
  BY <1>1 DEF TypeOK, DimRows, FactRows, Keys
<1>3. ASSUME NEW l \in Loaders PROVE Progress(l)' /\ OwnDim(l)' /\ OwnFacts(l)'
  <2>1. Progress(l) /\ OwnDim(l) /\ OwnFacts(l)
    BY DEF WarehouseInv
  <2>2. Row(l)' = Row(l) /\ Handled(l)' = Handled(l)
    BY <1>1 DEF Row, First, Handled
  <2>3. Progress(l)'
    BY <1>1, <2>1, <2>2 DEF Progress, InTransaction, Oids
  <2>4. OwnDim(l)'
    BY <1>1, <2>1, <2>2 DEF OwnDim, InTransaction, Resolves
  <2>5. OwnFacts(l)'
    BY <1>1, <2>1, <2>2, OwnFactsKept DEF OwnFacts, Oids
  <2> QED BY <2>3, <2>4, <2>5
<1>4. OneToOne(AllDim)' /\ Committed'
  BY <1>1, CommittedKept DEF WarehouseInv, OneToOne, AllDim
<1> QED BY <1>2, <1>3, <1>4 DEF WarehouseInv

(* WarehouseInv holds of the empty tables. *)
LEMMA InitWarehouse == Init => WarehouseInv
<1> SUFFICES ASSUME Init PROVE WarehouseInv
  OBVIOUS
<1>1. OneToOne(AllDim)
  BY DEF Init, OneToOne, AllDim
<1>2. Committed
  BY DEF Init, Committed, OnePerOid
<1>3. \A l \in Loaders : Progress(l) /\ OwnDim(l) /\ OwnFacts(l)
  BY DEF Init, Progress, InTransaction, OwnDim, OwnFacts, OnePerOid, Oids
<1> QED BY <1>1, <1>2, <1>3 DEF WarehouseInv

(* Types, and the invariant of the loaders' transactions.                    *)
THEOREM WarehouseInvariant == Spec => [](TypeOK /\ WarehouseInv)
<1>1. Init => TypeOK /\ WarehouseInv
  BY InitTypeOK, InitWarehouse
<1>2. TypeOK /\ WarehouseInv /\ [Next]_vars => TypeOK' /\ WarehouseInv'
  <2> SUFFICES ASSUME TypeOK, WarehouseInv, [Next]_vars PROVE TypeOK' /\ WarehouseInv'
    OBVIOUS
  <2>1. ASSUME NEW l \in Loaders, Read(l) \/ LoadStep(l) \/ Crash(l) PROVE TypeOK' /\ WarehouseInv'
    <3>1. TypeOK'
      BY <2>1, StepTypeOK DEF WarehouseInv
    <3> QED BY <2>1, <3>1, StepKeepsProgress, StepKeepsDim, StepKeepsFacts, StepKeepsCommitted
            DEF WarehouseInv
  <2>2. CASE NewOutput \/ UNCHANGED vars
    BY <2>2, OutputKeepsInv, StutterKeepsInv
  <2> QED BY <2>1, <2>2 DEF Next
<1> QED BY <1>1, <1>2, PTL DEF Spec

-----------------------------------------------------------------------------
(* What the invariant is for.                                                *)

(* The loaders' variables keep their types, through waits, rollbacks and     *)
(* lost connections.                                                         *)
THEOREM WarehouseTypeCorrect == Spec => []TypeOK
<1>1. TypeOK /\ WarehouseInv => TypeOK
  OBVIOUS
<1> QED BY <1>1, WarehouseInvariant, PTL

(* The star stays joined (get_or_create_dimension_key, schema.sql's          *)
(* references): dimension keys and values are one to one, and a fact's key   *)
(* is that of the value its row was first loaded with.                       *)
THEOREM KeysResolveHolds == Spec => []KeysResolve
<1>1. TypeOK /\ WarehouseInv => KeysResolve
  <2> SUFFICES ASSUME TypeOK, WarehouseInv PROVE KeysResolve
    OBVIOUS
  <2>1. \A d, e \in dim : d.value = e.value <=> d.key = e.key
    BY DEF WarehouseInv, OneToOne, AllDim
  <2>2. ASSUME NEW f \in fact
        PROVE  \E i \in DOMAIN outputs : \E r \in outputs[i] :
                  r.oid = f.oid /\ Resolves(dim, r.value, f.key)
    BY DEF WarehouseInv, Committed, FromOutputs
  <2>3. ASSUME NEW f \in fact, f.key # Null PROVE \E d \in dim : d.key = f.key
    <3>1. PICK v : [value |-> v, key |-> f.key] \in dim
      BY <2>2, <2>3 DEF Resolves
    <3>2. [value |-> v, key |-> f.key].key = f.key
      OBVIOUS
    <3> QED BY <3>1, <3>2
  <2> QED BY <2>1, <2>2, <2>3 DEF KeysResolve, Resolves
<1> QED BY <1>1, WarehouseInvariant, PTL

(* Outputs with one row per OBJECTID, as deduplicate leaves them in a        *)
(* directory that holds the files of one transform.                          *)
OneRowEach ==
    \A h \in Histories : \A i \in DOMAIN h : \A r, s \in h[i] : r.oid = s.oid => r = s

(* A loader that has read holds an output that was in the directory. *)
LEMMA BatchIsOutput ==
    ASSUME TypeOK, NEW l \in Loaders, Progress(l), pc[l] # "idle"
    PROVE  \E i \in DOMAIN outputs : batch[l] = outputs[i]
<1>1. PICK i \in 1..current : batch[l] = outputs[i]
  BY DEF Progress
<1>2. outputs \in Seq(SUBSET Rows) /\ current \in DOMAIN outputs
  BY WarehouseAssumption DEF TypeOK
<1>3. i \in DOMAIN outputs
  BY <1>2
<1> QED BY <1>1, <1>3

(* One fact per OBJECTID, with the progress of the load that committed last, *)
(* row by row, whichever loads overlapped it (schema.sql: a rerun "never     *)
(* creates duplicate fact rows").                                            *)
THEOREM LastCommitWinsHolds == OneRowEach => (Spec => []LastCommitWins)
<1> SUFFICES ASSUME OneRowEach PROVE Spec => []LastCommitWins
  OBVIOUS
<1>1. TypeOK /\ WarehouseInv => LastCommitWins
  <2> SUFFICES ASSUME TypeOK, WarehouseInv PROVE LastCommitWins
    OBVIOUS
  <2>1. Committed
    BY DEF WarehouseInv
  <2>2. ASSUME last # "nobody", NEW r \in batch[last], NEW f \in Keyed(fact, r.oid)
        PROVE  f.closed = r.closed /\ f.hours = Hours(r)
    <3>1. last \in Loaders /\ pc[last] # "idle" /\ Progress(last)
      BY <2>1, <2>2 DEF TypeOK, Committed, WarehouseInv
    <3>2. PICK q \in batch[last] : q.oid = f.oid /\ f.closed = q.closed /\ f.hours = Hours(q)
      BY <2>1, <2>2 DEF Committed, LoadedFrom
    <3>3. q = r
      BY <2>2, <3>1, <3>2, BatchIsOutput DEF OneRowEach, TypeOK, Keyed
    <3> QED BY <3>2, <3>3
  <2> QED BY <2>1, <2>2 DEF LastCommitWins, Committed, OnePerOid
<1> QED BY <1>1, WarehouseInvariant, PTL

(* A case keeps its creation date from output to output, and none that the   *)
(* gate lets through is closed before.                                       *)
SteadyCases ==
    \A h \in Histories : \A i, j \in DOMAIN h : \A r \in h[i], s \in h[j] :
        r.created # Null /\ s.created # Null =>
            /\ r.oid = s.oid => r.created = s.created
            /\ r.closed # Null => r.closed >= r.created

(* Where no OBJECTID comes back as another case, what the gate checks of     *)
(* each batch (check_closed_before_created) holds of the table that is       *)
(* merged from them, and its hours add up.                                   *)
THEOREM FactsAddUpHolds == SteadyCases => (Spec => []FactsAddUp)
<1> SUFFICES ASSUME SteadyCases PROVE Spec => []FactsAddUp
  OBVIOUS
<1>1. TypeOK /\ WarehouseInv => FactsAddUp
  <2> SUFFICES ASSUME TypeOK, WarehouseInv, NEW f \in fact, f.closed # Null
               PROVE  f.closed >= f.created /\ f.hours = f.closed - f.created
    BY DEF FactsAddUp
  <2>1. PICK i \in DOMAIN outputs, j \in DOMAIN outputs :
          \E p \in outputs[i], q \in outputs[j] :
            /\ p.oid = f.oid /\ f.created = p.created
            /\ q.oid = f.oid /\ q.created # Null /\ f.closed = q.closed /\ f.hours = Hours(q)
    BY DEF WarehouseInv, Committed, FromOutputs
  <2>2. PICK p \in outputs[i], q \in outputs[j] :
            /\ p.oid = f.oid /\ f.created = p.created
            /\ q.oid = f.oid /\ q.created # Null /\ f.closed = q.closed /\ f.hours = Hours(q)
    BY <2>1
  <2>3. f.created \in Instants /\ f.created # Null
    BY WarehouseAssumption DEF TypeOK, FactRows, Instants, Null
  <2>4. q.created = p.created /\ q.closed >= q.created
    BY <2>2, <2>3 DEF SteadyCases, TypeOK
  <2> QED BY <2>2, <2>4 DEF Hours
<1> QED BY <1>1, WarehouseInvariant, PTL

(* Loading the same output again changes nothing but loaded_at               *)
(* (load_warehouse.py, IDEMPOTENCY), also when it ran beside the load that   *)
(* committed before it.                                                      *)
THEOREM ReloadChangesNothingHolds == OneRowEach => (Spec => ReloadChangesNothing)
<1> SUFFICES ASSUME OneRowEach PROVE Spec => ReloadChangesNothing
  OBVIOUS
<1>1. ASSUME TypeOK, WarehouseInv, NEW l \in Loaders, Commit(l), last # "nobody", batch[l] = batch[last]
      PROVE  dim' = dim /\ fact' = fact
  <2>1. /\ pc[l] = "commit" /\ dim' = dim \cup newDim[l]
        /\ fact' = {f \in fact : Keyed(newFact[l], f.oid) = {}} \cup newFact[l]
    BY <1>1 DEF Commit
  <2>2. Progress(l) /\ OwnDim(l) /\ OwnFacts(l) /\ Committed /\ OneToOne(AllDim)
    BY <1>1 DEF WarehouseInv
  <2>3. newDim[l] = {}
    <3> SUFFICES ASSUME NEW d \in newDim[l] PROVE FALSE
      OBVIOUS
    <3>1. d \in DimRows /\ d.value # Null
      BY <1>1, WarehouseAssumption DEF TypeOK, DimRows
    <3>2. PICK e \in dim : e.value = d.value
      BY <1>1, <2>2, <3>1 DEF OwnDim, Committed, LoadedFrom
    <3>3. e.key = d.key /\ e \in DimRows
      BY <1>1, <2>2, <3>2 DEF OneToOne, AllDim, TypeOK
    <3>4. d = e
      BY <3>1, <3>2, <3>3 DEF DimRows
    <3> QED BY <2>2, <3>4 DEF OwnDim
  <2>4. ASSUME NEW f \in newFact[l] PROVE f \in fact
    <3>1. PICK p \in Handled(l), q \in Handled(l) : FirstAndLast(l, f, p, q)
      BY <2>2 DEF OwnFacts
    <3>2. q \in batch[last] /\ q.oid = f.oid
      BY <1>1, <3>1 DEF Handled, FirstAndLast
    <3>3. PICK g \in fact : g.oid = f.oid
      BY <1>1, <2>2, <3>2 DEF Committed, LoadedFrom
    <3>4. PICK s \in batch[last] : s.oid = g.oid /\ g.closed = s.closed /\ g.hours = Hours(s)
      BY <1>1, <2>2, <3>2, <3>3 DEF Committed, LoadedFrom, Keyed
    <3>5. s = q
      BY <1>1, <2>1, <2>2, <3>2, <3>3, <3>4, BatchIsOutput DEF OneRowEach, TypeOK
    <3>6. /\ f.key = g.key /\ f.created = g.created /\ f.closed = g.closed /\ f.hours = g.hours
          /\ f \in FactRows /\ g \in FactRows
      BY <1>1, <3>1, <3>3, <3>4, <3>5 DEF FirstAndLast, Keyed, TypeOK
    <3>7. f = g
      BY <3>3, <3>6 DEF FactRows
    <3> QED BY <3>7
  <2>5. ASSUME NEW g \in fact, Keyed(newFact[l], g.oid) # {} PROVE g \in newFact[l]
    <3>1. PICK f \in newFact[l] : f.oid = g.oid
      BY <2>5 DEF Keyed
    <3>2. f = g
      BY <2>2, <2>4, <3>1 DEF Committed, OnePerOid
    <3> QED BY <3>2
  <2> QED BY <2>1, <2>3, <2>4, <2>5
<1>2. ASSUME TypeOK, WarehouseInv, [Next]_vars,
             NEW l \in Loaders, last # "nobody", last' = l, batch[l] = batch[last]
      PROVE  dim' = dim /\ fact' = fact
  <2>1. CASE \E q \in Loaders : Commit(q)
    BY <1>1, <1>2, <2>1 DEF Commit
  <2>2. CASE UNCHANGED <<dim, fact, last>>
    BY <2>2
  <2>3. NewOutput \/ UNCHANGED vars => UNCHANGED <<dim, fact, last>>
    BY DEF NewOutput, vars, tableVars
  <2> QED BY <1>2, <2>1, <2>2, <2>3, OthersStay DEF Next
<1>3. TypeOK /\ WarehouseInv /\ [Next]_vars
        => [\A l \in Loaders : last # "nobody" /\ last' = l /\ batch[l] = batch[last]
               => dim' = dim /\ fact' = fact]_vars
  BY <1>2
<1> QED BY <1>3, WarehouseInvariant, PTL DEF Spec, ReloadChangesNothing

(* Loaders that have read one output walk it in one order (load iterates the *)
(* rows as they were read), so where none of them has inserted a dimension   *)
(* value, each would wait for one that is further on than itself.            *)
THEOREM OneOutputOneOrderHolds == Spec => []OneOutputOneOrder
<1>1. TypeOK /\ WarehouseInv => OneOutputOneOrder
  <2> SUFFICES ASSUME TypeOK, WarehouseInv, NEW S \in SUBSET Loaders, Cycle(S), NEW l \in S,
                      \A p, q \in S : batch[p] = batch[q], \A p \in S : newDim[p] = {}
               PROVE  FALSE
    BY DEF OneOutputOneOrder
  <2>1. \A q \in S : Progress(q) /\ OwnFacts(q)
    BY DEF WarehouseInv
  <2>2. ASSUME NEW p \in S
        PROVE  pc[p] = "fact" /\ \E q \in S \ {p} : Keyed(newFact[q], Row(p).oid) # {}
    <3>1. newFact[p] # {}
      BY DEF Cycle, WaitsFor, Keyed
    <3>2. pc[p] # "schema"
      BY <2>1, <3>1 DEF Progress, InTransaction
    <3> QED BY <3>2 DEF Cycle, WaitsFor
  <2>3. \A p \in S : /\ Row(p) \in todo[p] /\ todo[p] \subseteq batch[l] /\ Handled(p) = batch[l] \ todo[p]
                     /\ \A r \in todo[p] : Row(p).place <= r.place
    <3> SUFFICES ASSUME NEW p \in S
                 PROVE  /\ Row(p) \in todo[p] /\ todo[p] \subseteq batch[l]
                        /\ Handled(p) = batch[l] \ todo[p]
                        /\ \A r \in todo[p] : Row(p).place <= r.place
      OBVIOUS
    <3>1. todo[p] # {}
      BY <2>1, <2>2 DEF Progress
    <3>2. todo[p] \subseteq batch[p]
      BY DEF TypeOK
    <3> QED BY <3>1, <3>2, RowIsFirst DEF Handled
  <2>4. batch[l] \subseteq Rows /\ IsFiniteSet(batch[l])
    BY <2>1, <2>2, BatchIsOrdered DEF TypeOK, IsOutput
  <2>5. ASSUME NEW p \in S PROVE \E q \in S : Row(p).place < Row(q).place
    <3>1. PICK q \in S \ {p} : Keyed(newFact[q], Row(p).oid) # {}
      BY <2>2
    <3>2. Row(p).oid \in Oids(newFact[q])
      BY <3>1 DEF Keyed, Oids
    <3>3. \A z \in S : Oids(newFact[z]) = Oids(Handled(z))
      BY <2>1, <2>2 DEF Progress, InTransaction
    <3>4. PICK r \in Handled(q) : r.oid = Row(p).oid
      BY <3>2, <3>3 DEF Oids
    <3>5. r.place < Row(q).place
      BY <2>1, <2>2, <2>3, <3>4 DEF Progress, InTransaction
    <3>6. r \notin Handled(p)
      BY <2>1, <3>2, <3>3, <3>4 DEF OwnFacts, Oids
    <3>7. Row(p).place <= r.place
      BY <2>3, <3>4, <3>6
    <3>8. Row(p).place \in Nat /\ Row(q).place \in Nat /\ r.place \in Nat
      BY <2>3, <2>4, <3>4 DEF Rows
    <3> QED BY <3>5, <3>7, <3>8
  <2> DEFINE U == {Row(p).place : p \in S}
  <2>6. IsFiniteSet(U) /\ U \subseteq Int /\ U # {}
    <3> DEFINE places == [r \in batch[l] |-> r.place]
               T == {r.place : r \in batch[l]}
    <3>1. places \in [batch[l] -> T] /\ \A t \in T : \E r \in batch[l] : places[r] = t
      OBVIOUS
    <3>2. U \subseteq T /\ T \subseteq Int /\ U # {}
      BY <2>3, <2>4 DEF Rows
    <3> HIDE DEF T, places, U
    <3>3. IsFiniteSet(T)
      BY <2>4, <3>1, FiniteImage
    <3> QED BY <3>2, <3>3, SubsetCardinality
  <2>7. PICK m \in U : \A v \in U : v <= m
    <3> HIDE DEF U
    <3> QED BY <2>6, LargestExists
  <2>8. PICK p \in S : m = Row(p).place
    OBVIOUS
  <2>9. PICK q \in S : Row(p).place < Row(q).place
    BY <2>5
  <2>10. Row(q).place <= m /\ Row(p).place \in Nat /\ Row(q).place \in Nat
    BY <2>3, <2>4, <2>7 DEF Rows
  <2> QED BY <2>8, <2>9, <2>10
<1> QED BY <1>1, WarehouseInvariant, PTL

-----------------------------------------------------------------------------
(* The abstract table.                                                       *)

(* A fact as a query shows it, its dimension key replaced by its value.      *)
KeyedValue(table, k) == IF k = Null THEN Null ELSE (CHOOSE d \in table : d.key = k).value

Shown(table, f) ==
    [oid |-> f.oid, value |-> KeyedValue(table, f.key),
     created |-> f.created, closed |-> f.closed, hours |-> f.hours]

(* The join finds the value a key was created for.                           *)
LEMMA JoinFinds ==
    ASSUME NEW table, OneToOne(table), \A d \in table : d.key # Null,
           NEW v, NEW k, Resolves(table, v, k)
    PROVE  KeyedValue(table, k) = v
<1>1. CASE v = Null
  BY <1>1 DEF Resolves, KeyedValue
<1>2. CASE v # Null
  <2> DEFINE d == [value |-> v, key |-> k]
             e == CHOOSE x \in table : x.key = k
  <2>1. d \in table /\ d.key = k /\ d.value = v
    BY <1>2 DEF Resolves
  <2>2. e \in table /\ e.key = k
    BY <2>1
  <2>3. e.value = v /\ k # Null
    <3> HIDE DEF d, e
    <3> QED BY <2>1, <2>2 DEF OneToOne
  <2> QED BY <2>3 DEF KeyedValue
<1> QED BY <1>1, <1>2

(* What Table does to a known fact, written out. *)
LEMMA RefreshedIs ==
    ASSUME NEW o, NEW v, NEW b, NEW c, NEW h, NEW q
    PROVE  Abstract!Refreshed([oid |-> o, value |-> v, created |-> b, closed |-> c, hours |-> h], q)
              = [oid |-> o, value |-> v, created |-> b, closed |-> q.closed, hours |-> Hours(q)]
<1>1. PICK r : r = [oid |-> o, value |-> v, created |-> b, closed |-> c, hours |-> h]
  OBVIOUS
<1>2. PICK k : k = Abstract!Hours(q)
  OBVIOUS
<1>3. PICK s : s = Abstract!Refreshed(r, q)
  OBVIOUS
<1>4. s = [r EXCEPT !.closed = q.closed, !.hours = k]
  BY <1>2, <1>3 DEF Abstract!Refreshed
<1>5. /\ s.oid = o /\ s.value = v /\ s.created = b /\ s.closed = q.closed /\ s.hours = k
      /\ s \in [oid : {o}, value : {v}, created : {b}, closed : {q.closed}, hours : {k}]
  BY <1>1, <1>4
<1>6. s = [oid |-> o, value |-> v, created |-> b, closed |-> q.closed, hours |-> k]
  BY <1>5
<1>7. k = Hours(q)
  BY <1>2 DEF Hours, Null, Abstract!Hours, Abstract!Null
<1> QED BY <1>1, <1>3, <1>6, <1>7

(* What the joined tables show after the commit, fact by fact.               *)
LEMMA CommitShows ==
    ASSUME TypeOK, WarehouseInv, NEW l \in Loaders, Commit(l)
    PROVE  /\ \A g \in fact : Shown(dim', g) = Shown(dim, g)
           /\ \A f \in newFact[l] : \A p, q \in Handled(l) : FirstAndLast(l, f, p, q) =>
                /\ \A g \in Keyed(fact, f.oid) :
                      Shown(dim', f) = Abstract!Refreshed(Shown(dim, g), q)
                /\ Keyed(fact, f.oid) = {} =>
                      Shown(dim', f) = Abstract!Refreshed(Abstract!Fact(p), q)
<1>1. Committed /\ dim' = dim \cup newDim[l] /\ pc[l] = "commit"
  BY DEF WarehouseInv, Commit
<1>2. OneToOne(dim) /\ OneToOne(dim')
  BY <1>1 DEF WarehouseInv, OneToOne, AllDim
<1>3. /\ \A d \in dim : d.key # Null
      /\ \A d \in dim' : d.key # Null
  <2>1. Null \notin Keys
    BY DEF Keys, Null, TypeOK
  <2> QED BY <1>1, <2>1 DEF TypeOK, DimRows
<1>4. ASSUME NEW g \in fact PROVE KeyedValue(dim', g.key) = KeyedValue(dim, g.key)
  <2>1. PICK v : Resolves(dim, v, g.key)
    BY <1>1 DEF Committed, FromOutputs
  <2>2. Resolves(dim', v, g.key)
    BY <1>1, <2>1 DEF Resolves
  <2>3. KeyedValue(dim, g.key) = v
    BY <1>2, <1>3, <2>1, JoinFinds
  <2>4. KeyedValue(dim', g.key) = v
    BY <1>2, <1>3, <2>2, JoinFinds
  <2> QED BY <2>3, <2>4
<1>5. ASSUME NEW f \in newFact[l], NEW p \in Handled(l), NEW q \in Handled(l),
             FirstAndLast(l, f, p, q), NEW g \in Keyed(fact, f.oid)
      PROVE  Shown(dim', f) = Abstract!Refreshed(Shown(dim, g), q)
  <2>1. /\ g \in fact /\ g.oid = f.oid /\ f.key = g.key /\ f.created = g.created
        /\ f.closed = q.closed /\ f.hours = Hours(q)
    BY <1>5 DEF FirstAndLast, Keyed
  <2>2. KeyedValue(dim', f.key) = KeyedValue(dim, g.key)
    BY <1>4, <2>1
  <2>4. PICK v : v = KeyedValue(dim, g.key)
    OBVIOUS
  <2>5. Shown(dim, g) = [oid |-> g.oid, value |-> v, created |-> g.created, closed |-> g.closed, hours |-> g.hours]
    BY <2>4 DEF Shown
  <2>6. Shown(dim', f) = [oid |-> g.oid, value |-> v, created |-> g.created, closed |-> q.closed, hours |-> Hours(q)]
    BY <2>1, <2>2, <2>4 DEF Shown
  <2> QED BY <2>5, <2>6, RefreshedIs
<1>6. ASSUME NEW f \in newFact[l], NEW p \in Handled(l), NEW q \in Handled(l),
             FirstAndLast(l, f, p, q), Keyed(fact, f.oid) = {}
      PROVE  Shown(dim', f) = Abstract!Refreshed(Abstract!Fact(p), q)
  <2>1. /\ p.oid = f.oid /\ f.created = p.created
        /\ f.closed = q.closed /\ f.hours = Hours(q) /\ Resolves(dim', p.value, f.key)
    BY <1>1, <1>6 DEF FirstAndLast
  <2>2. KeyedValue(dim', f.key) = p.value
    BY <1>2, <1>3, <2>1, JoinFinds
  <2>4. Shown(dim', f) = [oid |-> p.oid, value |-> p.value, created |-> p.created,
                          closed |-> q.closed, hours |-> Hours(q)]
    BY <2>1, <2>2 DEF Shown
  <2> QED BY <2>4, RefreshedIs DEF Abstract!Fact
<1> QED BY <1>4, <1>5, <1>6 DEF Shown

(* The first and the last row of each OBJECTID of a batch that is all in.    *)
LEMMA PicksExist ==
    ASSUME TypeOK, WarehouseInv, NEW l \in Loaders, pc[l] = "commit"
    PROVE  \E first, latest \in Abstract!Picks(batch[l]) :
              /\ \A p, q \in batch[l] : p # q /\ p.oid = q.oid => first[p.oid] # latest[p.oid]
              /\ \A f \in newFact[l] : FirstAndLast(l, f, first[f.oid], latest[f.oid])
<1>1. /\ Handled(l) = batch[l] /\ Oids(newFact[l]) = Oids(batch[l])
      /\ OnePerOid(newFact[l])
      /\ \A f \in newFact[l] : \E p, q \in batch[l] : FirstAndLast(l, f, p, q)
  BY DEF WarehouseInv, Progress, InTransaction, Handled, OwnFacts
<1> DEFINE D == {r.oid : r \in batch[l]}
           Is(o, p, q) == \E f \in newFact[l] : f.oid = o /\ FirstAndLast(l, f, p, q)
           first == [o \in D |-> CHOOSE p \in batch[l] : \E q \in batch[l] : Is(o, p, q)]
           latest == [o \in D |-> CHOOSE q \in batch[l] : Is(o, first[o], q)]
<1>2. ASSUME NEW o \in D
      PROVE  /\ first[o] \in batch[l] /\ latest[o] \in batch[l] /\ Is(o, first[o], latest[o])
  <2>1. PICK f \in newFact[l] : f.oid = o
    BY <1>1 DEF Oids
  <2>2. \E p \in batch[l] : \E q \in batch[l] : Is(o, p, q)
    BY <1>1, <2>1
  <2> HIDE DEF Is
  <2>3. first[o] \in batch[l] /\ \E q \in batch[l] : Is(o, first[o], q)
    BY <2>2
  <2> HIDE DEF first
  <2>4. latest[o] \in batch[l] /\ Is(o, first[o], latest[o])
    BY <2>3
  <2> QED BY <2>3, <2>4
<1>3. first \in [D -> batch[l]] /\ latest \in [D -> batch[l]]
  <2>1. DOMAIN first = D /\ DOMAIN latest = D
    OBVIOUS
  <2> HIDE DEF D, Is
  <2> QED BY <1>2
<1> HIDE DEF first, latest
<1>4. ASSUME NEW o \in D PROVE first[o].oid = o /\ latest[o].oid = o
  BY <1>2 DEF FirstAndLast
<1>5. first \in Abstract!Picks(batch[l]) /\ latest \in Abstract!Picks(batch[l])
  BY <1>3, <1>4 DEF Abstract!Picks
<1>6. ASSUME NEW p \in batch[l], NEW q \in batch[l], p # q, p.oid = q.oid, first[p.oid] = latest[p.oid]
      PROVE  FALSE
  <2>1. PICK f \in newFact[l] : f.oid = p.oid /\ FirstAndLast(l, f, first[p.oid], latest[p.oid])
    BY <1>2
  <2>2. \A r \in batch[l] : r.oid = p.oid => r = first[p.oid]
    BY <1>1, <1>6, <2>1 DEF FirstAndLast
  <2> QED BY <1>6, <2>2
<1>7. ASSUME NEW f \in newFact[l] PROVE FirstAndLast(l, f, first[f.oid], latest[f.oid])
  <2>1. f.oid \in D
    BY <1>1 DEF Oids
  <2>2. PICK g \in newFact[l] : g.oid = f.oid /\ FirstAndLast(l, g, first[f.oid], latest[f.oid])
    BY <1>2, <2>1
  <2> QED BY <1>1, <2>2 DEF OnePerOid
<1> QED BY <1>5, <1>6, <1>7

(* A commit is the load of a batch that has been in the directory.           *)
LEMMA CommitIsLoad ==
    ASSUME TypeOK, WarehouseInv, NEW l \in Loaders, Commit(l)
    PROVE  Abstract!LoadOneOf({outputs[i] : i \in 1..current})
<1>1. /\ pc[l] = "commit"
      /\ fact' = {f \in fact : Keyed(newFact[l], f.oid) = {}} \cup newFact[l]
  BY DEF Commit
<1>2. /\ Handled(l) = batch[l] /\ Oids(newFact[l]) = Oids(batch[l])
      /\ \A r \in batch[l] : r.created # Null
      /\ \E i \in 1..current : batch[l] = outputs[i]
  BY <1>1 DEF WarehouseInv, Progress, InTransaction, Handled
<1>3. PICK first \in Abstract!Picks(batch[l]), latest \in Abstract!Picks(batch[l]) :
        /\ \A p, q \in batch[l] : p # q /\ p.oid = q.oid => first[p.oid] # latest[p.oid]
        /\ \A f \in newFact[l] : FirstAndLast(l, f, first[f.oid], latest[f.oid])
  BY <1>1, PicksExist
<1>4. DOMAIN latest = {r.oid : r \in batch[l]}
  BY DEF Abstract!Picks
<1>5. \A f \in newFact[l] : f.oid \in DOMAIN latest /\ first[f.oid] \in batch[l] /\ latest[f.oid] \in batch[l]
  BY <1>2, <1>4 DEF Abstract!Picks, Oids
<1>6. \A o \in DOMAIN latest : \E f \in newFact[l] : f.oid = o
  BY <1>2, <1>4 DEF Oids
<1>7. /\ \A g \in fact : Shown(dim', g) = Shown(dim, g)
      /\ \A f \in newFact[l] :
            /\ \A g \in Keyed(fact, f.oid) :
                  Shown(dim', f) = Abstract!Refreshed(Shown(dim, g), latest[f.oid])
            /\ Keyed(fact, f.oid) = {} =>
                  Shown(dim', f) = Abstract!Refreshed(Abstract!Fact(first[f.oid]), latest[f.oid])
  BY <1>2, <1>3, <1>5, CommitShows
<1>8. Joined = {Shown(dim, f) : f \in fact} /\ Joined' = {Shown(dim', f) : f \in fact'}
  BY DEF Joined, Shown, KeyedValue
<1>9. \A g : Shown(dim, g).oid = g.oid
  BY DEF Shown
<1> DEFINE present == {x.oid : x \in Joined}
           kept == {IF x.oid \in DOMAIN latest THEN Abstract!Refreshed(x, latest[x.oid]) ELSE x : x \in Joined}
           added == {Abstract!Refreshed(Abstract!Fact(first[o]), latest[o]) : o \in DOMAIN latest \ present}
<1>10. present = {g.oid : g \in fact}
  BY <1>8, <1>9
<1>11. ASSUME NEW f \in fact' PROVE Shown(dim', f) \in kept \cup added
  <2>1. CASE f \in newFact[l]
    <3>1. CASE Keyed(fact, f.oid) = {}
      <4>1. \A g \in fact : g.oid # f.oid
        BY <3>1 DEF Keyed
      <4> HIDE DEF present
      <4>2. f.oid \in DOMAIN latest \ present
        BY <1>5, <1>10, <2>1, <4>1
      <4> QED BY <1>7, <2>1, <3>1, <4>2
    <3>2. CASE Keyed(fact, f.oid) # {}
      <4>1. PICK g \in fact : g.oid = f.oid
        BY <3>2 DEF Keyed
      <4>2. Shown(dim', f) = Abstract!Refreshed(Shown(dim, g), latest[f.oid])
        BY <1>7, <2>1, <4>1 DEF Keyed
      <4>3. Shown(dim, g) \in Joined /\ Shown(dim, g).oid = f.oid /\ f.oid \in DOMAIN latest
        BY <1>5, <1>8, <1>9, <2>1, <4>1
      <4> QED BY <4>2, <4>3
    <3> QED BY <3>1, <3>2
  <2>2. CASE f \in fact /\ Keyed(newFact[l], f.oid) = {}
    <3>1. Shown(dim', f) = Shown(dim, f) /\ Shown(dim, f) \in Joined /\ Shown(dim, f).oid = f.oid
      BY <1>7, <1>8, <1>9, <2>2
    <3>2. f.oid \notin DOMAIN latest
      BY <1>6, <2>2 DEF Keyed
    <3> QED BY <3>1, <3>2
  <2> QED BY <1>1, <2>1, <2>2
<1>12. ASSUME NEW x \in Joined
       PROVE  (IF x.oid \in DOMAIN latest THEN Abstract!Refreshed(x, latest[x.oid]) ELSE x) \in Joined'
  <2>1. PICK g \in fact : x = Shown(dim, g) /\ x.oid = g.oid
    BY <1>8, <1>9
  <2>2. CASE x.oid \in DOMAIN latest
    <3>1. PICK f \in newFact[l] : f.oid = g.oid
      BY <1>6, <2>1, <2>2
    <3>2. Shown(dim', f) = Abstract!Refreshed(x, latest[x.oid])
      BY <1>7, <2>1, <3>1 DEF Keyed
    <3> QED BY <1>1, <1>8, <2>2, <3>2
  <2>3. CASE x.oid \notin DOMAIN latest
    <3>1. g \in fact'
      BY <1>1, <1>5, <2>1, <2>3 DEF Keyed
    <3> QED BY <1>7, <1>8, <2>1, <2>3, <3>1
  <2> QED BY <2>2, <2>3
<1>13. ASSUME NEW o \in DOMAIN latest \ present
       PROVE  Abstract!Refreshed(Abstract!Fact(first[o]), latest[o]) \in Joined'
  <2>1. PICK f \in newFact[l] : f.oid = o
    BY <1>6
  <2>2. Keyed(fact, o) = {}
    BY <1>10 DEF Keyed
  <2> HIDE DEF present
  <2> QED BY <1>1, <1>7, <1>8, <2>1, <2>2
<1>14. Joined' = kept \cup added
  BY <1>8, <1>11, <1>12, <1>13
<1>15. Joined' = Abstract!Merge(batch[l], first, latest)
  BY <1>14 DEF Abstract!Merge
<1>16. \A r \in batch[l] : r.created # Abstract!Null
  BY <1>2 DEF Null, Abstract!Null
<1>17. Abstract!Load(batch[l])
  BY <1>3, <1>15, <1>16 DEF Abstract!Load
<1> QED BY <1>2, <1>17 DEF Abstract!LoadOneOf

(* The loaders implement the abstract table: what a query of the joined      *)
(* tables shows changes by whole loads only, each at its commit, of a batch  *)
(* that was in the directory.                                                *)
THEOREM WarehouseImplementsTable == Spec => ImplementsTable
<1>1. Init => Abstract!TableInit
  BY DEF Init, Joined, Abstract!TableInit
<1>2. TypeOK /\ WarehouseInv /\ [Next]_vars
        => [Abstract!LoadOneOf({outputs[i] : i \in 1..current})]_Joined
  <2> SUFFICES ASSUME TypeOK, WarehouseInv, [Next]_vars, ~ UNCHANGED Joined
               PROVE  Abstract!LoadOneOf({outputs[i] : i \in 1..current})
    OBVIOUS
  <2>1. ~ UNCHANGED <<dim, fact, last>>
    BY DEF Joined
  <2>2. NewOutput \/ UNCHANGED vars => UNCHANGED <<dim, fact, last>>
    BY DEF NewOutput, vars, tableVars
  <2>3. PICK l \in Loaders : Commit(l)
    BY <2>1, <2>2, OthersStay DEF Next
  <2> QED BY <2>3, CommitIsLoad
<1> QED BY <1>1, <1>2, WarehouseInvariant, PTL DEF Spec, ImplementsTable
=============================================================================
