-------------------------- MODULE TransformProofs --------------------------
(***************************************************************************)
(* The gate of the transform job, for any number of jobs, ingestion runs,   *)
(* files, versions and crashes, overlapping jobs included.                  *)
(*                                                                          *)
(* GateHolds is not inductive: it says nothing of the files a job is about  *)
(* to move or upload.  GateInv adds that every part file, planned or        *)
(* written, belongs to a job past the gate, and that a job's cleaned batch  *)
(* has passed it and never changes afterwards.                              *)
(*                                                                          *)
(* LastGoodOutputKept needs OutputInv: what a job is about to write is a    *)
(* non-empty batch that passed the gate.                                    *)
(***************************************************************************)
EXTENDS Transform, Bounds

GateInv ==
    /\ pc \in [Jobs -> PcValues]
    /\ clean = [j \in Jobs |-> clean[j]]
    /\ todo = [j \in Jobs |-> todo[j]]
    /\ \A j \in Jobs : \A r \in clean[j] : WellFormed(r)
    /\ \A j \in Jobs : \A p \in todo[j] : Gated(p)
    /\ \A p \in Written : Gated(p)

(* Nothing is written or planned at the start. *)
LEMMA InitGate == Init => GateInv
BY DEF Init, GateInv, PcValues, Written

(* A step that moves job j on without touching the batches keeps every part  *)
(* file gated, provided it does not take j back before the gate.             *)
LEMMA GatedKept ==
    ASSUME GateInv, NEW j \in Jobs, NEW label \in PcValues, Goto(j, label),
           clean' = clean, pc[j] \notin BeforeGate => label \notin BeforeGate
    PROVE  /\ pc' \in [Jobs -> PcValues]
           /\ clean' = [q \in Jobs |-> clean'[q]]
           /\ \A q \in Jobs : \A r \in clean'[q] : WellFormed(r)
           /\ \A p : Gated(p) => Gated(p)'
<1>1. pc' \in [Jobs -> PcValues]
  BY DEF GateInv, Goto
<1>2. ASSUME NEW p, Gated(p) PROVE Gated(p)'
  <2>1. pc'[p.job] = IF p.job = j THEN label ELSE pc[p.job]
    BY <1>2 DEF GateInv, Goto, Gated
  <2> QED BY <1>2, <2>1 DEF Gated
<1> QED BY <1>1, <1>2 DEF GateInv

(* No step writes or plans an ungated file. *)
LEMMA NextGate == GateInv /\ [Next]_vars => GateInv'
<1> SUFFICES ASSUME GateInv, [Next]_vars PROVE GateInv'
  OBVIOUS
<1> USE DEF BeforeGate, PcValues
<1>1. CASE UNCHANGED jobVars /\ UNCHANGED outputVars
  BY <1>1 DEF GateInv, jobVars, outputVars, Gated, Written
<1>2. ASSUME NEW j \in Jobs, Start(j) PROVE GateInv'
  BY <1>2, GatedKept DEF Start, GateInv, Written, outputVars
<1>3. ASSUME NEW j \in Jobs, Scan(j) PROVE GateInv'
  <2>1. PICK label \in {"scan", "failed", "clean"} : Goto(j, label)
    BY <1>3 DEF Scan
  <2> QED BY <1>3, <2>1, GatedKept DEF Scan, GateInv, Written, outputVars
<1>4. ASSUME NEW j \in Jobs, Clean(j) PROVE GateInv'
  <2>1. PICK rows \in Dedups(RowsOf(input[j])) :
           IF Gate(rows)
           THEN clean' = [clean EXCEPT ![j] = rows] /\ Goto(j, "overwrite")
           ELSE UNCHANGED clean /\ Goto(j, "failed")
    BY <1>4 DEF Clean
  <2>2. pc[j] = "clean" /\ UNCHANGED todo /\ UNCHANGED outputVars
    BY <1>4 DEF Clean
  <2>3. CASE ~Gate(rows)
    BY <2>1, <2>2, <2>3, GatedKept DEF GateInv, Written, outputVars
  <2>4. CASE Gate(rows)
    <3>1. clean' = [clean EXCEPT ![j] = rows] /\ pc' = [pc EXCEPT ![j] = "overwrite"]
      BY <2>1, <2>4 DEF Goto
    <3>2. \A r \in rows : WellFormed(r)
      BY <2>4 DEF Gate
    <3>3. ASSUME NEW p, Gated(p) PROVE Gated(p)'
      <4>1. p.job # j
        BY <2>2, <3>3 DEF Gated
      <4> QED BY <3>1, <3>3, <4>1 DEF Gated, GateInv
    <3> QED BY <2>2, <3>1, <3>2, <3>3 DEF GateInv, Written, outputVars
  <2> QED BY <2>3, <2>4
<1>5. ASSUME NEW j \in Jobs, Overwrite(j) PROVE GateInv'
  <2>1. todo' = [todo EXCEPT ![j] = PartsOf(j, clean[j])] /\ Written' \subseteq Written
    BY <1>5 DEF Overwrite, Written
  <2>2. Goto(j, "commit") /\ clean' = clean
    BY <1>5 DEF Overwrite
  <2>3. \A p \in PartsOf(j, clean[j]) : Gated(p)'
    BY <2>2 DEF PartsOf, Gated, Goto, GateInv
  <2> QED BY <2>1, <2>2, <2>3, GatedKept DEF GateInv
<1>6. ASSUME NEW j \in Jobs, CommitPart(j) PROVE GateInv'
  <2>1. PICK p \in todo[j] : /\ local' = local \cup {p}
                             /\ todo' = [todo EXCEPT ![j] = @ \ {p}]
                             /\ Goto(j, IF todo[j] = {p} THEN "list" ELSE "commit")
    BY <1>6 DEF CommitPart
  <2>2. PICK label \in {"list", "commit"} : Goto(j, label)
    BY <2>1
  <2>3. clean' = clean /\ processed' = processed /\ Gated(p)
    BY <1>6 DEF CommitPart, GateInv
  <2> QED BY <2>1, <2>2, <2>3, GatedKept DEF GateInv, Written
<1>7. ASSUME NEW j \in Jobs, ListOutput(j) PROVE GateInv'
  <2>1. PICK label \in {"done", "upload"} : Goto(j, label)
    BY <1>7 DEF ListOutput
  <2>2. /\ todo' = [todo EXCEPT ![j] = local]
        /\ clean' = clean
        /\ Written' = Written
    BY <1>7 DEF ListOutput, outputVars, Written
  <2>3. \A p \in local : Gated(p)
    BY DEF GateInv, Written
  <2> QED BY <2>1, <2>2, <2>3, GatedKept DEF GateInv
<1>8. ASSUME NEW j \in Jobs, UploadPart(j) PROVE GateInv'
  <2>1. PICK label \in {"done", "upload", "failed"} : Goto(j, label)
    BY <1>8 DEF UploadPart
  <2>2. PICK p \in todo[j] :
           \/ /\ processed' = processed \cup {p}
              /\ todo' = [todo EXCEPT ![j] = @ \ {p}]
           \/ UNCHANGED <<processed, todo>>
    BY <1>8 DEF UploadPart
  <2>3. clean' = clean /\ local' = local /\ Gated(p)
    BY <1>8 DEF UploadPart, GateInv
  <2> QED BY <2>1, <2>2, <2>3, GatedKept DEF GateInv, Written
<1>9. ASSUME NEW j \in Jobs, Crash(j) PROVE GateInv'
  BY <1>9, GatedKept DEF Crash, GateInv, Written, outputVars
<1>10. CASE UNCHANGED vars
  BY <1>1, <1>10 DEF vars
<1>11. CASE FeedStep
  <2>1. UNCHANGED jobVars /\ UNCHANGED outputVars
    BY <1>11 DEF FeedStep, Edit, Land
  <2> QED BY <1>1, <2>1
<1> QED
  BY <1>2, <1>3, <1>4, <1>5, <1>6, <1>7, <1>8, <1>9, <1>10, <1>11 DEF Next, JobStep

(* No malformed row is ever in the parquet directory or the processed zone,  *)
(* and every row there is one its job's gate has seen: whatever lands while  *)
(* the job runs, however many jobs overlap and wherever they die.            *)
THEOREM GateHoldsAlways == Spec => []GateHolds
<1>1. GateInv => GateHolds
  BY DEF GateInv, GateHolds, Gated
<1>2. Spec => []GateInv
  BY InitGate, NextGate, PTL DEF Spec
<1> QED BY <1>1, <1>2, PTL

-----------------------------------------------------------------------------
(* The last good output.  A job gets to replace the directory only with a    *)
(* batch, never empty, that passed the gate: files have rows, a scan that    *)
(* goes on has files, and dedup keeps a row of every OBJECTID.               *)
GoodBatch(rows) == rows # {} /\ Gate(rows)

OutputInv ==
    /\ pc \in [Jobs -> PcValues]
    /\ clean = [j \in Jobs |-> clean[j]]
    /\ input = [j \in Jobs |-> input[j]]
    /\ \A f \in files : f.rows # {}
    /\ \A j \in Jobs : input[j] \subseteq files
    /\ \A j \in Jobs : pc[j] = "clean" => input[j] # {}
    /\ \A j \in Jobs : pc[j] = "overwrite" => GoodBatch(clean[j])

(* deduplicate keeps something of whatever there is. *)
LEMMA DedupKeepsSome ==
    ASSUME NEW rows, rows # {}, NEW S \in Dedups(rows)
    PROVE  S # {}
<1>1. PICK r0 \in rows : TRUE
  OBVIOUS
<1>2. PICK r \in Latest(rows, r0.oid) : {q \in S : q.oid = r0.oid} = {r}
  BY <1>1 DEF Dedups
<1> QED BY <1>2

(* There is no file at the start. *)
LEMMA InitOutput == Init => OutputInv
BY DEF Init, OutputInv, PcValues

(* No step lands an empty file or plans an empty batch. *)
LEMMA NextOutput == OutputInv /\ [Next]_vars => OutputInv'
<1> SUFFICES ASSUME OutputInv, [Next]_vars PROVE OutputInv'
  OBVIOUS
<1> USE DEF OutputInv, PcValues
<1>1. CASE UNCHANGED vars
  BY <1>1 DEF vars, feedVars, jobVars
<1>2. ASSUME NEW o \in Objects, Edit(o) PROVE OutputInv'
  BY <1>2 DEF Edit, jobVars
<1>3. ASSUME NEW f \in Feeds, Land(f) PROVE OutputInv'
  <2>1. files \subseteq files' /\ \A x \in files' : x.rows # {}
    BY <1>3 DEF Land
  <2> QED BY <1>3, <2>1 DEF Land, jobVars
<1>4. ASSUME NEW j \in Jobs, Start(j) PROVE OutputInv'
  BY <1>4 DEF Start, Goto, feedVars
<1>5. ASSUME NEW j \in Jobs, Scan(j) PROVE OutputInv'
  <2>1. Listed(marker[j]) \subseteq files
    BY DEF Listed, Beyond
  <2>2. input' = [input EXCEPT ![j] = @ \cup Listed(marker[j])]
    BY <1>5 DEF Scan
  <2>3. files' = files /\ clean' = clean
    BY <1>5 DEF Scan, feedVars
  <2>4. PICK label \in {"scan", "failed", "clean"} :
           Goto(j, label) /\ (label = "clean" => input'[j] # {})
    BY <1>5 DEF Scan
  <2> QED BY <2>1, <2>2, <2>3, <2>4 DEF Goto
<1>6. ASSUME NEW j \in Jobs, Clean(j) PROVE OutputInv'
  <2>1. pc[j] = "clean" /\ files' = files /\ input' = input
    BY <1>6 DEF Clean, feedVars
  <2>2. RowsOf(input[j]) # {}
    BY <2>1 DEF RowsOf
  <2>3. PICK rows \in Dedups(RowsOf(input[j])) :
           IF Gate(rows)
           THEN clean' = [clean EXCEPT ![j] = rows] /\ Goto(j, "overwrite")
           ELSE UNCHANGED clean /\ Goto(j, "failed")
    BY <1>6 DEF Clean
  <2>4. rows # {}
    BY <2>2, <2>3, DedupKeepsSome
  <2>5. CASE Gate(rows)
    BY <2>1, <2>3, <2>4, <2>5 DEF Goto, GoodBatch
  <2>6. CASE ~Gate(rows)
    BY <2>1, <2>3, <2>6 DEF Goto
  <2> QED BY <2>5, <2>6
<1>7. ASSUME NEW j \in Jobs, Overwrite(j) \/ CommitPart(j) \/ ListOutput(j)
                               \/ UploadPart(j) \/ Crash(j)
      PROVE  OutputInv'
  <2>1. UNCHANGED <<files, input, clean>>
    BY <1>7 DEF Overwrite, CommitPart, ListOutput, UploadPart, Crash, feedVars
  <2>2. PICK label \in {"commit", "list", "upload", "done", "failed"} : Goto(j, label)
    BY <1>7 DEF Overwrite, CommitPart, ListOutput, UploadPart, Crash
  <2> QED BY <2>1, <2>2 DEF Goto
<1> QED BY <1>1, <1>2, <1>3, <1>4, <1>5, <1>6, <1>7 DEF Next, FeedStep, JobStep

(* Only a job that is about to write a good batch removes files. *)
LEMMA OnlyGoodBatchReplaces ==
    ASSUME OutputInv, [Next]_vars, ~(local \subseteq local')
    PROVE  \E j \in Jobs : pc[j] = "overwrite" /\ clean[j] # {} /\ Gate(clean[j])
<1>1. PICK j \in Jobs : Overwrite(j)
  BY DEF Next, FeedStep, JobStep, Edit, Land, Start, Scan, Clean, CommitPart,
         ListOutput, UploadPart, Crash, vars, outputVars
<1>2. pc[j] = "overwrite"
  BY <1>1 DEF Overwrite
<1> QED BY <1>2 DEF OutputInv, GoodBatch

(* A rejected batch leaves the last good output in place: files disappear    *)
(* only when a job is about to write a non-empty batch that passed the gate. *)
THEOREM LastGoodOutputKeptAlways == Spec => LastGoodOutputKept
<1>1. Spec => []OutputInv
  BY InitOutput, NextOutput, PTL DEF Spec
<1>2. OutputInv /\ [Next]_vars =>
        [~(local \subseteq local') =>
           \E j \in Jobs : pc[j] = "overwrite" /\ clean[j] # {} /\ Gate(clean[j])]_vars
  BY OnlyGoodBatchReplaces
<1> QED BY <1>1, <1>2, PTL DEF Spec, LastGoodOutputKept

-----------------------------------------------------------------------------
(* What a job scans, makes of it and publishes: TypeOK and JobInv.           *)

FileType == [feed : Feeds, part : 0..(MaxParts - 1), rows : SUBSET Rows]

(* Every file's key is beyond the start of a listing.                        *)
LEMMA KeysArePositive ==
    ASSUME NEW f \in FileType
    PROVE  KeyOf(f) \in Nat /\ KeyOf(f) > 0
<1>1. f.feed \in Nat /\ f.feed > 0 /\ f.part \in Nat /\ MaxParts \in Nat /\ MaxParts > 0
  <2>1. f.feed \in Feeds /\ f.part \in 0..(MaxParts - 1)
    BY DEF FileType
  <2>2. MaxParts \in Nat /\ MaxParts > 0
    BY TransformAssumption
  <2>3. f.feed \in Nat /\ f.feed # 0
    BY <2>1, TransformAssumption
  <2>4. f.part \in Nat
    BY <2>1, <2>2
  <2>5. \A n \in Nat : n # 0 => n > 0
    OBVIOUS
  <2> QED BY <2>2, <2>3, <2>4, <2>5
<1>2. ASSUME NEW a \in Nat, NEW b \in Nat, a > 0, b > 0 PROVE a * b \in Nat /\ a * b > 0
  BY <1>2
<1>3. f.feed * MaxParts \in Nat /\ f.feed * MaxParts > 0
  BY <1>1, <1>2
<1> QED BY <1>1, <1>3 DEF KeyOf

(* What one answer of the listing means for what is already there: after it  *)
(* nothing up to the new marker is missing, and after the last one nothing.  *)
LEMMA AnswerIsComplete ==
    ASSUME IsFiniteSet(files), files \subseteq FileType, NEW m \in Nat
    PROVE  /\ Listed(m) \subseteq files
           /\ NextMarker(m) \in Nat
           /\ \A f \in files : KeyOf(f) > m /\ KeyOf(f) <= NextMarker(m) => f \in Listed(m)
           /\ LastAnswer(m) => \A f \in files : KeyOf(f) > m => f \in Listed(m)
<1> DEFINE UpTo(f) == {g \in Beyond(m) : KeyOf(g) <= KeyOf(f)}
<1>1. Beyond(m) \subseteq files /\ IsFiniteSet(Beyond(m))
  BY FS_Subset DEF Beyond
<1>2. \A f \in files : KeyOf(f) \in Nat
  BY KeysArePositive
<1>3. \A f \in Beyond(m) : f \in Listed(m) <=> Cardinality(UpTo(f)) <= ListPage
  BY DEF Listed
<1>4. Listed(m) \subseteq Beyond(m)
  BY DEF Listed
<1>5. ASSUME NEW f \in Beyond(m), NEW g \in Listed(m), KeyOf(f) <= KeyOf(g)
      PROVE  f \in Listed(m)
  <2>1. UpTo(f) \subseteq UpTo(g)
    <3>1. \A h \in Beyond(m) : KeyOf(h) <= KeyOf(f) => KeyOf(h) <= KeyOf(g)
      BY <1>1, <1>2, <1>4, <1>5
    <3> QED BY <3>1
  <2>2. IsFiniteSet(UpTo(g))
    BY <1>1, FS_Subset
  <2>3. /\ Cardinality(UpTo(f)) <= Cardinality(UpTo(g))
        /\ Cardinality(UpTo(f)) \in Nat /\ Cardinality(UpTo(g)) \in Nat
    <3> HIDE DEF UpTo
    <3> QED BY <2>1, <2>2, SubsetCardinality
  <2>4. Cardinality(UpTo(g)) <= ListPage
    BY <1>3, <1>4
  <2> HIDE DEF UpTo
  <2> QED BY TransformAssumption, <1>3, <2>3, <2>4
<1>6. \E k \in {m} \cup {KeyOf(f) : f \in Listed(m)} : \A f \in Listed(m) : KeyOf(f) <= k
  <2> DEFINE Keys == {m} \cup {KeyOf(f) : f \in Listed(m)}
  <2>1. IsFiniteSet(Keys)
    <3>1. IsFiniteSet(Listed(m))
      BY <1>1, <1>4, FS_Subset
    <3>2. IsFiniteSet({KeyOf(f) : f \in Listed(m)})
      <4> DEFINE Image == {KeyOf(f) : f \in Listed(m)}
                 key == [f \in Listed(m) |-> KeyOf(f)]
      <4>1. key \in Surjection(Listed(m), Image)
        BY DEF Surjection
      <4> HIDE DEF Image, key
      <4>2. IsFiniteSet(Image)
        BY <3>1, <4>1, FS_Surjection
      <4> QED BY <4>2 DEF Image
    <3>3. IsFiniteSet({m})
      BY FS_Singleton
    <3> HIDE DEF Keys
    <3> QED BY <3>2, <3>3, FS_Union DEF Keys
  <2>2. Keys \subseteq Int /\ Keys # {}
    BY <1>1, <1>2, <1>4
  <2>3. PICK k \in Keys : \A v \in Keys : v <= k
    <3> HIDE DEF Keys
    <3> QED BY <2>1, <2>2, LargestExists
  <2> QED BY <2>3
<1>7. /\ NextMarker(m) \in {m} \cup {KeyOf(f) : f \in Listed(m)}
      /\ \A f \in Listed(m) : KeyOf(f) <= NextMarker(m)
  BY <1>6 DEF NextMarker
<1>8. ASSUME NEW f \in files, KeyOf(f) > m, KeyOf(f) <= NextMarker(m)
      PROVE  f \in Listed(m)
  <2>1. f \in Beyond(m) /\ KeyOf(f) \in Nat
    BY <1>2, <1>8 DEF Beyond
  <2>2. NextMarker(m) # m
    BY <1>8, <2>1
  <2>3. PICK g \in Listed(m) : NextMarker(m) = KeyOf(g)
    BY <1>7, <2>2
  <2> QED BY <1>5, <1>8, <2>1, <2>3
<1>9. ASSUME LastAnswer(m), NEW f \in files, KeyOf(f) > m
      PROVE  f \in Listed(m)
  <2>1. f \in Beyond(m)
    BY <1>9 DEF Beyond
  <2>2. /\ Cardinality(UpTo(f)) <= Cardinality(Beyond(m))
        /\ Cardinality(UpTo(f)) \in Nat /\ Cardinality(Beyond(m)) \in Nat
    <3>1. UpTo(f) \subseteq Beyond(m)
      OBVIOUS
    <3> HIDE DEF UpTo
    <3> QED BY <1>1, <3>1, SubsetCardinality
  <2>3. Cardinality(Beyond(m)) <= ListPage
    BY <1>9 DEF LastAnswer
  <2> HIDE DEF UpTo
  <2> QED BY TransformAssumption, <1>3, <2>1, <2>2, <2>3
<1>10. NextMarker(m) \in Nat
  BY <1>1, <1>2, <1>4, <1>7
<1> QED BY <1>1, <1>4, <1>8, <1>9, <1>10

(* deduplicate returns one row per OBJECTID, the latest created.             *)
LEMMA DedupIsCleanOf ==
    ASSUME NEW rows, NEW batch \in Dedups(rows)
    PROVE  CleanOf(batch, rows)
<1>1. batch \subseteq rows
  BY DEF Dedups
<1>2. \A r \in rows : \E q \in Latest(rows, r.oid) : {x \in batch : x.oid = r.oid} = {q}
  BY DEF Dedups
<1>3. ASSUME NEW r \in batch, NEW q \in batch, r.oid = q.oid PROVE r = q
  <2>1. PICK l : {x \in batch : x.oid = r.oid} = {l}
    BY <1>1, <1>2
  <2>2. r \in {x \in batch : x.oid = r.oid} /\ q \in {x \in batch : x.oid = r.oid}
    BY <1>3
  <2> QED BY <2>1, <2>2
<1>4. ASSUME NEW r \in rows PROVE \E q \in batch : q.oid = r.oid /\ q.created >= r.created
  <2>1. PICK q \in Latest(rows, r.oid) : {x \in batch : x.oid = r.oid} = {q}
    BY <1>2
  <2>2. q \in batch /\ q.oid = r.oid
    BY <2>1
  <2>3. r.created <= q.created
    BY <2>1 DEF Latest
  <2> QED BY <2>2, <2>3
<1> QED BY <1>1, <1>3, <1>4 DEF CleanOf, Unique

-----------------------------------------------------------------------------
(* TypeOK and FilesInv, step by step. *)

(* The first state is well typed. *)
LEMMA InitTyped == Init => TypeOK /\ FilesInv
<1> SUFFICES ASSUME Init PROVE TypeOK /\ FilesInv
  OBVIOUS
<1>1. source \in [Objects -> Rows]
  BY DEF Init
<1>2. FilesInv
  BY FS_EmptySet DEF Init, FilesInv
<1>3. crashes \in 0..MaxCrashes
  BY TransformAssumption DEF Init
<1> QED BY <1>1, <1>2, <1>3 DEF Init, TypeOK, PcValues

(* Ingestion and the source keep the types. *)
LEMMA FeedKeepsType == TypeOK /\ FilesInv /\ FeedStep => TypeOK' /\ FilesInv'
<1> SUFFICES ASSUME TypeOK, FilesInv, FeedStep PROVE TypeOK' /\ FilesInv'
  OBVIOUS
<1>1. ASSUME NEW o \in Objects, Edit(o) PROVE TypeOK' /\ FilesInv'
  BY <1>1 DEF Edit, TypeOK, FilesInv, jobVars, outputVars
<1>2. ASSUME NEW f \in Feeds, Land(f) PROVE TypeOK' /\ FilesInv'
  <2> DEFINE part == Cardinality({x \in files : x.feed = f})
  <2>1. part \in Nat
    BY FS_Subset, FS_CardinalityType DEF FilesInv
  <2>2. PICK rows \in SUBSET {source[o] : o \in Objects} :
           /\ rows # {}
           /\ files' = files \cup {[feed |-> f, part |-> part, rows |-> rows]}
    BY <1>2 DEF Land
  <2>3. part < MaxParts /\ UNCHANGED <<source, jobVars, outputVars, crashes>>
    BY <1>2 DEF Land
  <2> HIDE DEF part
  <2>4. part \in 0..(MaxParts - 1)
    BY <2>1, <2>3, TransformAssumption
  <2>5. rows \in SUBSET Rows
    BY DEF TypeOK
  <2>6. files' \subseteq FileType /\ files \subseteq files'
    BY <2>2, <2>4, <2>5 DEF TypeOK, FileType
  <2>7. FilesInv'
    <3>1. IsFiniteSet({[feed |-> f, part |-> part, rows |-> rows]})
      BY FS_Singleton
    <3>2. IsFiniteSet(files')
      BY <2>2, <3>1, FS_Union DEF FilesInv
    <3> QED BY <2>2, <3>2 DEF FilesInv
  <2> QED BY <2>3, <2>6, <2>7 DEF TypeOK, FileType, jobVars, outputVars
<1> QED BY <1>1, <1>2 DEF FeedStep

(* The three ways an answer of the listing leaves a scan. *)
LEMMA ScanOutcome ==
    ASSUME NEW j \in Jobs, Scan(j)
    PROVE  \/ Goto(j, "scan")
           \/ Goto(j, "clean") /\ LastAnswer(marker[j])
           \/ Goto(j, "failed") /\ LastAnswer(marker[j]) /\ input'[j] = {}
BY DEF Scan

(* A step of a job keeps the types. *)
LEMMA JobKeepsType ==
    ASSUME TypeOK, FilesInv, NEW j \in Jobs, Start(j) \/ JobStep(j) \/ Crash(j)
    PROVE  TypeOK' /\ FilesInv'
<1> USE DEF Goto, PcValues, feedVars, outputVars
<1>1. CASE Start(j)
  BY <1>1 DEF Start, TypeOK, FilesInv
<1>2. CASE Scan(j)
  <2>1. Listed(marker[j]) \subseteq files /\ NextMarker(marker[j]) \in Nat
    BY AnswerIsComplete DEF TypeOK, FilesInv, FileType
  <2>2. pc' \in [Jobs -> PcValues]
    BY <1>2, ScanOutcome DEF TypeOK
  <2> QED BY <1>2, <2>1, <2>2 DEF Scan, TypeOK, FilesInv
<1>3. CASE Clean(j)
  <2>1. PICK rows \in Dedups(RowsOf(input[j])) :
           IF Gate(rows)
           THEN clean' = [clean EXCEPT ![j] = rows] /\ Goto(j, "overwrite")
           ELSE UNCHANGED clean /\ Goto(j, "failed")
    BY <1>3 DEF Clean
  <2>2. rows \subseteq Rows
    <3>1. rows \subseteq RowsOf(input[j])
      BY DEF Dedups
    <3>2. \A f \in input[j] : f.rows \subseteq Rows
      BY DEF TypeOK
    <3> QED BY <3>1, <3>2 DEF RowsOf
  <2>3. clean' \in [Jobs -> SUBSET Rows] /\ pc' \in [Jobs -> PcValues]
    BY <2>1, <2>2 DEF TypeOK
  <2> QED BY <1>3, <2>3 DEF Clean, TypeOK, FilesInv
<1>4. CASE Overwrite(j)
  <2>1. PartsOf(j, clean[j]) \subseteq PartFiles
    BY DEF PartsOf, PartFiles, TypeOK
  <2> QED BY <1>4, <2>1 DEF Overwrite, TypeOK, FilesInv
<1>5. CASE CommitPart(j)
  <2>1. local' \subseteq PartFiles /\ todo' \in [Jobs -> SUBSET PartFiles]
    BY <1>5 DEF CommitPart, TypeOK
  <2>2. last' \in Jobs \cup {"nobody", "several"} /\ pc' \in [Jobs -> PcValues]
    BY <1>5 DEF CommitPart, Owner, TypeOK
  <2> QED BY <1>5, <2>1, <2>2 DEF CommitPart, TypeOK, FilesInv
<1>6. CASE ListOutput(j)
  BY <1>6 DEF ListOutput, TypeOK, FilesInv
<1>7. CASE UploadPart(j)
  <2>1. processed' \subseteq PartFiles /\ todo' \in [Jobs -> SUBSET PartFiles]
    BY <1>7 DEF UploadPart, TypeOK
  <2>2. pc' \in [Jobs -> PcValues]
    BY <1>7 DEF UploadPart, TypeOK
  <2> QED BY <1>7, <2>1, <2>2 DEF UploadPart, TypeOK, FilesInv
<1>8. CASE Crash(j)
  <2>1. crashes' \in 0..MaxCrashes
    BY <1>8, TransformAssumption DEF Crash, TypeOK
  <2> QED BY <1>8, <2>1 DEF Crash, TypeOK, FilesInv
<1> QED BY <1>1, <1>2, <1>3, <1>4, <1>5, <1>6, <1>7, <1>8 DEF JobStep

-----------------------------------------------------------------------------
(* JobInv, one job at a time. *)

(* FailsForAReason of one job. *)
Excused(j) ==
    pc[j] = "failed" =>
        \/ crashes > 0
        \/ before[j] = {}
        \/ \E r \in RowsOf(input[j]) : ~WellFormed(r)
        \/ todo[j] # {} /\ last # j

OneJob(j) == ScanInv(j) /\ CleanInv(j) /\ WriteInv(j) /\ Excused(j)

(* JobInv can be proved one job at a time. *)
LEMMA JobByJob == JobInv <=> FilesInv /\ \A j \in Jobs : OneJob(j)
BY DEF JobInv, FailsForAReason, OneJob, Excused

(* What every step of another actor leaves of job j.                         *)
Untouched(j) ==
    /\ UNCHANGED <<pc[j], marker[j], input[j], clean[j], todo[j], before[j]>>
    /\ last' = j => last = j /\ local' = local
    /\ processed \subseteq processed'
    /\ crashes \in Nat /\ crashes' \in Nat /\ crashes' >= crashes

(* A job is well while nobody touches its variables or its directory. *)
LEMMA UntouchedKeeps ==
    ASSUME NEW j \in Jobs, OneJob(j), Untouched(j)
    PROVE  OneJob(j)'
<1>1. /\ pc'[j] = pc[j] /\ marker'[j] = marker[j] /\ input'[j] = input[j]
      /\ clean'[j] = clean[j] /\ todo'[j] = todo[j] /\ before'[j] = before[j]
  BY DEF Untouched
<1>2. ScanInv(j)'
  BY <1>1 DEF OneJob, ScanInv, KeyOf
<1>3. CleanInv(j)'
  BY <1>1 DEF OneJob, CleanInv
<1>4. WriteInv(j)'
  BY <1>1 DEF OneJob, WriteInv, Untouched
<1>5. Excused(j)'
  BY <1>1 DEF OneJob, Excused, Untouched
<1> QED BY <1>2, <1>3, <1>4, <1>5 DEF OneJob

(* A step of another job touches j's only by taking the directory away. *)
LEMMA OthersUntouched ==
    ASSUME TypeOK, TypeOK', NEW j \in Jobs, NEW q \in Jobs, q # j,
           Start(q) \/ JobStep(q) \/ Crash(q)
    PROVE  Untouched(j)
<1> USE DEF Goto, feedVars, outputVars
<1>1. UNCHANGED <<pc[j], marker[j], input[j], clean[j], todo[j], before[j]>>
  BY DEF JobStep, Start, Scan, Clean, Overwrite, CommitPart, ListOutput, UploadPart,
         Crash, TypeOK
<1>2. j # "several"
  BY TransformAssumption
<1>3. last' = j => last = j /\ local' = local
  BY <1>2 DEF JobStep, Start, Scan, Clean, Overwrite, CommitPart, ListOutput,
              UploadPart, Crash, Owner
<1>4. processed \subseteq processed'
  BY DEF JobStep, Start, Scan, Clean, Overwrite, CommitPart, ListOutput, UploadPart,
         Crash
<1>5. crashes \in Nat /\ crashes' \in Nat
  BY TransformAssumption DEF TypeOK
<1>6. crashes' >= crashes
  BY <1>5 DEF JobStep, Start, Scan, Clean, Overwrite, CommitPart, ListOutput,
              UploadPart, Crash
<1> QED BY <1>1, <1>3, <1>4, <1>5, <1>6 DEF Untouched

(* One answer of the listing adds every file up to the new marker. *)
LEMMA ScanKeeps ==
    ASSUME TypeOK, FilesInv, NEW j \in Jobs, OneJob(j), Scan(j)
    PROVE  OneJob(j)'
<1> DEFINE m == marker[j]
<1>1. pc[j] = "scan" /\ before' = before /\ m \in Nat
  BY DEF Scan, TypeOK
<1>2. input'[j] = input[j] \cup Listed(m) /\ marker'[j] = NextMarker(m)
  BY DEF Scan, TypeOK
<1>3. before[j] \subseteq files /\ files \subseteq FileType
  BY DEF TypeOK, FileType
<1>4. \A f \in before[j] : KeyOf(f) <= m => f \in input[j]
  BY <1>1 DEF OneJob, ScanInv
<1>5. \A f \in files : KeyOf(f) \in Nat
  BY <1>3, KeysArePositive
<1>6. ASSUME NEW f \in before[j], KeyOf(f) <= NextMarker(m) \/ LastAnswer(m)
      PROVE  f \in input'[j]
  <2>1. KeyOf(f) <= m \/ KeyOf(f) > m
    BY <1>1, <1>3, <1>5
  <2>2. CASE KeyOf(f) <= m
    BY <1>2, <1>4, <2>2
  <2>3. CASE KeyOf(f) > m
    BY <1>1, <1>2, <1>3, <1>6, <2>3, AnswerIsComplete DEF FilesInv
  <2> QED BY <2>1, <2>2, <2>3
<1>7. CASE Goto(j, "scan")
  <2>1. pc'[j] = "scan"
    BY <1>7 DEF Goto, TypeOK
  <2>2. ScanInv(j)'
    BY <1>1, <1>2, <1>6, <2>1 DEF ScanInv, KeyOf
  <2> QED BY <2>1, <2>2 DEF OneJob, CleanInv, WriteInv, Excused
<1>8. CASE Goto(j, "clean") /\ LastAnswer(m)
  <2>1. pc'[j] = "clean"
    BY <1>8 DEF Goto, TypeOK
  <2>2. ScanInv(j)'
    BY <1>1, <1>6, <1>8, <2>1 DEF ScanInv
  <2> QED BY <2>1, <2>2 DEF OneJob, CleanInv, WriteInv, Excused
<1>9. CASE Goto(j, "failed") /\ LastAnswer(m) /\ input'[j] = {}
  <2>1. pc'[j] = "failed"
    BY <1>9 DEF Goto, TypeOK
  <2>2. before'[j] = {}
    BY <1>1, <1>6, <1>9
  <2> QED BY <2>1, <2>2 DEF OneJob, ScanInv, CleanInv, WriteInv, Excused
<1> QED BY <1>7, <1>8, <1>9, ScanOutcome

(* A job starts with nothing scanned and all it must see noted. *)
LEMMA StartKeeps ==
    ASSUME TypeOK, NEW j \in Jobs, OneJob(j), Start(j)
    PROVE  OneJob(j)'
<1>1. pc[j] = "idle" /\ pc'[j] = "scan" /\ before'[j] = files
  BY DEF Start, Goto, TypeOK
<1>2. marker'[j] = 0
  BY <1>1 DEF Start, OneJob, ScanInv
<1>3. ScanInv(j)'
  <2>1. \A f \in files : KeyOf(f) \in Nat /\ KeyOf(f) > 0
    BY KeysArePositive DEF TypeOK, FileType
  <2>2. \A f \in before'[j] : ~(KeyOf(f) <= 0)
    BY <1>1, <2>1
  <2> QED BY <1>1, <1>2, <2>2 DEF ScanInv, KeyOf
<1> QED BY <1>1, <1>3 DEF OneJob, CleanInv, WriteInv, Excused

(* dedup and the gate make of the scanned rows one per OBJECTID, or the job  *)
(* fails for a malformed row.                                                *)
LEMMA CleanKeeps ==
    ASSUME TypeOK, NEW j \in Jobs, OneJob(j), Clean(j)
    PROVE  OneJob(j)'
<1>1. PICK rows \in Dedups(RowsOf(input[j])) :
         IF Gate(rows)
         THEN clean' = [clean EXCEPT ![j] = rows] /\ Goto(j, "overwrite")
         ELSE UNCHANGED clean /\ Goto(j, "failed")
  BY DEF Clean
<1>2. /\ pc[j] = "clean" /\ input' = input /\ before' = before
      /\ CleanOf(rows, RowsOf(input[j]))
  BY DedupIsCleanOf DEF Clean
<1>3. CASE Gate(rows)
  <2>1. pc'[j] = "overwrite" /\ clean'[j] = rows
    BY <1>1, <1>3 DEF Goto, TypeOK
  <2>2. CleanInv(j)'
    <3>1. RowsOf(input'[j]) = RowsOf(input[j])
      BY <1>2
    <3> QED BY <1>2, <2>1, <3>1 DEF CleanInv
  <2>3. ScanInv(j)'
    BY <1>2, <2>1 DEF OneJob, ScanInv
  <2> QED BY <2>1, <2>2, <2>3 DEF OneJob, WriteInv, Excused
<1>4. CASE ~Gate(rows)
  <2>1. pc'[j] = "failed"
    BY <1>1, <1>4 DEF Goto, TypeOK
  <2>2. \E r \in RowsOf(input[j]) : ~WellFormed(r)
    BY <1>2, <1>4 DEF Gate, CleanOf
  <2>3. Excused(j)'
    <3>1. \A r : WellFormed(r)' <=> WellFormed(r)
      BY DEF WellFormed
    <3> QED BY <1>2, <2>2 DEF Excused
  <2> QED BY <2>1, <2>3 DEF OneJob, ScanInv, CleanInv, WriteInv
<1> QED BY <1>3, <1>4

(* Past the gate a job's input and its batch stay what they are.             *)
LEMMA PastGateKeeps ==
    ASSUME NEW j \in Jobs, OneJob(j),
           pc[j] \in {"overwrite", "commit", "list", "upload"},
           pc'[j] \in {"commit", "list", "upload", "done", "failed"},
           UNCHANGED <<marker, input, clean, before>>
    PROVE  ScanInv(j)' /\ CleanInv(j)'
<1>1. ScanInv(j)'
  BY DEF OneJob, ScanInv
<1>2. CleanInv(j)'
  BY DEF OneJob, CleanInv
<1> QED BY <1>1, <1>2

(* The directory becomes the job's own, empty, with its batch to move in. *)
LEMMA OverwriteKeeps ==
    ASSUME TypeOK, NEW j \in Jobs, OneJob(j), Overwrite(j)
    PROVE  OneJob(j)'
<1>1. pc[j] = "overwrite" /\ pc'[j] = "commit" /\ UNCHANGED <<marker, input, clean, before>>
  BY DEF Overwrite, Goto, TypeOK
<1>2. local' \cup todo'[j] = PartsOf(j, clean'[j])
  BY DEF Overwrite, TypeOK
<1>3. WriteInv(j)'
  BY <1>1, <1>2 DEF WriteInv
<1> QED BY <1>1, <1>3, PastGateKeeps DEF OneJob, Excused

(* A part file that is moved in is one less to move. *)
LEMMA CommitPartKeeps ==
    ASSUME TypeOK, NEW j \in Jobs, OneJob(j), CommitPart(j)
    PROVE  OneJob(j)'
<1>1. PICK p \in todo[j] : /\ local' = local \cup {p}
                           /\ todo' = [todo EXCEPT ![j] = @ \ {p}]
                           /\ Goto(j, IF todo[j] = {p} THEN "list" ELSE "commit")
  BY DEF CommitPart
<1>2. pc[j] = "commit" /\ UNCHANGED <<marker, input, clean, before>> /\ last' = Owner(j)
  BY DEF CommitPart
<1>3. todo'[j] = todo[j] \ {p} /\ pc'[j] = IF todo[j] = {p} THEN "list" ELSE "commit"
  BY <1>1 DEF Goto, TypeOK
<1>4. local' \cup todo'[j] = local \cup todo[j]
  BY <1>1, <1>3
<1>5. last' = j => last = j
  BY <1>2, TransformAssumption DEF Owner
<1>6. ASSUME last' = j PROVE local' \cup todo'[j] = PartsOf(j, clean'[j])
  BY <1>2, <1>4, <1>5, <1>6 DEF OneJob, WriteInv
<1>7. CASE todo[j] = {p}
  <2>1. pc'[j] = "list" /\ todo'[j] = {}
    BY <1>3, <1>7
  <2>2. WriteInv(j)'
    BY <1>6, <2>1 DEF WriteInv
  <2> QED BY <1>2, <2>1, <2>2, PastGateKeeps DEF OneJob, Excused
<1>8. CASE todo[j] # {p}
  <2>1. pc'[j] = "commit"
    BY <1>3, <1>8
  <2>2. WriteInv(j)'
    BY <1>6, <2>1 DEF WriteInv
  <2> QED BY <1>2, <2>1, <2>2, PastGateKeeps DEF OneJob, Excused
<1> QED BY <1>7, <1>8

(* What is listed for upload is what is in the directory. *)
LEMMA ListOutputKeeps ==
    ASSUME TypeOK, NEW j \in Jobs, OneJob(j), ListOutput(j)
    PROVE  OneJob(j)'
<1>1. /\ pc[j] = "list" /\ UNCHANGED <<marker, input, clean, before>>
      /\ UNCHANGED <<local, processed, last>>
  BY DEF ListOutput, outputVars
<1>2. todo'[j] = local /\ pc'[j] = IF local = {} THEN "done" ELSE "upload"
  BY DEF ListOutput, Goto, TypeOK
<1>3. WriteInv(j)'
  BY <1>1, <1>2 DEF OneJob, WriteInv
<1> QED BY <1>1, <1>2, <1>3, PastGateKeeps DEF OneJob, Excused

(* A part file that is uploaded is one less to upload. *)
LEMMA UploadPartKeeps ==
    ASSUME TypeOK, NEW j \in Jobs, OneJob(j), UploadPart(j)
    PROVE  OneJob(j)'
<1>1. PICK p \in todo[j] :
          IF p \in local
          THEN /\ processed' = processed \cup {p}
               /\ todo' = [todo EXCEPT ![j] = @ \ {p}]
               /\ Goto(j, IF todo[j] = {p} THEN "done" ELSE "upload")
          ELSE Goto(j, "failed") /\ UNCHANGED <<processed, todo>>
  BY DEF UploadPart
<1>2. /\ pc[j] = "upload" /\ UNCHANGED <<marker, input, clean, before>>
      /\ UNCHANGED <<local, last>>
  BY DEF UploadPart
<1>3. CASE p \in local
  <2>1. /\ processed' = processed \cup {p} /\ todo'[j] = todo[j] \ {p}
        /\ pc'[j] = IF todo[j] = {p} THEN "done" ELSE "upload"
    BY <1>1, <1>3 DEF Goto, TypeOK
  <2>2. WriteInv(j)'
    BY <1>2, <2>1 DEF OneJob, WriteInv
  <2> QED BY <1>2, <2>1, <2>2, PastGateKeeps DEF OneJob, Excused
<1>4. CASE p \notin local
  <2>1. pc'[j] = "failed" /\ todo' = todo
    BY <1>1, <1>4 DEF Goto, TypeOK
  <2>2. last # j
    BY <1>2, <1>4 DEF OneJob, WriteInv
  <2>3. WriteInv(j)' /\ Excused(j)'
    BY <1>2, <2>1, <2>2 DEF WriteInv, Excused
  <2> QED BY <1>2, <2>1, <2>3, PastGateKeeps DEF OneJob
<1> QED BY <1>3, <1>4

(* A job that dies owes nothing any more. *)
LEMMA CrashKeeps ==
    ASSUME TypeOK, NEW j \in Jobs, OneJob(j), Crash(j)
    PROVE  OneJob(j)'
<1>1. pc'[j] = "failed"
  BY DEF Crash, Goto, TypeOK
<1>2. crashes' > 0
  BY TransformAssumption DEF Crash, TypeOK
<1> QED BY <1>1, <1>2 DEF OneJob, ScanInv, CleanInv, WriteInv, Excused

-----------------------------------------------------------------------------
(* A step of the feed touches no job. *)
LEMMA FeedUntouched ==
    ASSUME TypeOK, FeedStep, NEW j \in Jobs
    PROVE  Untouched(j)
<1>1. UNCHANGED <<jobVars, outputVars, crashes>>
  BY DEF FeedStep, Edit, Land
<1>2. crashes \in Nat
  BY TransformAssumption DEF TypeOK
<1> QED BY <1>1, <1>2 DEF Untouched, jobVars, outputVars

(* No step breaks JobInv. *)
LEMMA NextJobInv == TypeOK /\ JobInv /\ [Next]_vars => TypeOK' /\ JobInv'
<1> SUFFICES ASSUME TypeOK, JobInv, [Next]_vars PROVE TypeOK' /\ JobInv'
  OBVIOUS
<1>1. FilesInv /\ \A j \in Jobs : OneJob(j)
  BY JobByJob
<1>2. JobInv' <=> FilesInv' /\ \A j \in Jobs : OneJob(j)'
  BY DEF JobInv, FailsForAReason, OneJob, Excused
<1>3. CASE UNCHANGED vars
  BY <1>3 DEF vars, feedVars, jobVars, outputVars, TypeOK, JobInv, FilesInv, ScanInv,
              CleanInv, WriteInv, FailsForAReason, KeyOf
<1>4. CASE FeedStep
  <2>1. TypeOK' /\ FilesInv'
    BY <1>1, <1>4, FeedKeepsType
  <2>2. \A j \in Jobs : OneJob(j)'
    BY <1>1, <1>4, FeedUntouched, UntouchedKeeps
  <2> QED BY <1>2, <2>1, <2>2
<1>5. ASSUME NEW q \in Jobs, Start(q) \/ JobStep(q) \/ Crash(q)
      PROVE  TypeOK' /\ JobInv'
  <2>1. TypeOK' /\ FilesInv'
    BY <1>1, <1>5, JobKeepsType
  <2>2. OneJob(q)'
    BY <1>1, <1>5, StartKeeps, ScanKeeps, CleanKeeps, OverwriteKeeps, CommitPartKeeps,
       ListOutputKeeps, UploadPartKeeps, CrashKeeps DEF JobStep
  <2>3. ASSUME NEW j \in Jobs, j # q PROVE OneJob(j)'
    BY <1>1, <1>5, <2>1, <2>3, OthersUntouched, UntouchedKeeps
  <2>4. \A j \in Jobs : OneJob(j)'
    BY <2>2, <2>3
  <2> QED BY <1>2, <2>1, <2>4
<1> QED BY <1>3, <1>4, <1>5 DEF Next

(* JobInv holds before the first job. *)
LEMMA InitJobInv == Init => TypeOK /\ JobInv
<1> SUFFICES ASSUME Init PROVE TypeOK /\ JobInv
  OBVIOUS
<1>1. TypeOK /\ FilesInv
  BY InitTyped
<1>2. \A j \in Jobs : OneJob(j)
  BY TransformAssumption DEF Init, OneJob, ScanInv, CleanInv, WriteInv, Excused
<1> QED BY <1>1, <1>2, JobByJob

(* Every state of the job is well typed, and JobInv holds in it.             *)
THEOREM JobInvariant == Spec => [](TypeOK /\ JobInv)
BY InitJobInv, NextJobInv, PTL DEF Spec

(* The part files of a batch with one row per OBJECTID. *)
LEMMA PartsOfUnique ==
    ASSUME NEW j, NEW batch, Unique(batch)
    PROVE  /\ OnePerObject(PartsOf(j, batch))
           /\ {p.row : p \in PartsOf(j, batch)} = batch
<1>1. \A p \in PartsOf(j, batch) : p.row \in batch /\ p = [job |-> j, row |-> p.row]
  BY DEF PartsOf
<1>2. \A r \in batch : [job |-> j, row |-> r] \in PartsOf(j, batch)
  BY DEF PartsOf
<1>3. OnePerObject(PartsOf(j, batch))
  BY <1>1 DEF OnePerObject, Unique
<1> QED BY <1>1, <1>2, <1>3

(* A job's part of the invariant makes its output complete. *)
LEMMA OutputOfJob ==
    ASSUME TypeOK, JobInv
    PROVE  OutputComplete
<1> SUFFICES ASSUME NEW j \in Jobs, last = j, pc[j] \in {"list", "upload", "done"}
             PROVE  LET rows == {p.row : p \in local}
                    IN  /\ OnePerObject(local)
                        /\ rows \subseteq RowsOf(files)
                        /\ \A r \in RowsOf(before[j]) :
                              \E q \in rows : q.oid = r.oid /\ q.created >= r.created
  BY DEF OutputComplete
<1>1. /\ local = PartsOf(j, clean[j])
      /\ CleanOf(clean[j], RowsOf(input[j]))
      /\ before[j] \subseteq input[j] /\ input[j] \subseteq files
  BY DEF JobInv, ScanInv, CleanInv, WriteInv, TypeOK
<1>2. OnePerObject(local) /\ {p.row : p \in local} = clean[j]
  BY <1>1, PartsOfUnique DEF CleanOf
<1>3. RowsOf(before[j]) \subseteq RowsOf(input[j]) /\ RowsOf(input[j]) \subseteq RowsOf(files)
  BY <1>1 DEF RowsOf
<1> QED BY <1>1, <1>2, <1>3 DEF CleanOf

(* What the loader may read after a job replaced the directory and no other  *)
(* job did is complete: one row per OBJECTID of all that was landed when the *)
(* job started, none older in its creation date, whatever landed during the  *)
(* scan and in however many answers the listing came.                        *)
THEOREM OutputCompleteHolds == Spec => []OutputComplete
BY OutputOfJob, JobInvariant, PTL

(* A job that ended well, and whose output is still there, has uploaded all  *)
(* it computed, whatever other jobs did to the directory before.             *)
THEOREM DoneMeansPublishedHolds == Spec => []DoneMeansPublished
<1>1. TypeOK /\ JobInv => DoneMeansPublished
  BY DEF JobInv, WriteInv, DoneMeansPublished
<1> QED BY <1>1, JobInvariant, PTL

(* A job fails only when it died, when it had nothing to read, when a landed *)
(* row is malformed or when another job replaced what it was uploading.      *)
THEOREM TransformFailsForAReason == Spec => []FailsForAReason
<1>1. TypeOK /\ JobInv => FailsForAReason
  BY DEF JobInv
<1> QED BY <1>1, JobInvariant, PTL
=============================================================================
