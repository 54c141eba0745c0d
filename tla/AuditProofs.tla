----------------------------- MODULE AuditProofs -----------------------------
(***************************************************************************)
(* What the ingestion job records agrees with what it has read: theorems     *)
(* about Ingest over any feed, with rows that come late or age out, for      *)
(* every number of overlapping runs, page size and fault.                    *)
(***************************************************************************)
EXTENDS DeliveryProofs

-----------------------------------------------------------------------------
(* Rank and pages.                                                           *)

(* A row of the page at an offset ranks no higher than the offset and the    *)
(* rows of that page together, however short the page is.                    *)
LEMMA PageRanks ==
    ASSUME NEW W, IsFiniteSet(W), W \subseteq Nat, NEW off \in Nat, NEW n \in Nat,
           NEW o \in PageOf(W, off, n)
    PROVE  Rank(o, W) <= off + Cardinality(PageOf(W, off, n))
<1> DEFINE P == PageOf(W, off, n)
           Below(x) == {p \in W : p <= x}
           A == {p \in Below(o) : Rank(p, W) <= off}
<1>1. \A x \in W : IsFiniteSet(Below(x)) /\ Rank(x, W) = Cardinality(Below(x)) /\ Rank(x, W) \in Nat
  BY SubsetCardinality DEF Rank
<1>2. o \in W /\ P \subseteq W /\ Rank(o, W) <= off + n
  BY DEF PageOf
<1>3. IsFiniteSet(P) /\ Cardinality(P) \in Nat
  BY <1>2, SubsetCardinality
<1>4. IsFiniteSet(A) /\ A \subseteq Int /\ A \subseteq W
  <2>1. A \subseteq W
    OBVIOUS
  <2> HIDE DEF A
  <2>2. IsFiniteSet(A)
    BY <2>1, SubsetCardinality
  <2> QED BY <2>1, <2>2
<1>5. Cardinality(A) \in Nat /\ Cardinality(A) <= off
  <2>1. CASE A = {}
    BY <2>1, FS_EmptySet
  <2>2. CASE A # {}
    <3> HIDE DEF A
    <3>1. PICK m \in A : \A v \in A : v <= m
      BY <1>4, <2>2, LargestExists
    <3>2. A \subseteq Below(m)
      BY <1>4, <3>1
    <3>3. m \in W /\ Rank(m, W) <= off
      BY <1>4, <3>1 DEF A
    <3>4. Cardinality(A) <= Cardinality(Below(m)) /\ Cardinality(A) \in Nat
      BY <1>1, <3>2, <3>3, SubsetCardinality
    <3> QED BY <1>1, <3>3, <3>4
  <2> QED BY <2>1, <2>2
<1>6. Below(o) \subseteq A \cup P
  <2> SUFFICES ASSUME NEW p \in W, p <= o, ~ (Rank(p, W) <= off) PROVE p \in P
    OBVIOUS
  <2>1. p \in Nat /\ o \in Nat
    BY <1>2
  <2>2. Below(p) \subseteq Below(o)
    <3>1. \A x \in W : x \in Nat /\ (x <= p => x <= o)
      BY <2>1
    <3> QED BY <3>1
  <2>3. Cardinality(Below(p)) <= Cardinality(Below(o))
    BY <1>1, <1>2, <2>2, SubsetCardinality
  <2>4. Rank(p, W) <= Rank(o, W) /\ Rank(p, W) \in Nat /\ Rank(o, W) \in Nat
    BY <1>1, <1>2, <2>3
  <2>5. off < Rank(p, W) /\ Rank(p, W) <= off + n
    BY <1>2, <2>4
  <2> QED BY <2>5 DEF PageOf
<1> HIDE DEF A, P
<1>7. /\ IsFiniteSet(A \cup P)
      /\ Cardinality(A \cup P) = Cardinality(A) + Cardinality(P) - Cardinality(A \cap P)
  BY <1>3, <1>4, FS_Union
<1>8. Cardinality(A \cap P) \in Nat
  <2>1. A \cap P \subseteq P
    OBVIOUS
  <2> QED BY <1>3, <2>1, SubsetCardinality
<1>9. Cardinality(Below(o)) <= Cardinality(A \cup P)
  BY <1>6, <1>7, SubsetCardinality
<1>10. Rank(o, W) <= off + Cardinality(P)
  BY <1>1, <1>2, <1>3, <1>5, <1>7, <1>8, <1>9
<1> QED BY <1>10 DEF P

(* Ranks only fall when the rows below a row become fewer.                   *)
LEMMA RankFalls ==
    ASSUME NEW W, IsFiniteSet(W), NEW V, NEW o,
           \A p \in V : p <= o => p \in W
    PROVE  Rank(o, V) <= Rank(o, W) /\ Rank(o, V) \in Nat /\ Rank(o, W) \in Nat
<1>1. {p \in V : p <= o} \subseteq {p \in W : p <= o}
  OBVIOUS
<1>2. IsFiniteSet({p \in W : p <= o})
  BY SubsetCardinality
<1> QED BY <1>1, <1>2, SubsetCardinality DEF Rank

-----------------------------------------------------------------------------
(* What of the invariant a run keeps while it does not move.                 *)

(* Everything AuditInv says of a run, apart from the objects.                *)
Own(q) == <<pc[q], mode[q], since[q], expected[q], offset[q], pages[q], page[q],
            total[q], high[q], seen[q]>>

(* A step of the source moves no row of a window up, and adds only new ones. *)
WindowSettled(q) ==
    \A o \in DOMAIN stamp \cap Window(q)' :
        o \in Window(q) /\ Rank(o, Window(q)') <= Rank(o, Window(q))
                        /\ Rank(o, Window(q)') \in Nat /\ Rank(o, Window(q)) \in Nat

(* What is equal as a tuple is equal part by part. *)
LEMMA OwnIs ==
    ASSUME NEW q \in Runs, Own(q)' = Own(q)
    PROVE  /\ pc'[q] = pc[q] /\ mode'[q] = mode[q] /\ since'[q] = since[q]
           /\ expected'[q] = expected[q] /\ offset'[q] = offset[q] /\ pages'[q] = pages[q]
           /\ page'[q] = page[q] /\ total'[q] = total[q] /\ high'[q] = high[q]
           /\ seen'[q] = seen[q]
BY DEF Own

(* While the feed stands still a run's predicate selects the same rows. *)
LEMMA WindowKept ==
    ASSUME TypeOK, NEW q \in Runs, UNCHANGED <<stamp, live>>, since'[q] = since[q]
    PROVE  Window(q)' = Window(q) /\ WindowSettled(q)
<1>1. Window(q)' = Window(q)
  BY DEF Window, Selected, Matches, Trunc
<1>2. \A o \in Window(q) : Rank(o, Window(q)) \in Nat
  <2>1. IsFiniteSet(Window(q))
    BY FiniteRows DEF TypeOK, LayerTypeOK, Window, Selected
  <2> QED BY <2>1, RankFalls
<1> QED BY <1>1, <1>2 DEF WindowSettled

(* Rows that were below an offset stay below it: a row that ages out only    *)
(* moves others down, and a new one comes after them.                        *)
LEMMA BelowOffsetKept ==
    ASSUME NEW q \in Runs, WindowSettled(q), NEW rows, rows \subseteq DOMAIN stamp,
           NEW off \in Nat, BelowOffset(q, rows, off)
    PROVE  \A o \in rows \cap Window(q)' : Rank(o, Window(q)') <= off
<1> SUFFICES ASSUME NEW o \in rows, o \in Window(q)' PROVE Rank(o, Window(q)') <= off
  OBVIOUS
<1>1. /\ o \in Window(q) /\ Rank(o, Window(q)') <= Rank(o, Window(q))
      /\ Rank(o, Window(q)') \in Nat /\ Rank(o, Window(q)) \in Nat
  BY DEF WindowSettled
<1>2. Rank(o, Window(q)) <= off
  BY <1>1 DEF BelowOffset
<1> QED BY <1>1, <1>2

(* A run that does nothing stays as it is, whatever others and the source    *)
(* do.                                                                       *)
LEMMA IdleRunKept ==
    ASSUME TypeOK, NEW q \in Runs, Own(q)' = Own(q), PagesOf(q)' = PagesOf(q),
           WindowSettled(q), ObjectsAgree(q), ReadOnce(q)
    PROVE  /\ ObjectsAgree(q)' /\ ReadOnce(q)'
           /\ Manifest(q)' = Manifest(q) /\ Status(q)' = Status(q)
<1>1. /\ page[q] \subseteq DOMAIN stamp /\ seen[q] \subseteq DOMAIN stamp /\ offset[q] \in Nat
      /\ offset[q] + Cardinality(page[q]) \in Nat
  <2>1. page[q] \subseteq DOMAIN stamp /\ seen[q] \subseteq DOMAIN stamp /\ offset[q] \in Nat
    BY DEF TypeOK, RunTypeOK
  <2>2. Cardinality(page[q]) \in Nat
    BY <2>1, FiniteRows DEF TypeOK, LayerTypeOK
  <2> QED BY <2>1, <2>2
<1>2. Keys(q)' = Keys(q) /\ Status(q)' = Status(q)
  BY OwnIs DEF Keys, Status
<1>3. Manifest(q)' = Manifest(q)
  BY OwnIs, <1>2 DEF Manifest
<1>4. ObjectsAgree(q)'
  BY OwnIs, <1>2 DEF ObjectsAgree
<1>5. pc[q] = "fetch" => BelowOffset(q, seen[q], offset[q])'
  <2> SUFFICES ASSUME pc[q] = "fetch" PROVE BelowOffset(q, seen[q], offset[q])'
    OBVIOUS
  <2>1. \A o \in seen[q] \cap Window(q)' : Rank(o, Window(q)') <= offset[q]
    BY <1>1, BelowOffsetKept DEF ReadOnce
  <2> QED BY <2>1, OwnIs DEF BelowOffset, Rank
<1>6. pc[q] = "land" =>
          BelowOffset(q, seen[q] \cup page[q], offset[q] + Cardinality(page[q]))'
  <2> SUFFICES ASSUME pc[q] = "land"
               PROVE  BelowOffset(q, seen[q] \cup page[q], offset[q] + Cardinality(page[q]))'
    OBVIOUS
  <2>1. \A o \in (seen[q] \cup page[q]) \cap Window(q)' :
            Rank(o, Window(q)') <= offset[q] + Cardinality(page[q])
    BY <1>1, BelowOffsetKept DEF ReadOnce
  <2> QED BY <2>1, OwnIs DEF BelowOffset, Rank
<1>7. ReadOnce(q)'
  BY <1>5, <1>6, OwnIs DEF ReadOnce, NotBegun
<1> QED BY <1>2, <1>3, <1>4, <1>7

-----------------------------------------------------------------------------
(* Steps of a run.                                                           *)

(* A run that has recorded something has ended, or has only its watermark    *)
(* still to write.                                                           *)
Recorded(r) == pc[r] \in {"advance", "done", "failed"}

(* What a step of run r must show for AuditInv to hold after it: nothing of  *)
(* another run changes.                                                      *)
LEMMA ConcludeAudit ==
    ASSUME TypeOK, AuditInv, NEW r \in Runs, UNCHANGED <<stamp, live>>,
           \A q \in Runs \ {r} : Own(q)' = Own(q) /\ PagesOf(q)' = PagesOf(q),
           FreshKeys', ObjectsAgree(r)', ReadOnce(r)', StageAgrees(r)',
           \A m \in manifests : m.run # r => m \in manifests',
           \A m \in manifests' : IF m.run = r THEN m = Manifest(r)' /\ Recorded(r)' /\ ~mode'[r].dry
                                              ELSE m \in manifests,
           writer' # "nobody" =>
              \/ /\ writer' = r /\ pc'[r] = "done" /\ HasManifest(r)'
                 /\ watermark' = high'[r] /\ Status(r)' = "ok"
              \/ writer' = writer /\ writer' # r /\ watermark' = watermark
    PROVE  AuditInv'
<1>1. ASSUME NEW q \in Runs, q # r
      PROVE  /\ pc'[q] = pc[q] /\ mode'[q] = mode[q] /\ high'[q] = high[q]
             /\ ObjectsAgree(q)' /\ ReadOnce(q)'
             /\ Manifest(q)' = Manifest(q) /\ Status(q)' = Status(q)
             /\ HasManifest(q) => HasManifest(q)'
  <2>1. Own(q)' = Own(q) /\ PagesOf(q)' = PagesOf(q) /\ ObjectsAgree(q) /\ ReadOnce(q)
    BY <1>1 DEF AuditInv
  <2>2. WindowSettled(q)
    BY <2>1, OwnIs, WindowKept
  <2>3. /\ ObjectsAgree(q)' /\ ReadOnce(q)' /\ Manifest(q)' = Manifest(q)
        /\ Status(q)' = Status(q)
    BY <2>1, <2>2, IdleRunKept
  <2>4. Manifest(q).run = q
    BY DEF Manifest
  <2> QED BY <1>1, <2>1, <2>3, <2>4, OwnIs DEF HasManifest
<1>2. ASSUME NEW q \in Runs, q # r PROVE StageAgrees(q)'
  BY <1>1, <1>2 DEF AuditInv, StageAgrees
<1>3. ASSUME NEW m \in manifests', m.run # r
      PROVE  /\ m = Manifest(m.run)' /\ ~mode'[m.run].dry
             /\ pc'[m.run] \in {"advance", "done", "failed"}
  <2>1. m \in manifests /\ m.run \in Runs
    BY <1>3 DEF TypeOK, StoreTypeOK
  <2>2. /\ m = Manifest(m.run) /\ ~mode[m.run].dry
        /\ pc[m.run] \in {"advance", "done", "failed"}
    BY <2>1 DEF AuditInv
  <2> QED BY <1>1, <1>3, <2>1, <2>2
<1>4. ASSUME writer' # "nobody"
      PROVE  /\ pc'[writer'] = "done" /\ HasManifest(writer)'
             /\ watermark' = high'[writer'] /\ Status(writer)' = "ok"
  <2>1. CASE writer' = r /\ pc'[r] = "done" /\ HasManifest(r)'
                /\ watermark' = high'[r] /\ Status(r)' = "ok"
    BY <2>1 DEF HasManifest, Manifest, Status, Keys
  <2>2. CASE writer' = writer /\ writer' # r /\ watermark' = watermark
    <3>1. writer \in Runs
      BY <1>4, <2>2 DEF TypeOK, StoreTypeOK
    <3>2. /\ pc[writer] = "done" /\ HasManifest(writer)
          /\ watermark = high[writer] /\ Status(writer) = "ok"
      BY <1>4, <2>2 DEF AuditInv
    <3>3. /\ pc'[writer] = pc[writer] /\ high'[writer] = high[writer]
          /\ HasManifest(writer)' /\ Status(writer)' = Status(writer)
      BY <1>1, <2>2, <3>1, <3>2
    <3> QED BY <2>2, <3>2, <3>3 DEF HasManifest, Manifest, Status, Keys
  <2> QED BY <1>4, <2>1, <2>2
<1>5. \A q \in Runs : ObjectsAgree(q)' /\ ReadOnce(q)' /\ StageAgrees(q)'
  BY <1>1, <1>2
<1>6. \A m \in manifests' :
          /\ m = Manifest(m.run)' /\ ~mode'[m.run].dry
          /\ pc'[m.run] \in {"advance", "done", "failed"}
  BY <1>3 DEF Recorded, Manifest, Status, Keys
<1> QED BY <1>4, <1>5, <1>6 DEF AuditInv, HasManifest, Manifest, Status, Keys

(* Before a run stores its manifest nothing names it.                        *)
LEMMA NothingRecorded ==
    ASSUME AuditInv, NEW r \in Runs, ~Recorded(r)
    PROVE  (\A m \in manifests : m.run # r) /\ (writer # "nobody" => writer # r)
BY DEF AuditInv, Recorded

(* A run's moves along its stages that touch neither its tally nor the store. *)
Stages(r, label) ==
    \/ label = "failed" /\ pc[r] # "done"
    \/ label = pc[r] /\ ~Recorded(r)
    \/ NotBegun(r) /\ label \in {"resolve", "window"}
    \/ NotBegun(r) /\ label \in {"head_bucket", "create_bucket"} /\ ~mode[r].dry
    \/ pc[r] = "fetch" /\ label = "manifest"
    \/ pc[r] = "manifest" /\ label = "done" /\ mode[r].dry

(* A step that only moves a run to its next stage disturbs no record. *)
LEMMA StageKeepsAudit ==
    ASSUME TypeOK, AuditInv, NEW r \in Runs, NEW label, Stages(r, label),
           UNCHANGED <<stamp, live, raw, manifests, watermark, writer>>,
           UNCHANGED <<mode, since, expected, offset, pages, page, total, high, seen>>,
           pc' = [pc EXCEPT ![r] = label]
    PROVE  AuditInv'
<1>1. pc'[r] = label /\ \A q \in Runs \ {r} : pc'[q] = pc[q]
  BY DEF TypeOK, RunTypeOK
<1>2. \A q \in Runs \ {r} : Own(q)' = Own(q) /\ PagesOf(q)' = PagesOf(q)
  BY <1>1 DEF Own, PagesOf
<1>3. FreshKeys' /\ Keys(r)' = Keys(r) /\ Status(r)' = Status(r)
  BY DEF AuditInv, FreshKeys, Keys, Status
<1>4. Manifest(r)' = Manifest(r)
  BY <1>3 DEF Manifest
<1>5. ObjectsAgree(r)'
  BY <1>3 DEF AuditInv, ObjectsAgree, PagesOf
<1>6. Window(r)' = Window(r)
  BY WindowKept
<1>7. ReadOnce(r)'
  BY <1>1, <1>6 DEF AuditInv, ReadOnce, BelowOffset, NotBegun, Stages, Recorded, Rank
<1>8. StageAgrees(r)'
  BY <1>1 DEF AuditInv, StageAgrees, Stages, Recorded, NotBegun
<1>9. \A m \in manifests : m.run = r => m = Manifest(r)' /\ Recorded(r)' /\ ~mode'[r].dry
  BY <1>1, <1>4 DEF AuditInv, Stages, Recorded, NotBegun
<1>10. writer # "nobody" => writer # r
  BY DEF AuditInv, Stages, Recorded, NotBegun
<1> QED BY <1>2, <1>3, <1>5, <1>7, <1>8, <1>9, <1>10, ConcludeAudit

(* The run begins: it has no object yet, whatever its mode is.               *)
LEMMA StartKeepsAudit ==
    ASSUME TypeOK, AuditInv, NEW r \in Runs, Start(r)
    PROVE  AuditInv'
<1>1. /\ UNCHANGED <<stamp, live, raw, manifests, watermark, writer>>
      /\ UNCHANGED <<since, expected, offset, pages, page, total, high, seen>>
      /\ \A q \in Runs \ {r} : mode'[q] = mode[q] /\ pc'[q] = pc[q]
      /\ pc[r] = "idle" /\ pc'[r] = "resolve"
  BY DEF Start, Goto, layerVars, storeVars, windowVars, countVars, loopVars, tallyVars,
         TypeOK, RunTypeOK
<1>2. \A q \in Runs \ {r} : Own(q)' = Own(q) /\ PagesOf(q)' = PagesOf(q)
  BY <1>1 DEF Own, PagesOf
<1>3. FreshKeys' /\ pages[r] = 0 /\ seen[r] = {} /\ total[r] = 0 /\ offset[r] = 0
  <2>1. ReadOnce(r) /\ FreshKeys
    BY DEF AuditInv
  <2> QED BY <1>1, <2>1, FS_EmptySet DEF FreshKeys, ReadOnce, NotBegun
<1>4. PagesOf(r) = {}
  <2> SUFFICES ASSUME NEW x \in raw, x.key.run = r PROVE FALSE
    BY DEF PagesOf
  <2>1. x.key.part < 0 /\ x.key.part \in Nat
    BY <1>3 DEF AuditInv, FreshKeys, TypeOK, StoreTypeOK
  <2> QED BY <2>1
<1>5. ObjectsAgree(r)'
  <2>1. PagesOf(r)' = {} /\ Keys(r)' = {} /\ seen'[r] = {}
    BY <1>1, <1>3, <1>4 DEF PagesOf, Keys
  <2> QED BY <2>1 DEF ObjectsAgree
<1>6. ReadOnce(r)'
  BY <1>1, <1>3, FS_EmptySet DEF ReadOnce, NotBegun
<1>7. StageAgrees(r)'
  BY <1>1 DEF StageAgrees
<1>8. (\A m \in manifests : m.run # r) /\ (writer # "nobody" => writer # r)
  BY <1>1, NothingRecorded DEF Recorded
<1> QED BY <1>1, <1>2, <1>3, <1>5, <1>6, <1>7, <1>8, ConcludeAudit

(* The window and the count come before anything is read.                    *)
LEMMA WindowOrCountKeepsAudit ==
    ASSUME TypeOK, AuditInv, NEW r \in Runs, DecideWindow(r) \/ \E n \in Nat : CountWith(r, n)
    PROVE  AuditInv'
<1>1. /\ UNCHANGED <<stamp, live, raw, manifests, watermark, writer>>
      /\ UNCHANGED <<mode, offset, pages, page, total, seen>>
      /\ \A q \in Runs \ {r} : /\ pc'[q] = pc[q] /\ since'[q] = since[q]
                               /\ high'[q] = high[q] /\ expected'[q] = expected[q]
      /\ pc[r] \in {"window", "count"} /\ pc'[r] \in {"count", "fetch"}
  <2>1. CASE DecideWindow(r)
    BY <2>1 DEF DecideWindow, Goto, layerVars, storeVars, setupVars, countVars, loopVars,
                TypeOK, RunTypeOK
  <2>2. CASE \E n \in Nat : CountWith(r, n)
    BY <2>2 DEF CountWith, Goto, layerVars, storeVars, setupVars, windowVars, loopVars,
                tallyVars, TypeOK, RunTypeOK
  <2> QED BY <2>1, <2>2
<1>2. \A q \in Runs \ {r} : Own(q)' = Own(q) /\ PagesOf(q)' = PagesOf(q)
  BY <1>1 DEF Own, PagesOf
<1>3. FreshKeys' /\ ObjectsAgree(r)'
  BY <1>1 DEF AuditInv, FreshKeys, ObjectsAgree, PagesOf, Keys
<1>4. ReadOnce(r)'
  BY <1>1 DEF AuditInv, ReadOnce, NotBegun, BelowOffset
<1>5. StageAgrees(r)'
  BY <1>1 DEF StageAgrees
<1>6. (\A m \in manifests : m.run # r) /\ (writer # "nobody" => writer # r)
  BY <1>1, NothingRecorded DEF Recorded
<1> QED BY <1>1, <1>2, <1>3, <1>4, <1>5, <1>6, ConcludeAudit

(* A fetched page holds no row that has been read, even when rows have aged  *)
(* out or come late since the last page.                                     *)
LEMMA FetchPageKeepsAudit ==
    ASSUME TypeOK, AuditInv, NEW r \in Runs, FetchPage(r)
    PROVE  AuditInv'
<1> DEFINE P == PageOf(Window(r), offset[r], PageCap)
           label == IF page'[r] = {} THEN "manifest" ELSE "land"
<1>1. /\ UNCHANGED <<stamp, live, raw, manifests, watermark, writer>>
      /\ UNCHANGED <<mode, since, expected, offset, pages, total, high, seen>>
      /\ pc[r] = "fetch" /\ pc' = [pc EXCEPT ![r] = label]
      /\ page' = [page EXCEPT ![r] = P]
  BY DEF FetchPage, Goto, layerVars, storeVars, setupVars, windowVars, countVars, tallyVars
<1>2. /\ Window(r) \subseteq Nat /\ IsFiniteSet(Window(r)) /\ PageCap \in Nat
      /\ offset[r] \in Nat /\ seen[r] \subseteq DOMAIN stamp
  BY FiniteRows, IngestAssumption DEF TypeOK, LayerTypeOK, RunTypeOK, Window, Selected, PageCap
<1>3. BelowOffset(r, seen[r], offset[r]) /\ total[r] = Cardinality(seen[r]) /\ offset[r] = total[r]
  BY <1>1 DEF AuditInv, ReadOnce
<1>4. \A o \in Window(r) : Rank(o, Window(r)) \in Nat
  BY <1>2, RankFalls
<1>5. P \cap seen[r] = {}
  <2> SUFFICES ASSUME NEW o \in P, o \in seen[r] PROVE FALSE
    OBVIOUS
  <2>1. o \in Window(r) /\ offset[r] < Rank(o, Window(r))
    BY DEF PageOf
  <2>2. Rank(o, Window(r)) <= offset[r]
    BY <1>3, <2>1 DEF BelowOffset
  <2> QED BY <1>2, <1>4, <2>1, <2>2
<1>6. \A o \in (seen[r] \cup P) \cap Window(r) :
          Rank(o, Window(r)) <= offset[r] + Cardinality(P)
  <2>1. P \subseteq Window(r)
    BY DEF PageOf
  <2>2. Cardinality(P) \in Nat
    BY <1>2, <2>1, SubsetCardinality
  <2>3. \A o \in P : Rank(o, Window(r)) <= offset[r] + Cardinality(P)
    BY <1>2, PageRanks
  <2>4. \A o \in seen[r] \cap Window(r) : Rank(o, Window(r)) <= offset[r] + Cardinality(P)
    <3> HIDE DEF P
    <3> QED BY <1>2, <1>3, <1>4, <2>2 DEF BelowOffset
  <2> QED BY <2>3, <2>4
<1> HIDE DEF P
<1>7. /\ page'[r] = P /\ pc'[r] \in {"land", "manifest"}
      /\ \A q \in Runs \ {r} : pc'[q] = pc[q] /\ page'[q] = page[q]
  BY <1>1 DEF TypeOK, RunTypeOK
<1>8. \A q \in Runs \ {r} : Own(q)' = Own(q) /\ PagesOf(q)' = PagesOf(q)
  BY <1>1, <1>7 DEF Own, PagesOf
<1>9. FreshKeys' /\ ObjectsAgree(r)'
  BY <1>1 DEF AuditInv, FreshKeys, ObjectsAgree, PagesOf, Keys
<1>10. Window(r)' = Window(r)
  BY <1>1, WindowKept
<1>11. BelowOffset(r, seen[r] \cup page[r], offset[r] + Cardinality(page[r]))'
  BY <1>1, <1>6, <1>7, <1>10 DEF BelowOffset, Rank
<1>12. ReadOnce(r)'
  BY <1>1, <1>3, <1>5, <1>7, <1>11 DEF ReadOnce, NotBegun
<1>13. StageAgrees(r)'
  BY <1>7 DEF StageAgrees
<1>14. (\A m \in manifests : m.run # r) /\ (writer # "nobody" => writer # r)
  BY <1>1, NothingRecorded DEF Recorded
<1> QED BY <1>1, <1>8, <1>9, <1>12, <1>13, <1>14, ConcludeAudit

(* FreshKeys: a page goes to a key nothing has, so a put adds an object.     *)
LEMMA LandAddsObject ==
    ASSUME TypeOK, FreshKeys, NEW r \in Runs, LandPage(r)
    PROVE  /\ raw \subseteq raw' /\ FreshKeys'
           /\ mode[r].dry => raw' = raw
           /\ ~mode[r].dry =>
                 raw' = raw \cup {[key |-> BuildKey(r, pages[r]), rows |-> page[r]]}
<1>1. Lands(r) /\ pages' = [pages EXCEPT ![r] = pages[r] + 1]
  BY DEF LandPage
<1>2. /\ \A q \in Runs : pages[q] \in Nat
      /\ \A x \in raw : x.key.run \in Runs /\ x.key.part \in Nat
  BY DEF TypeOK, RunTypeOK, StoreTypeOK
<1>3. pages'[r] = pages[r] + 1 /\ \A q \in Runs \ {r} : pages'[q] = pages[q]
  BY <1>1 DEF TypeOK, RunTypeOK
<1>4. \A x \in raw : x.key.part < pages[x.key.run]
  BY DEF FreshKeys
<1>5. \A x \in raw : x.key.part < pages'[x.key.run]
  <2> SUFFICES ASSUME NEW x \in raw PROVE x.key.part < pages'[x.key.run]
    OBVIOUS
  <2>1. CASE x.key.run = r
    BY <1>2, <1>3, <1>4, <2>1
  <2>2. CASE x.key.run # r
    BY <1>2, <1>3, <1>4, <2>2
  <2> QED BY <2>1, <2>2
<1>6. CASE mode[r].dry
  BY <1>1, <1>5, <1>6 DEF Lands, FreshKeys
<1>7. CASE ~mode[r].dry
  <2> DEFINE obj == [key |-> BuildKey(r, pages[r]), rows |-> page[r]]
  <2>1. raw' = {x \in raw : x.key # obj.key} \cup {obj}
    BY <1>1, <1>7 DEF Lands, WritePage, Put
  <2>2. obj.key.run = r /\ obj.key.part = pages[r]
    BY DEF BuildKey
  <2> HIDE DEF obj
  <2>3. \A x \in raw : x.key # obj.key
    BY <1>2, <1>4, <2>2
  <2>4. raw' = raw \cup {obj}
    BY <2>1, <2>3
  <2>5. obj.key.part < pages'[obj.key.run]
    BY <1>2, <1>3, <2>2
  <2>6. FreshKeys'
    BY <1>5, <2>4, <2>5 DEF FreshKeys
  <2> QED BY <1>7, <2>4, <2>6 DEF obj
<1> QED BY <1>6, <1>7

(* A landed page is tallied once, under a key of its own. *)
LEMMA LandPageKeepsAudit ==
    ASSUME TypeOK, AuditInv, NEW r \in Runs, LandPage(r)
    PROVE  AuditInv'
<1> DEFINE label == IF AsksForMore(r) THEN "fetch" ELSE "manifest"
           obj == [key |-> BuildKey(r, pages[r]), rows |-> page[r]]
<1>1. /\ UNCHANGED <<stamp, live, manifests, watermark, writer>>
      /\ UNCHANGED <<mode, since, expected, page>>
      /\ pc[r] = "land" /\ pc' = [pc EXCEPT ![r] = label]
      /\ total' = [total EXCEPT ![r] = total[r] + Cardinality(page[r])]
      /\ high' = [high EXCEPT ![r] = Raise(high[r], page[r])]
      /\ seen' = [seen EXCEPT ![r] = seen[r] \cup page[r]]
      /\ offset' = [offset EXCEPT ![r] = offset[r] + Cardinality(page[r])]
      /\ pages' = [pages EXCEPT ![r] = pages[r] + 1]
  BY DEF LandPage, Goto, NextOffset, layerVars, setupVars, windowVars, countVars
<1>2. /\ pc'[r] \in {"fetch", "manifest"}
      /\ total'[r] = total[r] + Cardinality(page[r])
      /\ seen'[r] = seen[r] \cup page[r] /\ offset'[r] = offset[r] + Cardinality(page[r])
      /\ pages'[r] = pages[r] + 1
      /\ \A q \in Runs \ {r} :
            /\ pc'[q] = pc[q] /\ total'[q] = total[q] /\ high'[q] = high[q]
            /\ seen'[q] = seen[q] /\ offset'[q] = offset[q] /\ pages'[q] = pages[q]
  BY <1>1 DEF TypeOK, RunTypeOK
<1>3. /\ page[r] \subseteq DOMAIN stamp /\ seen[r] \subseteq DOMAIN stamp
      /\ IsFiniteSet(page[r]) /\ IsFiniteSet(seen[r]) /\ pages[r] \in Nat
      /\ Cardinality(page[r]) \in Nat /\ Cardinality(seen[r]) \in Nat
  BY FiniteRows DEF TypeOK, LayerTypeOK, RunTypeOK
<1>4. ObjectsAgree(r) /\ ReadOnce(r) /\ FreshKeys
  BY DEF AuditInv
<1>5. /\ FreshKeys'
      /\ mode[r].dry => raw' = raw
      /\ ~mode[r].dry => raw' = raw \cup {obj}
  BY <1>4, LandAddsObject
<1>6. obj.key = BuildKey(r, pages[r]) /\ obj.rows = page[r] /\ obj.key.run = r
  BY DEF BuildKey
<1> HIDE DEF obj
<1>7. \A q \in Runs \ {r} : PagesOf(q)' = PagesOf(q)
  BY <1>5, <1>6 DEF PagesOf
<1>8. \A q \in Runs \ {r} : Own(q)' = Own(q)
  BY <1>1, <1>2 DEF Own
<1>9. ObjectsAgree(r)'
  <2>1. CASE mode[r].dry
    <3>1. PagesOf(r)' = PagesOf(r) /\ mode'[r] = mode[r]
      BY <1>1, <1>5, <2>1 DEF PagesOf
    <3> QED BY <1>4, <2>1, <3>1 DEF ObjectsAgree
  <2>2. CASE ~mode[r].dry
    <3>1. PagesOf(r)' = PagesOf(r) \cup {obj}
      BY <1>5, <1>6, <2>2 DEF PagesOf
    <3>2. /\ {x.key : x \in PagesOf(r)'} = {x.key : x \in PagesOf(r)} \cup {obj.key}
          /\ UNION {x.rows : x \in PagesOf(r)'} = (UNION {x.rows : x \in PagesOf(r)}) \cup obj.rows
      BY <3>1
    <3>3. Keys(r)' = Keys(r) \cup {obj.key}
      <4>1. 0..(pages[r] + 1 - 1) = 0..(pages[r] - 1) \cup {pages[r]}
        BY <1>3
      <4> QED BY <1>2, <1>6, <4>1 DEF Keys, BuildKey
    <3>4. mode'[r].dry = mode[r].dry
      BY <1>1
    <3> QED BY <1>2, <1>4, <1>6, <2>2, <3>2, <3>3, <3>4 DEF ObjectsAgree
  <2> QED BY <2>1, <2>2
<1>10. /\ total[r] = Cardinality(seen[r]) /\ offset[r] = total[r] /\ page[r] \cap seen[r] = {}
       /\ BelowOffset(r, seen[r] \cup page[r], offset[r] + Cardinality(page[r]))
  BY <1>1, <1>4 DEF ReadOnce
<1>11. Cardinality(seen[r] \cup page[r]) = Cardinality(seen[r]) + Cardinality(page[r])
  <2>1. seen[r] \cap page[r] = {} /\ Cardinality({}) = 0
    BY <1>10, FS_EmptySet
  <2>2. Cardinality(seen[r] \cup page[r])
          = Cardinality(seen[r]) + Cardinality(page[r]) - Cardinality(seen[r] \cap page[r])
    BY <1>3, FS_Union
  <2>3. Cardinality(seen[r] \cap page[r]) = 0
    BY <2>1
  <2> QED BY <1>3, <2>2, <2>3
<1>12. Window(r)' = Window(r)
  BY <1>1, WindowKept
<1>13. BelowOffset(r, seen[r], offset[r])'
  BY <1>2, <1>10, <1>12 DEF BelowOffset, Rank
<1>14. total'[r] = Cardinality(seen'[r]) /\ offset'[r] = total'[r]
  BY <1>2, <1>10, <1>11
<1>15. ReadOnce(r)'
  BY <1>2, <1>13, <1>14 DEF ReadOnce, NotBegun
<1>16. StageAgrees(r)'
  BY <1>2 DEF StageAgrees
<1>17. (\A m \in manifests : m.run # r) /\ (writer # "nobody" => writer # r)
  BY <1>1, NothingRecorded DEF Recorded
<1> QED BY <1>1, <1>5, <1>7, <1>8, <1>9, <1>15, <1>16, <1>17, ConcludeAudit

(* The manifest that is stored says what its run has read. *)
LEMMA StoreManifestKeepsAudit ==
    ASSUME TypeOK, AuditInv, NEW r \in Runs, StoreManifest(r)
    PROVE  AuditInv'
<1> DEFINE label == IF AdvancesWatermark(r) THEN "advance" ELSE "done"
<1>1. /\ UNCHANGED <<stamp, live, raw, watermark, writer>>
      /\ UNCHANGED <<mode, since, expected, offset, pages, page, total, high, seen>>
      /\ pc[r] = "manifest" /\ pc' = [pc EXCEPT ![r] = label] /\ ~mode[r].dry
      /\ manifests' = {x \in manifests : x.run # Manifest(r).run} \cup {Manifest(r)}
  BY DEF StoreManifest, WriteManifestObject, Goto, layerVars, setupVars, windowVars, countVars,
         loopVars, tallyVars
<1>2. pc'[r] = label /\ \A q \in Runs \ {r} : pc'[q] = pc[q]
  BY <1>1 DEF TypeOK, RunTypeOK
<1>3. \A q \in Runs \ {r} : Own(q)' = Own(q) /\ PagesOf(q)' = PagesOf(q)
  BY <1>1, <1>2 DEF Own, PagesOf
<1>4. /\ FreshKeys' /\ ObjectsAgree(r)'
      /\ Keys(r)' = Keys(r) /\ Status(r)' = Status(r)
  BY <1>1 DEF AuditInv, FreshKeys, ObjectsAgree, PagesOf, Keys, Status
<1>5. Manifest(r)' = Manifest(r) /\ Manifest(r).run = r
  BY <1>1, <1>4 DEF Manifest
<1>6. ReadOnce(r)'
  <2>1. ReadOnce(r) /\ pc'[r] \in {"advance", "done"}
    BY <1>2 DEF AuditInv
  <2> QED BY <1>1, <2>1 DEF ReadOnce, NotBegun
<1>7. HasManifest(r)'
  BY <1>1, <1>5 DEF HasManifest
<1>8. StageAgrees(r)'
  BY <1>1, <1>2, <1>4, <1>7 DEF StageAgrees, AdvancesWatermark
<1>9. \A m \in manifests' : IF m.run = r THEN m = Manifest(r)' /\ Recorded(r)' /\ ~mode'[r].dry
                                         ELSE m \in manifests
  BY <1>1, <1>2, <1>5 DEF Recorded
<1>10. \A m \in manifests : m.run # r => m \in manifests'
  BY <1>1, <1>5
<1>11. writer # "nobody" => writer # r
  BY <1>1, NothingRecorded DEF Recorded
<1> QED BY <1>1, <1>3, <1>4, <1>6, <1>8, <1>9, <1>10, <1>11, ConcludeAudit

(* The watermark that is stored is the one the run's manifest announced. *)
LEMMA AdvanceKeepsAudit ==
    ASSUME TypeOK, AuditInv, NEW r \in Runs, Advance(r)
    PROVE  AuditInv'
<1>1. /\ UNCHANGED <<stamp, live, raw, manifests>>
      /\ UNCHANGED <<mode, since, expected, offset, pages, page, total, high, seen>>
      /\ pc[r] = "advance" /\ pc' = [pc EXCEPT ![r] = "done"]
      /\ watermark' = high[r] /\ writer' = r
  BY DEF Advance, WriteWatermark, Goto, layerVars, setupVars, windowVars, countVars, loopVars,
         tallyVars
<1>2. pc'[r] = "done" /\ \A q \in Runs \ {r} : pc'[q] = pc[q]
  BY <1>1 DEF TypeOK, RunTypeOK
<1>3. \A q \in Runs \ {r} : Own(q)' = Own(q) /\ PagesOf(q)' = PagesOf(q)
  BY <1>1, <1>2 DEF Own, PagesOf
<1>4. /\ FreshKeys' /\ ObjectsAgree(r)'
      /\ Keys(r)' = Keys(r) /\ Status(r)' = Status(r)
  BY <1>1 DEF AuditInv, FreshKeys, ObjectsAgree, PagesOf, Keys, Status
<1>5. Manifest(r)' = Manifest(r) /\ Manifest(r).run = r
  BY <1>1, <1>4 DEF Manifest
<1>6. ReadOnce(r)'
  BY <1>1, <1>2 DEF AuditInv, ReadOnce, NotBegun
<1>7. HasManifest(r)' /\ Status(r)' = "ok"
  BY <1>1, <1>4, <1>5 DEF AuditInv, StageAgrees, HasManifest
<1>8. StageAgrees(r)'
  BY <1>1, <1>2, <1>7 DEF AuditInv, StageAgrees
<1>9. \A m \in manifests : m.run = r => m = Manifest(r)' /\ Recorded(r)' /\ ~mode'[r].dry
  BY <1>1, <1>2, <1>5 DEF AuditInv, Recorded
<1>10. writer' = r /\ watermark' = high'[r]
  BY <1>1
<1> QED BY <1>1, <1>2, <1>3, <1>4, <1>6, <1>7, <1>8, <1>9, <1>10, ConcludeAudit

(* A step that changes no run and nothing in the store.                      *)
LEMMA SettledKeepsAudit ==
    ASSUME TypeOK, AuditInv, \A q \in Runs : WindowSettled(q),
           UNCHANGED <<raw, manifests, watermark, writer, pc, mode, since, expected, offset,
                       pages, page, total, high, seen>>
    PROVE  AuditInv'
<1>1. /\ UNCHANGED <<raw, manifests, watermark, writer>>
      /\ UNCHANGED <<pc, mode, since, expected, offset, pages, page, total, high, seen>>
  OBVIOUS
<1>5. ASSUME NEW q \in Runs
      PROVE  ObjectsAgree(q)' /\ ReadOnce(q)' /\ Manifest(q)' = Manifest(q)
             /\ Status(q)' = Status(q)
  <2>1. Own(q)' = Own(q) /\ PagesOf(q)' = PagesOf(q)
    BY <1>1 DEF Own, PagesOf
  <2> QED BY <2>1, IdleRunKept DEF AuditInv
<1>6. ASSUME NEW q \in Runs
      PROVE  StageAgrees(q)' /\ (HasManifest(q) => HasManifest(q)')
  BY <1>1, <1>5 DEF AuditInv, StageAgrees, HasManifest
<1>7. ASSUME NEW m \in manifests'
      PROVE  /\ m = Manifest(m.run)' /\ ~mode'[m.run].dry
             /\ pc'[m.run] \in {"advance", "done", "failed"}
  <2>1. m \in manifests /\ m.run \in Runs
    BY <1>1 DEF TypeOK, StoreTypeOK
  <2> QED BY <1>1, <1>5, <2>1 DEF AuditInv
<1>8. ASSUME writer' # "nobody"
      PROVE  /\ pc'[writer'] = "done" /\ HasManifest(writer)'
             /\ watermark' = high'[writer'] /\ Status(writer)' = "ok"
  <2>1. writer' = writer /\ writer \in Runs
    BY <1>1, <1>8 DEF TypeOK, StoreTypeOK
  <2>2. /\ pc[writer] = "done" /\ HasManifest(writer)
        /\ watermark = high[writer] /\ Status(writer) = "ok"
    BY <1>8, <2>1 DEF AuditInv
  <2>3. HasManifest(writer)' /\ Status(writer)' = "ok"
    BY <1>5, <1>6, <2>1, <2>2
  <2> QED BY <1>1, <2>1, <2>2, <2>3
<1>9. FreshKeys'
  BY <1>1 DEF AuditInv, FreshKeys
<1> QED BY <1>5, <1>6, <1>7, <1>8, <1>9 DEF AuditInv, HasManifest, Manifest, Status, Keys

(* The rows of a window that are published, move to a host or age out only   *)
(* lower the ranks of those that stay.                                       *)
LEMMA SourceKeepsAudit ==
    ASSUME TypeOK, AuditInv, Source
    PROVE  AuditInv'
<1>1. /\ UNCHANGED <<raw, manifests, watermark, writer>>
      /\ UNCHANGED <<pc, mode, since, expected, offset, pages, page, total, high, seen>>
  BY DEF Source, storeVars, runVars, setupVars, windowVars, countVars, loopVars, tallyVars
<1>2. /\ stamp \in Seq(Ticks) /\ DOMAIN stamp = 1..Len(stamp) /\ Len(stamp) \in Nat
      /\ live \subseteq DOMAIN stamp
  BY DEF TypeOK, LayerTypeOK
<1>3. /\ \A o \in DOMAIN stamp : stamp'[o] = stamp[o]
      /\ \A o \in live' : o \in live \/ \A p \in DOMAIN stamp : ~ (o <= p)
  <2>1. CASE Publish
    <3>1. PICK s : stamp' = Append(stamp, s) /\ live' = live \cup {Len(stamp) + 1}
      BY <2>1 DEF Publish
    <3> QED BY <1>2, <3>1
  <2>2. CASE Withdraw \/ Migrate \/ Tick
    BY <2>2 DEF Withdraw, Migrate, Tick
  <2> QED BY <2>1, <2>2 DEF Source, LayerNext
<1>4. ASSUME NEW q \in Runs PROVE WindowSettled(q)
  <2> SUFFICES ASSUME NEW o \in DOMAIN stamp, o \in Window(q)'
               PROVE  o \in Window(q) /\ Rank(o, Window(q)') <= Rank(o, Window(q))
                        /\ Rank(o, Window(q)') \in Nat /\ Rank(o, Window(q)) \in Nat
    BY DEF WindowSettled
  <2>1. \A x : x \in Window(q)' <=> x \in live' /\ Matches(since[q], stamp'[x])
    BY <1>1 DEF Window, Selected, Matches, Trunc
  <2>2. ASSUME NEW p \in Window(q)', p <= o PROVE p \in Window(q)
    <3>1. p \in live' /\ Matches(since[q], stamp'[p])
      BY <2>1, <2>2
    <3>2. p \in live
      BY <1>3, <2>2, <3>1
    <3> QED BY <1>2, <1>3, <3>1, <3>2 DEF Window, Selected
  <2>3. IsFiniteSet(Window(q))
    BY <1>2, FiniteRows DEF Window, Selected
  <2>4. o \in Window(q)
    BY <1>2, <2>2
  <2> QED BY <2>2, <2>3, <2>4, RankFalls
<1> QED BY <1>1, <1>4, SettledKeepsAudit

-----------------------------------------------------------------------------
(* The invariant and what follows from it.                                   *)

(* Nothing has been read or recorded at the start. *)
LEMMA InitAudit == Init => AuditInv
<1> SUFFICES ASSUME Init PROVE AuditInv
  OBVIOUS
<1>1. ASSUME NEW r \in Runs PROVE ObjectsAgree(r) /\ ReadOnce(r) /\ StageAgrees(r)
  <2>1. PagesOf(r) = {} /\ Keys(r) = {}
    BY DEF Init, PagesOf, Keys
  <2> QED BY <2>1, FS_EmptySet DEF Init, ObjectsAgree, ReadOnce, StageAgrees
<1>2. FreshKeys
  BY DEF Init, FreshKeys
<1> QED BY <1>1, <1>2 DEF Init, AuditInv

(* Every step and every fault of a run keeps the records in agreement. *)
LEMMA RunKeepsAudit ==
    ASSUME TypeOK, AuditInv, NEW r \in Runs, Start(r) \/ RunStep(r) \/ RunFault(r)
    PROVE  AuditInv'
<1>1. CASE Start(r)
  BY <1>1, StartKeepsAudit
<1>2. CASE Resolve(r) \/ HeadBucket(r) \/ CreateBucket(r) \/ WindowWithoutBucket(r)
           \/ FetchEmpty(r) \/ QueryFails(r) \/ FinishDry(r) \/ PutWithoutBucket(r) \/ Crash(r)
  <2>1. /\ UNCHANGED <<stamp, live, raw, manifests, watermark, writer>>
        /\ UNCHANGED <<mode, since, expected, offset, pages, page, total, high, seen>>
    BY <1>2 DEF Resolve, HeadBucket, CreateBucket, WindowWithoutBucket, FetchEmpty, QueryFails,
                FinishDry, PutWithoutBucket, Crash, layerVars, storeVars, setupVars, windowVars,
                countVars, loopVars, tallyVars
  <2>2. PICK next : pc' = [pc EXCEPT ![r] = next] /\ Stages(r, next)
    <3>1. CASE Resolve(r)
      BY <3>1 DEF Resolve, Goto, AfterResolve, Stages, NotBegun
    <3>2. CASE HeadBucket(r)
      BY <3>2 DEF HeadBucket, Goto, AfterHead, Stages, NotBegun, AuditInv, StageAgrees
    <3>3. CASE CreateBucket(r)
      BY <3>3 DEF CreateBucket, Goto, Stages, NotBegun
    <3>4. CASE WindowWithoutBucket(r) \/ PutWithoutBucket(r) \/ Crash(r)
      BY <3>4 DEF WindowWithoutBucket, PutWithoutBucket, Crash, Goto, Stages, Active
    <3>5. CASE FetchEmpty(r)
      BY <3>5 DEF FetchEmpty, Goto, Stages
    <3>6. CASE QueryFails(r)
      BY <3>6 DEF QueryFails, Goto, AfterFailedAttempt, Stages, Recorded
    <3>7. CASE FinishDry(r)
      BY <3>7 DEF FinishDry, Goto, Stages
    <3> QED BY <1>2, <3>1, <3>2, <3>3, <3>4, <3>5, <3>6, <3>7
  <2> QED BY <2>1, <2>2, StageKeepsAudit
<1>3. CASE DecideWindow(r)
  BY <1>3, WindowOrCountKeepsAudit
<1>4. CASE Count(r) \/ CountMissing(r)
  <2>1. Cardinality(Window(r)) \in Nat
    BY FiniteRows DEF TypeOK, LayerTypeOK, Window, Selected
  <2>2. \E n \in Nat : CountWith(r, n)
    BY <1>4, <2>1 DEF Count, CountMissing
  <2> QED BY <2>2, WindowOrCountKeepsAudit
<1>5. CASE FetchPage(r)
  BY <1>5, FetchPageKeepsAudit
<1>6. CASE LandPage(r)
  BY <1>6, LandPageKeepsAudit
<1>7. CASE StoreManifest(r)
  BY <1>7, StoreManifestKeepsAudit
<1>8. CASE Advance(r)
  BY <1>8, AdvanceKeepsAudit
<1> QED BY <1>1, <1>2, <1>3, <1>4, <1>5, <1>6, <1>7, <1>8 DEF RunStep, RunFault

(* Standing still keeps the records in agreement. *)
LEMMA StutterKeepsAudit == TypeOK /\ AuditInv /\ UNCHANGED vars => AuditInv'
<1> SUFFICES ASSUME TypeOK, AuditInv, UNCHANGED vars PROVE AuditInv'
  OBVIOUS
<1>1. /\ UNCHANGED <<stamp, live>>
      /\ UNCHANGED <<raw, manifests, watermark, writer, pc, mode, since, expected,
                     offset, pages, page, total, high, seen>>
  BY DEF vars, layerVars, storeVars, runVars, setupVars, windowVars, countVars, loopVars,
         tallyVars
<1>2. \A q \in Runs : WindowSettled(q)
  BY <1>1, WindowKept
<1> QED BY <1>1, <1>2, SettledKeepsAudit

(* What a run has read, tallied, landed and recorded agrees at every moment. *)
THEOREM AuditInvariant == Spec => []AuditInv
<1>1. TypeOK /\ AuditInv /\ [Next]_vars => AuditInv'
  BY SourceKeepsAudit, RunKeepsAudit, StutterKeepsAudit DEF Next
<1> QED BY <1>1, InitAudit, TypeCorrect, PTL DEF Spec

(* AD-006: a manifest lists exactly the page objects of its run, and its     *)
(* record count is what they hold.                                           *)
THEOREM ManifestFaithfulHolds == Spec => []ManifestFaithful
<1>1. TypeOK /\ AuditInv => ManifestFaithful
  <2> SUFFICES ASSUME TypeOK, AuditInv, NEW m \in manifests
               PROVE  /\ m.files = {x.key : x \in PagesOf(m.run)}
                      /\ m.actual = Cardinality(UNION {x.rows : x \in PagesOf(m.run)})
    BY DEF ManifestFaithful
  <2>1. m.run \in Runs /\ m = Manifest(m.run) /\ ~mode[m.run].dry
    BY DEF TypeOK, StoreTypeOK, AuditInv
  <2>2. ObjectsAgree(m.run) /\ ReadOnce(m.run) /\ StageAgrees(m.run)
    BY <2>1 DEF AuditInv
  <2>3. m.files = Keys(m.run) /\ m.actual = total[m.run]
    BY <2>1 DEF Manifest
  <2>4. ~mode[m.run].dry
    BY <2>1
  <2> QED BY <2>2, <2>3, <2>4 DEF ObjectsAgree, ReadOnce
<1> QED BY <1>1, AuditInvariant, TypeCorrect, PTL

(* The stored watermark is the one announced by the manifest of the run it   *)
(* names, and that run was complete.                                         *)
THEOREM WatermarkTraceableHolds == Spec => []WatermarkTraceable
<1>1. AuditInv => WatermarkTraceable
  BY DEF AuditInv, WatermarkTraceable, HasManifest, Manifest
<1> QED BY <1>1, AuditInvariant, PTL

(* A run that ends without an exception has left its manifest and every row  *)
(* it read in the bucket.                                                    *)
THEOREM DoneMeansRecordedHolds == Spec => []DoneMeansRecorded
<1>1. AuditInv => DoneMeansRecorded
  <2> SUFFICES ASSUME AuditInv, NEW r \in Runs, pc[r] = "done", ~mode[r].dry
               PROVE  seen[r] \subseteq Landed /\ \E m \in manifests : m.run = r
    BY DEF DoneMeansRecorded
  <2>1. ObjectsAgree(r) /\ HasManifest(r)
    BY DEF AuditInv, StageAgrees
  <2>2. seen[r] \subseteq Landed
    BY <2>1 DEF ObjectsAgree, PagesOf, Landed
  <2>3. Manifest(r).run = r
    BY DEF Manifest
  <2> QED BY <2>1, <2>2, <2>3 DEF HasManifest
<1> QED BY <1>1, AuditInvariant, PTL

(* Landed pages are never rewritten or removed.                              *)
THEOREM RawAppendOnlyHolds == Spec => RawAppendOnly
<1>1. TypeOK /\ AuditInv /\ [Next]_vars => [raw \subseteq raw']_vars
  <2> SUFFICES ASSUME TypeOK, AuditInv, Next PROVE raw \subseteq raw'
    OBVIOUS
  <2>1. CASE Source
    BY <2>1 DEF Source, storeVars
  <2>2. ASSUME NEW r \in Runs, Start(r) \/ RunStep(r) \/ RunFault(r) PROVE raw \subseteq raw'
    <3>1. CASE LandPage(r)
      BY <3>1, LandAddsObject DEF AuditInv
    <3>2. CASE Advance(r)
      BY <3>2 DEF Advance
    <3>3. CASE ~LandPage(r) /\ ~Advance(r)
      BY <2>2, <3>3 DEF RunStep, RunFault, Start, Resolve, HeadBucket, CreateBucket,
         DecideWindow, WindowWithoutBucket, Count, CountMissing, CountWith, FetchPage,
         FinishDry, StoreManifest, PutWithoutBucket, FetchEmpty, QueryFails, Crash, storeVars
    <3> QED BY <3>1, <3>2, <3>3
  <2> QED BY <2>1, <2>2 DEF Next
<1> QED BY <1>1, AuditInvariant, TypeCorrect, PTL DEF Spec, RawAppendOnly

(* --dry-run: "Query the API but write nothing".                             *)
THEOREM DryRunWritesNothingHolds == Spec => DryRunWritesNothing
<1> DEFINE Dry == \A r \in Runs : pc'[r] # pc[r] /\ mode[r].dry => UNCHANGED storeVars
<1>1. TypeOK /\ AuditInv /\ [Next]_vars => [Dry]_vars
  <2> SUFFICES ASSUME TypeOK, AuditInv, Next, NEW r \in Runs, pc'[r] # pc[r], mode[r].dry
               PROVE  UNCHANGED storeVars
    OBVIOUS
  <2>1. pc[r] \notin {"head_bucket", "create_bucket", "advance"}
    BY DEF AuditInv, StageAgrees
  <2>2. CASE Source
    BY <2>2 DEF Source
  <2>3. ASSUME NEW q \in Runs, Start(q) \/ RunStep(q) \/ RunFault(q)
        PROVE  UNCHANGED storeVars
    <3>1. q = r
      <4>1. \E label : pc' = [pc EXCEPT ![q] = label]
        BY <2>3 DEF RunStep, RunFault, Start, Resolve, HeadBucket, CreateBucket, DecideWindow,
           WindowWithoutBucket, Count, CountMissing, CountWith, FetchPage, LandPage, FinishDry,
           StoreManifest, PutWithoutBucket, Advance, FetchEmpty, QueryFails, Crash, Goto
      <4> QED BY <4>1 DEF TypeOK, RunTypeOK
    <3>2. CASE LandPage(q)
      BY <3>1, <3>2 DEF LandPage, Lands, storeVars
    <3>3. CASE ~LandPage(q)
      BY <2>1, <2>3, <3>1, <3>3 DEF RunStep, RunFault, Start, Resolve, HeadBucket,
         CreateBucket, DecideWindow, WindowWithoutBucket, Count, CountMissing, CountWith,
         FetchPage, FinishDry, StoreManifest, PutWithoutBucket, Advance, FetchEmpty,
         QueryFails, Crash
    <3> QED BY <3>2, <3>3
  <2> QED BY <2>2, <2>3 DEF Next
<1> QED BY <1>1, AuditInvariant, TypeCorrect, PTL DEF Spec, DryRunWritesNothing

-----------------------------------------------------------------------------
(* No false alarm.                                                           *)

(* A row outside a prefix ranks above it.                                    *)
LEMMA RankAbovePrefix ==
    ASSUME NEW W, IsFiniteSet(W), W \subseteq Nat, NEW S, Prefix(S, W), NEW o \in W, o \notin S
    PROVE  /\ Cardinality(S) \in Nat /\ Rank(o, W) \in Nat /\ Cardinality(W) \in Nat
           /\ Cardinality(S) < Rank(o, W) /\ Rank(o, W) <= Cardinality(W)
           /\ (\A p \in W \ S : o <= p) => Rank(o, W) = Cardinality(S) + 1
<1> DEFINE Below == {p \in W : p <= o}
<1>1. Below \subseteq W /\ o \in Below /\ IsFiniteSet(S)
  <2>1. o <= o /\ S \subseteq W
    BY DEF Prefix
  <2> QED BY <2>1, SubsetCardinality
<1>2. S \subseteq Below
  <2> SUFFICES ASSUME NEW p \in S PROVE p \in W /\ p <= o
    OBVIOUS
  <2>1. p \in W /\ p < o
    BY DEF Prefix
  <2> QED BY <2>1
<1>3. (\A p \in W \ S : o <= p) => Below = S \cup {o}
  <2> SUFFICES ASSUME \A p \in W \ S : o <= p, NEW p \in W, p <= o, p \notin S PROVE p = o
    BY <1>1, <1>2
  <2>1. o <= p /\ p \in Nat /\ o \in Nat
    OBVIOUS
  <2> QED BY <2>1
<1>4. Rank(o, W) = Cardinality(Below)
  BY DEF Rank
<1> HIDE DEF Below
<1>5. IsFiniteSet(Below)
  BY <1>1, SubsetCardinality
<1>6. /\ Cardinality(S) \in Nat /\ Cardinality(Below) \in Nat /\ Cardinality(W) \in Nat
      /\ Cardinality(S) < Cardinality(Below) /\ Cardinality(Below) <= Cardinality(W)
  BY <1>1, <1>2, <1>5, SubsetCardinality
<1>7. Cardinality(S \cup {o}) = Cardinality(S) + 1
  BY <1>1, FS_AddElement
<1> QED BY <1>3, <1>4, <1>6, <1>7

(* The loop ends on an empty page only when everything has been read ...     *)
LEMMA EmptyPageIsTheEnd ==
    ASSUME NEW W, IsFiniteSet(W), W \subseteq Nat, NEW S, Prefix(S, W), NEW n \in Nat, n > 0,
           PageOf(W, Cardinality(S), n) = {}
    PROVE  W \subseteq S
<1> SUFFICES ASSUME NEW t \in W, t \notin S PROVE FALSE
  OBVIOUS
<1>1. PICK o \in W \ S : \A p \in W \ S : o <= p
  BY SmallestExists
<1>2. /\ Cardinality(S) \in Nat /\ Rank(o, W) \in Nat /\ Cardinality(S) < Rank(o, W)
      /\ Rank(o, W) = Cardinality(S) + 1
  BY <1>1, RankAbovePrefix
<1>3. Rank(o, W) <= Cardinality(S) + n
  BY <1>2
<1>4. o \in PageOf(W, Cardinality(S), n)
  BY <1>2, <1>3 DEF PageOf
<1> QED BY <1>4

(* ... and on a page without the "more" flag when that page has the rest.    *)
LEMMA LastPageHasTheRest ==
    ASSUME NEW W, IsFiniteSet(W), W \subseteq Nat, NEW S, Prefix(S, W), NEW n \in Nat,
           ~Exceeded(W, Cardinality(S), n)
    PROVE  W \subseteq S \cup PageOf(W, Cardinality(S), n)
<1> SUFFICES ASSUME NEW o \in W, o \notin S PROVE o \in PageOf(W, Cardinality(S), n)
  OBVIOUS
<1>1. /\ Cardinality(S) \in Nat /\ Rank(o, W) \in Nat /\ Cardinality(W) \in Nat
      /\ Cardinality(S) < Rank(o, W) /\ Rank(o, W) <= Cardinality(W)
  BY RankAbovePrefix
<1>2. Cardinality(W) <= Cardinality(S) + n
  BY <1>1 DEF Exceeded
<1>3. Rank(o, W) <= Cardinality(S) + n
  BY <1>1, <1>2
<1> QED BY <1>1, <1>3 DEF PageOf

(* What LoopInv says of a run that does not move.                            *)
LoopData(q) == <<pc[q], since[q], expected[q], counted[q], pages[q], page[q], more[q], seen[q]>>

(* A run that does nothing reads on when rows only join its window at the    *)
(* end.                                                                      *)
LEMMA LoopKept ==
    ASSUME NEW q \in Runs, LoopData(q)' = LoopData(q), ReadsOn(q), Window(q) \subseteq Window(q)',
           \A S : Prefix(S, Window(q)) => Prefix(S, Window(q)')
    PROVE  ReadsOn(q)'
<1>1. /\ pc'[q] = pc[q] /\ since'[q] = since[q] /\ expected'[q] = expected[q]
      /\ counted'[q] = counted[q] /\ pages'[q] = pages[q] /\ page'[q] = page[q]
      /\ more'[q] = more[q] /\ seen'[q] = seen[q]
  BY DEF LoopData
<1>2. Prefix(seen[q], Window(q))' /\ (pc[q] = "land" => Prefix(seen[q] \cup page[q], Window(q))')
  BY <1>1 DEF ReadsOn, Prefix
<1> QED BY <1>1, <1>2 DEF ReadsOn, Tallied

(* What a step of run r must show.                                           *)
LEMMA ConcludeLoop ==
    ASSUME TypeOK, LoopInv, NEW r \in Runs, UNCHANGED <<stamp, live>>,
           faults' = faults \/ faults' = faults + 1,
           \A q \in Runs \ {r} : LoopData(q)' = LoopData(q),
           Undisturbed /\ faults' = 0 /\ Paging(r)' => ReadsOn(r)'
    PROVE  LoopInv'
<1> SUFFICES ASSUME Undisturbed' , NEW q \in Runs, Paging(q)' PROVE ReadsOn(q)'
  BY DEF LoopInv
<1>1. Undisturbed
  BY DEF Undisturbed, TypeOK, RunTypeOK
<1>2. CASE q = r
  BY <1>1, <1>2 DEF Undisturbed
<1>3. CASE q # r
  <2>1. LoopData(q)' = LoopData(q)
    BY <1>3
  <2>2. pc'[q] = pc[q] /\ since'[q] = since[q]
    BY <2>1 DEF LoopData
  <2>3. Window(q)' = Window(q)
    BY <2>2, WindowKept
  <2>4. ReadsOn(q)
    BY <1>1, <2>2 DEF LoopInv, Paging
  <2> QED BY <2>1, <2>3, <2>4, LoopKept
<1> QED BY <1>2, <1>3

(* The page a run fetches is the next piece of its window, and no answer     *)
(* without a further page leaves a counted row out.                          *)
LEMMA FetchPageKeepsLoop ==
    ASSUME TypeOK, AuditInv, LoopInv, NEW r \in Runs, FetchPage(r)
    PROVE  LoopInv'
<1> DEFINE P == PageOf(Window(r), offset[r], PageCap)
           m == Exceeded(Window(r), offset[r], PageCap)
<1>1. /\ UNCHANGED <<stamp, live, faults, since, expected, counted, pages, seen>>
      /\ pc[r] = "fetch" /\ page'[r] = P /\ more'[r] = m
      /\ pc'[r] = IF P = {} THEN "manifest" ELSE "land"
      /\ \A q \in Runs \ {r} : pc'[q] = pc[q] /\ page'[q] = page[q] /\ more'[q] = more[q]
  BY DEF FetchPage, Goto, layerVars, windowVars, countVars, tallyVars, TypeOK, RunTypeOK
<1>2. \A q \in Runs \ {r} : LoopData(q)' = LoopData(q)
  BY <1>1 DEF LoopData
<1>3. ASSUME Undisturbed PROVE ReadsOn(r)'
  <2>1. /\ ReadsOn(r) /\ offset[r] = Cardinality(seen[r])
    BY <1>1, <1>3 DEF LoopInv, Paging, AuditInv, ReadOnce
  <2>2. /\ Window(r) \subseteq Nat /\ IsFiniteSet(Window(r)) /\ PageCap \in Nat /\ PageCap > 0
    BY FiniteRows, IngestAssumption DEF TypeOK, LayerTypeOK, Window, Selected, PageCap
  <2>3. Prefix(seen[r], Window(r)) /\ counted[r] \subseteq Window(r)
    BY <2>1 DEF ReadsOn
  <2>4. Prefix(seen[r] \cup P, Window(r))
    BY <2>1, <2>2, <2>3, PageExtendsPrefix
  <2>5. P = {} => counted[r] \subseteq seen[r]
    BY <2>1, <2>2, <2>3, EmptyPageIsTheEnd
  <2>6. ~m => counted[r] \subseteq seen[r] \cup P
    BY <2>1, <2>2, <2>3, LastPageHasTheRest
  <2> HIDE DEF P, m
  <2>7. Window(r)' = Window(r)
    BY <1>1, WindowKept
  <2>8. Prefix(seen[r], Window(r))' /\ Prefix(seen[r] \cup page[r], Window(r))'
    BY <1>1, <2>3, <2>4, <2>7 DEF Prefix
  <2> QED BY <1>1, <2>1, <2>5, <2>6, <2>7, <2>8 DEF ReadsOn, Tallied
<1> QED BY <1>1, <1>2, <1>3, ConcludeLoop

(* A landed page extends what has been read, and the loop ends with all of   *)
(* the count or at the circuit breaker.                                      *)
LEMMA LandPageKeepsLoop ==
    ASSUME TypeOK, LoopInv, NEW r \in Runs, LandPage(r)
    PROVE  LoopInv'
<1>1. /\ UNCHANGED <<stamp, live, faults, since, expected, counted, page, more>>
      /\ pc[r] = "land" /\ seen'[r] = seen[r] \cup page[r] /\ pages'[r] = pages[r] + 1
      /\ pc'[r] = IF AsksForMore(r) THEN "fetch" ELSE "manifest"
      /\ \A q \in Runs \ {r} : pc'[q] = pc[q] /\ seen'[q] = seen[q] /\ pages'[q] = pages[q]
  BY DEF LandPage, Goto, layerVars, windowVars, countVars, TypeOK, RunTypeOK
<1>2. \A q \in Runs \ {r} : LoopData(q)' = LoopData(q)
  BY <1>1 DEF LoopData
<1>3. ASSUME Undisturbed PROVE ReadsOn(r)'
  <2>1. ReadsOn(r)
    BY <1>1, <1>3 DEF LoopInv, Paging
  <2>2. Window(r)' = Window(r)
    BY <1>1, WindowKept
  <2>3. Prefix(seen[r], Window(r))'
    BY <1>1, <2>1, <2>2 DEF ReadsOn, Prefix
  <2>4. pages[r] \in Nat /\ MaxPages \in Nat
    BY IngestAssumption DEF TypeOK, RunTypeOK
  <2>5. AsksForMore(r) => pages[r] + 1 < MaxPages
    BY DEF AsksForMore
  <2>6. ~AsksForMore(r) => ~more[r] \/ pages[r] + 1 = MaxPages
    BY <1>1, <2>1, <2>4 DEF AsksForMore, ReadsOn
  <2> QED BY <1>1, <2>1, <2>2, <2>3, <2>5, <2>6 DEF ReadsOn, Tallied
<1> QED BY <1>1, <1>2, <1>3, ConcludeLoop

(* The count is of the rows the predicate selects at that moment. *)
LEMMA CountKeepsLoop ==
    ASSUME TypeOK, AuditInv, LoopInv, NEW r \in Runs, Count(r)
    PROVE  LoopInv'
<1>1. /\ UNCHANGED <<stamp, live, faults, since, pages, page, more, seen>>
      /\ pc[r] = "count" /\ pc'[r] = "fetch"
      /\ expected'[r] = Cardinality(Window(r)) /\ counted'[r] = Window(r)
      /\ \A q \in Runs \ {r} : /\ pc'[q] = pc[q] /\ expected'[q] = expected[q]
                               /\ counted'[q] = counted[q]
  BY DEF Count, CountWith, Goto, layerVars, windowVars, loopVars, tallyVars, TypeOK, RunTypeOK
<1>2. \A q \in Runs \ {r} : LoopData(q)' = LoopData(q)
  BY <1>1 DEF LoopData
<1>3. ReadsOn(r)'
  <2>1. seen[r] = {} /\ pages[r] = 0
    BY <1>1 DEF AuditInv, ReadOnce
  <2>2. 0 < MaxPages
    BY IngestAssumption
  <2>3. Window(r)' = Window(r)
    BY <1>1, WindowKept
  <2> QED BY <1>1, <2>1, <2>2, <2>3 DEF ReadsOn, Tallied, Prefix
<1> QED BY <1>1, <1>2, <1>3, ConcludeLoop

(* Every other step of a run leaves its tally alone; it enters the paging    *)
(* loop or leaves it early only by a fault.                                  *)
LEMMA OtherStepKeepsLoop ==
    ASSUME TypeOK, LoopInv, NEW r \in Runs, Start(r) \/ RunStep(r) \/ RunFault(r),
           ~FetchPage(r), ~LandPage(r), ~Count(r)
    PROVE  LoopInv'
<1>1. /\ UNCHANGED <<stamp, live, pages, page, more, seen>>
      /\ faults' = faults \/ faults' = faults + 1
      /\ \A q \in Runs \ {r} : /\ pc'[q] = pc[q] /\ since'[q] = since[q]
                               /\ expected'[q] = expected[q] /\ counted'[q] = counted[q]
  BY DEF RunStep, RunFault, Start, Resolve, HeadBucket, CreateBucket, DecideWindow,
         WindowWithoutBucket, CountMissing, CountWith, FinishDry, StoreManifest,
         PutWithoutBucket, Advance, FetchEmpty, QueryFails, Crash, Fault, Goto, layerVars,
         windowVars, countVars, loopVars, tallyVars, TypeOK, RunTypeOK
<1>2. \A q \in Runs \ {r} : LoopData(q)' = LoopData(q)
  BY <1>1 DEF LoopData
<1>3. ASSUME Undisturbed, faults' = 0, Paging(r)' PROVE ReadsOn(r)'
  <2>1. /\ faults' = faults /\ faults' # faults + 1
    BY <1>1, <1>3 DEF Undisturbed
  <2>2. pc'[r] \in {"fetch", "land", "manifest", "advance", "done"}
    BY <1>3 DEF Paging
  <2>3. /\ UNCHANGED <<since, expected, counted>> /\ Paging(r)
        /\ pc'[r] = pc[r] \/ (Tallied(r) /\ Tallied(r)' /\ pc'[r] \notin {"fetch", "land"})
    BY <2>1, <2>2
       DEF RunStep, RunFault, Start, Resolve, HeadBucket, CreateBucket, DecideWindow,
         WindowWithoutBucket, CountMissing, CountWith, FinishDry, StoreManifest,
         PutWithoutBucket, Advance, FetchEmpty, QueryFails, Crash, Fault, Goto, Paging, Tallied,
         AfterResolve, AfterHead, AfterFailedAttempt, windowVars, countVars, TypeOK, RunTypeOK
  <2>4. ReadsOn(r)
    BY <1>3, <2>3 DEF LoopInv
  <2>5. Window(r)' = Window(r)
    BY <1>1, <2>3, WindowKept
  <2>6. Prefix(seen[r], Window(r))' /\ (pc[r] = "land" => Prefix(seen[r] \cup page[r], Window(r))')
    BY <1>1, <2>4, <2>5 DEF ReadsOn, Prefix
  <2> QED BY <1>1, <2>3, <2>4, <2>5, <2>6 DEF ReadsOn, Tallied
<1> QED BY <1>1, <1>2, <1>3, ConcludeLoop

(* A row that appears has the highest OBJECTID, so what was read stays a     *)
(* prefix.                                                                   *)
LEMMA SourceKeepsLoop ==
    ASSUME TypeOK, LoopInv, Source
    PROVE  LoopInv'
<1> SUFFICES ASSUME Undisturbed', NEW q \in Runs, Paging(q)' PROVE ReadsOn(q)'
  BY DEF LoopInv
<1>1. UNCHANGED <<faults, pc, since, expected, counted, pages, page, more, seen>>
  BY DEF Source, runVars, windowVars, countVars, loopVars, tallyVars
<1>2. /\ stamp \in Seq(Ticks) /\ DOMAIN stamp = 1..Len(stamp) /\ Len(stamp) \in Nat
      /\ live \subseteq DOMAIN stamp
  BY DEF TypeOK, LayerTypeOK
<1>3. /\ Undisturbed
      /\ \A o \in DOMAIN stamp : stamp'[o] = stamp[o] /\ (o \in live => o \in live')
      /\ \A o \in live' : o \in live \/ \A p \in DOMAIN stamp : p < o
  <2>1. CASE Publish
    <3>1. PICK s : stamp' = Append(stamp, s) /\ live' = live \cup {Len(stamp) + 1}
      BY <2>1 DEF Publish
    <3>2. DOMAIN stamp' = DOMAIN stamp \cup {Len(stamp) + 1} /\ Len(stamp) + 1 \notin DOMAIN stamp
      BY <1>2, <3>1
    <3>3. live = DOMAIN stamp /\ faults = 0
      BY <1>1, <1>2, <3>1, <3>2 DEF Undisturbed
    <3> QED BY <1>2, <3>1, <3>3 DEF Undisturbed
  <2>2. CASE Withdraw
    BY <1>2, <2>2 DEF Withdraw, Undisturbed
  <2>3. CASE Migrate \/ Tick
    BY <1>1, <2>3 DEF Migrate, Tick, Undisturbed
  <2> QED BY <2>1, <2>2, <2>3 DEF Source, LayerNext
<1>4. /\ Window(q) \subseteq DOMAIN stamp /\ Window(q) \subseteq Window(q)'
      /\ \A o \in Window(q)' : o \in Window(q) \/ \A p \in DOMAIN stamp : p < o
  <2>1. \A o : o \in Window(q)' <=> o \in live' /\ Matches(since[q], stamp'[o])
    BY <1>1 DEF Window, Selected, Matches, Trunc
  <2>2. \A o : o \in Window(q) <=> o \in live /\ Matches(since[q], stamp[o])
    BY DEF Window, Selected
  <2>3. ASSUME NEW o \in Window(q)', o \in live PROVE o \in Window(q)
    BY <1>2, <1>3, <2>1, <2>2, <2>3
  <2>4. ASSUME NEW o \in Window(q) PROVE o \in Window(q)'
    BY <1>2, <1>3, <2>1, <2>2, <2>4
  <2> QED BY <1>2, <1>3, <2>1, <2>2, <2>3, <2>4
<1>5. ASSUME NEW S, Prefix(S, Window(q)) PROVE Prefix(S, Window(q)')
  BY <1>4, <1>5 DEF Prefix
<1>6. LoopData(q)' = LoopData(q) /\ ReadsOn(q)
  BY <1>1, <1>3 DEF LoopData, LoopInv, Paging
<1> QED BY <1>4, <1>5, <1>6, LoopKept

(* As long as there is no fault and no row ages out, a run reads the rows it *)
(* counted, in order, to the end or to the circuit breaker.                  *)
THEOREM LoopInvariant == Spec => []LoopInv
<1>1. Init => LoopInv
  BY DEF Init, LoopInv, Paging
<1>2. ASSUME TypeOK, AuditInv, LoopInv, [Next]_vars PROVE LoopInv'
  <2>1. CASE Source
    BY <1>2, <2>1, SourceKeepsLoop
  <2>2. ASSUME NEW r \in Runs, Start(r) \/ RunStep(r) \/ RunFault(r) PROVE LoopInv'
    BY <1>2, <2>2, FetchPageKeepsLoop, LandPageKeepsLoop, CountKeepsLoop, OtherStepKeepsLoop
  <2>3. CASE UNCHANGED vars
    <3>1. UNCHANGED <<stamp, live, faults, pc, since, expected, counted, pages, page, more, seen>>
      BY <2>3 DEF vars, layerVars, runVars, windowVars, countVars, loopVars, tallyVars
    <3> SUFFICES ASSUME Undisturbed', NEW q \in Runs, Paging(q)' PROVE ReadsOn(q)'
      BY DEF LoopInv
    <3>2. LoopData(q)' = LoopData(q) /\ ReadsOn(q)
      BY <1>2, <3>1 DEF LoopData, LoopInv, Paging, Undisturbed
    <3>3. Window(q)' = Window(q)
      BY <1>2, <3>1, WindowKept
    <3> QED BY <3>2, <3>3, LoopKept
  <2> QED BY <1>2, <2>1, <2>2, <2>3 DEF Next
<1> QED BY <1>1, <1>2, AuditInvariant, TypeCorrect, PTL DEF Spec

(* AD-006 raises no false alarm: without a fault or a row that aged out, a   *)
(* short read means that the circuit breaker ended the loop.                 *)
THEOREM NoFalseAlarmHolds == Spec => []NoFalseAlarm
<1>1. TypeOK /\ AuditInv /\ LoopInv => NoFalseAlarm
  <2> SUFFICES ASSUME TypeOK, AuditInv, LoopInv, NEW r \in Runs, Tallied(r),
                      Status(r) = "short_read", faults = 0, live = DOMAIN stamp,
                      pages[r] # MaxPages
               PROVE  FALSE
    BY DEF NoFalseAlarm, TypeOK, RunTypeOK
  <2>1. ReadsOn(r)
    BY DEF LoopInv, Undisturbed, Tallied, Paging
  <2>2. counted[r] \subseteq seen[r] /\ seen[r] \subseteq DOMAIN stamp
    BY <2>1 DEF ReadsOn, TypeOK, RunTypeOK
  <2>3. IsFiniteSet(seen[r])
    BY <2>2, FiniteRows DEF TypeOK, LayerTypeOK
  <2>4. /\ Cardinality(counted[r]) <= Cardinality(seen[r])
        /\ Cardinality(counted[r]) \in Nat /\ Cardinality(seen[r]) \in Nat
    BY <2>2, <2>3, SubsetCardinality
  <2>5. total[r] < expected[r]
    BY DEF Status
  <2>6. total[r] = Cardinality(seen[r]) /\ expected[r] = Cardinality(counted[r])
    BY <2>1 DEF AuditInv, ReadOnce, ReadsOn
  <2> QED BY <2>4, <2>5, <2>6
<1> QED BY <1>1, LoopInvariant, AuditInvariant, TypeCorrect, PTL

-----------------------------------------------------------------------------
(* A run fails for a reason.                                                 *)

(* While no fault has been injected, a call that raises is one to a host the *)
(* layer has left: the bucket is there, or the run creates it undisturbed.   *)
LEMMA RunKeepsReason ==
    ASSUME BucketReady, TypeOK, ReasonInv,
           NEW r \in Runs, Start(r) \/ RunStep(r) \/ RunFault(r)
    PROVE  ReasonInv'
<1>1. /\ host' = host /\ host \in Nat /\ layer[r] \in Nat /\ faults \in Nat
      /\ faults' = faults \/ faults' = faults + 1
      /\ \A q \in Runs \ {r} : pc'[q] = pc[q] /\ mode'[q] = mode[q] /\ layer'[q] = layer[q]
      /\ bucket => bucket'
  BY DEF RunStep, RunFault, Start, Resolve, HeadBucket, CreateBucket, DecideWindow,
         WindowWithoutBucket, Count, CountMissing, CountWith, FetchPage, LandPage, FinishDry,
         StoreManifest, PutWithoutBucket, Advance, FetchEmpty, QueryFails, Crash, Fault, Goto,
         layerVars, storeVars, setupVars, TypeOK, LayerTypeOK, RunTypeOK
<1>2. layer'[r] <= host'
  <2>1. layer'[r] = layer[r] \/ layer'[r] = 0 \/ layer'[r] = host
    BY DEF RunStep, RunFault, Start, Resolve, HeadBucket, CreateBucket, DecideWindow,
         WindowWithoutBucket, Count, CountMissing, CountWith, FetchPage, LandPage, FinishDry,
         StoreManifest, PutWithoutBucket, Advance, FetchEmpty, QueryFails, Crash,
         setupVars, TypeOK, RunTypeOK
  <2>2. layer[r] <= host
    BY DEF ReasonInv
  <2> QED BY <1>1, <2>1, <2>2
<1>3. ASSUME OneAtATime, NEW p \in Runs, NEW q \in Runs, Active(p)', Active(q)' PROVE p = q
  <2>1. Active(r) \/ \A x \in Runs : ~Active(x)
    BY <1>3 DEF RunStep, RunFault, Start, Resolve, HeadBucket, CreateBucket, DecideWindow,
         WindowWithoutBucket, Count, CountMissing, CountWith, FetchPage, LandPage, FinishDry,
         StoreManifest, PutWithoutBucket, Advance, FetchEmpty, QueryFails, Crash, Active
  <2>2. \A x \in Runs : Active(x)' => Active(x) \/ x = r
    BY <1>1 DEF Active
  <2> QED BY <1>3, <2>1, <2>2 DEF ReasonInv
<1>4. ~mode'[r].dry /\ PastBucket(r)' => bucket'
  <2> SUFFICES ASSUME ~mode'[r].dry, PastBucket(r)', ~bucket PROVE bucket'
    BY <1>1
  <2>1. ShouldCreateBucket
    BY DEF BucketReady, ReasonInv
  <2>2. ~PastBucket(r) \/ mode[r].dry
    BY DEF ReasonInv
  <2> QED BY <2>1, <2>2
       DEF RunStep, RunFault, Start, Resolve, HeadBucket, CreateBucket, DecideWindow,
         WindowWithoutBucket, Count, CountMissing, CountWith, FetchPage, LandPage, FinishDry,
         StoreManifest, PutWithoutBucket, Advance, FetchEmpty, QueryFails, Crash, Goto,
         AfterResolve, AfterHead, AfterFailedAttempt, PastBucket, Active, setupVars,
         TypeOK, RunTypeOK
<1>5. ASSUME OneAtATime, NEW q \in Runs, pc'[q] = "create_bucket" PROVE ~bucket'
  <2>1. Active(r) => \A p \in Runs : Active(p) => p = r
    BY <1>5 DEF ReasonInv
  <2>2. bucket' = bucket \/ CreateBucket(r)
    BY DEF RunStep, RunFault, Start, Resolve, HeadBucket, DecideWindow,
         WindowWithoutBucket, Count, CountMissing, CountWith, FetchPage, LandPage, FinishDry,
         StoreManifest, PutWithoutBucket, Advance, FetchEmpty, QueryFails, Crash, storeVars
  <2>3. CASE q = r
    <3>1. pc[r] = "head_bucket" /\ HeadBucket(r)
      BY <1>5, <2>3 DEF RunStep, RunFault, Start, Resolve, HeadBucket, CreateBucket, DecideWindow,
         WindowWithoutBucket, Count, CountMissing, CountWith, FetchPage, LandPage, FinishDry,
         StoreManifest, PutWithoutBucket, Advance, FetchEmpty, QueryFails, Crash, Goto,
         AfterResolve, AfterHead, AfterFailedAttempt, TypeOK, RunTypeOK
    <3> QED BY <1>5, <2>3, <3>1 DEF HeadBucket, AfterHead, Goto, storeVars, TypeOK, RunTypeOK
  <2>4. CASE q # r
    <3>1. pc[q] = "create_bucket" /\ Active(q)
      BY <1>1, <1>5, <2>4 DEF Active
    <3>2. ~bucket
      BY <1>5, <3>1 DEF ReasonInv
    <3>3. ~Active(r)
      BY <2>1, <2>4, <3>1
    <3> QED BY <2>2, <3>2, <3>3 DEF CreateBucket, Active
  <2> QED BY <2>3, <2>4
<1>6. ASSUME pc'[r] = "failed", ~ (faults' > 0) PROVE layer'[r] # host'
  <2>1. faults = 0 /\ ~Fault
    BY <1>1, <1>6 DEF Fault
  <2>2. pc[r] # "failed"
    BY DEF RunStep, RunFault, Start, Resolve, HeadBucket, CreateBucket, DecideWindow,
         WindowWithoutBucket, Count, CountMissing, CountWith, FetchPage, LandPage, FinishDry,
         StoreManifest, PutWithoutBucket, Advance, FetchEmpty, QueryFails, Crash, Active
  <2>3. \/ CreateBucket(r) /\ bucket /\ CreateAgainFails
        \/ WindowWithoutBucket(r) \/ PutWithoutBucket(r)
        \/ QueryFails(r) /\ GoneHost(r)
    BY <1>6, <2>1, <2>2
       DEF RunStep, RunFault, Start, Resolve, HeadBucket, CreateBucket, DecideWindow,
         WindowWithoutBucket, Count, CountMissing, CountWith, FetchPage, LandPage, FinishDry,
         StoreManifest, PutWithoutBucket, Advance, FetchEmpty, QueryFails, Crash, Goto,
         AfterResolve, AfterHead, TypeOK, RunTypeOK
  <2>4. ~ (CreateBucket(r) /\ bucket /\ CreateAgainFails)
    <3> SUFFICES ASSUME CreateBucket(r), bucket, CreateAgainFails PROVE FALSE
      OBVIOUS
    <3>1. pc[r] = "create_bucket" /\ ~OneAtATime
      BY DEF CreateBucket, ReasonInv
    <3>2. ~ (InitialBuckets \subseteq {TRUE})
      BY <3>1 DEF ReasonInv
    <3> QED BY <3>1, <3>2 DEF BucketReady
  <2>5. ~WindowWithoutBucket(r) /\ ~PutWithoutBucket(r)
    BY DEF WindowWithoutBucket, PutWithoutBucket, ReadsWatermark, ReasonInv, PastBucket, Active
  <2>6. QueryFails(r) /\ GoneHost(r)
    BY <2>3, <2>4, <2>5
  <2> QED BY <1>1, <2>6 DEF QueryFails, GoneHost, Reachable, setupVars
<1>7. FailsForAReason'
  <2> SUFFICES ASSUME NEW q \in Runs, pc'[q] = "failed", ~ (faults' > 0) PROVE layer'[q] # host'
    BY DEF FailsForAReason
  <2>1. CASE q = r
    BY <1>6, <2>1
  <2>2. CASE q # r
    BY <1>1, <2>2 DEF ReasonInv, FailsForAReason
  <2> QED BY <2>1, <2>2
<1>8. ASSUME NEW q \in Runs
      PROVE  /\ layer'[q] <= host'
             /\ PastBucket(q)' /\ ~mode'[q].dry => bucket'
  BY <1>1, <1>2, <1>4 DEF ReasonInv, PastBucket, Active
<1>9. ASSUME InitialBuckets \subseteq {TRUE}, NEW q \in Runs PROVE pc'[q] # "create_bucket"
  <2>1. bucket /\ pc[r] # "create_bucket" /\ pc[q] # "create_bucket"
    BY <1>9 DEF ReasonInv
  <2> QED BY <1>1, <2>1 DEF RunStep, RunFault, Start, Resolve, HeadBucket, CreateBucket, DecideWindow,
         WindowWithoutBucket, Count, CountMissing, CountWith, FetchPage, LandPage, FinishDry,
         StoreManifest, PutWithoutBucket, Advance, FetchEmpty, QueryFails, Crash, Goto,
         AfterResolve, AfterHead, AfterFailedAttempt, TypeOK, RunTypeOK
<1> QED BY <1>1, <1>3, <1>5, <1>7, <1>8, <1>9 DEF ReasonInv

(* The source does nothing to runs or to the bucket, and its host only moves *)
(* on.                                                                       *)
LEMMA SourceKeepsReason == TypeOK /\ ReasonInv /\ Source => ReasonInv'
<1> SUFFICES ASSUME TypeOK, ReasonInv, Source PROVE ReasonInv'
  OBVIOUS
<1>1. UNCHANGED <<bucket, pc, mode, layer, faults>> /\ host \in Nat /\ layer \in [Runs -> Nat]
  BY DEF Source, storeVars, runVars, setupVars, TypeOK, LayerTypeOK, RunTypeOK
<1>2. host' = host \/ host' = host + 1
  BY DEF Source, LayerNext, Publish, Withdraw, Migrate, Tick
<1>3. ASSUME NEW r \in Runs
      PROVE  layer'[r] <= host' /\ (layer[r] # host => layer'[r] # host')
  <2>1. layer[r] <= host /\ layer[r] \in Nat
    BY <1>1 DEF ReasonInv
  <2> QED BY <1>1, <1>2, <2>1
<1> QED BY <1>1, <1>3 DEF ReasonInv, FailsForAReason, PastBucket, Active

(* Where no two runs can race to create the bucket, a run past that stage    *)
(* has one, and none has failed but for a fault or a host move.              *)
THEOREM ReasonInvariant == BucketReady => (Spec => []ReasonInv)
<1> SUFFICES ASSUME BucketReady PROVE Spec => []ReasonInv
  OBVIOUS
<1>1. ASSUME Init PROVE ReasonInv
  <2>1. host = 0 /\ bucket \in InitialBuckets
    BY <1>1 DEF Init, LayerInit
  <2>2. \A r \in Runs : pc[r] = "idle" /\ layer[r] = 0
    BY <1>1 DEF Init
  <2>3. InitialBuckets \subseteq {TRUE} => bucket
    BY <2>1, Zenon
  <2>4. \A r \in Runs : layer[r] <= host
    BY <2>1, <2>2
  <2> QED BY <2>2, <2>3, <2>4 DEF ReasonInv, FailsForAReason, PastBucket, Active
<1>2. ASSUME TypeOK, ReasonInv, [Next]_vars PROVE ReasonInv'
  <2>1. CASE Source
    BY <1>2, <2>1, SourceKeepsReason
  <2>2. CASE \E r \in Runs : Start(r) \/ RunStep(r) \/ RunFault(r)
    BY <1>2, <2>2, RunKeepsReason
  <2>3. CASE UNCHANGED vars
    BY <1>2, <2>3 DEF vars, layerVars, storeVars, runVars, setupVars, ReasonInv, FailsForAReason,
                      PastBucket, Active
  <2> QED BY <1>2, <2>1, <2>2, <2>3 DEF Next
<1> QED BY <1>1, <1>2, TypeCorrect, PTL DEF Spec

(* A run only fails for a reason outside the program, however many runs are  *)
(* started, as long as no two of them race to create the bucket.             *)
THEOREM FailsForAReasonHolds == BucketReady => (Spec => []FailsForAReason)
<1> SUFFICES ASSUME BucketReady PROVE Spec => []FailsForAReason
  OBVIOUS
<1>1. ReasonInv => FailsForAReason
  BY DEF ReasonInv
<1> QED BY <1>1, ReasonInvariant, PTL

-----------------------------------------------------------------------------
(* A failed window is read again.                                            *)

(* high_water never falls.                                                   *)
LEMMA RaiseIsAbove ==
    ASSUME NEW h \in Ticks, stamp \in Seq(Ticks), NEW rows,
           rows \subseteq DOMAIN stamp, IsFiniteSet(rows)
    PROVE  Raise(h, rows) >= h
<1> DEFINE values == {h} \cup {stamp[o] : o \in rows}
<1>1. IsFiniteSet(values)
  <2>1. IsFiniteSet({stamp[o] : o \in rows})
    BY FiniteStamps
  <2>2. IsFiniteSet({stamp[o] : o \in rows} \cup {h})
    BY <2>1, FS_AddElement
  <2> QED BY <2>2
<1>2. values \subseteq Int
  BY DEF Ticks, None
<1>3. \E m \in values : \A v \in values : v <= m
  <2> HIDE DEF values
  <2>1. values # {}
    BY DEF values
  <2> QED BY <1>1, <1>2, <2>1, LargestExists
<1>4. Raise(h, rows) \in values /\ \A v \in values : v <= Raise(h, rows)
  BY <1>3 DEF Raise
<1>5. Raise(h, rows) \in Int /\ h \in Int /\ h <= Raise(h, rows)
  BY <1>2, <1>4
<1> QED BY <1>5

(* A later mark selects fewer rows.                                          *)
LEMMA LaterMarkMatchesLess ==
    ASSUME NEW a \in Nat, NEW b \in Nat, a <= b, NEW s \in Int, Matches(b, s)
    PROVE  Matches(a, s)
<1> DEFINE n == TicksPerSecond
<1>1. n \in Nat /\ n > 0
  BY FeatureLayerAssumption
<1> HIDE DEF n
<1>2. /\ a = n * (a \div n) + (a % n) /\ a % n \in 0..(n - 1) /\ a \div n \in Int
      /\ b = n * (b \div n) + (b % n) /\ b % n \in 0..(n - 1) /\ b \div n \in Int
  BY <1>1
<1> DEFINE A == a \div n
           B == b \div n
<1>3. A <= B
  <2> SUFFICES ASSUME ~ (A <= B) PROVE FALSE
    OBVIOUS
  <2>1. A >= B + 1 /\ A \in Int /\ B \in Int
    BY <1>2
  <2> HIDE DEF A, B
  <2>2. n * A >= n * B + n
    BY <1>1, <2>1
  <2>3. a >= n * A /\ b <= n * B + n - 1
    BY <1>1, <1>2, <2>1 DEF A, B
  <2>4. n * A \in Int /\ n * B \in Int
    BY <1>1, <2>1
  <2> QED BY <1>1, <2>2, <2>3, <2>4
<1>4. n * A <= n * B /\ n * A \in Int /\ n * B \in Int
  <2>1. A \in Int /\ B \in Int
    BY <1>2
  <2> HIDE DEF A, B
  <2> QED BY <1>1, <1>3, <2>1
<1>5. a - (a % n) = n * A /\ b - (b % n) = n * B
  BY <1>1, <1>2
<1>6. s > b - (b % n)
  BY DEF Matches, Trunc, None, n
<1>7. s > a - (a % n)
  <2> HIDE DEF A, B
  <2> QED BY <1>4, <1>5, <1>6
<1> QED BY <1>7 DEF Matches, Trunc, n

(* What MarkInv says of a run that does not move.                            *)
MarkData(q) == <<pc[q], mode[q], since[q], reach[q], high[q], counted[q]>>

(* A run that does nothing keeps what it is about to make of the watermark. *)
LEMMA MarkKeptByOthers ==
    ASSUME TypeOK, NEW q \in Runs, MarkData(q)' = MarkData(q), MarkKept(q),
           \A o \in DOMAIN stamp : stamp'[o] = stamp[o]
    PROVE  MarkKept(q)'
<1>1. /\ pc'[q] = pc[q] /\ mode'[q] = mode[q] /\ since'[q] = since[q] /\ reach'[q] = reach[q]
      /\ high'[q] = high[q] /\ counted'[q] = counted[q]
  BY DEF MarkData
<1>2. \A o \in counted[q] : o \in DOMAIN stamp
  BY DEF TypeOK, RunTypeOK
<1>3. ReadsWatermark(q) => \A o \in counted[q] : Matches(InitialWatermark, stamp[o])'
  BY <1>2 DEF MarkKept, Matches, Trunc
<1> QED BY <1>1, <1>3 DEF MarkKept, NotBegun, Paging, ReadsWatermark, Matches, Trunc

(* The steps that read a mark, count by it, raise it or write it.            *)
LEMMA RunKeepsMark ==
    ASSUME StoredFirst, TypeOK, AuditInv, MarkInv,
           NEW r \in Runs, Start(r) \/ RunStep(r) \/ RunFault(r)
    PROVE  MarkInv'
<1>1. /\ UNCHANGED <<stamp, live>>
      /\ \A q \in Runs \ {r} :
            /\ pc'[q] = pc[q] /\ mode'[q] = mode[q] /\ since'[q] = since[q]
            /\ reach'[q] = reach[q] /\ high'[q] = high[q] /\ counted'[q] = counted[q]
  BY DEF RunStep, RunFault, Start, Resolve, HeadBucket, CreateBucket, DecideWindow,
         WindowWithoutBucket, Count, CountMissing, CountWith, FetchPage, LandPage, FinishDry,
         StoreManifest, PutWithoutBucket, Advance, FetchEmpty, QueryFails, Crash, Goto,
         layerVars, setupVars, windowVars, countVars, tallyVars, TypeOK, RunTypeOK
<1>2. \A q \in Runs \ {r} : MarkKept(q)'
  BY <1>1, MarkKeptByOthers DEF MarkInv, MarkData
<1>3. MarkKept(r) /\ watermark >= InitialWatermark /\ InitialWatermark \in Nat
  BY IngestAssumption DEF MarkInv, StoredFirst, Ticks
<1>4. /\ since[r] \in Ticks /\ high[r] \in Ticks /\ watermark \in Ticks
      /\ stamp \in Seq(Ticks) /\ page[r] \subseteq DOMAIN stamp /\ mode[r].dry \in BOOLEAN
      /\ mode[r].full \in BOOLEAN /\ pc \in [Runs -> PcValues]
  BY DEF TypeOK, LayerTypeOK, StoreTypeOK, RunTypeOK
<1>5. CASE Start(r)
  <2>1. /\ UNCHANGED <<watermark, floor, since, reach, high, counted>>
        /\ pc[r] = "idle" /\ pc'[r] = "resolve" /\ mode'[r] \in Modes
    BY <1>5 DEF Start, Goto, storeVars, windowVars, countVars, tallyVars, TypeOK, RunTypeOK
  <2>2. MarkKept(r)'
    BY <1>3, <2>1 DEF MarkKept, NotBegun, Paging, StoredFirst
  <2> QED BY <1>2, <2>1, <2>2 DEF MarkInv
<1>6. CASE DecideWindow(r)
  <2>1. /\ UNCHANGED <<watermark, floor, mode, counted>>
        /\ pc[r] = "window" /\ pc'[r] = "count"
        /\ since'[r] = SinceOf(r) /\ high'[r] = SinceOf(r)
        /\ reach'[r] = IF StoredMark(r) # None THEN floor ELSE SinceOf(r)
    BY <1>6 DEF DecideWindow, Goto, storeVars, setupVars, countVars, TypeOK, RunTypeOK
  <2>5. MarkKept(r)'
    <3>1. CASE mode[r].dry
      BY <1>3, <2>1, <3>1 DEF MarkKept, NotBegun, Paging, ReadsWatermark
    <3>2. CASE ~mode[r].dry /\ mode[r].full
      <4>1. SinceOf(r) = None /\ StoredMark(r) = None /\ InitialWatermark = 0
        BY <1>3, <2>1, <3>2 DEF SinceOf, StoredMark, ReadsWatermark, MarkKept, NotBegun
      <4> QED BY <1>3, <2>1, <3>2, <4>1 DEF MarkKept, NotBegun, Paging, ReadsWatermark
    <3>3. CASE ~mode[r].dry /\ ~mode[r].full
      <4>1. watermark # None /\ StoredMark(r) = watermark /\ SinceOf(r) = watermark
        BY <1>3, <1>4, <3>3 DEF SinceOf, StoredMark, ReadsWatermark, None, Ticks
      <4>2. floor \in {InitialWatermark, None} /\ (floor = None => InitialWatermark = 0)
        BY DEF MarkInv
      <4> QED BY <1>3, <2>1, <3>3, <4>1, <4>2 DEF MarkKept, NotBegun, Paging, ReadsWatermark
    <3> QED BY <1>4, <3>1, <3>2, <3>3
  <2> QED BY <1>2, <2>1, <2>5 DEF MarkInv
<1>7. CASE Count(r) \/ CountMissing(r)
  <2>1. /\ UNCHANGED <<watermark, floor, mode, since, reach, high>>
        /\ pc[r] = "count" /\ pc'[r] = "fetch" /\ counted'[r] = Window(r)
    BY <1>7 DEF Count, CountMissing, CountWith, Goto, storeVars, setupVars, windowVars,
                tallyVars, TypeOK, RunTypeOK
  <2>2. ReadsWatermark(r) => \A o \in Window(r) : Matches(InitialWatermark, stamp[o])
    <3> SUFFICES ASSUME ReadsWatermark(r), NEW o \in Window(r)
                 PROVE  Matches(InitialWatermark, stamp[o])
      OBVIOUS
    <3>1. since[r] >= InitialWatermark
      BY <1>3, <2>1 DEF MarkKept, ReadsWatermark
    <3>2. Matches(since[r], stamp[o]) /\ stamp[o] \in Int
      BY <1>4 DEF Window, Selected, TypeOK, LayerTypeOK, Ticks, None
    <3>3. since[r] \in Nat /\ InitialWatermark <= since[r]
      BY <1>3, <1>4, <3>1 DEF Ticks, None
    <3> QED BY <1>3, <3>2, <3>3, LaterMarkMatchesLess
  <2>3. MarkKept(r)'
    BY <1>1, <1>3, <2>1, <2>2 DEF MarkKept, NotBegun, Paging, ReadsWatermark, Matches, Trunc
  <2> QED BY <1>2, <2>1, <2>3 DEF MarkInv
<1>8. CASE LandPage(r)
  <2>1. /\ UNCHANGED <<watermark, floor, mode, since, reach, counted>>
        /\ pc[r] = "land" /\ pc'[r] \in {"fetch", "manifest"}
        /\ high'[r] = Raise(high[r], page[r])
    BY <1>8 DEF LandPage, Goto, storeVars, setupVars, windowVars, countVars, TypeOK, RunTypeOK
  <2>2. Raise(high[r], page[r]) >= high[r]
    BY <1>4, FiniteRows, RaiseIsAbove
  <2>3. high'[r] \in Ticks
    BY RunTypeOKStep DEF TypeOK, RunTypeOK
  <2>4. high[r] >= InitialWatermark => high'[r] >= InitialWatermark
    BY <1>3, <1>4, <2>1, <2>2, <2>3 DEF Ticks, None
  <2>5. MarkKept(r)'
    BY <1>1, <1>3, <2>1, <2>4 DEF MarkKept, NotBegun, Paging, ReadsWatermark, Matches, Trunc
  <2> QED BY <1>2, <2>1, <2>5 DEF MarkInv
<1>9. CASE Advance(r)
  <2>1. /\ UNCHANGED <<mode, since, reach, high, counted>>
        /\ pc[r] = "advance" /\ pc'[r] = "done" /\ watermark' = high[r] /\ floor' = reach[r]
    BY <1>9 DEF Advance, WriteWatermark, Goto, setupVars, windowVars, countVars, tallyVars,
                TypeOK, RunTypeOK
  <2>2. MarkKept(r)'
    BY <1>1, <1>3, <2>1 DEF MarkKept, NotBegun, Paging, ReadsWatermark, Matches, Trunc
  <2>3. ~mode[r].dry /\ high[r] # None /\ Paging(r)
    BY <1>3, <2>1 DEF MarkKept, Paging
  <2>4. high[r] >= InitialWatermark
    BY <1>3, <1>4, <2>3 DEF MarkKept, Ticks, None
  <2>5. floor' \in {InitialWatermark, None} /\ (floor' = None => InitialWatermark = 0)
    BY <1>3, <2>1, <2>3 DEF MarkKept
  <2> QED BY <1>2, <2>1, <2>2, <2>4, <2>5 DEF MarkInv
<1>10. CASE Resolve(r) \/ HeadBucket(r) \/ CreateBucket(r) \/ WindowWithoutBucket(r)
           \/ FetchPage(r) \/ FetchEmpty(r) \/ QueryFails(r) \/ FinishDry(r)
           \/ StoreManifest(r) \/ PutWithoutBucket(r) \/ Crash(r)
  <2>1. UNCHANGED <<watermark, floor, mode, since, reach, high, counted>>
    BY <1>10 DEF Resolve, HeadBucket, CreateBucket, WindowWithoutBucket, FetchPage, FetchEmpty,
                 QueryFails, FinishDry, StoreManifest, PutWithoutBucket, Crash, storeVars,
                 setupVars, windowVars, countVars, tallyVars
  <2>2. \/ pc'[r] = pc[r] /\ pc[r] # "advance"
        \/ pc'[r] = "failed"
        \/ NotBegun(r) /\ NotBegun(r)'
        \/ Paging(r) /\ pc'[r] \in {"land", "manifest", "done"}
        \/ Paging(r) /\ pc'[r] = "advance" /\ ~mode[r].dry /\ high[r] # None
    BY <1>4, <1>10 DEF Resolve, HeadBucket, CreateBucket, WindowWithoutBucket, FetchPage, FetchEmpty,
                 QueryFails, FinishDry, StoreManifest, PutWithoutBucket, Crash, Goto,
                 AfterResolve, AfterHead, AfterFailedAttempt, AdvancesWatermark, NotBegun, Paging
  <2>3. MarkKept(r)'
    BY <1>1, <1>3, <2>1, <2>2 DEF MarkKept, NotBegun, Paging, ReadsWatermark, Matches, Trunc
  <2> QED BY <1>2, <2>1, <2>3 DEF MarkInv
<1> QED BY <1>5, <1>6, <1>7, <1>8, <1>9, <1>10 DEF RunStep, RunFault

(* With a watermark stored before the first run, which no full refresh can   *)
(* undercut, no run moves it, or is about to, below that one.                *)
THEOREM MarkInvariant == StoredFirst => (Spec => []MarkInv)
<1> SUFFICES ASSUME StoredFirst PROVE Spec => []MarkInv
  OBVIOUS
<1>1. ASSUME Init PROVE MarkInv
  <2>1. bucket
    BY <1>1, Zenon DEF Init, StoredFirst
  <2>2. watermark = InitialWatermark /\ floor = watermark
    BY <1>1, <2>1 DEF Init
  <2>3. InitialWatermark >= InitialWatermark
    BY IngestAssumption DEF Ticks, None
  <2> QED BY <1>1, <2>2, <2>3 DEF Init, MarkInv, MarkKept, StoredFirst, NotBegun, Paging
<1>2. ASSUME TypeOK, AuditInv, MarkInv, [Next]_vars PROVE MarkInv'
  <2>1. CASE \E r \in Runs : Start(r) \/ RunStep(r) \/ RunFault(r)
    BY <1>2, <2>1, RunKeepsMark
  <2>2. CASE Source \/ UNCHANGED vars
    <3>1. UNCHANGED <<watermark, floor, pc, mode, since, reach, high, counted>>
      BY <2>2 DEF Source, vars, storeVars, runVars, setupVars, windowVars, countVars, tallyVars
    <3>2. \A o \in DOMAIN stamp : stamp'[o] = stamp[o]
      BY <1>2, <2>2 DEF Source, LayerNext, Publish, Withdraw, Migrate, Tick, vars, layerVars,
                        TypeOK, LayerTypeOK
    <3>3. \A q \in Runs : MarkData(q)' = MarkData(q)
      BY <3>1 DEF MarkData
    <3> QED BY <1>2, <3>1, <3>2, <3>3, MarkKeptByOthers DEF MarkInv
  <2> QED BY <1>2, <2>1, <2>2 DEF Next
<1> QED BY <1>1, <1>2, AuditInvariant, TypeCorrect, PTL DEF Spec

(* AD-005: the rows a dead or short incremental run had counted are selected *)
(* again by the next window, or have been landed by another run.             *)
THEOREM FailedWindowRereadHolds ==
    OrderlyFeed /\ StoredFirst => (Spec => []FailedWindowReread)
<1> SUFFICES ASSUME OrderlyFeed, StoredFirst PROVE Spec => []FailedWindowReread
  OBVIOUS
<1>1. TypeOK /\ DeliveryInv /\ MarkInv => FailedWindowReread
  <2> SUFFICES ASSUME TypeOK, DeliveryInv, MarkInv, NEW r \in Runs, ReadsWatermark(r),
                      NEW o \in counted[r], o \in live, o \notin Landed
               PROVE  Matches(NextWindow, stamp[o])
    BY DEF FailedWindowReread
  <2>1. Matches(InitialWatermark, stamp[o])
    BY DEF MarkInv, MarkKept
  <2>2. Matches(floor, stamp[o])
    BY <2>1 DEF MarkInv, Matches, None
  <2>3. o \in Selected(floor)
    BY <2>2 DEF Selected
  <2>4. Matches(watermark, stamp[o])
    BY <2>3 DEF DeliveryInv, Credible, OutOfReach
  <2>5. watermark # None
    BY IngestAssumption DEF MarkInv, StoredFirst, Ticks, None
  <2> QED BY <2>4, <2>5 DEF NextWindow
<1> QED BY <1>1, MarkInvariant, DeliveryInvariant, TypeCorrect, PTL
=============================================================================
