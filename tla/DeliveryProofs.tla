--------------------------- MODULE DeliveryProofs ---------------------------
(***************************************************************************)
(* Type correctness and at-least-once delivery of Ingest, and that it        *)
(* implements Delivery, for every number of overlapping runs, in any mode,   *)
(* with crashes, failed and empty answers and host moves; delivery over a    *)
(* feed in order from which nothing is withdrawn.                            *)
(***************************************************************************)
EXTENDS Ingest, Bounds, FunctionTheorems, SequenceTheorems

-----------------------------------------------------------------------------
(* Lemmas about the operators.                                              *)

(* The image of a finite set of rows under a sequence of stamps is finite. *)
LEMMA FiniteStamps ==
    ASSUME NEW f, NEW rows, rows \subseteq DOMAIN f, IsFiniteSet(rows)
    PROVE  IsFiniteSet({f[o] : o \in rows})
<1> DEFINE T == {f[o] : o \in rows}
           g == [o \in rows |-> f[o]]
<1>1. g \in Surjection(rows, T)
  BY DEF Surjection
<1> HIDE DEF g, T
<1>2. IsFiniteSet(T)
  BY <1>1, FS_Surjection
<1> QED BY <1>2 DEF T

(* high_water after a page is the old value or the stamp of a row of it. *)
LEMMA RaiseIsOneOf ==
    ASSUME NEW h \in Ticks, stamp \in Seq(Ticks), NEW rows,
           rows \subseteq DOMAIN stamp, IsFiniteSet(rows)
    PROVE  Raise(h, rows) = h \/ \E o \in rows : Raise(h, rows) = stamp[o]
<1> DEFINE values == {h} \cup {stamp[o] : o \in rows}
<1>1. IsFiniteSet(values)
  <2>1. IsFiniteSet({stamp[o] : o \in rows})
    BY FiniteStamps
  <2>2. IsFiniteSet({stamp[o] : o \in rows} \cup {h})
    BY <2>1, FS_AddElement
  <2> QED BY <2>2
<1>2. values \subseteq Int
  BY DEF Ticks, None
<1>3. \E m \in values : \A v \in values : v <= m
  <2> HIDE DEF values
  <2>1. values # {}
    BY DEF values
  <2> QED BY <1>1, <1>2, <2>1, LargestExists
<1>4. Raise(h, rows) \in values
  BY <1>3 DEF Raise
<1> QED BY <1>4

-----------------------------------------------------------------------------
(* Type correctness.                                                        *)

(* Sets of published rows are finite. *)
LEMMA FiniteRows ==
    ASSUME stamp \in Seq(Ticks), NEW S, S \subseteq DOMAIN stamp
    PROVE  IsFiniteSet(S) /\ Cardinality(S) \in Nat
<1>1. IsFiniteSet(DOMAIN stamp)
  BY FS_Interval
<1> QED BY <1>1, FS_Subset, FS_CardinalityType

(* The first state is well typed. *)
LEMMA InitTypeOK == Init => TypeOK
<1> SUFFICES ASSUME Init PROVE TypeOK
  OBVIOUS
<1> USE FeatureLayerAssumption, IngestAssumption
<1>1. LayerTypeOK
  <2>1. PICK n \in 0..InitialRows : stamp \in [1..n -> 0..Lookback \cup {None}]
    BY DEF Init, LayerInit
  <2>2. stamp \in [1..n -> Ticks] /\ n \in Nat
    BY <2>1 DEF Ticks
  <2>3. stamp \in Seq(Ticks)
    BY <2>2, SeqDef
  <2> QED BY <2>3 DEF Init, LayerInit, LayerTypeOK
<1>2. StoreTypeOK
  BY DEF Init, StoreTypeOK, Ticks
<1>3. RunTypeOK
  BY DEF Init, RunTypeOK, PcValues, Ticks, None
<1> QED BY <1>1, <1>2, <1>3 DEF TypeOK

(* A step of the source only adds rows. *)
LEMMA SourceTypeOK == TypeOK /\ Source => TypeOK'
<1> SUFFICES ASSUME TypeOK, Source PROVE TypeOK'
  OBVIOUS
<1> USE DEF TypeOK
<1>1. LayerTypeOK' /\ DOMAIN stamp \subseteq DOMAIN stamp'
  <2>1. CASE Publish
    <3>1. PICK s \in Stamps \cup {None} :
              stamp' = Append(stamp, s) /\ live' = live \cup {Len(stamp) + 1}
      BY <2>1 DEF Publish
    <3>2. s \in Ticks
      BY FeatureLayerAssumption DEF Stamps, Ticks
    <3>3. /\ stamp' \in Seq(Ticks)
          /\ DOMAIN stamp' = DOMAIN stamp \cup {Len(stamp) + 1}
      BY <3>1, <3>2 DEF LayerTypeOK
    <3> QED BY <2>1, <3>1, <3>3 DEF Publish, LayerTypeOK
  <2>2. CASE Withdraw
    BY <2>2 DEF Withdraw, LayerTypeOK
  <2>3. CASE Migrate
    BY <2>3 DEF Migrate, LayerTypeOK
  <2>4. CASE Tick
    BY <2>4, FeatureLayerAssumption DEF Tick, LayerTypeOK
  <2> QED BY <2>1, <2>2, <2>3, <2>4 DEF Source, LayerNext
<1>2. StoreTypeOK'
  BY <1>1 DEF Source, storeVars, StoreTypeOK
<1>3. RunTypeOK'
  <2>1. UNCHANGED <<pc, mode, layer, attempts, since, reach, expected, counted, offset,
                    pages, page, more, total, high, seen, faults>>
    BY DEF Source, runVars, setupVars, windowVars, countVars, loopVars, tallyVars
  <2>2. \A f \in [Runs -> SUBSET DOMAIN stamp] : f \in [Runs -> SUBSET DOMAIN stamp']
    BY <1>1
  <2> QED BY <2>1, <2>2 DEF RunTypeOK
<1> QED BY <1>1, <1>2, <1>3

(* Every step of a run. *)
LEMMA RunTypeOKStep ==
    ASSUME TypeOK, NEW r \in Runs, Start(r) \/ RunStep(r) \/ RunFault(r)
    PROVE  TypeOK'
<1>a. \A m, n \in Nat : m + n \in Nat /\ m + 1 \in Nat
  OBVIOUS
<1>b. /\ faults \in Nat /\ attempts[r] \in Nat /\ total[r] \in Nat
      /\ offset[r] \in Nat /\ pages[r] \in Nat /\ high[r] \in Ticks
      /\ pc[r] \in PcValues /\ page[r] \subseteq DOMAIN stamp /\ stamp \in Seq(Ticks)
  BY DEF TypeOK, RunTypeOK, LayerTypeOK
<1>c. Fault => faults' \in Nat
  BY <1>a, <1>b DEF Fault
<1>d. NextAttempt(r) \in Nat /\ AfterFailedAttempt(r) \in PcValues
  BY <1>a, <1>b DEF NextAttempt, AfterFailedAttempt, PcValues
<1>e. IsFiniteSet(page[r]) /\ Cardinality(page[r]) \in Nat
  BY <1>b, FiniteRows
<1>f. Raise(high[r], page[r]) \in Ticks
  <2>1. \A o \in page[r] : stamp[o] \in Ticks
    BY <1>b
  <2>2. Raise(high[r], page[r]) = high[r]
           \/ \E o \in page[r] : Raise(high[r], page[r]) = stamp[o]
    BY <1>b, <1>e, RaiseIsOneOf
  <2> QED BY <1>b, <2>1, <2>2
<1>g. total[r] + Cardinality(page[r]) \in Nat /\ NextOffset(r) \in Nat /\ pages[r] + 1 \in Nat
  BY <1>a, <1>b, <1>e DEF NextOffset
<1> USE FeatureLayerAssumption, IngestAssumption
        DEF TypeOK, LayerTypeOK, StoreTypeOK, RunTypeOK, layerVars, storeVars,
            setupVars, windowVars, countVars, loopVars, tallyVars, Goto, PcValues
<1>1. CASE Start(r)
  BY <1>1 DEF Start
<1>2. CASE Resolve(r)
  BY <1>2 DEF Resolve, AfterResolve
<1>3. CASE HeadBucket(r)
  BY <1>3 DEF HeadBucket, AfterHead
<1>4. CASE CreateBucket(r)
  BY <1>4 DEF CreateBucket
<1>5. CASE DecideWindow(r)
  <2>1. SinceOf(r) \in Ticks /\ (IF StoredMark(r) # None THEN floor ELSE SinceOf(r)) \in Ticks
    BY DEF SinceOf, StoredMark, Ticks, None
  <2> QED BY <1>5, <2>1 DEF DecideWindow
<1>6. CASE WindowWithoutBucket(r)
  BY <1>6 DEF WindowWithoutBucket
<1>7. Window(r) \subseteq DOMAIN stamp /\ Cardinality(Window(r)) \in Nat
  BY FiniteRows DEF Window, Selected
<1>8. CASE \E n \in Nat : CountWith(r, n) /\ (UNCHANGED faults \/ Fault)
  <2>1. faults' \in Nat
    BY <1>8, <1>c
  <2>2. PICK n \in Nat : CountWith(r, n)
    BY <1>8
  <2> QED BY <1>7, <2>1, <2>2 DEF CountWith
<1>9. CASE FetchPage(r)
  <2>1. PageOf(Window(r), offset[r], PageCap) \subseteq DOMAIN stamp
    BY <1>7 DEF PageOf
  <2>2. Exceeded(Window(r), offset[r], PageCap) \in BOOLEAN
    BY DEF Exceeded
  <2> QED BY <1>9, <2>1, <2>2 DEF FetchPage
<1>10. CASE FetchEmpty(r)
  <2>1. faults' \in Nat
    BY <1>10, <1>c DEF FetchEmpty
  <2> QED BY <1>10, <2>1 DEF FetchEmpty
<1>11. CASE QueryFails(r)
  <2>1. faults' \in Nat
    BY <1>11, <1>c DEF QueryFails
  <2> QED BY <1>11, <1>d, <2>1 DEF QueryFails
<1>12. CASE LandPage(r)
  <2>1. RunTypeOK'
    BY <1>12, <1>f, <1>g DEF LandPage
  <2>2. \A x \in raw' : x.key \in [run : Runs, part : Nat] /\ x.rows \subseteq DOMAIN stamp
    BY <1>12, <1>b DEF LandPage, Lands, WritePage, Put, BuildKey
  <2> QED BY <1>12, <2>1, <2>2 DEF LandPage
<1>13. CASE FinishDry(r)
  BY <1>13 DEF FinishDry
<1>14. CASE StoreManifest(r)
  <2>1. Manifest(r).run \in Runs /\ Manifest(r).status \in {"ok", "short_read"}
    BY DEF Manifest, Status
  <2> QED BY <1>14, <2>1 DEF StoreManifest, WriteManifestObject
<1>15. CASE PutWithoutBucket(r)
  BY <1>15 DEF PutWithoutBucket
<1>16. CASE Advance(r)
  BY <1>16 DEF Advance, WriteWatermark
<1>17. CASE Crash(r)
  <2>1. faults' \in Nat
    BY <1>17, <1>c DEF Crash
  <2> QED BY <1>17, <2>1 DEF Crash
<1> QED
  BY <1>1, <1>2, <1>3, <1>4, <1>5, <1>6, <1>7, <1>8, <1>9, <1>10, <1>11, <1>12, <1>13,
     <1>14, <1>15, <1>16, <1>17 DEF RunStep, RunFault, Count, CountMissing

(* TypeOK is an invariant of the job. *)
THEOREM TypeCorrect == Spec => []TypeOK
<1>1. TypeOK /\ UNCHANGED vars => TypeOK'
  BY DEF TypeOK, LayerTypeOK, StoreTypeOK, RunTypeOK, vars, layerVars, storeVars, runVars,
         setupVars, windowVars, countVars, loopVars, tallyVars
<1>2. TypeOK /\ [Next]_vars => TypeOK'
  BY <1>1, SourceTypeOK, RunTypeOKStep DEF Next
<1> QED BY <1>2, InitTypeOK, PTL DEF Spec

-----------------------------------------------------------------------------
(* The source a run can rely on: rows come in order up to ties within a      *)
(* second, stay, and are counted.                                            *)
OrderlyFeed ==
    /\ StampOrder = "next"
    /\ MaxWithdrawals = 0
    /\ CountMayBeMissing = FALSE

-----------------------------------------------------------------------------
(* Rank and pages.                                                           *)

(* The next page after a prefix is disjoint from it and extends it. *)
LEMMA PageExtendsPrefix ==
    ASSUME NEW W, IsFiniteSet(W), W \subseteq Nat,
           NEW S, Prefix(S, W), NEW n \in Nat
    PROVE  LET P == PageOf(W, Cardinality(S), n)
           IN  P \subseteq W /\ P \cap S = {} /\ Prefix(S \cup P, W)
<1> DEFINE off == Cardinality(S)
           P == PageOf(W, off, n)
           Below(o) == {p \in W : p <= o}
<1>1. S \subseteq W /\ IsFiniteSet(S) /\ off \in Nat
  BY SubsetCardinality DEF Prefix
<1>2. \A o \in W : IsFiniteSet(Below(o)) /\ Rank(o, W) = Cardinality(Below(o)) /\ Rank(o, W) \in Nat
  BY SubsetCardinality DEF Rank
<1>3. P \subseteq W
  BY DEF PageOf
<1>4. ASSUME NEW p \in S
      PROVE  p \notin P
  <2>1. \A o \in W : o <= p => o \in S
    <3> SUFFICES ASSUME NEW o \in W, o <= p, o \notin S PROVE FALSE
      OBVIOUS
    <3>1. p < o
      BY DEF Prefix
    <3>2. p \in Nat /\ o \in Nat
      BY <1>1
    <3> QED BY <3>1, <3>2
  <2>2. Below(p) \subseteq S
    BY <2>1
  <2>3. Cardinality(Below(p)) <= off
    BY <1>1, <2>2, SubsetCardinality
  <2>4. p \in W => Rank(p, W) <= off /\ Rank(p, W) \in Nat
    BY <1>2, <2>3
  <2>5. ~ (p \in W /\ off < Rank(p, W))
    BY <1>1, <2>4
  <2> QED BY <2>5 DEF PageOf
<1>5. ASSUME NEW p \in P, NEW o \in W, o \notin S, o \notin P
      PROVE  p < o
  <2>1. SUFFICES ASSUME ~ (p < o) PROVE FALSE
    OBVIOUS
  <2>2. p \in W /\ o \in Nat /\ p \in Nat
    BY <1>3
  <2>3. o <= p
    BY <2>1, <2>2
  <2>4. \A x \in W : x <= o => x <= p
    BY <2>2, <2>3
  <2>5. Below(o) \subseteq Below(p)
    BY <2>4
  <2>6. Cardinality(Below(o)) <= Cardinality(Below(p))
    BY <1>2, <2>2, <2>5, SubsetCardinality
  <2>7. Rank(o, W) <= Rank(p, W)
    BY <1>2, <2>2, <2>6
  <2>8. Rank(p, W) <= off + n
    BY DEF PageOf
  <2>9. Rank(o, W) \in Nat /\ Rank(p, W) \in Nat
    BY <1>2, <2>2
  <2>10. Rank(o, W) <= off + n
    BY <1>1, <2>7, <2>8, <2>9
  <2>11. \A x \in S : x \in W /\ x < o /\ x \in Nat
    BY <1>1, <1>5 DEF Prefix
  <2>12. S \subseteq Below(o) /\ S # Below(o)
    <3>1. \A x \in S : x <= o
      BY <2>2, <2>11
    <3>2. o \in Below(o)
      BY <2>2
    <3> QED BY <1>5, <2>11, <3>1, <3>2
  <2>13. off < Cardinality(Below(o))
    BY <1>2, <2>12, SubsetCardinality
  <2>14. off < Rank(o, W)
    BY <1>2, <2>13
  <2> QED BY <1>5, <2>10, <2>14 DEF PageOf
<1>6. ASSUME NEW p \in S, NEW o \in W, o \notin S
      PROVE  p < o
  BY <1>6 DEF Prefix
<1> QED BY <1>1, <1>3, <1>4, <1>5, <1>6 DEF Prefix

-----------------------------------------------------------------------------
(* What a run may conclude from its own tally.                               *)

(* The argument behind AD-006: with the rows in order, a run that read at    *)
(* least as many rows as it counted read the rows it counted.                *)
LEMMA OkMeansCountedSeen ==
    ASSUME TypeOK, NEW r \in Runs, CountedFirst(r), ReadInOrder(r), Status(r) = "ok"
    PROVE  counted[r] \subseteq seen[r]
<1> SUFFICES ASSUME NEW o \in counted[r], o \notin seen[r] PROVE FALSE
  OBVIOUS
<1>1. /\ counted[r] \subseteq DOMAIN stamp /\ seen[r] \subseteq DOMAIN stamp
      /\ total[r] \in Nat /\ expected[r] \in Nat
      /\ stamp \in Seq(Ticks) /\ DOMAIN stamp \subseteq Nat
  BY DEF TypeOK, LayerTypeOK, RunTypeOK
<1>2. \A p \in seen[r] : p < o
  BY DEF CountedFirst, ReadInOrder, Prefix
<1>3. \A p \in seen[r] : p \in counted[r]
  <2> SUFFICES ASSUME NEW p \in seen[r], p \notin counted[r] PROVE FALSE
    OBVIOUS
  <2>1. o < p
    BY DEF CountedFirst, ReadInOrder, Prefix
  <2>2. p < o /\ p \in Nat /\ o \in Nat
    BY <1>1, <1>2
  <2> QED BY <2>1, <2>2
<1>4. seen[r] \subseteq counted[r] /\ seen[r] # counted[r] /\ IsFiniteSet(counted[r])
  BY <1>1, <1>3, FiniteRows
<1>5. Cardinality(seen[r]) < Cardinality(counted[r])
  BY <1>4, SubsetCardinality
<1>6. total[r] < expected[r]
  BY <1>5 DEF CountedFirst, ReadInOrder
<1> QED BY <1>6 DEF Status

(* The high-water mark of a run that is about to store it leaves nothing     *)
(* behind: a row that is neither read nor counted was published after every  *)
(* row read, and in order.                                                   *)
LEMMA HighIsCredible ==
    ASSUME TypeOK, NEW r \in Runs, Credible(reach[r], since[r]),
           CountedFirst(r), ReadInOrder(r), Status(r) = "ok", ~mode[r].dry
    PROVE  Credible(reach[r], high[r])
<1>1. /\ seen[r] \subseteq DOMAIN stamp /\ seen[r] \subseteq Landed
      /\ counted[r] \subseteq seen[r] /\ DOMAIN stamp \subseteq Nat
      /\ live \subseteq DOMAIN stamp
  <2>1. counted[r] \subseteq seen[r]
    BY OkMeansCountedSeen
  <2>2. seen[r] \subseteq DOMAIN stamp /\ live \subseteq DOMAIN stamp /\ DOMAIN stamp \subseteq Nat
    BY DEF TypeOK, LayerTypeOK, RunTypeOK
  <2> QED BY <2>1, <2>2 DEF ReadInOrder
<1>2. ASSUME NEW o \in Selected(reach[r]), o \notin Landed
      PROVE  Matches(high[r], stamp[o])
  <2>1. Matches(since[r], stamp[o])
    BY <1>2 DEF Credible, OutOfReach
  <2>2. o \in Window(r) \ counted[r]
    BY <1>1, <1>2, <2>1 DEF Window, Selected
  <2>3. CASE high[r] = since[r]
    BY <2>1, <2>3
  <2>4. CASE \E p \in seen[r] : high[r] = stamp[p]
    <3>1. PICK p \in seen[r] : high[r] = stamp[p]
      BY <2>4
    <3>2. p < o
      BY <1>1, <1>2, <2>2 DEF ReadInOrder, Prefix
    <3>3. AfterAll(o)
      BY <2>2 DEF CountedFirst
    <3> QED BY <1>1, <3>1, <3>2, <3>3 DEF AfterAll
  <2> QED BY <2>3, <2>4 DEF ReadInOrder
<1>3. OutOfReach(reach[r], high[r]) = {}
  BY <1>2 DEF OutOfReach
<1>4. high[r] = reach[r] \/ \E p \in DOMAIN stamp : high[r] = stamp[p]
  BY <1>1 DEF Credible, ReadInOrder
<1> QED BY <1>3, <1>4 DEF Credible

-----------------------------------------------------------------------------
(* Steps of the source.                                                      *)

(* A published row falls behind no credible mark and no run's tally.         *)
LEMMA PublishKeeps ==
    ASSUME OrderlyFeed, TypeOK, DeliveryInv, Source, Publish
    PROVE  DeliveryInv'
<1>0. PICK new : new = Len(stamp) + 1
  OBVIOUS
<1>1. PICK s \in Stamps \cup {None} :
          /\ InOrder(s) /\ stamp' = Append(stamp, s) /\ live' = live \cup {new}
  BY <1>0 DEF Publish
<1>2. /\ stamp \in Seq(Ticks) /\ DOMAIN stamp = 1..Len(stamp) /\ Len(stamp) \in Nat
      /\ live = DOMAIN stamp
  BY DEF TypeOK, LayerTypeOK, DeliveryInv
<1>3. /\ DOMAIN stamp' = DOMAIN stamp \cup {new} /\ new \notin DOMAIN stamp
      /\ stamp'[new] = s
      /\ \A o \in DOMAIN stamp : stamp'[o] = stamp[o] /\ o < new /\ ~ (new < o)
  BY <1>0, <1>1, <1>2
<1>4. \A p \in DOMAIN stamp : Matches(stamp[p], s)
  BY <1>1 DEF InOrder, OrderlyFeed
<1>5. UNCHANGED <<raw, watermark, floor, pc, mode, since, reach, expected, counted, offset,
                  pages, page, total, high, seen>>
  BY DEF Source, storeVars, runVars, setupVars, windowVars, countVars, loopVars, tallyVars
<1>6. Landed' = Landed
  BY <1>5 DEF Landed
<1>7. ASSUME NEW b, NEW w, Credible(b, w)
      PROVE  Credible(b, w)'
  <2>1. ASSUME NEW o \in live', Matches(b, stamp'[o]), o \notin Landed
        PROVE  Matches(w, stamp'[o])
    <3>1. CASE o \in live
      BY <1>2, <1>3, <2>1, <1>7, <3>1 DEF Credible, OutOfReach, Selected
    <3>2. CASE o = new
      BY <1>3, <1>4, <1>7, <2>1, <3>2 DEF Credible
    <3> QED BY <1>1, <3>1, <3>2
  <2>2. w = b \/ \E p \in DOMAIN stamp' : w = stamp'[p]
    BY <1>3, <1>7 DEF Credible
  <2> QED BY <1>6, <2>1, <2>2 DEF Credible, OutOfReach, Selected, Matches, Trunc
<1>8. ASSUME NEW r \in Runs
      PROVE  /\ Window(r) \subseteq DOMAIN stamp
             /\ Window(r) \subseteq Window(r)' /\ Window(r)' \subseteq Window(r) \cup {new}
  BY <1>1, <1>2, <1>3, <1>5 DEF Window, Selected, Matches, Trunc
<1>9. ASSUME NEW r \in Runs, NEW S, Prefix(S, Window(r))
      PROVE  Prefix(S, Window(r)')
  BY <1>3, <1>8, <1>9 DEF Prefix
<1>10. AfterAll(new)' /\ \A o \in DOMAIN stamp : AfterAll(o) => AfterAll(o)'
  <2>1. \A p \in DOMAIN stamp' : p < new => p \in DOMAIN stamp
    BY <1>0, <1>2, <1>3
  <2>2. \A p \in DOMAIN stamp' : p < new => Matches(stamp'[p], stamp'[new])
    BY <1>3, <1>4, <2>1
  <2>3. ASSUME NEW o \in DOMAIN stamp, AfterAll(o), NEW p \in DOMAIN stamp', p < o
        PROVE  Matches(stamp'[p], stamp'[o])
    <3>1. p \in DOMAIN stamp
      BY <1>3, <2>3
    <3> QED BY <1>3, <2>3, <3>1 DEF AfterAll
  <2>4. \A o : AfterAll(o)' <=>
            \A p \in DOMAIN stamp' : p < o => Matches(stamp'[p], stamp'[o])
    BY DEF AfterAll, Matches, Trunc
  <2> QED BY <2>2, <2>3, <2>4
<1>11. ASSUME NEW r \in Runs, RunInv(r)
       PROVE  RunInv(r)'
  <2>1. NothingRead(r) => NothingRead(r)'
    BY <1>5 DEF NothingRead
  <2>2. Credible(reach[r], since[r]) => Credible(reach[r], since[r])'
    BY <1>5, <1>7
  <2>3. CountedFirst(r) => CountedFirst(r)'
    <3> SUFFICES ASSUME CountedFirst(r) PROVE CountedFirst(r)'
      OBVIOUS
    <3>1. Prefix(counted[r], Window(r)')
      BY <1>9 DEF CountedFirst
    <3>2. ASSUME NEW o \in Window(r)', o \notin counted[r]
          PROVE  AfterAll(o)'
      <4>1. CASE o \in Window(r)
        BY <1>8, <1>10, <3>2, <4>1 DEF CountedFirst
      <4>2. CASE o = new
        BY <1>10, <4>2
      <4> QED BY <1>8, <3>2, <4>1, <4>2
    <3>3. expected'[r] = Cardinality(counted'[r]) /\ counted' = counted
      BY <1>5 DEF CountedFirst
    <3> QED BY <3>1, <3>2, <3>3 DEF CountedFirst
  <2>4. ReadInOrder(r) => ReadInOrder(r)'
    <3>1. high[r] = since[r] \/ (\E p \in seen[r] : high[r] = stamp[p]) =>
             high[r] = since[r] \/ (\E p \in seen[r] : high[r] = stamp'[p])
      BY <1>3 DEF TypeOK, RunTypeOK
    <3> QED BY <1>5, <1>6, <1>9, <3>1 DEF ReadInOrder
  <2>5. NextPageIsNext(r) => NextPageIsNext(r)'
    BY <1>5, <1>9 DEF NextPageIsNext, Status
  <2> QED BY <1>5, <1>11, <2>1, <2>2, <2>3, <2>4, <2>5 DEF RunInv, NotBegun, Paging
<1>12. Credible(floor, watermark)'
  BY <1>5, <1>7 DEF DeliveryInv
<1>13. FreshKeys'
  BY <1>5 DEF DeliveryInv, FreshKeys
<1> QED BY <1>1, <1>2, <1>3, <1>11, <1>12, <1>13 DEF DeliveryInv

-----------------------------------------------------------------------------
(* Steps of a run.                                                           *)

(* What RunInv says of a run, apart from where the run is. *)
Data(q) == <<mode[q], since[q], reach[q], expected[q], counted[q], offset[q],
             page[q], total[q], high[q], seen[q]>>

(* Nothing is lost when the source stands still and pages are only added. *)
LEMMA CredibleKept ==
    ASSUME UNCHANGED <<stamp, live>>, Landed \subseteq Landed'
    PROVE  \A b, w : Credible(b, w) => Credible(b, w)'
BY DEF Credible, OutOfReach, Selected, Matches, Trunc

(* What is known of a run's data holds on while the feed stands still, rows  *)
(* stay landed and the run does not touch them.                              *)
LEMMA DataKept ==
    ASSUME NEW q \in Runs, UNCHANGED <<stamp, live>>, Landed \subseteq Landed'
    PROVE  /\ \A b, w : Credible(b, w) => Credible(b, w)'
           /\ Data(q)' = Data(q) =>
                /\ NothingRead(q) => NothingRead(q)'
                /\ Credible(reach[q], since[q]) => Credible(reach[q], since[q])'
                /\ CountedFirst(q) => CountedFirst(q)'
                /\ ReadInOrder(q) => ReadInOrder(q)'
                /\ Window(q)' = Window(q)
<1>1. \A b, w : Credible(b, w) => Credible(b, w)'
  BY CredibleKept
<1> SUFFICES ASSUME Data(q)' = Data(q)
             PROVE  /\ NothingRead(q) => NothingRead(q)'
                    /\ Credible(reach[q], since[q]) => Credible(reach[q], since[q])'
                    /\ CountedFirst(q) => CountedFirst(q)'
                    /\ ReadInOrder(q) => ReadInOrder(q)'
                    /\ Window(q)' = Window(q)
  BY <1>1
<1>2. /\ mode'[q] = mode[q] /\ since'[q] = since[q] /\ reach'[q] = reach[q]
      /\ expected'[q] = expected[q] /\ counted'[q] = counted[q] /\ offset'[q] = offset[q]
      /\ page'[q] = page[q] /\ total'[q] = total[q] /\ high'[q] = high[q] /\ seen'[q] = seen[q]
  BY DEF Data
<1>3. Window(q)' = Window(q)
  BY <1>2 DEF Window, Selected, Matches, Trunc
<1>4. \A o : AfterAll(o) => AfterAll(o)'
  BY DEF AfterAll, Matches, Trunc
<1>5. CountedFirst(q) => CountedFirst(q)'
  BY <1>2, <1>3, <1>4 DEF CountedFirst, Prefix
<1>6. ReadInOrder(q) => ReadInOrder(q)'
  BY <1>2, <1>3 DEF ReadInOrder, Prefix
<1>7. Credible(reach[q], since[q]) => Credible(reach[q], since[q])'
  BY <1>1, <1>2 DEF Credible, OutOfReach, Selected, Matches, Trunc
<1> QED BY <1>2, <1>3, <1>5, <1>6, <1>7 DEF NothingRead

(* A run that does not move keeps its part of the invariant. *)
LEMMA OtherRunKept ==
    ASSUME NEW q \in Runs, UNCHANGED <<stamp, live>>, Landed \subseteq Landed',
           Data(q)' = Data(q), pc'[q] = pc[q], RunInv(q)
    PROVE  RunInv(q)'
<1>1. high'[q] = high[q] /\ since'[q] = since[q]
  BY DEF Data
<1>2. NextPageIsNext(q) => NextPageIsNext(q)'
  BY DataKept DEF NextPageIsNext, Status, Data, Prefix
<1> QED BY <1>1, <1>2, DataKept DEF RunInv, NotBegun, Paging

(* A step of one run need only be looked at for that run, the keys and the   *)
(* stored watermark.                                                         *)
LEMMA Conclude ==
    ASSUME TypeOK, DeliveryInv, NEW r \in Runs,
           UNCHANGED <<stamp, live>>, Landed \subseteq Landed',
           FreshKeys', Credible(floor, watermark)',
           \A q \in Runs \ {r} : Data(q)' = Data(q) /\ pc'[q] = pc[q],
           RunInv(r)'
    PROVE  DeliveryInv'
<1>1. ASSUME NEW q \in Runs PROVE RunInv(q)'
  <2>1. CASE q = r
    BY <2>1
  <2>2. CASE q # r
    BY <2>2, OtherRunKept DEF DeliveryInv
  <2> QED BY <2>1, <2>2
<1> QED BY <1>1 DEF DeliveryInv

(* The moves a run makes without touching its tally or the pages. *)
Moves(r, label) ==
    \/ label = "failed"
    \/ label = pc[r]
    \/ NotBegun(r) /\ label \in {"resolve", "head_bucket", "create_bucket", "window"}
    \/ Paging(r) /\ label \in {"manifest", "done"}
    \/ Paging(r) /\ label = "advance" /\ ~mode[r].dry /\ Status(r) = "ok"

(* A step that moves a run to its next stage and touches no data keeps       *)
(* DeliveryInv.                                                              *)
LEMMA MoveKeeps ==
    ASSUME TypeOK, DeliveryInv, NEW r \in Runs, NEW label, Moves(r, label),
           UNCHANGED <<stamp, live, raw, watermark, floor, pages>>,
           \A q \in Runs : Data(q)' = Data(q),
           pc' = [pc EXCEPT ![r] = label]
    PROVE  DeliveryInv'
<1>1. Landed' = Landed /\ FreshKeys'
  BY DEF Landed, FreshKeys, DeliveryInv
<1>2. Credible(floor, watermark)'
  BY <1>1, DataKept DEF DeliveryInv
<1>3. \A q \in Runs \ {r} : pc'[q] = pc[q]
  BY DEF TypeOK, RunTypeOK
<1>4. pc'[r] = label /\ RunInv(r)
  BY DEF TypeOK, RunTypeOK, DeliveryInv
<1>5. NextPageIsNext(r) /\ Paging(r) => NextPageIsNext(r)'
  BY <1>1, <1>4, DataKept DEF NextPageIsNext, Status, Data, Prefix, Moves, NotBegun, Paging
<1>6. RunInv(r)'
  <2>1. high'[r] = high[r] /\ since'[r] = since[r]
    BY DEF Data
  <2> QED BY <1>1, <1>4, <1>5, <2>1, DataKept DEF RunInv, NotBegun, Paging, Moves
<1> QED BY <1>1, <1>2, <1>3, <1>6, Conclude

(* Starting a run: mode changes, but nothing has been read. *)
LEMMA StartKeeps ==
    ASSUME TypeOK, DeliveryInv, NEW r \in Runs, Start(r)
    PROVE  DeliveryInv'
<1>1. /\ UNCHANGED <<stamp, live, raw, watermark, floor, pages>>
      /\ UNCHANGED <<since, reach, expected, counted, offset, page, total, high, seen>>
      /\ \A q \in Runs \ {r} : mode'[q] = mode[q] /\ pc'[q] = pc[q]
      /\ pc[r] = "idle" /\ pc'[r] = "resolve"
  BY DEF Start, Goto, layerVars, storeVars, windowVars, countVars, loopVars, tallyVars,
         TypeOK, RunTypeOK
<1>2. Landed' = Landed /\ FreshKeys'
  BY <1>1 DEF Landed, FreshKeys, DeliveryInv
<1>3. Credible(floor, watermark)'
  BY <1>1, <1>2, DataKept DEF DeliveryInv
<1>4. \A q \in Runs \ {r} : Data(q)' = Data(q) /\ pc'[q] = pc[q]
  BY <1>1 DEF Data
<1>5. RunInv(r)'
  BY <1>1 DEF DeliveryInv, RunInv, NotBegun, Paging, NothingRead
<1> QED BY <1>1, <1>2, <1>3, <1>4, <1>5, Conclude

(* The window of a run starts where coverage is already credible. *)
LEMMA DecideWindowKeeps ==
    ASSUME TypeOK, DeliveryInv, NEW r \in Runs, DecideWindow(r)
    PROVE  DeliveryInv'
<1> DEFINE s == SinceOf(r)
           b == IF StoredMark(r) # None THEN floor ELSE SinceOf(r)
<1>1. /\ UNCHANGED <<stamp, live, raw, watermark, floor, pages>>
      /\ UNCHANGED <<mode, expected, counted, offset, page, total, seen>>
      /\ pc[r] = "window" /\ pc' = [pc EXCEPT ![r] = "count"]
      /\ since' = [since EXCEPT ![r] = s] /\ high' = [high EXCEPT ![r] = s]
      /\ reach' = [reach EXCEPT ![r] = b]
  BY DEF DecideWindow, Goto, layerVars, storeVars, setupVars, countVars, loopVars
<1>2. Landed' = Landed /\ FreshKeys'
  BY <1>1 DEF Landed, FreshKeys, DeliveryInv
<1>3. Credible(floor, watermark)'
  BY <1>1, <1>2, DataKept DEF DeliveryInv
<1>4. Credible(b, s)
  <2>1. CASE StoredMark(r) # None
    <3>1. s = watermark /\ b = floor
      BY <2>1 DEF StoredMark, SinceOf, ReadsWatermark
    <3> QED BY <3>1 DEF DeliveryInv
  <2>2. CASE StoredMark(r) = None
    <3>1. b = s
      BY <2>2
    <3>2. OutOfReach(s, s) = {}
      BY DEF OutOfReach, Selected
    <3> QED BY <3>1, <3>2 DEF Credible
  <2> QED BY <2>1, <2>2
<1>5. PICK c, d : c = b /\ d = s
  OBVIOUS
<1> HIDE DEF b, s
<1>6. Credible(c, d)'
  BY <1>1, <1>2, <1>4, <1>5, DataKept
<1>7. /\ pc'[r] = "count" /\ since'[r] = d /\ high'[r] = d /\ reach'[r] = c
      /\ \A q \in Runs \ {r} : /\ pc'[q] = pc[q] /\ since'[q] = since[q]
                               /\ high'[q] = high[q] /\ reach'[q] = reach[q]
  BY <1>1, <1>5 DEF TypeOK, RunTypeOK
<1>8. \A q \in Runs \ {r} : Data(q)' = Data(q) /\ pc'[q] = pc[q]
  BY <1>1, <1>7 DEF Data
<1>9. NothingRead(r)'
  BY <1>1 DEF DeliveryInv, RunInv, NotBegun, NothingRead
<1>10. Credible(reach[r], since[r])'
  BY <1>6, <1>7 DEF Credible, OutOfReach, Selected, Matches, Trunc
<1>11. RunInv(r)'
  BY <1>7, <1>9, <1>10 DEF RunInv, NotBegun, Paging
<1> QED BY <1>1, <1>2, <1>3, <1>8, <1>11, Conclude

(* The count fixes the rows the run has to read. *)
LEMMA CountKeeps ==
    ASSUME TypeOK, DeliveryInv, NEW r \in Runs, Count(r)
    PROVE  DeliveryInv'
<1>1. /\ UNCHANGED <<stamp, live, raw, watermark, floor, pages>>
      /\ UNCHANGED <<mode, since, reach, offset, page, total, high, seen>>
      /\ pc[r] = "count" /\ pc' = [pc EXCEPT ![r] = "fetch"]
      /\ expected' = [expected EXCEPT ![r] = Cardinality(Window(r))]
      /\ counted' = [counted EXCEPT ![r] = Window(r)]
  BY DEF Count, CountWith, Goto, layerVars, storeVars, setupVars, windowVars, loopVars,
         tallyVars
<1>2. Landed' = Landed /\ FreshKeys'
  BY <1>1 DEF Landed, FreshKeys, DeliveryInv
<1>3. Credible(floor, watermark)'
  BY <1>1, <1>2, DataKept DEF DeliveryInv
<1>4. /\ pc'[r] = "fetch" /\ expected'[r] = Cardinality(Window(r)) /\ counted'[r] = Window(r)
      /\ \A q \in Runs \ {r} : /\ pc'[q] = pc[q] /\ expected'[q] = expected[q]
                               /\ counted'[q] = counted[q]
  BY <1>1 DEF TypeOK, RunTypeOK
<1>5. \A q \in Runs \ {r} : Data(q)' = Data(q) /\ pc'[q] = pc[q]
  BY <1>1, <1>4 DEF Data
<1>6. Window(r)' = Window(r)
  BY <1>1 DEF Window, Selected, Matches, Trunc
<1>7. CountedFirst(r)'
  BY <1>4, <1>6 DEF CountedFirst, Prefix
<1>8. total[r] = 0 /\ offset[r] = 0 /\ seen[r] = {} /\ high[r] = since[r]
      /\ Credible(reach[r], since[r])
  BY <1>1 DEF DeliveryInv, RunInv, NotBegun, NothingRead
<1>9. ReadInOrder(r)'
  BY <1>1, <1>8, FS_EmptySet DEF ReadInOrder, Prefix
<1>10. NextPageIsNext(r)'
  BY <1>1, <1>4, <1>8 DEF NextPageIsNext
<1>11. Credible(reach[r], since[r])'
  BY <1>1, <1>2, <1>8, DataKept DEF Credible, OutOfReach, Selected, Matches, Trunc
<1>12. RunInv(r)'
  BY <1>4, <1>7, <1>9, <1>10, <1>11 DEF RunInv, NotBegun, Paging
<1> QED BY <1>1, <1>2, <1>3, <1>5, <1>12, Conclude

(* A fetched page is the next one, whatever was published since the last. *)
LEMMA FetchPageKeeps ==
    ASSUME TypeOK, DeliveryInv, NEW r \in Runs, FetchPage(r)
    PROVE  DeliveryInv'
<1> DEFINE P == PageOf(Window(r), offset[r], PageCap)
           label == IF page'[r] = {} THEN "manifest" ELSE "land"
<1>1. /\ UNCHANGED <<stamp, live, raw, watermark, floor, pages>>
      /\ UNCHANGED <<mode, since, reach, expected, counted, offset, total, high, seen>>
      /\ pc[r] = "fetch" /\ pc' = [pc EXCEPT ![r] = label]
      /\ page' = [page EXCEPT ![r] = P]
  BY DEF FetchPage, Goto, layerVars, storeVars, setupVars, windowVars, countVars, tallyVars
<1>2. Landed' = Landed /\ FreshKeys'
  BY <1>1 DEF Landed, FreshKeys, DeliveryInv
<1>3. Credible(floor, watermark)'
  BY <1>1, <1>2, DataKept DEF DeliveryInv
<1>4. CountedFirst(r) /\ ReadInOrder(r) /\ NextPageIsNext(r) /\ Credible(reach[r], since[r])
  BY <1>1 DEF DeliveryInv, RunInv, Paging
<1>5. Window(r) \subseteq DOMAIN stamp /\ Window(r) \subseteq Nat /\ IsFiniteSet(Window(r))
  BY FiniteRows DEF TypeOK, LayerTypeOK, Window, Selected
<1>6. P \cap seen[r] = {} /\ Prefix(seen[r] \cup P, Window(r))
  <2>1. offset[r] = Cardinality(seen[r]) /\ Prefix(seen[r], Window(r))
    BY <1>1, <1>4 DEF ReadInOrder, NextPageIsNext
  <2>2. PageCap \in Nat
    BY IngestAssumption DEF PageCap
  <2> QED BY <1>5, <2>1, <2>2, PageExtendsPrefix
<1> HIDE DEF P
<1>7. /\ page'[r] = P /\ pc'[r] = label
      /\ \A q \in Runs \ {r} : pc'[q] = pc[q] /\ page'[q] = page[q]
  BY <1>1 DEF TypeOK, RunTypeOK
<1>8. \A q \in Runs \ {r} : Data(q)' = Data(q) /\ pc'[q] = pc[q]
  BY <1>1, <1>7 DEF Data
<1>9. Window(r)' = Window(r)
  BY <1>1 DEF Window, Selected, Matches, Trunc
<1>10. CountedFirst(r)'
  <2>1. \A o : AfterAll(o) => AfterAll(o)'
    BY <1>1 DEF AfterAll, Matches, Trunc
  <2> QED BY <1>1, <1>4, <1>9, <2>1 DEF CountedFirst, Prefix
<1>11. ReadInOrder(r)'
  BY <1>1, <1>2, <1>4, <1>9 DEF ReadInOrder, Prefix
<1>12. pc'[r] \in {"land", "manifest"}
  BY <1>7
<1>13. NextPageIsNext(r)'
  BY <1>1, <1>4, <1>6, <1>7, <1>9, <1>12 DEF NextPageIsNext, Prefix
<1>14. Credible(reach[r], since[r])'
  BY <1>1, <1>2, <1>4, DataKept DEF Credible, OutOfReach, Selected, Matches, Trunc
<1>15. RunInv(r)'
  BY <1>10, <1>11, <1>12, <1>13, <1>14 DEF RunInv, NotBegun, Paging
<1> QED BY <1>1, <1>2, <1>3, <1>8, <1>15, Conclude

(* Landing a page tallies exactly its rows and overwrites no object. *)
LEMMA LandPageKeeps ==
    ASSUME TypeOK, DeliveryInv, NEW r \in Runs, LandPage(r)
    PROVE  DeliveryInv' /\ raw \subseteq raw'
<1> DEFINE h == Raise(high[r], page[r])
           label == IF AsksForMore(r) THEN "fetch" ELSE "manifest"
<1>1. /\ UNCHANGED <<stamp, live, watermark, floor>>
      /\ UNCHANGED <<mode, since, reach, expected, counted, page>>
      /\ pc[r] = "land" /\ pc' = [pc EXCEPT ![r] = label]
      /\ total' = [total EXCEPT ![r] = total[r] + Cardinality(page[r])]
      /\ high' = [high EXCEPT ![r] = h]
      /\ seen' = [seen EXCEPT ![r] = seen[r] \cup page[r]]
      /\ offset' = [offset EXCEPT ![r] = offset[r] + Cardinality(page[r])]
      /\ pages' = [pages EXCEPT ![r] = pages[r] + 1]
      /\ Lands(r)
  BY DEF LandPage, Goto, NextOffset, layerVars, setupVars, windowVars, countVars
<1>2. CountedFirst(r) /\ ReadInOrder(r) /\ NextPageIsNext(r) /\ Credible(reach[r], since[r])
  BY <1>1 DEF DeliveryInv, RunInv, Paging
<1>3. /\ page[r] \subseteq DOMAIN stamp /\ seen[r] \subseteq DOMAIN stamp
      /\ IsFiniteSet(page[r]) /\ IsFiniteSet(seen[r])
      /\ Cardinality(page[r]) \in Nat /\ Cardinality(seen[r]) \in Nat
      /\ high[r] \in Ticks /\ stamp \in Seq(Ticks) /\ pages[r] \in Nat
      /\ \A q \in Runs : pages[q] \in Nat
      /\ \A x \in raw : x.key.run \in Runs /\ x.key.part \in Nat
  BY FiniteRows DEF TypeOK, LayerTypeOK, RunTypeOK, StoreTypeOK
<1>4. h = high[r] \/ \E p \in page[r] : h = stamp[p]
  BY <1>3, RaiseIsOneOf
<1> HIDE DEF h
<1>5. /\ pc'[r] = label /\ total'[r] = total[r] + Cardinality(page[r]) /\ high'[r] = h
      /\ seen'[r] = seen[r] \cup page[r] /\ offset'[r] = offset[r] + Cardinality(page[r])
      /\ pages'[r] = pages[r] + 1
      /\ \A q \in Runs \ {r} :
            /\ pc'[q] = pc[q] /\ total'[q] = total[q] /\ high'[q] = high[q]
            /\ seen'[q] = seen[q] /\ offset'[q] = offset[q] /\ pages'[q] = pages[q]
  BY <1>1 DEF TypeOK, RunTypeOK
<1>6. \A x \in raw : x.key.part < pages[x.key.run]
  BY DEF DeliveryInv, FreshKeys
<1>7. \A x \in raw : x.key.part < pages'[x.key.run]
  <2> SUFFICES ASSUME NEW x \in raw PROVE x.key.part < pages'[x.key.run]
    OBVIOUS
  <2>1. CASE x.key.run = r
    BY <1>3, <1>5, <1>6, <2>1
  <2>2. CASE x.key.run # r
    BY <1>3, <1>5, <1>6, <2>2
  <2> QED BY <2>1, <2>2
<1>8. /\ raw \subseteq raw' /\ Landed \subseteq Landed' /\ FreshKeys'
      /\ ~mode[r].dry => page[r] \subseteq Landed'
  <2>1. CASE mode[r].dry
    <3>1. raw' = raw
      BY <1>1, <2>1 DEF Lands
    <3> QED BY <1>7, <2>1, <3>1 DEF Landed, FreshKeys
  <2>2. CASE ~mode[r].dry
    <3> DEFINE obj == [key |-> BuildKey(r, pages[r]), rows |-> page[r]]
    <3>1. raw' = {x \in raw : x.key # obj.key} \cup {obj}
      BY <1>1, <2>2 DEF Lands, WritePage, Put
    <3>2. obj.key.run = r /\ obj.key.part = pages[r] /\ obj.rows = page[r]
      BY DEF BuildKey
    <3> HIDE DEF obj
    <3>3. \A x \in raw : x.key # obj.key
      BY <1>3, <1>6, <3>2
    <3>4. raw' = raw \cup {obj}
      BY <3>1, <3>3
    <3>5. obj.key.part < pages'[obj.key.run]
      BY <1>3, <1>5, <3>2
    <3>6. FreshKeys'
      BY <1>7, <3>4, <3>5 DEF FreshKeys
    <3> QED BY <3>2, <3>4, <3>6 DEF Landed
  <2> QED BY <2>1, <2>2
<1>9. Credible(floor, watermark)'
  BY <1>1, <1>8, DataKept DEF DeliveryInv
<1>10. \A q \in Runs \ {r} : Data(q)' = Data(q) /\ pc'[q] = pc[q]
  BY <1>1, <1>5 DEF Data
<1>11. Window(r)' = Window(r)
  BY <1>1 DEF Window, Selected, Matches, Trunc
<1>12. CountedFirst(r)'
  <2>1. \A o : AfterAll(o) => AfterAll(o)'
    BY <1>1 DEF AfterAll, Matches, Trunc
  <2> QED BY <1>1, <1>2, <1>11, <2>1 DEF CountedFirst, Prefix
<1>13. /\ offset[r] = total[r] /\ page[r] \cap seen[r] = {}
       /\ Prefix(seen[r] \cup page[r], Window(r)) /\ total[r] = Cardinality(seen[r])
  BY <1>1, <1>2 DEF NextPageIsNext, ReadInOrder
<1>14. ReadInOrder(r)'
  <2>1. Cardinality(seen[r] \cup page[r]) = Cardinality(seen[r]) + Cardinality(page[r])
    <3>1. seen[r] \cap page[r] = {} /\ Cardinality({}) = 0
      BY <1>13, FS_EmptySet
    <3>2. Cardinality(seen[r] \cup page[r])
            = Cardinality(seen[r]) + Cardinality(page[r]) - Cardinality(seen[r] \cap page[r])
      BY <1>3, FS_Union
    <3>3. Cardinality(seen[r] \cap page[r]) = 0
      BY <3>1
    <3> QED BY <1>3, <3>2, <3>3
  <2>2. h = since[r] \/ \E p \in seen[r] \cup page[r] : h = stamp[p]
    BY <1>2, <1>4 DEF ReadInOrder
  <2>3. ~mode[r].dry => seen[r] \cup page[r] \subseteq Landed'
    BY <1>2, <1>8 DEF ReadInOrder
  <2>4. Prefix(seen'[r], Window(r)')
    BY <1>5, <1>11, <1>13
  <2>5. total'[r] = Cardinality(seen'[r])
    BY <1>5, <1>13, <2>1
  <2>6. high'[r] = since'[r] \/ \E p \in seen'[r] : high'[r] = stamp'[p]
    BY <1>1, <1>5, <2>2
  <2>7. ~mode'[r].dry => seen'[r] \subseteq Landed'
    BY <1>1, <1>5, <2>3
  <2> QED BY <2>4, <2>5, <2>6, <2>7 DEF ReadInOrder
<1>15. pc'[r] \in {"fetch", "manifest"}
  BY <1>5
<1>16. NextPageIsNext(r)'
  BY <1>5, <1>13, <1>15 DEF NextPageIsNext
<1>17. Credible(reach[r], since[r])'
  BY <1>1, <1>2, <1>8, DataKept DEF Credible, OutOfReach, Selected, Matches, Trunc
<1>18. RunInv(r)'
  BY <1>12, <1>14, <1>15, <1>16, <1>17 DEF RunInv, NotBegun, Paging
<1> QED BY <1>1, <1>8, <1>9, <1>10, <1>18, Conclude

(* The watermark write: the only step that moves the mark. *)
LEMMA AdvanceKeeps ==
    ASSUME TypeOK, DeliveryInv, NEW r \in Runs, Advance(r)
    PROVE  DeliveryInv'
<1>1. /\ UNCHANGED <<stamp, live, raw, pages>>
      /\ UNCHANGED <<mode, since, reach, expected, counted, offset, page, total, high, seen>>
      /\ pc[r] = "advance" /\ pc' = [pc EXCEPT ![r] = "done"]
      /\ watermark' = high[r] /\ floor' = reach[r]
  BY DEF Advance, Goto, WriteWatermark, layerVars, setupVars, windowVars, countVars, loopVars,
         tallyVars
<1>2. Landed' = Landed /\ FreshKeys'
  BY <1>1 DEF Landed, FreshKeys, DeliveryInv
<1>3. CountedFirst(r) /\ ReadInOrder(r) /\ NextPageIsNext(r) /\ Credible(reach[r], since[r])
  BY <1>1 DEF DeliveryInv, RunInv, Paging
<1>4. Credible(reach[r], high[r])
  BY <1>1, <1>3, HighIsCredible DEF NextPageIsNext
<1>5. Credible(floor, watermark)'
  BY <1>1, <1>2, <1>4 DEF Credible, OutOfReach, Selected, Matches, Trunc
<1>6. pc'[r] = "done" /\ \A q \in Runs \ {r} : pc'[q] = pc[q]
  BY <1>1 DEF TypeOK, RunTypeOK
<1>7. \A q \in Runs : Data(q)' = Data(q)
  BY <1>1 DEF Data
<1>8. RunInv(r)'
  <2>1. CountedFirst(r)' /\ ReadInOrder(r)' /\ Credible(reach[r], since[r])'
    BY <1>1, <1>2, <1>3, <1>7, DataKept
  <2> QED BY <1>6, <2>1 DEF RunInv, NotBegun, Paging, NextPageIsNext
<1> QED BY <1>1, <1>2, <1>5, <1>6, <1>7, <1>8, Conclude

-----------------------------------------------------------------------------
(* The invariant holds initially and every step keeps it. *)

(* DeliveryInv holds before the first run. *)
LEMMA InitDeliveryInv == Init => DeliveryInv
<1> SUFFICES ASSUME Init PROVE DeliveryInv
  OBVIOUS
<1>1. live = DOMAIN stamp /\ FreshKeys
  BY DEF Init, LayerInit, FreshKeys
<1>2. Credible(floor, watermark)
  BY DEF Init, Credible, OutOfReach, Selected
<1>3. \A r \in Runs : RunInv(r)
  BY DEF Init, RunInv, NotBegun, Paging, NothingRead
<1> QED BY <1>1, <1>2, <1>3 DEF DeliveryInv

(* Over an orderly feed every published row is still served.                 *)
LEMMA NothingWithdrawn ==
    ASSUME OrderlyFeed, TypeOK, DeliveryInv
    PROVE  ~Withdraw
<1>1. live = 1..Len(stamp) /\ Len(stamp) \in Nat
  BY DEF DeliveryInv, TypeOK, LayerTypeOK
<1>2. Cardinality(live) = Len(stamp)
  <2>1. Cardinality(1..Len(stamp)) = IF 1 > Len(stamp) THEN 0 ELSE Len(stamp) - 1 + 1
    BY <1>1, FS_Interval
  <2> QED BY <1>1, <2>1
<1> QED BY <1>1, <1>2 DEF Withdraw, OrderlyFeed

(* What the source does keeps DeliveryInv if the feed is orderly: a new row  *)
(* comes after all that was read and is not excluded by any mark in play.    *)
LEMMA SourceKeeps ==
    ASSUME OrderlyFeed, TypeOK, DeliveryInv, Source
    PROVE  DeliveryInv'
<1>1. CASE Publish
  BY <1>1, PublishKeeps
<1>2. CASE Withdraw
  BY <1>2, NothingWithdrawn
<1>3. CASE Migrate \/ Tick
  <2>1. /\ UNCHANGED <<stamp, live, raw, watermark, floor, pages, pc>>
        /\ UNCHANGED <<mode, since, reach, expected, counted, offset, page, total, high, seen>>
    BY <1>3 DEF Migrate, Tick, Source, storeVars, runVars, setupVars, windowVars, countVars,
                loopVars, tallyVars
  <2>2. Landed' = Landed /\ FreshKeys'
    BY <2>1 DEF Landed, FreshKeys, DeliveryInv
  <2>3. Credible(floor, watermark)'
    BY <2>1, <2>2, CredibleKept DEF DeliveryInv
  <2>4. ASSUME NEW q \in Runs PROVE RunInv(q)'
    <3>1. Data(q)' = Data(q) /\ pc'[q] = pc[q] /\ RunInv(q)
      BY <2>1 DEF Data, DeliveryInv
    <3> QED BY <2>1, <2>2, <3>1, OtherRunKept
  <2> QED BY <2>1, <2>2, <2>3, <2>4 DEF DeliveryInv
<1> QED BY <1>1, <1>2, <1>3 DEF Source, LayerNext

(* Every step and every fault of a run keeps DeliveryInv. *)
LEMMA RunKeeps ==
    ASSUME OrderlyFeed, TypeOK, DeliveryInv,
           NEW r \in Runs, Start(r) \/ RunStep(r) \/ RunFault(r)
    PROVE  DeliveryInv'
<1>1. CASE Start(r)
  BY <1>1, StartKeeps
<1>2. CASE Resolve(r) \/ HeadBucket(r) \/ CreateBucket(r) \/ WindowWithoutBucket(r)
           \/ FetchEmpty(r) \/ QueryFails(r) \/ FinishDry(r) \/ StoreManifest(r)
           \/ PutWithoutBucket(r) \/ Crash(r)
  <2> DEFINE label == pc'[r]
  <2>1. /\ UNCHANGED <<stamp, live, raw, watermark, floor, pages>>
        /\ UNCHANGED <<mode, since, reach, expected, counted, offset, page, total, high, seen>>
    BY <1>2 DEF Resolve, HeadBucket, CreateBucket, WindowWithoutBucket, FetchEmpty, QueryFails,
                FinishDry, StoreManifest, PutWithoutBucket, Crash, layerVars, storeVars,
                setupVars, windowVars, countVars, loopVars, tallyVars
  <2>2. PICK next : pc' = [pc EXCEPT ![r] = next] /\ Moves(r, next)
    <3>1. CASE Resolve(r)
      BY <3>1 DEF Resolve, Goto, AfterResolve, Moves, NotBegun
    <3>2. CASE HeadBucket(r)
      BY <3>2 DEF HeadBucket, Goto, AfterHead, Moves, NotBegun
    <3>3. CASE CreateBucket(r)
      BY <3>3 DEF CreateBucket, Goto, Moves, NotBegun
    <3>4. CASE WindowWithoutBucket(r) \/ PutWithoutBucket(r) \/ Crash(r)
      BY <3>4 DEF WindowWithoutBucket, PutWithoutBucket, Crash, Goto, Moves
    <3>5. CASE FetchEmpty(r)
      BY <3>5 DEF FetchEmpty, Goto, Moves, Paging
    <3>6. CASE QueryFails(r)
      BY <3>6 DEF QueryFails, Goto, AfterFailedAttempt, Moves
    <3>7. CASE FinishDry(r)
      BY <3>7 DEF FinishDry, Goto, Moves, Paging
    <3>8. CASE StoreManifest(r)
      BY <3>8 DEF StoreManifest, AdvancesWatermark, Goto, Moves, Paging
    <3> QED BY <1>2, <3>1, <3>2, <3>3, <3>4, <3>5, <3>6, <3>7, <3>8
  <2>3. \A q \in Runs : Data(q)' = Data(q)
    BY <2>1 DEF Data
  <2> QED BY <2>1, <2>2, <2>3, MoveKeeps
<1>3. CASE DecideWindow(r)
  BY <1>3, DecideWindowKeeps
<1>4. CASE Count(r)
  BY <1>4, CountKeeps
<1>5. CASE FetchPage(r)
  BY <1>5, FetchPageKeeps
<1>6. CASE LandPage(r)
  BY <1>6, LandPageKeeps
<1>7. CASE Advance(r)
  BY <1>7, AdvanceKeeps
<1> QED BY <1>1, <1>2, <1>3, <1>4, <1>5, <1>6, <1>7
        DEF RunStep, RunFault, CountMissing, OrderlyFeed

(* AD-005: over an orderly feed what a run counted and read are the first    *)
(* rows, by OBJECTID, its predicate selects, and every watermark in play     *)
(* leaves nothing behind.                                                    *)
THEOREM DeliveryInvariant == OrderlyFeed => (Spec => []DeliveryInv)
<1> SUFFICES ASSUME OrderlyFeed PROVE Spec => []DeliveryInv
  OBVIOUS
<1>1. TypeOK /\ DeliveryInv /\ [Next]_vars => DeliveryInv'
  <2> SUFFICES ASSUME TypeOK, DeliveryInv, [Next]_vars PROVE DeliveryInv'
    OBVIOUS
  <2>1. CASE Source
    BY <2>1, SourceKeeps
  <2>2. CASE \E r \in Runs : Start(r) \/ RunStep(r) \/ RunFault(r)
    BY <2>2, RunKeeps
  <2>3. CASE UNCHANGED vars
    <3>1. /\ UNCHANGED <<stamp, live, raw, watermark, floor, pages, pc>>
          /\ UNCHANGED <<mode, since, reach, expected, counted, offset, page, total, high, seen>>
      BY <2>3 DEF vars, layerVars, storeVars, runVars, setupVars, windowVars, countVars,
                  loopVars, tallyVars
    <3>2. Landed' = Landed /\ FreshKeys'
      BY <3>1 DEF Landed, FreshKeys, DeliveryInv
    <3>3. Credible(floor, watermark)'
      BY <3>1, <3>2, CredibleKept DEF DeliveryInv
    <3>4. ASSUME NEW q \in Runs PROVE RunInv(q)'
      <4>1. Data(q)' = Data(q) /\ pc'[q] = pc[q] /\ RunInv(q)
        BY <3>1 DEF Data, DeliveryInv
      <4> QED BY <3>1, <3>2, <4>1, OtherRunKept
    <3> QED BY <3>1, <3>2, <3>3, <3>4 DEF DeliveryInv
  <2> QED BY <2>1, <2>2, <2>3 DEF Next
<1> QED BY <1>1, InitDeliveryInv, TypeCorrect, PTL DEF Spec

(* AD-005: over an orderly feed the stored watermark never leaves a row      *)
(* behind, whatever runs overlap, crash or come back short.                  *)
THEOREM AtLeastOnceHolds == OrderlyFeed => (Spec => []AtLeastOnce)
<1> SUFFICES ASSUME OrderlyFeed PROVE Spec => []AtLeastOnce
  OBVIOUS
<1>1. DeliveryInv => AtLeastOnce
  BY DEF DeliveryInv, Credible, AtLeastOnce
<1> QED BY <1>1, DeliveryInvariant, PTL

(* AD-006: over an orderly feed comparing two numbers is enough; a run that  *)
(* reports "ok" has read every row it counted.                               *)
THEOREM CountReconcilesHolds == OrderlyFeed => (Spec => []CountReconciles)
<1> SUFFICES ASSUME OrderlyFeed PROVE Spec => []CountReconciles
  OBVIOUS
<1>1. TypeOK /\ DeliveryInv => CountReconciles
  <2> SUFFICES ASSUME TypeOK, DeliveryInv, NEW r \in Runs, Tallied(r), Status(r) = "ok"
               PROVE  counted[r] \subseteq seen[r]
    BY DEF CountReconciles
  <2>1. CountedFirst(r) /\ ReadInOrder(r)
    BY DEF DeliveryInv, RunInv, Tallied, Paging
  <2> QED BY <2>1, OkMeansCountedSeen
<1> QED BY <1>1, DeliveryInvariant, TypeCorrect, PTL
-----------------------------------------------------------------------------
(* Ingest implements Delivery.                                               *)

abstractVars == <<layerVars, Landed, watermark, floor>>

(* Only three steps show: a step of the source, a page that is landed and a  *)
(* watermark that is written.                                                *)
LEMMA QuietStep ==
    ASSUME NEW r \in Runs, Start(r) \/ RunStep(r) \/ RunFault(r), ~LandPage(r), ~Advance(r)
    PROVE  UNCHANGED abstractVars
<1>1. UNCHANGED <<layerVars, raw, watermark, floor>>
  BY DEF RunStep, RunFault, Start, Resolve, HeadBucket, CreateBucket, DecideWindow,
         WindowWithoutBucket, Count, CountMissing, CountWith, FetchPage, FinishDry,
         StoreManifest, PutWithoutBucket, FetchEmpty, QueryFails, Crash, storeVars
<1> QED BY <1>1 DEF abstractVars, Landed

(* Landing a page delivers its rows; a dry run delivers none.                *)
LEMMA LandDelivers ==
    ASSUME TypeOK, DeliveryInv, NEW r \in Runs, LandPage(r)
    PROVE  Promise!Deliver
<1>1. UNCHANGED <<layerVars, watermark, floor>>
  BY DEF LandPage
<1>2. \E rows \in SUBSET DOMAIN stamp : Landed' = Landed \cup rows
  <2>1. CASE mode[r].dry
    <3>1. raw' = raw
      BY <2>1 DEF LandPage, Lands
    <3>2. Landed' = Landed \cup {}
      BY <3>1 DEF Landed
    <3> QED BY <3>2
  <2>2. CASE ~mode[r].dry
    <3> DEFINE obj == [key |-> BuildKey(r, pages[r]), rows |-> page[r]]
    <3>1. raw' = {x \in raw : x.key # obj.key} \cup {obj}
      BY <2>2 DEF LandPage, Lands, WritePage, Put
    <3>2. obj.rows = page[r]
      OBVIOUS
    <3> HIDE DEF obj
    <3>3. raw \subseteq raw'
      BY LandPageKeeps
    <3>4. raw' = raw \cup {obj}
      BY <3>1, <3>3
    <3>5. Landed' = Landed \cup page[r]
      BY <3>2, <3>4 DEF Landed
    <3>6. page[r] \in SUBSET DOMAIN stamp
      BY DEF TypeOK, RunTypeOK
    <3> QED BY <3>5, <3>6
  <2> QED BY <2>1, <2>2
<1> QED BY <1>1, <1>2 DEF Promise!Deliver, Promise!layerVars, layerVars

(* A watermark is written only where it leaves nothing behind: this is where *)
(* the invariant of the run that writes it is needed.                        *)
LEMMA AdvanceAdvances ==
    ASSUME TypeOK, DeliveryInv, NEW r \in Runs, Advance(r)
    PROVE  Promise!Advance
<1>1. /\ UNCHANGED <<layerVars, raw>>
      /\ pc[r] = "advance" /\ watermark' = high[r] /\ floor' = reach[r]
  BY DEF Advance, WriteWatermark
<1>2. Credible(reach[r], high[r])
  BY <1>1, HighIsCredible DEF DeliveryInv, RunInv, Paging, NextPageIsNext
<1>3. reach[r] \in Ticks
  BY DEF TypeOK, RunTypeOK
<1>4. Landed' = Landed
  BY <1>1 DEF Landed
<1>5. Promise!LeftBehind(reach[r], high[r]) = {}
  BY <1>2 DEF Credible, OutOfReach, Promise!LeftBehind, Promise!Selected, Promise!Matches,
              Promise!Trunc, Promise!None, Selected, Matches, Trunc, None
<1>6. high[r] \in {reach[r]} \cup {stamp[o] : o \in DOMAIN stamp}
  BY <1>2 DEF Credible
<1> QED BY <1>1, <1>3, <1>4, <1>5, <1>6
        DEF Promise!Advance, Promise!Ticks, Ticks, Promise!None, None, Promise!layerVars, layerVars

(* AD-004, AD-005: whatever runs overlap, fail and are repeated, extraction  *)
(* looks from outside like a mark that moves only past what is delivered.    *)
THEOREM IngestImplementsDelivery == OrderlyFeed => (Spec => ImplementsDelivery)
<1> SUFFICES ASSUME OrderlyFeed PROVE Spec => ImplementsDelivery
  OBVIOUS
<1>1. Init => Promise!Init
  <2> SUFFICES ASSUME Init PROVE Promise!Init
    OBVIOUS
  <2>1. Promise!LayerInit
    BY DEF Init, LayerInit, Promise!LayerInit, None, Promise!None
  <2>2. Landed = {}
    BY DEF Init, Landed
  <2>3. watermark \in {InitialWatermark, Promise!None} /\ floor = watermark
    BY DEF Init, None, Promise!None
  <2> QED BY <2>1, <2>2, <2>3 DEF Promise!Init
<1>2. TypeOK /\ DeliveryInv /\ [Next]_vars => [Promise!Next]_abstractVars
  <2> SUFFICES ASSUME TypeOK, DeliveryInv, [Next]_vars, ~UNCHANGED abstractVars
               PROVE  Promise!Next
    OBVIOUS
  <2>1. CASE Source
    <3>1. UNCHANGED <<raw, watermark, floor>>
      BY <2>1 DEF Source, storeVars
    <3>2. Landed' = Landed
      BY <3>1 DEF Landed
    <3>3. Publish \/ Migrate \/ Tick
      BY <2>1, NothingWithdrawn DEF Source, LayerNext
    <3>4. Promise!LayerNext
      BY <3>3 DEF Publish, Migrate, Tick, InOrder, Stamps, None, Matches, Trunc,
                  Promise!LayerNext, Promise!Publish, Promise!Migrate, Promise!Tick,
                  Promise!InOrder, Promise!Stamps, Promise!None, Promise!Matches,
                  Promise!Trunc
    <3> QED BY <3>1, <3>2, <3>4 DEF Promise!Next, Promise!deliveryVars
  <2>2. ASSUME NEW r \in Runs, Start(r) \/ RunStep(r) \/ RunFault(r) PROVE Promise!Next
    <3>1. LandPage(r) \/ Advance(r)
      BY <2>2, QuietStep
    <3> QED BY <3>1, LandDelivers, AdvanceAdvances DEF Promise!Next
  <2>3. ~UNCHANGED vars
    BY DEF vars, storeVars, abstractVars, Landed
  <2> QED BY <2>1, <2>2, <2>3 DEF Next
<1>3. [Promise!Next]_abstractVars => [Promise!Next]_<<Promise!layerVars, Promise!deliveryVars>>
  BY DEF abstractVars, layerVars, Promise!layerVars, Promise!deliveryVars
<1> QED
  BY <1>1, <1>2, <1>3, DeliveryInvariant, TypeCorrect, PTL
     DEF Spec, ImplementsDelivery, Promise!Spec
=============================================================================
