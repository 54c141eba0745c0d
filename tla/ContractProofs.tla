--------------------------- MODULE ContractProofs ---------------------------
(***************************************************************************)
(* The contract of extraction by itself: over a feed in order, rows that    *)
(* age out included, a mark that moves as Delivery says leaves nothing      *)
(* behind.                                                                  *)
(***************************************************************************)
EXTENDS Delivery, SequenceTheorems, TLAPS

(* A row published later falls behind the mark unless the mark is where its *)
(* coverage began or the stamp of a row already published.                  *)
ContractInv ==
    /\ stamp \in Seq(Ticks)
    /\ live \subseteq DOMAIN stamp
    /\ NothingLeftBehind
    /\ mark = base \/ \E p \in DOMAIN stamp : mark = stamp[p]

(* Nothing is behind the first mark. *)
LEMMA InitContract == Init => ContractInv
<1> SUFFICES ASSUME Init PROVE ContractInv
  OBVIOUS
<1>1. PICK n \in 0..InitialRows : stamp \in [1..n -> 0..Lookback \cup {None}]
  BY DEF Init, LayerInit
<1>2. stamp \in Seq(Ticks)
  <2>1. 0..Lookback \cup {None} \subseteq Ticks
    BY FeatureLayerAssumption DEF Ticks
  <2>2. n \in Nat
    BY FeatureLayerAssumption
  <2> QED BY <1>1, <2>1, <2>2, IsASeq DEF Ticks
<1>3. NothingLeftBehind
  BY DEF Init, NothingLeftBehind, LeftBehind, Selected
<1> QED BY <1>2, <1>3 DEF Init, LayerInit, ContractInv

(* A publication in order: no mark in play excludes the new row.            *)
LEMMA PublishContract ==
    ASSUME ContractInv, Publish, UNCHANGED deliveryVars, StampOrder = "next"
    PROVE  ContractInv'
<1>1. PICK s \in Stamps \cup {None} :
         /\ InOrder(s)
         /\ stamp' = Append(stamp, s)
         /\ live' = live \cup {Len(stamp) + 1}
  BY DEF Publish
<1>2. s \in Ticks
  BY FeatureLayerAssumption DEF Stamps, Ticks
<1>3. /\ stamp' \in Seq(Ticks)
      /\ DOMAIN stamp' = DOMAIN stamp \cup {Len(stamp) + 1}
      /\ stamp'[Len(stamp) + 1] = s
      /\ \A o \in DOMAIN stamp : stamp'[o] = stamp[o]
  BY <1>1, <1>2 DEF ContractInv
<1>4. \A p \in DOMAIN stamp : Matches(stamp[p], s)
  BY <1>1 DEF InOrder
<1>5. mark' = mark /\ base' = base /\ landed' = landed
  BY DEF deliveryVars
<1>6. ASSUME NEW o \in LeftBehind(base, mark)' PROVE FALSE
  <2>1. /\ o \in live' /\ o \notin landed
        /\ Matches(base, stamp'[o]) /\ ~Matches(mark, stamp'[o])
    BY <1>5, <1>6 DEF LeftBehind, Selected, Matches, Trunc
  <2>2. CASE o \in live
    <3>1. stamp'[o] = stamp[o]
      BY <1>3, <2>2 DEF ContractInv
    <3>2. o \in LeftBehind(base, mark)
      BY <2>1, <2>2, <3>1 DEF LeftBehind, Selected
    <3> QED BY <3>2 DEF ContractInv, NothingLeftBehind
  <2>3. CASE o = Len(stamp) + 1
    BY <1>3, <1>4, <2>1, <2>3 DEF ContractInv
  <2> QED BY <1>1, <2>1, <2>2, <2>3
<1> QED BY <1>1, <1>3, <1>5, <1>6 DEF ContractInv, NothingLeftBehind

(* No delivery, move of the mark or change of the feed leaves a row behind. *)
LEMMA NextContract ==
    ASSUME ContractInv, [Next]_<<layerVars, deliveryVars>>, StampOrder = "next"
    PROVE  ContractInv'
<1> USE DEF ContractInv, NothingLeftBehind, LeftBehind, Selected, Matches, Trunc
<1>1. CASE Publish /\ UNCHANGED deliveryVars
  BY <1>1, PublishContract
<1>2. CASE Withdraw /\ UNCHANGED deliveryVars
  BY <1>2 DEF Withdraw, deliveryVars
<1>3. CASE (Migrate \/ Tick) /\ UNCHANGED deliveryVars
  BY <1>3 DEF Migrate, Tick, deliveryVars
<1>4. CASE Deliver
  BY <1>4 DEF Deliver, layerVars
<1>5. CASE Advance
  BY <1>5 DEF Advance, layerVars
<1>6. CASE UNCHANGED <<layerVars, deliveryVars>>
  BY <1>6 DEF layerVars, deliveryVars
<1> QED BY <1>1, <1>2, <1>3, <1>4, <1>5, <1>6 DEF Next, LayerNext

(* Over a feed in order nothing extraction has been responsible for is ever  *)
(* left behind the mark, however often it moves and whatever ages out.       *)
THEOREM ContractHolds == StampOrder = "next" /\ Spec => []NothingLeftBehind
<1>1. ContractInv => NothingLeftBehind
  BY DEF ContractInv
<1> SUFFICES ASSUME StampOrder = "next" PROVE Spec => []NothingLeftBehind
  OBVIOUS
<1>2. ContractInv /\ [Next]_<<layerVars, deliveryVars>> => ContractInv'
  BY NextContract
<1> QED BY <1>1, <1>2, InitContract, PTL DEF Spec
=============================================================================
