---------------------------- MODULE FeatureLayer ----------------------------
(***************************************************************************)
(* The hosted ArcGIS feature layer the pipeline extracts from, as the       *)
(* ingestion code uses it.  External: nothing under src/ implements it.     *)
(*                                                                          *)
(* A row is identified by its OBJECTID, here its position in stamp, so      *)
(* OBJECTIDs are "monotonic and immutable"; stamp[o] is the value of the    *)
(* watermark field (Case_Created_Date) of row o, a number of clock ticks,   *)
(* or None where the feed has null.  The feed is a rolling window: rows     *)
(* appear (Publish) and age out (Withdraw), and the service may move to     *)
(* another host (Migrate).                                                  *)
(***************************************************************************)
EXTENDS Integers, Sequences, FiniteSets

CONSTANTS
    StampOrder,       \* what the feed promises of the stamp of a new row
    TicksPerSecond,   \* clock ticks in the one second a WHERE clause resolves
    Lookback,         \* initial_lookback_days, in ticks
    InitialRows,      \* bound: rows already published when the model starts
    MaxRows,          \* bound: rows ever published
    MaxTime,          \* bound: the last tick of the clock
    MaxWithdrawals,   \* bound: rows that may age out
    MaxMigrations     \* bound: times the service may change host

VARIABLES
    stamp,   \* sequence of watermark-field values, indexed by OBJECTID
    live,    \* the OBJECTIDs the layer still serves
    host,    \* the host that serves the layer now
    now      \* the wall clock every process reads

layerVars == <<stamp, live, host, now>>

-----------------------------------------------------------------------------
(* None stands for "no value": a null date, or no watermark.  It is a number *)
(* below every tick so that max() over values and nulls ignores the nulls.   *)
None == -1

Stamps == 0..MaxTime
Ticks  == Nat \cup {None}

ASSUME FeatureLayerAssumption ==
    /\ StampOrder \in {"next", "tied", "any"}
    /\ TicksPerSecond \in Nat \ {0}
    /\ Lookback \in Nat
    /\ InitialRows \in Nat
    /\ MaxRows \in Nat
    /\ MaxTime \in Nat
    /\ Lookback <= MaxTime
    /\ MaxWithdrawals \in Nat
    /\ MaxMigrations \in Nat

-----------------------------------------------------------------------------
(* The predicate build_where_clause writes: no bound without a watermark     *)
(* ("1=1"), else strictly after the watermark cut down to a whole second.    *)
Trunc(t) == t - (t % TicksPerSecond)

Matches(since, s) == since = None \/ s > Trunc(since)

(* The rows a query with that predicate selects. *)
Selected(since) == {o \in live : Matches(since, stamp[o])}

(* orderByFields=OBJECTID ASC with resultOffset and resultRecordCount.       *)
Rank(o, W) == Cardinality({p \in W : p <= o})

PageOf(W, offset, n) == {o \in W : offset < Rank(o, W) /\ Rank(o, W) <= offset + n}

(* exceededTransferLimit: there are rows beyond this page. *)
Exceeded(W, offset, n) == Cardinality(W) > offset + n

-----------------------------------------------------------------------------
(* What the feed guarantees of a newly published stamp:                      *)
(*   "next"  every published stamp, used as a watermark, would select it     *)
(*           (rows come in order up to ties within a second);                *)
(*   "tied"  it is no older than any published stamp, so a tie is possible   *)
(*           (the real column has one value per day);                        *)
(*   "any"   nothing.                                                        *)
InOrder_AllowsLate(s) == TRUE

InOrder(s) ==
    CASE StampOrder = "next" -> \A p \in DOMAIN stamp : Matches(stamp[p], s)
      [] StampOrder = "tied" -> \A p \in DOMAIN stamp : s >= stamp[p]
      [] OTHER               -> TRUE

Publish ==
    /\ Len(stamp) < MaxRows
    /\ \E s \in Stamps \cup {None} :
          /\ s <= now
          /\ InOrder(s)
          /\ stamp' = Append(stamp, s)
          /\ live' = live \cup {Len(stamp) + 1}
    /\ UNCHANGED <<host, now>>

Withdraw ==
    /\ Len(stamp) - Cardinality(live) < MaxWithdrawals
    /\ \E o \in live : live' = live \ {o}
    /\ UNCHANGED <<stamp, host, now>>

Migrate ==
    /\ host < MaxMigrations
    /\ host' = host + 1
    /\ UNCHANGED <<stamp, live, now>>

Tick ==
    /\ now < MaxTime
    /\ now' = now + 1
    /\ UNCHANGED <<stamp, live, host>>

LayerInit ==
    /\ stamp \in UNION {[1..n -> 0..Lookback \cup {None}] : n \in 0..InitialRows}
    /\ live = DOMAIN stamp
    /\ host = 0
    /\ now = Lookback

LayerNext == Publish \/ Withdraw \/ Migrate \/ Tick

(* Type invariant of the source. *)
LayerTypeOK ==
    /\ stamp \in Seq(Ticks)
    /\ live \subseteq DOMAIN stamp
    /\ host \in Nat
    /\ now \in Nat
    /\ now >= Lookback
=============================================================================
