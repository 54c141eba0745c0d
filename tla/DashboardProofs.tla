-------------------------- MODULE DashboardProofs --------------------------
(***************************************************************************)
(* The dashboard's pages, for any number of sessions, batches, loads, outages *)
(* and restarts.                                                            *)
(*                                                                          *)
(* The properties of a page that is shown relate numbers of different        *)
(* queries, between which loads commit.  DashInv says of a page that is being *)
(* built how what it shows so far relates to the table now; what makes that  *)
(* inductive is that a load never takes a public fact away (LoadKeepsFacts). *)
(***************************************************************************)
EXTENDS Dashboard, Bounds, FunctionTheorems

-----------------------------------------------------------------------------
(* What a load does to the table. *)

IsFact(f) == f = [oid |-> f.oid, value |-> f.value, created |-> f.created,
                  closed |-> f.closed, hours |-> f.hours]

(* The upsert changes a fact's closing date and hours and nothing else. *)
LEMMA RefreshedFact ==
    ASSUME NEW f, IsFact(f), NEW q
    PROVE  LET g == Refreshed(f, q)
           IN  /\ IsFact(g)
               /\ g.oid = f.oid /\ g.value = f.value /\ g.created = f.created
               /\ g.closed = q.closed /\ g.hours = Hours(q)
<1>1. PICK o, v, b, c, h : f = [oid |-> o, value |-> v, created |-> b, closed |-> c, hours |-> h]
  BY DEF IsFact
<1>2. PICK k : k = Hours(q)
  OBVIOUS
<1>3. PICK g : g = Refreshed(f, q)
  OBVIOUS
<1>4. g = [f EXCEPT !.closed = q.closed, !.hours = k]
  BY <1>2, <1>3 DEF Refreshed
<1>5. /\ g.oid = o /\ g.value = v /\ g.created = b /\ g.closed = q.closed /\ g.hours = k
      /\ g \in [oid : {o}, value : {v}, created : {b}, closed : {q.closed}, hours : {k}]
  BY <1>1, <1>4
<1>6. g = [oid |-> o, value |-> v, created |-> b, closed |-> q.closed, hours |-> k]
  BY <1>5
<1>7. IsFact(g)
  BY <1>5, <1>6 DEF IsFact
<1>8. f.oid = o /\ f.value = v /\ f.created = b
  BY <1>1
<1> QED BY <1>2, <1>3, <1>5, <1>7, <1>8

(* A first load keeps the OBJECTID and the creation date of its row. *)
LEMMA FactOfRow ==
    ASSUME NEW r
    PROVE  IsFact(Fact(r)) /\ Fact(r).oid = r.oid /\ Fact(r).created = r.created
BY DEF Fact, IsFact

(* A closed row of a batch that passed the gate has its hours. *)
LEMMA GatedHours ==
    ASSUME GatedBatches, NEW b \in Batches, NEW r \in b, r.closed # Null
    PROVE  Hours(r) # Null
<1>1. r.created \in Nat /\ r.closed \in Nat /\ r.closed >= r.created
  BY DEF GatedBatches
<1>2. \A x, y \in Nat : y >= x => y - x # -1
  OBVIOUS
<1> QED BY <1>1, <1>2 DEF Hours, Null

(* A load keeps one fact per OBJECTID, deletes none, moves none into or out  *)
(* of the total, and keeps the hours of closed ones.                         *)
LEMMA LoadKeepsFacts ==
    ASSUME TableInv, NEW b \in Batches, Load(b)
    PROVE  /\ TableInv'
           /\ TotalRequests(table) \in Nat /\ TotalRequests(table') \in Nat
           /\ TotalRequests(table) <= TotalRequests(table')
           /\ GatedBatches /\ HoursInv => HoursInv'
<1>1. PICK first \in Picks(b), final \in Picks(b) : table' = Merge(b, first, final)
  BY DEF Load
<1>2. IsFiniteSet(table) /\ IsFiniteSet(b) /\ \A r \in b : r.created # Null
  BY DashboardAssumption DEF TableInv, Load
<1> DEFINE oids    == {r.oid : r \in b}
           present == {f.oid : f \in table}
           kept(f) == IF f.oid \in oids THEN Refreshed(f, final[f.oid]) ELSE f
           new(o)  == Refreshed(Fact(first[o]), final[o])
           Old     == {kept(f) : f \in table}
           New     == {new(o) : o \in oids \ present}
<1>3. /\ DOMAIN first = oids /\ DOMAIN final = oids
      /\ \A o \in oids : first[o] \in b /\ first[o].oid = o /\ final[o] \in b
  BY <1>1 DEF Picks
<1>4. table' = Old \cup New
  BY <1>1, <1>3 DEF Merge
<1>5. ASSUME NEW f \in table
      PROVE  /\ IsFact(kept(f))
             /\ kept(f).oid = f.oid /\ kept(f).value = f.value /\ kept(f).created = f.created
             /\ GatedBatches /\ HoursInv => (kept(f).closed # Null => kept(f).hours # Null)
  <2>1. IsFact(f)
    BY DEF TableInv, IsFact
  <2>2. CASE f.oid \in oids
    <3>1. PICK q \in b : q = final[f.oid]
      BY <1>3, <2>2
    <3>2. kept(f) = Refreshed(f, q)
      BY <2>2, <3>1
    <3> HIDE DEF kept
    <3> QED BY <2>1, <3>2, RefreshedFact, GatedHours
  <2>3. CASE f.oid \notin oids
    <3>1. kept(f) = f
      BY <2>3
    <3> HIDE DEF kept
    <3> QED BY <2>1, <3>1 DEF HoursInv
  <2> QED BY <2>2, <2>3
<1>6. ASSUME NEW o \in oids
      PROVE  /\ IsFact(new(o)) /\ new(o).oid = o /\ new(o).created # Null
             /\ GatedBatches => (new(o).closed # Null => new(o).hours # Null)
  <2>1. PICK p \in b, q \in b : p = first[o] /\ q = final[o] /\ p.oid = o
    BY <1>3
  <2>2. PICK f : f = Fact(p)
    OBVIOUS
  <2>3. IsFact(f) /\ f.oid = o /\ f.created = p.created
    BY <2>1, <2>2, FactOfRow
  <2>4. new(o) = Refreshed(f, q)
    BY <2>1, <2>2
  <2> HIDE DEF new
  <2> QED BY <1>2, <2>1, <2>3, <2>4, RefreshedFact, GatedHours
<1>7. IsFiniteSet(table')
  <2>1. IsFiniteSet(Old)
    <3> DEFINE g == [f \in table |-> kept(f)]
    <3>1. g \in [table -> Old] /\ \A t \in Old : \E x \in table : g[x] = t
      <4> HIDE DEF kept
      <4> QED OBVIOUS
    <3> HIDE DEF Old, g
    <3> QED BY <1>2, <3>1, FiniteImage
  <2>2. IsFiniteSet(oids)
    <3> DEFINE g == [r \in b |-> r.oid]
    <3>1. g \in [b -> oids] /\ \A t \in oids : \E x \in b : g[x] = t
      OBVIOUS
    <3> HIDE DEF oids, g
    <3> QED BY <1>2, <3>1, FiniteImage
  <2>3. IsFiniteSet(oids \ present)
    <3> HIDE DEF oids, present
    <3> QED BY <2>2, FS_Difference
  <2>4. IsFiniteSet(New)
    <3> DEFINE S == oids \ present
               g == [o \in S |-> new(o)]
    <3>1. g \in [S -> New] /\ \A t \in New : \E x \in S : g[x] = t
      <4> HIDE DEF new, oids, present
      <4> QED OBVIOUS
    <3> HIDE DEF New, g, oids, present
    <3> QED BY <2>3, <3>1, FiniteImage
  <2> HIDE DEF Old, New
  <2> QED BY <1>4, <2>1, <2>4, FS_Union
<1>8. ASSUME NEW g \in table'
      PROVE  \/ \E f \in table : g = kept(f)
             \/ \E o \in oids \ present : g = new(o)
  BY <1>4, <1>8
<1> HIDE DEF kept, new
<1>9. TableInv'
  <2>1. ASSUME NEW g \in table' PROVE IsFact(g) /\ g.created # Null
    BY <1>5, <1>6, <1>8 DEF TableInv
  <2>2. ASSUME NEW g \in table', NEW h \in table', g.oid = h.oid PROVE g = h
    <3>1. CASE (\E f \in table : g = kept(f)) /\ (\E f \in table : h = kept(f))
      BY <1>5, <2>2, <3>1 DEF TableInv
    <3>2. CASE (\E f \in table : g = kept(f)) /\ (\E o \in oids \ present : h = new(o))
      BY <1>5, <1>6, <2>2, <3>2
    <3>3. CASE (\E o \in oids \ present : g = new(o)) /\ (\E f \in table : h = kept(f))
      BY <1>5, <1>6, <2>2, <3>3
    <3>4. CASE (\E o \in oids \ present : g = new(o)) /\ (\E o \in oids \ present : h = new(o))
      BY <1>6, <2>2, <3>4
    <3> QED BY <1>8, <3>1, <3>2, <3>3, <3>4
  <2> QED BY <1>7, <2>1, <2>2 DEF TableInv, IsFact
<1>10. ASSUME GatedBatches, HoursInv, NEW g \in table', g.closed # Null
       PROVE  g.hours # Null
  BY <1>5, <1>6, <1>8, <1>10
<1>11. /\ TotalRequests(table) \in Nat /\ TotalRequests(table') \in Nat
       /\ TotalRequests(table) <= TotalRequests(table')
  <2> DEFINE A == Public(table)
             B == Public(table')
             g == [f \in A |-> kept(f)]
  <2>1. IsFiniteSet(A) /\ IsFiniteSet(B)
    BY <1>2, <1>7, FS_Subset DEF Public
  <2>2. A \subseteq table
    BY DEF Public
  <2>3. ASSUME NEW f \in A PROVE kept(f) \in B
    <3>1. kept(f) \in table'
      BY <1>4, <2>2
    <3>2. kept(f).value = f.value
      BY <1>5, <2>2
    <3>3. ~f.value.internal
      BY DEF Public
    <3> QED BY <3>1, <3>2, <3>3 DEF Public
  <2>4. g \in Injection(A, B)
    <3>1. \A x, y \in A : kept(x) = kept(y) => x = y
      BY <1>5, <2>2 DEF TableInv
    <3> HIDE DEF A, B
    <3> QED BY <2>3, <3>1 DEF Injection, IsInjective
  <2> HIDE DEF g
  <2>5. Cardinality(A) <= Cardinality(B)
    <3> HIDE DEF A, B
    <3> QED BY <2>1, <2>4, FS_Injection
  <2> QED BY <2>1, <2>5, FS_CardinalityType DEF TotalRequests
<1> QED BY <1>9, <1>10, <1>11 DEF HoursInv

-----------------------------------------------------------------------------
(* What the queries answer. *)

(* The order in which app.py asks its six questions. *)
LEMMA PageOrder ==
    /\ DOMAIN Page = 1..6 /\ Len(Page) = 6
    /\ Page[1] = "total" /\ Page[2] = "agency" /\ Page[3] = "resolution" /\ Page[4] = "day"
    /\ Page[5] = "neighborhood" /\ Page[6] = "points"
BY DEF Page

(* Each query is answered by its function of data.py. *)
LEMMA WhatIsAnswered ==
    ASSUME NEW facts
    PROVE  /\ Answer("total", facts) = TotalRequests(facts)
           /\ Answer("agency", facts) = RequestsByAgency(facts)
           /\ Answer("resolution", facts) = Resolution(facts)
           /\ Answer("day", facts) = RequestsByDay(facts)
           /\ Answer("points", facts) = MapPoints(facts)
BY DEF Answer

(* Every public fact has a date, so the daily volume adds up to the total.   *)
LEMMA DaysAddUp == TableInv => RequestsByDay(table) = TotalRequests(table)
<1> SUFFICES ASSUME TableInv PROVE RequestsByDay(table) = TotalRequests(table)
  OBVIOUS
<1>1. {f \in Public(table) : f.created # Null} = Public(table)
  BY DEF Public, TableInv
<1> QED BY <1>1 DEF RequestsByDay, TotalRequests

(* The map never has more points than its LIMIT. *)
LEMMA PointsWithinLimit ==
    TableInv => MapPoints(table) \in 0..MapLimit
<1> SUFFICES ASSUME TableInv PROVE MapPoints(table) \in 0..MapLimit
  OBVIOUS
<1> DEFINE S == {f \in Public(table) : f.value.located}
<1>1. IsFiniteSet(S)
  BY FS_Subset DEF TableInv, Public
<1>2. Cardinality(S) \in Nat
  <2> HIDE DEF S
  <2> QED BY <1>1, FS_CardinalityType
<1> HIDE DEF S
<1>3. MapPoints(table) = IF Cardinality(S) > MapLimit THEN MapLimit ELSE Cardinality(S)
  BY DEF MapPoints, S
<1> QED BY <1>2, <1>3, DashboardAssumption

(* A finite set by a part of it and the rest. *)
LEMMA PartAndRest ==
    ASSUME NEW S, IsFiniteSet(S), NEW T, T \subseteq S
    PROVE  /\ Cardinality(T) + Cardinality(S \ T) = Cardinality(S)
           /\ Cardinality(T) \in Nat /\ Cardinality(S \ T) \in Nat /\ Cardinality(S) \in Nat
<1>1. S \cap T = T
  OBVIOUS
<1>2. Cardinality(S \ T) = Cardinality(S) - Cardinality(T)
  BY <1>1, FS_Difference
<1>3. IsFiniteSet(T) /\ IsFiniteSet(S \ T)
  BY FS_Subset
<1>4. Cardinality(T) \in Nat /\ Cardinality(S \ T) \in Nat /\ Cardinality(S) \in Nat
  BY <1>3, FS_CardinalityType
<1> QED BY <1>2, <1>4

(* The charts of one table agree, up to the facts that no agency is known of. *)
LEMMA ChartsAgree ==
    ASSUME TableInv, HoursInv, NEW anonymous, anonymous = Public(table) \ WithAgency(table)
    PROVE  /\ RequestsByAgency(table).requests + Cardinality(anonymous) = TotalRequests(table)
           /\ RequestsByAgency(table).closed + Cardinality(Closed(anonymous))
                 = Resolution(table).closed
<1>1. IsFiniteSet(Public(table)) /\ IsFiniteSet(Closed(Public(table)))
  BY FS_Subset DEF TableInv, Public, Closed
<1>2. WithAgency(table) \subseteq Public(table)
  BY DEF WithAgency
<1>3. Cardinality(WithAgency(table)) + Cardinality(anonymous) = Cardinality(Public(table))
  BY <1>1, <1>2, PartAndRest
<1>4. /\ Closed(WithAgency(table)) \subseteq Closed(Public(table))
      /\ Closed(anonymous) = Closed(Public(table)) \ Closed(WithAgency(table))
  BY <1>2 DEF Closed
<1>5. Cardinality(Closed(WithAgency(table))) + Cardinality(Closed(anonymous))
        = Cardinality(Closed(Public(table)))
  BY <1>1, <1>4, PartAndRest
<1>6. {f \in Closed(Public(table)) : f.hours # Null} = Closed(Public(table))
  BY DEF HoursInv, Closed, Public
<1>7. Resolution(table).closed = Cardinality(Closed(Public(table)))
  BY <1>6 DEF Resolution
<1>8. /\ RequestsByAgency(table).requests = Cardinality(WithAgency(table))
      /\ RequestsByAgency(table).closed = Cardinality(Closed(WithAgency(table)))
  BY DEF RequestsByAgency
<1> QED BY <1>3, <1>5, <1>7, <1>8 DEF TotalRequests

-----------------------------------------------------------------------------
(* DashInv, one session at a time. *)

OneSession(s) == OpenInv(s) /\ ShownInv(s)

ShownIsFunction == shown = [s \in Sessions |-> shown[s]]

(* The total has been asked for first, the daily volume after it. *)
LEMMA QueriesGrow ==
    /\ Queries(0) = {}
    /\ \A n \in 1..6 : Queries(n) = Queries(n - 1) \cup {Page[n]}
    /\ \A n \in 1..6 : "total" \in Queries(n)
    /\ \A n \in 0..3 : "day" \notin Queries(n)
    /\ \A q \in {"total", "agency", "resolution", "day"} : q \in Queries(5)
<1>1. Queries(0) = {}
  BY DEF Queries
<1>2. ASSUME NEW n \in 1..6 PROVE Queries(n) = Queries(n - 1) \cup {Page[n]}
  <2>1. 1..n = (1..(n - 1)) \cup {n}
    OBVIOUS
  <2> QED BY <2>1 DEF Queries
<1>3. ASSUME NEW n \in 1..6 PROVE "total" \in Queries(n)
  <2>1. 1 \in 1..n
    OBVIOUS
  <2> QED BY <2>1, PageOrder DEF Queries
<1>4. ASSUME NEW n \in 0..3 PROVE "day" \notin Queries(n)
  <2>1. \A i \in 1..n : i = 1 \/ i = 2 \/ i = 3
    OBVIOUS
  <2> QED BY <2>1, PageOrder DEF Queries
<1>5. \A i \in 1..4 : i \in 1..5
  OBVIOUS
<1>6. \A q \in {"total", "agency", "resolution", "day"} : q \in Queries(5)
  BY <1>5, PageOrder DEF Queries
<1> QED BY <1>1, <1>2, <1>3, <1>4, <1>6

(* What the other sessions, CREATE TABLE and a server that comes back leave  *)
(* of session s.                                                             *)
Undisturbed(s) ==
    /\ UNCHANGED <<status[s], at[s], shown[s], opened[s], met[s]>>
    /\ UNCHANGED table
    /\ conn # "none" => conn' # "none"
    /\ conn = "dead" => conn' = "dead"

(* A session is well while nobody touches its page, the table or its         *)
(* connection.                                                               *)
LEMMA UndisturbedKeeps ==
    ASSUME NEW s \in Sessions, OneSession(s), Undisturbed(s)
    PROVE  OneSession(s)'
<1>1. /\ status'[s] = status[s] /\ at'[s] = at[s] /\ shown'[s] = shown[s]
      /\ opened'[s] = opened[s] /\ met'[s] = met[s] /\ table' = table
  BY DEF Undisturbed
<1>2. \A q : Answer(q, table)' = Answer(q, table)
  BY <1>1
<1>3. Queries(at[s] - 1)' = Queries(at[s] - 1) /\ Queries(Len(Page))' = Queries(Len(Page))
  BY <1>1 DEF Queries
<1>4. TotalRequests(table)' = TotalRequests(table)
  BY <1>1
<1>5. OpenInv(s)'
  BY <1>1, <1>2, <1>3, <1>4 DEF OneSession, OpenInv, Undisturbed
<1>6. ShownInv(s)'
  BY <1>1, <1>3 DEF OneSession, ShownInv, Queries
<1> QED BY <1>5, <1>6 DEF OneSession

(* A step of one session touches no other one's page. *)
LEMMA OthersUndisturbed ==
    ASSUME DashTypeOK, ShownIsFunction, NEW s \in Sessions, NEW t \in Sessions, t # s,
           SessionStep(t)
    PROVE  Undisturbed(s)
<1>1. UNCHANGED <<status[s], at[s], shown[s], opened[s], met[s]>>
  BY DEF SessionStep, OpenPage, CannotConnect, Query, QueryFails, RollBack, QueryOnDead,
         ShownIsFunction, DashTypeOK
<1>2. UNCHANGED table
  BY DEF SessionStep, OpenPage, CannotConnect, Query, QueryFails, RollBack, QueryOnDead,
         serverVars
<1>3. (conn # "none" => conn' # "none") /\ (conn = "dead" => conn' = "dead")
  BY DEF SessionStep, OpenPage, Connect, CannotConnect, Query, QueryFails, RollBack,
         QueryOnDead, connVars
<1> QED BY <1>1, <1>2, <1>3 DEF Undisturbed

(* A load while the page is built. *)
LEMMA LoadKeepsSession ==
    ASSUME DashTypeOK, TableInv, NEW s \in Sessions, OneSession(s), LoadCommits
    PROVE  OneSession(s)'
<1>1. /\ UNCHANGED <<status, at, shown, opened, conn>>
      /\ met'[s] = IF status[s] \in {"open", "failing"} THEN met[s] \cup {"load"} ELSE met[s]
  BY DEF LoadCommits, Meets, connVars
<1>2. PICK b \in Batches : Load(b)
  BY DEF LoadCommits, LoadOneOf
<1>3. /\ TotalRequests(table) \in Nat /\ TotalRequests(table') \in Nat
      /\ TotalRequests(table) <= TotalRequests(table')
  BY <1>2, LoadKeepsFacts
<1>4. ShownInv(s)'
  BY <1>1 DEF OneSession, ShownInv, Queries
<1>5. OpenInv(s)'
  <2> SUFFICES ASSUME status[s] = "open" PROVE OpenInv(s)'
    BY <1>1 DEF OpenInv
  <2>1. met'[s] = met[s] \cup {"load"}
    BY <1>1
  <2>2. opened[s] \in Nat
    BY DEF DashTypeOK
  <2>3. opened[s] <= TotalRequests(table')
    BY <1>3, <2>2 DEF OneSession, OpenInv
  <2>4. "total" \in DOMAIN shown[s] => shown[s]["total"] <= TotalRequests(table')
    BY <1>3 DEF OneSession, OpenInv, ShownInv
  <2>5. "outage" \in met'[s] => conn' = "dead"
    BY <1>1, <2>1 DEF OneSession, OpenInv
  <2> QED BY <1>1, <2>1, <2>3, <2>4, <2>5 DEF OneSession, OpenInv, Queries
<1> QED BY <1>4, <1>5 DEF OneSession

(* An outage is noted for every open page, and kills its connection. *)
LEMMA OutageKeepsSession ==
    ASSUME DashTypeOK, NEW s \in Sessions, OneSession(s), GoesDown
    PROVE  OneSession(s)'
<1>1. /\ UNCHANGED <<status, at, shown, opened, table>>
      /\ conn' = IF conn = "none" THEN "none" ELSE "dead"
      /\ met'[s] = IF status[s] \in {"open", "failing"} THEN met[s] \cup {"outage"} ELSE met[s]
  BY DEF GoesDown, Meets
<1>2. ShownInv(s)'
  BY <1>1 DEF OneSession, ShownInv, Queries
<1>3. OpenInv(s)'
  BY <1>1 DEF OneSession, OpenInv, Queries
<1> QED BY <1>2, <1>3 DEF OneSession

(* A page is opened. *)
LEMMA OpenPageKeeps ==
    ASSUME DashTypeOK, TableInv, ShownIsFunction, NEW s \in Sessions, OpenPage(s)
    PROVE  OneSession(s)'
<1>1. /\ status'[s] = "open" /\ at'[s] = 1 /\ shown'[s] = Blank /\ table' = table
      /\ opened'[s] = TotalRequests(table)
      /\ "outage" \notin met'[s]
      /\ conn' # "none"
  BY DEF OpenPage, Connect, connVars, serverVars, DashTypeOK, ShownIsFunction, TotalRequests
<1>2. TotalRequests(table) \in Nat
  BY FS_Subset, FS_CardinalityType DEF TableInv, TotalRequests, Public
<1>3. DOMAIN shown'[s] = {}
  BY <1>1 DEF Blank
<1>4. OpenInv(s)'
  BY <1>1, <1>2, <1>3, QueriesGrow DEF OpenInv
<1> QED BY <1>1, <1>3, <1>4 DEF OneSession, ShownInv

(* One query more. *)
LEMMA QueryKeeps ==
    ASSUME DashTypeOK, TableInv, ShownIsFunction, NEW s \in Sessions, OneSession(s), Query(s)
    PROVE  OneSession(s)'
<1> DEFINE n == at[s]
           q == Page[at[s]]
<1>1. /\ status[s] = "open" /\ conn = "live" /\ UNCHANGED <<table, conn>>
      /\ shown'[s] = Filled(shown[s], q, Answer(q, table))
      /\ opened'[s] = opened[s] /\ met'[s] = met[s]
      /\ n \in 1..6
  BY PageOrder DEF Query, Snapshot, serverVars, DashTypeOK, ShownIsFunction
<1>2. \/ n < 6 /\ at'[s] = n + 1 /\ status'[s] = "open"
      \/ n = 6 /\ at'[s] = n /\ status'[s] = "shown"
  BY <1>1, PageOrder DEF Query, DashTypeOK
<1>3. /\ DOMAIN shown[s] = Queries(n - 1) /\ "outage" \notin met[s]
      /\ opened[s] <= TotalRequests(table)
      /\ "total" \in DOMAIN shown[s] => shown[s]["total"] <= TotalRequests(table)
      /\ "load" \notin met[s] => \A x \in DOMAIN shown[s] : shown[s][x] = Answer(x, table)
  BY <1>1 DEF OneSession, OpenInv
<1>4. TotalRequests(table) \in Nat
  BY FS_Subset, FS_CardinalityType DEF TableInv, TotalRequests, Public
<1>5. DOMAIN shown'[s] = Queries(n)
  BY <1>1, <1>3, QueriesGrow DEF Filled
<1>6. \A x \in Queries(n) : shown'[s][x] = IF x = q THEN Answer(q, table) ELSE shown[s][x]
  BY <1>1, <1>3, QueriesGrow DEF Filled
<1>7. /\ shown'[s]["total"] \in Nat /\ shown'[s]["total"] >= opened[s]
      /\ shown'[s]["total"] <= TotalRequests(table)
  <2>0. opened[s] \in Nat
    BY DEF DashTypeOK
  <2>1. "total" \in Queries(n)
    BY <1>1, QueriesGrow
  <2>2. CASE q = "total"
    BY <1>3, <1>4, <1>6, <2>0, <2>1, <2>2, WhatIsAnswered
  <2>3. CASE q # "total"
    <3>1. "total" \in DOMAIN shown[s] /\ shown'[s]["total"] = shown[s]["total"]
      BY <1>1, <1>3, <1>6, <2>1, <2>3, QueriesGrow
    <3> QED BY <1>1, <1>3, <3>1 DEF OneSession, ShownInv
  <2> QED BY <2>2, <2>3
<1>8. ASSUME "day" \in Queries(n)
      PROVE  shown'[s]["day"] >= shown'[s]["total"]
  <2>1. n \in 4..6
    BY <1>1, <1>8, QueriesGrow
  <2>2. q # "total"
    BY <2>1, PageOrder
  <2>3. CASE q = "day"
    <3>1. shown'[s]["day"] = TotalRequests(table)
      BY <1>6, <1>8, <2>3, WhatIsAnswered, DaysAddUp
    <3> QED BY <1>4, <1>7, <3>1
  <2>4. CASE q # "day"
    <3>1. "day" \in DOMAIN shown[s] /\ shown'[s]["day"] = shown[s]["day"]
      BY <1>1, <1>3, <1>6, <1>8, <2>4, QueriesGrow
    <3>2. "total" \in Queries(n)
      BY <1>1, QueriesGrow
    <3>3. shown'[s]["total"] = shown[s]["total"]
      BY <1>6, <2>2, <3>2
    <3> QED BY <1>1, <3>1, <3>3 DEF OneSession, ShownInv
  <2> QED BY <2>3, <2>4
<1>9. "load" \notin met[s] => \A x \in Queries(n) : shown'[s][x] = Answer(x, table)
  BY <1>1, <1>3, <1>6, QueriesGrow
<1> HIDE DEF n, q
<1>10. ShownInv(s)'
  BY <1>1, <1>2, <1>3, <1>5, <1>7, <1>8, PageOrder DEF ShownInv, Queries
<1>11. OpenInv(s)'
  <2> SUFFICES ASSUME status'[s] = "open" PROVE OpenInv(s)'
    BY DEF OpenInv
  <2>1. at'[s] = n + 1 /\ at'[s] - 1 = n
    BY <1>1, <1>2
  <2> QED BY <1>1, <1>3, <1>5, <1>7, <1>9, <2>1 DEF OpenInv, Queries
<1> QED BY <1>10, <1>11 DEF OneSession

(* A page ends with a message and nothing else, or with a traceback: above   *)
(* that is nothing, or all it had, which has the total.                      *)
LEMMA FailureKeeps ==
    ASSUME DashTypeOK, ShownIsFunction, NEW s \in Sessions, OneSession(s),
           CannotConnect(s) \/ QueryFails(s) \/ RollBack(s) \/ QueryOnDead(s)
    PROVE  OneSession(s)'
<1>1. DOMAIN Blank = {} /\ Queries(0) = {}
  BY QueriesGrow DEF Blank
<1>2. OpenInv(s)'
  BY DEF CannotConnect, QueryFails, RollBack, QueryOnDead, DashTypeOK, OpenInv
<1>3. CASE CannotConnect(s)
  <2>1. status'[s] = "message" /\ shown'[s] = Blank
    BY <1>3 DEF CannotConnect, DashTypeOK, ShownIsFunction
  <2> QED BY <1>1, <1>2, <2>1 DEF OneSession, ShownInv
<1>4. CASE QueryFails(s)
  <2>1. /\ status[s] = "open" /\ status'[s] = "failing" /\ shown'[s] = shown[s] /\ at'[s] = at[s]
        /\ opened'[s] = opened[s]
    BY <1>4 DEF QueryFails, DashTypeOK
  <2>2. DOMAIN shown'[s] = Queries(at[s] - 1)
    BY <2>1 DEF OneSession, OpenInv
  <2> QED BY <1>2, <2>1, <2>2 DEF OneSession, ShownInv, Queries
<1>5. CASE RollBack(s) \/ QueryOnDead(s)
  <2>1. /\ status[s] \in {"open", "failing"} /\ status'[s] = "crashed" /\ opened'[s] = opened[s]
        /\ shown'[s] = Displayed(s)
    BY <1>5 DEF RollBack, QueryOnDead, DashTypeOK, ShownIsFunction
  <2>2. DOMAIN shown[s] = Queries(at[s] - 1) /\ at[s] \in 1..6
    BY <2>1, PageOrder DEF OneSession, OpenInv, ShownInv, DashTypeOK
  <2>3. CASE at[s] <= 3
    <3>1. shown'[s] = Blank
      BY <2>1, <2>3 DEF Displayed, AtOnce
    <3> QED BY <1>1, <1>2, <2>1, <3>1 DEF OneSession, ShownInv, Queries
  <2>4. CASE ~(at[s] <= 3)
    <3>1. shown'[s] = shown[s]
      BY <2>1, <2>4 DEF Displayed, AtOnce
    <3>2. at[s] - 1 \in 3..(6 - 1)
      BY <2>2, <2>4
    <3>3. at[s] - 1 \in AtOnce..(Len(Page) - 1)
      BY <3>2, PageOrder DEF AtOnce
    <3>4. \E n \in {0} \cup AtOnce..(Len(Page) - 1) : DOMAIN shown'[s] = Queries(n)
      BY <2>2, <3>1, <3>3
    <3> QED BY <1>2, <2>1, <3>1, <3>4 DEF OneSession, ShownInv, Queries, AtOnce
  <2> QED BY <2>2, <2>3, <2>4
<1> QED BY <1>3, <1>4, <1>5

-----------------------------------------------------------------------------
(* The types. *)

(* An answer has the type of its query. *)
LEMMA QueryKeepsType ==
    ASSUME DashTypeOK, TableInv, ShownIsFunction, NEW s \in Sessions, Query(s)
    PROVE  DashTypeOK' /\ ShownIsFunction'
<1>1. /\ UNCHANGED <<up, schema, outages, conn, opened, met>>
      /\ shown' = [shown EXCEPT ![s] = Filled(@, Page[at[s]], Answer(Page[at[s]], table))]
      /\ at[s] \in 1..6 /\ DOMAIN Page = 1..6
  BY PageOrder DEF Query, Snapshot, serverVars, DashTypeOK
<1>2. at' \in [Sessions -> DOMAIN Page]
  <2>1. at \in [Sessions -> 1..6]
    BY <1>1 DEF DashTypeOK
  <2>2. \/ at' = at
        \/ at[s] < 6 /\ at' = [at EXCEPT ![s] = @ + 1]
    BY PageOrder DEF Query
  <2>3. at[s] < 6 => at[s] + 1 \in 1..6
    BY <1>1
  <2>4. at' \in [Sessions -> 1..6]
    BY <2>1, <2>2, <2>3
  <2> QED BY <1>1, <2>4
<1>3. status' \in [Sessions -> {"closed", "open", "failing", "shown", "message", "crashed"}]
  BY DEF Query, DashTypeOK
<1>4. ASSUME NEW t \in Sessions, "points" \in DOMAIN shown'[t]
      PROVE  shown'[t]["points"] \in 0..MapLimit
  <2>1. CASE t # s
    BY <1>1, <1>4, <2>1 DEF ShownIsFunction, DashTypeOK
  <2>2. CASE t = s
    <3>1. shown'[s] = Filled(shown[s], Page[at[s]], Answer(Page[at[s]], table))
      BY <1>1 DEF ShownIsFunction
    <3>2. CASE Page[at[s]] = "points"
      <4>1. shown'[s]["points"] = MapPoints(table)
        BY <1>4, <2>2, <3>1, <3>2, WhatIsAnswered DEF Filled
      <4> QED BY <2>2, <4>1, PointsWithinLimit
    <3>3. CASE Page[at[s]] # "points"
      <4>1. "points" \in DOMAIN shown[s] /\ shown'[s]["points"] = shown[s]["points"]
        BY <1>4, <2>2, <3>1, <3>3 DEF Filled
      <4> QED BY <2>2, <4>1 DEF DashTypeOK
    <3> QED BY <3>2, <3>3
  <2> QED BY <2>1, <2>2
<1>5. ShownIsFunction'
  BY <1>1 DEF ShownIsFunction
<1> QED BY <1>1, <1>2, <1>3, <1>4, <1>5 DEF DashTypeOK

(* The other steps of a session keep the types. *)
LEMMA SessionKeepsType ==
    ASSUME DashTypeOK, TableInv, ShownIsFunction, NEW s \in Sessions,
           OpenPage(s) \/ CannotConnect(s) \/ QueryFails(s) \/ RollBack(s) \/ QueryOnDead(s)
    PROVE  DashTypeOK' /\ ShownIsFunction'
<1>1. UNCHANGED <<up, schema, outages>>
  BY DEF OpenPage, CannotConnect, QueryFails, RollBack, QueryOnDead, serverVars
<1>2. conn' \in {"none", "live", "aborted", "dead"}
  BY DEF OpenPage, Connect, CannotConnect, QueryFails, RollBack, QueryOnDead, connVars,
         DashTypeOK
<1>3. status' \in [Sessions -> {"closed", "open", "failing", "shown", "message", "crashed"}]
  BY DEF OpenPage, CannotConnect, QueryFails, RollBack, QueryOnDead, DashTypeOK
<1>4. /\ at' \in [Sessions -> DOMAIN Page]
      /\ met' \in [Sessions -> SUBSET {"load", "outage", "no tables"}]
  <2>1. 1 \in DOMAIN Page
    BY PageOrder
  <2>2. \/ at' = at /\ met' = met
        \/ /\ at' = [at EXCEPT ![s] = 1]
           /\ met' = [met EXCEPT ![s] = IF schema THEN {} ELSE {"no tables"}]
    BY DEF OpenPage, CannotConnect, QueryFails, RollBack, QueryOnDead
  <2>3. at' \in [Sessions -> DOMAIN Page]
    BY <2>1, <2>2 DEF DashTypeOK
  <2>4. PICK events \in SUBSET {"load", "outage", "no tables"} :
           met' = met \/ met' = [met EXCEPT ![s] = events]
    <3>1. (IF schema THEN {} ELSE {"no tables"}) \in SUBSET {"load", "outage", "no tables"}
      OBVIOUS
    <3> QED BY <2>2, <3>1
  <2>5. met' \in [Sessions -> SUBSET {"load", "outage", "no tables"}]
    BY <2>4 DEF DashTypeOK
  <2> QED BY <2>3, <2>5
<1>5. shown' = [shown EXCEPT ![s] = Blank] \/ shown' = shown
  <2>1. Displayed(s) = Blank \/ Displayed(s) = shown[s]
    BY DEF Displayed
  <2>2. [shown EXCEPT ![s] = shown[s]] = shown
    BY DEF ShownIsFunction
  <2> QED BY <2>1, <2>2 DEF OpenPage, CannotConnect, QueryFails, RollBack, QueryOnDead
<1>6. /\ \A t \in Sessions : "points" \in DOMAIN shown'[t] => shown'[t]["points"] \in 0..MapLimit
      /\ ShownIsFunction'
  <2>1. DOMAIN Blank = {}
    BY DEF Blank
  <2> HIDE DEF Blank
  <2> QED BY <1>5, <2>1 DEF ShownIsFunction, DashTypeOK
<1>7. opened' \in [Sessions -> Nat]
  <2>1. Cardinality(Public(table)) \in Nat
    BY FS_Subset, FS_CardinalityType DEF TableInv, Public
  <2> QED BY <2>1 DEF OpenPage, CannotConnect, QueryFails, RollBack, QueryOnDead, DashTypeOK
<1> QED BY <1>1, <1>2, <1>3, <1>4, <1>6, <1>7 DEF DashTypeOK

(* Loads, outages and restarts keep the types. *)
LEMMA ServerKeepsType ==
    ASSUME DashTypeOK, ShownIsFunction,
           CreateTables \/ LoadCommits \/ GoesDown \/ ComesUp \/ Restart
    PROVE  DashTypeOK' /\ ShownIsFunction'
<1>1. CASE CreateTables \/ ComesUp
  BY <1>1 DEF CreateTables, ComesUp, connVars, pageVars, DashTypeOK, ShownIsFunction
<1>2. CASE LoadCommits
  <2>1. met' \in [Sessions -> SUBSET {"load", "outage", "no tables"}]
    BY <1>2 DEF LoadCommits, Meets, DashTypeOK
  <2> QED BY <1>2, <2>1 DEF LoadCommits, connVars, DashTypeOK, ShownIsFunction
<1>3. CASE GoesDown
  <2>1. met' \in [Sessions -> SUBSET {"load", "outage", "no tables"}]
    BY <1>3 DEF GoesDown, Meets, DashTypeOK
  <2>2. outages' \in 0..MaxOutages
    <3>1. outages \in 0..MaxOutages /\ outages < MaxOutages /\ outages' = outages + 1
      BY <1>3 DEF GoesDown, DashTypeOK
    <3>2. MaxOutages \in Nat
      BY DashboardAssumption
    <3> QED BY <3>1, <3>2
  <2> QED BY <1>3, <2>1, <2>2 DEF GoesDown, DashTypeOK, ShownIsFunction
<1>4. CASE Restart
  <2>1. /\ \A t \in Sessions : DOMAIN shown'[t] = {}
        /\ ShownIsFunction'
    BY <1>4 DEF Restart, Blank, ShownIsFunction
  <2> QED BY <1>4, <2>1 DEF Restart, serverVars, DashTypeOK
<1> QED BY <1>1, <1>2, <1>3, <1>4

-----------------------------------------------------------------------------
(* Only loads change the table, and they keep it in order. *)
LEMMA StepKeepsTable ==
    ASSUME TableInv, GatedBatches => HoursInv, [DashNext]_dashVars
    PROVE  TableInv' /\ (GatedBatches => HoursInv')
<1>1. CASE LoadCommits
  <2>1. PICK b \in Batches : Load(b)
    BY <1>1 DEF LoadCommits, LoadOneOf
  <2> QED BY <2>1, LoadKeepsFacts
<1>2. CASE ~LoadCommits
  <2>1. table' = table
    BY <1>2 DEF DashNext, CreateTables, GoesDown, ComesUp, Restart, SessionStep, OpenPage,
                CannotConnect, Query, QueryFails, RollBack, QueryOnDead, serverVars, dashVars
  <2> QED BY <2>1 DEF TableInv, HoursInv
<1> QED BY <1>1, <1>2

(* No step breaks DashInv. *)
LEMMA NextDash == DashTypeOK /\ DashInv /\ [DashNext]_dashVars => DashTypeOK' /\ DashInv'
<1> SUFFICES ASSUME DashTypeOK, DashInv, [DashNext]_dashVars PROVE DashTypeOK' /\ DashInv'
  OBVIOUS
<1>1. /\ TableInv /\ (GatedBatches => HoursInv) /\ ShownIsFunction
      /\ \A s \in Sessions : OneSession(s)
  BY DEF DashInv, ShownIsFunction, OneSession
<1>2. TableInv' /\ (GatedBatches => HoursInv')
  BY <1>1, StepKeepsTable
<1>3. DashTypeOK' /\ ShownIsFunction'
  <2>1. CASE UNCHANGED dashVars
    BY <1>1, <2>1 DEF dashVars, serverVars, connVars, pageVars, DashTypeOK, ShownIsFunction
  <2> QED BY <1>1, <2>1, QueryKeepsType, SessionKeepsType, ServerKeepsType
          DEF DashNext, SessionStep
<1>4. ASSUME NEW s \in Sessions PROVE OneSession(s)'
  <2>1. CASE UNCHANGED dashVars \/ CreateTables \/ ComesUp
    <3>1. Undisturbed(s)
      BY <2>1 DEF CreateTables, ComesUp, dashVars, serverVars, connVars, pageVars, Undisturbed
    <3> QED BY <1>1, <3>1, UndisturbedKeeps
  <2>2. CASE LoadCommits
    BY <1>1, <2>2, LoadKeepsSession
  <2>3. CASE GoesDown
    BY <1>1, <2>3, OutageKeepsSession
  <2>4. CASE Restart
    <3>1. status'[s] = "closed" /\ DOMAIN shown'[s] = {}
      BY <2>4 DEF Restart, Blank
    <3> QED BY <3>1 DEF OneSession, OpenInv, ShownInv
  <2>5. ASSUME NEW t \in Sessions, SessionStep(t), t # s PROVE OneSession(s)'
    BY <1>1, <2>5, OthersUndisturbed, UndisturbedKeeps
  <2>6. ASSUME SessionStep(s) PROVE OneSession(s)'
    BY <1>1, <2>6, OpenPageKeeps, QueryKeeps, FailureKeeps DEF SessionStep
  <2> QED BY <2>1, <2>2, <2>3, <2>4, <2>5, <2>6 DEF DashNext
<1>5. (GatedBatches => HoursInv') <=> (GatedBatches => HoursInv)'
  BY DEF GatedBatches
<1> QED BY <1>2, <1>3, <1>4, <1>5 DEF DashInv, ShownIsFunction, OneSession

(* DashInv holds before the first page and the first load. *)
LEMMA InitDash == DashInit => DashTypeOK /\ DashInv
<1> SUFFICES ASSUME DashInit PROVE DashTypeOK /\ DashInv
  OBVIOUS
<1>1. DashTypeOK
  <2>1. DOMAIN Blank = {}
    BY DEF Blank
  <2>2. 0 \in 0..MaxOutages
    BY DashboardAssumption
  <2>3. 1 \in DOMAIN Page
    BY PageOrder
  <2>4. \A s \in Sessions : DOMAIN shown[s] = {}
    BY <2>1 DEF DashInit
  <2>5. outages \in 0..MaxOutages
    BY <2>2 DEF DashInit
  <2> QED BY <2>3, <2>4, <2>5 DEF DashInit, DashTypeOK
<1>2. TableInv /\ HoursInv
  BY FS_EmptySet DEF DashInit, TableInit, TableInv, HoursInv
<1>3. \A s \in Sessions : OpenInv(s) /\ ShownInv(s)
  BY DEF DashInit, Blank, OpenInv, ShownInv
<1>4. shown = [s \in Sessions |-> shown[s]]
  BY DEF DashInit
<1> QED BY <1>1, <1>2, <1>3, <1>4 DEF DashInv

(* Every state of the dashboard is well typed, and DashInv holds in it.      *)
THEOREM DashInvariant == DashSpec => [](DashTypeOK /\ DashInv)
BY InitDash, NextDash, PTL DEF DashSpec

-----------------------------------------------------------------------------
(* The properties. *)

(* The variables of the dashboard have their types, and no map has more      *)
(* points than its limit.                                                    *)
THEOREM DashTypeCorrect == DashSpec => []DashTypeOK
BY DashInvariant, PTL

(* A page, and what is left of one above a traceback, misses nothing that    *)
(* was committed when it was opened.                                         *)
THEOREM PageIsLiveHolds == DashSpec => []PageIsLive
<1>1. DashInv => PageIsLive
  BY DEF DashInv, ShownInv, PageIsLive
<1> QED BY <1>1, DashInvariant, PTL

(* The daily volume of a page adds up to no less than its total, whatever is *)
(* loaded between the two queries.                                           *)
THEOREM VolumeCoversTotalHolds == DashSpec => []VolumeCoversTotal
<1>1. DashInv => VolumeCoversTotal
  BY DEF DashInv, ShownInv, VolumeCoversTotal
<1> QED BY <1>1, DashInvariant, PTL

(* A page that is shown has every answer, of a server that was there all the *)
(* time; one that crashed has what app.py displayed before the query that    *)
(* failed, without a gap.                                                    *)
THEOREM PageHasNoGapHolds == DashSpec => []PageHasNoGap
<1>1. DashInv => PageHasNoGap
  BY DEF DashInv, ShownInv, PageHasNoGap
<1> QED BY <1>1, DashInvariant, PTL

(* On a page that met no load the charts agree with each other, up to the    *)
(* facts that no agency is known of, if the batches passed the gate: it lets *)
(* no row in that was closed before it was created, whose hours could be -1  *)
(* and count as none.                                                        *)
THEOREM QuietPageAgreesHolds == GatedBatches => (DashSpec => QuietPageAgrees)
<1> DEFINE Agrees ==
      \A s \in Sessions :
          status[s] = "open" /\ status'[s] = "shown" /\ "load" \notin met[s] =>
             LET page == shown'[s]
                 anonymous == Public(table) \ WithAgency(table)
             IN  /\ page["day"] = page["total"]
                 /\ page["agency"].requests + Cardinality(anonymous) = page["total"]
                 /\ page["agency"].closed + Cardinality(Closed(anonymous))
                        = page["resolution"].closed
<1>1. ASSUME GatedBatches, DashTypeOK, DashInv, [DashNext]_dashVars
      PROVE  Agrees
  <2> SUFFICES ASSUME NEW s \in Sessions, status[s] = "open", status'[s] = "shown",
                      "load" \notin met[s], NEW page, page = shown'[s],
                      NEW anonymous, anonymous = Public(table) \ WithAgency(table)
               PROVE  /\ page["day"] = page["total"]
                      /\ page["agency"].requests + Cardinality(anonymous) = page["total"]
                      /\ page["agency"].closed + Cardinality(Closed(anonymous))
                             = page["resolution"].closed
    OBVIOUS
  <2>1. Query(s) /\ at[s] = 6
    <3>1. PICK t \in Sessions : SessionStep(t)
      BY <1>1 DEF DashNext, CreateTables, LoadCommits, GoesDown, ComesUp, Restart, pageVars,
                  dashVars
    <3>2. t = s
      BY <1>1, <3>1 DEF SessionStep, OpenPage, CannotConnect, Query, QueryFails, RollBack,
                        QueryOnDead, DashTypeOK
    <3> QED BY <1>1, <3>1, <3>2, PageOrder DEF SessionStep, OpenPage, CannotConnect, Query,
                        QueryFails, RollBack, QueryOnDead, DashTypeOK
  <2>2. page = Filled(shown[s], "points", Answer("points", table))
    BY <1>1, <2>1, PageOrder DEF Query, Snapshot, DashInv
  <2>3. /\ DOMAIN shown[s] = Queries(5)
        /\ \A q \in Queries(5) : shown[s][q] = Answer(q, table)
    BY <1>1, <2>1 DEF DashInv, OpenInv
  <2>4. \A q \in {"total", "agency", "resolution", "day"} : page[q] = Answer(q, table)
    BY <2>2, <2>3, QueriesGrow DEF Filled
  <2>5. /\ page["total"] = TotalRequests(table) /\ page["day"] = RequestsByDay(table)
        /\ page["agency"] = RequestsByAgency(table) /\ page["resolution"] = Resolution(table)
    BY <2>4, WhatIsAnswered
  <2> QED BY <1>1, <2>5, DaysAddUp, ChartsAgree DEF DashInv
<1> SUFFICES ASSUME GatedBatches PROVE DashSpec => QuietPageAgrees
  OBVIOUS
<1>2. DashTypeOK /\ DashInv /\ [DashNext]_dashVars => [Agrees]_dashVars
  BY <1>1
<1>3. DashSpec => [][Agrees]_dashVars
  BY <1>2, DashInvariant, PTL DEF DashSpec
<1> QED BY <1>3 DEF QuietPageAgrees
=============================================================================
