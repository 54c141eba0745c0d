----------------------------- MODULE Dashboard -----------------------------
(***************************************************************************)
(* The dashboard: dashboard/app.py builds a page from the six queries of    *)
(* dashboard/data.py, one after the other, for every browser session, while *)
(* loads commit into the warehouse (Table).                                 *)
(*                                                                          *)
(* All sessions share the one connection st.cache_resource keeps.  Nothing  *)
(* ends the transaction its first query begins but the rollback of a query  *)
(* that failed.  Postgres and Streamlit are external.                       *)
(*                                                                          *)
(* The value of a row is what a fact keeps of the first row loaded for it:  *)
(* its agency (and neighborhood), whether it is an internal notification,   *)
(* whether it has valid coordinates.                                        *)
(*                                                                          *)
(* A name with an underscore is a mutant of the operator that follows it.   *)
(***************************************************************************)
EXTENDS Table, FiniteSets, Sequences

CONSTANTS
    Sessions,     \* browser sessions
    Batches,      \* the batches a loader may commit
    MapLimit,     \* LIMIT of map_points
    MaxOutages    \* bound: times Postgres goes down

VARIABLES
    up,        \* Postgres accepts connections
    outages,   \* times it went down
    schema,    \* schema.sql has been applied
    conn,      \* the cached connection
    began,     \* the facts when its transaction began, if one is open
    status,    \* per session: what became of its last page
    at,        \* the query its page has to make next
    shown,     \* the answers it has, and once it has ended what it displays
    \* History, read by no action's guard:
    opened,    \* public facts there were when the page was opened
    met        \* what the page met while it was built: loads, outages

serverVars == <<table, up, outages, schema>>
connVars   == <<conn, began>>
pageVars   == <<status, at, shown, opened, met>>
dashVars   == <<serverVars, connVars, pageVars>>

ASSUME DashboardAssumption ==
    /\ IsFiniteSet(Sessions)
    /\ \A b \in Batches : IsFiniteSet(b)
    /\ MapLimit \in Nat
    /\ MaxOutages \in Nat

-----------------------------------------------------------------------------
(* The numbers a page shows, as counts over what a statement sees.           *)
Public(facts) == {f \in facts : ~f.value.internal}

(* JOIN dim_agency: a fact without a key is in no group.                     *)
WithAgency(facts) == {f \in Public(facts) : f.value.agency # Null}

Closed(facts) == {f \in facts : f.closed # Null}

TotalRequests_All(facts) == Cardinality(facts)

TotalRequests(facts) == Cardinality(Public(facts))

RequestsByAgency(facts) ==
    [requests |-> Cardinality(WithAgency(facts)),
     closed   |-> Cardinality(Closed(WithAgency(facts))),
     agencies |-> Cardinality({f.value.agency : f \in WithAgency(facts)})]

(* The rows of resolution_time_distribution, and "Resolved same-call".       *)
Resolution(facts) ==
    LET rows == {f \in Closed(Public(facts)) : f.hours # Null}
    IN  [closed |-> Cardinality(rows), sameCall |-> Cardinality({f \in rows : f.hours = 0})]

(* Summed over the days; the join finds the date of every fact that has one. *)
RequestsByDay_WithInternal(facts) == Cardinality({f \in facts : f.created # Null})

RequestsByDay(facts) == Cardinality({f \in Public(facts) : f.created # Null})

MapPoints_NoLimit(facts) == Cardinality({f \in Public(facts) : f.value.located})

MapPoints(facts) ==
    LET located == Cardinality({f \in Public(facts) : f.value.located})
    IN  IF located > MapLimit THEN MapLimit ELSE located

(* requests_by_neighborhood groups as requests_by_agency does; no property   *)
(* is about what it shows of the 15 largest groups.                          *)
Answer(q, facts) ==
    CASE q = "total"        -> TotalRequests(facts)
      [] q = "agency"       -> RequestsByAgency(facts)
      [] q = "resolution"   -> Resolution(facts)
      [] q = "day"          -> RequestsByDay(facts)
      [] q = "neighborhood" -> {}
      [] q = "points"       -> MapPoints(facts)

(* app.py makes the queries from the top of the page to its end.             *)
Page == <<"total", "agency", "resolution", "day", "neighborhood", "points">>

Queries(n) == {Page[i] : i \in 1..n}

(* The first three queries are made before any of them is displayed.         *)
AtOnce == 3

Blank == [q \in {} |-> 0]

Filled(page, q, answer) ==
    [x \in DOMAIN page \cup {q} |-> IF x = q THEN answer ELSE page[x]]

(* What Streamlit keeps above the traceback of a query that failed.          *)
Displayed(s) == IF at[s] <= AtOnce THEN Blank ELSE shown[s]

-----------------------------------------------------------------------------
Meets(event) ==
    [s \in Sessions |-> IF status[s] \in {"open", "failing"} THEN met[s] \cup {event} ELSE met[s]]

(* The warehouse: loads commit, Postgres goes down and comes back.           *)
CreateTables ==
    /\ up
    /\ ~schema
    /\ schema' = TRUE
    /\ UNCHANGED <<table, up, outages, connVars, pageVars>>

LoadCommits ==
    /\ up
    /\ schema
    /\ LoadOneOf(Batches)
    /\ met' = Meets("load")
    /\ UNCHANGED <<up, outages, schema, connVars, status, at, shown, opened>>

(* Every connection is lost; who holds one learns of it when he uses it.     *)
GoesDown ==
    /\ up
    /\ outages < MaxOutages
    /\ up' = FALSE
    /\ outages' = outages + 1
    /\ conn' = IF conn = "none" THEN "none" ELSE "dead"
    /\ met' = Meets("outage")
    /\ UNCHANGED <<table, schema, began, status, at, shown, opened>>

ComesUp ==
    /\ ~up
    /\ up' = TRUE
    /\ UNCHANGED <<table, outages, schema, connVars, pageVars>>

-----------------------------------------------------------------------------
Ended(s) == status[s] \in {"closed", "shown", "message", "crashed"}

(* get_connection: what is cached is taken as it is, also when it is dead;   *)
(* an exception is not cached.                                               *)
Connect ==
    \/ conn # "none" /\ UNCHANGED connVars
    \/ conn = "none" /\ up /\ conn' = "live" /\ began' = {}

OpenPage(s) ==
    /\ Ended(s)
    /\ Connect
    /\ status' = [status EXCEPT ![s] = "open"]
    /\ at' = [at EXCEPT ![s] = 1]
    /\ shown' = [shown EXCEPT ![s] = Blank]
    /\ opened' = [opened EXCEPT ![s] = Cardinality(Public(table))]
    /\ met' = [met EXCEPT ![s] = IF schema THEN {} ELSE {"no tables"}]
    /\ UNCHANGED serverVars

(* st.error and st.stop. *)
CannotConnect(s) ==
    /\ Ended(s)
    /\ conn = "none"
    /\ ~up
    /\ status' = [status EXCEPT ![s] = "message"]
    /\ shown' = [shown EXCEPT ![s] = Blank]
    /\ UNCHANGED <<serverVars, connVars, at, opened, met>>

(* READ COMMITTED: a statement sees what was committed when it began; not    *)
(* what was when its transaction began.                                      *)
Snapshot_OfTransaction == IF began = {} THEN table ELSE CHOOSE t \in began : TRUE

Snapshot == table

Query(s) ==
    /\ status[s] = "open"
    /\ conn = "live"
    /\ schema
    /\ shown' = [shown EXCEPT ![s] = Filled(@, Page[at[s]], Answer(Page[at[s]], Snapshot))]
    /\ began' = IF began = {} THEN {table} ELSE began
    /\ \/ at[s] < Len(Page) /\ at' = [at EXCEPT ![s] = @ + 1] /\ UNCHANGED status
       \/ at[s] = Len(Page) /\ status' = [status EXCEPT ![s] = "shown"] /\ UNCHANGED at
    /\ UNCHANGED <<serverVars, conn, opened, met>>

(* The server refuses a query: a table is not there, or another session's    *)
(* query has failed and its thread has not rolled back yet.                  *)
QueryFails(s) ==
    /\ status[s] = "open"
    /\ \/ conn = "live" /\ ~schema
       \/ conn = "aborted"
    /\ conn' = "aborted"
    /\ status' = [status EXCEPT ![s] = "failing"]
    /\ UNCHANGED <<serverVars, began, at, shown, opened, met>>

(* pandas rolls back and raises; nothing in app.py catches it.               *)
RollBack(s) ==
    /\ status[s] = "failing"
    /\ conn' = IF conn = "aborted" THEN "live" ELSE conn
    /\ began' = {}
    /\ status' = [status EXCEPT ![s] = "crashed"]
    /\ shown' = [shown EXCEPT ![s] = Displayed(s)]
    /\ UNCHANGED <<serverVars, at, opened, met>>

(* The server is not there, or is and does not know the connection.          *)
QueryOnDead_Swallowed(s) ==
    /\ status[s] = "open"
    /\ conn = "dead"
    /\ \/ at[s] < Len(Page) /\ at' = [at EXCEPT ![s] = @ + 1] /\ UNCHANGED status
       \/ at[s] = Len(Page) /\ status' = [status EXCEPT ![s] = "shown"] /\ UNCHANGED at
    /\ UNCHANGED <<serverVars, connVars, shown, opened, met>>

QueryOnDead(s) ==
    /\ status[s] = "open"
    /\ conn = "dead"
    /\ status' = [status EXCEPT ![s] = "crashed"]
    /\ shown' = [shown EXCEPT ![s] = Displayed(s)]
    /\ UNCHANGED <<serverVars, connVars, at, opened, met>>

(* Somebody restarts Streamlit: the cache and all sessions are gone.         *)
Restart ==
    /\ conn' = "none"
    /\ began' = {}
    /\ status' = [s \in Sessions |-> "closed"]
    /\ shown' = [s \in Sessions |-> Blank]
    /\ UNCHANGED <<serverVars, at, opened, met>>

-----------------------------------------------------------------------------
DashInit ==
    /\ TableInit
    /\ up = TRUE
    /\ outages = 0
    /\ schema = FALSE
    /\ conn = "none"
    /\ began = {}
    /\ status = [s \in Sessions |-> "closed"]
    /\ at = [s \in Sessions |-> 1]
    /\ shown = [s \in Sessions |-> Blank]
    /\ opened = [s \in Sessions |-> 0]
    /\ met = [s \in Sessions |-> {}]

SessionStep(s) ==
    OpenPage(s) \/ CannotConnect(s) \/ Query(s) \/ QueryFails(s) \/ RollBack(s) \/ QueryOnDead(s)

DashNext ==
    \/ CreateTables \/ LoadCommits \/ GoesDown \/ ComesUp \/ Restart
    \/ \E s \in Sessions : SessionStep(s)

DashSpec == DashInit /\ [][DashNext]_dashVars

-----------------------------------------------------------------------------
(* Properties. *)

DashTypeOK ==
    /\ up \in BOOLEAN /\ schema \in BOOLEAN
    /\ outages \in 0..MaxOutages
    /\ conn \in {"none", "live", "aborted", "dead"}
    /\ status \in [Sessions -> {"closed", "open", "failing", "shown", "message", "crashed"}]
    /\ at \in [Sessions -> DOMAIN Page]
    /\ \A s \in Sessions : "points" \in DOMAIN shown[s] => shown[s]["points"] \in 0..MapLimit
    /\ opened \in [Sessions -> Nat]
    /\ met \in [Sessions -> SUBSET {"load", "outage", "no tables"}]

(* "Live view of the warehouse": a page misses nothing that was committed    *)
(* when it was opened, although its connection never ends its transaction;   *)
(* nor do the numbers above a traceback.                                     *)
PageIsLive ==
    \A s \in Sessions : "total" \in DOMAIN shown[s] => shown[s]["total"] >= opened[s]

(* Whatever is loaded while a page is built, its daily volume adds up to no  *)
(* less than the total above it: facts are never deleted, never change their *)
(* date or internal flag, and none is without a date.                        *)
VolumeCoversTotal ==
    \A s \in Sessions : "day" \in DOMAIN shown[s] => shown[s]["day"] >= shown[s]["total"]

(* A page that ends without a traceback has every answer, none of them by a  *)
(* server that has come back after the others; one that ends with it has     *)
(* those above it, without a gap, and not all.                               *)
PageHasNoGap ==
    /\ \A s \in Sessions : status[s] = "shown" =>
          DOMAIN shown[s] = Queries(Len(Page)) /\ "outage" \notin met[s]
    /\ \A s \in Sessions : status[s] = "crashed" =>
          \E n \in {0} \cup AtOnce..(Len(Page) - 1) : DOMAIN shown[s] = Queries(n)

(* On a page that met no load the charts agree with each other, up to the    *)
(* facts that no agency is known of.                                         *)
QuietPageAgrees ==
    [][\A s \in Sessions :
          status[s] = "open" /\ status'[s] = "shown" /\ "load" \notin met[s] =>
             LET page == shown'[s]
                 anonymous == Public(table) \ WithAgency(table)
             IN  /\ page["day"] = page["total"]
                 /\ page["agency"].requests + Cardinality(anonymous) = page["total"]
                 /\ page["agency"].closed + Cardinality(Closed(anonymous))
                        = page["resolution"].closed]_dashVars

-----------------------------------------------------------------------------
(* The inductive invariant behind these properties. *)

(* One fact per OBJECTID, none without a date.                               *)
TableInv ==
    /\ IsFiniteSet(table)
    /\ \A f, g \in table : f.oid = g.oid => f = g
    /\ \A f \in table :
          /\ f = [oid |-> f.oid, value |-> f.value, created |-> f.created,
                  closed |-> f.closed, hours |-> f.hours]
          /\ f.created # Null

(* The rows of a batch have passed the quality gate (Transform); then a      *)
(* closed fact has its hours.                                                *)
GatedBatches ==
    \A b \in Batches : \A r \in b :
        /\ r.created \in Nat
        /\ r.closed \in Nat \cup {Null}
        /\ r.closed # Null => r.closed >= r.created

HoursInv == \A f \in table : f.closed # Null => f.hours # Null

(* A page that is being built: what it has so far, how that relates to the   *)
(* table, and whether its connection has been lost.                          *)
OpenInv(s) ==
    status[s] = "open" =>
        /\ conn # "none"
        /\ "outage" \in met[s] => conn = "dead"
        /\ DOMAIN shown[s] = Queries(at[s] - 1)
        /\ opened[s] <= TotalRequests(table)
        /\ "total" \in DOMAIN shown[s] => shown[s]["total"] <= TotalRequests(table)
        /\ "load" \notin met[s] => \A q \in DOMAIN shown[s] : shown[s][q] = Answer(q, table)

ShownInv(s) ==
    /\ "total" \in DOMAIN shown[s] =>
          shown[s]["total"] \in Nat /\ shown[s]["total"] >= opened[s]
    /\ "day" \in DOMAIN shown[s] => shown[s]["day"] >= shown[s]["total"]
    /\ status[s] = "failing" => DOMAIN shown[s] = Queries(at[s] - 1)
    /\ status[s] = "shown" =>
          DOMAIN shown[s] = Queries(Len(Page)) /\ "outage" \notin met[s]
    /\ status[s] = "crashed" =>
          \E n \in {0} \cup AtOnce..(Len(Page) - 1) : DOMAIN shown[s] = Queries(n)

(* The table only grows under the pages that are being built, and what a     *)
(* page shows already was so when it was asked.                              *)
DashInv ==
    /\ TableInv
    /\ GatedBatches => HoursInv
    /\ shown = [s \in Sessions |-> shown[s]]
    /\ \A s \in Sessions : OpenInv(s) /\ ShownInv(s)
=============================================================================
