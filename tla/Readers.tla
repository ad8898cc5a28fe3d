------------------------------ MODULE Readers ------------------------------
(***************************************************************************)
(* The endpoints that answer questions about a store while ingestion and   *)
(* POS loading go on: GET /stores/{id}/metrics (app/routers/metrics.py),   *)
(* which asks PostgreSQL and Redis in turn, one await per question, GET    *)
(* /stores/{id}/funnel (funnel.py), a single statement, and GET /health    *)
(* (health.py), which lets Redis override PostgreSQL.  Each statement sees *)
(* what is committed when it starts.  Insights adds two more endpoints.    *)
(***************************************************************************)
EXTENDS Api, FiniteSetsExt

CONSTANTS
    Calls           \* calls of the endpoints that only read

ASSUME CallsAssumption == Calls \cap Clients = {}

VARIABLES
    rpc,            \* where each call is
    metrics,        \* what a metrics call has found out so far
    funnel,         \* the answer of a funnel call
    health,         \* last_event per store, as a health call has it
    scan,           \* a health call's way through the keys in Redis
    zonesLeft       \* a metrics call's way through the dwell keys in Redis

readerVars == <<rpc, metrics, funnel, health, scan, zonesLeft>>

\* An average is kept as what is divided by what.
Average == [sum : Nat, count : Nat]

Metrics ==
    [store : Stores, visitors : Nat, conversions : Nat, depth : Int,
     dwell : [Zones -> Average], abandons : Nat, joins : Nat, ts : Nat]

Funnel == [entry : Nat, zoneVisit : Nat, billing : Nat, purchase : Nat]
\* The last line is of the calls in Insights.
RPCs == {"idle", "entries", "queue", "lastJoin", "scan", "dwellSum", "dwellCount",
         "abandon", "ts", "lastTs", "redisHealth", "metrics", "funnel", "health",
         "sessionCount", "avgQueue", "today", "baseline", "traffic", "dead", "answered"}

NoScan == [left |-> {}, found |-> [s \in Stores |-> NoTime]]
NoAverage == [sum |-> 0, count |-> 0]
NoMetrics(s) ==
    [store |-> s, visitors |-> 0, conversions |-> 0, depth |-> 0,
     dwell |-> [z \in Zones |-> NoAverage], abandons |-> 0, joins |-> 0, ts |-> NoTime]

ReadersInit ==
    /\ ApiInit
    /\ rpc = [c \in Calls |-> "idle"]
    /\ metrics = [c \in Calls |-> NoMetrics(CHOOSE s \in Stores : TRUE)]
    /\ funnel = [c \in Calls |-> [entry |-> 0, zoneVisit |-> 0, billing |-> 0, purchase |-> 0]]
    /\ health = [c \in Calls |-> [s \in Stores |-> NoTime]]
    /\ scan = [c \in Calls |-> NoScan]
    /\ zonesLeft = [c \in Calls |-> {}]

-----------------------------------------------------------------------------
CallGoto(c, from, to) == rpc[c] = from /\ rpc' = [rpc EXCEPT ![c] = to]

\* The sessions of a store's customers.
CustomersOf(s) ==
    {v \in Visitors : /\ sessions[v] # NoRow
                      /\ sessions[v].store = s
                      /\ ~sessions[v].staff}

StoredIn(s, types) == {e \in stored : e.store = s /\ e.type \in types}

Latest(E) == IF E = {} THEN NoTime ELSE CHOOSE t \in {e.ts : e \in E} : \A e \in E : e.ts <= t

Found(c, m) ==
    /\ metrics' = [metrics EXCEPT ![c] = m]
    /\ UNCHANGED <<funnel, health, scan>>

\* Both counts in one statement; without sessions the events are asked.
CountSessions(c, s) ==
    LET visitors == Cardinality(CustomersOf(s)) IN
    /\ CallGoto(c, "idle", IF visitors = 0 THEN "entries" ELSE "queue")
    /\ Found(c, [NoMetrics(s) EXCEPT
                   !.visitors = visitors,
                   !.conversions = Cardinality({v \in CustomersOf(s) : sessions[v].converted})])
    /\ UNCHANGED zonesLeft

\* Mutant: COUNT(*) instead of COUNT(DISTINCT visitor_id), staff included.
CountAllEntries(c) ==
    /\ CallGoto(c, "entries", "queue")
    /\ Found(c, [metrics[c] EXCEPT
                   !.visitors = Cardinality(StoredIn(metrics[c].store, {"ENTRY"}))])
    /\ UNCHANGED zonesLeft

CountEntries(c) ==
    /\ CallGoto(c, "entries", "queue")
    /\ Found(c, [metrics[c] EXCEPT
                   !.visitors = Cardinality({e.vid : e \in {f \in StoredIn(metrics[c].store, {"ENTRY"}) :
                                                              ~f.staff}})])
    /\ UNCHANGED zonesLeft

\* A depth of 0 is taken for none: int(... or 0), then if queue_depth == 0.
ReadQueue(c) ==
    LET depth == queueDepth[metrics[c].store] IN
    /\ CallGoto(c, "queue", IF depth = 0 THEN "lastJoin" ELSE "scan")
    /\ Found(c, [metrics[c] EXCEPT !.depth = depth])
    /\ UNCHANGED zonesLeft

\* The depth that the latest queue join in the table carries, 0 if there is none.
ReadLastJoin(c) ==
    LET joins == {e \in StoredIn(metrics[c].store, {"BILLING_QUEUE_JOIN"}) : e.depth > 0} IN
    /\ CallGoto(c, "lastJoin", "scan")
    /\ IF joins = {}
       THEN UNCHANGED <<metrics, funnel, health, scan>>
       ELSE \E e \in joins : /\ e.ts = Latest(joins)
                             /\ Found(c, [metrics[c] EXCEPT !.depth = e.depth])
    /\ UNCHANGED zonesLeft

\* The dwell_sum keys that Redis has for the store, which scan_iter is sure to
\* return; a sum of 0 would add a zone with an average of 0 and counts as no key.
ScanZones(c) ==
    /\ CallGoto(c, "scan", "dwellSum")
    /\ zonesLeft' = [zonesLeft EXCEPT ![c] = {z \in Zones : dwellSum[metrics[c].store][z] > 0}]
    /\ UNCHANGED <<metrics, funnel, health, scan>>

\* The scan goes in batches: keys written since it began may come, too.
Appeared(c) ==
    {z \in Zones : dwellSum[metrics[c].store][z] > 0 /\ metrics[c].dwell[z] = NoAverage}

ReadDwellSum(c) ==
    /\ CallGoto(c, "dwellSum", "dwellCount")
    /\ \E z \in zonesLeft[c] \cup Appeared(c) :
         /\ Found(c, [metrics[c] EXCEPT !.dwell[z].sum = dwellSum[metrics[c].store][z]])
         /\ zonesLeft' = [zonesLeft EXCEPT ![c] = (@ \ {z})]

\* The zone whose sum has been read and whose count has not.
HalfRead(c) == {z \in Zones : metrics[c].dwell[z].sum > 0 /\ metrics[c].dwell[z].count = 0}

\* A zone whose count is 0 is left out of the answer.
ReadDwellCount(c) ==
    /\ CallGoto(c, "dwellCount", "dwellSum")
    /\ \E z \in HalfRead(c) :
         LET n == dwellCount[metrics[c].store][z] IN
         Found(c, [metrics[c] EXCEPT
                     !.dwell[z] = IF n = 0 THEN NoAverage ELSE [@ EXCEPT !.count = n]])
    /\ UNCHANGED zonesLeft

\* If no zone has an average, the stored events are asked.
AverageDwells(c) ==
    LET dwells(z) == {e \in StoredIn(metrics[c].store, {"ZONE_DWELL"}) : e.zone = z /\ ~e.staff} IN
    /\ CallGoto(c, "dwellSum", "abandon")
    /\ zonesLeft[c] = {}
    /\ Found(c, IF \E z \in Zones : metrics[c].dwell[z].count > 0 THEN metrics[c]
                ELSE [metrics[c] EXCEPT !.dwell =
                        [z \in Zones |-> [sum |-> MapThenSumSet(LAMBDA e : e.dwell, dwells(z)),
                                          count |-> Cardinality(dwells(z))]]])
    /\ UNCHANGED zonesLeft

CountAbandons(c) ==
    LET customers(type) == {e \in StoredIn(metrics[c].store, {type}) : ~e.staff} IN
    /\ CallGoto(c, "abandon", "ts")
    /\ Found(c, [metrics[c] EXCEPT !.abandons = Cardinality(customers("BILLING_QUEUE_ABANDON")),
                                   !.joins = Cardinality(customers("BILLING_QUEUE_JOIN"))])
    /\ UNCHANGED zonesLeft

\* Mutant: a store without a last event is said to have one now.
ReadLastEventOrNow(c) ==
    LET ts == lastEventTs[metrics[c].store] IN
    /\ CallGoto(c, "ts", "metrics")
    /\ Found(c, [metrics[c] EXCEPT !.ts = IF ts = NoTime THEN now ELSE ts])
    /\ UNCHANGED zonesLeft

ReadLastEvent(c) ==
    LET ts == lastEventTs[metrics[c].store] IN
    /\ CallGoto(c, "ts", IF ts = NoTime THEN "lastTs" ELSE "metrics")
    /\ Found(c, [metrics[c] EXCEPT !.ts = ts])
    /\ UNCHANGED zonesLeft

ReadLastStored(c) ==
    /\ CallGoto(c, "lastTs", "metrics")
    /\ Found(c, [metrics[c] EXCEPT !.ts = Latest(StoredIn(metrics[c].store, EventTypes))])
    /\ UNCHANGED zonesLeft

Funnels(c, s) ==
    LET with(P(_)) == Cardinality({v \in CustomersOf(s) : P(sessions[v])}) IN
    /\ CallGoto(c, "idle", "funnel")
    /\ funnel' = [funnel EXCEPT ![c] =
                    [entry |-> Cardinality(CustomersOf(s)),
                     zoneVisit |-> with(LAMBDA row : row.zones # {}),
                     billing |-> with(LAMBDA row : row.billing),
                     purchase |-> with(LAMBDA row : row.converted)]]
    /\ UNCHANGED <<metrics, health, scan, zonesLeft>>

\* Either service may be down: then the call goes on without its part.
HealthFromDb(c) ==
    /\ CallGoto(c, "idle", "redisHealth")
    /\ \/ health' = [health EXCEPT ![c] = [s \in Stores |-> Latest(StoredIn(s, EventTypes))]]
       \/ UNCHANGED health
    /\ scan' = [scan EXCEPT ![c] = [NoScan EXCEPT !.left = Stores]]
    /\ UNCHANGED <<metrics, funnel, zonesLeft>>

HealthFromRedis(c) ==
    /\ rpc[c] = "redisHealth"
    /\ \E s \in scan[c].left :
         scan' = [scan EXCEPT ![c] = [left |-> scan[c].left \ {s},
                                      found |-> [scan[c].found EXCEPT ![s] = lastEventTs[s]]]]
    /\ UNCHANGED <<rpc, metrics, funnel, health, zonesLeft>>

\* A key that was found replaces what the database said, whichever is newer; a
\* scan that failed replaces nothing.
HealthAnswered(c) ==
    /\ CallGoto(c, "redisHealth", "health")
    /\ \/ /\ scan[c].left = {}
          /\ health' = [health EXCEPT ![c] =
               [s \in Stores |-> IF scan[c].found[s] = NoTime THEN @[s] ELSE scan[c].found[s]]]
       \/ UNCHANGED health
    /\ scan' = [scan EXCEPT ![c] = NoScan]
    /\ UNCHANGED <<metrics, funnel, zonesLeft>>

Call(c) ==
    \/ \E s \in Stores : CountSessions(c, s) \/ Funnels(c, s)
    \/ CountEntries(c)
    \/ ReadQueue(c)
    \/ ReadLastJoin(c)
    \/ ScanZones(c)
    \/ ReadDwellSum(c)
    \/ ReadDwellCount(c)
    \/ AverageDwells(c)
    \/ CountAbandons(c)
    \/ ReadLastEvent(c)
    \/ ReadLastStored(c)
    \/ HealthFromDb(c)
    \/ HealthFromRedis(c)
    \/ HealthAnswered(c)

ReadersNext ==
    \/ \E c \in Calls : Call(c) /\ UNCHANGED apiVars
    \/ ApiNext /\ UNCHANGED readerVars

ReadersSpec == ReadersInit /\ [][ReadersNext]_<<apiVars, readerVars>>

-----------------------------------------------------------------------------
\* Properties.

\* Type correctness of the calls, and when they fall back on the events: a depth
\* is replaced, or a number of visitors, only where there was none.
ReadersTypeOK ==
    /\ rpc \in [Calls -> RPCs]
    /\ metrics \in [Calls -> Metrics]
    /\ funnel \in [Calls -> Funnel]
    /\ health \in [Calls -> [Stores -> Nat]]
    /\ scan \in [Calls -> [left : SUBSET Stores, found : [Stores -> Nat]]]
    /\ zonesLeft \in [Calls -> SUBSET Zones]
    /\ \A c \in Calls :
         /\ rpc[c] = "entries" => metrics[c].visitors = 0
         /\ rpc[c] = "lastJoin" => metrics[c].depth = 0
         /\ rpc[c] = "lastTs" => metrics[c].ts = NoTime
         /\ zonesLeft[c] # {} => rpc[c] \in {"dwellSum", "dwellCount"}
         /\ scan[c].left # {} => rpc[c] = "redisHealth"

\* visitor_count never exceeds the customers that stored events speak of, be it
\* taken from the sessions or, before there are any, from the events: neither a
\* repeated ENTRY nor one of staff adds to it.
VisitorsNotInflated ==
    \A c \in Calls : metrics[c].visitors <=
        Cardinality({e.vid : e \in {f \in StoredIn(metrics[c].store, {"ENTRY", "REENTRY"}) :
                                      ~f.staff}})

\* Nobody buys in the funnel who did not reach billing, and nobody reaches it
\* who did not come in: what loads and requests leave in the rows adds up in
\* every single statement.
FunnelNarrows ==
    \A c \in Calls : /\ funnel[c].purchase <= funnel[c].billing
                     /\ funnel[c].billing <= funnel[c].entry
                     /\ funnel[c].zoneVisit <= funnel[c].entry

\* The last_event of the metrics and of /health is the time of an event that is
\* in the table, whichever of Redis and PostgreSQL it was taken from.
LastEventStored ==
    \A c \in Calls :
        /\ metrics[c].ts # NoTime =>
             \E e \in StoredIn(metrics[c].store, EventTypes) : e.ts = metrics[c].ts
        /\ \A s \in Stores : health[c][s] # NoTime =>
             \E e \in StoredIn(s, EventTypes) : e.ts = health[c][s]

\* The average dwell of a zone is a sum read before its count, of counters that
\* pipelines write one after the other: the sum may hold more dwells than the
\* count, but never more than one for each request.
LongestDwell == CHOOSE d \in {e.dwell : e \in Events} : \A e \in Events : e.dwell <= d

DwellDriftBounded ==
    \A c \in Calls : \A z \in Zones :
        LET avg == metrics[c].dwell[z] IN
        avg.count > 0 => avg.sum <= (avg.count + Cardinality(Requests)) * LongestDwell

\* A queue that is reported was joined: no depth, from Redis or from the table,
\* exceeds what some stored queue join said, though exits are subtracted from it
\* by looks and commands that others get between.
QueueDepthWitnessed ==
    \A c \in Calls : metrics[c].depth > 0 =>
        \E e \in StoredIn(metrics[c].store, {"BILLING_QUEUE_JOIN"}) : e.depth >= metrics[c].depth

=============================================================================
