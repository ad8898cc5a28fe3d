------------------------------ MODULE Insights ------------------------------
(***************************************************************************)
(* The endpoints that judge a store: GET /stores/{id}/heatmap              *)
(* (app/routers/heatmap.py), two statements and arithmetic, and GET        *)
(* /stores/{id}/anomalies (anomalies.py), a key of Redis and up to five    *)
(* statements of one transaction.  Each statement sees what is committed   *)
(* when it starts, but NOW() is for all of them the time of the first.     *)
(***************************************************************************)
EXTENDS Readers

CONSTANTS
    KnownZones,     \* the zones of the store's layout
    Enough,         \* 20 sessions
    Long, VeryLong, \* queues of 5 and 8
    Recent,         \* 30 minutes
    Week,           \* 7 days
    Day             \* 24 hours

ASSUME InsightsAssumption ==
    /\ KnownZones \subseteq Zones
    /\ {Enough, Long, VeryLong, Recent, Week} \subseteq Nat
    /\ Day \in Nat \ {0}
    /\ Long <= VeryLong

VARIABLES
    heatmap,        \* the answer of a heatmap call
    alarms          \* what an anomalies call has found out so far

insightVars == <<heatmap, alarms>>

\* What the calls of Readers hold.
heldVars == <<metrics, funnel, health, scan, zonesLeft>>

Heatmap == [store : Stores, scores : [Zones -> Nat], confidence : {"LOW", "HIGH"}]

Share == [sessions : Nat, converted : Nat]

Alarms ==
    [store : Stores, depth : Int, queue : {"none", "WARN", "CRITICAL"}, at : Nat,
     today : Share, conversion : {"none", "drop", "unavailable"}, dead : SUBSET Zones]

NoHeatmap(s) == [store |-> s, scores |-> [z \in Zones |-> 0], confidence |-> "LOW"]
NoAlarms(s) ==
    [store |-> s, depth |-> 0, queue |-> "none", at |-> NoTime,
     today |-> [sessions |-> 0, converted |-> 0], conversion |-> "none", dead |-> {}]

InsightsInit ==
    /\ ReadersInit
    /\ heatmap = [c \in Calls |-> NoHeatmap(CHOOSE s \in Stores : TRUE)]
    /\ alarms = [c \in Calls |-> NoAlarms(CHOOSE s \in Stores : TRUE)]

-----------------------------------------------------------------------------
\* Visits of a store's customers to a zone.
Visits(s, z) == {e \in StoredIn(s, {"ZONE_ENTER", "ZONE_DWELL"}) : e.zone = z /\ ~e.staff}

\* round of Python: to the nearest integer, to the even one of two.
Round(n, d) ==
    LET q == n \div d
        r == n % d
    IN IF 2 * r > d \/ (2 * r = d /\ q % 2 = 1) THEN q + 1 ELSE q

AvgDwell(s, z) ==
    LET dwells == {e \in Visits(s, z) : e.type = "ZONE_DWELL"} IN
    IF dwells = {} THEN 0
    ELSE Round(MapThenSumSet(LAMBDA e : e.dwell, dwells), Cardinality(dwells))

Highest(f(_), Z) == LET N == {0} \cup {f(z) : z \in Z} IN CHOOSE n \in N : \A k \in N : k <= n

\* 0.7 of the visits and 0.3 of the dwell, each in percent of the highest; zones
\* the layout knows and zones only the events know.
ScoreAmong(s, z, all) ==
    LET visits(y) == Cardinality(Visits(s, y))
        dwell(y) == AvgDwell(s, y)
        maxVisits == Highest(visits, all)
        maxDwell == Highest(dwell, all)
    IN Round(70 * visits(z) * (IF maxDwell = 0 THEN 1 ELSE maxDwell)
               + 30 * dwell(z) * (IF maxVisits = 0 THEN 1 ELSE maxVisits),
             (IF maxDwell = 0 THEN 1 ELSE maxDwell) * (IF maxVisits = 0 THEN 1 ELSE maxVisits))

\* Mutant: the maxima are those of the zones of the layout.
ScoreAmongKnown(s, z) ==
    IF KnownZones = {} THEN 0 ELSE ScoreAmong(s, z, KnownZones)

NormalizedScore(s, z) ==
    ScoreAmong(s, z, KnownZones \cup {y \in Zones : Visits(s, y) # {}})

HeatFromEvents(c, s) ==
    /\ CallGoto(c, "idle", "sessionCount")
    /\ heatmap' = [heatmap EXCEPT ![c] =
         [NoHeatmap(s) EXCEPT !.scores = [z \in Zones |-> NormalizedScore(s, z)]]]
    /\ UNCHANGED <<heldVars, alarms>>

HeatConfidence(c) ==
    /\ CallGoto(c, "sessionCount", "answered")
    /\ heatmap' = [heatmap EXCEPT ![c].confidence =
         IF Cardinality(CustomersOf(heatmap[c].store)) < Enough THEN "LOW" ELSE "HIGH"]
    /\ UNCHANGED <<heldVars, alarms>>

-----------------------------------------------------------------------------
Noticed(c, a) ==
    /\ alarms' = [alarms EXCEPT ![c] = a]
    /\ UNCHANGED <<heldVars, heatmap>>

ReadCurrentQueue(c, s) ==
    /\ CallGoto(c, "idle", "avgQueue")
    /\ Noticed(c, [NoAlarms(s) EXCEPT !.depth = queueDepth[s]])

\* The first statement: its transaction's NOW().  The average of the week's queue
\* joins is a sum by a count.
JudgeQueue(c) ==
    LET a == alarms[c]
        joins == {e \in StoredIn(a.store, {"BILLING_QUEUE_JOIN"}) : e.depth > 0 /\ e.ts >= now - Week}
        total == MapThenSumSet(LAMBDA e : e.depth, joins)
    IN
    /\ CallGoto(c, "avgQueue", "today")
    /\ Noticed(c, [a EXCEPT
         !.at = now,
         !.queue = IF a.depth >= Long \/ (total > 0 /\ a.depth * Cardinality(joins) > 2 * total)
                   THEN IF a.depth >= VeryLong THEN "CRITICAL" ELSE "WARN"
                   ELSE "none"])

\* CURRENT_DATE; the clock starts with a day.
Midnight(t) == ((t - 1) \div Day) * Day + 1

ShareOf(s, Entered(_)) ==
    LET customers == {v \in CustomersOf(s) : Entered(sessions[v].entered)} IN
    [sessions |-> Cardinality(customers),
     converted |-> Cardinality({v \in customers : sessions[v].converted})]

CountToday(c) ==
    LET a == alarms[c] IN
    /\ CallGoto(c, "today", "baseline")
    /\ Noticed(c, [a EXCEPT !.today = ShareOf(a.store, LAMBDA t : t >= Midnight(a.at))])

\* today's rate < 0.7 * the baseline's.
JudgeConversion(c) ==
    LET a == alarms[c]
        base == ShareOf(a.store, LAMBDA t : t \in (Midnight(a.at) - Week)..(Midnight(a.at) - 1))
    IN
    /\ CallGoto(c, "baseline", "traffic")
    /\ Noticed(c, [a EXCEPT !.conversion =
         IF base.sessions = 0 THEN "unavailable"
         ELSE IF a.today.sessions > 0
                 /\ 10 * a.today.converted * base.sessions < 7 * base.converted * a.today.sessions
         THEN "drop" ELSE "none"])

CountTraffic(c) ==
    LET a == alarms[c] IN
    /\ CallGoto(c, "traffic",
         IF \E e \in StoredIn(a.store, EventTypes) : ~e.staff /\ e.ts >= a.at - Recent
         THEN "dead" ELSE "answered")
    /\ Noticed(c, a)

DeadAt(s, t) == {z \in Zones : Visits(s, z) # {} /\ Latest(Visits(s, z)) < t - Recent}

\* Mutant: each statement has a NOW() of its own.
FindDeadZonesNow(c) ==
    LET a == alarms[c] IN
    /\ CallGoto(c, "dead", "answered")
    /\ Noticed(c, [a EXCEPT !.dead = DeadAt(a.store, now)])

FindDeadZones(c) ==
    LET a == alarms[c] IN
    /\ CallGoto(c, "dead", "answered")
    /\ Noticed(c, [a EXCEPT !.dead = DeadAt(a.store, a.at)])

Insight(c) ==
    \/ \E s \in Stores : HeatFromEvents(c, s) \/ ReadCurrentQueue(c, s)
    \/ HeatConfidence(c)
    \/ JudgeQueue(c)
    \/ CountToday(c)
    \/ JudgeConversion(c)
    \/ CountTraffic(c)
    \/ FindDeadZones(c)

InsightsNext ==
    \/ \E c \in Calls : Insight(c) /\ UNCHANGED apiVars
    \/ ReadersNext /\ UNCHANGED insightVars

InsightsSpec == InsightsInit /\ [][InsightsNext]_<<apiVars, readerVars, insightVars>>

-----------------------------------------------------------------------------
\* Properties.

\* Type correctness; a zone's score is a percentage, and a store that has any
\* visitor in a zone has a zone of at least 70.
InsightsTypeOK ==
    /\ ReadersTypeOK
    /\ heatmap \in [Calls -> Heatmap]
    /\ alarms \in [Calls -> Alarms]
    /\ \A c \in Calls :
         LET scores == heatmap[c].scores IN
         /\ \A z \in Zones : scores[z] <= 100
         /\ (\E z \in Zones : scores[z] > 0) => \E z \in Zones : scores[z] >= 70

\* "Zone {zone} has no visits in the last 30 minutes while store traffic exists"
\* (anomalies.py:118): when a zone is called dead, there was recent traffic that
\* is not the zone's own, though visits are stored and time passes between the
\* statement that looks for traffic and the one that looks for dead zones.
DeadAmidTraffic ==
    \A c \in Calls : \A z \in alarms[c].dead :
        \E e \in StoredIn(alarms[c].store, EventTypes) :
            /\ ~e.staff
            /\ e.ts >= alarms[c].at - Recent
            /\ e \notin Visits(alarms[c].store, z)

=============================================================================
