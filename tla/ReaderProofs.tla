---------------------------- MODULE ReaderProofs -----------------------------
(***************************************************************************)
(* Theorems about what the endpoints answer while ingestion and POS        *)
(* loading go on, for every set of calls, events, transactions, visitors   *)
(* and stores.  They rest on what is true at every single moment of the    *)
(* rows and of Redis (Backed): each answer is put together from several    *)
(* moments, but the events table only grows, so that what had an event     *)
(* behind it when it was read still has it when it is answered.            *)
(***************************************************************************)
EXTENDS Insights, ApiProofs

\* An event of the table says that the row's visitor came in.
Known(v, row) ==
    row # NoRow =>
        \E e \in stored : /\ e.vid = v /\ IsEntry(e)
                          /\ e.store = row.store /\ e.staff = row.staff
RowsKnown ==
    \A v \in Visitors : /\ Known(v, sessions[v])
                        /\ \A c \in Clients : Known(v, dirty[c][v])

\* A converted session has reached billing.
PaidAtBilling == \A v \in Visitors : IsConverted(sessions[v]) => sessions[v].billing

\* Commands are sent for stored events only, depths for queue joins.
StagedStored ==
    \A r \in Requests :
        /\ pc[r] # "insert" => NewEvents(r) \subseteq stored
        /\ pc[r] # "redis" => staged[r] = {}
        /\ \A c \in staged[r] : c[2] = "setDepth" => IsJoin(batch[r][c[1]])

\* Among the events E there is one of store s at that time, or a queue as deep.
HasTime(E, s, t) == t # NoTime => \E e \in E : e.store = s /\ e.ts = t
HasDepth(E, s, d) == d > 0 => \E e \in E : e.store = s /\ IsJoin(e) /\ e.depth >= d

RedisStored ==
    \A s \in Stores : /\ HasTime(stored, s, lastEventTs[s])
                       /\ HasDepth(stored, s, queueDepth[s])

Backed == RowsKnown /\ PaidAtBilling /\ StagedStored /\ RedisStored

\* The customers that the events E speak of.
Came(E, s) ==
    {e.vid : e \in {f \in E : f.store = s /\ f.type \in {"ENTRY", "REENTRY"} /\ ~f.staff}}

MetricsFields ==
    {"store", "visitors", "conversions", "depth", "dwell", "abandons", "joins", "ts"}
AlarmsFields == {"store", "depth", "queue", "at", "today", "conversion", "dead"}

\* What a call has found out so far has an event in E behind it.
MetricsHonest(E, m) ==
    /\ m = [f \in MetricsFields |-> m[f]]
    /\ m.store \in Stores /\ m.visitors \in Nat
    /\ m.visitors <= Cardinality(Came(E, m.store))
    /\ HasDepth(E, m.store, m.depth)
    /\ HasTime(E, m.store, m.ts)

TimesHonest(E, h) ==
    h = [s \in Stores |-> h[s]] /\ \A s \in Stores : HasTime(E, s, h[s])

ScanHonest(E, n) == n = [left |-> n.left, found |-> n.found] /\ TimesHonest(E, n.found)

FunnelHonest(f) ==
    f.purchase <= f.billing /\ f.billing <= f.entry /\ f.zoneVisit <= f.entry

\* There was traffic at the store of an anomalies call, other than in zones Z.
TrafficBut(E, a, Z) ==
    \E e \in E :
        /\ e.store = a.store /\ ~e.staff /\ e.ts >= a.at - Recent
        /\ ~(IsZoneVisit(e) /\ e.zone \in Z)

AlarmsHonest(E, a, at) ==
    /\ a = [f \in AlarmsFields |-> a[f]]
    /\ a.store \in Stores /\ a.at \in Nat
    /\ at # "answered" => a.dead = {}
    /\ at = "dead" => TrafficBut(E, a, {})
    /\ \A z \in a.dead : TrafficBut(E, a, {z})

AnswersHonest ==
    /\ rpc = [c \in Calls |-> rpc[c]] /\ metrics = [c \in Calls |-> metrics[c]]
    /\ funnel = [c \in Calls |-> funnel[c]] /\ health = [c \in Calls |-> health[c]]
    /\ scan = [c \in Calls |-> scan[c]] /\ alarms = [c \in Calls |-> alarms[c]]
    /\ \A c \in Calls :
         /\ MetricsHonest(stored, metrics[c])
         /\ FunnelHonest(funnel[c])
         /\ TimesHonest(stored, health[c])
         /\ ScanHonest(stored, scan[c])
         /\ AlarmsHonest(stored, alarms[c], rpc[c])

-----------------------------------------------------------------------------
\* The latest of some stored events is one of them.

LEMMA HighestExists ==
    ASSUME NEW S, NEW m \in Nat, S \subseteq 0..m, S # {}
    PROVE  \E t \in S : \A u \in S : u <= t
<1> DEFINE R == OpToRel(<, Nat)
           D == {m - u : u \in S}
<1>1. D \subseteq Nat /\ D # {}
  <2>1. \A u \in S : m - u \in Nat
    OBVIOUS
  <2> QED
    BY <2>1
<1>2. IsWellFoundedOn(R, Nat)
  BY NatLessThanWellFounded
<1>3. PICK d \in D : \A y \in D : ~(<<y, d>> \in R)
  <2> HIDE DEF R, D
  <2> QED
    BY <1>1, <1>2, WFMin
<1>4. \A y \in D : ~(y < d)
  BY <1>1, <1>3 DEF OpToRel
<1>5. PICK t \in S : d = m - t
  OBVIOUS
<1>6. ASSUME NEW u \in S
      PROVE  u <= t
  <2>1. ~(m - u < m - t)
    BY <1>4, <1>5
  <2> QED
    BY <2>1
<1> QED
  BY <1>6

LEMMA LatestStored ==
    ASSUME NEW E, E \subseteq Event, E # {}
    PROVE  /\ \E e \in E : e.ts = Latest(E)
           /\ \A e \in E : e.ts <= Latest(E)
           /\ Latest(E) # NoTime
<1> DEFINE S == {e.ts : e \in E}
<1>1. S \subseteq 1..MaxTime /\ S \subseteq 0..MaxTime /\ S # {} /\ MaxTime \in Nat
  BY EventAssumption DEF Event
<1>2. PICK t \in S : \A u \in S : u <= t
  <2> HIDE DEF S
  <2> QED
    BY <1>1, HighestExists
<1>3. \A e \in E : e.ts <= t
  BY <1>2
<1>4. Latest(E) \in S /\ \A e \in E : e.ts <= Latest(E)
  BY <1>2, <1>3 DEF Latest
<1> QED
  BY <1>1, <1>4 DEF NoTime

LEMMA LatestTimeStored ==
    ASSUME TypeOK, NEW s \in Stores
    PROVE  HasTime(stored, s, Latest(StoredIn(s, EventTypes)))
<1>1. StoredIn(s, EventTypes) \subseteq Event
  BY EventAssumption DEF StoredIn, TypeOK
<1> QED
  BY <1>1, LatestStored DEF HasTime, Latest, StoredIn

-----------------------------------------------------------------------------
\* What holds of the rows and of Redis at every moment.

\* A statement of _update_sessions leaves a row of a visitor who is known.
LEMMA WrittenKnown ==
    ASSUME NEW row \in Row \cup {NoRow}, NEW e \in Event, NEW t \in Nat, e \in stored,
           TouchesSession(e), Known(e.vid, row)
    PROVE  Known(e.vid, Written(row, e, t))
<1>1. CASE row = NoRow
  BY <1>1 DEF Written, Known, Inserted
<1>2. CASE row # NoRow
  <2>1. /\ Upserted(row, e, t).store = row.store /\ Upserted(row, e, t).staff = row.staff
        /\ Exited(row, e, t).store = row.store /\ Exited(row, e, t).staff = row.staff
        /\ ZoneSeen(row, e, t).store = row.store /\ ZoneSeen(row, e, t).staff = row.staff
        /\ QueueJoined(row, e).store = row.store /\ QueueJoined(row, e).staff = row.staff
    BY <1>2 DEF Upserted, Exited, ZoneSeen, QueueJoined, Row
  <2>2. \/ Written(row, e, t) = Upserted(row, e, t)
        \/ Written(row, e, t) = Exited(row, e, t)
        \/ Written(row, e, t) = ZoneSeen(row, e, t)
        \/ Written(row, e, t) = QueueJoined(row, e)
    BY <1>2 DEF Written, TouchesSession, IsZoneVisit, IsJoin
  <2> QED
    BY <1>2, <2>1, <2>2 DEF Known
<1> QED
  BY <1>1, <1>2

\* Rows stay known if each is as it was, or somebody's, or none.
LEMMA KnownFrame ==
    ASSUME RowsKnown, stored \subseteq stored',
           \A v \in Visitors :
               \/ sessions'[v] = sessions[v]
               \/ \E c \in Clients : sessions'[v] = dirty[c][v],
           \A c \in Clients, v \in Visitors :
               dirty'[c][v] = dirty[c][v] \/ dirty'[c][v] = NoRow
    PROVE  RowsKnown'
<1>1. ASSUME NEW v \in Visitors, NEW row, Known(v, row)
      PROVE  Known(v, row)'
  BY <1>1 DEF Known
<1> QED
  BY <1>1 DEF RowsKnown, Known

LEMMA CommitKnown ==
    ASSUME SessionsTypeOK, RowsKnown, NEW c \in Clients, UNCHANGED stored,
           CommitRows(c) \/ RollbackRows(c)
    PROVE  RowsKnown'
<1>1. \A d \in Clients, v \in Visitors : dirty'[d][v] = dirty[d][v] \/ dirty'[d][v] = NoRow
  BY DEF CommitRows, RollbackRows, NoRows, SessionsTypeOK
<1>2. \A v \in Visitors : sessions'[v] \in {sessions[v], dirty[c][v]}
  BY DEF CommitRows, RollbackRows, OwnRow
<1> QED
  BY <1>1, <1>2, KnownFrame

\* A request handles events that are stored before it writes rows.
LEMMA RequestKnown ==
    ASSUME TypeOK, Kept, RowsKnown, StagedStored, NEW r \in Requests, RequestStep(r)
    PROVE  RowsKnown' /\ stored \subseteq stored'
<1>1. SessionsTypeOK /\ r \in Clients
  BY IngestionAssumption DEF TypeOK
<1>2. CASE UpdateSession(r)
  <2>1. PICK i \in left[r] : SessionStatement(r, batch[r][i])
    BY <1>2 DEF UpdateSession
  <2>2. pc[r] = "sessions" /\ UNCHANGED stored
    BY <1>2 DEF UpdateSession
  <2> DEFINE e == batch[r][i]
  <2>3. i \in new[r] /\ e \in Event /\ e.vid \in Visitors /\ e \in stored
    <3>1. i \in new[r] /\ i \in DOMAIN batch[r]
      BY <2>2 DEF Kept, TypeOK, RequestsTypeOK
    <3>2. e \in NewEvents(r)
      BY <3>1 DEF NewEvents, EventsAt
    <3> QED
      BY <2>2, <3>1, <3>2, IndexedEvent DEF StagedStored, Event
  <2> HIDE DEF e
  <2>4. CASE ~TouchesSession(e)
    <3>1. UNCHANGED <<sessions, dirty>>
      BY <2>1, <2>4 DEF SessionStatement, sessionVars, e
    <3> QED
      BY <2>2, <3>1, KnownFrame
  <2>5. CASE TouchesSession(e)
    <3>1. /\ dirty' = [dirty EXCEPT ![r][e.vid] = Written(OwnRow(r, e.vid), e, TxNow(r))]
          /\ UNCHANGED sessions
      BY <2>1, <2>5 DEF SessionStatement, e
    <3>2. OwnRow(r, e.vid) \in Row \cup {NoRow} /\ TxNow(r) \in Nat
      BY <1>1, <2>3 DEF OwnRow, TxNow, SessionsTypeOK
    <3>3. Known(e.vid, OwnRow(r, e.vid))
      BY <1>1, <2>3 DEF RowsKnown, OwnRow
    <3>4. Known(e.vid, Written(OwnRow(r, e.vid), e, TxNow(r)))
      BY <2>3, <2>5, <3>2, <3>3, WrittenKnown
    <3>5. \A c \in Clients, v \in Visitors :
            dirty'[c][v] = IF c = r /\ v = e.vid
                           THEN Written(OwnRow(r, e.vid), e, TxNow(r)) ELSE dirty[c][v]
      BY <1>1, <2>3, <3>1 DEF SessionsTypeOK
    <3> QED
      BY <2>2, <3>1, <3>4, <3>5 DEF RowsKnown, Known
  <2> QED
    BY <2>2, <2>4, <2>5
<1>3. CASE CommitSessions(r)
  BY <1>1, <1>3, CommitKnown DEF CommitSessions
<1>4. CASE Abort(r)
  BY <1>1, <1>4, CommitKnown DEF Abort
<1>5. CASE CommitEvents(r)
  <2>1. stored \subseteq stored' /\ UNCHANGED <<sessions, dirty>>
    BY <1>5 DEF CommitEvents, sessionVars
  <2> QED
    BY <2>1, KnownFrame
<1>6. CASE \/ Arrive(r) \/ SkipPublish(r) \/ InsertEvent(r) \/ LookAtQueue(r)
           \/ RedisCommand(r) \/ PipelineDone(r)
           \/ \E s \in Stores : ReadVisitors(r, s)
           \/ ReadDepth(r) \/ ReadConversions(r) \/ ReadTs(r) \/ Publish(r) \/ Respond(r)
  <2>1. UNCHANGED <<sessions, dirty, stored>>
    BY <1>6 DEF Arrive, Refuse, RefuseLong, Receive, SkipPublish, InsertEvent, LookAtQueue,
       RedisCommand, PipelineDone, ReadVisitors, ReadDepth, ReadConversions, ReadTs,
       ReadField, Publish, Respond, sessionVars
  <2> QED
    BY <2>1, KnownFrame
<1> QED
  BY <1>2, <1>3, <1>4, <1>5, <1>6 DEF RequestStep, Advance

\* A load converts rows that are there.
LEMMA LoadKnown ==
    ASSUME TypeOK, LoadsTypeOK, RowsKnown, NEW l \in Loads, LoadStep(l), UNCHANGED stored
    PROVE  RowsKnown'
<1>1. SessionsTypeOK /\ l \in Clients
  BY ApiAssumption DEF TypeOK
<1>2. CASE CommitConversions(l)
  BY <1>1, <1>2, CommitKnown DEF CommitConversions
<1>3. CASE AbortLoad(l) \/ FailLoad(l)
  BY <1>1, <1>3, CommitKnown DEF FailLoad, AbortLoad
<1>4. ASSUME NEW v \in Visitors, ConvertRow(l, v)
      PROVE  RowsKnown'
  <2> DEFINE row == OwnRow(l, v)
             after == Converted(row, txStart[l])
  <2>1. CASE ~Matches(row, payload[l][current[l]])
    <3>1. UNCHANGED <<sessions, dirty>>
      BY <1>4, <2>1 DEF ConvertRow
    <3> QED
      BY <3>1, KnownFrame
  <2>2. CASE Matches(row, payload[l][current[l]])
    <3>1. UNCHANGED sessions /\ dirty' = [dirty EXCEPT ![l][v] = after]
      BY <1>4, <2>2 DEF ConvertRow
    <3>2. row \in Row /\ row # NoRow
      BY <1>1, <2>2 DEF OwnRow, SessionsTypeOK, Matches
    <3>3. after.store = row.store /\ after.staff = row.staff
      BY <3>2 DEF Converted, Row
    <3>4. Known(v, row)
      BY <1>1 DEF RowsKnown, OwnRow
    <3>5. \A c \in Clients, w \in Visitors :
            dirty'[c][w] = IF c = l /\ w = v THEN after ELSE dirty[c][w]
      BY <1>1, <3>1 DEF SessionsTypeOK
    <3> HIDE DEF row, after
    <3> QED
      BY <3>1, <3>2, <3>3, <3>4, <3>5 DEF RowsKnown, Known
  <2> QED
    BY <2>1, <2>2
<1>5. CASE \/ LoadNothing(l) \/ (\E p \in Payloads : ReceiveLoad(l, p))
           \/ InsertTransaction(l) \/ CommitTransactions(l) \/ BeginUpdate(l) \/ EndUpdate(l)
           \/ (\E s \in Stores : CountStore(l, s)) \/ SetCount(l) \/ AnswerLoad(l)
  <2>1. UNCHANGED <<sessions, dirty>>
    BY <1>5 DEF LoadNothing, ReceiveLoad, InsertTransaction, CommitTransactions,
       BeginUpdate, EndUpdate, CountStore, SetCount, AnswerLoad, sessionVars
  <2> QED
    BY <2>1, KnownFrame
<1> QED
  BY <1>2, <1>3, <1>4, <1>5 DEF LoadStep, AdvanceLoad

\* More events back as much.
LEMMA BackedByMore ==
    ASSUME NEW E, NEW F, E \subseteq F, NEW s, NEW n
    PROVE  /\ HasTime(E, s, n) => HasTime(F, s, n)
           /\ HasDepth(E, s, n) => HasDepth(F, s, n)
  BY DEF HasTime, HasDepth

\* Steps that send nothing leave Redis backed.
LEMMA RedisFrame ==
    ASSUME RedisStored, stored \subseteq stored', UNCHANGED <<lastEventTs, queueDepth>>
    PROVE  RedisStored'
  BY BackedByMore DEF RedisStored

\* What a request sends to Redis comes from events it has stored.
LEMMA RequestRedis ==
    ASSUME TypeOK, Kept, StagedStored, RedisStored, NEW r \in Requests, RequestStep(r)
    PROVE  StagedStored' /\ RedisStored'
<1> USE DEF Goto
<1>1. RequestsTypeOK /\ pc \in [Requests -> PCs] /\ queueDepth \in [Stores -> Int]
      /\ lastEventTs \in [Stores -> Nat]
  BY DEF TypeOK, RequestsTypeOK, RedisTypeOK
\* Enough, if r alone moves on and nothing is sent.
<1>2. ASSUME stored \subseteq stored', UNCHANGED <<lastEventTs, queueDepth>>,
             \A q \in Requests \ {r} : /\ pc'[q] = pc[q] /\ new'[q] = new[q]
                                       /\ staged'[q] = staged[q] /\ batch'[q] = batch[q],
             pc'[r] # "insert" => NewEvents(r)' \subseteq stored',
             pc'[r] # "redis" => staged'[r] = {},
             \A c \in staged'[r] : c[2] = "setDepth" => IsJoin(batch'[r][c[1]])
      PROVE  StagedStored' /\ RedisStored'
  BY <1>2, RedisFrame DEF StagedStored, NewEvents, EventsAt
<1>3. CASE Arrive(r)
  <2>1. /\ UNCHANGED <<stored, new, staged, lastEventTs, queueDepth>>
        /\ new[r] = {} /\ staged[r] = {}
        /\ \A q \in Requests \ {r} : pc'[q] = pc[q] /\ batch'[q] = batch[q]
    BY <1>1, <1>3 DEF Arrive, Refuse, RefuseLong, Receive, Kept, RequestsTypeOK, redisVars,
       StagedStored
  <2> QED
    BY <1>2, <2>1 DEF NewEvents, EventsAt
<1>4. CASE InsertEvent(r)
  <2>1. /\ pc[r] = "insert" /\ staged[r] = {}
        /\ UNCHANGED <<pc, stored, batch, staged, lastEventTs, queueDepth>>
        /\ \A q \in Requests \ {r} : new'[q] = new[q]
    BY <1>1, <1>4 DEF InsertEvent, RequestsTypeOK, redisVars, StagedStored
  <2> QED
    BY <1>2, <2>1
<1>5. CASE CommitEvents(r)
  <2>1. /\ pc[r] = "insert" /\ stored' = stored \cup NewEvents(r) /\ staged[r] = {}
        /\ UNCHANGED <<batch, new, staged, lastEventTs, queueDepth>>
        /\ \A q \in Requests \ {r} : pc'[q] = pc[q]
    BY <1>1, <1>5 DEF CommitEvents, Pending, redisVars, StagedStored
  <2>2. NewEvents(r)' \subseteq stored'
    BY <2>1 DEF NewEvents, EventsAt
  <2> QED
    BY <1>2, <2>1, <2>2
<1>6. CASE CommitSessions(r)
  <2>1. /\ pc[r] = "sessions" /\ pc' = [pc EXCEPT ![r] = "redis"]
        /\ staged' = [staged EXCEPT ![r] =
             UNION {{<<i, op>> : op \in StagedOps(batch[r][i])} : i \in new[r]}]
        /\ UNCHANGED <<stored, batch, new, lastEventTs, queueDepth>>
    BY <1>6 DEF CommitSessions, redisVars
  <2>2. \A q \in Requests \ {r} : pc'[q] = pc[q] /\ staged'[q] = staged[q]
    BY <1>1, <2>1 DEF RequestsTypeOK
  <2>3. /\ pc'[r] = "redis"
        /\ staged'[r] = UNION {{<<i, op>> : op \in StagedOps(batch[r][i])} : i \in new[r]}
    BY <1>1, <2>1 DEF RequestsTypeOK
  <2>4. \A c \in staged'[r] : c[2] = "setDepth" => IsJoin(batch[r][c[1]])
    BY <2>3 DEF StagedOps, IsJoin
  <2>5. NewEvents(r)' \subseteq stored'
    BY <2>1 DEF StagedStored, NewEvents, EventsAt
  <2> QED
    BY <1>2, <2>1, <2>2, <2>3, <2>4, <2>5
<1>7. CASE LookAtQueue(r)
  <2>1. /\ pc[r] = "redis" /\ UNCHANGED <<stored, pc, batch, new, lastEventTs, queueDepth>>
    BY <1>7 DEF LookAtQueue, redisVars
  <2>2. PICK i \in left[r] : staged' = [staged EXCEPT ![r] =
                               IF queueDepth[batch[r][i].store] > 0
                               THEN @ \cup {<<i, "decrDepth">>} ELSE @]
    BY <1>7 DEF LookAtQueue
  <2>3. \A q \in Requests \ {r} : staged'[q] = staged[q]
    BY <1>1, <2>2 DEF RequestsTypeOK
  <2>4. \A c \in staged'[r] : c \in staged[r] \/ c = <<i, "decrDepth">>
    BY <1>1, <2>2 DEF RequestsTypeOK
  <2>5. \A c \in staged'[r] : c[2] = "setDepth" => IsJoin(batch[r][c[1]])
    BY <2>4 DEF StagedStored
  <2>6. NewEvents(r)' \subseteq stored'
    BY <2>1 DEF StagedStored, NewEvents, EventsAt
  <2> QED
    BY <1>2, <2>1, <2>3, <2>5, <2>6
<1>8. CASE RedisCommand(r)
  <2>1. PICK c \in staged[r] :
          /\ Execute(batch[r][c[1]], c[2])
          /\ staged' = [staged EXCEPT ![r] = @ \ {c}]
    BY <1>8 DEF RedisCommand
  <2>2. pc[r] = "redis" /\ UNCHANGED <<stored, pc, batch, new>>
    BY <1>8 DEF RedisCommand
  <2>3. \A q \in Requests : staged'[q] \subseteq staged[q]
    BY <1>1, <2>1 DEF RequestsTypeOK
  <2>4. StagedStored'
    BY <2>2, <2>3 DEF StagedStored, NewEvents, EventsAt
  <2> DEFINE e == batch[r][c[1]]
  <2>5. /\ e \in Event /\ e \in stored /\ e.store \in Stores
        /\ c[2] = "setDepth" => IsJoin(e)
    <3>1. c[1] \in new[r] /\ c[1] \in DOMAIN batch[r]
      BY <1>1 DEF RequestsTypeOK
    <3>2. e \in NewEvents(r)
      BY <3>1 DEF NewEvents, EventsAt
    <3> QED
      BY <2>2, <3>1, <3>2, IndexedEvent DEF StagedStored, Event
  <2>6. /\ lastEventTs' = IF c[2] = "ts" THEN [lastEventTs EXCEPT ![e.store] = e.ts]
                          ELSE lastEventTs
        /\ c[2] = "setDepth" => queueDepth' = [queueDepth EXCEPT ![e.store] = e.depth]
        /\ c[2] = "decrDepth" => queueDepth' = [queueDepth EXCEPT ![e.store] = @ + (-1)]
        /\ c[2] \notin {"setDepth", "decrDepth"} => queueDepth' = queueDepth
    BY <2>1 DEF Execute, Bump
  <2> HIDE DEF e
  <2>7. ASSUME NEW s \in Stores
        PROVE  HasTime(stored, s, lastEventTs'[s])
    <3>1. CASE c[2] = "ts" /\ s = e.store
      <4>1. lastEventTs'[s] = e.ts /\ e.store = s
        BY <1>1, <2>5, <2>6, <3>1 DEF Event
      <4> QED
        BY <2>5, <4>1 DEF HasTime
    <3>2. CASE ~(c[2] = "ts" /\ s = e.store)
      <4>1. lastEventTs'[s] = lastEventTs[s]
        BY <1>1, <2>5, <2>6, <3>2
      <4> QED
        BY <4>1 DEF RedisStored
    <3> QED
      BY <3>1, <3>2
  <2>8. ASSUME NEW s \in Stores
        PROVE  HasDepth(stored, s, queueDepth'[s])
    <3>1. CASE c[2] = "setDepth" /\ s = e.store
      <4>1. queueDepth'[s] = e.depth /\ e.store = s /\ IsJoin(e)
        BY <1>1, <2>5, <2>6, <3>1 DEF Event
      <4>2. e.depth \in Int
        BY <2>5, EventAssumption DEF Event
      <4> QED
        BY <2>5, <4>1, <4>2 DEF HasDepth
    <3>2. CASE c[2] = "decrDepth" /\ s = e.store
      <4>1. queueDepth'[s] = queueDepth[s] + (-1) /\ queueDepth[s] \in Int
        BY <1>1, <2>5, <2>6, <3>2
      <4>2. \A x \in stored : x.depth \in Int
        BY EventAssumption DEF TypeOK, Event
      <4>3. HasDepth(stored, s, queueDepth[s])
        BY DEF RedisStored
      <4> QED
        BY <4>1, <4>2, <4>3 DEF HasDepth
    <3>3. CASE c[2] \notin {"setDepth", "decrDepth"} \/ s # e.store
      <4>1. queueDepth'[s] = queueDepth[s]
        BY <1>1, <2>5, <2>6, <3>3
      <4> QED
        BY <4>1 DEF RedisStored
    <3> QED
      BY <3>1, <3>2, <3>3
  <2>9. RedisStored'
    BY <2>2, <2>7, <2>8 DEF RedisStored
  <2> QED
    BY <2>4, <2>9
<1>9. CASE Abort(r)
  <2>1. /\ UNCHANGED <<stored, batch, lastEventTs, queueDepth>>
        /\ new'[r] = {} /\ staged'[r] = {}
        /\ \A q \in Requests \ {r} : /\ pc'[q] = pc[q] /\ new'[q] = new[q]
                                     /\ staged'[q] = staged[q]
    BY <1>1, <1>9 DEF Abort, redisVars, RequestsTypeOK
  <2> QED
    BY <1>2, <2>1 DEF NewEvents, EventsAt
<1>10. CASE UpdateSession(r)
  <2>1. UNCHANGED <<stored, pc, batch, new, staged, lastEventTs, queueDepth>>
    BY <1>10 DEF UpdateSession, redisVars
  <2> QED
    BY <2>1, RedisFrame DEF StagedStored, NewEvents, EventsAt
<1>11. CASE \/ PipelineDone(r) \/ SkipPublish(r)
            \/ \E s \in Stores : ReadVisitors(r, s)
            \/ ReadDepth(r) \/ ReadConversions(r) \/ ReadTs(r) \/ Publish(r) \/ Respond(r)
  <2>1. /\ pc[r] # "insert" /\ pc'[r] \notin {"insert", "redis"} /\ staged[r] = {}
        /\ UNCHANGED <<stored, batch, new, staged, lastEventTs, queueDepth>>
        /\ \A q \in Requests \ {r} : pc'[q] = pc[q]
    BY <1>1, <1>11 DEF PipelineDone, SkipPublish, ReadVisitors, ReadDepth, ReadConversions,
       ReadTs, ReadField, Publish, Respond, redisVars, StagedStored
  <2>2. NewEvents(r)' \subseteq stored'
    BY <2>1 DEF StagedStored, NewEvents, EventsAt
  <2> QED
    BY <1>2, <2>1, <2>2
<1> QED
  BY <1>3, <1>4, <1>5, <1>6, <1>7, <1>8, <1>9, <1>10, <1>11 DEF RequestStep, Advance

\* Every step of the two writing endpoints leaves the rows and Redis backed, and
\* takes no event from the table.
LEMMA BackedStep ==
    ASSUME ApiInv, Backed, [ApiNext]_apiVars
    PROVE  Backed' /\ stored \subseteq stored'
<1>1. ApiInv' /\ SessionsProgress
  BY ApiInvStep
<1>2. TypeOK /\ Kept /\ LoadsTypeOK
  BY DEF ApiInv, ApiTypeOK
<1>3. PaidAtBilling'
  BY <1>1 DEF PaidAtBilling, SessionsProgress, Extends, IsConverted, Justified, Backed
<1>4. ASSUME NEW r \in Requests, RequestStep(r)
      PROVE  Backed' /\ stored \subseteq stored'
  BY <1>2, <1>3, <1>4, RequestKnown, RequestRedis DEF Backed
<1>5. ASSUME NEW l \in Loads, LoadStep(l), UNCHANGED <<ingestionVars, now>>
      PROVE  Backed' /\ stored \subseteq stored'
  <2>1. UNCHANGED <<stored, pc, batch, new, staged, lastEventTs, queueDepth>>
    BY <1>5 DEF ingestionVars, requestVars
  <2>2. RowsKnown'
    BY <1>2, <1>5, <2>1, LoadKnown DEF Backed
  <2> QED
    BY <1>3, <2>1, <2>2, RedisFrame DEF Backed, StagedStored, NewEvents, EventsAt
<1>6. CASE Tick \/ UNCHANGED apiVars
  <2>1. UNCHANGED <<stored, pc, batch, new, staged, lastEventTs, queueDepth, sessions, dirty>>
    BY <1>6 DEF Tick, apiVars, vars, ingestionVars, requestVars, redisVars, sessionVars
  <2> QED
    BY <1>3, <2>1, RedisFrame, KnownFrame DEF Backed, StagedStored, NewEvents, EventsAt
<1> QED
  BY <1>2, <1>4, <1>5, <1>6, ApiKinds

-----------------------------------------------------------------------------
\* The answers.

\* Visitors are finitely many, so more events never make fewer of them.
LEMMA CameMore ==
    ASSUME NEW E, NEW F, E \subseteq F, F \subseteq Event, NEW s
    PROVE  /\ Cardinality(Came(E, s)) <= Cardinality(Came(F, s))
           /\ Cardinality(Came(E, s)) \in Nat /\ Cardinality(Came(F, s)) \in Nat
           /\ IsFiniteSet(Came(F, s))
<1>1. Came(E, s) \subseteq Came(F, s) /\ Came(F, s) \subseteq Visitors
  BY DEF Came, Event
<1>2. IsFiniteSet(Came(F, s))
  BY <1>1, PosAssumption, FS_Subset
<1> QED
  BY <1>1, <1>2, FS_Subset, FS_CardinalityType

\* The calls stand still while the table of events grows.
LEMMA HonestFrame ==
    ASSUME AnswersHonest, stored \subseteq stored', stored' \subseteq Event,
           UNCHANGED <<readerVars, insightVars>>
    PROVE  AnswersHonest'
<1>1. UNCHANGED <<rpc, metrics, funnel, health, scan, alarms>>
  BY DEF readerVars, insightVars
<1>2. ASSUME NEW m, MetricsHonest(stored, m)
      PROVE  MetricsHonest(stored', m)
  BY <1>2, CameMore, BackedByMore DEF MetricsHonest
<1>3. ASSUME NEW h, TimesHonest(stored, h)
      PROVE  TimesHonest(stored', h)
  BY <1>3, BackedByMore DEF TimesHonest
<1>4. ASSUME NEW n, ScanHonest(stored, n)
      PROVE  ScanHonest(stored', n)
  BY <1>3, <1>4 DEF ScanHonest
<1>5. ASSUME NEW a, NEW at, AlarmsHonest(stored, a, at)
      PROVE  AlarmsHonest(stored', a, at)
  <2>1. \A Z : TrafficBut(stored, a, Z) => TrafficBut(stored', a, Z)
    BY DEF TrafficBut
  <2> QED
    BY <1>5, <2>1 DEF AlarmsHonest
<1> QED
  BY <1>1, <1>2, <1>3, <1>4, <1>5 DEF AnswersHonest

\* A call goes on, and what it has found out is honest.
LEMMA CallHonest ==
    ASSUME AnswersHonest, UNCHANGED stored, NEW c \in Calls, NEW to,
           rpc' = [rpc EXCEPT ![c] = to],
           NEW m, MetricsHonest(stored, m), metrics' = [metrics EXCEPT ![c] = m],
           NEW f, FunnelHonest(f), funnel' = [funnel EXCEPT ![c] = f],
           NEW h, TimesHonest(stored, h), health' = [health EXCEPT ![c] = h],
           NEW n, ScanHonest(stored, n), scan' = [scan EXCEPT ![c] = n],
           NEW a, AlarmsHonest(stored, a, to), alarms' = [alarms EXCEPT ![c] = a]
    PROVE  AnswersHonest'
  BY DEF AnswersHonest

\* The three ways a call of Readers or Insights goes on.
LEMMA FoundHonest ==
    ASSUME AnswersHonest, UNCHANGED stored, NEW c \in Calls, NEW from, NEW to, NEW m,
           CallGoto(c, from, to), from # "answered", to \notin {"answered", "dead"},
           Found(c, m), UNCHANGED insightVars, MetricsHonest(stored, m)
    PROVE  AnswersHonest'
<1>1. /\ rpc' = [rpc EXCEPT ![c] = to] /\ metrics' = [metrics EXCEPT ![c] = m]
      /\ funnel' = [funnel EXCEPT ![c] = funnel[c]]
      /\ health' = [health EXCEPT ![c] = health[c]]
      /\ scan' = [scan EXCEPT ![c] = scan[c]]
      /\ alarms' = [alarms EXCEPT ![c] = alarms[c]]
  BY DEF CallGoto, Found, insightVars, AnswersHonest
<1>2. /\ FunnelHonest(funnel[c]) /\ TimesHonest(stored, health[c])
      /\ ScanHonest(stored, scan[c]) /\ AlarmsHonest(stored, alarms[c], to)
  BY DEF CallGoto, AnswersHonest, AlarmsHonest
<1> QED
  BY <1>1, <1>2, CallHonest

LEMMA NoticedHonest ==
    ASSUME AnswersHonest, UNCHANGED stored, NEW c \in Calls, NEW from, NEW to, NEW a,
           CallGoto(c, from, to), Noticed(c, a), AlarmsHonest(stored, a, to)
    PROVE  AnswersHonest'
<1>1. /\ rpc' = [rpc EXCEPT ![c] = to] /\ metrics' = [metrics EXCEPT ![c] = metrics[c]]
      /\ funnel' = [funnel EXCEPT ![c] = funnel[c]]
      /\ health' = [health EXCEPT ![c] = health[c]]
      /\ scan' = [scan EXCEPT ![c] = scan[c]]
      /\ alarms' = [alarms EXCEPT ![c] = a]
  BY DEF CallGoto, Noticed, heldVars, AnswersHonest
<1>2. /\ MetricsHonest(stored, metrics[c]) /\ FunnelHonest(funnel[c])
      /\ TimesHonest(stored, health[c]) /\ ScanHonest(stored, scan[c])
  BY DEF AnswersHonest
<1> QED
  BY <1>1, <1>2, CallHonest

LEMMA HealthHonest ==
    ASSUME AnswersHonest, UNCHANGED <<stored, metrics, funnel, insightVars>>,
           NEW c \in Calls, NEW to,
           rpc[c] \in {"idle", "redisHealth"}, to \in {"redisHealth", "health"},
           rpc' = [rpc EXCEPT ![c] = to],
           NEW h, TimesHonest(stored, h), health' = [health EXCEPT ![c] = h],
           NEW n, ScanHonest(stored, n), scan' = [scan EXCEPT ![c] = n]
    PROVE  AnswersHonest'
<1>1. /\ metrics' = [metrics EXCEPT ![c] = metrics[c]]
      /\ funnel' = [funnel EXCEPT ![c] = funnel[c]]
      /\ alarms' = [alarms EXCEPT ![c] = alarms[c]]
  BY DEF insightVars, AnswersHonest
<1>2. /\ MetricsHonest(stored, metrics[c]) /\ FunnelHonest(funnel[c])
      /\ AlarmsHonest(stored, alarms[c], to)
  BY DEF AnswersHonest, AlarmsHonest
<1> QED
  BY <1>1, <1>2, CallHonest

\* The sessions of customers belong to visitors that events speak of.
LEMMA CustomersCame ==
    ASSUME TypeOK, RowsKnown, NEW s \in Stores
    PROVE  /\ IsFiniteSet(CustomersOf(s)) /\ Cardinality(CustomersOf(s)) \in Nat
           /\ Cardinality(CustomersOf(s)) <= Cardinality(Came(stored, s))
<1>1. CustomersOf(s) \subseteq Came(stored, s)
  <2>1. ASSUME NEW v \in CustomersOf(s)
        PROVE  v \in Came(stored, s)
    <3>1. PICK e \in stored : /\ e.vid = v /\ IsEntry(e)
                              /\ e.store = s /\ ~e.staff
      BY <2>1 DEF CustomersOf, RowsKnown, Known
    <3> QED
      BY <3>1 DEF Came, IsEntry
  <2> QED
    BY <2>1
<1>2. stored \subseteq Event
  BY EventAssumption DEF TypeOK
<1> QED
  BY <1>1, <1>2, CameMore, FS_Subset, FS_CardinalityType

\* The counts of a funnel narrow, whatever the moment they are taken at.
LEMMA FunnelCounts ==
    ASSUME TypeOK, RowsKnown, PaidAtBilling, NEW s \in Stores
    PROVE  LET with(P(_)) == Cardinality({v \in CustomersOf(s) : P(sessions[v])}) IN
           FunnelHonest([entry |-> Cardinality(CustomersOf(s)),
                         zoneVisit |-> with(LAMBDA row : row.zones # {}),
                         billing |-> with(LAMBDA row : row.billing),
                         purchase |-> with(LAMBDA row : row.converted)])
<1> DEFINE C == CustomersOf(s)
           Z == {v \in C : sessions[v].zones # {}}
           B == {v \in C : sessions[v].billing}
           P == {v \in C : sessions[v].converted}
<1>1. IsFiniteSet(C)
  BY CustomersCame
<1>2. P \subseteq B
  BY DEF PaidAtBilling, IsConverted, CustomersOf
<1>3. IsFiniteSet(B) /\ Cardinality(B) <= Cardinality(C) /\ Cardinality(Z) <= Cardinality(C)
  BY <1>1, FS_Subset
<1>4. Cardinality(P) <= Cardinality(B)
  BY <1>2, <1>3, FS_Subset
<1> QED
  BY <1>3, <1>4 DEF FunnelHonest

\* A metrics call keeps what it knows when it learns about something else.
LEMMA MetricsKept ==
    ASSUME NEW E, NEW m, MetricsHonest(E, m)
    PROVE  /\ \A x : MetricsHonest(E, [m EXCEPT !.dwell = x])
           /\ \A x, y : MetricsHonest(E, [m EXCEPT !.abandons = x, !.joins = y])
           /\ \A d : HasDepth(E, m.store, d) => MetricsHonest(E, [m EXCEPT !.depth = d])
           /\ \A t : HasTime(E, m.store, t) => MetricsHonest(E, [m EXCEPT !.ts = t])
           /\ \A n \in Nat : n <= Cardinality(Came(E, m.store)) =>
                               MetricsHonest(E, [m EXCEPT !.visitors = n])
<1>1. ASSUME NEW n, n = [f \in MetricsFields |-> n[f]], n.store = m.store,
             n.visitors \in Nat, n.visitors <= Cardinality(Came(E, m.store)),
             HasDepth(E, m.store, n.depth), HasTime(E, m.store, n.ts)
      PROVE  MetricsHonest(E, n)
  BY <1>1 DEF MetricsHonest
<1>2. /\ m = [f \in MetricsFields |-> m[f]] /\ m.store \in Stores
      /\ m.visitors \in Nat /\ m.visitors <= Cardinality(Came(E, m.store))
      /\ HasDepth(E, m.store, m.depth) /\ HasTime(E, m.store, m.ts)
  BY DEF MetricsHonest
<1>3. ASSUME NEW x, NEW y
      PROVE  MetricsHonest(E, [m EXCEPT !.abandons = x, !.joins = y])
  <2> DEFINE n == [m EXCEPT !.abandons = x, !.joins = y]
  <2>1. /\ n = [f \in MetricsFields |-> n[f]] /\ n.store = m.store
        /\ n.visitors = m.visitors /\ n.depth = m.depth /\ n.ts = m.ts
    BY <1>2 DEF MetricsFields
  <2> HIDE DEF n
  <2>2. MetricsHonest(E, n)
    BY <1>1, <1>2, <2>1
  <2> QED
    BY <2>2 DEF n
<1>4. ASSUME NEW x, NEW k \in {"dwell", "depth", "ts", "visitors"},
             k = "depth" => HasDepth(E, m.store, x),
             k = "ts" => HasTime(E, m.store, x),
             k = "visitors" => x \in Nat /\ x <= Cardinality(Came(E, m.store))
      PROVE  MetricsHonest(E, [m EXCEPT ![k] = x])
  <2> DEFINE n == [m EXCEPT ![k] = x]
  <2>1. /\ n = [f \in MetricsFields |-> n[f]] /\ n.store = m.store
        /\ n.visitors = IF k = "visitors" THEN x ELSE m.visitors
        /\ n.depth = IF k = "depth" THEN x ELSE m.depth
        /\ n.ts = IF k = "ts" THEN x ELSE m.ts
    BY <1>2 DEF MetricsFields
  <2> HIDE DEF n
  <2>2. MetricsHonest(E, n)
    BY <1>1, <1>2, <1>4, <2>1
  <2> QED
    BY <2>2 DEF n
<1> QED
  BY <1>3, <1>4

\* What the endpoints of Readers find out is honest.
LEMMA CallStep ==
    ASSUME TypeOK, Backed, AnswersHonest, NEW c \in Calls, Call(c),
           UNCHANGED <<apiVars, insightVars>>
    PROVE  AnswersHonest'
<1>1. /\ UNCHANGED stored /\ stored \subseteq Event
      /\ metrics = [k \in Calls |-> metrics[k]] /\ MetricsHonest(stored, metrics[c])
      /\ metrics[c].store \in Stores
  BY EventAssumption DEF apiVars, vars, TypeOK, AnswersHonest, MetricsHonest
<1>2. ASSUME NEW from, NEW to, CallGoto(c, from, to), from # "answered",
             to \notin {"answered", "dead"}, UNCHANGED <<metrics, funnel, health, scan>>
      PROVE  AnswersHonest'
  <2>1. Found(c, metrics[c])
    BY <1>1, <1>2 DEF Found
  <2> QED
    BY <1>1, <1>2, <2>1, FoundHonest
<1>3. ASSUME NEW s \in Stores, CountSessions(c, s)
      PROVE  AnswersHonest'
  <2> DEFINE n == Cardinality(CustomersOf(s))
             k == Cardinality({v \in CustomersOf(s) : sessions[v].converted})
             to == IF n = 0 THEN "entries" ELSE "queue"
             m == [NoMetrics(s) EXCEPT !.visitors = n, !.conversions = k]
  <2>1. CallGoto(c, "idle", to) /\ Found(c, m) /\ to \notin {"answered", "dead"}
    BY <1>3 DEF CountSessions
  <2>2. n \in Nat /\ n <= Cardinality(Came(stored, s))
    BY CustomersCame DEF Backed
  <2>3. MetricsHonest(stored, m)
    <3> HIDE DEF n, k
    <3>1. /\ m = [f \in MetricsFields |-> m[f]] /\ m.store = s
          /\ m.visitors = n /\ m.depth = 0 /\ m.ts = NoTime
      BY DEF NoMetrics, MetricsFields
    <3> HIDE DEF m
    <3> QED
      BY <2>2, <3>1 DEF MetricsHonest, HasDepth, HasTime
  <2> HIDE DEF m, to
  <2> QED
    BY <1>1, <2>1, <2>3, FoundHonest
<1>4. CASE CountEntries(c)
  <2> DEFINE V == {e.vid : e \in {f \in StoredIn(metrics[c].store, {"ENTRY"}) : ~f.staff}}
             m == [metrics[c] EXCEPT !.visitors = Cardinality(V)]
  <2>1. CallGoto(c, "entries", "queue") /\ Found(c, m)
    BY <1>4 DEF CountEntries
  <2>2. V \subseteq Came(stored, metrics[c].store)
    BY DEF StoredIn, Came
  <2>3. Cardinality(V) \in Nat /\ Cardinality(V) <= Cardinality(Came(stored, metrics[c].store))
    BY <1>1, <2>2, CameMore, FS_Subset, FS_CardinalityType
  <2>4. MetricsHonest(stored, m)
    BY <1>1, <2>3, MetricsKept
  <2> HIDE DEF m
  <2> QED
    BY <1>1, <2>1, <2>4, FoundHonest
<1>5. CASE ReadQueue(c)
  <2> DEFINE d == queueDepth[metrics[c].store]
             to == IF d = 0 THEN "lastJoin" ELSE "scan"
             m == [metrics[c] EXCEPT !.depth = d]
  <2>1. CallGoto(c, "queue", to) /\ Found(c, m) /\ to \notin {"answered", "dead"}
    BY <1>5 DEF ReadQueue
  <2>2. HasDepth(stored, metrics[c].store, d)
    BY <1>1 DEF Backed, RedisStored
  <2>3. MetricsHonest(stored, m)
    BY <1>1, <2>2, MetricsKept
  <2> HIDE DEF m, to
  <2> QED
    BY <1>1, <2>1, <2>3, FoundHonest
<1>6. CASE ReadLastJoin(c)
  <2> DEFINE joins == {e \in StoredIn(metrics[c].store, {"BILLING_QUEUE_JOIN"}) : e.depth > 0}
  <2>1. CallGoto(c, "lastJoin", "scan")
    BY <1>6 DEF ReadLastJoin
  <2>2. CASE joins = {}
    BY <1>2, <1>6, <2>1, <2>2 DEF ReadLastJoin
  <2>3. CASE joins # {}
    <3>1. PICK e \in joins : Found(c, [metrics[c] EXCEPT !.depth = e.depth])
      BY <1>6, <2>3 DEF ReadLastJoin
    <3>2. HasDepth(stored, metrics[c].store, e.depth)
      <4>1. e.depth \in Int
        BY <1>1, EventAssumption DEF StoredIn, Event
      <4> QED
        BY <4>1 DEF HasDepth, StoredIn, IsJoin
    <3>3. MetricsHonest(stored, [metrics[c] EXCEPT !.depth = e.depth])
      BY <1>1, <3>2, MetricsKept
    <3> QED
      BY <1>1, <2>1, <3>1, <3>3, FoundHonest
  <2> QED
    BY <2>2, <2>3
<1>7. CASE ScanZones(c)
  BY <1>2, <1>7 DEF ScanZones
<1>8. ASSUME NEW x, NEW from, NEW to, CallGoto(c, from, to), from # "answered",
             to \notin {"answered", "dead"}, Found(c, [metrics[c] EXCEPT !.dwell = x])
      PROVE  AnswersHonest'
  BY <1>1, <1>8, MetricsKept, FoundHonest
<1>9. CASE ReadDwellSum(c)
  <2>1. PICK z \in zonesLeft[c] \cup Appeared(c) :
          Found(c, [metrics[c] EXCEPT !.dwell[z].sum = dwellSum[metrics[c].store][z]])
    BY <1>9 DEF ReadDwellSum
  <2>2. CallGoto(c, "dwellSum", "dwellCount")
    BY <1>9 DEF ReadDwellSum
  <2> QED
    BY <1>8, <2>1, <2>2
<1>10. CASE ReadDwellCount(c)
  <2>1. PICK z \in HalfRead(c) :
          LET n == dwellCount[metrics[c].store][z] IN
          Found(c, [metrics[c] EXCEPT
                      !.dwell[z] = IF n = 0 THEN NoAverage ELSE [@ EXCEPT !.count = n]])
    BY <1>10 DEF ReadDwellCount
  <2>2. CallGoto(c, "dwellCount", "dwellSum")
    BY <1>10 DEF ReadDwellCount
  <2> QED
    BY <1>8, <2>1, <2>2
<1>11. CASE AverageDwells(c)
  <2>1. CallGoto(c, "dwellSum", "abandon")
    BY <1>11 DEF AverageDwells
  <2>2. PICK x : \/ Found(c, metrics[c])
                 \/ Found(c, [metrics[c] EXCEPT !.dwell = x])
    BY <1>11, Zenon DEF AverageDwells
  <2> QED
    BY <1>1, <1>8, <2>1, <2>2, FoundHonest
<1>12. CASE CountAbandons(c)
  <2>1. CallGoto(c, "abandon", "ts")
    BY <1>12 DEF CountAbandons
  <2>2. PICK x, y : Found(c, [metrics[c] EXCEPT !.abandons = x, !.joins = y])
    BY <1>12, Zenon DEF CountAbandons
  <2>3. MetricsHonest(stored, [metrics[c] EXCEPT !.abandons = x, !.joins = y])
    BY <1>1, MetricsKept
  <2> QED
    BY <1>1, <2>1, <2>2, <2>3, FoundHonest
<1>13. CASE ReadLastEvent(c)
  <2> DEFINE t == lastEventTs[metrics[c].store]
             to == IF t = NoTime THEN "lastTs" ELSE "metrics"
             m == [metrics[c] EXCEPT !.ts = t]
  <2>1. CallGoto(c, "ts", to) /\ Found(c, m) /\ to \notin {"answered", "dead"}
    BY <1>13 DEF ReadLastEvent
  <2>2. HasTime(stored, metrics[c].store, t)
    BY <1>1 DEF Backed, RedisStored
  <2>3. MetricsHonest(stored, m)
    BY <1>1, <2>2, MetricsKept
  <2> HIDE DEF m, to
  <2> QED
    BY <1>1, <2>1, <2>3, FoundHonest
<1>14. CASE ReadLastStored(c)
  <2> DEFINE m == [metrics[c] EXCEPT !.ts = Latest(StoredIn(metrics[c].store, EventTypes))]
  <2>1. CallGoto(c, "lastTs", "metrics") /\ Found(c, m)
    BY <1>14 DEF ReadLastStored
  <2>2. MetricsHonest(stored, m)
    BY <1>1, LatestTimeStored, MetricsKept
  <2> HIDE DEF m
  <2> QED
    BY <1>1, <2>1, <2>2, FoundHonest
<1>15. ASSUME NEW s \in Stores, Funnels(c, s)
       PROVE  AnswersHonest'
  <2>1. PICK f : FunnelHonest(f) /\ funnel' = [funnel EXCEPT ![c] = f]
    BY <1>15, FunnelCounts DEF Funnels, Backed
  <2>2. /\ rpc[c] = "idle" /\ rpc' = [rpc EXCEPT ![c] = "funnel"]
        /\ metrics' = [metrics EXCEPT ![c] = metrics[c]]
        /\ health' = [health EXCEPT ![c] = health[c]]
        /\ scan' = [scan EXCEPT ![c] = scan[c]]
        /\ alarms' = [alarms EXCEPT ![c] = alarms[c]]
    BY <1>15 DEF Funnels, CallGoto, insightVars, AnswersHonest
  <2>3. /\ MetricsHonest(stored, metrics[c]) /\ TimesHonest(stored, health[c])
        /\ ScanHonest(stored, scan[c]) /\ AlarmsHonest(stored, alarms[c], "funnel")
    BY <2>2 DEF AnswersHonest, AlarmsHonest
  <2> QED
    BY <1>1, <2>1, <2>2, <2>3, CallHonest
<1>16. /\ health = [k \in Calls |-> health[k]] /\ TimesHonest(stored, health[c])
       /\ scan = [k \in Calls |-> scan[k]] /\ ScanHonest(stored, scan[c])
       /\ rpc = [k \in Calls |-> rpc[k]]
  BY DEF AnswersHonest
<1>17. CASE HealthFromDb(c)
  <2> DEFINE h == [s \in Stores |-> Latest(StoredIn(s, EventTypes))]
             n == [NoScan EXCEPT !.left = Stores]
  <2>1. TimesHonest(stored, h)
    BY LatestTimeStored DEF TimesHonest
  <2>2. ScanHonest(stored, n)
    BY DEF ScanHonest, NoScan, TimesHonest, HasTime
  <2>3. /\ rpc[c] = "idle" /\ rpc' = [rpc EXCEPT ![c] = "redisHealth"]
        /\ scan' = [scan EXCEPT ![c] = n] /\ UNCHANGED <<metrics, funnel>>
        /\ health' \in {[health EXCEPT ![c] = h], [health EXCEPT ![c] = health[c]]}
    BY <1>16, <1>17 DEF HealthFromDb, CallGoto
  <2> HIDE DEF h, n
  <2> QED
    BY <1>1, <1>16, <2>1, <2>2, <2>3, HealthHonest
<1>18. CASE HealthFromRedis(c)
  <2>1. PICK s \in scan[c].left :
          scan' = [scan EXCEPT ![c] =
                     [left |-> scan[c].left \ {s},
                      found |-> [scan[c].found EXCEPT ![s] = lastEventTs[s]]]]
    BY <1>18 DEF HealthFromRedis
  <2> DEFINE n == [left |-> scan[c].left \ {s},
                   found |-> [scan[c].found EXCEPT ![s] = lastEventTs[s]]]
  <2>2. scan' = [scan EXCEPT ![c] = n]
    BY <2>1
  <2>3. ScanHonest(stored, n)
    BY <1>16 DEF ScanHonest, TimesHonest, Backed, RedisStored
  <2>4. /\ rpc[c] = "redisHealth" /\ rpc' = [rpc EXCEPT ![c] = "redisHealth"]
        /\ UNCHANGED <<metrics, funnel>> /\ health' = [health EXCEPT ![c] = health[c]]
    BY <1>16, <1>18 DEF HealthFromRedis
  <2> HIDE DEF n
  <2> QED
    BY <1>1, <1>16, <2>2, <2>3, <2>4, HealthHonest
<1>19. CASE HealthAnswered(c)
  <2> DEFINE h == [s \in Stores |-> IF scan[c].found[s] = NoTime THEN health[c][s]
                                    ELSE scan[c].found[s]]
  <2>1. TimesHonest(stored, h)
    BY <1>16 DEF ScanHonest, TimesHonest
  <2>2. ScanHonest(stored, NoScan)
    BY DEF ScanHonest, NoScan, TimesHonest, HasTime
  <2>3. /\ rpc[c] = "redisHealth" /\ rpc' = [rpc EXCEPT ![c] = "health"]
        /\ scan' = [scan EXCEPT ![c] = NoScan] /\ UNCHANGED <<metrics, funnel>>
        /\ health' \in {[health EXCEPT ![c] = h], [health EXCEPT ![c] = health[c]]}
    BY <1>16, <1>19 DEF HealthAnswered, CallGoto
  <2> HIDE DEF h
  <2>4. PICK g : TimesHonest(stored, g) /\ health' = [health EXCEPT ![c] = g]
    BY <1>16, <2>1, <2>3
  <2>5. /\ metrics' = [metrics EXCEPT ![c] = metrics[c]]
        /\ funnel' = [funnel EXCEPT ![c] = funnel[c]]
        /\ alarms' = [alarms EXCEPT ![c] = alarms[c]]
    BY <2>3 DEF insightVars, AnswersHonest
  <2>6. /\ MetricsHonest(stored, metrics[c]) /\ FunnelHonest(funnel[c])
        /\ AlarmsHonest(stored, alarms[c], "health")
    BY <2>3 DEF AnswersHonest, AlarmsHonest
  <2> QED
    BY <1>1, <2>2, <2>3, <2>4, <2>5, <2>6, CallHonest
<1> QED
  BY <1>3, <1>4, <1>5, <1>6, <1>7, <1>9, <1>10, <1>11, <1>12, <1>13, <1>14, <1>15, <1>17,
     <1>18, <1>19 DEF Call

-----------------------------------------------------------------------------
\* An anomalies call that has found no dead zone yet.
LEMMA AlarmsKept ==
    ASSUME NEW E, NEW a, NEW from, NEW to, NEW b, AlarmsHonest(E, a, from),
           from # "answered", to # "dead",
           b = [f \in AlarmsFields |-> b[f]], b.store = a.store, b.dead = a.dead, b.at \in Nat
    PROVE  AlarmsHonest(E, b, to)
  BY DEF AlarmsHonest

\* A zone that is called dead has no visit that would count as recent traffic.
LEMMA DeadInTraffic ==
    ASSUME NEW E, E = stored, E \subseteq Event, NEW a, AlarmsHonest(E, a, "dead"),
           NEW z \in DeadAt(a.store, a.at)
    PROVE  TrafficBut(E, a, {z})
<1>1. PICK e \in E : e.store = a.store /\ ~e.staff /\ e.ts >= a.at - Recent
  BY DEF AlarmsHonest, TrafficBut
<1> DEFINE V == Visits(a.store, z)
<1>2. V \subseteq Event /\ V # {} /\ Latest(V) < a.at - Recent
  BY DEF DeadAt, Visits, StoredIn
<1>3. Latest(V) \in Nat /\ a.at \in Nat /\ Recent \in Nat /\ e.ts \in Nat
  <2>1. PICK f \in V : f.ts = Latest(V)
    BY <1>2, LatestStored
  <2> QED
    BY <1>1, <1>2, <2>1, EventAssumption, InsightsAssumption DEF AlarmsHonest, Event
<1>4. ~(IsZoneVisit(e) /\ e.zone = z)
  <2> SUFFICES ASSUME IsZoneVisit(e), e.zone = z
               PROVE  FALSE
    OBVIOUS
  <2>1. e \in V
    BY <1>1 DEF Visits, StoredIn, IsZoneVisit
  <2>2. e.ts <= Latest(V)
    BY <1>2, <2>1, LatestStored
  <2> QED
    BY <1>1, <1>2, <1>3, <2>2
<1> QED
  BY <1>1, <1>4 DEF TrafficBut

\* What the endpoints of Insights find out is honest.
LEMMA InsightStep ==
    ASSUME TypeOK, AnswersHonest, NEW c \in Calls, Insight(c), UNCHANGED apiVars
    PROVE  AnswersHonest'
<1> DEFINE a == alarms[c]
<1>1. /\ UNCHANGED stored /\ stored \subseteq Event /\ now \in Nat
      /\ a = [f \in AlarmsFields |-> a[f]] /\ a.store \in Stores /\ a.at \in Nat
      /\ AlarmsHonest(stored, a, rpc[c])
  BY EventAssumption DEF apiVars, vars, TypeOK, SessionsTypeOK, AnswersHonest, AlarmsHonest
\* The two calls of the heat map learn nothing that the others hold.
<1>2. ASSUME NEW from, NEW to, CallGoto(c, from, to), from # "answered", to # "dead",
             UNCHANGED <<heldVars, alarms>>
      PROVE  AnswersHonest'
  <2>1. AlarmsHonest(stored, a, to)
    BY <1>1, <1>2, AlarmsKept DEF CallGoto
  <2>2. /\ rpc' = [rpc EXCEPT ![c] = to] /\ metrics' = [metrics EXCEPT ![c] = metrics[c]]
        /\ funnel' = [funnel EXCEPT ![c] = funnel[c]]
        /\ health' = [health EXCEPT ![c] = health[c]]
        /\ scan' = [scan EXCEPT ![c] = scan[c]]
        /\ alarms' = [alarms EXCEPT ![c] = a]
    BY <1>2 DEF CallGoto, heldVars, AnswersHonest
  <2>3. /\ MetricsHonest(stored, metrics[c]) /\ FunnelHonest(funnel[c])
        /\ TimesHonest(stored, health[c]) /\ ScanHonest(stored, scan[c])
    BY DEF AnswersHonest
  <2> HIDE DEF a
  <2> QED
    BY <1>1, <2>1, <2>2, <2>3, CallHonest
<1>3. ASSUME NEW from, NEW to, NEW b, CallGoto(c, from, to), Noticed(c, b),
             AlarmsHonest(stored, b, to)
      PROVE  AnswersHonest'
  BY <1>1, <1>3, NoticedHonest
\* A statement that finds no dead zones.
<1>4. ASSUME NEW from, NEW to, NEW b, CallGoto(c, from, to), Noticed(c, b),
             from # "answered", to # "dead",
             b = [f \in AlarmsFields |-> b[f]], b.store = a.store, b.dead = a.dead,
             b.at \in Nat
      PROVE  AnswersHonest'
  <2>1. AlarmsHonest(stored, b, to)
    BY <1>1, <1>4, AlarmsKept DEF CallGoto
  <2> QED
    BY <1>3, <1>4, <2>1
<1>5. ASSUME NEW s \in Stores, HeatFromEvents(c, s)
      PROVE  AnswersHonest'
  BY <1>2, <1>5 DEF HeatFromEvents
<1>6. CASE HeatConfidence(c)
  BY <1>2, <1>6 DEF HeatConfidence
<1>7. ASSUME NEW s \in Stores, ReadCurrentQueue(c, s)
      PROVE  AnswersHonest'
  <2> DEFINE b == [NoAlarms(s) EXCEPT !.depth = queueDepth[s]]
  <2>1. CallGoto(c, "idle", "avgQueue") /\ Noticed(c, b)
    BY <1>7 DEF ReadCurrentQueue
  <2>2. /\ b = [f \in AlarmsFields |-> b[f]] /\ b.store = s /\ b.dead = {} /\ b.at \in Nat
    BY DEF NoAlarms, AlarmsFields, NoTime
  <2> HIDE DEF b
  <2>3. AlarmsHonest(stored, b, "avgQueue")
    BY <2>2 DEF AlarmsHonest
  <2> QED
    BY <1>3, <2>1, <2>3
<1>8. CASE JudgeQueue(c)
  <2>1. PICK q : Noticed(c, [a EXCEPT !.at = now, !.queue = q])
    BY <1>8, Zenon DEF JudgeQueue
  <2> DEFINE b == [a EXCEPT !.at = now, !.queue = q]
  <2>2. CallGoto(c, "avgQueue", "today")
    BY <1>8 DEF JudgeQueue
  <2>3. /\ b = [f \in AlarmsFields |-> b[f]] /\ b.store = a.store /\ b.dead = a.dead
        /\ b.at \in Nat
    BY <1>1 DEF AlarmsFields
  <2> HIDE DEF a, b
  <2> QED
    BY <1>4, <2>1, <2>2, <2>3 DEF b
<1>9. ASSUME NEW k \in {"today", "conversion"}, NEW x, NEW from, NEW to,
             CallGoto(c, from, to), from # "answered", to # "dead",
             Noticed(c, [a EXCEPT ![k] = x])
      PROVE  AnswersHonest'
  <2> DEFINE b == [a EXCEPT ![k] = x]
  <2>1. /\ b = [f \in AlarmsFields |-> b[f]] /\ b.store = a.store /\ b.dead = a.dead
        /\ b.at \in Nat
    BY <1>1, <1>9 DEF AlarmsFields
  <2>2. Noticed(c, b)
    BY <1>9
  <2> HIDE DEF a, b
  <2> QED
    BY <1>4, <1>9, <2>1, <2>2
<1>10. CASE CountToday(c)
  <2>1. PICK x : Noticed(c, [a EXCEPT !.today = x])
    BY <1>10, Zenon DEF CountToday
  <2>2. CallGoto(c, "today", "baseline")
    BY <1>10 DEF CountToday
  <2> QED
    BY <1>9, <2>1, <2>2
<1>11. CASE JudgeConversion(c)
  <2>1. PICK x : Noticed(c, [a EXCEPT !.conversion = x])
    BY <1>11, Zenon DEF JudgeConversion
  <2>2. CallGoto(c, "baseline", "traffic")
    BY <1>11 DEF JudgeConversion
  <2> QED
    BY <1>9, <2>1, <2>2
<1>12. CASE CountTraffic(c)
  <2> DEFINE busy == \E e \in StoredIn(a.store, EventTypes) : ~e.staff /\ e.ts >= a.at - Recent
             to == IF busy THEN "dead" ELSE "answered"
  <2>1. CallGoto(c, "traffic", to) /\ Noticed(c, a)
    BY <1>12 DEF CountTraffic
  <2>2. rpc[c] = "traffic"
    BY <2>1 DEF CallGoto
  <2>3. busy => TrafficBut(stored, a, {})
    BY DEF StoredIn, TrafficBut
  <2>4. a.dead = {}
    BY <1>1, <2>2 DEF AlarmsHonest
  <2> HIDE DEF a, busy
  <2>5. AlarmsHonest(stored, a, to)
    BY <1>1, <2>3, <2>4 DEF AlarmsHonest
  <2> HIDE DEF to
  <2> QED
    BY <1>3, <2>1, <2>5
<1>13. CASE FindDeadZones(c)
  <2> DEFINE b == [a EXCEPT !.dead = DeadAt(a.store, a.at)]
  <2>1. CallGoto(c, "dead", "answered") /\ Noticed(c, b)
    BY <1>13 DEF FindDeadZones
  <2>2. AlarmsHonest(stored, a, "dead")
    BY <1>1, <2>1 DEF CallGoto
  <2>3. /\ b = [f \in AlarmsFields |-> b[f]] /\ b.store = a.store /\ b.at = a.at
        /\ b.dead = DeadAt(a.store, a.at)
    BY <1>1 DEF AlarmsFields
  <2> HIDE DEF a, b
  <2>4. \A z \in b.dead : TrafficBut(stored, a, {z})
    BY <1>1, <2>2, <2>3, DeadInTraffic
  <2>5. AlarmsHonest(stored, b, "answered")
    BY <1>1, <2>3, <2>4 DEF AlarmsHonest, TrafficBut
  <2> QED
    BY <1>3, <2>1, <2>5
<1> QED
  BY <1>5, <1>6, <1>7, <1>8, <1>10, <1>11, <1>12, <1>13 DEF Insight

-----------------------------------------------------------------------------
\* The invariant, and what follows.
allVars == <<apiVars, readerVars, insightVars>>

ReaderInv == ApiInv /\ Backed /\ AnswersHonest

LEMMA ReaderInit == InsightsInit => ReaderInv
<1> SUFFICES ASSUME InsightsInit PROVE ReaderInv
  OBVIOUS
<1> USE DEF InsightsInit, ReadersInit, ApiInit, Init
<1>1. ApiInv
  BY ApiInvInit
<1>2. Backed
  BY DEF Backed, RowsKnown, Known, PaidAtBilling, IsConverted, StagedStored, RedisStored,
     HasTime, HasDepth, SessionsInit, RequestsInit, NewEvents, EventsAt
<1> DEFINE s0 == CHOOSE s \in Stores : TRUE
<1>3. s0 \in Stores
  BY PosAssumption
<1> HIDE DEF s0
<1>4. ASSUME NEW s \in Stores
      PROVE  MetricsHonest(stored, NoMetrics(s)) /\ AlarmsHonest(stored, NoAlarms(s), "idle")
  <2>1. Cardinality(Came(stored, s)) \in Nat
    BY <1>1, CameMore, EventAssumption DEF ApiInv, ApiTypeOK, TypeOK
  <2>2. /\ NoMetrics(s) = [f \in MetricsFields |-> NoMetrics(s)[f]]
        /\ NoMetrics(s).store = s /\ NoMetrics(s).visitors = 0
        /\ NoMetrics(s).depth = 0 /\ NoMetrics(s).ts = NoTime
    BY DEF NoMetrics, MetricsFields
  <2>3. /\ NoAlarms(s) = [f \in AlarmsFields |-> NoAlarms(s)[f]]
        /\ NoAlarms(s).store = s /\ NoAlarms(s).dead = {} /\ NoAlarms(s).at = 0
    BY DEF NoAlarms, AlarmsFields, NoTime
  <2> DEFINE m == NoMetrics(s)
             a == NoAlarms(s)
  <2> HIDE DEF m, a, InsightsInit, ReadersInit, ApiInit, Init
  <2>4. HasDepth(stored, s, 0) /\ HasTime(stored, s, NoTime)
    BY DEF HasDepth, HasTime
  <2>5. MetricsHonest(stored, m)
    BY <2>1, <2>2, <2>4 DEF MetricsHonest, m
  <2>6. AlarmsHonest(stored, a, "idle")
    BY <2>3 DEF AlarmsHonest, a
  <2> QED
    BY <2>5, <2>6 DEF m, a
<1>5. /\ metrics = [c \in Calls |-> NoMetrics(s0)] /\ alarms = [c \in Calls |-> NoAlarms(s0)]
      /\ rpc = [c \in Calls |-> "idle"] /\ scan = [c \in Calls |-> NoScan]
      /\ health = [c \in Calls |-> [s \in Stores |-> NoTime]]
      /\ funnel = [c \in Calls |-> [entry |-> 0, zoneVisit |-> 0, billing |-> 0, purchase |-> 0]]
  BY DEF s0
<1>6. /\ TimesHonest(stored, [s \in Stores |-> NoTime]) /\ ScanHonest(stored, NoScan)
      /\ FunnelHonest([entry |-> 0, zoneVisit |-> 0, billing |-> 0, purchase |-> 0])
  BY DEF TimesHonest, ScanHonest, NoScan, FunnelHonest, HasTime
<1> HIDE DEF InsightsInit, ReadersInit, ApiInit, Init
<1>7. AnswersHonest
  BY <1>3, <1>4, <1>5, <1>6 DEF AnswersHonest
<1> QED
  BY <1>1, <1>2, <1>7 DEF ReaderInv

LEMMA ReaderStep == ReaderInv /\ [InsightsNext]_allVars => ReaderInv'
<1> SUFFICES ASSUME ReaderInv, [InsightsNext]_allVars PROVE ReaderInv'
  OBVIOUS
<1>1. TypeOK
  BY DEF ReaderInv, ApiInv, ApiTypeOK
<1>2. ASSUME [ApiNext]_apiVars
      PROVE  ApiInv' /\ Backed' /\ stored \subseteq stored' /\ stored' \subseteq Event
  <2>1. ApiInv' /\ Backed' /\ stored \subseteq stored'
    BY <1>2, ApiInvStep, BackedStep DEF ReaderInv
  <2> QED
    BY <2>1, EventAssumption DEF ApiInv, ApiTypeOK, TypeOK
<1>3. ASSUME NEW c \in Calls, Insight(c), UNCHANGED apiVars
      PROVE  ReaderInv'
  BY <1>1, <1>2, <1>3, InsightStep DEF ReaderInv
<1>4. ASSUME NEW c \in Calls, Call(c), UNCHANGED apiVars, UNCHANGED insightVars
      PROVE  ReaderInv'
  BY <1>1, <1>2, <1>4, CallStep DEF ReaderInv
<1>5. CASE [ApiNext]_apiVars /\ UNCHANGED readerVars /\ UNCHANGED insightVars
  BY <1>2, <1>5, HonestFrame DEF ReaderInv
<1> QED
  BY <1>3, <1>4, <1>5 DEF InsightsNext, ReadersNext, allVars

LEMMA ReaderInvariant == InsightsSpec => []ReaderInv
<1>1. InsightsInit => ReaderInv
  BY ReaderInit
<1>2. ReaderInv /\ [InsightsNext]_<<apiVars, readerVars, insightVars>> => ReaderInv'
  BY ReaderStep DEF allVars
<1> QED
  BY <1>1, <1>2, PTL DEF InsightsSpec

\* The funnel narrows at every statement: a row converts at billing only.
THEOREM FunnelsNarrow == InsightsSpec => []FunnelNarrows
<1>1. ReaderInv => FunnelNarrows
  BY DEF ReaderInv, AnswersHonest, FunnelHonest, FunnelNarrows
<1> QED
  BY <1>1, ReaderInvariant, PTL

\* visitor_count counts customers that events of the store speak of, whether it
\* comes from the sessions or from the events.
THEOREM VisitorCountsHonest == InsightsSpec => []VisitorsNotInflated
<1>1. ReaderInv => VisitorsNotInflated
  BY DEF ReaderInv, AnswersHonest, MetricsHonest, Came, StoredIn, VisitorsNotInflated
<1> QED
  BY <1>1, ReaderInvariant, PTL

\* The last event of a store that the metrics and /health report is stored.
THEOREM LastEventsExist == InsightsSpec => []LastEventStored
<1>1. ReaderInv => LastEventStored
  <2>1. TypeOK /\ AnswersHonest => LastEventStored
    BY EventAssumption DEF TypeOK, AnswersHonest, MetricsHonest, TimesHonest, HasTime,
       StoredIn, Event, LastEventStored
  <2> QED
    BY <2>1 DEF ReaderInv, ApiInv, ApiTypeOK
<1> QED
  BY <1>1, ReaderInvariant, PTL

\* A queue that the metrics report was joined, by a stored event.
THEOREM QueuesWereJoined == InsightsSpec => []QueueDepthWitnessed
<1>1. ReaderInv => QueueDepthWitnessed
  BY DEF ReaderInv, AnswersHonest, MetricsHonest, HasDepth, StoredIn, IsJoin,
     QueueDepthWitnessed
<1> QED
  BY <1>1, ReaderInvariant, PTL

\* A zone that is called dead is dead amid traffic that is not its own.
THEOREM DeadZonesAmidTraffic == InsightsSpec => []DeadAmidTraffic
<1>1. ReaderInv => DeadAmidTraffic
  <2>1. TypeOK /\ AnswersHonest => DeadAmidTraffic
    BY EventAssumption DEF TypeOK, AnswersHonest, AlarmsHonest, TrafficBut, StoredIn, Visits,
       IsZoneVisit, Event, DeadAmidTraffic
  <2> QED
    BY <2>1 DEF ReaderInv, ApiInv, ApiTypeOK
<1> QED
  BY <1>1, ReaderInvariant, PTL

=============================================================================
