--------------------------- MODULE IngestionProofs ---------------------------
(***************************************************************************)
(* Theorems about Ingestion for every set of requests, events, batches,    *)
(* visitors and stores: its types, which need Kept (only valid events      *)
(* reach the zone keys), the counters, which need IndInv of Ingestion, the *)
(* ledger that it implements, how far a queue depth can drift, and what    *)
(* explains a row.                                                         *)
(***************************************************************************)
EXTENDS Ingestion, TLAPS, FiniteSetTheorems

-----------------------------------------------------------------------------
\* What the statements on the sessions table return and preserve.

\* Every statement leaves a row of the table's type (or none).
LEMMA WrittenType ==
    ASSUME NEW row \in Row \cup {NoRow}, NEW e \in Event, Valid(e), TouchesSession(e),
           NEW t \in Nat
    PROVE  Written(row, e, t) \in Row \cup {NoRow}
<1>1. e.ts \in Nat /\ e.store \in Stores /\ e.staff \in BOOLEAN
  BY EventAssumption DEF Event
<1>2. CASE IsEntry(e)
  <2>1. ASSUME row # NoRow
        PROVE  Upserted(row, e, t) \in Row
    <3>1. row \in Row
      BY <2>1
    <3>2. row.reentries + Returns(e) \in Nat
      BY <3>1 DEF Returns, Row
    <3>3. \A n \in Nat : [row EXCEPT !.reentries = n, !.updated = t] \in Row
      BY <3>1 DEF Row
    <3> QED
      BY <3>2, <3>3, Zenon DEF Upserted
  <2>2. Inserted(e, t) \in Row
    BY <1>1 DEF Inserted, Row, NoTime
  <2> QED
    BY <1>2, <2>1, <2>2 DEF Written
<1>3. CASE ~IsEntry(e) /\ row # NoRow
  <2>1. Exited(row, e, t) \in Row
    BY <1>1, <1>3 DEF Exited, Row
  <2>2. IsZoneVisit(e) => ZoneSeen(row, e, t) \in Row
    <3>1. IsZoneVisit(e) => e.zone \in Zones
      BY DEF IsZoneVisit, Valid, FieldRules, ZoneRule, RequireZoneTypes, Event
    <3> QED
      BY <3>1, <1>3 DEF ZoneSeen, Row
  <2>3. QueueJoined(row, e) \in Row
    BY <1>1, <1>3 DEF QueueJoined, Row
  <2> QED
    BY <1>3, <2>1, <2>2, <2>3 DEF Written, TouchesSession, IsZoneVisit, IsJoin
<1>4. CASE ~IsEntry(e) /\ row = NoRow
  BY <1>4 DEF Written
<1> QED
  BY <1>2, <1>3, <1>4

\* One statement of _update_sessions keeps the tables typed.
LEMMA StatementType ==
    ASSUME SessionsTypeOK, NEW c \in Clients, NEW e \in Event, Valid(e),
           SessionStatement(c, e), UNCHANGED now
    PROVE  SessionsTypeOK'
<1>1. CASE TouchesSession(e)
  <2>1. e.vid \in Visitors
    BY DEF Event
  <2>2. OwnRow(c, e.vid) \in Row \cup {NoRow}
    BY <2>1 DEF OwnRow, SessionsTypeOK
  <2>3. TxNow(c) \in Nat
    BY DEF TxNow, SessionsTypeOK
  <2>4. Written(OwnRow(c, e.vid), e, TxNow(c)) \in Row \cup {NoRow}
    BY <1>1, <2>2, <2>3, WrittenType
  <2> DEFINE row == Written(OwnRow(c, e.vid), e, TxNow(c))
  <2>5. dirty' = [dirty EXCEPT ![c] = [dirty[c] EXCEPT ![e.vid] = row]]
    BY <1>1 DEF SessionStatement
  <2>6. [dirty[c] EXCEPT ![e.vid] = row] \in [Visitors -> Row \cup {NoRow}]
    <3> HIDE DEF row
    <3> QED
      BY <2>1, <2>4 DEF SessionsTypeOK, row
  <2>7. dirty' \in [Clients -> [Visitors -> Row \cup {NoRow}]]
    <3> HIDE DEF row
    <3> QED
      BY <2>5, <2>6 DEF SessionsTypeOK
  <2>8. txStart' \in [Clients -> Nat] /\ UNCHANGED sessions
    BY <1>1, <2>3 DEF SessionStatement, SessionsTypeOK
  <2> QED
    BY <2>7, <2>8 DEF SessionsTypeOK
<1>2. CASE ~TouchesSession(e)
  BY <1>2 DEF SessionStatement, SessionsTypeOK, sessionVars
<1> QED
  BY <1>1, <1>2

\* Commit and rollback keep them typed.
LEMMA CommitType ==
    ASSUME SessionsTypeOK, NEW c \in Clients, UNCHANGED now, CommitRows(c) \/ RollbackRows(c)
    PROVE  SessionsTypeOK'
<1>1. NoRows \in [Visitors -> Row \cup {NoRow}]
  BY DEF NoRows
<1>2. [v \in Visitors |-> OwnRow(c, v)] \in [Visitors -> Row \cup {NoRow}]
  BY DEF OwnRow, SessionsTypeOK
<1>3. [dirty EXCEPT ![c] = NoRows] \in [Clients -> [Visitors -> Row \cup {NoRow}]]
  BY <1>1 DEF SessionsTypeOK
<1>4. [txStart EXCEPT ![c] = NoTime] \in [Clients -> Nat]
  BY DEF SessionsTypeOK, NoTime
<1> QED
  BY <1>2, <1>3, <1>4 DEF CommitRows, RollbackRows, SessionsTypeOK

-----------------------------------------------------------------------------
\* Type correctness.

\* An index of a batch names an event, and one a loop visits a valid event.
LEMMA IndexedEvent ==
    ASSUME TypeOK, NEW r \in Requests, NEW i \in DOMAIN batch[r]
    PROVE  batch[r][i] \in Events /\ batch[r][i] \in Event
<1>1. batch[r] \in Seq(Events)
  BY DEF TypeOK, RequestsTypeOK
<1> QED
  BY <1>1, EventAssumption

\* The counts of a response are natural numbers: what was stored was valid, and
\* what was valid was in the batch.
LEMMA CountsType ==
    ASSUME TypeOK, Kept, NEW r \in Requests
    PROVE  Counts(r) \in Answer
<1> DEFINE V == {i \in DOMAIN batch[r] : Valid(batch[r][i])}
<1>1. batch[r] \in Seq(Events) /\ Len(batch[r]) \in Nat /\ DOMAIN batch[r] = 1..Len(batch[r])
  BY DEF TypeOK, RequestsTypeOK
<1>2. IsFiniteSet(1..Len(batch[r])) /\ Cardinality(1..Len(batch[r])) = Len(batch[r])
  BY <1>1, FS_Interval
<1>3. /\ IsFiniteSet(V) /\ Cardinality(V) <= Len(batch[r])
      /\ Cardinality(V) \in Nat
  BY <1>1, <1>2, FS_Subset, FS_CardinalityType
<1>4. new[r] \subseteq V
  BY DEF TypeOK, RequestsTypeOK, Kept
<1>5. Cardinality(new[r]) <= Cardinality(V) /\ Cardinality(new[r]) \in Nat
  BY <1>3, <1>4, FS_Subset, FS_CardinalityType
<1> QED
  BY <1>1, <1>3, <1>5 DEF Counts, Answer

\* A Redis command keeps the counters typed.
LEMMA ExecuteType ==
    ASSUME RedisTypeOK, NEW e \in Event, NEW op \in Ops, Execute(e, op),
           UNCHANGED <<conversionCount, shown>>
    PROVE  RedisTypeOK'
<1>1. e.store \in Stores /\ e.ts \in Nat /\ e.depth \in Int /\ e.dwell \in Nat
  BY EventAssumption DEF Event
<1>2. lastEventTs' \in [Stores -> Nat]
  BY <1>1 DEF Execute, RedisTypeOK
<1>3. visitorCount' \in [Stores -> Nat]
  BY <1>1 DEF Execute, RedisTypeOK, Bump
<1>4. queueDepth' \in [Stores -> Int]
  <2>1. op = "setDepth" => queueDepth' \in [Stores -> Int]
    BY <1>1 DEF Execute, RedisTypeOK
  <2>2. op = "decrDepth" => queueDepth' \in [Stores -> Int]
    BY <1>1 DEF Execute, RedisTypeOK, Bump
  <2>3. op \notin {"setDepth", "decrDepth"} => queueDepth' \in [Stores -> Int]
    BY DEF Execute, RedisTypeOK
  <2> QED
    BY <2>1, <2>2, <2>3
<1>5. dwellSum' \in [Stores -> [Zones -> Nat]]
  <2>1. \A z \in Zones : dwellSum[e.store][z] + e.dwell \in Nat
    BY <1>1 DEF RedisTypeOK
  <2> QED
    BY <1>1, <2>1 DEF Execute, RedisTypeOK
<1>6. dwellCount' \in [Stores -> [Zones -> Nat]]
  <2>1. \A z \in Zones : dwellCount[e.store][z] + 1 \in Nat
    BY <1>1 DEF RedisTypeOK
  <2> QED
    BY <1>1, <2>1 DEF Execute, RedisTypeOK
<1> QED
  BY <1>2, <1>3, <1>4, <1>5, <1>6 DEF RedisTypeOK

\* The initial state has the types and visits nothing.
LEMMA TypeInit == Init => TypeOK /\ Kept
<1> SUFFICES ASSUME Init PROVE TypeOK /\ Kept
  OBVIOUS
<1>1. SessionsTypeOK
  BY DEF Init, RequestsInit, SessionsInit, SessionsTypeOK, NoTime
<1>2. RequestsTypeOK
  <2>1. (CHOOSE s \in Stores : TRUE) \in Stores
    BY IngestionAssumption
  <2>2. NoSnapshot(CHOOSE s \in Stores : TRUE) \in Snapshot
    BY <2>1 DEF NoSnapshot, Snapshot, NoTime
  <2> QED
    BY <2>2, IngestionAssumption DEF Init, RequestsInit, RequestsTypeOK, PCs
<1>3. RedisTypeOK
  BY DEF Init, RequestsInit, SessionsInit, RedisTypeOK, NoSnapshot, Snapshot, NoTime
<1> QED
  BY <1>1, <1>2, <1>3 DEF Init, RequestsInit, TypeOK, Kept

\* What a handler step does to the fields of its request leaves the types of
\* the other requests alone.
LEMMA TypeStep ==
    ASSUME TypeOK, Kept, [Next]_vars
    PROVE  TypeOK' /\ Kept'
<1> USE DEF RequestsTypeOK, PCs, Goto
<1>1. ASSUME NEW r \in Requests, Refuse(r)
      PROVE  TypeOK' /\ Kept'
  <2>1. [accepted |-> 0, rejected |-> 1, duplicates |-> 0] \in Answer
    BY DEF Answer
  <2> QED
    BY <1>1, <2>1 DEF Refuse, TypeOK, Kept, SessionsTypeOK, RedisTypeOK, sessionVars,
                      redisVars
<1>2. ASSUME NEW r \in Requests, NEW b \in Batches, RefuseLong(r, b)
      PROVE  TypeOK' /\ Kept'
  <2>1. [accepted |-> 0, rejected |-> Len(b), duplicates |-> 0] \in Answer
    BY IngestionAssumption DEF Answer
  <2> QED
    BY <1>2, <2>1 DEF RefuseLong, TypeOK, Kept, SessionsTypeOK, RedisTypeOK,
                      sessionVars, redisVars
<1>3. ASSUME NEW r \in Requests, NEW b \in Batches, Receive(r, b)
      PROVE  TypeOK' /\ Kept'
  <2>1. b \in Seq(Events) /\ DOMAIN b \subseteq Nat
    BY IngestionAssumption
  <2>2. new[r] = {}
    BY <1>3 DEF Receive, TypeOK, Kept
  <2> QED
    BY <1>3, <2>1, <2>2 DEF Receive, TypeOK, Kept, SessionsTypeOK, RedisTypeOK,
                      sessionVars, redisVars
<1>4. ASSUME NEW r \in Requests, InsertEvent(r)
      PROVE  TypeOK' /\ Kept'
  <2>1. PICK i \in left[r] :
          /\ new' = [new EXCEPT ![r] =
                      IF batch[r][i] \in stored \cup Pending(r) THEN @ ELSE @ \cup {i}]
          /\ left' = [left EXCEPT ![r] = @ \ {i}]
    BY <1>4 DEF InsertEvent
  <2>2. i \in DOMAIN batch[r] /\ i \in Nat /\ Valid(batch[r][i])
    BY DEF TypeOK, Kept
  <2>3. \/ new' = new
        \/ new' = [new EXCEPT ![r] = @ \cup {i}]
    BY <2>1 DEF TypeOK
  <2> QED
    BY <1>4, <2>1, <2>2, <2>3 DEF InsertEvent, TypeOK, Kept, SessionsTypeOK,
       RedisTypeOK, sessionVars, redisVars
<1>5. ASSUME NEW r \in Requests, CommitEvents(r)
      PROVE  TypeOK' /\ Kept'
  <2>1. Pending(r) \subseteq Events
    BY IndexedEvent DEF Pending, NewEvents, EventsAt, TypeOK
  <2> QED
    BY <1>5, <2>1 DEF CommitEvents, TypeOK, Kept, SessionsTypeOK, RedisTypeOK,
       sessionVars, redisVars
<1>6. ASSUME NEW r \in Requests, UpdateSession(r)
      PROVE  TypeOK' /\ Kept'
  <2>1. PICK i \in left[r] :
          /\ SessionStatement(r, batch[r][i])
          /\ left' = [left EXCEPT ![r] = @ \ {i}]
    BY <1>6 DEF UpdateSession
  <2>2. i \in DOMAIN batch[r] /\ Valid(batch[r][i])
    BY DEF TypeOK, Kept
  <2>3. batch[r][i] \in Event
    BY <2>2, IndexedEvent
  <2>4. SessionsTypeOK'
    BY <1>6, <2>1, <2>2, <2>3, StatementType, IngestionAssumption
       DEF UpdateSession, TypeOK
  <2> QED
    BY <1>6, <2>1, <2>4 DEF UpdateSession, TypeOK, Kept, RedisTypeOK, redisVars
<1>7. ASSUME NEW r \in Requests, CommitSessions(r)
      PROVE  TypeOK' /\ Kept'
  <2>1. SessionsTypeOK'
    BY <1>7, CommitType, IngestionAssumption DEF CommitSessions, TypeOK
  <2>2. NewEvents(r) \subseteq Events
    BY IndexedEvent DEF NewEvents, EventsAt, TypeOK
  <2>3. staged'[r] \subseteq new[r] \X Ops
    BY <1>7 DEF CommitSessions, TypeOK, StagedOps, Ops
  <2>4. staged' \in [Requests -> SUBSET (Nat \X Ops)]
    BY <1>7, <2>3 DEF CommitSessions, TypeOK
  <2> QED
    BY <1>7, <2>1, <2>2, <2>3, <2>4 DEF CommitSessions, TypeOK, Kept, RedisTypeOK,
       redisVars
<1>8. ASSUME NEW r \in Requests, LookAtQueue(r)
      PROVE  TypeOK' /\ Kept'
  <2>1. PICK i \in left[r] :
          /\ staged' = [staged EXCEPT ![r] =
                         IF queueDepth[batch[r][i].store] > 0
                         THEN @ \cup {<<i, "decrDepth">>} ELSE @]
          /\ left' = [left EXCEPT ![r] = @ \ {i}]
    BY <1>8 DEF LookAtQueue
  <2>2. i \in new[r] /\ i \in Nat
    BY <1>8 DEF LookAtQueue, TypeOK, Kept
  <2>3. \/ staged' = staged
        \/ staged' = [staged EXCEPT ![r] = @ \cup {<<i, "decrDepth">>}]
    BY <2>1 DEF TypeOK
  <2>4. "decrDepth" \in Ops
    BY DEF Ops
  <2> QED
    BY <1>8, <2>1, <2>2, <2>3, <2>4 DEF LookAtQueue, TypeOK, Kept, SessionsTypeOK,
       RedisTypeOK, sessionVars, redisVars
<1>9. ASSUME NEW r \in Requests, RedisCommand(r)
      PROVE  TypeOK' /\ Kept'
  <2>1. PICK c \in staged[r] :
          /\ Execute(batch[r][c[1]], c[2])
          /\ staged' = [staged EXCEPT ![r] = @ \ {c}]
    BY <1>9 DEF RedisCommand
  <2>2. c[1] \in DOMAIN batch[r] /\ c[2] \in Ops
    BY DEF TypeOK
  <2>3. batch[r][c[1]] \in Events /\ batch[r][c[1]] \in Event
    BY <2>2, IndexedEvent
  <2>4. RedisTypeOK'
    BY <1>9, <2>1, <2>2, <2>3, ExecuteType DEF RedisCommand, TypeOK
  <2>5. counted' \subseteq Events
    BY <2>1, <2>3 DEF Execute, TypeOK
  <2> QED
    BY <1>9, <2>1, <2>4, <2>5 DEF RedisCommand, TypeOK, Kept, SessionsTypeOK, sessionVars
<1>10. ASSUME NEW r \in Requests, PipelineDone(r)
       PROVE  TypeOK' /\ Kept'
  <2>1. {e.store : e \in NewEvents(r)} \subseteq Stores
    <3>1. \A i \in new[r] : batch[r][i].store \in Stores
      BY IndexedEvent DEF TypeOK, Event
    <3> QED
      BY <3>1 DEF NewEvents, EventsAt
  <2> QED
    BY <1>10, <2>1 DEF PipelineDone, TypeOK, Kept, SessionsTypeOK, RedisTypeOK,
       sessionVars, redisVars
<1>11. ASSUME NEW r \in Requests, NEW s \in Stores, ReadVisitors(r, s)
       PROVE  TypeOK' /\ Kept'
  <2>1. [NoSnapshot(s) EXCEPT !.visitors = visitorCount[s]] \in Snapshot
    <3>1. visitorCount[s] \in Nat
      BY DEF TypeOK, RedisTypeOK
    <3>2. \A n \in Nat : [NoSnapshot(s) EXCEPT !.visitors = n] \in Snapshot
      BY DEF NoSnapshot, Snapshot, NoTime
    <3> QED
      BY <3>1, <3>2, Zenon
  <2>2. PICK value \in Snapshot : snap' = [snap EXCEPT ![r] = value]
    BY <1>11, <2>1, Zenon DEF ReadVisitors
  <2>3. snap' \in [Requests -> Snapshot]
    BY <2>2 DEF TypeOK
  <2> QED
    BY <1>11, <2>3 DEF ReadVisitors, TypeOK, Kept, SessionsTypeOK, RedisTypeOK,
       sessionVars, redisVars
<1>12. ASSUME NEW r \in Requests, ReadDepth(r) \/ ReadConversions(r) \/ ReadTs(r)
       PROVE  TypeOK' /\ Kept'
  <2>1. snap[r] \in Snapshot /\ snap[r].store \in Stores
    BY DEF TypeOK, Snapshot
  <2>2. /\ [snap[r] EXCEPT !.depth = queueDepth[snap[r].store]] \in Snapshot
        /\ [snap[r] EXCEPT !.conversions = conversionCount[snap[r].store]] \in Snapshot
        /\ [snap[r] EXCEPT !.ts = lastEventTs[snap[r].store]] \in Snapshot
    BY <2>1 DEF TypeOK, RedisTypeOK, Snapshot
  <2>3. ASSUME NEW to \in PCs, NEW from \in PCs, NEW value \in Snapshot,
               from # "idle", from # "insert", to # "idle", ReadField(r, from, to, value)
        PROVE  TypeOK' /\ Kept'
    BY <2>3 DEF ReadField, TypeOK, Kept, SessionsTypeOK, RedisTypeOK, sessionVars,
       redisVars
  <2> QED
    BY <1>12, <2>2, <2>3 DEF ReadDepth, ReadConversions, ReadTs
<1>13. ASSUME NEW r \in Requests, Publish(r)
       PROVE  TypeOK' /\ Kept'
  <2>1. snap[r] \in Snapshot
    BY DEF TypeOK
  <2> QED
    BY <1>13, <2>1 DEF Publish, TypeOK, Kept, SessionsTypeOK, RedisTypeOK, sessionVars,
       redisVars
<1>14. ASSUME NEW r \in Requests, SkipPublish(r)
       PROVE  TypeOK' /\ Kept'
  BY <1>14, IngestionAssumption DEF SkipPublish, TypeOK, Kept, SessionsTypeOK,
     RedisTypeOK, sessionVars, redisVars
<1>15. ASSUME NEW r \in Requests, Respond(r)
       PROVE  TypeOK' /\ Kept'
  <2>1. Counts(r) \in Answer
    BY CountsType
  <2> QED
    BY <1>15, <2>1 DEF Respond, TypeOK, Kept, SessionsTypeOK, RedisTypeOK, sessionVars,
       redisVars
<1>16. ASSUME NEW r \in Requests, Abort(r), fails' \in 0..MaxFails
       PROVE  TypeOK' /\ Kept'
  <2>1. SessionsTypeOK'
    BY <1>16, CommitType, IngestionAssumption DEF Abort, TypeOK
  <2> QED
    BY <1>16, <2>1 DEF Abort, TypeOK, Kept, RedisTypeOK, redisVars
<1>17. ASSUME NEW r \in Requests, Fail(r) \/ DeadlockAbort(r)
       PROVE  TypeOK' /\ Kept'
  BY <1>16, <1>17, IngestionAssumption DEF Fail, DeadlockAbort, TypeOK
<1>18. ASSUME UNCHANGED vars
       PROVE  TypeOK' /\ Kept'
  BY <1>18 DEF vars, requestVars, TypeOK, Kept, SessionsTypeOK, RedisTypeOK, sessionVars,
     redisVars
<1> QED
  BY <1>1, <1>2, <1>3, <1>4, <1>5, <1>6, <1>7, <1>8, <1>9, <1>10, <1>11, <1>12, <1>13,
     <1>14, <1>15, <1>17, <1>18
     DEF Next, IngestNext, Arrive, Advance, Resting

\* The invariant that carries the types.
LEMMA TypeInvariant == Spec => [](TypeOK /\ Kept)
<1>1. Init => TypeOK /\ Kept
  BY TypeInit
<1>2. TypeOK /\ Kept /\ [Next]_vars => (TypeOK /\ Kept)'
  BY TypeStep
<1> QED
  BY <1>1, <1>2, PTL DEF Spec

\* The tables, the requests and the Redis keys of ingestion.py always have
\* their types, for every set of batches and any number of requests.
THEOREM TypeCorrect == Spec => []TypeOK
  BY TypeInvariant, PTL

-----------------------------------------------------------------------------
\* Counting.

\* A batch has finitely many events.
LEMMA FinitelyManyNew ==
    ASSUME TypeOK, NEW r \in Requests
    PROVE  IsFiniteSet(NewEvents(r))
<1> DEFINE f == [i \in new[r] |-> batch[r][i]]
<1>1. batch[r] \in Seq(Events) /\ Len(batch[r]) \in Nat /\ new[r] \subseteq 1..Len(batch[r])
  BY DEF TypeOK, RequestsTypeOK
<1>2. IsFiniteSet(new[r])
  <2>1. IsFiniteSet(1..Len(batch[r]))
    BY <1>1, FS_Interval
  <2> QED
    BY <1>1, <2>1, FS_Subset
<1>3. f \in Surjection(new[r], NewEvents(r))
  BY DEF Surjection, NewEvents, EventsAt
<1> QED
  BY <1>2, <1>3, FS_Surjection

\* The initial state has counted nothing.
LEMMA CountInit == Init => Phases /\ AcceptedOnce /\ Counting
<1> SUFFICES ASSUME Init PROVE Phases /\ AcceptedOnce /\ Counting
  OBVIOUS
<1>1. \A s \in Stores : {e \in counted : e.store = s} = {}
  BY DEF Init, RequestsInit
<1>2. Phases /\ AcceptedOnce
  BY DEF Init, RequestsInit, Phases, AcceptedOnce
<1>3. IsFiniteSet({}) /\ Cardinality({}) = 0
  BY FS_EmptySet
<1> QED
  BY <1>1, <1>2, <1>3 DEF Init, RequestsInit, Counting

\* Steps that only move requests on, or read, keep the counting facts.
LEMMA CountFrame ==
    ASSUME TypeOK, Kept, Phases, AcceptedOnce, Counting, NEW r \in Requests,
           NEW to \in PCs, pc[r] \notin {"insert", "sessions", "redis"},
           to \notin {"insert", "sessions", "redis"},
           pc' = [pc EXCEPT ![r] = to],
           UNCHANGED <<stored, batch, new, staged, sessioned, counted, visitorCount>>
    PROVE  Phases' /\ AcceptedOnce' /\ Counting'
  BY DEF TypeOK, RequestsTypeOK, Phases, AcceptedOnce, Counting

\* Every step of every request keeps the counting facts.
LEMMA CountStep ==
    ASSUME TypeOK, Kept, Phases, AcceptedOnce, Counting, [Next]_vars
    PROVE  Phases' /\ AcceptedOnce' /\ Counting'
<1> USE DEF Goto
<1>1. ASSUME NEW r \in Requests,
             \/ Refuse(r)
             \/ \E b \in Batches : RefuseLong(r, b)
             \/ \E s \in Stores : ReadVisitors(r, s)
             \/ ReadDepth(r) \/ ReadConversions(r) \/ ReadTs(r)
             \/ Publish(r) \/ SkipPublish(r) \/ Respond(r)
      PROVE  Phases' /\ AcceptedOnce' /\ Counting'
  <2>1. PICK to \in PCs : /\ pc[r] \notin {"insert", "sessions", "redis"}
                          /\ to \notin {"insert", "sessions", "redis"}
                          /\ pc' = [pc EXCEPT ![r] = to]
    BY <1>1 DEF Refuse, RefuseLong, ReadVisitors, ReadDepth, ReadConversions, ReadTs,
       ReadField, Publish, SkipPublish, Respond, PCs
  <2>2. UNCHANGED <<stored, batch, new, staged, sessioned, counted, visitorCount>>
    BY <1>1 DEF Refuse, RefuseLong, ReadVisitors, ReadDepth, ReadConversions, ReadTs,
       ReadField, Publish, SkipPublish, Respond, redisVars
  <2> QED
    BY <2>1, <2>2, CountFrame
<1>2. ASSUME NEW r \in Requests, NEW b \in Batches, Receive(r, b)
      PROVE  Phases' /\ AcceptedOnce' /\ Counting'
  <2>1. new[r] = {} /\ new' = new
    BY <1>2 DEF Receive, Kept
  <2> QED
    BY <1>2, <2>1 DEF Receive, TypeOK, RequestsTypeOK, Phases, AcceptedOnce, Counting,
       redisVars
<1>3. ASSUME NEW r \in Requests, InsertEvent(r)
      PROVE  Phases' /\ AcceptedOnce' /\ Counting'
  <2>1. PICK i \in left[r] :
          /\ InsertBlockers(r, batch[r][i]) = {}
          /\ new' = [new EXCEPT ![r] =
                      IF batch[r][i] \in stored \cup Pending(r) THEN @ ELSE @ \cup {i}]
    BY <1>3 DEF InsertEvent
  <2>2. UNCHANGED <<stored, pc, batch, staged, sessioned, counted, visitorCount>>
    BY <1>3 DEF InsertEvent, redisVars
  <2>3. CASE new' = new
    BY <2>2, <2>3 DEF Phases, AcceptedOnce, Counting
  <2>4. CASE /\ batch[r][i] \notin stored \cup Pending(r)
             /\ new' = [new EXCEPT ![r] = @ \cup {i}]
    <3>1. ASSUME NEW q \in Requests, NEW j \in new[q]
          PROVE  batch[q][j] # batch[r][i]
      <4>1. CASE pc[q] = "insert"
        <5>1. batch[q][j] \in Pending(q)
          BY <4>1 DEF Pending, NewEvents, EventsAt
        <5>2. q # r => batch[r][i] \notin Pending(q)
          BY <2>1 DEF InsertBlockers
        <5> QED
          BY <2>4, <5>1, <5>2
      <4>2. CASE pc[q] # "insert"
        BY <2>4, <4>2 DEF Phases
      <4> QED
        BY <4>1, <4>2
    <3>2. AcceptedOnce'
      BY <2>2, <2>4, <3>1 DEF AcceptedOnce, TypeOK, RequestsTypeOK
    <3>3. Phases'
      BY <1>3, <2>2, <2>4 DEF InsertEvent, Phases, Counting, TypeOK, RequestsTypeOK
    <3> QED
      BY <2>2, <3>2, <3>3 DEF Counting
  <2> QED
    BY <2>1, <2>3, <2>4 DEF TypeOK, RequestsTypeOK
<1>4. ASSUME NEW r \in Requests, CommitEvents(r)
      PROVE  Phases' /\ AcceptedOnce' /\ Counting'
  <2>1. /\ pc[r] = "insert" /\ pc' = [pc EXCEPT ![r] = "sessions"]
        /\ stored' = stored \cup NewEvents(r)
        /\ UNCHANGED <<batch, new, staged, sessioned, counted, visitorCount>>
    BY <1>4 DEF CommitEvents, Pending, redisVars
  <2>2. IsFiniteSet(stored')
    BY <2>1, FinitelyManyNew, FS_Union DEF Counting
  <2>3. \A q \in Requests \ {r} : \A j \in new[q] : batch[q][j] \notin NewEvents(r)
    BY DEF NewEvents, EventsAt, AcceptedOnce
  <2>4. \A i \in new[r] : batch[r][i] \in NewEvents(r)
    BY DEF NewEvents, EventsAt
  <2>5. Phases'
    BY <2>1, <2>3, <2>4 DEF Phases, TypeOK, RequestsTypeOK
  <2> QED
    BY <2>1, <2>2, <2>5 DEF AcceptedOnce, Counting
<1>5. ASSUME NEW r \in Requests, UpdateSession(r)
      PROVE  Phases' /\ AcceptedOnce' /\ Counting'
  BY <1>5 DEF UpdateSession, Phases, AcceptedOnce, Counting, redisVars
<1>6. ASSUME NEW r \in Requests, CommitSessions(r)
      PROVE  Phases' /\ AcceptedOnce' /\ Counting'
  <2>1. /\ pc[r] = "sessions" /\ pc' = [pc EXCEPT ![r] = "redis"]
        /\ sessioned' = sessioned \cup NewEvents(r)
        /\ staged' = [staged EXCEPT ![r] =
             UNION {{<<i, op>> : op \in StagedOps(batch[r][i])} : i \in new[r]}]
        /\ UNCHANGED <<stored, batch, new, counted, visitorCount>>
    BY <1>6 DEF CommitSessions, redisVars
  <2>2. \A q \in Requests \ {r} : \A j \in new[q] : batch[q][j] \notin NewEvents(r)
    BY DEF NewEvents, EventsAt, AcceptedOnce
  <2>3. \A i \in new[r] : batch[r][i] \in NewEvents(r)
    BY DEF NewEvents, EventsAt
  <2>4. \A i \in new[r] : (<<i, "visitor">> \in staged'[r] <=> IsVisitorEntry(batch[r][i]))
    BY <2>1 DEF StagedOps, IsVisitorEntry, TypeOK, RequestsTypeOK
  <2>5. \A c \in staged'[r] : c[1] \in new[r] /\ c = <<c[1], c[2]>>
    BY <2>1 DEF TypeOK, RequestsTypeOK
  <2>6. NewEvents(r) \subseteq stored /\ NewEvents(r) \cap counted = {}
    <3>1. \A i \in new[r] : batch[r][i] \in stored /\ batch[r][i] \notin counted
      BY <2>1 DEF Phases, Counting
    <3> QED
      BY <3>1 DEF NewEvents, EventsAt
  <2>7. Phases'
    BY <2>1, <2>2, <2>3, <2>4, <2>5, <2>6 DEF Phases, TypeOK, RequestsTypeOK
  <2> QED
    BY <2>1, <2>6, <2>7 DEF AcceptedOnce, Counting
<1>7. ASSUME NEW r \in Requests, LookAtQueue(r)
      PROVE  Phases' /\ AcceptedOnce' /\ Counting'
  <2>1. PICK i \in left[r] : staged' = [staged EXCEPT ![r] =
                               IF queueDepth[batch[r][i].store] > 0
                               THEN @ \cup {<<i, "decrDepth">>} ELSE @]
    BY <1>7 DEF LookAtQueue
  <2>2. /\ pc[r] = "redis"
        /\ UNCHANGED <<stored, pc, batch, new, sessioned, counted, visitorCount>>
    BY <1>7 DEF LookAtQueue, redisVars
  <2>3. \/ staged' = staged
        \/ staged' = [staged EXCEPT ![r] = @ \cup {<<i, "decrDepth">>}]
    BY <2>1 DEF TypeOK, RequestsTypeOK
  <2>4. ASSUME NEW q \in Requests, NEW c, c[2] = "visitor"
        PROVE  c \in staged'[q] <=> c \in staged[q]
    <3>1. c # <<i, "decrDepth">>
      BY <2>4
    <3>2. \/ staged'[q] = staged[q]
          \/ staged'[q] = staged[q] \cup {<<i, "decrDepth">>}
      BY <2>3 DEF TypeOK, RequestsTypeOK
    <3> QED
      BY <3>1, <3>2
  <2>5. \A q \in Requests \ {r} : staged'[q] = staged[q]
    BY <2>3 DEF TypeOK, RequestsTypeOK
  <2>6. Phases'
    BY <2>2, <2>4, <2>5 DEF Phases
  <2> QED
    BY <2>2, <2>6 DEF AcceptedOnce, Counting
<1>8. ASSUME NEW r \in Requests, RedisCommand(r)
      PROVE  Phases' /\ AcceptedOnce' /\ Counting'
  <2>1. PICK c \in staged[r] :
          /\ Execute(batch[r][c[1]], c[2])
          /\ staged' = [staged EXCEPT ![r] = @ \ {c}]
    BY <1>8 DEF RedisCommand
  <2>2. /\ pc[r] = "redis"
        /\ UNCHANGED <<stored, pc, batch, new, sessioned>>
    BY <1>8 DEF RedisCommand
  <2>3. c[1] \in new[r] /\ c[2] \in Ops /\ c = <<c[1], c[2]>>
    BY DEF TypeOK, RequestsTypeOK
  <2>4. AcceptedOnce'
    BY <2>2 DEF AcceptedOnce
  <2>5. CASE c[2] # "visitor"
    <3>1. UNCHANGED <<counted, visitorCount>>
      BY <2>1, <2>5 DEF Execute
    <3>2. \A q \in Requests : \A i \in new[q] :
            (<<i, "visitor">> \in staged'[q] <=> <<i, "visitor">> \in staged[q])
      BY <2>1, <2>3, <2>5 DEF TypeOK, RequestsTypeOK
    <3>3. \A q \in Requests : staged'[q] \subseteq staged[q]
      BY <2>1 DEF TypeOK, RequestsTypeOK
    <3>4. Phases'
      BY <2>2, <3>1, <3>2, <3>3 DEF Phases
    <3> QED
      BY <2>2, <2>4, <3>1, <3>4 DEF Counting
  <2>6. CASE c[2] = "visitor"
    <3> DEFINE e == batch[r][c[1]]
    <3>1. /\ counted' = counted \cup {e}
          /\ visitorCount' = [visitorCount EXCEPT ![e.store] = @ + 1]
      BY <2>1, <2>6 DEF Execute, Bump
    <3>2. IsVisitorEntry(e) /\ e \in sessioned /\ e \notin counted
      BY <2>2, <2>3, <2>6 DEF Phases
    <3>3. e.store \in Stores
      BY <2>3, IndexedEvent DEF TypeOK, RequestsTypeOK, Event
    <3>4. \A q \in Requests : \A i \in new[q] : batch[q][i] = e => q = r /\ i = c[1]
      BY <2>3 DEF AcceptedOnce
    <3>5. Phases'
      <4>1. \A q \in Requests : staged'[q] \subseteq staged[q]
        BY <2>1 DEF TypeOK, RequestsTypeOK
      <4>2. ASSUME NEW q \in Requests, NEW i \in new[q]
            PROVE  <<i, "visitor">> \in staged'[q]
                     <=> <<i, "visitor">> \in staged[q] /\ ~(q = r /\ i = c[1])
        <5>1. q # r => staged'[q] = staged[q]
          BY <2>1 DEF TypeOK, RequestsTypeOK
        <5>2. staged'[r] = staged[r] \ {c}
          BY <2>1 DEF TypeOK, RequestsTypeOK
        <5>3. c = <<i, "visitor">> <=> i = c[1]
          BY <2>3, <2>6
        <5> QED
          BY <5>1, <5>2, <5>3
      <4>3. ASSUME NEW q \in Requests, NEW i \in new[q],
                   IsVisitorEntry(batch[q][i]), batch[q][i] \in sessioned
            PROVE  batch[q][i] \notin counted' <=> <<i, "visitor">> \in staged'[q]
        <5>1. CASE q = r /\ i = c[1]
          BY <3>1, <4>2, <5>1
        <5>2. CASE ~(q = r /\ i = c[1])
          <6>1. batch[q][i] \notin counted' <=> batch[q][i] \notin counted
            BY <3>1, <3>4, <5>2
          <6>2. batch[q][i] \notin counted <=> <<i, "visitor">> \in staged[q]
            BY <4>3 DEF Phases
          <6> QED
            BY <4>2, <5>2, <6>1, <6>2
        <5> QED
          BY <5>1, <5>2
      <4> QED
        BY <2>2, <4>1, <4>3 DEF Phases
    <3>6. ASSUME NEW s \in Stores
          PROVE  visitorCount'[s] = Cardinality({x \in counted' : x.store = s})
      <4> DEFINE before == {x \in counted : x.store = s}
      <4>1. IsFiniteSet(before)
        BY FS_Subset DEF Counting
      <4>2. CASE s = e.store
        <5>1. {x \in counted' : x.store = s} = before \cup {e} /\ e \notin before
          BY <3>1, <3>2, <4>2
        <5>2. Cardinality(before \cup {e}) = Cardinality(before) + 1
          BY <4>1, <5>1, FS_AddElement
        <5> QED
          BY <3>1, <3>3, <4>2, <5>1, <5>2 DEF Counting, TypeOK, RedisTypeOK
      <4>3. CASE s # e.store
        <5>1. {x \in counted' : x.store = s} = before
          BY <3>1, <4>3
        <5> QED
          BY <3>1, <3>3, <4>3, <5>1 DEF Counting, TypeOK, RedisTypeOK
      <4> QED
        BY <4>2, <4>3
    <3> QED
      BY <2>2, <2>4, <3>1, <3>2, <3>5, <3>6 DEF Counting
  <2> QED
    BY <2>5, <2>6
<1>9. ASSUME NEW r \in Requests, PipelineDone(r)
      PROVE  Phases' /\ AcceptedOnce' /\ Counting'
  BY <1>9 DEF PipelineDone, Phases, AcceptedOnce, Counting, redisVars, TypeOK,
     RequestsTypeOK
<1>10. ASSUME NEW r \in Requests, Abort(r)
       PROVE  Phases' /\ AcceptedOnce' /\ Counting'
  BY <1>10 DEF Abort, Phases, AcceptedOnce, Counting, redisVars, TypeOK, RequestsTypeOK
<1>11. ASSUME UNCHANGED vars
       PROVE  Phases' /\ AcceptedOnce' /\ Counting'
  BY <1>11 DEF vars, requestVars, redisVars, Phases, AcceptedOnce, Counting
<1> QED
  BY <1>1, <1>2, <1>3, <1>4, <1>5, <1>6, <1>7, <1>8, <1>9, <1>10, <1>11
     DEF Next, IngestNext, Arrive, Advance, Fail, DeadlockAbort, Resting

\* The invariant that carries the counts.
LEMMA CountInvariant == Spec => []IndInv
<1>1. Init => TypeOK /\ Kept /\ Phases /\ AcceptedOnce /\ Counting
  BY TypeInit, CountInit
<1>2. /\ TypeOK /\ Kept /\ Phases /\ AcceptedOnce /\ Counting /\ [Next]_vars
      => (TypeOK /\ Kept /\ Phases /\ AcceptedOnce /\ Counting)'
  BY TypeStep, CountStep
<1> QED
  BY <1>1, <1>2, PTL DEF Spec, IndInv

\* The live visitor count of a store never exceeds the customer ENTRY events in
\* the events table, for any number of overlapping, failing, repeating requests.
THEOREM VisitorsNeverCountedTwice == Spec => []NoDoubleCount
<1>1. TypeOK /\ IndInv => NoDoubleCount
  <2> SUFFICES ASSUME TypeOK, IndInv, NEW s \in Stores
               PROVE  visitorCount[s] <= Cardinality(VisitorEntries(stored, s))
    BY DEF NoDoubleCount
  <2>1. {e \in counted : e.store = s} \subseteq VisitorEntries(stored, s)
    BY DEF IndInv, Counting, VisitorEntries
  <2>2. IsFiniteSet(VisitorEntries(stored, s))
    BY FS_Subset DEF IndInv, Counting, VisitorEntries
  <2>3. Cardinality({e \in counted : e.store = s}) <= Cardinality(VisitorEntries(stored, s))
    BY <2>1, <2>2, FS_Subset
  <2> QED
    BY <2>3 DEF IndInv, Counting
<1> QED
  BY <1>1, TypeCorrect, CountInvariant, PTL

\* No event is accepted by two requests, nor twice by one.
THEOREM EventsAcceptedOnce == Spec => []AcceptedOnce
<1>1. IndInv => AcceptedOnce
  BY DEF IndInv
<1> QED
  BY <1>1, CountInvariant, PTL

-----------------------------------------------------------------------------
(***************************************************************************)
(* Ingestion implements the event ledger, and its answers are honest, for  *)
(* every set of requests, events, batches and stores.  Both need to know   *)
(* when there is an answer with counts, and of what: Answers.              *)
(***************************************************************************)
\* Counts are given in the last step of a request, and name its new events.
Answers ==
    \A r \in Requests : answer[r] \in Answer =>
        /\ pc[r] = "done"
        /\ answer[r].accepted = Cardinality(new[r])

\* A step of a request that has not been answered, and is not by it, keeps the
\* answers of all and what they report.
LEMMA NotAnswered ==
    ASSUME TypeOK, Answers, NEW r \in Requests, pc[r] # "done",
           answer'[r] \notin Answer \/ (answer'[r] \in Answer /\ new'[r] = {}),
           \A q \in Requests \ {r} : /\ pc'[q] = pc[q] /\ answer'[q] = answer[q]
                                     /\ batch'[q] = batch[q] /\ new'[q] = new[q],
           answer'[r] \in Answer => pc'[r] = "done" /\ answer'[r].accepted = 0
    PROVE  Answers' /\ Reported' = Reported
<1>1. answer[r] \notin Answer
  BY DEF Answers
<1>2. Answers'
  BY FS_EmptySet DEF Answers
<1>3. \A q \in Requests : answer'[q] \in Answer /\ q # r <=> answer[q] \in Answer
  BY <1>1
<1>4. \A q \in Requests \ {r} : NewEvents(q)' = NewEvents(q)
  BY DEF NewEvents, EventsAt
<1>5. answer'[r] \in Answer => NewEvents(r)' = {}
  BY DEF NewEvents, EventsAt
<1>6. Reported' \subseteq Reported
  BY <1>3, <1>4, <1>5 DEF Reported
<1>7. Reported \subseteq Reported'
  BY <1>3, <1>4, <1>5 DEF Reported
<1> QED
  BY <1>2, <1>6, <1>7

-----------------------------------------------------------------------------
\* How far a request in a given phase has got with all of its new events.
LEMMA NewStored ==
    ASSUME Phases, NEW r \in Requests, pc[r] = "sessions"
    PROVE  NewEvents(r) \in SUBSET (stored \ sessioned)
<1>1. ASSUME NEW i \in new[r]
      PROVE  batch[r][i] \in stored /\ batch[r][i] \notin sessioned
  <2>1. pc[r] = "insert" <=> batch[r][i] \notin stored
    BY DEF Phases
  <2>2. pc[r] \in {"insert", "sessions"} <=> batch[r][i] \notin sessioned
    BY DEF Phases
  <2> QED
    BY <2>1, <2>2
<1> QED
  BY <1>1 DEF NewEvents, EventsAt

LEMMA NewApplied ==
    ASSUME Phases, NEW r \in Requests, pc[r] \notin {"insert", "sessions", "redis"}
    PROVE  /\ NewEvents(r) \subseteq sessioned
           /\ \A e \in NewEvents(r) : IsVisitorEntry(e) => e \in counted
<1>1. ASSUME NEW i \in new[r]
      PROVE  batch[r][i] \in sessioned
  <2>1. pc[r] \in {"insert", "sessions"} <=> batch[r][i] \notin sessioned
    BY DEF Phases
  <2> QED
    BY <2>1
<1>2. ASSUME NEW i \in new[r], IsVisitorEntry(batch[r][i])
      PROVE  batch[r][i] \in counted
  <2>1. staged[r] = {}
    BY DEF Phases
  <2>2. IsVisitorEntry(batch[r][i]) /\ batch[r][i] \in sessioned =>
            (batch[r][i] \notin counted <=> <<i, "visitor">> \in staged[r])
    BY DEF Phases
  <2> QED
    BY <1>1, <1>2, <2>1, <2>2
<1> QED
  BY <1>1, <1>2 DEF NewEvents, EventsAt

-----------------------------------------------------------------------------
\* The initial state is the empty ledger.
LEMMA LedgerInit == Init => Answers /\ Ledger!Init
<1> SUFFICES ASSUME Init PROVE Answers /\ Ledger!Init
  OBVIOUS
<1>1. \A r \in Requests : answer[r] \notin Answer
  BY IngestionAssumption DEF Init, RequestsInit
<1>2. Reported = {}
  BY <1>1 DEF Reported
<1> QED
  BY <1>1, <1>2 DEF Init, RequestsInit, Answers, Ledger!Init

\* Each step of a request is a step of the ledger or leaves it alone.
LEMMA LedgerStep ==
    ASSUME TypeOK, IndInv, Answers, [Next]_vars
    PROVE  Answers' /\ [Ledger!Next]_Ledger!vars
<1> USE DEF Goto
<1>1. Kept /\ Phases /\ AcceptedOnce /\ Counting
  BY DEF IndInv
<1>2. ASSUME NEW r \in Requests,
             \/ Refuse(r)
             \/ \E b \in Batches : RefuseLong(r, b) \/ Receive(r, b)
             \/ InsertEvent(r) \/ UpdateSession(r)
             \/ LookAtQueue(r) \/ PipelineDone(r)
             \/ \E s \in Stores : ReadVisitors(r, s)
             \/ ReadDepth(r) \/ ReadConversions(r) \/ ReadTs(r)
             \/ Publish(r) \/ SkipPublish(r) \/ Abort(r)
      PROVE  Answers' /\ [Ledger!Next]_Ledger!vars
  <2>1. UNCHANGED <<stored, sessioned, counted, visitorCount>>
    BY <1>2 DEF Refuse, RefuseLong, Receive, InsertEvent, UpdateSession, LookAtQueue,
       PipelineDone, ReadVisitors, ReadDepth, ReadConversions, ReadTs, ReadField, Publish,
       SkipPublish, Abort, redisVars
  <2>2. /\ pc[r] # "done"
        /\ \A q \in Requests \ {r} : /\ pc'[q] = pc[q] /\ answer'[q] = answer[q]
                                     /\ batch'[q] = batch[q] /\ new'[q] = new[q]
    BY <1>2 DEF Refuse, RefuseLong, Receive, InsertEvent, UpdateSession, LookAtQueue,
       PipelineDone, ReadVisitors, ReadDepth, ReadConversions, ReadTs, ReadField, Publish,
       SkipPublish, Abort, TypeOK, RequestsTypeOK
  <2>3. CASE Refuse(r) \/ \E b \in Batches : RefuseLong(r, b)
    <3>1. new'[r] = {} /\ pc'[r] = "done" /\ answer'[r].accepted = 0
      BY <1>1, <2>3 DEF Refuse, RefuseLong, Kept, TypeOK, RequestsTypeOK
    <3> QED
      BY <2>1, <2>2, <3>1, NotAnswered DEF Ledger!vars
  <2>4. CASE ~(Refuse(r) \/ \E b \in Batches : RefuseLong(r, b))
    <3>1. answer'[r] \in {answer[r], ServerError}
      BY <1>2, <2>4 DEF Receive, InsertEvent, UpdateSession, LookAtQueue,
         PipelineDone, ReadVisitors, ReadDepth, ReadConversions, ReadTs, ReadField, Publish,
         SkipPublish, Abort, TypeOK, RequestsTypeOK
    <3>2. answer'[r] \notin Answer
      BY <2>2, <3>1, IngestionAssumption DEF Answers
    <3> QED
      BY <2>1, <2>2, <3>2, NotAnswered DEF Ledger!vars
  <2> QED
    BY <2>3, <2>4
<1>3. ASSUME NEW r \in Requests, CommitEvents(r)
      PROVE  Answers' /\ [Ledger!Next]_Ledger!vars
  <2>1. /\ pc[r] = "insert" /\ pc' = [pc EXCEPT ![r] = "sessions"]
        /\ stored' = stored \cup NewEvents(r)
        /\ UNCHANGED <<batch, new, answer, sessioned, counted, visitorCount>>
    BY <1>3 DEF CommitEvents, Pending, redisVars
  <2>2. answer[r] \notin Answer
    BY <2>1 DEF Answers
  <2>3. Answers' /\ Reported' = Reported
    BY <2>1, <2>2, NotAnswered DEF TypeOK, RequestsTypeOK
  <2>4. NewEvents(r) \in SUBSET (Events \ stored)
    <3>1. ASSUME NEW i \in new[r]
          PROVE  batch[r][i] \in Events /\ batch[r][i] \notin stored
      <4>1. i \in DOMAIN batch[r]
        BY DEF TypeOK, RequestsTypeOK
      <4>2. pc[r] = "insert" <=> batch[r][i] \notin stored
        BY <1>1 DEF Phases
      <4> QED
        BY <2>1, <4>1, <4>2, IndexedEvent
    <3> QED
      BY <3>1 DEF NewEvents, EventsAt
  <2>5. Ledger!StoreBatch
    BY <2>1, <2>3, <2>4 DEF Ledger!StoreBatch
  <2> QED
    BY <2>3, <2>5 DEF Ledger!Next
<1>4. ASSUME NEW r \in Requests, CommitSessions(r)
      PROVE  Answers' /\ [Ledger!Next]_Ledger!vars
  <2>1. /\ pc[r] = "sessions" /\ pc' = [pc EXCEPT ![r] = "redis"]
        /\ sessioned' = sessioned \cup NewEvents(r)
        /\ UNCHANGED <<stored, batch, new, answer, counted, visitorCount>>
    BY <1>4 DEF CommitSessions, redisVars
  <2>2. answer[r] \notin Answer
    BY <2>1 DEF Answers
  <2>3. Answers' /\ Reported' = Reported
    BY <2>1, <2>2, NotAnswered DEF TypeOK, RequestsTypeOK
  <2>4. NewEvents(r) \in SUBSET (stored \ sessioned)
    BY <1>1, <2>1, NewStored
  <2>5. Ledger!ApplyBatch
    BY <2>1, <2>3, <2>4 DEF Ledger!ApplyBatch
  <2> QED
    BY <2>3, <2>5 DEF Ledger!Next
<1>5. ASSUME NEW r \in Requests, RedisCommand(r)
      PROVE  Answers' /\ [Ledger!Next]_Ledger!vars
  <2>1. PICK c \in staged[r] : Execute(batch[r][c[1]], c[2])
    BY <1>5 DEF RedisCommand
  <2>2. /\ pc[r] = "redis"
        /\ UNCHANGED <<stored, pc, batch, new, answer, sessioned>>
    BY <1>5 DEF RedisCommand
  <2>3. answer[r] \notin Answer
    BY <2>2 DEF Answers
  <2>4. Answers' /\ Reported' = Reported
    BY <2>2, <2>3, NotAnswered
  <2>5. CASE c[2] # "visitor"
    <3>1. UNCHANGED <<counted, visitorCount>>
      BY <2>1, <2>5 DEF Execute
    <3> QED
      BY <2>2, <2>4, <3>1 DEF Ledger!vars
  <2>6. CASE c[2] = "visitor"
    <3> DEFINE e == batch[r][c[1]]
    <3>1. /\ counted' = counted \cup {e}
          /\ visitorCount' = [visitorCount EXCEPT ![StoreOf(e)] = @ + 1]
      BY <2>1, <2>6 DEF Execute, Bump, StoreOf
    <3>2. c[1] \in new[r] /\ c = <<c[1], "visitor">>
      BY <2>6 DEF TypeOK, RequestsTypeOK
    <3>3. IsVisitorEntry(e) /\ e \in sessioned \ counted
      BY <1>1, <2>2, <2>6, <3>2 DEF Phases
    <3>4. Ledger!CountVisitor
      BY <2>2, <2>4, <3>1, <3>3 DEF Ledger!CountVisitor
    <3> QED
      BY <2>4, <3>4 DEF Ledger!Next
  <2> QED
    BY <2>5, <2>6
<1>6. ASSUME NEW r \in Requests, Respond(r)
      PROVE  Answers' /\ [Ledger!Next]_Ledger!vars
  <2>1. /\ pc[r] = "show" /\ pc' = [pc EXCEPT ![r] = "done"]
        /\ answer' = [answer EXCEPT ![r] = Counts(r)]
        /\ UNCHANGED <<stored, batch, new, sessioned, counted, visitorCount>>
    BY <1>6 DEF Respond, redisVars
  <2>2. answer[r] \notin Answer
    BY <2>1 DEF Answers
  <2>3. Counts(r) \in Answer /\ Counts(r).accepted = Cardinality(new[r])
    BY <1>1, CountsType DEF Counts
  <2>4. Answers'
    BY <2>1, <2>3 DEF Answers, TypeOK, RequestsTypeOK
  <2>5. Reported' = Reported \cup NewEvents(r)
    <3>1. \A q \in Requests : answer'[q] \in Answer <=> answer[q] \in Answer \/ q = r
      BY <2>1, <2>3 DEF TypeOK, RequestsTypeOK
    <3>2. \A q \in Requests : NewEvents(q)' = NewEvents(q)
      BY <2>1 DEF NewEvents, EventsAt
    <3> QED
      BY <3>1, <3>2 DEF Reported
  <2>6. NewEvents(r) \in SUBSET (sessioned \ Reported)
    <3>1. NewEvents(r) \subseteq sessioned
      BY <1>1, <2>1, NewApplied
    <3>2. ASSUME NEW q \in Requests, answer[q] \in Answer, NEW e \in NewEvents(r)
          PROVE  e \notin NewEvents(q)
      BY <1>1, <2>2, <3>2 DEF AcceptedOnce, NewEvents, EventsAt
    <3> QED
      BY <3>1, <3>2 DEF Reported
  <2>7. \A e \in NewEvents(r) : IsVisitorEntry(e) => e \in counted
    BY <1>1, <2>1, NewApplied
  <2>8. Ledger!Report
    BY <2>1, <2>5, <2>6, <2>7 DEF Ledger!Report
  <2> QED
    BY <2>4, <2>8 DEF Ledger!Next
<1>7. ASSUME UNCHANGED vars
      PROVE  Answers' /\ [Ledger!Next]_Ledger!vars
  <2>1. Reported' = Reported
    BY <1>7 DEF vars, requestVars, Reported, NewEvents, EventsAt
  <2> QED
    BY <1>7, <2>1 DEF vars, requestVars, redisVars, Answers, Ledger!vars
<1> QED
  BY <1>2, <1>3, <1>4, <1>5, <1>6, <1>7
     DEF Next, IngestNext, Arrive, Advance, Fail, DeadlockAbort, Resting

-----------------------------------------------------------------------------
\* Ingestion keeps the promise of the event ledger: whatever requests overlap,
\* fail and repeat each other's events, each event is stored, applied, counted and
\* reported at most once, in this order, and nothing is ever taken back.
THEOREM LedgerImplemented == Spec => LedgerSpec
<1>1. Init => Ledger!Init
  BY LedgerInit
<1>2. Init => Answers
  BY LedgerInit
<1>3. TypeOK /\ IndInv /\ Answers /\ [Next]_vars => Answers' /\ [Ledger!Next]_Ledger!vars
  BY LedgerStep
<1> QED
  BY <1>1, <1>2, <1>3, TypeCorrect, CountInvariant, PTL DEF Spec, LedgerSpec, Ledger!Spec

\* An answer with counts is honest: all that it accepts was applied to the
\* sessions, its customers are in the live count, and it says how many there are.
THEOREM AnswersAreHonest == Spec => []AnsweredMeansApplied
<1>1. TypeOK /\ IndInv /\ Answers => AnsweredMeansApplied
  <2> SUFFICES ASSUME TypeOK, Kept, Phases, AcceptedOnce, Answers,
                      NEW r \in Requests, answer[r] \in Answer
               PROVE  /\ NewEvents(r) \subseteq sessioned
                      /\ {e \in NewEvents(r) : IsVisitorEntry(e)} \subseteq counted
                      /\ answer[r].accepted = Cardinality(NewEvents(r))
    BY DEF AnsweredMeansApplied, IndInv
  <2>1. pc[r] = "done"
    BY DEF Answers
  <2>2. NewEvents(r) \subseteq sessioned
    BY <2>1, NewApplied
  <2>3. {e \in NewEvents(r) : IsVisitorEntry(e)} \subseteq counted
    BY <2>1, NewApplied
  <2>4. Cardinality(NewEvents(r)) = Cardinality(new[r])
    <3> DEFINE f == [i \in new[r] |-> batch[r][i]]
    <3>1. \A i, j \in new[r] : batch[r][i] = batch[r][j] => i = j
      BY DEF AcceptedOnce
    <3>2. f \in [new[r] -> NewEvents(r)]
      BY DEF NewEvents, EventsAt
    <3>3. \A t \in NewEvents(r) : \E i \in new[r] : f[i] = t
      BY DEF NewEvents, EventsAt
    <3>4. ExistsBijection(new[r], NewEvents(r))
      <4>1. IsInjective(f)
        BY <3>1 DEF IsInjective
      <4> HIDE DEF f
      <4>2. f \in Bijection(new[r], NewEvents(r))
        BY <3>2, <3>3, <4>1 DEF Bijection, Injection, Surjection
      <4> QED
        BY <4>2 DEF ExistsBijection
    <3>5. IsFiniteSet(new[r])
      <4> DEFINE n == Len(batch[r])
      <4>1. n \in Nat /\ new[r] \in SUBSET (1..n)
        BY DEF TypeOK, RequestsTypeOK
      <4> HIDE DEF n
      <4>2. IsFiniteSet(1..n)
        BY <4>1, FS_Interval
      <4> QED
        BY <4>1, <4>2, FS_Subset
    <3> QED
      BY <3>4, <3>5, FS_Bijection
  <2> QED
    BY <2>2, <2>3, <2>4 DEF Answers
<1>2. Init => Answers
  BY LedgerInit
<1>3. TypeOK /\ IndInv /\ Answers /\ [Next]_vars => Answers'
  BY LedgerStep
<1> QED
  BY <1>1, <1>2, <1>3, TypeCorrect, CountInvariant, PTL DEF Spec

-----------------------------------------------------------------------------
(***************************************************************************)
(* How far the queue depth of a store can fall below zero, for every set   *)
(* of requests, events, batches and stores.  Each customer EXIT takes the  *)
(* depth down once at most, and only if it was positive when the EXIT was  *)
(* staged: below zero, every decrement since then belongs to an EXIT of    *)
(* its own (Drift).                                                        *)
(***************************************************************************)
Decrement(i) == <<i, "decrDepth">>

\* Request r may still decrement the depth for event e.
Owes(r, e) ==
    \E i \in new[r] :
        /\ batch[r][i] = e
        /\ pc[r] \in {"insert", "sessions"} \/ i \in left[r] \/ Decrement(i) \in staged[r]

\* The customer exits whose decrement has been executed, skipped or lost.
Settled(s) == {e \in CustomerExits(stored, s) : \A r \in Requests : ~Owes(r, e)}

\* Depths are reported by queue joins and decremented for customer exits.
StagedRight ==
    \A r \in Requests :
        /\ \A i \in new[r] :
             /\ <<i, "setDepth">> \in staged[r] => IsJoin(batch[r][i])
             /\ Decrement(i) \in staged[r] => LooksAtQueue(batch[r][i])
        /\ pc[r] = "redis" => \A i \in left[r] : LooksAtQueue(batch[r][i])

\* A decrement of the depth of store s is on its way.
Staged(s) ==
    \E r \in Requests : \E i \in new[r] :
        Decrement(i) \in staged[r] /\ batch[r][i].store = s

\* The depth has fallen by the settled exits at most, from one or more; or it
\* has not been positive since, and nothing is under way.
Drift ==
    \A s \in Stores :
        \/ queueDepth[s] >= 1 - Cardinality(Settled(s))
        \/ queueDepth[s] >= 0 /\ ~Staged(s)

-----------------------------------------------------------------------------
LEMMA SettledFinite ==
    ASSUME Counting, NEW s
    PROVE  IsFiniteSet(Settled(s)) /\ Cardinality(Settled(s)) \in Nat
<1>1. Settled(s) \subseteq stored
  BY DEF Settled, CustomerExits
<1> QED
  BY <1>1, FS_Subset, FS_CardinalityType DEF Counting

\* What is settled stays settled.
LEMMA SettledGrow ==
    ASSUME Counting', NEW s, stored \subseteq stored',
           \A r \in Requests : \A e \in stored : Owes(r, e)' => Owes(r, e)
    PROVE  /\ Settled(s) \subseteq Settled(s)'
           /\ Cardinality(Settled(s)) <= Cardinality(Settled(s))'
           /\ Cardinality(Settled(s)) \in Nat /\ Cardinality(Settled(s))' \in Nat
<1>1. Settled(s) \subseteq Settled(s)' /\ Settled(s)' \subseteq stored'
  BY DEF Settled, CustomerExits
<1>2. IsFiniteSet(Settled(s)')
  BY <1>1, FS_Subset DEF Counting
<1> QED
  BY <1>1, <1>2, FS_Subset, FS_CardinalityType

\* A step that neither executes a command nor stages a decrement.
LEMMA DriftFrame ==
    ASSUME TypeOK, Drift, Counting', stored \subseteq stored', UNCHANGED queueDepth,
           \A r \in Requests : \A e \in stored : Owes(r, e)' => Owes(r, e),
           \A s \in Stores : Staged(s)' => Staged(s)
    PROVE  Drift'
<1>1. \A s \in Stores : queueDepth[s] \in Int
  BY DEF TypeOK, RedisTypeOK
<1> SUFFICES ASSUME NEW s \in Stores
             PROVE  \/ queueDepth'[s] >= 1 - Cardinality(Settled(s))'
                    \/ queueDepth'[s] >= 0 /\ ~Staged(s)'
  BY DEF Drift
<1>2. /\ Cardinality(Settled(s)) <= Cardinality(Settled(s))'
      /\ Cardinality(Settled(s)) \in Nat /\ Cardinality(Settled(s))' \in Nat
  BY SettledGrow
<1>3. \/ queueDepth[s] >= 1 - Cardinality(Settled(s))
      \/ queueDepth[s] >= 0 /\ ~Staged(s)
  BY DEF Drift
<1> QED
  BY <1>1, <1>2, <1>3

LEMMA DriftInit == Init => StagedRight /\ Drift
<1> SUFFICES ASSUME Init PROVE StagedRight /\ Drift
  OBVIOUS
<1>1. StagedRight /\ \A s \in Stores : ~Staged(s) /\ queueDepth[s] = 0
  BY DEF Init, RequestsInit, StagedRight, Staged
<1> QED
  BY <1>1 DEF Drift

\* A step that stages and executes nothing.
LEMMA QuietStep ==
    ASSUME TypeOK, Counting', StagedRight, Drift, NEW r \in Requests, NEW to \in PCs,
           pc[r] \notin {"insert", "sessions"}, to \notin {"insert", "sessions"},
           to = "redis" => pc[r] = "redis",
           pc' = [pc EXCEPT ![r] = to],
           UNCHANGED <<stored, batch, new, left, staged, queueDepth>>
    PROVE  StagedRight' /\ Drift'
<1>1. StagedRight'
  BY DEF StagedRight, TypeOK, RequestsTypeOK
<1>2. \A q \in Requests : \A e \in stored : Owes(q, e)' => Owes(q, e)
  BY DEF Owes, TypeOK, RequestsTypeOK
<1>3. \A s \in Stores : Staged(s)' => Staged(s)
  BY DEF Staged
<1> QED
  BY <1>1, <1>2, <1>3, DriftFrame

\* Every step of every request keeps the bound on the drift.
LEMMA DriftStep ==
    ASSUME TypeOK, IndInv, Counting', StagedRight, Drift, [Next]_vars
    PROVE  StagedRight' /\ Drift'
<1> USE DEF Goto
<1>a. Kept /\ Phases /\ AcceptedOnce /\ Counting /\ RequestsTypeOK
  BY DEF IndInv, TypeOK
<1>b. queueDepth \in [Stores -> Int]
  BY DEF TypeOK, RedisTypeOK
<1>1. ASSUME NEW r \in Requests,
             \/ Refuse(r)
             \/ \E b \in Batches : RefuseLong(r, b)
             \/ \E s \in Stores : ReadVisitors(r, s)
             \/ ReadDepth(r) \/ ReadConversions(r) \/ ReadTs(r)
             \/ Publish(r) \/ SkipPublish(r) \/ Respond(r) \/ PipelineDone(r)
      PROVE  StagedRight' /\ Drift'
  <2>1. PICK to \in PCs : /\ pc[r] \notin {"insert", "sessions"}
                          /\ to \notin {"insert", "sessions", "redis"}
                          /\ pc' = [pc EXCEPT ![r] = to]
    BY <1>1 DEF Refuse, RefuseLong, ReadVisitors, ReadDepth, ReadConversions, ReadTs,
       ReadField, Publish, SkipPublish, Respond, PipelineDone, PCs
  <2>2. UNCHANGED <<stored, batch, new, left, staged, queueDepth>>
    BY <1>1 DEF Refuse, RefuseLong, ReadVisitors, ReadDepth, ReadConversions, ReadTs,
       ReadField, Publish, SkipPublish, Respond, PipelineDone, redisVars
  <2> QED
    BY <2>1, <2>2, QuietStep
<1>2. ASSUME NEW r \in Requests, NEW b \in Batches, Receive(r, b)
      PROVE  StagedRight' /\ Drift'
  <2>1. /\ pc' = [pc EXCEPT ![r] = "insert"] /\ new[r] = {}
        /\ \A q \in Requests \ {r} : batch'[q] = batch[q] /\ left'[q] = left[q]
        /\ UNCHANGED <<stored, new, staged, queueDepth>>
    BY <1>2, <1>a DEF Receive, Kept, redisVars, RequestsTypeOK
  <2>2. StagedRight'
    BY <2>1, <1>a DEF StagedRight, RequestsTypeOK
  <2>3. \A q \in Requests : \A e \in stored : Owes(q, e)' => Owes(q, e)
    BY <2>1, <1>a DEF Owes, RequestsTypeOK
  <2>4. \A s \in Stores : Staged(s)' => Staged(s)
    BY <2>1 DEF Staged
  <2> QED
    BY <2>1, <2>2, <2>3, <2>4, DriftFrame
<1>3. ASSUME NEW r \in Requests, InsertEvent(r)
      PROVE  StagedRight' /\ Drift'
  <2>1. PICK i \in left[r] :
          /\ new' = [new EXCEPT ![r] =
                      IF batch[r][i] \in stored \cup Pending(r) THEN @ ELSE @ \cup {i}]
          /\ left' = [left EXCEPT ![r] = @ \ {i}]
    BY <1>3 DEF InsertEvent
  <2>2. pc[r] = "insert" /\ UNCHANGED <<stored, pc, batch, staged, queueDepth>>
    BY <1>3 DEF InsertEvent, redisVars
  <2>3. \A q \in Requests \ {r} : new'[q] = new[q] /\ left'[q] = left[q]
    BY <2>1, <1>a DEF RequestsTypeOK
  <2>4. staged[r] = {}
    BY <2>2, <1>a DEF Phases
  <2>5. \A j \in new'[r] : j \in new[r] \/ batch[r][j] \notin stored
    BY <2>1, <1>a DEF RequestsTypeOK
  <2>6. StagedRight'
    BY <2>2, <2>3, <2>4 DEF StagedRight
  <2>7. \A q \in Requests : \A e \in stored : Owes(q, e)' => Owes(q, e)
    BY <2>2, <2>3, <2>5 DEF Owes
  <2>8. \A s \in Stores : Staged(s)' => Staged(s)
    BY <2>2, <2>3, <2>4 DEF Staged
  <2> QED
    BY <2>2, <2>6, <2>7, <2>8, DriftFrame
<1>4. ASSUME NEW r \in Requests, CommitEvents(r)
      PROVE  StagedRight' /\ Drift'
  <2>1. /\ pc[r] = "insert" /\ pc' = [pc EXCEPT ![r] = "sessions"]
        /\ stored \subseteq stored'
        /\ left' = [left EXCEPT ![r] = new[r]]
        /\ UNCHANGED <<batch, new, staged, queueDepth>>
    BY <1>4 DEF CommitEvents, redisVars
  <2>2. StagedRight'
    BY <2>1, <1>a DEF StagedRight, RequestsTypeOK
  <2>3. \A q \in Requests : \A e \in stored : Owes(q, e)' => Owes(q, e)
    BY <2>1, <1>a DEF Owes, RequestsTypeOK
  <2>4. \A s \in Stores : Staged(s)' => Staged(s)
    BY <2>1 DEF Staged
  <2> QED
    BY <2>1, <2>2, <2>3, <2>4, DriftFrame
<1>5. ASSUME NEW r \in Requests, UpdateSession(r)
      PROVE  StagedRight' /\ Drift'
  <2>1. PICK i \in left[r] : left' = [left EXCEPT ![r] = @ \ {i}]
    BY <1>5 DEF UpdateSession
  <2>2. /\ pc[r] = "sessions"
        /\ UNCHANGED <<stored, pc, batch, new, staged, queueDepth>>
    BY <1>5 DEF UpdateSession, redisVars
  <2>3. StagedRight'
    BY <2>1, <2>2, <1>a DEF StagedRight, RequestsTypeOK
  <2>4. \A q \in Requests : \A e \in stored : Owes(q, e)' => Owes(q, e)
    BY <2>1, <2>2, <1>a DEF Owes, RequestsTypeOK
  <2>5. \A s \in Stores : Staged(s)' => Staged(s)
    BY <2>2 DEF Staged
  <2> QED
    BY <2>2, <2>3, <2>4, <2>5, DriftFrame
<1>6. ASSUME NEW r \in Requests, CommitSessions(r)
      PROVE  StagedRight' /\ Drift'
  <2>1. /\ pc[r] = "sessions" /\ pc' = [pc EXCEPT ![r] = "redis"]
        /\ staged' = [staged EXCEPT ![r] =
             UNION {{<<i, op>> : op \in StagedOps(batch[r][i])} : i \in new[r]}]
        /\ left' = [left EXCEPT ![r] = {i \in new[r] : LooksAtQueue(batch[r][i])}]
        /\ UNCHANGED <<stored, batch, new, queueDepth>>
    BY <1>6 DEF CommitSessions, redisVars
  <2>2. \A q \in Requests \ {r} : /\ staged'[q] = staged[q] /\ left'[q] = left[q]
                                  /\ pc'[q] = pc[q]
    BY <2>1, <1>a DEF RequestsTypeOK
  <2>3. staged'[r] = UNION {{<<i, op>> : op \in StagedOps(batch[r][i])} : i \in new[r]}
    BY <2>1, <1>a DEF RequestsTypeOK
  <2>4. \A i \in new[r] : /\ Decrement(i) \notin staged'[r]
                          /\ <<i, "setDepth">> \in staged'[r] => IsJoin(batch[r][i])
    BY <2>3 DEF Decrement, StagedOps, IsJoin
  <2>5. StagedRight'
    BY <2>1, <2>2, <2>4, <1>a DEF StagedRight, RequestsTypeOK
  <2>6. \A q \in Requests : \A e \in stored : Owes(q, e)' => Owes(q, e)
    BY <2>1, <2>2 DEF Owes
  <2>7. \A s \in Stores : Staged(s)' => Staged(s)
    BY <2>1, <2>2, <2>4 DEF Staged
  <2> QED
    BY <2>1, <2>5, <2>6, <2>7, DriftFrame
<1>7. ASSUME NEW r \in Requests, LookAtQueue(r)
      PROVE  StagedRight' /\ Drift'
  <2>1. PICK i \in left[r] :
          /\ staged' = [staged EXCEPT ![r] =
                         IF queueDepth[batch[r][i].store] > 0
                         THEN @ \cup {<<i, "decrDepth">>} ELSE @]
          /\ left' = [left EXCEPT ![r] = @ \ {i}]
    BY <1>7 DEF LookAtQueue
  <2>2. pc[r] = "redis" /\ UNCHANGED <<stored, pc, batch, new, queueDepth>>
    BY <1>7 DEF LookAtQueue, redisVars
  <2>3. LooksAtQueue(batch[r][i])
    BY <2>2 DEF StagedRight
  <2>4. \A q \in Requests \ {r} : staged'[q] = staged[q] /\ left'[q] = left[q]
    BY <2>1, <1>a DEF RequestsTypeOK
  <2>5. left'[r] = left[r] \ {i}
    BY <2>1, <1>a DEF RequestsTypeOK
  <2>6. CASE queueDepth[batch[r][i].store] > 0
    <3>1. staged'[r] = staged[r] \cup {Decrement(i)}
      BY <2>1, <2>6, <1>a DEF RequestsTypeOK, Decrement
    <3>2. \A j : /\ <<j, "setDepth">> \in staged'[r] => <<j, "setDepth">> \in staged[r]
                 /\ Decrement(j) \in staged'[r] => Decrement(j) \in staged[r] \/ j = i
      BY <3>1 DEF Decrement
    <3>3. StagedRight'
      BY <2>2, <2>3, <2>4, <2>5, <3>2 DEF StagedRight
    <3>4. \A q \in Requests : \A e \in stored : Owes(q, e)' => Owes(q, e)
      BY <2>2, <2>4, <2>5, <3>2 DEF Owes
    <3>5. ASSUME NEW s \in Stores
          PROVE  \/ queueDepth'[s] >= 1 - Cardinality(Settled(s))'
                 \/ queueDepth'[s] >= 0 /\ ~Staged(s)'
      <4>1. /\ Cardinality(Settled(s)) <= Cardinality(Settled(s))'
            /\ Cardinality(Settled(s)) \in Nat /\ Cardinality(Settled(s))' \in Nat
        BY <2>2, <3>4, SettledGrow
      <4>2. CASE s = batch[r][i].store
        BY <2>2, <2>6, <4>1, <4>2, <1>b
      <4>3. CASE s # batch[r][i].store
        <5>1. Staged(s)' => Staged(s)
          BY <2>2, <2>4, <3>2, <4>3 DEF Staged
        <5> QED
          BY <2>2, <4>1, <5>1, <1>b DEF Drift
      <4> QED
        BY <4>2, <4>3
    <3> QED
      BY <3>3, <3>5 DEF Drift
  <2>7. CASE ~(queueDepth[batch[r][i].store] > 0)
    <3>1. staged'[r] = staged[r]
      BY <2>1, <2>7, <1>a DEF RequestsTypeOK
    <3>2. StagedRight'
      BY <2>2, <2>4, <2>5, <3>1 DEF StagedRight
    <3>3. \A q \in Requests : \A e \in stored : Owes(q, e)' => Owes(q, e)
      BY <2>2, <2>4, <2>5, <3>1 DEF Owes
    <3>4. \A s \in Stores : Staged(s)' => Staged(s)
      BY <2>2, <2>4, <3>1 DEF Staged
    <3> QED
      BY <2>2, <3>2, <3>3, <3>4, DriftFrame
  <2> QED
    BY <2>6, <2>7
<1>8. ASSUME NEW r \in Requests, RedisCommand(r)
      PROVE  StagedRight' /\ Drift'
  <2>1. PICK c \in staged[r] :
          /\ Execute(batch[r][c[1]], c[2])
          /\ staged' = [staged EXCEPT ![r] = @ \ {c}]
    BY <1>8 DEF RedisCommand
  <2>2. pc[r] = "redis" /\ left[r] = {} /\ UNCHANGED <<stored, pc, batch, left, new>>
    BY <1>8 DEF RedisCommand
  <2>3. /\ c[1] \in new[r] /\ c[2] \in Ops /\ c = <<c[1], c[2]>>
        /\ c[1] \in DOMAIN batch[r]
    BY <1>a DEF RequestsTypeOK
  <2>4. \A q \in Requests : staged'[q] \subseteq staged[q]
    BY <2>1, <1>a DEF RequestsTypeOK
  <2>5. staged'[r] = staged[r] \ {c}
    BY <2>1, <1>a DEF RequestsTypeOK
  <2>6. StagedRight'
    BY <2>2, <2>4 DEF StagedRight
  <2>7. \A q \in Requests : \A x \in stored : Owes(q, x)' => Owes(q, x)
    BY <2>2, <2>4 DEF Owes
  <2>8. \A s \in Stores : Staged(s)' => Staged(s)
    BY <2>2, <2>4 DEF Staged
  <2> DEFINE e == batch[r][c[1]]
  <2>9. e.store \in Stores /\ e \in Event /\ Valid(e) /\ e \in stored
    <3>1. e \in Event
      BY <2>3, IndexedEvent
    <3>2. e \in stored /\ Valid(e)
      BY <2>2, <2>3, <1>a DEF Phases, Kept
    <3> QED
      BY <3>1, <3>2 DEF Event
  <2>10. CASE c[2] \notin {"setDepth", "decrDepth"}
    <3>1. UNCHANGED queueDepth
      BY <2>1, <2>10 DEF Execute
    <3> QED
      BY <2>2, <2>6, <2>7, <2>8, <3>1, DriftFrame
  <2>11. ASSUME NEW s \in Stores
         PROVE  /\ Cardinality(Settled(s)) <= Cardinality(Settled(s))'
                /\ Cardinality(Settled(s)) \in Nat /\ Cardinality(Settled(s))' \in Nat
    BY <2>2, <2>7, SettledGrow
  <2>12. ASSUME NEW s \in Stores, queueDepth'[s] = queueDepth[s]
         PROVE  \/ queueDepth'[s] >= 1 - Cardinality(Settled(s))'
                \/ queueDepth'[s] >= 0 /\ ~Staged(s)'
    BY <2>8, <2>11, <2>12, <1>b DEF Drift
  <2>13. CASE c[2] = "setDepth"
    <3>1. queueDepth' = [queueDepth EXCEPT ![e.store] = e.depth]
      BY <2>1, <2>13 DEF Execute
    <3>2. e.depth >= 1
      <4>1. IsJoin(e)
        BY <2>3, <2>13 DEF StagedRight
      <4> QED
        BY <4>1, <2>9 DEF IsJoin, Valid, FieldRules, DepthRule
    <3>3. e.depth \in Int
      BY <2>9 DEF Event
    <3>4. ASSUME NEW s \in Stores
          PROVE  \/ queueDepth'[s] >= 1 - Cardinality(Settled(s))'
                 \/ queueDepth'[s] >= 0 /\ ~Staged(s)'
      <4>1. CASE s = e.store
        <5>1. queueDepth'[s] = e.depth
          BY <3>1, <4>1, <2>9, <1>b
        <5> HIDE DEF e
        <5> QED
          BY <2>11, <3>2, <3>3, <5>1
      <4>2. CASE s # e.store
        BY <2>12, <3>1, <4>2, <1>b
      <4> QED
        BY <4>1, <4>2
    <3> QED
      BY <2>6, <3>4 DEF Drift
  <2>14. CASE c[2] = "decrDepth"
    <3>1. queueDepth' = [queueDepth EXCEPT ![e.store] = @ - 1]
      <4>1. queueDepth' = [queueDepth EXCEPT ![e.store] = @ + (-1)]
        BY <2>1, <2>14 DEF Execute, Bump
      <4> QED
        BY <4>1, <2>9, <1>b
    <3>2. Decrement(c[1]) = c
      BY <2>3, <2>14 DEF Decrement
    <3>3. LooksAtQueue(e) /\ Staged(e.store) /\ Owes(r, e)
      BY <2>2, <2>3, <3>2 DEF StagedRight, Staged, Owes
    <3>4. ASSUME NEW s \in Stores, s = e.store
          PROVE  e \notin Settled(s)
      BY <3>3, <3>4 DEF Settled
    <3>5. ASSUME NEW s \in Stores, s = e.store
          PROVE  e \in Settled(s)'
      <4>1. e \in CustomerExits(stored', s)
        BY <2>2, <2>9, <3>3, <3>5 DEF CustomerExits, LooksAtQueue
      <4>2. ASSUME NEW q \in Requests, Owes(q, e)'
            PROVE  FALSE
        <5>1. PICK j \in new[q] :
                /\ batch[q][j] = e
                /\ \/ pc[q] \in {"insert", "sessions"} \/ j \in left[q]
                   \/ Decrement(j) \in staged'[q]
          BY <2>2, <4>2 DEF Owes
        <5>2. q = r /\ j = c[1]
          BY <2>3, <5>1, <1>a DEF AcceptedOnce
        <5> QED
          BY <2>2, <2>5, <3>2, <5>1, <5>2
      <4>3. batch' = batch
        BY <2>2
      <4> QED
        BY <4>1, <4>2, <4>3 DEF Settled
    <3>6. ASSUME NEW s \in Stores, s = e.store
          PROVE  Cardinality(Settled(s))' >= Cardinality(Settled(s)) + 1
      <4>1. IsFiniteSet(Settled(s)) /\ IsFiniteSet(Settled(s)')
        <5>1. Settled(s)' \subseteq stored' /\ Settled(s) \subseteq stored
          BY DEF Settled, CustomerExits
        <5> QED
          BY <5>1, <1>a, FS_Subset DEF Counting
      <4>2. e \notin Settled(s) /\ e \in Settled(s)'
        BY <3>4, <3>5, <3>6
      <4>3. Settled(s) \cup {e} \subseteq Settled(s)'
        BY <2>2, <2>7, <4>2, SettledGrow
      <4>4. Cardinality(Settled(s) \cup {e}) = Cardinality(Settled(s)) + 1
        BY <4>1, <4>2, FS_AddElement
      <4>5. Cardinality(Settled(s) \cup {e}) <= Cardinality(Settled(s)')
        BY <4>1, <4>3, FS_Subset
      <4> QED
        BY <4>4, <4>5
    <3>7. ASSUME NEW s \in Stores
          PROVE  \/ queueDepth'[s] >= 1 - Cardinality(Settled(s))'
                 \/ queueDepth'[s] >= 0 /\ ~Staged(s)'
      <4>1. CASE s = e.store
        <5>1. queueDepth'[s] = queueDepth[s] - 1 /\ queueDepth[s] \in Int
          BY <3>1, <4>1, <2>9, <1>b
        <5>2. queueDepth[s] >= 1 - Cardinality(Settled(s))
          BY <3>3, <4>1 DEF Drift
        <5>3. Cardinality(Settled(s))' >= Cardinality(Settled(s)) + 1
          BY <3>6, <4>1
        <5> QED
          BY <2>11, <5>1, <5>2, <5>3
      <4>2. CASE s # e.store
        BY <2>12, <3>1, <4>2, <1>b
      <4> QED
        BY <4>1, <4>2
    <3> QED
      BY <2>6, <3>7 DEF Drift
  <2> QED
    BY <2>10, <2>13, <2>14
<1>9. ASSUME NEW r \in Requests, Abort(r)
      PROVE  StagedRight' /\ Drift'
  <2>1. /\ pc' = [pc EXCEPT ![r] = "done"] /\ left' = [left EXCEPT ![r] = {}]
        /\ new' = [new EXCEPT ![r] = {}] /\ staged' = [staged EXCEPT ![r] = {}]
        /\ UNCHANGED <<stored, batch, queueDepth>>
    BY <1>9 DEF Abort, redisVars
  <2>2. StagedRight'
    BY <2>1, <1>a DEF StagedRight, RequestsTypeOK
  <2>3. \A q \in Requests : \A e \in stored : Owes(q, e)' => Owes(q, e)
    BY <2>1, <1>a DEF Owes, RequestsTypeOK
  <2>4. \A s \in Stores : Staged(s)' => Staged(s)
    BY <2>1, <1>a DEF Staged, RequestsTypeOK
  <2> QED
    BY <2>1, <2>2, <2>3, <2>4, DriftFrame
<1>10. ASSUME UNCHANGED vars
       PROVE  StagedRight' /\ Drift'
  <2>1. UNCHANGED <<stored, pc, batch, new, left, staged, queueDepth>>
    BY <1>10 DEF vars, requestVars, redisVars
  <2>2. StagedRight'
    BY <2>1 DEF StagedRight
  <2>3. \A q \in Requests : \A e \in stored : Owes(q, e)' => Owes(q, e)
    BY <2>1 DEF Owes
  <2>4. \A s \in Stores : Staged(s)' => Staged(s)
    BY <2>1 DEF Staged
  <2> QED
    BY <2>1, <2>2, <2>3, <2>4, DriftFrame
<1> QED
  BY <1>1, <1>2, <1>3, <1>4, <1>5, <1>6, <1>7, <1>8, <1>9, <1>10
     DEF Next, IngestNext, Arrive, Advance, Fail, DeadlockAbort, Resting

\* The live queue depth never falls further below zero than the customer exits
\* in the events table account for, the first of which answers a reported queue.
THEOREM QueueDepthDriftIsBounded == Spec => []QueueDriftBounded
<1>1. TypeOK /\ IndInv /\ Drift => QueueDriftBounded
  <2> SUFFICES ASSUME TypeOK, IndInv, Drift, NEW s \in Stores, queueDepth[s] < 0
               PROVE  1 - queueDepth[s] <= Cardinality(CustomerExits(stored, s))
    BY DEF QueueDriftBounded
  <2>1. queueDepth[s] \in Int
    BY DEF TypeOK, RedisTypeOK
  <2>2. queueDepth[s] >= 1 - Cardinality(Settled(s))
    BY <2>1 DEF Drift
  <2>3. IsFiniteSet(CustomerExits(stored, s))
    BY FS_Subset DEF IndInv, Counting, CustomerExits
  <2>4. Settled(s) \subseteq CustomerExits(stored, s)
    BY DEF Settled
  <2>5. /\ Cardinality(Settled(s)) <= Cardinality(CustomerExits(stored, s))
        /\ Cardinality(Settled(s)) \in Nat /\ Cardinality(CustomerExits(stored, s)) \in Nat
    BY <2>3, <2>4, FS_Subset, FS_CardinalityType
  <2> QED
    BY <2>1, <2>2, <2>5
<1>2. Init => StagedRight /\ Drift
  BY DriftInit
<1>3. TypeOK /\ IndInv /\ (IndInv)' /\ StagedRight /\ Drift /\ [Next]_vars
      => (StagedRight /\ Drift)'
  BY DriftStep DEF IndInv
<1> QED
  BY <1>1, <1>2, <1>3, TypeCorrect, CountInvariant, PTL DEF Spec

-----------------------------------------------------------------------------
(***************************************************************************)
(* Whatever a session row says has a stored event behind it, for every set *)
(* of requests, events, batches and visitors.  The invariant says the same *)
(* of the rows that are written and not committed: their causes are the    *)
(* committed events and those the request's own loop has visited.          *)
(***************************************************************************)
OfType(E, v, types) == {e \in E : e.vid = v /\ e.type \in types}

\* The events E explain a row of visitor v.
Caused(E, v, row) ==
    row # NoRow =>
        /\ \E e \in OfType(E, v, {"ENTRY", "REENTRY"}) :
              row.store = e.store /\ row.staff = e.staff /\ row.entered = e.ts
        /\ row.exited # NoTime => \E e \in OfType(E, v, {"EXIT"}) : row.exited = e.ts
        /\ row.zones \subseteq {e.zone : e \in OfType(E, v, {"ZONE_ENTER", "ZONE_DWELL"})}
        /\ row.billing => \/ OfType(E, v, {"BILLING_QUEUE_JOIN"}) # {}
                          \/ row.zones \cap BillingZones # {}
        /\ row.reentries <= Cardinality(OfType(E, v, {"REENTRY"}))

\* What the transaction of request r has seen to so far.
Done(r) == sessioned \cup EventsAt(r, new[r] \ left[r])

RowsCaused ==
    /\ \A v \in Visitors : Caused(sessioned, v, sessions[v])
    /\ \A r \in Requests, v \in Visitors :
         /\ dirty[r][v] # NoRow => pc[r] = "sessions"
         /\ Caused(Done(r), v, dirty[r][v])

-----------------------------------------------------------------------------
\* More events explain as much.
LEMMA CausedByMore ==
    ASSUME NEW E, NEW F, NEW v, NEW row \in Row \cup {NoRow}, IsFiniteSet(F),
           E \subseteq F, Caused(E, v, row)
    PROVE  Caused(F, v, row)
<1> SUFFICES ASSUME row # NoRow PROVE Caused(F, v, row)
  BY DEF Caused
<1>1. \A types : OfType(E, v, types) \subseteq OfType(F, v, types)
  BY DEF OfType
<1>2. row.reentries <= Cardinality(OfType(F, v, {"REENTRY"}))
  <2>1. IsFiniteSet(OfType(F, v, {"REENTRY"}))
    BY FS_Subset DEF OfType
  <2>2. IsFiniteSet(OfType(E, v, {"REENTRY"}))
    BY <1>1, <2>1, FS_Subset
  <2>3. /\ Cardinality(OfType(E, v, {"REENTRY"})) <= Cardinality(OfType(F, v, {"REENTRY"}))
        /\ Cardinality(OfType(E, v, {"REENTRY"})) \in Nat
        /\ Cardinality(OfType(F, v, {"REENTRY"})) \in Nat
    BY <1>1, <2>1, <2>2, FS_Subset, FS_CardinalityType
  <2>4. row.reentries \in Nat
    BY DEF Row
  <2> QED
    BY <2>3, <2>4 DEF Caused
<1> QED
  BY <1>1, <1>2 DEF Caused

\* The statement of an event leaves a row that this event helps to explain.
LEMMA WrittenCaused ==
    ASSUME NEW E, NEW v, NEW row \in Row \cup {NoRow}, NEW e \in Event, NEW t \in Nat,
           IsFiniteSet(E), e \notin E, e.vid = v, Valid(e), TouchesSession(e),
           Caused(E, v, row)
    PROVE  Caused(E \cup {e}, v, Written(row, e, t))
<1> DEFINE F == E \cup {e}
<1>1. IsFiniteSet(F)
  BY FS_AddElement
<1>2. Caused(F, v, row)
  BY <1>1, CausedByMore
<1>3. \A types : e.type \in types => e \in OfType(F, v, types)
  BY DEF OfType
<1>4. IsFiniteSet(OfType(F, v, {"REENTRY"})) /\ Cardinality(OfType(F, v, {"REENTRY"})) \in Nat
  BY <1>1, FS_Subset, FS_CardinalityType DEF OfType
<1> HIDE DEF F
<1>5. CASE IsEntry(e) /\ row = NoRow
  <2> DEFINE w == Inserted(e, t)
  <2>1. Written(row, e, t) = w
    BY <1>5 DEF Written
  <2>2. /\ w.store = e.store /\ w.staff = e.staff /\ w.entered = e.ts
        /\ w.exited = NoTime /\ w.zones = {} /\ ~w.billing /\ w.reentries = 0
    BY DEF Inserted
  <2>3. e \in OfType(F, v, {"ENTRY", "REENTRY"})
    BY <1>3, <1>5 DEF IsEntry
  <2> HIDE DEF w
  <2>4. Caused(F, v, w)
    BY <1>4, <2>2, <2>3 DEF Caused
  <2> QED
    BY <2>1, <2>4 DEF F
<1>6. CASE IsEntry(e) /\ row # NoRow
  <2>1. row \in Row /\ row.reentries \in Nat
    BY <1>6 DEF Row
  <2>2. Written(row, e, t) = Upserted(row, e, t)
    BY <1>6 DEF Written
  <2>3. row.reentries + Returns(e) <= Cardinality(OfType(F, v, {"REENTRY"}))
    <3>1. CASE e.type = "REENTRY"
      <4>1. OfType(F, v, {"REENTRY"}) = OfType(E, v, {"REENTRY"}) \cup {e}
        BY <3>1 DEF F, OfType
      <4>2. e \notin OfType(E, v, {"REENTRY"}) /\ IsFiniteSet(OfType(E, v, {"REENTRY"}))
        BY FS_Subset DEF OfType
      <4>3. /\ Cardinality(OfType(F, v, {"REENTRY"}))
                 = Cardinality(OfType(E, v, {"REENTRY"})) + 1
            /\ Cardinality(OfType(E, v, {"REENTRY"})) \in Nat
        BY <4>1, <4>2, FS_AddElement, FS_CardinalityType
      <4> QED
        BY <1>6, <2>1, <3>1, <4>3 DEF Caused, Returns
    <3>2. CASE e.type # "REENTRY"
      BY <1>2, <1>6, <2>1, <3>2 DEF Caused, Returns
    <3> QED
      BY <3>1, <3>2
  <2> DEFINE w == Upserted(row, e, t)
  <2>4. /\ w.reentries = row.reentries + Returns(e)
        /\ w.store = row.store /\ w.staff = row.staff /\ w.entered = row.entered
        /\ w.exited = row.exited /\ w.zones = row.zones /\ w.billing = row.billing
    BY <2>1 DEF Upserted, Row
  <2> HIDE DEF w
  <2>5. Caused(F, v, w)
    BY <1>2, <1>6, <2>3, <2>4 DEF Caused
  <2> QED
    BY <2>2, <2>5 DEF F, w
<1>7. CASE ~IsEntry(e) /\ row = NoRow
  BY <1>7 DEF Written, Caused
<1>8. CASE ~IsEntry(e) /\ row # NoRow
  <2>1. row \in Row
    BY <1>8
  <2>2. CASE e.type = "EXIT"
    <3> DEFINE w == Exited(row, e, t)
    <3>1. Written(row, e, t) = w
      BY <1>8, <2>2 DEF Written, IsZoneVisit, IsJoin
    <3>2. /\ w.exited = e.ts /\ w.store = row.store /\ w.staff = row.staff
          /\ w.entered = row.entered /\ w.zones = row.zones /\ w.billing = row.billing
          /\ w.reentries = row.reentries
      BY <2>1 DEF Exited, Row
    <3>3. e \in OfType(F, v, {"EXIT"})
      BY <1>3, <2>2
    <3> HIDE DEF w
    <3>4. Caused(F, v, w)
      BY <1>2, <1>8, <3>2, <3>3 DEF Caused
    <3> QED
      BY <3>1, <3>4 DEF F
  <2>3. CASE IsZoneVisit(e)
    <3> DEFINE w == ZoneSeen(row, e, t)
    <3>1. Written(row, e, t) = w
      BY <1>8, <2>3 DEF Written, IsZoneVisit, IsJoin
    <3>2. /\ w.zones = row.zones \cup {e.zone}
          /\ w.billing = (row.billing \/ e.zone \in BillingZones)
          /\ w.store = row.store /\ w.staff = row.staff /\ w.entered = row.entered
          /\ w.exited = row.exited /\ w.reentries = row.reentries
      BY <2>1 DEF ZoneSeen, Row
    <3>3. e \in OfType(F, v, {"ZONE_ENTER", "ZONE_DWELL"})
      BY <1>3, <2>3 DEF IsZoneVisit
    <3> HIDE DEF w
    <3>4. Caused(F, v, w)
      BY <1>2, <1>8, <3>2, <3>3 DEF Caused
    <3> QED
      BY <3>1, <3>4 DEF F
  <2>4. CASE IsJoin(e)
    <3> DEFINE w == QueueJoined(row, e)
    <3>1. Written(row, e, t) = w
      BY <1>8, <2>4 DEF Written, IsJoin, IsZoneVisit
    <3>2. /\ w.billing /\ w.store = row.store /\ w.staff = row.staff
          /\ w.entered = row.entered /\ w.exited = row.exited /\ w.zones = row.zones
          /\ w.reentries = row.reentries
      BY <2>1 DEF QueueJoined, Row
    <3>3. OfType(F, v, {"BILLING_QUEUE_JOIN"}) # {}
      BY <1>3, <2>4 DEF IsJoin
    <3> HIDE DEF w
    <3>4. Caused(F, v, w)
      BY <1>2, <1>8, <3>2, <3>3 DEF Caused
    <3> QED
      BY <3>1, <3>4 DEF F
  <2> QED
    BY <1>8, <2>2, <2>3, <2>4 DEF TouchesSession
<1> QED
  BY <1>5, <1>6, <1>7, <1>8

\* What a request has done is finite, now and in the next state.
LEMMA DoneFinite == TypeOK /\ Counting => \A r \in Requests : IsFiniteSet(Done(r))
<1> SUFFICES ASSUME TypeOK, Counting, NEW r \in Requests
             PROVE  IsFiniteSet(Done(r))
  OBVIOUS
<1>1. IsFiniteSet(NewEvents(r))
  BY FinitelyManyNew
<1>2. IsFiniteSet(EventsAt(r, new[r] \ left[r]))
  <2>1. EventsAt(r, new[r] \ left[r]) \subseteq NewEvents(r)
    BY DEF NewEvents, EventsAt
  <2> QED
    BY <1>1, <2>1, FS_Subset
<1>3. IsFiniteSet(sessioned)
  BY FS_Subset DEF Counting
<1> QED
  BY <1>2, <1>3, FS_Union DEF Done

LEMMA DoneStaysFinite ==
    (TypeOK)' /\ (Counting)' => \A r \in Requests : IsFiniteSet(Done(r)')
<1>1. (TypeOK /\ Counting)' => (\A r \in Requests : IsFiniteSet(Done(r)))'
  BY DoneFinite, PTL
<1> QED
  BY <1>1

\* Steps that leave the sessions table alone only let requests finish more.
LEMMA CausedFrame ==
    ASSUME TypeOK, RowsCaused, TypeOK', Counting', UNCHANGED <<sessions, dirty>>,
           sessioned \subseteq sessioned',
           \A q \in Requests :
               /\ pc[q] = "sessions" => pc'[q] = "sessions" /\ Done(q) \subseteq Done(q)'
    PROVE  RowsCaused'
<1>1. ASSUME NEW v \in Visitors
      PROVE  Caused(sessioned', v, sessions'[v])
  <2>1. IsFiniteSet(sessioned')
    BY FS_Subset DEF Counting
  <2>2. sessions[v] \in Row \cup {NoRow}
    BY DEF TypeOK, SessionsTypeOK
  <2> QED
    BY <2>1, <2>2, CausedByMore DEF RowsCaused
<1>2. ASSUME NEW q \in Requests, NEW v \in Visitors
      PROVE  /\ dirty'[q][v] # NoRow => pc'[q] = "sessions"
             /\ Caused(Done(q)', v, dirty'[q][v])
  <2>1. CASE dirty[q][v] = NoRow
    BY <2>1 DEF Caused
  <2>2. CASE dirty[q][v] # NoRow
    <3>1. pc[q] = "sessions" /\ Caused(Done(q), v, dirty[q][v])
      BY <2>2 DEF RowsCaused
    <3>2. IsFiniteSet(Done(q)')
      BY DoneStaysFinite
    <3>3. dirty[q][v] \in Row \cup {NoRow}
      BY IngestionAssumption DEF TypeOK, SessionsTypeOK
    <3> QED
      BY <3>1, <3>2, <3>3, CausedByMore
  <2> QED
    BY <2>1, <2>2
<1> QED
  BY <1>1, <1>2 DEF RowsCaused

\* Every step of every request leaves each row explained.
LEMMA CausedStep ==
    ASSUME TypeOK, IndInv, RowsCaused, TypeOK', IndInv', [Next]_vars
    PROVE  RowsCaused'
<1> USE DEF Goto
<1>a. /\ Kept /\ Phases /\ AcceptedOnce /\ Counting /\ Counting'
      /\ RequestsTypeOK /\ SessionsTypeOK /\ Requests \subseteq Clients
  BY IngestionAssumption DEF IndInv, TypeOK
<1>1. ASSUME NEW r \in Requests,
             \/ Refuse(r)
             \/ \E b \in Batches : RefuseLong(r, b) \/ Receive(r, b)
             \/ \E s \in Stores : ReadVisitors(r, s)
             \/ ReadDepth(r) \/ ReadConversions(r) \/ ReadTs(r)
             \/ Publish(r) \/ SkipPublish(r) \/ Respond(r)
             \/ InsertEvent(r) \/ CommitEvents(r)
             \/ LookAtQueue(r) \/ RedisCommand(r) \/ PipelineDone(r)
      PROVE  RowsCaused'
  <2>1. UNCHANGED <<sessions, dirty, sessioned>>
    BY <1>1 DEF Refuse, RefuseLong, Receive, ReadVisitors, ReadDepth, ReadConversions,
       ReadTs, ReadField, Publish, SkipPublish, Respond, InsertEvent, CommitEvents,
       LookAtQueue, RedisCommand, PipelineDone, sessionVars
  <2>2. /\ pc[r] # "sessions"
        /\ \A q \in Requests \ {r} : /\ pc'[q] = pc[q] /\ new'[q] = new[q]
                                     /\ left'[q] = left[q] /\ batch'[q] = batch[q]
    <3>1. CASE \/ Refuse(r)
               \/ \E b \in Batches : RefuseLong(r, b) \/ Receive(r, b)
               \/ InsertEvent(r) \/ CommitEvents(r)
      BY <3>1, <1>a DEF Refuse, RefuseLong, Receive, InsertEvent, CommitEvents,
         RequestsTypeOK
    <3>2. CASE \/ \E s \in Stores : ReadVisitors(r, s)
               \/ ReadDepth(r) \/ ReadConversions(r) \/ ReadTs(r)
               \/ Publish(r) \/ SkipPublish(r) \/ Respond(r)
               \/ LookAtQueue(r) \/ RedisCommand(r) \/ PipelineDone(r)
      BY <3>2, <1>a DEF ReadVisitors, ReadDepth, ReadConversions, ReadTs, ReadField,
         Publish, SkipPublish, Respond, LookAtQueue, RedisCommand, PipelineDone,
         RequestsTypeOK
    <3> QED
      BY <1>1, <3>1, <3>2
  <2>3. ASSUME NEW q \in Requests, pc[q] = "sessions"
        PROVE  pc'[q] = "sessions" /\ Done(q) \subseteq Done(q)'
    BY <2>1, <2>2, <2>3 DEF Done, EventsAt
  <2> QED
    BY <2>1, <2>3, <1>a, CausedFrame
<1>2. ASSUME NEW r \in Requests, UpdateSession(r)
      PROVE  RowsCaused'
  <2>1. PICK i \in left[r] :
          /\ SessionStatement(r, batch[r][i])
          /\ left' = [left EXCEPT ![r] = @ \ {i}]
    BY <1>2 DEF UpdateSession
  <2>2. pc[r] = "sessions" /\ UNCHANGED <<pc, batch, new, sessioned>>
    BY <1>2 DEF UpdateSession
  <2> DEFINE e == batch[r][i]
  <2>3. /\ i \in new[r] /\ i \in DOMAIN batch[r]
        /\ Valid(e) /\ e \in Event /\ e.vid \in Visitors
    <3>1. i \in new[r] /\ i \in DOMAIN batch[r] /\ Valid(e)
      BY <2>2, <1>a DEF Kept, RequestsTypeOK
    <3> QED
      BY <3>1, IndexedEvent DEF Event
  <2>4. e \notin Done(r)
    <3>1. e \notin sessioned
      BY <2>2, <2>3, <1>a DEF Phases
    <3>2. \A j \in new[r] \ left[r] : batch[r][j] # e
      BY <2>3, <1>a DEF AcceptedOnce
    <3> QED
      BY <3>1, <3>2 DEF Done, EventsAt
  <2>5. Done(r)' = Done(r) \cup {e}
    <3>1. new[r] \ left'[r] = (new[r] \ left[r]) \cup {i}
      BY <2>1, <2>3, <1>a DEF RequestsTypeOK
    <3> QED
      BY <2>2, <3>1 DEF Done, EventsAt
  <2>6. \A q \in Requests \ {r} : Done(q)' = Done(q)
    BY <2>1, <2>2, <1>a DEF Done, EventsAt, RequestsTypeOK
  <2> HIDE DEF e
  <2>7. CASE ~TouchesSession(e)
    <3>1. UNCHANGED <<sessions, dirty>>
      BY <2>1, <2>7 DEF SessionStatement, sessionVars, e
    <3> QED
      BY <2>2, <2>5, <2>6, <3>1, <1>a, CausedFrame
  <2>8. CASE TouchesSession(e)
    <3>1. /\ dirty' = [dirty EXCEPT ![r][e.vid] = Written(OwnRow(r, e.vid), e, TxNow(r))]
          /\ UNCHANGED sessions
      BY <2>1, <2>8 DEF SessionStatement, e
    <3>2. OwnRow(r, e.vid) \in Row \cup {NoRow} /\ TxNow(r) \in Nat
      BY <2>3, <1>a DEF OwnRow, TxNow, SessionsTypeOK
    <3>3. IsFiniteSet(Done(r))
      BY DoneFinite, <1>a
    <3>4. Caused(Done(r), e.vid, OwnRow(r, e.vid))
      <4>1. CASE dirty[r][e.vid] # NoRow
        BY <2>3, <4>1 DEF OwnRow, RowsCaused
      <4>2. CASE dirty[r][e.vid] = NoRow
        <5>1. Caused(sessioned, e.vid, sessions[e.vid]) /\ OwnRow(r, e.vid) = sessions[e.vid]
          BY <2>3, <4>2 DEF OwnRow, RowsCaused
        <5>2. sessioned \subseteq Done(r)
          BY DEF Done
        <5> QED
          BY <3>2, <3>3, <5>1, <5>2, CausedByMore
      <4> QED
        BY <4>1, <4>2
    <3>5. Caused(Done(r) \cup {e}, e.vid, Written(OwnRow(r, e.vid), e, TxNow(r)))
      BY <2>3, <2>4, <2>8, <3>2, <3>3, <3>4, WrittenCaused
    <3>6. ASSUME NEW q \in Requests, NEW v \in Visitors
          PROVE  /\ dirty'[q][v] # NoRow => pc'[q] = "sessions"
                 /\ Caused(Done(q)', v, dirty'[q][v])
      <4>1. CASE q = r /\ v = e.vid
        <5>1. dirty'[q][v] = Written(OwnRow(r, e.vid), e, TxNow(r))
          BY <3>1, <4>1, <1>a DEF SessionsTypeOK
        <5>2. Caused(Done(r)', e.vid, Written(OwnRow(r, e.vid), e, TxNow(r)))
          BY <2>5, <3>5
        <5> QED
          BY <2>2, <4>1, <5>1, <5>2
      <4>2. CASE ~(q = r /\ v = e.vid)
        <5>1. dirty'[q][v] = dirty[q][v] /\ dirty[q][v] \in Row \cup {NoRow}
          BY <3>1, <4>2, <1>a DEF SessionsTypeOK
        <5>2. Caused(Done(q), v, dirty[q][v])
          BY DEF RowsCaused
        <5>3. Done(q) \subseteq Done(q)'
          BY <2>5, <2>6
        <5>4. IsFiniteSet(Done(q)')
          BY DoneStaysFinite, <1>a
        <5>5. dirty[q][v] # NoRow => pc'[q] = "sessions"
          BY <2>2 DEF RowsCaused
        <5> QED
          BY <5>1, <5>2, <5>3, <5>4, <5>5, CausedByMore
      <4> QED
        BY <4>1, <4>2
    <3> QED
      BY <2>2, <3>1, <3>6 DEF RowsCaused
  <2> QED
    BY <2>7, <2>8
<1>3. ASSUME NEW r \in Requests, CommitSessions(r)
      PROVE  RowsCaused'
  <2>1. /\ left[r] = {} /\ pc[r] = "sessions" /\ pc' = [pc EXCEPT ![r] = "redis"]
        /\ CommitRows(r) /\ sessioned' = sessioned \cup NewEvents(r)
        /\ UNCHANGED <<batch, new>>
        /\ \A q \in Requests \ {r} : left'[q] = left[q] /\ pc'[q] = pc[q]
    BY <1>3, <1>a DEF CommitSessions, RequestsTypeOK
  <2>2. Done(r) = sessioned'
    BY <2>1 DEF Done, NewEvents
  <2>3. IsFiniteSet(sessioned')
    BY <1>a, FS_Subset DEF Counting
  <2>4. ASSUME NEW v \in Visitors
        PROVE  Caused(sessioned', v, sessions'[v])
    <3>1. sessions'[v] = OwnRow(r, v)
      BY <2>1 DEF CommitRows
    <3>2. CASE dirty[r][v] # NoRow
      BY <2>2, <3>1, <3>2 DEF OwnRow, RowsCaused
    <3>3. CASE dirty[r][v] = NoRow
      <4>1. Caused(sessioned, v, sessions[v]) /\ sessions[v] \in Row \cup {NoRow}
        BY <1>a DEF RowsCaused, SessionsTypeOK
      <4> QED
        BY <2>1, <2>3, <3>1, <3>3, <4>1, CausedByMore DEF OwnRow
    <3> QED
      BY <3>2, <3>3
  <2>5. ASSUME NEW q \in Requests, NEW v \in Visitors
        PROVE  /\ dirty'[q][v] # NoRow => pc'[q] = "sessions"
               /\ Caused(Done(q)', v, dirty'[q][v])
    <3>1. CASE q = r
      <4>1. dirty'[q][v] = NoRow
        BY <2>1, <3>1, <1>a DEF CommitRows, NoRows, SessionsTypeOK
      <4> QED
        BY <4>1 DEF Caused
    <3>2. CASE q # r
      <4>1. dirty'[q][v] = dirty[q][v] /\ dirty[q][v] \in Row \cup {NoRow}
        BY <2>1, <3>2, <1>a DEF CommitRows, SessionsTypeOK
      <4>2. Done(q) \subseteq Done(q)'
        BY <2>1, <3>2 DEF Done, EventsAt
      <4>3. IsFiniteSet(Done(q)')
        BY DoneStaysFinite, <1>a
      <4>4. Caused(Done(q), v, dirty[q][v]) /\ (dirty[q][v] # NoRow => pc'[q] = "sessions")
        BY <2>1, <3>2 DEF RowsCaused
      <4> QED
        BY <4>1, <4>2, <4>3, <4>4, CausedByMore
    <3> QED
      BY <3>1, <3>2
  <2> QED
    BY <2>4, <2>5 DEF RowsCaused
<1>4. ASSUME NEW r \in Requests, Abort(r)
      PROVE  RowsCaused'
  <2>1. /\ RollbackRows(r) /\ UNCHANGED <<batch, sessioned>>
        /\ \A q \in Requests \ {r} : /\ left'[q] = left[q] /\ pc'[q] = pc[q]
                                     /\ new'[q] = new[q]
    BY <1>4, <1>a DEF Abort, RequestsTypeOK
  <2>2. ASSUME NEW q \in Requests, NEW v \in Visitors
        PROVE  /\ dirty'[q][v] # NoRow => pc'[q] = "sessions"
               /\ Caused(Done(q)', v, dirty'[q][v])
    <3>1. CASE q = r
      <4>1. dirty'[q][v] = NoRow
        BY <2>1, <3>1, <1>a DEF RollbackRows, NoRows, SessionsTypeOK
      <4> QED
        BY <4>1 DEF Caused
    <3>2. CASE q # r
      <4>1. dirty'[q][v] = dirty[q][v]
        BY <2>1, <3>2, <1>a DEF RollbackRows, SessionsTypeOK
      <4>2. Done(q)' = Done(q)
        BY <2>1, <3>2 DEF Done, EventsAt
      <4> QED
        BY <2>1, <3>2, <4>1, <4>2 DEF RowsCaused
    <3> QED
      BY <3>1, <3>2
  <2> QED
    BY <2>1, <2>2 DEF RowsCaused, RollbackRows
<1>5. ASSUME UNCHANGED vars
      PROVE  RowsCaused'
  BY <1>5 DEF vars, requestVars, sessionVars, RowsCaused, Done, EventsAt
<1> QED
  BY <1>1, <1>2, <1>3, <1>4, <1>5
     DEF Next, IngestNext, Arrive, Advance, Fail, DeadlockAbort, Resting

\* Whatever a session row says is the doing of stored events of that visitor, and
\* a re-entry is counted once, for any number of overlapping, failing, repeating
\* requests (the statements of _update_sessions and what they commit).
THEOREM RowsAreExplained == Spec => []RowsHaveCauses
<1>1. Init => RowsCaused
  <2> SUFFICES ASSUME Init PROVE RowsCaused
    OBVIOUS
  <2>1. /\ \A v \in Visitors : sessions[v] = NoRow
        /\ \A r \in Requests, v \in Visitors : dirty[r][v] = NoRow
    BY IngestionAssumption DEF Init, SessionsInit
  <2> QED
    BY <2>1 DEF RowsCaused, Caused
<1>2. /\ TypeOK /\ IndInv /\ RowsCaused /\ [Next]_vars /\ (TypeOK)' /\ (IndInv)'
      => (RowsCaused)'
  BY CausedStep
<1>3. TypeOK /\ IndInv /\ RowsCaused => RowsHaveCauses
  <2> SUFFICES ASSUME TypeOK, IndInv, RowsCaused, NEW v \in Visitors, sessions[v] # NoRow
               PROVE  LET row == sessions[v] IN
                      /\ \E e \in EventsOf(v, {"ENTRY", "REENTRY"}) :
                            /\ row.store = e.store /\ row.staff = e.staff
                            /\ row.entered = e.ts
                      /\ row.exited # NoTime =>
                           \E e \in EventsOf(v, {"EXIT"}) : row.exited = e.ts
                      /\ row.zones \subseteq
                           {e.zone : e \in EventsOf(v, {"ZONE_ENTER", "ZONE_DWELL"})}
                      /\ row.billing => \/ EventsOf(v, {"BILLING_QUEUE_JOIN"}) # {}
                                        \/ row.zones \cap BillingZones # {}
                      /\ row.reentries <= Cardinality(EventsOf(v, {"REENTRY"}))
                      /\ EventsOf(v, {"ENTRY", "REENTRY"}) \subseteq stored
    BY DEF RowsHaveCauses
  <2>1. \A types : EventsOf(v, types) = OfType(sessioned, v, types)
    BY DEF EventsOf, OfType
  <2>2. Caused(sessioned, v, sessions[v])
    BY DEF RowsCaused
  <2>3. EventsOf(v, {"ENTRY", "REENTRY"}) \subseteq stored
    BY DEF IndInv, Counting, EventsOf
  <2> QED
    BY <2>1, <2>2, <2>3 DEF Caused
<1> QED
  BY <1>1, <1>2, <1>3, TypeCorrect, CountInvariant, PTL DEF Spec

=============================================================================
