------------------------------ MODULE ApiProofs ------------------------------
(***************************************************************************)
(* Theorems about the two endpoints that write, run together, for every    *)
(* set of calls, batches, payloads, visitors and stores.  They rest on     *)
(* what the row locks give: a row has one writer at a time (Isolation), a  *)
(* request never converts (RequestRows), and what a load is about to       *)
(* convert stays as it was when the load locked it (LoadRows).             *)
(***************************************************************************)
EXTENDS Api, IngestionProofs, FiniteSetsExt, WellFoundedInduction

\* The row after is the row before, or more has been learnt about the visit.
Extends(before, after) ==
    before # NoRow =>
        /\ after # NoRow
        /\ after.store = before.store
        /\ after.entered = before.entered
        /\ before.zones \subseteq after.zones
        /\ before.billing => after.billing
        /\ before.converted => after.converted
        /\ before.reentries <= after.reentries

\* A row is written by one transaction at a time, which builds on what is
\* committed.
Isolation ==
    /\ \A c, d \in Clients : \A v \in Visitors :
         dirty[c][v] # NoRow /\ dirty[d][v] # NoRow => c = d
    /\ \A c \in Clients : \A v \in Visitors :
         dirty[c][v] # NoRow => Extends(sessions[v], dirty[c][v])

IsConverted(row) == row # NoRow /\ row.converted

\* A customer's row that reached billing and whose last update is in the window
\* before a transaction that is in the table.
Justified(row) ==
    /\ row # NoRow /\ row.billing /\ ~row.staff
    /\ \E t \in transactions :
         /\ t.store = row.store
         /\ row.updated \in (t.ts - Window)..t.ts

\* Requests write rows between their two commits only, and convert none.
RequestRowsOf(r) ==
    /\ pc[r] # "sessions" => dirty[r] = NoRows
    /\ \A v \in Visitors : IsConverted(dirty[r][v]) => IsConverted(sessions[v])
RequestRows == \A r \in Requests : RequestRowsOf(r)

\* The rows a load has written are those it has won: not converted yet, and
\* with every reason to be.
LoadRowsOf(l) ==
    /\ lpc[l] \notin {"update", "rows"} => dirty[l] = NoRows
    /\ lpc[l] \in {"idle", "insert"} => won[l] = {}
    /\ lpc[l] \in {"update", "rows"} =>
         \A v \in Visitors :
             /\ dirty[l][v] # NoRow <=> v \in won[l]
             /\ v \in won[l] => /\ IsConverted(dirty[l][v])
                                /\ ~IsConverted(sessions[v])
                                /\ Justified(sessions[v])
LoadRows == \A l \in Loads : LoadRowsOf(l)

\* How far the transactions of a load have got, by its phase.
LoadPhaseOf(l) ==
    /\ lpc[l] = "idle" => loaded[l] = {}
    /\ \A i \in loaded[l] : lpc[l] = "insert" <=> payload[l][i] \notin transactions
    /\ lpc[l] = "insert" =>
         \A i \in DOMAIN payload[l] \ todo[l] :
             payload[l][i] \in transactions \cup PendingTransactions(l)
    /\ lpc[l] \in {"update", "rows"} =>
         \A i \in DOMAIN payload[l] : payload[l][i] \in transactions
LoadPhases == \A l \in Loads : LoadPhaseOf(l)

\* What sessions_converted counts, or will, of the loads that have committed:
\* each converted session, once.
Credit(l) == IF l \in Converting THEN won[l] ELSE {}
Reconciled ==
    /\ \A l, m \in Loads : l # m => Credit(l) \cap Credit(m) = {}
    /\ \A v \in Visitors : IsConverted(sessions[v]) <=> \E l \in Loads : v \in Credit(l)

\* A count that was read, or written to Redis, is not ahead of the table.
ConvertedRows(s) ==
    {v \in Visitors : sessions[v] # NoRow /\ sessions[v].store = s /\ sessions[v].converted}
CountsNotAhead ==
    /\ \A l \in Loads, s \in Stores :
         count[l].store = s => count[l].n <= Cardinality(ConvertedRows(s))
    /\ \A s \in Stores : conversionCount[s] <= Cardinality(ConvertedRows(s))

\* The inductive invariant.
ApiInv ==
    /\ ApiTypeOK /\ Kept /\ now # NoTime
    /\ LoadPhases /\ LoadedOnce
    /\ Isolation /\ RequestRows /\ LoadRows /\ Reconciled
    /\ CountsNotAhead

-----------------------------------------------------------------------------
\* What row locks give to any transaction on the sessions table.

\* Extending is transitive.
LEMMA ExtendsTwice ==
    ASSUME NEW a \in Row \cup {NoRow}, NEW b \in Row \cup {NoRow}, NEW c \in Row \cup {NoRow},
           Extends(a, b), Extends(b, c)
    PROVE  Extends(a, c)
<1> SUFFICES ASSUME a # NoRow PROVE Extends(a, c)
  BY DEF Extends
<1>1. a \in Row /\ b \in Row /\ c \in Row
  BY DEF Extends
<1>2. a.reentries \in Nat /\ b.reentries \in Nat /\ c.reentries \in Nat
  BY <1>1 DEF Row
<1> QED
  BY <1>1, <1>2 DEF Extends

LEMMA ExtendsItself == ASSUME NEW a \in Row \cup {NoRow} PROVE Extends(a, a)
<1> SUFFICES ASSUME a # NoRow PROVE Extends(a, a)
  BY DEF Extends
<1>1. a.reentries \in Nat
  BY DEF Row
<1> QED
  BY <1>1 DEF Extends

\* A statement of _update_sessions only adds to a row, and never converts one.
LEMMA WrittenExtends ==
    ASSUME NEW row \in Row \cup {NoRow}, NEW e \in Event, Valid(e), TouchesSession(e),
           NEW t \in Nat
    PROVE  /\ Extends(row, Written(row, e, t))
           /\ IsConverted(Written(row, e, t)) => IsConverted(row)
           /\ row = NoRow /\ ~IsEntry(e) => Written(row, e, t) = NoRow
<1>1. CASE row = NoRow
  BY <1>1 DEF Extends, Written, Inserted, IsConverted
<1>2. CASE row # NoRow
  <2>1. row \in Row /\ row.reentries \in Nat
    BY <1>2 DEF Row
  <2>2. Written(row, e, t) # NoRow
    <3>1. CASE IsEntry(e)
      <4>1. row.reentries + Returns(e) \in Nat
        BY <2>1 DEF Returns
      <4>2. \A n \in Nat : [row EXCEPT !.reentries = n, !.updated = t] \in Row
        BY <2>1 DEF Row
      <4>3. Upserted(row, e, t) \in Row
        BY <4>1, <4>2, Zenon DEF Upserted
      <4> QED
        BY <1>2, <3>1, <4>3, NoRowAssumption DEF Written
    <3>2. CASE ~IsEntry(e)
      <4>1. e.ts \in Nat
        BY EventAssumption DEF Event
      <4>2. Exited(row, e, t) \in Row
        BY <2>1, <4>1 DEF Exited, Row
      <4>3. IsZoneVisit(e) => ZoneSeen(row, e, t) \in Row
        <5>1. IsZoneVisit(e) => e.zone \in Zones
          BY DEF IsZoneVisit, Valid, FieldRules, ZoneRule, RequireZoneTypes, Event
        <5> QED
          BY <5>1, <2>1 DEF ZoneSeen, Row
      <4>4. QueueJoined(row, e) \in Row
        BY <2>1, <4>1 DEF QueueJoined, Row
      <4> QED
        BY <1>2, <3>2, <4>2, <4>3, <4>4, NoRowAssumption
           DEF Written, TouchesSession, IsZoneVisit, IsJoin
    <3> QED
      BY <3>1, <3>2
  <2>3. CASE IsEntry(e)
    <3>1. Written(row, e, t) = Upserted(row, e, t)
      BY <1>2, <2>3 DEF Written
    <3> QED
      BY <1>2, <2>1, <2>2, <2>3, <3>1 DEF Extends, IsConverted, Upserted, Row, Returns
  <2>4. CASE ~IsEntry(e)
    <3>1. \/ Written(row, e, t) = Exited(row, e, t)
          \/ Written(row, e, t) = ZoneSeen(row, e, t)
          \/ Written(row, e, t) = QueueJoined(row, e)
      BY <1>2, <2>4 DEF Written, TouchesSession, IsZoneVisit, IsJoin
    <3>2. CASE Written(row, e, t) = Exited(row, e, t)
      BY <1>2, <2>1, <2>2, <3>2 DEF Extends, IsConverted, Exited, Row
    <3>3. CASE Written(row, e, t) = ZoneSeen(row, e, t)
      BY <1>2, <2>1, <2>2, <3>3 DEF Extends, IsConverted, ZoneSeen, Row
    <3>4. CASE Written(row, e, t) = QueueJoined(row, e)
      BY <1>2, <2>1, <2>2, <3>4 DEF Extends, IsConverted, QueueJoined, Row
    <3> QED
      BY <3>1, <3>2, <3>3, <3>4
  <2> QED
    BY <1>2, <2>3, <2>4
<1> QED
  BY <1>1, <1>2

\* A transaction that writes a row nobody else holds stays isolated.
LEMMA WriteIsolated ==
    ASSUME SessionsTypeOK, Isolation, NEW c \in Clients, NEW v \in Visitors,
           NEW row \in Row \cup {NoRow}, Extends(OwnRow(c, v), row),
           row # NoRow => Holders(c, v) = {},
           dirty' = [dirty EXCEPT ![c][v] = row], UNCHANGED sessions
    PROVE  Isolation'
<1>1. /\ \A d \in Clients, w \in Visitors :
           dirty'[d][w] = IF d = c /\ w = v THEN row ELSE dirty[d][w]
      /\ \A d \in Clients, w \in Visitors : dirty[d][w] \in Row \cup {NoRow}
      /\ \A w \in Visitors : sessions[w] \in Row \cup {NoRow}
  BY DEF SessionsTypeOK
<1>2. ASSUME row # NoRow
      PROVE  Extends(sessions[v], row)
  <2>1. CASE dirty[c][v] = NoRow
    BY <2>1 DEF OwnRow
  <2>2. CASE dirty[c][v] # NoRow
    <3>1. Extends(sessions[v], dirty[c][v]) /\ Extends(dirty[c][v], row)
      BY <2>2 DEF OwnRow, Isolation
    <3> QED
      BY <1>1, <3>1, ExtendsTwice
  <2> QED
    BY <2>1, <2>2
<1>3. ASSUME NEW d \in Clients, NEW w \in Visitors, dirty'[d][w] # NoRow
      PROVE  Extends(sessions'[w], dirty'[d][w])
  BY <1>1, <1>2, <1>3 DEF Isolation
<1>4. ASSUME NEW d \in Clients, row # NoRow, dirty[d][v] # NoRow
      PROVE  d = c
  BY <1>4 DEF Holders
<1>5. ASSUME NEW b \in Clients, NEW d \in Clients, NEW w \in Visitors,
             dirty'[b][w] # NoRow, dirty'[d][w] # NoRow
      PROVE  b = d
  BY <1>1, <1>4, <1>5 DEF Isolation
<1> QED
  BY <1>3, <1>5 DEF Isolation

\* A commit only extends rows.
LEMMA CommitExtends ==
    ASSUME SessionsTypeOK, Isolation, NEW c \in Clients, CommitRows(c)
    PROVE  /\ Isolation'
           /\ \A v \in Visitors : sessions'[v] = OwnRow(c, v) /\ Extends(sessions[v], sessions'[v])
           /\ \A d \in Clients \ {c} : dirty'[d] = dirty[d]
           /\ \A d \in Clients \ {c}, v \in Visitors :
                dirty[d][v] # NoRow => sessions'[v] = sessions[v]
           /\ dirty'[c] = NoRows
<1>1. /\ \A d \in Clients \ {c} : dirty'[d] = dirty[d]
      /\ dirty'[c] = NoRows
      /\ \A v \in Visitors : sessions'[v] = OwnRow(c, v)
      /\ \A v \in Visitors : sessions[v] \in Row \cup {NoRow}
  BY DEF SessionsTypeOK, CommitRows
<1>2. ASSUME NEW v \in Visitors
      PROVE  Extends(sessions[v], sessions'[v])
  BY <1>1, ExtendsItself DEF OwnRow, Isolation
<1>3. ASSUME NEW d \in Clients \ {c}, NEW v \in Visitors, dirty[d][v] # NoRow
      PROVE  sessions'[v] = sessions[v]
  BY <1>1, <1>3 DEF OwnRow, Isolation
<1>4. \A v \in Visitors : dirty'[c][v] = NoRow
  BY <1>1 DEF NoRows
<1>5. Isolation'
  <2>1. ASSUME NEW d \in Clients, NEW v \in Visitors, dirty'[d][v] # NoRow
        PROVE  d # c /\ Extends(sessions'[v], dirty'[d][v])
    BY <1>1, <1>3, <1>4, <2>1 DEF Isolation
  <2> QED
    BY <1>1, <2>1 DEF Isolation
<1> QED
  BY <1>1, <1>2, <1>3, <1>5

LEMMA RollbackIsolated ==
    ASSUME SessionsTypeOK, Isolation, NEW c \in Clients, RollbackRows(c)
    PROVE  /\ Isolation'
           /\ dirty'[c] = NoRows
           /\ \A d \in Clients \ {c} : dirty'[d] = dirty[d]
<1>1. /\ \A d \in Clients \ {c} : dirty'[d] = dirty[d]
      /\ dirty'[c] = NoRows
      /\ sessions' = sessions
  BY DEF SessionsTypeOK, RollbackRows
<1>2. \A v \in Visitors : dirty'[c][v] = NoRow
  BY <1>1 DEF NoRows
<1> QED
  BY <1>1, <1>2 DEF Isolation

-----------------------------------------------------------------------------
\* Type correctness.

\* What a request does, and what a load does.
RequestStep(r) == Arrive(r) \/ Advance(r) \/ SkipPublish(r) \/ Abort(r)
LoadStep(l) ==
    \/ LoadNothing(l)
    \/ \E p \in Payloads : ReceiveLoad(l, p)
    \/ AdvanceLoad(l)
    \/ FailLoad(l)
    \/ AbortLoad(l) /\ UNCHANGED loadFails

\* A request that is aborted as a deadlock's victim keeps the types.
LEMMA AbortType ==
    ASSUME TypeOK, Kept, NEW r \in Requests, Abort(r), UNCHANGED fails
    PROVE  TypeOK' /\ Kept'
<1>1. SessionsTypeOK'
  BY CommitType, IngestionAssumption DEF Abort, TypeOK
<1> QED
  BY <1>1 DEF Abort, TypeOK, Kept, RequestsTypeOK, RedisTypeOK, redisVars, PCs

\* A load step that keeps the tables typed leaves the rest to the requests.
LEMMA RequestsKept ==
    ASSUME TypeOK, Kept, SessionsTypeOK', conversionCount' \in [Stores -> Nat],
           UNCHANGED ingestionVars
    PROVE  TypeOK' /\ Kept'
  BY DEF TypeOK, Kept, RequestsTypeOK, RedisTypeOK, ingestionVars, requestVars

\* What a step of a request does to the sessions table, and to where it is.
LEMMA RequestKinds ==
    ASSUME TypeOK, Kept, NEW r \in Requests, RequestStep(r)
    PROVE  /\ UNCHANGED <<now, conversionCount>>
           /\ \/ /\ UNCHANGED sessionVars
                 /\ \A q \in Requests : pc[q] = "sessions" => pc'[q] = "sessions"
              \/ /\ UNCHANGED pc
                 /\ pc[r] = "sessions"
                 /\ \E e \in Event : Valid(e) /\ SessionStatement(r, e)
              \/ /\ pc' = [pc EXCEPT ![r] = "redis"]
                 /\ CommitRows(r)
              \/ /\ pc' = [pc EXCEPT ![r] = "done"]
                 /\ RollbackRows(r)
<1> USE DEF Goto
<1>1. CASE UpdateSession(r)
  <2>1. PICK i \in left[r] : SessionStatement(r, batch[r][i])
    BY <1>1 DEF UpdateSession
  <2>2. batch[r][i] \in Event /\ Valid(batch[r][i])
    BY IndexedEvent DEF TypeOK, RequestsTypeOK, Kept
  <2> QED
    BY <1>1, <2>1, <2>2 DEF UpdateSession, redisVars
<1>2. CASE CommitSessions(r)
  BY <1>2 DEF CommitSessions, redisVars
<1>3. CASE Abort(r)
  BY <1>3 DEF Abort, redisVars
<1>4. CASE Arrive(r) \/ SkipPublish(r)
  BY <1>4 DEF Arrive, SkipPublish, Refuse, RefuseLong, Receive, redisVars, TypeOK,
     RequestsTypeOK
<1>5. CASE InsertEvent(r) \/ CommitEvents(r) \/ LookAtQueue(r) \/ RedisCommand(r)
           \/ PipelineDone(r)
  BY <1>5 DEF InsertEvent, CommitEvents, LookAtQueue, RedisCommand, PipelineDone,
     redisVars, TypeOK, RequestsTypeOK
<1>6. CASE \/ \E s \in Stores : ReadVisitors(r, s)
           \/ ReadDepth(r) \/ ReadConversions(r) \/ ReadTs(r) \/ Publish(r) \/ Respond(r)
  BY <1>6 DEF ReadVisitors, ReadDepth, ReadConversions, ReadTs, ReadField, Publish,
     Respond, redisVars, TypeOK, RequestsTypeOK
<1> QED
  BY <1>1, <1>2, <1>3, <1>4, <1>5, <1>6 DEF RequestStep, Advance

\* The transactions of the other clients are not touched by a request.
LEMMA RequestFrame ==
    ASSUME TypeOK, Kept, NEW r \in Requests, RequestStep(r),
           NEW c \in Clients \ {r}
    PROVE  dirty'[c] = dirty[c] /\ txStart'[c] = txStart[c]
<1>1. /\ r \in Clients
      /\ dirty \in [Clients -> [Visitors -> Row \cup {NoRow}]]
      /\ txStart \in [Clients -> Nat]
  BY IngestionAssumption DEF TypeOK, SessionsTypeOK
<1>2. CASE UNCHANGED sessionVars
  BY <1>2 DEF sessionVars
<1>3. CASE \E e \in Event : SessionStatement(r, e)
  BY <1>1, <1>3 DEF SessionStatement, sessionVars
<1>4. CASE CommitRows(r) \/ RollbackRows(r)
  BY <1>1, <1>4 DEF CommitRows, RollbackRows
<1> QED
  BY <1>2, <1>3, <1>4, RequestKinds

\* A load knows its counts: they are numbers, and not negative.
LEMMA LoadCountsType ==
    ASSUME LoadsTypeOK, NEW l \in Loads
    PROVE  LoadCounts(l) \in LoadAnswer
<1> DEFINE n == Len(payload[l])
<1>1. n \in Nat /\ loaded[l] \in SUBSET (1..n) /\ won[l] \in SUBSET Visitors
  <2>1. payload[l] \in Seq(Transactions)
    BY DEF LoadsTypeOK
  <2>2. n \in Nat /\ DOMAIN payload[l] = 1..n
    BY <2>1
  <2> HIDE DEF n
  <2> QED
    BY <2>2 DEF LoadsTypeOK
<1>2. IsFiniteSet(1..n) /\ Cardinality(1..n) = n
  <2> HIDE DEF n
  <2>1. /\ IsFiniteSet(1..n)
        /\ Cardinality(1..n) = IF 1 > n THEN 0 ELSE n - 1 + 1
    BY <1>1, FS_Interval
  <2> QED
    BY <1>1, <2>1
<1>3. IsFiniteSet(loaded[l]) /\ Cardinality(loaded[l]) <= n
  BY <1>1, <1>2, FS_Subset
<1>4. IsFiniteSet(won[l])
  BY <1>1, PosAssumption, FS_Subset
<1>5. Cardinality(loaded[l]) \in Nat /\ Cardinality(won[l]) \in Nat
  BY <1>3, <1>4, FS_CardinalityType
<1> QED
  BY <1>1, <1>3, <1>5 DEF LoadCounts, LoadAnswer

LEMMA ConvertedInType == \A s : ConvertedIn(s) \in Nat
<1> SUFFICES ASSUME NEW s PROVE ConvertedIn(s) \in Nat
  OBVIOUS
<1> DEFINE C == {v \in Visitors : /\ sessions[v] # NoRow
                                  /\ sessions[v].store = s
                                  /\ ~sessions[v].staff
                                  /\ sessions[v].converted}
<1>1. IsFiniteSet(C)
  BY PosAssumption, FS_Subset
<1> QED
  BY <1>1, FS_CardinalityType DEF ConvertedIn

\* What a load writes is a converted row, and nothing is lost of it.
LEMMA ConvertedRow ==
    ASSUME NEW row \in Row, NEW t \in Nat
    PROVE  /\ Converted(row, t) \in Row
           /\ Extends(row, Converted(row, t))
           /\ IsConverted(Converted(row, t))
<1>1. Converted(row, t) \in Row /\ row.reentries \in Nat
  BY DEF Converted, Row
<1>2. Converted(row, t) # NoRow
  BY <1>1, NoRowAssumption
<1> QED
  BY <1>1, <1>2 DEF Extends, IsConverted, Converted, Row

\* The load's own steps keep its types, and those of the tables.
LEMMA LoadTypeStep ==
    ASSUME TypeOK, LoadsTypeOK, LoadPhases, now # NoTime, NEW l \in Loads, LoadStep(l), UNCHANGED now
    PROVE  /\ SessionsTypeOK' /\ conversionCount' \in [Stores -> Nat]
           /\ LoadsTypeOK'
<1> USE DEF LoadsTypeOK, LoadPCs, LoadGoto
<1>1. /\ SessionsTypeOK /\ conversionCount \in [Stores -> Nat]
      /\ l \in Clients
      /\ loadFails \in Nat
  BY PosAssumption DEF TypeOK, RedisTypeOK
<1>2. CASE LoadNothing(l)
  <2>1. [loaded |-> 0, duplicates |-> 0, converted |-> 0] \in LoadAnswer
    BY DEF LoadAnswer
  <2> QED
    BY <1>1, <1>2, <2>1 DEF LoadNothing, SessionsTypeOK, sessionVars
<1>3. ASSUME NEW p \in Payloads, ReceiveLoad(l, p)
      PROVE  /\ SessionsTypeOK' /\ conversionCount' \in [Stores -> Nat]
             /\ LoadsTypeOK'
  <2>1. p \in Seq(Transactions) /\ DOMAIN p \in SUBSET Nat
    BY PosAssumption
  <2>2. loaded[l] \subseteq DOMAIN p
    BY <1>3 DEF ReceiveLoad, LoadPhases, LoadPhaseOf
  <2> QED
    BY <1>1, <1>3, <2>1, <2>2 DEF ReceiveLoad, SessionsTypeOK, sessionVars
<1>4. CASE InsertTransaction(l)
  <2>1. PICK i \in todo[l] :
          /\ loaded' = [loaded EXCEPT ![l] =
                         IF payload[l][i] \in transactions \cup PendingTransactions(l)
                         THEN @ ELSE @ \cup {i}]
          /\ todo' = [todo EXCEPT ![l] = @ \ {i}]
    BY <1>4 DEF InsertTransaction
  <2>2. i \in DOMAIN payload[l] /\ i \in Nat
    OBVIOUS
  <2>3. loaded' = loaded \/ loaded' = [loaded EXCEPT ![l] = @ \cup {i}]
    BY <2>1
  <2> QED
    BY <1>1, <1>4, <2>1, <2>2, <2>3 DEF InsertTransaction, SessionsTypeOK, sessionVars
<1>5. CASE CommitTransactions(l)
  <2>1. DOMAIN payload[l] \in SUBSET Nat /\ payload[l] \in Seq(Transactions)
    OBVIOUS
  <2>2. NewTransactions(l) \subseteq Transactions
    BY <2>1 DEF NewTransactions
  <2> QED
    BY <1>1, <1>5, <2>1, <2>2
       DEF CommitTransactions, PendingTransactions, SessionsTypeOK, sessionVars
<1>6. CASE BeginUpdate(l)
  <2>1. TxNow(l) \in Nat /\ TxNow(l) # NoTime
    BY <1>1 DEF TxNow, SessionsTypeOK
  <2>2. txStart' = [txStart EXCEPT ![l] = TxNow(l)]
    BY <1>6 DEF BeginUpdate
  <2>3. /\ txStart' \in [Clients -> Nat]
        /\ \A k \in Loads : lpc[k] = "rows" \/ k = l => txStart'[k] # NoTime
    BY <1>1, <2>1, <2>2, PosAssumption DEF SessionsTypeOK
  <2>4. PICK i \in todo[l] :
          /\ current' = [current EXCEPT ![l] = i]
          /\ hits' = [hits EXCEPT ![l] =
                       {v \in Visitors : Matches(OwnRow(l, v), payload[l][i])}]
          /\ todo' = [todo EXCEPT ![l] = @ \ {i}]
    BY <1>6 DEF BeginUpdate
  <2>5. i \in Nat /\ i \in DOMAIN payload[l]
    OBVIOUS
  <2>6. hits' \in [Loads -> SUBSET Visitors]
    BY <2>4
  <2> HIDE <2>2
  <2> QED
    BY <1>1, <1>6, <2>3, <2>4, <2>5, <2>6 DEF BeginUpdate, SessionsTypeOK
<1>7. ASSUME NEW v \in Visitors, ConvertRow(l, v)
      PROVE  /\ SessionsTypeOK' /\ conversionCount' \in [Stores -> Nat]
             /\ LoadsTypeOK'
  <2> DEFINE row == OwnRow(l, v)
  <2>1. row \in Row \cup {NoRow} /\ txStart[l] \in Nat
    BY <1>1 DEF OwnRow, SessionsTypeOK
  <2>2. \/ UNCHANGED <<dirty, won>>
        \/ /\ row # NoRow
           /\ dirty' = [dirty EXCEPT ![l][v] = Converted(row, txStart[l])]
           /\ won' = [won EXCEPT ![l] = @ \cup {v}]
    BY <1>7 DEF ConvertRow, Matches
  <2>3. row # NoRow => Converted(row, txStart[l]) \in Row
    BY <2>1, ConvertedRow
  <2> HIDE DEF row
  <2>4. dirty' \in [Clients -> [Visitors -> Row \cup {NoRow}]]
    <3>1. dirty \in [Clients -> [Visitors -> Row \cup {NoRow}]]
      BY <1>1 DEF SessionsTypeOK
    <3>2. ASSUME NEW after \in Row, dirty' = [dirty EXCEPT ![l][v] = after]
          PROVE  dirty' \in [Clients -> [Visitors -> Row \cup {NoRow}]]
      <4> HIDE DEF LoadsTypeOK
      <4>1. dirty' = [dirty EXCEPT ![l] = [dirty[l] EXCEPT ![v] = after]]
        BY <3>2
      <4>2. [dirty[l] EXCEPT ![v] = after] \in [Visitors -> Row \cup {NoRow}]
        BY <1>1, <3>1
      <4> QED
        BY <1>1, <3>1, <4>1, <4>2
    <3> QED
      BY <2>2, <2>3, <3>1, <3>2
  <2>5. won' \in [Loads -> SUBSET Visitors]
    <3>1. won' = won \/ won' = [won EXCEPT ![l] = won[l] \cup {v}]
      BY <1>7 DEF ConvertRow
    <3>2. won \in [Loads -> SUBSET Visitors] /\ won[l] \cup {v} \in SUBSET Visitors
      OBVIOUS
    <3> HIDE DEF LoadsTypeOK
    <3> QED
      BY <3>1, <3>2
  <2> QED
    BY <1>1, <1>7, <2>4, <2>5 DEF ConvertRow, SessionsTypeOK
<1>8. CASE EndUpdate(l)
  BY <1>1, <1>8 DEF EndUpdate, SessionsTypeOK, sessionVars
<1>9. CASE CommitConversions(l)
  <2>1. SessionsTypeOK'
    BY <1>1, <1>9, CommitType DEF CommitConversions
  <2>2. \A k \in Loads \ {l} : txStart'[k] = txStart[k]
    BY <1>1, <1>9, PosAssumption DEF CommitConversions, CommitRows, SessionsTypeOK
  <2>3. {payload[l][i].store : i \in DOMAIN payload[l]} \subseteq Stores
    <3>1. \A i \in DOMAIN payload[l] : payload[l][i] \in Transaction
      BY PosAssumption
    <3> QED
      BY <3>1 DEF Transaction
  <2>4. recount' \in [Loads -> SUBSET Stores]
    BY <1>9, <2>3 DEF CommitConversions
  <2> QED
    BY <1>1, <1>9, <2>1, <2>2, <2>4 DEF CommitConversions
<1>10. ASSUME NEW s \in Stores, CountStore(l, s)
       PROVE  /\ SessionsTypeOK' /\ conversionCount' \in [Stores -> Nat]
              /\ LoadsTypeOK'
  <2>1. [store |-> s, n |-> ConvertedIn(s)] \in Count
    BY ConvertedInType DEF Count
  <2> QED
    BY <1>1, <1>10, <2>1 DEF CountStore, SessionsTypeOK, sessionVars
<1>11. CASE SetCount(l)
  <2>1. count[l].n \in Nat
    BY DEF Count
  <2> QED
    BY <1>1, <1>11, <2>1 DEF SetCount, SessionsTypeOK, sessionVars
<1>12. CASE AnswerLoad(l)
  <2>1. LoadCounts(l) \in LoadAnswer
    BY LoadCountsType
  <2> QED
    BY <1>1, <1>12, <2>1 DEF AnswerLoad, SessionsTypeOK, sessionVars
<1>13. ASSUME AbortLoad(l), loadFails' \in 0..MaxLoadFails
       PROVE  /\ SessionsTypeOK' /\ conversionCount' \in [Stores -> Nat]
              /\ LoadsTypeOK'
  <2>1. SessionsTypeOK'
    BY <1>1, <1>13, CommitType DEF AbortLoad
  <2>2. \A k \in Loads \ {l} : txStart'[k] = txStart[k]
    BY <1>1, <1>13, PosAssumption DEF AbortLoad, RollbackRows, SessionsTypeOK
  <2>3. /\ loaded' = [loaded EXCEPT ![l] = {}] \/ loaded' = loaded
        /\ won' = [won EXCEPT ![l] = {}] \/ won' = won
    BY <1>13 DEF AbortLoad
  <2> QED
    BY <1>1, <1>13, <2>1, <2>2, <2>3 DEF AbortLoad
<1>14. CASE FailLoad(l) \/ (AbortLoad(l) /\ UNCHANGED loadFails)
  <2>1. loadFails' \in 0..MaxLoadFails
    BY <1>1, <1>14, PosAssumption DEF FailLoad
  <2> QED
    BY <1>13, <1>14, <2>1 DEF FailLoad
<1> HIDE DEF LoadsTypeOK, LoadPCs, LoadGoto
<1>15. CASE AdvanceLoad(l)
  BY <1>4, <1>5, <1>6, <1>7, <1>8, <1>9, <1>10, <1>11, <1>12, <1>15 DEF AdvanceLoad
<1> QED
  BY <1>2, <1>3, <1>14, <1>15 DEF LoadStep

\* A step of the API is a step of one of its calls, or the clock's.
LEMMA ApiKinds ==
    ASSUME TypeOK, Kept, [ApiNext]_apiVars
    PROVE  \/ \E r \in Requests : RequestStep(r) /\ TypeOK' /\ Kept' /\ UNCHANGED loadVars
           \/ \E l \in Loads : LoadStep(l) /\ UNCHANGED <<ingestionVars, now>>
           \/ Tick
           \/ UNCHANGED apiVars
<1>1. CASE Ingests
  <2>1. PICK r \in Requests : Arrive(r) \/ Advance(r) \/ SkipPublish(r) \/ Fail(r)
                              \/ DeadlockAbort(r)
    BY <1>1 DEF Ingests, IngestNext
  <2>2. RequestStep(r)
    BY <2>1 DEF RequestStep, Fail, DeadlockAbort
  <2>3. TypeOK' /\ Kept'
    BY <1>1, TypeStep DEF Ingests, Next
  <2> QED
    BY <1>1, <2>2, <2>3 DEF Ingests
<1>2. CASE LoadsPos
  BY <1>2 DEF LoadsPos, LoadsNext, LoadStep
<1>3. CASE \E l \in Loads : LoadDeadlock(l)
  BY <1>3 DEF LoadDeadlock, LoadStep
<1>4. CASE \E r \in Requests : RequestDeadlock(r)
  BY <1>4, AbortType DEF RequestDeadlock, RequestStep
<1>5. CASE Tick \/ ApiResting \/ UNCHANGED apiVars
  BY <1>5 DEF ApiResting
<1> QED
  BY <1>1, <1>2, <1>3, <1>4, <1>5 DEF ApiNext

\* Every step keeps the types, and what carries them.
LEMMA ApiTypeStep ==
    ASSUME ApiTypeOK, Kept, LoadPhases, now # NoTime, [ApiNext]_apiVars
    PROVE  ApiTypeOK' /\ Kept' /\ now' # NoTime
<1> USE DEF ApiTypeOK
<1>1. ASSUME NEW r \in Requests, RequestStep(r), TypeOK', Kept', UNCHANGED loadVars
      PROVE  ApiTypeOK' /\ Kept' /\ now' # NoTime
  <2>1. now' = now
    BY <1>1, RequestKinds
  <2>2. \A l \in Loads : txStart'[l] = txStart[l]
    BY <1>1, RequestFrame, ApiAssumption
  <2> QED
    BY <1>1, <2>1, <2>2 DEF LoadsTypeOK, loadVars
<1>2. ASSUME NEW l \in Loads, LoadStep(l), UNCHANGED <<ingestionVars, now>>
      PROVE  ApiTypeOK' /\ Kept' /\ now' # NoTime
  BY <1>2, LoadTypeStep, RequestsKept
<1>3. CASE Tick
  <2>1. SessionsTypeOK' /\ conversionCount' \in [Stores -> Nat] /\ now' # NoTime
    BY <1>3 DEF Tick, TypeOK, SessionsTypeOK, RedisTypeOK, sessionVars, NoTime
  <2>2. TypeOK' /\ Kept'
    BY <1>3, <2>1, RequestsKept DEF Tick
  <2> QED
    BY <1>3, <2>1, <2>2 DEF Tick, LoadsTypeOK, loadVars, sessionVars
<1>4. CASE UNCHANGED apiVars
  <2>1. TypeOK' /\ Kept' /\ now' # NoTime
    BY <1>4, TypeStep DEF apiVars, vars
  <2> QED
    BY <1>4, <2>1 DEF apiVars, vars, loadVars, sessionVars, LoadsTypeOK
<1> QED
  BY <1>1, <1>2, <1>3, <1>4, ApiKinds

-----------------------------------------------------------------------------
\* Transactions are loaded once.

\* A load that does nothing itself stays in its phase, unless a transaction that
\* it holds is committed by somebody else.
LEMMA PhaseFrame ==
    ASSUME NEW l \in Loads, LoadPhaseOf(l),
           lpc'[l] = lpc[l], payload'[l] = payload[l], todo'[l] = todo[l],
           loaded'[l] = loaded[l], transactions \subseteq transactions',
           lpc[l] = "insert" => \A i \in loaded[l] : payload[l][i] \notin transactions'
    PROVE  LoadPhaseOf(l)'
  BY DEF LoadPhaseOf, PendingTransactions, NewTransactions

LEMMA PhaseStep ==
    ASSUME LoadsTypeOK, LoadPhases, LoadedOnce, NEW l \in Loads, LoadStep(l)
    PROVE  LoadPhases' /\ LoadedOnce'
<1> USE DEF LoadGoto
<1>1. /\ lpc \in [Loads -> LoadPCs] /\ DOMAIN payload = Loads
      /\ todo \in [Loads -> SUBSET Nat] /\ loaded \in [Loads -> SUBSET Nat]
      /\ payload = [k \in Loads |-> payload[k]]
      /\ \A k \in Loads : LoadPhaseOf(k)
      /\ \A k \in Loads : loaded[k] \subseteq DOMAIN payload[k] /\ todo[k] \subseteq DOMAIN payload[k]
  BY DEF LoadsTypeOK, LoadPhases
\* A step that loads nothing, and takes the load from no phase to a later one.
<1>2. ASSUME UNCHANGED <<transactions, payload, loaded>>,
             \A k \in Loads \ {l} : lpc'[k] = lpc[k] /\ todo'[k] = todo[k],
             LoadPhaseOf(l)'
      PROVE  LoadPhases' /\ LoadedOnce'
  <2>1. ASSUME NEW k \in Loads \ {l}
        PROVE  LoadPhaseOf(k)'
    BY <1>1, <1>2, <2>1, PhaseFrame DEF LoadPhaseOf
  <2>2. LoadedOnce'
    BY <1>2 DEF LoadedOnce
  <2> QED
    BY <1>2, <2>1, <2>2 DEF LoadPhases
<1>3. CASE LoadNothing(l)
  <2>1. lpc'[l] = "done" /\ loaded[l] = {}
    BY <1>1, <1>3 DEF LoadNothing, LoadPhaseOf
  <2> QED
    BY <1>1, <1>2, <1>3, <2>1 DEF LoadNothing, LoadPhaseOf
<1>4. ASSUME NEW p \in Payloads, ReceiveLoad(l, p)
      PROVE  LoadPhases' /\ LoadedOnce'
  <2>1. /\ lpc'[l] = "insert" /\ loaded[l] = {} /\ payload'[l] = p /\ todo'[l] = DOMAIN p
        /\ UNCHANGED <<loaded, transactions>>
        /\ \A k \in Loads \ {l} : /\ lpc'[k] = lpc[k] /\ todo'[k] = todo[k]
                                  /\ payload'[k] = payload[k]
    BY <1>1, <1>4 DEF ReceiveLoad, LoadPhaseOf
  <2>2. LoadPhaseOf(l)'
    BY <2>1 DEF LoadPhaseOf
  <2>3. ASSUME NEW k \in Loads \ {l}
        PROVE  LoadPhaseOf(k)'
    BY <1>1, <2>1, <2>3, PhaseFrame DEF LoadPhaseOf
  <2>4. LoadedOnce'
    BY <2>1 DEF LoadedOnce
  <2> QED
    BY <2>2, <2>3, <2>4 DEF LoadPhases
<1>5. CASE InsertTransaction(l)
  <2>1. PICK i \in todo[l] :
          /\ TransactionBlockers(l, payload[l][i]) = {}
          /\ loaded' = [loaded EXCEPT ![l] =
                         IF payload[l][i] \in transactions \cup PendingTransactions(l)
                         THEN @ ELSE @ \cup {i}]
          /\ todo' = [todo EXCEPT ![l] = @ \ {i}]
    BY <1>5 DEF InsertTransaction
  <2>2. lpc[l] = "insert" /\ UNCHANGED <<transactions, lpc, payload>>
    BY <1>5 DEF InsertTransaction
  <2>3. /\ todo'[l] = todo[l] \ {i}
        /\ \A k \in Loads \ {l} : todo'[k] = todo[k] /\ loaded'[k] = loaded[k]
    BY <1>1, <2>1
  <2>4. PendingTransactions(l) = {payload[l][j] : j \in loaded[l]}
    BY <2>2 DEF PendingTransactions, NewTransactions
  <2>5. ASSUME NEW k \in Loads \ {l}
        PROVE  LoadPhaseOf(k)'
    BY <1>1, <2>2, <2>3, <2>5, PhaseFrame DEF LoadPhaseOf
  <2>6. CASE payload[l][i] \in transactions \cup PendingTransactions(l)
    <3>1. loaded'[l] = loaded[l]
      BY <1>1, <2>1, <2>6
    <3>2. LoadPhaseOf(l)'
      <4>1. PendingTransactions(l)' = PendingTransactions(l)
        BY <2>2, <3>1 DEF PendingTransactions, NewTransactions
      <4> QED
        BY <1>1, <2>2, <2>3, <2>6, <3>1, <4>1 DEF LoadPhaseOf
    <3>3. LoadedOnce'
      BY <2>2, <2>3, <3>1 DEF LoadedOnce
    <3> QED
      BY <2>5, <3>2, <3>3 DEF LoadPhases
  <2>7. CASE payload[l][i] \notin transactions \cup PendingTransactions(l)
    <3>1. loaded'[l] = loaded[l] \cup {i}
      BY <1>1, <2>1, <2>7
    <3>2. LoadPhaseOf(l)'
      <4>1. PendingTransactions(l)' = PendingTransactions(l) \cup {payload[l][i]}
        BY <2>2, <2>4, <3>1 DEF PendingTransactions, NewTransactions
      <4>2. \A j \in loaded'[l] : payload'[l][j] \notin transactions'
        BY <1>1, <2>2, <2>7, <3>1 DEF LoadPhaseOf
      <4>3. \A j \in DOMAIN payload'[l] \ todo'[l] :
              payload'[l][j] \in transactions' \cup PendingTransactions(l)'
        BY <1>1, <2>2, <2>3, <4>1 DEF LoadPhaseOf
      <4> QED
        BY <2>2, <4>2, <4>3 DEF LoadPhaseOf
    <3>3. ASSUME NEW k \in Loads, NEW j \in loaded[k]
          PROVE  payload[k][j] # payload[l][i]
      <4>1. CASE k = l
        BY <2>4, <2>7, <3>3, <4>1
      <4>2. CASE k # l
        <5>1. CASE lpc[k] = "insert"
          <6>1. payload[k][j] \in PendingTransactions(k)
            BY <3>3, <5>1 DEF PendingTransactions, NewTransactions
          <6> QED
            BY <2>1, <4>2, <6>1 DEF TransactionBlockers
        <5>2. CASE lpc[k] # "insert"
          BY <1>1, <2>7, <3>3, <5>2 DEF LoadPhaseOf
        <5> QED
          BY <5>1, <5>2
      <4> QED
        BY <4>1, <4>2
    <3>4. \A k \in Loads : \A j \in loaded'[k] : j \in loaded[k] \/ (k = l /\ j = i)
      BY <2>3, <3>1
    <3>5. LoadedOnce'
      <4> SUFFICES ASSUME NEW k \in Loads, NEW m \in Loads,
                          NEW j \in loaded'[k], NEW h \in loaded'[m],
                          payload[k][j] = payload[m][h]
                   PROVE  <<k, j>> = <<m, h>>
        BY <2>2 DEF LoadedOnce
      <4> QED
        BY <3>3, <3>4 DEF LoadedOnce
    <3> QED
      BY <2>5, <3>2, <3>5 DEF LoadPhases
  <2> QED
    BY <2>6, <2>7
<1>6. CASE CommitTransactions(l)
  <2>1. /\ lpc[l] = "insert" /\ lpc'[l] = "update" /\ todo[l] = {}
        /\ transactions' = transactions \cup {payload[l][i] : i \in loaded[l]}
        /\ UNCHANGED <<payload, loaded>>
        /\ \A k \in Loads \ {l} : lpc'[k] = lpc[k] /\ todo'[k] = todo[k]
    BY <1>1, <1>6 DEF CommitTransactions, PendingTransactions, NewTransactions
  <2>2. LoadPhaseOf(l)'
    <3>1. \A i \in loaded[l] : payload[l][i] \in transactions'
      BY <2>1
    <3>2. \A i \in DOMAIN payload[l] : payload[l][i] \in transactions'
      BY <1>1, <2>1 DEF LoadPhaseOf, PendingTransactions, NewTransactions
    <3> QED
      BY <2>1, <3>1, <3>2 DEF LoadPhaseOf
  <2>3. ASSUME NEW k \in Loads \ {l}
        PROVE  LoadPhaseOf(k)'
    <3>1. \A i \in loaded[k], j \in loaded[l] : payload[k][i] # payload[l][j]
      BY <2>3 DEF LoadedOnce
    <3>2. lpc[k] = "insert" => \A i \in loaded[k] : payload[k][i] \notin transactions'
      BY <1>1, <2>1, <3>1 DEF LoadPhaseOf
    <3> QED
      BY <1>1, <2>1, <3>2, PhaseFrame
  <2>4. LoadedOnce'
    BY <2>1 DEF LoadedOnce
  <2> QED
    BY <2>2, <2>3, <2>4 DEF LoadPhases
<1>7. CASE BeginUpdate(l) \/ EndUpdate(l)
  <2>1. /\ lpc[l] \in {"update", "rows"} /\ lpc'[l] \in {"update", "rows"}
        /\ UNCHANGED <<transactions, payload, loaded>>
        /\ \A k \in Loads \ {l} : lpc'[k] = lpc[k] /\ todo'[k] = todo[k]
    BY <1>1, <1>7 DEF BeginUpdate, EndUpdate
  <2>2. LoadPhaseOf(l)'
    BY <1>1, <2>1 DEF LoadPhaseOf
  <2> QED
    BY <1>2, <2>1, <2>2
<1>8. CASE \E v \in Visitors : ConvertRow(l, v)
  <2>1. UNCHANGED <<lpc, todo, transactions, payload, loaded>>
    BY <1>8 DEF ConvertRow
  <2>2. LoadPhaseOf(l)'
    BY <1>1, <2>1, PhaseFrame DEF LoadPhaseOf
  <2> QED
    BY <1>2, <2>1, <2>2
<1>9. CASE \/ CommitConversions(l) \/ SetCount(l) \/ AnswerLoad(l)
           \/ \E s \in Stores : CountStore(l, s)
  <2>1. /\ lpc[l] \notin {"idle", "insert"}
        /\ lpc'[l] \notin {"idle", "insert", "update", "rows"}
        /\ UNCHANGED <<transactions, payload, loaded>>
        /\ \A k \in Loads \ {l} : lpc'[k] = lpc[k] /\ todo'[k] = todo[k]
    BY <1>1, <1>9 DEF CommitConversions, SetCount, AnswerLoad, CountStore
  <2>2. LoadPhaseOf(l)'
    BY <1>1, <2>1 DEF LoadPhaseOf
  <2> QED
    BY <1>2, <2>1, <2>2
<1>10. CASE AbortLoad(l)
  <2>1. /\ lpc'[l] = "done" /\ UNCHANGED <<transactions, payload>>
        /\ loaded'[l] = IF lpc[l] = "insert" THEN {} ELSE loaded[l]
        /\ \A k \in Loads \ {l} : /\ lpc'[k] = lpc[k] /\ todo'[k] = todo[k]
                                  /\ loaded'[k] = loaded[k]
    BY <1>1, <1>10 DEF AbortLoad
  <2>2. LoadPhaseOf(l)'
    BY <1>1, <2>1 DEF LoadPhaseOf
  <2>3. ASSUME NEW k \in Loads \ {l}
        PROVE  LoadPhaseOf(k)'
    BY <1>1, <2>1, <2>3, PhaseFrame DEF LoadPhaseOf
  <2>4. \A k \in Loads : loaded'[k] \subseteq loaded[k]
    BY <2>1
  <2>5. LoadedOnce'
    BY <2>1, <2>4 DEF LoadedOnce
  <2> QED
    BY <2>2, <2>3, <2>5 DEF LoadPhases
<1>11. CASE FailLoad(l)
  BY <1>10, <1>11 DEF FailLoad
<1>12. CASE AdvanceLoad(l)
  BY <1>5, <1>6, <1>7, <1>8, <1>9, <1>12 DEF AdvanceLoad
<1> QED
  BY <1>3, <1>4, <1>10, <1>11, <1>12 DEF LoadStep

-----------------------------------------------------------------------------
\* Rows and conversions.

\* What a step may do to the committed rows.
SessionsProgress ==
    \A v \in Visitors :
        /\ Extends(sessions[v], sessions'[v])
        /\ IsConverted(sessions'[v]) /\ ~IsConverted(sessions[v]) => Justified(sessions[v])

\* What a call knows of its rows does not change by what others do.
LEMMA RequestRowsFrame ==
    ASSUME NEW r \in Requests, RequestRowsOf(r), dirty'[r] = dirty[r],
           pc[r] = "sessions" => pc'[r] = "sessions",
           \A v \in Visitors : Extends(sessions[v], sessions'[v])
    PROVE  RequestRowsOf(r)'
  BY DEF RequestRowsOf, Extends, IsConverted

LEMMA LoadRowsFrame ==
    ASSUME NEW l \in Loads, LoadRowsOf(l), dirty'[l] = dirty[l],
           lpc'[l] = lpc[l], won'[l] = won[l], transactions \subseteq transactions',
           \A v \in Visitors : dirty[l][v] # NoRow => sessions'[v] = sessions[v]
    PROVE  LoadRowsOf(l)'
<1>1. ASSUME NEW v \in Visitors, Justified(sessions[v]), sessions'[v] = sessions[v]
      PROVE  Justified(sessions[v])'
  BY <1>1 DEF Justified
<1>2. CASE lpc[l] \in {"update", "rows"}
  <2>1. ASSUME NEW v \in Visitors
        PROVE  /\ dirty'[l][v] # NoRow <=> v \in won'[l]
               /\ v \in won'[l] => /\ IsConverted(dirty[l][v])'
                                   /\ ~IsConverted(sessions[v])'
                                   /\ Justified(sessions[v])'
    BY <1>1, <1>2, <2>1 DEF LoadRowsOf, IsConverted
  <2> QED
    BY <1>2, <2>1 DEF LoadRowsOf
<1>3. CASE lpc[l] \notin {"update", "rows"}
  BY <1>3 DEF LoadRowsOf
<1> QED
  BY <1>2, <1>3

LEMMA ReconciledFrame ==
    ASSUME Reconciled,
           \A v \in Visitors : IsConverted(sessions'[v]) <=> IsConverted(sessions[v]),
           \A l \in Loads : Credit(l)' = Credit(l)
    PROVE  Reconciled'
  BY DEF Reconciled, IsConverted

\* A step of a request only extends rows, and converts none.
LEMMA RequestRowsStep ==
    ASSUME TypeOK, Kept, LoadsTypeOK, Isolation, RequestRows, LoadRows, Reconciled,
           NEW r \in Requests, RequestStep(r), UNCHANGED loadVars
    PROVE  Isolation' /\ RequestRows' /\ LoadRows' /\ Reconciled' /\ SessionsProgress
<1>1. /\ SessionsTypeOK /\ r \in Clients
      /\ \A q \in Requests : RequestRowsOf(q) /\ q \in Clients
      /\ \A l \in Loads : LoadRowsOf(l) /\ l \in Clients /\ l # r
      /\ pc \in [Requests -> PCs]
  BY ApiAssumption DEF TypeOK, RequestsTypeOK, RequestRows, LoadRows
<1>2. /\ \A v \in Visitors : sessions[v] \in Row \cup {NoRow}
      /\ \A c \in Clients, v \in Visitors : dirty[c][v] \in Row \cup {NoRow}
  BY <1>1 DEF SessionsTypeOK
<1>3. \A c \in Clients \ {r} : dirty'[c] = dirty[c]
  BY RequestFrame
\* Enough: the request's own rows, and that the others' are left alone.
<1>4. ASSUME Isolation', RequestRowsOf(r)',
             \A q \in Requests \ {r} : pc[q] = "sessions" => pc'[q] = "sessions",
             \A v \in Visitors : /\ Extends(sessions[v], sessions'[v])
                                 /\ IsConverted(sessions'[v]) => IsConverted(sessions[v]),
             \A c \in Clients \ {r}, v \in Visitors :
                 dirty[c][v] # NoRow => sessions'[v] = sessions[v]
      PROVE  Isolation' /\ RequestRows' /\ LoadRows' /\ Reconciled' /\ SessionsProgress
  <2>1. RequestRows'
    <3>1. ASSUME NEW q \in Requests \ {r}
          PROVE  RequestRowsOf(q)'
      BY <1>1, <1>3, <1>4, <3>1, RequestRowsFrame
    <3> QED
      BY <1>4, <3>1 DEF RequestRows
  <2>2. LoadRows'
    <3>1. ASSUME NEW l \in Loads
          PROVE  LoadRowsOf(l)'
      BY <1>1, <1>3, <1>4, <3>1, LoadRowsFrame DEF loadVars
    <3> QED
      BY <3>1 DEF LoadRows
  <2>3. Reconciled'
    <3>1. \A v \in Visitors : IsConverted(sessions'[v]) <=> IsConverted(sessions[v])
      BY <1>4 DEF Extends, IsConverted
    <3>2. \A l \in Loads : Credit(l)' = Credit(l)
      BY DEF loadVars, Credit, Converting
    <3> QED
      BY <3>1, <3>2, ReconciledFrame
  <2>4. SessionsProgress
    BY <1>4 DEF SessionsProgress
  <2> QED
    BY <1>4, <2>1, <2>2, <2>3, <2>4
<1>5. CASE /\ UNCHANGED sessionVars
           /\ \A q \in Requests : pc[q] = "sessions" => pc'[q] = "sessions"
  <2>1. UNCHANGED <<sessions, dirty>>
    BY <1>5 DEF sessionVars
  <2>2. Isolation'
    BY <2>1 DEF Isolation
  <2>3. \A v \in Visitors : Extends(sessions[v], sessions'[v])
    BY <1>2, <2>1, ExtendsItself
  <2>4. RequestRowsOf(r)'
    BY <1>1, <1>5, <2>1, <2>3, RequestRowsFrame
  <2> QED
    BY <1>4, <1>5, <2>1, <2>2, <2>3, <2>4
<1>6. ASSUME UNCHANGED pc, pc[r] = "sessions",
             NEW e \in Event, Valid(e), SessionStatement(r, e)
      PROVE  Isolation' /\ RequestRows' /\ LoadRows' /\ Reconciled' /\ SessionsProgress
  <2>1. CASE ~TouchesSession(e)
    BY <1>5, <1>6, <2>1 DEF SessionStatement
  <2>2. CASE TouchesSession(e)
    <3> DEFINE v == e.vid
               own == OwnRow(r, v)
               row == Written(own, e, TxNow(r))
    <3>1. /\ StatementBlockers(r, e) = {}
          /\ dirty' = [dirty EXCEPT ![r][v] = row]
          /\ UNCHANGED sessions
      BY <1>6, <2>2 DEF SessionStatement
    <3>2. v \in Visitors
      BY DEF Event
    <3>3. own \in Row \cup {NoRow} /\ TxNow(r) \in Nat
      BY <1>1, <1>2, <3>2 DEF OwnRow, TxNow, SessionsTypeOK
    <3>4. /\ row \in Row \cup {NoRow}
          /\ Extends(own, row)
          /\ IsConverted(row) => IsConverted(own)
          /\ own = NoRow /\ ~IsEntry(e) => row = NoRow
      BY <1>6, <2>2, <3>3, WrittenType, WrittenExtends
    <3>5. row # NoRow => Holders(r, v) = {}
      BY <2>2, <3>1, <3>4 DEF StatementBlockers
    <3>6. IsConverted(own) => IsConverted(sessions[v])
      BY <1>1, <3>2 DEF OwnRow, RequestRowsOf
    <3> HIDE DEF own, row, v
    <3>7. Isolation'
      BY <1>1, <3>1, <3>2, <3>4, <3>5, WriteIsolated DEF own
    <3>8. \A w \in Visitors : dirty'[r][w] = IF w = v THEN row ELSE dirty[r][w]
      BY <1>1, <3>1, <3>2 DEF SessionsTypeOK
    <3>9. RequestRowsOf(r)'
      <4>1. ASSUME NEW w \in Visitors, IsConverted(dirty'[r][w])
            PROVE  IsConverted(sessions'[w])
        BY <1>1, <3>1, <3>4, <3>6, <3>8, <4>1 DEF RequestRowsOf
      <4> QED
        BY <1>6, <4>1 DEF RequestRowsOf, IsConverted
    <3> QED
      BY <1>2, <1>4, <1>6, <3>1, <3>7, <3>9, ExtendsItself
  <2> QED
    BY <2>1, <2>2
<1>7. CASE pc' = [pc EXCEPT ![r] = "redis"] /\ CommitRows(r)
  <2>1. /\ Isolation'
        /\ \A v \in Visitors : sessions'[v] = OwnRow(r, v) /\ Extends(sessions[v], sessions'[v])
        /\ \A c \in Clients \ {r}, v \in Visitors :
             dirty[c][v] # NoRow => sessions'[v] = sessions[v]
        /\ dirty'[r] = NoRows
    BY <1>1, <1>7, CommitExtends
  <2>2. \A v \in Visitors : IsConverted(sessions'[v]) => IsConverted(sessions[v])
    BY <1>1, <2>1 DEF OwnRow, RequestRowsOf
  <2>3. RequestRowsOf(r)'
    BY <2>1 DEF RequestRowsOf, NoRows, IsConverted
  <2>4. \A q \in Requests \ {r} : pc'[q] = pc[q]
    BY <1>1, <1>7
  <2> QED
    BY <1>4, <2>1, <2>2, <2>3, <2>4
<1>8. CASE pc' = [pc EXCEPT ![r] = "done"] /\ RollbackRows(r)
  <2>1. Isolation' /\ dirty'[r] = NoRows /\ UNCHANGED sessions
    BY <1>1, <1>8, RollbackIsolated DEF RollbackRows
  <2>2. RequestRowsOf(r)'
    BY <2>1 DEF RequestRowsOf, NoRows, IsConverted
  <2>3. \A q \in Requests \ {r} : pc'[q] = pc[q]
    BY <1>1, <1>8
  <2> QED
    BY <1>2, <1>4, <2>1, <2>2, <2>3, ExtendsItself
<1> QED
  BY <1>5, <1>6, <1>7, <1>8, RequestKinds

\* A step of a load extends rows, converts what is justified, and gets the
\* credit for that and nothing else.
LEMMA LoadRowsStep ==
    ASSUME TypeOK, LoadsTypeOK, LoadPhases, Isolation, RequestRows, LoadRows, Reconciled,
           NEW l \in Loads, LoadStep(l), UNCHANGED ingestionVars
    PROVE  Isolation' /\ RequestRows' /\ LoadRows' /\ Reconciled' /\ SessionsProgress
<1> USE DEF LoadGoto
<1>1. /\ SessionsTypeOK /\ l \in Clients
      /\ \A q \in Requests : RequestRowsOf(q) /\ q \in Clients /\ q # l
      /\ \A k \in Loads : LoadRowsOf(k) /\ k \in Clients
      /\ lpc \in [Loads -> LoadPCs] /\ won \in [Loads -> SUBSET Visitors]
  BY ApiAssumption DEF TypeOK, LoadsTypeOK, RequestRows, LoadRows
<1>2. /\ \A v \in Visitors : sessions[v] \in Row \cup {NoRow}
      /\ \A c \in Clients, v \in Visitors : dirty[c][v] \in Row \cup {NoRow}
  BY <1>1 DEF SessionsTypeOK
\* Enough: the load's own rows, and that the others' are left alone.
<1>3. ASSUME Isolation', LoadRowsOf(l)', Reconciled', SessionsProgress,
             transactions \subseteq transactions',
             \A k \in Loads \ {l} : lpc'[k] = lpc[k] /\ won'[k] = won[k],
             \A c \in Clients \ {l} : dirty'[c] = dirty[c],
             \A c \in Clients \ {l}, v \in Visitors :
                 dirty[c][v] # NoRow => sessions'[v] = sessions[v]
      PROVE  Isolation' /\ RequestRows' /\ LoadRows' /\ Reconciled' /\ SessionsProgress
  <2>1. RequestRows'
    <3>1. ASSUME NEW q \in Requests
          PROVE  RequestRowsOf(q)'
      BY <1>1, <1>3, <3>1, RequestRowsFrame DEF SessionsProgress, ingestionVars, requestVars
    <3> QED
      BY <3>1 DEF RequestRows
  <2>2. LoadRows'
    <3>1. ASSUME NEW k \in Loads \ {l}
          PROVE  LoadRowsOf(k)'
      BY <1>1, <1>3, <3>1, LoadRowsFrame
    <3> QED
      BY <1>3, <3>1 DEF LoadRows
  <2> QED
    BY <1>3, <2>1, <2>2
\* Enough if no row is committed and nobody's credit changes.
<1>4. ASSUME Isolation', LoadRowsOf(l)', UNCHANGED sessions,
             transactions \subseteq transactions', Credit(l)' = Credit(l),
             \A k \in Loads \ {l} : lpc'[k] = lpc[k] /\ won'[k] = won[k],
             \A c \in Clients \ {l} : dirty'[c] = dirty[c]
      PROVE  Isolation' /\ RequestRows' /\ LoadRows' /\ Reconciled' /\ SessionsProgress
  <2>1. SessionsProgress
    BY <1>2, <1>4, ExtendsItself DEF SessionsProgress
  <2>2. \A k \in Loads : Credit(k)' = Credit(k)
    BY <1>4 DEF Credit, Converting
  <2>3. Reconciled'
    BY <1>4, <2>2, ReconciledFrame
  <2> QED
    BY <1>3, <1>4, <2>1, <2>3
<1>5. CASE UNCHANGED <<sessionVars, won>> /\ (LoadNothing(l) \/ (\E p \in Payloads : ReceiveLoad(l, p))
           \/ InsertTransaction(l) \/ CommitTransactions(l))
  <2>1. /\ UNCHANGED <<sessions, dirty, won>>
        /\ transactions \subseteq transactions'
        /\ lpc[l] \in {"idle", "insert"} /\ lpc'[l] \in {"insert", "update", "done"}
        /\ \A k \in Loads \ {l} : lpc'[k] = lpc[k]
    BY <1>1, <1>5 DEF LoadNothing, ReceiveLoad, InsertTransaction, CommitTransactions,
       sessionVars
  <2>2. won[l] = {} /\ dirty[l] = NoRows
    BY <1>1, <2>1 DEF LoadRowsOf
  <2>3. LoadRowsOf(l)'
    BY <2>1, <2>2 DEF LoadRowsOf, NoRows
  <2>4. Credit(l)' = Credit(l)
    BY <2>1, <2>2 DEF Credit, Converting
  <2>5. Isolation'
    BY <2>1 DEF Isolation
  <2> QED
    BY <1>4, <2>1, <2>3, <2>4, <2>5
<1>6. CASE BeginUpdate(l) \/ EndUpdate(l)
  <2>1. /\ UNCHANGED <<sessions, dirty, won, transactions>>
        /\ lpc[l] \in {"update", "rows"} /\ lpc'[l] \in {"update", "rows"}
        /\ \A k \in Loads \ {l} : lpc'[k] = lpc[k]
    BY <1>1, <1>6 DEF BeginUpdate, EndUpdate, sessionVars
  <2>2. LoadRowsOf(l)'
    BY <1>1, <2>1 DEF LoadRowsOf, IsConverted, Justified
  <2>3. Credit(l)' = Credit(l)
    BY <2>1 DEF Credit, Converting
  <2>4. Isolation'
    BY <2>1 DEF Isolation
  <2> QED
    BY <1>4, <2>1, <2>2, <2>3, <2>4
<1>7. ASSUME NEW v \in Visitors, ConvertRow(l, v)
      PROVE  Isolation' /\ RequestRows' /\ LoadRows' /\ Reconciled' /\ SessionsProgress
  <2> DEFINE row == OwnRow(l, v)
             t == payload[l][current[l]]
             after == Converted(row, txStart[l])
  <2>1. /\ lpc[l] = "rows" /\ Holders(l, v) = {}
        /\ UNCHANGED <<sessions, lpc, transactions>>
    BY <1>7 DEF ConvertRow
  <2>2. Credit(l)' = Credit(l)
    BY <2>1 DEF Credit, Converting
  <2>3. CASE ~Matches(row, t)
    <3>1. UNCHANGED <<dirty, won>>
      BY <1>7, <2>3 DEF ConvertRow
    <3>2. LoadRowsOf(l)'
      BY <1>1, <2>1, <3>1, LoadRowsFrame
    <3>3. Isolation'
      BY <2>1, <3>1 DEF Isolation
    <3> QED
      BY <1>4, <2>1, <2>2, <3>1, <3>2, <3>3
  <2>4. CASE Matches(row, t)
    <3>1. /\ dirty' = [dirty EXCEPT ![l][v] = after]
          /\ won' = [won EXCEPT ![l] = @ \cup {v}]
      BY <1>7, <2>4 DEF ConvertRow
    <3>2. dirty[l][v] = NoRow /\ row = sessions[v]
      BY <1>1, <2>1, <2>4 DEF LoadRowsOf, OwnRow, Matches, IsConverted
    <3>3. row \in Row /\ txStart[l] \in Nat
      BY <1>1, <1>2, <2>4, <3>2 DEF Matches, SessionsTypeOK
    <3>4. t \in transactions
      BY <2>1 DEF LoadPhases, LoadPhaseOf, LoadsTypeOK
    <3>5. Justified(sessions[v]) /\ ~IsConverted(sessions[v])
      <4>1. t \in Transaction
        BY <3>4, PosAssumption DEF LoadsTypeOK
      <4>2. row.updated \in Nat /\ t.ts \in Int /\ Window \in Int
        BY <3>3, <4>1, PosAssumption DEF Row, Transaction
      <4>3. row.updated \in (t.ts - Window)..t.ts
        BY <2>4, <4>2 DEF Matches
      <4> QED
        BY <2>4, <3>2, <3>4, <4>3 DEF Matches, Justified, IsConverted
    <3>6. /\ after \in Row /\ Extends(row, after) /\ IsConverted(after)
      BY <3>3, ConvertedRow
    <3> HIDE DEF after
    <3>7. Isolation'
      BY <1>1, <2>1, <3>1, <3>6, WriteIsolated
    <3>8. /\ \A w \in Visitors : dirty'[l][w] = IF w = v THEN after ELSE dirty[l][w]
          /\ won'[l] = won[l] \cup {v}
          /\ \A k \in Loads \ {l} : won'[k] = won[k]
          /\ \A c \in Clients \ {l} : dirty'[c] = dirty[c]
      BY <1>1, <3>1 DEF SessionsTypeOK
    <3>9. LoadRowsOf(l)'
      <4>1. ASSUME NEW w \in Visitors
            PROVE  /\ dirty'[l][w] # NoRow <=> w \in won'[l]
                   /\ w \in won'[l] => /\ IsConverted(dirty[l][w])'
                                       /\ ~IsConverted(sessions[w])'
                                       /\ Justified(sessions[w])'
        <5>1. CASE w = v
          BY <2>1, <3>5, <3>6, <3>8, <5>1 DEF IsConverted, Justified
        <5>2. CASE w # v
          BY <1>1, <2>1, <3>8, <5>2 DEF LoadRowsOf, IsConverted, Justified
        <5> QED
          BY <5>1, <5>2
      <4> QED
        BY <2>1, <4>1 DEF LoadRowsOf
    <3> QED
      BY <1>4, <2>1, <2>2, <3>7, <3>8, <3>9
  <2> QED
    BY <2>3, <2>4
<1>8. CASE CommitConversions(l)
  <2>1. /\ lpc[l] = "update" /\ lpc'[l] = "count" /\ CommitRows(l)
        /\ \A k \in Loads \ {l} : lpc'[k] = lpc[k]
        /\ UNCHANGED <<won, transactions>>
    BY <1>1, <1>8 DEF CommitConversions
  <2>2. /\ Isolation'
        /\ \A v \in Visitors : sessions'[v] = OwnRow(l, v) /\ Extends(sessions[v], sessions'[v])
        /\ \A c \in Clients \ {l} : dirty'[c] = dirty[c]
        /\ \A c \in Clients \ {l}, v \in Visitors :
             dirty[c][v] # NoRow => sessions'[v] = sessions[v]
        /\ dirty'[l] = NoRows
    BY <1>1, <2>1, CommitExtends
  <2>3. LoadRowsOf(l)'
    BY <2>1, <2>2 DEF LoadRowsOf
  <2>4. \A v \in Visitors : /\ IsConverted(sessions'[v]) <=> IsConverted(sessions[v]) \/ v \in won[l]
                            /\ v \in won[l] => ~IsConverted(sessions[v]) /\ Justified(sessions[v])
    <3>1. ASSUME NEW v \in Visitors, v \in won[l]
          PROVE  IsConverted(sessions'[v]) /\ ~IsConverted(sessions[v]) /\ Justified(sessions[v])
      BY <1>1, <2>1, <2>2, <3>1 DEF LoadRowsOf, OwnRow
    <3>2. ASSUME NEW v \in Visitors, v \notin won[l]
          PROVE  sessions'[v] = sessions[v]
      BY <1>1, <2>1, <2>2, <3>2 DEF LoadRowsOf, OwnRow
    <3> QED
      BY <3>1, <3>2
  <2>5. SessionsProgress
    BY <2>2, <2>4 DEF SessionsProgress
  <2>6. /\ Credit(l) = {} /\ Credit(l)' = won[l]
        /\ \A k \in Loads \ {l} : Credit(k)' = Credit(k)
    BY <2>1 DEF Credit, Converting
  <2>7. Reconciled'
    <3>1. ASSUME NEW v \in Visitors
          PROVE  IsConverted(sessions[v])' <=> \E k \in Loads : v \in Credit(k)'
      <4>1. IsConverted(sessions[v])' <=> IsConverted(sessions'[v])
        BY DEF IsConverted
      <4> QED
        BY <2>4, <2>6, <4>1 DEF Reconciled
    <3>2. ASSUME NEW k \in Loads \ {l}
          PROVE  Credit(k) \cap won[l] = {}
      <4>1. \A v \in Credit(k) : v \in Visitors
        BY <1>1 DEF Credit
      <4> QED
        BY <2>4, <3>2, <4>1 DEF Reconciled
    <3>3. ASSUME NEW k \in Loads, NEW m \in Loads, k # m
          PROVE  Credit(k)' \cap Credit(m)' = {}
      <4>1. CASE k # l /\ m # l
        <5>1. Credit(k) \cap Credit(m) = {}
          BY <3>3 DEF Reconciled
        <5> QED
          BY <2>6, <4>1, <5>1
      <4>2. CASE k = l
        BY <2>6, <3>2, <3>3, <4>2
      <4>3. CASE m = l
        BY <2>6, <3>2, <3>3, <4>3
      <4> QED
        BY <4>1, <4>2, <4>3
    <3> QED
      BY <3>1, <3>3 DEF Reconciled
  <2> QED
    BY <1>3, <2>1, <2>2, <2>3, <2>5, <2>7
<1>9. CASE (\E s \in Stores : CountStore(l, s)) \/ SetCount(l) \/ AnswerLoad(l)
  <2>1. /\ UNCHANGED <<sessions, dirty, won, transactions>>
        /\ lpc[l] \in {"count", "set"} /\ lpc'[l] \in {"count", "set", "done"}
        /\ \A k \in Loads \ {l} : lpc'[k] = lpc[k]
    BY <1>1, <1>9 DEF CountStore, SetCount, AnswerLoad, sessionVars
  <2>2. LoadRowsOf(l)'
    BY <1>1, <2>1 DEF LoadRowsOf
  <2>3. Credit(l)' = Credit(l)
    BY <2>1 DEF Credit, Converting
  <2>4. Isolation'
    BY <2>1 DEF Isolation
  <2> QED
    BY <1>4, <2>1, <2>2, <2>3, <2>4
<1>10. CASE AbortLoad(l)
  <2>1. /\ lpc[l] \notin {"idle", "done"} /\ lpc'[l] = "done" /\ RollbackRows(l)
        /\ won'[l] = IF lpc[l] \in {"update", "rows"} THEN {} ELSE won[l]
        /\ \A k \in Loads \ {l} : lpc'[k] = lpc[k] /\ won'[k] = won[k]
        /\ UNCHANGED transactions
    BY <1>1, <1>10 DEF AbortLoad
  <2>2. /\ Isolation' /\ dirty'[l] = NoRows /\ UNCHANGED sessions
        /\ \A c \in Clients \ {l} : dirty'[c] = dirty[c]
    BY <1>1, <2>1, RollbackIsolated DEF RollbackRows
  <2>3. LoadRowsOf(l)'
    BY <2>1, <2>2 DEF LoadRowsOf
  <2>4. Credit(l)' = Credit(l)
    BY <1>1, <2>1 DEF Credit, Converting, LoadRowsOf, LoadPCs
  <2> QED
    BY <1>4, <2>1, <2>2, <2>3, <2>4
<1>11. CASE \/ LoadNothing(l) \/ (\E p \in Payloads : ReceiveLoad(l, p))
            \/ InsertTransaction(l) \/ CommitTransactions(l)
  <2>1. UNCHANGED <<sessionVars, won>>
    BY <1>11 DEF LoadNothing, ReceiveLoad, InsertTransaction, CommitTransactions
  <2> QED
    BY <1>5, <1>11, <2>1
<1> QED
  BY <1>6, <1>7, <1>8, <1>9, <1>10, <1>11 DEF LoadStep, AdvanceLoad, FailLoad

-----------------------------------------------------------------------------
\* Counts.

\* A store's converted sessions can be counted, and never become fewer.
LEMMA ConvertedGrow ==
    ASSUME SessionsProgress, NEW s
    PROVE  /\ Cardinality(ConvertedRows(s)) \in Nat
           /\ Cardinality(ConvertedRows(s))' \in Nat
           /\ Cardinality(ConvertedRows(s)) <= Cardinality(ConvertedRows(s))'
<1>1. ConvertedRows(s) \subseteq ConvertedRows(s)' /\ ConvertedRows(s)' \subseteq Visitors
  BY DEF ConvertedRows, SessionsProgress, Extends
<1>2. IsFiniteSet(ConvertedRows(s)')
  BY <1>1, PosAssumption, FS_Subset
<1> QED
  BY <1>1, <1>2, FS_Subset, FS_CardinalityType

\* The SELECT counts the customers among them.
LEMMA CountedAreConverted == \A s : ConvertedIn(s) <= Cardinality(ConvertedRows(s))
<1> SUFFICES ASSUME NEW s PROVE ConvertedIn(s) <= Cardinality(ConvertedRows(s))
  OBVIOUS
<1> DEFINE C == {v \in Visitors : /\ sessions[v] # NoRow
                                  /\ sessions[v].store = s
                                  /\ ~sessions[v].staff
                                  /\ sessions[v].converted}
<1>1. C \subseteq ConvertedRows(s) /\ ConvertedRows(s) \subseteq Visitors
  BY DEF ConvertedRows
<1>2. IsFiniteSet(ConvertedRows(s))
  BY <1>1, PosAssumption, FS_Subset
<1> QED
  BY <1>1, <1>2, FS_Subset DEF ConvertedIn

LEMMA CountsStep ==
    ASSUME ApiTypeOK, Kept, CountsNotAhead, SessionsProgress, [ApiNext]_apiVars
    PROVE  CountsNotAhead'
<1> DEFINE N(s) == Cardinality(ConvertedRows(s))
<1>1. /\ \A l \in Loads : count[l].n \in Nat /\ count[l].store \in Stores
      /\ \A s \in Stores : conversionCount[s] \in Nat
      /\ count \in [Loads -> Count] /\ conversionCount \in [Stores -> Nat]
  BY DEF ApiTypeOK, LoadsTypeOK, Count, TypeOK, RedisTypeOK
<1>2. \A s : N(s) \in Nat /\ N(s)' \in Nat /\ N(s) <= N(s)'
  BY ConvertedGrow
<1>3. /\ \A l \in Loads, s \in Stores : count[l].store = s => count[l].n <= N(s)
      /\ \A s \in Stores : conversionCount[s] <= N(s)
  BY DEF CountsNotAhead
<1>4. ASSUME \A l \in Loads, s \in Stores : count'[l].store = s => count'[l].n <= N(s)',
             \A s \in Stores : conversionCount'[s] <= N(s)'
      PROVE  CountsNotAhead'
  BY <1>4 DEF CountsNotAhead
<1> HIDE DEF N
<1>5. CASE UNCHANGED <<count, conversionCount>>
  <2>1. \A l \in Loads, s \in Stores : count'[l].store = s => count'[l].n <= N(s)'
    BY <1>1, <1>2, <1>3, <1>5
  <2>2. \A s \in Stores : conversionCount'[s] <= N(s)'
    BY <1>1, <1>2, <1>3, <1>5
  <2> QED
    BY <1>4, <2>1, <2>2
<1>6. ASSUME NEW r \in Requests, RequestStep(r), UNCHANGED loadVars
      PROVE  CountsNotAhead'
  BY <1>5, <1>6, RequestKinds DEF loadVars, ApiTypeOK
<1>7. ASSUME NEW l \in Loads, LoadStep(l), UNCHANGED ingestionVars
      PROVE  CountsNotAhead'
  <2>1. ASSUME NEW z \in Stores, CountStore(l, z)
        PROVE  CountsNotAhead'
    <3>1. /\ count' = [count EXCEPT ![l] = [store |-> z, n |-> ConvertedIn(z)]]
          /\ UNCHANGED conversionCount
      BY <2>1 DEF CountStore
    <3>2. \A k \in Loads : count'[k] = IF k = l THEN [store |-> z, n |-> ConvertedIn(z)]
                                       ELSE count[k]
      BY <1>1, <3>1
    <3>3. ConvertedIn(z) \in Nat /\ ConvertedIn(z) <= N(z)
      BY CountedAreConverted, ConvertedInType DEF N
    <3>4. ConvertedIn(z) <= N(z)'
      BY <1>2, <3>3
    <3>5. \A k \in Loads, s \in Stores : count'[k].store = s => count'[k].n <= N(s)'
      BY <1>1, <1>2, <1>3, <3>2, <3>4
    <3>6. \A s \in Stores : conversionCount'[s] <= N(s)'
      BY <1>1, <1>2, <1>3, <3>1
    <3> QED
      BY <1>4, <3>5, <3>6
  <2>2. CASE SetCount(l)
    <3>1. /\ conversionCount' = [conversionCount EXCEPT ![count[l].store] = count[l].n]
          /\ UNCHANGED count
      BY <2>2 DEF SetCount
    <3>2. \A s \in Stores : conversionCount'[s] = IF s = count[l].store THEN count[l].n
                                                  ELSE conversionCount[s]
      BY <1>1, <3>1
    <3>3. \A s \in Stores : conversionCount'[s] <= N(s)'
      BY <1>1, <1>2, <1>3, <3>2
    <3>4. \A k \in Loads, s \in Stores : count'[k].store = s => count'[k].n <= N(s)'
      BY <1>1, <1>2, <1>3, <3>1
    <3> QED
      BY <1>4, <3>3, <3>4
  <2>3. CASE ~SetCount(l) /\ ~\E s \in Stores : CountStore(l, s)
    <3>1. UNCHANGED <<count, conversionCount>>
      BY <1>7, <2>3 DEF LoadStep, AdvanceLoad, FailLoad, LoadNothing, ReceiveLoad,
         InsertTransaction, CommitTransactions, BeginUpdate, ConvertRow, EndUpdate,
         CommitConversions, AnswerLoad, AbortLoad
    <3> QED
      BY <1>5, <3>1
  <2> QED
    BY <2>1, <2>2, <2>3
<1>8. CASE Tick \/ UNCHANGED apiVars
  BY <1>5, <1>8 DEF Tick, apiVars, vars, redisVars, loadVars
<1> QED
  BY <1>6, <1>7, <1>8, ApiKinds DEF ApiTypeOK

-----------------------------------------------------------------------------
\* The invariant, and what follows.

LEMMA ApiInvInit == ApiInit => ApiInv
<1> SUFFICES ASSUME ApiInit PROVE ApiInv
  OBVIOUS
<1> USE DEF ApiInit, LoadsInit
<1>1. TypeOK /\ Kept /\ now # NoTime
  BY TypeInit DEF Init, SessionsInit, NoTime
<1>2. /\ sessions = [v \in Visitors |-> NoRow]
      /\ dirty = [c \in Clients |-> NoRows]
  BY DEF Init, SessionsInit, NoRows
<1>3. LoadsTypeOK
  <2>1. (CHOOSE s \in Stores : TRUE) \in Stores
    BY PosAssumption
  <2>2. [store |-> CHOOSE s \in Stores : TRUE, n |-> 0] \in Count
    BY <2>1 DEF Count
  <2>3. count \in [Loads -> Count]
    BY <2>2
  <2>4. << >> \in Seq(Transactions)
    OBVIOUS
  <2> QED
    BY <2>3, <2>4, PosAssumption DEF LoadsTypeOK, LoadPCs
<1>4. LoadPhases /\ LoadedOnce
  BY DEF LoadPhases, LoadPhaseOf, LoadedOnce
<1>5. Isolation
  BY <1>2 DEF Isolation, NoRows
<1>6. RequestRows /\ LoadRows
  BY <1>2, ApiAssumption
     DEF RequestRows, RequestRowsOf, LoadRows, LoadRowsOf, IsConverted, NoRows
<1>7. Reconciled
  BY <1>2 DEF Reconciled, Credit, Converting, IsConverted
<1>8. CountsNotAhead
  <2>1. \A s : Cardinality(ConvertedRows(s)) = 0
    <3>1. \A s : ConvertedRows(s) = {}
      BY <1>2 DEF ConvertedRows
    <3> QED
      BY <3>1, FS_EmptySet
  <2>2. \A s \in Stores : conversionCount[s] = 0
    BY DEF Init, SessionsInit
  <2>3. \A l \in Loads : count[l].n = 0
    OBVIOUS
  <2> QED
    BY <2>1, <2>2, <2>3 DEF CountsNotAhead
<1> QED
  BY <1>1, <1>3, <1>4, <1>5, <1>6, <1>7, <1>8 DEF ApiInv, ApiTypeOK

\* Every step keeps the invariant, and only makes progress on the rows.
LEMMA ApiInvStep ==
    ASSUME ApiInv, [ApiNext]_apiVars
    PROVE  ApiInv' /\ SessionsProgress
<1> USE DEF ApiInv
<1>1. ApiTypeOK' /\ Kept' /\ now' # NoTime
  BY ApiTypeStep
<1>2. TypeOK /\ LoadsTypeOK
  BY DEF ApiTypeOK
\* Enough for a step that leaves the tables, the calls and the overlays alone.
<1>3. CASE UNCHANGED <<sessions, dirty, pc, loadVars>>
  <2>1. LoadPhases' /\ LoadedOnce'
    BY <1>3 DEF LoadPhases, LoadPhaseOf, LoadedOnce, PendingTransactions, NewTransactions,
       loadVars
  <2>2. Isolation' /\ RequestRows' /\ LoadRows' /\ Reconciled'
    BY <1>3 DEF Isolation, RequestRows, RequestRowsOf, LoadRows, LoadRowsOf, Reconciled,
       Credit, Converting, IsConverted, Justified, loadVars
  <2>3. SessionsProgress
    <3>1. \A v \in Visitors : Extends(sessions[v], sessions[v])
      BY <1>2, ExtendsItself DEF TypeOK, SessionsTypeOK
    <3> QED
      BY <1>3, <3>1 DEF SessionsProgress
  <2> QED
    BY <1>1, <2>1, <2>2, <2>3, CountsStep
<1>4. ASSUME NEW r \in Requests, RequestStep(r), UNCHANGED loadVars
      PROVE  ApiInv' /\ SessionsProgress
  <2>1. LoadPhases' /\ LoadedOnce'
    BY <1>4 DEF LoadPhases, LoadPhaseOf, LoadedOnce, PendingTransactions, NewTransactions,
       loadVars
  <2>2. Isolation' /\ RequestRows' /\ LoadRows' /\ Reconciled' /\ SessionsProgress
    BY <1>2, <1>4, RequestRowsStep
  <2> QED
    BY <1>1, <2>1, <2>2, CountsStep
<1>5. ASSUME NEW l \in Loads, LoadStep(l), UNCHANGED ingestionVars
      PROVE  ApiInv' /\ SessionsProgress
  <2>1. LoadPhases' /\ LoadedOnce'
    BY <1>2, <1>5, PhaseStep
  <2>2. Isolation' /\ RequestRows' /\ LoadRows' /\ Reconciled' /\ SessionsProgress
    BY <1>2, <1>5, LoadRowsStep
  <2> QED
    BY <1>1, <2>1, <2>2, CountsStep
<1>6. CASE Tick \/ UNCHANGED apiVars
  <2>1. UNCHANGED <<sessions, dirty, pc, loadVars>>
    BY <1>6 DEF Tick, apiVars, vars, sessionVars, ingestionVars, requestVars
  <2> QED
    BY <1>3, <2>1
<1> QED
  BY <1>2, <1>4, <1>5, <1>6, ApiKinds

LEMMA ApiInvariant == ApiSpec => []ApiInv
<1>1. ApiInv /\ [ApiNext]_apiVars => ApiInv'
  BY ApiInvStep
<1> QED
  BY <1>1, ApiInvInit, PTL DEF ApiSpec

\* The tables, Redis, the requests and the loads keep their types.
THEOREM ApiTypeCorrect == ApiSpec => []ApiTypeOK
<1>1. ApiInv => ApiTypeOK
  BY DEF ApiInv
<1> QED
  BY <1>1, ApiInvariant, PTL

\* A transaction is loaded by one load, once, whatever loads overlap and fail.
THEOREM TransactionsLoadedOnce == ApiSpec => []LoadedOnce
<1>1. ApiInv => LoadedOnce
  BY DEF ApiInv
<1> QED
  BY <1>1, ApiInvariant, PTL

\* sessions_converted of all loads that have committed adds up: each converted
\* session is counted by one of them.
THEOREM ConversionsAddUp == ApiSpec => []ConversionsReconcile
<1>1. ApiInv => ConversionsReconcile
  <2> SUFFICES ASSUME Reconciled, LoadsTypeOK PROVE ConversionsReconcile
    BY DEF ApiInv, ApiTypeOK
  <2>1. \A l \in Converting : l \in Loads /\ Credit(l) = won[l] /\ won[l] \subseteq Visitors
    BY DEF Converting, Credit, LoadsTypeOK
  <2>2. \A l, m \in Converting : l # m => won[l] \cap won[m] = {}
    BY <2>1 DEF Reconciled
  <2>3. \A v \in Visitors : IsConverted(sessions[v]) <=> \E l \in Converting : v \in won[l]
    BY <2>1 DEF Reconciled, Credit
  <2>4. UNION {won[l] : l \in Converting}
          = {v \in Visitors : sessions[v] # NoRow /\ sessions[v].converted}
    BY <2>1, <2>3 DEF IsConverted
  <2> QED
    BY <2>2, <2>4 DEF ConversionsReconcile
<1> QED
  BY <1>1, ApiInvariant, PTL

\* Redis never shows more conversions than there are.
THEOREM ConversionCountBehind == ApiSpec => []ConversionCountNotAhead
<1>1. ApiInv => ConversionCountNotAhead
  BY DEF ApiInv, CountsNotAhead, ConversionCountNotAhead, ConvertedRows
<1> QED
  BY <1>1, ApiInvariant, PTL

\* No commit takes back what another has written: rows only learn more.
THEOREM UpdatesKept == ApiSpec => NoLostUpdate
<1>1. ApiInv /\ [ApiNext]_apiVars => SessionsProgress
  BY ApiInvStep
<1>2. SessionsProgress =>
        [\A v \in Visitors : sessions[v] # NoRow =>
           /\ sessions'[v] # NoRow
           /\ sessions[v].zones \subseteq sessions'[v].zones
           /\ sessions[v].billing => sessions'[v].billing
           /\ sessions[v].converted => sessions'[v].converted
           /\ sessions[v].reentries <= sessions'[v].reentries
           /\ sessions'[v].store = sessions[v].store
           /\ sessions'[v].entered = sessions[v].entered]_sessions
  BY DEF SessionsProgress, Extends
<1> QED
  BY <1>1, <1>2, ApiInvariant, PTL DEF ApiSpec, NoLostUpdate

\* A session is converted with good reason: what the UPDATE asked of the row
\* when it started is true of it when the conversion is committed.
THEOREM ConversionsAreJustified == ApiSpec => ConversionsJustified
<1>1. ApiInv /\ [ApiNext]_apiVars => SessionsProgress
  BY ApiInvStep
<1>2. SessionsProgress =>
        [\A v \in Visitors :
           LET row == sessions[v] IN
           /\ sessions'[v] # NoRow /\ sessions'[v].converted
           /\ row = NoRow \/ ~row.converted
           => /\ row # NoRow /\ row.billing /\ ~row.staff
              /\ \E t \in transactions :
                   /\ t.store = row.store
                   /\ row.updated \in (t.ts - Window)..t.ts]_sessions
  BY DEF SessionsProgress, IsConverted, Justified
<1> QED
  BY <1>1, <1>2, ApiInvariant, PTL DEF ApiSpec, ConversionsJustified

-----------------------------------------------------------------------------
\* Sums over finite sets.  MapThenSumSet takes out one element after the other,
\* and so do the proofs: induction is done by hand, on a smallest counterexample.

\* The element that is taken out of a set, and what is left.
AnyOf(S) == CHOOSE x \in S : TRUE
Without(S) == S \ {AnyOf(S)}

\* f gives the sum of the weights w of each part of S.
Adds(f, w, S) ==
    f = [T \in SUBSET S |-> IF T = {} THEN 0 ELSE w[AnyOf(T)] + f[Without(T)]]

\* A set of numbers has a lowest one.
LEMMA LowestExists ==
    ASSUME NEW S, S \subseteq Nat, S # {}
    PROVE  \E t \in S : \A u \in S : t <= u
<1> DEFINE R == OpToRel(<, Nat)
<1>1. IsWellFoundedOn(R, Nat)
  BY NatLessThanWellFounded
<1>2. PICK d \in S : \A y \in S : ~(<<y, d>> \in R)
  <2> HIDE DEF R
  <2> QED
    BY <1>1, WFMin
<1>3. \A y \in S : ~(y < d)
  BY <1>2 DEF OpToRel
<1> QED
  BY <1>3

\* Of finite sets, one has the fewest elements.
LEMMA SmallestExists ==
    ASSUME NEW F, F # {}, \A S \in F : IsFiniteSet(S)
    PROVE  \E S \in F : \A T \in F : Cardinality(S) <= Cardinality(T)
<1> DEFINE C == {Cardinality(S) : S \in F}
<1>1. C \subseteq Nat /\ C # {}
  BY FS_CardinalityType
<1>2. PICK c \in C : \A d \in C : c <= d
  <2> HIDE DEF C
  <2> QED
    BY <1>1, LowestExists
<1> QED
  BY <1>2

\* Taking out an element leaves one element less.
LEMMA WithoutIsLess ==
    ASSUME NEW S, IsFiniteSet(S), S # {}
    PROVE  /\ AnyOf(S) \in S /\ Without(S) \subseteq S /\ IsFiniteSet(Without(S))
           /\ Cardinality(Without(S)) \in Nat /\ Cardinality(S) = Cardinality(Without(S)) + 1
           /\ Cardinality(Without(S)) < Cardinality(S)
<1>1. AnyOf(S) \in S
  BY DEF AnyOf
<1>2. IsFiniteSet(Without(S)) /\ Cardinality(Without(S)) = Cardinality(S) - 1
  BY <1>1, FS_RemoveElement DEF Without
<1>3. Cardinality(Without(S)) \in Nat /\ Cardinality(S) \in Nat
  BY <1>2, FS_CardinalityType
<1> QED
  BY <1>1, <1>2, <1>3 DEF Without

\* What an Adds function gives for a part of S.
LEMMA AddsApply ==
    ASSUME NEW S, NEW f, NEW w, Adds(f, w, S), NEW T \in SUBSET S
    PROVE  f[T] = IF T = {} THEN 0 ELSE w[AnyOf(T)] + f[Without(T)]
<1> DEFINE g == [U \in SUBSET S |-> IF U = {} THEN 0 ELSE w[AnyOf(U)] + f[Without(U)]]
<1>1. f = g
  BY DEF Adds
<1>2. g[T] = IF T = {} THEN 0 ELSE w[AnyOf(T)] + f[Without(T)]
  OBVIOUS
<1> QED
  BY <1>1, <1>2

\* Two ways to add up agree on what they share.
LEMMA AddsAgree ==
    ASSUME NEW S, IsFiniteSet(S), NEW w, NEW T, NEW f, NEW g,
           Adds(f, w, S), Adds(g, w, T)
    PROVE  \A U \in SUBSET (S \cap T) : f[U] = g[U]
<1> DEFINE Bad == {U \in SUBSET (S \cap T) : f[U] # g[U]}
<1>1. SUFFICES ASSUME Bad # {} PROVE FALSE
  OBVIOUS
<1>2. \A U \in Bad : IsFiniteSet(U)
  BY FS_Subset
<1>3. PICK U \in Bad : \A V \in Bad : Cardinality(U) <= Cardinality(V)
  <2> HIDE DEF Bad
  <2> QED
    BY <1>1, <1>2, SmallestExists
<1>4. U \in SUBSET S /\ U \in SUBSET T /\ IsFiniteSet(U)
  BY <1>2
<1>5. U # {}
  BY <1>4, AddsApply
<1>6. f[Without(U)] # g[Without(U)]
  BY <1>4, <1>5, AddsApply
<1>7. Without(U) \in Bad
  BY <1>4, <1>5, <1>6, WithoutIsLess
<1>8. Cardinality(U) <= Cardinality(Without(U))
  BY <1>3, <1>7
<1> QED
  BY <1>4, <1>5, <1>8, WithoutIsLess, FS_CardinalityType

\* Every finite set can be added up.
LEMMA AddsExists ==
    ASSUME NEW S, IsFiniteSet(S), NEW w
    PROVE  \E f : Adds(f, w, S)
<1> DEFINE Bad == {U \in SUBSET S : ~\E f : Adds(f, w, U)}
<1>1. SUFFICES ASSUME Bad # {} PROVE FALSE
  OBVIOUS
<1>2. \A U \in Bad : IsFiniteSet(U)
  BY FS_Subset
<1>3. PICK U \in Bad : \A V \in Bad : Cardinality(U) <= Cardinality(V)
  <2> HIDE DEF Bad
  <2> QED
    BY <1>1, <1>2, SmallestExists
<1>4. U \in SUBSET S /\ IsFiniteSet(U) /\ ~\E f : Adds(f, w, U)
  BY <1>2
<1> DEFINE sum(V) == CHOOSE f : Adds(f, w, V)
           h == [V \in SUBSET U |->
                   IF V = {} THEN 0 ELSE w[AnyOf(V)] + sum(Without(V))[Without(V)]]
\* What is smaller than U can be added up.
<1>5. ASSUME NEW V \in SUBSET U, V # {}
      PROVE  Adds(sum(Without(V)), w, Without(V)) /\ IsFiniteSet(Without(V))
  <2>1. IsFiniteSet(V) /\ Without(V) \in SUBSET U
    BY <1>4, <1>5, FS_Subset, WithoutIsLess
  <2>2. Cardinality(Without(V)) < Cardinality(U)
    <3>1. Cardinality(V) <= Cardinality(U)
      BY <1>4, FS_Subset
    <3>2. Cardinality(V) \in Nat /\ Cardinality(U) \in Nat
      BY <1>4, <2>1, FS_CardinalityType
    <3> QED
      BY <1>5, <2>1, <3>1, <3>2, WithoutIsLess
  <2>3. Without(V) \notin Bad
    <3>1. Cardinality(U) \in Nat /\ Cardinality(Without(V)) \in Nat
      BY <1>4, <1>5, <2>1, WithoutIsLess, FS_CardinalityType
    <3> QED
      BY <1>3, <2>2, <3>1
  <2>4. \E f : Adds(f, w, Without(V))
    BY <1>4, <2>1, <2>3
  <2> QED
    BY <1>5, <2>1, <2>4, WithoutIsLess
\* Hence h adds up U.
<1>6. ASSUME NEW V \in SUBSET U, V # {}
      PROVE  h[Without(V)] = sum(Without(V))[Without(V)]
  <2> DEFINE X == Without(V)
  <2>1. X \in SUBSET U /\ Adds(sum(X), w, X) /\ IsFiniteSet(X)
    BY <1>4, <1>5, <1>6, FS_Subset, WithoutIsLess
  <2>2. h[X] = IF X = {} THEN 0 ELSE w[AnyOf(X)] + sum(Without(X))[Without(X)]
    BY <2>1
  <2>3. sum(X)[X] = IF X = {} THEN 0 ELSE w[AnyOf(X)] + sum(X)[Without(X)]
    <3> HIDE DEF sum
    <3> QED
      BY <2>1, AddsApply
  <2>4. X # {} => sum(X)[Without(X)] = sum(Without(X))[Without(X)]
    <3>1. ASSUME X # {}
          PROVE  Adds(sum(Without(X)), w, Without(X)) /\ Without(X) \in SUBSET (X \cap Without(X))
      BY <1>5, <2>1, <3>1, WithoutIsLess
    <3> HIDE DEF sum, X
    <3> QED
      BY <2>1, <3>1, AddsAgree
  <2> QED
    BY <2>2, <2>3, <2>4
<1>7. Adds(h, w, U)
  <2> HIDE DEF sum
  <2> QED
    BY <1>6 DEF Adds
<1> QED
  BY <1>4, <1>7

\* A sum is a number, and bounded by the highest weight.
LEMMA AddsBounded ==
    ASSUME NEW S, IsFiniteSet(S), NEW w, NEW f, Adds(f, w, S), NEW m \in Nat,
           \A x \in S : w[x] \in 0..m
    PROVE  f[S] \in Nat /\ f[S] <= Cardinality(S) * m
<1> DEFINE Good(T) == f[T] \in Nat /\ f[T] <= Cardinality(T) * m
           Bad == {T \in SUBSET S : ~Good(T)}
<1>1. SUFFICES ASSUME Bad # {} PROVE FALSE
  OBVIOUS
<1>2. \A U \in Bad : IsFiniteSet(U)
  BY FS_Subset
<1>3. PICK U \in Bad : \A V \in Bad : Cardinality(U) <= Cardinality(V)
  <2> HIDE DEF Bad
  <2> QED
    BY <1>1, <1>2, SmallestExists
<1>4. U \in SUBSET S /\ IsFiniteSet(U) /\ ~Good(U)
  BY <1>2
<1>5. f[U] = IF U = {} THEN 0 ELSE w[AnyOf(U)] + f[Without(U)]
  <2> HIDE DEF Good, Bad
  <2> QED
    BY <1>4, AddsApply
<1>6. U # {}
  BY <1>4, <1>5, FS_EmptySet
<1>7. /\ w[AnyOf(U)] \in 0..m /\ Without(U) \in SUBSET S /\ Cardinality(Without(U)) \in Nat
      /\ Cardinality(U) = Cardinality(Without(U)) + 1
  BY <1>4, <1>6, WithoutIsLess
<1>8. Good(Without(U))
  BY <1>3, <1>7
<1>9. Cardinality(U) * m = Cardinality(Without(U)) * m + m
  <2>1. \A n \in Nat : (n + 1) * m = n * m + m
    OBVIOUS
  <2> QED
    BY <1>7, <2>1
<1>10. Cardinality(Without(U)) * m \in Nat
  BY <1>7
<1> QED
  BY <1>4, <1>5, <1>6, <1>7, <1>8, <1>9, <1>10

=============================================================================
