----------------------------- MODULE Ingestion ------------------------------
(***************************************************************************)
(* POST /events/ingest (app/routers/ingestion.py): any number of requests  *)
(* handled concurrently by one asyncio process.  A request stores its      *)
(* batch in one transaction, updates the sessions in a second one, sends   *)
(* its Redis commands in a pipeline that is no transaction, and publishes  *)
(* a metrics snapshot per store.  Each await is a point where the others   *)
(* may run, where the request may fail, and where the process may die.     *)
(*                                                                         *)
(* The loops over the batch are kept as sets of indices: left[r] holds the *)
(* indices the current loop has still to visit, in increasing order.       *)
(***************************************************************************)
EXTENDS Sessions

CONSTANTS
    Requests,       \* one per call of the endpoint
    Batches,        \* the lists of raw events a sender may post
    MaxBatch,       \* 500 in the code
    MaxFails        \* bound on failing awaits

VARIABLES
    stored,         \* the events table: the committed events
    pc,             \* where each request is
    batch,          \* the raw events of the request
    left,           \* indices the current loop has not visited yet
    new,            \* indices whose INSERT returned an id: new_events
    staged,         \* commands in the pipeline not yet executed
    show,           \* stores_updated still to publish
    snap,           \* the snapshot being read for one of them
    answer,         \* the response
    fails,          \* failures so far
    \* Redis
    visitorCount, queueDepth, lastEventTs, dwellSum, dwellCount,
    shown,          \* the last snapshot published on each store's channel
    \* History
    sessioned,      \* events whose session statement has been committed
    counted         \* events whose INCR visitor_count has been executed

requestVars == <<pc, batch, left, new, staged, show, snap, answer>>
redisVars == <<visitorCount, queueDepth, lastEventTs, dwellSum, dwellCount,
               conversionCount>>
vars == <<sessionVars, now, stored, requestVars, fails, redisVars, shown,
          sessioned, counted>>

\* metrics snapshots; fields not read yet hold 0.
Snapshot ==
    [store : Stores, visitors : Nat, depth : Int, conversions : Nat, ts : Nat]
NoSnapshot(s) ==
    [store |-> s, visitors |-> 0, depth |-> 0, conversions |-> 0, ts |-> NoTime]

Answer == [accepted : Nat, rejected : Nat, duplicates : Nat]

PCs == {"idle", "insert", "sessions", "redis", "show", "depth", "conversions",
        "ts", "publish", "done"}

Ops == {"ts", "visitor", "dwellSum", "dwellCount", "setDepth", "decrDepth"}

ASSUME IngestionAssumption ==
    /\ Requests \subseteq Clients
    /\ Batches \subseteq Seq(Events)
    /\ Stores # {}
    /\ MaxBatch \in Nat
    /\ MaxFails \in Nat
    /\ NoAnswer \notin Answer
    /\ ServerError \notin Answer

RequestsInit ==
    /\ stored = {}
    /\ pc = [r \in Requests |-> "idle"]
    /\ batch = [r \in Requests |-> << >>]
    /\ left = [r \in Requests |-> {}]
    /\ new = [r \in Requests |-> {}]
    /\ staged = [r \in Requests |-> {}]
    /\ show = [r \in Requests |-> {}]
    /\ snap = [r \in Requests |-> NoSnapshot(CHOOSE s \in Stores : TRUE)]
    /\ answer = [r \in Requests |-> NoAnswer]
    /\ fails = 0
    /\ visitorCount = [s \in Stores |-> 0]
    /\ queueDepth = [s \in Stores |-> 0]
    /\ lastEventTs = [s \in Stores |-> NoTime]
    /\ dwellSum = [s \in Stores |-> [z \in Zones |-> 0]]
    /\ dwellCount = [s \in Stores |-> [z \in Zones |-> 0]]
    /\ shown = [s \in Stores |-> NoSnapshot(s)]
    /\ sessioned = {}
    /\ counted = {}

Init == SessionsInit /\ RequestsInit

-----------------------------------------------------------------------------
Goto(r, from, to) == pc[r] = from /\ pc' = [pc EXCEPT ![r] = to]

EventsAt(r, I) == {batch[r][i] : i \in I}
NewEvents(r) == EventsAt(r, new[r])

\* The rows of an events transaction that has not committed yet: another
\* transaction that inserts the same key waits for the outcome.
Pending(r) == IF pc[r] = "insert" THEN NewEvents(r) ELSE {}

\* The loop has got to index i.
At(r, i) == i \in left[r] /\ \A j \in left[r] : i <= j

\* The response counts, as far as they are settled when the request enters
\* its last loop.
Counts(r) ==
    LET valid == Cardinality({i \in DOMAIN batch[r] : Valid(batch[r][i])})
        fresh == Cardinality(new[r])
    IN  [accepted |-> fresh, rejected |-> Len(batch[r]) - valid,
         duplicates |-> valid - fresh]

-----------------------------------------------------------------------------
\* A body that is no JSON object with an events list is answered at once.
Refuse(r) ==
    /\ Goto(r, "idle", "done")
    /\ answer' = [answer EXCEPT ![r] = [accepted |-> 0, rejected |-> 1, duplicates |-> 0]]
    /\ UNCHANGED <<sessionVars, now, stored, batch, left, new, staged, show, snap,
                   fails, redisVars, shown, sessioned, counted>>

\* A list longer than 500 is rejected whole, still with HTTP 200.
RefuseLong(r, b) ==
    /\ Len(b) > MaxBatch
    /\ Goto(r, "idle", "done")
    /\ answer' = [answer EXCEPT ![r] =
                    [accepted |-> 0, rejected |-> Len(b), duplicates |-> 0]]
    /\ UNCHANGED <<sessionVars, now, stored, batch, left, new, staged, show, snap,
                   fails, redisVars, shown, sessioned, counted>>

\* Otherwise the events are validated one by one and the valid ones kept.
Receive(r, b) ==
    /\ Len(b) <= MaxBatch
    /\ Goto(r, "idle", "insert")
    /\ batch' = [batch EXCEPT ![r] = b]
    /\ left' = [left EXCEPT ![r] = {i \in DOMAIN b : Valid(b[i])}]
    /\ UNCHANGED <<sessionVars, now, stored, new, staged, show, snap, answer,
                   fails, redisVars, shown, sessioned, counted>>

\* Mutant: the key is looked up before the INSERT instead of being locked by it.
NobodyHoldsTheKey(r, e) == {}

\* The requests whose uncommitted rows hold the key of event e.
InsertBlockers(r, e) == {q \in Requests \ {r} : e \in Pending(q)}

\* INSERT ... ON CONFLICT (event_id) DO NOTHING RETURNING event_id.
InsertEvent(r) ==
    /\ pc[r] = "insert"
    /\ \E i \in left[r] :
         /\ At(r, i)
         /\ InsertBlockers(r, batch[r][i]) = {}
         /\ new' = [new EXCEPT ![r] =
                      IF batch[r][i] \in stored \cup Pending(r) THEN @ ELSE @ \cup {i}]
         /\ left' = [left EXCEPT ![r] = @ \ {i}]
    /\ UNCHANGED <<sessionVars, now, stored, pc, batch, staged, show, snap, answer,
                   fails, redisVars, shown, sessioned, counted>>

CommitEvents(r) ==
    /\ left[r] = {}
    /\ Goto(r, "insert", "sessions")
    /\ stored' = stored \cup Pending(r)
    /\ left' = [left EXCEPT ![r] = new[r]]
    /\ UNCHANGED <<sessionVars, now, batch, new, staged, show, snap, answer, fails,
                   redisVars, shown, sessioned, counted>>

UpdateSession(r) ==
    /\ pc[r] = "sessions"
    /\ \E i \in left[r] :
         /\ At(r, i)
         /\ SessionStatement(r, batch[r][i])
         /\ left' = [left EXCEPT ![r] = @ \ {i}]
    /\ UNCHANGED <<now, stored, pc, batch, new, staged, show, snap, answer, fails,
                   redisVars, shown, sessioned, counted>>

-----------------------------------------------------------------------------
\* Mutant: staff events are counted like those of customers.
StagedOpsOfAnyone(e) ==
    {"ts"} \cup
    CASE e.type = "ENTRY" -> {"visitor"}
      [] e.type = "ZONE_DWELL" -> {"dwellSum", "dwellCount"}
      [] e.type = "BILLING_QUEUE_JOIN" -> {"setDepth"}
      [] OTHER -> {}

\* The commands the staging loop appends for an event without looking at Redis.
StagedOps(e) ==
    {"ts"} \cup
    (IF e.staff THEN {}
     ELSE CASE e.type = "ENTRY" -> {"visitor"}
            [] e.type = "ZONE_DWELL" -> {"dwellSum", "dwellCount"}
            [] e.type = "BILLING_QUEUE_JOIN" -> {"setDepth"}
            [] OTHER -> {})

LooksAtQueue(e) == e.type = "EXIT" /\ ~e.staff

\* Mutant: _update_redis is given valid_events instead of new_events.
CommitSessionsOfAllValid(r) ==
    LET valid == {i \in DOMAIN batch[r] : Valid(batch[r][i])} IN
    /\ left[r] = {}
    /\ Goto(r, "sessions", "redis")
    /\ CommitRows(r)
    /\ sessioned' = sessioned \cup NewEvents(r)
    /\ staged' = [staged EXCEPT ![r] =
                    UNION {{<<i, op>> : op \in StagedOps(batch[r][i])} : i \in valid}]
    /\ left' = [left EXCEPT ![r] = {i \in valid : LooksAtQueue(batch[r][i])}]
    /\ UNCHANGED <<now, stored, batch, new, show, snap, answer, fails, redisVars,
                   shown, counted>>

\* The session transaction commits and staging begins.  The loop runs without
\* a pause except at the EXIT events, which await a GET: those are left.
CommitSessions(r) ==
    /\ left[r] = {}
    /\ Goto(r, "sessions", "redis")
    /\ CommitRows(r)
    /\ sessioned' = sessioned \cup NewEvents(r)
    /\ staged' = [staged EXCEPT ![r] =
                    UNION {{<<i, op>> : op \in StagedOps(batch[r][i])} : i \in new[r]}]
    /\ left' = [left EXCEPT ![r] = {i \in new[r] : LooksAtQueue(batch[r][i])}]
    /\ UNCHANGED <<now, stored, batch, new, show, snap, answer, fails, redisVars,
                   shown, counted>>

\* Mutant: every EXIT decrements the queue depth.
LookAtNothing(r) ==
    /\ pc[r] = "redis"
    /\ \E i \in left[r] :
         /\ At(r, i)
         /\ staged' = [staged EXCEPT ![r] = @ \cup {<<i, "decrDepth">>}]
         /\ left' = [left EXCEPT ![r] = @ \ {i}]
    /\ UNCHANGED <<sessionVars, now, stored, pc, batch, new, show, snap, answer,
                   fails, redisVars, shown, sessioned, counted>>

\* current = await redis.get(queue_depth); a DECR is staged if it is positive.
LookAtQueue(r) ==
    /\ pc[r] = "redis"
    /\ \E i \in left[r] :
         /\ At(r, i)
         /\ staged' = [staged EXCEPT ![r] =
                         IF queueDepth[batch[r][i].store] > 0
                         THEN @ \cup {<<i, "decrDepth">>} ELSE @]
         /\ left' = [left EXCEPT ![r] = @ \ {i}]
    /\ UNCHANGED <<sessionVars, now, stored, pc, batch, new, show, snap, answer,
                   fails, redisVars, shown, sessioned, counted>>

\* Mutant: the commands are grouped by what they do.
PrecedesByOp(c, d) ==
    LET rank == [op \in Ops |-> CASE op = "ts" -> 0 [] op = "dwellSum" -> 1 [] OTHER -> 2] IN
    rank[c[2]] < rank[d[2]] \/ (rank[c[2]] = rank[d[2]] /\ c[1] < d[1])

\* Staging order: by event, and ts before what the event type adds.
Precedes(c, d) ==
    \/ c[1] < d[1]
    \/ c[1] = d[1] /\ (c[2] = "ts" \/ (c[2] = "dwellSum" /\ d[2] = "dwellCount"))

\* Mutant: a DECR counts up.
BumpUp(f, s, n) == [f EXCEPT ![s] = @ + 1]

Bump(f, s, n) == [f EXCEPT ![s] = @ + n]

\* What one Redis command does.
Execute(e, op) ==
    /\ lastEventTs' = IF op = "ts" THEN [lastEventTs EXCEPT ![e.store] = e.ts]
                      ELSE lastEventTs
    /\ visitorCount' = IF op = "visitor" THEN Bump(visitorCount, e.store, 1)
                       ELSE visitorCount
    /\ dwellSum' = IF op = "dwellSum"
                   THEN [dwellSum EXCEPT ![e.store][e.zone] = @ + e.dwell]
                   ELSE dwellSum
    /\ dwellCount' = IF op = "dwellCount"
                     THEN [dwellCount EXCEPT ![e.store][e.zone] = @ + 1]
                     ELSE dwellCount
    /\ queueDepth' = CASE op = "setDepth" -> [queueDepth EXCEPT ![e.store] = e.depth]
                       [] op = "decrDepth" -> Bump(queueDepth, e.store, -1)
                       [] OTHER -> queueDepth
    /\ counted' = IF op = "visitor" THEN counted \cup {e} ELSE counted

\* The server executes the pipeline's next command; commands of other
\* clients may come in between.
RedisCommand(r) ==
    /\ pc[r] = "redis"
    /\ left[r] = {}
    /\ \E c \in staged[r] :
         /\ \A d \in staged[r] : d # c => Precedes(c, d)
         /\ Execute(batch[r][c[1]], c[2])
         /\ staged' = [staged EXCEPT ![r] = @ \ {c}]
    /\ UNCHANGED <<sessionVars, now, stored, pc, batch, left, new, show, snap, answer,
                   fails, conversionCount, shown, sessioned>>

\* Mutant: the pipeline is not awaited before the response.
PipelineNotAwaited(r) ==
    /\ left[r] = {}
    /\ Goto(r, "redis", "show")
    /\ show' = [show EXCEPT ![r] = {e.store : e \in NewEvents(r)}]
    /\ UNCHANGED <<sessionVars, now, stored, batch, left, new, staged, snap, answer,
                   fails, redisVars, shown, sessioned, counted>>

PipelineDone(r) ==
    /\ left[r] = {}
    /\ staged[r] = {}
    /\ Goto(r, "redis", "show")
    /\ show' = [show EXCEPT ![r] = {e.store : e \in NewEvents(r)}]
    /\ UNCHANGED <<sessionVars, now, stored, batch, left, new, staged, snap, answer,
                   fails, redisVars, shown, sessioned, counted>>

-----------------------------------------------------------------------------
\* _build_metrics_snapshot: four GETs, one await each, then the PUBLISH.
ReadVisitors(r, s) ==
    /\ s \in show[r]
    /\ Goto(r, "show", "depth")
    /\ show' = [show EXCEPT ![r] = @ \ {s}]
    /\ snap' = [snap EXCEPT ![r] = [NoSnapshot(s) EXCEPT !.visitors = visitorCount[s]]]
    /\ UNCHANGED <<sessionVars, now, stored, batch, left, new, staged, answer, fails,
                   redisVars, shown, sessioned, counted>>

ReadField(r, from, to, value) ==
    /\ Goto(r, from, to)
    /\ snap' = [snap EXCEPT ![r] = value]
    /\ UNCHANGED <<sessionVars, now, stored, batch, left, new, staged, show, answer,
                   fails, redisVars, shown, sessioned, counted>>

ReadDepth(r) ==
    ReadField(r, "depth", "conversions",
              [snap[r] EXCEPT !.depth = queueDepth[snap[r].store]])

ReadConversions(r) ==
    ReadField(r, "conversions", "ts",
              [snap[r] EXCEPT !.conversions = conversionCount[snap[r].store]])

ReadTs(r) ==
    ReadField(r, "ts", "publish",
              [snap[r] EXCEPT !.ts = lastEventTs[snap[r].store]])

Publish(r) ==
    /\ Goto(r, "publish", "show")
    /\ shown' = [shown EXCEPT ![snap[r].store] = snap[r]]
    /\ UNCHANGED <<sessionVars, now, stored, batch, left, new, staged, show, snap,
                   answer, fails, redisVars, sessioned, counted>>

\* An exception in either is caught: the store goes without its snapshot.
SkipPublish(r) ==
    /\ fails < MaxFails
    /\ \E from \in {"depth", "conversions", "ts", "publish"} : Goto(r, from, "show")
    /\ fails' = fails + 1
    /\ UNCHANGED <<sessionVars, now, stored, batch, left, new, staged, show, snap,
                   answer, redisVars, shown, sessioned, counted>>

Respond(r) ==
    /\ show[r] = {}
    /\ Goto(r, "show", "done")
    /\ answer' = [answer EXCEPT ![r] = Counts(r)]
    /\ UNCHANGED <<sessionVars, now, stored, batch, left, new, staged, show, snap,
                   fails, redisVars, shown, sessioned, counted>>

-----------------------------------------------------------------------------
\* Mutant: what the open transaction has done so far is committed.
AbortAndCommit(r) ==
    /\ pc[r] \in {"insert", "sessions", "redis"}
    /\ pc' = [pc EXCEPT ![r] = "done"]
    /\ CommitRows(r)
    /\ left' = [left EXCEPT ![r] = {}]
    /\ new' = [new EXCEPT ![r] = {}]
    /\ staged' = [staged EXCEPT ![r] = {}]
    /\ answer' = [answer EXCEPT ![r] = ServerError]
    /\ UNCHANGED <<now, stored, batch, show, snap, redisVars, shown, sessioned, counted>>

\* An exception leaves the handler: get_db rolls the open transaction back, the
\* commands not executed are never sent, and the sender gets a 500.  The crash
\* of the process does the same to every request it interrupts here; in the
\* last loop it only loses snapshots and the response.
Abort(r) ==
    /\ pc[r] \in {"insert", "sessions", "redis"}
    /\ pc' = [pc EXCEPT ![r] = "done"]
    /\ RollbackRows(r)
    /\ left' = [left EXCEPT ![r] = {}]
    /\ new' = [new EXCEPT ![r] = {}]
    /\ staged' = [staged EXCEPT ![r] = {}]
    /\ answer' = [answer EXCEPT ![r] = ServerError]
    /\ UNCHANGED <<now, stored, batch, show, snap, redisVars, shown, sessioned, counted>>

Fail(r) ==
    /\ fails < MaxFails
    /\ fails' = fails + 1
    /\ Abort(r)

\* The clients that request r waits for before its next statement.
Blockers(r) ==
    UNION {CASE pc[r] = "insert" -> InsertBlockers(r, batch[r][i])
             [] pc[r] = "sessions" -> StatementBlockers(r, batch[r][i])
             [] OTHER -> {} : i \in {k \in left[r] : At(r, k)}}

RequestsWait == [r \in Requests |-> Blockers(r)]

\* PostgreSQL's deadlock detector raises an error in one of the waiting clients.
DeadlockAbort(r) ==
    /\ OnCycle(r, RequestsWait)
    /\ Abort(r)
    /\ UNCHANGED fails

-----------------------------------------------------------------------------
Arrive(r) == Refuse(r) \/ \E b \in Batches : RefuseLong(r, b) \/ Receive(r, b)

\* What the handler does once it has the batch, if nothing fails.
Advance(r) ==
    \/ InsertEvent(r)
    \/ CommitEvents(r)
    \/ UpdateSession(r)
    \/ CommitSessions(r)
    \/ LookAtQueue(r)
    \/ RedisCommand(r)
    \/ PipelineDone(r)
    \/ \E s \in Stores : ReadVisitors(r, s)
    \/ ReadDepth(r)
    \/ ReadConversions(r)
    \/ ReadTs(r)
    \/ Publish(r)
    \/ Respond(r)

IngestNext ==
    \E r \in Requests :
        \/ Arrive(r)
        \/ Advance(r)
        \/ SkipPublish(r)
        \/ Fail(r)
        \/ DeadlockAbort(r)

\* Every request has been answered: the system may rest.
Resting ==
    /\ \A r \in Requests : pc[r] = "done"
    /\ UNCHANGED vars

Next == IngestNext \/ Resting

Spec == Init /\ [][Next]_vars

-----------------------------------------------------------------------------
\* Properties.

RequestsTypeOK ==
    /\ pc \in [Requests -> PCs]
    /\ batch \in [Requests -> Seq(Events)]
    /\ left \in [Requests -> SUBSET Nat]
    /\ new \in [Requests -> SUBSET Nat]
    /\ staged \in [Requests -> SUBSET (Nat \X Ops)]
    /\ \A r \in Requests :
         /\ left[r] \subseteq DOMAIN batch[r]
         /\ new[r] \subseteq DOMAIN batch[r]
         /\ staged[r] \subseteq new[r] \X Ops
    /\ show \in [Requests -> SUBSET Stores]
    /\ snap \in [Requests -> Snapshot]
    /\ answer \in [Requests -> Answer \cup {NoAnswer, ServerError}]
    /\ fails \in 0..MaxFails

RedisTypeOK ==
    /\ visitorCount \in [Stores -> Nat]
    /\ queueDepth \in [Stores -> Int]
    /\ lastEventTs \in [Stores -> Nat]
    /\ dwellSum \in [Stores -> [Zones -> Nat]]
    /\ dwellCount \in [Stores -> [Zones -> Nat]]
    /\ conversionCount \in [Stores -> Nat]
    /\ shown \in [Stores -> Snapshot]

\* Type correctness of the tables, of the requests and of Redis: the indices a
\* loop visits exist, and commands are staged for new events only.
TypeOK ==
    /\ SessionsTypeOK
    /\ RequestsTypeOK
    /\ RedisTypeOK
    /\ stored \subseteq Events
    /\ sessioned \subseteq Events
    /\ counted \subseteq Events

IsVisitorEntry(e) == e.type = "ENTRY" /\ ~e.staff
VisitorEntries(E, s) == {e \in E : IsVisitorEntry(e) /\ e.store = s}

\* The live visitor count never exceeds the number of customer ENTRY events in
\* the events table, however requests overlap, fail and repeat each other's
\* events (the INSERT ... RETURNING of lines 113-130 decides who counts one).
NoDoubleCount ==
    \A s \in Stores : visitorCount[s] <= Cardinality(VisitorEntries(stored, s))

\* An event is accepted by one request only, and once in that request: the
\* accepted totals of the responses never add up to more than was stored.
AcceptedOnce ==
    \A r, q \in Requests : \A i \in new[r], j \in new[q] :
        batch[r][i] = batch[q][j] => <<r, i>> = <<q, j>>

\* A request that got its counts has done all of its work: the session
\* statement of every event it accepted is committed and every customer ENTRY
\* among them is in the live count, whatever failed elsewhere meanwhile.
AnsweredMeansApplied ==
    \A r \in Requests : answer[r] \in Answer =>
        /\ NewEvents(r) \subseteq sessioned
        /\ {e \in NewEvents(r) : IsVisitorEntry(e)} \subseteq counted
        /\ answer[r].accepted = Cardinality(NewEvents(r))

EventsOf(v, types) == {e \in sessioned : e.vid = v /\ e.type \in types}

\* Whatever a session row says is the doing of stored events of that visitor:
\* each part has an event behind it, and a re-entry is never counted twice.
RowsHaveCauses ==
    \A v \in Visitors : sessions[v] # NoRow =>
        LET row == sessions[v] IN
        /\ \E e \in EventsOf(v, {"ENTRY", "REENTRY"}) :
              row.store = e.store /\ row.staff = e.staff /\ row.entered = e.ts
        /\ row.exited # NoTime => \E e \in EventsOf(v, {"EXIT"}) : row.exited = e.ts
        /\ row.zones \subseteq {e.zone : e \in EventsOf(v, {"ZONE_ENTER", "ZONE_DWELL"})}
        /\ row.billing => \/ EventsOf(v, {"BILLING_QUEUE_JOIN"}) # {}
                          \/ row.zones \cap BillingZones # {}
        /\ row.reentries <= Cardinality(EventsOf(v, {"REENTRY"}))
        /\ EventsOf(v, {"ENTRY", "REENTRY"}) \subseteq stored

\* No committed session update is ever lost to a concurrent one: zones are only
\* added, billing once reached stays reached, re-entries only grow, and the
\* entry facts and the conversion stay (row locks, _update_sessions).
NoLostUpdate ==
    [][\A v \in Visitors : sessions[v] # NoRow =>
         /\ sessions'[v] # NoRow
         /\ sessions[v].zones \subseteq sessions'[v].zones
         /\ sessions[v].billing => sessions'[v].billing
         /\ sessions[v].converted => sessions'[v].converted
         /\ sessions[v].reentries <= sessions'[v].reentries
         /\ sessions'[v].store = sessions[v].store
         /\ sessions'[v].entered = sessions[v].entered]_sessions

\* Once nobody is at work any more, every valid event that a 200 response has
\* acknowledged, as accepted or as a duplicate, has been applied to its session
\* ("can't lose data, can't double-count", VIVA_EXPLANATION.md:166): not so when
\* its first carrier failed between its two commits.
AcknowledgedEventsApplied ==
    (\A q \in Requests : pc[q] \in {"idle", "done"}) =>
        \A r \in Requests : answer[r] \in Answer =>
            \A i \in DOMAIN batch[r] : Valid(batch[r][i]) => batch[r][i] \in sessioned

CustomerExits(E, s) == {e \in E : e.type = "EXIT" /\ ~e.staff /\ e.store = s}

\* The DECR of an EXIT is staged only when the depth is positive, but the depth
\* may be out of date when it is executed (lines 232-236).  How far below zero
\* that takes the queue: one decrement per customer EXIT event stored, the
\* first of which is always backed by a queue that was reported.
QueueDriftBounded ==
    \A s \in Stores : queueDepth[s] < 0 =>
        1 - queueDepth[s] <= Cardinality(CustomerExits(stored, s))

\* The events a response has reported as accepted.
Reported == UNION {NewEvents(r) : r \in {q \in Requests : answer[q] \in Answer}}

StoreOf(e) == e.store

\* Ingestion keeps the promise of the event ledger.
Ledger == INSTANCE EventLedger WITH
            Event <- Events, Store <- Stores, StoreOf <- StoreOf,
            Counts <- IsVisitorEntry, applied <- sessioned,
            reported <- Reported, visitors <- visitorCount

LedgerSpec == Ledger!Spec

-----------------------------------------------------------------------------
\* The inductive invariant behind NoDoubleCount, AcceptedOnce and the ledger.

\* Only valid events are visited, and after the first loop only new ones.
Kept ==
    \A r \in Requests :
        /\ \A i \in left[r] \cup new[r] : Valid(batch[r][i])
        /\ pc[r] # "insert" => left[r] \subseteq new[r]
        /\ pc[r] = "idle" => new[r] = {}

\* How far the new events of a request have got in each of its phases.
Phases ==
    \A r \in Requests :
        /\ pc[r] # "redis" => staged[r] = {}
        /\ \A c \in staged[r] : c[2] = "visitor" => IsVisitorEntry(batch[r][c[1]])
        /\ \A i \in new[r] :
             /\ pc[r] = "insert" <=> batch[r][i] \notin stored
             /\ pc[r] \in {"insert", "sessions"} <=> batch[r][i] \notin sessioned
             /\ IsVisitorEntry(batch[r][i]) /\ batch[r][i] \in sessioned =>
                  (batch[r][i] \notin counted <=> <<i, "visitor">> \in staged[r])

\* The live count is exact for the ENTRY events counted, all of them stored.
Counting ==
    /\ IsFiniteSet(stored)
    /\ sessioned \subseteq stored
    /\ counted \subseteq {e \in sessioned : IsVisitorEntry(e)}
    /\ \A s \in Stores :
         visitorCount[s] = Cardinality({e \in counted : e.store = s})

IndInv == Kept /\ Phases /\ AcceptedOnce /\ Counting

=============================================================================
