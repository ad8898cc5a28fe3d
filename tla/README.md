# Store intelligence: a TLA+ development

The program watches the video of a shop, turns the people it sees into events
(`ENTRY`, `ZONE_ENTER`, `BILLING_QUEUE_JOIN`, ...), posts them to an API, and the
API keeps sessions, counts visitors, converts sessions into sales when POS
transactions arrive, and answers questions about a store. The modules here model
the parts of it in which order, interleaving and failure decide whether the numbers
are right. TLC checks them on small instances; TLAPS proves the central safety
properties for every value of the constants.

Contents: [the system](#the-system), [the modules](#the-modules),
[the runs](#the-runs), [fairness](#fairness), [the proofs](#the-proofs),
[disagreements found](#disagreements-between-code-and-documents),
[what is not modelled](#what-is-not-modelled), [the plan](#the-plan).

## The system

| Component | Source | State | Operations | Talks to |
|---|---|---|---|---|
| event ingestion | `app/routers/ingestion.py`, `db.py` | the request's batch, new events, staged commands; tables `events`, `sessions`; Redis counters | `POST /events/ingest` | PostgreSQL (two transactions), Redis (pipeline, GETs, PUBLISH) |
| event schema | `app/models.py` | none | validation of one event | used by ingestion; the tracker must obey it |
| POS loading | `app/routers/pos.py` | table `pos_transactions`; `converted` in `sessions`; conversion count in Redis | `POST /pos/load` | the same sessions rows as ingestion |
| metrics, funnel, health | `app/routers/metrics.py`, `funnel.py`, `health.py` | none | three GETs | read PostgreSQL and Redis, an await at a time |
| heatmap, anomalies | `app/routers/heatmap.py`, `anomalies.py` | none | two GETs | the same, with the clock and the layout |
| session registry and ReID gallery | `pipeline/tracker.py`, `reid.py` | active sessions by track, exits and appearances by visitor, billing count | `process`, `handle_lost_track` | called by the detection loop, returns events |
| detection loop | `pipeline/detect.py` | current, previous and lost tracks | `process_clip`, one frame at a time | BoT-SORT, registry, emitter |
| event emitter | `pipeline/emit.py` | buffer, time of the last flush | `queue`, `tick`, `flush_all`, `__aexit__` | HTTP to ingestion |
| staff classifier | `pipeline/staff.py` | zones, first sight and verdict of each track | `update`, `is_staff` | called by the detection loop |
| zone engine | `pipeline/zones.py` | polygons by zone id | `_load`, `get_zone` | called by the detection loop |
| POS CSV loader | `pipeline/pos_loader.py` | rows, the slice it is at, counts | `load_pos` | HTTP to POS loading |
| simulator | `pipeline/simulator.py` | simulated time, next arrival, totals | a task per store | HTTP to ingestion |
| event log scripts | `scripts/*_event*.py` | none | export, convert and replay; validate | files; HTTP to ingestion |
| SSE, dashboard, application, clean-up | the rest of `app/`, `dashboard/`, `cleanup_database.*` | none of their own | | |

Everything in the API runs in one asyncio process: between two awaits nothing else
happens, at an await anything may. The database runs each statement READ COMMITTED
with row locks. What is hard, and what the properties are aimed at:

* **Three stages without a transaction around them.** A request commits its events,
  then its sessions, then runs a Redis pipeline. A failure between two stages leaves
  stored events that were never applied, and a retry finds only duplicates.
* **The same event twice at once.** Only `INSERT ... ON CONFLICT ... RETURNING` decides
  which request goes on to count it.
* **Shared rows.** Requests and POS loads rewrite the same sessions, lock them in
  different orders, and deadlock.
* **Looking and acting in two awaits.** The queue depth before a DECR, the conversions
  counted before the SET, the metrics collected one query at a time.
* **Counters kept by hand.** The billing count of the registry is changed in three places.
* **Numbers of different moments.** An average divides a sum by a count read an await
  later; a dead zone is looked for after the traffic that makes it dead.
* **Two clocks.** The gallery stores the video's time and prunes by the wall clock, which is
  ahead of it: the clips are recordings.
* **POSTs that may or may not have arrived.** Timeouts, failures, refusals inside a 200,
  and the cancellation of one clip because another one raised. The CSV loader, the
  simulator and the replay give up too, and none of them retries.
* **Judgements before there is evidence.** A track's ENTRY is sent from its first frame,
  with what the staff classifier can know by then.

`PROJECT.json` lists each hazard at its line with the properties that would catch it.

## The modules

```
EventRules --- Schema --- Sessions --+-- Ingestion --+-- Api --+-- Readers --- Insights
  |  |  |                            |       |       |         |
  |  |  |                            |  EventLedger  |         +-- PosLoader --+
  |  |  |                            +-- Pos --------+                         +-- Senders
  |  |  +--- EventLog ---------------------------------------------------------+
  |  +------ Tracker --- Staff --+
  +--------- ZoneEngine ---------+-- Clip            Emitter
```

`IngestionProofs`, `TrackerProofs`, `EmitterProofs`, `ApiProofs` and `ClipProofs` extend the
module they are named after. `ApiProofs` also extends `IngestionProofs`, `ReaderProofs`
extends `Insights` and `ApiProofs`, `InsightProofs` extends `ReaderProofs`, `ClipProofs`
extends `TrackerProofs`, and `SenderProofs` extends `Senders` and `ApiProofs`: each uses the invariants of the one it extends.
Each `MC...` module fixes the data of the runs.

**EventRules, Schema** (`app/models.py`). The field rules of `validate_zone_rules` one by
one. What concerns a single field's format or range is one Boolean, `wellFormed`. The
times are small numbers. An assumption says that an id belongs to one event: senders draw
a UUID per event and repeat it only to repeat the event.

**Sessions** (`migrations/001_initial.sql` and `_update_sessions`). The committed rows,
and per database client an overlay `dirty[c]` of uncommitted ones. A row in an overlay is
locked. An upsert waits for the lock even if the row is not committed, an UPDATE only
for a row its snapshot sees: otherwise it matches nothing and does nothing. `NOW()` is
the moment the transaction's first statement is executed; PostgreSQL takes it at BEGIN, before
that statement waits for a lock, and no property depends on the difference. `OnCycle` is the
deadlock detector.

**Ingestion** (`app/routers/ingestion.py`). One process per request, `pc[r]`:
`insert` (lines 111-130, one statement a step), `sessions` (163-207), `redis`
(the staging loop with its GETs 213-235, then the pipeline 236, one command a step,
because it is no transaction), `show` ... `publish` (the snapshot, 137-142 and 239-253),
`done`. The loops over the batch are sets of indices still to visit. `Fail` is any
exception; a crash of the process does to each request what `Fail` does.
`DeadlockAbort` is PostgreSQL's choice of a victim. `sessioned` and `counted` are
history: the events whose statement was committed, and whose INCR was executed.

**EventLedger** is what ingestion promises of each event, without requests,
transactions and Redis: stored, applied, counted, reported, each once and in this order;
a failure may leave an event where it is and never moves it back. `Ingestion` refines it
(`Ledger == INSTANCE EventLedger WITH applied <- sessioned, ...`, property `LedgerSpec`).

**Pos** (`app/routers/pos.py`). A load inserts its transactions and commits, then runs an
UPDATE per transaction, duplicates included: the snapshot chooses the rows
(`BeginUpdate`), each row is locked and, if it changed meanwhile, looked at again
(`ConvertRow`), as PostgreSQL does it. Then it recounts its stores in one await and writes
each count in another. **Api** interleaves loads, requests and the clock.

**Readers** (`metrics.py`, `funnel.py`, `health.py`). A metrics call is a chain of
awaits: sessions, events if there are no sessions, the queue depth, the last join if the
depth is 0, the zones Redis has dwells for, each one's sum and then its count, the events
if no zone has an average, abandons and joins, the last event. A health call reads
PostgreSQL and then one key per store; a key that is found wins. A funnel call is one
statement. A rate or an average is kept as the two numbers that are divided.

**Insights** (`heatmap.py`, `anomalies.py`) adds the calls that judge. The heatmap's
scores are computed in integers as the code computes them in floats, rounding half to
even. The anomalies are a GET and up to five statements in one transaction, so `NOW()` is
that of the first (`alarms[c].at`), while each statement sees newer rows.

**EventLog** (`scripts/`): what the exporter makes of an event, and what the converter makes of a
line. A line is a record of what the converter looks for, with any dwell and any depth; two
Booleans say whether it can be read at all (`parses`: `json.loads`, `int()`, `float()`) and whether
the fields left out are what the API asks for (`inRange`: confidence, session_seq, lengths). The
converter checks none of them, so `ConvertEvent` hands the line's own values to the API's rules.
**PosLoader** (`pos_loader.py`) and **Senders** (`simulator.py`,
`convert_sample_events.py --ingest`) are clients over `Api`: each posts, waits, gets an
answer or gives up, and the request it gave up goes on. The simulator's `uuid4` is "nobody
the API has seen". `OneKind` in `MCSenders` lets one kind of client work in a behaviour.

**Tracker** (`tracker.py`, `reid.py`). `Process` is the disjunction of the ways through
`process`: a known track (`Follow`), a duplicate of another camera's (`Link`), somebody who
comes back (`Return`), somebody new (`Enter`). A histogram is a *look*, and the thresholds
0.82 and 0.78 are relations between looks; a session keeps the look of its first frame, as
`last_embedding` is set once. `Wall[t]` is the wall clock when the frame of time `t` is processed: any
sequence that does not fall, so it covers live footage, recordings, and recordings played
faster (`run.sh` has a factor of 5). **Clip** (`detect.py`) drives a registry through the frames of one clip, with the
two sets of track ids, the lost tracks and the end of the clip. BoT-SORT is external: it
may leave a track out of a frame and report it again within `Buffer` frames. What a
detection's zone is and whether it is of staff come from **ZoneEngine** (`zones.py`: boxes
in the order of the layout, a repeated id keeps its place and takes the last polygon; no
state) and **Staff** (`staff.py`: per track the zones it has been in, when it was first
seen and the verdict; scores in tenths, the weighted sum in hundredths, against 65).

**Emitter** (`emit.py`, and the loop around it). Events are numbered as they are queued. A
POST is awaited by the loop; its answer, its timeout, a failed connection and the
cancellation of the task race with the API that handles the request or never sees it. The
API refuses batches that are too long inside a 200.

## The runs

| Run | Question | Bounds, and why they are enough |
|---|---|---|
| `ingestion` | Is every event accepted and counted once, do rows have causes, is an answer honest, does ingestion implement the ledger? | Three requests, one failure. Batches of one to four events in three kinds: repetitions of each other's events (with an invalid one, one of staff, and an event twice in a batch), two visitors' rows in different orders, queue joins against two exits. Three requests give a first attempt, a retry and a third; more repeat the same pairs. |
| `ingestion_ack` | *violation:* when nobody is at work any more, have all events been applied that a 200 acknowledged? | Two requests, one failure. |
| `api` | Are conversions counted once, justified by the row that is locked, never ahead in Redis, and is no update lost? | Two loads (one may fail) with overlapping payloads and a request that touches the same rows; two stores, a window of one and three times. |
| `api_cross` | Is every call answered? | A load and two requests that lock two ids and two rows in opposite orders. |
| `api_window` | *violation:* was billing in the window of the transaction? | One visitor, two requests, one load. |
| `clip` | Is the registry's billing count exact, is what it emits valid, is presence balanced, does everybody leave, do known ids go to those who come back? | Five frames at the door, two tracks, two looks, one of them the uniform; a zone of the floor and one of billing. The gallery's memory is three frames, and the wall clock is two to four frames ahead of the footage, at half its speed (`MCWall`): so some returns find their record and others find it pruned. Staff is who wears the uniform and has been in two zones or been followed for three frames; who does not wear it never is, as in the code. A billing count of two needs two tracks, and the theorems are for any number. |
| `clip_return` | *violation:* is everybody recognised who comes back within fifteen minutes? | As `clip`, with footage of long ago (`MCWallRecorded`). |
| `clip_staff` | *violation:* is who turns out to be staff announced as staff? | One look, the uniform; four frames. |
| `clip_zone` | *violation:* does a clip report zones of its own camera? | The five cameras of the repository's layout, boxes scaled down; one track, two frames. |
| `emitter` | Are events posted once and in order, are losses known, does every event go out? | Four events, two in a frame, more than two too many for the API: so a batch may be too long, and up to four batches may overtake each other. |
| `readers` | Are the answers consistent with each other and with the tables? | Two requests, a load and a call of any endpoint that may start at any moment; a customer who dwells, queues and pays, visits of different times, and one of the staff. One of the two zones is in the layout. 3.9 million states. |
| `senders` | Is what the clients report true, and does a journey say what was meant? | Two loaders over three files of up to two slices, with unreadable, repeated and refused rows; or a simulator of two visitors (beside the two whom the logs name) in rounds with and without an arrival; or two replays of four logs in slices of two: logs that share lines in different orders, lines refused for their depth, zone, dwell, type or other fields, lines without an id, a line of the exporter's, and one that cannot be read. One failure in the API, and any answer may be lost. 0.4 million states. |

The runs `ingestion`, `clip`, `clip_return`, `api`, `readers` and `senders` use the symmetry of model
values that no property tells apart. They check safety (and box-action) properties, for
which that is sound; the two runs with liveness, `api_cross` and `emitter`, use none.
`MCIngestion` confines each behaviour to one kind of batches (`MCSpec`), `MCApi` starts
two runs with two visitors at the till (`RestartInit`): a database over which the API was
restarted while Redis was lost.

Other bounds: `MaxSlices` and `MaxPosts` (what one client may post), `MaxDwells`, `MaxFails` and `MaxLoadFails` (failures in a behaviour), `MaxTime` (the
clock), `MaxBatch` (500 in the code), `MaxDepth`, `LastFrame`, `MaxEvents`, `MaxPerFrame`.

What the runs show, in the order in which a reader may want to know it:

* `NoDoubleCount`, `AcceptedOnce`: retries and concurrent repetitions never count a
  visitor twice and never accept an event twice.
* `AnsweredMeansApplied`: what an answer reports as accepted was applied to the rows and
  counted. (Not so for what it reports as duplicate: its first carrier may have failed
  between its two commits, `AcknowledgedEventsApplied`.)
* `LedgerSpec`: the two together and more, as a refinement.
* `NoLostUpdate` (in `api`): single-statement updates under row locks never undo one another, neither
  those of requests nor those of loads.
* `RowsHaveCauses`: each part of a row has a stored event behind it.
* `QueueDriftBounded`: the queue depth may become negative, but never by as much as the
  number of stored customer exits.
* `ConversionsReconcile`, `LoadedOnce`: the `sessions_converted` of all loads add up to the
  converted sessions; a transaction is loaded once. `ConversionsJustified`: at the moment of
  a conversion the row itself satisfies the condition. `ConversionCountNotAhead`: Redis may
  lag behind the rows, never lead.
* `FunnelNarrows`, `VisitorsNotInflated`, `LastEventStored`, `QueueDepthWitnessed`,
  `DeadAmidTraffic`: what a call puts together out of different moments is still backed by
  the events table. `DwellDriftBounded` says how far off it may be where it is not: an
  average may hold one dwell too many for each request whose pipeline is under way.
  `InsightsTypeOK` adds to the types that scores are percentages and that the busiest zone
  of a store with visits scores at least 70.
* `LoaderHonest`: runs of the loader never claim more transactions than there are, and one
  that claims all its rows has them all stored. `JourneysTold`: a journey that was accepted is the
  session that was meant, and the simulator's totals never exceed what is stored.
  `ReplayHonest`: a replay that ends without an error has got exactly the acceptable lines of its
  log stored, though slices are shared with another replay, given up or lost with a failed
  request; all other lines have vanished into answers of 200.
* `BillingCountExact`, `EventsWellFormed`: see the proofs. `PresenceBalanced`,
  `AllHaveLeft`: a visitor's EXITs match his ENTRYs, one track carries him, and all have left
  when a clip has ended. (A loop that raises sends no EXITs.) `ReturnsRecognised`: a known id goes
  only to somebody who looks like him who left, and at the entry it does so as long as the record
  is young by both clocks; that the footage's clock alone is not enough is `ReentriesWithinTtl`.
* `PostedInOrder`, `OvertakenOnlyIfGivenUp`, `LossesKnown`, `NothingLeftBehind`: the
  emitter neither repeats nor reorders by itself; what it loses in silence is what the API
  refuses for its length and what is cancelled. `LossesKnown` allows these two, it does not
  excuse them.

Every property of a passing run has a mutant of the code's model in `PROJECT.json` that
breaks it (a dropped guard, a missing reset, a lock not taken, an await left out, ...).
The mutants stand next to what they mutate, marked `Mutant:`, and no specification uses them.

## Fairness

* `ApiFairness`: weak fairness of each request's and each load's next step, and of the
  abort of each member of a deadlock. The event loop runs a coroutine whose await is over,
  PostgreSQL wakes a waiter when the lock is released, and its detector runs a second after
  a wait began. The arrival of requests, failures and the clock have no fairness.
* `Emitter!FairSpec`: weak fairness of the loop (`Proceed`), which includes the end of a
  POST, since httpx gives up after ten seconds. The end of the footage, exceptions,
  cancellation and the API have none.

## The proofs

TLAPS proves, for every set of requests, events, batches, tracks, zones, and every bound:

| Theorem | Module | Says |
|---|---|---|
| `TypeCorrect`, `VisitorsNeverCountedTwice`, `EventsAcceptedOnce` | `IngestionProofs` | `Spec => []TypeOK`, `[]NoDoubleCount`, `[]AcceptedOnce` |
| `LedgerImplemented`, `AnswersAreHonest` | `IngestionProofs` | `Spec => Ledger!Spec` (the refinement), `[]AnsweredMeansApplied` |
| `QueueDepthDriftIsBounded` | `IngestionProofs` | `Spec => []QueueDriftBounded` |
| `RowsAreExplained` | `IngestionProofs` | `Spec => []RowsHaveCauses` |
| `ApiTypeCorrect`, `TransactionsLoadedOnce`, `ConversionsAddUp`, `ConversionCountBehind` | `ApiProofs` | `ApiSpec => []ApiTypeOK`, `[]LoadedOnce`, `[]ConversionsReconcile`, `[]ConversionCountNotAhead` |
| `UpdatesKept`, `ConversionsAreJustified` | `ApiProofs` | the action properties `NoLostUpdate`, `ConversionsJustified` of `ApiSpec` |
| `FunnelsNarrow`, `VisitorCountsHonest`, `LastEventsExist`, `QueuesWereJoined`, `DeadZonesAmidTraffic` | `ReaderProofs` | `InsightsSpec => []FunnelNarrows`, `[]VisitorsNotInflated`, `[]LastEventStored`, `[]QueueDepthWitnessed`, `[]DeadAmidTraffic` |
| `InsightsTypeCorrect`, `DwellAveragesBounded` | `InsightProofs` | `InsightsSpec => []InsightsTypeOK`, `[]DwellDriftBounded` |
| `TrackerTypeCorrect`, `BillingCounted`, `EventsAccepted` | `TrackerProofs` | `Spec => []TypeOK`, `[]BillingCountExact`, `[]EventsWellFormed` |
| `ClipDrivesRegistry` | `ClipProofs` | `ClipSpec => Spec`: the loop calls the registry as `Tracker` allows, so what is proved of a registry holds of a clip's |
| `ClipTypeCorrect`, `PresenceIsBalanced`, `EverybodyLeaves`, `ReturnsAreRecognised` | `ClipProofs` | `ClipSpec => []ClipTypeOK`, `[]PresenceBalanced`, `[]AllHaveLeft`, and the action property `ReturnsRecognised` |
| `SendersDriveApi` | `SenderProofs` | `SendersSpec => ApiSpec`: what is proved of the API holds when real clients call it |
| `SendersTypeCorrect`, `LoadersHonest`, `JourneysAreTold`, `ReplaysHonest` | `SenderProofs` | `SendersSpec => []SendersTypeOK`, `[]LoaderHonest`, `[]JourneysTold`, `[]ReplayHonest` |
| `EmitterTypeCorrect`, `EventsPostedInOrder`, `ClosedEmpty`, `OnlyGivenUpOvertaken`, `LossesAreKnown` | `EmitterProofs` | the safety properties of `Emitter` |

**Ingestion.** `NoDoubleCount` is not inductive: that the count is at most the number of
stored entries says nothing of the INCRs still in a pipeline. The invariant `IndInv` has
four parts. `Kept`: after validation a loop visits valid events, after the first loop new
ones. `Phases`: how far each new event has got, by the phase of its request; in particular
a counted entry is one whose INCR is no longer staged. `AcceptedOnce`: no two requests have
the same new event, which makes the phase of an event well-defined. `Counting`: the count of
a store *equals* the number of its counted entries, all of them stored. Type correctness needs `Kept` as well: the dwell counters are keyed
by the zone, which only a valid event is sure to have. Assumptions: `EventAssumption`,
`IdAssumption`, `IngestionAssumption`, `NoRowAssumption`.

**Ledger.** A step of a request maps to a step of the ledger or to a stutter, by the phase
its events are in (`IndInv`). What is missing for "reported" is `Answers`: counts are given
in the last step of a request and are those of its new events, which no longer change.

**Queue.** A DECR is decided on by looking at the depth and executed later, when the depth
may be something else. So the invariant counts exits: a customer's EXIT is *settled* when no
request owes it a look or a command any more, and commands are staged for the right events
only (`StagedRight`). `Drift`: the depth is at least one less the number of settled exits, or
it is not negative and no DECR is staged. Commands that were staged while the depth was
positive each settle an exit of their own when they are executed.

**Causes.** `RowsHaveCauses` is about committed rows, and a commit makes rows of an overlay
public: `RowsCaused` says of each overlay that the events its request has *visited so far*
explain it (`Done`), and of committed rows that the events in `sessioned` do.

**Api.** `ApiInv` contains `Kept` and adds what makes two writers of one table safe.
`LoadPhases`: how far a load's transactions have got, by its phase. `Isolation`: a row has one writer, and his overlay extends the committed row, which
is why no update is lost and why a conversion finds its condition true of the row it
locked. `RequestRows`: requests never convert. `LoadRows`: whatever a load is about to convert is
locked by it, unconverted so far, and justified. `Reconciled`: each converted row is
credited to one load, the one that reports it. `CountsNotAhead`: a count that was read
is at most what is converted, because rows never unconvert. Further
assumptions: `PosAssumption`, in particular that visitors are finitely many (an id has six
hexadecimal digits), and `ApiAssumption`.

**Readers.** An answer is put together from many moments, so its parts cannot be compared
with the state they are shown in. The proof has two parts: `Backed` holds at every
moment, of the rows and of Redis (a row's visitor has an entry in the table, a converted
row has been at billing, the last event and the queue depth of a store have an event that
said so or more), and `AnswersHonest` carries it over into what each call holds, relative
to an events table that only grows. `DeadAmidTraffic` needs in addition that both of its
statements use the time of the first (`alarms[c].at`). Further assumptions:
`CallsAssumption`, `InsightsAssumption`.

**Insights.** `InsightsTypeCorrect` says that the scores of the heat map are percentages: each
is the rounded mean of two shares, and `Round` keeps between whole bounds. An average of dwells
is the quotient of two counters that Redis keeps side by side, and `DwellDriftBounded` says
by how much the sum may be ahead of the number. A request is half way at a zone (`HalfWay`) when the
sum of an event is written and the number is not, and `InOrder` says that this is so of one event
at most: the commands of a pipeline are executed in the order in which they were staged. `Ahead` are
the requests that are half way, or are done and may have failed there. `SumsAhead` bounds the sum by the longest dwell times the number plus
the size of `Ahead`, and `AveragesHonest` carries that over to what each call has read. The
sum over a set is not induction here: what the proofs need of it (`AddsAgree`, `AddsBounded` in
`ApiProofs`) is shown of a smallest set that would be a counterexample. Hypotheses: finitely many
requests, and that there is a longest dwell.

**Tracker.** `Registry` is the conjunction of the three properties and is inductive as it
stands: the count equals a cardinality (each call changes one track, `BillingOfOne` and
`BillingCardinality`), each session's flag says whether its zone is a billing zone, and a queue
join is only built when the count after the move exceeds one. Assumption:
`TrackerAssumption`, in particular that the tracks are finite.

**Clip.** `ClipDrivesRegistry` first, step by step, so that `Registry` is known of every clip. The
loop's own state is three sets of tracks, and the invariant (`ClipInv`) says that they and the
registry's sessions tell the same: the tracks with a session are those of the last frame and of
this one, or those of this one and what is still to be handled as lost, all on the one camera. So
at the end of the footage none is left (`EverybodyLeaves`). `Presence` counts from it: no two tracks
carry one visitor, who is carried is not remembered as gone, and at an entrance his ENTRYs and
REENTRYs are then one more than his EXITs, else as many. `ReturnsAreRecognised` holds of any
footage and any wall clock that does not go back: who has left and is not back either has a
record in the gallery, the one he left, or is too old for one by the wall clock.
Assumption: `ClipAssumption`, in particular that each point is in one zone or in none.

**Emitter.** `Types` adds to the types that a request under way is one that was sent.
`PostedInOrder` follows because a step either queues, flushes or leaves the buffer alone
(`StepKinds`). `Fate` explains the rest: a request under way is the one that is awaited or
belongs to a batch that was given up (`OnTheWay`), numbers being unique, so that whatever
is handled late was given up; and a batch is settled, or still awaited without a 200
(`Accounted`). Assumption: `EmitterAssumption`.

**Senders.** `SendersDriveApi` is shown step by step with `ClientInv`, which has what the API's
assumptions ask of a caller: every request is made once, of events there are. What is proved
of the API is then known of the clients' behaviours. `Origins` says what a request consists of:
the journey of a visitor whom no other request has, or the slice of a converted log that begins
where the last one ended. `LoadersHonest`
credits each stored transaction to the load that stored it (`Credited`): a run counts what its
answered loads have stored, loads store different transactions, and a run that has counted as
many as it has rows has lost none of its slices. `JourneysAreTold` needs three more invariants
(`JourneysInv`). `Stories`: a visitor who is not drawn yet has no row, no counted entry and no
update under way; until his journey's request commits its sessions it alone has updates for him; and from then on every row of his, stored, read or locked by anybody, tells the
whole journey, since what others do to it is to commit it, drop it or set its conversion
(`Leaves`). `Answering`: a request has an answer exactly when it is done. `Tallies`: what a
simulator has counted is at most the stored events of its answered journeys, which are disjoint,
so that the counts add up (`AddsUp`). `ReplaysHonest` rests on `LineAccepted` (the API's rules
hold of a converted line exactly if the line is `Acceptable`) and on two invariants. `Accounted`: past its
insertions a request has stored all its valid events, itself or before it another, and the table has
valid events only. `Replayed`: a replay that goes on has had all slices so far accounted for, one that
waits all but the last, and `raise_for_status` is what keeps it so. TLC checked the invariants on
the `senders` run's instance before they were proved. Assumptions: `LoaderAssumption` (finitely many
runs), `SlicesAssumption` and `PostsSuffice` (there is a name for every call that is made),
`PostsAssumption` (what is made is a batch, and no log has a visitor id that is drawn later),
`SendersAssumption` (in particular that slices and journeys are not too long for the API),
`EventLogAssumption`.

Only model-checked: liveness (`EveryCallAnswered`, `EveryEventPosted`), as fairness and
ENABLED are out of the prover's reach. Every invariant and action property that a passing run
checks is also a theorem. The violations are counterexamples, and need no proof.

## Disagreements between code and documents

Each of the first five is a run that TLC finds violated.

1. `ingestion_ack`: when a request fails between the commit of its events and that of its
   sessions, another with the same events is answered 200 with duplicates, and their session
   updates never happen (`ingestion.py:132`; `VIVA_EXPLANATION.md:166`, `docs/CHOICES.md:25`).
2. `api_window`: the five-minute window looks at `last_updated`, which every later event
   moves (`pos.py:70`; `docs/DESIGN.md:43`).
3. `clip_staff`: every ENTRY says `is_staff` false, and a session takes its flag from the
   ENTRY alone, so staff are never excluded from visitors (`staff.py:88`,
   `ingestion.py:168`; `docs/DESIGN.md:17`).
4. `clip_zone`: a person under one camera is put in a zone of another
   (`zones.py:35`; `docs/DESIGN.md:17`).
5. `clip_return`: the wall clock prunes the gallery of recorded footage at once, so nobody who
   comes back is recognised (`reid.py:105`; `reid.py:7`).

Others were met while modelling and have no run of their own.

Pipeline:
* The loop awaits each POST, up to ten seconds (`emit.py:66`; `emit.py:4`: "Fire-and-forget", "never blocks
  the detection loop").
* A batch of more than 500 events is refused inside a 200 and lost without a log line
  (`emit.py:71`; `emit.py:5`: "a failed POST is logged and dropped").
* The look that is kept for recognising somebody is that of the first frame of his track, not the one he
  left with: `last_embedding` is never refreshed (`tracker.py:103`, `:259`).
* A track missing from one frame is handled as lost while BoT-SORT keeps it
  (`detect.py:187`; `tracker.py:250`).
* In the layout of store `ST1008` the billing queue area lies inside zones that come
  before it in the dictionary, so no point is ever in it and no `BILLING_QUEUE_JOIN` sent.
* The staff judgement belongs to a track, not to a visitor id: somebody of the staff who comes back
  under a new track starts as a customer (`staff.py:93`; `staff.py:15`: "A visitor_id's
  staff_score accumulates over time", "is_staff = True permanently"). The uniform alone is worth .40 of .65: it takes three zones
  or half an hour as well.

API:
* Two exits that both look at a depth of one take it to minus one (`ingestion.py:233`,
  bounded by `QueueDriftBounded`; `tests/test_api_behaviour.py:118` clamps at 0), and the
  metrics report it.
* A zone event handled before the visitor's ENTRY is committed updates no row
  (`ingestion.py:184`; `docs/DESIGN.md:39`).
* If Redis fails after the conversions are committed their count is not written, and a repeated load
  that converts nothing does not write it either (`pos.py:81`).
* The time of a store's last event is that of the last pipeline, so an older event can bring
  STALE_FEED back (`ingestion.py:222`).
* Of two loads that recount a store the older count may be written last (`pos.py:86`;
  `pos.py:85` calls the counts exact).
* A depth of 0 in Redis is taken for none, and the depth of the last join reported
  (`metrics.py:58`; `docs/DESIGN.md:35`). Neither that join nor the anomalies' average leaves
  staff out.
* The average dwell may exceed every dwell (`metrics.py:124`); today's and the baseline's
  conversions are of different moments, so a load in between can raise a CONVERSION_DROP
  (`anomalies.py:51`, `:63`).

Clients and scripts:
* The converter is to "Convert legacy/sample event JSONL into the Store Intelligence API schema"
  (`convert_sample_events.py:3`), but hands on what the schema refuses: a `queue_depth` of 0 except
  in a queue join (`:45`), a negative dwell (`:49`), any confidence and session_seq (`:67`, `:71`),
  a visit to no zone (`:53`). The refusals are inside a 200 and the script goes on (`:134`). A
  number it cannot read ends it before anything is posted (`:122`).
* One row that the API does not accept, such as a refund, costs the loader its slice of 500
  (`pos_loader.py:95`).
* The simulator's `--speed` shortens simulated time per round and not the arrivals, so it
  takes longer, not shorter, the higher it is (`simulator.py:197`, `:200`), and no POS
  transaction is generated (`simulator.py:7`).
* The exporter takes JSONL for one JSON document, since its first line begins with a brace
  (`export_event_log.py:69`).
* What it exports does not convert back: queue types are unknown to the converter, zone
  lines carry a `track_id` it does not look for (a new visitor each), REENTRY comes back as
  ENTRY, and no line has an id, so each replay counts them again (`README.md:34`).

## What is not modelled

* The SSE stream (`sse.py`): it forwards what `Ingestion` publishes, and keeps nothing but
  its subscription. Its clients appear as Redis connections that are gone (`Fail`).
* The dashboard, the application's wiring, settings and logging (`main.py`, `config.py`), the
  smoke test; formats, image processing, and polygons other than boxes.
* `get_entry_line`, `cleanup_exited` and `get_score`, which nobody calls.
* `basket_value`, which no guard reads, and `zones_visited` as a list: it is only tested for
  membership.
* Several clips side by side. Each has its own registry and gallery (`detect.py:99`), so nothing is
  shared but the API. `Tracker` has the registry's cross-camera branch (`Link`) all the same, and
  the theorems of `TrackerProofs` hold of it; no run takes it, since a clip has one camera.
* Visitor ids that collide: `VIS_` and six hexadecimal digits are drawn without looking
  (`tracker.py:96`, `:126`); the model draws unused ones.
* A frame loop that raises as far as the registry is concerned: no EXIT is sent for who is in
  the shop then. `Emitter` has the exception, `Clip` only the loop that ends.
* `validate_event_log.py`, which reads a file and reports.
* The clean-up scripts, which empty the tables and leave Redis as it is.

## The plan

Done: ingestion and the ledger, POS loading and the two together, all endpoints that read,
the registry, the classifier, the zones, the loop, the emitter, the clients and scripts,
and the proofs above. What a further step would take on, in this order:

1. The emitter composed with the clip and with ingestion, so that an event's way from a
   frame to a row is one behaviour: what a lost, late or repeated batch does to sessions.
2. Several clips with a registry each, against the one registry that `tracker.py` promises.
3. A clean-up step that spares Redis.
