------------------------------ MODULE Senders -------------------------------
(***************************************************************************)
(* The other clients of the API: the simulator (pipeline/simulator.py),    *)
(* which posts the journey of one made-up visitor after the other, the     *)
(* replay of a sample log (scripts/convert_sample_events.py --ingest),     *)
(* which converts its lines and posts them in slices until one fails, and  *)
(* the runs of PosLoader.  None of them retries; all of them may lose an   *)
(* answer while the API handles the request.                               *)
(***************************************************************************)
EXTENDS PosLoader, EventLog, FiniteSetsExt, Functions

CONSTANTS
    Sims,           \* the stores simulated, a task for each
    Drawable,       \* the visitor ids that the simulator may draw
    SimZones,       \* where simulated customers dwell
    Checkout,       \* "CHECKOUT", where they queue
    Interval,       \* 20 seconds between arrivals
    Step,           \* that by the speed factor: what a round adds to the time
    Duration,
    MaxDwells,      \* 3
    Replays,        \* runs of the converter with --ingest
    Samples,        \* the logs they may read, by name
    ReplaySlice,    \* 500
    MaxPosts        \* bound on the requests of a sender

ASSUME SendersAssumption ==
    /\ Sims \subseteq Stores
    /\ Drawable \subseteq Visitors
    /\ SimZones \cup {Checkout} \subseteq Zones
    /\ {Interval, Step, MaxDwells, ReplaySlice} \subseteq Nat \ {0}
    /\ Duration \in Nat
    /\ Sims \cap Replays = {}
    /\ MaxPosts \in Nat
    /\ Requests = (Sims \cup Replays) \X (1..MaxPosts)
    /\ ReplaySlice <= MaxBatch /\ MaxDwells + 3 <= MaxBatch
    /\ DOMAIN Samples # {}
    /\ \A n \in DOMAIN Samples : \A i \in DOMAIN Samples[n] :
         Samples[n][i].dwell \in Int /\ Samples[n][i].depth \in Int \cup {NoDepth}

\* There is a request for every arrival and for every slice of a log.
ASSUME PostsSuffice ==
    /\ Duration <= MaxPosts * Interval
    /\ \A n \in DOMAIN Samples : DOMAIN Samples[n] \subseteq 1..(MaxPosts * ReplaySlice)

VARIABLES
    sender,         \* where each task and each replay is
    posts,          \* the requests it has made
    sim,            \* the counters of a simulator task
    log,            \* the log that a replay reads
    converted       \* and what it has made of it

senderVars == <<sender, posts, sim, log, converted>>

SenderStates == {"off", "ready", "waiting", "done", "raised"}
Sim == [time : Nat, next : Nat, visitors : Nat, events : Nat]

SendersInit ==
    /\ ApiInit
    /\ LoadersInit
    /\ sender = [p \in Sims \cup Replays |-> "off"]
    /\ posts = [p \in Sims \cup Replays |-> 0]
    /\ sim = [s \in Sims |-> [time |-> 0, next |-> 0, visitors |-> 0, events |-> 0]]
    /\ log = [p \in Replays |-> CHOOSE n \in DOMAIN Samples : TRUE]
    /\ converted = [p \in Replays |-> << >>]

SenderGoto(p, from, to) == sender[p] = from /\ sender' = [sender EXCEPT ![p] = to]

\* The request may not get through.
Post(p, b) ==
    /\ posts' = [posts EXCEPT ![p] = @ + 1]
    /\ Receive(<<p, posts[p] + 1>>, b) \/ UNCHANGED vars

Reply(p) == answer[<<p, posts[p]>>]
Replied(p) == sender[p] = "waiting" /\ pc[<<p, posts[p]>>] = "done"

-----------------------------------------------------------------------------
\* The simulator.  Of the seconds that pass in a journey only the order is kept.

SimEvent(s, v, type, zone, dwell, depth) ==
    [id |-> << >>, store |-> s, vid |-> v, type |-> type, ts |-> 1, zone |-> zone,
     dwell |-> dwell, staff |-> FALSE, depth |-> depth, wellFormed |-> TRUE]

\* Each event has an id of its own, a uuid4 in the code, and comes later.
InOrder(journey, zones, depth) ==
    [i \in DOMAIN journey |->
       [journey[i] EXCEPT !.id = <<journey[i].store, journey[i].vid, zones, depth, i>>,
                          !.ts = i]]

\* Mutant: the zones come before the entry.
GenerateJourneyUnordered(s, v, zones, depth) ==
    InOrder([i \in DOMAIN zones |-> SimEvent(s, v, "ZONE_DWELL", zones[i], 1, 0)]
            \o << SimEvent(s, v, "ENTRY", NoZone, 0, 0) >>
            \o (IF zones = << >> THEN << >>
                ELSE << SimEvent(s, v, "BILLING_QUEUE_JOIN", Checkout, 0, depth) >>)
            \o << SimEvent(s, v, "EXIT", NoZone, 0, 0) >>, zones, depth)

\* Who will convert dwells in one to three zones and queues; the others, without
\* zones here, go as they came.
GenerateJourney(s, v, zones, depth) ==
    InOrder(<< SimEvent(s, v, "ENTRY", NoZone, 0, 0) >>
            \o [i \in DOMAIN zones |-> SimEvent(s, v, "ZONE_DWELL", zones[i], 1, 0)]
            \o (IF zones = << >> THEN << >>
                ELSE << SimEvent(s, v, "BILLING_QUEUE_JOIN", Checkout, 0, depth) >>)
            \o << SimEvent(s, v, "EXIT", NoZone, 0, 0) >>, zones, depth)

Journeys(s, v) ==
    {GenerateJourney(s, v, zones, depth) :
       zones \in UNION {[1..n -> SimZones] : n \in 0..MaxDwells}, depth \in 1..MaxDepth}

\* uuid4() again: nobody the API knows has this visitor_id.
Drawn == {batch[r][1].vid : r \in {q \in Requests : batch[q] # << >>}}

SimStarts(s) ==
    /\ SenderGoto(s, "off", "ready")
    /\ UNCHANGED <<posts, sim, log, converted, apiVars>>

Arrival(s) ==
    /\ sim[s].time < Duration
    /\ sim[s].time >= sim[s].next
    /\ SenderGoto(s, "ready", "waiting")
    /\ \E v \in Drawable \ Drawn : \E journey \in Journeys(s, v) : Post(s, journey)
    /\ UNCHANGED <<sim, log, converted, loadVars>>

\* A round of the loop after an arrival, with what post_events returned.
Round(s, posted) ==
    /\ SenderGoto(s, "waiting", "ready")
    /\ sim' = [sim EXCEPT ![s] =
         [time |-> @.time + Step, next |-> @.next + Interval,
          visitors |-> @.visitors + (IF posted THEN 1 ELSE 0),
          events |-> @.events + (IF posted THEN Len(batch[<<s, posts[s]>>]) ELSE 0)]]
    /\ UNCHANGED <<posts, log, converted, apiVars>>

\* Only a 200 that accepted something counts.
SimAnswered(s) ==
    /\ Replied(s)
    /\ Round(s, Reply(s) # ServerError /\ Reply(s).accepted > 0)

\* Five seconds are over, or there is no connection.
SimUnanswered(s) == Round(s, FALSE)

NobodyArrives(s) ==
    /\ SenderGoto(s, "ready", "ready")
    /\ sim[s].time < Duration
    /\ sim[s].time < sim[s].next
    /\ sim' = [sim EXCEPT ![s].time = @ + Step]
    /\ UNCHANGED <<posts, log, converted, apiVars>>

SimEnds(s) ==
    /\ sim[s].time >= Duration
    /\ SenderGoto(s, "ready", "done")
    /\ UNCHANGED <<posts, sim, log, converted, apiVars>>

-----------------------------------------------------------------------------
\* The replay.

Conversion(p, n, time) ==
    [i \in DOMAIN Samples[n] |-> ConvertEvent(Samples[n][i], <<p, n, i>>, time)]

\* A line that cannot be read ends the run before anything is posted.
ConvertFile(p, n) ==
    LET parses == \A i \in DOMAIN Samples[n] : Samples[n][i].parses IN
    /\ SenderGoto(p, "off", IF parses THEN "ready" ELSE "raised")
    /\ log' = [log EXCEPT ![p] = n]
    /\ converted' = [converted EXCEPT ![p] = IF parses THEN Conversion(p, n, now) ELSE << >>]
    /\ UNCHANGED <<posts, sim, apiVars>>

\* events[i:i + 500]
After(b, k) == SubSeq(b, k * ReplaySlice + 1, Len(b))
Unsent(p) == After(converted[p], posts[p])

FirstOf(b) == SubSeq(b, 1, IF Len(b) < ReplaySlice THEN Len(b) ELSE ReplaySlice)

IngestSlice(p) ==
    /\ Unsent(p) # << >>
    /\ SenderGoto(p, "ready", "waiting")
    /\ Post(p, FirstOf(Unsent(p)))
    /\ UNCHANGED <<sim, log, converted, loadVars>>

\* Mutant: without raise_for_status.
IngestAnsweredUnchecked(p) ==
    /\ Replied(p)
    /\ SenderGoto(p, "waiting", "ready")
    /\ UNCHANGED <<posts, sim, log, converted, apiVars>>

IngestAnswered(p) ==
    /\ Replied(p)
    /\ SenderGoto(p, "waiting", IF Reply(p) = ServerError THEN "raised" ELSE "ready")
    /\ UNCHANGED <<posts, sim, log, converted, apiVars>>

IngestUnanswered(p) ==
    /\ SenderGoto(p, "waiting", "raised")
    /\ UNCHANGED <<posts, sim, log, converted, apiVars>>

ReplayEnds(p) ==
    /\ Unsent(p) = << >>
    /\ SenderGoto(p, "ready", "done")
    /\ UNCHANGED <<posts, sim, log, converted, apiVars>>

-----------------------------------------------------------------------------
\* What is made for the API is something to send.  No time passes here, so the
\* converter's time is that of the start.  Visitor ids that are drawn are new:
\* no log has them.
ASSUME PostsAssumption ==
    /\ \A s \in Sims, v \in Drawable : Journeys(s, v) \subseteq Batches
    /\ \A p \in Replays, n \in DOMAIN Samples :
         /\ Conversion(p, n, 1) \in Seq(Events)
         /\ \A i \in DOMAIN Samples[n] : Conversion(p, n, 1)[i].vid \notin Drawable
         /\ \A k \in 0..MaxPosts : FirstOf(After(Conversion(p, n, 1), k)) \in Batches

SenderStep ==
    \/ \E s \in Sims :
         SimStarts(s) \/ Arrival(s) \/ SimAnswered(s) \/ SimUnanswered(s)
         \/ NobodyArrives(s) \/ SimEnds(s)
    \/ \E p \in Replays :
         \/ \E n \in DOMAIN Samples : ConvertFile(p, n)
         \/ IngestSlice(p) \/ IngestAnswered(p) \/ IngestUnanswered(p) \/ ReplayEnds(p)

\* What the API does for those who have called it.
Serves ==
    \/ \E r \in Requests : (Advance(r) \/ SkipPublish(r) \/ Fail(r)) /\ UNCHANGED loadVars
    \/ \E l \in Loads : (AdvanceLoad(l) \/ FailLoad(l)) /\ UNCHANGED <<ingestionVars, now>>
    \/ \E r \in Requests : RequestDeadlock(r)
    \/ \E l \in Loads : LoadDeadlock(l)

\* Nobody is at work and nothing is left to be handled.
AtRest ==
    /\ \A p \in Loaders : loader[p] \in {"off", "done"}
    /\ \A p \in Sims \cup Replays : sender[p] \in {"off", "done", "raised"}
    /\ \A r \in Requests : pc[r] \in {"idle", "done"}
    /\ \A l \in Loads : lpc[l] \in {"idle", "done"}
    /\ UNCHANGED <<apiVars, loaderVars, senderVars>>

SendersNext ==
    \/ \E p \in Loaders : LoaderStep(p) /\ UNCHANGED senderVars
    \/ SenderStep /\ UNCHANGED loaderVars
    \/ Serves /\ UNCHANGED <<loaderVars, senderVars>>
    \/ AtRest

SendersSpec == SendersInit /\ [][SendersNext]_<<apiVars, loaderVars, senderVars>>

-----------------------------------------------------------------------------
\* Properties.

\* Type correctness of the clients; who waits has made a request, and who does
\* not start a new one is not past its end.
SendersTypeOK ==
    /\ ApiTypeOK
    /\ loader \in [Loaders -> LoaderStates]
    /\ rows \in [Loaders -> Seq(CsvRow)]
    /\ tally \in [Loaders -> Tally]
    /\ \A p \in Loaders :
         /\ loader[p] = "waiting" => slice[p] <= MaxSlices /\ lpc[LoadOf(p)] # "idle"
         /\ loader[p] = "done" => (slice[p] - 1) * Slice >= Len(rows[p])
    /\ sender \in [Sims \cup Replays -> SenderStates]
    /\ \A p \in Sims \cup Replays :
         /\ posts[p] <= MaxPosts
         /\ sender[p] = "waiting" => posts[p] > 0
    /\ sim \in [Sims -> Sim]
    /\ log \in [Replays -> DOMAIN Samples]
    /\ converted \in [Replays -> Seq(Events)]

\* What load_pos returns as loaded is there: the runs together never claim more
\* than the table holds, though slices overlap, are given up and loaded all the
\* same, and a run that claims all of its rows has got every one of them stored.
LoaderHonest ==
    /\ MapThenSumSet(LAMBDA p : tally[p].loaded, Loaders) <= Cardinality(transactions)
    /\ \A p \in Loaders : loader[p] = "done" /\ tally[p].loaded = tally[p].parsed =>
         \A i \in DOMAIN rows[p] : rows[p][i].txn \in transactions

\* A journey that was accepted leaves the session that was meant: closed, at
\* billing exactly if the visitor queued, in his zones.  And the simulator counts no
\* visitor and no event that is not stored.
JourneysTold ==
    \A s \in Sims :
        /\ sim[s].visitors <= Cardinality(VisitorEntries(stored, s))
        /\ sim[s].events <= Cardinality({e \in stored : e.store = s})
        /\ \A r \in {s} \X (1..MaxPosts) : answer[r] \in Answer /\ batch[r] # << >> =>
             LET row == sessions[batch[r][1].vid]
                 zones == {e.zone : e \in {f \in NewEvents(r) : f.type = "ZONE_DWELL"}}
             IN /\ row # NoRow
                /\ row.exited = Len(batch[r])
                /\ row.zones = zones
                /\ row.billing = (zones # {})

\* What the API will take of a line once it is converted.
Acceptable(line) ==
    LET type == NormalizeEventType(line.type) IN
    /\ type \in EventTypes /\ line.inRange
    /\ type \in RequireZoneTypes => line.zone # NoZone
    /\ type \notin InstantTypes => line.dwell >= 0
    /\ \/ line.depth = NoDepth \/ line.depth >= 1
       \/ type = "BILLING_QUEUE_JOIN" /\ line.depth = 0

\* A replay that ends without an error has got exactly the acceptable lines of its
\* log stored, although nothing but the status of its answers was looked at: every
\* slice of them was posted, none was given up or lost with a request that failed,
\* and what another replay or an earlier line had stored counts as well.  The other
\* lines have gone into answers of 200 that nobody reads.
ReplayHonest ==
    \A p \in Replays : sender[p] = "done" =>
        \A i \in DOMAIN converted[p] :
            converted[p][i] \in stored <=> Acceptable(Samples[log[p]][i])

=============================================================================
