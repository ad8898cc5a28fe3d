----------------------------- MODULE MCSenders -----------------------------
(***************************************************************************)
(* Instances of Senders for TLC: two loaders over files that overlap, a    *)
(* simulator, or two replays of logs that overlap.                         *)
(***************************************************************************)
EXTENDS Senders, TLC

CONSTANTS s1, v1, v2, v3, v4, floor, till, p1, p2, q1, q2, e1, e2, e3

MCStores == {s1}
MCDrawable == {v1, v2}
Logged == {v3, v4}
MCZones == {floor, till}
MCBillingZones == {till}

MCLoaders == {p1, p2}
MCLoads == MCLoaders \X (1..2)
MCReplays == {q1, q2}
MCRequests == (MCStores \cup MCReplays) \X (1..2)
MCClients == MCRequests \cup MCLoads

\* What a replay draws for the visitors of the third log.
MCVisitors == MCDrawable \cup Logged \cup (MCReplays \X {3} \X (1..2))

Sale(n) == [id |-> n, store |-> s1, ts |-> 1]
MCTransactions == {Sale(1), Sale(2), Sale(3)}
CsvLine(n) == [txn |-> Sale(n), parses |-> TRUE, payable |-> TRUE]
Refund(n) == [CsvLine(n) EXCEPT !.payable = FALSE]
Heading(n) == [CsvLine(n) EXCEPT !.parses = FALSE]

\* A file of two slices with rows to skip, one in another order, and one with a
\* row that is refused.
MCFiles ==
    { << CsvLine(1), Heading(2), CsvLine(1), CsvLine(2), CsvLine(3) >>,
      << CsvLine(2), CsvLine(1) >>,
      << Refund(3), CsvLine(1) >> }

Line(type, id, vid, zone) ==
    [type |-> type, id |-> id, store |-> s1, vid |-> vid, ts |-> 1, zone |-> zone,
     dwell |-> 0, depth |-> NoDepth, staff |-> FALSE, parses |-> TRUE, inRange |-> TRUE]

Comes == Line("entry", e1, v3, floor)
Goes == Line("EXIT", e2, v3, NoZone)

Queues ==
    [id |-> e1, store |-> s1, vid |-> v3, type |-> "BILLING_QUEUE_JOIN", ts |-> 1,
     zone |-> till, dwell |-> 0, staff |-> FALSE, depth |-> 1, wellFormed |-> TRUE]

\* Logs that share lines in different orders; lines that the API will not take, for
\* their depth, their type, their zone, their dwell or what is not modelled; lines of
\* the submission's style; and one that cannot be read.
MCSamples ==
    << << Comes, Goes >>,
      << Goes, Comes, [Line("exit", e3, v4, NoZone) EXCEPT !.depth = 0],
         Line("dwell", NoId, v4, NoZone) >>,
      << ToSubmissionEvent(Queues), [Line("queue_join", NoId, v4, till) EXCEPT !.depth = 0],
         [Line("zone_exit", NoId, v4, floor) EXCEPT !.dwell = -1],
         [Line("", NoId, v4, NoZone) EXCEPT !.inRange = FALSE] >>,
      << Comes, [Goes EXCEPT !.parses = FALSE] >> >>

MCConversions == {Conversion(q, n, 1) : q \in MCReplays, n \in DOMAIN MCSamples}
MCJourneys == UNION {Journeys(s1, v) : v \in MCDrawable}

MCBatches == MCJourneys \cup {FirstOf(After(b, k)) : b \in MCConversions, k \in 0..MaxPosts}
MCPayloads == {Posted(SliceOf(RowsOf(f), k)) : f \in MCFiles, k \in 1..MaxSlices}
MCEvents == UNION {Range(b) : b \in MCConversions \cup MCJourneys}

MCIds == {e.id : e \in MCEvents}

\* Only the loaders, only the simulator or only the replays are at work.
OneKind ==
    LET loading == \E p \in Loaders : loader[p] # "off"
        simulating == \E s \in Sims : sender[s] # "off"
        replaying == \E p \in Replays : sender[p] # "off"
    IN ~(loading /\ simulating) /\ ~(loading /\ replaying) /\ ~(simulating /\ replaying)

MCSpec ==
    SendersInit /\ [][SendersNext /\ OneKind']_<<apiVars, loaderVars, senderVars>>

Symmetric == Permutations(MCLoaders) \cup Permutations(MCReplays)

=============================================================================
