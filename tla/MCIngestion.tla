---------------------------- MODULE MCIngestion ----------------------------
(***************************************************************************)
(* Instances of Ingestion for TLC: the events a detector produces for two  *)
(* visitors of a store, and the batches each run lets senders post.        *)
(***************************************************************************)
EXTENDS Ingestion, TLC, Functions

CONSTANTS s1, s2, v1, v2, floor, till, r1, r2, r3,
          e1, e2, e3, e4, e5, e6, e7, e8, e9, e10, e11

MCStores == {s1, s2}
MCVisitors == {v1, v2}
MCZones == {floor, till}
MCBillingZones == {till}
MCIds == {e1, e2, e3, e4, e5, e6, e7, e8, e9, e10, e11}

\* An event without zone, dwell and queue depth, in store s1.
Ev(id, v, type, ts) ==
    [id |-> id, store |-> s1, vid |-> v, type |-> type, ts |-> ts,
     zone |-> NoZone, dwell |-> 0, staff |-> FALSE, depth |-> 0,
     wellFormed |-> TRUE]

Entry1 == Ev(e1, v1, "ENTRY", 1)
Floor1 == [Ev(e2, v1, "ZONE_ENTER", 2) EXCEPT !.zone = floor]
Till1 == [Ev(e3, v1, "ZONE_DWELL", 3) EXCEPT !.zone = till, !.dwell = 1]
Join1 == [Ev(e4, v1, "BILLING_QUEUE_JOIN", 3) EXCEPT !.zone = till, !.depth = 1]
Exit1 == Ev(e5, v1, "EXIT", 4)
Again1 == Ev(e6, v1, "REENTRY", 4)
Entry2 == Ev(e7, v2, "ENTRY", 2)
Staff2 == [Ev(e11, v2, "ENTRY", 2) EXCEPT !.staff = TRUE]
Exit2 == Ev(e8, v2, "EXIT", 4)
\* A queue join that does not say how long the queue is fails validation.
Broken == [Ev(e9, v2, "BILLING_QUEUE_JOIN", 1) EXCEPT !.zone = till]

EventsIn(B) == UNION {Range(b) : b \in B}

\* Senders that repeat each other's events, in whole or in part.
RetryBatches ==
    {<<Entry1, Broken, Staff2>>, <<Entry1, Till1>>, <<Till1, Entry1>>,
     <<Entry1, Entry1, Till1, Broken>>}
RetryEvents == EventsIn(RetryBatches)

\* Several batches of the same visitors, their rows touched in either order.
RowBatches == {<<Entry1, Entry2>>, <<Again1, Floor1>>, <<Exit2, Till1>>}
RowEvents == EventsIn(RowBatches)

\* Two visitors leave while a third sender reports the queue.
QueueBatches == {<<Join1>>, <<Exit1, Exit2>>, <<Exit2, Join1>>}
QueueEvents == EventsIn(QueueBatches)

\* The three kinds of traffic, one at a time: every request of a behaviour posts
\* batches of the same kind.
Scenarios == {RetryBatches, RowBatches, QueueBatches}
MCBatches == UNION Scenarios
MCEvents == EventsIn(MCBatches)

OneScenario ==
    \E S \in Scenarios : \A r \in Requests : batch[r] \in S \cup {<< >>}

MCSpec == Init /\ [][Next /\ OneScenario']_vars

SymmetricRequests == Permutations(Requests)

=============================================================================
