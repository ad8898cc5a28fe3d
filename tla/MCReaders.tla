----------------------------- MODULE MCReaders -----------------------------
(***************************************************************************)
(* Instances of Insights, and with it of Readers, for TLC: a store that is *)
(* looked at while customers and staff come in, stay, queue, pay and leave. *)
(***************************************************************************)
EXTENDS Insights, TLC, Functions

CONSTANTS s1, v1, v2, aisle, till, r1, r2, l1, c1,
          e1, e2, e3, e4, e5, e6, e7, e8, e9, e10, e11

MCStores == {s1}
MCVisitors == {v1, v2}
MCZones == {aisle, till}
MCBillingZones == {till}
MCIds == {e1, e2, e3, e4, e5, e6, e7, e8, e9, e10, e11}

Ev(id, v, type, ts) ==
    [id |-> id, store |-> s1, vid |-> v, type |-> type, ts |-> ts,
     zone |-> NoZone, dwell |-> 0, staff |-> FALSE, depth |-> 0,
     wellFormed |-> TRUE]

Dwell(id, v, ts) == [Ev(id, v, "ZONE_DWELL", ts) EXCEPT !.zone = aisle, !.dwell = 2]
Join(id, v, ts, depth) ==
    [Ev(id, v, "BILLING_QUEUE_JOIN", ts) EXCEPT !.zone = till, !.depth = depth]

Entry1 == Ev(e1, v1, "ENTRY", 1)
Join1 == Join(e2, v1, 1, 1)
Look2 == [Ev(e11, v2, "ZONE_ENTER", 1) EXCEPT !.zone = aisle]
Staff2 == [Ev(e4, v2, "ENTRY", 2) EXCEPT !.staff = TRUE]

EventsIn(B) == UNION {Range(b) : b \in B}

Sale == [id |-> 1, store |-> s1, ts |-> 2]
MCTransactions == {Sale}
MCPayloads == {<<Sale>>}

\* A customer comes in and queues while one of the staff comes in, and pays.
SaleBatches == {<<Entry1>>, <<Staff2, Join1>>}

\* Two customers stay in the same aisle, each for two dwells.
AisleBatches == {<<Dwell(e5, v1, 1), Dwell(e6, v1, 1)>>, <<Dwell(e7, v2, 1), Dwell(e8, v2, 2)>>}

\* Both queue, the first leaves and the second has been to the aisle.
QueueBatches == {<<Join(e9, v1, 1, 2), Ev(e3, v1, "EXIT", 2)>>, <<Look2, Join(e10, v2, 2, 1)>>}

Scenarios == {SaleBatches, AisleBatches, QueueBatches}
MCBatches == UNION Scenarios
MCEvents == EventsIn(MCBatches)

\* The requests of a behaviour post batches of one scenario; only the first one
\* has a sale.
OneScenario ==
    \E S \in Scenarios :
        /\ \A r \in Requests : batch[r] \in S \cup {<< >>}
        /\ \A l \in Loads : payload[l] # << >> => S = SaleBatches

MCSpec == InsightsInit /\ [][InsightsNext /\ OneScenario']_<<apiVars, readerVars, insightVars>>

SymmetricRequests == Permutations(Requests)

=============================================================================
