------------------------------- MODULE MCApi -------------------------------
(***************************************************************************)
(* Instances of Api for TLC: two visitors at the till, of one store or of  *)
(* two, and the loads that may convert them.                               *)
(***************************************************************************)
EXTENDS Api, TLC, Functions

CONSTANTS s1, s2, v1, v2, floor, till, r1, r2, l1, l2, e1, e2, e3, e4, e5, e6

MCStores == {s1, s2}
MCVisitors == {v1, v2}
MCZones == {floor, till}
MCBillingZones == {till}
MCIds == {e1, e2, e3, e4, e5, e6}

Ev(id, s, v, type, ts) ==
    [id |-> id, store |-> s, vid |-> v, type |-> type, ts |-> ts,
     zone |-> NoZone, dwell |-> 0, staff |-> FALSE, depth |-> 0,
     wellFormed |-> TRUE]

Entry1 == Ev(e1, s1, v1, "ENTRY", 1)
Join1 == [Ev(e2, s1, v1, "BILLING_QUEUE_JOIN", 1) EXCEPT !.zone = till, !.depth = 1]
Exit1 == Ev(e3, s1, v1, "EXIT", 2)
Exit2 == Ev(e6, s2, v2, "EXIT", 2)

Early == [id |-> 1, store |-> s1, ts |-> 1]
Late == [id |-> 2, store |-> s1, ts |-> 3]
Other == [id |-> 3, store |-> s2, ts |-> 2]

\* The events of a set of batches, the transactions of a set of payloads.
EventsIn(B) == UNION {Range(b) : b \in B}

\* A visitor of each store is at the till when the events that he leaves and
\* the transactions of both stores arrive.
TillBatches == {<<Exit1>>, <<Exit2, Exit1>>}
TillEvents == EventsIn(TillBatches)
TillPayloads == {<<Late>>, <<Early, Other>>, <<Late, Early>>}
TillTransactions == EventsIn(TillPayloads)

\* A visitor enters and pays, and leaves in a later request.
LeaveBatches == {<<Entry1, Join1>>, <<Exit1>>}
LeaveEvents == EventsIn(LeaveBatches)
LeavePayloads == {<<Late>>}
LeaveTransactions == EventsIn(LeavePayloads)

\* A load and requests touch the rows of both visitors in opposite orders.
CrossBatches == {<<Exit2, Exit1>>, <<Exit1, Exit2>>}
CrossEvents == EventsIn(CrossBatches)
CrossPayloads == {<<Early, Other>>}
CrossTransactions == EventsIn(CrossPayloads)

AtTheTill(s, t) ==
    [store |-> s, entered |-> 1, exited |-> NoTime, zones |-> {till},
     billing |-> TRUE, converted |-> FALSE, staff |-> FALSE,
     reentries |-> 0, updated |-> t]

\* The API was restarted over its database while the visitors are at the till.
RestartInit ==
    /\ sessions = [v \in Visitors |-> IF v = v1 THEN AtTheTill(s1, 1) ELSE AtTheTill(s2, 2)]
    /\ dirty = [c \in Clients |-> NoRows]
    /\ txStart = [c \in Clients |-> NoTime]
    /\ now = 2
    /\ conversionCount = [s \in Stores |-> 0]
    /\ RequestsInit
    /\ LoadsInit

TillSpec == RestartInit /\ [][ApiNext]_apiVars

CrossSpec == RestartInit /\ [][ApiNext]_apiVars /\ ApiFairness

Symmetric == Permutations(Requests) \cup Permutations(Loads)

=============================================================================
