------------------------------ MODULE Sessions ------------------------------
(***************************************************************************)
(* What the handlers of the API share: the sessions table of               *)
(* migrations/001_initial.sql under the READ COMMITTED transactions they   *)
(* open on it, and the conversion count in Redis.  A client's uncommitted  *)
(* rows are an overlay, dirty[c]; a row in somebody's overlay is locked:   *)
(* the upsert of a locked key waits, an UPDATE waits only for a row that   *)
(* is already committed, because its snapshot cannot see an uncommitted    *)
(* INSERT and then it simply matches no row.  NOW() is the time at which   *)
(* the transaction started.                                                *)
(***************************************************************************)
EXTENDS Schema

CONSTANTS
    Clients,        \* the database sessions: one per request being handled
    NoRow,          \* no row with that key
    NoAnswer,       \* the call has not been answered
    ServerError     \* HTTP 500

VARIABLES
    sessions,       \* committed rows, by visitor_id
    dirty,          \* dirty[c][v]: the row client c has written, uncommitted
    txStart,        \* NOW() of each client's open transaction, else NoTime
    now,            \* the wall clock
    conversionCount \* Redis: the live count of converted sessions by store

sessionVars == <<sessions, dirty, txStart>>

NoTime == 0

\* zones_visited is only tested for membership: a set.  basket_value is not
\* modelled: no guard reads it.
Row ==
    [store : Stores, entered : Nat, exited : Nat, zones : SUBSET Zones,
     billing : BOOLEAN, converted : BOOLEAN, staff : BOOLEAN,
     reentries : Nat, updated : Nat]

ASSUME NoRowAssumption == NoRow \notin Row /\ NoAnswer # ServerError

SessionsTypeOK ==
    /\ sessions \in [Visitors -> Row \cup {NoRow}]
    /\ dirty \in [Clients -> [Visitors -> Row \cup {NoRow}]]
    /\ txStart \in [Clients -> Nat]
    /\ now \in Nat

SessionsInit ==
    /\ sessions = [v \in Visitors |-> NoRow]
    /\ dirty = [c \in Clients |-> [v \in Visitors |-> NoRow]]
    /\ txStart = [c \in Clients |-> NoTime]
    /\ now = 1
    /\ conversionCount = [s \in Stores |-> 0]

-----------------------------------------------------------------------------
\* What each statement writes, t standing for NOW().

Inserted(e, t) ==
    [store |-> e.store, entered |-> e.ts, exited |-> NoTime, zones |-> {},
     billing |-> FALSE, converted |-> FALSE, staff |-> e.staff,
     reentries |-> 0, updated |-> t]

Returns(e) == IF e.type = "REENTRY" THEN 1 ELSE 0

Upserted(row, e, t) ==
    [row EXCEPT !.reentries = @ + Returns(e), !.updated = t]

Exited(row, e, t) == [row EXCEPT !.exited = e.ts, !.updated = t]

ZoneSeen(row, e, t) ==
    [row EXCEPT !.zones = @ \cup {e.zone},
                !.billing = @ \/ e.zone \in BillingZones,
                !.updated = t]

\* The queue join stamps the row with the event's own time.
QueueJoined(row, e) == [row EXCEPT !.billing = TRUE, !.updated = e.ts]

IsEntry(e) == e.type \in {"ENTRY", "REENTRY"}
IsZoneVisit(e) == e.type \in {"ZONE_ENTER", "ZONE_DWELL"}
IsJoin(e) == e.type = "BILLING_QUEUE_JOIN"
TouchesSession(e) == IsEntry(e) \/ e.type = "EXIT" \/ IsZoneVisit(e) \/ IsJoin(e)

-----------------------------------------------------------------------------
OwnRow(c, v) == IF dirty[c][v] # NoRow THEN dirty[c][v] ELSE sessions[v]

Holders(c, v) == {d \in Clients \ {c} : dirty[d][v] # NoRow}

\* Mutant: the row is read and written back without holding its lock.
NoLocks(c, e) == {}

\* The clients whose row lock the statement for event e has to wait for.
StatementBlockers(c, e) ==
    IF IsEntry(e) \/ (TouchesSession(e) /\ OwnRow(c, e.vid) # NoRow)
    THEN Holders(c, e.vid) ELSE {}

\* NOW(), from the first statement that is executed: PostgreSQL has it at BEGIN, a
\* wait for that statement's lock earlier.  No property rests on the difference.
TxNow(c) == IF txStart[c] = NoTime THEN now ELSE txStart[c]

\* The row the statement of event e leaves in place of row: the upsert always
\* leaves one, an UPDATE only changes one that is there.
Written(row, e, t) ==
    IF IsEntry(e)
    THEN IF row = NoRow THEN Inserted(e, t) ELSE Upserted(row, e, t)
    ELSE IF row = NoRow THEN NoRow
         ELSE CASE e.type = "EXIT" -> Exited(row, e, t)
                [] IsZoneVisit(e) -> ZoneSeen(row, e, t)
                [] IsJoin(e) -> QueueJoined(row, e)

\* One statement of _update_sessions.
SessionStatement(c, e) ==
    IF TouchesSession(e)
    THEN /\ StatementBlockers(c, e) = {}
         /\ dirty' = [dirty EXCEPT ![c][e.vid] = Written(OwnRow(c, e.vid), e, TxNow(c))]
         /\ txStart' = [txStart EXCEPT ![c] = TxNow(c)]
         /\ UNCHANGED sessions
    ELSE UNCHANGED sessionVars

NoRows == [v \in Visitors |-> NoRow]

CommitRows(c) ==
    /\ sessions' = [v \in Visitors |-> OwnRow(c, v)]
    /\ dirty' = [dirty EXCEPT ![c] = NoRows]
    /\ txStart' = [txStart EXCEPT ![c] = NoTime]

RollbackRows(c) ==
    /\ dirty' = [dirty EXCEPT ![c] = NoRows]
    /\ txStart' = [txStart EXCEPT ![c] = NoTime]
    /\ UNCHANGED sessions

\* A lock has one holder, so nobody waits for two clients at once: in the graph
\* W of who waits for whom, a set in which everyone waits for a member and is
\* waited for by one is made of cycles.
OnCycle(c, W) ==
    /\ W[c] # {}
    /\ \E D \in SUBSET {d \in DOMAIN W : W[d] # {}} :
         /\ c \in D
         /\ \A d \in D : \E e \in D : e \in W[d]
         /\ \A d \in D : \E e \in D : d \in W[e]

=============================================================================
