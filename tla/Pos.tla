-------------------------------- MODULE Pos --------------------------------
(***************************************************************************)
(* POST /pos/load (app/routers/pos.py): a load stores its transactions in  *)
(* one database transaction, converts the sessions they match in a second  *)
(* one, a row at a time, and then, if it converted any, recounts the       *)
(* converted sessions of its stores and writes each count to Redis.        *)
(***************************************************************************)
EXTENDS Sessions

CONSTANTS
    Loads,          \* one per call of the endpoint
    Transactions,   \* the POS transactions there are
    Payloads,       \* the lists of transactions a loader may post
    Window,         \* five minutes
    MaxLoadFails    \* bound on failing loads

VARIABLES
    transactions,   \* the pos_transactions table
    lpc,            \* where each load is
    payload,
    todo,           \* indices the current loop has not visited yet
    loaded,         \* indices whose INSERT returned an id
    current,        \* the index whose UPDATE is running
    hits,           \* the rows that UPDATE has still to lock
    won,            \* rows this load has converted: sessions_converted is their number
    recount,        \* stores still to be counted
    count,          \* the count being written to Redis, and of which store
    loadAnswer,
    loadFails

loadVars == <<transactions, lpc, payload, todo, loaded, current, hits, won, recount,
              count, loadAnswer, loadFails>>

Transaction == [id : Nat, store : Stores, ts : 1..MaxTime]
Count == [store : Stores, n : Nat]
LoadAnswer == [loaded : Nat, duplicates : Nat, converted : Nat]
LoadPCs == {"idle", "insert", "update", "rows", "count", "set", "done"}

ASSUME PosAssumption ==
    /\ Loads \subseteq Clients
    /\ Transactions \subseteq Transaction
    /\ \A t, u \in Transactions : t.id = u.id => t = u
    /\ Payloads \subseteq Seq(Transactions)
    /\ Stores # {}
    /\ IsFiniteSet(Visitors)
    /\ Window \in Nat
    /\ MaxLoadFails \in Nat
    /\ NoAnswer \notin LoadAnswer
    /\ ServerError \notin LoadAnswer

LoadsInit ==
    /\ transactions = {}
    /\ lpc = [l \in Loads |-> "idle"]
    /\ payload = [l \in Loads |-> << >>]
    /\ todo = [l \in Loads |-> {}]
    /\ loaded = [l \in Loads |-> {}]
    /\ current = [l \in Loads |-> 0]
    /\ hits = [l \in Loads |-> {}]
    /\ won = [l \in Loads |-> {}]
    /\ recount = [l \in Loads |-> {}]
    /\ count = [l \in Loads |-> [store |-> CHOOSE s \in Stores : TRUE, n |-> 0]]
    /\ loadAnswer = [l \in Loads |-> NoAnswer]
    /\ loadFails = 0

-----------------------------------------------------------------------------
LoadGoto(l, from, to) == lpc[l] = from /\ lpc' = [lpc EXCEPT ![l] = to]

\* The loop has got to index i.
FirstTodo(l, i) == i \in todo[l] /\ \A j \in todo[l] : i <= j

NewTransactions(l) == {payload[l][i] : i \in loaded[l]}

\* The rows of an INSERT transaction that has not committed yet.
PendingTransactions(l) == IF lpc[l] = "insert" THEN NewTransactions(l) ELSE {}

\* Mutant: a session need not have reached billing.
MatchesWithoutBilling(row, t) ==
    /\ row # NoRow
    /\ row.store = t.store
    /\ ~row.staff
    /\ ~row.converted
    /\ t.ts - Window <= row.updated
    /\ row.updated <= t.ts

\* The WHERE clause of the UPDATE for transaction t.
Matches(row, t) ==
    /\ row # NoRow
    /\ row.store = t.store
    /\ ~row.staff
    /\ row.billing
    /\ ~row.converted
    /\ t.ts - Window <= row.updated
    /\ row.updated <= t.ts

Converted(row, t) == [row EXCEPT !.converted = TRUE, !.updated = t]

\* Mutant: the count does not look at the store.
ConvertedAnywhere(s) ==
    Cardinality({v \in Visitors : /\ sessions[v] # NoRow
                                  /\ ~sessions[v].staff
                                  /\ sessions[v].converted})

\* SELECT COUNT(*) of the converted customers of a store.
ConvertedIn(s) ==
    Cardinality({v \in Visitors : /\ sessions[v] # NoRow
                                  /\ sessions[v].store = s
                                  /\ ~sessions[v].staff
                                  /\ sessions[v].converted})

LoadCounts(l) ==
    [loaded |-> Cardinality(loaded[l]),
     duplicates |-> Len(payload[l]) - Cardinality(loaded[l]),
     converted |-> Cardinality(won[l])]

-----------------------------------------------------------------------------
\* A payload that validation refuses, or an empty one, changes nothing.
LoadNothing(l) ==
    /\ LoadGoto(l, "idle", "done")
    /\ loadAnswer' = [loadAnswer EXCEPT ![l] = [loaded |-> 0, duplicates |-> 0, converted |-> 0]]
    /\ UNCHANGED <<sessionVars, conversionCount, transactions, payload, todo, loaded,
                   current, hits, won, recount, count, loadFails>>

ReceiveLoad(l, p) ==
    /\ p # << >>
    /\ LoadGoto(l, "idle", "insert")
    /\ payload' = [payload EXCEPT ![l] = p]
    /\ todo' = [todo EXCEPT ![l] = DOMAIN p]
    /\ UNCHANGED <<sessionVars, conversionCount, transactions, loaded, current, hits,
                   won, recount, count, loadAnswer, loadFails>>

\* Mutant: the key is looked up before the INSERT instead of being locked by it.
NobodyHoldsTheTransaction(l, t) == {}

\* The loads whose uncommitted rows hold the key of transaction t.
TransactionBlockers(l, t) == {m \in Loads \ {l} : t \in PendingTransactions(m)}

InsertTransaction(l) ==
    /\ lpc[l] = "insert"
    /\ \E i \in todo[l] :
         /\ FirstTodo(l, i)
         /\ TransactionBlockers(l, payload[l][i]) = {}
         /\ loaded' = [loaded EXCEPT ![l] =
                         IF payload[l][i] \in transactions \cup PendingTransactions(l)
                         THEN @ ELSE @ \cup {i}]
         /\ todo' = [todo EXCEPT ![l] = @ \ {i}]
    /\ UNCHANGED <<sessionVars, conversionCount, transactions, lpc, payload, current,
                   hits, won, recount, count, loadAnswer, loadFails>>

\* Mutant: the second loop counts its transactions from zero.
CommitTransactionsFromZero(l) ==
    /\ todo[l] = {}
    /\ LoadGoto(l, "insert", "update")
    /\ transactions' = transactions \cup PendingTransactions(l)
    /\ todo' = [todo EXCEPT ![l] = {i - 1 : i \in DOMAIN payload[l]}]
    /\ UNCHANGED <<sessionVars, conversionCount, payload, loaded, current, hits, won,
                   recount, count, loadAnswer, loadFails>>

\* The transactions are committed; the second loop visits all of them, the
\* duplicates included.
CommitTransactions(l) ==
    /\ todo[l] = {}
    /\ LoadGoto(l, "insert", "update")
    /\ transactions' = transactions \cup PendingTransactions(l)
    /\ todo' = [todo EXCEPT ![l] = DOMAIN payload[l]]
    /\ UNCHANGED <<sessionVars, conversionCount, payload, loaded, current, hits, won,
                   recount, count, loadAnswer, loadFails>>

\* An UPDATE starts: its snapshot decides which rows it will lock.
BeginUpdate(l) ==
    /\ LoadGoto(l, "update", "rows")
    /\ \E i \in todo[l] :
         /\ FirstTodo(l, i)
         /\ current' = [current EXCEPT ![l] = i]
         /\ hits' = [hits EXCEPT ![l] =
                       {v \in Visitors : Matches(OwnRow(l, v), payload[l][i])}]
         /\ todo' = [todo EXCEPT ![l] = @ \ {i}]
    /\ txStart' = [txStart EXCEPT ![l] = TxNow(l)]
    /\ UNCHANGED <<sessions, dirty, conversionCount, transactions, payload, loaded, won,
                   recount, count, loadAnswer, loadFails>>

\* Mutant: the rows are selected first and then updated by key, unconditionally.
ConvertSelectedRow(l, v) ==
    /\ lpc[l] = "rows"
    /\ v \in hits[l]
    /\ Holders(l, v) = {}
    /\ hits' = [hits EXCEPT ![l] = @ \ {v}]
    /\ dirty' = [dirty EXCEPT ![l][v] = Converted(OwnRow(l, v), txStart[l])]
    /\ won' = [won EXCEPT ![l] = @ \cup {v}]
    /\ UNCHANGED <<sessions, txStart, conversionCount, transactions, lpc, payload, todo,
                   loaded, current, recount, count, loadAnswer, loadFails>>

\* It gets to a row, waits for whoever has it locked, and looks at the WHERE
\* clause again if the row has changed meanwhile.
ConvertRow(l, v) ==
    LET row == OwnRow(l, v) IN
    /\ lpc[l] = "rows"
    /\ v \in hits[l]
    /\ Holders(l, v) = {}
    /\ hits' = [hits EXCEPT ![l] = @ \ {v}]
    /\ IF Matches(row, payload[l][current[l]])
       THEN /\ dirty' = [dirty EXCEPT ![l][v] = Converted(row, txStart[l])]
            /\ won' = [won EXCEPT ![l] = @ \cup {v}]
       ELSE UNCHANGED <<dirty, won>>
    /\ UNCHANGED <<sessions, txStart, conversionCount, transactions, lpc, payload, todo,
                   loaded, current, recount, count, loadAnswer, loadFails>>

EndUpdate(l) ==
    /\ hits[l] = {}
    /\ LoadGoto(l, "rows", "update")
    /\ UNCHANGED <<sessionVars, conversionCount, transactions, payload, todo, loaded,
                   current, hits, won, recount, count, loadAnswer, loadFails>>

\* The conversions are committed; the stores are recounted if there are any.
CommitConversions(l) ==
    /\ todo[l] = {}
    /\ LoadGoto(l, "update", "count")
    /\ CommitRows(l)
    /\ recount' = [recount EXCEPT ![l] =
                     IF won[l] = {} THEN {}
                     ELSE {payload[l][i].store : i \in DOMAIN payload[l]}]
    /\ UNCHANGED <<conversionCount, transactions, payload, todo, loaded, current, hits,
                   won, count, loadAnswer, loadFails>>

CountStore(l, s) ==
    /\ s \in recount[l]
    /\ LoadGoto(l, "count", "set")
    /\ count' = [count EXCEPT ![l] = [store |-> s, n |-> ConvertedIn(s)]]
    /\ recount' = [recount EXCEPT ![l] = @ \ {s}]
    /\ UNCHANGED <<sessionVars, conversionCount, transactions, payload, todo, loaded,
                   current, hits, won, loadAnswer, loadFails>>

SetCount(l) ==
    /\ LoadGoto(l, "set", "count")
    /\ conversionCount' = [conversionCount EXCEPT ![count[l].store] = count[l].n]
    /\ UNCHANGED <<sessionVars, transactions, payload, todo, loaded, current, hits, won,
                   recount, count, loadAnswer, loadFails>>

AnswerLoad(l) ==
    /\ recount[l] = {}
    /\ LoadGoto(l, "count", "done")
    /\ loadAnswer' = [loadAnswer EXCEPT ![l] = LoadCounts(l)]
    /\ UNCHANGED <<sessionVars, conversionCount, transactions, payload, todo, loaded,
                   current, hits, won, recount, count, loadFails>>

\* Mutant: nobody rolls the transaction back, its rows stay locked.
AbortLoadOpen(l) ==
    /\ lpc[l] \notin {"idle", "done"}
    /\ lpc' = [lpc EXCEPT ![l] = "done"]
    /\ todo' = [todo EXCEPT ![l] = {}]
    /\ hits' = [hits EXCEPT ![l] = {}]
    /\ recount' = [recount EXCEPT ![l] = {}]
    /\ loadAnswer' = [loadAnswer EXCEPT ![l] = ServerError]
    /\ UNCHANGED <<sessionVars, conversionCount, transactions, payload, current, loaded,
                   won, count>>

\* An exception: the open transaction is rolled back and the loader gets a 500.
\* What was committed before stays.
AbortLoad(l) ==
    /\ lpc[l] \notin {"idle", "done"}
    /\ lpc' = [lpc EXCEPT ![l] = "done"]
    /\ RollbackRows(l)
    /\ loaded' = [loaded EXCEPT ![l] = IF lpc[l] = "insert" THEN {} ELSE @]
    /\ won' = [won EXCEPT ![l] = IF lpc[l] \in {"update", "rows"} THEN {} ELSE @]
    /\ todo' = [todo EXCEPT ![l] = {}]
    /\ hits' = [hits EXCEPT ![l] = {}]
    /\ recount' = [recount EXCEPT ![l] = {}]
    /\ loadAnswer' = [loadAnswer EXCEPT ![l] = ServerError]
    /\ UNCHANGED <<conversionCount, transactions, payload, current, count>>

FailLoad(l) ==
    /\ loadFails < MaxLoadFails
    /\ loadFails' = loadFails + 1
    /\ AbortLoad(l)

\* The clients that load l waits for; the scan may be held up at any row.
LoadBlockers(l) ==
    CASE lpc[l] = "insert" ->
           UNION {TransactionBlockers(l, payload[l][i]) : i \in {k \in todo[l] : FirstTodo(l, k)}}
      [] lpc[l] = "rows" ->
           IF \E v \in hits[l] : Holders(l, v) = {} THEN {}
           ELSE UNION {Holders(l, v) : v \in hits[l]}
      [] OTHER -> {}

LoadsWait == [l \in Loads |-> LoadBlockers(l)]

-----------------------------------------------------------------------------
AdvanceLoad(l) ==
    \/ InsertTransaction(l)
    \/ CommitTransactions(l)
    \/ BeginUpdate(l)
    \/ \E v \in Visitors : ConvertRow(l, v)
    \/ EndUpdate(l)
    \/ CommitConversions(l)
    \/ \E s \in Stores : CountStore(l, s)
    \/ SetCount(l)
    \/ AnswerLoad(l)

LoadsNext ==
    \E l \in Loads :
        \/ LoadNothing(l)
        \/ \E p \in Payloads : ReceiveLoad(l, p)
        \/ AdvanceLoad(l)
        \/ FailLoad(l)

=============================================================================
