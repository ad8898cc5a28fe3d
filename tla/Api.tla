-------------------------------- MODULE Api --------------------------------
(***************************************************************************)
(* The two endpoints that write: event ingestion and POS loading, run by   *)
(* one process on the same sessions table and the same Redis, while the    *)
(* clock goes on.  What each call does is defined in Ingestion and in Pos; *)
(* here they interleave, wait for each other's rows and deadlock.          *)
(***************************************************************************)
EXTENDS Ingestion, Pos

ASSUME ApiAssumption ==
    /\ Clients = Requests \cup Loads
    /\ Requests \cap Loads = {}

apiVars == <<vars, loadVars>>

\* What ingestion has to itself.
ingestionVars == <<stored, requestVars, fails, visitorCount, queueDepth, lastEventTs,
                   dwellSum, dwellCount, shown, sessioned, counted>>

ApiInit == Init /\ LoadsInit

-----------------------------------------------------------------------------
Ingests == IngestNext /\ UNCHANGED loadVars

LoadsPos == LoadsNext /\ UNCHANGED <<ingestionVars, now>>

Tick ==
    /\ now < MaxTime
    /\ now' = now + 1
    /\ UNCHANGED <<sessionVars, conversionCount, ingestionVars, loadVars>>

\* The detector sees requests and loads in one graph.
ClientsWait ==
    [c \in Clients |-> IF c \in Loads THEN LoadBlockers(c) ELSE Blockers(c)]

LoadDeadlock(l) ==
    /\ OnCycle(l, ClientsWait)
    /\ AbortLoad(l)
    /\ UNCHANGED <<loadFails, ingestionVars, now>>

RequestDeadlock(r) ==
    /\ OnCycle(r, ClientsWait)
    /\ Abort(r)
    /\ UNCHANGED <<fails, loadVars>>

ApiResting ==
    /\ \A r \in Requests : pc[r] = "done"
    /\ \A l \in Loads : lpc[l] = "done"
    /\ UNCHANGED apiVars

ApiNext ==
    \/ Ingests
    \/ LoadsPos
    \/ Tick
    \/ \E l \in Loads : LoadDeadlock(l)
    \/ \E r \in Requests : RequestDeadlock(r)
    \/ ApiResting

ApiSpec == ApiInit /\ [][ApiNext]_apiVars

\* The event loop runs a coroutine whose await is over, PostgreSQL wakes who
\* waits for a lock that was released, and breaks deadlocks.  The clock need not
\* advance.
ApiFairness ==
    /\ \A r \in Requests :
         /\ WF_apiVars(Advance(r) /\ UNCHANGED loadVars)
         /\ WF_apiVars(RequestDeadlock(r))
    /\ \A l \in Loads :
         /\ WF_apiVars(AdvanceLoad(l) /\ UNCHANGED <<ingestionVars, now>>)
         /\ WF_apiVars(LoadDeadlock(l))

-----------------------------------------------------------------------------
\* Properties.

LoadsTypeOK ==
    /\ transactions \subseteq Transactions
    /\ lpc \in [Loads -> LoadPCs]
    /\ payload \in [Loads -> Seq(Transactions)]
    /\ todo \in [Loads -> SUBSET Nat]
    /\ loaded \in [Loads -> SUBSET Nat]
    /\ \A l \in Loads :
         /\ todo[l] \subseteq DOMAIN payload[l]
         /\ loaded[l] \subseteq DOMAIN payload[l]
         /\ lpc[l] = "rows" => current[l] \in DOMAIN payload[l]
         /\ lpc[l] = "rows" => txStart[l] # NoTime
    /\ current \in [Loads -> Nat]
    /\ hits \in [Loads -> SUBSET Visitors]
    /\ won \in [Loads -> SUBSET Visitors]
    /\ recount \in [Loads -> SUBSET Stores]
    /\ count \in [Loads -> Count]
    /\ loadAnswer \in [Loads -> LoadAnswer \cup {NoAnswer, ServerError}]
    /\ loadFails \in 0..MaxLoadFails

\* Type correctness of the whole: Ingestion's, and that of the loads, whose
\* loops visit transactions that exist and whose UPDATEs run in a transaction.
ApiTypeOK == TypeOK /\ LoadsTypeOK

\* When a session becomes converted, it is at that moment a customer's session
\* that has reached billing and whose last update is in the window before some
\* transaction that is in the table, though the row may have changed between
\* the start of the UPDATE and the moment it got the row's lock.
ConversionsJustified ==
    [][\A v \in Visitors :
         LET row == sessions[v] IN
         /\ sessions'[v] # NoRow /\ sessions'[v].converted
         /\ row = NoRow \/ ~row.converted
         => /\ row # NoRow /\ row.billing /\ ~row.staff
            /\ \E t \in transactions :
                 /\ t.store = row.store
                 /\ row.updated \in (t.ts - Window)..t.ts]_sessions

\* The loads that have committed their conversions.
Converting == {l \in Loads : lpc[l] \in {"count", "set", "done"}}

\* sessions_converted never counts a session twice, in one load or in two, and
\* every converted session is counted by a load: a transaction that is posted
\* again, by a retry or concurrently, converts nothing it had converted.
ConversionsReconcile ==
    /\ \A l, m \in Converting : l # m => won[l] \cap won[m] = {}
    /\ UNION {won[l] : l \in Converting}
         = {v \in Visitors : sessions[v] # NoRow /\ sessions[v].converted}

\* A transaction is loaded by one load only, and once.
LoadedOnce ==
    \A l, m \in Loads : \A i \in loaded[l], j \in loaded[m] :
        payload[l][i] = payload[m][j] => <<l, i>> = <<m, j>>

\* Redis never shows more conversions than there are converted sessions, at
\* any moment between the commit, the recounts and their writes.
ConversionCountNotAhead ==
    \A s \in Stores : conversionCount[s] <=
        Cardinality({v \in Visitors : /\ sessions[v] # NoRow
                                      /\ sessions[v].store = s
                                      /\ sessions[v].converted})

\* Requests and loads that wait for each other's rows are all answered.
EveryCallAnswered ==
    /\ \A r \in Requests : (pc[r] # "idle") ~> (pc[r] = "done")
    /\ \A l \in Loads : (lpc[l] # "idle") ~> (lpc[l] = "done")

\* "A session counts as converted when it reached billing in the five minutes
\* before a transaction timestamp" (DESIGN.md:43). The UPDATE looks at
\* last_updated, which every later event of the visitor moves on.
BillingInWindow ==
    \A v \in Visitors : sessions[v] # NoRow /\ sessions[v].converted =>
        \E e \in sessioned, t \in transactions :
            /\ e.vid = v
            /\ IsJoin(e) \/ (IsZoneVisit(e) /\ e.zone \in BillingZones)
            /\ t.store = sessions[v].store
            /\ e.ts \in (t.ts - Window)..t.ts

=============================================================================
