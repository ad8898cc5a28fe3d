------------------------------- MODULE Schema -------------------------------
(***************************************************************************)
(* The event a detector or a replay script sends to POST /events/ingest,   *)
(* and the validation of app/models.py.  Identifiers, stores, visitors and *)
(* zones are members of small sets; what the field formats and ranges      *)
(* require of an event (a UUID v4, a zone-aware timestamp, a VIS_ prefix,  *)
(* lengths, a confidence in 0..1) is one Boolean, wellFormed.              *)
(***************************************************************************)
EXTENDS EventRules

CONSTANTS
    Ids,            \* event_id values
    Stores,
    Visitors,
    Zones,
    BillingZones,   \* zones whose id contains BILLING, CHECKOUT or CASH
    Events,         \* the raw events senders may put in a batch
    MaxDepth,       \* bound on queue_depth
    MaxTime         \* bound on the timestamps of events and on the clock

\* dwell is dwell_ms in units of one second.
Event ==
    [id : Ids, store : Stores, vid : Visitors, type : EventTypes,
     ts : 1..MaxTime, zone : Zones \cup {NoZone}, dwell : Nat,
     staff : BOOLEAN, depth : 0..MaxDepth, wellFormed : BOOLEAN]

ASSUME EventAssumption ==
    /\ Events \subseteq Event
    /\ BillingZones \subseteq Zones
    /\ NoZone \notin Zones
    /\ MaxDepth \in Nat
    /\ MaxTime \in Nat \ {0}

\* A sender draws a fresh UUID for every event and repeats it only when it
\* sends that very event again.
ASSUME IdAssumption == \A e, f \in Events : e.id = f.id => e = f

Valid(e) == e.wellFormed /\ FieldRules(e)

=============================================================================
