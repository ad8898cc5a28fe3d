------------------------------ MODULE EventLog ------------------------------
(***************************************************************************)
(* The event logs outside the API: what scripts/export_event_log.py makes  *)
(* of an event, and what scripts/convert_sample_events.py makes of a line  *)
(* of a sample, which may be one of those.                                 *)
(*                                                                         *)
(* A line is described by what the converter finds in it: a field it does  *)
(* not look for is absent.  parses says whether json.loads, int() and      *)
(* float() can read it, inRange whether the fields that are not modelled   *)
(* are what app/models.py asks for: a confidence in 0..1, a session_seq    *)
(* from 0 on, names of at most 50 characters, a queue_depth that is a      *)
(* number.                                                                 *)
(***************************************************************************)
EXTENDS EventRules

CONSTANTS
    NoId,           \* the line has no event_id, or none that is a UUID v4
    NoVisitor,      \* nothing under visitor_id, id_token or person_id
    NoDepth         \* no queue_depth, neither its own nor the metadata's

ASSUME EventLogAssumption == NoDepth \notin Int

SubmissionType ==
    [t \in EventTypes |->
       CASE t \in {"ENTRY", "REENTRY"} -> "entry"
         [] t = "EXIT" -> "exit"
         [] t \in {"ZONE_ENTER", "ZONE_DWELL"} -> "zone_entered"
         [] t = "ZONE_EXIT" -> "zone_exited"
         [] t = "BILLING_QUEUE_JOIN" -> "queue_completed"
         [] t = "BILLING_QUEUE_ABANDON" -> "queue_abandoned"]

\* The layout of a line of the submission.
LayoutFor(type) ==
    CASE type \in {"entry", "exit"} -> "person"
      [] type \in {"zone_entered", "zone_exited"} -> "zone"
      [] OTHER -> "queue"

\* Persons have an id_token, the others a track_id, and only persons say whether
\* they are of the staff; the time of a queue line is its queue_join_ts, its depth
\* the queue_position_at_join.
ToSubmissionEvent(e) ==
    LET type == SubmissionType[e.type]
        layout == LayoutFor(type)
    IN [type |-> type, id |-> NoId, store |-> e.store,
        vid |-> IF layout = "person" THEN e.vid ELSE NoVisitor,
        ts |-> IF layout = "queue" THEN 0 ELSE e.ts,
        zone |-> IF layout = "person" THEN NoZone ELSE e.zone,
        dwell |-> 0, depth |-> NoDepth,
        staff |-> layout = "person" /\ e.staff, parses |-> TRUE, inRange |-> TRUE]

-----------------------------------------------------------------------------
\* EVENT_ALIASES, as far as the samples differ; other types are made upper case,
\* and a missing one is an entry.
NormalizeEventType(type) ==
    CASE type = "" -> "ENTRY"
      [] type = "entry" -> "ENTRY"
      [] type = "exit" -> "EXIT"
      [] type = "reentry" -> "REENTRY"
      [] type \in {"zone_enter", "zone_entered"} -> "ZONE_ENTER"
      [] type \in {"zone_exit", "zone_exited"} -> "ZONE_EXIT"
      [] type \in {"zone_dwell", "dwell"} -> "ZONE_DWELL"
      [] type \in {"billing_queue_join", "queue_join"} -> "BILLING_QUEUE_JOIN"
      [] type \in {"billing_queue_abandon", "queue_abandon"} -> "BILLING_QUEUE_ABANDON"
      [] OTHER -> type

\* uuid4() is drawn for what the line does not have.
NormalizeEventId(id, fresh) == IF id = NoId THEN fresh ELSE id

\* Where the dwell and the depth that are sent come from.
SentDwell(line, type) == IF type \in InstantTypes THEN 0 ELSE line.dwell
SentDepth(line, type) ==
    IF type = "BILLING_QUEUE_JOIN" /\ line.depth \in {NoDepth, 0} THEN 1 ELSE line.depth

\* The converter checks nothing: of the fields, what the API asks of each by itself.
FieldsInRange(type, dwell, depth, inRange) ==
    /\ type \in EventTypes
    /\ dwell >= 0
    /\ depth = NoDepth \/ depth >= 1
    /\ inRange

\* Mutant: the zone is taken over whatever the type.
ConvertEventInZone(line, fresh, time) ==
    LET type == NormalizeEventType(line.type)
        dwell == SentDwell(line, type)
        depth == SentDepth(line, type)
    IN [id |-> NormalizeEventId(line.id, fresh), store |-> line.store,
        vid |-> IF line.vid = NoVisitor THEN fresh ELSE line.vid,
        type |-> IF type \in EventTypes THEN type ELSE "ENTRY",
        ts |-> IF line.ts = 0 THEN time ELSE line.ts,
        zone |-> line.zone,
        dwell |-> IF dwell < 0 THEN 0 ELSE dwell,
        staff |-> line.staff,
        depth |-> IF depth = NoDepth \/ depth < 1 THEN 0 ELSE depth,
        wellFormed |-> FieldsInRange(type, dwell, depth, line.inRange)]

\* In an event with a field that is out of range the type, the dwell and the depth
\* are of no consequence.
ConvertEvent(line, fresh, time) ==
    LET type == NormalizeEventType(line.type)
        dwell == SentDwell(line, type)
        depth == SentDepth(line, type)
    IN [id |-> NormalizeEventId(line.id, fresh), store |-> line.store,
        vid |-> IF line.vid = NoVisitor THEN fresh ELSE line.vid,
        type |-> IF type \in EventTypes THEN type ELSE "ENTRY",
        ts |-> IF line.ts = 0 THEN time ELSE line.ts,
        zone |-> IF type \in NoZoneTypes THEN NoZone ELSE line.zone,
        dwell |-> IF dwell < 0 THEN 0 ELSE dwell,
        staff |-> line.staff,
        depth |-> IF depth = NoDepth \/ depth < 1 THEN 0 ELSE depth,
        wellFormed |-> FieldsInRange(type, dwell, depth, line.inRange)]

=============================================================================
