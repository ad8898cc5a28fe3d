----------------------------- MODULE EventRules -----------------------------
(***************************************************************************)
(* What app/models.py asks of the fields of an event that depend on each   *)
(* other.  Both ends need it: the API, which validates, and the tracker,   *)
(* which builds events that have to pass.                                  *)
(***************************************************************************)
EXTENDS Integers, Sequences, FiniteSets

CONSTANT NoZone     \* zone_id = null

EventTypes ==
    {"ENTRY", "EXIT", "ZONE_ENTER", "ZONE_EXIT", "ZONE_DWELL",
     "BILLING_QUEUE_JOIN", "BILLING_QUEUE_ABANDON", "REENTRY"}

NoZoneTypes == {"ENTRY", "EXIT", "REENTRY"}
RequireZoneTypes == {"ZONE_ENTER", "ZONE_EXIT", "ZONE_DWELL"}
InstantTypes == {"ENTRY", "EXIT", "REENTRY", "ZONE_ENTER",
                 "BILLING_QUEUE_JOIN", "BILLING_QUEUE_ABANDON"}

ZoneRule(e) ==
    /\ e.type \in NoZoneTypes => e.zone = NoZone
    /\ e.type \in RequireZoneTypes => e.zone # NoZone

\* depth is metadata.queue_depth, 0 when it is absent.
DepthRule(e) == e.type = "BILLING_QUEUE_JOIN" => e.depth >= 1

DwellRule(e) == e.type \in InstantTypes => e.dwell = 0

FieldRules(e) == ZoneRule(e) /\ DepthRule(e) /\ DwellRule(e)

=============================================================================
