------------------------------- MODULE Staff -------------------------------
(***************************************************************************)
(* StaffClassifier (pipeline/staff.py): what a track has done since it was *)
(* first seen, and whether that and the colour of its clothes make it one  *)
(* of the staff.  Scores are in tenths, the weighted sum in hundredths.    *)
(***************************************************************************)
EXTENDS Tracker

CONSTANTS
    Uniform,        \* the score of each look's colours: staff hues, in tenths
    MinZonesStaff,  \* 5 zones
    HalfHour,       \* 30 minutes
    StaffDuration   \* 60 minutes

ASSUME StaffAssumption ==
    /\ Uniform \in [Looks -> 0..10]
    /\ MinZonesStaff \in Nat \ {0}
    /\ {HalfHour, StaffDuration} \subseteq Nat \ {0}
    /\ HalfHour <= StaffDuration

VARIABLE states     \* _states, by track: nothing is ever deleted

StaffState == [zones : SUBSET Zones, first : Nat, staff : BOOLEAN]

\* StaffState(), which is_staff takes for a track it has not seen.
Unseen == [zones |-> {}, first |-> NoTime, staff |-> FALSE]

StaffInit == states = [k \in Tracks |-> Unseen]

\* STAFF_THRESHOLD, and the weights of the two signals.
Threshold == 65
MovementWeight == 6
ColorWeight == 4

ZoneScore(s) ==
    LET n == Cardinality(s.zones) IN
    IF n >= MinZonesStaff THEN 10 ELSE (10 * n) \div MinZonesStaff

DurationScore(s) ==
    CASE time - s.first >= StaffDuration -> 10
      [] time - s.first \in HalfHour..(StaffDuration - 1) -> 5
      [] OTHER -> 0

MovementScore(s) ==
    IF ZoneScore(s) >= DurationScore(s) THEN ZoneScore(s) ELSE DurationScore(s)

Score(s, look) == MovementWeight * MovementScore(s) + ColorWeight * Uniform[look]

FirstSeen(k) == IF states[k].first = NoTime THEN [Unseen EXCEPT !.first = time] ELSE states[k]

\* update: who was classified once stays so; the score is that of this frame.
Update(k, zone, look) ==
    LET seen == [FirstSeen(k) EXCEPT !.zones = @ \cup ({zone} \ {NoZone})] IN
    states' = [states EXCEPT ![k] =
                 IF states[k].staff THEN states[k]
                 ELSE [seen EXCEPT !.staff = Score(seen, look) >= Threshold]]

=============================================================================
