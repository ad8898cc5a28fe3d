------------------------------ MODULE Tracker ------------------------------
(***************************************************************************)
(* GlobalSessionRegistry (pipeline/tracker.py) and its ReIDGallery         *)
(* (pipeline/reid.py): a track of BoT-SORT becomes a visitor's session,    *)
(* the session's zones become events, and a track that is lost leaves a    *)
(* record by which the visitor is recognised when he comes back.           *)
(*                                                                         *)
(* An embedding is one of Looks; which looks are similar enough is given.  *)
(* Time is the time stamp of the frame, in seconds or multiples of them.   *)
(***************************************************************************)
EXTENDS EventRules

CONSTANTS
    Tracks,         \* track ids of BoT-SORT
    Visitors,       \* visitor ids, VIS_ and six hexadecimal digits: that two of
                    \* 16 million are drawn alike is left out
    Cameras,
    EntryCameras,   \* those of type entry_exit
    Zones,
    BillingNamed,   \* zones whose id contains "billing"
    Looks,          \* embeddings; that of an empty crop is similar to none
    NoLook,         \* last_embedding = None
    SamePerson,     \* pairs of looks of similarity 0.82 and more
    SameBody,       \* pairs of looks of similarity 0.78 and more
    NoSession,
    NoRecord,
    ReentryTtl,     \* 900 seconds
    CrossCamTtl,    \* 30 seconds
    DwellEvery,     \* 30 seconds
    LastFrame,      \* bound on the time
    Wall            \* the wall clock when the frame of a time is processed: later
                    \* in recorded footage, slower when its speed is raised

VARIABLES
    time,           \* of the frame being processed
    active,         \* _active: the session of each track
    exited,         \* the gallery's records of exits, by visitor
    present,        \* the gallery's records of appearances, by visitor
    billingCount,   \* _billing_count
    used,           \* visitor ids given out
    out             \* the events the last call returned

registryVars == <<active, exited, present, billingCount, used, out>>

NoTime == 0

Session ==
    [vid : Visitors, cam : Cameras, zone : Zones \cup {NoZone}, since : Nat,
     dwelt : Nat, billing : BOOLEAN, look : Looks \cup {NoLook}]

Record == [look : Looks \cup {NoLook}, cam : Cameras, time : Nat]

ASSUME TrackerAssumption ==
    /\ BillingNamed \subseteq Zones
    /\ NoZone \notin Zones
    /\ EntryCameras \subseteq Cameras
    /\ NoLook \notin Looks
    /\ SamePerson \subseteq Looks \X Looks
    /\ SameBody \subseteq Looks \X Looks
    /\ NoSession \notin Session
    /\ NoRecord \notin Record
    /\ {ReentryTtl, CrossCamTtl} \subseteq Nat
    /\ {DwellEvery, LastFrame} \subseteq Nat \ {0}
    /\ Wall \in [1..LastFrame -> Int]
    /\ \A t \in 1..LastFrame : \A u \in 1..t : Wall[u] <= Wall[t]
    /\ IsFiniteSet(Tracks)

RegistryInit ==
    /\ active = [k \in Tracks |-> NoSession]
    /\ exited = [v \in Visitors |-> NoRecord]
    /\ present = [v \in Visitors |-> NoRecord]
    /\ billingCount = 0
    /\ used = {}
    /\ out = << >>

-----------------------------------------------------------------------------
\* ReIDGallery.

NewRecord(look, cam) == [look |-> look, cam |-> cam, time |-> time]

\* _prune looks at the wall clock.
Pruned(gallery, ttl) ==
    [v \in Visitors |-> IF gallery[v] # NoRecord /\ Wall[time] - gallery[v].time < ttl
                        THEN gallery[v] ELSE NoRecord]

Fresh(record, ttl) == record # NoRecord /\ time - record.time <= ttl

\* Whom find_cross_cam_dup may return: the first match in the dictionary.
Duplicates(look, cam) ==
    {v \in Visitors : /\ Fresh(present[v], CrossCamTtl)
                      /\ present[v].cam # cam
                      /\ <<look, present[v].look>> \in SameBody}

\* Mutant: find_reentry takes the time to live of the other dictionary.
ReturningSoon(look) ==
    {v \in Visitors : /\ Fresh(exited[v], CrossCamTtl)
                      /\ <<look, exited[v].look>> \in SamePerson}

\* Whom find_reentry may return: the most similar of the exits young enough.
Returning(look) ==
    {v \in Visitors : /\ Fresh(exited[v], ReentryTtl)
                      /\ <<look, exited[v].look>> \in SamePerson}

-----------------------------------------------------------------------------
\* Events, as build_event builds them.

Built(type, vid, zone, dwell, staff, depth) ==
    [type |-> type, vid |-> vid, zone |-> zone, ts |-> time, dwell |-> dwell,
     staff |-> staff, depth |-> depth]

Instant(type, vid, zone, staff) == Built(type, vid, zone, 0, staff, 0)

Opened(vid, cam, look) ==
    [vid |-> vid, cam |-> cam, zone |-> NoZone, since |-> NoTime,
     dwelt |-> NoTime, billing |-> FALSE, look |-> look]

InBilling(zone) == zone \in BillingNamed

\* What leaving the last zone and entering the next do to the count of people
\* in billing.
CountAfterExit(s) ==
    IF InBilling(s.zone) /\ s.billing /\ billingCount > 0
    THEN billingCount - 1 ELSE billingCount

StillBilling(s) == s.billing /\ ~InBilling(s.zone)

EntersBilling(s, zone) == InBilling(zone) /\ ~StillBilling(s)

CountAfterMove(s, zone) ==
    CountAfterExit(s) + (IF EntersBilling(s, zone) THEN 1 ELSE 0)

\* Mutant: the first in billing joins the queue, too.
MoveEventsOfFirst(s, zone, staff) ==
    IF EntersBilling(s, zone) /\ ~staff
    THEN << Built("BILLING_QUEUE_JOIN", s.vid, zone, 0, staff, CountAfterMove(s, zone) - 1) >>
    ELSE << >>

\* The events of a change of zone. Entering billing when somebody is there
\* already joins the queue, unless it is staff who enters.
MoveEvents(s, zone, staff) ==
    (IF s.zone = NoZone THEN << >>
     ELSE << Built("ZONE_EXIT", s.vid, s.zone,
                   IF s.since = NoTime THEN 0 ELSE time - s.since, staff, 0) >>)
    \o
    (IF zone = NoZone THEN << >>
     ELSE << Instant("ZONE_ENTER", s.vid, zone, staff) >>)
    \o
    (IF EntersBilling(s, zone) /\ CountAfterMove(s, zone) > 1 /\ ~staff
     THEN << Built("BILLING_QUEUE_JOIN", s.vid, zone, 0, staff,
                   CountAfterMove(s, zone) - 1) >>
     ELSE << >>)

Moved(s, zone) ==
    [s EXCEPT !.zone = zone, !.since = time, !.dwelt = NoTime,
              !.billing = StillBilling(s) \/ InBilling(zone)]

DwellDue(s) ==
    /\ s.zone # NoZone /\ s.since # NoTime
    /\ time - s.since >= DwellEvery
    /\ s.dwelt # NoTime => time - s.dwelt >= DwellEvery

\* The rest of process, for a track that has session s.
TrackZone(k, s, zone, staff, before) ==
    IF zone # s.zone
    THEN /\ active' = [active EXCEPT ![k] = Moved(s, zone)]
         /\ billingCount' = CountAfterMove(s, zone)
         /\ out' = before \o MoveEvents(s, zone, staff)
    ELSE /\ active' = [active EXCEPT ![k] = IF DwellDue(s) THEN [s EXCEPT !.dwelt = time] ELSE s]
         /\ out' = before \o
              (IF DwellDue(s)
               THEN << Built("ZONE_DWELL", s.vid, zone, time - s.since, staff, 0) >>
               ELSE << >>)
         /\ UNCHANGED billingCount

-----------------------------------------------------------------------------
\* process, by what it finds out about the track.

\* The track is known.
Follow(k, zone, staff) ==
    /\ active[k] # NoSession
    /\ TrackZone(k, active[k], zone, staff, << >>)
    /\ UNCHANGED <<exited, present, used>>

\* Another camera has just seen this person: link to his id, no event.
Link(k, cam, look, v) ==
    /\ active[k] = NoSession
    /\ v \in Duplicates(look, cam)
    /\ active' = [active EXCEPT ![k] = Opened(v, cam, NoLook)]
    /\ out' = << >>
    /\ UNCHANGED <<exited, present, billingCount, used>>

\* add_active, then what follows.
Open(k, v, cam, look, zone, staff, before) ==
    /\ present' = Pruned([present EXCEPT ![v] = NewRecord(look, cam)], CrossCamTtl)
    /\ TrackZone(k, Opened(v, cam, look), zone, staff, before)

\* Mutant: find_reentry does not forget the exit.
ReturnUnforgotten(k, cam, look, zone, staff, v) ==
    /\ active[k] = NoSession
    /\ Duplicates(look, cam) = {}
    /\ cam \in EntryCameras
    /\ v \in Returning(look)
    /\ Open(k, v, cam, look, zone, staff, << Instant("REENTRY", v, NoZone, staff) >>)
    /\ exited' = Pruned(exited, ReentryTtl)
    /\ UNCHANGED used

\* He is known to the entry camera as somebody who left: find_reentry forgets
\* the exit.
Return(k, cam, look, zone, staff, v) ==
    /\ active[k] = NoSession
    /\ Duplicates(look, cam) = {}
    /\ cam \in EntryCameras
    /\ v \in Returning(look)
    /\ Open(k, v, cam, look, zone, staff, << Instant("REENTRY", v, NoZone, staff) >>)
    /\ exited' = Pruned([exited EXCEPT ![v] = NoRecord], ReentryTtl)
    /\ UNCHANGED used

\* He is new; only the entry camera says so.
Enter(k, cam, look, zone, staff, v) ==
    /\ active[k] = NoSession
    /\ Duplicates(look, cam) = {}
    /\ cam \in EntryCameras => Returning(look) = {}
    /\ v \in Visitors \ used
    /\ used' = used \cup {v}
    /\ Open(k, v, cam, look, zone, staff,
            IF cam \in EntryCameras THEN << Instant("ENTRY", v, NoZone, staff) >> ELSE << >>)
    /\ exited' = Pruned(exited, ReentryTtl)

Process(k, cam, look, zone, staff) ==
    \/ Follow(k, zone, staff)
    \/ \E v \in Visitors :
         \/ Link(k, cam, look, v)
         \/ Return(k, cam, look, zone, staff, v)
         \/ Enter(k, cam, look, zone, staff, v)

\* Mutants: the count of people in billing is left alone, or decremented for
\* every lost track.
ForgetTrack(k) ==
    /\ active[k] # NoSession
    /\ active' = [active EXCEPT ![k] = NoSession]
    /\ out' = << >>
    /\ UNCHANGED <<exited, present, used>>

LeaveCountAlone(k, entry, staff) == ForgetTrack(k) /\ UNCHANGED billingCount

AlwaysDecrement(k, entry, staff) == ForgetTrack(k) /\ billingCount' = billingCount - 1

\* handle_lost_track.
HandleLostTrack(k, entry, staff) ==
    LET s == active[k] IN
    /\ s # NoSession
    /\ active' = [active EXCEPT ![k] = NoSession]
    /\ IF s.look = NoLook
       THEN UNCHANGED <<exited, present>>
       ELSE /\ exited' = Pruned([exited EXCEPT ![s.vid] = NewRecord(s.look, s.cam)], ReentryTtl)
            /\ present' = Pruned(present, CrossCamTtl)
    /\ billingCount' = IF s.billing /\ billingCount > 0 THEN billingCount - 1 ELSE billingCount
    /\ out' = IF entry THEN << Instant("EXIT", s.vid, NoZone, staff) >> ELSE << >>
    /\ UNCHANGED used

-----------------------------------------------------------------------------
\* The registry in the hands of any caller that gives it frames in order.

vars == <<time, registryVars>>

Init == time = 1 /\ RegistryInit

NextFrame ==
    /\ time < LastFrame
    /\ time' = time + 1
    /\ UNCHANGED registryVars

Calls ==
    /\ \E k \in Tracks, staff \in BOOLEAN :
         \/ \E cam \in Cameras, look \in Looks, zone \in Zones \cup {NoZone} :
              Process(k, cam, look, zone, staff)
         \/ \E entry \in BOOLEAN : HandleLostTrack(k, entry, staff)
    /\ UNCHANGED time

Next == NextFrame \/ Calls

Spec == Init /\ [][Next]_vars

-----------------------------------------------------------------------------
\* Properties.

OutEvent ==
    [type : EventTypes, vid : Visitors, zone : Zones \cup {NoZone}, ts : Nat,
     dwell : Nat, staff : BOOLEAN, depth : Nat]

\* Type correctness: times lie in the past, visitors in use were given out.
TypeOK ==
    /\ time \in 1..LastFrame
    /\ active \in [Tracks -> Session \cup {NoSession}]
    /\ exited \in [Visitors -> Record \cup {NoRecord}]
    /\ present \in [Visitors -> Record \cup {NoRecord}]
    /\ billingCount \in Nat
    /\ used \subseteq Visitors
    /\ out \in Seq(OutEvent)
    /\ \A k \in Tracks : active[k] # NoSession =>
         active[k].since <= time /\ active[k].vid \in used
    /\ \A v \in Visitors \ used : exited[v] = NoRecord /\ present[v] = NoRecord

InBillingNow == {k \in Tracks : active[k] # NoSession /\ active[k].billing}

\* _billing_count is the number of tracks whose last zone is a billing zone,
\* however tracks change zones, get lost in one or are linked across cameras:
\* what the queue depth of every BILLING_QUEUE_JOIN is computed from.
BillingCountExact ==
    /\ billingCount = Cardinality(InBillingNow)
    /\ \A k \in Tracks : active[k] # NoSession =>
         (active[k].billing <=> InBilling(active[k].zone))

\* Every event built passes the validation of the API, and a queue it reports
\* is no longer than the number of other people in billing.
EventsWellFormed ==
    \A i \in DOMAIN out :
        /\ FieldRules(out[i])
        /\ out[i].depth <= billingCount - (IF out[i].depth > 0 THEN 1 ELSE 0)

=============================================================================
