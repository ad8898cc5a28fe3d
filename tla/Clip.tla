-------------------------------- MODULE Clip --------------------------------
(***************************************************************************)
(* process_clip (pipeline/detect.py): the frames of one clip of one camera *)
(* drive a registry, a zone engine and a staff classifier of their own.    *)
(* In each frame every detected person is put in a zone, judged and        *)
(* processed, then the tracks seen in the last frame but not in this one   *)
(* are handled as lost; after the last frame, all that are left.           *)
(***************************************************************************)
EXTENDS Staff, ZoneEngine

CONSTANTS
    Camera,         \* the camera of the clip
    Buffer          \* track_buffer of botsort.yaml, in frames

\* The registry hears of a zone only from the zone engine.
ASSUME ClipAssumption ==
    /\ Camera \in Cameras
    /\ Buffer \in Nat
    /\ ZoneAt \in [Points -> Zones \cup {NoZone}]

VARIABLES
    phase,          \* where the loop is
    current,        \* current_track_ids
    previous,       \* prev_track_ids
    lost,           \* tracks still to be handled as lost
    \* BoT-SORT
    lastSeen,       \* the frame in which each track was reported last
    \* History
    entries,        \* ENTRY and REENTRY events by visitor
    exits,          \* EXIT events by visitor
    customers,      \* visitors whose ENTRY said that they are not of the staff
    gone            \* the record of each visitor who left and has not come back

clipVars == <<states, phase, current, previous, lost, lastSeen, entries,
              exits, customers, gone>>

ClipInit ==
    /\ time = 1
    /\ RegistryInit
    /\ StaffInit
    /\ phase = "detect"
    /\ current = {}
    /\ previous = {}
    /\ lost = {}
    /\ lastSeen = [k \in Tracks |-> NoTime]
    /\ entries = [v \in Visitors |-> 0]
    /\ exits = [v \in Visitors |-> 0]
    /\ customers = {}
    /\ gone = [v \in Visitors |-> NoRecord]

Emitted(v, types) == Cardinality({i \in DOMAIN out' : out'[i].vid = v /\ out'[i].type \in types})

\* The emitter gets the events of the call.
Queue ==
    /\ entries' = [v \in Visitors |-> entries[v] + Emitted(v, {"ENTRY", "REENTRY"})]
    /\ exits' = [v \in Visitors |-> exits[v] + Emitted(v, {"EXIT"})]
    /\ customers' = customers \cup
         {out'[i].vid : i \in {j \in DOMAIN out' : out'[j].type = "ENTRY" /\ ~out'[j].staff}}

\* BoT-SORT reports a track id again as long as it has not dropped it.
Reported(k) == lastSeen[k] = NoTime \/ time - lastSeen[k] <= Buffer + 1

\* A detection of the frame, in the order of the boxes: the centre of its box
\* says which zone it is in, its clothes how much it looks like the staff.
Detect(k, look, point) ==
    /\ phase = "detect"
    /\ k \notin current
    /\ Reported(k)
    /\ Update(k, ZoneAt[point], look)
    /\ Process(k, Camera, look, ZoneAt[point], states'[k].staff)
    /\ Queue
    /\ current' = current \cup {k}
    /\ lastSeen' = [lastSeen EXCEPT ![k] = time]
    /\ gone' = [gone EXCEPT ![active'[k].vid] = NoRecord]
    /\ UNCHANGED <<time, phase, previous, lost>>

\* Mutant: the difference of the two sets is taken the wrong way.
EndOfDetectionsSwapped ==
    /\ phase = "detect"
    /\ phase' = "lost"
    /\ lost' = current \ previous
    /\ UNCHANGED <<time, registryVars, states, current, previous, lastSeen, entries, exits, customers, gone>>

EndOfDetections ==
    /\ phase = "detect"
    /\ phase' = "lost"
    /\ lost' = previous \ current
    /\ UNCHANGED <<time, registryVars, states, current, previous, lastSeen, entries, exits, customers, gone>>

\* A lost track, in the frame loop or after it.  What the gallery keeps of the
\* visitor is how he looked when his track began: last_embedding is set once.
Lose(k) ==
    /\ phase \in {"lost", "closing"}
    /\ k \in lost
    /\ HandleLostTrack(k, Camera \in EntryCameras, states[k].staff)
    /\ Queue
    /\ lost' = lost \ {k}
    /\ gone' = [gone EXCEPT ![active[k].vid] = NewRecord(active[k].look, Camera)]
    /\ UNCHANGED <<time, states, phase, current, previous, lastSeen>>

\* Mutant: the clip ends without closing the sessions that are left.
EndOfFrameUnclosed ==
    /\ phase = "lost"
    /\ lost = {}
    /\ previous' = current
    /\ current' = {}
    /\ IF time < LastFrame
       THEN time' = time + 1 /\ phase' = "detect"
       ELSE phase' = "closing" /\ UNCHANGED time
    /\ UNCHANGED <<registryVars, states, lost, lastSeen, entries, exits, customers, gone>>

EndOfFrame ==
    /\ phase = "lost"
    /\ lost = {}
    /\ previous' = current
    /\ current' = {}
    /\ IF time < LastFrame
       THEN /\ time' = time + 1
            /\ phase' = "detect"
            /\ UNCHANGED lost
       ELSE /\ phase' = "closing"
            /\ lost' = {k \in Tracks : active[k] # NoSession}
            /\ UNCHANGED time
    /\ UNCHANGED <<registryVars, states, lastSeen, entries, exits, customers, gone>>

EndOfClip ==
    /\ phase = "closing"
    /\ lost = {}
    /\ phase' = "done"
    /\ UNCHANGED <<time, registryVars, states, current, previous, lost, lastSeen, entries, exits, customers, gone>>

Done == phase = "done" /\ UNCHANGED <<vars, clipVars>>

ClipNext ==
    \/ \E k \in Tracks, look \in Looks, point \in Points : Detect(k, look, point)
    \/ EndOfDetections
    \/ \E k \in Tracks : Lose(k)
    \/ EndOfFrame
    \/ EndOfClip
    \/ Done

ClipSpec == ClipInit /\ [][ClipNext]_<<vars, clipVars>>

-----------------------------------------------------------------------------
\* Properties.

ActiveTracks == {k \in Tracks : active[k] # NoSession}

\* Type correctness of the loop, and what it knows of the registry: the tracks
\* with a session are those of the last frame and of this one.
ClipTypeOK ==
    /\ phase \in {"detect", "lost", "closing", "done"}
    /\ entries \in [Visitors -> Nat] /\ exits \in [Visitors -> Nat]
    /\ lost \subseteq ActiveTracks
    /\ ActiveTracks = CASE phase = "detect" -> previous \cup current
                        [] phase = "lost" -> lost \cup current
                        [] OTHER -> lost

TracksOf(v) == {k \in ActiveTracks : active[k].vid = v}

\* The EXIT events of a visitor match the ENTRY and REENTRY events before them:
\* he is in the store exactly while one track, and no second one, carries his
\* id, however often he is lost, recognised and lost again.
PresenceBalanced == Camera \in EntryCameras =>
    \A v \in Visitors :
        /\ entries[v] - exits[v] = Cardinality(TracksOf(v))
        /\ entries[v] - exits[v] \in {0, 1}

\* When the clip is over, whoever came in has gone out.
AllHaveLeft == phase = "done" =>
    /\ ActiveTracks = {}
    /\ billingCount = 0
    /\ \A v \in Visitors : entries[v] = exits[v]

\* Who left at most 15 minutes ago by the footage, has not come back, and looked
\* like this when his track began.
LookAlikesGone(look) ==
    {v \in Visitors : /\ gone[v] # NoRecord
                      /\ time - gone[v].time <= ReentryTtl
                      /\ <<look, gone[v].look>> \in SamePerson}

\* A new track is given a known id only if it looks like him who has it and has
\* left; and at the entry it is given one if somebody it looks like has left less
\* than 15 minutes ago by the wall clock, too: by that clock _prune forgets
\* (reid.py:105), whatever the age that find_reentry sees.
ReturnsRecognised ==
    [][\A k \in Tracks : active[k] = NoSession /\ active'[k] # NoSession =>
         LET back == LookAlikesGone(active'[k].look) IN
         /\ active'[k].vid \in used => active'[k].vid \in back
         /\ Camera \in EntryCameras /\ (\E v \in back : Wall[time] - gone[v].time < ReentryTtl) =>
              active'[k].vid \in back]_active

\* "Re-entry: same person exits and returns within 15 minutes" (reid.py:7),
\* minutes of the footage: not so when it is older than that.
ReentriesWithinTtl ==
    [][\A k \in Tracks : active[k] = NoSession /\ active'[k] # NoSession =>
         LET back == LookAlikesGone(active'[k].look) IN
         Camera \in EntryCameras /\ (\E v \in back : time - gone[v].time < ReentryTtl) =>
              active'[k].vid \in back]_active

\* "marks likely staff separately so intelligence endpoints can exclude staff"
\* (DESIGN.md:17): whoever is classified as staff was not announced to the API
\* as a customer.
StaffExcluded ==
    \A k \in Tracks : active[k] # NoSession /\ states[k].staff => active[k].vid \notin customers

\* "Each camera in store_layout.json has named zones [...]. For each tracked
\* person, the center point of the bounding box is checked against those
\* polygons" (DESIGN.md:17): a clip reports zones of its own camera.
ZonesOf(cam) == {Layout[i].id : i \in {j \in DOMAIN Layout : Layout[j].cam = cam}}

OwnZonesOnly ==
    \A k \in Tracks : active[k] # NoSession => active[k].zone \in ZonesOf(Camera) \cup {NoZone}

=============================================================================
