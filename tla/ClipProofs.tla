----------------------------- MODULE ClipProofs -----------------------------
(***************************************************************************)
(* Theorems about Clip, for every layout, every number of tracks, visitors *)
(* and frames, and every similarity of looks: the frame loop is one of the *)
(* callers that TrackerProofs speaks of, it handles every track it loses   *)
(* once, and what it tells the API of a visitor's presence adds up.        *)
(***************************************************************************)
EXTENDS Clip, TrackerProofs

-----------------------------------------------------------------------------
\* The staff classifier.

\* A track not seen yet has no history.
StaffTypes ==
    /\ states \in [Tracks -> StaffState]
    /\ \A k \in Tracks : states[k].first = NoTime => states[k] = Unseen

\* update changes the state of its track only, which has been seen from then on.
LEMMA UpdateKeeps ==
    ASSUME StaffTypes, time \in Nat \ {0}, NEW k \in Tracks,
           NEW zone \in Zones \cup {NoZone}, NEW look, Update(k, zone, look)
    PROVE  /\ StaffTypes'
           /\ states'[k].staff \in BOOLEAN
           /\ \A j \in Tracks \ {k} : states'[j] = states[j]
<1> DEFINE seen == [FirstSeen(k) EXCEPT !.zones = @ \cup ({zone} \ {NoZone})]
           judged == [seen EXCEPT !.staff = Score(seen, look) >= Threshold]
           next == IF states[k].staff THEN states[k] ELSE judged
<1>1. states' = [states EXCEPT ![k] = next]
  BY Zenon DEF Update
<1>2. Unseen \in StaffState
  BY DEF Unseen, StaffState, NoTime
<1>3. states[k] \in StaffState
  BY DEF StaffTypes
<1>4. FirstSeen(k) \in StaffState /\ FirstSeen(k).first # NoTime
  BY <1>2, <1>3 DEF FirstSeen, StaffState, NoTime, Unseen
<1>5. seen \in StaffState /\ seen.first # NoTime
  BY <1>4 DEF StaffState
<1>6. (Score(seen, look) >= Threshold) \in BOOLEAN
  OBVIOUS
<1>7. judged \in StaffState /\ judged.first # NoTime
  <2> DEFINE b == Score(seen, look) >= Threshold
  <2>1. b \in BOOLEAN /\ judged = [seen EXCEPT !.staff = b]
    BY <1>6
  <2> HIDE DEF b, seen, judged
  <2> QED
    BY <1>5, <2>1 DEF StaffState
<1>8. next \in StaffState /\ (next.first = NoTime => next = Unseen)
  <2> HIDE DEF judged
  <2> QED
    BY <1>3, <1>7 DEF StaffTypes
<1> HIDE DEF next
<1>9. \A j \in Tracks : states'[j] = IF j = k THEN next ELSE states[j]
  BY <1>1 DEF StaffTypes
<1> QED
  BY <1>1, <1>8, <1>9 DEF StaffTypes, StaffState

-----------------------------------------------------------------------------
\* The loop is a caller of the registry.

\* What the loop needs of its own state to make calls that Tracker allows.
Judgements == time \in Nat \ {0} /\ StaffTypes

LEMMA JudgementsStart == ClipInit => Judgements
  BY DEF ClipInit, Judgements, StaffTypes, StaffInit, StaffState, Unseen, NoTime

\* A detection is a call of process, a lost track one of handle_lost_track, the
\* end of a frame the next one or nothing.
LEMMA ClipStep ==
    ASSUME Judgements, [ClipNext]_<<vars, clipVars>>
    PROVE  Judgements' /\ [Next]_vars
<1>1. CASE \E k \in Tracks, look \in Looks, point \in Points : Detect(k, look, point)
  <2>1. PICK k \in Tracks, look \in Looks, point \in Points : Detect(k, look, point)
    BY <1>1
  <2> DEFINE zone == ZoneAt[point]
             staff == states'[k].staff
  <2>2. /\ Update(k, zone, look)
        /\ Process(k, Camera, look, zone, staff)
        /\ UNCHANGED time
    BY <2>1 DEF Detect
  <2>3. zone \in Zones \cup {NoZone} /\ Camera \in Cameras
    BY ClipAssumption
  <2>4. StaffTypes' /\ staff \in BOOLEAN
    BY <2>2, <2>3, UpdateKeeps DEF Judgements
  <2> HIDE DEF zone, staff
  <2>5. Calls
    BY <2>2, <2>3, <2>4, Zenon DEF Calls
  <2> QED
    BY <2>2, <2>4, <2>5 DEF Judgements, Next
<1>2. CASE \E k \in Tracks : Lose(k)
  <2>1. PICK k \in Tracks : Lose(k)
    BY <1>2
  <2> DEFINE entry == Camera \in EntryCameras
             staff == states[k].staff
  <2>2. /\ HandleLostTrack(k, entry, staff)
        /\ UNCHANGED <<time, states>>
    BY <2>1 DEF Lose
  <2>3. entry \in BOOLEAN /\ staff \in BOOLEAN
    BY DEF Judgements, StaffTypes, StaffState
  <2> HIDE DEF entry, staff
  <2>4. Calls
    BY <2>2, <2>3, Zenon DEF Calls
  <2> QED
    BY <2>2, <2>4 DEF Judgements, StaffTypes, Next
<1>3. CASE EndOfFrame
  <2>1. UNCHANGED <<registryVars, states>>
    BY <1>3 DEF EndOfFrame
  <2>2. NextFrame \/ UNCHANGED time
    BY <1>3 DEF EndOfFrame, NextFrame
  <2>3. time' \in Nat \ {0}
    BY <2>2 DEF Judgements, NextFrame
  <2> QED
    BY <2>1, <2>2, <2>3 DEF Judgements, StaffTypes, Next, vars
<1>4. CASE EndOfDetections \/ EndOfClip \/ Done \/ UNCHANGED <<vars, clipVars>>
  <2>1. UNCHANGED <<vars, states>>
    BY <1>4 DEF EndOfDetections, EndOfClip, Done, vars, clipVars
  <2> QED
    BY <2>1 DEF Judgements, StaffTypes, vars
<1> QED
  BY <1>1, <1>2, <1>3, <1>4 DEF ClipNext

\* process_clip uses the registry as Tracker says that it is used: what is
\* proved of the registry for any caller holds of the registry of a clip.
THEOREM ClipDrivesRegistry == ClipSpec => Spec
<1>1. ClipInit => Init
  BY DEF ClipInit, Init
<1>2. Judgements /\ [ClipNext]_<<vars, clipVars>> => Judgements' /\ [Next]_vars
  BY ClipStep
<1> QED
  BY JudgementsStart, <1>1, <1>2, PTL DEF ClipSpec, Spec

LEMMA ClipRegistry == ClipSpec => [](Registry /\ Judgements)
<1>1. Judgements /\ [ClipNext]_<<vars, clipVars>> => Judgements'
  BY ClipStep
<1> QED
  BY ClipDrivesRegistry, JudgementsStart, RegistryStart, RegistryStep, <1>1, PTL
     DEF ClipSpec, Spec

-----------------------------------------------------------------------------
\* The events of a call.

\* Those of a track in its zone: none of them says that somebody came or left.
ZoneEvent(staff) ==
    [type : {"ZONE_ENTER", "ZONE_EXIT", "ZONE_DWELL", "BILLING_QUEUE_JOIN"},
     vid : Visitors, zone : Zones \cup {NoZone}, ts : Nat, dwell : Int,
     staff : {staff}, depth : Int]

LEMMA BuiltInZone ==
    ASSUME time \in Nat, NEW vid \in Visitors, NEW zone \in Zones \cup {NoZone},
           NEW type \in {"ZONE_ENTER", "ZONE_EXIT", "ZONE_DWELL", "BILLING_QUEUE_JOIN"},
           NEW dwell \in Int, NEW depth \in Int, NEW staff
    PROVE  Built(type, vid, zone, dwell, staff, depth) \in ZoneEvent(staff)
  BY DEF Built, ZoneEvent

\* At most one of them.
LEMMA OneOrNone ==
    ASSUME NEW S, NEW e \in S, NEW b \in BOOLEAN
    PROVE  (IF b THEN << e >> ELSE << >>) \in Seq(S) /\ (IF b THEN << >> ELSE << e >>) \in Seq(S)
  OBVIOUS

\* What a track in its zone leaves of its session, and the events it adds.
LEMMA TrackZoneSays ==
    ASSUME Registry, NEW k \in Tracks, NEW s \in Session,
           NEW zone \in Zones \cup {NoZone}, NEW staff, NEW before,
           TrackZone(k, s, zone, staff, before)
    PROVE  /\ \E rest \in Seq(ZoneEvent(staff)) : out' = before \o rest
           /\ \A j \in Tracks \ {k} : active'[j] = active[j]
           /\ active'[k] # NoSession
           /\ active'[k].vid = s.vid /\ active'[k].cam = s.cam
           /\ active'[k].look = s.look
<1>1. /\ time \in Nat /\ billingCount \in Nat
      /\ active \in [Tracks -> Session \cup {NoSession}]
  BY DEF Registry, TypeOK
<1>2. /\ s.vid \in Visitors /\ s.zone \in Zones \cup {NoZone} /\ s.since \in Nat
  BY DEF Session
<1>3. CASE zone # s.zone
  <2> DEFINE n == CountAfterMove(s, zone)
             left == IF s.zone = NoZone THEN << >>
                     ELSE << Built("ZONE_EXIT", s.vid, s.zone,
                                   IF s.since = NoTime THEN 0 ELSE time - s.since, staff, 0) >>
             entered == IF zone = NoZone THEN << >>
                        ELSE << Instant("ZONE_ENTER", s.vid, zone, staff) >>
             joined == IF EntersBilling(s, zone) /\ n > 1 /\ ~staff
                       THEN << Built("BILLING_QUEUE_JOIN", s.vid, zone, 0, staff, n - 1) >>
                       ELSE << >>
  <2>1. n \in Int
    BY <1>1 DEF CountAfterMove, CountAfterExit
  <2>2. (IF s.since = NoTime THEN 0 ELSE time - s.since) \in Int
    BY <1>1, <1>2 DEF NoTime
  <2> HIDE DEF n
  <2>3. left \in Seq(ZoneEvent(staff))
    <3> DEFINE e == Built("ZONE_EXIT", s.vid, s.zone,
                          IF s.since = NoTime THEN 0 ELSE time - s.since, staff, 0)
               b == s.zone = NoZone
    <3>1. e \in ZoneEvent(staff)
      <4> DEFINE d == IF s.since = NoTime THEN 0 ELSE time - s.since
      <4>1. d \in Int
        BY <2>2
      <4> HIDE DEF d
      <4>2. Built("ZONE_EXIT", s.vid, s.zone, d, staff, 0) \in ZoneEvent(staff)
        BY <1>1, <1>2, <4>1 DEF Built, ZoneEvent
      <4> QED
        BY <4>2 DEF d
    <3>2. b \in BOOLEAN /\ left = IF b THEN << >> ELSE << e >>
      OBVIOUS
    <3> HIDE DEF e, b, left
    <3> QED
      BY <3>1, <3>2, OneOrNone
  <2>4. entered \in Seq(ZoneEvent(staff))
    <3> DEFINE e == Instant("ZONE_ENTER", s.vid, zone, staff)
               b == zone = NoZone
    <3>1. e \in ZoneEvent(staff)
      BY <1>1, <1>2, BuiltInZone DEF Instant
    <3>2. b \in BOOLEAN /\ entered = IF b THEN << >> ELSE << e >>
      OBVIOUS
    <3> HIDE DEF e, b, entered
    <3> QED
      BY <3>1, <3>2, OneOrNone
  <2>5. joined \in Seq(ZoneEvent(staff))
    <3> DEFINE e == Built("BILLING_QUEUE_JOIN", s.vid, zone, 0, staff, n - 1)
               b == EntersBilling(s, zone) /\ n > 1 /\ ~staff
    <3>1. e \in ZoneEvent(staff)
      <4> DEFINE d == n - 1
      <4>1. d \in Int
        BY <2>1
      <4> HIDE DEF d
      <4>2. Built("BILLING_QUEUE_JOIN", s.vid, zone, 0, staff, d) \in ZoneEvent(staff)
        BY <1>1, <1>2, <4>1 DEF Built, ZoneEvent
      <4> QED
        BY <4>2 DEF d
    <3>2. b \in BOOLEAN /\ joined = IF b THEN << e >> ELSE << >>
      OBVIOUS
    <3> HIDE DEF e, b, joined
    <3> QED
      BY <3>1, <3>2, OneOrNone
  <2>6. MoveEvents(s, zone, staff) = left \o entered \o joined
    BY Zenon DEF MoveEvents, n
  <2> HIDE DEF left, entered, joined
  <2>7. left \o entered \o joined \in Seq(ZoneEvent(staff))
    BY <2>3, <2>4, <2>5, ConcatProperties
  <2>8. /\ active' = [active EXCEPT ![k] = Moved(s, zone)]
        /\ out' = before \o MoveEvents(s, zone, staff)
    BY <1>3, Zenon DEF TrackZone
  <2>9. /\ Moved(s, zone).vid = s.vid /\ Moved(s, zone).cam = s.cam
        /\ Moved(s, zone).look = s.look
    BY DEF Moved, Session
  <2>10. Moved(s, zone) \in Session
    <3>1. (StillBilling(s) \/ InBilling(zone)) \in BOOLEAN
      OBVIOUS
    <3> QED
      BY <1>1, <3>1 DEF Moved, Session, NoTime
  <2> QED
    BY <1>1, <2>6, <2>7, <2>8, <2>9, <2>10, TrackerAssumption
<1>4. CASE zone = s.zone
  <2> DEFINE t == IF DwellDue(s) THEN [s EXCEPT !.dwelt = time] ELSE s
             dwell == IF DwellDue(s)
                      THEN << Built("ZONE_DWELL", s.vid, zone, time - s.since, staff, 0) >>
                      ELSE << >>
  <2>1. /\ active' = [active EXCEPT ![k] = t]
        /\ out' = before \o dwell
    BY <1>4 DEF TrackZone
  <2>2. t \in Session /\ t.vid = s.vid /\ t.cam = s.cam /\ t.look = s.look
    BY <1>1 DEF Session
  <2>3. dwell \in Seq(ZoneEvent(staff))
    <3> DEFINE e == Built("ZONE_DWELL", s.vid, zone, time - s.since, staff, 0)
               b == DwellDue(s)
    <3>1. e \in ZoneEvent(staff)
      BY <1>1, <1>2, BuiltInZone
    <3>2. b \in BOOLEAN /\ dwell = IF b THEN << e >> ELSE << >>
      BY DEF DwellDue
    <3> HIDE DEF e, b, dwell
    <3> QED
      BY <3>1, <3>2, OneOrNone
  <2> HIDE DEF t, dwell
  <2> QED
    BY <1>1, <2>1, <2>2, <2>3, TrackerAssumption
<1> QED
  BY <1>3, <1>4

\* What Queue counts when at most the first event says that somebody came or left.
LEMMA EmittedOne ==
    ASSUME NEW v, NEW types, 1 \in DOMAIN out',
           \A i \in DOMAIN out' : i # 1 => out'[i].type \notin types
    PROVE  Emitted(v, types) =
             IF out'[1].vid = v /\ out'[1].type \in types THEN 1 ELSE 0
<1> DEFINE S == {i \in DOMAIN out' : out'[i].vid = v /\ out'[i].type \in types}
<1>1. S = IF out'[1].vid = v /\ out'[1].type \in types THEN {1} ELSE {}
  OBVIOUS
<1>2. Cardinality({1}) = 1 /\ Cardinality({}) = 0
  BY FS_Singleton, FS_EmptySet
<1> QED
  BY <1>1, <1>2 DEF Emitted

LEMMA EmittedNone ==
    ASSUME NEW v, NEW types, \A i \in DOMAIN out' : out'[i].type \notin types
    PROVE  Emitted(v, types) = 0
<1>1. {i \in DOMAIN out' : out'[i].vid = v /\ out'[i].type \in types} = {}
  OBVIOUS
<1> QED
  BY <1>1, FS_EmptySet DEF Emitted

-----------------------------------------------------------------------------
\* What a detection and a lost track do to the loop's state.

\* One camera means that nobody was just seen by another one, and that everybody
\* in the registry has been seen, not linked.
OneCamera ==
    /\ \A k \in ActiveTracks : active[k].cam = Camera /\ active[k].look # NoLook
    /\ \A v \in Visitors : present[v] # NoRecord => present[v].cam = Camera

Counters == entries \in [Visitors -> Nat] /\ exits \in [Visitors -> Nat]

LEMMA NoDuplicates ==
    ASSUME OneCamera, NEW look
    PROVE  Duplicates(look, Camera) = {}
  BY DEF OneCamera, Duplicates, Fresh

\* A track that is known stays the visitor it is, and nobody comes or leaves.
SeenAgain(k) ==
    /\ k \in ActiveTracks
    /\ ActiveTracks' = ActiveTracks
    /\ \A j \in ActiveTracks : /\ active'[j].vid = active[j].vid
                               /\ active'[j].cam = active[j].cam
                               /\ active'[j].look = active[j].look
    /\ UNCHANGED <<exited, present, entries, exits>>

LEMMA KnownTrack ==
    ASSUME Registry, Counters, NEW k \in Tracks, NEW zone \in Zones \cup {NoZone}, NEW staff,
           Follow(k, zone, staff), Queue
    PROVE  SeenAgain(k) /\ \A i \in DOMAIN out' : out'[i].staff = staff
<1>1. /\ active \in [Tracks -> Session \cup {NoSession}]
      /\ active[k] # NoSession
      /\ TrackZone(k, active[k], zone, staff, << >>)
      /\ UNCHANGED <<exited, present>>
  BY DEF Registry, TypeOK, Follow
<1>2. active[k] \in Session
  BY <1>1
<1>3. /\ \E rest \in Seq(ZoneEvent(staff)) : out' = << >> \o rest
      /\ \A j \in Tracks \ {k} : active'[j] = active[j]
      /\ active'[k] # NoSession
      /\ active'[k].vid = active[k].vid /\ active'[k].cam = active[k].cam
      /\ active'[k].look = active[k].look
  BY <1>1, <1>2, TrackZoneSays
<1>4. PICK rest \in Seq(ZoneEvent(staff)) : out' = rest
  BY <1>3
<1>5. \A i \in DOMAIN out' : out'[i] \in ZoneEvent(staff)
  BY <1>4
<1>6. \A i \in DOMAIN out' : /\ out'[i].staff = staff
                             /\ out'[i].type \notin {"ENTRY", "REENTRY"}
                             /\ out'[i].type \notin {"EXIT"}
  BY <1>5 DEF ZoneEvent
<1>7. \A v \in Visitors : Emitted(v, {"ENTRY", "REENTRY"}) = 0 /\ Emitted(v, {"EXIT"}) = 0
  BY <1>6, EmittedNone
<1>8. UNCHANGED <<entries, exits>>
  BY <1>7 DEF Queue, Counters
<1> QED
  BY <1>1, <1>3, <1>6, <1>8 DEF ActiveTracks, SeenAgain

\* A new one is a visitor whose coming is told if the camera is at the entry.
SeenFirst(k, look, v) ==
    /\ k \notin ActiveTracks
    /\ ActiveTracks' = ActiveTracks \cup {k}
    /\ \A j \in ActiveTracks : active'[j] = active[j]
    /\ active'[k].vid = v /\ active'[k].cam = Camera /\ active'[k].look = look
    /\ \A w \in Visitors : present'[w] # NoRecord => present'[w].cam = Camera
    /\ entries' = [w \in Visitors |->
                     entries[w] + (IF w = v /\ Camera \in EntryCameras THEN 1 ELSE 0)]
    /\ exits' = exits

LEMMA NewTrack ==
    ASSUME Registry, Counters, OneCamera, NEW k \in Tracks, NEW v \in Visitors,
           NEW look \in Looks, NEW zone \in Zones \cup {NoZone}, NEW staff,
           NEW type \in {"ENTRY", "REENTRY"},
           active[k] = NoSession,
           Open(k, v, Camera, look, zone, staff,
                IF Camera \in EntryCameras THEN << Instant(type, v, NoZone, staff) >> ELSE << >>),
           Queue
    PROVE  SeenFirst(k, look, v) /\ \A i \in DOMAIN out' : out'[i].staff = staff
<1> DEFINE e == Instant(type, v, NoZone, staff)
           before == IF Camera \in EntryCameras THEN << e >> ELSE << >>
           s == Opened(v, Camera, look)
<1>1. /\ present' = Pruned([present EXCEPT ![v] = NewRecord(look, Camera)], CrossCamTtl)
      /\ TrackZone(k, s, zone, staff, before)
  BY DEF Open
<1>2. active \in [Tracks -> Session \cup {NoSession}]
  BY DEF Registry, TypeOK
<1>3. s \in Session
  BY ClipAssumption, OpenedType
<1>4. s.vid = v /\ s.cam = Camera /\ s.look = look
  BY DEF Opened
<1>5. e.vid = v /\ e.type = type /\ e.staff = staff
  BY DEF Instant, Built
<1>6. /\ present \in [Visitors -> Record \cup {NoRecord}]
      /\ NewRecord(look, Camera).cam = Camera
  BY DEF Registry, TypeOK, NewRecord
<1>7. \A w \in Visitors : present'[w] # NoRecord => present'[w].cam = Camera
  <2> DEFINE r == NewRecord(look, Camera)
  <2>1. \A w \in Visitors : present'[w] # NoRecord => present'[w] = IF w = v THEN r ELSE present[w]
    BY <1>1, <1>6 DEF Pruned
  <2> HIDE DEF r
  <2> QED
    BY <1>6, <2>1 DEF OneCamera, r
<1> HIDE DEF s, e
<1>8. /\ \E rest \in Seq(ZoneEvent(staff)) : out' = before \o rest
      /\ \A j \in Tracks \ {k} : active'[j] = active[j]
      /\ active'[k] # NoSession
      /\ active'[k].vid = v /\ active'[k].cam = Camera /\ active'[k].look = look
  <2> HIDE DEF before
  <2>1. /\ \E rest \in Seq(ZoneEvent(staff)) : out' = before \o rest
        /\ \A j \in Tracks \ {k} : active'[j] = active[j]
        /\ active'[k] # NoSession
        /\ active'[k].vid = s.vid /\ active'[k].cam = s.cam /\ active'[k].look = s.look
    BY <1>1, <1>3, TrackZoneSays
  <2> QED
    BY <1>4, <2>1
<1>9. PICK rest \in Seq(ZoneEvent(staff)) : out' = before \o rest
  BY <1>8
<1>10. \A i \in 1 .. Len(rest) : /\ rest[i].staff = staff
                                 /\ rest[i].type \notin {"ENTRY", "REENTRY", "EXIT"}
  <2>1. \A i \in 1 .. Len(rest) : rest[i] \in ZoneEvent(staff)
    BY ElementOfSeq
  <2> QED
    BY <2>1 DEF ZoneEvent
<1>11. /\ entries' = [w \in Visitors |->
                        entries[w] + (IF w = v /\ Camera \in EntryCameras THEN 1 ELSE 0)]
       /\ exits' = exits
       /\ \A i \in DOMAIN out' : out'[i].staff = staff
  <2>1. CASE Camera \in EntryCameras
    <3>1. out' = << e >> \o rest
      BY <1>9, <2>1
    <3>2. /\ DOMAIN out' = 1 .. (Len(rest) + 1)
          /\ out'[1] = e
          /\ \A i \in DOMAIN out' : i # 1 => i - 1 \in 1 .. Len(rest) /\ out'[i] = rest[i - 1]
      BY <3>1
    <3>3. 1 \in DOMAIN out'
      BY <3>2, LenProperties
    <3>4. \A i \in DOMAIN out' : /\ out'[i].staff = staff
                                 /\ i # 1 => out'[i].type \notin {"ENTRY", "REENTRY"}
                                 /\ out'[i].type \notin {"EXIT"}
      BY <1>5, <1>10, <3>2
    <3>5. \A w \in Visitors : /\ Emitted(w, {"ENTRY", "REENTRY"}) = IF w = v THEN 1 ELSE 0
                              /\ Emitted(w, {"EXIT"}) = 0
      BY <1>5, <3>2, <3>3, <3>4, EmittedOne, EmittedNone
    <3> QED
      BY <2>1, <3>4, <3>5 DEF Queue, Counters
  <2>2. CASE Camera \notin EntryCameras
    <3>1. out' = rest
      BY <1>9, <2>2
    <3>2. \A i \in DOMAIN out' : /\ out'[i].staff = staff
                                 /\ out'[i].type \notin {"ENTRY", "REENTRY"}
                                 /\ out'[i].type \notin {"EXIT"}
      BY <1>10, <3>1, LenProperties
    <3>3. \A w \in Visitors : Emitted(w, {"ENTRY", "REENTRY"}) = 0 /\ Emitted(w, {"EXIT"}) = 0
      BY <3>2, EmittedNone
    <3> QED
      BY <2>2, <3>2, <3>3 DEF Queue, Counters
  <2> QED
    BY <2>1, <2>2
<1> QED
  BY <1>2, <1>7, <1>8, <1>11 DEF ActiveTracks, SeenFirst

\* Who is new to the store has no session and is not remembered as gone any more;
\* the other exits are forgotten only for their age.
NotInStore(v) == \A j \in ActiveTracks : active[j].vid # v

ExitForgotten(v) ==
    \A w \in Visitors :
        /\ exited'[w] # NoRecord => w # v /\ exited'[w] = exited[w]
        /\ w # v /\ exited[w] # NoRecord /\ Wall[time] - exited[w].time < ReentryTtl =>
             exited'[w] = exited[w]

\* Nobody whose exit is remembered is in the store.
OutsideWhenExited == \A k \in ActiveTracks : exited[active[k].vid] = NoRecord

\* A detection is one of somebody known, or of somebody who is not in the store.
LEMMA Detected ==
    ASSUME Registry, Judgements, Counters, OneCamera, OutsideWhenExited,
           NEW k \in Tracks, NEW look \in Looks, NEW point \in Points,
           Detect(k, look, point)
    PROVE  /\ \A i \in DOMAIN out' : out'[i].staff = states'[k].staff
           /\ \/ SeenAgain(k)
              \/ \E v \in Visitors :
                   /\ SeenFirst(k, look, v)
                   /\ NotInStore(v)
                   /\ ExitForgotten(v)
                   /\ Camera \in EntryCameras /\ Returning(look) # {} => v \in Returning(look)
                   /\ v \in used => v \in Returning(look)
<1> DEFINE zone == ZoneAt[point]
           staff == states'[k].staff
<1>1. /\ Update(k, zone, look)
      /\ Process(k, Camera, look, zone, staff)
      /\ Queue
  BY DEF Detect
<1>2. zone \in Zones \cup {NoZone}
  BY ClipAssumption
<1>3. staff \in BOOLEAN
  BY <1>1, <1>2, UpdateKeeps DEF Judgements
<1>4. /\ exited \in [Visitors -> Record \cup {NoRecord}]
      /\ \A j \in ActiveTracks : active[j].vid \in used
      /\ \A v \in Visitors \ used : exited[v] = NoRecord
  BY DEF Registry, TypeOK, ActiveTracks
<1> HIDE DEF zone, staff
<1>5. CASE Follow(k, zone, staff)
  BY <1>1, <1>2, <1>5, KnownTrack DEF staff
<1>6. ASSUME NEW v \in Visitors, Link(k, Camera, look, v)
      PROVE  FALSE
  BY <1>6, NoDuplicates DEF Link
<1>7. ASSUME NEW v \in Visitors, Return(k, Camera, look, zone, staff, v)
      PROVE  /\ SeenFirst(k, look, v) /\ NotInStore(v) /\ ExitForgotten(v)
             /\ v \in Returning(look)
             /\ \A i \in DOMAIN out' : out'[i].staff = staff
  <2>1. /\ active[k] = NoSession /\ Camera \in EntryCameras
        /\ v \in Returning(look)
        /\ Open(k, v, Camera, look, zone, staff, << Instant("REENTRY", v, NoZone, staff) >>)
        /\ exited' = Pruned([exited EXCEPT ![v] = NoRecord], ReentryTtl)
    BY <1>7 DEF Return
  <2>2. SeenFirst(k, look, v) /\ \A i \in DOMAIN out' : out'[i].staff = staff
    BY <1>1, <1>2, <2>1, NewTrack
  <2>3. NotInStore(v)
    BY <2>1 DEF Returning, Fresh, NotInStore, OutsideWhenExited
  <2>4. ExitForgotten(v)
    BY <1>4, <2>1 DEF Pruned, ExitForgotten
  <2> QED
    BY <2>1, <2>2, <2>3, <2>4
<1>8. ASSUME NEW v \in Visitors, Enter(k, Camera, look, zone, staff, v)
      PROVE  /\ SeenFirst(k, look, v) /\ NotInStore(v) /\ ExitForgotten(v)
             /\ Camera \in EntryCameras => Returning(look) = {}
             /\ v \notin used
             /\ \A i \in DOMAIN out' : out'[i].staff = staff
  <2>1. /\ active[k] = NoSession
        /\ Camera \in EntryCameras => Returning(look) = {}
        /\ v \notin used
        /\ Open(k, v, Camera, look, zone, staff,
                IF Camera \in EntryCameras THEN << Instant("ENTRY", v, NoZone, staff) >> ELSE << >>)
        /\ exited' = Pruned(exited, ReentryTtl)
    BY <1>8 DEF Enter
  <2>2. SeenFirst(k, look, v) /\ \A i \in DOMAIN out' : out'[i].staff = staff
    BY <1>1, <1>2, <2>1, NewTrack
  <2>3. NotInStore(v)
    BY <1>4, <2>1 DEF NotInStore
  <2>4. ExitForgotten(v)
    BY <1>4, <2>1 DEF Pruned, ExitForgotten
  <2> QED
    BY <2>1, <2>2, <2>3, <2>4
<1> QED
  BY <1>1, <1>5, <1>6, <1>7, <1>8 DEF Process, staff

\* A lost track leaves, which is told if the camera is at the entry, and is
\* remembered, unless a record is too old as soon as it is made.
LEMMA LostTrack ==
    ASSUME Registry, Counters, OneCamera, NEW k \in Tracks, Lose(k)
    PROVE  /\ k \in ActiveTracks
           /\ ActiveTracks' = ActiveTracks \ {k}
           /\ \A j \in ActiveTracks \ {k} : active'[j] = active[j]
           /\ \A w \in Visitors : present'[w] # NoRecord => present'[w].cam = Camera
           /\ entries' = entries
           /\ exits' = [w \in Visitors |->
                          exits[w] + (IF w = active[k].vid /\ Camera \in EntryCameras THEN 1 ELSE 0)]
           /\ exited' = Pruned([exited EXCEPT ![active[k].vid] =
                                  NewRecord(active[k].look, Camera)], ReentryTtl)
<1> DEFINE s == active[k]
           e == Instant("EXIT", s.vid, NoZone, states[k].staff)
<1>1. /\ s # NoSession
      /\ active' = [active EXCEPT ![k] = NoSession]
      /\ IF s.look = NoLook
         THEN UNCHANGED <<exited, present>>
         ELSE /\ exited' = Pruned([exited EXCEPT ![s.vid] = NewRecord(s.look, s.cam)], ReentryTtl)
              /\ present' = Pruned(present, CrossCamTtl)
      /\ out' = IF Camera \in EntryCameras THEN << e >> ELSE << >>
      /\ Queue
  BY DEF Lose, HandleLostTrack
<1>2. /\ active \in [Tracks -> Session \cup {NoSession}]
      /\ present \in [Visitors -> Record \cup {NoRecord}]
  BY DEF Registry, TypeOK
<1>3. k \in ActiveTracks /\ s.cam = Camera /\ s.look # NoLook
  BY <1>1 DEF ActiveTracks, OneCamera
<1>4. e.vid = s.vid /\ e.type = "EXIT"
  BY DEF Instant, Built
<1>5. \A w \in Visitors : present'[w] # NoRecord => present'[w].cam = Camera
  BY <1>1, <1>2, <1>3 DEF OneCamera, Pruned
<1> HIDE DEF e
<1>6. /\ entries' = entries
      /\ exits' = [w \in Visitors |->
                     exits[w] + (IF w = s.vid /\ Camera \in EntryCameras THEN 1 ELSE 0)]
  <2>1. CASE Camera \in EntryCameras
    <3>1. out' = << e >>
      BY <1>1, <2>1
    <3>2. DOMAIN out' = {1} /\ out'[1] = e
      BY <3>1
    <3>3. \A w \in Visitors : /\ Emitted(w, {"EXIT"}) = IF w = s.vid THEN 1 ELSE 0
                              /\ Emitted(w, {"ENTRY", "REENTRY"}) = 0
      BY <1>4, <3>2, EmittedOne, EmittedNone
    <3> QED
      BY <1>1, <2>1, <3>3 DEF Queue, Counters
  <2>2. CASE Camera \notin EntryCameras
    <3>1. out' = << >>
      BY <1>1, <2>2
    <3>2. \A w \in Visitors : Emitted(w, {"EXIT"}) = 0 /\ Emitted(w, {"ENTRY", "REENTRY"}) = 0
      BY <3>1, EmittedNone
    <3> QED
      BY <1>1, <2>2, <3>2 DEF Queue, Counters
  <2> QED
    BY <2>1, <2>2
<1> QED
  BY <1>1, <1>2, <1>3, <1>5, <1>6 DEF ActiveTracks

-----------------------------------------------------------------------------
\* The inductive invariant.

\* The tracks to be handled as lost were not seen in this frame, so each one is
\* handled once.
Loop ==
    /\ ClipTypeOK
    /\ phase = "lost" => lost \cap current = {}
    /\ phase = "done" => lost = {}

InStore(v) == \E k \in ActiveTracks : active[k].vid = v

\* Nobody has two sessions, who has one is not remembered as gone, and the
\* entrances told exceed the exits by one for him alone.
Presence ==
    /\ \A j, k \in ActiveTracks : active[j].vid = active[k].vid => j = k
    /\ OutsideWhenExited
    /\ \A v \in Visitors :
         entries[v] = exits[v] + (IF Camera \in EntryCameras /\ InStore(v) THEN 1 ELSE 0)

ClipInv == OneCamera /\ Loop /\ Presence

LEMMA ClipInvStart == ClipInit => ClipInv
<1> SUFFICES ASSUME ClipInit PROVE ClipInv
  OBVIOUS
<1>1. /\ active = [k \in Tracks |-> NoSession]
      /\ present = [v \in Visitors |-> NoRecord]
      /\ phase = "detect" /\ current = {} /\ previous = {} /\ lost = {}
      /\ entries = [v \in Visitors |-> 0] /\ exits = [v \in Visitors |-> 0]
  BY DEF ClipInit, RegistryInit
<1>2. ActiveTracks = {}
  BY <1>1 DEF ActiveTracks
<1> QED
  BY <1>1, <1>2 DEF ClipInv, OneCamera, Loop, ClipTypeOK, Presence, OutsideWhenExited, InStore

\* A detection adds its track to those of this frame, and a visitor to the store
\* exactly if he was not in it.
LEMMA DetectKeeps ==
    ASSUME Registry, Judgements, ClipInv, NEW k \in Tracks, NEW look \in Looks,
           NEW point \in Points, Detect(k, look, point)
    PROVE  ClipInv'
<1>1. OneCamera /\ Loop /\ Presence /\ Counters
  BY DEF ClipInv, Loop, ClipTypeOK, Counters
<1>2. /\ phase = "detect" /\ UNCHANGED <<phase, previous, lost>>
      /\ current' = current \cup {k}
  BY DEF Detect
<1>3. /\ lost \subseteq ActiveTracks
      /\ ActiveTracks = previous \cup current
  BY <1>1, <1>2 DEF Loop, ClipTypeOK
<1>4. \A v \in Visitors : entries[v] \in Nat /\ exits[v] \in Nat
  BY <1>1 DEF Counters
<1>5. CASE SeenAgain(k)
  <2>1. OneCamera'
    BY <1>1, <1>5 DEF OneCamera, SeenAgain
  <2>2. Loop'
    BY <1>1, <1>2, <1>3, <1>5 DEF Loop, ClipTypeOK, SeenAgain
  <2>3. Presence'
    BY <1>1, <1>5 DEF Presence, OutsideWhenExited, InStore, SeenAgain
  <2> QED
    BY <2>1, <2>2, <2>3 DEF ClipInv
<1>6. ASSUME NEW v \in Visitors, SeenFirst(k, look, v), NotInStore(v), ExitForgotten(v)
      PROVE  ClipInv'
  <2>1. /\ k \notin ActiveTracks
        /\ ActiveTracks' = ActiveTracks \cup {k}
        /\ \A j \in ActiveTracks : active'[j] = active[j]
        /\ active'[k].vid = v /\ active'[k].cam = Camera /\ active'[k].look = look
        /\ \A w \in Visitors : present'[w] # NoRecord => present'[w].cam = Camera
        /\ entries' = [w \in Visitors |->
                         entries[w] + (IF w = v /\ Camera \in EntryCameras THEN 1 ELSE 0)]
        /\ exits' = exits
    BY <1>6 DEF SeenFirst
  <2>2. \A j \in ActiveTracks : active[j].vid \in Visitors
    BY DEF ActiveTracks, Registry, TypeOK, Session
  <2>3. OneCamera'
    BY <1>1, <2>1, TrackerAssumption DEF OneCamera
  <2>4. Loop'
    <3>1. entries' \in [Visitors -> Nat] /\ exits' \in [Visitors -> Nat]
      BY <1>1, <1>4, <2>1 DEF Counters
    <3> QED
      BY <1>1, <1>2, <1>3, <2>1, <3>1 DEF Loop, ClipTypeOK
  <2>5. Presence'
    <3>1. \A i, j \in ActiveTracks' : active'[i].vid = active'[j].vid => i = j
      BY <1>1, <1>6, <2>1 DEF Presence, NotInStore
    <3>2. OutsideWhenExited'
      BY <1>1, <1>6, <2>1, <2>2 DEF Presence, OutsideWhenExited, NotInStore, ExitForgotten
    <3>3. \A w \in Visitors : InStore(w)' <=> InStore(w) \/ w = v
      BY <2>1 DEF InStore
    <3>4. ~InStore(v)
      BY <1>6 DEF NotInStore, InStore
    <3>5. \A w \in Visitors :
            entries'[w] = exits'[w] + (IF Camera \in EntryCameras /\ InStore(w)' THEN 1 ELSE 0)
      BY <1>1, <1>4, <2>1, <3>3, <3>4 DEF Presence
    <3> QED
      BY <3>1, <3>2, <3>5 DEF Presence
  <2> QED
    BY <2>3, <2>4, <2>5 DEF ClipInv
<1> QED
  BY <1>1, <1>5, <1>6, Detected DEF Presence

\* A lost track takes its visitor with it: no other track has his id.
LEMMA LoseKeeps ==
    ASSUME Registry, ClipInv, NEW k \in Tracks, Lose(k)
    PROVE  ClipInv'
<1>1. OneCamera /\ Loop /\ Presence /\ Counters
  BY DEF ClipInv, Loop, ClipTypeOK, Counters
<1> DEFINE v == active[k].vid
<1>2. /\ k \in ActiveTracks
      /\ ActiveTracks' = ActiveTracks \ {k}
      /\ \A j \in ActiveTracks \ {k} : active'[j] = active[j]
      /\ \A w \in Visitors : present'[w] # NoRecord => present'[w].cam = Camera
      /\ entries' = entries
      /\ exits' = [w \in Visitors |->
                     exits[w] + (IF w = v /\ Camera \in EntryCameras THEN 1 ELSE 0)]
      /\ exited' = Pruned([exited EXCEPT ![v] = NewRecord(active[k].look, Camera)], ReentryTtl)
  BY <1>1, LostTrack
<1>3. /\ phase \in {"lost", "closing"} /\ k \in lost
      /\ lost' = lost \ {k}
      /\ UNCHANGED <<phase, current, previous>>
  BY DEF Lose
<1>4. /\ lost \subseteq ActiveTracks
      /\ ActiveTracks = IF phase = "lost" THEN lost \cup current ELSE lost
      /\ phase = "lost" => lost \cap current = {}
  BY <1>1, <1>3 DEF Loop, ClipTypeOK
<1>5. /\ \A w \in Visitors : entries[w] \in Nat /\ exits[w] \in Nat
      /\ exited \in [Visitors -> Record \cup {NoRecord}]
      /\ \A j \in ActiveTracks : active[j].vid \in Visitors
  BY <1>1 DEF Counters, ActiveTracks, Registry, TypeOK, Session
<1>6. OneCamera'
  BY <1>1, <1>2 DEF OneCamera
<1>7. Loop'
  <2>1. entries' \in [Visitors -> Nat] /\ exits' \in [Visitors -> Nat]
    BY <1>1, <1>2, <1>5 DEF Counters
  <2>2. ActiveTracks' = IF phase' = "lost" THEN lost' \cup current' ELSE lost'
    BY <1>2, <1>3, <1>4
  <2>3. lost' \subseteq ActiveTracks' /\ (phase' = "lost" => lost' \cap current' = {})
    BY <1>2, <1>3, <1>4
  <2> QED
    BY <1>3, <2>1, <2>2, <2>3 DEF Loop, ClipTypeOK
<1> HIDE DEF v
<1>8. Presence'
  <2>1. \A i, j \in ActiveTracks' : active'[i].vid = active'[j].vid => i = j
    BY <1>1, <1>2 DEF Presence
  <2>2. \A j \in ActiveTracks' : active'[j].vid = active[j].vid /\ active[j].vid # v
    BY <1>1, <1>2 DEF Presence, v
  <2>3. OutsideWhenExited'
    <3> DEFINE g == [exited EXCEPT ![v] = NewRecord(active[k].look, Camera)]
    <3>0. exited' = Pruned(g, ReentryTtl) /\ \A w \in Visitors : w # v => g[w] = exited[w]
      BY <1>2, <1>5
    <3> HIDE DEF g
    <3>1. \A w \in Visitors : w # v /\ exited[w] = NoRecord => exited'[w] = NoRecord
      BY <3>0 DEF Pruned
    <3>2. \A j \in ActiveTracks' : j \in ActiveTracks /\ active[j].vid \in Visitors
      BY <1>2, <1>5
    <3>3. \A j \in ActiveTracks : exited[active[j].vid] = NoRecord
      BY <1>1 DEF Presence, OutsideWhenExited
    <3>4. \A j \in ActiveTracks' : exited'[active'[j].vid] = NoRecord
      BY <2>2, <3>1, <3>2, <3>3
    <3> QED
      BY <3>4 DEF OutsideWhenExited
  <2>4. \A w \in Visitors : InStore(w)' <=> InStore(w) /\ w # v
    BY <1>2, <2>2 DEF InStore, v
  <2>5. InStore(v)
    BY <1>2 DEF InStore, v
  <2>6. \A w \in Visitors :
          entries'[w] = exits'[w] + (IF Camera \in EntryCameras /\ InStore(w)' THEN 1 ELSE 0)
    BY <1>1, <1>2, <1>5, <2>4, <2>5 DEF Presence
  <2> QED
    BY <2>1, <2>3, <2>6 DEF Presence
<1> QED
  BY <1>6, <1>7, <1>8 DEF ClipInv

LEMMA ClipInvStep ==
    Registry /\ Judgements /\ ClipInv /\ [ClipNext]_<<vars, clipVars>> => ClipInv'
<1> SUFFICES ASSUME Registry, Judgements, ClipInv, [ClipNext]_<<vars, clipVars>>
             PROVE  ClipInv'
  OBVIOUS
<1>1. ASSUME NEW k \in Tracks, NEW look \in Looks, NEW point \in Points, Detect(k, look, point)
      PROVE  ClipInv'
  BY <1>1, DetectKeeps
<1>2. ASSUME NEW k \in Tracks, Lose(k)
      PROVE  ClipInv'
  BY <1>2, LoseKeeps
<1>3. ASSUME UNCHANGED <<active, exited, present, entries, exits>>, Loop'
      PROVE  ClipInv'
  <2>1. ActiveTracks' = ActiveTracks
    BY <1>3 DEF ActiveTracks
  <2> QED
    BY <1>3, <2>1 DEF ClipInv, OneCamera, Presence, OutsideWhenExited, InStore
<1>4. CASE EndOfDetections
  <2>1. /\ phase = "detect" /\ phase' = "lost" /\ lost' = previous \ current
        /\ UNCHANGED <<active, exited, present, entries, exits, current, previous>>
    BY <1>4 DEF EndOfDetections, registryVars
  <2>2. Loop'
    BY <2>1 DEF ClipInv, Loop, ClipTypeOK, ActiveTracks
  <2> QED
    BY <1>3, <2>1, <2>2
<1>5. CASE EndOfFrame
  <2>1. /\ phase = "lost" /\ lost = {} /\ previous' = current /\ current' = {}
        /\ \/ phase' = "detect" /\ lost' = lost
           \/ phase' = "closing" /\ lost' = ActiveTracks
        /\ UNCHANGED <<active, exited, present, entries, exits>>
    BY <1>5 DEF EndOfFrame, registryVars, ActiveTracks
  <2>2. Loop'
    BY <2>1 DEF ClipInv, Loop, ClipTypeOK, ActiveTracks
  <2> QED
    BY <1>3, <2>1, <2>2
<1>6. CASE EndOfClip
  <2>1. /\ phase = "closing" /\ phase' = "done" /\ lost = {}
        /\ UNCHANGED <<active, exited, present, entries, exits, lost, current, previous>>
    BY <1>6 DEF EndOfClip, registryVars
  <2>2. Loop'
    BY <2>1 DEF ClipInv, Loop, ClipTypeOK, ActiveTracks
  <2> QED
    BY <1>3, <2>1, <2>2
<1>7. CASE Done \/ UNCHANGED <<vars, clipVars>>
  <2>1. UNCHANGED <<active, exited, present, entries, exits, lost, current, previous, phase>>
    BY <1>7 DEF Done, vars, registryVars, clipVars
  <2>2. Loop'
    BY <2>1 DEF ClipInv, Loop, ClipTypeOK, ActiveTracks
  <2> QED
    BY <1>3, <2>1, <2>2
<1> QED
  BY <1>1, <1>2, <1>4, <1>5, <1>6, <1>7 DEF ClipNext

LEMMA ClipInvariant == ClipSpec => [](Registry /\ ClipInv)
  BY ClipRegistry, ClipInvStart, ClipInvStep, PTL DEF ClipSpec

\* The frame loop's sets hold what their names say: the tracks with a session are
\* those of the last frame or of this one, or are yet to be handled as lost
\* (prev_track_ids, current_track_ids and lost_tracks of detect.py).
THEOREM ClipTypeCorrect == ClipSpec => []ClipTypeOK
<1>1. ClipInv => ClipTypeOK
  BY DEF ClipInv, Loop
<1> QED
  BY ClipInvariant, <1>1, PTL

\* Occupancy computed from the events of an entry camera is right at any time: a
\* visitor has one ENTRY or REENTRY more than he has EXITs while a track of his,
\* and only one, has a session, and as many when none has.
THEOREM PresenceIsBalanced == ClipSpec => []PresenceBalanced
<1>1. ASSUME ClipInv
      PROVE  PresenceBalanced
  <2> SUFFICES ASSUME Camera \in EntryCameras, NEW v \in Visitors
               PROVE  /\ entries[v] - exits[v] = Cardinality(TracksOf(v))
                      /\ entries[v] - exits[v] \in {0, 1}
    BY DEF PresenceBalanced
  <2>1. /\ \A j, k \in ActiveTracks : active[j].vid = active[k].vid => j = k
        /\ entries[v] = exits[v] + (IF InStore(v) THEN 1 ELSE 0)
        /\ exits[v] \in Nat
    BY <1>1 DEF ClipInv, Presence, Loop, ClipTypeOK
  <2>2. CASE InStore(v)
    <3>1. PICK k \in ActiveTracks : active[k].vid = v
      BY <2>2 DEF InStore
    <3>2. TracksOf(v) = {k}
      BY <2>1, <3>1 DEF TracksOf
    <3>3. Cardinality(TracksOf(v)) = 1
      BY <3>2, FS_Singleton
    <3> QED
      BY <2>1, <2>2, <3>3
  <2>3. CASE ~InStore(v)
    <3>1. TracksOf(v) = {}
      BY <2>3 DEF TracksOf, InStore
    <3> QED
      BY <2>1, <2>3, <3>1, FS_EmptySet
  <2> QED
    BY <2>2, <2>3
<1> QED
  BY ClipInvariant, <1>1, PTL

\* The end of the clip empties the store: nobody has a session, nobody counts as
\* being in billing, everybody's entrances and exits match.
THEOREM EverybodyLeaves == ClipSpec => []AllHaveLeft
<1>1. ASSUME Registry, ClipInv
      PROVE  AllHaveLeft
  <2> SUFFICES ASSUME phase = "done"
               PROVE  /\ ActiveTracks = {}
                      /\ billingCount = 0
                      /\ \A v \in Visitors : entries[v] = exits[v]
    BY DEF AllHaveLeft
  <2>1. ActiveTracks = {}
    BY <1>1 DEF ClipInv, Loop, ClipTypeOK
  <2>2. billingCount = 0
    <3>1. InBillingNow = {}
      BY <2>1 DEF InBillingNow, ActiveTracks
    <3> QED
      BY <1>1, <3>1, FS_EmptySet DEF Registry, BillingCountExact
  <2>3. \A v \in Visitors : entries[v] = exits[v]
    <3>1. \A v \in Visitors : ~InStore(v) /\ exits[v] \in Nat
      BY <1>1, <2>1 DEF InStore, ClipInv, Loop, ClipTypeOK
    <3> QED
      BY <1>1, <3>1 DEF ClipInv, Presence
  <2> QED
    BY <2>1, <2>2, <2>3
<1> QED
  BY ClipInvariant, <1>1, PTL

-----------------------------------------------------------------------------
\* Who comes back.

\* The gallery of exits is who is gone, except that it may have forgotten whom
\* _prune found to be too old.
Remembered ==
    /\ gone \in [Visitors -> Record \cup {NoRecord}]
    /\ \A k \in ActiveTracks : gone[active[k].vid] = NoRecord
    /\ \A v \in Visitors :
         /\ exited[v] # NoRecord => exited[v] = gone[v]
         /\ gone[v] # NoRecord /\ Wall[time] - gone[v].time < ReentryTtl => exited[v] = gone[v]

LEMMA RememberedStart == ClipInit => Remembered
  BY DEF ClipInit, RegistryInit, Remembered, ActiveTracks

\* The wall clock goes on: what is too old stays so.
LEMMA RememberedStep ==
    Registry /\ Judgements /\ ClipInv /\ Remembered /\ [ClipNext]_<<vars, clipVars>>
      => Remembered'
<1> SUFFICES ASSUME Registry, Judgements, ClipInv, Remembered, [ClipNext]_<<vars, clipVars>>
             PROVE  Remembered'
  OBVIOUS
<1>1. /\ gone \in [Visitors -> Record \cup {NoRecord}]
      /\ exited \in [Visitors -> Record \cup {NoRecord}]
      /\ \A j \in ActiveTracks : active[j].vid \in Visitors /\ active[j].look \in Looks \cup {NoLook}
      /\ \A v \in Visitors : gone[v] # NoRecord => gone[v].time \in Nat
      /\ time \in 1..LastFrame /\ LastFrame \in Nat
      /\ ReentryTtl \in Nat
      /\ Wall[time] \in Int
  BY TrackerAssumption
     DEF Remembered, Registry, TypeOK, ActiveTracks, Session, Record
<1>2. OneCamera /\ Counters /\ Presence
  BY DEF ClipInv, Loop, ClipTypeOK, Counters
<1>3. ASSUME NEW k \in Tracks, NEW look \in Looks, NEW point \in Points, Detect(k, look, point)
      PROVE  Remembered'
  <2>1. UNCHANGED time /\ gone' = [gone EXCEPT ![active'[k].vid] = NoRecord]
    BY <1>3 DEF Detect
  <2>2. CASE SeenAgain(k)
    <3>1. gone' = gone
      BY <1>1, <2>1, <2>2 DEF SeenAgain, Remembered
    <3> QED
      BY <2>1, <2>2, <3>1 DEF SeenAgain, Remembered
  <2>3. ASSUME NEW v \in Visitors, SeenFirst(k, look, v), NotInStore(v), ExitForgotten(v)
        PROVE  Remembered'
    <3>1. /\ ActiveTracks' = ActiveTracks \cup {k}
          /\ \A j \in ActiveTracks : active'[j] = active[j]
          /\ active'[k].vid = v
      BY <2>3 DEF SeenFirst
    <3>2. \A w \in Visitors : gone'[w] = IF w = v THEN NoRecord ELSE gone[w]
      BY <1>1, <2>1, <3>1
    <3>3. gone' \in [Visitors -> Record \cup {NoRecord}]
      BY <1>1, <2>1
    <3>4. \A j \in ActiveTracks' : gone'[active'[j].vid] = NoRecord
      BY <1>1, <3>1, <3>2 DEF Remembered
    <3>5. ASSUME NEW w \in Visitors
          PROVE  /\ exited'[w] # NoRecord => exited'[w] = gone'[w]
                 /\ gone'[w] # NoRecord /\ Wall[time'] - gone'[w].time < ReentryTtl => exited'[w] = gone'[w]
      BY <1>1, <2>1, <2>3, <3>2 DEF ExitForgotten, Remembered
    <3> QED
      BY <3>3, <3>4, <3>5 DEF Remembered
  <2> QED
    BY <1>2, <1>3, <2>2, <2>3, Detected DEF Presence
<1>4. ASSUME NEW k \in Tracks, Lose(k)
      PROVE  Remembered'
  <2> DEFINE v == active[k].vid
             r == NewRecord(active[k].look, Camera)
  <2>1. UNCHANGED time /\ gone' = [gone EXCEPT ![v] = r]
    BY <1>4 DEF Lose
  <2>2. /\ k \in ActiveTracks
        /\ ActiveTracks' = ActiveTracks \ {k}
        /\ \A j \in ActiveTracks \ {k} : active'[j] = active[j]
        /\ exited' = Pruned([exited EXCEPT ![v] = r], ReentryTtl)
    BY <1>2, <1>4, LostTrack
  <2>3. r \in Record /\ r.time = time /\ v \in Visitors
    BY <1>1, <2>2, ClipAssumption, NewRecordType DEF NewRecord
  <2>4. \A j \in ActiveTracks' : active'[j].vid = active[j].vid /\ active[j].vid # v
    BY <1>2, <2>2 DEF Presence
  <2> HIDE DEF v, r
  <2>5. /\ gone' \in [Visitors -> Record \cup {NoRecord}]
        /\ \A w \in Visitors : gone'[w] = IF w = v THEN r ELSE gone[w]
    BY <1>1, <2>1, <2>3
  <2>6. \A w \in Visitors :
          exited'[w] = IF w = v
                       THEN IF Wall[time] - r.time < ReentryTtl THEN r ELSE NoRecord
                       ELSE IF exited[w] # NoRecord /\ Wall[time] - exited[w].time < ReentryTtl
                            THEN exited[w] ELSE NoRecord
    BY <1>1, <2>2, <2>3, TrackerAssumption DEF Pruned
  <2>7. \A j \in ActiveTracks' : gone'[active'[j].vid] = NoRecord
    BY <1>1, <2>2, <2>4, <2>5 DEF Remembered
  <2>8. ASSUME NEW w \in Visitors
        PROVE  /\ exited'[w] # NoRecord => exited'[w] = gone'[w]
               /\ gone'[w] # NoRecord /\ Wall[time'] - gone'[w].time < ReentryTtl => exited'[w] = gone'[w]
    BY <1>1, <2>1, <2>3, <2>5, <2>6 DEF Remembered
  <2> QED
    BY <2>5, <2>7, <2>8 DEF Remembered
<1>5. CASE EndOfFrame
  <2>1. /\ UNCHANGED <<active, exited, gone>>
        /\ Wall[time'] \in Int /\ Wall[time] <= Wall[time']
    <3>1. UNCHANGED <<active, exited, gone>> /\ time' \in 1..LastFrame /\ time \in 1..time'
      BY <1>1, <1>5 DEF EndOfFrame, registryVars
    <3> QED
      BY <3>1, TrackerAssumption
  <2> QED
    BY <1>1, <2>1 DEF Remembered, ActiveTracks
<1>6. CASE EndOfDetections \/ EndOfClip \/ Done \/ UNCHANGED <<vars, clipVars>>
  <2>1. UNCHANGED <<active, exited, gone, time>>
    BY <1>6 DEF EndOfDetections, EndOfClip, Done, vars, registryVars, clipVars
  <2> QED
    BY <2>1 DEF Remembered, ActiveTracks
<1> QED
  BY <1>3, <1>4, <1>5, <1>6 DEF ClipNext

\* Nobody is given the id of one he does not look like, and whoever looks, at an
\* entry camera, like somebody who left less than 15 minutes ago by both clocks is
\* taken to be one who left and has not come back, whatever the wall clock: the
\* gallery remembers nobody but who is gone, and all who are gone not too long.
THEOREM ReturnsAreRecognised == ClipSpec => ReturnsRecognised
<1> DEFINE Recognised ==
      \A k \in Tracks : active[k] = NoSession /\ active'[k] # NoSession =>
        LET back == LookAlikesGone(active'[k].look) IN
        /\ active'[k].vid \in used => active'[k].vid \in back
        /\ Camera \in EntryCameras /\ (\E v \in back : Wall[time] - gone[v].time < ReentryTtl) =>
             active'[k].vid \in back
<1>1. ASSUME Registry, Judgements, ClipInv, Remembered, [ClipNext]_<<vars, clipVars>>
      PROVE  [Recognised]_active
  <2> SUFFICES ASSUME active' # active,
                      NEW k \in Tracks, active[k] = NoSession, active'[k] # NoSession,
                      \/ active'[k].vid \in used
                      \/ /\ Camera \in EntryCameras
                         /\ \E u \in LookAlikesGone(active'[k].look) :
                              Wall[time] - gone[u].time < ReentryTtl
               PROVE  active'[k].vid \in LookAlikesGone(active'[k].look)
    OBVIOUS
  <2>1. OneCamera /\ Counters /\ OutsideWhenExited
    BY <1>1 DEF ClipInv, Loop, ClipTypeOK, Counters, Presence
  <2>2. active \in [Tracks -> Session \cup {NoSession}]
    BY <1>1 DEF Registry, TypeOK
  <2>3. PICK j \in Tracks, look \in Looks, point \in Points : Detect(j, look, point)
    <3>1. ASSUME NEW j \in Tracks, Lose(j)
          PROVE  FALSE
      BY <2>2, <3>1 DEF Lose, HandleLostTrack
    <3>2. ~(EndOfDetections \/ EndOfFrame \/ EndOfClip \/ Done \/ UNCHANGED <<vars, clipVars>>)
      BY DEF EndOfDetections, EndOfFrame, EndOfClip, Done, vars, registryVars
    <3> QED
      BY <1>1, <3>1, <3>2 DEF ClipNext
  <2>4. k \notin ActiveTracks /\ k \in ActiveTracks'
    BY DEF ActiveTracks
  <2>5. PICK v \in Visitors :
          /\ SeenFirst(j, look, v)
          /\ Camera \in EntryCameras /\ Returning(look) # {} => v \in Returning(look)
          /\ v \in used => v \in Returning(look)
    <3>1. ~SeenAgain(j)
      BY <2>4 DEF SeenAgain
    <3> QED
      BY <1>1, <2>1, <2>3, <3>1, Detected
  <2>6. active'[k].vid = v /\ active'[k].look = look
    BY <2>4, <2>5 DEF SeenFirst
  <2>7. v \in used \/ (Camera \in EntryCameras /\ Returning(look) # {})
    <3> SUFFICES ASSUME NEW u \in LookAlikesGone(look), Wall[time] - gone[u].time < ReentryTtl
                 PROVE  u \in Returning(look)
      BY <2>6
    <3>1. /\ u \in Visitors /\ gone[u] # NoRecord
          /\ time - gone[u].time <= ReentryTtl
          /\ <<look, gone[u].look>> \in SamePerson
      BY DEF LookAlikesGone
    <3>2. exited[u] = gone[u]
      BY <1>1, <3>1 DEF Remembered
    <3> QED
      BY <3>1, <3>2 DEF Returning, Fresh
  <2>8. v \in Returning(look)
    BY <2>5, <2>6, <2>7
  <2>9. exited[v] = gone[v]
    BY <1>1, <2>8 DEF Returning, Fresh, Remembered
  <2> QED
    BY <2>6, <2>8, <2>9 DEF Returning, Fresh, LookAlikesGone
<1>2. Registry /\ Judgements /\ ClipInv /\ Remembered /\ [ClipNext]_<<vars, clipVars>>
        => Remembered'
  BY RememberedStep
<1>3. ClipSpec => [](Registry /\ Judgements /\ ClipInv)
  BY ClipRegistry, ClipInvariant, PTL
<1> QED
  BY <1>1, <1>2, <1>3, RememberedStart, PTL DEF ClipSpec, ReturnsRecognised

=============================================================================
