--------------------------- MODULE TrackerProofs ---------------------------
(***************************************************************************)
(* Theorems about Tracker, for every set of tracks, visitors, zones and    *)
(* looks, every similarity and every time to live: whatever calls its      *)
(* caller makes, the registry counts the people in billing right and       *)
(* builds events the API accepts.                                          *)
(***************************************************************************)
EXTENDS Tracker, TLAPS, FiniteSetTheorems, SequenceTheorems

\* The events that may be in out while n people are in billing.
GoodEvents(n) ==
    {e \in OutEvent : /\ FieldRules(e)
                      /\ e.depth <= n - (IF e.depth > 0 THEN 1 ELSE 0)}

\* Those that report no queue may be there at any time.
PlainEvents == {e \in OutEvent : FieldRules(e) /\ e.depth = 0}

-----------------------------------------------------------------------------
\* Sequences of events.

LEMMA SeqOfSubset ==
    ASSUME NEW S, NEW T, S \subseteq T, NEW s \in Seq(S)
    PROVE  s \in Seq(T)
<1>1. \A i \in 1 .. Len(s) : s[i] \in T
  BY ElementOfSeq
<1>2. Len(s) \in Nat /\ s \in [1 .. Len(s) -> T]
  BY <1>1, LenProperties
<1> QED
  BY <1>2, SeqDef

LEMMA PlainIsGood ==
    ASSUME NEW n \in Nat
    PROVE  PlainEvents \subseteq GoodEvents(n)
  BY DEF PlainEvents, GoodEvents

\* What the sequence says of out.
LEMMA GoodOut ==
    ASSUME NEW n, NEW s \in Seq(GoodEvents(n))
    PROVE  /\ s \in Seq(OutEvent)
           /\ \A i \in DOMAIN s :
                /\ FieldRules(s[i])
                /\ s[i].depth <= n - (IF s[i].depth > 0 THEN 1 ELSE 0)
<1>1. GoodEvents(n) \subseteq OutEvent
  BY DEF GoodEvents
<1>2. s \in Seq(OutEvent)
  BY <1>1, SeqOfSubset
<1>3. \A i \in 1 .. Len(s) : s[i] \in GoodEvents(n)
  BY ElementOfSeq
<1>4. DOMAIN s = 1 .. Len(s)
  BY LenProperties
<1> QED
  BY <1>2, <1>3, <1>4, Zenon DEF GoodEvents

\* build_event, for an event that says nothing of a queue.
LEMMA BuiltPlain ==
    ASSUME time \in Nat, NEW type \in EventTypes, NEW vid \in Visitors,
           NEW zone \in Zones \cup {NoZone}, NEW dwell \in Nat, NEW staff \in BOOLEAN,
           type # "BILLING_QUEUE_JOIN",
           type \in NoZoneTypes => zone = NoZone,
           type \in RequireZoneTypes => zone # NoZone,
           type \in InstantTypes => dwell = 0
    PROVE  Built(type, vid, zone, dwell, staff, 0) \in PlainEvents
  BY DEF Built, PlainEvents, OutEvent, FieldRules, ZoneRule, DepthRule, DwellRule

-----------------------------------------------------------------------------
\* The people in billing.

\* When one session changes, only its own track may join or leave them.
LEMMA BillingOfOne ==
    ASSUME active \in [Tracks -> Session \cup {NoSession}], NEW k \in Tracks,
           NEW t \in Session \cup {NoSession}, active' = [active EXCEPT ![k] = t]
    PROVE  InBillingNow' = IF t # NoSession /\ t.billing
                           THEN (InBillingNow \ {k}) \cup {k}
                           ELSE InBillingNow \ {k}
<1>1. \A j \in Tracks : active'[j] = IF j = k THEN t ELSE active[j]
  OBVIOUS
<1> QED
  BY <1>1 DEF InBillingNow

\* So the count changes by what that track was and what it is.
LEMMA BillingCardinality ==
    ASSUME active \in [Tracks -> Session \cup {NoSession}], NEW k \in Tracks,
           NEW t \in Session \cup {NoSession}, active' = [active EXCEPT ![k] = t]
    PROVE  /\ Cardinality(InBillingNow) \in Nat
           /\ k \in InBillingNow => Cardinality(InBillingNow) > 0
           /\ Cardinality(InBillingNow') =
                Cardinality(InBillingNow)
                  - (IF k \in InBillingNow THEN 1 ELSE 0)
                  + (IF t # NoSession /\ t.billing THEN 1 ELSE 0)
<1> DEFINE Others == InBillingNow \ {k}
<1>1. IsFiniteSet(InBillingNow)
  BY TrackerAssumption, FS_Subset DEF InBillingNow
<1>2. /\ Cardinality(InBillingNow) \in Nat
      /\ IsFiniteSet(Others)
      /\ Cardinality(Others) =
           IF k \in InBillingNow THEN Cardinality(InBillingNow) - 1
           ELSE Cardinality(InBillingNow)
  BY <1>1, FS_RemoveElement, FS_CardinalityType
<1>3. Cardinality(Others \cup {k}) = Cardinality(Others) + 1
  BY <1>2, FS_AddElement
<1>4. k \in InBillingNow => Cardinality(InBillingNow) > 0
  BY <1>1, <1>2, FS_EmptySet
<1> HIDE DEF Others
<1>5. Cardinality(InBillingNow') =
        IF t # NoSession /\ t.billing THEN Cardinality(Others) + 1 ELSE Cardinality(Others)
  BY <1>3, BillingOfOne DEF Others
<1> QED
  BY <1>2, <1>4, <1>5

-----------------------------------------------------------------------------
\* A track in its zone.

\* A session keeps its shape when its track changes zones.
LEMMA MovedType ==
    ASSUME NEW s \in Session, NEW zone \in Zones \cup {NoZone}, time \in Nat,
           s.billing <=> InBilling(s.zone)
    PROVE  /\ Moved(s, zone) \in Session
           /\ Moved(s, zone).since = time
           /\ Moved(s, zone).vid = s.vid
           /\ Moved(s, zone).zone = zone
           /\ Moved(s, zone).billing <=> InBilling(zone)
<1>1. StillBilling(s) = FALSE
  BY DEF StillBilling
<1>2. InBilling(zone) \in BOOLEAN
  BY DEF InBilling
<1> QED
  BY <1>1, <1>2 DEF Moved, Session, NoTime

\* The events of a change of zone are good once the count is the new one.
LEMMA MoveEventsGood ==
    ASSUME NEW s \in Session, NEW zone \in Zones \cup {NoZone}, NEW staff \in BOOLEAN,
           time \in Nat, s.since <= time, CountAfterMove(s, zone) \in Nat
    PROVE  MoveEvents(s, zone, staff) \in Seq(GoodEvents(CountAfterMove(s, zone)))
<1> DEFINE n == CountAfterMove(s, zone)
<1> DEFINE G == GoodEvents(n)
<1> DEFINE left == IF s.zone = NoZone THEN << >>
                   ELSE << Built("ZONE_EXIT", s.vid, s.zone,
                                 IF s.since = NoTime THEN 0 ELSE time - s.since, staff, 0) >>
<1> DEFINE entered == IF zone = NoZone THEN << >>
                      ELSE << Instant("ZONE_ENTER", s.vid, zone, staff) >>
<1> DEFINE joined == IF EntersBilling(s, zone) /\ n > 1 /\ ~staff
                     THEN << Built("BILLING_QUEUE_JOIN", s.vid, zone, 0, staff, n - 1) >>
                     ELSE << >>
<1>1. /\ s.vid \in Visitors /\ s.zone \in Zones \cup {NoZone}
      /\ s.since \in Nat
  BY DEF Session
<1>2. n \in Nat
  OBVIOUS
<1>3. left \in Seq(G)
  <2>1. CASE s.zone # NoZone
    <3>1. (IF s.since = NoTime THEN 0 ELSE time - s.since) \in Nat
      BY <1>1
    <3>2. Built("ZONE_EXIT", s.vid, s.zone,
                IF s.since = NoTime THEN 0 ELSE time - s.since, staff, 0) \in PlainEvents
      BY <1>1, <2>1, <3>1, BuiltPlain
           DEF EventTypes, NoZoneTypes, RequireZoneTypes, InstantTypes
    <3> QED
      BY <1>2, <2>1, <3>2, PlainIsGood
  <2>2. CASE s.zone = NoZone
    BY <2>2
  <2> QED
    BY <2>1, <2>2
<1>4. entered \in Seq(G)
  <2>1. CASE zone # NoZone
    <3>1. Built("ZONE_ENTER", s.vid, zone, 0, staff, 0) \in PlainEvents
      BY <1>1, <2>1, BuiltPlain DEF EventTypes, NoZoneTypes, RequireZoneTypes, InstantTypes
    <3> QED
      BY <1>2, <2>1, <3>1, PlainIsGood DEF Instant
  <2>2. CASE zone = NoZone
    BY <2>2
  <2> QED
    BY <2>1, <2>2
<1>5. joined \in Seq(G)
  <2>1. CASE EntersBilling(s, zone) /\ n > 1 /\ ~staff
    <3>1. Built("BILLING_QUEUE_JOIN", s.vid, zone, 0, staff, n - 1) \in GoodEvents(n)
      <4> HIDE DEF n
      <4> QED
        BY <1>1, <1>2, <2>1
             DEF Built, GoodEvents, OutEvent, FieldRules, ZoneRule, DepthRule, DwellRule,
                 EventTypes, NoZoneTypes, RequireZoneTypes
    <3> QED
      BY <2>1, <3>1
  <2>2. CASE ~(EntersBilling(s, zone) /\ n > 1 /\ ~staff)
    BY <2>2
  <2> QED
    BY <2>1, <2>2
<1>6. MoveEvents(s, zone, staff) = left \o entered \o joined
  BY Zenon DEF MoveEvents
<1> HIDE DEF left, entered, joined, G
<1>7. left \o entered \o joined \in Seq(G)
  BY <1>3, <1>4, <1>5, ConcatProperties
<1> QED
  BY <1>6, <1>7 DEF G

\* What the end of process does to a track that has session s, in the registry
\* or just opened: the count stays exact and the events are good.
LEMMA TrackZoneKeeps ==
    ASSUME NEW k \in Tracks, NEW s \in Session, NEW zone \in Zones \cup {NoZone},
           NEW staff \in BOOLEAN, NEW before \in Seq(PlainEvents),
           TypeOK, BillingCountExact, UNCHANGED time,
           used \subseteq used', s.vid \in used',
           s.since <= time, s.billing <=> InBilling(s.zone),
           s.billing <=> k \in InBillingNow,
           TrackZone(k, s, zone, staff, before)
    PROVE  /\ active' \in [Tracks -> Session \cup {NoSession}]
           /\ \A j \in Tracks : active'[j] # NoSession => active'[j].since <= time' /\ active'[j].vid \in used'
           /\ billingCount' \in Nat
           /\ BillingCountExact'
           /\ out' \in Seq(GoodEvents(billingCount'))
<1>1. /\ time \in Nat
      /\ active \in [Tracks -> Session \cup {NoSession}]
      /\ \A j \in Tracks : active[j] # NoSession => active[j].since <= time /\ active[j].vid \in used
      /\ billingCount \in Nat
      /\ NoSession \notin Session
  BY TrackerAssumption DEF TypeOK
<1>2. CASE zone # s.zone
  <2>1. /\ active' = [active EXCEPT ![k] = Moved(s, zone)]
        /\ billingCount' = CountAfterMove(s, zone)
        /\ out' = before \o MoveEvents(s, zone, staff)
    BY <1>2 DEF TrackZone
  <2>2. /\ Moved(s, zone) \in Session
        /\ Moved(s, zone).since = time
        /\ Moved(s, zone).vid = s.vid
        /\ Moved(s, zone).zone = zone
        /\ Moved(s, zone).billing <=> InBilling(zone)
    BY <1>1, MovedType
  <2>3. \A j \in Tracks : active'[j] = IF j = k THEN Moved(s, zone) ELSE active[j]
    BY <1>1, <2>1
  <2>4. /\ Cardinality(InBillingNow) \in Nat
        /\ k \in InBillingNow => Cardinality(InBillingNow) > 0
        /\ Cardinality(InBillingNow') =
             Cardinality(InBillingNow) - (IF s.billing THEN 1 ELSE 0)
               + (IF InBilling(zone) THEN 1 ELSE 0)
    <3> HIDE DEF Moved
    <3>1. Cardinality(InBillingNow') =
            Cardinality(InBillingNow) - (IF k \in InBillingNow THEN 1 ELSE 0)
              + (IF Moved(s, zone) # NoSession /\ Moved(s, zone).billing THEN 1 ELSE 0)
      BY <1>1, <2>1, <2>2, BillingCardinality
    <3>2. /\ Cardinality(InBillingNow) \in Nat
          /\ k \in InBillingNow => Cardinality(InBillingNow) > 0
      BY <1>1, <2>1, <2>2, BillingCardinality
    <3> QED
      BY <1>1, <2>2, <3>1, <3>2
  <2>5. CountAfterMove(s, zone) =
          billingCount - (IF s.billing THEN 1 ELSE 0) + (IF InBilling(zone) THEN 1 ELSE 0)
    BY <1>1, <2>4 DEF CountAfterMove, CountAfterExit, EntersBilling, StillBilling,
                      BillingCountExact
  <2>6. billingCount' = Cardinality(InBillingNow')
    BY <2>1, <2>4, <2>5 DEF BillingCountExact
  <2>7. billingCount' \in Nat
    BY <1>1, <2>1, <2>4, <2>5 DEF BillingCountExact
  <2>8. BillingCountExact'
    <3>1. \A j \in Tracks : active'[j] # NoSession =>
            (active'[j].billing <=> InBilling(active'[j].zone))
      BY <2>2, <2>3 DEF BillingCountExact
    <3> QED
      BY <2>6, <3>1 DEF BillingCountExact, InBilling
  <2>9. out' \in Seq(GoodEvents(billingCount'))
    <3>1. MoveEvents(s, zone, staff) \in Seq(GoodEvents(billingCount'))
      BY <1>1, <2>1, <2>7, MoveEventsGood
    <3>2. before \in Seq(GoodEvents(billingCount'))
      BY <2>7, PlainIsGood, SeqOfSubset
    <3> QED
      BY <2>1, <3>1, <3>2, ConcatProperties
  <2> QED
    BY <1>1, <2>1, <2>2, <2>3, <2>7, <2>8, <2>9
<1>3. CASE zone = s.zone
  <2> DEFINE t == IF DwellDue(s) THEN [s EXCEPT !.dwelt = time] ELSE s
  <2> DEFINE dwell == IF DwellDue(s)
                      THEN << Built("ZONE_DWELL", s.vid, zone, time - s.since, staff, 0) >>
                      ELSE << >>
  <2>1. /\ active' = [active EXCEPT ![k] = t]
        /\ billingCount' = billingCount
        /\ out' = before \o dwell
    BY <1>3 DEF TrackZone
  <2>2. /\ t \in Session /\ t.since = s.since /\ t.vid = s.vid
        /\ t.zone = s.zone /\ t.billing = s.billing
    BY <1>1 DEF Session
  <2>3. dwell \in Seq(GoodEvents(billingCount'))
    <3>1. CASE DwellDue(s)
      <4>1. time - s.since \in Nat /\ s.zone # NoZone /\ s.vid \in Visitors
        BY <1>1, <3>1 DEF DwellDue, Session
      <4>2. Built("ZONE_DWELL", s.vid, zone, time - s.since, staff, 0) \in PlainEvents
        BY <1>1, <1>3, <4>1, BuiltPlain
             DEF EventTypes, NoZoneTypes, RequireZoneTypes, InstantTypes
      <4> QED
        BY <1>1, <2>1, <3>1, <4>2, PlainIsGood
    <3>2. CASE ~DwellDue(s)
      BY <3>2
    <3> QED
      BY <3>1, <3>2
  <2> HIDE DEF t, dwell
  <2>4. \A j \in Tracks : active'[j] = IF j = k THEN t ELSE active[j]
    BY <1>1, <2>1
  <2>5. Cardinality(InBillingNow') = Cardinality(InBillingNow)
    <3>1. /\ Cardinality(InBillingNow) \in Nat
          /\ Cardinality(InBillingNow') =
               Cardinality(InBillingNow) - (IF k \in InBillingNow THEN 1 ELSE 0)
                 + (IF t # NoSession /\ t.billing THEN 1 ELSE 0)
      BY <1>1, <2>1, <2>2, BillingCardinality
    <3> QED
      BY <1>1, <2>2, <3>1
  <2>6. BillingCountExact'
    <3>1. \A j \in Tracks : active'[j] # NoSession =>
            (active'[j].billing <=> InBilling(active'[j].zone))
      BY <2>2, <2>4 DEF BillingCountExact
    <3> QED
      BY <2>1, <2>5, <3>1 DEF BillingCountExact, InBilling
  <2>7. out' \in Seq(GoodEvents(billingCount'))
    <3>1. before \in Seq(GoodEvents(billingCount'))
      BY <1>1, <2>1, PlainIsGood, SeqOfSubset
    <3> QED
      BY <2>1, <2>3, <3>1, ConcatProperties
  <2> QED
    BY <1>1, <2>1, <2>2, <2>4, <2>6, <2>7
<1> QED
  BY <1>2, <1>3

-----------------------------------------------------------------------------
\* The calls.

\* The inductive invariant: the count is exact because every session's flag says
\* whether its zone is a billing zone, and the events are right because it is.
Registry == TypeOK /\ BillingCountExact /\ EventsWellFormed

\* Pruning leaves records, and none where there was none.
LEMMA GalleryType ==
    ASSUME NEW g \in [Visitors -> Record \cup {NoRecord}], NEW ttl
    PROVE  /\ Pruned(g, ttl) \in [Visitors -> Record \cup {NoRecord}]
           /\ \A w \in Visitors : g[w] = NoRecord => Pruned(g, ttl)[w] = NoRecord
  BY DEF Pruned

LEMMA NewRecordType ==
    ASSUME time \in Nat, NEW look \in Looks \cup {NoLook}, NEW cam \in Cameras
    PROVE  NewRecord(look, cam) \in Record
  BY DEF NewRecord, Record

LEMMA OpenedType ==
    ASSUME NEW v \in Visitors, NEW cam \in Cameras, NEW look \in Looks \cup {NoLook}
    PROVE  /\ Opened(v, cam, look) \in Session
           /\ Opened(v, cam, look).since = 0
           /\ Opened(v, cam, look).vid = v
           /\ Opened(v, cam, look).billing = FALSE
           /\ ~InBilling(Opened(v, cam, look).zone)
  BY TrackerAssumption DEF Opened, Session, NoTime, InBilling

\* The parts of Registry' that TrackZoneKeeps and GalleryType give.
LEMMA RegistryFromParts ==
    ASSUME TypeOK, UNCHANGED time,
           active' \in [Tracks -> Session \cup {NoSession}],
           \A j \in Tracks : active'[j] # NoSession => active'[j].since <= time' /\ active'[j].vid \in used',
           billingCount' \in Nat,
           BillingCountExact',
           out' \in Seq(GoodEvents(billingCount')),
           used' \subseteq Visitors,
           exited' \in [Visitors -> Record \cup {NoRecord}],
           present' \in [Visitors -> Record \cup {NoRecord}],
           \A v \in Visitors \ used' : exited'[v] = NoRecord /\ present'[v] = NoRecord
    PROVE  Registry'
<1>1. /\ out' \in Seq(OutEvent)
      /\ \A i \in DOMAIN out' :
           /\ FieldRules(out'[i])
           /\ out'[i].depth <= billingCount' - (IF out'[i].depth > 0 THEN 1 ELSE 0)
  BY GoodOut
<1>2. EventsWellFormed'
  BY <1>1, Zenon DEF EventsWellFormed, FieldRules, ZoneRule, DepthRule, DwellRule
<1>3. TypeOK'
  BY <1>1 DEF TypeOK, OutEvent, Session, Record
<1> QED
  BY <1>2, <1>3 DEF Registry

\* process, for a track the registry follows already.
LEMMA FollowKeeps ==
    ASSUME Registry, NEW k \in Tracks, NEW zone \in Zones \cup {NoZone},
           NEW staff \in BOOLEAN, Follow(k, zone, staff), UNCHANGED time
    PROVE  Registry'
<1>1. TypeOK /\ BillingCountExact
  BY DEF Registry
<1>2. /\ active[k] \in Session
      /\ active[k].since <= time
      /\ active[k].vid \in used
      /\ active[k].billing <=> InBilling(active[k].zone)
      /\ active[k].billing <=> k \in InBillingNow
  BY <1>1 DEF Follow, TypeOK, BillingCountExact, InBillingNow
<1>3. TrackZone(k, active[k], zone, staff, << >>) /\ UNCHANGED <<exited, present, used>>
  BY DEF Follow
<1>4. << >> \in Seq(PlainEvents)
  OBVIOUS
<1>5. /\ active' \in [Tracks -> Session \cup {NoSession}]
      /\ \A j \in Tracks : active'[j] # NoSession => active'[j].since <= time' /\ active'[j].vid \in used'
      /\ billingCount' \in Nat
      /\ BillingCountExact'
      /\ out' \in Seq(GoodEvents(billingCount'))
  <2>1. used' = used
    BY <1>3
  <2> QED
    BY <1>1, <1>2, <1>3, <1>4, <2>1, TrackZoneKeeps
<1>6. /\ used' \subseteq Visitors
      /\ exited' \in [Visitors -> Record \cup {NoRecord}]
      /\ present' \in [Visitors -> Record \cup {NoRecord}]
      /\ \A v \in Visitors \ used' : exited'[v] = NoRecord /\ present'[v] = NoRecord
  BY <1>1, <1>3 DEF TypeOK
<1> QED
  BY <1>1, <1>5, <1>6, RegistryFromParts

\* process, for a person another camera has just seen.
LEMMA LinkKeeps ==
    ASSUME Registry, NEW k \in Tracks, NEW cam \in Cameras, NEW look \in Looks,
           NEW v \in Visitors, Link(k, cam, look, v), UNCHANGED time
    PROVE  Registry'
<1> DEFINE t == Opened(v, cam, NoLook)
<1>1. TypeOK /\ BillingCountExact
  BY DEF Registry
<1>2. /\ active[k] = NoSession
      /\ active' = [active EXCEPT ![k] = t]
      /\ out' = << >>
      /\ UNCHANGED <<exited, present, billingCount, used>>
  BY DEF Link
<1>3. /\ active \in [Tracks -> Session \cup {NoSession}]
      /\ time \in Nat /\ billingCount \in Nat
      /\ \A j \in Tracks : active[j] # NoSession => active[j].since <= time /\ active[j].vid \in used
  BY <1>1 DEF TypeOK
<1>4. t \in Session /\ t.since = 0 /\ t.vid = v /\ t.billing = FALSE /\ ~InBilling(t.zone)
  <2>1. NoLook \in Looks \cup {NoLook}
    OBVIOUS
  <2> QED
    BY <2>1, OpenedType, Zenon
<1> HIDE DEF t
<1>5. \A j \in Tracks : active'[j] = IF j = k THEN t ELSE active[j]
  BY <1>2, <1>3
<1>6. Cardinality(InBillingNow') = Cardinality(InBillingNow)
  <2>1. k \notin InBillingNow
    BY <1>2 DEF InBillingNow
  <2>2. /\ Cardinality(InBillingNow) \in Nat
        /\ Cardinality(InBillingNow') =
             Cardinality(InBillingNow) - (IF k \in InBillingNow THEN 1 ELSE 0)
               + (IF t # NoSession /\ t.billing THEN 1 ELSE 0)
    BY <1>2, <1>3, <1>4, BillingCardinality
  <2> QED
    BY <1>4, <2>1, <2>2
<1>7. BillingCountExact'
  BY <1>1, <1>2, <1>4, <1>5, <1>6 DEF BillingCountExact, InBilling
<1>8. out' \in Seq(GoodEvents(billingCount'))
  BY <1>2
<1>9. /\ used' \subseteq Visitors
      /\ exited' \in [Visitors -> Record \cup {NoRecord}]
      /\ present' \in [Visitors -> Record \cup {NoRecord}]
      /\ \A w \in Visitors \ used' : exited'[w] = NoRecord /\ present'[w] = NoRecord
  BY <1>1, <1>2 DEF TypeOK
<1>10. /\ active' \in [Tracks -> Session \cup {NoSession}]
       /\ \A j \in Tracks : active'[j] # NoSession => active'[j].since <= time' /\ active'[j].vid \in used'
       /\ billingCount' \in Nat
  <2>1. v \in used
    BY <1>1 DEF Link, Duplicates, Fresh, TypeOK
  <2> QED
    BY <1>2, <1>3, <1>4, <1>5, <2>1
<1> QED
  BY <1>1, <1>7, <1>8, <1>9, <1>10, RegistryFromParts

\* A session just opened, with at most the event that opens it.
LEMMA OpenKeeps ==
    ASSUME Registry, NEW k \in Tracks, NEW v \in Visitors, NEW cam \in Cameras,
           NEW look \in Looks, NEW zone \in Zones \cup {NoZone}, NEW staff \in BOOLEAN,
           NEW before \in Seq(PlainEvents), active[k] = NoSession,
           Open(k, v, cam, look, zone, staff, before), UNCHANGED time,
           used' \subseteq Visitors, used \cup {v} \subseteq used',
           exited' \in [Visitors -> Record \cup {NoRecord}],
           \A w \in Visitors \ used' : exited'[w] = NoRecord
    PROVE  Registry'
<1>1. TypeOK /\ BillingCountExact
  BY DEF Registry
<1> DEFINE s == Opened(v, cam, look)
<1>2. /\ s \in Session /\ s.since <= time /\ s.vid = v
      /\ s.billing <=> InBilling(s.zone)
      /\ s.billing <=> k \in InBillingNow
  <2>1. s \in Session /\ s.since = 0 /\ s.vid = v /\ s.billing = FALSE /\ ~InBilling(s.zone)
    <3>1. look \in Looks \cup {NoLook}
      OBVIOUS
    <3> QED
      BY <3>1, OpenedType, Zenon
  <2>2. k \notin InBillingNow /\ time \in Nat
    BY <1>1 DEF InBillingNow, TypeOK
  <2> HIDE DEF s
  <2> QED
    BY <2>1, <2>2
<1>3. TrackZone(k, s, zone, staff, before)
  BY DEF Open
<1> HIDE DEF s
<1>4. /\ active' \in [Tracks -> Session \cup {NoSession}]
      /\ \A j \in Tracks : active'[j] # NoSession => active'[j].since <= time' /\ active'[j].vid \in used'
      /\ billingCount' \in Nat
      /\ BillingCountExact'
      /\ out' \in Seq(GoodEvents(billingCount'))
  BY <1>1, <1>2, <1>3, TrackZoneKeeps
<1>5. /\ present' \in [Visitors -> Record \cup {NoRecord}]
      /\ \A w \in Visitors \ used' : present'[w] = NoRecord
  <2>1. NewRecord(look, cam) \in Record
    BY <1>1, NewRecordType DEF TypeOK
  <2>2. /\ present \in [Visitors -> Record \cup {NoRecord}]
        /\ used \in SUBSET Visitors
        /\ \A w \in Visitors \ used : present[w] = NoRecord
    BY <1>1 DEF TypeOK
  <2>3. present' = Pruned([present EXCEPT ![v] = NewRecord(look, cam)], CrossCamTtl)
    BY DEF Open
  <2> DEFINE g == [present EXCEPT ![v] = NewRecord(look, cam)]
  <2>4. /\ g \in [Visitors -> Record \cup {NoRecord}]
        /\ \A w \in Visitors \ used' : g[w] = NoRecord
    BY <2>1, <2>2
  <2> HIDE DEF g
  <2>5. /\ Pruned(g, CrossCamTtl) \in [Visitors -> Record \cup {NoRecord}]
        /\ \A w \in Visitors : g[w] = NoRecord => Pruned(g, CrossCamTtl)[w] = NoRecord
    BY <2>4, GalleryType
  <2> QED
    BY <2>3, <2>4, <2>5 DEF g
<1> QED
  BY <1>1, <1>4, <1>5, RegistryFromParts

\* process, for somebody recognised at the entry.  That his id is one given
\* out before follows from the record he left.
LEMMA ReturnKeeps ==
    ASSUME Registry, NEW k \in Tracks, NEW cam \in Cameras, NEW look \in Looks,
           NEW zone \in Zones \cup {NoZone}, NEW staff \in BOOLEAN, NEW v \in Visitors,
           Return(k, cam, look, zone, staff, v), UNCHANGED time
    PROVE  Registry'
<1> DEFINE before == << Instant("REENTRY", v, NoZone, staff) >>
<1>1. TypeOK
  BY DEF Registry
<1>2. /\ active[k] = NoSession
      /\ v \in Returning(look)
      /\ Open(k, v, cam, look, zone, staff, before)
      /\ exited' = Pruned([exited EXCEPT ![v] = NoRecord], ReentryTtl)
      /\ used' = used
  BY DEF Return
<1>3. before \in Seq(PlainEvents)
  <2>1. Built("REENTRY", v, NoZone, 0, staff, 0) \in PlainEvents
    BY <1>1, BuiltPlain DEF TypeOK, EventTypes, RequireZoneTypes
  <2> QED
    BY <2>1 DEF Instant
<1>4. /\ exited \in [Visitors -> Record \cup {NoRecord}]
      /\ used \in SUBSET Visitors
      /\ \A w \in Visitors \ used : exited[w] = NoRecord
  BY <1>1 DEF TypeOK
<1>5. v \in used
  BY <1>2, <1>4 DEF Returning, Fresh
<1>6. /\ exited' \in [Visitors -> Record \cup {NoRecord}]
      /\ \A w \in Visitors \ used' : exited'[w] = NoRecord
  <2> DEFINE g == [exited EXCEPT ![v] = NoRecord]
  <2>1. /\ g \in [Visitors -> Record \cup {NoRecord}]
        /\ \A w \in Visitors \ used : g[w] = NoRecord
    BY <1>4
  <2> HIDE DEF g
  <2>2. /\ Pruned(g, ReentryTtl) \in [Visitors -> Record \cup {NoRecord}]
        /\ \A w \in Visitors : g[w] = NoRecord => Pruned(g, ReentryTtl)[w] = NoRecord
    BY <2>1, GalleryType
  <2> QED
    BY <1>2, <2>1, <2>2 DEF g
<1> HIDE DEF before
<1> QED
  BY <1>2, <1>3, <1>4, <1>5, <1>6, OpenKeeps

\* process, for somebody new.
LEMMA EnterKeeps ==
    ASSUME Registry, NEW k \in Tracks, NEW cam \in Cameras, NEW look \in Looks,
           NEW zone \in Zones \cup {NoZone}, NEW staff \in BOOLEAN, NEW v \in Visitors,
           Enter(k, cam, look, zone, staff, v), UNCHANGED time
    PROVE  Registry'
<1> DEFINE before == IF cam \in EntryCameras
                     THEN << Instant("ENTRY", v, NoZone, staff) >> ELSE << >>
<1>1. TypeOK
  BY DEF Registry
<1>2. /\ active[k] = NoSession
      /\ used' = used \cup {v}
      /\ Open(k, v, cam, look, zone, staff, before)
      /\ exited' = Pruned(exited, ReentryTtl)
  BY DEF Enter
<1>3. before \in Seq(PlainEvents)
  <2>1. Built("ENTRY", v, NoZone, 0, staff, 0) \in PlainEvents
    BY <1>1, BuiltPlain DEF TypeOK, EventTypes, RequireZoneTypes
  <2> QED
    BY <2>1 DEF Instant
<1>4. /\ exited \in [Visitors -> Record \cup {NoRecord}]
      /\ used \in SUBSET Visitors
      /\ \A w \in Visitors \ used : exited[w] = NoRecord
  BY <1>1 DEF TypeOK
<1>5. /\ exited' \in [Visitors -> Record \cup {NoRecord}]
      /\ \A w \in Visitors \ used : exited'[w] = NoRecord
  <2>1. /\ Pruned(exited, ReentryTtl) \in [Visitors -> Record \cup {NoRecord}]
        /\ \A w \in Visitors : exited[w] = NoRecord => Pruned(exited, ReentryTtl)[w] = NoRecord
    BY <1>4, GalleryType
  <2> QED
    BY <1>2, <1>4, <2>1
<1> HIDE DEF before
<1> QED
  BY <1>2, <1>3, <1>4, <1>5, OpenKeeps

\* handle_lost_track.
LEMMA LostKeeps ==
    ASSUME Registry, NEW k \in Tracks, NEW entry \in BOOLEAN, NEW staff \in BOOLEAN,
           HandleLostTrack(k, entry, staff), UNCHANGED time
    PROVE  Registry'
<1> DEFINE s == active[k]
<1>1. TypeOK /\ BillingCountExact
  BY DEF Registry
<1>2. /\ s # NoSession
      /\ active' = [active EXCEPT ![k] = NoSession]
      /\ billingCount' = IF s.billing /\ billingCount > 0 THEN billingCount - 1 ELSE billingCount
      /\ out' = IF entry THEN << Instant("EXIT", s.vid, NoZone, staff) >> ELSE << >>
      /\ used' = used
  BY DEF HandleLostTrack
<1>3. /\ active \in [Tracks -> Session \cup {NoSession}]
      /\ time \in Nat /\ billingCount \in Nat
      /\ \A j \in Tracks : active[j] # NoSession => active[j].since <= time /\ active[j].vid \in used
      /\ s \in Session
  BY <1>1, <1>2 DEF TypeOK
<1>4. \A j \in Tracks : active'[j] = IF j = k THEN NoSession ELSE active[j]
  BY <1>2, <1>3
<1>5. s.billing <=> k \in InBillingNow
  BY <1>2 DEF InBillingNow
<1>6. /\ s.vid \in Visitors /\ s.look \in Looks \cup {NoLook} /\ s.cam \in Cameras
      /\ s.billing \in BOOLEAN
  BY <1>3 DEF Session
<1> HIDE DEF s
<1>7. /\ Cardinality(InBillingNow) \in Nat
      /\ k \in InBillingNow => Cardinality(InBillingNow) > 0
      /\ Cardinality(InBillingNow') =
           Cardinality(InBillingNow) - (IF k \in InBillingNow THEN 1 ELSE 0)
  <2> DEFINE t == NoSession
  <2>1. t \in Session \cup {NoSession} /\ active' = [active EXCEPT ![k] = t]
    BY <1>2
  <2>2. /\ Cardinality(InBillingNow) \in Nat
        /\ k \in InBillingNow => Cardinality(InBillingNow) > 0
        /\ Cardinality(InBillingNow') =
             Cardinality(InBillingNow) - (IF k \in InBillingNow THEN 1 ELSE 0)
               + (IF t # NoSession /\ t.billing THEN 1 ELSE 0)
    <3> HIDE DEF t
    <3> QED
      BY <1>3, <2>1, BillingCardinality
  <2> QED
    BY <2>2
<1>8. BillingCountExact' /\ billingCount' \in Nat
  <2>1. billingCount' = Cardinality(InBillingNow') /\ billingCount' \in Nat
    BY <1>1, <1>2, <1>3, <1>5, <1>7 DEF BillingCountExact
  <2>2. \A j \in Tracks : active'[j] # NoSession =>
          (active'[j].billing <=> InBilling(active'[j].zone))
    BY <1>1, <1>4 DEF BillingCountExact
  <2> QED
    BY <2>1, <2>2 DEF BillingCountExact, InBilling
<1>9. out' \in Seq(GoodEvents(billingCount'))
  <2>1. Built("EXIT", s.vid, NoZone, 0, staff, 0) \in PlainEvents
    BY <1>3, <1>6, BuiltPlain DEF EventTypes, RequireZoneTypes
  <2> DEFINE e == Instant("EXIT", s.vid, NoZone, staff)
  <2>2. e \in GoodEvents(billingCount')
    BY <1>8, <2>1, PlainIsGood DEF Instant
  <2>3. out' = IF entry THEN << e >> ELSE << >>
    BY <1>2
  <2> HIDE DEF e
  <2> QED
    BY <2>2, <2>3
<1>10. /\ exited' \in [Visitors -> Record \cup {NoRecord}]
       /\ present' \in [Visitors -> Record \cup {NoRecord}]
       /\ \A w \in Visitors \ used' : exited'[w] = NoRecord /\ present'[w] = NoRecord
  <2>1. /\ exited \in [Visitors -> Record \cup {NoRecord}]
        /\ present \in [Visitors -> Record \cup {NoRecord}]
        /\ \A w \in Visitors \ used : exited[w] = NoRecord /\ present[w] = NoRecord
    BY <1>1 DEF TypeOK
  <2>2. CASE s.look = NoLook
    BY <1>2, <2>1, <2>2 DEF HandleLostTrack, s
  <2>3. CASE s.look # NoLook
    <3> DEFINE g == [exited EXCEPT ![s.vid] = NewRecord(s.look, s.cam)]
    <3>1. exited' = Pruned(g, ReentryTtl) /\ present' = Pruned(present, CrossCamTtl)
      BY <2>3 DEF HandleLostTrack, s
    <3>2. NewRecord(s.look, s.cam) \in Record
      BY <1>3, <1>6, NewRecordType
    <3>3. s.vid \in used
      BY <1>2, <1>3 DEF s
    <3>4. /\ g \in [Visitors -> Record \cup {NoRecord}]
          /\ \A w \in Visitors \ used : g[w] = NoRecord
      BY <2>1, <3>2, <3>3
    <3> HIDE DEF g
    <3>5. /\ Pruned(g, ReentryTtl) \in [Visitors -> Record \cup {NoRecord}]
          /\ \A w \in Visitors : g[w] = NoRecord => Pruned(g, ReentryTtl)[w] = NoRecord
      BY <3>4, GalleryType
    <3>6. /\ Pruned(present, CrossCamTtl) \in [Visitors -> Record \cup {NoRecord}]
          /\ \A w \in Visitors : present[w] = NoRecord => Pruned(present, CrossCamTtl)[w] = NoRecord
      BY <2>1, GalleryType
    <3> QED
      BY <1>2, <2>1, <3>1, <3>4, <3>5, <3>6
  <2> QED
    BY <2>2, <2>3
<1>11. /\ active' \in [Tracks -> Session \cup {NoSession}]
       /\ \A j \in Tracks : active'[j] # NoSession =>
            active'[j].since <= time' /\ active'[j].vid \in used'
       /\ used' \subseteq Visitors
  BY <1>1, <1>2, <1>3, <1>4 DEF TypeOK
<1> QED
  BY <1>1, <1>8, <1>9, <1>10, <1>11, RegistryFromParts

-----------------------------------------------------------------------------
\* The theorems.

LEMMA RegistryStart == Init => Registry
<1> SUFFICES ASSUME Init PROVE Registry
  OBVIOUS
<1>1. /\ time = 1
      /\ active = [k \in Tracks |-> NoSession]
      /\ exited = [v \in Visitors |-> NoRecord]
      /\ present = [v \in Visitors |-> NoRecord]
      /\ billingCount = 0 /\ used = {} /\ out = << >>
  BY DEF Init, RegistryInit
<1>2. TypeOK
  BY <1>1, TrackerAssumption DEF TypeOK
<1>3. BillingCountExact
  <2>1. InBillingNow = {}
    BY <1>1 DEF InBillingNow
  <2> QED
    BY <1>1, <2>1, FS_EmptySet DEF BillingCountExact
<1>4. EventsWellFormed
  BY <1>1 DEF EventsWellFormed
<1> QED
  BY <1>2, <1>3, <1>4 DEF Registry

LEMMA RegistryStep == Registry /\ [Next]_vars => Registry'
<1> SUFFICES ASSUME Registry, [Next]_vars PROVE Registry'
  OBVIOUS
<1>1. CASE NextFrame
  <2>1. time' \in 1..LastFrame /\ time <= time' /\ UNCHANGED registryVars
    BY <1>1, TrackerAssumption DEF NextFrame, Registry, TypeOK
  <2>2. TypeOK'
    <3>1. /\ active \in [Tracks -> Session \cup {NoSession}]
          /\ time \in Nat
          /\ \A k \in Tracks : active[k] # NoSession => active[k].since \in Nat
      BY DEF Registry, TypeOK, Session
    <3> QED
      BY <2>1, <3>1 DEF Registry, TypeOK, registryVars, OutEvent
  <2>3. BillingCountExact' /\ EventsWellFormed'
    BY <2>1 DEF Registry, registryVars, BillingCountExact, InBillingNow, InBilling,
                EventsWellFormed, FieldRules, ZoneRule, DepthRule, DwellRule
  <2> QED
    BY <2>2, <2>3 DEF Registry
<1>2. CASE Calls
  <2>1. PICK k \in Tracks, staff \in BOOLEAN :
          \/ \E cam \in Cameras, look \in Looks, zone \in Zones \cup {NoZone} :
               Process(k, cam, look, zone, staff)
          \/ \E entry \in BOOLEAN : HandleLostTrack(k, entry, staff)
    BY <1>2 DEF Calls
  <2>2. UNCHANGED time
    BY <1>2 DEF Calls
  <2>3. ASSUME NEW cam \in Cameras, NEW look \in Looks, NEW zone \in Zones \cup {NoZone},
               Process(k, cam, look, zone, staff)
        PROVE  Registry'
    <3>1. CASE Follow(k, zone, staff)
      BY <2>2, <3>1, FollowKeeps
    <3>2. ASSUME NEW v \in Visitors, Link(k, cam, look, v)
          PROVE  Registry'
      BY <2>2, <3>2, LinkKeeps
    <3>3. ASSUME NEW v \in Visitors, Return(k, cam, look, zone, staff, v)
          PROVE  Registry'
      BY <2>2, <3>3, ReturnKeeps
    <3>4. ASSUME NEW v \in Visitors, Enter(k, cam, look, zone, staff, v)
          PROVE  Registry'
      BY <2>2, <3>4, EnterKeeps
    <3> QED
      BY <2>3, <3>1, <3>2, <3>3, <3>4 DEF Process
  <2>4. ASSUME NEW entry \in BOOLEAN, HandleLostTrack(k, entry, staff)
        PROVE  Registry'
    BY <2>2, <2>4, LostKeeps
  <2> QED
    BY <2>1, <2>3, <2>4
<1>3. CASE UNCHANGED vars
  BY <1>3 DEF Registry, vars, registryVars, TypeOK, BillingCountExact, InBillingNow, InBilling,
              EventsWellFormed, FieldRules, ZoneRule, DepthRule, DwellRule, OutEvent
<1> QED
  BY <1>1, <1>2, <1>3 DEF Next

\* Types: whatever its caller does, the registry and its gallery hold sessions
\* and records of visitors whose id was given out (tracker.py, reid.py).
THEOREM TrackerTypeCorrect == Spec => []TypeOK
<1>1. Registry => TypeOK
  BY DEF Registry
<1> QED
  BY RegistryStart, RegistryStep, <1>1, PTL DEF Spec

\* The count of people in billing is exact: the guards "if _billing_count > 0"
\* of tracker.py never hide a decrement that came too often.
THEOREM BillingCounted == Spec => []BillingCountExact
<1>1. Registry => BillingCountExact
  BY DEF Registry
<1> QED
  BY RegistryStart, RegistryStep, <1>1, PTL DEF Spec

\* The API accepts the fields of every event the registry builds, and a queue
\* that is reported is no longer than the other people in billing.
THEOREM EventsAccepted == Spec => []EventsWellFormed
<1>1. Registry => EventsWellFormed
  BY DEF Registry
<1> QED
  BY RegistryStart, RegistryStep, <1>1, PTL DEF Spec

=============================================================================
