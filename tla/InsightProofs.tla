--------------------------- MODULE InsightProofs ----------------------------
(***************************************************************************)
(* What the endpoints answer in numbers, for every set of calls, events,   *)
(* transactions, visitors and stores: the types of all that calls find     *)
(* out, the scores of the heat map, which are percentages, and how far an  *)
(* average dwell can be off.                                               *)
(***************************************************************************)
EXTENDS ReaderProofs

-----------------------------------------------------------------------------
\* How far a sum of dwells may be ahead of its count.  The two commands of an
\* event are one after the other in a pipeline: a request is half way at a zone
\* when the first has been executed and the second has not, and a failure leaves
\* it there for good.

LongestExists == \E e \in Events : \A f \in Events : f.dwell <= e.dwell

Half(r, i) == <<i, "dwellCount">> \in staged[r] /\ <<i, "dwellSum">> \notin staged[r]
HalfWay(r, s, z) ==
    \E i \in new[r] : Half(r, i) /\ batch[r][i].store = s /\ batch[r][i].zone = z

\* No sum is executed after its count, and no other command between the two.
InOrder ==
    \A r \in Requests : \A i \in new[r] :
        /\ <<i, "dwellSum">> \in staged[r] => <<i, "dwellCount">> \in staged[r]
        /\ Half(r, i) => left[r] = {} /\ \A c \in staged[r] : i <= c[1]

\* The requests that may have added to a sum more than to its count.
Ahead(s, z) == {r \in Requests : pc[r] = "done" \/ HalfWay(r, s, z)}

\* A sum of n dwells and one more for each of k requests.
Within(sum, n, k) == sum <= (n + k) * LongestDwell

SumsAhead ==
    \A s \in Stores, z \in Zones :
        Within(dwellSum[s][z], dwellCount[s][z], Cardinality(Ahead(s, z)))

CountsGrow ==
    \A s \in Stores, z \in Zones :
        dwellCount'[s][z] \in Nat /\ dwellCount[s][z] <= dwellCount'[s][z]

LEMMA LongestOfAll ==
    ASSUME LongestExists
    PROVE  LongestDwell \in Nat /\ \A e \in Events : e.dwell \in 0..LongestDwell
<1>1. \A e \in Events : e.dwell \in Nat
  BY EventAssumption DEF Event
<1>2. \E d \in {e.dwell : e \in Events} : \A e \in Events : e.dwell <= d
  BY DEF LongestExists
<1>3. LongestDwell \in {e.dwell : e \in Events} /\ \A e \in Events : e.dwell <= LongestDwell
  BY <1>2 DEF LongestDwell
<1> QED
  BY <1>1, <1>3

\* More dwells counted, or more requests ahead, allow for more.
LEMMA WithinMore ==
    ASSUME LongestExists, NEW n \in Nat, NEW k \in Nat, NEW sum \in Nat, Within(sum, n, k)
    PROVE  /\ \A m, j \in Nat : n + k <= m + j => Within(sum, m, j)
           /\ \A t, j \in Nat, d \in 0..LongestDwell :
                t = sum + d /\ k < j => Within(t, n, j)
<1>1. LongestDwell \in Nat
  BY LongestOfAll
<1>2. ASSUME NEW a \in Nat, NEW b \in Nat, NEW m \in Nat, a <= b
      PROVE  a * m <= b * m /\ (a + 1) * m = a * m + m /\ a * m \in Nat
  BY <1>2
<1> DEFINE l == LongestDwell
<1>3. ASSUME NEW m \in Nat, NEW j \in Nat, n + k <= m + j
      PROVE  Within(sum, m, j)
  <2>1. n + k \in Nat /\ m + j \in Nat
    OBVIOUS
  <2>2. (n + k) * l <= (m + j) * l /\ (n + k) * l \in Nat /\ (m + j) * l \in Nat
    BY <1>1, <1>2, <1>3, <2>1
  <2> QED
    BY <2>2 DEF Within
<1>4. ASSUME NEW t \in Nat, NEW j \in Nat, NEW d \in 0..l, t = sum + d, k < j
      PROVE  Within(t, n, j)
  <2>1. n + k \in Nat /\ n + j \in Nat /\ (n + k) + 1 <= n + j /\ (n + k) + 1 \in Nat
    BY <1>4
  <2>2. ((n + k) + 1) * l = (n + k) * l + l /\ (n + k) * l \in Nat
    BY <1>1, <1>2, <2>1
  <2>3. ((n + k) + 1) * l <= (n + j) * l /\ (n + j) * l \in Nat
    BY <1>1, <1>2, <2>1
  <2>4. sum <= (n + k) * l
    BY DEF Within
  <2> QED
    BY <1>1, <1>4, <2>2, <2>3, <2>4 DEF Within
<1> QED
  BY <1>3, <1>4

\* Steps that send nothing leave the dwells alone.
LEMMA DwellsFrame ==
    ASSUME IsFiniteSet(Requests), LongestExists, TypeOK, InOrder, SumsAhead,
           NEW r \in Requests, UNCHANGED <<dwellSum, dwellCount>>,
           \A q \in Requests \ {r} : /\ pc'[q] = pc[q] /\ left'[q] = left[q] /\ new'[q] = new[q]
                                     /\ staged'[q] = staged[q] /\ batch'[q] = batch[q],
           pc[r] = "done" => pc'[r] = "done",
           pc'[r] = "done" \/ \A i \in new[r] : ~Half(r, i),
           \A i \in new'[r] : /\ <<i, "dwellSum">> \in staged'[r]
                                    => <<i, "dwellCount">> \in staged'[r]
                              /\ ~Half(r, i)'
    PROVE  InOrder' /\ SumsAhead' /\ CountsGrow
<1>1. InOrder'
  BY DEF InOrder, Half
<1>2. dwellSum \in [Stores -> [Zones -> Nat]] /\ dwellCount \in [Stores -> [Zones -> Nat]]
  BY DEF TypeOK, RedisTypeOK
<1>3. ASSUME NEW s \in Stores, NEW z \in Zones
      PROVE  Within(dwellSum[s][z], dwellCount[s][z], Cardinality(Ahead(s, z)'))
  <2>1. Ahead(s, z) \subseteq Ahead(s, z)'
    BY DEF Ahead, HalfWay, Half
  <2>2. Ahead(s, z)' \subseteq Requests
    BY DEF Ahead
  <2> DEFINE A == Ahead(s, z)
             B == Ahead(s, z)'
  <2>3. Cardinality(A) \in Nat /\ Cardinality(B) \in Nat /\ Cardinality(A) <= Cardinality(B)
    <3> HIDE DEF A, B
    <3> QED
      BY <2>1, <2>2, FS_Subset, FS_CardinalityType DEF A, B
  <2>4. Within(dwellSum[s][z], dwellCount[s][z], Cardinality(A))
    BY DEF SumsAhead
  <2>5. dwellSum[s][z] \in Nat /\ dwellCount[s][z] \in Nat
    BY <1>2
  <2> HIDE DEF A, B
  <2>6. Within(dwellSum[s][z], dwellCount[s][z], Cardinality(B))
    BY <2>3, <2>4, <2>5, WithinMore
  <2> QED
    BY <2>6 DEF B
<1>4. SumsAhead'
  BY <1>3 DEF SumsAhead
<1>5. CountsGrow
  BY <1>2 DEF CountsGrow
<1> QED
  BY <1>1, <1>4, <1>5

\* What one command does to a sum and its count.
LEMMA CommandDwells ==
    ASSUME IsFiniteSet(Requests), LongestExists, TypeOK, Kept, StagedStored, InOrder, SumsAhead,
           NEW r \in Requests, RedisCommand(r)
    PROVE  InOrder' /\ SumsAhead' /\ CountsGrow
<1>1. /\ RequestsTypeOK /\ staged \in [Requests -> SUBSET (Nat \X Ops)]
      /\ new \in [Requests -> SUBSET Nat] /\ staged[r] \subseteq new[r] \X Ops
      /\ dwellSum \in [Stores -> [Zones -> Nat]] /\ dwellCount \in [Stores -> [Zones -> Nat]]
  BY DEF TypeOK, RequestsTypeOK, RedisTypeOK
<1>2. PICK c \in staged[r] :
        /\ \A d \in staged[r] : d # c => Precedes(c, d)
        /\ Execute(batch[r][c[1]], c[2])
        /\ staged' = [staged EXCEPT ![r] = @ \ {c}]
  BY DEF RedisCommand
<1>3. pc[r] = "redis" /\ left[r] = {} /\ UNCHANGED <<pc, batch, left, new>>
  BY DEF RedisCommand
<1> DEFINE j == c[1]
           op == c[2]
           e == batch[r][j]
<1>4. /\ staged'[r] = staged[r] \ {c}
      /\ \A q \in Requests \ {r} : staged'[q] = staged[q]
  BY <1>1, <1>2
<1>5. j \in new[r] /\ j \in Nat /\ op \in Ops /\ c = <<j, op>>
  BY <1>1
<1>6. e \in Events
  <2>1. j \in DOMAIN batch[r] /\ batch[r] \in Seq(Events)
    BY <1>1, <1>5 DEF RequestsTypeOK
  <2> QED
    BY <2>1
<1>7. /\ dwellSum' = IF op = "dwellSum"
                     THEN [dwellSum EXCEPT ![e.store][e.zone] = @ + e.dwell] ELSE dwellSum
      /\ dwellCount' = IF op = "dwellCount"
                       THEN [dwellCount EXCEPT ![e.store][e.zone] = @ + 1] ELSE dwellCount
  BY <1>2 DEF Execute
<1> HIDE DEF e
\* The command that is executed comes before all others.
<1>8. ASSUME NEW i \in new[r], Half(r, i)
      PROVE  i <= j
  BY <1>1, <1>8 DEF InOrder
<1>9. ASSUME NEW d \in staged[r], d # c
      PROVE  /\ j <= d[1]
             /\ d[1] = j => op = "ts" \/ (op = "dwellSum" /\ d[2] = "dwellCount")
  <2>1. Precedes(c, d) /\ d[1] \in Nat
    BY <1>1, <1>2, <1>9
  <2> QED
    BY <1>5, <2>1 DEF Precedes
<1>10. op = "dwellSum" => ~HalfWay(r, e.store, e.zone) /\ \A i \in new[r] : ~Half(r, i)
  <2> SUFFICES ASSUME op = "dwellSum", NEW i \in new[r], Half(r, i)
               PROVE  FALSE
    BY DEF HalfWay
  <2>1. <<i, "dwellCount">> \in staged[r] /\ <<i, "dwellSum">> \notin staged[r] /\ i <= j
    BY <1>8 DEF Half
  <2>2. <<i, "dwellCount">> # c /\ <<i, "dwellCount">>[1] = i
    BY <1>5
  <2>3. j <= i /\ i \in Nat
    BY <1>1, <1>9, <2>1, <2>2
  <2>4. i = j
    BY <1>5, <2>1, <2>3
  <2> QED
    BY <1>5, <2>1, <2>4
<1>11. InOrder'
  <2>1. \A q \in Requests \ {r} : \A i \in new[q] : Half(q, i)' = Half(q, i)
    BY <1>3, <1>4 DEF Half
  <2>2. ASSUME NEW i \in new[r], <<i, "dwellSum">> \in staged'[r]
        PROVE  <<i, "dwellCount">> \in staged'[r]
    <3>1. <<i, "dwellSum">> \in staged[r] /\ <<i, "dwellCount">> \in staged[r]
          /\ <<i, "dwellSum">> # c
      BY <1>4, <2>2 DEF InOrder
    <3>2. <<i, "dwellCount">> # c
      <4> SUFFICES ASSUME <<i, "dwellCount">> = c PROVE FALSE
        OBVIOUS
      <4>1. i = j /\ op = "dwellCount" /\ <<i, "dwellSum">>[1] = i
        BY <1>5
      <4> QED
        BY <1>9, <3>1, <4>1
    <3> QED
      BY <1>4, <3>1, <3>2
  <2>3. ASSUME NEW i \in new[r], Half(r, i)'
        PROVE  \A d \in staged'[r] : i <= d[1]
    <3>1. CASE Half(r, i)
      BY <1>4, <3>1 DEF InOrder
    <3>2. CASE ~Half(r, i)
      <4>1. <<i, "dwellSum">> = c
        BY <1>4, <2>3, <3>2 DEF Half
      <4>2. i = j
        BY <1>5, <4>1
      <4> QED
        BY <1>4, <1>9, <4>2
    <3> QED
      BY <3>1, <3>2
  <2> QED
    BY <1>3, <1>4, <2>1, <2>2, <2>3 DEF InOrder
<1>12. ASSUME NEW s \in Stores, NEW z \in Zones
       PROVE  /\ Within(dwellSum'[s][z], dwellCount'[s][z], Cardinality(Ahead(s, z)'))
              /\ dwellCount'[s][z] \in Nat /\ dwellCount[s][z] <= dwellCount'[s][z]
  <2> DEFINE A == Ahead(s, z)
             B == Ahead(s, z)'
             sum == dwellSum[s][z]
             n == dwellCount[s][z]
             here == e.store = s /\ e.zone = z
  <2>1. A \subseteq Requests /\ B \subseteq Requests
    BY DEF Ahead
  <2>2. IsFiniteSet(A) /\ IsFiniteSet(B) /\ Cardinality(A) \in Nat /\ Cardinality(B) \in Nat
    <3> HIDE DEF A, B
    <3> QED
      BY <2>1, FS_Subset, FS_CardinalityType
  <2>3. sum \in Nat /\ n \in Nat /\ Within(sum, n, Cardinality(A))
    BY <1>1 DEF SumsAhead
  <2>4. A \ {r} \subseteq B
    BY <1>3, <1>4 DEF Ahead, HalfWay, Half
  <2>5. e.dwell \in 0..LongestDwell /\ LongestDwell \in Nat
    BY <1>6, LongestOfAll
  <2>6. CASE op = "dwellSum" /\ here
    <3>1. dwellSum'[s][z] = sum + e.dwell /\ dwellCount'[s][z] = n
      BY <1>1, <1>7, <2>6
    <3>2. r \notin A /\ r \in B
      <4>1. r \notin A
        BY <1>3, <1>10, <2>6 DEF Ahead
      <4>2. <<j, "dwellSum">> = c /\ <<j, "dwellCount">> \in staged[r]
        BY <1>5, <2>6 DEF InOrder
      <4>3. <<j, "dwellCount">> \in staged'[r] /\ <<j, "dwellSum">> \notin staged'[r]
        BY <1>4, <1>5, <2>6, <4>2
      <4>4. Half(r, j)' /\ j \in new'[r]
        BY <1>3, <1>5, <4>3 DEF Half
      <4>5. batch'[r][j].store = s /\ batch'[r][j].zone = z
        BY <1>3, <2>6 DEF e
      <4>6. HalfWay(r, s, z)'
        BY <4>4, <4>5 DEF HalfWay
      <4> QED
        BY <4>1, <4>6 DEF Ahead
    <3> HIDE DEF A, B
    <3>3. Cardinality(A \cup {r}) = Cardinality(A) + 1
      BY <2>2, <3>2, FS_AddElement
    <3>4. Cardinality(A) + 1 <= Cardinality(B)
      BY <2>2, <2>4, <3>2, <3>3, FS_Subset
    <3>5. dwellSum'[s][z] \in Nat /\ Cardinality(A) < Cardinality(B)
      BY <2>2, <2>3, <2>5, <3>1, <3>4
    <3>6. Within(dwellSum'[s][z], n, Cardinality(B))
      BY <2>2, <2>3, <2>5, <3>1, <3>5, WithinMore
    <3> QED
      BY <2>3, <3>1, <3>6 DEF B
  <2>7. CASE op = "dwellCount" /\ here
    <3>1. dwellSum'[s][z] = sum /\ dwellCount'[s][z] = n + 1
      BY <1>1, <1>7, <2>7
    <3>2. Cardinality(A) <= Cardinality(B) + 1
      <4> HIDE DEF A, B
      <4>1. /\ IsFiniteSet(B \cup {r})
            /\ Cardinality(B \cup {r}) \in {Cardinality(B), Cardinality(B) + 1}
        BY <2>2, FS_AddElement
      <4>2. Cardinality(A) <= Cardinality(B \cup {r})
        BY <2>2, <2>4, <4>1, FS_Subset
      <4> QED
        BY <2>2, <4>1, <4>2
    <3> HIDE DEF A, B
    <3>3. Within(sum, n + 1, Cardinality(B))
      BY <2>2, <2>3, <3>2, WithinMore
    <3> QED
      BY <2>3, <3>1, <3>3 DEF B
  <2>8. CASE ~(op \in {"dwellSum", "dwellCount"} /\ here)
    <3>1. dwellSum'[s][z] = sum /\ dwellCount'[s][z] = n
      BY <1>1, <1>7, <2>8
    <3>2. HalfWay(r, s, z) => HalfWay(r, s, z)'
      <4> SUFFICES ASSUME NEW i \in new[r], Half(r, i), batch[r][i].store = s, batch[r][i].zone = z
                   PROVE  Half(r, i)'
        BY <1>3 DEF HalfWay
      <4>1. <<i, "dwellCount">> \in staged[r] /\ <<i, "dwellSum">> \notin staged[r]
        BY DEF Half
      <4>2. <<i, "dwellCount">> # c
        BY <1>5, <2>8 DEF e
      <4> QED
        BY <1>4, <4>1, <4>2 DEF Half
    <3>3. A \subseteq B
      BY <1>3, <2>4, <3>2 DEF Ahead
    <3> HIDE DEF A, B
    <3>4. Cardinality(A) <= Cardinality(B)
      BY <2>2, <3>3, FS_Subset
    <3>5. Within(sum, n, Cardinality(B))
      BY <2>2, <2>3, <3>4, WithinMore
    <3> QED
      BY <2>3, <3>1, <3>5 DEF B
  <2> QED
    BY <2>6, <2>7, <2>8
<1> QED
  BY <1>11, <1>12 DEF SumsAhead, CountsGrow

LEMMA RequestDwells ==
    ASSUME IsFiniteSet(Requests), LongestExists, TypeOK, Kept, StagedStored, InOrder, SumsAhead,
           NEW r \in Requests, RequestStep(r)
    PROVE  InOrder' /\ SumsAhead' /\ CountsGrow
<1> USE DEF Goto
<1>1. RequestsTypeOK /\ pc \in [Requests -> PCs] /\ staged \in [Requests -> SUBSET (Nat \X Ops)]
  BY DEF TypeOK, RequestsTypeOK
\* Enough, if r has no command under way and stages none.
<1>2. ASSUME staged[r] = {}, pc[r] # "done", UNCHANGED <<staged, dwellSum, dwellCount>>,
             \A q \in Requests \ {r} : /\ pc'[q] = pc[q] /\ left'[q] = left[q]
                                       /\ new'[q] = new[q] /\ batch'[q] = batch[q]
      PROVE  InOrder' /\ SumsAhead' /\ CountsGrow
  BY <1>2, DwellsFrame DEF Half
<1>3. CASE \/ Arrive(r) \/ InsertEvent(r) \/ CommitEvents(r) \/ UpdateSession(r)
  BY <1>1, <1>2, <1>3 DEF Arrive, Refuse, RefuseLong, Receive, InsertEvent, CommitEvents,
     UpdateSession, RequestsTypeOK, redisVars, StagedStored
<1>4. CASE \/ PipelineDone(r) \/ SkipPublish(r)
           \/ \E s \in Stores : ReadVisitors(r, s)
           \/ ReadDepth(r) \/ ReadConversions(r) \/ ReadTs(r) \/ Publish(r) \/ Respond(r)
  BY <1>1, <1>2, <1>4 DEF PipelineDone, SkipPublish, ReadVisitors, ReadDepth, ReadConversions,
     ReadTs, ReadField, Publish, Respond, redisVars, StagedStored
<1>5. CASE CommitSessions(r)
  <2>1. /\ pc[r] = "sessions" /\ staged[r] = {} /\ UNCHANGED <<batch, new, dwellSum, dwellCount>>
        /\ staged'[r] = UNION {{<<i, op>> : op \in StagedOps(batch[r][i])} : i \in new[r]}
        /\ \A q \in Requests \ {r} : /\ pc'[q] = pc[q] /\ left'[q] = left[q]
                                     /\ staged'[q] = staged[q]
    BY <1>1, <1>5 DEF CommitSessions, redisVars, StagedStored, RequestsTypeOK
  <2>2. ASSUME NEW i \in new[r]
        PROVE  <<i, "dwellSum">> \in staged'[r] <=> <<i, "dwellCount">> \in staged'[r]
    <3>1. \A op : <<i, op>> \in staged'[r] <=> op \in StagedOps(batch[r][i])
      BY <2>1
    <3>2. "dwellSum" \in StagedOps(batch[r][i]) <=> "dwellCount" \in StagedOps(batch[r][i])
      BY DEF StagedOps
    <3> QED
      BY <3>1, <3>2
  <2> QED
    BY <2>1, <2>2, DwellsFrame DEF Half
<1>6. CASE LookAtQueue(r)
  <2>1. /\ pc[r] = "redis" /\ left[r] # {} /\ UNCHANGED <<pc, batch, new, dwellSum, dwellCount>>
    BY <1>6 DEF LookAtQueue, redisVars
  <2>2. PICK i \in left[r] : staged' = [staged EXCEPT ![r] =
                               IF queueDepth[batch[r][i].store] > 0
                               THEN @ \cup {<<i, "decrDepth">>} ELSE @]
    BY <1>6 DEF LookAtQueue
  <2>3. /\ \A q \in Requests \ {r} : staged'[q] = staged[q] /\ left'[q] = left[q]
        /\ \A k, op : op # "decrDepth" => (<<k, op>> \in staged'[r] <=> <<k, op>> \in staged[r])
    BY <1>1, <1>6, <2>2 DEF LookAtQueue, RequestsTypeOK
  <2>4. \A k \in new[r] : ~Half(r, k)
    BY <2>1 DEF InOrder
  <2> QED
    BY <2>1, <2>3, <2>4, DwellsFrame DEF Half, InOrder
<1>7. CASE RedisCommand(r)
  BY <1>7, CommandDwells
<1>8. CASE Abort(r)
  <2>1. /\ pc'[r] = "done" /\ new'[r] = {} /\ UNCHANGED <<batch, dwellSum, dwellCount>>
        /\ \A q \in Requests \ {r} : /\ pc'[q] = pc[q] /\ left'[q] = left[q]
                                     /\ new'[q] = new[q] /\ staged'[q] = staged[q]
    BY <1>1, <1>8 DEF Abort, redisVars, RequestsTypeOK
  <2> QED
    BY <2>1, DwellsFrame
<1> QED
  BY <1>3, <1>4, <1>5, <1>6, <1>7, <1>8 DEF RequestStep, Advance

LEMMA ApiDwells ==
    ASSUME IsFiniteSet(Requests), LongestExists, ApiInv, Backed, InOrder, SumsAhead,
           [ApiNext]_apiVars
    PROVE  InOrder' /\ SumsAhead' /\ CountsGrow
<1>1. TypeOK /\ Kept /\ StagedStored
  BY DEF ApiInv, ApiTypeOK, Backed
<1>2. ASSUME NEW r \in Requests, RequestStep(r)
      PROVE  InOrder' /\ SumsAhead' /\ CountsGrow
  BY <1>1, <1>2, RequestDwells
<1>3. CASE \/ \E l \in Loads : LoadStep(l) /\ UNCHANGED <<ingestionVars, now>>
           \/ Tick \/ UNCHANGED apiVars
  <2>1. UNCHANGED <<pc, batch, left, new, staged, dwellSum, dwellCount>>
    BY <1>3 DEF Tick, apiVars, vars, ingestionVars, requestVars, redisVars
  <2>2. dwellCount \in [Stores -> [Zones -> Nat]]
    BY <1>1 DEF TypeOK, RedisTypeOK
  <2>3. InOrder'
    BY <2>1 DEF InOrder, Half
  <2>4. \A s, z : Ahead(s, z)' = Ahead(s, z)
    BY <2>1 DEF Ahead, HalfWay, Half
  <2>5. SumsAhead'
    BY <2>1, <2>4 DEF SumsAhead
  <2> QED
    BY <2>1, <2>2, <2>3, <2>5 DEF CountsGrow
<1> QED
  BY <1>1, <1>2, <1>3, ApiKinds

-----------------------------------------------------------------------------
\* The types of what calls find out.

\* A sum of dwells is a number, and the average is no longer than the longest.
LEMMA SumOfDwells ==
    ASSUME NEW S, IsFiniteSet(S), NEW m \in Nat, \A e \in S : e.dwell \in 0..m
    PROVE  /\ MapThenSumSet(LAMBDA e : e.dwell, S) \in Nat
           /\ MapThenSumSet(LAMBDA e : e.dwell, S) <= Cardinality(S) * m
<1> DEFINE w == [e \in S |-> e.dwell]
           A(f) == f = [T \in SUBSET S |-> IF T = {} THEN 0
                            ELSE (CHOOSE x \in T : TRUE).dwell + f[T \ {CHOOSE x \in T : TRUE}]]
           g == CHOOSE f : A(f)
<1>1. MapThenSumSet(LAMBDA e : e.dwell, S) = g[S]
  BY DEF MapThenSumSet, MapThenFoldSet
<1>2. PICK f : Adds(f, w, S)
  BY AddsExists
<1>3. ASSUME NEW h
      PROVE  Adds(h, w, S) <=> A(h)
  <2>1. \A T \in SUBSET S : T # {} => w[AnyOf(T)] = (CHOOSE x \in T : TRUE).dwell
    BY DEF AnyOf
  <2> DEFINE p == [T \in SUBSET S |-> IF T = {} THEN 0 ELSE w[AnyOf(T)] + h[Without(T)]]
             q == [T \in SUBSET S |-> IF T = {} THEN 0
                     ELSE (CHOOSE x \in T : TRUE).dwell + h[T \ {CHOOSE x \in T : TRUE}]]
  <2>2. p = q
    <3> HIDE DEF w
    <3> QED
      BY <2>1 DEF Without, AnyOf
  <2>3. /\ Adds(h, w, S) <=> h = p
        /\ A(h) <=> h = q
    <3> HIDE DEF w
    <3> QED
      BY DEF Adds
  <2> HIDE DEF p, q, w, A
  <2> QED
    BY <2>2, <2>3
<1>4. A(g)
  <2> HIDE DEF A
  <2> QED
    BY <1>2, <1>3
<1>5. Adds(g, w, S)
  <2> HIDE DEF A, g, w
  <2> QED
    BY <1>3, <1>4
<1>6. \A x \in S : w[x] \in 0..m
  OBVIOUS
<1>7. g[S] \in Nat /\ g[S] <= Cardinality(S) * m
  <2> HIDE DEF g, w
  <2> QED
    BY <1>5, <1>6, AddsBounded
<1> QED
  BY <1>1, <1>7

LEMMA LongestStored ==
    ASSUME NEW E, IsFiniteSet(E), \A e \in E : e.dwell \in Nat
    PROVE  \E m \in Nat : \A e \in E : e.dwell \in 0..m
<1> DEFINE Good(T) == \E m \in Nat : \A e \in T : e.dwell \in 0..m
           Bad == {T \in SUBSET E : ~Good(T)}
<1>1. SUFFICES ASSUME Bad # {} PROVE FALSE
  OBVIOUS
<1>2. \A U \in Bad : IsFiniteSet(U)
  BY FS_Subset
<1>3. PICK U \in Bad : \A V \in Bad : Cardinality(U) <= Cardinality(V)
  <2> HIDE DEF Bad
  <2> QED
    BY <1>1, <1>2, SmallestExists
<1>4. U \in SUBSET E /\ IsFiniteSet(U) /\ ~Good(U)
  BY <1>2
<1>5. U # {}
  BY <1>4
<1>6. AnyOf(U) \in U /\ Without(U) \in SUBSET E /\ Without(U) \notin Bad
  <2>1. Without(U) \subseteq U /\ Cardinality(Without(U)) < Cardinality(U)
        /\ Cardinality(Without(U)) \in Nat /\ Cardinality(U) \in Nat /\ AnyOf(U) \in U
    BY <1>4, <1>5, WithoutIsLess, FS_CardinalityType
  <2> HIDE DEF Bad
  <2> QED
    BY <1>3, <1>4, <2>1
<1>7. PICK m \in Nat : \A e \in Without(U) : e.dwell \in 0..m
  BY <1>6
<1> DEFINE d == AnyOf(U).dwell
           n == IF d <= m THEN m ELSE d
<1>8. d \in Nat /\ n \in Nat /\ d <= n /\ m <= n
  BY <1>4, <1>6
<1>9. \A e \in U : e.dwell \in 0..n
  <2> HIDE DEF n, d, Good, Bad
  <2>1. ASSUME NEW e \in U
        PROVE  e.dwell \in 0..n
    <3>1. CASE e = AnyOf(U)
      BY <1>8, <3>1 DEF d
    <3>2. CASE e # AnyOf(U)
      BY <1>7, <1>8, <2>1, <3>2 DEF Without
    <3> QED
      BY <3>1, <3>2
  <2> QED
    BY <2>1
<1> QED
  BY <1>4, <1>8, <1>9

\* The events table stays finite.
LEMMA TableFinite ==
    ASSUME ApiInv, IsFiniteSet(stored), [ApiNext]_apiVars
    PROVE  IsFiniteSet(stored')
<1>1. TypeOK /\ Kept
  BY DEF ApiInv, ApiTypeOK
<1>2. ASSUME NEW r \in Requests, RequestStep(r)
      PROVE  IsFiniteSet(stored')
  <2>1. stored' = stored \/ stored' = stored \cup NewEvents(r)
    BY <1>2 DEF RequestStep, Advance, Arrive, Refuse, RefuseLong, Receive, InsertEvent,
       CommitEvents, Pending, UpdateSession, CommitSessions, LookAtQueue, RedisCommand,
       PipelineDone, ReadVisitors, ReadField, ReadDepth, ReadConversions, ReadTs, Publish,
       SkipPublish, Respond, Abort
  <2>2. IsFiniteSet(NewEvents(r))
    BY <1>1, FinitelyManyNew
  <2> QED
    BY <2>1, <2>2, FS_Union
<1>3. CASE \/ \E l \in Loads : LoadStep(l) /\ UNCHANGED <<ingestionVars, now>>
           \/ Tick \/ UNCHANGED apiVars
  BY <1>3 DEF Tick, apiVars, vars, ingestionVars
<1> QED
  BY <1>1, <1>2, <1>3, ApiKinds

\* Of finitely many events there are finitely many of any kind.
LEMMA StoredSubset ==
    ASSUME IsFiniteSet(stored), NEW E, E \subseteq stored
    PROVE  IsFiniteSet(E) /\ Cardinality(E) \in Nat
  BY FS_Subset, FS_CardinalityType

LEMMA LatestIsTime ==
    ASSUME TypeOK, NEW E, E \subseteq stored
    PROVE  Latest(E) \in Nat
<1>1. E \subseteq Event
  BY EventAssumption DEF TypeOK
<1>2. CASE E = {}
  BY <1>2 DEF Latest, NoTime
<1>3. CASE E # {}
  BY <1>1, <1>3, LatestStored, EventAssumption DEF Event
<1> QED
  BY <1>2, <1>3

LEMMA MetricsTypes ==
    ASSUME NEW m \in Metrics
    PROVE  /\ \A n \in Nat : [m EXCEPT !.visitors = n] \in Metrics
           /\ \A d \in Int : [m EXCEPT !.depth = d] \in Metrics
           /\ \A t \in Nat : [m EXCEPT !.ts = t] \in Metrics
           /\ \A x \in [Zones -> Average] : [m EXCEPT !.dwell = x] \in Metrics
           /\ \A x, y \in Nat : [m EXCEPT !.abandons = x, !.joins = y] \in Metrics
           /\ \A n, k \in Nat : [m EXCEPT !.visitors = n, !.conversions = k] \in Metrics
  BY DEF Metrics

\* A metrics call that has found something out.
LEMMA FoundTypes ==
    ASSUME ReadersTypeOK, NEW c \in Calls, NEW from, NEW to \in RPCs, from # "redisHealth",
           CallGoto(c, from, to), NEW m \in Metrics, Found(c, m),
           NEW Z \in SUBSET Zones, zonesLeft' = [zonesLeft EXCEPT ![c] = Z],
           to = "entries" => m.visitors = 0,
           to = "lastJoin" => m.depth = 0,
           to = "lastTs" => m.ts = NoTime,
           Z # {} => to \in {"dwellSum", "dwellCount"}
    PROVE  ReadersTypeOK'
<1> USE DEF ReadersTypeOK, CallGoto, Found
<1>1. rpc' \in [Calls -> RPCs] /\ rpc'[c] = to /\ \A d \in Calls \ {c} : rpc'[d] = rpc[d]
  OBVIOUS
<1>2. /\ metrics' \in [Calls -> Metrics] /\ metrics'[c] = m
      /\ \A d \in Calls \ {c} : metrics'[d] = metrics[d]
  OBVIOUS
<1>3. /\ zonesLeft' \in [Calls -> SUBSET Zones] /\ zonesLeft'[c] = Z
      /\ \A d \in Calls \ {c} : zonesLeft'[d] = zonesLeft[d]
  OBVIOUS
<1>4. UNCHANGED <<funnel, health, scan>> /\ scan[c].left = {}
  OBVIOUS
<1> QED
  BY <1>1, <1>2, <1>3, <1>4

\* What the calls of Readers find out has its type.
LEMMA CallTypes ==
    ASSUME TypeOK, IsFiniteSet(stored), ReadersTypeOK, NEW c \in Calls, Call(c)
    PROVE  ReadersTypeOK'
<1>1. /\ metrics[c] \in Metrics /\ metrics[c].store \in Stores
      /\ metrics[c].dwell \in [Zones -> Average]
      /\ zonesLeft \in [Calls -> SUBSET Zones] /\ zonesLeft[c] \in SUBSET Zones
      /\ metrics = [metrics EXCEPT ![c] = metrics[c]]
      /\ zonesLeft = [zonesLeft EXCEPT ![c] = zonesLeft[c]]
  BY DEF ReadersTypeOK, Metrics
<1>2. \A from : rpc[c] = from /\ from \notin {"dwellSum", "dwellCount"} => zonesLeft[c] = {}
  BY DEF ReadersTypeOK
<1>3. /\ queueDepth \in [Stores -> Int] /\ lastEventTs \in [Stores -> Nat]
      /\ dwellSum \in [Stores -> [Zones -> Nat]] /\ dwellCount \in [Stores -> [Zones -> Nat]]
  BY DEF TypeOK, RedisTypeOK
<1>4. \A s \in Stores : /\ IsFiniteSet(CustomersOf(s)) /\ Cardinality(CustomersOf(s)) \in Nat
                        /\ \A V \in SUBSET CustomersOf(s) : Cardinality(V) \in Nat
  <2>1. \A s : CustomersOf(s) \subseteq Visitors
    BY DEF CustomersOf
  <2> QED
    BY <2>1, PosAssumption, FS_Subset, FS_CardinalityType
<1>5. ASSUME NEW s \in Stores, CountSessions(c, s)
      PROVE  ReadersTypeOK'
  <2> DEFINE n == Cardinality(CustomersOf(s))
             k == Cardinality({v \in CustomersOf(s) : sessions[v].converted})
             to == IF n = 0 THEN "entries" ELSE "queue"
             m == [NoMetrics(s) EXCEPT !.visitors = n, !.conversions = k]
  <2>1. n \in Nat /\ k \in Nat
    BY <1>4
  <2> HIDE DEF n, k
  <2>2. m \in Metrics /\ m.visitors = n
    <3>1. NoMetrics(s) \in Metrics
      BY DEF NoMetrics, Metrics, NoAverage, Average, NoTime
    <3>2. m \in Metrics
      BY <2>1, <3>1, MetricsTypes
    <3> QED
      BY <3>1, <3>2 DEF Metrics
  <2>3. CallGoto(c, "idle", to) /\ Found(c, m) /\ UNCHANGED zonesLeft
    BY <1>5 DEF CountSessions, n, k
  <2>4. to \in {"entries", "queue"} /\ (to = "entries" => n = 0) /\ zonesLeft[c] = {}
    BY <1>2, <2>3 DEF CallGoto
  <2> HIDE DEF m, to
  <2> QED
    BY <1>1, <2>2, <2>3, <2>4, FoundTypes DEF RPCs
<1>6. CASE CountEntries(c)
  <2> DEFINE V == {e.vid : e \in {f \in StoredIn(metrics[c].store, {"ENTRY"}) : ~f.staff}}
             m == [metrics[c] EXCEPT !.visitors = Cardinality(V)]
  <2>1. CallGoto(c, "entries", "queue") /\ Found(c, m) /\ UNCHANGED zonesLeft
    BY <1>6 DEF CountEntries
  <2>2. V \subseteq Visitors
    BY EventAssumption DEF StoredIn, TypeOK, Event
  <2>3. Cardinality(V) \in Nat
    BY <2>2, PosAssumption, FS_Subset, FS_CardinalityType
  <2>4. m \in Metrics /\ zonesLeft[c] = {}
    BY <1>1, <1>2, <2>1, <2>3, MetricsTypes DEF CallGoto
  <2> HIDE DEF m
  <2> QED
    BY <1>1, <2>1, <2>4, FoundTypes DEF RPCs
<1>7. CASE ReadQueue(c)
  <2> DEFINE d == queueDepth[metrics[c].store]
             to == IF d = 0 THEN "lastJoin" ELSE "scan"
             m == [metrics[c] EXCEPT !.depth = d]
  <2>1. CallGoto(c, "queue", to) /\ Found(c, m) /\ UNCHANGED zonesLeft
    BY <1>7 DEF ReadQueue
  <2>2. m \in Metrics /\ m.depth = d /\ zonesLeft[c] = {}
    BY <1>1, <1>2, <1>3, <2>1, MetricsTypes DEF CallGoto, Metrics
  <2>3. to \in {"lastJoin", "scan"} /\ (to = "lastJoin" => d = 0)
    OBVIOUS
  <2> HIDE DEF m, to
  <2> QED
    BY <1>1, <2>1, <2>2, <2>3, FoundTypes DEF RPCs
<1>8. CASE ReadLastJoin(c)
  <2> DEFINE joins == {e \in StoredIn(metrics[c].store, {"BILLING_QUEUE_JOIN"}) : e.depth > 0}
  <2>1. CallGoto(c, "lastJoin", "scan") /\ UNCHANGED zonesLeft
    BY <1>8 DEF ReadLastJoin
  <2>2. \A e \in joins : e.depth \in Int
    BY EventAssumption DEF StoredIn, TypeOK, Event
  <2>3. PICK m \in Metrics : Found(c, m)
    <3>1. CASE joins = {}
      BY <1>1, <1>8, <3>1 DEF ReadLastJoin, Found
    <3>2. CASE joins # {}
      BY <1>1, <1>8, <2>2, <3>2, MetricsTypes DEF ReadLastJoin
    <3> QED
      BY <3>1, <3>2
  <2>4. zonesLeft[c] = {}
    BY <1>2, <2>1 DEF CallGoto
  <2> QED
    BY <1>1, <2>1, <2>3, <2>4, FoundTypes DEF RPCs
<1>9. CASE ScanZones(c)
  <2> DEFINE Z == {z \in Zones : dwellSum[metrics[c].store][z] > 0}
  <2>1. /\ CallGoto(c, "scan", "dwellSum") /\ Found(c, metrics[c])
        /\ zonesLeft' = [zonesLeft EXCEPT ![c] = Z]
    BY <1>1, <1>9 DEF ScanZones, Found
  <2>2. Z \in SUBSET Zones
    OBVIOUS
  <2>3. PICK m \in Metrics : Found(c, m)
    BY <1>1, <2>1
  <2> HIDE DEF Z
  <2> QED
    BY <2>1, <2>2, <2>3, FoundTypes DEF RPCs
<1>10. CASE ReadDwellSum(c)
  <2>1. PICK z \in zonesLeft[c] \cup Appeared(c) :
          /\ Found(c, [metrics[c] EXCEPT !.dwell[z].sum = dwellSum[metrics[c].store][z]])
          /\ zonesLeft' = [zonesLeft EXCEPT ![c] = (@ \ {z})]
    BY <1>10 DEF ReadDwellSum
  <2>a. z \in Zones
    BY <1>1, <2>1 DEF Appeared
  <2> DEFINE x == [metrics[c].dwell EXCEPT ![z].sum = dwellSum[metrics[c].store][z]]
             m == [metrics[c] EXCEPT !.dwell = x]
  <2>2. x \in [Zones -> Average]
    <3>1. dwellSum[metrics[c].store][z] \in Nat
      BY <1>1, <1>3, <2>a
    <3> QED
      BY <1>1, <3>1, <2>a DEF Average
  <2>3. m \in Metrics
    <3> HIDE DEF x
    <3> QED
      BY <1>1, <2>2, MetricsTypes
  <2>4. CallGoto(c, "dwellSum", "dwellCount") /\ Found(c, m)
    BY <1>10, <2>1 DEF ReadDwellSum
  <2> DEFINE Z == zonesLeft[c] \ {z}
  <2>5. zonesLeft' = [zonesLeft EXCEPT ![c] = Z] /\ Z \in SUBSET Zones
    BY <1>1, <2>1
  <2> HIDE DEF m, Z
  <2> QED
    BY <1>1, <2>3, <2>4, <2>5, FoundTypes DEF RPCs
<1>11. CASE ReadDwellCount(c)
  <2>1. PICK z \in HalfRead(c) :
          LET n == dwellCount[metrics[c].store][z] IN
          Found(c, [metrics[c] EXCEPT
                      !.dwell[z] = IF n = 0 THEN NoAverage ELSE [@ EXCEPT !.count = n]])
    BY <1>11 DEF ReadDwellCount
  <2> DEFINE n == dwellCount[metrics[c].store][z]
             a == IF n = 0 THEN NoAverage ELSE [metrics[c].dwell[z] EXCEPT !.count = n]
             x == [metrics[c].dwell EXCEPT ![z] = a]
             m == [metrics[c] EXCEPT !.dwell = x]
  <2>2. a \in Average /\ z \in Zones
    <3>1. n \in Nat /\ metrics[c].dwell[z] \in Average /\ z \in Zones
      BY <1>1, <1>3 DEF HalfRead
    <3> HIDE DEF n
    <3> QED
      BY <3>1 DEF Average, NoAverage
  <2>3. Found(c, m)
    BY <2>1
  <2> HIDE DEF a
  <2>4. x \in [Zones -> Average]
    BY <1>1, <2>2
  <2> HIDE DEF x
  <2>5. m \in Metrics
    BY <1>1, <2>4, MetricsTypes
  <2>6. CallGoto(c, "dwellCount", "dwellSum") /\ UNCHANGED zonesLeft
    BY <1>11 DEF ReadDwellCount
  <2> HIDE DEF m
  <2> QED
    BY <1>1, <2>3, <2>5, <2>6, FoundTypes DEF RPCs
<1>12. CASE AverageDwells(c)
  <2> DEFINE dwells(z) == {e \in StoredIn(metrics[c].store, {"ZONE_DWELL"}) : e.zone = z /\ ~e.staff}
             sum(z) == MapThenSumSet(LAMBDA e : e.dwell, dwells(z))
             x == [z \in Zones |-> [sum |-> sum(z), count |-> Cardinality(dwells(z))]]
  <2>1. Found(c, metrics[c]) \/ Found(c, [metrics[c] EXCEPT !.dwell = x])
    BY <1>12, Zenon DEF AverageDwells
  <2>2. ASSUME NEW z \in Zones
        PROVE  sum(z) \in Nat /\ Cardinality(dwells(z)) \in Nat
    <3>1. /\ dwells(z) \subseteq stored /\ IsFiniteSet(dwells(z))
          /\ Cardinality(dwells(z)) \in Nat
      BY StoredSubset DEF StoredIn
    <3>2. \A e \in dwells(z) : e.dwell \in Nat
      BY <3>1, EventAssumption DEF TypeOK, Event
    <3> HIDE DEF dwells
    <3>3. PICK m \in Nat : \A e \in dwells(z) : e.dwell \in 0..m
      BY <3>1, <3>2, LongestStored
    <3>4. MapThenSumSet(LAMBDA e : e.dwell, dwells(z)) \in Nat
      BY <3>1, <3>3, SumOfDwells, Zenon
    <3> QED
      BY <3>1, <3>4, Zenon
  <2>3. x \in [Zones -> Average]
    <3> HIDE DEF sum, dwells
    <3> QED
      BY <2>2 DEF Average
  <2> HIDE DEF x
  <2>4. PICK m \in Metrics : Found(c, m)
    BY <1>1, <2>1, <2>3, MetricsTypes
  <2>5. CallGoto(c, "dwellSum", "abandon") /\ UNCHANGED zonesLeft /\ zonesLeft[c] = {}
    BY <1>12 DEF AverageDwells
  <2> QED
    BY <1>1, <2>4, <2>5, FoundTypes DEF RPCs
<1>13. CASE CountAbandons(c)
  <2> DEFINE customers(type) == {e \in StoredIn(metrics[c].store, {type}) : ~e.staff}
             x == Cardinality(customers("BILLING_QUEUE_ABANDON"))
             y == Cardinality(customers("BILLING_QUEUE_JOIN"))
             m == [metrics[c] EXCEPT !.abandons = x, !.joins = y]
  <2>1. CallGoto(c, "abandon", "ts") /\ Found(c, m) /\ UNCHANGED zonesLeft
    BY <1>13 DEF CountAbandons
  <2>2. x \in Nat /\ y \in Nat
    BY StoredSubset DEF StoredIn
  <2> HIDE DEF x, y
  <2>3. m \in Metrics /\ zonesLeft[c] = {}
    BY <1>1, <1>2, <2>1, <2>2, MetricsTypes DEF CallGoto
  <2> HIDE DEF m
  <2> QED
    BY <1>1, <2>1, <2>3, FoundTypes DEF RPCs
<1>14. CASE ReadLastEvent(c)
  <2> DEFINE t == lastEventTs[metrics[c].store]
             to == IF t = NoTime THEN "lastTs" ELSE "metrics"
             m == [metrics[c] EXCEPT !.ts = t]
  <2>1. CallGoto(c, "ts", to) /\ Found(c, m) /\ UNCHANGED zonesLeft
    BY <1>14 DEF ReadLastEvent
  <2>2. m \in Metrics /\ m.ts = t /\ zonesLeft[c] = {}
    BY <1>1, <1>2, <1>3, <2>1, MetricsTypes DEF CallGoto, Metrics
  <2>3. to \in {"lastTs", "metrics"} /\ (to = "lastTs" => t = NoTime)
    OBVIOUS
  <2> HIDE DEF m, to
  <2> QED
    BY <1>1, <2>1, <2>2, <2>3, FoundTypes DEF RPCs
<1>15. CASE ReadLastStored(c)
  <2> DEFINE m == [metrics[c] EXCEPT !.ts = Latest(StoredIn(metrics[c].store, EventTypes))]
  <2>1. CallGoto(c, "lastTs", "metrics") /\ Found(c, m) /\ UNCHANGED zonesLeft
    BY <1>15 DEF ReadLastStored
  <2>2. Latest(StoredIn(metrics[c].store, EventTypes)) \in Nat
    BY LatestIsTime DEF StoredIn
  <2>3. m \in Metrics /\ zonesLeft[c] = {}
    BY <1>1, <1>2, <2>1, <2>2, MetricsTypes DEF CallGoto
  <2> HIDE DEF m
  <2> QED
    BY <1>1, <2>1, <2>3, FoundTypes DEF RPCs
<1>16. ASSUME NEW s \in Stores, Funnels(c, s)
       PROVE  ReadersTypeOK'
  <2>1. PICK f \in Funnel : funnel' = [funnel EXCEPT ![c] = f]
    <3> DEFINE n(V) == Cardinality(V)
               C == CustomersOf(s)
               f == [entry |-> Cardinality(C),
                     zoneVisit |-> Cardinality({v \in C : sessions[v].zones # {}}),
                     billing |-> Cardinality({v \in C : sessions[v].billing}),
                     purchase |-> Cardinality({v \in C : sessions[v].converted})]
    <3>1. funnel' = [funnel EXCEPT ![c] = f]
      BY <1>16 DEF Funnels
    <3>2. f \in Funnel
      BY <1>4 DEF Funnel
    <3> QED
      BY <3>1, <3>2
  <2>2. CallGoto(c, "idle", "funnel") /\ UNCHANGED <<metrics, health, scan, zonesLeft>>
    BY <1>16 DEF Funnels
  <2>3. zonesLeft[c] = {} /\ scan[c].left = {}
    BY <2>2 DEF CallGoto, ReadersTypeOK
  <2>4. /\ rpc' \in [Calls -> RPCs] /\ rpc'[c] = "funnel"
        /\ \A d \in Calls \ {c} : rpc'[d] = rpc[d]
    BY <2>2 DEF CallGoto, ReadersTypeOK, RPCs
  <2> QED
    BY <2>1, <2>2, <2>3, <2>4 DEF ReadersTypeOK
\* The steps of a health call.
<1>17. /\ rpc \in [Calls -> RPCs] /\ health \in [Calls -> [Stores -> Nat]]
       /\ health[c] \in [Stores -> Nat]
       /\ scan \in [Calls -> [left : SUBSET Stores, found : [Stores -> Nat]]]
       /\ scan[c].left \in SUBSET Stores /\ scan[c].found \in [Stores -> Nat]
  BY DEF ReadersTypeOK
<1>18. ASSUME NEW to \in {"redisHealth", "health"}, rpc[c] \in {"idle", "redisHealth"},
              rpc' = [rpc EXCEPT ![c] = to], UNCHANGED <<metrics, funnel, zonesLeft>>,
              NEW h \in [Stores -> Nat], health' = [health EXCEPT ![c] = h],
              NEW L \in SUBSET Stores, NEW g \in [Stores -> Nat],
              scan' = [scan EXCEPT ![c] = [left |-> L, found |-> g]],
              L # {} => to = "redisHealth"
       PROVE  ReadersTypeOK'
  <2>1. /\ rpc' \in [Calls -> RPCs] /\ rpc'[c] = to
        /\ \A d \in Calls \ {c} : rpc'[d] = rpc[d]
    BY <1>17, <1>18 DEF RPCs
  <2>2. /\ scan' \in [Calls -> [left : SUBSET Stores, found : [Stores -> Nat]]]
        /\ scan'[c].left = L /\ \A d \in Calls \ {c} : scan'[d] = scan[d]
    BY <1>17, <1>18
  <2>3. health' \in [Calls -> [Stores -> Nat]]
    BY <1>17, <1>18
  <2>4. zonesLeft[c] = {}
    BY <1>18 DEF ReadersTypeOK
  <2> QED
    BY <1>18, <2>1, <2>2, <2>3, <2>4 DEF ReadersTypeOK
<1>19. CASE HealthFromDb(c)
  <2> DEFINE h == [s \in Stores |-> Latest(StoredIn(s, EventTypes))]
  <2>1. h \in [Stores -> Nat]
    BY LatestIsTime DEF StoredIn
  <2>2. PICK k \in [Stores -> Nat] : health' = [health EXCEPT ![c] = k]
    BY <1>17, <1>19, <2>1 DEF HealthFromDb
  <2>3. NoScan.found \in [Stores -> Nat]
        /\ scan' = [scan EXCEPT ![c] = [left |-> Stores, found |-> NoScan.found]]
    <3>1. [NoScan EXCEPT !.left = Stores] = [left |-> Stores, found |-> NoScan.found]
      BY DEF NoScan
    <3>2. NoScan.found \in [Stores -> Nat]
      BY DEF NoScan, NoTime
    <3> QED
      BY <1>19, <3>1, <3>2 DEF HealthFromDb
  <2>4. /\ rpc[c] = "idle" /\ rpc' = [rpc EXCEPT ![c] = "redisHealth"]
        /\ UNCHANGED <<metrics, funnel, zonesLeft>>
    BY <1>19 DEF HealthFromDb, CallGoto
  <2> QED
    BY <1>18, <2>2, <2>3, <2>4
<1>20. CASE HealthFromRedis(c)
  <2>1. PICK s \in scan[c].left :
          scan' = [scan EXCEPT ![c] =
                     [left |-> scan[c].left \ {s},
                      found |-> [scan[c].found EXCEPT ![s] = lastEventTs[s]]]]
    BY <1>20 DEF HealthFromRedis
  <2> DEFINE L == scan[c].left \ {s}
             g == [scan[c].found EXCEPT ![s] = lastEventTs[s]]
  <2>2. L \in SUBSET Stores /\ g \in [Stores -> Nat]
    BY <1>3, <1>17
  <2>3. scan' = [scan EXCEPT ![c] = [left |-> L, found |-> g]]
    BY <2>1
  <2>4. /\ rpc[c] = "redisHealth" /\ rpc' = [rpc EXCEPT ![c] = "redisHealth"]
        /\ health' = [health EXCEPT ![c] = health[c]]
        /\ UNCHANGED <<metrics, funnel, zonesLeft>>
    BY <1>17, <1>20 DEF HealthFromRedis
  <2> HIDE DEF L, g
  <2> QED
    BY <1>17, <1>18, <2>2, <2>3, <2>4
<1>21. CASE HealthAnswered(c)
  <2> DEFINE h == [s \in Stores |-> IF scan[c].found[s] = NoTime THEN health[c][s]
                                    ELSE scan[c].found[s]]
  <2>1. h \in [Stores -> Nat]
    BY <1>17
  <2>2. health' \in {[health EXCEPT ![c] = h], [health EXCEPT ![c] = health[c]]}
    BY <1>17, <1>21 DEF HealthAnswered
  <2> HIDE DEF h
  <2>3. PICK k \in [Stores -> Nat] : health' = [health EXCEPT ![c] = k]
    BY <1>17, <2>1, <2>2
  <2>4. NoScan.found \in [Stores -> Nat]
        /\ scan' = [scan EXCEPT ![c] = [left |-> {}, found |-> NoScan.found]]
    BY <1>21 DEF HealthAnswered, NoScan, NoTime
  <2>5. /\ rpc[c] = "redisHealth" /\ rpc' = [rpc EXCEPT ![c] = "health"]
        /\ UNCHANGED <<metrics, funnel, zonesLeft>>
    BY <1>21 DEF HealthAnswered, CallGoto
  <2> QED
    BY <1>18, <2>3, <2>4, <2>5
<1> QED
  BY <1>5, <1>6, <1>7, <1>8, <1>9, <1>10, <1>11, <1>12, <1>13, <1>14, <1>15, <1>16, <1>19,
     <1>20, <1>21 DEF Call

-----------------------------------------------------------------------------
\* The scores of the heat map.

\* Rounding a quotient keeps it within whole bounds.
LEMMA RoundWithin ==
    ASSUME NEW n \in Nat, NEW d \in Nat \ {0}
    PROVE  /\ Round(n, d) \in Nat
           /\ \A k \in Nat : /\ n <= k * d => Round(n, d) <= k
                             /\ k * d <= n => k <= Round(n, d)
<1> DEFINE q == n \div d
           r == n % d
<1>1. q \in Nat /\ r \in Nat /\ r < d /\ n = q * d + r
  BY Z3
<1>2. Round(n, d) = IF 2 * r > d \/ (2 * r = d /\ q % 2 = 1) THEN q + 1 ELSE q
  BY DEF Round
<1> HIDE DEF q, r
<1>3. Round(n, d) \in {q, q + 1} /\ (r = 0 => Round(n, d) = q)
  BY <1>1, <1>2
<1>4. ASSUME NEW a \in Nat, NEW b \in Nat, a <= b
      PROVE  a * d <= b * d /\ a * d \in Nat /\ b * d \in Nat /\ (a + 1) * d = a * d + d
  BY <1>4
<1>5. ASSUME NEW k \in Nat, n <= k * d
      PROVE  Round(n, d) <= k
  <2>1. CASE q < k
    BY <1>1, <1>3, <2>1
  <2>2. CASE q = k
    BY <1>1, <1>3, <1>4, <1>5, <2>2
  <2>3. CASE q > k
    <3>1. (k + 1) * d <= q * d /\ (k + 1) * d = k * d + d /\ k * d \in Nat /\ q * d \in Nat
      BY <1>1, <1>4, <2>3
    <3> QED
      BY <1>1, <1>5, <3>1
  <2> QED
    BY <1>1, <2>1, <2>2, <2>3
<1>6. ASSUME NEW k \in Nat, k * d <= n
      PROVE  k <= Round(n, d)
  <2>1. CASE k <= q
    BY <1>1, <1>3, <2>1
  <2>2. CASE k > q
    <3>1. (q + 1) * d <= k * d /\ (q + 1) * d = q * d + d /\ k * d \in Nat /\ q * d \in Nat
      BY <1>1, <1>4, <2>2
    <3> QED
      BY <1>1, <1>6, <3>1
  <2> QED
    BY <1>1, <2>1, <2>2
<1> QED
  BY <1>1, <1>3, <1>5, <1>6

\* The score of v visits and w seconds on average, the highest being maxV and maxW.
Score(v, w, maxV, maxW) ==
    Round(70 * v * (IF maxW = 0 THEN 1 ELSE maxW) + 30 * w * (IF maxV = 0 THEN 1 ELSE maxV),
          (IF maxW = 0 THEN 1 ELSE maxW) * (IF maxV = 0 THEN 1 ELSE maxV))

LEMMA ScoreWithin ==
    ASSUME NEW v \in Nat, NEW w \in Nat, NEW maxV \in Nat, NEW maxW \in Nat,
           v <= maxV, w <= maxW
    PROVE  /\ Score(v, w, maxV, maxW) \in 0..100
           /\ v = maxV /\ maxV # 0 => Score(v, w, maxV, maxW) >= 70
           /\ v = 0 /\ w = 0 => Score(v, w, maxV, maxW) = 0
<1> DEFINE a == IF maxW = 0 THEN 1 ELSE maxW
           b == IF maxV = 0 THEN 1 ELSE maxV
           n == 70 * v * a + 30 * w * b
           d == a * b
<1>1. a \in Nat \ {0} /\ b \in Nat \ {0} /\ v <= b /\ w <= a
  OBVIOUS
<1> HIDE DEF a, b
<1>2. d \in Nat \ {0} /\ v * a \in Nat /\ w * b \in Nat
  BY <1>1
<1>3. v * a <= d /\ w * b <= d
  <2>1. \A x, y, z \in Nat : x <= y => x * z <= y * z
    OBVIOUS
  <2>2. v * a <= b * a /\ w * b <= a * b
    BY <1>1, <2>1
  <2>3. b * a = a * b
    BY <1>1
  <2> QED
    BY <2>2, <2>3
<1>4. n = 70 * (v * a) + 30 * (w * b)
  <2>1. 70 * v * a = 70 * (v * a) /\ 30 * w * b = 30 * (w * b)
    BY <1>1
  <2> QED
    BY <2>1
<1>5. n \in Nat /\ n <= 100 * d
  <2> HIDE DEF n, d
  <2> QED
    BY <1>2, <1>3, <1>4
<1>6. v = maxV /\ maxV # 0 => 70 * d <= n
  <2> SUFFICES ASSUME v = maxV, maxV # 0 PROVE 70 * d <= n
    OBVIOUS
  <2>1. v = b
    BY DEF b
  <2>2. v * a = d
    BY <1>1, <2>1
  <2> HIDE DEF n, d
  <2> QED
    BY <1>2, <1>4, <2>2
<1>7. v = 0 /\ w = 0 => n <= 0 * d
  <2> SUFFICES ASSUME v = 0, w = 0 PROVE n <= 0 * d
    OBVIOUS
  <2>1. v * a = 0 /\ w * b = 0
    BY <1>1
  <2> HIDE DEF n, d
  <2> QED
    BY <1>2, <1>4, <2>1
<1> HIDE DEF n, d
<1>8. Round(n, d) \in Nat /\ Round(n, d) <= 100
      /\ (v = maxV /\ maxV # 0 => 70 <= Round(n, d))
      /\ (v = 0 /\ w = 0 => Round(n, d) <= 0)
  BY <1>2, <1>5, <1>6, <1>7, RoundWithin
<1> QED
  BY <1>8 DEF Score, n, d, a, b

\* The zones of a store: how many visits, how long, and the highest of both.
LEMMA HighestOf ==
    ASSUME NEW S, NEW m \in Nat, S \subseteq 0..m
    PROVE  LET N == {0} \cup S
               h == CHOOSE n \in N : \A k \in N : k <= n
           IN  h \in N /\ \A k \in N : k <= h
<1> DEFINE N == {0} \cup S
<1>1. N \subseteq 0..m /\ N # {}
  OBVIOUS
<1>2. \E n \in N : \A k \in N : k <= n
  <2> HIDE DEF N
  <2> QED
    BY <1>1, HighestExists
<1> QED
  BY <1>2

LEMMA AverageOfVisits ==
    ASSUME IsFiniteSet(stored), NEW m \in Nat, \A e \in stored : e.dwell \in 0..m,
           NEW s, NEW z
    PROVE  /\ Visits(s, z) \subseteq stored
           /\ AvgDwell(s, z) \in 0..m
           /\ Visits(s, z) = {} => AvgDwell(s, z) = 0
<1> DEFINE W == {e \in Visits(s, z) : e.type = "ZONE_DWELL"}
           sum == MapThenSumSet(LAMBDA e : e.dwell, W)
<1>1. Visits(s, z) \subseteq stored /\ W \subseteq stored
  BY DEF Visits, StoredIn
<1>2. AvgDwell(s, z) = IF W = {} THEN 0 ELSE Round(sum, Cardinality(W))
  BY DEF AvgDwell
<1>3. IsFiniteSet(W) /\ Cardinality(W) \in Nat
  BY <1>1, StoredSubset
<1>4. \A e \in W : e.dwell \in 0..m
  BY <1>1
<1>5. sum \in Nat /\ sum <= Cardinality(W) * m
  <2> HIDE DEF W
  <2> QED
    BY <1>3, <1>4, SumOfDwells, Zenon
<1>6. Visits(s, z) = {} => W = {}
  OBVIOUS
<1> HIDE DEF W, sum
<1>7. ASSUME W # {}
      PROVE  Round(sum, Cardinality(W)) \in 0..m
  <2>1. Cardinality(W) # 0
    BY <1>3, <1>7, FS_EmptySet
  <2>2. Cardinality(W) * m = m * Cardinality(W)
    BY <1>3
  <2> QED
    BY <1>3, <1>5, <2>1, <2>2, RoundWithin
<1> QED
  BY <1>1, <1>2, <1>6, <1>7

\* Every score is a percentage, and the zone with most visits has 70 or more.
LEMMA ScoresWithin ==
    ASSUME TypeOK, IsFiniteSet(stored), NEW s
    PROVE  /\ \A z \in Zones : NormalizedScore(s, z) \in Nat /\ NormalizedScore(s, z) <= 100
           /\ (\E z \in Zones : NormalizedScore(s, z) > 0) =>
                \E z \in Zones : NormalizedScore(s, z) >= 70
<1>1. PICK m \in Nat : \A e \in stored : e.dwell \in 0..m
  BY EventAssumption, LongestStored DEF TypeOK, Event
<1> DEFINE A == KnownZones \cup {y \in Zones : Visits(s, y) # {}}
           v(y) == Cardinality(Visits(s, y))
           w(y) == AvgDwell(s, y)
           maxV == CHOOSE n \in {0} \cup {v(y) : y \in A} : \A k \in {0} \cup {v(y) : y \in A} : k <= n
           maxW == CHOOSE n \in {0} \cup {w(y) : y \in A} : \A k \in {0} \cup {w(y) : y \in A} : k <= n
           score(z) == Score(v(z), w(z), maxV, maxW)
<1>2. \A z : NormalizedScore(s, z) = score(z)
  BY DEF NormalizedScore, ScoreAmong, Highest, Score
<1>3. A \subseteq Zones
  BY InsightsAssumption
<1>4. /\ Cardinality(stored) \in Nat
      /\ \A y : v(y) \in 0..Cardinality(stored) /\ w(y) \in 0..m
      /\ \A y : Visits(s, y) = {} => v(y) = 0 /\ w(y) = 0
  <2>1. Cardinality(stored) \in Nat
    BY FS_CardinalityType
  <2>2. ASSUME NEW y
        PROVE  v(y) \in 0..Cardinality(stored)
    <3>1. Visits(s, y) \subseteq stored
      BY DEF Visits, StoredIn
    <3> QED
      BY <2>1, <3>1, StoredSubset, FS_Subset
  <2> QED
    BY <1>1, <2>1, <2>2, AverageOfVisits, FS_EmptySet
<1> HIDE DEF v, w, A
<1>5. maxV \in {0} \cup {v(y) : y \in A} /\ \A k \in {0} \cup {v(y) : y \in A} : k <= maxV
  <2> DEFINE S == {v(y) : y \in A}
  <2>1. S \subseteq 0..Cardinality(stored)
    BY <1>4
  <2> HIDE DEF S
  <2>2. LET N == {0} \cup S
            h == CHOOSE n \in N : \A k \in N : k <= n
        IN  h \in N /\ \A k \in N : k <= h
    BY <1>4, <2>1, HighestOf
  <2> QED
    BY <2>2 DEF S
<1>6. maxW \in {0} \cup {w(y) : y \in A} /\ \A k \in {0} \cup {w(y) : y \in A} : k <= maxW
  <2> DEFINE S == {w(y) : y \in A}
  <2>1. S \subseteq 0..m
    BY <1>4
  <2> HIDE DEF S
  <2>2. LET N == {0} \cup S
            h == CHOOSE n \in N : \A k \in N : k <= n
        IN  h \in N /\ \A k \in N : k <= h
    BY <2>1, HighestOf
  <2> QED
    BY <2>2 DEF S
<1> HIDE DEF maxV, maxW
<1>7. maxV \in Nat /\ maxW \in Nat
  BY <1>4, <1>5, <1>6
\* A zone that is not looked at has no visits.
<1>8. ASSUME NEW z \in Zones
      PROVE  /\ v(z) \in Nat /\ w(z) \in Nat /\ v(z) <= maxV /\ w(z) <= maxW
             /\ v(z) = 0 => w(z) = 0
  <2>1. v(z) = 0 => Visits(s, z) = {}
    <3>1. Visits(s, z) \subseteq stored
      BY DEF Visits, StoredIn
    <3>2. IsFiniteSet(Visits(s, z))
      BY <3>1, StoredSubset
    <3> QED
      BY <3>2, FS_EmptySet DEF v
  <2>2. z \notin A => Visits(s, z) = {}
    BY DEF A
  <2>3. CASE z \in A
    BY <1>4, <1>5, <1>6, <2>1, <2>3
  <2>4. CASE z \notin A
    BY <1>4, <1>7, <2>2, <2>4
  <2> QED
    BY <2>3, <2>4
<1>9. ASSUME NEW z \in Zones
      PROVE  /\ score(z) \in Nat /\ score(z) <= 100
             /\ v(z) = maxV /\ maxV # 0 => score(z) >= 70
             /\ v(z) = 0 => score(z) = 0
  <2>1. /\ score(z) \in Nat /\ score(z) <= 100
        /\ v(z) = maxV /\ maxV # 0 => score(z) >= 70
        /\ v(z) = 0 /\ w(z) = 0 => score(z) = 0
    <3> DEFINE a == v(z)
               b == w(z)
    <3>1. a \in Nat /\ b \in Nat /\ a <= maxV /\ b <= maxW
      BY <1>8
    <3> HIDE DEF a, b
    <3>2. /\ Score(a, b, maxV, maxW) \in 0..100
          /\ a = maxV /\ maxV # 0 => Score(a, b, maxV, maxW) >= 70
          /\ a = 0 /\ b = 0 => Score(a, b, maxV, maxW) = 0
      BY <1>7, <3>1, ScoreWithin, ZenonT(40)
    <3> QED
      BY <3>2 DEF a, b
  <2> HIDE DEF score
  <2> QED
    BY <1>8, <2>1
<1> HIDE DEF score
<1>10. ASSUME NEW z \in Zones, score(z) > 0
       PROVE  \E y \in Zones : score(y) >= 70
  <2>1. v(z) # 0
    BY <1>9, <1>10
  <2>2. maxV # 0
    BY <1>7, <1>8, <2>1
  <2>3. PICK y \in A : v(y) = maxV
    BY <1>5, <2>2
  <2> QED
    BY <1>3, <1>9, <2>2, <2>3
<1> QED
  BY <1>2, <1>9, <1>10

-----------------------------------------------------------------------------
\* Type correctness of all calls.

ScoresOK(scores) ==
    /\ \A z \in Zones : scores[z] <= 100
    /\ (\E z \in Zones : scores[z] > 0) => \E z \in Zones : scores[z] >= 70

\* A call of Insights goes on: the others keep what they have.
LEMMA InsightFrame ==
    ASSUME InsightsTypeOK, NEW c \in Calls, NEW from, NEW to, CallGoto(c, from, to),
           from \notin {"dwellSum", "dwellCount", "redisHealth"},
           to \in RPCs \ {"entries", "lastJoin", "lastTs"}, UNCHANGED heldVars,
           NEW h \in Heatmap, heatmap' = [heatmap EXCEPT ![c] = h], ScoresOK(h.scores),
           NEW a \in Alarms, alarms' = [alarms EXCEPT ![c] = a]
    PROVE  InsightsTypeOK'
<1> USE DEF CallGoto, heldVars
<1>1. ReadersTypeOK /\ heatmap \in [Calls -> Heatmap] /\ alarms \in [Calls -> Alarms]
      /\ \A d \in Calls : ScoresOK(heatmap[d].scores)
  BY DEF InsightsTypeOK, ScoresOK
<1>2. /\ rpc' \in [Calls -> RPCs] /\ rpc'[c] = to
      /\ \A d \in Calls \ {c} : rpc'[d] = rpc[d]
  BY <1>1 DEF ReadersTypeOK
<1>3. zonesLeft[c] = {} /\ scan[c].left = {}
  BY DEF InsightsTypeOK, ReadersTypeOK
<1>4. ReadersTypeOK'
  BY <1>1, <1>2, <1>3 DEF ReadersTypeOK
<1>5. /\ heatmap' \in [Calls -> Heatmap] /\ alarms' \in [Calls -> Alarms]
      /\ \A d \in Calls : heatmap'[d] = IF d = c THEN h ELSE heatmap[d]
  BY <1>1
<1>6. \A d \in Calls : ScoresOK(heatmap'[d].scores)
  BY <1>1, <1>5
<1> QED
  BY <1>4, <1>5, <1>6 DEF InsightsTypeOK, ScoresOK

LEMMA NoticedTypes ==
    ASSUME InsightsTypeOK, NEW c \in Calls, NEW from, NEW to, CallGoto(c, from, to),
           from \notin {"dwellSum", "dwellCount", "redisHealth"},
           to \in RPCs \ {"entries", "lastJoin", "lastTs"},
           NEW a \in Alarms, Noticed(c, a)
    PROVE  InsightsTypeOK'
<1>1. /\ heatmap \in [Calls -> Heatmap] /\ heatmap[c] \in Heatmap
      /\ ScoresOK(heatmap[c].scores)
  BY DEF InsightsTypeOK, ScoresOK
<1>2. /\ heatmap' = [heatmap EXCEPT ![c] = heatmap[c]] /\ UNCHANGED heldVars
      /\ alarms' = [alarms EXCEPT ![c] = a]
  BY <1>1 DEF Noticed
<1> QED
  BY <1>1, <1>2, InsightFrame

LEMMA InsightTypes ==
    ASSUME TypeOK, IsFiniteSet(stored), InsightsTypeOK, NEW c \in Calls, Insight(c)
    PROVE  InsightsTypeOK'
<1> DEFINE a == alarms[c]
<1>1. /\ a \in Alarms /\ a.store \in Stores /\ a.depth \in Int /\ a.at \in Nat
      /\ alarms = [alarms EXCEPT ![c] = a] /\ now \in Nat
      /\ queueDepth \in [Stores -> Int] /\ heatmap \in [Calls -> Heatmap]
      /\ heatmap[c] \in Heatmap /\ ScoresOK(heatmap[c].scores)
  BY DEF InsightsTypeOK, ScoresOK, Alarms, TypeOK, SessionsTypeOK, RedisTypeOK
<1>2. \A s, V : V \subseteq CustomersOf(s) => Cardinality(V) \in Nat
  <2>1. \A s : CustomersOf(s) \subseteq Visitors
    BY DEF CustomersOf
  <2> QED
    BY <2>1, PosAssumption, FS_Subset, FS_CardinalityType
<1>3. ASSUME NEW s \in Stores, HeatFromEvents(c, s)
      PROVE  InsightsTypeOK'
  <2> DEFINE f == [z \in Zones |-> NormalizedScore(s, z)]
             h == [NoHeatmap(s) EXCEPT !.scores = f]
  <2>1. f \in [Zones -> Nat] /\ ScoresOK(f)
    BY ScoresWithin DEF ScoresOK
  <2>2. /\ CallGoto(c, "idle", "sessionCount") /\ UNCHANGED <<heldVars, alarms>>
        /\ heatmap' = [heatmap EXCEPT ![c] = h]
    BY <1>3 DEF HeatFromEvents
  <2> HIDE DEF f
  <2>3. h \in Heatmap /\ h.scores = f
    BY <2>1 DEF NoHeatmap, Heatmap
  <2> HIDE DEF h, a
  <2> QED
    BY <1>1, <2>1, <2>2, <2>3, InsightFrame DEF RPCs
<1>4. CASE HeatConfidence(c)
  <2> DEFINE x == IF Cardinality(CustomersOf(heatmap[c].store)) < Enough THEN "LOW" ELSE "HIGH"
             h == [heatmap[c] EXCEPT !.confidence = x]
  <2>1. /\ CallGoto(c, "sessionCount", "answered") /\ UNCHANGED <<heldVars, alarms>>
        /\ heatmap' = [heatmap EXCEPT ![c] = h]
    BY <1>1, <1>4 DEF HeatConfidence
  <2>2. x \in {"LOW", "HIGH"}
    OBVIOUS
  <2> HIDE DEF x
  <2>3. h \in Heatmap /\ h.scores = heatmap[c].scores
    BY <1>1, <2>2 DEF Heatmap
  <2> HIDE DEF h, a
  <2> QED
    BY <1>1, <2>1, <2>3, InsightFrame DEF RPCs
<1>5. ASSUME NEW s \in Stores, ReadCurrentQueue(c, s)
      PROVE  InsightsTypeOK'
  <2> DEFINE b == [NoAlarms(s) EXCEPT !.depth = queueDepth[s]]
  <2>1. CallGoto(c, "idle", "avgQueue") /\ Noticed(c, b)
    BY <1>5 DEF ReadCurrentQueue
  <2>2. b \in Alarms
    BY <1>1 DEF NoAlarms, Alarms, Share, NoTime
  <2> HIDE DEF b
  <2> QED
    BY <2>1, <2>2, NoticedTypes DEF RPCs
<1>6. CASE JudgeQueue(c)
  <2>1. PICK x : Noticed(c, [a EXCEPT !.at = now,
                               !.queue = IF a.depth >= Long \/ x
                                         THEN IF a.depth >= VeryLong THEN "CRITICAL" ELSE "WARN"
                                         ELSE "none"])
    BY <1>6, Zenon DEF JudgeQueue
  <2> DEFINE q == IF a.depth >= Long \/ x
                  THEN IF a.depth >= VeryLong THEN "CRITICAL" ELSE "WARN"
                  ELSE "none"
             b == [a EXCEPT !.at = now, !.queue = q]
  <2>2. CallGoto(c, "avgQueue", "today") /\ Noticed(c, b)
    BY <1>6, <2>1 DEF JudgeQueue
  <2>3. q \in {"none", "WARN", "CRITICAL"}
    OBVIOUS
  <2> HIDE DEF q, a
  <2>4. b \in Alarms
    BY <1>1, <2>3 DEF Alarms
  <2> HIDE DEF b
  <2> QED
    BY <2>2, <2>4, NoticedTypes DEF RPCs
<1>7. CASE CountToday(c)
  <2> DEFINE C == {v \in CustomersOf(a.store) : sessions[v].entered >= Midnight(a.at)}
             x == [sessions |-> Cardinality(C),
                   converted |-> Cardinality({v \in C : sessions[v].converted})]
             b == [a EXCEPT !.today = x]
  <2>1. CallGoto(c, "today", "baseline") /\ Noticed(c, b)
    BY <1>7 DEF CountToday, ShareOf
  <2>2. x \in Share
    BY <1>2 DEF Share
  <2> HIDE DEF x, a
  <2>3. b \in Alarms
    BY <1>1, <2>2 DEF Alarms
  <2> HIDE DEF b
  <2> QED
    BY <2>1, <2>3, NoticedTypes DEF RPCs
<1>8. CASE JudgeConversion(c)
  <2>1. PICK x, y : Noticed(c, [a EXCEPT !.conversion = IF x THEN "unavailable"
                                                       ELSE IF y THEN "drop" ELSE "none"])
    BY <1>8, Zenon DEF JudgeConversion
  <2> DEFINE k == IF x THEN "unavailable" ELSE IF y THEN "drop" ELSE "none"
             b == [a EXCEPT !.conversion = k]
  <2>2. CallGoto(c, "baseline", "traffic") /\ Noticed(c, b)
    BY <1>8, <2>1 DEF JudgeConversion
  <2>3. k \in {"none", "drop", "unavailable"}
    OBVIOUS
  <2> HIDE DEF k, a
  <2>4. b \in Alarms
    BY <1>1, <2>3 DEF Alarms
  <2> HIDE DEF b
  <2> QED
    BY <2>2, <2>4, NoticedTypes DEF RPCs
<1>9. CASE CountTraffic(c)
  <2> DEFINE to == IF \E e \in StoredIn(a.store, EventTypes) : ~e.staff /\ e.ts >= a.at - Recent
                   THEN "dead" ELSE "answered"
  <2>1. CallGoto(c, "traffic", to) /\ Noticed(c, a) /\ to \in {"dead", "answered"}
    BY <1>9 DEF CountTraffic
  <2> HIDE DEF a, to
  <2> QED
    BY <1>1, <2>1, NoticedTypes DEF RPCs
<1>10. CASE FindDeadZones(c)
  <2> DEFINE D == DeadAt(a.store, a.at)
             b == [a EXCEPT !.dead = D]
  <2>1. CallGoto(c, "dead", "answered") /\ Noticed(c, b)
    BY <1>10 DEF FindDeadZones
  <2>2. D \in SUBSET Zones
    BY DEF DeadAt
  <2> HIDE DEF a, D
  <2>3. b \in Alarms
    BY <1>1, <2>2 DEF Alarms
  <2> HIDE DEF b
  <2> QED
    BY <2>1, <2>3, NoticedTypes DEF RPCs
<1> QED
  BY <1>3, <1>4, <1>5, <1>6, <1>7, <1>8, <1>9, <1>10 DEF Insight

LEMMA InsightsTypeInit == InsightsInit => InsightsTypeOK
<1> SUFFICES ASSUME InsightsInit PROVE InsightsTypeOK
  OBVIOUS
<1> DEFINE s0 == CHOOSE s \in Stores : TRUE
<1>1. s0 \in Stores
  BY IngestionAssumption
<1> HIDE DEF s0
<1>2. NoMetrics(s0) \in Metrics /\ NoMetrics(s0).visitors = 0
  BY <1>1 DEF NoMetrics, Metrics, NoAverage, Average, NoTime
<1>3. NoHeatmap(s0) \in Heatmap /\ ScoresOK(NoHeatmap(s0).scores)
  BY <1>1 DEF NoHeatmap, Heatmap, ScoresOK
<1>4. NoAlarms(s0) \in Alarms
  BY <1>1 DEF NoAlarms, Alarms, Share, NoTime
<1>5. NoScan \in [left : SUBSET Stores, found : [Stores -> Nat]] /\ NoScan.left = {}
  BY DEF NoScan, NoTime
<1>6. ReadersTypeOK
  BY <1>2, <1>5 DEF InsightsInit, ReadersInit, ReadersTypeOK, RPCs, Funnel, NoTime, s0
<1> QED
  BY <1>3, <1>4, <1>6 DEF InsightsInit, InsightsTypeOK, ScoresOK, s0

TypedInv == ReaderInv /\ IsFiniteSet(stored) /\ InsightsTypeOK

LEMMA TypedStep == TypedInv /\ [InsightsNext]_allVars => TypedInv'
<1> SUFFICES ASSUME TypedInv, [InsightsNext]_allVars PROVE TypedInv'
  OBVIOUS
<1>1. ReaderInv' /\ TypeOK /\ ApiInv
  BY ReaderStep DEF TypedInv, ReaderInv, ApiInv, ApiTypeOK
<1>2. IsFiniteSet(stored')
  <2>1. [ApiNext]_apiVars
    BY DEF InsightsNext, ReadersNext, allVars
  <2> QED
    BY <1>1, <2>1, TableFinite DEF TypedInv
<1>3. InsightsTypeOK'
  <2>1. ASSUME NEW c \in Calls, Insight(c)
        PROVE  InsightsTypeOK'
    BY <1>1, <2>1, InsightTypes DEF TypedInv
  <2>2. ASSUME NEW c \in Calls, Call(c), UNCHANGED insightVars
        PROVE  InsightsTypeOK'
    <3>1. ReadersTypeOK'
      BY <1>1, <2>2, CallTypes DEF TypedInv, InsightsTypeOK
    <3> QED
      BY <2>2, <3>1 DEF insightVars, TypedInv, InsightsTypeOK
  <2>3. CASE UNCHANGED <<readerVars, insightVars>>
    BY <2>3 DEF readerVars, insightVars, TypedInv, InsightsTypeOK, ReadersTypeOK
  <2> QED
    BY <2>1, <2>2, <2>3 DEF InsightsNext, ReadersNext, allVars
<1> QED
  BY <1>1, <1>2, <1>3 DEF TypedInv

LEMMA TypedInvariant == InsightsSpec => []TypedInv
<1>1. InsightsInit => TypedInv
  <2>1. InsightsInit => stored = {}
    BY DEF InsightsInit, ReadersInit, ApiInit, Init, RequestsInit
  <2> QED
    BY <2>1, ReaderInit, InsightsTypeInit, FS_EmptySet DEF TypedInv
<1>2. TypedInv /\ [InsightsNext]_<<apiVars, readerVars, insightVars>> => TypedInv'
  BY TypedStep DEF allVars
<1> QED
  BY <1>1, <1>2, PTL DEF InsightsSpec

\* Type correctness of all endpoints that only read, for any number of calls: the
\* scores of the heat map are percentages, and if there is any there is a high one.
THEOREM InsightsTypeCorrect == InsightsSpec => []InsightsTypeOK
<1>1. TypedInv => InsightsTypeOK
  BY DEF TypedInv
<1> QED
  BY <1>1, TypedInvariant, PTL

-----------------------------------------------------------------------------
\* The averages of the metrics: a sum is read before its count, and what was
\* counted in between can only help.

BeforeDwells == {"entries", "queue", "lastJoin", "scan"}

\* A call that is at a statement, with the zones Z still to be read.  Until a
\* zone's count is read, its sum is held against what Redis counts now.
AverageHonest(at, m, Z) ==
    \A z \in Zones :
        LET avg == m.dwell[z] IN
        /\ z \in Z \/ at \in BeforeDwells => avg = NoAverage
        /\ Within(avg.sum, IF avg.count > 0 THEN avg.count ELSE dwellCount[m.store][z],
                  Cardinality(Requests))

AveragesHonest == \A c \in Calls : AverageHonest(rpc[c], metrics[c], zonesLeft[c])

\* No dwells at all are within every bound.
LEMMA NothingWithin ==
    ASSUME LongestExists, NEW n \in Nat, NEW k \in Nat
    PROVE  Within(0, n, k)
<1>1. LongestDwell \in Nat /\ n + k \in Nat
  BY LongestOfAll
<1>2. \A a, b \in Nat : a * b \in Nat
  OBVIOUS
<1> QED
  BY <1>1, <1>2 DEF Within

LEMMA AveragesFrame ==
    ASSUME ReadersTypeOK, AveragesHonest, UNCHANGED dwellCount, NEW c \in Calls,
           NEW to, rpc' = [rpc EXCEPT ![c] = to],
           NEW m, metrics' = [metrics EXCEPT ![c] = m],
           NEW Z, zonesLeft' = [zonesLeft EXCEPT ![c] = Z],
           AverageHonest(to, m, Z)
    PROVE  AveragesHonest'
<1>1. \A d \in Calls : /\ rpc'[d] = IF d = c THEN to ELSE rpc[d]
                       /\ metrics'[d] = IF d = c THEN m ELSE metrics[d]
                       /\ zonesLeft'[d] = IF d = c THEN Z ELSE zonesLeft[d]
  BY DEF ReadersTypeOK
<1> QED
  BY <1>1 DEF AveragesHonest, AverageHonest

\* A statement that is not about dwells.
LEMMA AveragesKept ==
    ASSUME ReadersTypeOK, AveragesHonest, UNCHANGED dwellCount, NEW c \in Calls,
           NEW to, rpc' = [rpc EXCEPT ![c] = to], UNCHANGED zonesLeft,
           to \in BeforeDwells => rpc[c] \in BeforeDwells,
           NEW m, metrics' = [metrics EXCEPT ![c] = m],
           m.dwell = metrics[c].dwell, m.store = metrics[c].store
    PROVE  AveragesHonest'
<1>1. AverageHonest(to, m, zonesLeft[c])
  BY DEF AveragesHonest, AverageHonest
<1>2. zonesLeft' = [zonesLeft EXCEPT ![c] = zonesLeft[c]]
  BY DEF ReadersTypeOK
<1> QED
  BY <1>1, <1>2, AveragesFrame

LEMMA SumIsRead ==
    ASSUME IsFiniteSet(Requests), LongestExists, TypeOK, SumsAhead, ReadersTypeOK,
           AveragesHonest, UNCHANGED dwellCount, NEW c \in Calls, ReadDwellSum(c)
    PROVE  AveragesHonest'
<1> DEFINE a == metrics[c]
           s == a.store
           k == Cardinality(Requests)
<1>1. PICK z \in zonesLeft[c] \cup Appeared(c) :
        /\ metrics' = [metrics EXCEPT ![c] = [a EXCEPT !.dwell[z].sum = dwellSum[s][z]]]
        /\ zonesLeft' = [zonesLeft EXCEPT ![c] = (@ \ {z})]
  BY DEF ReadDwellSum, Found
<1>2. rpc' = [rpc EXCEPT ![c] = "dwellCount"]
  BY DEF ReadDwellSum, CallGoto
<1>3. /\ a \in Metrics /\ s \in Stores /\ a.dwell \in [Zones -> Average] /\ z \in Zones
      /\ AverageHonest(rpc[c], a, zonesLeft[c])
      /\ dwellSum \in [Stores -> [Zones -> Nat]] /\ dwellCount \in [Stores -> [Zones -> Nat]]
  BY DEF ReadersTypeOK, Metrics, AveragesHonest, TypeOK, RedisTypeOK, Appeared
<1> DEFINE m == [a EXCEPT !.dwell[z].sum = dwellSum[s][z]]
<1>4. a.dwell[z] = NoAverage
  BY <1>1, <1>3 DEF AverageHonest, Appeared
<1>5. /\ m.store = s /\ m.dwell[z].sum = dwellSum[s][z] /\ m.dwell[z].count = 0
      /\ \A y \in Zones \ {z} : m.dwell[y] = a.dwell[y]
  BY <1>3, <1>4 DEF Metrics, Average, NoAverage
<1>6. Within(dwellSum[s][z], dwellCount[s][z], k)
  <2> DEFINE A == Ahead(s, z)
             sum == dwellSum[s][z]
             n == dwellCount[s][z]
  <2>1. sum \in Nat /\ n \in Nat /\ Within(sum, n, Cardinality(A)) /\ A \subseteq Requests
    BY <1>3 DEF SumsAhead, Ahead
  <2> HIDE DEF A, sum, n
  <2>2. Cardinality(A) \in Nat /\ k \in Nat /\ Cardinality(A) <= k
    BY <2>1, FS_Subset, FS_CardinalityType
  <2>3. n + Cardinality(A) <= n + k
    BY <2>1, <2>2
  <2>4. Within(sum, n, k)
    BY <2>1, <2>2, <2>3, WithinMore
  <2> QED
    BY <2>4 DEF sum, n
<1> DEFINE Z == zonesLeft[c] \ {z}
<1>7. AverageHonest("dwellCount", m, Z)
  <2> HIDE DEF m, s
  <2> SUFFICES ASSUME NEW y \in Zones
               PROVE  LET avg == m.dwell[y] IN
                      /\ y \in Z => avg = NoAverage
                      /\ Within(avg.sum, IF avg.count > 0 THEN avg.count ELSE dwellCount[s][y], k)
    BY <1>5 DEF AverageHonest, BeforeDwells
  <2>1. CASE y = z
    BY <1>5, <1>6, <2>1
  <2>2. CASE y # z
    BY <1>3, <1>5, <2>2 DEF AverageHonest, s
  <2> QED
    BY <2>1, <2>2
<1>8. zonesLeft' = [zonesLeft EXCEPT ![c] = Z] /\ metrics' = [metrics EXCEPT ![c] = m]
  BY <1>1 DEF ReadersTypeOK
<1> HIDE DEF m, Z, a
<1> QED
  BY <1>2, <1>7, <1>8, AveragesFrame

LEMMA CountIsRead ==
    ASSUME LongestExists, IsFiniteSet(Requests), TypeOK, ReadersTypeOK, AveragesHonest,
           UNCHANGED dwellCount, NEW c \in Calls, ReadDwellCount(c)
    PROVE  AveragesHonest'
<1> DEFINE a == metrics[c]
           s == a.store
           k == Cardinality(Requests)
<1>1. PICK z \in HalfRead(c) :
        LET n == dwellCount[s][z] IN
        Found(c, [a EXCEPT !.dwell[z] = IF n = 0 THEN NoAverage ELSE [@ EXCEPT !.count = n]])
  BY DEF ReadDwellCount
<1>2. /\ a \in Metrics /\ s \in Stores /\ a.dwell \in [Zones -> Average] /\ z \in Zones
      /\ a.dwell[z].sum > 0 /\ a.dwell[z].count = 0
      /\ AverageHonest(rpc[c], a, zonesLeft[c]) /\ dwellCount[s][z] \in Nat
      /\ k \in Nat
  BY FS_CardinalityType
     DEF ReadersTypeOK, Metrics, AveragesHonest, TypeOK, RedisTypeOK, HalfRead
<1> DEFINE n == dwellCount[s][z]
           avg == IF n = 0 THEN NoAverage ELSE [a.dwell[z] EXCEPT !.count = n]
           m == [a EXCEPT !.dwell[z] = avg]
<1>3. metrics' = [metrics EXCEPT ![c] = m] /\ UNCHANGED zonesLeft
      /\ rpc' = [rpc EXCEPT ![c] = "dwellSum"]
  BY <1>1 DEF Found, ReadDwellCount, CallGoto
<1>4. z \notin zonesLeft[c]
  BY <1>2 DEF AverageHonest, NoAverage
<1>5. Within(avg.sum, IF avg.count > 0 THEN avg.count ELSE n, k)
  <2>1. CASE n = 0
    BY <1>2, <2>1, NothingWithin DEF NoAverage
  <2>2. CASE n # 0
    <3>1. avg.sum = a.dwell[z].sum /\ avg.count = n
      BY <1>2, <2>2 DEF Average
    <3>2. Within(a.dwell[z].sum, n, k)
      BY <1>2 DEF AverageHonest
    <3> QED
      BY <1>2, <2>2, <3>1, <3>2
  <2> QED
    BY <2>1, <2>2
<1> HIDE DEF avg
<1>6. /\ m.store = s /\ m.dwell[z] = avg /\ \A y \in Zones \ {z} : m.dwell[y] = a.dwell[y]
  BY <1>2 DEF Metrics
<1>7. AverageHonest("dwellSum", m, zonesLeft[c])
  <2> HIDE DEF m, s
  <2> SUFFICES ASSUME NEW y \in Zones
               PROVE  LET v == m.dwell[y] IN
                      /\ y \in zonesLeft[c] => v = NoAverage
                      /\ Within(v.sum, IF v.count > 0 THEN v.count ELSE dwellCount[s][y], k)
    BY <1>6 DEF AverageHonest, BeforeDwells
  <2>1. CASE y = z
    BY <1>4, <1>5, <1>6, <2>1
  <2>2. CASE y # z
    BY <1>2, <1>6, <2>2 DEF AverageHonest, s
  <2> QED
    BY <2>1, <2>2
<1>8. zonesLeft' = [zonesLeft EXCEPT ![c] = zonesLeft[c]]
  BY <1>3 DEF ReadersTypeOK
<1> HIDE DEF m, a
<1> QED
  BY <1>3, <1>7, <1>8, AveragesFrame

\* Without Redis the stored events are averaged, none of them longer than the longest.
LEMMA DwellsAreAveraged ==
    ASSUME IsFiniteSet(Requests), LongestExists, TypeOK, IsFiniteSet(stored), ReadersTypeOK,
           AveragesHonest, UNCHANGED dwellCount, NEW c \in Calls, AverageDwells(c)
    PROVE  AveragesHonest'
<1> DEFINE a == metrics[c]
           k == Cardinality(Requests)
           dwells(z) == {e \in StoredIn(a.store, {"ZONE_DWELL"}) : e.zone = z /\ ~e.staff}
           sum(z) == MapThenSumSet(LAMBDA e : e.dwell, dwells(z))
           x == [z \in Zones |-> [sum |-> sum(z), count |-> Cardinality(dwells(z))]]
<1>1. Found(c, a) \/ Found(c, [a EXCEPT !.dwell = x])
  BY Zenon DEF AverageDwells
<1>2. /\ rpc' = [rpc EXCEPT ![c] = "abandon"] /\ zonesLeft[c] = {} /\ UNCHANGED zonesLeft
  BY DEF AverageDwells, CallGoto
<1>3. /\ a \in Metrics /\ a.store \in Stores /\ k \in Nat
      /\ dwellCount \in [Stores -> [Zones -> Nat]] /\ LongestDwell \in Nat
  BY FS_CardinalityType, LongestOfAll DEF ReadersTypeOK, Metrics, TypeOK, RedisTypeOK
<1>4. ASSUME NEW z \in Zones
      PROVE  LET n == Cardinality(dwells(z)) IN
             Within(sum(z), IF n > 0 THEN n ELSE dwellCount[a.store][z], k)
  <2> DEFINE n == Cardinality(dwells(z))
             t == MapThenSumSet(LAMBDA e : e.dwell, dwells(z))
  <2>1. dwells(z) \subseteq stored /\ IsFiniteSet(dwells(z)) /\ n \in Nat
    BY StoredSubset DEF StoredIn
  <2>2. \A e \in dwells(z) : e.dwell \in 0..LongestDwell
    <3>1. stored \subseteq Events
      BY DEF TypeOK
    <3> QED
      BY <2>1, <3>1, LongestOfAll
  <2>3. t \in Nat /\ t <= n * LongestDwell
    <3> HIDE DEF dwells
    <3> QED
      BY <1>3, <2>1, <2>2, SumOfDwells, Zenon
  <2> HIDE DEF n, t
  <2>4. CASE n > 0
    <3>1. Within(t, n, 0)
      BY <2>1, <2>3 DEF Within
    <3>2. Within(t, n, k)
      BY <1>3, <2>1, <2>3, <3>1, WithinMore
    <3> QED
      BY <2>4, <3>2 DEF n, t
  <2>5. CASE ~(n > 0)
    <3>1. n = 0
      BY <2>1, <2>5
    <3>2. n * LongestDwell = 0
      BY <1>3, <3>1
    <3>3. t = 0
      BY <2>3, <3>2
    <3>4. dwellCount[a.store][z] \in Nat
      BY <1>3
    <3>5. Within(t, dwellCount[a.store][z], k)
      BY <1>3, <3>3, <3>4, NothingWithin
    <3> QED
      BY <2>5, <3>5 DEF n, t
  <2> QED
    BY <2>4, <2>5
<1>5. CASE Found(c, a)
  <2> HIDE DEF a
  <2> QED
    BY <1>2, <1>5, AveragesKept DEF Found, BeforeDwells, a
<1>6. CASE Found(c, [a EXCEPT !.dwell = x])
  <2> DEFINE m == [a EXCEPT !.dwell = x]
  <2>1. m.dwell = x /\ m.store = a.store
    BY <1>3 DEF Metrics
  <2>2. /\ metrics' = [metrics EXCEPT ![c] = m]
        /\ zonesLeft' = [zonesLeft EXCEPT ![c] = {}]
    BY <1>2, <1>6 DEF Found, ReadersTypeOK
  <2>3. \A z \in Zones : x[z].sum = sum(z) /\ x[z].count = Cardinality(dwells(z))
    <3> HIDE DEF sum, dwells
    <3> QED
      OBVIOUS
  <2> HIDE DEF m, x, sum, dwells, a
  <2>4. AverageHonest("abandon", m, {})
    BY <1>4, <2>1, <2>3 DEF AverageHonest, BeforeDwells
  <2> QED
    BY <1>2, <2>2, <2>4, AveragesFrame
<1> QED
  BY <1>1, <1>5, <1>6

LEMMA CallAverages ==
    ASSUME IsFiniteSet(Requests), LongestExists, TypeOK, IsFiniteSet(stored), ReadersTypeOK,
           SumsAhead, AveragesHonest, UNCHANGED dwellCount, NEW c \in Calls, Call(c)
    PROVE  AveragesHonest'
<1>1. /\ metrics[c] \in Metrics /\ zonesLeft[c] \in SUBSET Zones
      /\ metrics = [metrics EXCEPT ![c] = metrics[c]] /\ rpc = [rpc EXCEPT ![c] = rpc[c]]
  BY DEF ReadersTypeOK
\* A statement that finds out m, which is not about dwells.
<1>2. ASSUME NEW from, NEW to, CallGoto(c, from, to), UNCHANGED zonesLeft,
             to \in BeforeDwells => from \in BeforeDwells,
             NEW m, Found(c, m), m.dwell = metrics[c].dwell, m.store = metrics[c].store
      PROVE  AveragesHonest'
  BY <1>2, AveragesKept DEF CallGoto, Found
<1>3. ASSUME NEW to, rpc' = [rpc EXCEPT ![c] = to], to \notin BeforeDwells,
             UNCHANGED <<metrics, zonesLeft>>
      PROVE  AveragesHonest'
  BY <1>1, <1>3, AveragesKept
<1>4. ASSUME NEW f \in {"visitors", "depth", "ts"}, NEW x, NEW from, NEW to,
             CallGoto(c, from, to), UNCHANGED zonesLeft,
             to \in BeforeDwells => from \in BeforeDwells,
             Found(c, [metrics[c] EXCEPT ![f] = x])
      PROVE  AveragesHonest'
  <2> DEFINE m == [metrics[c] EXCEPT ![f] = x]
  <2>1. m.dwell = metrics[c].dwell /\ m.store = metrics[c].store
    BY <1>1, <1>4 DEF Metrics
  <2> HIDE DEF m
  <2> QED
    BY <1>2, <1>4, <2>1 DEF m
<1>5. ASSUME NEW s \in Stores, CountSessions(c, s)
      PROVE  AveragesHonest'
  <2>1. PICK x, y : Found(c, [NoMetrics(s) EXCEPT !.visitors = x, !.conversions = y])
    BY <1>5, Zenon DEF CountSessions
  <2> DEFINE m == [NoMetrics(s) EXCEPT !.visitors = x, !.conversions = y]
  <2>2. m.store = s /\ m.dwell = [z \in Zones |-> NoAverage]
    BY DEF NoMetrics
  <2>3. PICK to : /\ rpc' = [rpc EXCEPT ![c] = to] /\ metrics' = [metrics EXCEPT ![c] = m]
                  /\ zonesLeft' = [zonesLeft EXCEPT ![c] = {}]
    BY <1>5, <2>1 DEF CountSessions, CallGoto, Found, ReadersTypeOK
  <2>4. dwellCount \in [Stores -> [Zones -> Nat]] /\ Cardinality(Requests) \in Nat
    BY FS_CardinalityType DEF TypeOK, RedisTypeOK
  <2> HIDE DEF m
  <2>5. AverageHonest(to, m, {})
    BY <2>2, <2>4, NothingWithin DEF AverageHonest, NoAverage
  <2> QED
    BY <2>3, <2>5, AveragesFrame
<1>6. CASE CountEntries(c)
  BY <1>4, <1>6 DEF CountEntries, BeforeDwells
<1>7. CASE ReadQueue(c)
  BY <1>4, <1>7 DEF ReadQueue, BeforeDwells
<1>8. CASE ReadLastJoin(c)
  <2>1. CallGoto(c, "lastJoin", "scan") /\ UNCHANGED zonesLeft
    BY <1>8 DEF ReadLastJoin
  <2>2. UNCHANGED metrics \/ \E x : Found(c, [metrics[c] EXCEPT !.depth = x])
    BY <1>8 DEF ReadLastJoin
  <2>3. CASE UNCHANGED metrics
    BY <1>1, <2>1, <2>3, AveragesKept DEF CallGoto, BeforeDwells
  <2> QED
    BY <1>4, <2>1, <2>2, <2>3 DEF BeforeDwells
<1>9. CASE ScanZones(c)
  <2>1. PICK Z : zonesLeft' = [zonesLeft EXCEPT ![c] = Z]
    BY <1>9 DEF ScanZones
  <2>2. /\ rpc[c] = "scan" /\ rpc' = [rpc EXCEPT ![c] = "dwellSum"]
        /\ metrics' = [metrics EXCEPT ![c] = metrics[c]]
    BY <1>1, <1>9 DEF ScanZones, CallGoto
  <2>3. AverageHonest("dwellSum", metrics[c], Z)
    BY <2>2 DEF AveragesHonest, AverageHonest, BeforeDwells
  <2> QED
    BY <2>1, <2>2, <2>3, AveragesFrame
<1>10. CASE ReadDwellSum(c)
  BY <1>10, SumIsRead
<1>11. CASE ReadDwellCount(c)
  BY <1>11, CountIsRead
<1>12. CASE AverageDwells(c)
  BY <1>12, DwellsAreAveraged
<1>13. CASE CountAbandons(c)
  <2>1. PICK x, y : Found(c, [metrics[c] EXCEPT !.abandons = x, !.joins = y])
    BY <1>13, Zenon DEF CountAbandons
  <2> DEFINE m == [metrics[c] EXCEPT !.abandons = x, !.joins = y]
  <2>2. m.dwell = metrics[c].dwell /\ m.store = metrics[c].store
    BY <1>1 DEF Metrics
  <2>3. CallGoto(c, "abandon", "ts") /\ UNCHANGED zonesLeft /\ Found(c, m)
    BY <1>13, <2>1 DEF CountAbandons
  <2> HIDE DEF m
  <2> QED
    BY <1>2, <2>2, <2>3 DEF BeforeDwells
<1>14. CASE ReadLastEvent(c)
  BY <1>4, <1>14 DEF ReadLastEvent, BeforeDwells
<1>15. CASE ReadLastStored(c)
  BY <1>4, <1>15 DEF ReadLastStored, BeforeDwells
<1>16. CASE \/ \E s \in Stores : Funnels(c, s)
            \/ HealthFromDb(c) \/ HealthAnswered(c)
  BY <1>3, <1>16 DEF Funnels, HealthFromDb, HealthAnswered, CallGoto, BeforeDwells
<1>17. CASE HealthFromRedis(c)
  BY <1>17 DEF HealthFromRedis, AveragesHonest, AverageHonest
<1> QED
  BY <1>5, <1>6, <1>7, <1>8, <1>9, <1>10, <1>11, <1>12, <1>13, <1>14, <1>15, <1>16, <1>17
     DEF Call

\* While calls wait, counts grow.
LEMMA AveragesWait ==
    ASSUME IsFiniteSet(Requests), LongestExists, TypeOK, ReadersTypeOK, AveragesHonest,
           CountsGrow, UNCHANGED readerVars
    PROVE  AveragesHonest'
<1>1. UNCHANGED <<rpc, metrics, zonesLeft>>
  BY DEF readerVars
<1>2. dwellCount \in [Stores -> [Zones -> Nat]] /\ Cardinality(Requests) \in Nat
  BY FS_CardinalityType DEF TypeOK, RedisTypeOK
<1> SUFFICES ASSUME NEW c \in Calls, NEW z \in Zones
             PROVE  LET avg == metrics[c].dwell[z]
                        n == IF avg.count > 0 THEN avg.count ELSE dwellCount'[metrics[c].store][z]
                    IN  Within(avg.sum, n, Cardinality(Requests))
  BY <1>1 DEF AveragesHonest, AverageHonest
<1> DEFINE sum == metrics[c].dwell[z].sum
           n == metrics[c].dwell[z].count
           old == dwellCount[metrics[c].store][z]
           new1 == dwellCount'[metrics[c].store][z]
<1>3. sum \in Nat /\ n \in Nat /\ old \in Nat /\ new1 \in Nat /\ old <= new1
  BY <1>2 DEF ReadersTypeOK, Metrics, Average, CountsGrow
<1>4. Within(sum, IF n > 0 THEN n ELSE old, Cardinality(Requests))
  BY DEF AveragesHonest, AverageHonest
<1> HIDE DEF sum, n, old, new1
<1>5. Within(sum, IF n > 0 THEN n ELSE new1, Cardinality(Requests))
  <2>1. CASE n > 0
    BY <1>4, <2>1
  <2>2. CASE ~(n > 0)
    <3>1. old + Cardinality(Requests) <= new1 + Cardinality(Requests)
      BY <1>2, <1>3
    <3> QED
      BY <1>2, <1>3, <1>4, <2>2, <3>1, WithinMore
  <2> QED
    BY <2>1, <2>2
<1> QED
  BY <1>5 DEF sum, n, new1

DwellInv == TypedInv /\ InOrder /\ SumsAhead /\ AveragesHonest

LEMMA DwellInit ==
    ASSUME IsFiniteSet(Requests), LongestExists, InsightsInit
    PROVE  InOrder /\ SumsAhead /\ AveragesHonest
<1> USE DEF InsightsInit, ReadersInit, ApiInit, Init
<1>1. InOrder
  BY DEF RequestsInit, InOrder, Half
<1>2. /\ dwellSum = [s \in Stores |-> [z \in Zones |-> 0]]
      /\ dwellCount = [s \in Stores |-> [z \in Zones |-> 0]]
  BY DEF RequestsInit
<1>3. SumsAhead
  <2>1. ASSUME NEW s \in Stores, NEW z \in Zones
        PROVE  Within(dwellSum[s][z], dwellCount[s][z], Cardinality(Ahead(s, z)))
    <3>1. Cardinality(Ahead(s, z)) \in Nat
      <4>1. Ahead(s, z) \subseteq Requests
        BY DEF Ahead
      <4> QED
        BY <4>1, FS_Subset, FS_CardinalityType
    <3>2. dwellSum[s][z] = 0 /\ dwellCount[s][z] = 0
      BY <1>2
    <3> QED
      BY <3>1, <3>2, NothingWithin
  <2> QED
    BY <2>1 DEF SumsAhead
<1>4. AveragesHonest
  <2> DEFINE s0 == CHOOSE s \in Stores : TRUE
  <2>1. /\ metrics = [c \in Calls |-> NoMetrics(s0)] /\ s0 \in Stores
        /\ Cardinality(Requests) \in Nat
    BY IngestionAssumption, FS_CardinalityType
  <2> HIDE DEF s0, InsightsInit, ReadersInit, ApiInit, Init
  <2>2. ASSUME NEW c \in Calls
        PROVE  metrics[c].store = s0 /\ metrics[c].dwell = [z \in Zones |-> NoAverage]
    <3>1. metrics[c] = NoMetrics(s0)
      BY <2>1
    <3> QED
      BY <3>1 DEF NoMetrics
  <2>3. \A z \in Zones : dwellCount[s0][z] = 0
    BY <1>2, <2>1
  <2>4. Within(0, 0, Cardinality(Requests))
    BY <2>1, NothingWithin
  <2> QED
    BY <2>2, <2>3, <2>4 DEF AveragesHonest, AverageHonest, NoAverage
<1> QED
  BY <1>1, <1>3, <1>4

LEMMA DwellStep ==
    ASSUME IsFiniteSet(Requests), LongestExists, DwellInv, [InsightsNext]_allVars
    PROVE  DwellInv'
<1>1. /\ TypeOK /\ ApiInv /\ Backed /\ IsFiniteSet(stored) /\ ReadersTypeOK /\ TypedInv
      /\ InOrder /\ SumsAhead /\ AveragesHonest
  BY DEF DwellInv, TypedInv, ReaderInv, ApiInv, ApiTypeOK, InsightsTypeOK
<1>2. TypedInv'
  BY <1>1, TypedStep
<1>3. [ApiNext]_apiVars
  BY DEF InsightsNext, ReadersNext, allVars
<1>4. InOrder' /\ SumsAhead' /\ CountsGrow
  BY <1>1, <1>3, ApiDwells
<1>5. AveragesHonest'
  <2>1. ASSUME NEW c \in Calls, Insight(c), UNCHANGED apiVars
        PROVE  AveragesHonest'
    <3>1. UNCHANGED <<metrics, zonesLeft, dwellCount>>
      BY <2>1 DEF Insight, HeatFromEvents, HeatConfidence, Noticed, ReadCurrentQueue, JudgeQueue,
         CountToday, JudgeConversion, CountTraffic, FindDeadZones, heldVars, apiVars, vars,
         redisVars
    <3>2. PICK to \in RPCs \ BeforeDwells : rpc' = [rpc EXCEPT ![c] = to]
      BY <2>1, Zenon DEF Insight, HeatFromEvents, HeatConfidence, ReadCurrentQueue, JudgeQueue,
         CountToday, JudgeConversion, CountTraffic, FindDeadZones, CallGoto, BeforeDwells, RPCs
    <3>3. metrics' = [metrics EXCEPT ![c] = metrics[c]]
      BY <1>1, <3>1 DEF ReadersTypeOK
    <3> QED
      BY <1>1, <3>1, <3>2, <3>3, AveragesKept
  <2>2. ASSUME NEW c \in Calls, Call(c), UNCHANGED apiVars
        PROVE  AveragesHonest'
    <3>1. UNCHANGED dwellCount
      BY <2>2 DEF apiVars, vars, redisVars
    <3> QED
      BY <1>1, <2>2, <3>1, CallAverages
  <2>3. CASE UNCHANGED readerVars
    BY <1>1, <1>4, <2>3, AveragesWait
  <2> QED
    BY <2>1, <2>2, <2>3 DEF InsightsNext, ReadersNext, allVars
<1> QED
  BY <1>2, <1>4, <1>5 DEF DwellInv

\* The average dwell of the metrics, a sum read before its count of counters that
\* are written one after the other, is off by no more than one dwell for each
\* request, of which there are finitely many, as there is a longest dwell.
THEOREM DwellAveragesBounded ==
    ASSUME IsFiniteSet(Requests), LongestExists
    PROVE  InsightsSpec => []DwellDriftBounded
<1>1. InsightsInit => InOrder /\ SumsAhead /\ AveragesHonest
  BY DwellInit
<1>2. DwellInv /\ [InsightsNext]_<<apiVars, readerVars, insightVars>> => DwellInv'
  BY DwellStep DEF allVars
<1>3. DwellInv => DwellDriftBounded
  BY DEF DwellInv, AveragesHonest, AverageHonest, Within, DwellDriftBounded
<1>4. TypedInv /\ InOrder /\ SumsAhead /\ AveragesHonest => DwellInv
  BY DEF DwellInv
<1> QED
  BY <1>1, <1>2, <1>3, <1>4, TypedInvariant, PTL DEF InsightsSpec

=============================================================================
