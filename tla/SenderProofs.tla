---------------------------- MODULE SenderProofs ----------------------------
(***************************************************************************)
(* Theorems about the clients: whoever drives the API, simulator, replay   *)
(* or loader, drives it as Api allows, so that what is proved of the API   *)
(* holds of them; and what they count is in the tables.                    *)
(***************************************************************************)
EXTENDS Senders, ApiProofs

sendersVars == <<apiVars, loaderVars, senderVars>>

-----------------------------------------------------------------------------
\* Sequences and numbers.

\* Of a set of n numbers, each k up to n has one with k - 1 lower ones.
LEMMA NthExists ==
    ASSUME NEW n \in Nat, NEW S \in SUBSET (1..n), NEW k \in 1..Cardinality(S)
    PROVE  Nth(S, k) \in S
<1>1. S \subseteq 1..n /\ IsFiniteSet(S)
  <2>1. IsFiniteSet(1..n)
    BY FS_Interval
  <2> QED
    BY <2>1, FS_Subset
<1> DEFINE Low(m) == {j \in S : j <= m}
           c(m) == Cardinality(Low(m))
           Enough == {m \in Nat : k <= c(m)}
<1>2. \A m : IsFiniteSet(Low(m)) /\ c(m) \in Nat
  BY <1>1, FS_Subset, FS_CardinalityType
<1>3. Low(n) = S
  <2>1. \A j \in S : j <= n
    BY <1>1
  <2> QED
    BY <2>1
<1>4. Low(0) = {} /\ c(0) = 0
  <2>1. \A j \in S : ~(j <= 0)
    BY <1>1
  <2>2. Low(0) = {}
    BY <2>1
  <2> QED
    BY <2>2, FS_EmptySet
<1>5. Enough # {} /\ Enough \subseteq Nat
  <2>1. k <= c(n)
    <3> HIDE DEF Low
    <3> QED
      BY <1>1, <1>2, <1>3, FS_CardinalityType
  <2> HIDE DEF c
  <2> QED
    BY <2>1
<1>6. PICK m \in Enough : \A q \in Enough : m <= q
  <2> HIDE DEF Enough
  <2> QED
    BY <1>5, LowestExists
<1>7. k \in Nat /\ k > 0
  BY <1>1, FS_CardinalityType
<1>8. m \in Nat /\ m - 1 \in Nat /\ k <= c(m) /\ ~(k <= c(m - 1))
  <2>1. m \in Nat /\ k <= c(m) /\ m # 0
    <3> HIDE DEF c
    <3> QED
      BY <1>4, <1>7
  <2> HIDE DEF c
  <2>2. m - 1 \in Nat /\ ~(m <= m - 1)
    BY <2>1
  <2>3. m - 1 \notin Enough
    BY <1>6, <2>2
  <2> QED
    BY <2>1, <2>2, <2>3
<1>9. \A j \in S : j <= m <=> j <= m - 1 \/ j = m
  BY <1>1, <1>8
<1>10. m \in S
  <2> SUFFICES ASSUME m \notin S PROVE FALSE
    OBVIOUS
  <2>1. Low(m) = Low(m - 1)
    BY <1>9
  <2> HIDE DEF Low
  <2> QED
    BY <1>8, <2>1
<1>11. c(m) = c(m - 1) + 1
  <2>1. Low(m) = Low(m - 1) \cup {m} /\ m \notin Low(m - 1)
    BY <1>8, <1>9, <1>10
  <2> HIDE DEF Low
  <2> QED
    BY <1>2, <2>1, FS_AddElement
<1>12. c(m) = k
  <2>1. c(m - 1) \in Nat /\ c(m) \in Nat
    BY <1>2
  <2> HIDE DEF c
  <2> QED
    BY <1>7, <1>8, <1>11, <2>1
<1> QED
  BY <1>10, <1>12 DEF Nth

\* load_pos gets rows out of a file.
LEMMA RowsTyped ==
    ASSUME NEW file \in Files
    PROVE  /\ RowsOf(file) \in Seq(CsvRow)
           /\ Len(file) - Cardinality(Parsing(file)) \in Nat
           /\ Cardinality(Parsing(file) \ FirstRows(file)) \in Nat
<1>1. file \in Seq(CsvRow) /\ Len(file) \in Nat /\ DOMAIN file = 1..Len(file)
  BY LoaderAssumption
<1>2. /\ FirstRows(file) \in SUBSET (1..Len(file))
      /\ Parsing(file) \in SUBSET (1..Len(file))
  BY <1>1 DEF FirstRows, Parsing
<1>3. IsFiniteSet(1..Len(file)) /\ Cardinality(1..Len(file)) = Len(file)
  BY <1>1, FS_Interval
<1>4. /\ Cardinality(FirstRows(file)) \in Nat
      /\ Cardinality(Parsing(file)) \in Nat
      /\ Cardinality(Parsing(file) \ FirstRows(file)) \in Nat
  BY <1>2, <1>3, FS_Subset, FS_CardinalityType
<1>5. Cardinality(Parsing(file)) <= Len(file)
  BY <1>2, <1>3, FS_Subset
<1>6. ASSUME NEW k \in 1..Cardinality(FirstRows(file))
      PROVE  file[Nth(FirstRows(file), k)] \in CsvRow
  <2>1. Nth(FirstRows(file), k) \in FirstRows(file)
    BY <1>1, <1>2, NthExists
  <2> QED
    BY <1>1, <1>2, <2>1
<1>7. RowsOf(file) \in Seq(CsvRow)
  BY <1>4, <1>6 DEF RowsOf
<1> QED
  BY <1>1, <1>4, <1>5, <1>7

\* a * d < b * d
LEMMA TimesLess ==
    ASSUME NEW a \in Nat, NEW b \in Nat, NEW d \in Nat \ {0}, a * d < b * d
    PROVE  a < b
<1> SUFFICES ASSUME b <= a PROVE FALSE
  OBVIOUS
<1>1. PICK c \in Nat : a = b + c
  <2>1. a - b \in Nat /\ a = b + (a - b)
    OBVIOUS
  <2> QED
    BY <2>1
<1>2. (b + c) * d = b * d + c * d
  OBVIOUS
<1>3. c * d \in Nat /\ b * d \in Nat
  OBVIOUS
<1> QED
  BY <1>1, <1>2, <1>3

\* A slice that is not empty is within the rows, and what is in it is a row.
LEMMA SliceTyped ==
    ASSUME NEW rs \in Seq(CsvRow), NEW k \in Nat \ {0}
    PROVE  /\ SliceOf(rs, k) \in Seq(CsvRow)
           /\ \A i \in DOMAIN SliceOf(rs, k) : \E j \in DOMAIN rs : SliceOf(rs, k)[i] = rs[j]
           /\ SliceOf(rs, k) = << >> <=> (k - 1) * Slice >= Len(rs)
<1> DEFINE from == (k - 1) * Slice
           to == IF from + Slice < Len(rs) THEN from + Slice ELSE Len(rs)
<1>1. /\ Len(rs) \in Nat /\ Slice \in Nat \ {0} /\ DOMAIN rs = 1..Len(rs)
      /\ \A j \in 1..Len(rs) : rs[j] \in CsvRow
  BY LoaderAssumption
<1>2. from \in Nat
  <2>1. \A a, b \in Nat : a * b \in Nat
    OBVIOUS
  <2> QED
    BY <1>1, <2>1
<1>3. SliceOf(rs, k) = SubSeq(rs, from + 1, to)
  BY DEF SliceOf
<1> HIDE DEF from
<1>4. to \in Nat /\ to <= Len(rs)
  BY <1>1, <1>2
<1> HIDE DEF to
<1>5. /\ SubSeq(rs, from + 1, to) = [i \in 1..(to - from) |-> rs[from + i]]
      /\ DOMAIN SubSeq(rs, from + 1, to) = 1..(to - from)
  BY <1>1, <1>2, <1>4
<1>6. \A i \in 1..(to - from) : from + i \in DOMAIN rs
  BY <1>1, <1>2, <1>4
<1>7. SubSeq(rs, from + 1, to) \in Seq(CsvRow)
  BY <1>1, <1>2, <1>4
<1>8. SubSeq(rs, from + 1, to) = << >> <=> from >= Len(rs)
  <2>1. SubSeq(rs, from + 1, to) = << >> <=> to <= from
    BY <1>1, <1>2, <1>4
  <2>2. to <= from <=> from >= Len(rs)
    BY <1>1, <1>2 DEF to
  <2> QED
    BY <2>1, <2>2
<1> QED
  BY <1>3, <1>5, <1>6, <1>7, <1>8 DEF from

\* What a function makes of a finite set: as much, if nothing falls together.
LEMMA ImageSize ==
    ASSUME NEW S, IsFiniteSet(S), NEW f
    PROVE  /\ IsFiniteSet({f[x] : x \in S}) /\ Cardinality({f[x] : x \in S}) \in Nat
           /\ Cardinality({f[x] : x \in S}) <= Cardinality(S)
           /\ (\A x, y \in S : f[x] = f[y] => x = y) =>
                Cardinality({f[x] : x \in S}) = Cardinality(S)
<1> DEFINE T == {f[x] : x \in S}
           g == [x \in S |-> f[x]]
<1>1. g \in Surjection(S, T)
  BY DEF Surjection
<1>2. (\A x, y \in S : f[x] = f[y] => x = y) => g \in Injection(S, T)
  BY DEF Injection, IsInjective
<1> HIDE DEF T, g
<1>3. /\ IsFiniteSet(T) /\ Cardinality(T) <= Cardinality(S)
      /\ Cardinality(T) = Cardinality(S) <=> g \in Injection(S, T)
  BY <1>1, FS_Surjection
<1>4. Cardinality(T) \in Nat
  BY <1>3, FS_CardinalityType
<1> QED
  BY <1>2, <1>3, <1>4 DEF T

\* What a list holds is at most as much as it is long.
LEMMA RowsSize ==
    ASSUME NEW n \in Nat, NEW f
    PROVE  /\ IsFiniteSet({f[j] : j \in 1..n}) /\ Cardinality({f[j] : j \in 1..n}) \in Nat
           /\ Cardinality({f[j] : j \in 1..n}) <= n
<1> DEFINE I == 1..n
           T == {f[j] : j \in I}
           g == [j \in I |-> f[j]]
<1>1. IsFiniteSet(I) /\ Cardinality(I) = n
  BY FS_Interval
<1>2. g \in Surjection(I, T)
  BY DEF Surjection
<1> HIDE DEF I, T, g
<1>3. IsFiniteSet(T) /\ Cardinality(T) <= Cardinality(I)
  BY <1>1, <1>2, FS_Surjection
<1>4. Cardinality(T) \in Nat
  BY <1>3, FS_CardinalityType
<1> QED
  BY <1>1, <1>3, <1>4 DEF I, T

-----------------------------------------------------------------------------
\* What a step does to the loads.

\* What is known of load k without its rows.
SameLoad(k) ==
    /\ lpc'[k] = lpc[k] /\ payload'[k] = payload[k]
    /\ loaded'[k] = loaded[k] /\ loadAnswer'[k] = loadAnswer[k]

\* A load goes on, and what it has inserted when it is done stays inserted.
GoesOn(l) ==
    /\ lpc[l] # "done" /\ lpc'[l] # "idle"
    /\ lpc[l] # "idle" => payload'[l] = payload[l]
    /\ lpc[l] # "insert" => loaded'[l] = loaded[l]
    /\ \/ lpc'[l] # "done" /\ loadAnswer'[l] = loadAnswer[l]
       \/ lpc'[l] = "done" /\ loadAnswer'[l] = ServerError
       \/ /\ lpc'[l] = "done" /\ lpc[l] = "idle"
          /\ loadAnswer'[l] = [loaded |-> 0, duplicates |-> 0, converted |-> 0]
       \/ /\ lpc'[l] = "done" /\ lpc[l] = "count"
          /\ loadAnswer'[l] = LoadCounts(l)

LEMMA LoadsGoOn ==
    ASSUME LoadsTypeOK, NEW l \in Loads, LoadStep(l)
    PROVE  /\ GoesOn(l) /\ \A k \in Loads \ {l} : SameLoad(k)
           /\ \/ transactions' = transactions
              \/ transactions' = transactions \cup PendingTransactions(l)
<1> USE DEF LoadGoto, SameLoad, GoesOn
<1>1. /\ lpc \in [Loads -> LoadPCs] /\ payload \in [Loads -> Seq(Transactions)]
      /\ loaded \in [Loads -> SUBSET Nat] /\ DOMAIN loadAnswer = Loads
      /\ loadAnswer = [k \in Loads |-> loadAnswer[k]]
  BY DEF LoadsTypeOK
<1>2. CASE LoadNothing(l)
  BY <1>1, <1>2 DEF LoadNothing
<1>3. ASSUME NEW p, ReceiveLoad(l, p)
      PROVE  /\ GoesOn(l) /\ \A k \in Loads \ {l} : SameLoad(k)
             /\ transactions' = transactions
  BY <1>1, <1>3 DEF ReceiveLoad
<1>4. CASE InsertTransaction(l)
  BY <1>1, <1>4 DEF InsertTransaction
<1>5. CASE CommitTransactions(l)
  BY <1>1, <1>5 DEF CommitTransactions
<1>6. CASE BeginUpdate(l)
  BY <1>1, <1>6 DEF BeginUpdate
<1>7. CASE \E v \in Visitors : ConvertRow(l, v)
  BY <1>1, <1>7 DEF ConvertRow
<1>8. CASE EndUpdate(l)
  BY <1>1, <1>8 DEF EndUpdate
<1>9. CASE CommitConversions(l)
  BY <1>1, <1>9 DEF CommitConversions
<1>10. CASE \E s \in Stores : CountStore(l, s)
  BY <1>1, <1>10 DEF CountStore
<1>11. CASE SetCount(l)
  BY <1>1, <1>11 DEF SetCount
<1>12. CASE AnswerLoad(l)
  BY <1>1, <1>12 DEF AnswerLoad
<1>13. CASE FailLoad(l) \/ (AbortLoad(l) /\ UNCHANGED loadFails)
  BY <1>1, <1>13 DEF FailLoad, AbortLoad
<1> QED
  BY <1>2, <1>3, <1>4, <1>5, <1>6, <1>7, <1>8, <1>9, <1>10, <1>11, <1>12, <1>13
     DEF LoadStep, AdvanceLoad

\* A load is answered when it is done, with the number of transactions it loaded.
LoadsAnswered ==
    /\ IsFiniteSet(transactions)
    /\ \A l \in Loads :
         /\ lpc[l] = "done" <=> loadAnswer[l] # NoAnswer
         /\ loadAnswer[l] \in LoadAnswer => loadAnswer[l].loaded = Cardinality(loaded[l])

LEMMA LoadsAnsweredStep ==
    ASSUME ApiInv, LoadsAnswered, [ApiNext]_apiVars
    PROVE  LoadsAnswered'
<1>1. TypeOK /\ Kept /\ LoadsTypeOK /\ LoadPhases
  BY DEF ApiInv, ApiTypeOK
<1>2. ASSUME UNCHANGED loadVars PROVE LoadsAnswered'
  BY <1>2 DEF LoadsAnswered, loadVars
<1>3. ASSUME NEW l \in Loads, LoadStep(l) PROVE LoadsAnswered'
  <2>1. /\ GoesOn(l) /\ \A k \in Loads \ {l} : SameLoad(k)
        /\ transactions' = transactions \/ transactions' = transactions \cup PendingTransactions(l)
    BY <1>1, <1>3, LoadsGoOn
  <2>2. IsFiniteSet(transactions')
    <3>1. payload[l] \in Seq(Transactions) /\ loaded[l] \subseteq DOMAIN payload[l]
      BY <1>1 DEF LoadsTypeOK
    <3>2. Len(payload[l]) \in Nat /\ DOMAIN payload[l] = 1..Len(payload[l])
      BY <3>1
    <3>3. IsFiniteSet(1..Len(payload[l])) /\ loaded[l] \in SUBSET (1..Len(payload[l]))
      BY <3>1, <3>2, FS_Interval
    <3>4. IsFiniteSet(loaded[l])
      BY <3>3, FS_Subset
    <3>5. IsFiniteSet(NewTransactions(l))
      BY <3>4, ImageSize DEF NewTransactions
    <3>6. IsFiniteSet(PendingTransactions(l)) /\ IsFiniteSet(transactions)
      BY <3>5, FS_EmptySet DEF PendingTransactions, LoadsAnswered
    <3> QED
      BY <2>1, <3>6, FS_Union
  <2>3. ServerError # NoAnswer /\ ServerError \notin LoadAnswer /\ NoAnswer \notin LoadAnswer
    BY NoRowAssumption, PosAssumption
  <2>4. LoadCounts(l) \in LoadAnswer /\ LoadCounts(l).loaded = Cardinality(loaded[l])
    BY <1>1, LoadCountsType DEF LoadCounts
  <2>5. lpc[l] = "idle" => loaded[l] = {}
    BY <1>1 DEF LoadPhases, LoadPhaseOf
  <2>6. /\ lpc'[l] = "done" <=> loadAnswer'[l] # NoAnswer
        /\ loadAnswer'[l] \in LoadAnswer => loadAnswer'[l].loaded = Cardinality(loaded'[l])
    <3> DEFINE nothing == [loaded |-> 0, duplicates |-> 0, converted |-> 0]
    <3>1. nothing \in LoadAnswer /\ nothing.loaded = 0 /\ Cardinality({}) = 0
      BY FS_EmptySet DEF LoadAnswer
    <3> HIDE DEF nothing
    <3>2. /\ lpc[l] # "done" => loadAnswer[l] = NoAnswer
          /\ lpc[l] # "done"
      BY <2>1 DEF LoadsAnswered, GoesOn
    <3>3. \/ lpc'[l] # "done" /\ loadAnswer'[l] = NoAnswer
          \/ lpc'[l] = "done" /\ loadAnswer'[l] = ServerError
          \/ lpc'[l] = "done" /\ loadAnswer'[l] = nothing /\ loaded'[l] = {}
          \/ lpc'[l] = "done" /\ loadAnswer'[l] = LoadCounts(l) /\ loaded'[l] = loaded[l]
      BY <2>1, <2>5, <3>2 DEF GoesOn, nothing
    <3> QED
      BY <2>3, <2>4, <3>1, <3>3
  <2> QED
    BY <2>1, <2>2, <2>6 DEF LoadsAnswered, SameLoad
<1> QED
  BY <1>1, <1>2, <1>3, ApiKinds DEF apiVars, Tick

-----------------------------------------------------------------------------
\* The clients drive the API as Api allows.

LoadersTyped ==
    /\ loader \in [Loaders -> LoaderStates]
    /\ rows \in [Loaders -> Seq(CsvRow)]
    /\ tally \in [Loaders -> Tally]
    /\ slice \in [Loaders -> Nat \ {0}]
    /\ \A p \in Loaders :
         /\ rows[p] = << >> \/ \E f \in Files : rows[p] = RowsOf(f)
         /\ tally[p].parsed = Len(rows[p])
         /\ loader[p] = "waiting" => slice[p] <= MaxSlices /\ lpc[LoadOf(p)] # "idle"
         /\ loader[p] = "done" => (slice[p] - 1) * Slice >= Len(rows[p])

Waits(p) == IF sender[p] = "waiting" THEN 1 ELSE 0

SendersTyped ==
    /\ now = 1
    /\ sender \in [Sims \cup Replays -> SenderStates]
    /\ posts \in [Sims \cup Replays -> 0..MaxPosts]
    /\ \A p \in Sims \cup Replays : Waits(p) <= posts[p]
    /\ sim \in [Sims -> Sim]
    /\ \A s \in Sims : sim[s].next = (posts[s] - Waits(s)) * Interval
    /\ log \in [Replays -> DOMAIN Samples]
    /\ converted \in [Replays -> Seq(Events)]
    /\ \A p \in Replays : converted[p] \in {<< >>, Conversion(p, log[p], 1)}

ClientInv == ApiInv /\ LoadsAnswered /\ LoadersTyped /\ SendersTyped

LEMMA ClientInit == SendersInit => ApiInit /\ ClientInv
<1> SUFFICES ASSUME SendersInit PROVE ApiInit /\ ClientInv
  OBVIOUS
<1> USE DEF SendersInit
<1>1. ApiInit /\ ApiInv
  BY ApiInvInit
<1>2. LoadsAnswered
  <2>1. NoAnswer \notin LoadAnswer
    BY PosAssumption
  <2> QED
    BY <2>1, FS_EmptySet DEF ApiInit, LoadsInit, LoadsAnswered
<1>3. LoadersTyped
  <2>1. << >> \in Seq(CsvRow) /\ Len(<< >>) = 0 /\ NoTally \in Tally
    BY DEF NoTally, Tally
  <2> QED
    BY <2>1 DEF LoadersInit, LoadersTyped, LoaderStates, NoTally
<1>4. SendersTyped
  <2>1. now = 1
    BY DEF ApiInit, Init, SessionsInit
  <2>2. /\ 0 \in 0..MaxPosts /\ \A p \in Sims \cup Replays : Waits(p) = 0
        /\ 0 * Interval = 0
    BY SendersAssumption DEF Waits
  <2>3. (CHOOSE n \in DOMAIN Samples : TRUE) \in DOMAIN Samples
    BY SendersAssumption
  <2>4. [time |-> 0, next |-> 0, visitors |-> 0, events |-> 0] \in Sim
    BY DEF Sim
  <2> QED
    BY <2>1, <2>2, <2>3, <2>4 DEF SendersTyped, SenderStates
<1> QED
  BY <1>1, <1>2, <1>3, <1>4 DEF ClientInv

\* What a loader posts is a payload, and the load for it is there.
LEMMA SliceToPost ==
    ASSUME LoadersTyped, NEW p \in Loaders, SliceAt(p) # << >>
    PROVE  /\ LoadOf(p) \in Loads /\ slice[p] \in 1..MaxSlices
           /\ Posted(SliceAt(p)) \in Payloads
<1>1. /\ rows[p] \in Seq(CsvRow) /\ slice[p] \in Nat \ {0} /\ Len(rows[p]) \in Nat
      /\ Slice \in Nat \ {0} /\ MaxSlices \in Nat
  BY LoaderAssumption DEF LoadersTyped
<1>2. (slice[p] - 1) * Slice < Len(rows[p])
  <2>1. ~((slice[p] - 1) * Slice >= Len(rows[p]))
    BY <1>1, SliceTyped DEF SliceAt
  <2>2. (slice[p] - 1) * Slice \in Int
    BY <1>1
  <2> QED
    BY <1>1, <2>1, <2>2
<1>3. PICK f \in Files : rows[p] = RowsOf(f)
  <2>1. rows[p] # << >>
    <3> SUFFICES ASSUME rows[p] = << >> PROVE FALSE
      OBVIOUS
    <3>1. Len(rows[p]) = 0 /\ slice[p] - 1 \in Nat
      BY <1>1
    <3>2. (slice[p] - 1) * Slice \in Nat
      BY <1>1, <3>1
    <3> QED
      BY <1>2, <3>1, <3>2
  <2> QED
    BY <2>1 DEF LoadersTyped
<1>4. slice[p] <= MaxSlices
  <2>1. Len(rows[p]) <= MaxSlices * Slice
    BY <1>1, <1>3, SlicesAssumption
  <2>2. slice[p] - 1 \in Nat
    BY <1>1
  <2>3. (slice[p] - 1) * Slice \in Int /\ MaxSlices * Slice \in Int
    BY <1>1
  <2>4. (slice[p] - 1) * Slice < MaxSlices * Slice
    BY <1>1, <1>2, <2>1, <2>3
  <2>5. slice[p] - 1 < MaxSlices
    BY <1>1, <2>2, <2>4, TimesLess
  <2> QED
    BY <1>1, <2>5
<1> QED
  BY <1>1, <1>3, <1>4, SlicesAssumption, LoaderAssumption DEF SliceAt, LoadOf

LEMMA LoaderDrives ==
    ASSUME LoadersTyped, NEW p \in Loaders, LoaderStep(p)
    PROVE  /\ \/ \E l \in Loads : LoadStep(l) /\ UNCHANGED <<ingestionVars, now>>
              \/ UNCHANGED apiVars
           /\ [ApiNext]_apiVars
<1>1. CASE PostSlice(p)
  <2>1. LoadOf(p) \in Loads /\ Posted(SliceAt(p)) \in Payloads
    BY <1>1, SliceToPost DEF PostSlice
  <2>2. /\ LoadNothing(LoadOf(p)) \/ ReceiveLoad(LoadOf(p), Posted(SliceAt(p)))
        /\ UNCHANGED <<ingestionVars, now>>
    BY <1>1 DEF PostSlice
  <2> QED
    BY <2>1, <2>2 DEF LoadStep, LoadsNext, LoadsPos, ApiNext
<1>2. CASE ~PostSlice(p)
  BY <1>2 DEF LoaderStep, ReadCsv, SliceLost, SliceAnswered, SliceGivenUp, LoaderReturns, NextSlice
<1> QED
  BY <1>1, <1>2

\* There is a request for every arrival.
LEMMA ArrivalRequest ==
    ASSUME SendersTyped, NEW s \in Sims, Arrival(s)
    PROVE  posts[s] < MaxPosts /\ <<s, posts[s] + 1>> \in Requests
<1>1. /\ posts[s] \in Nat /\ MaxPosts \in Nat /\ Interval \in Nat \ {0} /\ Duration \in Nat
      /\ sim[s].time \in Nat
  BY SendersAssumption DEF SendersTyped, Sim
<1>2. /\ sim[s].time < Duration /\ sim[s].next <= sim[s].time
      /\ sim[s].next = posts[s] * Interval
  <2>1. sender[s] # "waiting" /\ sim[s].time < Duration /\ sim[s].time >= sim[s].next
    BY DEF Arrival, SenderGoto
  <2>2. sim[s].next = (posts[s] - 0) * Interval /\ sim[s].next \in Nat
    BY <2>1 DEF SendersTyped, Waits, Sim
  <2> QED
    BY <1>1, <2>1, <2>2
<1>3. posts[s] < MaxPosts
  <2>1. Duration <= MaxPosts * Interval /\ MaxPosts * Interval \in Int /\ posts[s] * Interval \in Int
    BY <1>1, PostsSuffice
  <2>2. posts[s] * Interval < MaxPosts * Interval
    BY <1>1, <1>2, <2>1
  <2> QED
    BY <1>1, <2>2, TimesLess
<1> QED
  BY <1>1, <1>3, SendersAssumption

\* There is a request for every slice, and a slice is a batch.
LEMMA SliceRequest ==
    ASSUME SendersTyped, NEW p \in Replays, Unsent(p) # << >>
    PROVE  /\ posts[p] < MaxPosts /\ <<p, posts[p] + 1>> \in Requests
           /\ FirstOf(Unsent(p)) \in Batches
           /\ converted[p] = Conversion(p, log[p], 1)
           /\ \A i \in DOMAIN FirstOf(Unsent(p)) :
                \E j \in DOMAIN converted[p] : FirstOf(Unsent(p))[i] = converted[p][j]
           /\ \A j \in DOMAIN converted[p] :
                j > posts[p] * ReplaySlice /\ j <= (posts[p] + 1) * ReplaySlice =>
                  \E i \in DOMAIN FirstOf(Unsent(p)) : FirstOf(Unsent(p))[i] = converted[p][j]
<1> DEFINE b == converted[p]
           k == posts[p]
           from == k * ReplaySlice
           n == IF Len(Unsent(p)) < ReplaySlice THEN Len(Unsent(p)) ELSE ReplaySlice
<1>1. /\ k \in Nat /\ MaxPosts \in Nat /\ ReplaySlice \in Nat \ {0}
      /\ b \in Seq(Events) /\ log[p] \in DOMAIN Samples /\ k \in 0..MaxPosts
      /\ p \in Sims \cup Replays
  BY SendersAssumption DEF SendersTyped
<1>2. from \in Nat
  BY <1>1
<1>3. Unsent(p) = SubSeq(b, from + 1, Len(b))
  BY DEF Unsent, After
<1> HIDE DEF from, b
<1>4. from < Len(b) /\ Len(b) \in Nat /\ DOMAIN b = 1..Len(b)
  BY <1>1, <1>2, <1>3
<1>5. /\ DOMAIN Unsent(p) = 1..(Len(b) - from) /\ Len(Unsent(p)) = Len(b) - from
      /\ \A i \in 1..(Len(b) - from) : Unsent(p)[i] = b[from + i]
      /\ Unsent(p) \in Seq(Events)
  <2> DEFINE m == Len(b)
  <2>1. m \in Nat /\ from + 1 <= m + 1 /\ Unsent(p) = SubSeq(b, from + 1, m)
    BY <1>2, <1>3, <1>4
  <2>2. \A i \in from + 1..m : b[i] \in Events
    BY <1>1, <1>2, <1>4
  <2> HIDE DEF m
  <2>3. SubSeq(b, from + 1, m) = [i \in 1..(m - from) |-> b[from + i]]
    BY <1>2, <2>1
  <2>4. m - from \in Nat
    BY <1>2, <2>1
  <2> QED
    BY <1>2, <2>1, <2>2, <2>3, <2>4 DEF m
<1>6. b = Conversion(p, log[p], 1)
  <2>1. b # << >>
    BY <1>2, <1>4
  <2> QED
    BY <2>1 DEF SendersTyped, b
<1>7. k < MaxPosts
  <2>1. DOMAIN b = DOMAIN Samples[log[p]]
    BY <1>6 DEF Conversion
  <2>2. Len(b) \in 1..(MaxPosts * ReplaySlice)
    BY <1>1, <1>2, <1>4, <2>1, PostsSuffice
  <2>3. k * ReplaySlice < MaxPosts * ReplaySlice
    BY <1>1, <1>4, <2>2 DEF from
  <2> QED
    BY <1>1, <2>3, TimesLess
<1>8. FirstOf(Unsent(p)) = SubSeq(Unsent(p), 1, n)
  BY DEF FirstOf
<1>9. n \in 0..Len(Unsent(p))
  BY <1>1, <1>2, <1>4, <1>5
<1> HIDE DEF n
<1>10. /\ DOMAIN FirstOf(Unsent(p)) = 1..n
       /\ \A i \in 1..n : FirstOf(Unsent(p))[i] = Unsent(p)[i]
  BY <1>2, <1>4, <1>5, <1>8, <1>9
<1>11. \A i \in 1..n : from + i \in DOMAIN b /\ FirstOf(Unsent(p))[i] = b[from + i]
  BY <1>2, <1>4, <1>5, <1>9, <1>10
<1>12. FirstOf(Unsent(p)) \in Batches
  <2>1. FirstOf(After(Conversion(p, log[p], 1), k)) \in Batches
    BY <1>1, PostsAssumption
  <2> QED
    BY <1>6, <2>1 DEF Unsent, b
<1>13. ASSUME NEW j \in DOMAIN b, j > from, j <= (k + 1) * ReplaySlice
       PROVE  \E i \in DOMAIN FirstOf(Unsent(p)) : FirstOf(Unsent(p))[i] = b[j]
  <2>1. (k + 1) * ReplaySlice = from + ReplaySlice
    BY <1>1 DEF from
  <2>2. /\ j \in Nat /\ j <= Len(b) /\ j <= from + ReplaySlice
    BY <1>4, <1>13, <2>1
  <2>3. n = IF Len(b) - from < ReplaySlice THEN Len(b) - from ELSE ReplaySlice
    BY <1>5 DEF n
  <2>4. j - from \in 1..n /\ from + (j - from) = j
    <3> DEFINE m == Len(b)
    <3>1. m \in Nat /\ from \in Nat /\ ReplaySlice \in Nat
      BY <1>1, <1>2, <1>4
    <3>2. j \in Nat /\ j <= m /\ j <= from + ReplaySlice /\ j > from
      BY <1>13, <2>2
    <3>3. n = IF m - from < ReplaySlice THEN m - from ELSE ReplaySlice
      BY <2>3
    <3> HIDE DEF m
    <3>4. n \in Int /\ j - from <= n
      BY <3>1, <3>2, <3>3
    <3> QED
      BY <3>1, <3>2, <3>4
  <2>5. PICK i \in 1..n : from + i = j
    BY <2>4
  <2>6. FirstOf(Unsent(p))[i] = b[j] /\ i \in DOMAIN FirstOf(Unsent(p))
    BY <1>10, <1>11, <2>5
  <2> QED
    BY <2>6
<1> QED
  BY <1>1, <1>6, <1>7, <1>10, <1>11, <1>12, <1>13, SendersAssumption DEF b, from

\* What the API sees of a step of a simulator or of a replay.
LEMMA SenderDrives ==
    ASSUME SendersTyped, SenderStep
    PROVE  /\ \/ \E r \in Requests, b \in Batches : Receive(r, b) /\ UNCHANGED loadVars
              \/ UNCHANGED apiVars
           /\ [ApiNext]_apiVars
<1>1. ASSUME NEW s \in Sims, Arrival(s)
      PROVE  \/ \E r \in Requests, b \in Batches : Receive(r, b) /\ UNCHANGED loadVars
             \/ UNCHANGED apiVars
  <2> PICK v \in Drawable : \E journey \in Journeys(s, v) : Post(s, journey)
    BY <1>1 DEF Arrival
  <2>1. PICK journey \in Journeys(s, v) : Post(s, journey)
    OBVIOUS
  <2>2. journey \in Batches
    BY PostsAssumption
  <2>3. UNCHANGED loadVars
    BY <1>1 DEF Arrival
  <2> QED
    BY <1>1, <2>1, <2>2, <2>3, ArrivalRequest DEF Post, apiVars
<1>2. ASSUME NEW p \in Replays, IngestSlice(p)
      PROVE  \/ \E r \in Requests, b \in Batches : Receive(r, b) /\ UNCHANGED loadVars
             \/ UNCHANGED apiVars
  <2>1. Unsent(p) # << >> /\ Post(p, FirstOf(Unsent(p))) /\ UNCHANGED loadVars
    BY <1>2 DEF IngestSlice
  <2> QED
    BY <2>1, SliceRequest DEF Post, apiVars
<1>3. \/ \E r \in Requests, b \in Batches : Receive(r, b) /\ UNCHANGED loadVars
      \/ UNCHANGED apiVars
  BY <1>1, <1>2 DEF SenderStep, SimStarts, SimAnswered, SimUnanswered, Round, NobodyArrives, SimEnds,
     ConvertFile, IngestAnswered, IngestUnanswered, ReplayEnds
<1> QED
  BY <1>3 DEF Arrive, IngestNext, Ingests, ApiNext

LEMMA ServesDrive ==
    ASSUME Serves
    PROVE  /\ \/ \E r \in Requests : (Advance(r) \/ SkipPublish(r) \/ Abort(r)) /\ UNCHANGED loadVars
              \/ \E l \in Loads : /\ AdvanceLoad(l) \/ FailLoad(l) \/ (AbortLoad(l) /\ UNCHANGED loadFails)
                                  /\ UNCHANGED <<ingestionVars, now>>
           /\ [ApiNext]_apiVars
<1>1. CASE \E r \in Requests : (Advance(r) \/ SkipPublish(r) \/ Fail(r)) /\ UNCHANGED loadVars
  BY <1>1 DEF Fail, IngestNext, Ingests, ApiNext
<1>2. CASE \E l \in Loads : (AdvanceLoad(l) \/ FailLoad(l)) /\ UNCHANGED <<ingestionVars, now>>
  BY <1>2 DEF LoadsNext, LoadsPos, ApiNext
<1>3. CASE \E r \in Requests : RequestDeadlock(r)
  BY <1>3 DEF RequestDeadlock, ApiNext
<1>4. CASE \E l \in Loads : LoadDeadlock(l)
  BY <1>4 DEF LoadDeadlock, ApiNext
<1> QED
  BY <1>1, <1>2, <1>3, <1>4 DEF Serves

\* A step of the clients is a step of the API or leaves it alone.
LEMMA ClientsDrive ==
    ASSUME LoadersTyped, SendersTyped, [SendersNext]_sendersVars
    PROVE  [ApiNext]_apiVars
  BY LoaderDrives, SenderDrives, ServesDrive DEF SendersNext, AtRest, sendersVars

-----------------------------------------------------------------------------
\* Their own state keeps its types.

\* What has become of the loads after a step of the API.
LoadsKept ==
    \A l \in Loads :
        /\ lpc[l] # "idle" => lpc'[l] # "idle" /\ payload'[l] = payload[l]
        /\ lpc[l] = "done" => SameLoad(l)

LEMMA LoadsAreKept ==
    ASSUME ApiInv, [ApiNext]_apiVars
    PROVE  LoadsKept
<1>1. TypeOK /\ Kept /\ LoadsTypeOK
  BY DEF ApiInv, ApiTypeOK
<1>2. ASSUME UNCHANGED loadVars PROVE LoadsKept
  BY <1>2 DEF LoadsKept, SameLoad, loadVars
<1>3. ASSUME NEW l \in Loads, LoadStep(l) PROVE LoadsKept
  <2>1. GoesOn(l) /\ \A k \in Loads \ {l} : SameLoad(k)
    BY <1>1, <1>3, LoadsGoOn
  <2> QED
    BY <2>1 DEF LoadsKept, SameLoad, GoesOn
<1> QED
  BY <1>1, <1>2, <1>3, ApiKinds DEF apiVars, Tick

\* The parts of LoadersTyped that concern one loader.
LoaderTyped(p) ==
    /\ loader[p] \in LoaderStates /\ rows[p] \in Seq(CsvRow) /\ tally[p] \in Tally
    /\ slice[p] \in Nat \ {0}
    /\ rows[p] = << >> \/ \E f \in Files : rows[p] = RowsOf(f)
    /\ tally[p].parsed = Len(rows[p])
    /\ loader[p] = "waiting" => slice[p] <= MaxSlices /\ lpc[LoadOf(p)] # "idle"
    /\ loader[p] = "done" => (slice[p] - 1) * Slice >= Len(rows[p])

\* What a slice's reply adds to what a loader has loaded.
Added(p) == IF loadAnswer[LoadOf(p)] = ServerError THEN 0 ELSE loadAnswer[LoadOf(p)].loaded

LEMMA AddedTyped ==
    ASSUME ApiInv, LoadsAnswered, LoadersTyped, NEW p \in Loaders,
           loader[p] = "waiting", lpc[LoadOf(p)] = "done"
    PROVE  /\ Added(p) \in Nat /\ LoadOf(p) \in Loads
           /\ Added(p) = 0 \/ Added(p) = Cardinality(loaded[LoadOf(p)])
<1>1. LoadOf(p) \in Loads
  BY LoaderAssumption DEF LoadersTyped, LoadOf
<1>2. loadAnswer[LoadOf(p)] \in LoadAnswer \cup {ServerError}
  BY <1>1 DEF LoadsAnswered, ApiInv, ApiTypeOK, LoadsTypeOK
<1> QED
  BY <1>1, <1>2 DEF Added, LoadsAnswered, LoadAnswer

\* A loader keeps its types, and the others stay as they are.
LEMMA LoaderTypedStep ==
    ASSUME ApiInv, LoadsAnswered, LoadersTyped, LoadsKept, NEW p \in Loaders, LoaderStep(p)
    PROVE  LoadersTyped'
<1>1. /\ loader \in [Loaders -> LoaderStates] /\ rows \in [Loaders -> Seq(CsvRow)]
      /\ tally \in [Loaders -> Tally] /\ slice \in [Loaders -> Nat \ {0}]
      /\ \A q \in Loaders : LoaderTyped(q)
  BY DEF LoadersTyped, LoaderTyped
<1>2. ASSUME NEW q \in Loaders, UNCHANGED <<loader[q], rows[q], slice[q], tally[q]>>
      PROVE  LoaderTyped(q)'
  <2>1. loader[q] = "waiting" => LoadOf(q) \in Loads /\ LoadOf(q)' = LoadOf(q)
    BY <1>1, <1>2, LoaderAssumption DEF LoaderTyped, LoadOf
  <2> QED
    BY <1>1, <1>2, <2>1 DEF LoaderTyped, LoadsKept
<1>3. /\ \A q \in Loaders \ {p} : UNCHANGED <<loader[q], rows[q], slice[q], tally[q]>>
      /\ loader' \in [Loaders -> LoaderStates] /\ rows' \in [Loaders -> Seq(CsvRow)]
      /\ tally' \in [Loaders -> Tally] /\ slice' \in [Loaders -> Nat \ {0}]
      /\ LoaderTyped(p)'
  <2>1. ASSUME NEW file \in Files, ReadCsv(p, file) PROVE <1>3!:
    <3> DEFINE n == Len(RowsOf(file))
               k == Len(file) - Cardinality(Parsing(file))
               d == Cardinality(Parsing(file) \ FirstRows(file))
    <3>1. /\ RowsOf(file) \in Seq(CsvRow) /\ n \in Nat /\ k \in Nat /\ d \in Nat
      BY RowsTyped
    <3>2. /\ loader' = [loader EXCEPT ![p] = "ready"] /\ rows' = [rows EXCEPT ![p] = RowsOf(file)]
          /\ tally' = [tally EXCEPT ![p] = [parsed |-> n, skipped |-> k, duplicates |-> d, loaded |-> 0]]
          /\ slice' = slice
      BY <2>1 DEF ReadCsv
    <3> HIDE DEF n, k, d
    <3>3. [parsed |-> n, skipped |-> k, duplicates |-> d, loaded |-> 0] \in Tally
      BY <3>1 DEF Tally
    <3> QED
      BY <1>1, <3>1, <3>2, <3>3 DEF LoaderTyped, LoaderStates, n
  <2>2. CASE PostSlice(p)
    <3>1. /\ LoadOf(p) \in Loads /\ slice[p] <= MaxSlices
      BY <2>2, SliceToPost DEF PostSlice
    <3>2. lpc'[LoadOf(p)] # "idle"
      BY <2>2, <3>1 DEF PostSlice, ReceiveLoad, LoadNothing, LoadGoto, ApiInv, ApiTypeOK, LoadsTypeOK
    <3> QED
      BY <1>1, <2>2, <3>1, <3>2 DEF PostSlice, LoaderTyped, LoaderStates, LoadOf
  <2>3. CASE NextSlice(p) /\ UNCHANGED tally
    BY <1>1, <2>3 DEF NextSlice, LoaderTyped, LoaderStates
  <2>4. CASE SliceAnswered(p)
    <3>1. /\ Added(p) \in Nat
          /\ tally' = [tally EXCEPT ![p].loaded = @ + Added(p)] /\ NextSlice(p)
      BY <2>4, AddedTyped DEF SliceAnswered, Added
    <3> DEFINE n == tally[p].loaded + Added(p)
               t == [tally[p] EXCEPT !.loaded = n]
    <3>2. tally[p] \in Tally /\ n \in Nat
      BY <1>1, <3>1 DEF Tally
    <3>3. tally' = [tally EXCEPT ![p] = t]
      BY <3>1
    <3> HIDE DEF n
    <3>4. t \in Tally /\ t.parsed = tally[p].parsed
      BY <3>2 DEF Tally
    <3>5. /\ loader' = [loader EXCEPT ![p] = "ready"] /\ slice' = [slice EXCEPT ![p] = @ + 1]
          /\ rows' = rows
      BY <3>1 DEF NextSlice
    <3> HIDE DEF t
    <3> QED
      BY <1>1, <3>3, <3>4, <3>5 DEF LoaderTyped, LoaderStates
  <2>5. CASE LoaderReturns(p)
    <3>1. (slice[p] - 1) * Slice >= Len(rows[p])
      BY <1>1, <2>5, SliceTyped DEF LoaderReturns, SliceAt
    <3> QED
      BY <1>1, <2>5, <3>1 DEF LoaderReturns, LoaderTyped, LoaderStates
  <2> QED
    BY <2>1, <2>2, <2>3, <2>4, <2>5 DEF LoaderStep, SliceLost, SliceGivenUp
<1>4. \A q \in Loaders : LoaderTyped(q)'
  BY <1>2, <1>3
<1> QED
  BY <1>3, <1>4 DEF LoadersTyped, LoaderTyped

\* The parts of SendersTyped that concern one sender.
SenderTyped(p) ==
    /\ sender[p] \in SenderStates /\ posts[p] \in 0..MaxPosts /\ Waits(p) <= posts[p]
    /\ p \in Sims => sim[p] \in Sim /\ sim[p].next = (posts[p] - Waits(p)) * Interval
    /\ p \in Replays => /\ log[p] \in DOMAIN Samples /\ converted[p] \in Seq(Events)
                        /\ converted[p] \in {<< >>, Conversion(p, log[p], 1)}

\* A step of a sender concerns that sender only.
Concerns(p) ==
    \A q \in (Sims \cup Replays) \ {p} :
        /\ sender'[q] = sender[q] /\ posts'[q] = posts[q]
        /\ q \in Sims => sim'[q] = sim[q]
        /\ q \in Replays => log'[q] = log[q] /\ converted'[q] = converted[q]

Shaped ==
    /\ sender' \in [Sims \cup Replays -> SenderStates]
    /\ posts' \in [Sims \cup Replays -> 0..MaxPosts]
    /\ sim' \in [Sims -> Sim]
    /\ log' \in [Replays -> DOMAIN Samples] /\ converted' \in [Replays -> Seq(Events)]

LEMMA OneSenderTyped ==
    ASSUME SendersTyped, now' = 1, Shaped, NEW p \in Sims \cup Replays, Concerns(p),
           SenderTyped(p)'
    PROVE  SendersTyped'
<1>1. \A q \in (Sims \cup Replays) \ {p} : Waits(q)' = Waits(q)
  BY DEF Concerns, Waits
<1> QED
  BY <1>1 DEF SendersTyped, SenderTyped, Concerns, Shaped

\* Who waits has made a request.
LEMMA WaitsForRequest ==
    ASSUME ApiInv, SendersTyped, NEW p \in Sims \cup Replays, sender[p] = "waiting"
    PROVE  /\ posts[p] \in 1..MaxPosts /\ <<p, posts[p]>> \in Requests
           /\ Len(batch[<<p, posts[p]>>]) \in Nat
<1>1. posts[p] \in 1..MaxPosts
  BY SendersAssumption DEF SendersTyped, Waits
<1>2. <<p, posts[p]>> \in Requests
  BY <1>1, SendersAssumption
<1>3. batch[<<p, posts[p]>>] \in Seq(Events)
  BY <1>2 DEF ApiInv, ApiTypeOK, TypeOK, RequestsTypeOK
<1> QED
  BY <1>1, <1>2, <1>3

\* One more interval.
LEMMA NextMultiple ==
    ASSUME NEW k \in Int, NEW n \in Int
    PROVE  (k - 1) * n + n = k * n
  OBVIOUS

\* After an arrival the time and the next arrival both move on.
LEMMA RoundTyped ==
    ASSUME ApiInv, SendersTyped, now' = 1, NEW s \in Sims, NEW posted \in BOOLEAN, Round(s, posted)
    PROVE  SendersTyped'
<1> DEFINE k == posts[s]
           w == sim[s]
           visitors == w.visitors + (IF posted THEN 1 ELSE 0)
           events == w.events + (IF posted THEN Len(batch[<<s, posts[s]>>]) ELSE 0)
           counters == [time |-> w.time + Step, next |-> w.next + Interval,
                        visitors |-> visitors, events |-> events]
<1>1. /\ sender[s] = "waiting" /\ sender' = [sender EXCEPT ![s] = "ready"]
      /\ sim' = [sim EXCEPT ![s] = counters]
      /\ UNCHANGED <<posts, log, converted>>
  BY DEF Round, SenderGoto
<1>2. /\ k \in 1..MaxPosts /\ w \in Sim /\ w.next = (k - 1) * Interval
      /\ Step \in Nat /\ Interval \in Nat /\ MaxPosts \in Nat
  BY <1>1, WaitsForRequest, SendersAssumption DEF SendersTyped, Waits
<1>3. visitors \in Nat /\ events \in Nat
  <2>1. w \in Sim /\ (posted => Len(batch[<<s, posts[s]>>]) \in Nat)
    BY <1>1, <1>2, WaitsForRequest
  <2> QED
    BY <2>1 DEF Sim
<1> HIDE DEF visitors, events
<1>4. (k - 1) * Interval + Interval = k * Interval
  <2>1. k \in Int /\ Interval \in Int
    BY <1>2
  <2> HIDE DEF k
  <2> QED
    BY <2>1, NextMultiple
<1>5. w.next \in Nat /\ w.time \in Nat
  BY <1>2 DEF Sim
<1>6. counters \in Sim /\ counters.next = k * Interval
  BY <1>2, <1>3, <1>4, <1>5 DEF Sim
<1> HIDE DEF counters
<1>7. sender' \in [Sims \cup Replays -> SenderStates] /\ sender'[s] = "ready" /\ sim'[s] = counters
  BY <1>1 DEF SendersTyped, SenderStates
<1>8. Shaped /\ Concerns(s)
  BY <1>1, <1>6, <1>7 DEF SendersTyped, Shaped, Concerns
<1>9. s \notin Replays
  BY SendersAssumption
<1>10. SenderTyped(s)'
  <2>1. Waits(s)' = 0 /\ posts'[s] = k /\ k - 0 = k
    BY <1>1, <1>2, <1>7 DEF Waits
  <2> QED
    BY <1>2, <1>6, <1>7, <1>9, <2>1 DEF SenderTyped, SenderStates
<1> QED
  BY <1>8, <1>10, OneSenderTyped

LEMMA PostTyped ==
    ASSUME SendersTyped, now' = 1, NEW p \in Sims \cup Replays, posts[p] < MaxPosts,
           SenderGoto(p, "ready", "waiting"), posts' = [posts EXCEPT ![p] = @ + 1],
           UNCHANGED <<sim, log, converted>>
    PROVE  SendersTyped'
<1>1. /\ posts[p] \in 0..MaxPosts /\ MaxPosts \in Nat /\ Waits(p) = 0
      /\ posts \in [Sims \cup Replays -> 0..MaxPosts]
      /\ sender \in [Sims \cup Replays -> SenderStates]
  BY SendersAssumption DEF SendersTyped, SenderGoto, Waits
<1>2. /\ posts[p] + 1 \in 0..MaxPosts /\ 1 <= posts[p] + 1
      /\ posts[p] - 0 = posts[p]
  BY <1>1
<1>3. Shaped /\ Concerns(p)
  BY <1>1, <1>2 DEF SendersTyped, Shaped, Concerns, SenderStates, SenderGoto
<1>4. SenderTyped(p)'
  <2>1. Waits(p)' = 1 /\ posts'[p] = posts[p] + 1 /\ sender'[p] = "waiting"
    BY <1>1 DEF Waits, SenderGoto
  <2>2. p \in Sims => sim'[p] \in Sim /\ sim'[p].next = posts[p] * Interval
    BY <1>1, <1>2 DEF SendersTyped
  <2>3. p \in Replays => /\ log'[p] \in DOMAIN Samples /\ converted'[p] \in Seq(Events)
                         /\ converted'[p] \in {<< >>, Conversion(p, log[p], 1)}
                         /\ log'[p] = log[p]
    BY DEF SendersTyped
  <2>4. /\ sender'[p] \in SenderStates /\ posts'[p] \in 0..MaxPosts /\ Waits(p)' <= posts'[p]
    BY <1>2, <2>1 DEF SenderStates
  <2>6. p \in Sims => sim'[p].next = (posts'[p] - Waits(p)') * Interval
    <3>1. posts'[p] - Waits(p)' = posts[p]
      BY <1>1, <2>1
    <3>2. p \in Sims => sim'[p].next = posts[p] * Interval
      BY <1>1, <2>2
    <3> QED
      BY <3>1, <3>2, Zenon
  <2>5. p \in Replays => Conversion(p, log[p], 1)' = Conversion(p, log[p], 1)
    BY <2>3 DEF Conversion
  <2> QED
    BY <2>2, <2>3, <2>4, <2>5, <2>6 DEF SenderTyped
<1> QED
  BY <1>3, <1>4, OneSenderTyped

\* Steps that only move a sender on, or end a wait.
LEMMA MoveTyped ==
    ASSUME SendersTyped, now' = 1, NEW p \in Sims \cup Replays, NEW from, NEW to \in SenderStates,
           SenderGoto(p, from, to), to # "waiting", UNCHANGED <<posts, sim, log, converted>>,
           from = "waiting" => p \in Replays
    PROVE  SendersTyped'
<1>1. /\ posts[p] \in Nat /\ posts[p] - 0 = posts[p]
      /\ sender \in [Sims \cup Replays -> SenderStates]
      /\ Sims \cap Replays = {}
  BY SendersAssumption DEF SendersTyped
<1>2. Shaped /\ Concerns(p)
  BY <1>1 DEF SendersTyped, Shaped, Concerns, SenderGoto
<1>3. SenderTyped(p)'
  <2>1. Waits(p)' = 0 /\ posts'[p] = posts[p] /\ sender'[p] = to
    BY <1>1 DEF Waits, SenderGoto
  <2>2. p \in Sims => Waits(p) = 0
    BY <1>1 DEF Waits, SenderGoto
  <2> QED
    BY <1>1, <2>1, <2>2 DEF SenderTyped, SendersTyped
<1> QED
  BY <1>2, <1>3, OneSenderTyped

LEMMA SendersTypedStep ==
    ASSUME ApiInv, SendersTyped, [SendersNext]_sendersVars, now' = 1
    PROVE  SendersTyped'
<1>1. CASE UNCHANGED senderVars
  BY <1>1 DEF SendersTyped, senderVars, Waits
<1>2. ASSUME NEW s \in Sims, SimStarts(s) \/ SimEnds(s) PROVE SendersTyped'
  BY <1>2, MoveTyped DEF SimStarts, SimEnds, SenderStates
<1>3. ASSUME NEW s \in Sims, Arrival(s) PROVE SendersTyped'
  <2>1. posts[s] < MaxPosts
    BY <1>3, ArrivalRequest
  <2> QED
    BY <1>3, <2>1, PostTyped DEF Arrival, Post
<1>4. ASSUME NEW s \in Sims, SimAnswered(s) PROVE SendersTyped'
  <2>1. Round(s, Reply(s) # ServerError /\ Reply(s).accepted > 0)
    BY <1>4 DEF SimAnswered
  <2> DEFINE posted == Reply(s) # ServerError /\ Reply(s).accepted > 0
  <2>2. posted \in BOOLEAN /\ Round(s, posted)
    BY <2>1
  <2> HIDE DEF posted
  <2> QED
    BY <2>2, RoundTyped
<1>5. ASSUME NEW s \in Sims, SimUnanswered(s) PROVE SendersTyped'
  BY <1>5, RoundTyped DEF SimUnanswered
<1>6. ASSUME NEW s \in Sims, NobodyArrives(s) PROVE SendersTyped'
  <2>1. /\ sender' = sender /\ sim' = [sim EXCEPT ![s].time = @ + Step]
        /\ UNCHANGED <<posts, log, converted>>
    BY <1>6 DEF NobodyArrives, SenderGoto, SendersTyped
  <2>2. /\ sim \in [Sims -> Sim] /\ Step \in Nat
    BY SendersAssumption DEF SendersTyped
  <2>3. [sim[s] EXCEPT !.time = @ + Step] \in Sim /\ [sim[s] EXCEPT !.time = @ + Step].next = sim[s].next
    BY <2>2 DEF Sim
  <2>4. sim' \in [Sims -> Sim] /\ \A t \in Sims : sim'[t].next = sim[t].next
    BY <2>1, <2>2, <2>3
  <2> QED
    BY <2>1, <2>4 DEF SendersTyped, Waits
<1>7. ASSUME NEW p \in Replays, NEW n \in DOMAIN Samples, ConvertFile(p, n) PROVE SendersTyped'
  <2> DEFINE parses == \A i \in DOMAIN Samples[n] : Samples[n][i].parses
             to == IF parses THEN "ready" ELSE "raised"
             b == IF parses THEN Conversion(p, n, 1) ELSE << >>
  <2>1. /\ sender[p] = "off" /\ sender' = [sender EXCEPT ![p] = to]
        /\ log' = [log EXCEPT ![p] = n] /\ converted' = [converted EXCEPT ![p] = b]
        /\ UNCHANGED <<posts, sim>>
    BY <1>7 DEF ConvertFile, SenderGoto, SendersTyped
  <2>2. /\ b \in Seq(Events) /\ b \in {<< >>, Conversion(p, n, 1)} /\ p \notin Sims
        /\ to \in {"ready", "raised"}
    BY PostsAssumption, SendersAssumption
  <2> HIDE DEF to, b
  <2>3. Shaped /\ Concerns(p)
    BY <2>1, <2>2 DEF SendersTyped, Shaped, Concerns, SenderStates
  <2>4. posts[p] \in Nat
    BY DEF SendersTyped
  <2>5. SenderTyped(p)'
    BY <2>1, <2>2, <2>4 DEF SenderTyped, SendersTyped, SenderStates, Waits
  <2> QED
    BY <2>3, <2>5, OneSenderTyped
<1>8. ASSUME NEW p \in Replays, IngestSlice(p) PROVE SendersTyped'
  <2>1. posts[p] < MaxPosts
    BY <1>8, SliceRequest DEF IngestSlice
  <2> QED
    BY <1>8, <2>1, PostTyped DEF IngestSlice, Post
<1>9. ASSUME NEW p \in Replays, IngestAnswered(p) \/ IngestUnanswered(p) \/ ReplayEnds(p)
      PROVE  SendersTyped'
  BY <1>9, MoveTyped DEF IngestAnswered, IngestUnanswered, ReplayEnds, SenderStates
<1> QED
  BY <1>1, <1>2, <1>3, <1>4, <1>5, <1>6, <1>7, <1>8, <1>9
     DEF SendersNext, SenderStep, AtRest, sendersVars

-----------------------------------------------------------------------------
\* No time passes, since nothing but Api's clock moves it.
LEMMA ClientStep ==
    ASSUME ClientInv, [SendersNext]_sendersVars
    PROVE  ClientInv' /\ [ApiNext]_apiVars /\ LoadsKept
<1>1. ApiInv /\ LoadsAnswered /\ LoadersTyped /\ SendersTyped
  BY DEF ClientInv
<1>2. [ApiNext]_apiVars
  BY <1>1, ClientsDrive
<1>3. ApiInv' /\ LoadsAnswered' /\ LoadsKept
  BY <1>1, <1>2, ApiInvStep, LoadsAnsweredStep, LoadsAreKept
<1>4. now' = 1
  <2>1. TypeOK /\ Kept
    BY <1>1 DEF ApiInv, ApiTypeOK
  <2>2. \A r \in Requests : RequestStep(r) => now' = now
    BY <2>1, RequestKinds
  <2> QED
    BY <1>1, <2>2, LoaderDrives, SenderDrives, ServesDrive
       DEF SendersNext, AtRest, sendersVars, apiVars, vars, SendersTyped, RequestStep, Arrive
<1>5. SendersTyped'
  BY <1>1, <1>4, SendersTypedStep
<1>6. LoadersTyped'
  <2>1. ASSUME UNCHANGED loaderVars PROVE LoadersTyped'
    <3>1. \A p \in Loaders : loader[p] = "waiting" => LoadOf(p) \in Loads /\ LoadOf(p)' = LoadOf(p)
      BY <1>1, <2>1, LoaderAssumption DEF LoadersTyped, LoadOf, loaderVars
    <3> QED
      BY <1>1, <1>3, <2>1, <3>1 DEF LoadersTyped, LoadsKept, loaderVars
  <2>2. ASSUME NEW p \in Loaders, LoaderStep(p) PROVE LoadersTyped'
    BY <1>1, <1>3, <2>2, LoaderTypedStep
  <2> QED
    BY <2>1, <2>2 DEF SendersNext, AtRest, sendersVars
<1> QED
  BY <1>2, <1>3, <1>5, <1>6 DEF ClientInv

LEMMA ClientInvariant == SendersSpec => []ClientInv
<1>1. ClientInv /\ [SendersNext]_sendersVars => ClientInv'
  BY ClientStep
<1>2. SendersInit => ClientInv
  BY ClientInit
<1> QED
  BY <1>1, <1>2, PTL DEF SendersSpec, sendersVars

\* Simulator, replays and loaders use the API as it expects: every behaviour of
\* theirs is one of Api, and has all the properties proved of those.
THEOREM SendersDriveApi == SendersSpec => ApiSpec
<1>1. SendersInit => ApiInit
  BY DEF SendersInit
<1>2. ClientInv /\ [SendersNext]_sendersVars => [ApiNext]_apiVars
  BY ClientStep
<1> QED
  BY <1>1, <1>2, ClientInvariant, PTL DEF SendersSpec, ApiSpec, sendersVars

\* The types of the clients' state, whatever is lost or late.
THEOREM SendersTypeCorrect == SendersSpec => []SendersTypeOK
<1>1. ClientInv => SendersTypeOK
  <2> SUFFICES ASSUME ClientInv PROVE SendersTypeOK
    OBVIOUS
  <2>1. ApiTypeOK /\ LoadersTyped /\ SendersTyped
    BY DEF ClientInv, ApiInv
  <2>2. \A p \in Sims \cup Replays : posts[p] <= MaxPosts /\ (sender[p] = "waiting" => posts[p] > 0)
    BY <2>1, SendersAssumption DEF SendersTyped, Waits
  <2> QED
    BY <2>1, <2>2 DEF SendersTypeOK, LoadersTyped, SendersTyped
<1> QED
  BY <1>1, ClientInvariant, PTL

-----------------------------------------------------------------------------
\* What the simulator makes.

\* The i-th of the m events of a journey through n zones.
JourneyEvent(s, v, zones, depth, n, i) ==
    LET event == IF i = 1 THEN SimEvent(s, v, "ENTRY", NoZone, 0, 0)
                 ELSE IF i <= n + 1 THEN SimEvent(s, v, "ZONE_DWELL", zones[i - 1], 1, 0)
                 ELSE IF i = n + 2 /\ n > 0
                 THEN SimEvent(s, v, "BILLING_QUEUE_JOIN", Checkout, 0, depth)
                 ELSE SimEvent(s, v, "EXIT", NoZone, 0, 0)
    IN [event EXCEPT !.id = <<event.store, event.vid, zones, depth, i>>, !.ts = i]

JourneyLength(n) == IF n = 0 THEN 2 ELSE n + 3

LEMMA JoinedSequences ==
    ASSUME NEW S, NEW a \in Seq(S), NEW b \in Seq(S)
    PROVE  /\ a \o b \in Seq(S) /\ Len(a \o b) = Len(a) + Len(b)
           /\ \A i \in 1..(Len(a) + Len(b)) :
                (a \o b)[i] = IF i <= Len(a) THEN a[i] ELSE b[i - Len(a)]
  OBVIOUS

LEMMA JourneyShape ==
    ASSUME NEW s, NEW v, NEW n \in Nat, NEW zones \in [1..n -> SimZones], NEW depth
    PROVE  /\ DOMAIN GenerateJourney(s, v, zones, depth) = 1..JourneyLength(n)
           /\ \A i \in 1..JourneyLength(n) :
                GenerateJourney(s, v, zones, depth)[i] = JourneyEvent(s, v, zones, depth, n, i)
<1> DEFINE entry == SimEvent(s, v, "ENTRY", NoZone, 0, 0)
           dwell(z) == SimEvent(s, v, "ZONE_DWELL", z, 1, 0)
           join == SimEvent(s, v, "BILLING_QUEUE_JOIN", Checkout, 0, depth)
           exit == SimEvent(s, v, "EXIT", NoZone, 0, 0)
           S == {entry, join, exit} \cup {dwell(z) : z \in SimZones}
           a == << entry >>
           b == [i \in DOMAIN zones |-> dwell(zones[i])]
           c == IF zones = << >> THEN << >> ELSE << join >>
           d == << exit >>
           all == a \o b \o c \o d
           k == IF n = 0 THEN 0 ELSE 1
           m == JourneyLength(n)
<1> HIDE DEF entry, join, exit, dwell
<1>1. a \in Seq(S) /\ Len(a) = 1 /\ a[1] = entry
  OBVIOUS
<1>2. d \in Seq(S) /\ Len(d) = 1 /\ d[1] = exit
  OBVIOUS
<1>3. zones = << >> <=> n = 0
  <2>1. zones \in Seq(SimZones) /\ Len(zones) = n
    OBVIOUS
  <2> QED
    BY <2>1
<1>4. b \in Seq(S) /\ Len(b) = n /\ \A i \in 1..n : b[i] = dwell(zones[i])
  <2>1. \A i \in 1..n : dwell(zones[i]) \in S
    OBVIOUS
  <2>2. b = [i \in 1..n |-> dwell(zones[i])]
    OBVIOUS
  <2> HIDE DEF b, S
  <2> QED
    BY <2>1, <2>2
<1>5. c \in Seq(S) /\ Len(c) = k /\ (k = 1 => c[1] = join)
  <2>1. CASE n = 0
    <3>1. c = << >> /\ k = 0
      BY <1>3, <2>1
    <3> QED
      BY <3>1
  <2>2. CASE n # 0
    <3>1. c = << join >> /\ k = 1 /\ join \in S
      BY <1>3, <2>2
    <3> HIDE DEF c, k, S
    <3> QED
      BY <3>1
  <2> QED
    BY <2>1, <2>2
<1>6. m = 1 + n + k + 1 /\ k \in {0, 1} /\ (k = 1 <=> n > 0)
  BY DEF JourneyLength
<1> HIDE DEF a, b, c, d, S, k
<1>7. /\ a \o b \in Seq(S) /\ Len(a \o b) = 1 + n
      /\ \A i \in 1..(1 + n) : (a \o b)[i] = IF i <= 1 THEN a[i] ELSE b[i - 1]
  BY <1>1, <1>4, JoinedSequences
<1>8. /\ a \o b \o c \in Seq(S) /\ Len(a \o b \o c) = 1 + n + k
      /\ \A i \in 1..(1 + n + k) :
           (a \o b \o c)[i] = IF i <= 1 + n THEN (a \o b)[i] ELSE c[i - (1 + n)]
  <2> DEFINE ab == a \o b
  <2>1. ab \in Seq(S) /\ Len(ab) = 1 + n
    BY <1>7
  <2> HIDE DEF ab
  <2>2. /\ ab \o c \in Seq(S) /\ Len(ab \o c) = 1 + n + k
        /\ \A i \in 1..(1 + n + k) : (ab \o c)[i] = IF i <= 1 + n THEN ab[i] ELSE c[i - (1 + n)]
    BY <1>5, <1>6, <2>1, JoinedSequences
  <2> QED
    BY <2>2 DEF ab
<1>9. /\ all \in Seq(S) /\ Len(all) = m
      /\ \A i \in 1..m : all[i] = IF i <= 1 + n + k THEN (a \o b \o c)[i] ELSE d[i - (1 + n + k)]
  <2> DEFINE abc == a \o b \o c
             x == 1 + n + k
  <2>1. abc \in Seq(S) /\ Len(abc) = x /\ x \in Nat /\ m = x + 1
    BY <1>6, <1>8
  <2> HIDE DEF abc, x, m
  <2>2. /\ abc \o d \in Seq(S) /\ Len(abc \o d) = x + 1
        /\ \A i \in 1..(x + 1) : (abc \o d)[i] = IF i <= x THEN abc[i] ELSE d[i - x]
    <3>1. /\ abc \o d \in Seq(S) /\ Len(abc \o d) = Len(abc) + Len(d)
          /\ \A i \in 1..(Len(abc) + Len(d)) :
               (abc \o d)[i] = IF i <= Len(abc) THEN abc[i] ELSE d[i - Len(abc)]
      BY <1>2, <2>1, JoinedSequences, Zenon
    <3> QED
      BY <1>2, <2>1, <3>1, Zenon
  <2> QED
    BY <2>1, <2>2 DEF abc, x
<1>10. DOMAIN all = 1..m
  BY <1>9
<1>11. ASSUME NEW i \in 1..m
       PROVE  all[i] = IF i = 1 THEN entry ELSE IF i <= n + 1 THEN dwell(zones[i - 1])
                       ELSE IF i = n + 2 /\ n > 0 THEN join ELSE exit
  <2>1. i \in Nat /\ i >= 1 /\ i <= 1 + n + k + 1
    BY <1>6
  <2>2. CASE i = 1
    BY <1>1, <1>6, <1>7, <1>8, <1>9, <2>1, <2>2
  <2>3. CASE i # 1 /\ i <= n + 1
    <3>1. i - 1 \in 1..n
      BY <2>1, <2>3
    <3> QED
      BY <1>4, <1>6, <1>7, <1>8, <1>9, <2>1, <2>3, <3>1
  <2>4. CASE i = n + 2 /\ n > 0
    <3>1. k = 1 /\ i - (1 + n) = 1 /\ ~(i <= 1 + n) /\ i # 1
      BY <1>6, <2>4
    <3> QED
      BY <1>5, <1>6, <1>8, <1>9, <2>1, <2>4, <3>1
  <2>5. CASE i # 1 /\ ~(i <= n + 1) /\ ~(i = n + 2 /\ n > 0)
    <3>1. i - (1 + n + k) = 1 /\ ~(i <= 1 + n + k)
      BY <1>6, <2>1, <2>5
    <3>2. d[i - (1 + n + k)] = exit
      BY <1>2, <3>1
    <3> QED
      BY <1>9, <2>5, <3>1, <3>2
  <2> QED
    BY <2>2, <2>3, <2>4, <2>5
<1>12. GenerateJourney(s, v, zones, depth) = InOrder(all, zones, depth)
  BY DEF GenerateJourney, a, b, c, d, entry, dwell, join, exit
<1> HIDE DEF all, m
<1>13. ASSUME NEW i \in 1..m
       PROVE  InOrder(all, zones, depth)[i] = JourneyEvent(s, v, zones, depth, n, i)
  <2>1. InOrder(all, zones, depth)[i]
          = [all[i] EXCEPT !.id = <<all[i].store, all[i].vid, zones, depth, i>>, !.ts = i]
    BY <1>10 DEF InOrder
  <2> QED
    BY <1>11, <2>1 DEF JourneyEvent, entry, dwell, join, exit
<1> QED
  BY <1>10, <1>12, <1>13 DEF m, InOrder

\* The fields of such an event, as far as they matter.
IsJourneyEvent(e, s, v, zones, depth, n, i) ==
    /\ e.id = <<s, v, zones, depth, i>>
    /\ e.store = s /\ e.vid = v /\ e.ts = i /\ ~e.staff
    /\ e.type = IF i = 1 THEN "ENTRY" ELSE IF i <= n + 1 THEN "ZONE_DWELL"
                ELSE IF i = n + 2 /\ n > 0 THEN "BILLING_QUEUE_JOIN" ELSE "EXIT"
    /\ i # 1 /\ i <= n + 1 => e.zone = zones[i - 1]
    /\ i = n + 2 /\ n > 0 => e.zone = Checkout
    /\ Valid(e)

LEMMA JourneyFields ==
    ASSUME NEW s, NEW v, NEW n \in Nat, NEW zones \in [1..n -> SimZones],
           NEW depth \in 1..MaxDepth, NEW i \in 1..JourneyLength(n)
    PROVE  IsJourneyEvent(GenerateJourney(s, v, zones, depth)[i], s, v, zones, depth, n, i)
<1> DEFINE e == JourneyEvent(s, v, zones, depth, n, i)
<1>1. GenerateJourney(s, v, zones, depth)[i] = e
  BY JourneyShape
<1> DEFINE base == IF i = 1 THEN SimEvent(s, v, "ENTRY", NoZone, 0, 0)
                   ELSE IF i <= n + 1 THEN SimEvent(s, v, "ZONE_DWELL", zones[i - 1], 1, 0)
                   ELSE IF i = n + 2 /\ n > 0
                   THEN SimEvent(s, v, "BILLING_QUEUE_JOIN", Checkout, 0, depth)
                   ELSE SimEvent(s, v, "EXIT", NoZone, 0, 0)
<1>2. /\ base.store = s /\ base.vid = v /\ base.staff = FALSE /\ base.wellFormed = TRUE
      /\ base.type = IF i = 1 THEN "ENTRY" ELSE IF i <= n + 1 THEN "ZONE_DWELL"
                     ELSE IF i = n + 2 /\ n > 0 THEN "BILLING_QUEUE_JOIN" ELSE "EXIT"
      /\ i # 1 /\ i <= n + 1 => base.zone = zones[i - 1]
      /\ i = n + 2 /\ n > 0 => base.zone = Checkout
      /\ base.type = "BILLING_QUEUE_JOIN" => base.depth = depth
      /\ base.type # "ZONE_DWELL" => base.dwell = 0
      /\ base.type \in {"ENTRY", "EXIT"} => base.zone = NoZone
  BY DEF SimEvent
<1>3. /\ e.id = <<s, v, zones, depth, i>> /\ e.store = base.store /\ e.vid = base.vid
      /\ e.type = base.type /\ e.ts = i /\ e.zone = base.zone /\ e.dwell = base.dwell
      /\ e.staff = base.staff /\ e.depth = base.depth /\ e.wellFormed = base.wellFormed
  <2> DEFINE name == <<base.store, base.vid, zones, depth, i>>
  <2>1. e = [base EXCEPT !.id = name, !.ts = i] /\ name = <<s, v, zones, depth, i>>
    BY <1>2 DEF JourneyEvent
  <2>2. DOMAIN base = {"id", "store", "vid", "type", "ts", "zone", "dwell", "staff", "depth", "wellFormed"}
    BY DEF SimEvent
  <2> HIDE DEF base, e, name
  <2> QED
    BY <2>1, <2>2
<1> HIDE DEF e, base
<1>4. base.type = "ZONE_DWELL" => base.zone # NoZone
  <2>1. SimZones \subseteq Zones /\ NoZone \notin Zones
    BY SendersAssumption, EventAssumption
  <2>2. i # 1 /\ i <= n + 1 => i - 1 \in 1..n
    OBVIOUS
  <2> QED
    BY <1>2, <2>1, <2>2
<1>5. depth >= 1
  BY EventAssumption
<1>6. Valid(e)
  BY <1>2, <1>3, <1>4, <1>5
     DEF Valid, FieldRules, ZoneRule, DepthRule, DwellRule, NoZoneTypes, RequireZoneTypes, InstantTypes
<1>7. IsJourneyEvent(e, s, v, zones, depth, n, i)
  BY <1>2, <1>3, <1>6 DEF IsJourneyEvent
<1> QED
  BY <1>1, <1>7

-----------------------------------------------------------------------------
\* Where batches come from.

Journey(r, b) == r[1] \in Sims /\ \E v \in Drawable : b \in Journeys(r[1], v)

Lines(r, b) ==
    /\ r[1] \in Replays
    /\ \A i \in DOMAIN b : \E n \in DOMAIN Samples : \E j \in DOMAIN Samples[n] :
         b[i] = Conversion(r[1], n, 1)[j]

\* A batch is the journey of a visitor whom no other batch knows, or made of lines.
Origins ==
    /\ \A r \in Requests : batch[r] # << >> => Journey(r, batch[r]) \/ Lines(r, batch[r])
    /\ \A r, q \in Requests :
         r # q /\ r[1] \in Sims /\ q[1] \in Sims /\ batch[r] # << >> /\ batch[q] # << >>
         => batch[r][1].vid # batch[q][1].vid

\* Every event of a journey is the visitor's and is accepted.
LEMMA JourneyEvents ==
    ASSUME NEW s \in Sims, NEW v \in Drawable, NEW j \in Journeys(s, v)
    PROVE  /\ 1 \in DOMAIN j /\ j # << >> /\ j \in Seq(Events)
           /\ \A i \in DOMAIN j : Valid(j[i]) /\ j[i].vid = v /\ j[i].store = s
<1>1. PICK zones \in UNION {[1..n -> SimZones] : n \in 0..MaxDwells}, depth \in 1..MaxDepth :
        j = GenerateJourney(s, v, zones, depth)
  BY DEF Journeys
<1>2. PICK n \in 0..MaxDwells : zones \in [1..n -> SimZones]
  BY <1>1
<1>3. n \in Nat /\ JourneyLength(n) \in Nat /\ 1 \in 1..JourneyLength(n)
  BY SendersAssumption DEF JourneyLength
<1>4. DOMAIN j = 1..JourneyLength(n)
  BY <1>1, <1>2, <1>3, JourneyShape
<1>5. ASSUME NEW i \in DOMAIN j PROVE Valid(j[i]) /\ j[i].vid = v /\ j[i].store = s
  <2>1. i \in 1..JourneyLength(n) /\ j[i] = GenerateJourney(s, v, zones, depth)[i]
    BY <1>1, <1>4
  <2>2. IsJourneyEvent(j[i], s, v, zones, depth, n, i)
    BY <1>1, <1>2, <1>3, <2>1, JourneyFields
  <2> QED
    BY <2>2 DEF IsJourneyEvent
<1>6. j \in Seq(Events)
  BY PostsAssumption, IngestionAssumption
<1> QED
  BY <1>3, <1>4, <1>5, <1>6

\* A step of the clients: a request arrives, the journey of somebody new or made of
\* lines, or the API goes on with a request or with a load, or it sees nothing.
LEMMA ClientKinds ==
    ASSUME ClientInv, [SendersNext]_sendersVars
    PROVE  \/ \E r \in Requests, b \in Batches :
                /\ Receive(r, b) /\ UNCHANGED loadVars
                /\ \/ r[1] \in Sims /\ \E v \in Drawable \ Drawn : b \in Journeys(r[1], v)
                   \/ Lines(r, b)
           \/ \E r \in Requests : (Advance(r) \/ SkipPublish(r) \/ Abort(r)) /\ UNCHANGED loadVars
           \/ \E l \in Loads : LoadStep(l) /\ UNCHANGED <<ingestionVars, now>>
           \/ UNCHANGED apiVars
<1>1. LoadersTyped /\ SendersTyped
  BY DEF ClientInv
<1>2. ASSUME NEW s \in Sims, Arrival(s), ~UNCHANGED apiVars
      PROVE  \E r \in Requests, b \in Batches :
               /\ Receive(r, b) /\ UNCHANGED loadVars
               /\ r[1] \in Sims /\ \E v \in Drawable \ Drawn : b \in Journeys(r[1], v)
  <2>1. PICK v \in Drawable \ Drawn : \E journey \in Journeys(s, v) : Post(s, journey)
    BY <1>2 DEF Arrival
  <2>2. PICK journey \in Journeys(s, v) : Post(s, journey)
    BY <2>1
  <2>3. UNCHANGED loadVars
    BY <1>2 DEF Arrival
  <2>4. Receive(<<s, posts[s] + 1>>, journey)
    BY <1>2, <2>2, <2>3 DEF Post, apiVars
  <2>5. journey \in Batches /\ <<s, posts[s] + 1>> \in Requests /\ <<s, posts[s] + 1>>[1] = s
    BY <1>1, <1>2, PostsAssumption, ArrivalRequest
  <2> QED
    BY <2>3, <2>4, <2>5
<1>3. ASSUME NEW p \in Replays, IngestSlice(p), ~UNCHANGED apiVars
      PROVE  \E r \in Requests, b \in Batches : Receive(r, b) /\ UNCHANGED loadVars /\ Lines(r, b)
  <2> DEFINE r == <<p, posts[p] + 1>>
             b == FirstOf(Unsent(p))
  <2>1. Unsent(p) # << >> /\ Receive(r, b) /\ UNCHANGED loadVars
    BY <1>3 DEF IngestSlice, Post, apiVars
  <2>2. /\ r \in Requests /\ b \in Batches /\ r[1] = p
        /\ converted[p] = Conversion(p, log[p], 1)
        /\ \A i \in DOMAIN b : \E j \in DOMAIN converted[p] : b[i] = converted[p][j]
    BY <1>1, <2>1, SliceRequest
  <2>3. log[p] \in DOMAIN Samples /\ DOMAIN converted[p] = DOMAIN Samples[log[p]]
    BY <1>1, <2>2 DEF SendersTyped, Conversion
  <2> HIDE DEF r, b
  <2>4. Lines(r, b)
    BY <2>2, <2>3 DEF Lines
  <2> QED
    BY <2>1, <2>2, <2>4
<1>4. CASE SenderStep
  <2>1. \/ \E s \in Sims : Arrival(s)
        \/ \E p \in Replays : IngestSlice(p)
        \/ UNCHANGED apiVars
    BY <1>4 DEF SenderStep, SimStarts, SimAnswered, SimUnanswered, Round, NobodyArrives, SimEnds,
       ConvertFile, IngestAnswered, IngestUnanswered, ReplayEnds
  <2> QED
    BY <1>2, <1>3, <2>1
<1>5. CASE Serves
  BY <1>5, ServesDrive DEF LoadStep
<1>6. CASE \E p \in Loaders : LoaderStep(p)
  BY <1>1, <1>6, LoaderDrives
<1> QED
  BY <1>4, <1>5, <1>6 DEF SendersNext, AtRest, sendersVars, apiVars

\* Batches are what arrived.
LEMMA BatchKept ==
    ASSUME NEW r, Advance(r) \/ SkipPublish(r) \/ Abort(r)
    PROVE  batch' = batch
  BY DEF Advance, InsertEvent, CommitEvents, UpdateSession, CommitSessions, LookAtQueue,
     RedisCommand, PipelineDone, ReadVisitors, ReadField, ReadDepth, ReadConversions, ReadTs, Publish,
     Respond, SkipPublish, Abort

LEMMA OriginsStep ==
    ASSUME ClientInv, Origins, [SendersNext]_sendersVars
    PROVE  Origins'
<1>1. CASE batch' = batch
  BY <1>1 DEF Origins
<1>2. ASSUME NEW r \in Requests, NEW b \in Batches, Receive(r, b),
             \/ r[1] \in Sims /\ \E v \in Drawable \ Drawn : b \in Journeys(r[1], v)
             \/ Lines(r, b)
      PROVE  Origins'
  <2>1. batch' = [batch EXCEPT ![r] = b] /\ batch \in [Requests -> Seq(Events)]
    BY <1>2 DEF Receive, ClientInv, ApiInv, ApiTypeOK, TypeOK, RequestsTypeOK
  <2>2. batch'[r] = b /\ \A q \in Requests \ {r} : batch'[q] = batch[q]
    BY <2>1
  <2>3. Journey(r, b) \/ Lines(r, b)
    BY <1>2 DEF Journey
  <2>4. \A q \in Requests : batch'[q] # << >> => Journey(q, batch'[q]) \/ Lines(q, batch'[q])
    BY <2>2, <2>3 DEF Origins
  <2>5. ASSUME NEW q \in Requests \ {r}, r[1] \in Sims, batch[q] # << >>
        PROVE  b[1].vid # batch[q][1].vid
    <3>1. r[1] \notin Replays
      BY <2>5, SendersAssumption
    <3>2. PICK v \in Drawable \ Drawn : b \in Journeys(r[1], v)
      BY <1>2, <3>1 DEF Lines
    <3>3. b[1].vid = v
      BY <2>5, <3>2, JourneyEvents
    <3>4. batch[q][1].vid \in Drawn
      BY <2>5 DEF Drawn
    <3> QED
      BY <3>2, <3>3, <3>4
  <2> QED
    BY <2>2, <2>4, <2>5 DEF Origins
<1>3. UNCHANGED ingestionVars \/ UNCHANGED apiVars => batch' = batch
  BY DEF ingestionVars, apiVars, vars, requestVars
<1> QED
  BY <1>1, <1>2, <1>3, BatchKept, ClientKinds

-----------------------------------------------------------------------------
\* What loaders count.

RowTransactions(p) == {rows[p][i].txn : i \in DOMAIN rows[p]}

\* What is posted comes from the rows.
PaysRows ==
    \A l \in Loads :
        /\ loader[l[1]] = "off" => payload[l] = << >>
        /\ \A i \in DOMAIN payload[l] : payload[l][i] \in RowTransactions(l[1])

\* The loads a loader is past, answered in time or not, and what they stored.
CreditedLoads(p) == {l \in Loads : l[1] = p /\ l[2] < slice[p] /\ lpc[l] = "done"}
Credited(p) == UNION {NewTransactions(l) : l \in CreditedLoads(p)}

\* A loader counts no more than that.
CountsCredited == \A p \in Loaders : tally[p].loaded <= Cardinality(Credited(p))

LEMMA PayloadStep ==
    ASSUME ClientInv, [SendersNext]_sendersVars
    PROVE  \/ payload' = payload
           \/ \E p \in Loaders :
                PostSlice(p) /\ payload' = [payload EXCEPT ![LoadOf(p)] = Posted(SliceAt(p))]
<1>1. LoadersTyped /\ SendersTyped /\ LoadsTypeOK
  BY DEF ClientInv, ApiInv, ApiTypeOK
<1>2. CASE SenderStep
  BY <1>1, <1>2, SenderDrives DEF apiVars, loadVars
<1>3. CASE Serves
  <2>1. \A l \in Loads : AdvanceLoad(l) \/ FailLoad(l) \/ AbortLoad(l) => payload' = payload
    BY DEF AdvanceLoad, InsertTransaction, CommitTransactions, BeginUpdate, ConvertRow, EndUpdate,
       CommitConversions, CountStore, SetCount, AnswerLoad, FailLoad, AbortLoad
  <2> QED
    BY <1>3, <2>1, ServesDrive DEF loadVars
<1>4. ASSUME NEW p \in Loaders, LoaderStep(p)
      PROVE  \/ payload' = payload
             \/ PostSlice(p) /\ payload' = [payload EXCEPT ![LoadOf(p)] = Posted(SliceAt(p))]
  BY <1>4 DEF LoaderStep, PostSlice, ReceiveLoad, LoadNothing, ReadCsv, SliceLost, SliceAnswered,
     SliceGivenUp, LoaderReturns, NextSlice, apiVars, loadVars
<1>5. CASE UNCHANGED apiVars
  BY <1>5 DEF apiVars, loadVars
<1> QED
  BY <1>2, <1>3, <1>4, <1>5 DEF SendersNext, AtRest, sendersVars

\* What a step does to the loaders.
LEMMA LoaderKinds ==
    ASSUME ClientInv, [SendersNext]_sendersVars, NEW q \in Loaders
    PROVE  \/ UNCHANGED <<loader[q], rows[q], slice[q], tally[q]>>
           \/ \E f \in Files : ReadCsv(q, f)
           \/ PostSlice(q) /\ loader'[q] = "waiting" /\ UNCHANGED <<rows[q], slice[q], tally[q]>>
           \/ NextSlice(q) /\ loader[q] # "off" /\ loader'[q] = "ready" /\ rows'[q] = rows[q]
              /\ slice'[q] = slice[q] + 1 /\ (tally'[q] = tally[q] \/ SliceAnswered(q))
           \/ LoaderReturns(q) /\ loader'[q] = "done" /\ UNCHANGED <<rows[q], slice[q], tally[q]>>
<1>1. LoadersTyped
  BY DEF ClientInv
<1>2. CASE UNCHANGED loaderVars
  BY <1>2 DEF loaderVars
<1>3. ASSUME NEW p \in Loaders, LoaderStep(p), p # q
      PROVE  UNCHANGED <<loader[q], rows[q], slice[q], tally[q]>>
  BY <1>1, <1>3 DEF LoaderStep, PostSlice, ReadCsv, SliceLost, SliceAnswered, SliceGivenUp,
     LoaderReturns, NextSlice, LoadersTyped
<1>4. CASE LoaderStep(q)
  BY <1>1, <1>4 DEF LoaderStep, PostSlice, SliceLost, SliceAnswered, SliceGivenUp,
     LoaderReturns, NextSlice, LoadersTyped
<1> QED
  BY <1>2, <1>3, <1>4 DEF SendersNext, AtRest, sendersVars

\* Nothing is paid that is not in the file.
LEMMA PaysRowsStep ==
    ASSUME ClientInv, PaysRows, [SendersNext]_sendersVars
    PROVE  PaysRows'
<1>1. LoadersTyped /\ Loads = Loaders \X (1..MaxSlices)
  BY LoaderAssumption DEF ClientInv
<1> SUFFICES ASSUME NEW l \in Loads
             PROVE  /\ loader'[l[1]] = "off" => payload'[l] = << >>
                    /\ \A i \in DOMAIN payload'[l] : payload'[l][i] \in RowTransactions(l[1])'
  BY DEF PaysRows
<1> DEFINE q == l[1]
<1>2. q \in Loaders
  BY <1>1
<1>3. /\ loader[q] = "off" => payload[l] = << >>
      /\ \A i \in DOMAIN payload[l] : payload[l][i] \in RowTransactions(q)
  BY DEF PaysRows
<1>4. payload'[l] = payload[l] \/ (PostSlice(q) /\ payload'[l] = Posted(SliceAt(q)))
  <2>1. ASSUME NEW p \in Loaders, PostSlice(p),
               payload' = [payload EXCEPT ![LoadOf(p)] = Posted(SliceAt(p))]
        PROVE  payload'[l] = payload[l] \/ (PostSlice(q) /\ payload'[l] = Posted(SliceAt(q)))
    <3>1. payload \in [Loads -> Seq(Transactions)]
      BY DEF ClientInv, ApiInv, ApiTypeOK, LoadsTypeOK
    <3>2. l = LoadOf(p) => q = p
      BY <1>1 DEF LoadOf
    <3> HIDE DEF q
    <3> QED
      BY <2>1, <3>1, <3>2
  <2> QED
    BY <2>1, PayloadStep
<1>5. /\ loader'[q] = "off" => loader[q] = "off"
      /\ rows'[q] = rows[q] \/ loader[q] = "off"
      /\ PostSlice(q) => loader'[q] # "off" /\ rows'[q] = rows[q]
  BY <1>1, <1>2, LoaderKinds DEF ReadCsv, PostSlice, NextSlice, LoaderReturns, LoadersTyped
<1>6. CASE payload'[l] = payload[l]
  BY <1>3, <1>5, <1>6 DEF RowTransactions
<1>7. CASE PostSlice(q) /\ payload'[l] = Posted(SliceAt(q))
  <2>1. \A i \in DOMAIN SliceAt(q) : \E j \in DOMAIN rows[q] : SliceAt(q)[i] = rows[q][j]
    <3>1. rows[q] \in Seq(CsvRow) /\ slice[q] \in Nat \ {0}
      BY <1>1, <1>2 DEF LoadersTyped
    <3> QED
      BY <3>1, SliceTyped DEF SliceAt
  <2>2. \A i \in DOMAIN Posted(SliceAt(q)) : Posted(SliceAt(q))[i] \in RowTransactions(q)'
    BY <1>5, <1>7, <2>1 DEF Posted, RowTransactions
  <2> QED
    BY <1>5, <1>7, <2>2
<1> QED
  BY <1>4, <1>6, <1>7

\* What a load has inserted: as many transactions as it says.
LEMMA NewTransactionsOf ==
    ASSUME ApiInv, LoadsAnswered, NEW l \in Loads
    PROVE  /\ IsFiniteSet(NewTransactions(l))
           /\ Cardinality(NewTransactions(l)) = Cardinality(loaded[l])
           /\ Cardinality(loaded[l]) \in Nat
           /\ lpc[l] = "done" => NewTransactions(l) \subseteq transactions
<1>1. LoadsTypeOK /\ LoadPhases /\ LoadedOnce
  BY DEF ApiInv, ApiTypeOK
<1>2. payload[l] \in Seq(Transactions) /\ loaded[l] \subseteq DOMAIN payload[l]
  BY <1>1 DEF LoadsTypeOK
<1>3. Len(payload[l]) \in Nat /\ DOMAIN payload[l] = 1..Len(payload[l])
  BY <1>2
<1>4. IsFiniteSet(1..Len(payload[l])) /\ loaded[l] \in SUBSET (1..Len(payload[l]))
  BY <1>2, <1>3, FS_Interval
<1>5. IsFiniteSet(loaded[l]) /\ Cardinality(loaded[l]) \in Nat
  BY <1>4, FS_Subset, FS_CardinalityType
<1>6. \A i, j \in loaded[l] : payload[l][i] = payload[l][j] => i = j
  BY <1>1 DEF LoadedOnce
<1>7. /\ IsFiniteSet(NewTransactions(l))
      /\ Cardinality(NewTransactions(l)) = Cardinality(loaded[l])
  BY <1>5, <1>6, ImageSize DEF NewTransactions
<1>8. lpc[l] = "done" => NewTransactions(l) \subseteq transactions
  BY <1>1 DEF LoadPhases, LoadPhaseOf, NewTransactions
<1> QED
  BY <1>5, <1>7, <1>8

\* Nothing is credited twice, and all that is credited is there.
LEMMA CreditedStored ==
    ASSUME ApiInv, LoadsAnswered, NEW p \in Loaders
    PROVE  /\ Credited(p) \subseteq transactions
           /\ IsFiniteSet(Credited(p)) /\ Cardinality(Credited(p)) \in Nat
           /\ \A q \in Loaders \ {p} : Credited(p) \cap Credited(q) = {}
           /\ \A l \in Loads \ CreditedLoads(p) : Credited(p) \cap NewTransactions(l) = {}
<1>1. \A l \in CreditedLoads(p) : NewTransactions(l) \subseteq transactions
  BY NewTransactionsOf DEF CreditedLoads
<1>2. Credited(p) \subseteq transactions
  BY <1>1 DEF Credited
<1>3. IsFiniteSet(Credited(p)) /\ Cardinality(Credited(p)) \in Nat
  BY <1>2, FS_Subset, FS_CardinalityType DEF LoadsAnswered
<1>4. ASSUME NEW l \in Loads, NEW m \in Loads \ {l}
      PROVE  NewTransactions(l) \cap NewTransactions(m) = {}
  BY <1>4 DEF NewTransactions, ApiInv, LoadedOnce
<1>5. \A l \in Loads \ CreditedLoads(p) : Credited(p) \cap NewTransactions(l) = {}
  BY <1>4 DEF Credited, CreditedLoads
<1>6. \A q \in Loaders \ {p} : CreditedLoads(q) \subseteq Loads \ CreditedLoads(p)
  BY DEF CreditedLoads
<1>7. \A q \in Loaders \ {p} : Credited(p) \cap Credited(q) = {}
  BY <1>5, <1>6 DEF Credited
<1> QED
  BY <1>2, <1>3, <1>5, <1>7

LEMMA CountsCreditedStep ==
    ASSUME ClientInv, CountsCredited, [SendersNext]_sendersVars
    PROVE  CountsCredited'
<1>1. LoadersTyped /\ LoadsKept /\ ApiInv /\ LoadsAnswered /\ (ApiInv /\ LoadsAnswered)'
  BY ClientStep DEF ClientInv
<1> SUFFICES ASSUME NEW p \in Loaders
             PROVE  tally'[p].loaded <= Cardinality(Credited(p)')
  BY DEF CountsCredited
<1>2. /\ tally[p].loaded \in Nat /\ slice[p] \in Nat \ {0}
      /\ tally[p].loaded <= Cardinality(Credited(p))
  BY <1>1 DEF LoadersTyped, CountsCredited, Tally
<1>3. /\ IsFiniteSet(Credited(p)) /\ Cardinality(Credited(p)) \in Nat
      /\ \A l \in Loads \ CreditedLoads(p) : Credited(p) \cap NewTransactions(l) = {}
  BY <1>1, CreditedStored
<1>4. IsFiniteSet(Credited(p)') /\ Cardinality(Credited(p)') \in Nat
  <2>1. (/\ Credited(p) \subseteq transactions
         /\ IsFiniteSet(Credited(p)) /\ Cardinality(Credited(p)) \in Nat
         /\ \A q \in Loaders \ {p} : Credited(p) \cap Credited(q) = {}
         /\ \A l \in Loads \ CreditedLoads(p) : Credited(p) \cap NewTransactions(l) = {})'
    BY <1>1, CreditedStored, PTL
  <2> QED
    BY <2>1
<1>5. slice'[p] = slice[p] \/ slice'[p] = slice[p] + 1
  BY <1>1, LoaderKinds DEF ReadCsv, LoadersTyped
<1>6. ASSUME NEW l \in Loads, lpc[l] = "done"
      PROVE  lpc'[l] = "done" /\ NewTransactions(l)' = NewTransactions(l)
  BY <1>1, <1>6 DEF LoadsKept, SameLoad, NewTransactions
<1>7. CreditedLoads(p) \subseteq CreditedLoads(p)'
  <2>1. \A l \in Loads : l[2] \in Nat
    BY LoaderAssumption
  <2>2. \A l \in Loads : l[2] < slice[p] => l[2] < slice'[p]
    BY <1>2, <1>5, <2>1
  <2> QED
    BY <1>6, <2>2 DEF CreditedLoads
<1>8. Credited(p) \subseteq Credited(p)'
  <2>1. \A l \in CreditedLoads(p) : NewTransactions(l)' = NewTransactions(l)
    BY <1>6 DEF CreditedLoads
  <2> QED
    BY <1>7, <2>1 DEF Credited
<1>9. CASE tally'[p].loaded = tally[p].loaded \/ tally'[p].loaded = 0
  <2>1. Cardinality(Credited(p)) <= Cardinality(Credited(p)')
    BY <1>4, <1>8, FS_Subset
  <2> QED
    BY <1>2, <1>3, <1>4, <1>9, <2>1
<1>10. CASE SliceAnswered(p)
  <2> DEFINE n == Added(p)
  <2>1. PICK l \in Loads : l = LoadOf(p)
    BY <1>1, <1>10, AddedTyped DEF SliceAnswered
  <2> DEFINE N == NewTransactions(l)
  <2>2. n \in Nat /\ (n = 0 \/ n = Cardinality(loaded[l]))
    BY <1>1, <1>10, <2>1, AddedTyped DEF SliceAnswered
  <2>3. lpc[l] = "done" /\ l[1] = p /\ l[2] = slice[p] /\ slice'[p] = slice[p] + 1
    BY <1>1, <1>10, <2>1 DEF SliceAnswered, NextSlice, LoadOf, LoadersTyped
  <2>4. tally'[p].loaded = tally[p].loaded + n
    <3>1. tally' = [tally EXCEPT ![p].loaded = @ + n]
      BY <1>10 DEF SliceAnswered, Added
    <3>2. tally[p] \in Tally /\ tally \in [Loaders -> Tally]
      BY <1>1 DEF LoadersTyped
    <3> HIDE DEF n
    <3> QED
      BY <3>1, <3>2 DEF Tally
  <2>5. IsFiniteSet(N) /\ Cardinality(N) \in Nat /\ n <= Cardinality(N)
    <3>1. IsFiniteSet(N) /\ Cardinality(N) = Cardinality(loaded[l]) /\ Cardinality(loaded[l]) \in Nat
      BY <1>1, <2>2, NewTransactionsOf
    <3> HIDE DEF n, N
    <3> QED
      BY <2>2, <3>1
  <2>6. Credited(p) \cap N = {}
    <3>1. l \notin CreditedLoads(p)
      BY <1>2, <2>3 DEF CreditedLoads
    <3> QED
      BY <1>3, <2>2, <3>1
  <2>7. N \subseteq Credited(p)'
    <3>1. l[2] < slice'[p]
      BY <1>2, <2>3
    <3>2. l \in CreditedLoads(p)' /\ NewTransactions(l)' = N
      <4>1. lpc'[l] = "done" /\ NewTransactions(l)' = NewTransactions(l)
        BY <1>6, <2>2, <2>3
      <4> QED
        BY <2>3, <3>1, <4>1 DEF CreditedLoads
    <3> QED
      BY <3>2 DEF Credited
  <2> HIDE DEF N, n
  <2>8. Cardinality(Credited(p) \cup N) = Cardinality(Credited(p)) + Cardinality(N)
    <3> DEFINE C == Credited(p)
    <3>1. Cardinality(C \cap N) = 0 /\ IsFiniteSet(C) /\ Cardinality(C) \in Nat
      BY <1>3, <2>6, FS_EmptySet
    <3> HIDE DEF C
    <3>2. Cardinality(C \cup N) = Cardinality(C) + Cardinality(N)
      <4>1. Cardinality(C \cup N) = Cardinality(C) + Cardinality(N) - Cardinality(C \cap N)
        BY <2>5, <3>1, FS_Union, Zenon
      <4> QED
        BY <2>5, <3>1, <4>1
    <3> QED
      BY <3>2 DEF C
  <2>9. Cardinality(Credited(p) \cup N) <= Cardinality(Credited(p)')
    <3>1. Credited(p) \cup N \subseteq Credited(p)'
      BY <1>8, <2>7
    <3> QED
      BY <1>4, <3>1, FS_Subset
  <2> QED
    BY <1>2, <1>3, <1>4, <2>2, <2>4, <2>5, <2>8, <2>9
<1> QED
  <2>1. (\E f \in Files : ReadCsv(p, f)) => tally'[p].loaded = 0
    BY <1>1 DEF ReadCsv, LoadersTyped
  <2> QED
    BY <1>9, <1>10, <2>1, LoaderKinds

\* Numbers that bound the sizes of disjoint sets add up to no more than all of them.
LEMMA AddsDisjoint ==
    ASSUME NEW S, IsFiniteSet(S), NEW w, NEW f, Adds(f, w, S), NEW C,
           NEW A, IsFiniteSet(A),
           \A x \in S : w[x] \in Nat /\ C[x] \subseteq A /\ w[x] <= Cardinality(C[x]),
           \A x, y \in S : x # y => C[x] \cap C[y] = {}
    PROVE  f[S] \in Nat /\ f[S] <= Cardinality(A)
<1> DEFINE all(T) == UNION {C[x] : x \in T}
           Good(T) == /\ f[T] \in Nat /\ f[T] <= Cardinality(all(T))
                      /\ IsFiniteSet(all(T)) /\ Cardinality(all(T)) \in Nat
           Bad == {T \in SUBSET S : ~Good(T)}
<1>1. SUFFICES ASSUME Bad # {} PROVE FALSE
  <2>1. Good(S) /\ all(S) \subseteq A
    OBVIOUS
  <2> HIDE DEF all
  <2>2. Cardinality(all(S)) <= Cardinality(A) /\ Cardinality(A) \in Nat
    BY <2>1, FS_Subset, FS_CardinalityType
  <2> QED
    BY <2>1, <2>2
<1>2. \A U \in Bad : IsFiniteSet(U)
  BY FS_Subset
<1>3. PICK U \in Bad : \A V \in Bad : Cardinality(U) <= Cardinality(V)
  <2> HIDE DEF Bad
  <2> QED
    BY <1>1, <1>2, SmallestExists
<1>4. U \in SUBSET S /\ IsFiniteSet(U) /\ ~Good(U)
  BY <1>2
<1> DEFINE a == AnyOf(U)
           rest == Without(U)
<1>5. f[U] = IF U = {} THEN 0 ELSE w[a] + f[rest]
  <2>1. U \in SUBSET S
    BY <1>4
  <2> HIDE DEF Good, Bad, all
  <2> QED
    BY <2>1, AddsApply
<1>6. U # {}
  <2> SUFFICES ASSUME U = {} PROVE FALSE
    OBVIOUS
  <2>1. all(U) = {} /\ f[U] = 0
    BY <1>5
  <2> HIDE DEF all
  <2> QED
    BY <1>4, <2>1, FS_EmptySet
<1>7. /\ a \in U /\ rest \in SUBSET S /\ Cardinality(rest) \in Nat /\ Cardinality(U) \in Nat
      /\ Cardinality(rest) < Cardinality(U) /\ rest = U \ {a}
  BY <1>4, <1>6, WithoutIsLess, FS_CardinalityType DEF Without
<1> HIDE DEF a, rest
<1>8. Good(rest)
  <2> HIDE DEF Good
  <2> QED
    BY <1>3, <1>7
<1>9. all(U) = all(rest) \cup C[a]
  BY <1>7
<1>10. all(rest) \cap C[a] = {}
  BY <1>4, <1>7
<1>11. IsFiniteSet(C[a]) /\ Cardinality(C[a]) \in Nat /\ w[a] \in Nat /\ w[a] <= Cardinality(C[a])
  <2>1. C[a] \subseteq A /\ w[a] \in Nat /\ w[a] <= Cardinality(C[a])
    BY <1>4, <1>7
  <2> QED
    BY <2>1, FS_Subset, FS_CardinalityType
<1> DEFINE R == all(rest)
<1>12. IsFiniteSet(R) /\ Cardinality(R) \in Nat /\ f[rest] \in Nat /\ f[rest] <= Cardinality(R)
  BY <1>8
<1> HIDE DEF all
<1>13. Cardinality(R \cap C[a]) = 0
  BY <1>10, FS_EmptySet
<1>14. IsFiniteSet(R \cup C[a]) /\ Cardinality(R \cup C[a]) = Cardinality(R) + Cardinality(C[a])
  <2> HIDE DEF R
  <2>1. /\ IsFiniteSet(R \cup C[a])
        /\ Cardinality(R \cup C[a]) = Cardinality(R) + Cardinality(C[a]) - Cardinality(R \cap C[a])
    BY <1>11, <1>12, FS_Union, Zenon
  <2> QED
    BY <1>11, <1>12, <1>13, <2>1
<1>15. all(U) = R \cup C[a] /\ f[U] = w[a] + f[rest]
  BY <1>5, <1>6, <1>9
<1> HIDE DEF R
<1>16. Good(U)
  BY <1>11, <1>12, <1>14, <1>15
<1> QED
  BY <1>4, <1>16

\* The same for what the clients count.
LEMMA SumOfLoaded ==
    ASSUME NEW S, IsFiniteSet(S), NEW C, NEW A, IsFiniteSet(A),
           \A x \in S : /\ tally[x].loaded \in Nat /\ C[x] \subseteq A
                        /\ tally[x].loaded <= Cardinality(C[x]),
           \A x, y \in S : x # y => C[x] \cap C[y] = {}
    PROVE  /\ MapThenSumSet(LAMBDA p : tally[p].loaded, S) \in Nat
           /\ MapThenSumSet(LAMBDA p : tally[p].loaded, S) <= Cardinality(A)
<1> DEFINE w == [x \in S |-> tally[x].loaded]
           B(f) == f = [T \in SUBSET S |-> IF T = {} THEN 0
                            ELSE tally[CHOOSE x \in T : TRUE].loaded + f[T \ {CHOOSE x \in T : TRUE}]]
           g == CHOOSE f : B(f)
<1>1. MapThenSumSet(LAMBDA p : tally[p].loaded, S) = g[S]
  BY DEF MapThenSumSet, MapThenFoldSet
<1>2. PICK f : Adds(f, w, S)
  BY AddsExists
<1>3. ASSUME NEW h
      PROVE  Adds(h, w, S) <=> B(h)
  <2>1. \A T \in SUBSET S : T # {} => w[AnyOf(T)] = tally[CHOOSE x \in T : TRUE].loaded
    BY DEF AnyOf
  <2> DEFINE p == [T \in SUBSET S |-> IF T = {} THEN 0 ELSE w[AnyOf(T)] + h[Without(T)]]
             q == [T \in SUBSET S |-> IF T = {} THEN 0
                     ELSE tally[CHOOSE x \in T : TRUE].loaded + h[T \ {CHOOSE x \in T : TRUE}]]
  <2>2. p = q
    <3> HIDE DEF w
    <3> QED
      BY <2>1 DEF Without, AnyOf
  <2>3. /\ Adds(h, w, S) <=> h = p
        /\ B(h) <=> h = q
    <3> HIDE DEF w
    <3> QED
      BY DEF Adds
  <2> HIDE DEF p, q, w, B
  <2> QED
    BY <2>2, <2>3
<1>4. B(g)
  <2> HIDE DEF B
  <2> QED
    BY <1>2, <1>3
<1>5. Adds(g, w, S)
  <2> HIDE DEF B, g, w
  <2> QED
    BY <1>3, <1>4
<1>6. \A x \in S : w[x] \in Nat /\ C[x] \subseteq A /\ w[x] <= Cardinality(C[x])
  OBVIOUS
<1>7. g[S] \in Nat /\ g[S] <= Cardinality(A)
  <2> HIDE DEF g, w
  <2> QED
    BY <1>5, <1>6, AddsDisjoint
<1> QED
  BY <1>1, <1>7

LEMMA LoadersInvariant == SendersSpec => [](ClientInv /\ PaysRows /\ CountsCredited)
<1>1. SendersInit => PaysRows /\ CountsCredited
  <2> SUFFICES ASSUME SendersInit PROVE PaysRows /\ CountsCredited
    OBVIOUS
  <2>1. PaysRows
    BY DEF SendersInit, ApiInit, LoadsInit, PaysRows
  <2>2. \A p \in Loaders : CreditedLoads(p) = {} /\ tally[p].loaded = 0
    BY DEF SendersInit, ApiInit, LoadsInit, LoadersInit, NoTally, CreditedLoads
  <2>3. \A p \in Loaders : Credited(p) = {}
    BY <2>2 DEF Credited
  <2> QED
    BY <2>1, <2>2, <2>3, FS_EmptySet DEF CountsCredited
<1>2. ClientInv /\ PaysRows /\ CountsCredited /\ [SendersNext]_sendersVars
        => PaysRows' /\ CountsCredited'
  BY PaysRowsStep, CountsCreditedStep
<1> QED
  BY <1>1, <1>2, ClientInvariant, PTL DEF SendersSpec, sendersVars

\* What the loaders report is in the table, each transaction under one of them;
\* who reports all of his rows has every one of them there.
THEOREM LoadersHonest == SendersSpec => []LoaderHonest
<1>1. ClientInv /\ PaysRows /\ CountsCredited => LoaderHonest
  <2> SUFFICES ASSUME ClientInv, PaysRows, CountsCredited PROVE LoaderHonest
    OBVIOUS
  <2>1. ApiInv /\ LoadsAnswered /\ LoadersTyped /\ IsFiniteSet(Loaders)
    BY LoaderAssumption DEF ClientInv
  <2> DEFINE C == [p \in Loaders |-> Credited(p)]
  <2>2. ASSUME NEW p \in Loaders
        PROVE  /\ tally[p].loaded \in Nat /\ C[p] \subseteq transactions
               /\ tally[p].loaded <= Cardinality(C[p])
    BY <2>1, CreditedStored DEF LoadersTyped, Tally, CountsCredited
  <2>3. \A p, q \in Loaders : p # q => C[p] \cap C[q] = {}
    BY <2>1, CreditedStored
  <2>4. MapThenSumSet(LAMBDA p : tally[p].loaded, Loaders) <= Cardinality(transactions)
    <3>1. \A x \in Loaders : /\ tally[x].loaded \in Nat /\ C[x] \subseteq transactions
                              /\ tally[x].loaded <= Cardinality(C[x])
      BY <2>2
    <3>2. IsFiniteSet(transactions)
      BY <2>1 DEF LoadsAnswered
    <3> HIDE DEF C
    <3> QED
      BY <2>1, <2>3, <3>1, <3>2, SumOfLoaded, Zenon
  <2>5. ASSUME NEW p \in Loaders, tally[p].loaded = tally[p].parsed, NEW i \in DOMAIN rows[p]
        PROVE  rows[p][i].txn \in transactions
    <3> DEFINE R == RowTransactions(p)
               n == Len(rows[p])
    <3>1. n \in Nat /\ DOMAIN rows[p] = 1..n /\ tally[p].parsed = n
      BY <2>1 DEF LoadersTyped
    <3>2. IsFiniteSet(R) /\ Cardinality(R) <= n /\ Cardinality(R) \in Nat
      <4> DEFINE g == [j \in DOMAIN rows[p] |-> rows[p][j].txn]
      <4>1. R = {g[j] : j \in 1..n}
        BY <3>1 DEF RowTransactions
      <4> HIDE DEF g, n, R
      <4>2. /\ IsFiniteSet({g[j] : j \in 1..n}) /\ Cardinality({g[j] : j \in 1..n}) \in Nat
            /\ Cardinality({g[j] : j \in 1..n}) <= n
        BY <3>1, RowsSize, Zenon
      <4> QED
        BY <4>1, <4>2, Zenon
    <3>3. Credited(p) \subseteq R
      <4>1. \A l \in CreditedLoads(p) : l \in Loads /\ l[1] = p /\ loaded[l] \subseteq DOMAIN payload[l]
        BY <2>1 DEF CreditedLoads, ApiInv, ApiTypeOK, LoadsTypeOK
      <4>2. \A l \in CreditedLoads(p) : NewTransactions(l) \subseteq R
        BY <4>1 DEF PaysRows, NewTransactions
      <4> QED
        BY <4>2 DEF Credited
    <3>4. n <= Cardinality(Credited(p)) /\ Cardinality(Credited(p)) \in Nat
      BY <2>1, <2>5, <3>1, CreditedStored DEF CountsCredited
    <3> HIDE DEF n, R
    <3>5. Credited(p) = R
      <4>1. Cardinality(Credited(p)) = Cardinality(R)
        <5>1. Cardinality(Credited(p)) <= Cardinality(R)
          BY <3>2, <3>3, FS_Subset
        <5> QED
          BY <3>1, <3>2, <3>4, <5>1
      <4> QED
        BY <3>2, <3>3, <4>1, FS_Subset
    <3>6. rows[p][i].txn \in R
      BY DEF R, RowTransactions
    <3> QED
      BY <2>1, <3>5, <3>6, CreditedStored
  <2> QED
    BY <2>4, <2>5, Zenon DEF LoaderHonest
<1> QED
  BY <1>1, LoadersInvariant, PTL

-----------------------------------------------------------------------------
\* What becomes of a journey.

\* What is known of the events of a journey of visitor v.
IsJourney(b, s, v) ==
    /\ b \in Seq(Events) /\ DOMAIN b = 1..Len(b) /\ Len(b) \in Nat /\ Len(b) > 1
    /\ \A i \in DOMAIN b :
         /\ b[i].ts = i /\ b[i].store = s /\ b[i].vid = v /\ Valid(b[i]) /\ ~b[i].staff
         /\ \/ i = 1 /\ b[i].type = "ENTRY"
            \/ i > 1 /\ i < Len(b) /\ b[i].type = "ZONE_DWELL"
            \/ i > 2 /\ i < Len(b) /\ b[i].type = "BILLING_QUEUE_JOIN" /\ b[2].type = "ZONE_DWELL"
            \/ i > 1 /\ i = Len(b) /\ b[i].type = "EXIT"
         /\ b[i].type = "ZONE_DWELL" => \E k \in DOMAIN b : b[k].type = "BILLING_QUEUE_JOIN"

LEMMA JourneysAre ==
    ASSUME NEW s \in Sims, NEW v \in Drawable, NEW b \in Journeys(s, v)
    PROVE  IsJourney(b, s, v)
<1>1. PICK zones \in UNION {[1..n -> SimZones] : n \in 0..MaxDwells}, depth \in 1..MaxDepth :
        b = GenerateJourney(s, v, zones, depth)
  BY DEF Journeys
<1>2. PICK n \in 0..MaxDwells : zones \in [1..n -> SimZones]
  BY <1>1
<1>3. n \in Nat /\ n >= 0
  BY SendersAssumption
<1> DEFINE m == JourneyLength(n)
<1>4. /\ m \in Nat /\ m > 1 /\ m >= n + 2
      /\ n > 0 => m = n + 3
      /\ n = 0 => m = 2
  BY <1>3 DEF JourneyLength
<1>5. DOMAIN b = 1..m /\ b \in Seq(Events)
  <2>1. DOMAIN b = 1..m
    BY <1>1, <1>2, <1>3, JourneyShape
  <2> HIDE DEF m
  <2>2. b \in Seq(Events)
    BY JourneyEvents
  <2> QED
    BY <2>1, <2>2
<1>6. Len(b) = m
  BY <1>4, <1>5
<1>7. \A i \in 1..m : IsJourneyEvent(b[i], s, v, zones, depth, n, i)
  BY <1>1, <1>2, <1>3, JourneyFields
<1> HIDE DEF m
<1>8. \A i \in 1..m :
        b[i].type = IF i = 1 THEN "ENTRY" ELSE IF i <= n + 1 THEN "ZONE_DWELL"
                    ELSE IF i = n + 2 /\ n > 0 THEN "BILLING_QUEUE_JOIN" ELSE "EXIT"
  BY <1>7 DEF IsJourneyEvent
<1>9. ASSUME NEW i \in 1..m
      PROVE  \/ i = 1 /\ b[i].type = "ENTRY"
             \/ i > 1 /\ i < m /\ b[i].type = "ZONE_DWELL"
             \/ i > 2 /\ i < m /\ b[i].type = "BILLING_QUEUE_JOIN" /\ b[2].type = "ZONE_DWELL"
             \/ i > 1 /\ i = m /\ b[i].type = "EXIT"
  <2>1. CASE i = 1
    BY <1>8, <2>1
  <2>2. CASE i # 1 /\ i <= n + 1
    BY <1>3, <1>4, <1>8, <2>2
  <2>3. CASE i = n + 2 /\ n > 0
    <3>1. b[i].type = "BILLING_QUEUE_JOIN"
      BY <1>3, <1>8, <2>3
    <3>2. 2 \in 1..m /\ 2 <= n + 1 /\ i > 2 /\ i < m
      BY <1>3, <1>4, <2>3
    <3>3. b[2].type = "ZONE_DWELL"
      BY <1>8, <3>2
    <3> QED
      BY <3>1, <3>2, <3>3
  <2>4. CASE i # 1 /\ ~(i <= n + 1) /\ ~(i = n + 2 /\ n > 0)
    <3>1. i = m /\ i > 1
      BY <1>3, <1>4, <2>4
    <3> QED
      BY <1>8, <2>4, <3>1
  <2> QED
    BY <2>1, <2>2, <2>3, <2>4
<1>10. ASSUME NEW i \in 1..m, b[i].type = "ZONE_DWELL"
       PROVE  \E k \in 1..m : b[k].type = "BILLING_QUEUE_JOIN"
  <2>1. i # 1 /\ i <= n + 1
    BY <1>8, <1>10
  <2>2. n > 0 /\ n + 2 \in 1..m /\ n + 2 # 1 /\ ~(n + 2 <= n + 1)
    BY <1>3, <1>4, <2>1
  <2>3. b[n + 2].type = "BILLING_QUEUE_JOIN"
    BY <1>8, <2>2
  <2> QED
    BY <2>2, <2>3
<1> QED
  BY <1>4, <1>5, <1>6, <1>7, <1>9, <1>10 DEF IsJourney, IsJourneyEvent

\* What a session row says after the statements I of journey b.
ZonesOf(b, I) == {b[i].zone : i \in {k \in I : b[k].type = "ZONE_DWELL"}}

Told(row, b, I) ==
    IF 1 \in I
    THEN /\ row # NoRow
         /\ row.exited = IF Len(b) \in I THEN Len(b) ELSE NoTime
         /\ row.zones = ZonesOf(b, I)
         /\ row.billing => row.zones # {}
         /\ (\E i \in I : b[i].type = "BILLING_QUEUE_JOIN") => row.billing
    ELSE row = NoRow /\ I = {}

\* Each statement tells its part.
LEMMA NextTold ==
    ASSUME NEW b, NEW s, NEW v, IsJourney(b, s, v), NEW I \in SUBSET DOMAIN b,
           NEW i \in DOMAIN b \ I, \A k \in DOMAIN b : k < i => k \in I,
           NEW row \in Row \cup {NoRow}, Told(row, b, I), NEW t \in Nat
    PROVE  /\ Told(Written(row, b[i], t), b, I \cup {i})
           /\ TouchesSession(b[i]) /\ Written(row, b[i], t) \in Row
<1> DEFINE e == b[i]
           after == Written(row, e, t)
           J == I \cup {i}
<1>1. /\ i \in Nat /\ i > 0 /\ Len(b) \in Nat /\ Len(b) > 1 /\ DOMAIN b = 1..Len(b)
      /\ e \in Event /\ Valid(e) /\ e.ts = i
  BY EventAssumption DEF IsJourney
<1>2. \/ i = 1 /\ e.type = "ENTRY"
      \/ i > 1 /\ i < Len(b) /\ e.type = "ZONE_DWELL"
      \/ i > 2 /\ i < Len(b) /\ e.type = "BILLING_QUEUE_JOIN" /\ b[2].type = "ZONE_DWELL"
      \/ i > 1 /\ i = Len(b) /\ e.type = "EXIT"
  BY DEF IsJourney
<1>3. TouchesSession(e)
  BY <1>2 DEF TouchesSession, IsEntry, IsZoneVisit, IsJoin
<1>4. after \in Row \cup {NoRow}
  BY <1>1, <1>3, WrittenType
<1>5. ZonesOf(b, J) = ZonesOf(b, I) \cup (IF e.type = "ZONE_DWELL" THEN {e.zone} ELSE {})
  BY DEF ZonesOf
<1>6. (\E k \in J : b[k].type = "BILLING_QUEUE_JOIN")
        <=> (\E k \in I : b[k].type = "BILLING_QUEUE_JOIN") \/ e.type = "BILLING_QUEUE_JOIN"
  OBVIOUS
<1>7. CASE i = 1
  <2>1. I = {} /\ row = NoRow /\ e.type = "ENTRY"
    BY <1>2, <1>7 DEF Told
  <2>2. after = Inserted(e, t)
    BY <2>1 DEF Written, IsEntry
  <2>3. after \in Row
    BY <1>1, <2>2 DEF Inserted, Row, Event, NoTime
  <2>4. after.exited = NoTime /\ after.zones = {} /\ ~after.billing
    BY <2>2 DEF Inserted
  <2>5. ZonesOf(b, J) = {} /\ Len(b) \notin J /\ 1 \in J
    BY <1>1, <1>5, <1>7, <2>1 DEF ZonesOf
  <2>6. \A k \in J : b[k].type # "BILLING_QUEUE_JOIN"
    BY <1>7, <2>1
  <2> HIDE DEF after, J, e
  <2>7. after # NoRow
    BY <2>3, NoRowAssumption
  <2>8. Told(after, b, J)
    BY <2>4, <2>5, <2>6, <2>7 DEF Told
  <2> QED
    BY <1>3, <2>3, <2>8 DEF after, J, e
<1>8. CASE i # 1
  <2>1. 1 \in I /\ 1 \in J /\ row # NoRow /\ row \in Row /\ ~IsEntry(e)
    <3>1. 1 \in DOMAIN b /\ 1 < i
      BY <1>1, <1>8
    <3>2. 1 \in I
      BY <3>1
    <3> QED
      BY <1>2, <1>8, <3>2 DEF Told, IsEntry
  <2>2. /\ row.exited = IF Len(b) \in I THEN Len(b) ELSE NoTime
        /\ row.zones = ZonesOf(b, I)
        /\ row.billing => row.zones # {}
        /\ (\E k \in I : b[k].type = "BILLING_QUEUE_JOIN") => row.billing
    BY <2>1 DEF Told
  <2>3. after # NoRow /\ after \in Row
    <3>1. Extends(row, after)
      BY <1>1, <1>3, WrittenExtends
    <3> HIDE DEF after
    <3> QED
      BY <1>4, <2>1, <3>1 DEF Extends
  <2>4. i < Len(b) => (Len(b) \in J <=> Len(b) \in I)
    BY <1>1
  <2>5. CASE e.type = "ZONE_DWELL"
    <3>1. after = ZoneSeen(row, e, t) /\ i < Len(b)
      BY <1>2, <2>1, <2>5 DEF Written, IsJoin, IsZoneVisit, IsEntry
    <3>2. /\ after.exited = row.exited /\ after.zones = row.zones \cup {e.zone}
          /\ row.billing => after.billing
      BY <2>1, <3>1 DEF ZoneSeen, Row
    <3> HIDE DEF after, J, e
    <3>3. ZonesOf(b, J) = ZonesOf(b, I) \cup {e.zone}
      BY <1>5, <2>5
    <3>4. after.zones = ZonesOf(b, J) /\ after.zones # {}
      BY <2>2, <3>2, <3>3
    <3>5. Told(after, b, J)
      BY <1>6, <2>1, <2>2, <2>3, <2>4, <2>5, <3>1, <3>2, <3>4 DEF Told
    <3> QED
      BY <1>3, <2>3, <3>5 DEF after, J, e
  <2>6. CASE e.type = "BILLING_QUEUE_JOIN"
    <3>1. after = QueueJoined(row, e) /\ i < Len(b) /\ i > 2 /\ b[2].type = "ZONE_DWELL"
      BY <1>2, <2>1, <2>6 DEF Written, IsJoin, IsZoneVisit, IsEntry
    <3>2. after.exited = row.exited /\ after.zones = row.zones /\ after.billing = TRUE
      BY <2>1, <3>1 DEF QueueJoined, Row
    <3>3. row.zones # {}
      <4>1. 2 \in I
        <5>1. 2 \in DOMAIN b /\ 2 < i
          BY <1>1, <3>1
        <5> QED
          BY <5>1
      <4>2. b[2].zone \in ZonesOf(b, I)
        BY <3>1, <4>1 DEF ZonesOf
      <4> QED
        BY <2>2, <4>2
    <3> HIDE DEF after, J, e
    <3>4. ZonesOf(b, J) = ZonesOf(b, I)
      BY <1>5, <2>6
    <3>5. Told(after, b, J)
      BY <2>1, <2>2, <2>3, <2>4, <3>1, <3>2, <3>3, <3>4 DEF Told
    <3> QED
      BY <1>3, <2>3, <3>5 DEF after, J, e
  <2>7. CASE e.type = "EXIT"
    <3>1. after = Exited(row, e, t) /\ i = Len(b)
      BY <1>2, <2>1, <2>7 DEF Written, IsJoin, IsZoneVisit, IsEntry
    <3>2. after.exited = i /\ after.zones = row.zones /\ after.billing = row.billing
      BY <1>1, <2>1, <3>1 DEF Exited, Row
    <3>3. Len(b) \in J
      BY <3>1
    <3> HIDE DEF after, J, e
    <3>4. ZonesOf(b, J) = ZonesOf(b, I)
      BY <1>5, <2>7
    <3>5. Told(after, b, J)
      BY <1>6, <2>1, <2>2, <2>3, <2>7, <3>1, <3>2, <3>3, <3>4 DEF Told
    <3> QED
      BY <1>3, <2>3, <3>5 DEF after, J, e
  <2> QED
    BY <1>2, <1>8, <2>5, <2>6, <2>7
<1> QED
  BY <1>7, <1>8
\* The requests a journey travels in, and whose it is.
Travels(r) == r[1] \in Sims /\ batch[r] # << >>
Traveller(r) == batch[r][1].vid
Whole(r) == DOMAIN batch[r]

Unknown(v) == \A e \in stored : e.vid # v

\* Of a visitor who is not drawn yet there is nothing.
Untouched(v) ==
    /\ sessions[v] = NoRow /\ Unknown(v)
    /\ \A c \in Clients : dirty[c][v] = NoRow

\* How far the session of a traveller has got: until it is committed only the
\* request has a row for him, and then every row there is tells the whole journey.
Underway(r) ==
    LET v == Traveller(r)
        b == batch[r]
    IN  /\ sessions[v] # NoRow => Told(sessions[v], b, Whole(r))
        /\ \A c \in Clients \ {r} : dirty[c][v] # NoRow => Told(dirty[c][v], b, Whole(r))
        /\ pc[r] = "insert" => new[r] = Whole(r) \ left[r] /\ Unknown(v)
        /\ pc[r] \in {"insert", "sessions"} =>
             sessions[v] = NoRow /\ \A c \in Clients \ {r} : dirty[c][v] = NoRow
        /\ pc[r] = "sessions" => Told(dirty[r][v], b, Whole(r) \ left[r])
        /\ pc[r] \notin {"insert", "done"} \/ answer[r] \in Answer =>
             new[r] = Whole(r) /\ EventsAt(r, Whole(r)) \subseteq stored
        /\ pc[r] \notin {"insert", "sessions", "done"} \/ answer[r] \in Answer =>
             sessions[v] # NoRow

Stories ==
    /\ \A v \in Drawable \ Drawn : Untouched(v)
    /\ \A r \in Requests : Travels(r) => Underway(r)

\* A request is answered when it is done, and has its batch as long as it is known.
Answering ==
    \A r \in Requests :
        /\ pc[r] = "done" <=> answer[r] # NoAnswer
        /\ r[1] \in Sims => (pc[r] = "idle" <=> batch[r] = << >>)

\* What travels is a journey.
LEMMA TravelsJourney ==
    ASSUME Origins, NEW r \in Requests, Travels(r)
    PROVE  /\ Traveller(r) \in Drawable \cap Visitors
           /\ IsJourney(batch[r], r[1], Traveller(r))
<1>1. r[1] \notin Replays
  BY SendersAssumption DEF Travels
<1>2. PICK v \in Drawable : batch[r] \in Journeys(r[1], v)
  BY <1>1 DEF Origins, Travels, Journey, Lines
<1>3. r[1] \in Sims
  BY DEF Travels
<1>4. IsJourney(batch[r], r[1], v) /\ Traveller(r) = v
  BY <1>2, <1>3, JourneysAre, JourneyEvents DEF Traveller
<1> QED
  BY <1>4, SendersAssumption

\* Nobody else has an event of that visitor, nobody at all one of an undrawn one.
LEMMA NobodysEvents ==
    ASSUME Origins, NEW q \in Requests, NEW i \in DOMAIN batch[q]
    PROVE  /\ \A r \in Requests \ {q} : Travels(r) => batch[q][i].vid # Traveller(r)
           /\ batch[q][i].vid \notin Drawable \ Drawn
<1>1. batch[q] # << >>
  OBVIOUS
<1>2. CASE Lines(q, batch[q])
  <2>1. batch[q][i].vid \notin Drawable
    BY <1>2, PostsAssumption DEF Lines, Conversion
  <2> QED
    BY <2>1, TravelsJourney
<1>3. CASE Journey(q, batch[q])
  <2>1. PICK v \in Drawable : batch[q] \in Journeys(q[1], v)
    BY <1>3 DEF Journey
  <2>2. q[1] \in Sims /\ batch[q][i].vid = v /\ batch[q][1].vid = v
    BY <1>3, <2>1, JourneyEvents DEF Journey
  <2>3. v \in Drawn
    BY <1>1, <2>2 DEF Drawn
  <2>4. \A r \in Requests \ {q} : Travels(r) => v # Traveller(r)
    BY <1>1, <2>2 DEF Origins, Travels, Traveller
  <2> QED
    BY <2>2, <2>3, <2>4
<1> QED
  BY <1>1, <1>2, <1>3 DEF Origins

\* Two rows of a session that tell the same.
SameStory(a, b) ==
    a # NoRow /\ b # NoRow /\ b.exited = a.exited /\ b.zones = a.zones /\ b.billing = a.billing

\* What somebody may do to the rows of a visitor of whom he has no event: commit
\* or give up his own, or convert one.
Leaves(c, v) ==
    /\ \/ sessions'[v] = sessions[v]
       \/ dirty[c][v] # NoRow /\ sessions'[v] = dirty[c][v]
    /\ \/ dirty'[c][v] \in {dirty[c][v], NoRow}
       \/ SameStory(OwnRow(c, v), dirty'[c][v])
    /\ \A d \in Clients \ {c} : dirty'[d] = dirty[d]
    /\ \A e \in stored' \ stored : e.vid # v
    /\ stored \subseteq stored'

LEMMA RequestLeaves ==
    ASSUME TypeOK, NEW q \in Requests,
           Advance(q) \/ SkipPublish(q) \/ Abort(q) \/ \E b : Receive(q, b),
           NEW v \in Visitors, \A i \in DOMAIN batch[q] : batch[q][i].vid # v
    PROVE  Leaves(q, v)
<1>1. /\ q \in Clients /\ dirty \in [Clients -> [Visitors -> Row \cup {NoRow}]]
      /\ new[q] \subseteq DOMAIN batch[q] /\ left[q] \subseteq DOMAIN batch[q]
  BY IngestionAssumption DEF TypeOK, SessionsTypeOK, RequestsTypeOK
<1>2. CASE UNCHANGED sessionVars /\ stored' = stored
  BY <1>2 DEF Leaves, sessionVars
<1>3. CASE CommitEvents(q)
  <2>1. \A e \in Pending(q) : e.vid # v
    BY <1>1 DEF Pending, NewEvents, EventsAt
  <2> QED
    BY <1>3, <2>1 DEF CommitEvents, Leaves, sessionVars
<1>4. CASE UpdateSession(q)
  <2>1. PICK i \in left[q] : SessionStatement(q, batch[q][i])
    BY <1>4 DEF UpdateSession
  <2>2. batch[q][i].vid # v
    BY <1>1
  <2>3. UNCHANGED <<sessions, stored>>
    BY <1>4, <2>1 DEF SessionStatement, sessionVars, UpdateSession
  <2>4. dirty'[q][v] = dirty[q][v] /\ \A d \in Clients \ {q} : dirty'[d] = dirty[d]
    BY <1>1, <2>1, <2>2 DEF SessionStatement, sessionVars
  <2> QED
    BY <2>3, <2>4 DEF Leaves
<1>5. CASE CommitSessions(q)
  <2>1. stored' = stored /\ sessions'[v] = OwnRow(q, v) /\ dirty' = [dirty EXCEPT ![q] = NoRows]
    BY <1>5 DEF CommitSessions, CommitRows
  <2>2. dirty'[q][v] = NoRow /\ \A d \in Clients \ {q} : dirty'[d] = dirty[d]
    BY <1>1, <2>1 DEF NoRows
  <2> QED
    BY <2>1, <2>2 DEF Leaves, OwnRow
<1>6. CASE Abort(q)
  <2>1. stored' = stored /\ sessions' = sessions /\ dirty' = [dirty EXCEPT ![q] = NoRows]
    BY <1>6 DEF Abort, RollbackRows
  <2>2. dirty'[q][v] = NoRow /\ \A d \in Clients \ {q} : dirty'[d] = dirty[d]
    BY <1>1, <2>1 DEF NoRows
  <2> QED
    BY <2>1, <2>2 DEF Leaves
<1> QED
  BY <1>2, <1>3, <1>4, <1>5, <1>6
     DEF Advance, InsertEvent, LookAtQueue, RedisCommand, PipelineDone, ReadVisitors, ReadField,
         ReadDepth, ReadConversions, ReadTs, Publish, Respond, SkipPublish, Receive

LEMMA LoadLeaves ==
    ASSUME TypeOK, LoadsTypeOK, NEW l \in Loads, LoadStep(l), UNCHANGED ingestionVars,
           NEW v \in Visitors
    PROVE  Leaves(l, v)
<1>1. /\ l \in Clients /\ dirty \in [Clients -> [Visitors -> Row \cup {NoRow}]]
      /\ sessions \in [Visitors -> Row \cup {NoRow}] /\ txStart[l] \in Nat
      /\ stored' = stored
  BY ApiAssumption DEF TypeOK, SessionsTypeOK, ingestionVars
<1>2. CASE UNCHANGED <<sessions, dirty>>
  BY <1>1, <1>2 DEF Leaves
<1>3. ASSUME NEW w \in Visitors, ConvertRow(l, w) PROVE Leaves(l, v)
  <2> DEFINE row == OwnRow(l, w)
             after == Converted(row, txStart[l])
  <2>1. CASE dirty' = [dirty EXCEPT ![l][w] = after] /\ row # NoRow
    <3>1. row \in Row
      BY <1>1, <2>1 DEF OwnRow
    <3>2. after \in Row /\ after.exited = row.exited /\ after.zones = row.zones
          /\ after.billing = row.billing
      BY <1>1, <3>1 DEF Converted, Row
    <3>3. SameStory(row, after)
      BY <2>1, <3>2, NoRowAssumption DEF SameStory
    <3> HIDE DEF after
    <3>4. /\ dirty'[l][v] = IF w = v THEN after ELSE dirty[l][v]
          /\ \A d \in Clients \ {l} : dirty'[d] = dirty[d]
      BY <1>1, <2>1
    <3> QED
      BY <1>1, <1>3, <3>3, <3>4 DEF Leaves, ConvertRow
  <2> QED
    BY <1>2, <1>3, <2>1 DEF ConvertRow, Matches
<1>4. CASE CommitConversions(l)
  <2>1. sessions'[v] = OwnRow(l, v) /\ dirty' = [dirty EXCEPT ![l] = NoRows]
    BY <1>4 DEF CommitConversions, CommitRows
  <2>2. dirty'[l][v] = NoRow /\ \A d \in Clients \ {l} : dirty'[d] = dirty[d]
    BY <1>1, <2>1 DEF NoRows
  <2> QED
    BY <1>1, <2>1, <2>2 DEF Leaves, OwnRow
<1>5. CASE AbortLoad(l)
  <2>1. sessions' = sessions /\ dirty' = [dirty EXCEPT ![l] = NoRows]
    BY <1>5 DEF AbortLoad, RollbackRows
  <2>2. dirty'[l][v] = NoRow /\ \A d \in Clients \ {l} : dirty'[d] = dirty[d]
    BY <1>1, <2>1 DEF NoRows
  <2> QED
    BY <1>1, <2>1, <2>2 DEF Leaves
<1> QED
  BY <1>2, <1>3, <1>4, <1>5
     DEF LoadStep, AdvanceLoad, LoadNothing, ReceiveLoad, InsertTransaction, CommitTransactions,
         BeginUpdate, EndUpdate, CountStore, SetCount, AnswerLoad, FailLoad, sessionVars
\* Who leaves a visitor alone does not make one of him, nor spoil his session.
LEMMA UntouchedFrame ==
    ASSUME NEW c \in Clients, NEW v, Untouched(v), Leaves(c, v)
    PROVE  Untouched(v)'
<1>1. OwnRow(c, v) = NoRow /\ sessions'[v] = NoRow /\ dirty'[c][v] = NoRow
  BY DEF Untouched, Leaves, OwnRow, SameStory
<1>2. \A d \in Clients : dirty'[d][v] = NoRow
  BY <1>1 DEF Untouched, Leaves
<1>3. \A e \in stored' : e.vid # v
  BY DEF Untouched, Leaves, Unknown
<1> QED
  BY <1>1, <1>2, <1>3 DEF Untouched, Unknown

LEMMA ToldSame ==
    ASSUME NEW a, NEW c, NEW b, NEW I, Told(a, b, I), SameStory(a, c)
    PROVE  Told(c, b, I)
  BY DEF Told, SameStory

LEMMA UnderwayFrame ==
    ASSUME NEW r \in Requests, Underway(r), NEW c \in Clients \ {r}, Leaves(c, Traveller(r)),
           pc'[r] = pc[r], batch'[r] = batch[r], new'[r] = new[r], left'[r] = left[r],
           answer'[r] = answer[r]
    PROVE  Underway(r)'
<1> DEFINE v == Traveller(r)
           b == batch[r]
<1>1. /\ sessions[v] # NoRow => Told(sessions[v], b, Whole(r))
      /\ \A d \in Clients \ {r} : dirty[d][v] # NoRow => Told(dirty[d][v], b, Whole(r))
      /\ pc[r] = "insert" => new[r] = Whole(r) \ left[r] /\ Unknown(v)
      /\ pc[r] \in {"insert", "sessions"} =>
           sessions[v] = NoRow /\ \A d \in Clients \ {r} : dirty[d][v] = NoRow
      /\ pc[r] = "sessions" => Told(dirty[r][v], b, Whole(r) \ left[r])
      /\ pc[r] \notin {"insert", "done"} \/ answer[r] \in Answer =>
           new[r] = Whole(r) /\ EventsAt(r, Whole(r)) \subseteq stored
      /\ pc[r] \notin {"insert", "sessions", "done"} \/ answer[r] \in Answer =>
           sessions[v] # NoRow
  BY DEF Underway
<1>2. /\ \/ sessions'[v] = sessions[v]
         \/ dirty[c][v] # NoRow /\ sessions'[v] = dirty[c][v]
      /\ \/ dirty'[c][v] \in {dirty[c][v], NoRow}
         \/ SameStory(OwnRow(c, v), dirty'[c][v])
      /\ \A d \in Clients \ {c} : dirty'[d] = dirty[d]
      /\ \A e \in stored' \ stored : e.vid # v
      /\ stored \subseteq stored'
  BY DEF Leaves
<1>3. /\ Traveller(r)' = v /\ batch'[r] = b /\ Whole(r)' = Whole(r)
      /\ \A I : EventsAt(r, I)' = EventsAt(r, I)
  BY DEF Traveller, Whole, EventsAt
<1> HIDE DEF v, b
<1>4. sessions'[v] # NoRow => Told(sessions'[v], b, Whole(r))
  BY <1>1, <1>2
<1>5. ASSUME NEW d \in Clients \ {r}, dirty'[d][v] # NoRow PROVE Told(dirty'[d][v], b, Whole(r))
  <2>1. CASE d = c
    <3>1. CASE SameStory(OwnRow(c, v), dirty'[c][v])
      <4>1. Told(OwnRow(c, v), b, Whole(r))
        BY <1>1, <3>1 DEF OwnRow, SameStory
      <4> QED
        BY <2>1, <3>1, <4>1, ToldSame
    <3> QED
      BY <1>1, <1>2, <1>5, <2>1, <3>1
  <2> QED
    BY <1>1, <1>2, <1>5, <2>1
<1>6. ASSUME pc[r] \in {"insert", "sessions"}
      PROVE  sessions'[v] = NoRow /\ \A d \in Clients \ {r} : dirty'[d][v] = NoRow
  <2>1. sessions[v] = NoRow /\ \A d \in Clients \ {r} : dirty[d][v] = NoRow
    BY <1>1, <1>6
  <2>2. OwnRow(c, v) = NoRow
    BY <2>1 DEF OwnRow
  <2>3. sessions'[v] = NoRow /\ dirty'[c][v] = NoRow
    BY <1>2, <2>1, <2>2 DEF SameStory
  <2> QED
    BY <1>2, <2>1, <2>3
<1>7. dirty'[r] = dirty[r]
  BY <1>2, IngestionAssumption
<1>8. pc[r] = "insert" => \A e \in stored' : e.vid # v
  BY <1>1, <1>2 DEF Unknown
<1>9. /\ pc[r] \notin {"insert", "done"} \/ answer[r] \in Answer =>
           new[r] = Whole(r) /\ EventsAt(r, Whole(r)) \subseteq stored'
      /\ pc[r] \notin {"insert", "sessions", "done"} \/ answer[r] \in Answer =>
           sessions'[v] # NoRow
  BY <1>1, <1>2
<1> QED
  BY <1>1, <1>3, <1>4, <1>5, <1>6, <1>7, <1>8, <1>9 DEF Underway, Unknown

LEMMA SameUnderway ==
    ASSUME NEW r \in Requests, Underway(r), UNCHANGED <<sessions, dirty, stored>>,
           pc'[r] = pc[r], batch'[r] = batch[r], new'[r] = new[r], left'[r] = left[r],
           answer'[r] = answer[r]
    PROVE  Underway(r)'
<1>1. /\ Traveller(r)' = Traveller(r) /\ Whole(r)' = Whole(r)
      /\ EventsAt(r, Whole(r))' = EventsAt(r, Whole(r))
      /\ Unknown(Traveller(r))' <=> Unknown(Traveller(r))
  BY DEF Traveller, Whole, EventsAt, Unknown
<1> QED
  BY <1>1 DEF Underway

\* The steps of its own request take a journey on.
LEMMA UnderwayStep ==
    ASSUME TypeOK, Kept, RequestRows, Answering, Origins, NEW r \in Requests, Travels(r),
           Underway(r), Advance(r) \/ SkipPublish(r) \/ Abort(r)
    PROVE  Underway(r)'
<1> DEFINE v == Traveller(r)
           b == batch[r]
           D == Whole(r)
<1>1. /\ sessions[v] # NoRow => Told(sessions[v], b, D)
      /\ \A d \in Clients \ {r} : dirty[d][v] # NoRow => Told(dirty[d][v], b, D)
      /\ pc[r] = "insert" => new[r] = D \ left[r] /\ Unknown(v)
      /\ pc[r] \in {"insert", "sessions"} =>
           sessions[v] = NoRow /\ \A d \in Clients \ {r} : dirty[d][v] = NoRow
      /\ pc[r] = "sessions" => Told(dirty[r][v], b, D \ left[r])
      /\ pc[r] \notin {"insert", "done"} \/ answer[r] \in Answer =>
           new[r] = D /\ EventsAt(r, D) \subseteq stored
      /\ pc[r] \notin {"insert", "sessions", "done"} \/ answer[r] \in Answer =>
           sessions[v] # NoRow
  BY DEF Underway
<1>2. v \in Visitors /\ IsJourney(b, r[1], v)
  BY TravelsJourney
<1>3. /\ Traveller(r)' = v /\ batch'[r] = b /\ Whole(r)' = D
      /\ \A I : EventsAt(r, I)' = EventsAt(r, I)
  BY BatchKept DEF Traveller, Whole, EventsAt
<1>4. /\ pc \in [Requests -> PCs] /\ left[r] \subseteq D /\ new[r] \subseteq D
      /\ new \in [Requests -> SUBSET Nat] /\ left \in [Requests -> SUBSET Nat]
      /\ answer \in [Requests -> Answer \cup {NoAnswer, ServerError}]
      /\ r \in Clients /\ dirty \in [Clients -> [Visitors -> Row \cup {NoRow}]]
      /\ txStart[r] \in Nat /\ now \in Nat
  BY IngestionAssumption DEF TypeOK, SessionsTypeOK, RequestsTypeOK, Whole
<1>5. pc[r] # "done" => answer[r] = NoAnswer
  BY DEF Answering
<1>6. NoAnswer \notin Answer /\ ServerError \notin Answer
  BY IngestionAssumption
<1>7. D = 1..Len(b) /\ 1 \in D /\ \A i, j \in D : b[i] = b[j] => i = j
  BY <1>2 DEF IsJourney, Whole
<1>8. \A i \in D : b[i].vid = v
  BY <1>2 DEF IsJourney, Whole
<1>9. pc[r] # "idle"
  BY DEF Answering, Travels
\* What has to be shown.
<1>10. ASSUME sessions'[v] # NoRow => Told(sessions'[v], b, D),
              \A d \in Clients \ {r} : dirty'[d][v] # NoRow => Told(dirty'[d][v], b, D),
              pc'[r] = "insert" => new'[r] = D \ left'[r] /\ \A e \in stored' : e.vid # v,
              pc'[r] \in {"insert", "sessions"} =>
                sessions'[v] = NoRow /\ \A d \in Clients \ {r} : dirty'[d][v] = NoRow,
              pc'[r] = "sessions" => Told(dirty'[r][v], b, D \ left'[r]),
              pc'[r] \notin {"insert", "done"} \/ answer'[r] \in Answer =>
                new'[r] = D /\ EventsAt(r, D) \subseteq stored',
              pc'[r] \notin {"insert", "sessions", "done"} \/ answer'[r] \in Answer =>
                sessions'[v] # NoRow
       PROVE  Underway(r)'
  <2> HIDE DEF v, b, D
  <2> QED
    BY <1>3, <1>10 DEF Underway, Unknown
<1> HIDE DEF v, b, D
<1> USE DEF Goto
<1>11. CASE InsertEvent(r)
  <2>1. /\ pc[r] = "insert" /\ UNCHANGED <<sessions, dirty, stored, pc, answer>>
    BY <1>11 DEF InsertEvent, sessionVars
  <2>2. PICK i \in left[r] :
          /\ new' = [new EXCEPT ![r] =
                       IF batch[r][i] \in stored \cup Pending(r) THEN @ ELSE @ \cup {i}]
          /\ left' = [left EXCEPT ![r] = @ \ {i}]
    BY <1>11 DEF InsertEvent
  <2>3. batch[r][i] \notin stored
    BY <1>1, <1>4, <1>8, <2>1 DEF Unknown, b
  <2>4. batch[r][i] \notin Pending(r)
    <3>1. i \notin new[r] /\ i \in D
      BY <1>1, <1>4, <2>1
    <3> QED
      BY <1>4, <1>7, <3>1 DEF Pending, NewEvents, EventsAt, b
  <2>5. new'[r] = new[r] \cup {i} /\ left'[r] = left[r] \ {i}
    BY <1>4, <2>2, <2>3, <2>4
  <2>6. new'[r] = D \ left'[r]
    BY <1>1, <1>4, <2>1, <2>5
  <2>7. \A e \in stored' : e.vid # v
    BY <1>1, <2>1 DEF Unknown
  <2> QED
    BY <1>1, <1>5, <1>6, <1>10, <2>1, <2>6, <2>7
<1>12. CASE CommitEvents(r)
  <2>1. /\ pc[r] = "insert" /\ pc'[r] = "sessions" /\ left[r] = {} /\ left'[r] = new[r]
        /\ UNCHANGED <<sessions, dirty, new, answer>>
        /\ stored' = stored \cup Pending(r)
    BY <1>4, <1>12 DEF CommitEvents, sessionVars
  <2>2. new[r] = D /\ Pending(r) = EventsAt(r, D)
    BY <1>1, <2>1 DEF Pending, NewEvents
  <2>3. dirty[r][v] = NoRow
    BY <1>2, <2>1 DEF RequestRows, RequestRowsOf, NoRows
  <2>4. Told(dirty'[r][v], b, D \ left'[r])
    BY <2>1, <2>2, <2>3 DEF Told
  <2> QED
    BY <1>1, <1>5, <1>6, <1>10, <2>1, <2>2, <2>4
<1>13. CASE UpdateSession(r)
  <2>1. pc[r] = "sessions" /\ UNCHANGED <<stored, pc, new, answer>>
    BY <1>13 DEF UpdateSession
  <2>2. PICK i \in left[r] : /\ At(r, i) /\ SessionStatement(r, batch[r][i])
                             /\ left' = [left EXCEPT ![r] = @ \ {i}]
    BY <1>13 DEF UpdateSession
  <2> DEFINE I == D \ left[r]
             row == dirty[r][v]
             t == TxNow(r)
  <2>3. /\ I \in SUBSET DOMAIN b /\ i \in DOMAIN b \ I
        /\ \A k \in DOMAIN b : k < i => k \in I
        /\ row \in Row \cup {NoRow} /\ Told(row, b, I) /\ t \in Nat
    <3>1. DOMAIN b = D /\ D \subseteq Nat
      BY <1>7 DEF b, D, Whole
    <3>2. \A k \in D : k < i => k \notin left[r]
      BY <1>4, <2>2, <3>1 DEF At
    <3>3. t \in Nat
      BY <1>4 DEF TxNow
    <3> QED
      BY <1>1, <1>2, <1>4, <2>1, <3>1, <3>2, <3>3
  <2>4. /\ Told(Written(row, b[i], t), b, I \cup {i})
        /\ TouchesSession(b[i])
    <3> HIDE DEF I, row, t
    <3> QED
      BY <1>2, <2>3, NextTold
  <2>5. OwnRow(r, v) = row /\ b[i].vid = v
    BY <1>1, <1>4, <1>8, <2>1 DEF OwnRow
  <2>6. /\ UNCHANGED sessions
        /\ dirty' = [dirty EXCEPT ![r][v] = Written(row, b[i], t)]
    BY <2>2, <2>4, <2>5 DEF SessionStatement, b
  <2>7. /\ dirty'[r][v] = Written(row, b[i], t)
        /\ \A d \in Clients \ {r} : dirty'[d] = dirty[d]
    <3> DEFINE w == Written(row, b[i], t)
    <3> HIDE DEF w
    <3> QED
      BY <1>2, <1>4, <2>6 DEF w
  <2>8. D \ left'[r] = I \cup {i}
    BY <1>4, <2>2
  <2> HIDE DEF I, row, t
  <2>9. Told(dirty'[r][v], b, D \ left'[r])
    BY <2>4, <2>7, <2>8
  <2> QED
    BY <1>1, <1>5, <1>6, <1>10, <2>1, <2>6, <2>7, <2>9
<1>14. CASE CommitSessions(r)
  <2>1. /\ pc[r] = "sessions" /\ pc'[r] = "redis" /\ left[r] = {}
        /\ UNCHANGED <<new, answer, stored>>
        /\ sessions'[v] = OwnRow(r, v) /\ \A d \in Clients \ {r} : dirty'[d] = dirty[d]
    BY <1>2, <1>4, <1>14 DEF CommitSessions, CommitRows
  <2>2. Told(dirty[r][v], b, D)
    BY <1>1, <2>1
  <2>3. sessions'[v] = dirty[r][v] /\ dirty[r][v] # NoRow
    BY <1>7, <2>1, <2>2 DEF Told, OwnRow
  <2> QED
    BY <1>1, <1>5, <1>6, <1>10, <2>1, <2>2, <2>3
<1>15. CASE \/ LookAtQueue(r) \/ RedisCommand(r) \/ PipelineDone(r)
            \/ (\E s \in Stores : ReadVisitors(r, s))
            \/ ReadDepth(r) \/ ReadConversions(r) \/ ReadTs(r) \/ Publish(r) \/ SkipPublish(r)
  <2>1. /\ pc[r] \notin {"insert", "sessions", "done"}
        /\ pc'[r] \notin {"insert", "sessions", "done"}
        /\ UNCHANGED <<sessions, dirty, stored, new, answer>>
    BY <1>4, <1>15 DEF LookAtQueue, RedisCommand, PipelineDone, ReadVisitors, ReadField, ReadDepth,
       ReadConversions, ReadTs, Publish, SkipPublish, sessionVars
  <2> QED
    BY <1>1, <1>10, <2>1
<1>16. CASE Respond(r)
  <2>1. /\ pc[r] = "show" /\ pc'[r] = "done"
        /\ UNCHANGED <<sessions, dirty, stored, new>>
    BY <1>4, <1>16 DEF Respond, sessionVars
  <2> QED
    BY <1>1, <1>10, <2>1
<1>17. CASE Abort(r)
  <2>1. /\ pc'[r] = "done" /\ answer'[r] = ServerError /\ UNCHANGED <<sessions, stored>>
        /\ \A d \in Clients \ {r} : dirty'[d] = dirty[d]
    BY <1>4, <1>17 DEF Abort, RollbackRows
  <2> QED
    BY <1>1, <1>6, <1>10, <2>1
<1> QED
  BY <1>11, <1>12, <1>13, <1>14, <1>15, <1>16, <1>17 DEF Advance
\* A request that goes on, and what it leaves alone.
LEMMA RequestMoves ==
    ASSUME TypeOK, Kept, NEW r \in Requests, Advance(r) \/ SkipPublish(r) \/ Abort(r)
    PROVE  /\ pc[r] \notin {"idle", "done"} /\ pc'[r] # "idle"
           /\ \/ pc'[r] # "done" /\ answer'[r] = answer[r]
              \/ pc'[r] = "done" /\ answer'[r] \in Answer \cup {ServerError}
           /\ \A q \in Requests \ {r} : /\ pc'[q] = pc[q] /\ answer'[q] = answer[q]
                                        /\ new'[q] = new[q] /\ left'[q] = left[q]
<1>1. /\ pc \in [Requests -> PCs] /\ DOMAIN answer = Requests
      /\ answer = [q \in Requests |-> answer[q]]
      /\ new \in [Requests -> SUBSET Nat] /\ left \in [Requests -> SUBSET Nat]
  BY DEF TypeOK, RequestsTypeOK
<1> USE DEF Goto
<1>2. CASE InsertEvent(r)
  BY <1>1, <1>2 DEF InsertEvent
<1>3. CASE CommitEvents(r) \/ UpdateSession(r)
  BY <1>1, <1>3 DEF CommitEvents, UpdateSession
<1>4. CASE CommitSessions(r) \/ LookAtQueue(r) \/ RedisCommand(r) \/ PipelineDone(r)
  BY <1>1, <1>4 DEF CommitSessions, LookAtQueue, RedisCommand, PipelineDone
<1>5. CASE \/ \E s \in Stores : ReadVisitors(r, s)
           \/ ReadDepth(r) \/ ReadConversions(r) \/ ReadTs(r) \/ Publish(r) \/ SkipPublish(r)
  BY <1>1, <1>5 DEF ReadVisitors, ReadField, ReadDepth, ReadConversions, ReadTs, Publish, SkipPublish
<1>6. CASE Respond(r)
  <2>1. Counts(r) \in Answer
    BY CountsType
  <2> QED
    BY <1>1, <1>6, <2>1 DEF Respond
<1>7. CASE Abort(r)
  BY <1>1, <1>7 DEF Abort
<1> QED
  BY <1>2, <1>3, <1>4, <1>5, <1>6, <1>7 DEF Advance

LEMMA AnsweringStep ==
    ASSUME ClientInv, Answering, [SendersNext]_sendersVars
    PROVE  Answering'
<1>1. TypeOK /\ Kept
  BY DEF ClientInv, ApiInv, ApiTypeOK
<1>2. NoAnswer \notin Answer /\ ServerError # NoAnswer
  BY IngestionAssumption, NoRowAssumption
<1>3. CASE UNCHANGED <<pc, answer, batch>>
  BY <1>3 DEF Answering
<1>4. ASSUME NEW r \in Requests, NEW b \in Batches, Receive(r, b),
             \/ r[1] \in Sims /\ \E v \in Drawable \ Drawn : b \in Journeys(r[1], v)
             \/ Lines(r, b)
      PROVE  Answering'
  <2>1. /\ pc[r] = "idle" /\ pc'[r] = "insert" /\ answer' = answer /\ batch'[r] = b
        /\ \A q \in Requests \ {r} : pc'[q] = pc[q] /\ batch'[q] = batch[q]
    BY <1>1, <1>4 DEF Receive, Goto, TypeOK, RequestsTypeOK
  <2>2. r[1] \in Sims => b # << >>
    <3>1. r[1] \in Sims => ~Lines(r, b)
      BY SendersAssumption DEF Lines
    <3> QED
      BY <1>4, <3>1, JourneyEvents
  <2> QED
    BY <2>1, <2>2 DEF Answering
<1>5. ASSUME NEW r \in Requests, Advance(r) \/ SkipPublish(r) \/ Abort(r)
      PROVE  Answering'
  <2>1. batch' = batch
    BY <1>5, BatchKept
  <2>2. /\ pc[r] \notin {"idle", "done"} /\ pc'[r] # "idle"
        /\ \/ pc'[r] # "done" /\ answer'[r] = answer[r]
           \/ pc'[r] = "done" /\ answer'[r] \in Answer \cup {ServerError}
        /\ \A q \in Requests \ {r} : pc'[q] = pc[q] /\ answer'[q] = answer[q]
    BY <1>1, <1>5, RequestMoves
  <2> QED
    BY <1>2, <2>1, <2>2 DEF Answering
<1>6. UNCHANGED ingestionVars \/ UNCHANGED apiVars => UNCHANGED <<pc, answer, batch>>
  BY DEF ingestionVars, apiVars, vars, requestVars
<1> QED
  BY <1>3, <1>4, <1>5, <1>6, ClientKinds

\* Whatever happens, the sessions of travellers stay what they should be.
LEMMA StoriesStep ==
    ASSUME ClientInv, Origins, Answering, Stories, [SendersNext]_sendersVars
    PROVE  Stories'
<1>1. TypeOK /\ Kept /\ LoadsTypeOK /\ RequestRows
  BY DEF ClientInv, ApiInv, ApiTypeOK
<1>2. Drawable \subseteq Visitors /\ Requests \subseteq Clients /\ Loads \subseteq Clients
  BY SendersAssumption, ApiAssumption
<1>3. CASE UNCHANGED <<sessions, dirty, stored, requestVars>>
  <2>1. (Drawable \ Drawn)' = Drawable \ Drawn
    BY <1>3 DEF Drawn, requestVars
  <2>2. \A v \in Drawable \ Drawn : Untouched(v)'
    BY <1>3 DEF Stories, Untouched, Unknown
  <2>3. ASSUME NEW r \in Requests, Travels(r)' PROVE Underway(r)'
    <3>1. Underway(r)
      BY <1>3, <2>3 DEF Stories, Travels, requestVars
    <3> QED
      BY <1>3, <3>1, SameUnderway DEF requestVars
  <2> QED
    BY <2>1, <2>2, <2>3 DEF Stories
<1>4. ASSUME NEW r \in Requests, NEW b \in Batches, Receive(r, b),
             \/ r[1] \in Sims /\ \E v \in Drawable \ Drawn : b \in Journeys(r[1], v)
             \/ Lines(r, b)
      PROVE  Stories'
  <2>1. /\ pc[r] = "idle" /\ pc'[r] = "insert" /\ batch'[r] = b
        /\ left'[r] = {i \in DOMAIN b : Valid(b[i])}
        /\ \A q \in Requests \ {r} : pc'[q] = pc[q] /\ batch'[q] = batch[q] /\ left'[q] = left[q]
        /\ UNCHANGED <<sessions, dirty, stored, answer, new>>
    BY <1>1, <1>4 DEF Receive, Goto, TypeOK, RequestsTypeOK, sessionVars
  <2>2. ASSUME NEW v \in (Drawable \ Drawn)' PROVE Untouched(v)'
    <3>1. CASE v \in Drawable \ Drawn
      BY <2>1, <3>1 DEF Stories, Untouched, Unknown
    <3>2. CASE v \in Drawn
      <4>1. PICK q \in Requests : batch[q] # << >> /\ batch[q][1].vid = v
        BY <3>2 DEF Drawn
      <4>2. q = r
        BY <2>1, <2>2, <4>1 DEF Drawn
      <4>3. r[1] \notin Sims
        BY <2>1, <4>1, <4>2 DEF Answering
      <4>4. Lines(r, batch[r]) /\ 1 \in DOMAIN batch[r]
        <5>1. batch[r] \in Seq(Events)
          BY <1>1 DEF TypeOK, RequestsTypeOK
        <5> QED
          BY <4>1, <4>2, <4>3, <5>1 DEF Origins, Journey
      <4>5. batch[r][1].vid \notin Drawable
        <5>1. r[1] \in Replays /\ \E n \in DOMAIN Samples : \E j \in DOMAIN Samples[n] :
                batch[r][1] = Conversion(r[1], n, 1)[j]
          BY <4>4 DEF Lines
        <5> QED
          BY <5>1, PostsAssumption
      <4> QED
        BY <2>2, <4>1, <4>2, <4>5
    <3> QED
      BY <2>2, <3>1, <3>2
  <2>3. ASSUME NEW q \in Requests, Travels(q)' PROVE Underway(q)'
    <3>1. CASE q # r
      <4>1. Underway(q)
        BY <2>1, <2>3, <3>1 DEF Stories, Travels
      <4> QED
        BY <2>1, <3>1, <4>1, SameUnderway
    <3>2. CASE q = r
      <4>1. PICK v \in Drawable \ Drawn : b \in Journeys(r[1], v)
        BY <1>4, <2>3, <3>2, SendersAssumption DEF Travels, Lines
      <4>2. r[1] \in Sims /\ IsJourney(b, r[1], v) /\ b[1].vid = v
        BY <2>3, <3>2, <4>1, JourneysAre, JourneyEvents DEF Travels
      <4>3. left'[r] = DOMAIN b /\ new'[r] = {} /\ answer'[r] = NoAnswer
        BY <1>1, <2>1, <4>2 DEF IsJourney, Kept, Answering
      <4>4. Untouched(v)
        BY <4>1 DEF Stories
      <4>5. Traveller(r)' = v /\ Whole(r)' = DOMAIN b /\ NoAnswer \notin Answer
        BY <2>1, <4>2, IngestionAssumption DEF Traveller, Whole
      <4> QED
        BY <1>2, <2>1, <3>2, <4>3, <4>4, <4>5 DEF Underway, Untouched, Unknown
    <3> QED
      BY <3>1, <3>2
  <2> QED
    BY <2>2, <2>3 DEF Stories
<1>5. ASSUME NEW r \in Requests, Advance(r) \/ SkipPublish(r) \/ Abort(r)
      PROVE  Stories'
  <2>1. batch' = batch
    BY <1>5, BatchKept
  <2>2. \A q \in Requests \ {r} : /\ pc'[q] = pc[q] /\ answer'[q] = answer[q]
                                  /\ new'[q] = new[q] /\ left'[q] = left[q]
    BY <1>1, <1>5, RequestMoves
  <2>3. (Drawable \ Drawn)' = Drawable \ Drawn
    BY <2>1 DEF Drawn
  <2>4. ASSUME NEW v \in Drawable \ Drawn PROVE Untouched(v)'
    <3>1. \A i \in DOMAIN batch[r] : batch[r][i].vid # v
      BY NobodysEvents
    <3>2. Leaves(r, v)
      BY <1>1, <1>2, <1>5, <3>1, RequestLeaves
    <3>3. r \in Clients /\ Untouched(v)
      BY <1>2 DEF Stories
    <3> QED
      BY <3>2, <3>3, UntouchedFrame
  <2>5. ASSUME NEW q \in Requests, Travels(q) PROVE Underway(q)'
    <3>1. Underway(q)
      BY <2>5 DEF Stories
    <3>2. CASE q = r
      BY <1>1, <1>5, <2>5, <3>1, <3>2, UnderwayStep
    <3>3. CASE q # r
      <4>1. Traveller(q) \in Visitors
        BY <2>5, TravelsJourney
      <4>2. \A i \in DOMAIN batch[r] : batch[r][i].vid # Traveller(q)
        BY <2>5, <3>3, NobodysEvents
      <4>3. Leaves(r, Traveller(q))
        BY <1>1, <1>5, <4>1, <4>2, RequestLeaves
      <4>4. r \in Clients \ {q}
        BY <1>2, <3>3
      <4> QED
        BY <2>1, <2>2, <3>1, <3>3, <4>3, <4>4, UnderwayFrame
    <3> QED
      BY <3>2, <3>3
  <2>6. \A q \in Requests : Travels(q)' <=> Travels(q)
    BY <2>1 DEF Travels
  <2> QED
    BY <2>3, <2>4, <2>5, <2>6 DEF Stories
<1>6. ASSUME NEW l \in Loads, LoadStep(l), UNCHANGED ingestionVars
      PROVE  Stories'
  <2>1. UNCHANGED requestVars
    BY <1>6 DEF ingestionVars
  <2>2. \A v \in Visitors : Leaves(l, v)
    BY <1>1, <1>6, LoadLeaves
  <2>3. l \in Clients /\ l \notin Requests
    BY ApiAssumption
  <2>4. ASSUME NEW v \in Drawable \ Drawn PROVE Untouched(v)'
    BY <1>2, <2>2, <2>3, <2>4, UntouchedFrame DEF Stories
  <2>5. ASSUME NEW q \in Requests, Travels(q) PROVE Underway(q)'
    <3>1. Underway(q) /\ Leaves(l, Traveller(q)) /\ l \in Clients \ {q}
      BY <2>2, <2>3, <2>5, TravelsJourney DEF Stories
    <3>2. /\ pc'[q] = pc[q] /\ batch'[q] = batch[q] /\ new'[q] = new[q] /\ left'[q] = left[q]
          /\ answer'[q] = answer[q]
      BY <2>1 DEF requestVars
    <3> QED
      BY <3>1, <3>2, UnderwayFrame
  <2>6. (Drawable \ Drawn)' = Drawable \ Drawn /\ \A q \in Requests : Travels(q)' <=> Travels(q)
    BY <2>1 DEF Drawn, Travels, requestVars
  <2> QED
    BY <2>4, <2>5, <2>6 DEF Stories
<1>7. UNCHANGED apiVars => UNCHANGED <<sessions, dirty, stored, requestVars>>
  BY DEF apiVars, vars, sessionVars
<1> QED
  BY <1>3, <1>4, <1>5, <1>6, <1>7, ClientKinds

-----------------------------------------------------------------------------
\* What the simulator counts.

\* The requests a task has got the answer of, or has given up and they were
\* answered all the same.
Tallied(s) ==
    {r \in Requests : r[1] = s /\ r[2] <= posts[s] - Waits(s) /\ answer[r] \in Answer}
TalliedEvents(s) == UNION {EventsAt(r, Whole(r)) : r \in Tallied(s)}
TalliedEntries(s) == {e \in TalliedEvents(s) : e.type = "ENTRY"}

\* It counts no more than what came with these.
Tallies ==
    /\ IsFiniteSet(stored)
    /\ \A s \in Sims :
         /\ sim[s].visitors <= Cardinality(TalliedEntries(s))
         /\ sim[s].events <= Cardinality(TalliedEvents(s))

\* Two numbers that bound the sizes of disjoint sets.
LEMMA AddsUp ==
    ASSUME NEW T, IsFiniteSet(T), NEW C \in SUBSET T, NEW N \in SUBSET T, C \cap N = {},
           NEW n \in Nat, NEW k \in Nat, n <= Cardinality(C), k <= Cardinality(N)
    PROVE  n + k <= Cardinality(T)
<1>1. /\ IsFiniteSet(C) /\ IsFiniteSet(N) /\ IsFiniteSet(C \cup N)
      /\ Cardinality(C \cup N) <= Cardinality(T)
  <2>1. C \cup N \in SUBSET T
    OBVIOUS
  <2> QED
    BY <2>1, FS_Subset
<1>2. /\ Cardinality(C) \in Nat /\ Cardinality(N) \in Nat /\ Cardinality(T) \in Nat
      /\ Cardinality(C \cup N) \in Nat
  BY <1>1, FS_CardinalityType
<1>3. Cardinality(C \cap N) = 0
  BY FS_EmptySet
<1>4. Cardinality(C \cup N) = Cardinality(C) + Cardinality(N) - Cardinality(C \cap N)
  BY <1>1, FS_Union, Zenon
<1> QED
  BY <1>1, <1>2, <1>3, <1>4

\* A journey has as many events as it is long, one of which is the entry.
LEMMA JourneySize ==
    ASSUME NEW b, NEW s, NEW v, IsJourney(b, s, v)
    PROVE  /\ Cardinality({b[i] : i \in DOMAIN b}) = Len(b)
           /\ Cardinality({e \in {b[i] : i \in DOMAIN b} : e.type = "ENTRY"}) = 1
<1>1. DOMAIN b = 1..Len(b) /\ Len(b) \in Nat /\ Len(b) > 1
  BY DEF IsJourney
<1>2. IsFiniteSet(1..Len(b)) /\ Cardinality(1..Len(b)) = Len(b)
  BY <1>1, FS_Interval
<1>3. \A i, j \in DOMAIN b : b[i] = b[j] => i = j
  BY DEF IsJourney
<1>4. Cardinality({b[i] : i \in DOMAIN b}) = Len(b)
  <2>1. IsFiniteSet(DOMAIN b) /\ Cardinality(DOMAIN b) = Len(b)
    BY <1>1, <1>2
  <2>2. Cardinality({b[i] : i \in DOMAIN b}) = Cardinality(DOMAIN b)
    BY <1>3, <2>1, ImageSize
  <2> QED
    BY <2>1, <2>2
<1>5. \A i \in DOMAIN b : b[i].type = "ENTRY" <=> i = 1
  BY <1>1 DEF IsJourney
<1>6. {e \in {b[i] : i \in DOMAIN b} : e.type = "ENTRY"} = {b[1]}
  BY <1>1, <1>5
<1> QED
  BY <1>4, <1>6, FS_Singleton

\* What is tallied is stored, and comes from no other request.
LEMMA TalliedStored ==
    ASSUME Origins, Answering, Stories, IsFiniteSet(stored), NEW s \in Sims
    PROVE  /\ TalliedEvents(s) \subseteq {e \in stored : e.store = s}
           /\ TalliedEntries(s) \subseteq VisitorEntries(stored, s)
           /\ IsFiniteSet(TalliedEvents(s)) /\ IsFiniteSet(TalliedEntries(s))
           /\ \A r \in Requests \ Tallied(s) :
                Travels(r) => TalliedEvents(s) \cap EventsAt(r, Whole(r)) = {}
<1>1. ASSUME NEW r \in Tallied(s)
      PROVE  /\ r \in Requests /\ Travels(r) /\ r[1] = s
             /\ EventsAt(r, Whole(r)) \subseteq stored
  <2>1. r \in Requests /\ r[1] = s /\ answer[r] \in Answer
    BY DEF Tallied
  <2>2. pc[r] = "done"
    BY <2>1, IngestionAssumption DEF Answering
  <2>3. Travels(r)
    BY <2>1, <2>2 DEF Answering, Travels
  <2> QED
    BY <2>1, <2>3 DEF Stories, Underway
<1>2. ASSUME NEW r \in Tallied(s), NEW e \in EventsAt(r, Whole(r))
      PROVE  e \in stored /\ e.store = s /\ ~e.staff
  <2>1. IsJourney(batch[r], s, Traveller(r))
    BY <1>1, TravelsJourney
  <2> QED
    BY <1>1, <2>1 DEF IsJourney, EventsAt, Whole
<1>3. TalliedEvents(s) \subseteq {e \in stored : e.store = s}
  BY <1>2 DEF TalliedEvents
<1>4. TalliedEntries(s) \subseteq VisitorEntries(stored, s)
  BY <1>2 DEF TalliedEvents, TalliedEntries, VisitorEntries, IsVisitorEntry
<1>5. IsFiniteSet(TalliedEvents(s)) /\ IsFiniteSet(TalliedEntries(s))
  <2>1. TalliedEvents(s) \in SUBSET stored /\ TalliedEntries(s) \in SUBSET stored
    BY <1>3 DEF TalliedEntries
  <2> QED
    BY <2>1, FS_Subset
<1>6. ASSUME NEW r \in Requests \ Tallied(s), Travels(r), NEW e \in EventsAt(r, Whole(r))
      PROVE  e \notin TalliedEvents(s)
  <2>1. e.vid = Traveller(r)
    BY <1>6, TravelsJourney DEF IsJourney, EventsAt, Whole
  <2>2. ASSUME NEW q \in Tallied(s) PROVE e \notin EventsAt(q, Whole(q))
    <3>1. \A i \in Whole(q) : batch[q][i].vid # Traveller(r)
      BY <1>1, <1>6, NobodysEvents DEF Whole
    <3> QED
      BY <2>1, <3>1 DEF EventsAt
  <2> QED
    BY <2>2 DEF TalliedEvents
<1> QED
  BY <1>3, <1>4, <1>5, <1>6

\* A task counts what an answer accepted, once, and moves on from its requests.
LEMMA SimCounts ==
    ASSUME ApiInv, SendersTyped, [SendersNext]_sendersVars, NEW s \in Sims
    PROVE  \/ /\ posts'[s] - Waits(s)' >= posts[s] - Waits(s)
              /\ sim'[s].visitors = sim[s].visitors /\ sim'[s].events = sim[s].events
           \/ /\ Replied(s) /\ Reply(s) # ServerError
              /\ posts'[s] = posts[s] /\ Waits(s)' = 0
              /\ sim'[s].visitors = sim[s].visitors + 1
              /\ sim'[s].events = sim[s].events + Len(batch[<<s, posts[s]>>])
<1>1. /\ sender \in [Sims \cup Replays -> SenderStates]
      /\ posts \in [Sims \cup Replays -> 0..MaxPosts] /\ MaxPosts \in Nat
      /\ sim \in [Sims -> Sim] /\ s \notin Replays
      /\ Waits(s) \in Nat /\ posts[s] \in Nat
  BY SendersAssumption DEF SendersTyped, Waits
<1>2. sim[s].visitors \in Nat /\ sim[s].events \in Nat /\ sim[s].time \in Nat
  BY <1>1 DEF Sim
<1>3. CASE sender'[s] = sender[s] /\ posts'[s] = posts[s] /\ sim'[s] = sim[s]
  BY <1>1, <1>3 DEF Waits
<1>4. ASSUME NEW p \in Sims \ {s}, SimStarts(p) \/ Arrival(p) \/ SimAnswered(p) \/ SimUnanswered(p)
                                   \/ NobodyArrives(p) \/ SimEnds(p)
      PROVE  sender'[s] = sender[s] /\ posts'[s] = posts[s] /\ sim'[s] = sim[s]
  BY <1>1, <1>4 DEF SimStarts, Arrival, Post, SimAnswered, SimUnanswered, Round, NobodyArrives, SimEnds,
     SenderGoto
<1>5. ASSUME NEW p \in Replays,
             \/ \E n \in DOMAIN Samples : ConvertFile(p, n)
             \/ IngestSlice(p) \/ IngestAnswered(p) \/ IngestUnanswered(p) \/ ReplayEnds(p)
      PROVE  sender'[s] = sender[s] /\ posts'[s] = posts[s] /\ sim'[s] = sim[s]
  BY <1>1, <1>5 DEF ConvertFile, IngestSlice, Post, IngestAnswered, IngestUnanswered, ReplayEnds,
     SenderGoto
<1>6. CASE SimStarts(s) \/ SimEnds(s)
  BY <1>1, <1>6 DEF SimStarts, SimEnds, SenderGoto, Waits
<1>7. CASE Arrival(s)
  BY <1>1, <1>7 DEF Arrival, Post, SenderGoto, Waits
<1>8. CASE NobodyArrives(s)
  <2>1. sim'[s].visitors = sim[s].visitors /\ sim'[s].events = sim[s].events
    BY <1>1, <1>8 DEF NobodyArrives, Sim
  <2> QED
    BY <1>1, <1>8, <2>1 DEF NobodyArrives, SenderGoto, Waits
<1>9. ASSUME NEW posted \in BOOLEAN, Round(s, posted)
      PROVE  /\ posts'[s] = posts[s] /\ Waits(s)' = 0
             /\ sim'[s].visitors = sim[s].visitors + (IF posted THEN 1 ELSE 0)
             /\ sim'[s].events =
                  sim[s].events + (IF posted THEN Len(batch[<<s, posts[s]>>]) ELSE 0)
  BY <1>1, <1>9 DEF Round, SenderGoto, Waits, Sim
<1>10. CASE SimUnanswered(s)
  <2> DEFINE posted == FALSE
  <2>1. Round(s, posted) /\ posted \in BOOLEAN /\ ~posted
    BY <1>10 DEF SimUnanswered
  <2> HIDE DEF posted
  <2>2. /\ posts'[s] = posts[s] /\ Waits(s)' = 0
        /\ sim'[s].visitors = sim[s].visitors + (IF posted THEN 1 ELSE 0)
        /\ sim'[s].events = sim[s].events + (IF posted THEN Len(batch[<<s, posts[s]>>]) ELSE 0)
    BY <1>9, <2>1
  <2> QED
    BY <1>1, <1>2, <2>1, <2>2
<1>11. CASE SimAnswered(s)
  <2> DEFINE posted == Reply(s) # ServerError /\ Reply(s).accepted > 0
  <2>1. Replied(s) /\ Round(s, posted) /\ posted \in BOOLEAN
    BY <1>11 DEF SimAnswered
  <2> HIDE DEF posted
  <2>2. /\ posts'[s] = posts[s] /\ Waits(s)' = 0
        /\ sim'[s].visitors = sim[s].visitors + (IF posted THEN 1 ELSE 0)
        /\ sim'[s].events = sim[s].events + (IF posted THEN Len(batch[<<s, posts[s]>>]) ELSE 0)
    BY <1>9, <2>1
  <2>3. CASE posted
    <3>1. Reply(s) # ServerError
      BY <2>3 DEF posted
    <3> QED
      BY <2>1, <2>2, <2>3, <3>1
  <2>4. CASE ~posted
    BY <1>1, <1>2, <2>2, <2>4
  <2> QED
    BY <2>3, <2>4
<1>12. CASE UNCHANGED senderVars
  BY <1>3, <1>12 DEF senderVars
<1> QED
  BY <1>3, <1>4, <1>5, <1>6, <1>7, <1>8, <1>10, <1>11, <1>12
     DEF SendersNext, SenderStep, AtRest, sendersVars
\* What is answered stays as it is, and what is stored is finite.
LEMMA AnsweredStays ==
    ASSUME ClientInv, [SendersNext]_sendersVars, NEW r \in Requests, pc[r] = "done"
    PROVE  answer'[r] = answer[r] /\ batch'[r] = batch[r]
<1>1. TypeOK /\ Kept
  BY DEF ClientInv, ApiInv, ApiTypeOK
<1>2. ASSUME NEW q \in Requests, NEW b \in Batches, Receive(q, b)
      PROVE  answer'[r] = answer[r] /\ batch'[r] = batch[r]
  BY <1>1, <1>2 DEF Receive, Goto, TypeOK, RequestsTypeOK
<1>3. ASSUME NEW q \in Requests, Advance(q) \/ SkipPublish(q) \/ Abort(q)
      PROVE  answer'[r] = answer[r] /\ batch'[r] = batch[r]
  BY <1>1, <1>3, BatchKept, RequestMoves
<1>4. UNCHANGED ingestionVars \/ UNCHANGED apiVars => UNCHANGED <<answer, batch>>
  BY DEF ingestionVars, apiVars, vars, requestVars
<1> QED
  BY <1>2, <1>3, <1>4, ClientKinds

LEMMA StoredFinite ==
    ASSUME ClientInv, IsFiniteSet(stored), [SendersNext]_sendersVars
    PROVE  IsFiniteSet(stored')
<1>1. TypeOK
  BY DEF ClientInv, ApiInv, ApiTypeOK
<1>2. ASSUME NEW r \in Requests, CommitEvents(r) PROVE IsFiniteSet(stored')
  <2>1. stored' = stored \cup Pending(r)
    BY <1>2 DEF CommitEvents
  <2>2. IsFiniteSet(Pending(r))
    BY <1>1, FinitelyManyNew, FS_EmptySet DEF Pending
  <2> QED
    BY <2>1, <2>2, FS_Union
<1>3. ASSUME NEW r \in Requests, Advance(r) \/ SkipPublish(r) \/ Abort(r), ~CommitEvents(r)
      PROVE  stored' = stored
  BY <1>3 DEF Advance, InsertEvent, UpdateSession, CommitSessions, LookAtQueue, RedisCommand,
     PipelineDone, ReadVisitors, ReadField, ReadDepth, ReadConversions, ReadTs, Publish, Respond,
     SkipPublish, Abort
<1>4. /\ \A r, b : Receive(r, b) => stored' = stored
      /\ UNCHANGED ingestionVars \/ UNCHANGED apiVars => stored' = stored
  BY DEF Receive, ingestionVars, apiVars, vars
<1> QED
  BY <1>2, <1>3, <1>4, ClientKinds

LEMMA TalliesStep ==
    ASSUME ClientInv, Origins, Answering, Stories, Tallies, [SendersNext]_sendersVars,
           ClientInv', Origins', Answering', Stories'
    PROVE  Tallies'
<1>1. ApiInv /\ SendersTyped /\ SendersTyped' /\ IsFiniteSet(stored')
  BY StoredFinite DEF ClientInv, Tallies
<1> SUFFICES ASSUME NEW s \in Sims
             PROVE  /\ sim'[s].visitors <= Cardinality(TalliedEntries(s)')
                    /\ sim'[s].events <= Cardinality(TalliedEvents(s)')
  BY <1>1 DEF Tallies
<1> DEFINE C == TalliedEvents(s)
           T == TalliedEvents(s)'
           CE == TalliedEntries(s)
           TE == TalliedEntries(s)'
<1>2. /\ sim[s].visitors \in Nat /\ sim[s].events \in Nat
      /\ sim[s].visitors <= Cardinality(CE) /\ sim[s].events <= Cardinality(C)
      /\ posts[s] \in Nat /\ Waits(s) \in Nat /\ posts'[s] \in Nat /\ Waits(s)' \in Nat
      /\ MaxPosts \in Nat
  BY <1>1, SendersAssumption DEF Tallies, SendersTyped, Sim, Waits
<1>3. IsFiniteSet(C) /\ IsFiniteSet(CE)
  BY TalliedStored DEF Tallies
<1>4. IsFiniteSet(T) /\ IsFiniteSet(TE)
  <2>1. (/\ TalliedEvents(s) \subseteq {e \in stored : e.store = s}
         /\ TalliedEntries(s) \subseteq VisitorEntries(stored, s)
         /\ IsFiniteSet(TalliedEvents(s)) /\ IsFiniteSet(TalliedEntries(s))
         /\ \A r \in Requests \ Tallied(s) :
              Travels(r) => TalliedEvents(s) \cap EventsAt(r, Whole(r)) = {})'
    <3>1. (Origins /\ Answering /\ Stories /\ IsFiniteSet(stored) /\ s \in Sims)'
      BY <1>1
    <3> QED
      BY <3>1, TalliedStored, PTL
  <2> QED
    BY <2>1
<1>5. /\ posts'[s] - Waits(s)' >= posts[s] - Waits(s)
      /\ \/ sim'[s].visitors = sim[s].visitors /\ sim'[s].events = sim[s].events
         \/ /\ Replied(s) /\ Reply(s) # ServerError
            /\ posts'[s] = posts[s] /\ Waits(s)' = 0
            /\ sim'[s].visitors = sim[s].visitors + 1
            /\ sim'[s].events = sim[s].events + Len(batch[<<s, posts[s]>>])
  BY <1>1, <1>2, SimCounts
<1>6. \A r \in Requests : r[2] \in 1..MaxPosts
  BY SendersAssumption
<1>7. ASSUME NEW r \in Tallied(s)
      PROVE  r \in Tallied(s)' /\ EventsAt(r, Whole(r))' = EventsAt(r, Whole(r))
  <2>1. r \in Requests /\ r[1] = s /\ r[2] <= posts[s] - Waits(s) /\ answer[r] \in Answer
    BY DEF Tallied
  <2>2. pc[r] = "done"
    BY <2>1, IngestionAssumption DEF Answering
  <2>3. answer'[r] = answer[r] /\ batch'[r] = batch[r]
    BY <2>1, <2>2, AnsweredStays
  <2>4. r[2] <= posts'[s] - Waits(s)'
    <3>1. r[2] \in Int
      BY <1>6, <2>1
    <3> QED
      BY <1>2, <1>5, <2>1, <3>1
  <2> QED
    BY <2>1, <2>3, <2>4 DEF Tallied, EventsAt, Whole
<1>8. C \subseteq T /\ CE \subseteq TE
  BY <1>7 DEF TalliedEvents, TalliedEntries
<1>9. CASE sim'[s].visitors = sim[s].visitors /\ sim'[s].events = sim[s].events
  <2>1. /\ Cardinality(C) <= Cardinality(T) /\ Cardinality(CE) <= Cardinality(TE)
        /\ Cardinality(C) \in Nat /\ Cardinality(CE) \in Nat
        /\ Cardinality(T) \in Nat /\ Cardinality(TE) \in Nat
    <3> HIDE DEF C, T, CE, TE
    <3> QED
      BY <1>3, <1>4, <1>8, FS_Subset, FS_CardinalityType
  <2> HIDE DEF C, T, CE, TE
  <2>2. sim'[s].visitors <= Cardinality(TE) /\ sim'[s].events <= Cardinality(T)
    BY <1>2, <1>9, <2>1
  <2> QED
    BY <2>2 DEF T, TE
<1>10. CASE /\ Replied(s) /\ Reply(s) # ServerError
            /\ posts'[s] = posts[s] /\ Waits(s)' = 0
            /\ sim'[s].visitors = sim[s].visitors + 1
            /\ sim'[s].events = sim[s].events + Len(batch[<<s, posts[s]>>])
  <2>1. PICK r \in Requests : r = <<s, posts[s]>>
    BY <1>1, <1>10, WaitsForRequest DEF Replied
  <2> DEFINE N == EventsAt(r, Whole(r))
             NE == {e \in N : e.type = "ENTRY"}
             k == Len(batch[r])
  <2>2. r[1] = s /\ r[2] = posts[s] /\ pc[r] = "done" /\ Waits(s) = 1
    BY <1>10, <2>1 DEF Replied, Waits
  <2>3. answer[r] \in Answer
    BY <1>1, <1>10, <2>1, <2>2
       DEF Reply, Answering, ApiInv, ApiTypeOK, TypeOK, RequestsTypeOK
  <2>4. Travels(r)
    BY <2>2 DEF Travels, Answering
  <2>5. IsJourney(batch[r], s, Traveller(r))
    BY <2>2, <2>4, TravelsJourney
  <2>6. Cardinality(N) = k /\ Cardinality(NE) = 1 /\ k \in Nat
    <3>1. N = {batch[r][i] : i \in DOMAIN batch[r]}
      BY DEF EventsAt, Whole
    <3>2. /\ Cardinality({batch[r][i] : i \in DOMAIN batch[r]}) = k
          /\ Cardinality({e \in {batch[r][i] : i \in DOMAIN batch[r]} : e.type = "ENTRY"}) = 1
      BY <2>5, JourneySize
    <3>3. k \in Nat
      BY <2>5 DEF IsJourney
    <3> QED
      BY <3>1, <3>2, <3>3
  <2>7. r \notin Tallied(s)
    BY <1>2, <2>2 DEF Tallied
  <2>8. C \cap N = {}
    BY <2>4, <2>7, TalliedStored DEF Tallies
  <2>9. N \subseteq T
    <3>1. answer'[r] = answer[r] /\ batch'[r] = batch[r]
      BY <2>2, AnsweredStays
    <3>2. r \in Tallied(s)'
      BY <1>2, <1>10, <2>2, <2>3, <3>1 DEF Tallied
    <3>3. EventsAt(r, Whole(r))' = N
      BY <3>1 DEF EventsAt, Whole
    <3> QED
      BY <3>2, <3>3 DEF TalliedEvents
  <2>10. CE \cap NE = {} /\ NE \subseteq TE
    BY <2>8, <2>9 DEF TalliedEntries
  <2> HIDE DEF C, T, CE, TE, N, NE, k
  <2>11. sim[s].events + k <= Cardinality(T)
    <3>1. C \in SUBSET T /\ N \in SUBSET T
      BY <1>8, <2>9
    <3>2. k <= Cardinality(N)
      BY <2>6
    <3> QED
      BY <1>2, <1>4, <2>6, <2>8, <3>1, <3>2, AddsUp
  <2>12. sim[s].visitors + 1 <= Cardinality(TE)
    <3>1. CE \in SUBSET TE /\ NE \in SUBSET TE
      BY <1>8, <2>10
    <3>2. 1 <= Cardinality(NE) /\ 1 \in Nat
      BY <2>6
    <3> QED
      BY <1>2, <1>4, <2>10, <3>1, <3>2, AddsUp
  <2>13. sim'[s].visitors <= Cardinality(TE) /\ sim'[s].events <= Cardinality(T)
    BY <1>10, <2>1, <2>11, <2>12 DEF k
  <2> QED
    BY <2>13 DEF T, TE
<1> QED
  BY <1>5, <1>9, <1>10

JourneysInv == Origins /\ Answering /\ Stories /\ Tallies

LEMMA JourneysInvariant == SendersSpec => [](ClientInv /\ JourneysInv)
<1>1. SendersInit => JourneysInv
  <2> SUFFICES ASSUME SendersInit PROVE JourneysInv
    OBVIOUS
  <2> USE DEF SendersInit, ApiInit, Init, SessionsInit, RequestsInit
  <2>1. Origins
    BY DEF Origins
  <2>2. Answering
    BY NoRowAssumption DEF Answering
  <2>3. Stories
    BY SendersAssumption DEF Stories, Untouched, Unknown, Travels
  <2>4. Tallies
    <3>1. ASSUME NEW s \in Sims PROVE TalliedEvents(s) = {} /\ TalliedEntries(s) = {}
      <4>1. Tallied(s) = {}
        BY IngestionAssumption DEF Tallied
      <4> QED
        BY <4>1 DEF TalliedEvents, TalliedEntries
    <3>2. ASSUME NEW s \in Sims PROVE sim[s].visitors = 0 /\ sim[s].events = 0
      OBVIOUS
    <3>3. IsFiniteSet(stored) /\ Cardinality({}) = 0
      BY FS_EmptySet
    <3>4. ASSUME NEW s \in Sims
          PROVE  /\ sim[s].visitors <= Cardinality(TalliedEntries(s))
                 /\ sim[s].events <= Cardinality(TalliedEvents(s))
      <4>1. /\ Cardinality(TalliedEntries(s)) = 0 /\ Cardinality(TalliedEvents(s)) = 0
            /\ sim[s].visitors = 0 /\ sim[s].events = 0
        BY <3>1, <3>2, <3>3
      <4> QED
        BY <4>1
    <3> QED
      BY <3>3, <3>4 DEF Tallies
  <2> QED
    BY <2>1, <2>2, <2>3, <2>4 DEF JourneysInv
<1>2. ClientInv /\ ClientInv' /\ JourneysInv /\ [SendersNext]_sendersVars => JourneysInv'
  BY OriginsStep, AnsweringStep, StoriesStep, TalliesStep DEF JourneysInv
<1> QED
  BY <1>1, <1>2, ClientInvariant, PTL DEF SendersSpec, sendersVars

\* Whose journey was accepted has the session that was meant, whatever other
\* requests and the loads of sales do meanwhile, and what the simulator counts is
\* stored.
THEOREM JourneysAreTold == SendersSpec => []JourneysTold
<1>1. ClientInv /\ JourneysInv => JourneysTold
  <2> SUFFICES ASSUME ClientInv, JourneysInv, NEW s \in Sims
               PROVE  /\ sim[s].visitors <= Cardinality(VisitorEntries(stored, s))
                      /\ sim[s].events <= Cardinality({e \in stored : e.store = s})
                      /\ \A r \in {s} \X (1..MaxPosts) :
                           answer[r] \in Answer /\ batch[r] # << >> =>
                             LET row == sessions[batch[r][1].vid]
                                 zones == {e.zone : e \in {f \in NewEvents(r) : f.type = "ZONE_DWELL"}}
                             IN /\ row # NoRow
                                /\ row.exited = Len(batch[r])
                                /\ row.zones = zones
                                /\ row.billing = (zones # {})
    BY DEF JourneysTold
  <2>1. Origins /\ Answering /\ Stories /\ Tallies /\ SendersTyped
    BY DEF JourneysInv, ClientInv
  <2> DEFINE A == TalliedEntries(s)
             B == VisitorEntries(stored, s)
             C == TalliedEvents(s)
             D == {e \in stored : e.store = s}
  <2>2. sim[s].visitors <= Cardinality(B) /\ sim[s].events <= Cardinality(D)
    <3>1. A \subseteq B /\ C \subseteq D /\ B \subseteq stored /\ D \subseteq stored
      BY <2>1, TalliedStored DEF Tallies, VisitorEntries
    <3>2. /\ sim[s].visitors \in Nat /\ sim[s].visitors <= Cardinality(A)
          /\ sim[s].events \in Nat /\ sim[s].events <= Cardinality(C)
          /\ IsFiniteSet(stored)
      BY <2>1 DEF Tallies, SendersTyped, Sim
    <3> HIDE DEF A, B, C, D
    <3>3. IsFiniteSet(B) /\ IsFiniteSet(D)
      BY <3>1, <3>2, FS_Subset
    <3>4. /\ Cardinality(A) <= Cardinality(B) /\ Cardinality(C) <= Cardinality(D)
          /\ IsFiniteSet(A) /\ IsFiniteSet(C)
      BY <3>1, <3>3, FS_Subset
    <3>5. /\ Cardinality(A) \in Nat /\ Cardinality(B) \in Nat
          /\ Cardinality(C) \in Nat /\ Cardinality(D) \in Nat
      BY <3>3, <3>4, FS_CardinalityType
    <3> QED
      BY <3>2, <3>4, <3>5
  <2>3. ASSUME NEW r \in {s} \X (1..MaxPosts), answer[r] \in Answer, batch[r] # << >>
        PROVE  LET row == sessions[batch[r][1].vid]
                   zones == {e.zone : e \in {f \in NewEvents(r) : f.type = "ZONE_DWELL"}}
               IN /\ row # NoRow
                  /\ row.exited = Len(batch[r])
                  /\ row.zones = zones
                  /\ row.billing = (zones # {})
    <3> DEFINE v == Traveller(r)
               b == batch[r]
               row == sessions[v]
               zones == {e.zone : e \in {f \in NewEvents(r) : f.type = "ZONE_DWELL"}}
    <3>1. r \in Requests /\ r[1] = s /\ Travels(r)
      BY <2>3, SendersAssumption DEF Travels
    <3>2. v \in Visitors /\ IsJourney(b, s, v)
      BY <2>1, <3>1, TravelsJourney
    <3>3. /\ row # NoRow /\ Told(row, b, DOMAIN b) /\ new[r] = DOMAIN b
      BY <2>1, <2>3, <3>1 DEF Stories, Underway, Whole
    <3>4. 1 \in DOMAIN b /\ Len(b) \in DOMAIN b
      BY <3>2 DEF IsJourney
    <3>5. /\ row.exited = Len(b) /\ row.zones = ZonesOf(b, DOMAIN b)
          /\ row.billing => row.zones # {}
          /\ (\E i \in DOMAIN b : b[i].type = "BILLING_QUEUE_JOIN") => row.billing
      BY <3>3, <3>4 DEF Told
    <3>6. zones = ZonesOf(b, DOMAIN b)
      BY <3>3 DEF ZonesOf, NewEvents, EventsAt
    <3>7. row.zones # {} => row.billing
      <4>1. row.zones # {} => \E i \in DOMAIN b : b[i].type = "ZONE_DWELL"
        BY <3>5 DEF ZonesOf
      <4>2. (\E i \in DOMAIN b : b[i].type = "ZONE_DWELL")
              => \E k \in DOMAIN b : b[k].type = "BILLING_QUEUE_JOIN"
        BY <3>2 DEF IsJourney
      <4> QED
        BY <3>5, <4>1, <4>2
    <3>8. row.billing \in BOOLEAN
      BY <3>2, <3>3 DEF ClientInv, ApiInv, ApiTypeOK, TypeOK, SessionsTypeOK, Row
    <3> QED
      BY <3>3, <3>5, <3>6, <3>7, <3>8 DEF Traveller
  <2> QED
    BY <2>2, <2>3
<1> QED
  BY <1>1, JourneysInvariant, PTL
-----------------------------------------------------------------------------
\* What a replay gets stored.

\* A converted event is valid exactly if the API takes its line.
LEMMA LineAccepted ==
    ASSUME NEW p \in Replays, NEW n \in DOMAIN Samples, NEW i \in DOMAIN Samples[n]
    PROVE  Valid(Conversion(p, n, 1)[i]) <=> Acceptable(Samples[n][i])
<1> DEFINE e == Conversion(p, n, 1)[i]
           line == Samples[n][i]
           type == NormalizeEventType(line.type)
           w == SentDwell(line, type)
           d == SentDepth(line, type)
           fits == FieldsInRange(type, w, d, line.inRange)
<1>1. e = ConvertEvent(line, <<p, n, i>>, 1)
  BY DEF Conversion
<1>2. e \in Event
  <2>1. Conversion(p, n, 1) \in Seq(Events) /\ i \in DOMAIN Conversion(p, n, 1)
    BY PostsAssumption DEF Conversion
  <2> HIDE DEF e
  <2>2. Conversion(p, n, 1)[i] \in Events
    BY <2>1
  <2> QED
    BY <2>2, EventAssumption DEF e
<1>3. line.dwell \in Int /\ line.depth \in Int \cup {NoDepth} /\ NoDepth \notin Int
  BY SendersAssumption, EventLogAssumption
<1>4. /\ e.wellFormed = fits
      /\ e.type = (IF type \in EventTypes THEN type ELSE "ENTRY")
      /\ e.zone = (IF type \in NoZoneTypes THEN NoZone ELSE line.zone)
      /\ e.dwell = (IF w < 0 THEN 0 ELSE w)
      /\ e.depth = (IF d = NoDepth \/ d < 1 THEN 0 ELSE d)
  <2>1. ConvertEvent(line, <<p, n, i>>, 1)
          = [id |-> NormalizeEventId(line.id, <<p, n, i>>), store |-> line.store,
             vid |-> IF line.vid = NoVisitor THEN <<p, n, i>> ELSE line.vid,
             type |-> IF type \in EventTypes THEN type ELSE "ENTRY",
             ts |-> IF line.ts = 0 THEN 1 ELSE line.ts,
             zone |-> IF type \in NoZoneTypes THEN NoZone ELSE line.zone,
             dwell |-> IF w < 0 THEN 0 ELSE w, staff |-> line.staff,
             depth |-> IF d = NoDepth \/ d < 1 THEN 0 ELSE d, wellFormed |-> fits]
    BY DEF ConvertEvent
  <2> HIDE DEF type, line, e, w, d, fits
  <2> QED
    BY <1>1, <2>1
<1>5. /\ w = (IF type \in InstantTypes THEN 0 ELSE line.dwell)
      /\ d = (IF type = "BILLING_QUEUE_JOIN" /\ line.depth \in {NoDepth, 0} THEN 1 ELSE line.depth)
  BY DEF SentDwell, SentDepth
<1>6. fits <=> /\ type \in EventTypes /\ w >= 0 /\ (d = NoDepth \/ d >= 1) /\ line.inRange
  BY DEF FieldsInRange
<1>7. Acceptable(line) <=>
        /\ type \in EventTypes /\ line.inRange
        /\ type \in RequireZoneTypes => line.zone # NoZone
        /\ type \notin InstantTypes => line.dwell >= 0
        /\ \/ line.depth = NoDepth \/ line.depth >= 1
           \/ type = "BILLING_QUEUE_JOIN" /\ line.depth = 0
  BY DEF Acceptable
<1> HIDE DEF e, line, type, w, d, fits
<1>8. CASE ~fits
  <2>1. ~Valid(e)
    BY <1>4, <1>8 DEF Valid
  <2>2. ~Acceptable(line)
    BY <1>3, <1>5, <1>6, <1>7, <1>8
  <2> QED
    BY <2>1, <2>2 DEF e, line
<1>9. CASE fits
  <2>1. /\ e.wellFormed /\ e.type = type /\ e.dwell = w /\ type \in EventTypes
        /\ type = "BILLING_QUEUE_JOIN" => e.depth = d /\ d >= 1
    BY <1>3, <1>4, <1>5, <1>6, <1>9
  <2>2. DwellRule(e) /\ DepthRule(e)
    BY <1>5, <2>1 DEF DwellRule, DepthRule
  <2>3. ZoneRule(e) <=> (type \in RequireZoneTypes => line.zone # NoZone)
    BY <1>4, <2>1 DEF ZoneRule, NoZoneTypes, RequireZoneTypes
  <2>4. Valid(e) <=> ZoneRule(e)
    BY <2>1, <2>2 DEF Valid, FieldRules
  <2>5. Acceptable(line) <=> (type \in RequireZoneTypes => line.zone # NoZone)
    BY <1>3, <1>5, <1>6, <1>7, <1>9
  <2> QED
    BY <2>3, <2>4, <2>5 DEF e, line
<1> QED
  BY <1>8, <1>9

\* What has become of the valid events of a request: while they are inserted the
\* loop still has them or they are there; after that they are stored, unless the
\* request has failed.
Accounts(r) ==
    /\ pc[r] = "insert" =>
         \A i \in DOMAIN batch[r] :
           Valid(batch[r][i]) => i \in left[r] \/ batch[r][i] \in stored \cup NewEvents(r)
    /\ pc[r] \notin {"idle", "insert", "done"} \/ answer[r] \in Answer =>
         \A i \in DOMAIN batch[r] : Valid(batch[r][i]) => batch[r][i] \in stored

Accounted ==
    /\ \A r \in Requests : Accounts(r)
    /\ \A e \in stored : Valid(e)

\* Only valid events come into the table, and none leaves it.
LEMMA StoredGrows ==
    ASSUME ClientInv, \A e \in stored : Valid(e), [SendersNext]_sendersVars
    PROVE  stored \subseteq stored' /\ \A e \in stored' : Valid(e)
<1>1. TypeOK /\ Kept
  BY DEF ClientInv, ApiInv, ApiTypeOK
<1>2. ASSUME NEW r \in Requests, CommitEvents(r)
      PROVE  stored \subseteq stored' /\ \A e \in stored' : Valid(e)
  <2>1. stored' = stored \cup Pending(r)
    BY <1>2 DEF CommitEvents
  <2>2. \A e \in Pending(r) : Valid(e)
    BY <1>1 DEF Pending, NewEvents, EventsAt, Kept
  <2> QED
    BY <2>1, <2>2
<1>3. ASSUME NEW r \in Requests, Advance(r) \/ SkipPublish(r) \/ Abort(r), ~CommitEvents(r)
      PROVE  stored' = stored
  BY <1>3 DEF Advance, InsertEvent, UpdateSession, CommitSessions, LookAtQueue, RedisCommand,
     PipelineDone, ReadVisitors, ReadField, ReadDepth, ReadConversions, ReadTs, Publish, Respond,
     SkipPublish, Abort
<1>4. /\ \A r, b : Receive(r, b) => stored' = stored
      /\ UNCHANGED ingestionVars \/ UNCHANGED apiVars => stored' = stored
  BY DEF Receive, ingestionVars, apiVars, vars
<1> QED
  BY <1>2, <1>3, <1>4, ClientKinds

\* A request that goes on.
LEMMA AccountsMoves ==
    ASSUME TypeOK, Kept, Answering, NEW r \in Requests, Accounts(r), stored \subseteq stored',
           Advance(r) \/ SkipPublish(r) \/ Abort(r)
    PROVE  Accounts(r)'
<1>1. /\ pc \in [Requests -> PCs]
      /\ new \in [Requests -> SUBSET Nat] /\ left \in [Requests -> SUBSET Nat]
      /\ answer \in [Requests -> Answer \cup {NoAnswer, ServerError}]
      /\ ServerError \notin Answer /\ NoAnswer \notin Answer
      /\ pc[r] = "done" <=> answer[r] # NoAnswer
  BY IngestionAssumption DEF TypeOK, RequestsTypeOK, Answering
<1>2. batch' = batch
  BY BatchKept
<1> USE DEF Goto
<1>3. CASE InsertEvent(r)
  <2>1. pc[r] = "insert" /\ pc' = pc /\ stored' = stored /\ answer' = answer
    BY <1>3 DEF InsertEvent
  <2>2. PICK i \in left[r] :
          /\ new' = [new EXCEPT ![r] =
                       IF batch[r][i] \in stored \cup Pending(r) THEN @ ELSE @ \cup {i}]
          /\ left' = [left EXCEPT ![r] = @ \ {i}]
    BY <1>3 DEF InsertEvent
  <2>3. /\ left'[r] = left[r] \ {i} /\ new[r] \subseteq new'[r]
        /\ batch[r][i] \in stored \cup Pending(r) \/ i \in new'[r]
    BY <1>1, <2>2
  <2>4. Pending(r) = NewEvents(r)
    BY <2>1 DEF Pending
  <2>5. NewEvents(r) \subseteq NewEvents(r)' /\ (i \in new'[r] => batch[r][i] \in NewEvents(r)')
    BY <1>2, <2>3 DEF NewEvents, EventsAt
  <2>6. batch[r][i] \in stored \cup NewEvents(r)'
    BY <2>3, <2>4, <2>5
  <2>7. ASSUME NEW j \in DOMAIN batch[r], Valid(batch[r][j])
        PROVE  j \in left'[r] \/ batch[r][j] \in stored \cup NewEvents(r)'
    <3>1. j \in left[r] \/ batch[r][j] \in stored \cup NewEvents(r)
      BY <2>1, <2>7 DEF Accounts
    <3> QED
      BY <2>3, <2>5, <2>6, <3>1
  <2>8. answer'[r] = NoAnswer
    BY <1>1, <2>1
  <2> QED
    BY <1>1, <1>2, <2>1, <2>7, <2>8 DEF Accounts
<1>4. CASE CommitEvents(r)
  <2>1. /\ pc[r] = "insert" /\ left[r] = {} /\ pc'[r] = "sessions"
        /\ stored' = stored \cup NewEvents(r)
    BY <1>1, <1>4 DEF CommitEvents, Pending
  <2>2. \A i \in DOMAIN batch[r] : Valid(batch[r][i]) => batch[r][i] \in stored'
    BY <2>1 DEF Accounts
  <2> QED
    BY <1>2, <2>1, <2>2 DEF Accounts
<1>5. CASE Abort(r)
  BY <1>1, <1>5 DEF Abort, Accounts
<1>6. CASE ~InsertEvent(r) /\ ~CommitEvents(r) /\ ~Abort(r)
  <2>1. pc[r] \notin {"idle", "insert", "done"} /\ pc'[r] # "insert"
    <3>1. CASE UpdateSession(r) \/ CommitSessions(r) \/ LookAtQueue(r) \/ RedisCommand(r)
               \/ PipelineDone(r)
      BY <1>1, <3>1 DEF UpdateSession, CommitSessions, LookAtQueue, RedisCommand, PipelineDone
    <3>2. CASE \/ \E s \in Stores : ReadVisitors(r, s)
               \/ ReadDepth(r) \/ ReadConversions(r) \/ ReadTs(r) \/ Publish(r) \/ Respond(r)
               \/ SkipPublish(r)
      BY <1>1, <3>2 DEF ReadVisitors, ReadField, ReadDepth, ReadConversions, ReadTs, Publish, Respond,
         SkipPublish
    <3> QED
      BY <1>6, <3>1, <3>2 DEF Advance
  <2>2. \A i \in DOMAIN batch[r] : Valid(batch[r][i]) => batch[r][i] \in stored'
    BY <2>1 DEF Accounts
  <2> QED
    BY <1>2, <2>1, <2>2 DEF Accounts
<1> QED
  BY <1>3, <1>4, <1>5, <1>6

LEMMA AccountedStep ==
    ASSUME ClientInv, Answering, Accounted, [SendersNext]_sendersVars
    PROVE  Accounted'
<1>1. TypeOK /\ Kept
  BY DEF ClientInv, ApiInv, ApiTypeOK
<1>2. stored \subseteq stored' /\ \A e \in stored' : Valid(e)
  BY StoredGrows DEF Accounted
<1> SUFFICES ASSUME NEW q \in Requests PROVE Accounts(q)'
  BY <1>2 DEF Accounted
<1>3. Accounts(q)
  BY DEF Accounted
<1>4. CASE pc'[q] = pc[q] /\ answer'[q] = answer[q] /\ batch'[q] = batch[q]
           /\ new'[q] = new[q] /\ left'[q] = left[q]
  BY <1>2, <1>3, <1>4 DEF Accounts, NewEvents, EventsAt
<1>5. ASSUME NEW r \in Requests, NEW b \in Batches, Receive(r, b) PROVE Accounts(q)'
  <2>1. CASE q # r
    BY <1>1, <1>4, <1>5, <2>1 DEF Receive, Goto, TypeOK, RequestsTypeOK
  <2>2. CASE q = r
    <3>1. /\ pc[r] = "idle" /\ pc'[r] = "insert" /\ batch'[r] = b
          /\ left'[r] = {i \in DOMAIN b : Valid(b[i])} /\ answer'[r] = answer[r]
      BY <1>1, <1>5 DEF Receive, Goto, TypeOK, RequestsTypeOK
    <3>2. answer'[r] = NoAnswer /\ NoAnswer \notin Answer
      BY <3>1, IngestionAssumption DEF Answering
    <3> QED
      BY <2>2, <3>1, <3>2 DEF Accounts
  <2> QED
    BY <2>1, <2>2
<1>6. ASSUME NEW r \in Requests, Advance(r) \/ SkipPublish(r) \/ Abort(r) PROVE Accounts(q)'
  <2>1. CASE q # r
    BY <1>1, <1>4, <1>6, <2>1, RequestMoves, BatchKept
  <2>2. CASE q = r
    BY <1>1, <1>2, <1>3, <1>6, <2>2, AccountsMoves
  <2> QED
    BY <2>1, <2>2
<1>7. UNCHANGED ingestionVars \/ UNCHANGED apiVars => UNCHANGED requestVars
  BY DEF ingestionVars, apiVars, vars
<1>8. UNCHANGED requestVars => Accounts(q)'
  BY <1>4 DEF requestVars
<1> QED
  BY <1>5, <1>6, <1>7, <1>8, ClientKinds

\* The first k slices of what p has converted have got their valid events stored.
Covers(p, k) ==
    \A i \in DOMAIN converted[p] :
        i <= k * ReplaySlice /\ Valid(converted[p][i]) => converted[p][i] \in stored

\* The last request of p has the slice that it was made for.
CarriesSlice(p) ==
    LET b == batch[<<p, posts[p]>>] IN
    \A i \in DOMAIN converted[p] :
        i > (posts[p] - 1) * ReplaySlice /\ i <= posts[p] * ReplaySlice =>
            \E j \in DOMAIN b : b[j] = converted[p][i]

\* A request is used by nobody before it is made.
Replaying(p) ==
    /\ sender[p] = "off" => posts[p] = 0
    /\ \A k \in 1..MaxPosts : k > posts[p] => pc[<<p, k>>] = "idle"
    /\ sender[p] \in {"ready", "done"} => Covers(p, posts[p])
    /\ sender[p] = "waiting" =>
         Covers(p, posts[p] - 1) /\ (pc[<<p, posts[p]>>] # "idle" => CarriesSlice(p))
    /\ sender[p] = "done" => \A i \in DOMAIN converted[p] : i <= posts[p] * ReplaySlice

Replayed == \A p \in Replays : Replaying(p)

\* What others do does not matter to a replay.
LEMMA ReplayFrame ==
    ASSUME SendersTyped, NEW p \in Replays, Replaying(p), stored \subseteq stored',
           sender'[p] = sender[p], posts'[p] = posts[p], converted'[p] = converted[p],
           \A k \in 1..MaxPosts : pc[<<p, k>>] = "idle" => pc'[<<p, k>>] = "idle",
           \A k \in 1..MaxPosts : pc[<<p, k>>] # "idle" => batch'[<<p, k>>] = batch[<<p, k>>]
    PROVE  Replaying(p)'
<1>1. sender[p] = "waiting" => posts[p] \in 1..MaxPosts
  BY SendersAssumption DEF SendersTyped, Waits
<1>2. \A k : Covers(p, k) => Covers(p, k)'
  BY DEF Covers
<1>3. sender[p] \in {"ready", "done"} => Covers(p, posts[p])'
  BY <1>2 DEF Replaying
<1>4. sender[p] = "waiting" => Covers(p, posts[p] - 1)'
  BY <1>2 DEF Replaying
<1>5. sender[p] = "waiting" /\ pc'[<<p, posts[p]>>] # "idle" => CarriesSlice(p)'
  <2> SUFFICES ASSUME sender[p] = "waiting", pc'[<<p, posts[p]>>] # "idle" PROVE CarriesSlice(p)'
    OBVIOUS
  <2>1. pc[<<p, posts[p]>>] # "idle" /\ batch'[<<p, posts[p]>>] = batch[<<p, posts[p]>>]
    BY <1>1
  <2>2. CarriesSlice(p)
    BY <2>1 DEF Replaying
  <2> QED
    BY <2>1, <2>2 DEF CarriesSlice
<1> QED
  BY <1>3, <1>4, <1>5 DEF Replaying

\* The API goes on.
LEMMA ServedFrame ==
    ASSUME ClientInv, NEW p \in Replays, NEW r \in Requests, Advance(r) \/ SkipPublish(r) \/ Abort(r)
    PROVE  /\ \A k \in 1..MaxPosts : pc[<<p, k>>] = "idle" => pc'[<<p, k>>] = "idle"
           /\ \A k \in 1..MaxPosts : batch'[<<p, k>>] = batch[<<p, k>>]
<1>1. TypeOK /\ Kept
  BY DEF ClientInv, ApiInv, ApiTypeOK
<1>2. \A k \in 1..MaxPosts : <<p, k>> \in Requests
  BY SendersAssumption
<1>3. pc[r] # "idle" /\ \A q \in Requests \ {r} : pc'[q] = pc[q]
  BY <1>1, RequestMoves
<1> QED
  BY <1>2, <1>3, BatchKept

\* Somebody posts: the request, unless it is lost, was not in use.
LEMMA PostFrame ==
    ASSUME ClientInv, NEW q \in Sims \cup Replays, NEW b \in Batches, Post(q, b),
           posts[q] < MaxPosts
    PROVE  /\ stored' = stored /\ <<q, posts[q] + 1>> \in Requests
           /\ posts'[q] = posts[q] + 1 /\ \A o \in Sims \cup Replays : o # q => posts'[o] = posts[o]
           /\ \A r \in Requests : r # <<q, posts[q] + 1>> => pc'[r] = pc[r] /\ batch'[r] = batch[r]
           /\ pc'[<<q, posts[q] + 1>>] # pc[<<q, posts[q] + 1>>] => batch'[<<q, posts[q] + 1>>] = b
<1>1. /\ pc \in [Requests -> PCs] /\ batch \in [Requests -> Seq(Events)]
      /\ posts \in [Sims \cup Replays -> 0..MaxPosts] /\ MaxPosts \in Nat
  BY SendersAssumption DEF ClientInv, SendersTyped, ApiInv, ApiTypeOK, TypeOK, RequestsTypeOK
<1>2. <<q, posts[q] + 1>> \in Requests
  BY <1>1, SendersAssumption
<1> DEFINE r == <<q, posts[q] + 1>>
<1>3. posts' = [posts EXCEPT ![q] = @ + 1] /\ (Receive(r, b) \/ UNCHANGED vars)
  BY DEF Post
<1> HIDE DEF r
<1>4. CASE Receive(r, b)
  BY <1>1, <1>2, <1>3, <1>4 DEF Receive, Goto, r
<1>5. CASE UNCHANGED vars
  BY <1>1, <1>2, <1>3, <1>5 DEF vars, requestVars, r
<1> QED
  BY <1>3, <1>4, <1>5

\* Steps of a replay itself.
LEMMA SliceReplayed ==
    ASSUME ClientInv, NEW p \in Replays, Replaying(p), IngestSlice(p)
    PROVE  Replaying(p)'
<1> DEFINE k == posts[p]
           b == FirstOf(Unsent(p))
           r == <<p, k + 1>>
<1>1. /\ SendersTyped /\ Unsent(p) # << >> /\ Post(p, b) /\ p \in Sims \cup Replays
      /\ sender \in [Sims \cup Replays -> SenderStates]
      /\ sender[p] = "ready" /\ sender'[p] = "waiting" /\ converted' = converted
  BY DEF ClientInv, SendersTyped, IngestSlice, SenderGoto
<1>2. /\ k < MaxPosts /\ r \in Requests /\ b \in Batches
      /\ \A j \in DOMAIN converted[p] :
           j > k * ReplaySlice /\ j <= (k + 1) * ReplaySlice =>
             \E i \in DOMAIN b : b[i] = converted[p][j]
  BY <1>1, SliceRequest
<1>3. k \in Nat /\ MaxPosts \in Nat
  BY <1>1, SendersAssumption DEF SendersTyped
<1> HIDE DEF b
<1>4. /\ stored' = stored /\ posts'[p] = k + 1
      /\ \A q \in Requests : q # r => pc'[q] = pc[q] /\ batch'[q] = batch[q]
      /\ pc'[r] # pc[r] => batch'[r] = b
  BY <1>1, <1>2, PostFrame
<1>5. pc[r] = "idle" /\ Covers(p, k)
  BY <1>1, <1>2, <1>3 DEF Replaying
<1>6. posts'[p] - 1 = k
  BY <1>3, <1>4
<1>7. \A m : Covers(p, m) => Covers(p, m)'
  BY <1>1, <1>4 DEF Covers
<1>8. \A m \in 1..MaxPosts : m > posts'[p] => pc'[<<p, m>>] = "idle"
  <2> SUFFICES ASSUME NEW m \in 1..MaxPosts, m > posts'[p] PROVE pc'[<<p, m>>] = "idle"
    OBVIOUS
  <2>1. m > k /\ m # k + 1
    BY <1>3, <1>4
  <2>2. <<p, m>> \in Requests /\ <<p, m>> # r
    BY <2>1, SendersAssumption
  <2> QED
    BY <1>4, <2>1, <2>2 DEF Replaying
<1>9. pc'[<<p, posts'[p]>>] # "idle" => CarriesSlice(p)'
  <2> SUFFICES ASSUME pc'[<<p, posts'[p]>>] # "idle" PROVE CarriesSlice(p)'
    OBVIOUS
  <2>1. batch'[<<p, posts'[p]>>] = b
    BY <1>4, <1>5
  <2>2. \A j \in DOMAIN converted'[p] :
          j > (posts'[p] - 1) * ReplaySlice /\ j <= posts'[p] * ReplaySlice =>
            \E i \in DOMAIN b : b[i] = converted'[p][j]
    BY <1>1, <1>2, <1>4, <1>6
  <2> QED
    BY <2>1, <2>2 DEF CarriesSlice
<1>10. Covers(p, posts[p] - 1)'
  <2>1. Covers(p, posts'[p] - 1)
    BY <1>5, <1>6
  <2> QED
    BY <1>7, <2>1
<1> QED
  BY <1>1, <1>8, <1>9, <1>10 DEF Replaying

LEMMA AnswerReplayed ==
    ASSUME ClientInv, Answering, Accounted, NEW p \in Replays, Replaying(p), IngestAnswered(p)
    PROVE  Replaying(p)'
<1> DEFINE k == posts[p]
           r == <<p, k>>
           to == IF Reply(p) = ServerError THEN "raised" ELSE "ready"
<1>1. /\ SendersTyped /\ ApiInv /\ p \in Sims \cup Replays
      /\ sender \in [Sims \cup Replays -> SenderStates]
      /\ sender[p] = "waiting" /\ sender'[p] = to /\ pc[r] = "done"
      /\ UNCHANGED <<posts, converted, apiVars>>
  BY DEF ClientInv, SendersTyped, IngestAnswered, SenderGoto, Replied
<1>2. UNCHANGED <<stored, pc, batch>>
  BY <1>1 DEF apiVars, vars, requestVars
<1>3. k \in 1..MaxPosts /\ r \in Requests
  BY <1>1, WaitsForRequest
<1>4. ASSUME Reply(p) # ServerError PROVE Covers(p, k)
  <2>1. answer[r] \in Answer
    BY <1>1, <1>3, <1>4 DEF Reply, Answering, ApiInv, ApiTypeOK, TypeOK, RequestsTypeOK
  <2>2. \A j \in DOMAIN batch[r] : Valid(batch[r][j]) => batch[r][j] \in stored
    BY <1>3, <2>1 DEF Accounted, Accounts
  <2>3. Covers(p, k - 1) /\ CarriesSlice(p)
    BY <1>1 DEF Replaying
  <2>4. ASSUME NEW i \in DOMAIN converted[p], i <= k * ReplaySlice, Valid(converted[p][i])
        PROVE  converted[p][i] \in stored
    <3>1. CASE i <= (k - 1) * ReplaySlice
      BY <2>3, <2>4, <3>1 DEF Covers
    <3>2. CASE ~(i <= (k - 1) * ReplaySlice)
      <4>1. i \in Nat /\ (k - 1) * ReplaySlice \in Int
        <5>1. converted[p] \in Seq(Events) /\ ReplaySlice \in Nat
          BY <1>1, SendersAssumption DEF SendersTyped
        <5> QED
          BY <1>3, <5>1
      <4>2. i > (k - 1) * ReplaySlice
        BY <3>2, <4>1
      <4>3. PICK j \in DOMAIN batch[r] : batch[r][j] = converted[p][i]
        BY <2>3, <2>4, <4>2 DEF CarriesSlice
      <4> QED
        BY <2>2, <2>4, <4>3
    <3> QED
      BY <3>1, <3>2
  <2> QED
    BY <2>4 DEF Covers
<1>5. \A m \in 1..MaxPosts : m > posts'[p] => pc'[<<p, m>>] = "idle"
  BY <1>1, <1>2 DEF Replaying
<1>6. sender'[p] = "ready" => Covers(p, posts[p])'
  <2> SUFFICES ASSUME sender'[p] = "ready" PROVE Covers(p, k)'
    BY <1>1 DEF Covers
  <2>1. Reply(p) # ServerError
    BY <1>1
  <2> QED
    BY <1>1, <1>2, <1>4, <2>1 DEF Covers
<1>7. sender'[p] \in {"raised", "ready"}
  BY <1>1
<1> QED
  BY <1>5, <1>6, <1>7 DEF Replaying

LEMMA ReplayMoves ==
    ASSUME ClientInv, NEW p \in Replays, Replaying(p),
           \/ \E n \in DOMAIN Samples : ConvertFile(p, n)
           \/ IngestUnanswered(p) \/ ReplayEnds(p)
    PROVE  Replaying(p)'
<1>1. /\ SendersTyped /\ p \in Sims \cup Replays
      /\ sender \in [Sims \cup Replays -> SenderStates]
      /\ converted \in [Replays -> Seq(Events)] /\ posts[p] \in Nat /\ ReplaySlice \in Nat
  BY SendersAssumption DEF ClientInv, SendersTyped
<1>2. UNCHANGED <<posts, pc, stored>>
  BY DEF ConvertFile, IngestUnanswered, ReplayEnds, apiVars, vars, requestVars
<1>3. \A m \in 1..MaxPosts : m > posts'[p] => pc'[<<p, m>>] = "idle"
  BY <1>2 DEF Replaying
<1>4. ASSUME NEW n \in DOMAIN Samples, ConvertFile(p, n) PROVE Replaying(p)'
  <2> DEFINE parses == \A i \in DOMAIN Samples[n] : Samples[n][i].parses
             to == IF parses THEN "ready" ELSE "raised"
             b == IF parses THEN Conversion(p, n, 1) ELSE << >>
  <2>1. /\ sender[p] = "off" /\ sender'[p] = to /\ converted'[p] = b
    BY <1>1, <1>4 DEF ConvertFile, SenderGoto, SendersTyped
  <2>2. to \in {"ready", "raised"} /\ b \in Seq(Events)
    BY PostsAssumption
  <2> HIDE DEF to, b
  <2>3. posts[p] = 0 /\ 0 * ReplaySlice = 0 /\ \A i \in DOMAIN b : ~(i <= 0)
    BY <1>1, <2>1, <2>2 DEF Replaying
  <2>4. Covers(p, posts[p])'
    BY <1>2, <2>1, <2>3 DEF Covers
  <2> QED
    BY <1>3, <2>1, <2>2, <2>4 DEF Replaying
<1>5. CASE IngestUnanswered(p)
  <2>1. sender'[p] = "raised"
    BY <1>1, <1>5 DEF IngestUnanswered, SenderGoto
  <2> QED
    BY <1>3, <2>1 DEF Replaying
<1>6. CASE ReplayEnds(p)
  <2>1. /\ sender[p] = "ready" /\ sender'[p] = "done" /\ converted' = converted
        /\ Unsent(p) = << >>
    BY <1>1, <1>6 DEF ReplayEnds, SenderGoto
  <2>2. Covers(p, posts[p])'
    BY <1>2, <2>1 DEF Replaying, Covers
  <2> DEFINE b == converted[p]
             from == posts[p] * ReplaySlice
  <2>3. b \in Seq(Events) /\ from \in Nat /\ Unsent(p) = SubSeq(b, from + 1, Len(b))
    BY <1>1 DEF Unsent, After
  <2> HIDE DEF b, from
  <2>4. Len(b) <= from
    <3> DEFINE m == Len(b)
    <3>1. m \in Nat /\ Len(SubSeq(b, from + 1, m)) = 0
      <4>1. SubSeq(b, from + 1, m) = << >> /\ Len(<< >>) = 0
        BY <2>1, <2>3
      <4>2. m \in Nat
        BY <2>3
      <4> HIDE DEF m
      <4> QED
        BY <4>1, <4>2
    <3> HIDE DEF m
    <3>2. from < m => Len(SubSeq(b, from + 1, m)) = m - from
      BY <2>3, <3>1
    <3>3. m <= from
      BY <2>3, <3>1, <3>2
    <3> QED
      BY <3>3 DEF m
  <2>5. \A i \in DOMAIN b : i <= from
    BY <2>3, <2>4
  <2>6. \A i \in DOMAIN converted'[p] : i <= posts'[p] * ReplaySlice
    BY <1>2, <2>1, <2>5 DEF b, from
  <2> QED
    BY <1>3, <2>1, <2>2, <2>6 DEF Replaying
<1> QED
  BY <1>4, <1>5, <1>6

LEMMA ReplayedStep ==
    ASSUME ClientInv, Answering, Accounted, Replayed, [SendersNext]_sendersVars
    PROVE  Replayed'
<1> SUFFICES ASSUME NEW p \in Replays PROVE Replaying(p)'
  BY DEF Replayed
<1>1. /\ Replaying(p) /\ SendersTyped /\ LoadersTyped /\ stored \subseteq stored'
      /\ \A k \in 1..MaxPosts : <<p, k>> \in Requests
  BY StoredGrows, SendersAssumption DEF Replayed, Accounted, ClientInv
<1>2. /\ sender \in [Sims \cup Replays -> SenderStates] /\ converted \in [Replays -> Seq(Events)]
      /\ posts \in [Sims \cup Replays -> 0..MaxPosts] /\ p \notin Sims
  BY <1>1, SendersAssumption DEF SendersTyped
\* The API goes on, or a loader calls it.
<1>3. CASE UNCHANGED senderVars
  <2>1. sender'[p] = sender[p] /\ posts'[p] = posts[p] /\ converted'[p] = converted[p]
    BY <1>3 DEF senderVars
  <2>2. CASE UNCHANGED <<pc, batch>>
    BY <1>1, <2>1, <2>2, ReplayFrame
  <2>3. ASSUME NEW r \in Requests, Advance(r) \/ SkipPublish(r) \/ Abort(r) PROVE Replaying(p)'
    <3>1. /\ \A k \in 1..MaxPosts : pc[<<p, k>>] = "idle" => pc'[<<p, k>>] = "idle"
          /\ \A k \in 1..MaxPosts : batch'[<<p, k>>] = batch[<<p, k>>]
      BY <2>3, ServedFrame
    <3> QED
      BY <1>1, <2>1, <3>1, ReplayFrame
  <2>4. \/ \E r \in Requests : Advance(r) \/ SkipPublish(r) \/ Abort(r)
        \/ UNCHANGED <<pc, batch>>
    <3>1. UNCHANGED ingestionVars \/ UNCHANGED apiVars => UNCHANGED <<pc, batch>>
      BY DEF ingestionVars, apiVars, vars, requestVars
    <3>2. CASE Serves
      BY <3>1, <3>2, ServesDrive
    <3>3. CASE \E l \in Loaders : LoaderStep(l)
      BY <1>1, <3>1, <3>3, LoaderDrives
    <3>4. CASE SenderStep
      <4>1. \A q \in Sims \cup Replays : ~SenderGoto(q, "ready", "waiting")
        BY <1>2, <1>3 DEF SenderGoto, senderVars
      <4>2. UNCHANGED apiVars
        BY <3>4, <4>1 DEF SenderStep, SimStarts, Arrival, SimAnswered, SimUnanswered, Round,
           NobodyArrives, SimEnds, ConvertFile, IngestSlice, IngestAnswered, IngestUnanswered,
           ReplayEnds
      <4> QED
        BY <3>1, <4>2
    <3> QED
      BY <3>1, <3>2, <3>3, <3>4 DEF SendersNext, AtRest, sendersVars
  <2> QED
    BY <2>2, <2>3, <2>4
\* Another sender posts.
<1>4. ASSUME NEW q \in Sims \cup Replays, q # p, NEW b \in Batches, Post(q, b), posts[q] < MaxPosts,
             sender'[p] = sender[p], converted'[p] = converted[p]
      PROVE  Replaying(p)'
  <2>1. /\ posts'[p] = posts[p]
        /\ \A r \in Requests : r # <<q, posts[q] + 1>> => pc'[r] = pc[r] /\ batch'[r] = batch[r]
    BY <1>4, PostFrame
  <2>2. \A k \in 1..MaxPosts : pc'[<<p, k>>] = pc[<<p, k>>] /\ batch'[<<p, k>>] = batch[<<p, k>>]
    BY <1>1, <1>4, <2>1
  <2> QED
    BY <1>1, <1>4, <2>1, <2>2, ReplayFrame
\* Another sender does something else.
<1>5. ASSUME UNCHANGED <<pc, batch>>, posts'[p] = posts[p], sender'[p] = sender[p],
             converted'[p] = converted[p]
      PROVE  Replaying(p)'
  BY <1>1, <1>5, ReplayFrame
<1>6. ASSUME NEW s \in Sims, Arrival(s) PROVE Replaying(p)'
  <2>1. PICK v \in Drawable : \E journey \in Journeys(s, v) : Post(s, journey)
    BY <1>6 DEF Arrival
  <2>2. PICK journey \in Journeys(s, v) : Post(s, journey)
    BY <2>1
  <2>3. journey \in Batches /\ posts[s] < MaxPosts
    BY <1>1, <1>6, PostsAssumption, ArrivalRequest
  <2>4. sender'[p] = sender[p] /\ converted'[p] = converted[p]
    BY <1>2, <1>6 DEF Arrival, SenderGoto
  <2> QED
    BY <1>2, <1>4, <2>2, <2>3, <2>4
<1>7. ASSUME NEW s \in Sims, SimStarts(s) \/ SimAnswered(s) \/ SimUnanswered(s) \/ NobodyArrives(s)
                             \/ SimEnds(s)
      PROVE  Replaying(p)'
  <2>1. UNCHANGED <<pc, batch, posts, converted>> /\ sender'[p] = sender[p]
    BY <1>2, <1>7 DEF SimStarts, SimAnswered, SimUnanswered, Round, NobodyArrives, SimEnds, SenderGoto,
       apiVars, vars, requestVars
  <2> QED
    BY <1>5, <2>1
<1>8. ASSUME NEW q \in Replays \ {p}, IngestSlice(q) PROVE Replaying(p)'
  <2>1. Unsent(q) # << >> /\ Post(q, FirstOf(Unsent(q)))
    BY <1>8 DEF IngestSlice
  <2>2. FirstOf(Unsent(q)) \in Batches /\ posts[q] < MaxPosts
    BY <1>1, <2>1, SliceRequest
  <2>3. sender'[p] = sender[p] /\ converted'[p] = converted[p]
    BY <1>2, <1>8 DEF IngestSlice, SenderGoto
  <2> QED
    BY <1>4, <2>1, <2>2, <2>3
<1>9. ASSUME NEW q \in Replays \ {p},
             \/ \E n \in DOMAIN Samples : ConvertFile(q, n)
             \/ IngestAnswered(q) \/ IngestUnanswered(q) \/ ReplayEnds(q)
      PROVE  Replaying(p)'
  <2>1. UNCHANGED <<pc, batch, posts>> /\ sender'[p] = sender[p] /\ converted'[p] = converted[p]
    BY <1>2, <1>9 DEF ConvertFile, IngestAnswered, IngestUnanswered, ReplayEnds, SenderGoto,
       apiVars, vars, requestVars
  <2> QED
    BY <1>5, <2>1
\* The replay goes on.
<1>10. CASE \/ \E n \in DOMAIN Samples : ConvertFile(p, n)
            \/ IngestSlice(p) \/ IngestAnswered(p) \/ IngestUnanswered(p) \/ ReplayEnds(p)
  BY <1>1, <1>10, SliceReplayed, AnswerReplayed, ReplayMoves
<1>11. CASE SenderStep
  BY <1>6, <1>7, <1>8, <1>9, <1>10, <1>11 DEF SenderStep
<1> QED
  BY <1>3, <1>11 DEF SendersNext, AtRest, sendersVars

ReplaysInv == Answering /\ Accounted /\ Replayed

LEMMA ReplaysInvariant == SendersSpec => [](ClientInv /\ ReplaysInv)
<1>1. SendersInit => ReplaysInv
  <2> SUFFICES ASSUME SendersInit PROVE ReplaysInv
    OBVIOUS
  <2> USE DEF SendersInit, ApiInit, Init, RequestsInit
  <2>1. Answering
    BY NoRowAssumption DEF Answering
  <2>2. Accounted
    BY IngestionAssumption DEF Accounted, Accounts
  <2>3. Replayed
    BY SendersAssumption DEF Replayed, Replaying
  <2> QED
    BY <2>1, <2>2, <2>3 DEF ReplaysInv
<1>2. ClientInv /\ ReplaysInv /\ [SendersNext]_sendersVars => ReplaysInv'
  BY AnsweringStep, AccountedStep, ReplayedStep DEF ReplaysInv
<1> QED
  BY <1>1, <1>2, ClientInvariant, PTL DEF SendersSpec, sendersVars

\* A replay that ends without an error has got exactly the lines stored that the
\* API takes, though it looks at nothing but the status of the answers: whatever
\* other clients store, whatever fails or is given up meanwhile.
THEOREM ReplaysHonest == SendersSpec => []ReplayHonest
<1>1. ClientInv /\ ReplaysInv => ReplayHonest
  <2> SUFFICES ASSUME ClientInv, ReplaysInv, NEW p \in Replays, sender[p] = "done",
                      NEW i \in DOMAIN converted[p]
               PROVE  converted[p][i] \in stored <=> Acceptable(Samples[log[p]][i])
    BY DEF ReplayHonest
  <2>1. converted[p] = Conversion(p, log[p], 1) /\ log[p] \in DOMAIN Samples
    BY DEF ClientInv, SendersTyped
  <2>2. i \in DOMAIN Samples[log[p]]
    BY <2>1 DEF Conversion
  <2>3. Valid(converted[p][i]) <=> Acceptable(Samples[log[p]][i])
    BY <2>1, <2>2, LineAccepted
  <2>4. Covers(p, posts[p]) /\ i <= posts[p] * ReplaySlice
    BY DEF ReplaysInv, Replayed, Replaying
  <2>5. Valid(converted[p][i]) => converted[p][i] \in stored
    BY <2>4 DEF Covers
  <2>6. converted[p][i] \in stored => Valid(converted[p][i])
    BY DEF ReplaysInv, Accounted
  <2> QED
    BY <2>3, <2>5, <2>6
<1> QED
  BY <1>1, ReplaysInvariant, PTL

=============================================================================
