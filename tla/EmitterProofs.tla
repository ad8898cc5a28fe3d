---------------------------- MODULE EmitterProofs ----------------------------
(***************************************************************************)
(* Theorems about Emitter for every flush interval, batch limit and number *)
(* of events: first its types, then the order in which events are posted,  *)
(* then what becomes of the batches, each with the help of what is before. *)
(***************************************************************************)
EXTENDS Emitter, SequenceTheorems, TLAPS

-----------------------------------------------------------------------------
\* Types.

\* Besides the types, every request on its way is one of those that were sent, and
\* nothing is queued while one is awaited.
Numbered ==
    /\ \A q \in wire : q.no \in 1..sent
    /\ loop = "await" => buffer = << >>

Types == EmitterTypeOK /\ Numbered

LEMMA TypesInit == Init => Types
<1> SUFFICES ASSUME Init PROVE Types
  OBVIOUS
<1>1. buffer \in Seq(Nat) /\ posted \in Seq(Nat) /\ stored \in Seq(1..sent)
  BY DEF Init
<1>2. cancelled \in BOOLEAN
  BY DEF Init
<1>3. queued \in Nat /\ elapsed \in 0..FlushEvery /\ sent \in Nat
  BY EmitterAssumption DEF Init
<1>4. wire \subseteq Request /\ Numbered
  BY DEF Init, Numbered
<1>5. /\ loop = "frame" /\ then = "frame" /\ reply = NoReply
      /\ refused = {} /\ logged = {} /\ abandoned = {}
  BY DEF Init
<1> QED
  BY <1>1, <1>2, <1>3, <1>4, <1>5 DEF Types, EmitterTypeOK

LEMMA SeqOfMore ==
    ASSUME NEW m \in Nat, NEW n \in Nat, m <= n, NEW s \in Seq(1..m)
    PROVE  s \in Seq(1..n)
<1>1. \A i \in 1..Len(s) : s[i] \in 1..n
  BY ElementOfSeq
<1>2. Len(s) \in Nat /\ s \in [1..Len(s) -> 1..n]
  BY <1>1, LenProperties
<1> QED
  BY <1>2, SeqDef

\* A step that only moves the loop keeps the types.
LEMMA GotoKeepsTypes ==
    ASSUME Types, NEW to \in {"frame", "exit", "closed"}, Goto(to)
    PROVE  Types'
BY DEF Goto, history, Types, EmitterTypeOK, Numbered

\* A flush takes what is in the buffer; goOn is where the loop goes afterwards.
LEMMA FlushKeepsTypes ==
    ASSUME Types, NEW goOn \in {"frame", "exit", "closed"}, Flush(goOn)
    PROVE  Types'
<1>1. sent' \in Nat /\ sent' = sent + 1 /\ 1..sent \subseteq 1..sent'
  BY DEF Types, EmitterTypeOK, Numbered, Flush
<1>2. posted' \in Seq(Nat) /\ buffer' = << >> /\ buffer' \in Seq(Nat)
  BY ConcatProperties DEF Types, EmitterTypeOK, Numbered, Flush
<1>3. wire' \subseteq Request /\ \A q \in wire' : q.no \in 1..sent'
  BY <1>1 DEF Types, EmitterTypeOK, Numbered, Flush, Request
<1>4. stored' \in Seq(1..sent')
  <2>1. stored \in Seq(1..sent) /\ stored' = stored
    BY DEF Types, EmitterTypeOK, Numbered, Flush
  <2> QED
    BY <1>1, <2>1, SeqOfMore DEF Types, EmitterTypeOK, Numbered
<1>5. refused' \subseteq 1..sent' /\ logged' \subseteq 1..sent' /\ abandoned' \subseteq 1..sent'
  BY <1>1 DEF Types, EmitterTypeOK, Numbered, Flush
<1>6. /\ loop' = "await" /\ then' = goOn /\ queued' \in Nat /\ elapsed' \in 0..FlushEvery
      /\ reply' = NoReply /\ cancelled' \in BOOLEAN /\ sent' > 0
  BY <1>1, EmitterAssumption DEF Types, EmitterTypeOK, Numbered, Flush
<1>7. sent' \notin logged' \cup abandoned'
  BY <1>1 DEF Types, EmitterTypeOK, Flush
<1> QED
  BY <1>1, <1>2, <1>3, <1>4, <1>5, <1>6, <1>7 DEF Types, EmitterTypeOK, Numbered

LEMMA QueueKeepsTypes ==
    ASSUME Types, NEW n \in Nat, QueueEvents(n)
    PROVE  queued' \in Nat /\ buffer' \in Seq(Nat)
<1>1. [i \in 1..n |-> queued + i] \in Seq(Nat)
  BY DEF Types, EmitterTypeOK, Numbered
<1> QED
  BY <1>1, ConcatProperties DEF Types, EmitterTypeOK, Numbered, QueueEvents

LEMMA TypesStep == Types /\ [Next]_emitterVars => Types'
<1> SUFFICES ASSUME Types, [Next]_emitterVars
             PROVE  Types'
  OBVIOUS
<1>1. CASE Frame
  <2>1. PICK n \in 0..MaxPerFrame : QueueEvents(n)
    BY <1>1 DEF Frame
  <2>2. queued' \in Nat /\ buffer' \in Seq(Nat)
    BY <2>1, QueueKeepsTypes, EmitterAssumption
  <2>3. elapsed' \in 0..FlushEvery
    BY <1>1, EmitterAssumption DEF Frame, Types, EmitterTypeOK, Numbered
  <2> QED
    BY <1>1, <2>2, <2>3 DEF Frame, history, Types, EmitterTypeOK, Numbered
<1>2. CASE Tick
  BY <1>2, FlushKeepsTypes, GotoKeepsTypes DEF Tick
<1>3. CASE EndOfFootage
  <2>1. PICK n \in 0..MaxPerFrame : QueueEvents(n)
    BY <1>3 DEF EndOfFootage
  <2>2. queued' \in Nat /\ buffer' \in Seq(Nat)
    BY <2>1, QueueKeepsTypes, EmitterAssumption
  <2> QED
    BY <1>3, <2>2 DEF EndOfFootage, history, Types, EmitterTypeOK, Numbered
<1>4. CASE FlushAll
  BY <1>4, FlushKeepsTypes, GotoKeepsTypes DEF FlushAll
<1>5. CASE Exit
  BY <1>5, FlushKeepsTypes, GotoKeepsTypes DEF Exit
<1>6. CASE Raise
  BY <1>6, GotoKeepsTypes DEF Raise
<1>7. CASE Response
  <2>1. sent \in 1..sent /\ elapsed' \in 0..FlushEvery /\ loop' # "await"
    BY <1>7, EmitterAssumption DEF Response, Resume, Types, EmitterTypeOK, Numbered
  <2> QED
    BY <1>7, <2>1 DEF Response, Resume, Types, EmitterTypeOK, Numbered
<1>8. CASE GiveUp
  <2>1. sent \in 1..sent /\ elapsed' \in 0..FlushEvery /\ loop' # "await"
    BY <1>8, EmitterAssumption DEF GiveUp, Resume, Types, EmitterTypeOK, Numbered
  <2> QED
    <3>1. wire' \subseteq wire /\ logged' = logged \cup {sent}
      BY <1>8 DEF GiveUp, LeaveRequest
    <3> QED
      BY <1>8, <2>1, <3>1 DEF GiveUp, Resume, Types, EmitterTypeOK, Numbered
<1>9. CASE Cancel
  <2>1. loop' \in {"exit", "closed"} /\ cancelled' = TRUE
    BY <1>9 DEF Cancel
  <2>2. abandoned' \subseteq 1..sent
    <3>1. CASE loop = "frame"
      BY <1>9, <3>1 DEF Cancel, Types, EmitterTypeOK, Numbered
    <3>2. CASE loop = "await"
      <4>1. sent \in 1..sent
        BY <3>2 DEF Types, EmitterTypeOK, Numbered
      <4>2. abandoned' = abandoned \cup {sent}
        BY <1>9, <3>2 DEF Cancel
      <4>3. abandoned \subseteq 1..sent
        BY DEF Types, EmitterTypeOK, Numbered
      <4> QED
        BY <4>1, <4>2, <4>3
    <3> QED
      BY <1>9, <3>1, <3>2 DEF Cancel
  <2>3. wire' \subseteq wire
    BY <1>9 DEF Cancel, LeaveRequest
  <2>4. UNCHANGED <<then, queued, buffer, elapsed, sent, reply, posted, stored, refused,
                    logged>>
    BY <1>9 DEF Cancel
  <2>5. cancelled' \in BOOLEAN
    BY <2>1
  <2> QED
    BY <2>1, <2>2, <2>3, <2>4, <2>5 DEF Types, EmitterTypeOK, Numbered
<1>10. ASSUME NEW q \in wire, ApiStores(q) \/ ApiRefuses(q) \/ ApiFails(q)
       PROVE  Types'
  <2>1. q.no \in 1..sent /\ stored \in Seq(1..sent)
    BY DEF Types, EmitterTypeOK, Numbered
  <2>2. stored' \in Seq(1..sent)
    <3>1. Append(stored, q.no) \in Seq(1..sent)
      BY <2>1, AppendProperties
    <3> QED
      BY <1>10, <2>1, <3>1 DEF ApiStores, ApiRefuses, ApiFails
  <2>3. reply' \in {NoReply, 200, 500}
    BY <1>10 DEF ApiStores, ApiRefuses, ApiFails, Answered, Types, EmitterTypeOK, Numbered
  <2>4. /\ UNCHANGED <<loop, then, queued, buffer, elapsed, sent, cancelled, posted,
                        logged, abandoned>>
        /\ wire' = wire \ {q} /\ refused' \subseteq refused \cup {q.no}
    BY <1>10 DEF ApiStores, ApiRefuses, ApiFails
  <2> QED
    BY <2>1, <2>2, <2>3, <2>4 DEF Types, EmitterTypeOK, Numbered
<1>11. CASE Closed \/ UNCHANGED emitterVars
  <2>1. UNCHANGED emitterVars
    BY <1>11 DEF Closed
  <2> QED
    BY <2>1 DEF emitterVars, Types, EmitterTypeOK, Numbered
<1> QED
  BY <1>1, <1>2, <1>3, <1>4, <1>5, <1>6, <1>7, <1>8, <1>9, <1>10, <1>11 DEF Next, Proceed, Api

LEMMA TypesInvariant == Spec => []Types
<1>1. Init => Types
  BY TypesInit
<1>2. Types /\ [Next]_emitterVars => Types'
  BY TypesStep
<1> QED
  BY <1>1, <1>2, PTL DEF Spec

\* The emitter keeps its types, and a batch is not written off while it is awaited.
THEOREM EmitterTypeCorrect == Spec => []EmitterTypeOK
<1>1. Types => EmitterTypeOK
  BY DEF Types
<1> QED
  BY <1>1, TypesInvariant, PTL

-----------------------------------------------------------------------------
\* The order in which events are posted.

\* The numbers of the first n events.
Numbers(n) == [i \in 1..n |-> i]

LEMMA Grouping ==
    ASSUME NEW p \in Seq(Nat), NEW b \in Seq(Nat), NEW c \in Seq(Nat)
    PROVE  (p \o b) \o c = p \o (b \o c)
OBVIOUS

LEMMA NumbersType ==
    ASSUME NEW n \in Nat
    PROVE  Numbers(n) \in Seq(Nat) /\ Len(Numbers(n)) = n
BY DEF Numbers

LEMMA NumbersMore ==
    ASSUME NEW more \in Seq(Nat), NEW m \in Nat, NEW n \in Nat,
           Len(more) = n, \A i \in 1..n : more[i] = m + i
    PROVE  Numbers(m) \o more = Numbers(m + n)
<1> DEFINE first == Numbers(m)
           all == first \o more
<1>1. first \in Seq(Nat) /\ Len(first) = m /\ \A i \in 1..m : first[i] = i
  BY NumbersType DEF Numbers
<1> HIDE DEF first
<1>2. /\ all \in Seq(Nat) /\ Len(all) = m + n
      /\ \A i \in 1..(m + n) : all[i] = IF i <= m THEN first[i] ELSE more[i - m]
  BY <1>1, ConcatProperties
<1> HIDE DEF all
<1>3. ASSUME NEW i \in 1..(m + n)
      PROVE  all[i] = i
  <2>1. CASE i <= m
    <3>1. i \in 1..m /\ first[i] = i
      BY <1>1, <2>1
    <3> QED
      BY <1>2, <2>1, <3>1
  <2>2. CASE ~(i <= m)
    <3>1. i - m \in 1..n /\ more[i - m] = m + (i - m)
      BY <2>2
    <3>2. all[i] = more[i - m]
      BY <1>2, <2>2
    <3> QED
      BY <3>1, <3>2
  <2> QED
    BY <2>1, <2>2
<1>4. \A i \in 1..(m + n) : Numbers(m + n)[i] = i
  BY DEF Numbers
<1>5. all = Numbers(m + n)
  <2>1. Numbers(m + n) \in Seq(Nat) /\ Len(Numbers(m + n)) = m + n
    BY NumbersType
  <2> QED
    BY <1>2, <1>3, <1>4, <2>1, SeqEqual
<1> QED
  BY <1>5 DEF all, first

\* The events of a frame carry on where the last ones ended.
LEMMA FrameCarriesOn ==
    ASSUME NEW p \in Seq(Nat), NEW b \in Seq(Nat), NEW m \in Nat, NEW n \in Nat,
           p \o b = Numbers(m)
    PROVE  p \o (b \o [i \in 1..n |-> m + i]) = Numbers(m + n)
<1> DEFINE more == [i \in 1..n |-> m + i]
<1>1. more \in Seq(Nat) /\ Len(more) = n /\ \A i \in 1..n : more[i] = m + i
  OBVIOUS
<1> HIDE DEF more
<1>2. (p \o b) \o more = p \o (b \o more)
  BY <1>1, Grouping
<1>3. Numbers(m) \o more = Numbers(m + n)
  BY <1>1, NumbersMore
<1> QED
  BY <1>2, <1>3 DEF more

\* Every step queues events, flushes the buffer, or leaves both alone.
LEMMA StepKinds ==
    ASSUME Types, [Next]_emitterVars
    PROVE  \/ UNCHANGED <<queued, buffer, posted>>
           \/ \E n \in Nat : QueueEvents(n) /\ posted' = posted
           \/ \E goOn \in {"frame", "exit", "closed"} : Flush(goOn)
<1>1. CASE Frame \/ EndOfFootage
  BY <1>1, EmitterAssumption DEF Frame, EndOfFootage, history
<1>2. CASE Tick \/ FlushAll \/ Exit
  BY <1>2 DEF Tick, FlushAll, Exit, Goto, history
<1>3. CASE Raise \/ Response \/ GiveUp \/ Cancel
  BY <1>3 DEF Raise, Response, GiveUp, Cancel, Goto, Resume, history
<1>4. CASE Api
  BY <1>4 DEF Api, ApiStores, ApiRefuses, ApiFails
<1>5. CASE Closed \/ UNCHANGED emitterVars
  BY <1>5 DEF Closed, emitterVars
<1> QED
  BY <1>1, <1>2, <1>3, <1>4, <1>5 DEF Next, Proceed

LEMMA PostedStep == Types /\ PostedInOrder /\ [Next]_emitterVars => PostedInOrder'
<1> SUFFICES ASSUME Types, PostedInOrder, [Next]_emitterVars
             PROVE  PostedInOrder'
  OBVIOUS
<1>1. posted \in Seq(Nat) /\ buffer \in Seq(Nat) /\ queued \in Nat
  BY DEF Types, EmitterTypeOK, Numbered
<1>2. CASE UNCHANGED <<queued, buffer, posted>>
  BY <1>2 DEF PostedInOrder
<1>3. CASE \E n \in Nat : QueueEvents(n) /\ posted' = posted
  <2>1. PICK n \in Nat : QueueEvents(n) /\ posted' = posted
    BY <1>3
  <2>2. posted \o buffer = Numbers(queued)
    BY DEF PostedInOrder, Numbers
  <2>3. posted \o (buffer \o [i \in 1..n |-> queued + i]) = Numbers(queued + n)
    BY <1>1, <2>2, FrameCarriesOn
  <2> QED
    BY <2>1, <2>3 DEF QueueEvents, PostedInOrder, Numbers
<1>4. CASE \E goOn \in {"frame", "exit", "closed"} : Flush(goOn)
  <2>1. posted' = posted \o buffer /\ buffer' = << >> /\ queued' = queued
    BY <1>4 DEF Flush
  <2>2. posted' \o buffer' = posted \o buffer
    BY <1>1, <2>1, ConcatProperties, ConcatEmptySeq
  <2> QED
    BY <2>1, <2>2 DEF PostedInOrder
<1> QED
  BY <1>2, <1>3, <1>4, StepKinds

\* Every event that was queued is posted once and in order or still in the
\* buffer, wherever the loop is interrupted.
THEOREM EventsPostedInOrder == Spec => []PostedInOrder
<1>1. Init => PostedInOrder
  <2>1. << >> \o << >> = << >> /\ [i \in 1..0 |-> i] = << >>
    OBVIOUS
  <2> QED
    BY <2>1 DEF Init, PostedInOrder
<1>2. Types /\ PostedInOrder /\ [Next]_emitterVars => PostedInOrder'
  BY PostedStep
<1> QED
  BY <1>1, <1>2, TypesInvariant, PTL DEF Spec

\* The emitter is empty when it is closed.
THEOREM ClosedEmpty == Spec => []NothingLeftBehind
<1>1. Init => NothingLeftBehind
  BY DEF Init, NothingLeftBehind
<1>2. Types /\ NothingLeftBehind /\ [Next]_emitterVars => NothingLeftBehind'
  <2> SUFFICES ASSUME Types, NothingLeftBehind, [Next]_emitterVars
               PROVE  NothingLeftBehind'
    OBVIOUS
  <2>1. loop = "await" => buffer = << >>
    BY DEF Types, EmitterTypeOK, Numbered
  <2>2. CASE Exit
    BY <2>2 DEF Exit, Flush, Goto, NothingLeftBehind
  <2>3. CASE Response \/ GiveUp \/ Cancel
    BY <2>1, <2>3 DEF Response, GiveUp, Cancel, Resume, NothingLeftBehind
  <2>4. CASE Frame \/ Tick \/ EndOfFootage \/ FlushAll \/ Raise
    BY <2>4 DEF Frame, Tick, EndOfFootage, FlushAll, Raise, Flush, Goto, NothingLeftBehind
  <2>5. CASE Api
    BY <2>5 DEF Api, ApiStores, ApiRefuses, ApiFails, NothingLeftBehind
  <2>6. CASE Closed \/ UNCHANGED emitterVars
    BY <2>6 DEF Closed, emitterVars, NothingLeftBehind
  <2> QED
    BY <2>2, <2>3, <2>4, <2>5, <2>6 DEF Next, Proceed
<1> QED
  BY <1>1, <1>2, TypesInvariant, PTL DEF Spec

-----------------------------------------------------------------------------
\* What becomes of the batches.

\* A request on its way is the one that is awaited, or its batch was given up.
OnTheWay ==
    /\ \A q, p \in wire : q.no = p.no => q = p
    /\ \A q \in wire : \/ loop = "await" /\ reply = NoReply /\ q.no = sent
                       \/ q.no \in logged \cup abandoned

Settled(b) ==
    \/ b \in logged \cup abandoned \cup refused
    \/ \E i \in DOMAIN stored : stored[i] = b

\* A batch is settled, or it is awaited and will be logged unless a 200 comes.
Accounted ==
    \A b \in 1..sent : Settled(b) \/ (loop = "await" /\ b = sent /\ reply # 200)

Fate == OnTheWay /\ Accounted /\ OvertakenOnlyIfGivenUp

LEMMA FateInit == Init => Fate
BY DEF Init, Fate, OnTheWay, Accounted, OvertakenOnlyIfGivenUp

\* A new batch takes the next number, so none that is under way has it.
LEMMA FlushKeepsFate ==
    ASSUME Types, Fate, loop # "await", NEW goOn, Flush(goOn)
    PROVE  Fate'
<1> DEFINE new == [no |-> sent', events |-> buffer]
<1>1. sent \in Nat /\ sent' = sent + 1 /\ \A q \in wire : q.no \in 1..sent
  BY DEF Types, EmitterTypeOK, Numbered, Flush
<1>2. wire' = wire \cup {new} /\ new.no = sent + 1
  BY <1>1 DEF Flush
<1>3. loop' = "await" /\ reply' = NoReply /\ UNCHANGED <<stored, refused, logged, abandoned>>
  BY DEF Flush
<1>4. OnTheWay'
  <2>1. \A q \in wire : q.no # new.no /\ q.no \in logged \cup abandoned
    BY <1>1, <1>2 DEF Fate, OnTheWay
  <2> HIDE DEF new
  <2> QED
    BY <1>1, <1>2, <1>3, <2>1 DEF Fate, OnTheWay
<1>5. Accounted'
  <2>1. \A b \in 1..sent : Settled(b)
    BY DEF Fate, Accounted
  <2>2. \A b \in 1..sent : Settled(b)'
    BY <1>3, <2>1 DEF Settled
  <2>3. \A b \in 1..sent' : b \in 1..sent \/ b = sent'
    BY <1>1
  <2>4. reply' # 200
    BY <1>3, EmitterAssumption
  <2> QED
    BY <1>3, <2>2, <2>3, <2>4 DEF Accounted
<1>6. OvertakenOnlyIfGivenUp'
  BY <1>3 DEF Fate, OvertakenOnlyIfGivenUp
<1> QED
  BY <1>4, <1>5, <1>6 DEF Fate

\* The end of an awaited POST: the batch was answered by a 200, or it is given up.
LEMMA EndKeepsFate ==
    ASSUME Types, Fate, loop = "await", loop' # "await",
           UNCHANGED <<sent, stored, refused>>, wire' \subseteq wire,
           logged \cup abandoned \subseteq (logged \cup abandoned)',
           reply = 200 \/ sent \in (logged \cup abandoned)',
           reply # NoReply \/ sent \in (logged \cup abandoned)'
    PROVE  Fate'
<1>1. OnTheWay'
  BY DEF Fate, OnTheWay
<1>2. Accounted'
  <2> SUFFICES ASSUME NEW b \in 1..sent PROVE Settled(b)'
    BY DEF Accounted
  <2>1. Settled(b) \/ (b = sent /\ reply # 200)
    BY DEF Fate, Accounted
  <2> QED
    BY <2>1 DEF Settled
<1>3. OvertakenOnlyIfGivenUp'
  BY DEF Fate, OvertakenOnlyIfGivenUp
<1> QED
  BY <1>1, <1>2, <1>3 DEF Fate

\* Steps that only move the loop, while no POST is awaited.
LEMMA RestKeepsFate ==
    ASSUME Types, Fate, loop # "await", loop' # "await",
           UNCHANGED <<sent, wire, stored, refused, logged, abandoned>>
    PROVE  Fate'
BY DEF Fate, OnTheWay, Accounted, Settled, OvertakenOnlyIfGivenUp

\* Only a request that was given up can be handled after a later one.
LEMMA ApiKeepsFate ==
    ASSUME Types, Fate, NEW q \in wire, ApiStores(q) \/ ApiRefuses(q) \/ ApiFails(q)
    PROVE  Fate'
<1>1. /\ q.no \in 1..sent /\ sent \in Nat /\ stored \in Seq(1..sent)
      /\ UNCHANGED <<loop, sent, logged, abandoned>> /\ wire' = wire \ {q}
      /\ stored' = stored \/ stored' = Append(stored, q.no)
  BY DEF Types, EmitterTypeOK, Numbered, ApiStores, ApiRefuses, ApiFails
<1>2. /\ DOMAIN stored = 1..Len(stored) /\ Len(stored) \in Nat
      /\ DOMAIN stored \subseteq DOMAIN stored'
      /\ \A i \in DOMAIN stored : stored'[i] = stored[i] /\ stored[i] \in 1..sent
      /\ \A i \in DOMAIN stored' : i \in DOMAIN stored \/ (i = Len(stored) + 1 /\ stored'[i] = q.no)
      /\ stored' = Append(stored, q.no) => \E i \in DOMAIN stored' : stored'[i] = q.no
  <2>1. CASE stored' = stored
    <3>1. stored # Append(stored, q.no)
      BY <1>1, AppendProperties
    <3> QED
      BY <1>1, <2>1, <3>1
  <2>2. CASE stored' = Append(stored, q.no)
    BY <1>1, <2>2, AppendProperties
  <2> QED
    BY <1>1, <2>1, <2>2
<1>3. OnTheWay'
  <2>1. \A p \in wire' : p.no # q.no /\ p \in wire
    BY <1>1 DEF Fate, OnTheWay
  <2>2. reply' = reply \/ (loop = "await" /\ q.no = sent)
    BY DEF ApiStores, ApiRefuses, ApiFails, Answered
  <2> QED
    BY <1>1, <2>1, <2>2 DEF Fate, OnTheWay
<1>4. Accounted'
  <2> SUFFICES ASSUME NEW b \in 1..sent
               PROVE  Settled(b)' \/ (loop = "await" /\ b = sent /\ reply' # 200)
    BY <1>1 DEF Accounted
  <2>1. Settled(b) => Settled(b)'
    <3>1. refused \subseteq refused'
      BY DEF ApiStores, ApiRefuses, ApiFails
    <3> QED
      BY <1>1, <1>2, <3>1 DEF Settled
  <2>2. CASE loop = "await" /\ b = sent /\ reply # 200 /\ q.no = sent
    <3>1. CASE ApiStores(q) \/ ApiRefuses(q)
      BY <1>2, <2>2, <3>1 DEF ApiStores, ApiRefuses, Settled
    <3>2. CASE ApiFails(q)
      BY <2>2, <3>2 DEF ApiFails, Answered
    <3> QED
      BY <3>1, <3>2
  <2>3. CASE loop = "await" /\ b = sent /\ reply # 200 /\ q.no # sent
    BY <2>3 DEF ApiStores, ApiRefuses, ApiFails, Answered
  <2> QED
    BY <2>1, <2>2, <2>3 DEF Fate, Accounted
<1>5. OvertakenOnlyIfGivenUp'
  <2> SUFFICES ASSUME NEW i \in DOMAIN stored', NEW j \in DOMAIN stored',
                      i < j, stored'[i] > stored'[j]
               PROVE  stored'[j] \in logged \cup abandoned
    BY <1>1 DEF OvertakenOnlyIfGivenUp
  <2>1. CASE j \in DOMAIN stored
    <3>1. i \in DOMAIN stored
      BY <1>2, <2>1
    <3> QED
      BY <1>2, <2>1, <3>1 DEF Fate, OvertakenOnlyIfGivenUp
  <2>2. CASE j = Len(stored) + 1 /\ stored'[j] = q.no
    <3>1. i \in DOMAIN stored /\ stored'[i] \in 1..sent
      BY <1>2, <2>2
    <3>2. q.no # sent
      BY <1>1, <2>2, <3>1
    <3> QED
      BY <2>2, <3>2 DEF Fate, OnTheWay
  <2> QED
    BY <1>2, <2>1, <2>2
<1> QED
  BY <1>3, <1>4, <1>5 DEF Fate

LEMMA FateStep == Types /\ Fate /\ [Next]_emitterVars => Fate'
<1> SUFFICES ASSUME Types, Fate, [Next]_emitterVars
             PROVE  Fate'
  OBVIOUS
<1>1. CASE Frame \/ EndOfFootage \/ Raise
  BY <1>1, RestKeepsFate DEF Frame, EndOfFootage, Raise, Goto, history
<1>2. CASE Tick
  <2>1. CASE Flush("frame")
    BY <1>2, <2>1, FlushKeepsFate DEF Tick
  <2>2. CASE Goto("frame")
    BY <1>2, <2>2, RestKeepsFate DEF Tick, Goto, history
  <2> QED
    BY <1>2, <2>1, <2>2 DEF Tick
<1>3. CASE FlushAll
  <2>1. CASE Flush("exit")
    BY <1>3, <2>1, FlushKeepsFate DEF FlushAll
  <2>2. CASE Goto("exit")
    BY <1>3, <2>2, RestKeepsFate DEF FlushAll, Goto, history
  <2> QED
    BY <1>3, <2>1, <2>2 DEF FlushAll
<1>4. CASE Exit
  <2>1. CASE Flush("closed")
    BY <1>4, <2>1, FlushKeepsFate DEF Exit
  <2>2. CASE Goto("closed")
    BY <1>4, <2>2, RestKeepsFate DEF Exit, Goto, history
  <2> QED
    BY <1>4, <2>1, <2>2 DEF Exit
<1>5. CASE Response
  <2>1. loop' # "await"
    BY <1>5 DEF Response, Resume, Types, EmitterTypeOK, Numbered
  <2>2. reply = 200 \/ sent \in logged'
    BY <1>5 DEF Response
  <2> QED
    BY <1>5, <2>1, <2>2, EndKeepsFate DEF Response, Resume
<1>6. CASE GiveUp
  <2>1. loop' # "await"
    BY <1>6 DEF GiveUp, Resume, Types, EmitterTypeOK, Numbered
  <2> QED
    BY <1>6, <2>1, EndKeepsFate DEF GiveUp, LeaveRequest, Resume
<1>7. CASE Cancel
  <2>1. loop' # "await"
    BY <1>7 DEF Cancel
  <2>2. CASE loop = "frame"
    BY <1>7, <2>1, <2>2, RestKeepsFate DEF Cancel
  <2>3. CASE loop = "await"
    BY <1>7, <2>1, <2>3, EndKeepsFate DEF Cancel, LeaveRequest
  <2> QED
    BY <1>7, <2>2, <2>3 DEF Cancel
<1>8. CASE Api
  BY <1>8, ApiKeepsFate DEF Api
<1>9. CASE Closed \/ UNCHANGED emitterVars
  <2>1. UNCHANGED emitterVars
    BY <1>9 DEF Closed
  <2> QED
    BY <2>1 DEF emitterVars, Fate, OnTheWay, Accounted, Settled, OvertakenOnlyIfGivenUp
<1> QED
  BY <1>1, <1>2, <1>3, <1>4, <1>5, <1>6, <1>7, <1>8, <1>9 DEF Next, Proceed

LEMMA FateInvariant == Spec => []Fate
<1>1. Init => Fate
  BY FateInit
<1>2. Types /\ Fate /\ [Next]_emitterVars => Fate'
  BY FateStep
<1> QED
  BY <1>1, <1>2, TypesInvariant, PTL DEF Spec

\* Batches are stored in the order they were posted, unless they were given up.
THEOREM OnlyGivenUpOvertaken == Spec => []OvertakenOnlyIfGivenUp
<1>1. Fate => OvertakenOnlyIfGivenUp
  BY DEF Fate
<1> QED
  BY <1>1, FateInvariant, PTL

\* A batch that did not get into the table was logged, refused or cancelled.
THEOREM LossesAreKnown == Spec => []LossesKnown
<1>1. Fate => LossesKnown
  BY DEF Fate, Accounted, Settled, LossesKnown
<1> QED
  BY <1>1, FateInvariant, PTL

=============================================================================
