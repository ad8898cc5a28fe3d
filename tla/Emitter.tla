------------------------------ MODULE Emitter ------------------------------
(***************************************************************************)
(* The event emitter of one clip (pipeline/emit.py), the loop that feeds   *)
(* it (pipeline/detect.py) and the API at the other end of its POSTs.      *)
(* Events are numbered in the order in which they are queued.  tick() and  *)
(* flush_all() await the POST, so the loop stands still until it has an    *)
(* answer, times out after ten seconds, or is cancelled because the loop   *)
(* of another clip raised (asyncio.gather in run.sh).  The API may still   *)
(* handle a request that the client has given up.                          *)
(***************************************************************************)
EXTENDS Integers, Sequences, FiniteSets

CONSTANTS
    FlushEvery,     \* buffer_seconds, in frames at real-time speed
    MaxBatch,       \* the API refuses a longer batch: 500
    MaxPerFrame,    \* bound on the events of one frame
    MaxEvents,      \* bound on the events of the clip
    NoReply         \* the API has not answered

ASSUME EmitterAssumption ==
    /\ FlushEvery \in Nat \ {0}
    /\ MaxBatch \in Nat /\ MaxPerFrame \in Nat /\ MaxEvents \in Nat
    /\ NoReply \notin {200, 500}

VARIABLES
    loop,           \* where process_clip is
    then,           \* where it goes on when the POST is over
    queued,         \* how many events were queued
    buffer,         \* _buffer
    elapsed,        \* time since _last_flush, up to FlushEvery
    sent,           \* how many batches were posted
    reply,          \* the API's answer to the POST that is awaited
    wire,           \* requests the API has not handled
    cancelled,      \* whether the task was cancelled
    \* History
    posted,         \* the events of all batches, in order
    stored,         \* the batches the API stored, in order
    refused,        \* the batches it refused for their length
    logged,         \* the batches the emitter logged as failed
    abandoned       \* the batches whose POST was cancelled

emitterVars == <<loop, then, queued, buffer, elapsed, sent, reply, wire,
                 cancelled, posted, stored, refused, logged, abandoned>>

Request == [no : Nat, events : Seq(Nat)]

Init ==
    /\ loop = "frame" /\ then = "frame"
    /\ queued = 0 /\ buffer = << >> /\ elapsed = 0
    /\ sent = 0 /\ reply = NoReply /\ wire = {} /\ cancelled = FALSE
    /\ posted = << >> /\ stored = << >> /\ refused = {} /\ logged = {} /\ abandoned = {}

-----------------------------------------------------------------------------
history == <<cancelled, posted, stored, refused, logged, abandoned>>

\* queue(), for the n events of a frame or of the end of the clip.
QueueEvents(n) ==
    /\ queued + n <= MaxEvents
    /\ queued' = queued + n
    /\ buffer' = buffer \o [i \in 1..n |-> queued + i]

\* Time passes while the next frame is awaited, decoded and tracked.
Frame ==
    /\ loop = "frame"
    /\ \E n \in 0..MaxPerFrame : QueueEvents(n)
    /\ \E d \in 1..FlushEvery :
         elapsed' = IF elapsed + d < FlushEvery THEN elapsed + d ELSE FlushEvery
    /\ loop' = "tick"
    /\ UNCHANGED <<then, sent, reply, wire, history>>

\* Mutant: the buffer is cleared when the POST is over, not before.
FlushKeepingBuffer(goOn) ==
    /\ buffer # << >>
    /\ elapsed' = 0
    /\ sent' = sent + 1
    /\ wire' = wire \cup {[no |-> sent', events |-> buffer]}
    /\ reply' = NoReply
    /\ posted' = posted \o buffer
    /\ loop' = "await" /\ then' = goOn
    /\ UNCHANGED <<queued, buffer, cancelled, stored, refused, logged, abandoned>>

\* Mutant: the POST is a task of its own and nobody awaits it.
FlushInBackground(goOn) ==
    /\ buffer # << >>
    /\ buffer' = << >>
    /\ elapsed' = 0
    /\ sent' = sent + 1
    /\ wire' = wire \cup {[no |-> sent', events |-> buffer]}
    /\ posted' = posted \o buffer
    /\ loop' = goOn
    /\ UNCHANGED <<queued, then, reply, cancelled, stored, refused, logged, abandoned>>

\* _flush() up to the await of the POST.
Flush(goOn) ==
    /\ buffer # << >>
    /\ buffer' = << >>
    /\ elapsed' = 0
    /\ sent' = sent + 1
    /\ wire' = wire \cup {[no |-> sent', events |-> buffer]}
    /\ reply' = NoReply
    /\ posted' = posted \o buffer
    /\ loop' = "await" /\ then' = goOn
    /\ UNCHANGED <<queued, cancelled, stored, refused, logged, abandoned>>

Goto(to) ==
    /\ loop' = to
    /\ UNCHANGED <<then, queued, buffer, elapsed, sent, reply, wire, history>>

\* Mutant: the second is counted from the last tick, not from the last flush.
TickRestarting ==
    /\ loop = "tick"
    /\ IF elapsed >= FlushEvery /\ buffer # << >>
       THEN Flush("frame")
       ELSE /\ elapsed' = 0
            /\ loop' = "frame"
            /\ UNCHANGED <<then, queued, buffer, sent, reply, wire, history>>

Tick ==
    /\ loop = "tick"
    /\ IF elapsed >= FlushEvery /\ buffer # << >> THEN Flush("frame") ELSE Goto("frame")

\* The footage is over: the EXITs of whoever is left are queued.
EndOfFootage ==
    /\ loop = "frame"
    /\ \E n \in 0..MaxPerFrame : QueueEvents(n)
    /\ loop' = "flush_all"
    /\ UNCHANGED <<then, elapsed, sent, reply, wire, history>>

FlushAll ==
    /\ loop = "flush_all"
    /\ IF buffer # << >> THEN Flush("exit") ELSE Goto("exit")

\* Mutant: whatever is left in the buffer is left there.
ExitAtOnce ==
    /\ loop = "exit"
    /\ Goto("closed")

\* __aexit__, after the footage, an exception or a cancellation.
Exit ==
    /\ loop = "exit"
    /\ IF buffer # << >> THEN Flush("closed") ELSE Goto("closed")

\* The detector or the tracker raises before the frame's events are queued.
Raise ==
    /\ loop = "frame"
    /\ Goto("exit")

\* The end of the awaited POST; time has passed.
Resume ==
    /\ loop' = then
    /\ elapsed' \in elapsed..FlushEvery
    /\ UNCHANGED <<then, queued, buffer, sent, cancelled, posted, stored, refused>>

\* Mutant: the status of the response is not looked at.
ResponseUnchecked ==
    /\ loop = "await"
    /\ reply # NoReply
    /\ Resume
    /\ UNCHANGED <<reply, wire, logged, abandoned>>

\* The response is there; any status but 200 is logged.
Response ==
    /\ loop = "await"
    /\ reply # NoReply
    /\ logged' = IF reply = 200 THEN logged ELSE logged \cup {sent}
    /\ Resume
    /\ UNCHANGED <<reply, wire, abandoned>>

\* What becomes of the request when its client stops waiting: it may be gone,
\* or the API handles it all the same.
LeaveRequest == wire' \in {wire, {q \in wire : q.no # sent}}

\* Mutant: a failed POST is logged and awaited once more.
GiveUpRetrying ==
    /\ loop = "await"
    /\ logged' = logged \cup {sent}
    /\ LeaveRequest
    /\ UNCHANGED <<loop, then, queued, buffer, elapsed, sent, reply, cancelled, posted, stored,
                   refused, abandoned>>

\* The connection fails or the timeout expires: logged, not queued again.
GiveUp ==
    /\ loop = "await"
    /\ logged' = logged \cup {sent}
    /\ LeaveRequest
    /\ Resume
    /\ UNCHANGED <<reply, abandoned>>

\* Another clip raised: the task is cancelled, once, where it awaits something.
\* A cancellation is no Exception, so _flush does not log it.
Cancel ==
    /\ ~cancelled
    /\ cancelled' = TRUE
    /\ loop' = IF loop = "await" /\ then = "closed" THEN "closed" ELSE "exit"
    /\ \/ loop = "frame" /\ UNCHANGED <<abandoned, wire>>
       \/ /\ loop = "await"
          /\ abandoned' = abandoned \cup {sent}
          /\ LeaveRequest
    /\ UNCHANGED <<then, queued, buffer, elapsed, sent, reply, posted, stored, refused,
                   logged>>

-----------------------------------------------------------------------------
\* The API (Ingestion) handles a request that has reached it.
Answered(q, status) == reply' = IF loop = "await" /\ q.no = sent THEN status ELSE reply

ApiStores(q) ==
    /\ Len(q.events) <= MaxBatch
    /\ stored' = Append(stored, q.no)
    /\ wire' = wire \ {q}
    /\ Answered(q, 200)
    /\ UNCHANGED <<loop, then, queued, buffer, elapsed, sent, cancelled, posted, refused,
                   logged, abandoned>>

\* Too long: counts of zero and one error, with status 200.
ApiRefuses(q) ==
    /\ Len(q.events) > MaxBatch
    /\ refused' = refused \cup {q.no}
    /\ wire' = wire \ {q}
    /\ Answered(q, 200)
    /\ UNCHANGED <<loop, then, queued, buffer, elapsed, sent, cancelled, posted, stored,
                   logged, abandoned>>

\* It fails, before or after it has stored the events.
ApiFails(q) ==
    /\ Len(q.events) <= MaxBatch
    /\ stored' \in {stored, Append(stored, q.no)}
    /\ wire' = wire \ {q}
    /\ Answered(q, 500)
    /\ UNCHANGED <<loop, then, queued, buffer, elapsed, sent, cancelled, posted, refused,
                   logged, abandoned>>

Api == \E q \in wire : ApiStores(q) \/ ApiRefuses(q) \/ ApiFails(q)

Closed == loop = "closed" /\ wire = {} /\ UNCHANGED emitterVars

\* The loop as long as nothing stops it, and the API.
Proceed == Frame \/ Tick \/ FlushAll \/ Exit \/ Response \/ GiveUp

Next == Proceed \/ EndOfFootage \/ Raise \/ Cancel \/ Api \/ Closed

Spec == Init /\ [][Next]_emitterVars

\* The loop runs on: a POST ends, if only by its timeout. Whether and when the
\* footage ends or the API answers is left open.
FairSpec == Spec /\ WF_emitterVars(Proceed)

-----------------------------------------------------------------------------
\* Properties.

\* Type correctness; every batch sent has a number, and the one that is awaited
\* has not been written off.
EmitterTypeOK ==
    /\ loop \in {"frame", "tick", "await", "flush_all", "exit", "closed"}
    /\ then \in {"frame", "exit", "closed"}
    /\ queued \in Nat
    /\ buffer \in Seq(Nat)
    /\ elapsed \in 0..FlushEvery
    /\ sent \in Nat
    /\ reply \in {NoReply, 200, 500}
    /\ wire \subseteq Request
    /\ posted \in Seq(Nat)
    /\ stored \in Seq(1..sent)
    /\ refused \subseteq 1..sent /\ logged \subseteq 1..sent /\ abandoned \subseteq 1..sent
    /\ cancelled \in BOOLEAN
    /\ loop = "await" => sent > 0 /\ sent \notin logged \cup abandoned

\* Every event queued is in one batch or in the buffer, once and in order,
\* whenever POSTs fail, the loop raises or is cancelled in the middle of one.
PostedInOrder == posted \o buffer = [i \in 1..queued |-> i]

\* When the emitter is closed no event is left in it, however the loop ended.
NothingLeftBehind == loop = "closed" => buffer = << >>

\* The API stores the batches of a clip in the order they were posted, with one
\* exception: a batch that was given up or cancelled may be overtaken by later
\* ones, so that a visitor's EXIT is handled before his ENTRY.
OvertakenOnlyIfGivenUp ==
    \A i, j \in DOMAIN stored : i < j /\ stored[i] > stored[j] =>
        stored[j] \in logged \cup abandoned

\* A batch whose events never got into the table was logged, with two silent
\* exceptions: it was too long and refused inside a 200, or its POST was
\* cancelled.
LossesKnown ==
    \A b \in 1..sent : (loop = "await" => b # sent) =>
        \/ b \in logged \cup abandoned \cup refused
        \/ \E i \in DOMAIN stored : stored[i] = b

\* An event does not stay in the buffer for ever, even if the footage never ends.
EveryEventPosted ==
    \A n \in 1..MaxEvents : (queued >= n) ~> (Len(posted) >= n)

=============================================================================
