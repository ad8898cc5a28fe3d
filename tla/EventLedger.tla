---------------------------- MODULE EventLedger ----------------------------
(***************************************************************************)
(* What ingestion promises of every event, free of requests, transactions  *)
(* and pipelines: it is stored once, then applied to its session once,     *)
(* then, if it is a customer's ENTRY, counted once, and only then reported *)
(* as accepted, once.  Any event may stay for ever where it is: a failure  *)
(* between two stages loses what is left, it never repeats what was done.  *)
(***************************************************************************)
EXTENDS Integers, FiniteSets

CONSTANTS
    Event,          \* the events there can be
    Store,          \* the stores
    StoreOf(_),     \* the store of an event
    Counts(_)       \* whether it is a customer's ENTRY

VARIABLES
    stored, applied, counted, reported,     \* sets of events
    visitors                                \* the live count of each store

vars == <<stored, applied, counted, reported, visitors>>

Init ==
    /\ stored = {} /\ applied = {} /\ counted = {} /\ reported = {}
    /\ visitors = [s \in Store |-> 0]

\* A batch is stored as a whole.
StoreBatch ==
    /\ \E E \in SUBSET (Event \ stored) : stored' = stored \cup E
    /\ UNCHANGED <<applied, counted, reported, visitors>>

\* Events are applied to the sessions after they are stored, never twice.
ApplyBatch ==
    /\ \E E \in SUBSET (stored \ applied) : applied' = applied \cup E
    /\ UNCHANGED <<stored, counted, reported, visitors>>

CountVisitor ==
    /\ \E e \in applied \ counted :
         /\ Counts(e)
         /\ counted' = counted \cup {e}
         /\ visitors' = [visitors EXCEPT ![StoreOf(e)] = @ + 1]
    /\ UNCHANGED <<stored, applied, reported>>

\* A response accepts events that went all the way and that no other accepted.
Report ==
    /\ \E E \in SUBSET (applied \ reported) :
         /\ \A e \in E : Counts(e) => e \in counted
         /\ reported' = reported \cup E
    /\ UNCHANGED <<stored, applied, counted, visitors>>

Next == StoreBatch \/ ApplyBatch \/ CountVisitor \/ Report

Spec == Init /\ [][Next]_vars

=============================================================================
