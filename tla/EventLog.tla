------------------------------ MODULE EventLog ------------------------------
(***************************************************************************)
(* EventAggregator: the latest events in a list, and counters of events that *)
(* Prometheus reads.  The workers of the inline runner and the handlers of   *)
(* the API record events at the same time and nothing is locked: every       *)
(* statement that reads or writes what they share is an action.              *)
(*                                                                           *)
(* An event is [type, n]; n is the pages of an event about OCR, else 1.      *)
(***************************************************************************)
EXTENDS Integers, Sequences, FiniteSets, SequencesExt, FiniteSetsExt

CONSTANTS
    Recorders,     \* threads
    RingSize,      \* max_ringbuffer_size
    MaxRecorded    \* bound of the model: events recorded

VARIABLES
    ring,          \* ringbuffer, the newest last
    counts,        \* all counters, 0 if absent
    log,           \* every event that was appended
    pc,            \* the next statement of a thread
    todo,          \* the events it has to record, and the counters left of the first
    seen,          \* the count it has read
    overlapped     \* two threads have been recording at the same time

eventVars == <<ring, counts, log, pc, todo, seen, overlapped>>

-----------------------------------------------------------------------------
(* What is recorded. *)

Event(type, n) == [type |-> type, n |-> n]

\* _record_ocr_observability: an event for each kind of page there is.
OcrEvents(attempted, fallback, failed, rejected) ==
    SelectSeq(<<Event("ocr_attempted", attempted), Event("ocr_fallback", fallback),
                Event("ocr_failed", failed), Event("ocr_rejected", rejected)>>, LAMBDA e : e.n > 0)

\* A request over the quota: _check_quota_limit records it, and the handler that
\* answers 429 records it again (_record_quota_exceeded_event).
Rejection == <<Event("quota_exceeded", 1), Event("quota_exceeded", 1)>>

Work == {OcrEvents(2, 1, 0, 1), OcrEvents(1, 0, 1, 0), Rejection, <<Event("provider_failure", 1)>>}

\* record_event: a failure of a provider is counted by its category too.
CountersOf(e) == IF e.type = "provider_failure" THEN <<"provider_failure", "category">> ELSE <<e.type>>
Counters == UNION {ToSet(CountersOf(w[i])) : <<w, i>> \in {<<v, j>> \in Work \X (1..4) : j =< Len(v)}}

-----------------------------------------------------------------------------
(* Recording. *)

EventInit ==
    /\ ring = <<>> /\ log = <<>> /\ counts = [c \in Counters |-> 0]
    /\ pc = [t \in Recorders |-> "idle"]
    /\ todo = [t \in Recorders |-> [events |-> <<>>, left |-> <<>>]]
    /\ seen = [t \in Recorders |-> 0]
    /\ overlapped = FALSE

SumOfPending == MapThenSumSet(LAMBDA u : Len(todo[u].events), Recorders)

Begin(t, w) ==
    /\ pc[t] = "idle"
    /\ Len(log) + Len(w) + SumOfPending =< MaxRecorded
    /\ pc' = [pc EXCEPT ![t] = "append"]
    /\ todo' = [todo EXCEPT ![t].events = w]
    /\ overlapped' = (overlapped \/ \E u \in Recorders : pc[u] # "idle")
    /\ UNCHANGED <<ring, counts, log, seen>>

\* self.ringbuffer.append(event)
AppendEvent(t) ==
    LET e == todo[t].events[1]
    IN  /\ pc[t] = "append"
        /\ ring' = Append(ring, e) /\ log' = Append(log, e)
        /\ pc' = [pc EXCEPT ![t] = "length"]
        /\ todo' = [todo EXCEPT ![t].left = CountersOf(e)]
        /\ UNCHANGED <<counts, seen, overlapped>>

ReadLength(t) ==
    /\ pc[t] = "length"
    /\ pc' = [pc EXCEPT ![t] = IF Len(ring) > RingSize THEN "pop" ELSE "read"]
    /\ UNCHANGED <<ring, counts, log, todo, seen, overlapped>>

\* self.ringbuffer.pop(0)
Pop(t) ==
    /\ pc[t] = "pop"
    /\ ring' = Tail(ring)
    /\ pc' = [pc EXCEPT ![t] = "read"]
    /\ UNCHANGED <<counts, log, todo, seen, overlapped>>

ReadCount(t) ==
    /\ pc[t] = "read"
    /\ seen' = [seen EXCEPT ![t] = counts[todo[t].left[1]]]
    /\ pc' = [pc EXCEPT ![t] = "write"]
    /\ UNCHANGED <<ring, counts, log, todo, overlapped>>

WriteCount(t) ==
    LET left == Tail(todo[t].left)
        events == IF left = <<>> THEN Tail(todo[t].events) ELSE todo[t].events
    IN  /\ pc[t] = "write"
        /\ counts' = [counts EXCEPT ![todo[t].left[1]] = seen[t] + todo[t].events[1].n]
        /\ todo' = [todo EXCEPT ![t] = [events |-> events, left |-> left]]
        /\ seen' = [seen EXCEPT ![t] = 0]
        /\ pc' = [pc EXCEPT ![t] = IF left # <<>> THEN "read" ELSE IF events # <<>> THEN "append" ELSE "idle"]
        /\ UNCHANGED <<ring, log, overlapped>>

EventNext ==
    \E t \in Recorders :
        \/ \E w \in Work : Begin(t, w)
        \/ AppendEvent(t) \/ ReadLength(t) \/ Pop(t) \/ ReadCount(t) \/ WriteCount(t)

-----------------------------------------------------------------------------
(* Answers. *)

OfType(events, type) == IF type = "any" THEN events ELSE SelectSeq(events, LAMBDA e : e.type = type)

\* get_events: the newest first.
Latest(events, n) == SubSeq(events, Len(events) - n + 1, Len(events))
RecentEvents(limit, type) ==
    LET all == OfType(ring, type)
    IN  Reverse(Latest(all, IF limit < Len(all) THEN limit ELSE Len(all)))

-----------------------------------------------------------------------------
(* What must hold. *)

EventTypeOK ==
    /\ ring \in Seq([type : STRING, n : 1..2]) /\ counts \in [Counters -> Nat]
    /\ \A t \in Recorders : pc[t] \in {"idle", "append", "length", "pop", "read", "write"}
    /\ overlapped \in BOOLEAN

\* The list has the latest events in the order in which they came, whoever records
\* at the same time: too many only by the threads that have still to cut it, too few
\* by the other threads at most, that cut it for the same event; and an answer has the
\* latest of what it has.
RingIsLatest ==
    LET cutting == Cardinality({t \in Recorders : pc[t] \in {"length", "pop"}})
        full == IF Len(log) < RingSize THEN Len(log) ELSE RingSize
    IN  /\ IsSuffix(ring, log)
        /\ Len(ring) =< RingSize + cutting
        /\ Len(ring) > full - Cardinality(Recorders)
        /\ ~overlapped /\ cutting = 0 => Len(ring) = full
        /\ \A type \in {"any", "quota_exceeded", "ocr_attempted"} : \A limit \in 1..2 :
             IsPrefix(RecentEvents(limit, type), Reverse(OfType(log, type)))

\* What a counter should be, from the events.
Recorded(c) ==
    FoldSeq(LAMBDA e, sum : IF c \in ToSet(CountersOf(e)) THEN sum + e.n ELSE sum, 0, log)

\* A counter never counts more than was recorded, and exactly that as long as no two
\* threads have recorded at the same time; an event may then be lost from it, but
\* never all.
CountsAreBounded ==
    \A c \in Counters :
        /\ counts[c] =< Recorded(c)
        /\ (\A t \in Recorders : pc[t] = "idle") =>
              /\ Recorded(c) > 0 => counts[c] > 0
              /\ ~overlapped => counts[c] = Recorded(c)
=============================================================================
