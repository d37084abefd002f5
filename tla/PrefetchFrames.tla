--------------------------- MODULE PrefetchFrames ---------------------------
(***************************************************************************)
(* frames/prefetch.py: a thread decodes frames ahead of the inference loop.*)
(* Two threads share a bounded queue, a stop event and an error slot:      *)
(*   - the producer, _pump(), with the loop of _put() around every put;    *)
(*   - the consumer, __next__() and close(), called by the worker thread   *)
(*     in service/pipeline.py, which closes every stream it opened.        *)
(* There is no lock: an action is one access to what they share.           *)
(*                                                                         *)
(* What the source will do -- how many frames it has, and whether it then  *)
(* raises -- is fixed at the start and unknown to both threads.            *)
(***************************************************************************)
EXTENDS Naturals, Sequences

CONSTANTS
    Depth,      \* capacity of the queue
    MaxFrames   \* bound: frames of a source

ASSUME PrefetchAssumption == Depth \in Nat \ {0} /\ MaxFrames \in Nat

Sentinel == 0   \* _SENTINEL; frames are numbered from 1

VARIABLES
    total,      \* the frames of the source: 1 .. total
    raises,     \* after them the source raises instead of ending
    pulled,     \* frames taken from the source
    pc,         \* where the producer is
    hand,       \* what it is putting into the queue
    sourceOpen, \* the source's close() has not been called
    queue,      \* _queue
    stop,       \* _stop
    error,      \* _error is set
    cpc,        \* where the consumer is
    given,      \* frames __next__ returned
    result      \* how the iteration ended for the consumer

source   == <<total, raises>>
producer == <<pulled, pc, hand, sourceOpen>>
consumer == <<cpc, given, result>>
vars     == <<source, producer, queue, stop, error, consumer>>

TypeOK ==
    /\ total \in 0 .. MaxFrames /\ raises \in BOOLEAN
    /\ pulled \in 0 .. total
    /\ pc \in {"pull", "check", "put", "close", "ended"}
    /\ hand \in 0 .. total
    /\ queue \in Seq(0 .. total) /\ Len(queue) <= Depth
    /\ sourceOpen \in BOOLEAN /\ stop \in BOOLEAN /\ error \in BOOLEAN
    /\ cpc \in {"idle", "getting", "draining", "joining"}
    /\ given \in Seq(1 .. total)
    /\ result \in {"open", "exhausted", "raised", "closed"}

Init ==
    /\ total \in 0 .. MaxFrames /\ raises \in BOOLEAN
    /\ pulled = 0 /\ pc = "pull" /\ hand = Sentinel /\ sourceOpen = TRUE
    /\ queue = <<>> /\ stop = FALSE /\ error = FALSE
    /\ cpc = "idle" /\ given = <<>> /\ result = "open"

-----------------------------------------------------------------------------
(* The producer.                                                           *)
Pull ==
    /\ pc = "pull"
    /\ \/ /\ pulled < total
          /\ pulled' = pulled + 1 /\ hand' = pulled + 1
          /\ pc' = "check"
          /\ UNCHANGED error
       \/ /\ pulled = total
          /\ error' = raises
          /\ pc' = "close"
          /\ UNCHANGED <<pulled, hand>>
    /\ UNCHANGED <<source, sourceOpen, queue, stop, consumer>>

(* Mutant of CloseSource: after an exception no sentinel follows.           *)
CloseAfterError ==
    /\ pc = "close"
    /\ sourceOpen' = FALSE
    /\ hand' = Sentinel
    /\ pc' = IF error THEN "ended" ELSE "check"
    /\ UNCHANGED <<source, pulled, queue, stop, error, consumer>>

CloseSource ==
    /\ pc = "close"
    /\ sourceOpen' = FALSE
    /\ hand' = Sentinel
    /\ pc' = "check"
    /\ UNCHANGED <<source, pulled, queue, stop, error, consumer>>

(* Mutants of CheckStop: stop is not looked at; on a stop the thread ends  *)
(* without closing the source.                                             *)
CheckNothing ==
    /\ pc = "check"
    /\ pc' = "put"
    /\ UNCHANGED <<source, pulled, hand, sourceOpen, queue, stop, error, consumer>>

CheckAndLeave ==
    /\ pc = "check"
    /\ pc' = IF stop THEN "ended" ELSE "put"
    /\ UNCHANGED <<source, pulled, hand, sourceOpen, queue, stop, error, consumer>>

(* _put: stop is looked at before each attempt of at most 0.1 s.           *)
CheckStop ==
    /\ pc = "check"
    /\ pc' = IF ~stop THEN "put" ELSE IF hand = Sentinel THEN "ended" ELSE "close"
    /\ UNCHANGED <<source, pulled, hand, sourceOpen, queue, stop, error, consumer>>

(* Mutants of Put: the queue is unbounded; a full one loses its oldest item.*)
PutMore ==
    /\ pc = "put"
    /\ queue' = Append(queue, hand)
    /\ pc' = IF hand = Sentinel THEN "ended" ELSE "pull"
    /\ UNCHANGED <<source, pulled, hand, sourceOpen, stop, error, consumer>>

PutOver ==
    /\ pc = "put"
    /\ queue' = IF Len(queue) < Depth THEN Append(queue, hand)
                                      ELSE Append(Tail(queue), hand)
    /\ pc' = IF hand = Sentinel THEN "ended" ELSE "pull"
    /\ UNCHANGED <<source, pulled, hand, sourceOpen, stop, error, consumer>>

Put ==
    /\ pc = "put" /\ Len(queue) < Depth
    /\ queue' = Append(queue, hand)
    /\ pc' = IF hand = Sentinel THEN "ended" ELSE "pull"
    /\ UNCHANGED <<source, pulled, hand, sourceOpen, stop, error, consumer>>

PutTimesOut ==
    /\ pc = "put" /\ Len(queue) >= Depth
    /\ pc' = "check"
    /\ UNCHANGED <<source, pulled, hand, sourceOpen, queue, stop, error, consumer>>

Producer == Pull \/ CloseSource \/ CheckStop \/ Put \/ PutTimesOut

-----------------------------------------------------------------------------
(* The consumer.  A stream that has ended is asked for nothing more: the   *)
(* loop over it is over (and __next__ would only stop again).              *)
Ask ==
    /\ cpc = "idle" /\ ~stop
    /\ cpc' = "getting"
    /\ UNCHANGED <<source, producer, queue, stop, error, given, result>>

GetFrame ==
    /\ cpc = "getting" /\ queue # <<>> /\ Head(queue) # Sentinel
    /\ given' = Append(given, Head(queue))
    /\ queue' = Tail(queue)
    /\ cpc' = "idle"
    /\ UNCHANGED <<source, producer, stop, error, result>>

(* Mutant of GetSentinel: the error slot is not looked at.                 *)
GetEnd ==
    /\ cpc = "getting" /\ queue # <<>> /\ Head(queue) = Sentinel
    /\ queue' = Tail(queue)
    /\ stop' = TRUE
    /\ result' = "exhausted"
    /\ cpc' = "idle"
    /\ UNCHANGED <<source, producer, error, given>>

GetSentinel ==
    /\ cpc = "getting" /\ queue # <<>> /\ Head(queue) = Sentinel
    /\ queue' = Tail(queue)
    /\ stop' = TRUE
    /\ result' = IF error THEN "raised" ELSE "exhausted"
    /\ error' = FALSE
    /\ cpc' = "idle"
    /\ UNCHANGED <<source, producer, given>>

Close ==
    /\ cpc = "idle"
    /\ stop' = TRUE
    /\ result' = IF result = "open" THEN "closed" ELSE result
    /\ cpc' = "draining"
    /\ UNCHANGED <<source, producer, queue, error, given>>

Drain ==
    /\ cpc = "draining"
    /\ \/ queue # <<>> /\ queue' = Tail(queue) /\ UNCHANGED cpc
       \/ queue = <<>> /\ cpc' = "joining" /\ UNCHANGED queue
    /\ UNCHANGED <<source, producer, stop, error, given, result>>

(* join(timeout=5.0) returns when the thread has ended, or in any case.    *)
Join ==
    /\ cpc = "joining"
    /\ cpc' = "idle"
    /\ UNCHANGED <<source, producer, queue, stop, error, given, result>>

Consumer == Ask \/ GetFrame \/ GetSentinel \/ Close \/ Drain \/ Join

Next == Producer \/ Consumer

Spec == Init /\ [][Next]_vars

(* Both threads are scheduled, and the source (a decoder of a finite file) *)
(* answers; the consumer may stay away between two calls.                  *)
FairSpec == Spec /\ WF_vars(Producer) /\ WF_vars(GetFrame \/ GetSentinel)
                 /\ WF_vars(Drain \/ Join)
-----------------------------------------------------------------------------
(*                               Properties                                *)

(* Nothing is lost, doubled or reordered between the threads: until the    *)
(* consumer gives up, what was returned, what is queued and what the       *)
(* producer holds are together the frames pulled, in their order, and the  *)
(* sentinel comes after the last of them (_put, _pump, __next__).          *)
InPut == IF pc = "put" THEN 1 ELSE 0
Held  == IF pc \in {"check", "put"} /\ sourceOpen THEN 1 ELSE 0

Pipeline ==
    /\ \A i \in 1 .. Len(given) : given[i] = i
    /\ ~stop =>
        /\ \A i \in 1 .. Len(queue) :
              queue[i] = IF i = Len(queue) /\ pc = "ended" THEN Sentinel
                                                         ELSE Len(given) + i
        /\ pc # "ended" => Len(given) + Len(queue) + Held = pulled
        /\ pc = "ended" => queue # <<>> /\ Len(given) + Len(queue) = total + 1

(* close() leaves next to nothing behind: the producer, which may be past  *)
(* its look at stop, puts at most one more item, so that at most one stays *)
(* in the queue of a stream that is closed.                                *)
LittleLeftBehind ==
    (stop /\ cpc \in {"idle", "joining"}) => Len(queue) <= 1

(* A prefetched stream cannot be told from its source: the same frames,    *)
(* then the same end or the same exception, wherever the loop closes it    *)
(* (the contract in the header of frames/prefetch.py: order, I1, close).   *)
Contract == INSTANCE FrameStream
KeepsStream == Contract!Spec

(* Closing reaches the source: once the stream is stopped, the producer    *)
(* ends and the source is closed, even if it was blocked on a full queue.  *)
StopReachesSource == stop ~> (pc = "ended" /\ ~sourceOpen)

(* The inference loop is never left waiting for a frame.                   *)
LoopNotStarved == cpc = "getting" ~> cpc = "idle"
=============================================================================
