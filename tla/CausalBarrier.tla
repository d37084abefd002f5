--------------------------- MODULE CausalBarrier ---------------------------
(***************************************************************************)
(* The causal close barrier of crk_model/ledger/barrier.py: one value per  *)
(* door session that says whether every trigger the service knows of has   *)
(* been judged.  The module is a data type: a barrier is a record, each    *)
(* method of the class an operator from barrier to barrier, and status()   *)
(* the predicates at the end.                                              *)
(*                                                                         *)
(* A Counter or dict entry that is absent reads as its default, so the     *)
(* dictionaries are total functions here: 0 for the counters and the       *)
(* expected counts, -1 for sequence numbers and watermarks (an absent      *)
(* watermark blocks nothing, and neither does -1, since -1 < -1 is false). *)
(***************************************************************************)
EXTENDS Integers

CONSTANTS
    Zone,      \* zone numbers, as the triggers carry them
    WireKey    \* keys of a watermark that are not zone numbers (JSON strings)

ASSUME KeysAreNotZones == Zone \cap WireKey = {}

Key == Zone \cup WireKey

Barrier == [ enqueued  : [Zone -> Nat],
             processed : [Zone -> Nat],
             watermark : [Key -> Int],
             lastSeq   : [Zone -> Int],
             expected  : [Zone -> Nat] ]

(* CausalBarrier(): a fresh barrier, one per session.                      *)
NewBarrier == [ enqueued  |-> [z \in Zone |-> 0],
                processed |-> [z \in Zone |-> 0],
                watermark |-> [k \in Key |-> -1],
                lastSeq   |-> [z \in Zone |-> -1],
                expected  |-> [z \in Zone |-> 0] ]

NotifyEnqueued(b, z)  == [b EXCEPT !.enqueued[z]  = @ + 1]
NotifyProcessed(b, z) == [b EXCEPT !.processed[z] = @ + 1]

(* A sequence number is only ever kept as the largest one seen.            *)
NoteSeq(b, z, seq) == [b EXCEPT !.lastSeq[z] = IF @ < seq THEN seq ELSE @]

(* The two close signals replace the whole dictionary; w and x are partial *)
(* functions, as the payload carries them.                                 *)
SetCloseWatermark(b, w) ==
    [b EXCEPT !.watermark = [k \in Key |-> IF k \in DOMAIN w THEN w[k] ELSE -1]]

SetExpectedCounts(b, x) ==
    [b EXCEPT !.expected = [z \in Zone |-> IF z \in DOMAIN x THEN x[z] ELSE 0]]

-----------------------------------------------------------------------------
(* Mutants: a gap of one is let pass; the watermark is met one too early.  *)
QueuePendingLoose(b) == \E z \in Zone : b.enqueued[z] > b.processed[z] + 1
SeqGapLoose(b) == \E k \in Key :
                     (IF k \in Zone THEN b.lastSeq[k] ELSE -1) + 1 < b.watermark[k]

(* status(): a zone blocks while more of its triggers were enqueued than   *)
(* processed -- a surplus of processed ones goes unnoticed.                *)
QueuePending(b) == \E z \in Zone : b.enqueued[z] > b.processed[z]

(* lastSeq is looked up by the watermark's own key, so a key that is not a *)
(* zone number finds nothing and reads -1.                                 *)
SeqGap(b) == \E k \in Key :
                (IF k \in Zone THEN b.lastSeq[k] ELSE -1) < b.watermark[k]

AwaitingTriggers(b) == \E z \in Zone : b.enqueued[z] < b.expected[z]

(* The load-cell condition is left out: nothing in the service ever calls  *)
(* set_loadcell_stable, so the set of unstable zones is always empty.      *)
Satisfied(b) == ~QueuePending(b) /\ ~SeqGap(b) /\ ~AwaitingTriggers(b)
=============================================================================
