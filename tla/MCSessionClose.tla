--------------------------- MODULE MCSessionClose ---------------------------
(* Small instances of SessionClose: zones are numbers, sequence numbers    *)
(* count from 0, and a close signal is absent (<<>>) or names some zones.  *)
EXTENDS SessionClose, TLC

NoSeqs     == {-1}
FirstSeq   == {0}
SomeSeqs   == {-1, 0, 1}
NoSignal   == {<<>>}
ExpectOne  == {<<>>, 1 :> 1}
ReachOne   == {<<>>, 1 :> 1}
ReachFirst == {<<>>, 1 :> 0} \cup {k :> 0 : k \in WireKey}
-----------------------------------------------------------------------------
(* What comments of the code claim and the code does not keep.             *)

(* service/worker.py:4-6: enqueue comes before processing, so the race in  *)
(* which a close does not see what is left in the queue is structurally    *)
(* impossible.  Then every bill would be complete.                         *)
EveryBillIsComplete == \A i \in DOMAIN payments : Complete(payments[i])

(* service/model_service.py:430: a null poll only reports the state and    *)
(* makes no transition.  Then no payment would be the answer to one.       *)
NullPollsPayNothing == \A i \in DOMAIN payments : payments[i].via = "CLOSE"

(* ledger/barrier.py:6: with a watermark, every trigger before the close   *)
(* watermark has arrived.  Then no trigger whose sequence number is within *)
(* the watermark could be turned away as late.                             *)
NothingBelowWatermarkIsLate ==
    \A i \in DOMAIN payments : LET p == payments[i] IN
        \A j \in 1 .. Len(jobs) :
            (jobs[j].ses = p.ses /\ 0 <= jobs[j].seq
               /\ jobs[j].seq <= p.watermark[jobs[j].zone]
               /\ (\A k \in 1 .. Len(jobs) : jobs[k].seq = jobs[j].seq => k = j))
            => j <= p.upto
=============================================================================
