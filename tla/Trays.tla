-------------------------------- MODULE Trays --------------------------------
(* What a trigger makes of its weight events, one per tray, as functions of  *)
(* its context (service/pipeline.py, from _judge_tray_events to _outcome):   *)
(* the retries of a verdict that is not complete, the merge of the trays     *)
(* into one bill, and what goes into the log.  TriggerJudgment takes the     *)
(* steps one at a time; SessionReview starts from what they leave.           *)
EXTENDS Judgment

CONSTANT RetryGap   \* segment_retry_gap_grams

TrayType == [delta : Int, segments : Seq(Int)]

Sum(s)       == FoldLeft(LAMBDA a, b : a + b, 0, s)
Steps(trays) == FoldLeft(LAMBDA s, e : s \o e.segments, <<>>, trays)

(* A trigger with trays, or one whose load cells cannot be trusted.          *)
Zone(profile, products, candidates, trays, visionOnly) ==
    [profile |-> profile, products |-> products, candidates |-> candidates,
     delta |-> IF visionOnly THEN 0 ELSE Sum([k \in DOMAIN trays |-> trays[k].delta]),
     segments |-> IF visionOnly THEN <<>> ELSE Steps(trays),
     visionOnly |-> visionOnly]

Slight(in)      == ~in.visionOnly /\ Target(in) < in.profile.minChange
Many(in, trays) == ~in.visionOnly /\ Len(trays) >= 2
-----------------------------------------------------------------------------
(* _segment_target_retry: a verdict that is not complete, with steps that do *)
(* not add up to the change, is tried again with the sum of the steps; only  *)
(* a complete verdict replaces it.  A verdict is kept with its context.      *)
Better(in, verdict, again, retry) ==
    IF retry.status # "complete" \/ retry.bill = Empty
    THEN [verdict |-> verdict, in |-> in]
    ELSE [verdict |-> retry, in |-> again]

SegmentRetry(in, verdict) ==
    LET sum   == Sum(in.segments)
        again == [in EXCEPT !.delta = sum]
    IN  IF \/ verdict.status = "complete" \/ in.visionOnly
           \/ in.delta >= 0 \/ in.segments = <<>>
           \/ sum >= 0 \/ Distance(in.delta, sum) <= RetryGap
        THEN [verdict |-> verdict, in |-> in]
        ELSE Better(in, verdict, again, Judge(again))

Judged(in) == SegmentRetry(in, Judge(in))

(* One tray of the trigger, judged over its own change.                      *)
Alone(in, tray, candidates) ==
    [in EXCEPT !.delta = tray.delta, !.segments = tray.segments, !.candidates = candidates]

Firsts(in, trays) ==
    [k \in 1 .. Len(trays) |-> Judged(Alone(in, trays[k], in.candidates))]

Classes(in, bill) == {in.products[p].cls : p \in DOMAIN bill}
Ended(judged, k, status) == judged[k].verdict.status = status

(* Mutant: what the second pass completes is taken from the pool as well.    *)
ConsumedSoFar(in, judged) ==
    UNION {Classes(in, judged[k].verdict.bill) :
              k \in {j \in DOMAIN judged : Ended(judged, j, "complete")}}

(* What the first pass has explained (a second pass has another pool).       *)
Consumed(in, judged) ==
    UNION {Classes(in, judged[k].verdict.bill) :
              k \in {j \in DOMAIN judged : /\ Ended(judged, j, "complete")
                                           /\ judged[j].in.candidates = in.candidates}}

(* _pool_exhaustion_retry: an undecided tray is judged once more without     *)
(* what its siblings have explained; only a complete verdict replaces.       *)
Replaced(old, judged) ==
    IF judged.verdict.status = "complete" /\ judged.verdict.bill # Empty THEN judged ELSE old

Without(candidates, classes) == Filtered(candidates, LAMBDA c : c.cls \notin classes)

Second(in, tray, first, left) ==
    IF first.verdict.status # "complete" /\ left # <<>> /\ left # in.candidates
    THEN Replaced(first, Judged(Alone(in, tray, left)))
    ELSE first

Seconds(in, trays, judged) ==
    LET left == Without(in.candidates, Consumed(in, judged))
    IN  [k \in 1 .. Len(trays) |-> Second(in, trays[k], judged[k], left)]
-----------------------------------------------------------------------------
(* The merge.  A partial verdict is charged if no other tray's verdict       *)
(* shares a product with it.  Pieces add up without regard to the stock.     *)
Charged(judged, k) == judged[k].verdict.bill # Empty

Billable(in, judged) ==
    {k \in DOMAIN judged :
        /\ Charged(judged, k)
        /\ \/ Ended(judged, k, "complete")
           \/ /\ Ended(judged, k, "partial")
              /\ \A j \in DOMAIN judged \ {k} :
                    Charged(judged, j) /\ (Ended(judged, j, "complete")
                                           \/ Ended(judged, j, "partial")) =>
                        Classes(in, judged[k].verdict.bill)
                            \cap Classes(in, judged[j].verdict.bill) = {}}

Confidence(judged, S) == Min({judged[k].verdict.conf : k \in S})

Charge(in, judged) ==
    AddAll([k \in DOMAIN judged |->
               IF k \in Billable(in, judged) THEN judged[k].verdict.bill ELSE Empty])

(* A reason that names a refit or the near gate, in any part of it, says     *)
(* that the weight did not confirm the identity.  That of a merged verdict   *)
(* lists those of all trays, charged or not.                                 *)
Refitted ==
    {"freezer_vision_first_refit", "freezer_vision_first_near_gate",
     "freezer_vision_first_near_gate_low_conf", "multi_tray[refit]"}

MergedReason(judged) ==
    IF \E k \in DOMAIN judged : judged[k].verdict.reason \in Refitted
    THEN "multi_tray[refit]" ELSE "multi_tray"

Merged(in, judged) ==
    LET decided == {k \in DOMAIN judged : Charged(judged, k) /\ Ended(judged, k, "complete")}
        bill    == Charge(in, judged)
        why     == MergedReason(judged)
    IN  IF decided = DOMAIN judged THEN Complete(bill, Confidence(judged, DOMAIN judged), why)
        ELSE IF Billable(in, judged) # {}
        THEN Partial(bill, Confidence(judged, Billable(in, judged)), why)
        ELSE NoDetection(why)
-----------------------------------------------------------------------------
(* The trigger as a whole, and the event it leaves in the log.  One pass     *)
(* after the other: each takes the verdicts of the pass before as a value.   *)
Value(S) == CHOOSE v \in S : TRUE    \* of a set that has but one

OfTrigger(in, trays) ==
    IF Many(in, trays)
    THEN Value({Merged(in, second) :
                   second \in {Seconds(in, trays, first) : first \in {Firsts(in, trays)}}})
    ELSE Judged(in).verdict

Entry(delta, segments, candidates, verdict) ==
    [delta |-> delta, segments |-> segments, candidates |-> candidates, verdict |-> verdict]

Outcome(in, trays) ==
    IF in.products = <<>>
    THEN Entry(0, <<>>, <<>>, NoDetection("empty_allowlist_fail_closed"))
    ELSE IF Slight(in)
    THEN Entry(in.delta, in.segments, <<>>, NoDetection("below_min_weight_change"))
    ELSE Entry(in.delta, in.segments, in.candidates, OfTrigger(in, trays))

(* Anything that raises (I1).                                                *)
Failure == Entry(0, <<>>, <<>>, Verdict("error", Empty, 0, "processing_error"))
=============================================================================
