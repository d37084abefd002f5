--------------------------- MODULE TriggerJudgment ---------------------------
(* The judgement of one trigger (service/pipeline.py, _process after the     *)
(* load cells have been analysed): the checks that spare the vision, one     *)
(* judgement per tray, a second one for the trays that could not be decided  *)
(* when a sibling has explained what was seen, and the merge into one bill.  *)
(* What the load cells and the cameras say is chosen at the start.           *)
EXTENDS Trays

CONSTANTS
    Profile,        \* profiles of the zone
    Shop,           \* snapshots of the products on sale
    Candidates,     \* what may have been seen
    Events          \* what may have changed: per tray, the steps and their sum

(* A tolerance below what a load cell resolves would mean nothing            *)
(* (profiles.py, C3).  The vote sums up each class once.                     *)
ASSUME JudgmentAssumption ==
    /\ Profile \subseteq ProfileType /\ \A p \in Profile : p.tolerance >= NearestGrams
    /\ Shop \subseteq Seq(ProductType)
    /\ Candidates \subseteq Seq(CandidateType) /\ \A c \in Candidates : Distinct(c)
    /\ Events \subseteq Seq(TrayType)

VARIABLES
    pc,         \* "start", "judge", "again", "merge", "done"
    ctx,        \* the context of the trigger
    trays,      \* the weight events, one per tray
    next,       \* the tray to judge
    verdicts,   \* per tray: the verdict, and the context it was reached in
    result      \* of the trigger

vars == <<pc, ctx, trays, next, verdicts, result>>

Init ==
    /\ pc = "start" /\ next = 1 /\ verdicts = <<>> /\ result = Undecided
    /\ trays \in Events
    /\ \E profile \in Profile, products \in Shop, candidates \in Candidates, v \in BOOLEAN :
          ctx = Zone(profile, products, candidates, trays, v)
-----------------------------------------------------------------------------
(* No products: no inference (I2).  A small change: no vision.               *)
Spare ==
    /\ pc = "start"
    /\ \/ /\ ctx.products = <<>>
          /\ result' = NoDetection("empty_allowlist_fail_closed")
       \/ /\ ctx.products # <<>> /\ Slight(ctx)
          /\ result' = NoDetection("below_min_weight_change")
    /\ pc' = "done"
    /\ UNCHANGED <<ctx, trays, next, verdicts>>

(* The frames have been seen.                                                *)
See ==
    /\ pc = "start" /\ ctx.products # <<>> /\ ~Slight(ctx)
    /\ pc' = "judge"
    /\ UNCHANGED <<ctx, trays, next, verdicts, result>>

(* One judgement of the whole zone, or one per tray in turn.                 *)
JudgeZone ==
    /\ pc = "judge" /\ ~Many(ctx, trays)
    /\ verdicts' = <<Judged(ctx)>>
    /\ result' = verdicts'[1].verdict
    /\ pc' = "done"
    /\ UNCHANGED <<ctx, trays, next>>

JudgeTray ==
    /\ pc = "judge" /\ Many(ctx, trays)
    /\ verdicts' = Append(verdicts, Judged(Alone(ctx, trays[next], ctx.candidates)))
    /\ next' = IF next = Len(trays) THEN 1 ELSE next + 1
    /\ pc' = IF next = Len(trays) THEN "again" ELSE "judge"
    /\ UNCHANGED <<ctx, trays, result>>

JudgeAgain ==
    /\ pc = "again"
    /\ verdicts' = [verdicts EXCEPT ![next] =
          Second(ctx, trays[next], @, Without(ctx.candidates, Consumed(ctx, verdicts)))]
    /\ next' = IF next = Len(trays) THEN 1 ELSE next + 1
    /\ pc' = IF next = Len(trays) THEN "merge" ELSE "again"
    /\ UNCHANGED <<ctx, trays, result>>

Merge ==
    /\ pc = "merge"
    /\ result' = Merged(ctx, verdicts)
    /\ pc' = "done"
    /\ UNCHANGED <<ctx, trays, next, verdicts>>

(* Anything that raises ends the trigger with an error and no bill (I1).     *)
Fail ==
    /\ pc # "done"
    /\ pc' = "done" /\ result' = Failure.verdict
    /\ UNCHANGED <<ctx, trays, next, verdicts>>

Next == Spare \/ See \/ JudgeZone \/ JudgeTray \/ JudgeAgain \/ Merge \/ Fail

Spec == Init /\ [][Next]_vars
-----------------------------------------------------------------------------
(* The state is of the declared shape; every verdict keeps to the stock.     *)
TypeOK ==
    /\ pc \in {"start", "judge", "again", "merge", "done"}
    /\ trays \in Events /\ ctx.products \in Shop /\ ctx.profile \in Profile
    /\ next \in 1 .. Most(1, Len(trays))
    /\ Len(verdicts) <= Most(1, Len(trays))
    /\ \A k \in DOMAIN verdicts :
          /\ verdicts[k].verdict.status \in {"complete", "partial", "no_detection"}
          /\ InStock(ctx, verdicts[k].verdict.bill)
    /\ result.status \in {"none", "complete", "partial", "no_detection", "error"}

(* A verdict was reached in the context of its tray: over its change, or     *)
(* the sum of its steps where the two disagree.                              *)
OfTray(k) ==
    LET in == verdicts[k].in IN
    \/ ~Many(ctx, trays)
    \/ in.delta = trays[k].delta
    \/ /\ in.delta = Sum(trays[k].segments)
       /\ ~(Distance(trays[k].delta, in.delta) <= RetryGap)

Explained(in, bill) ==
    Distance(Weight(in, bill), Target(in)) <= Allowed(in, Pieces(bill))

EachTrayExplained ==
    pc = "done" /\ result.status = "complete" /\ ~ctx.visionOnly =>
        \A k \in DOMAIN verdicts :
            OfTray(k) /\ Explained(verdicts[k].in, verdicts[k].verdict.bill)

(* I6 for the whole trigger (enforce_full_delta_match, the retries and the   *)
(* merge): a trigger that ends complete charges for all of the weight, tray  *)
(* by tray.                                                                  *)
CompleteExplains ==
    /\ EachTrayExplained
    /\ pc = "done" /\ result.status = "complete" /\ ~ctx.visionOnly =>
          Weight(ctx, result.bill) =
              Sum([k \in DOMAIN verdicts |-> Weight(ctx, verdicts[k].verdict.bill)])

(* I-V (FreezerVisionFirstStrategy): in the freezer weight does not choose   *)
(* between products that were seen.                                          *)
WeightDoesNotChoose ==
    \A k \in DOMAIN verdicts : ChosenBySight(verdicts[k].in, verdicts[k].verdict.bill)

(* The weight refutes (relaxed_partial's ceiling, RelaxedIdentityPartial):   *)
(* no strategy, with or without a retry, charges for a product one piece of  *)
(* which is much heavier than all that was taken.                            *)
NothingTooHeavy ==
    \A k \in DOMAIN verdicts : NoneTooHeavy(verdicts[k].in, verdicts[k].verdict.bill)

(* The trays of a trigger have no order (_pool_exhaustion_retry: what is     *)
(* consumed is fixed before the second pass): a tray that another one        *)
(* mirrors is charged the same, whichever comes first.                       *)
TraysHaveNoOrder ==
    pc = "merge" =>
        \A j, k \in DOMAIN trays :
            trays[j] = trays[k] => verdicts[j].verdict = verdicts[k].verdict
=============================================================================
