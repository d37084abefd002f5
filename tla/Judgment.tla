------------------------------- MODULE Judgment -------------------------------
(* Which products a removal is charged for: the strategies of                *)
(* judgment/strategies.py in the order of judgment/router.py, over the       *)
(* weight matcher of judgment/strict.py.  A context holds                    *)
(*   profile     tolerance, gate and whether weight tells products apart     *)
(*   delta       the weight change in grams, negative for a removal          *)
(*   segments    the steps it was made in                                    *)
(*   candidates  what was seen: class, confidence, votes                     *)
(*   products    what is on sale: class (-1 when unmapped), weight, stock    *)
(*   visionOnly  the load cells cannot be trusted                            *)
(* A product is its position in ctx.products, a bill the number of pieces of *)
(* each product charged.  Weights are whole grams, confidences of candidates *)
(* percentages and those of verdicts ten-thousandths, so that comparisons    *)
(* are exact.  Mapped classes are one to one with products.                  *)
EXTENDS Integers, Sequences, Lists

CONSTANT SegmentCombo   \* segment_combo

MaxItems     == 6       \* StrictWeightMatcher
MaxKinds     == 3
IdentityPool == 6       \* FreezerVisionFirstStrategy
ComboKinds   == 4
ComboItems   == 12
SingleShare  == 50
ComboShare   == 30
RefitShare   == 10
NearFactor   == 2
UnitSlack    == 5
ConfOverride == 90
ConfMargin   == 15
RefitFloor   == 80
ComboSegments == 2
PartialFloor == 1800    \* partial_min_confidence
RelaxFactor  == 2
LooseFactor  == 3       \* detected_single, and the refutation of relaxed_partial
NearestGrams == 5       \* relaxed_loadcell_only

Refrigerator == [discriminative |-> TRUE, tolerance |-> 5, gate |-> 5, minChange |-> 5]
Freezer      == [discriminative |-> FALSE, tolerance |-> 15, gate |-> 15, minChange |-> 5]

(* What a context is made of; a class is a candidate once.                   *)
ProfileType   == [discriminative : BOOLEAN, tolerance : Nat, gate : Nat, minChange : Nat]
ProductType   == [cls : Int, weight : Nat, stock : Nat]
CandidateType == [cls : Int, conf : Nat, votes : Nat]

Distinct(candidates) ==
    \A i, j \in DOMAIN candidates : candidates[i].cls = candidates[j].cls => i = j

Distance(a, b) == IF a < b THEN b - a ELSE a - b
Size(n)        == IF n < 0 THEN -n ELSE n
Least(a, b)    == IF a < b THEN a ELSE b
Most(a, b)     == IF a < b THEN b ELSE a

(* The element of S that comes before all others.                            *)
First(S, Before(_, _)) == CHOOSE x \in S : \A y \in S \ {x} : Before(x, y)
-----------------------------------------------------------------------------
(* Bills and verdicts.                                                       *)
Empty             == [q \in {} |-> 0]
Count(bill, p)    == IF p \in DOMAIN bill THEN bill[p] ELSE 0
Add(a, b)         == [p \in DOMAIN a \cup DOMAIN b |-> Count(a, p) + Count(b, p)]
AddAll(bills)     == FoldLeft(Add, Empty, bills)
Pieces(bill)      == MapThenSumSet(LAMBDA p : bill[p], DOMAIN bill)
Weight(ctx, bill) == MapThenSumSet(LAMBDA p : bill[p] * ctx.products[p].weight, DOMAIN bill)
Single(p, n)      == [q \in {p} |-> n]

Verdict(status, bill, conf, reason) ==
    [status |-> status, bill |-> bill, conf |-> conf, reason |-> reason]

Undecided               == Verdict("none", Empty, 0, "")
OrElse(one, other)      == IF one # Undecided THEN one ELSE other
NoDetection(reason)     == Verdict("no_detection", Empty, 0, reason)
Complete(b, conf, why)  == Verdict("complete", b, conf, why)
Partial(b, conf, why)   == Verdict("partial", b, conf, why)

Target(ctx)   == Size(ctx.delta)
Stocked(ctx)  == {p \in DOMAIN ctx.products : ctx.products[p].stock > 0}
Removals(ctx) == Filtered(ctx.segments, LAMBDA d : d < 0)

(* Python's round: halves go to the even side.                               *)
Round(a, b) ==
    LET q == a \div b
        r == a % b
    IN  IF 2 * r > b \/ (2 * r = b /\ q % 2 = 1) THEN q + 1 ELSE q

(* As many pieces of p as come nearest to the target, and what is left.      *)
(* Mutant: without regard to the stock.                                      *)
FitUncapped(ctx, p) == Most(1, Round(Target(ctx), ctx.products[p].weight))

Fit(ctx, p) ==
    LET w == ctx.products[p].weight
    IN  Least(Most(1, Round(Target(ctx), w)), ctx.products[p].stock)

Residual(ctx, p, n) == Distance(Target(ctx), n * ctx.products[p].weight)
-----------------------------------------------------------------------------
(* What was seen.  Candidates are ranked by votes, then by confidence; a     *)
(* mapped class in stock is a product.                                       *)
Ranked(ctx, i, j) ==
    LET c == ctx.candidates[i]
        d == ctx.candidates[j]
    IN  \/ c.votes > d.votes
        \/ c.votes = d.votes /\ c.conf > d.conf
        \/ c.votes = d.votes /\ c.conf = d.conf /\ i < j

Surer(ctx, i, j) ==
    LET c == ctx.candidates[i]
        d == ctx.candidates[j]
    IN  \/ c.conf > d.conf
        \/ c.conf = d.conf /\ (c.votes > d.votes \/ (c.votes = d.votes /\ i < j))

OfClass(ctx, cls) == {p \in Stocked(ctx) : ctx.products[p].cls = cls /\ cls > 0}
Mapped(ctx, i)    == OfClass(ctx, ctx.candidates[i].cls) # {}
ProductOf(ctx, i) == CHOOSE p \in OfClass(ctx, ctx.candidates[i].cls) : TRUE

(* conf = {c.class_id: c.confidence}                                         *)
Seen(ctx) ==
    LET Of(cls) == CHOOSE i \in DOMAIN ctx.candidates : ctx.candidates[i].cls = cls
    IN  [cls \in {ctx.candidates[i].cls : i \in DOMAIN ctx.candidates} |->
            ctx.candidates[Of(cls)].conf]
-----------------------------------------------------------------------------
(* StrictWeightMatcher: the bills of products seen and in stock that explain *)
(* the target, few of few kinds.  The backtracking search finds them all,    *)
(* but leaves a branch whose weight has reached the upper edge before it     *)
(* adds a product that weighs nothing.                                       *)
Explaining(ctx, conf, target, tolerance) ==
    LET pool    == {p \in Stocked(ctx) : ctx.products[p].cls \in DOMAIN conf}
        most    == Max({1} \cup {Least(MaxItems, ctx.products[p].stock) : p \in pool})
        kinds   == {S \in SUBSET pool : S # {} /\ Cardinality(S) <= MaxKinds}
    IN  {b \in UNION {[S -> 1 .. most] : S \in kinds} :
            /\ \A p \in DOMAIN b : b[p] <= ctx.products[p].stock
            /\ Pieces(b) <= MaxItems
            /\ Distance(Weight(ctx, b), target) <= tolerance
            /\ Weight(ctx, b) = target + tolerance =>
                   \A p \in DOMAIN b : ctx.products[p].weight > 0}

(* Count Occam: several pieces of one product only if they fit better than   *)
(* any single piece does.                                                    *)
Occam(ctx, bills, target) ==
    LET Err(b) == Distance(Weight(ctx, b), target)
        Kinds(b) == Cardinality(DOMAIN b)
        ones   == {b \in bills : Kinds(b) = 1 /\ Pieces(b) = 1}
    IN  {b \in bills : \/ Kinds(b) > 1
                       \/ b \in ones
                       \/ \A one \in ones : Err(b) < Err(one)}

(* 0.6 for the weight, 0.3 for the mean confidence, 0.1 for few kinds; in    *)
(* units of 1 / (60000 * tolerance).                                         *)
Score(ctx, conf, b, target, tolerance) ==
    LET seen == MapThenSumSet(LAMBDA p : conf[ctx.products[p].cls] * b[p], DOMAIN b)
    IN  36000 * Most(0, tolerance - Distance(Weight(ctx, b), target))
        + (180 * tolerance * seen) \div Pieces(b)
        + 600 * tolerance * (12 - 2 * Cardinality(DOMAIN b))

(* The order in which the search, heaviest product first, comes upon bills.  *)
Found(ctx, a, b) ==
    LET differ == {p \in DOMAIN a \cup DOMAIN b : Count(a, p) # Count(b, p)}
        Heavier(p, q) == \/ ctx.products[p].weight > ctx.products[q].weight
                         \/ ctx.products[p].weight = ctx.products[q].weight /\ p < q
        first == First(differ, Heavier)
    IN  Count(a, first) < Count(b, first)

(* The best match: a bill with its score, or none.                           *)
BestMatch(ctx, conf, bills, target, tolerance) ==
    LET score == [b \in bills |-> Score(ctx, conf, b, target, tolerance)]
        Err(b) == Distance(Weight(ctx, b), target)
        Kinds(b) == Cardinality(DOMAIN b)
        Better(a, b) ==
            \/ score[a] > score[b]
            \/ score[a] = score[b] /\ Kinds(a) < Kinds(b)
            \/ score[a] = score[b] /\ Kinds(a) = Kinds(b) /\ Err(a) < Err(b)
            \/ /\ score[a] = score[b] /\ Kinds(a) = Kinds(b) /\ Err(a) = Err(b)
               /\ Found(ctx, a, b)
        Matched(b) == Complete(b, score[b] \div (6 * tolerance), "strict")
    IN  IF bills = {} THEN Undecided ELSE Matched(First(bills, Better))

Match(ctx, conf, target, tolerance) ==
    IF target < tolerance THEN Undecided
    ELSE BestMatch(ctx, conf, Occam(ctx, Explaining(ctx, conf, target, tolerance), target),
                   target, tolerance)
-----------------------------------------------------------------------------
(* Rank 0: no load cells.                                                    *)
VisionOnly(ctx) ==
    LET seen == {i \in DOMAIN ctx.candidates : Mapped(ctx, i)}
        i    == First(seen, LAMBDA a, b : Ranked(ctx, a, b))
    IN  IF ~ctx.visionOnly THEN Undecided
        ELSE IF seen = {} THEN NoDetection("no_vision_candidates")
        ELSE Complete(Single(ProductOf(ctx, i), 1), 70 * ctx.candidates[i].conf, "vision_only")
-----------------------------------------------------------------------------
(* Rank 1: in the freezer vision names the product, weight counts and        *)
(* refutes.  An identity is the index of a candidate that is a product; ids  *)
(* are all identities, top is the leader among them.                         *)
Identities(ctx) ==
    LET all == {i \in DOMAIN ctx.candidates :
                   Mapped(ctx, i) /\ ctx.products[ProductOf(ctx, i)].weight > 0}
    IN  {i \in all : Cardinality({j \in all : Ranked(ctx, j, i)}) < IdentityPool}

Top(ctx, ids)  == First(ids, LAMBDA i, j : Ranked(ctx, i, j))
Pcs(ctx, i)    == Fit(ctx, ProductOf(ctx, i))
Left(ctx, i)   == Residual(ctx, ProductOf(ctx, i), Pcs(ctx, i))
GateOf(ctx, n) == ctx.profile.gate + UnitSlack * (n - 1)
InGate(ctx, i) == Left(ctx, i) <= GateOf(ctx, Pcs(ctx, i))
IsNear(ctx, i) == Left(ctx, i) <= NearFactor * GateOf(ctx, Pcs(ctx, i))
HasShare(ctx, top, i, percent) ==
    100 * ctx.candidates[i].votes >= percent * ctx.candidates[top].votes

Eligible(ctx, top, i) ==
    \/ HasShare(ctx, top, i, SingleShare)
    \/ ctx.candidates[i].conf >= ConfOverride /\ HasShare(ctx, top, i, RefitShare)

Fits(ctx, ids) == {i \in ids : Eligible(ctx, Top(ctx, ids), i) /\ InGate(ctx, i)}

OccamFits(ctx, fits) ==
    LET ones == {i \in fits : Pcs(ctx, i) = 1}
    IN  {i \in fits : i \in ones \/ \A one \in ones : Left(ctx, i) < Left(ctx, one)}

Beats(ctx, i, j) ==   \* _arb_threshold
    LET rival == ctx.candidates[j].conf
    IN  ctx.candidates[i].conf >= IF rival >= ConfOverride THEN rival + ConfMargin
                                  ELSE Least(99, rival + ConfMargin)

(* Stage 1: of the identities that fit, the one with most votes, unless      *)
(* another is much surer; undecided when most votes is not the leader.       *)
Winner(ctx, top, fits) ==
    LET voted == First(fits, LAMBDA i, j : Ranked(ctx, i, j))
        sure  == First(fits, LAMBDA i, j : Surer(ctx, i, j))
    IN  IF fits = {} THEN {}
        ELSE IF Beats(ctx, sure, voted) THEN {sure}
        ELSE IF sure = voted \/ voted = top THEN {voted}
        ELSE {}

(* Mutant: the identity that fits best.                                      *)
WinnersByWeight(ctx, ids) ==
    {i \in Fits(ctx, ids) : \A j \in Fits(ctx, ids) : Left(ctx, i) <= Left(ctx, j)}

Winners(ctx, ids) == Winner(ctx, Top(ctx, ids), OccamFits(ctx, Fits(ctx, ids)))

(* The allocations of stage 3: the leader and others with a share of its     *)
(* votes, at least one piece of each, within the gate of the target.         *)
Allocations(ctx, top, ids) ==
    LET others == {i \in ids \ {top} : HasShare(ctx, top, i, ComboShare)}
        kinds  == {S \in SUBSET others : Cardinality(S) \in 1 .. ComboKinds - 1}
        most   == Max({1} \cup {Least(ComboItems, ctx.products[p].stock) : p \in Stocked(ctx)})
        Grams(a) == MapThenSumSet(LAMBDA i : a[i] * ctx.products[ProductOf(ctx, i)].weight,
                                  DOMAIN a)
    IN  {a \in UNION {[S \cup {top} -> 1 .. most] : S \in kinds} :
            /\ \A i \in DOMAIN a : a[i] <= ctx.products[ProductOf(ctx, i)].stock
            /\ Pieces(a) <= ComboItems
            /\ Distance(Target(ctx), Grams(a)) <= ctx.profile.gate}

BillOf(ctx, a) ==
    [p \in {ProductOf(ctx, i) : i \in DOMAIN a} |->
        a[CHOOSE i \in DOMAIN a : ProductOf(ctx, i) = p]]

(* As few kinds as possible, then the nearest weight, then the most votes,   *)
(* then the first found: leading members before others, then as few as       *)
(* possible of the leader.                                                   *)
Preferred(ctx, a, b) ==
    LET Kinds(c) == Cardinality(DOMAIN c)
        Err(c)   == Distance(Target(ctx), Weight(ctx, BillOf(ctx, c)))
        Votes(c) == MapThenSumSet(LAMBDA i : ctx.candidates[i].votes, DOMAIN c)
        other    == (DOMAIN a \ DOMAIN b) \cup (DOMAIN b \ DOMAIN a)
        i        == Top(ctx, {j \in DOMAIN a : a[j] # Count(b, j)})
        Earlier  == IF other # {} THEN Top(ctx, other) \in DOMAIN a ELSE a[i] < b[i]
    IN  IF Kinds(a) # Kinds(b) THEN Kinds(a) < Kinds(b)
        ELSE IF Err(a) # Err(b) THEN Err(a) < Err(b)
        ELSE Votes(a) > Votes(b) \/ (Votes(a) = Votes(b) /\ Earlier)

Combination(ctx, allocations) ==
    LET Of(a) == Complete(BillOf(ctx, a),
                     (100 * MapThenSumSet(LAMBDA i : ctx.candidates[i].conf, DOMAIN a))
                          \div Cardinality(DOMAIN a), "freezer_vision_first_combo")
    IN  IF allocations = {} THEN Undecided
        ELSE Of(First(allocations, LAMBDA a, b : Preferred(ctx, a, b)))

(* Stage 1+: separate removals may speak for several kinds, one piece each.  *)
Challenge(ctx, i, combo) ==
    LET removed == Len(Removals(ctx))
    IN  IF /\ SegmentCombo
           /\ Pcs(ctx, i) >= 2 /\ Left(ctx, i) > 0
           /\ removed >= ComboSegments
           /\ combo # Undecided
           /\ Distance(Target(ctx), Weight(ctx, combo.bill)) < Left(ctx, i)
           /\ Pieces(combo.bill) <= Least(Pcs(ctx, i), removed)
        THEN [combo EXCEPT !.reason = "freezer_vision_first_segment_combo"] ELSE Undecided

InBand(ctx, winners, combo) ==
    LET i == CHOOSE w \in winners : TRUE
    IN  IF winners = {} THEN Undecided
        ELSE OrElse(Challenge(ctx, i, combo),
                    Complete(Single(ProductOf(ctx, i), Pcs(ctx, i)),
                             100 * ctx.candidates[i].conf, "freezer_vision_first_single"))

(* Stage 2: a leader that nearly fits was weighed with a hand on the shelf.  *)
NearGate(ctx, top) ==
    LET conf == 60 * ctx.candidates[top].conf
    IN  IF ~IsNear(ctx, top) THEN Undecided
        ELSE IF conf < PartialFloor
             THEN Verdict("no_detection", Empty, conf, "freezer_vision_first_near_gate_low_conf")
             ELSE Partial(Single(ProductOf(ctx, top), Pcs(ctx, top)), conf,
                          "freezer_vision_first_near_gate")

(* Stage 4: the leader is refuted; the only other identity that fits.        *)
Chosen(ctx, gated, near) ==
    LET sure == First(gated, LAMBDA i, j : Surer(ctx, i, j))
    IN  IF Cardinality(gated) = 1 THEN gated
        ELSE IF gated # {}
        THEN IF /\ ctx.candidates[sure].conf >= RefitFloor
                /\ \A i \in gated \ {sure} : Beats(ctx, sure, i)
             THEN {sure} ELSE {}
        ELSE IF Cardinality(near) = 1 THEN near ELSE {}

Refit(ctx, others) ==
    LET Of(i)  == Complete(Single(ProductOf(ctx, i), Pcs(ctx, i)), 80 * ctx.candidates[i].conf,
                           "freezer_vision_first_refit")
        Only(chosen) == IF chosen = {} THEN Undecided ELSE Of(CHOOSE w \in chosen : TRUE)
    IN  Only(Chosen(ctx, {i \in others : InGate(ctx, i)}, {i \in others : IsNear(ctx, i)}))

Stages(ctx, top, ids, combo) ==
    OrElse(InBand(ctx, Winners(ctx, ids), combo),
    OrElse(NearGate(ctx, top),
    OrElse(combo,
           Refit(ctx, {i \in ids \ {top} : HasShare(ctx, top, i, RefitShare)}))))

FreezerVisionFirst(ctx, ids) ==
    IF ctx.profile.discriminative \/ ctx.delta >= 0 \/ ids = {} THEN Undecided
    ELSE Stages(ctx, Top(ctx, ids), ids,
                Combination(ctx, Allocations(ctx, Top(ctx, ids), ids)))
-----------------------------------------------------------------------------
(* Ranks 3, 3.5, 7.5: each removal of its own; the pieces add up within the  *)
(* stock.                                                                    *)
MatchEach(ctx, conf, why) ==
    LET steps    == Removals(ctx)
        Sum(match) == FoldLeft(LAMBDA n, m : n + m.conf, 0, match) \div Len(steps)
        Of(match, bill) ==
            IF \/ \E k \in DOMAIN steps : match[k] = Undecided
               \/ \E p \in DOMAIN bill : bill[p] > ctx.products[p].stock
            THEN Undecided
            ELSE Complete(bill, Sum(match), why)
        Added(match) == Of(match, AddAll([k \in DOMAIN match |-> match[k].bill]))
    IN  Added([k \in DOMAIN steps |->
                  Match(ctx, conf, Size(steps[k]), ctx.profile.tolerance)])

SegmentWeightMatching(ctx) ==
    IF ctx.profile.discriminative /\ ctx.candidates # <<>> /\ Len(Removals(ctx)) >= 2
    THEN MatchEach(ctx, Seen(ctx), "segment_weight_matching") ELSE Undecided

(* Without candidates every class in stock is one, of no confidence.         *)
StageCountCombination(ctx, blind) ==
    LET conf == IF ctx.candidates # <<>> THEN Seen(ctx)
                ELSE [cls \in {ctx.products[p].cls : p \in Stocked(ctx)} |-> 0]
        Several(verdict) == IF Pieces(verdict.bill) >= 2 THEN verdict ELSE Undecided
    IN  IF /\ ctx.profile.discriminative
           /\ blind => ctx.candidates = <<>>
           /\ Len(Removals(ctx)) >= 2
        THEN Several(MatchEach(ctx, conf, "stage_count_combo")) ELSE Undecided

(* Rank 4: nothing seen; several pieces of one product, if only one way.     *)
NoCandidateFallback(ctx) ==
    LET ways == {w \in Stocked(ctx) \X (1 .. MaxItems) :
                    /\ w[2] <= ctx.products[w[1]].stock
                    /\ ctx.products[w[1]].weight > 0
                    /\ Residual(ctx, w[1], w[2]) <= ctx.profile.tolerance}
        way  == CHOOSE w \in ways : TRUE
    IN  IF ctx.candidates # <<>> \/ ctx.visionOnly THEN Undecided
        ELSE IF ~ctx.profile.discriminative THEN NoDetection("loadcell_identity_suppressed")
        ELSE IF ways = {} THEN NoDetection("no_candidates_forced_final")
        ELSE IF ways = {way} THEN Complete(Single(way[1], way[2]), 3000, "weight_only")
        ELSE NoDetection("weight_only_ambiguous")

MinWeightGate(ctx) ==
    IF ctx.candidates # <<>> /\ Target(ctx) < ctx.profile.minChange
    THEN NoDetection("below_min_weight_change") ELSE Undecided

(* What was seen and is on sale, with the confidence it was seen with.       *)
SeenProducts(ctx) ==
    {p \in Stocked(ctx) : ctx.products[p].cls > 0 /\ ctx.products[p].cls \in DOMAIN Seen(ctx)}

(* Rank 6: of several products of that weight, the surest.                   *)
SameWeightCollisionGuard(ctx) ==
    LET conf    == Seen(ctx)
        singles == {p \in SeenProducts(ctx) : Residual(ctx, p, 1) <= ctx.profile.tolerance}
        ByConf(p, q) == \/ conf[ctx.products[p].cls] > conf[ctx.products[q].cls]
                        \/ conf[ctx.products[p].cls] = conf[ctx.products[q].cls] /\ p < q
        one     == First(singles, ByConf)
        two     == First(singles \ {one}, ByConf)
    IN  IF ~ctx.profile.discriminative \/ ctx.delta >= 0 \/ Cardinality(singles) < 2
        THEN Undecided
        ELSE IF Distance(ctx.products[one].weight, ctx.products[two].weight)
                    > ctx.profile.tolerance
        THEN Undecided
        ELSE Complete(Single(one, 1), 100 * conf[ctx.products[one].cls],
                      "same_weight_collision_guard")

(* Ranks 7 and 9: the matcher, with the tolerance and with twice as much.    *)
MatchSeen(ctx, factor) ==
    IF ctx.profile.discriminative /\ ctx.candidates # <<>>
    THEN Match(ctx, Seen(ctx), Target(ctx), factor * ctx.profile.tolerance) ELSE Undecided

Strict(ctx)  == MatchSeen(ctx, 1)
Relaxed(ctx) ==
    LET Less(match) == IF match = Undecided THEN Undecided
                       ELSE Complete(match.bill, (8 * match.conf) \div 10, "relaxed_combination")
    IN  Less(MatchSeen(ctx, RelaxFactor))

(* Rank 8: several pieces of one product, the one that fits best.            *)
SameProductCount(ctx) ==
    LET N(p)  == Round(Target(ctx), ctx.products[p].weight)
        fits  == {p \in SeenProducts(ctx) :
                     /\ ctx.products[p].weight > 0
                     /\ N(p) \in 2 .. ctx.products[p].stock
                     /\ Residual(ctx, p, N(p)) <= ctx.profile.tolerance}
        best  == First(fits, LAMBDA p, q :
                     \/ Residual(ctx, p, N(p)) < Residual(ctx, q, N(q))
                     \/ Residual(ctx, p, N(p)) = Residual(ctx, q, N(q)) /\ p < q)
    IN  IF ~ctx.profile.discriminative \/ fits = {} THEN Undecided
        ELSE Complete(Single(best, N(best)), 100 * Seen(ctx)[ctx.products[best].cls],
                      "same_product_count")

(* Rank 9.1: what was seen is not on sale; the nearest product.              *)
RelaxedLoadcellOnly(ctx) ==
    LET Err(p) == Residual(ctx, p, 1)
        p      == First(Stocked(ctx), LAMBDA q, r : Err(q) < Err(r) \/ (Err(q) = Err(r) /\ q < r))
    IN  IF \/ ~ctx.profile.discriminative \/ ctx.candidates = <<>>
           \/ \E i \in DOMAIN ctx.candidates : Mapped(ctx, i)
           \/ Stocked(ctx) = {}
        THEN Undecided
        ELSE IF Err(p) >= NearestGrams THEN Undecided
        ELSE Partial(Single(p, 1), (7000 * (NearestGrams - Err(p))) \div NearestGrams,
                     "relaxed_loadcell_only")

(* Rank 9.2, freezer only: the leader, with its count if the weight agrees.  *)
VisionFirstIdentityPartial(ctx, ids) ==
    LET i == Top(ctx, ids)
        c == ctx.candidates[i]
    IN  IF ctx.profile.discriminative \/ ctx.delta >= 0 \/ ids = {} THEN Undecided
        ELSE IF Left(ctx, i) <= ctx.profile.tolerance
        THEN Complete(Single(ProductOf(ctx, i), Pcs(ctx, i)), 100 * c.conf,
                      "vision_identity_weight_validated")
        ELSE IF 50 * c.conf < PartialFloor THEN Undecided
        ELSE Partial(Single(ProductOf(ctx, i), 1), 50 * c.conf, "vision_first_identity_partial")

(* Rank 9.3: the candidate with most votes, if its weight comes near.        *)
DetectedSingle(ctx) ==
    LET i     == First(DOMAIN ctx.candidates, LAMBDA j, k : Ranked(ctx, j, k))
        p     == ProductOf(ctx, i)
        loose == LooseFactor * ctx.profile.tolerance
        left  == Left(ctx, i)
    IN  IF ctx.delta >= 0 \/ ctx.candidates = <<>> THEN Undecided
        ELSE IF ~Mapped(ctx, i) THEN Undecided
        ELSE IF ctx.products[p].weight <= 0 THEN Undecided
        ELSE IF left > loose THEN Undecided
        ELSE Complete(Single(p, Pcs(ctx, i)),
                      Least(6500, (4500 * (loose - left)) \div loose
                                  + 25 * ctx.candidates[i].conf + 1000),
                      "detected_single_item_fallback")

(* The most one piece can weigh.  Mutant: no weight refutes.                 *)
CeilingNone(ctx) == 1000000

Ceiling(ctx) ==
    Max({Target(ctx)} \cup {Size(d) : d \in {ctx.segments[k] : k \in DOMAIN ctx.segments} \ Nat})
        + LooseFactor * ctx.profile.tolerance

(* Rank 9.4: the first product of the ranking that one piece could be.       *)
RelaxedPartial(ctx) ==
    LET could == {i \in DOMAIN ctx.candidates :
                     Mapped(ctx, i) /\ ctx.products[ProductOf(ctx, i)].weight <= Ceiling(ctx)}
        i     == First(could, LAMBDA j, k : Ranked(ctx, j, k))
    IN  IF ~ctx.profile.discriminative \/ could = {} THEN Undecided
        ELSE IF 50 * ctx.candidates[i].conf < PartialFloor THEN Undecided
        ELSE Partial(Single(ProductOf(ctx, i), 1), 50 * ctx.candidates[i].conf, "relaxed_partial")
-----------------------------------------------------------------------------
(* The router: the order is data, the first that decides wins.               *)
Pipeline ==
    <<"vision_only", "freezer_vision_first", "segment_weight_matching",
      "stage_count_combo_blind", "no_candidate_fallback", "min_weight_gate",
      "same_weight_collision_guard", "strict", "stage_count_combo",
      "same_product_count", "relaxed", "relaxed_loadcell_only",
      "vision_first_identity_partial", "detected_single_item_fallback",
      "relaxed_partial", "forced_final">>

Solve(name, ctx) ==
    CASE name = "vision_only"                   -> VisionOnly(ctx)
      [] name = "freezer_vision_first"          -> FreezerVisionFirst(ctx, Identities(ctx))
      [] name = "segment_weight_matching"       -> SegmentWeightMatching(ctx)
      [] name = "stage_count_combo_blind"       -> StageCountCombination(ctx, TRUE)
      [] name = "no_candidate_fallback"         -> NoCandidateFallback(ctx)
      [] name = "min_weight_gate"               -> MinWeightGate(ctx)
      [] name = "same_weight_collision_guard"   -> SameWeightCollisionGuard(ctx)
      [] name = "strict"                        -> Strict(ctx)
      [] name = "stage_count_combo"             -> StageCountCombination(ctx, FALSE)
      [] name = "same_product_count"            -> SameProductCount(ctx)
      [] name = "relaxed"                       -> Relaxed(ctx)
      [] name = "relaxed_loadcell_only"         -> RelaxedLoadcellOnly(ctx)
      [] name = "vision_first_identity_partial" -> VisionFirstIdentityPartial(ctx, Identities(ctx))
      [] name = "detected_single_item_fallback" -> DetectedSingle(ctx)
      [] name = "relaxed_partial"               -> RelaxedPartial(ctx)
      [] name = "forced_final"                  -> NoDetection("forced_final_no_match")

(* How far a bill of n pieces may be from the weight.                        *)
Allowed(ctx, n) ==
    ctx.profile.tolerance + (IF ctx.profile.discriminative THEN 0 ELSE UnitSlack * Most(0, n - 1))

(* Mutant: what one strategy completes is not looked at again.               *)
EnforceNothing(ctx, verdict) == verdict

(* enforce_full_delta_match: complete only if all of the weight is explained.*)
Enforce(ctx, verdict) ==
    IF \/ verdict.status # "complete" \/ ctx.visionOnly
       \/ Distance(Weight(ctx, verdict.bill), Target(ctx)) <= Allowed(ctx, Pieces(verdict.bill))
    THEN verdict
    ELSE [verdict EXCEPT !.status = "partial"]

Routed(ctx) == FoldLeft(LAMBDA v, name : OrElse(v, Solve(name, ctx)), Undecided, Pipeline)
Judge(ctx)  == Enforce(ctx, Routed(ctx))
-----------------------------------------------------------------------------
(* What a bill should be, whatever strategy it is from.                      *)
InStock(ctx, bill) == \A p \in DOMAIN bill : bill[p] \in 1 .. ctx.products[p].stock

(* Several pieces do not count as a fit where a single piece fits.           *)
FitsToo(ctx, i) ==
    /\ InGate(ctx, i)
    /\ Pcs(ctx, i) > 1 => \A j \in Identities(ctx) : InGate(ctx, j) => Pcs(ctx, j) > 1

(* In the freezer, what is charged alone was not seen with fewer votes and   *)
(* less confidence than another product that fits the weight as well.        *)
ChosenBySight(ctx, bill) ==
    ~ctx.profile.discriminative /\ ~ctx.visionOnly /\ Cardinality(DOMAIN bill) = 1 =>
        \E i \in Identities(ctx) :
            /\ ProductOf(ctx, i) \in DOMAIN bill
            /\ ~ \E j \in Identities(ctx) \ {i} :
                    /\ FitsToo(ctx, j)
                    /\ ctx.candidates[j].votes >= ctx.candidates[i].votes
                    /\ ctx.candidates[j].conf > ctx.candidates[i].conf

(* Where weight tells products apart, one piece of what is charged is not    *)
(* heavier than all that was taken by more than three tolerances.            *)
Observed(ctx) == Max({Size(ctx.delta)} \cup {Size(ctx.segments[j]) : j \in DOMAIN ctx.segments})

NoneTooHeavy(ctx, bill) ==
    ctx.profile.discriminative /\ ~ctx.visionOnly =>
        \A p \in DOMAIN bill : ctx.products[p].weight <= Observed(ctx) + 3 * ctx.profile.tolerance
=============================================================================
