----------------------------- MODULE Settlement -----------------------------
(***************************************************************************)
(* The close-time settlement of ledger/settler.py: from the judged events  *)
(* of a session to what is charged per zone.  First a shopper takes        *)
(* products and puts some back, each time leaving an event in the log;     *)
(* then settle() runs its four layers over the log:                        *)
(*   1. same zone:  removals fill the zone's basket, and a return is       *)
(*      matched by weight with one or two products of the basket;          *)
(*   2. net delta:  baskets heavier than what left the zone are reduced;   *)
(*   3. cross zone: returns still unmatched are tried on other zones;      *)
(*   4. freezer:    the counts of freezer zones are solved anew from the   *)
(*      net weight.                                                        *)
(* settle() runs under the service's lock; the steps of a layer are        *)
(* actions of their own so that properties can speak of each of them.      *)
(*                                                                         *)
(* Weights are whole grams.  The order in which products entered a basket  *)
(* only chooses between equally good matches: the model leaves that choice *)
(* open.  The vision evidence that ranks and vetoes the two-kind           *)
(* combinations of layer 4 is left open in the same way.  The ghost and    *)
(* cross-zone demotions that may precede layer 1 change judgements, which  *)
(* are inputs here.                                                        *)
(***************************************************************************)
EXTENDS Integers, Sequences, FiniteSets, SequencesExt

CONSTANTS
    Zone, Product,
    Freezer,        \* zones whose profile is FREEZER: weight does not identify
    Weight,         \* unit_weight of a product
    Stock,          \* stock_qty of a product
    Tolerance,      \* tolerance_grams of a refrigerated zone
    FreezerGate,    \* tolerance_grams and count_gate of a freezer zone
    UnitSlack,      \* count_unit_slack
    MaxEvents,      \* bound: events in the log
    MaxTake,        \* bound: pieces taken in one event
    MaxBack,        \* bound: pieces put back in one event
    Misjudges       \* bound: wrong judgements are explored

ASSUME SettlementAssumption ==
    /\ IsFiniteSet(Product)
    /\ Freezer \subseteq Zone
    /\ Weight \in [Product -> Nat \ {0}] /\ Stock \in [Product -> Nat]
    /\ Tolerance \in Nat /\ FreezerGate \in Nat /\ UnitSlack \in Nat
    /\ MaxEvents \in Nat /\ MaxTake \in Nat /\ MaxBack \in Nat
    /\ Misjudges \in BOOLEAN

Pieces == [Product -> Nat]
None   == [p \in Product |-> 0]
Some(p, n) == [None EXCEPT ![p] = n]
Grams(pieces) == MapThenSumSet(LAMBDA p : Weight[p] * pieces[p], Product)
Count(pieces) == MapThenSumSet(LAMBDA p : pieces[p], Product)

Tol(z)       == IF z \in Freezer THEN FreezerGate ELSE Tolerance
Distance(a, b) == IF a < b THEN b - a ELSE a - b

VARIABLES
    phase,      \* "shopping", then the layer that runs, then "done"
    log,        \* the events, in the order of their timestamps
    net,        \* sum of the events' delta_weight, per zone
    held,       \* history: what the shopper took from a zone and still holds
    returned,   \* history: grams put back
    honest,     \* history: judgements right, returns where they came from
    next,       \* layer 1: the event to look at
    basket,     \* baskets: pieces charged, per zone and product
    judged,     \* history: pieces added to the basket by judgements
    refunded,   \* history: grams taken out of baskets by layers 1 to 3
    unmatched,  \* returns no product was found for: their zone and grams
    todo        \* layers 2 and 4: zones not visited yet

shopVars == <<log, net, held, returned, honest>>
vars == <<phase, shopVars, next, basket, judged, refunded, unmatched, todo>>

Event  == [zone : Zone, grams : Int, pieces : Pieces]
Return == [zone : Zone, grams : Nat]

TypeOK ==
    /\ phase \in {"shopping", "same_zone", "net_delta", "cross_zone", "freezer", "done"}
    /\ log \in Seq(Event)
    /\ net \in [Zone -> Int]
    /\ held \in [Zone -> Pieces]
    /\ returned \in Nat /\ honest \in BOOLEAN /\ refunded \in Nat
    /\ next \in 1 .. Len(log) + 1
    /\ basket \in [Zone -> Pieces] /\ judged \in [Zone -> Pieces]
    /\ unmatched \in Seq(Return)
    /\ todo \subseteq Zone

Init ==
    /\ phase = "shopping"
    /\ log = <<>> /\ next = 1
    /\ net = [z \in Zone |-> 0]
    /\ held = [z \in Zone |-> None]
    /\ basket = [z \in Zone |-> None] /\ judged = [z \in Zone |-> None]
    /\ returned = 0 /\ honest = TRUE /\ refunded = 0
    /\ unmatched = <<>>
    /\ todo = {}

-----------------------------------------------------------------------------
(* The session: what the shopper does, and the events the pipeline logs.   *)
Shop(z, grams, pieces) ==
    /\ phase = "shopping" /\ Len(log) < MaxEvents
    /\ log' = Append(log, [zone |-> z, grams |-> grams, pieces |-> pieces])
    /\ net' = [net EXCEPT ![z] = @ + grams]
    /\ UNCHANGED <<phase, next, basket, judged, refunded, unmatched, todo>>

(* n pieces of p leave zone z; the event judges them to be m pieces of q.  *)
Take(z, p, n, q, m) ==
    /\ Misjudges \/ (q = p /\ m = n)
    /\ Shop(z, -(n * Weight[p]), Some(q, m))
    /\ held' = [held EXCEPT ![z][p] = @ + n]
    /\ honest' = (honest /\ q = p /\ m = n)
    /\ UNCHANGED returned

(* Pieces taken from zone y are put into zone z: a return is not judged.   *)
PutBack(y, z, back) ==
    /\ back # None
    /\ \A p \in Product : back[p] <= held[y][p]
    /\ Count(back) <= MaxBack
    /\ Shop(z, Grams(back), None)
    /\ held' = [held EXCEPT ![y] = [p \in Product |-> @[p] - back[p]]]
    /\ returned' = returned + Grams(back)
    /\ honest' = (honest /\ y = z)

Settle ==
    /\ phase = "shopping"
    /\ phase' = "same_zone"
    /\ UNCHANGED <<shopVars, next, basket, judged, refunded, unmatched, todo>>

-----------------------------------------------------------------------------
(* Baskets.  remove_one refuses when there is nothing to remove, as a last  *)
(* resort; Without does not, so that ChargedWithinJudged can show that no   *)
(* layer ever asks for that.                                               *)
In(z)         == {p \in Product : basket[z][p] > 0}
Without(z, p) == [basket EXCEPT ![z][p] = @ - 1]
Matches(g, w, tol) == Distance(g, w) <= tol

(* Layer 1, pass_same_zone: the next event in the order of time.           *)
NextEvent == phase = "same_zone" /\ next <= Len(log)

AddRemoval ==
    /\ NextEvent /\ log[next].grams < 0
    /\ LET e == log[next] IN
        /\ basket' = [basket EXCEPT ![e.zone] = [p \in Product |-> @[p] + e.pieces[p]]]
        /\ judged' = [judged EXCEPT ![e.zone] = [p \in Product |-> @[p] + e.pieces[p]]]
    /\ next' = next + 1
    /\ UNCHANGED <<phase, shopVars, refunded, unmatched, todo>>

Singles(e) == {p \in In(e.zone) : Matches(e.grams, Weight[p], Tol(e.zone))}

(* Mutant: one piece of a product is taken out twice.                      *)
PairsOfOne(e) == {pq \in In(e.zone) \X In(e.zone) :
                    Matches(e.grams, Weight[pq[1]] + Weight[pq[2]], Tol(e.zone))}

Pairs(e)   == {pq \in In(e.zone) \X In(e.zone) :
                 /\ pq[1] = pq[2] => basket[e.zone][pq[1]] >= 2
                 /\ Matches(e.grams, Weight[pq[1]] + Weight[pq[2]], Tol(e.zone))}

(* _match_return: a single product, else a pair, else the return is kept   *)
(* for layer 3.                                                            *)
MatchReturn ==
    /\ NextEvent /\ log[next].grams > 0
    /\ LET e == log[next] IN
        \/ \E p \in Singles(e) :
              /\ basket' = Without(e.zone, p)
              /\ refunded' = refunded + Weight[p]
              /\ UNCHANGED unmatched
        \/ /\ Singles(e) = {}
           /\ \E pq \in Pairs(e) :
                 /\ basket' = [Without(e.zone, pq[1]) EXCEPT ![e.zone][pq[2]] = @ - 1]
                 /\ refunded' = refunded + Weight[pq[1]] + Weight[pq[2]]
           /\ UNCHANGED unmatched
        \/ /\ Singles(e) = {} /\ Pairs(e) = {}
           /\ unmatched' = Append(unmatched, [zone |-> e.zone, grams |-> e.grams])
           /\ UNCHANGED <<basket, refunded>>
    /\ next' = next + 1
    /\ UNCHANGED <<phase, shopVars, judged, todo>>

SameZoneDone ==
    /\ phase = "same_zone" /\ next > Len(log)
    /\ todo' = {log[i].zone : i \in DOMAIN log}
    /\ phase' = IF todo' = {} THEN "cross_zone" ELSE "net_delta"
    /\ UNCHANGED <<shopVars, next, basket, judged, refunded, unmatched>>

-----------------------------------------------------------------------------
(* Layer 2, _pass_net_delta: while a basket exceeds the weight that left   *)
(* the zone, the product closest to the excess is taken out, if one is     *)
(* light enough; the first return of the zone that it explains is dropped. *)
(* Mutant of Left: the sign of the net weight is mistaken.                  *)
LeftUnsigned(z) == IF net[z] > 0 THEN net[z] ELSE 0

Left(z)   == IF net[z] < 0 THEN -net[z] ELSE 0
Excess(z) == Grams(basket[z]) - Left(z)

(* Mutant of LightEnough: any product of the basket will do.               *)
AnyOfBasket(z) == In(z)

LightEnough(z) == {p \in In(z) : Weight[p] <= Excess(z) + Tol(z)}
Closest(z) == {p \in LightEnough(z) : \A q \in LightEnough(z) :
                 Distance(Weight[p], Excess(z)) <= Distance(Weight[q], Excess(z))}
ExplainedBy(z, p) == {i \in DOMAIN unmatched :
                        /\ unmatched[i].zone = z
                        /\ Matches(unmatched[i].grams, Weight[p], Tol(z))}

CorrectZone(z) ==
    /\ phase = "net_delta" /\ z \in todo
    /\ Excess(z) > Tol(z)
    /\ \E p \in Closest(z) :
        /\ basket' = Without(z, p)
        /\ refunded' = refunded + Weight[p]
        /\ unmatched' = IF ExplainedBy(z, p) = {} THEN unmatched
                        ELSE RemoveAt(unmatched, Min(ExplainedBy(z, p)))
    /\ UNCHANGED <<phase, shopVars, next, judged, todo>>

(* Mutant of ZoneCorrected: a zone is corrected once, not until it fits.   *)
CorrectedOnce(z) ==
    /\ phase = "net_delta" /\ z \in todo
    /\ todo' = todo \ {z}
    /\ phase' = IF todo' = {} THEN "cross_zone" ELSE "net_delta"
    /\ UNCHANGED <<shopVars, next, basket, judged, refunded, unmatched>>

ZoneCorrected(z) ==
    /\ phase = "net_delta" /\ z \in todo
    /\ Excess(z) <= Tol(z) \/ LightEnough(z) = {}
    /\ todo' = todo \ {z}
    /\ phase' = IF todo' = {} THEN "cross_zone" ELSE "net_delta"
    /\ UNCHANGED <<shopVars, next, basket, judged, refunded, unmatched>>

-----------------------------------------------------------------------------
(* Layer 3, _pass_cross_zone: each return still unmatched takes one        *)
(* product of its weight out of another zone's basket, if there is one.    *)
(* Mutant of Elsewhere: products with a count of 0 are still candidates.   *)
ElsewhereOnce(r) == {zp \in (Zone \ {r.zone}) \X Product :
                       /\ judged[zp[1]][zp[2]] > 0
                       /\ Matches(r.grams, Weight[zp[2]], Tol(zp[1]))}

Elsewhere(r) == {zp \in (Zone \ {r.zone}) \X Product :
                   /\ zp[2] \in In(zp[1])
                   /\ Matches(r.grams, Weight[zp[2]], Tol(zp[1]))}

CrossZone ==
    /\ phase = "cross_zone" /\ unmatched # <<>>
    /\ LET r == Head(unmatched) IN
        \/ \E zp \in Elsewhere(r) :
              /\ basket' = Without(zp[1], zp[2])
              /\ refunded' = refunded + Weight[zp[2]]
        \/ Elsewhere(r) = {} /\ UNCHANGED <<basket, refunded>>
    /\ unmatched' = Tail(unmatched)
    /\ UNCHANGED <<phase, shopVars, next, judged, todo>>

CrossZoneDone ==
    /\ phase = "cross_zone" /\ unmatched = <<>>
    /\ todo' = {log[i].zone : i \in DOMAIN log} \cap Freezer
    /\ phase' = IF todo' = {} THEN "done" ELSE "freezer"
    /\ UNCHANGED <<shopVars, next, basket, judged, refunded, unmatched>>

-----------------------------------------------------------------------------
(* Layer 4, _freezer_resolve.  round() rounds half to even.  A product     *)
(* without a weight, for which the code snaps to none, is left out (see     *)
(* SettlementAssumption).                                                  *)
Rounded(g, w) ==
    LET q == g \div w  r == g % w IN
    IF 2 * r > w \/ (2 * r = w /\ q % 2 = 1) THEN q + 1 ELSE q

(* I3: the gate widens with every piece after the first.                   *)
Gate(pieces) == FreezerGate + UnitSlack * Max({0, Count(pieces) - 1})
WithinGate(g, pieces) == Distance(g, Grams(pieces)) <= Gate(pieces)

(* I12 and I3: n pieces of p are in stock and explain the weight.          *)
SnapOK(p, n, g) == n \in 1 .. Stock[p] /\ WithinGate(g, Some(p, n))

(* _vision_combo: two kinds that explain the weight together.              *)
Combos(g) ==
    {pieces \in [Product -> 0 .. 6] :
        /\ \E p, q \in Product : p # q /\ {r \in Product : pieces[r] > 0} = {p, q}
        /\ \A r \in Product : pieces[r] <= Stock[r]
        /\ WithinGate(g, pieces)}

FreezerResolve(z) ==
    /\ phase = "freezer" /\ z \in todo
    /\ \/ /\ net[z] >= -FreezerGate
          /\ basket' = [basket EXCEPT ![z] = None]
       \/ /\ net[z] < -FreezerGate
          /\ \E p \in Product :
                /\ In(z) = {p}
                /\ LET g == -net[z]
                       n == Rounded(g, Weight[p]) IN
                   \/ /\ n >= 2 \/ ~SnapOK(p, n, g)
                      /\ \E combo \in Combos(g) : basket' = [basket EXCEPT ![z] = combo]
                   \/ /\ SnapOK(p, n, g)
                      /\ basket' = [basket EXCEPT ![z] = Some(p, n)]
                   \/ /\ ~SnapOK(p, n, g)
                      /\ UNCHANGED basket
       \/ /\ net[z] < -FreezerGate /\ Cardinality(In(z)) # 1
          /\ UNCHANGED basket
    /\ todo' = todo \ {z}
    /\ phase' = IF todo' = {} THEN "done" ELSE "freezer"
    /\ UNCHANGED <<shopVars, next, judged, refunded, unmatched>>

-----------------------------------------------------------------------------
Next ==
    \/ \E z \in Zone, p, q \in Product, n, m \in 1 .. MaxTake : Take(z, p, n, q, m)
    \/ \E y, z \in Zone, back \in [Product -> 0 .. MaxBack] : PutBack(y, z, back)
    \/ Settle
    \/ AddRemoval
    \/ MatchReturn
    \/ SameZoneDone
    \/ \E z \in Zone : CorrectZone(z) \/ ZoneCorrected(z)
    \/ CrossZone
    \/ CrossZoneDone
    \/ \E z \in Zone : FreezerResolve(z)

Spec == Init /\ [][Next]_vars
-----------------------------------------------------------------------------
(*                               Properties                                *)

(* I14, no count below zero and no refund of what was not charged: outside *)
(* the freezer, where layer 4 counts anew, a zone is never charged more of *)
(* a product than was judged to leave it, and never a negative number,     *)
(* whatever the order of returns and corrections (remove_one, and the      *)
(* double match in _match_return).                                         *)
ChargedWithinJudged ==
    \A z \in Zone, p \in Product :
        /\ basket[z][p] >= 0
        /\ z \notin Freezer => basket[z][p] <= judged[z][p]

(* The bill follows the scales: once settled, a zone is charged at most    *)
(* the weight that left it and a tolerance, unless every product charged   *)
(* is heavier than the excess -- for wrong judgements, misplaced returns   *)
(* and any number of them (_pass_net_delta, not undone by the later layers).*)
NotOvercharged ==
    phase \in {"cross_zone", "freezer", "done"} =>
        \A z \in Zone :
            LET slack == IF z \in Freezer THEN Gate(basket[z]) ELSE Tol(z) IN
            Excess(z) > slack => \A p \in In(z) : Weight[p] > Excess(z) + Tol(z)

(* A correction never goes below the scales: layer 2 leaves every zone     *)
(* charged at least what left it, less a tolerance, or as it was.          *)
CorrectionStopsAtNet ==
    [][ phase = "net_delta" =>
          \A z \in Zone : basket'[z] # basket[z] =>
              Grams(basket'[z]) >= Left(z) - Tol(z) ]_vars

(* The shelves are told apart by weight: no product weighs what another    *)
(* product, or a pair, weighs, and no pair what another pair weighs.       *)
Separated ==
    \A z \in Zone, p, q, r, s \in Product :
        /\ p # q => ~Matches(Weight[p], Weight[q], Tol(z))
        /\ ~Matches(Weight[p] + Weight[q], Weight[r], Tol(z))
        /\ {p, q} # {r, s} => ~Matches(Weight[p] + Weight[q], Weight[r] + Weight[s], Tol(z))

(* An honest session is billed exactly: if every judgement is right, every *)
(* return goes back where it came from, and no return is of more than two  *)
(* pieces, what a refrigerated zone is charged is what the shopper holds   *)
(* (for products that weight tells apart, alone and in pairs).             *)
HonestBill ==
    (Separated /\ phase = "done" /\ honest /\ MaxBack <= 2) =>
        \A z \in Zone \ Freezer : basket[z] = held[z]
=============================================================================
