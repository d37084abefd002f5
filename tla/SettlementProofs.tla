-------------------------- MODULE SettlementProofs --------------------------
(***************************************************************************)
(* The settlement for every set of zones and products, all weights,        *)
(* stocks, tolerances and bounds:                                          *)
(*   - no count is negative nor, outside the freezer, above what was       *)
(*     judged (ChargeInv, which says nothing of weights);                  *)
(*   - a correction never goes below what left the zone (from TypeOK);     *)
(*   - the bill follows the scales (BillInv: which zones are cleared, per  *)
(*     layer);                                                             *)
(*   - an honest session is billed exactly (HonestInv: layer 1 goes        *)
(*     through the holdings the shopper went through).                     *)
(* The last three are about sums of weights: what Grams and Count are of a *)
(* pile of pieces follows from the lemmas on sums in FoldFacts.            *)
(***************************************************************************)
EXTENDS Settlement, FoldFacts, SequenceTheorems

Logged == [ zone   : Zone,
            grams  : {-(n * Weight[p]) : n \in 1 .. MaxTake, p \in Product}
                       \cup {Grams(back) : back \in [Product -> 0 .. MaxBack]},
            pieces : Pieces ]

Charges == [Zone -> Pieces]

WithinJudged == \A z \in Zone \ Freezer, p \in Product : basket[z][p] <= judged[z][p]

ChargeInv ==
    /\ log \in Seq(Logged)
    /\ next \in Nat \ {0}
    /\ basket \in Charges /\ judged \in Charges
    /\ phase = "freezer" => todo \subseteq Freezer
    /\ WithinJudged

(* The empty pile and a pile of one kind are piles of pieces.              *)
LEMMA Piles ==
    /\ None \in Pieces
    /\ \A p \in Product, n \in Nat : Some(p, n) \in Pieces
BY DEF None, Some, Pieces

LEMMA ChargeInit == Init => ChargeInv
<1> SUFFICES ASSUME Init PROVE ChargeInv
    OBVIOUS
<1>1. log \in Seq(Logged) /\ next \in Nat \ {0}
    BY DEF Init
<1>2. basket \in Charges /\ judged \in Charges
    BY Piles DEF Init, Charges
<1>3. WithinJudged
    BY Piles DEF Init, WithinJudged, None
<1> QED
    BY <1>1, <1>2, <1>3 DEF ChargeInv, Init

(* A step of the session logs one more event and leaves the baskets alone. *)
LEMMA ShopStep ==
    ASSUME ChargeInv, NEW z \in Zone, NEW g, NEW pieces,
           [zone |-> z, grams |-> g, pieces |-> pieces] \in Logged,
           Shop(z, g, pieces)
    PROVE  ChargeInv'
<1>1. log' \in Seq(Logged)
    BY DEF ChargeInv, Shop
<1> QED
    BY <1>1 DEF ChargeInv, Shop, WithinJudged

(* A piece that is in a basket can be taken out of it.                     *)
LEMMA TakenOut ==
    ASSUME basket \in Charges, judged \in Charges, WithinJudged,
           NEW z \in Zone, NEW p \in Product, basket[z][p] > 0,
           basket' = Without(z, p), judged' = judged
    PROVE  basket' \in Charges /\ WithinJudged'
<1>1. basket' \in Charges
    BY DEF Charges, Pieces, Without
<1>2. \A y \in Zone, q \in Product : basket'[y][q] <= basket[y][q]
    BY DEF Charges, Pieces, Without
<1> QED
    BY <1>1, <1>2 DEF WithinJudged, Charges, Pieces

LEMMA TakenOutTwice ==
    ASSUME basket \in Charges, judged \in Charges, WithinJudged,
           NEW z \in Zone, NEW p \in Product, NEW q \in Product,
           basket[z][p] > 0, basket[z][q] > 0, p = q => basket[z][p] >= 2,
           basket' = [Without(z, p) EXCEPT ![z][q] = @ - 1], judged' = judged
    PROVE  basket' \in Charges /\ WithinJudged'
<1>1. Without(z, p) \in Charges /\ Without(z, p)[z][q] > 0
    BY DEF Charges, Pieces, Without
<1>2. \A y \in Zone, r \in Product : Without(z, p)[y][r] <= basket[y][r]
    BY DEF Charges, Pieces, Without
<1>3. basket' \in Charges
    BY <1>1 DEF Charges, Pieces
<1>4. \A y \in Zone, r \in Product : basket'[y][r] <= Without(z, p)[y][r]
    BY <1>1 DEF Charges, Pieces
<1> QED
    BY <1>1, <1>2, <1>3, <1>4 DEF WithinJudged, Charges, Pieces

-----------------------------------------------------------------------------
LEMMA TakeStep ==
    ASSUME ChargeInv, NEW z \in Zone, NEW p \in Product, NEW q \in Product,
           NEW n \in 1 .. MaxTake, NEW m \in 1 .. MaxTake, Take(z, p, n, q, m)
    PROVE  ChargeInv'
<1>1. Some(q, m) \in Pieces
    BY Piles, SettlementAssumption DEF SettlementAssumption
<1>2. [zone |-> z, grams |-> -(n * Weight[p]), pieces |-> Some(q, m)] \in Logged
    BY <1>1 DEF Logged
<1> QED
    BY <1>2, ShopStep DEF Take

LEMMA PutBackStep ==
    ASSUME ChargeInv, NEW y \in Zone, NEW z \in Zone,
           NEW back \in [Product -> 0 .. MaxBack], PutBack(y, z, back)
    PROVE  ChargeInv'
<1>1. [zone |-> z, grams |-> Grams(back), pieces |-> None] \in Logged
    BY Piles DEF Logged
<1> QED
    BY <1>1, ShopStep DEF PutBack

LEMMA AddRemovalStep == ChargeInv /\ AddRemoval => ChargeInv'
<1> SUFFICES ASSUME ChargeInv, AddRemoval PROVE ChargeInv'
    OBVIOUS
<1> DEFINE e == log[next]
<1>1. e.zone \in Zone /\ e.pieces \in Pieces
  <2>1. next \in 1 .. Len(log)
      BY DEF ChargeInv, AddRemoval, NextEvent
  <2>2. e \in Logged
      BY <2>1 DEF ChargeInv
  <2> QED
      BY <2>2 DEF Logged
<1>2. basket' \in Charges /\ judged' \in Charges
    BY <1>1 DEF ChargeInv, AddRemoval, Charges, Pieces
<1>3. \A z \in Zone, p \in Product :
         IF z = e.zone THEN /\ basket'[z][p] = basket[z][p] + e.pieces[p]
                            /\ judged'[z][p] = judged[z][p] + e.pieces[p]
                       ELSE basket'[z][p] = basket[z][p] /\ judged'[z][p] = judged[z][p]
    BY <1>1 DEF ChargeInv, AddRemoval, Charges, Pieces
<1>4. WithinJudged'
  <2> SUFFICES ASSUME NEW z \in Zone \ Freezer, NEW p \in Product
               PROVE  basket'[z][p] <= judged'[z][p]
      BY DEF WithinJudged
  <2>1. basket[z][p] \in Nat /\ judged[z][p] \in Nat /\ e.pieces[p] \in Nat
      BY <1>1 DEF ChargeInv, Charges, Pieces
  <2>2. basket[z][p] <= judged[z][p]
      BY DEF ChargeInv, WithinJudged
  <2> QED
      BY <1>3, <2>1, <2>2
<1>5. (log \in Seq(Logged))' /\ next' \in Nat \ {0} /\ phase' # "freezer"
    BY DEF ChargeInv, AddRemoval, NextEvent, shopVars
<1> QED
    BY <1>2, <1>4, <1>5 DEF ChargeInv

LEMMA MatchReturnStep == ChargeInv /\ MatchReturn => ChargeInv'
<1> SUFFICES ASSUME ChargeInv, MatchReturn PROVE ChargeInv'
    OBVIOUS
<1> DEFINE e == log[next]
<1>1. e.zone \in Zone
  <2>1. next \in 1 .. Len(log)
      BY DEF ChargeInv, MatchReturn, NextEvent
  <2>2. e \in Logged
      BY <2>1 DEF ChargeInv
  <2> QED
      BY <2>2 DEF Logged
<1>2. judged' = judged
    BY DEF MatchReturn
<1>3. basket' \in Charges /\ WithinJudged'
  <2>1. CASE \E p \in Singles(e) : basket' = Without(e.zone, p)
    <3> PICK p \in Singles(e) : basket' = Without(e.zone, p)
        BY <2>1
    <3>1. p \in Product /\ basket[e.zone][p] > 0
        BY DEF Singles, In
    <3> QED
        BY <1>1, <1>2, <3>1, TakenOut DEF ChargeInv
  <2>2. CASE \E pq \in Pairs(e) :
               basket' = [Without(e.zone, pq[1]) EXCEPT ![e.zone][pq[2]] = @ - 1]
    <3> PICK pq \in Pairs(e) :
               basket' = [Without(e.zone, pq[1]) EXCEPT ![e.zone][pq[2]] = @ - 1]
        BY <2>2
    <3>1. /\ pq[1] \in Product /\ pq[2] \in Product
          /\ basket[e.zone][pq[1]] > 0 /\ basket[e.zone][pq[2]] > 0
          /\ pq[1] = pq[2] => basket[e.zone][pq[1]] >= 2
        BY DEF Pairs, In
    <3> QED
        BY <1>1, <1>2, <3>1, TakenOutTwice DEF ChargeInv
  <2>3. CASE basket' = basket
      BY <1>2, <2>3 DEF ChargeInv, WithinJudged
  <2> QED
      BY <2>1, <2>2, <2>3 DEF MatchReturn
<1> QED
    BY <1>2, <1>3 DEF ChargeInv, MatchReturn, NextEvent, shopVars

LEMMA CorrectZoneStep ==
    ASSUME ChargeInv, NEW z \in Zone, CorrectZone(z)
    PROVE  ChargeInv'
<1> PICK p \in Closest(z) : basket' = Without(z, p)
    BY DEF CorrectZone
<1>1. p \in Product /\ basket[z][p] > 0
    BY DEF Closest, LightEnough, In
<1>2. basket' \in Charges /\ WithinJudged'
    BY <1>1, TakenOut DEF ChargeInv, CorrectZone
<1> QED
    BY <1>2 DEF ChargeInv, CorrectZone, shopVars

LEMMA CrossZoneStep == ChargeInv /\ CrossZone => ChargeInv'
<1> SUFFICES ASSUME ChargeInv, CrossZone PROVE ChargeInv'
    OBVIOUS
<1> DEFINE r == Head(unmatched)
<1>1. basket' \in Charges /\ WithinJudged'
  <2>1. CASE \E zp \in Elsewhere(r) : basket' = Without(zp[1], zp[2])
    <3> PICK zp \in Elsewhere(r) : basket' = Without(zp[1], zp[2])
        BY <2>1
    <3>1. zp[1] \in Zone /\ zp[2] \in Product /\ basket[zp[1]][zp[2]] > 0
        BY DEF Elsewhere, In
    <3> QED
        BY <3>1, TakenOut DEF ChargeInv, CrossZone
  <2>2. CASE basket' = basket
      BY <2>2 DEF ChargeInv, CrossZone, WithinJudged
  <2> QED
      BY <2>1, <2>2 DEF CrossZone
<1> QED
    BY <1>1 DEF ChargeInv, CrossZone, shopVars

(* Layer 4 gives a freezer zone another pile of pieces; no other zone.     *)
LEMMA Resolved ==
    ASSUME NEW z \in Zone, FreezerResolve(z)
    PROVE  \/ UNCHANGED basket
           \/ \E pieces \in Pieces : basket' = [basket EXCEPT ![z] = pieces]
<1>1. CASE basket' = [basket EXCEPT ![z] = None]
    BY <1>1, Piles
<1>2. ASSUME NEW g, NEW combo \in Combos(g), basket' = [basket EXCEPT ![z] = combo]
      PROVE  \E pieces \in Pieces : basket' = [basket EXCEPT ![z] = pieces]
  <2>1. combo \in Pieces
      BY <1>2 DEF Combos, Pieces
  <2> QED
      BY <1>2, <2>1
<1>3. ASSUME NEW p \in Product, NEW n, NEW g, SnapOK(p, n, g),
             basket' = [basket EXCEPT ![z] = Some(p, n)]
      PROVE  \E pieces \in Pieces : basket' = [basket EXCEPT ![z] = pieces]
  <2>1. n \in Nat
      BY <1>3, SettlementAssumption DEF SnapOK, SettlementAssumption
  <2> QED
      BY <1>3, <2>1, Piles
<1> QED
    BY <1>1, <1>2, <1>3 DEF FreezerResolve

LEMMA FreezerResolveStep ==
    ASSUME ChargeInv, NEW z \in Zone, FreezerResolve(z)
    PROVE  ChargeInv'
<1>1. z \in Freezer
    BY DEF ChargeInv, FreezerResolve
<1>2. \/ UNCHANGED basket
      \/ \E pieces \in Pieces : basket' = [basket EXCEPT ![z] = pieces]
    BY Resolved
<1>3. basket' \in Charges /\ WithinJudged'
    BY <1>1, <1>2 DEF ChargeInv, FreezerResolve, WithinJudged, Charges
<1> QED
    BY <1>3 DEF ChargeInv, FreezerResolve, shopVars

LEMMA ChargeNext == ChargeInv /\ [Next]_vars => ChargeInv'
<1> SUFFICES ASSUME ChargeInv, [Next]_vars PROVE ChargeInv'
    OBVIOUS
<1>1. CASE \E z \in Zone, p, q \in Product, n, m \in 1 .. MaxTake : Take(z, p, n, q, m)
    BY <1>1, TakeStep
<1>2. CASE \E y, z \in Zone, back \in [Product -> 0 .. MaxBack] : PutBack(y, z, back)
    BY <1>2, PutBackStep
<1>3. CASE Settle
    BY <1>3 DEF ChargeInv, WithinJudged, Settle, shopVars
<1>4. CASE AddRemoval
    BY <1>4, AddRemovalStep
<1>5. CASE MatchReturn
    BY <1>5, MatchReturnStep
<1>6. CASE SameZoneDone
    BY <1>6 DEF ChargeInv, WithinJudged, SameZoneDone, shopVars
<1>7. CASE \E z \in Zone : CorrectZone(z)
    BY <1>7, CorrectZoneStep
<1>8. CASE \E z \in Zone : ZoneCorrected(z)
    BY <1>8 DEF ChargeInv, WithinJudged, ZoneCorrected, shopVars
<1>9. CASE CrossZone
    BY <1>9, CrossZoneStep
<1>10. CASE CrossZoneDone
    BY <1>10 DEF ChargeInv, WithinJudged, CrossZoneDone, shopVars
<1>11. CASE \E z \in Zone : FreezerResolve(z)
    BY <1>11, FreezerResolveStep
<1>12. CASE UNCHANGED vars
    BY <1>12 DEF ChargeInv, WithinJudged, vars, shopVars
<1> QED
    BY <1>1, <1>2, <1>3, <1>4, <1>5, <1>6, <1>7, <1>8, <1>9, <1>10, <1>11, <1>12 DEF Next

(* I14 for every instance: whatever is taken, put back, judged and         *)
(* corrected, no count becomes negative, and no refrigerated zone is       *)
(* charged more of a product than was judged (ledger/settler.py, settle).  *)
THEOREM NothingChargedUnjudged == Spec => []ChargedWithinJudged
<1>1. Init => ChargeInv
    BY ChargeInit
<1>2. ChargeInv /\ [Next]_vars => ChargeInv'
    BY ChargeNext
<1>3. ChargeInv => ChargedWithinJudged
    BY DEF ChargeInv, WithinJudged, ChargedWithinJudged, Charges, Pieces
<1> QED
    BY <1>1, <1>2, <1>3, PTL DEF Spec
-----------------------------------------------------------------------------
(* What the sums of a pile of pieces, Grams and Count, are.                *)
Worth(pieces) == [p \in Product |-> Weight[p] * pieces[p]]

LEMMA WorthType ==
    ASSUME NEW b \in Pieces
    PROVE  Worth(b) \in [Product -> Nat]
<1>1. \A m, n \in Nat : m * n \in Nat
    OBVIOUS
<1> QED
    BY <1>1, SettlementAssumption DEF SettlementAssumption, Worth, Pieces

LEMMA SumsAreTotals ==
    ASSUME NEW b \in Pieces
    PROVE  Grams(b) = Total(Worth(b), Product) /\ Count(b) = Total(b, Product)
<1> DEFINE Def(g) == g = [s \in SUBSET Product |->
               IF s = {} THEN 0
               ELSE Weight[CHOOSE x \in s : TRUE] * b[CHOOSE x \in s : TRUE]
                        + g[s \ {CHOOSE x \in s : TRUE}]]
           f == CHOOSE g : Def(g)
<1>1. Grams(b) = f[Product]
    BY DEF Grams, MapThenSumSet, MapThenFoldSet
<1>2. /\ IsFiniteSet(Product) /\ Worth(b) \in [Product -> Int]
      /\ \A p \in Product : Worth(b)[p] = Weight[p] * b[p]
    BY WorthType, SettlementAssumption DEF SettlementAssumption, Worth
<1> DEFINE w == Worth(b)
<1> HIDE DEF w
<1>3. PICK g : IsSum(g, Product, w) /\ Total(w, Product) = g[Product]
    BY <1>2, TotalIs DEF w
<1>4. ASSUME NEW s \in SUBSET Product, s # {}
      PROVE  w[Pick(s)] = Weight[Pick(s)] * b[Pick(s)]
  <2>1. Pick(s) \in s
      BY <1>4 DEF Pick
  <2> QED
      BY <1>2, <2>1 DEF w
<1>5. Def(g)
  <2>1. ASSUME NEW s \in SUBSET Product
        PROVE  g[s] = IF s = {} THEN 0 ELSE Weight[Pick(s)] * b[Pick(s)] + g[s \ {Pick(s)}]
      BY <1>3, <1>4 DEF IsSum, SumsUp
  <2>2. g = [s \in SUBSET Product |-> g[s]]
      BY <1>3 DEF IsSum
  <2> QED
      BY <2>1, <2>2 DEF Pick
<1>6. Def(f)
  <2> HIDE DEF Def
  <2> QED
      BY <1>5
<1> HIDE DEF f
<1>7. SumsUp(f, Product, w)
  <2>1. ASSUME NEW s \in SUBSET Product
        PROVE  f[s] = IF s = {} THEN 0 ELSE Weight[Pick(s)] * b[Pick(s)] + f[s \ {Pick(s)}]
      BY <1>6 DEF Pick
  <2> QED
      BY <1>4, <2>1 DEF SumsUp
<1> HIDE DEF Def
<1>8. f[Product] = g[Product]
    BY <1>2, <1>3, <1>7, SumUnique
<1>9. Grams(b) = Total(Worth(b), Product)
    BY <1>1, <1>3, <1>8 DEF w
<1>10. Count(b) = Total(b, Product)
    BY DEF Count, Total
<1> QED
    BY <1>9, <1>10

(* A pile weighs, and counts, a natural number; piles put together weigh   *)
(* and count what both do; a pile of one kind, and none.                   *)
LEMMA PileNat ==
    ASSUME NEW b \in Pieces
    PROVE  Grams(b) \in Nat /\ Count(b) \in Nat /\ \A p \in Product : b[p] <= Count(b)
<1>1. IsFiniteSet(Product) /\ b \in [Product -> Nat]
    BY SettlementAssumption DEF SettlementAssumption, Pieces
<1>2. Total(Worth(b), Product) \in Nat
    BY <1>1, WorthType, TotalNat
<1>3. Total(b, Product) \in Nat /\ \A p \in Product : b[p] <= Total(b, Product)
    BY <1>1, TotalNat
<1> QED
    BY <1>2, <1>3, SumsAreTotals

LEMMA PilePlus ==
    ASSUME NEW b \in Pieces, NEW a \in Pieces, NEW c \in Pieces,
           \A p \in Product : b[p] = a[p] + c[p]
    PROVE  Grams(b) = Grams(a) + Grams(c) /\ Count(b) = Count(a) + Count(c)
<1>1. IsFiniteSet(Product)
    BY SettlementAssumption DEF SettlementAssumption
<1>2. Count(b) = Count(a) + Count(c)
  <2>1. b \in [Product -> Int] /\ a \in [Product -> Int] /\ c \in [Product -> Int]
      BY DEF Pieces
  <2>2. Total(b, Product) = Total(a, Product) + Total(c, Product)
      BY <1>1, <2>1, TotalPlus
  <2> QED
      BY <2>2, SumsAreTotals
<1>3. Grams(b) = Grams(a) + Grams(c)
  <2>1. /\ Worth(b) \in [Product -> Int] /\ Worth(a) \in [Product -> Int]
        /\ Worth(c) \in [Product -> Int]
      BY WorthType
  <2>2. ASSUME NEW p \in Product PROVE Worth(b)[p] = Worth(a)[p] + Worth(c)[p]
    <3>1. Weight[p] \in Nat /\ a[p] \in Nat /\ c[p] \in Nat /\ b[p] = a[p] + c[p]
        BY SettlementAssumption DEF SettlementAssumption, Pieces
    <3>2. \A k, m, n \in Nat : k * (m + n) = k * m + k * n
        OBVIOUS
    <3>3. Weight[p] * b[p] = Weight[p] * a[p] + Weight[p] * c[p]
        BY <3>1, <3>2
    <3> QED
        BY <3>3 DEF Worth
  <2>3. Total(Worth(b), Product) = Total(Worth(a), Product) + Total(Worth(c), Product)
      BY <1>1, <2>1, <2>2, TotalPlus
  <2> QED
      BY <2>3, SumsAreTotals
<1> QED
    BY <1>2, <1>3

LEMMA PileOfOne ==
    ASSUME NEW p \in Product, NEW n \in Nat
    PROVE  Grams(Some(p, n)) = n * Weight[p] /\ Count(Some(p, n)) = n
<1> DEFINE b == Some(p, n)
<1>1. IsFiniteSet(Product) /\ b \in Pieces /\ b[p] = n /\ \A q \in Product \ {p} : b[q] = 0
    BY SettlementAssumption, Piles DEF SettlementAssumption, Some, None
<1> HIDE DEF b
<1>2. Total(b, Product) = b[p]
  <2>1. b \in [Product -> Int]
      BY <1>1 DEF Pieces
  <2> QED
      BY <1>1, <2>1, TotalOne
<1>3. Total(Worth(b), Product) = Weight[p] * n
  <2>1. Worth(b) \in [Product -> Int]
      BY <1>1, WorthType
  <2>2. ASSUME NEW q \in Product \ {p} PROVE Worth(b)[q] = 0
    <3>1. Weight[q] \in Nat /\ b[q] = 0
        BY <1>1, SettlementAssumption DEF SettlementAssumption
    <3> QED
        BY <3>1 DEF Worth
  <2>3. Total(Worth(b), Product) = Worth(b)[p]
      BY <1>1, <2>1, <2>2, TotalOne
  <2> QED
      BY <1>1, <2>3 DEF Worth
<1>4. Weight[p] * n = n * Weight[p]
  <2>1. Weight[p] \in Nat
      BY SettlementAssumption DEF SettlementAssumption
  <2> QED
      BY <2>1
<1> QED
    BY <1>1, <1>2, <1>3, <1>4, SumsAreTotals DEF b

LEMMA PileOfNone == Grams(None) = 0 /\ Count(None) = 0
<1>1. IsFiniteSet(Product) /\ None \in Pieces /\ \A q \in Product : None[q] = 0
    BY SettlementAssumption, Piles DEF SettlementAssumption, None
<1>2. Total(None, Product) = 0
  <2>1. None \in [Product -> Int]
      BY <1>1 DEF Pieces
  <2> QED
      BY <1>1, <2>1, TotalNone
<1>3. Total(Worth(None), Product) = 0
  <2>1. Worth(None) \in [Product -> Int]
      BY <1>1, WorthType
  <2>2. ASSUME NEW q \in Product PROVE Worth(None)[q] = 0
    <3>1. Weight[q] \in Nat /\ None[q] = 0
        BY <1>1, SettlementAssumption DEF SettlementAssumption
    <3> QED
        BY <3>1 DEF Worth
  <2> QED
      BY <1>1, <2>1, <2>2, TotalNone
<1> QED
    BY <1>1, <1>2, <1>3, SumsAreTotals

(* Taking a piece out of a pile.                                           *)
LEMMA OneLess ==
    ASSUME NEW b \in Pieces, NEW p \in Product, b[p] > 0
    PROVE  LET rest == [b EXCEPT ![p] = @ - 1] IN
           /\ rest \in Pieces
           /\ Grams(b) = Grams(rest) + Weight[p] /\ Count(b) = Count(rest) + 1
<1> DEFINE rest == [b EXCEPT ![p] = @ - 1]
<1>1. rest \in Pieces /\ Some(p, 1) \in Pieces
    BY Piles DEF Pieces
<1>2. \A q \in Product : b[q] = rest[q] + Some(p, 1)[q]
    BY DEF Pieces, Some, None
<1> HIDE DEF rest
<1>3. Grams(b) = Grams(rest) + Grams(Some(p, 1)) /\ Count(b) = Count(rest) + Count(Some(p, 1))
    BY <1>1, <1>2, PilePlus
<1>4. Grams(Some(p, 1)) = 1 * Weight[p] /\ Count(Some(p, 1)) = 1 /\ Weight[p] \in Nat
    BY PileOfOne, SettlementAssumption DEF SettlementAssumption
<1> QED
    BY <1>1, <1>3, <1>4 DEF rest
-----------------------------------------------------------------------------
(* Type correctness.                                                       *)
LEMMA Parameters ==
    /\ Weight \in [Product -> Nat \ {0}] /\ Stock \in [Product -> Nat]
    /\ Tolerance \in Nat /\ FreezerGate \in Nat /\ UnitSlack \in Nat
    /\ \A z \in Zone : Tol(z) \in Nat
    /\ \A p \in Product : Weight[p] \in Nat /\ Weight[p] > 0
BY SettlementAssumption DEF SettlementAssumption, Tol

LEMMA EventOf ==
    ASSUME TypeOK, next <= Len(log)
    PROVE  /\ log[next] \in Event
           /\ log[next].zone \in Zone /\ log[next].grams \in Int /\ log[next].pieces \in Pieces
<1>1. next \in 1 .. Len(log) /\ log \in Seq(Event)
    BY DEF TypeOK
<1>2. log[next] \in Event
    BY <1>1
<1> QED
    BY <1>2 DEF Event

LEMMA ZonesOf ==
    ASSUME TypeOK
    PROVE  \A i \in DOMAIN log : log[i].zone \in Zone
<1>1. ASSUME NEW i \in DOMAIN log PROVE log[i] \in Event
    BY DEF TypeOK
<1> QED
    BY <1>1 DEF Event

LEMMA TypeInit == Init => TypeOK
BY Piles DEF Init, TypeOK

LEMMA TypeShop ==
    ASSUME TypeOK, NEW z \in Zone, NEW g \in Int, NEW pieces \in Pieces, Shop(z, g, pieces)
    PROVE  /\ log' \in Seq(Event) /\ net' \in [Zone -> Int] /\ next' \in 1 .. Len(log') + 1
           /\ phase' = phase /\ basket' = basket /\ judged' = judged /\ refunded' = refunded
           /\ unmatched' = unmatched /\ todo' = todo
<1>1. [zone |-> z, grams |-> g, pieces |-> pieces] \in Event
    BY DEF Event
<1>2. log' \in Seq(Event) /\ Len(log') = Len(log) + 1
    BY <1>1 DEF TypeOK, Shop
<1>3. net' \in [Zone -> Int]
    BY DEF TypeOK, Shop
<1>4. next' \in 1 .. Len(log') + 1
  <2>1. next \in 1 .. Len(log) + 1 /\ next' = next /\ Len(log) \in Nat
      BY DEF TypeOK, Shop
  <2> QED
      BY <1>2, <2>1
<1> QED
    BY <1>2, <1>3, <1>4 DEF Shop

LEMMA TypeTake ==
    ASSUME TypeOK, NEW z \in Zone, NEW p \in Product, NEW q \in Product,
           NEW n \in 1 .. MaxTake, NEW m \in 1 .. MaxTake, Take(z, p, n, q, m)
    PROVE  TypeOK'
<1>0. n \in Nat /\ m \in Nat
    BY SettlementAssumption DEF SettlementAssumption
<1>1. Some(q, m) \in Pieces /\ -(n * Weight[p]) \in Int
  <2>1. n * Weight[p] \in Int
      BY <1>0, Parameters
  <2> QED
      BY <1>0, <2>1, Piles
<1>2. Shop(z, -(n * Weight[p]), Some(q, m))
    BY DEF Take
<1>3. /\ log' \in Seq(Event) /\ net' \in [Zone -> Int] /\ next' \in 1 .. Len(log') + 1
      /\ phase' = phase /\ basket' = basket /\ judged' = judged /\ refunded' = refunded
      /\ unmatched' = unmatched /\ todo' = todo
    BY <1>1, <1>2, TypeShop
<1>4. held' \in [Zone -> Pieces]
    BY <1>0 DEF TypeOK, Take, Pieces
<1>5. returned' = returned /\ honest' \in BOOLEAN
    BY DEF TypeOK, Take
<1> QED
    BY <1>3, <1>4, <1>5 DEF TypeOK

LEMMA TypePutBack ==
    ASSUME TypeOK, NEW y \in Zone, NEW z \in Zone,
           NEW back \in [Product -> 0 .. MaxBack], PutBack(y, z, back)
    PROVE  TypeOK'
<1>1. back \in Pieces
    BY SettlementAssumption DEF SettlementAssumption, Pieces
<1>2. Grams(back) \in Nat /\ None \in Pieces
    BY <1>1, PileNat, Piles
<1>3. Shop(z, Grams(back), None)
    BY DEF PutBack
<1>4. /\ log' \in Seq(Event) /\ net' \in [Zone -> Int] /\ next' \in 1 .. Len(log') + 1
      /\ phase' = phase /\ basket' = basket /\ judged' = judged /\ refunded' = refunded
      /\ unmatched' = unmatched /\ todo' = todo
    BY <1>2, <1>3, TypeShop
<1>5. held' \in [Zone -> Pieces]
  <2>1. \A p \in Product : back[p] <= held[y][p] /\ held[y][p] \in Nat /\ back[p] \in Nat
      BY <1>1 DEF PutBack, TypeOK, Pieces
  <2>2. [p \in Product |-> held[y][p] - back[p]] \in Pieces
      BY <2>1 DEF Pieces
  <2> QED
      BY <2>2 DEF PutBack, TypeOK
<1>6. returned' \in Nat /\ honest' \in BOOLEAN
    BY <1>2 DEF PutBack, TypeOK
<1> QED
    BY <1>4, <1>5, <1>6 DEF TypeOK

(* Taking pieces out of the baskets leaves piles of pieces.                *)
LEMMA Fewer ==
    ASSUME TypeOK, NEW z \in Zone, NEW p \in Product, basket[z][p] > 0
    PROVE  Without(z, p) \in Charges
BY DEF TypeOK, Pieces, Without, Charges

LEMMA FewerByTwo ==
    ASSUME TypeOK, NEW z \in Zone, NEW p \in Product, NEW q \in Product,
           basket[z][p] > 0, basket[z][q] > 0, p = q => basket[z][p] >= 2
    PROVE  [Without(z, p) EXCEPT ![z][q] = @ - 1] \in Charges
<1>1. Without(z, p) \in Charges /\ Without(z, p)[z][q] > 0
    BY DEF TypeOK, Charges, Pieces, Without
<1> QED
    BY <1>1 DEF Charges, Pieces

LEMMA TypeAddRemoval ==
    ASSUME TypeOK, AddRemoval
    PROVE  TypeOK'
<1> DEFINE e == log[next]
<1>1. next <= Len(log) /\ e.zone \in Zone /\ e.pieces \in Pieces
    BY EventOf DEF AddRemoval, NextEvent
<1>2. next' \in 1 .. Len(log) + 1
  <2>1. next \in 1 .. Len(log) + 1 /\ next' = next + 1 /\ Len(log) \in Nat
      BY DEF AddRemoval, TypeOK
  <2> QED
      BY <1>1, <2>1
<1>3. basket' \in [Zone -> Pieces] /\ judged' \in [Zone -> Pieces]
  <2> HIDE DEF e
  <2>1. /\ basket' = [basket EXCEPT ![e.zone] = [p \in Product |-> @[p] + e.pieces[p]]]
        /\ judged' = [judged EXCEPT ![e.zone] = [p \in Product |-> @[p] + e.pieces[p]]]
      BY DEF AddRemoval, e
  <2>2. basket \in [Zone -> Pieces] /\ judged \in [Zone -> Pieces]
      BY DEF TypeOK, Pieces
  <2>3. ASSUME NEW f \in [Zone -> Pieces]
        PROVE  [f EXCEPT ![e.zone] = [p \in Product |-> @[p] + e.pieces[p]]] \in [Zone -> Pieces]
    <3> DEFINE more == [p \in Product |-> f[e.zone][p] + e.pieces[p]]
    <3>1. more \in Pieces
        BY <1>1 DEF Pieces
    <3> HIDE DEF more
    <3>2. [f EXCEPT ![e.zone] = more] \in [Zone -> Pieces]
        BY <1>1, <3>1
    <3> QED
        BY <3>2 DEF more
  <2> QED
      BY <2>1, <2>2, <2>3
<1> QED
    BY <1>2, <1>3 DEF AddRemoval, NextEvent, TypeOK, shopVars

LEMMA TypeMatchReturn ==
    ASSUME TypeOK, MatchReturn
    PROVE  TypeOK'
<1> DEFINE e == log[next]
<1>1. next <= Len(log) /\ e.zone \in Zone /\ e.grams \in Int /\ e.grams > 0
    BY EventOf DEF MatchReturn, NextEvent
<1>2. next' \in 1 .. Len(log) + 1
  <2>1. next \in 1 .. Len(log) + 1 /\ next' = next + 1 /\ Len(log) \in Nat
      BY DEF MatchReturn, TypeOK
  <2> QED
      BY <1>1, <2>1
<1>3. UNCHANGED <<phase, shopVars, judged, todo>>
    BY DEF MatchReturn
<1>4. basket' \in Charges /\ refunded' \in Nat /\ unmatched' \in Seq(Return)
  <2>0. basket \in Charges /\ refunded \in Nat /\ unmatched \in Seq(Return)
      BY DEF TypeOK, Charges
  <2>1. CASE \E p \in Singles(e) :
                /\ basket' = Without(e.zone, p)
                /\ refunded' = refunded + Weight[p]
                /\ UNCHANGED unmatched
    <3>1. PICK p \in Singles(e) :
              /\ basket' = Without(e.zone, p)
              /\ refunded' = refunded + Weight[p]
              /\ UNCHANGED unmatched
        BY <2>1
    <3>2. p \in Product /\ basket[e.zone][p] > 0
        BY DEF Singles, In
    <3> QED
        BY <1>1, <2>0, <3>1, <3>2, Fewer, Parameters
  <2>2. CASE /\ Singles(e) = {}
             /\ \E pq \in Pairs(e) :
                   /\ basket' = [Without(e.zone, pq[1]) EXCEPT ![e.zone][pq[2]] = @ - 1]
                   /\ refunded' = refunded + Weight[pq[1]] + Weight[pq[2]]
             /\ UNCHANGED unmatched
    <3>1. PICK pq \in Pairs(e) :
              /\ basket' = [Without(e.zone, pq[1]) EXCEPT ![e.zone][pq[2]] = @ - 1]
              /\ refunded' = refunded + Weight[pq[1]] + Weight[pq[2]]
        BY <2>2
    <3>2. /\ pq[1] \in Product /\ pq[2] \in Product
          /\ basket[e.zone][pq[1]] > 0 /\ basket[e.zone][pq[2]] > 0
          /\ pq[1] = pq[2] => basket[e.zone][pq[1]] >= 2
        BY DEF Pairs, In
    <3>3. basket' \in Charges
        BY <1>1, <3>1, <3>2, FewerByTwo
    <3>4. refunded' \in Nat
        BY <2>0, <3>1, <3>2, Parameters
    <3> QED
        BY <2>0, <2>2, <3>3, <3>4
  <2>3. CASE /\ unmatched' = Append(unmatched, [zone |-> e.zone, grams |-> e.grams])
             /\ UNCHANGED <<basket, refunded>>
    <3>1. [zone |-> e.zone, grams |-> e.grams] \in Return
        BY <1>1 DEF Return
    <3> QED
        BY <2>0, <2>3, <3>1
  <2> QED
      BY <2>1, <2>2, <2>3 DEF MatchReturn
<1> QED
    BY <1>2, <1>3, <1>4 DEF TypeOK, shopVars, Charges

(* The first return of the zone that the correction explains is dropped.   *)
LEMMA Dropped ==
    ASSUME TypeOK, NEW i \in DOMAIN unmatched
    PROVE  RemoveAt(unmatched, i) \in Seq(Return)
<1>1. unmatched \in Seq(Return) /\ i \in 1 .. Len(unmatched)
    BY DEF TypeOK
<1>2. SubSeq(unmatched, 1, i - 1) \in Seq(Return)
    BY <1>1, SubSeqProperties
<1>3. SubSeq(unmatched, i + 1, Len(unmatched)) \in Seq(Return)
    BY <1>1, SubSeqProperties
<1> QED
    BY <1>2, <1>3, ConcatProperties DEF RemoveAt

LEMMA TypeCorrectZone ==
    ASSUME TypeOK, NEW z \in Zone, CorrectZone(z)
    PROVE  TypeOK'
<1>1. PICK p \in Closest(z) :
          /\ basket' = Without(z, p)
          /\ refunded' = refunded + Weight[p]
          /\ unmatched' = IF ExplainedBy(z, p) = {} THEN unmatched
                          ELSE RemoveAt(unmatched, Min(ExplainedBy(z, p)))
    BY DEF CorrectZone
<1>2. p \in Product /\ basket[z][p] > 0
    BY DEF Closest, LightEnough, In
<1>3. basket' \in [Zone -> Pieces] /\ refunded' \in Nat
    BY <1>1, <1>2, Fewer, Parameters DEF TypeOK, Charges
<1>4. unmatched' \in Seq(Return)
  <2>1. ASSUME ExplainedBy(z, p) # {}
        PROVE  Min(ExplainedBy(z, p)) \in DOMAIN unmatched
    <3>1. ExplainedBy(z, p) \subseteq DOMAIN unmatched /\ DOMAIN unmatched \subseteq Nat
        BY DEF ExplainedBy, TypeOK
    <3>2. Min(ExplainedBy(z, p)) \in ExplainedBy(z, p)
        BY <2>1, <3>1, MinIs
    <3> QED
        BY <3>1, <3>2
  <2> QED
      BY <1>1, <2>1, Dropped DEF TypeOK
<1>5. UNCHANGED <<phase, shopVars, next, judged, todo>>
    BY DEF CorrectZone
<1> QED
    BY <1>3, <1>4, <1>5 DEF TypeOK, shopVars

LEMMA TypeCrossZone ==
    ASSUME TypeOK, CrossZone
    PROVE  TypeOK'
<1> DEFINE r == Head(unmatched)
<1>1. UNCHANGED <<phase, shopVars, next, judged, todo>>
    BY DEF CrossZone
<1>2. unmatched' \in Seq(Return)
    BY DEF CrossZone, TypeOK
<1>3. basket' \in Charges /\ refunded' \in Nat
  <2>1. CASE \E zp \in Elsewhere(r) :
                /\ basket' = Without(zp[1], zp[2])
                /\ refunded' = refunded + Weight[zp[2]]
    <3>1. PICK zp \in Elsewhere(r) :
              /\ basket' = Without(zp[1], zp[2])
              /\ refunded' = refunded + Weight[zp[2]]
        BY <2>1
    <3>2. zp[1] \in Zone /\ zp[2] \in Product /\ basket[zp[1]][zp[2]] > 0
        BY DEF Elsewhere, In
    <3> QED
        BY <3>1, <3>2, Fewer, Parameters DEF TypeOK
  <2>2. CASE UNCHANGED <<basket, refunded>>
      BY <2>2 DEF TypeOK, Charges
  <2> QED
      BY <2>1, <2>2 DEF CrossZone
<1> QED
    BY <1>1, <1>2, <1>3 DEF TypeOK, shopVars, Charges

LEMMA TypeFreezerResolve ==
    ASSUME TypeOK, NEW z \in Zone, FreezerResolve(z)
    PROVE  TypeOK'
<1>1. basket' \in [Zone -> Pieces]
    BY Resolved DEF TypeOK
<1>2. todo' \subseteq Zone /\ phase' \in {"done", "freezer"}
      /\ UNCHANGED <<shopVars, next, judged, refunded, unmatched>>
    BY DEF TypeOK, FreezerResolve
<1> QED
    BY <1>1, <1>2 DEF TypeOK, shopVars

(* The steps between the layers.                                           *)
LEMMA TypeLayers ==
    ASSUME TypeOK,
           Settle \/ SameZoneDone \/ CrossZoneDone \/ \E z \in Zone : ZoneCorrected(z)
    PROVE  TypeOK'
<1>1. {log[i].zone : i \in DOMAIN log} \subseteq Zone
    BY ZonesOf
<1>2. CASE Settle
    BY <1>2 DEF TypeOK, Settle, shopVars
<1>3. CASE SameZoneDone
    BY <1>1, <1>3 DEF TypeOK, SameZoneDone, shopVars
<1>4. CASE CrossZoneDone
    BY <1>1, <1>4 DEF TypeOK, CrossZoneDone, shopVars
<1>5. CASE \E z \in Zone : ZoneCorrected(z)
    BY <1>5 DEF TypeOK, ZoneCorrected, shopVars
<1> QED
    BY <1>2, <1>3, <1>4, <1>5

LEMMA TypeNext == TypeOK /\ [Next]_vars => TypeOK'
<1> SUFFICES ASSUME TypeOK, [Next]_vars PROVE TypeOK'
    OBVIOUS
<1>1. CASE \E z \in Zone, p, q \in Product, n, m \in 1 .. MaxTake : Take(z, p, n, q, m)
    BY <1>1, TypeTake
<1>2. CASE \E y, z \in Zone, back \in [Product -> 0 .. MaxBack] : PutBack(y, z, back)
    BY <1>2, TypePutBack
<1>3. CASE AddRemoval
    BY <1>3, TypeAddRemoval
<1>4. CASE MatchReturn
    BY <1>4, TypeMatchReturn
<1>5. CASE \E z \in Zone : CorrectZone(z)
    BY <1>5, TypeCorrectZone
<1>6. CASE CrossZone
    BY <1>6, TypeCrossZone
<1>7. CASE \E z \in Zone : FreezerResolve(z)
    BY <1>7, TypeFreezerResolve
<1>8. CASE Settle \/ SameZoneDone \/ CrossZoneDone \/ \E z \in Zone : ZoneCorrected(z)
    BY <1>8, TypeLayers
<1>9. CASE UNCHANGED vars
    BY <1>9 DEF TypeOK, vars, shopVars
<1> QED
    BY <1>1, <1>2, <1>3, <1>4, <1>5, <1>6, <1>7, <1>8, <1>9 DEF Next

(* The settlement's state keeps its shape for all zones, products, weights *)
(* and bounds: in particular a shopper never holds, and a basket never     *)
(* has, less than nothing (ledger/settler.py, settle).                     *)
THEOREM SettlementTyped == Spec => []TypeOK
BY TypeInit, TypeNext, PTL DEF Spec
-----------------------------------------------------------------------------
(* Layer 2 takes only products that leave the zone charged what left it.   *)
LEMMA Excesses ==
    ASSUME TypeOK, NEW z \in Zone
    PROVE  /\ Grams(basket[z]) \in Nat /\ Left(z) \in Nat /\ Excess(z) \in Int
           /\ basket[z] \in Pieces
<1>1. basket[z] \in Pieces /\ net[z] \in Int
    BY DEF TypeOK
<1> QED
    BY <1>1, PileNat DEF Left, Excess

(* A product taken out makes its basket lighter by its weight, and leaves  *)
(* the others as they were.                                                *)
LEMMA Lighter ==
    ASSUME TypeOK, NEW y \in Zone, NEW p \in Product, basket[y][p] > 0,
           basket' = Without(y, p)
    PROVE  /\ Grams(basket'[y]) = Grams(basket[y]) - Weight[p]
           /\ basket'[y] \in Pieces /\ \A q \in Product : basket'[y][q] <= basket[y][q]
           /\ \A z \in Zone \ {y} : basket'[z] = basket[z]
<1>1. basket[y] \in Pieces /\ basket'[y] = [basket[y] EXCEPT ![p] = @ - 1]
    BY DEF TypeOK, Without
<1>2. Grams(basket[y]) = Grams(basket'[y]) + Weight[p] /\ basket'[y] \in Pieces
    BY <1>1, OneLess
<1>3. Grams(basket'[y]) \in Nat /\ Weight[p] \in Nat
    BY <1>2, PileNat, Parameters
<1>4. \A q \in Product : basket'[y][q] <= basket[y][q]
    BY <1>1 DEF Pieces
<1>5. \A z \in Zone \ {y} : basket'[z] = basket[z]
    BY DEF TypeOK, Without
<1> QED
    BY <1>2, <1>3, <1>4, <1>5

LEMMA CorrectionStep ==
    ASSUME TypeOK, Next, phase = "net_delta", NEW z \in Zone, basket'[z] # basket[z]
    PROVE  Grams(basket'[z]) >= Left(z) - Tol(z)
<1>1. PICK y \in Zone : CorrectZone(y)
  <2>1. basket' # basket
      OBVIOUS
  <2>2. \A y \in Zone : ~ZoneCorrected(y)
      BY <2>1 DEF ZoneCorrected
  <2> QED
      BY <2>2 DEF Next, Take, PutBack, Shop, Settle, AddRemoval, MatchReturn, NextEvent,
                  SameZoneDone, CrossZone, CrossZoneDone, FreezerResolve
<1>2. PICK p \in Closest(y) : basket' = Without(y, p)
    BY <1>1 DEF CorrectZone
<1>3. p \in Product /\ basket[y][p] > 0 /\ Weight[p] <= Excess(y) + Tol(y)
    BY DEF Closest, LightEnough, In
<1>4. z = y /\ Grams(basket'[y]) = Grams(basket[y]) - Weight[p]
    BY <1>2, <1>3, Lighter
<1>5. /\ Grams(basket[y]) \in Nat /\ Left(y) \in Nat /\ Tol(y) \in Nat /\ Weight[p] \in Nat
      /\ Excess(y) = Grams(basket[y]) - Left(y)
    BY <1>3, Excesses, Parameters DEF Excess
<1> QED
    BY <1>3, <1>4, <1>5

(* No correction by the net weight goes below what left the zone less a    *)
(* tolerance (_pass_net_delta), for any weights, tolerances and baskets.   *)
THEOREM CorrectionsStop == Spec => CorrectionStopsAtNet
<1>1. TypeOK /\ [Next]_vars =>
          [phase = "net_delta" =>
             \A z \in Zone : basket'[z] # basket[z] =>
                 Grams(basket'[z]) >= Left(z) - Tol(z)]_vars
    BY CorrectionStep
<1> QED
    BY <1>1, SettlementTyped, PTL DEF Spec, CorrectionStopsAtNet
-----------------------------------------------------------------------------
(* The bill follows the scales.  A zone is cleared when its excess is      *)
(* within the tolerance or no product of its basket is light enough to be  *)
(* taken out; layer 2 leaves each zone cleared, and taking more out of a   *)
(* basket (layer 3) leaves a zone cleared.  A zone without events has      *)
(* nothing charged and nothing left it.                                    *)
Cleared(z) == Excess(z) > Tol(z) => \A p \in In(z) : Weight[p] > Excess(z) + Tol(z)

Slack(z) == IF z \in Freezer THEN Gate(basket[z]) ELSE Tol(z)
Follows(z) == Excess(z) > Slack(z) => \A p \in In(z) : Weight[p] > Excess(z) + Tol(z)

LogZones == {log[i].zone : i \in DOMAIN log}

BillInv ==
    /\ TypeOK
    /\ phase \in {"shopping", "same_zone", "net_delta", "cross_zone"} =>
          \A z \in Zone \ LogZones : net[z] = 0 /\ basket[z] = None
    /\ phase = "shopping" => basket = [z \in Zone |-> None]
    /\ phase = "net_delta" => \A z \in LogZones \ todo : Cleared(z)
    /\ phase = "cross_zone" => \A z \in Zone : Cleared(z)
    /\ phase \in {"freezer", "done"} => \A z \in Zone : Follows(z)
    /\ phase = "freezer" => todo \subseteq Freezer

LEMMA Untouched ==
    ASSUME TypeOK, NEW z \in Zone, net[z] = 0, basket[z] = None
    PROVE  Cleared(z)
<1>1. Excess(z) = 0 /\ Tol(z) \in Nat
    BY PileOfNone, Parameters DEF Excess, Left
<1> QED
    BY <1>1 DEF Cleared

(* The gate of a freezer zone is at least its tolerance.                   *)
LEMMA GateWide ==
    ASSUME NEW b \in Pieces
    PROVE  Gate(b) \in Int /\ Gate(b) >= FreezerGate
<1>1. Count(b) \in Nat
    BY PileNat
<1>2. Max({0, Count(b) - 1}) \in Nat
    BY <1>1, MaxOfTwo
<1>3. \A m, n \in Nat : m * n \in Nat
    OBVIOUS
<1>4. UnitSlack * Max({0, Count(b) - 1}) \in Nat
    BY <1>2, <1>3, Parameters
<1> QED
    BY <1>4, Parameters DEF Gate

LEMMA ClearedFollows ==
    ASSUME TypeOK, NEW z \in Zone, Cleared(z)
    PROVE  Follows(z)
<1>1. Slack(z) >= Tol(z) /\ Slack(z) \in Int /\ Tol(z) \in Int /\ Excess(z) \in Int
    BY GateWide, Excesses, Parameters DEF Slack, Tol
<1> QED
    BY <1>1 DEF Cleared, Follows

(* A piece taken out of a basket leaves its zone cleared.                  *)
LEMMA StaysCleared ==
    ASSUME TypeOK, NEW y \in Zone, NEW p \in Product, basket[y][p] > 0,
           basket' = Without(y, p), net' = net, NEW z \in Zone, Cleared(z)
    PROVE  Cleared(z)'
<1>1. /\ Grams(basket'[y]) = Grams(basket[y]) - Weight[p]
      /\ basket'[y] \in Pieces /\ \A q \in Product : basket'[y][q] <= basket[y][q]
      /\ \A x \in Zone \ {y} : basket'[x] = basket[x]
    BY Lighter
<1>2. CASE z # y
  <2>1. basket'[z] = basket[z] /\ net'[z] = net[z]
      BY <1>1, <1>2
  <2> QED
      BY <2>1 DEF Cleared, Excess, Left, In
<1>3. CASE z = y
  <2>1. /\ Grams(basket[z]) \in Nat /\ Left(z) \in Nat /\ Tol(z) \in Nat /\ Weight[p] \in Nat
        /\ Excess(z) = Grams(basket[z]) - Left(z)
      BY Excesses, Parameters DEF Excess
  <2>2. Excess(z)' = Excess(z) - Weight[p]
      BY <1>1, <1>3, <2>1 DEF Excess, Left
  <2>3. \A q \in Product : q \in In(z)' => q \in In(z)
      BY <1>1, <1>3 DEF In, TypeOK, Pieces
  <2>4. \A q \in Product : Weight[q] \in Nat
      BY Parameters
  <2>5. Excess(z) \in Int /\ In(z)' \subseteq Product
      BY <2>1 DEF In
  <2> QED
      BY <2>1, <2>2, <2>3, <2>4, <2>5 DEF Cleared
<1> QED
    BY <1>2, <1>3

LEMMA BillInit == Init => BillInv
<1> SUFFICES ASSUME Init PROVE BillInv
    OBVIOUS
<1>1. TypeOK
    BY TypeInit
<1>2. phase = "shopping" /\ basket = [z \in Zone |-> None] /\ net = [z \in Zone |-> 0]
    BY DEF Init
<1> QED
    BY <1>1, <1>2 DEF BillInv

LEMMA BillShop ==
    ASSUME BillInv, TypeOK', NEW z \in Zone, NEW g, NEW pieces, Shop(z, g, pieces)
    PROVE  BillInv'
<1>1. /\ phase = "shopping" /\ phase' = phase /\ basket' = basket
      /\ log' = Append(log, [zone |-> z, grams |-> g, pieces |-> pieces])
      /\ net' = [net EXCEPT ![z] = @ + g]
    BY DEF Shop
<1>2. TypeOK /\ basket = [y \in Zone |-> None]
    BY <1>1 DEF BillInv
<1>3. LogZones' = LogZones \cup {z}
  <2> DEFINE e == [zone |-> z, grams |-> g, pieces |-> pieces]
  <2>1. /\ DOMAIN log = 1 .. Len(log) /\ DOMAIN log' = 1 .. Len(log) + 1 /\ Len(log) \in Nat
        /\ \A i \in 1 .. Len(log) : log'[i] = log[i]
        /\ log'[Len(log) + 1] = e
    <3>1. log \in Seq(Event)
        BY <1>2 DEF TypeOK
    <3>2. log \in Seq(Event \cup {e}) /\ e \in Event \cup {e}
        BY <3>1
    <3> HIDE DEF e
    <3> QED
        BY <1>1, <3>2, AppendProperties DEF e
  <2>2. e.zone = z
      OBVIOUS
  <2> HIDE DEF e
  <2>3. ASSUME NEW i \in DOMAIN log' PROVE log'[i].zone \in LogZones \cup {z}
    <3>1. CASE i \in 1 .. Len(log)
        BY <2>1, <3>1 DEF LogZones
    <3>2. CASE i = Len(log) + 1
        BY <2>1, <2>2, <3>2
    <3> QED
        BY <2>1, <3>1, <3>2
  <2>4. ASSUME NEW i \in DOMAIN log PROVE log[i].zone \in LogZones'
    <3>1. i \in DOMAIN log' /\ log'[i] = log[i]
        BY <2>1
    <3> QED
        BY <3>1 DEF LogZones
  <2>5. z \in LogZones'
    <3>1. Len(log) + 1 \in DOMAIN log' /\ log'[Len(log) + 1].zone = z
        BY <2>1, <2>2
    <3> QED
        BY <3>1 DEF LogZones
  <2> QED
      BY <2>3, <2>4, <2>5 DEF LogZones
<1>4. ASSUME NEW y \in Zone \ LogZones'
      PROVE  net'[y] = 0 /\ basket'[y] = None
  <2>1. y # z /\ y \in Zone \ LogZones
      BY <1>3
  <2>2. net'[y] = net[y]
      BY <1>1, <1>2, <2>1 DEF TypeOK
  <2> QED
      BY <1>1, <1>2, <2>1, <2>2 DEF BillInv
<1> QED
    BY <1>1, <1>2, <1>4 DEF BillInv

(* The zones of the log when the baskets change but not the events.        *)
LEMMA BillRest ==
    ASSUME BillInv, UNCHANGED shopVars, phase # "shopping", NEW y \in LogZones,
           \A z \in Zone \ {y} : basket'[z] = basket[z]
    PROVE  /\ LogZones' = LogZones
           /\ phase \in {"same_zone", "net_delta", "cross_zone"} =>
                 \A z \in Zone \ LogZones' : net'[z] = 0 /\ basket'[z] = None
<1>1. log' = log /\ net' = net
    BY DEF shopVars
<1>2. LogZones' = LogZones
    BY <1>1 DEF LogZones
<1> QED
    BY <1>1, <1>2 DEF BillInv

LEMMA BillSameZone ==
    ASSUME BillInv, TypeOK', AddRemoval \/ MatchReturn
    PROVE  BillInv'
<1> DEFINE y == log[next].zone
<1>1. /\ phase = "same_zone" /\ next <= Len(log) /\ TypeOK
      /\ UNCHANGED <<phase, shopVars, todo>>
    BY DEF AddRemoval, MatchReturn, NextEvent, BillInv
<1>2. next \in DOMAIN log /\ y \in LogZones
  <2>1. next \in DOMAIN log
      BY <1>1 DEF TypeOK
  <2> QED
      BY <2>1 DEF LogZones
<1>3. \A z \in Zone \ {y} : basket'[z] = basket[z]
  <2>1. CASE AddRemoval
      BY <1>1, <2>1 DEF AddRemoval, TypeOK
  <2>2. CASE MatchReturn
    <3> HIDE DEF y
    <3>1. \/ UNCHANGED basket
          \/ \E p \in Product : basket' = Without(y, p)
          \/ \E p, q \in Product : basket' = [Without(y, p) EXCEPT ![y][q] = @ - 1]
      <4>1. \A p \in Singles(log[next]) : p \in Product
          BY DEF Singles, In
      <4>2. \A pq \in Pairs(log[next]) : pq[1] \in Product /\ pq[2] \in Product
          BY DEF Pairs, In
      <4> QED
          BY <2>2, <4>1, <4>2 DEF MatchReturn, y
    <3> QED
        BY <1>1, <3>1 DEF TypeOK, Without
  <2> QED
      BY <2>1, <2>2
<1> HIDE DEF y
<1>4. \A z \in Zone \ LogZones' : net'[z] = 0 /\ basket'[z] = None
    BY <1>1, <1>2, <1>3, BillRest
<1> QED
    BY <1>1, <1>4 DEF BillInv

LEMMA BillSameZoneDone ==
    ASSUME BillInv, TypeOK', SameZoneDone
    PROVE  BillInv'
<1>1. /\ phase = "same_zone" /\ todo' = LogZones /\ UNCHANGED <<shopVars, basket>>
      /\ phase' = IF todo' = {} THEN "cross_zone" ELSE "net_delta"
      /\ TypeOK
    BY DEF SameZoneDone, LogZones, BillInv
<1>2. LogZones' = LogZones /\ net' = net
    BY <1>1 DEF LogZones, shopVars
<1>3. \A z \in Zone \ LogZones : net[z] = 0 /\ basket[z] = None
    BY <1>1 DEF BillInv
<1>4. \A z \in Zone \ LogZones : Cleared(z)
    BY <1>1, <1>3, Untouched
<1>5. \A z \in Zone \ LogZones : Cleared(z)'
    BY <1>1, <1>2, <1>4 DEF Cleared, Excess, Left, In
<1> QED
    BY <1>1, <1>2, <1>3, <1>5 DEF BillInv

LEMMA BillCorrectZone ==
    ASSUME BillInv, TypeOK', NEW y \in Zone, CorrectZone(y)
    PROVE  BillInv'
<1>1. /\ phase = "net_delta" /\ y \in todo /\ Excess(y) > Tol(y)
      /\ UNCHANGED <<phase, shopVars, todo>> /\ TypeOK
    BY DEF CorrectZone, BillInv
<1>2. PICK p \in Closest(y) : basket' = Without(y, p)
    BY DEF CorrectZone
<1>3. p \in Product /\ basket[y][p] > 0
    BY DEF Closest, LightEnough, In
<1>4. y \in LogZones
  <2> SUFFICES ASSUME y \in Zone \ LogZones PROVE FALSE
      OBVIOUS
  <2>1. basket[y] = None
      BY <1>1 DEF BillInv
  <2> QED
      BY <1>3, <2>1 DEF None
<1>5. \A z \in Zone \ {y} : basket'[z] = basket[z]
    BY <1>1, <1>2, <1>3, Lighter
<1>6. LogZones' = LogZones /\ \A z \in Zone \ LogZones' : net'[z] = 0 /\ basket'[z] = None
    BY <1>1, <1>4, <1>5, BillRest
<1>7. ASSUME NEW z \in LogZones \ todo PROVE Cleared(z)'
  <2>1. z \in Zone /\ Cleared(z) /\ net' = net
      BY <1>1, ZonesOf DEF BillInv, LogZones, shopVars
  <2> QED
      BY <1>1, <1>2, <1>3, <2>1, StaysCleared
<1> QED
    BY <1>1, <1>6, <1>7 DEF BillInv

LEMMA BillZoneCorrected ==
    ASSUME BillInv, TypeOK', NEW y \in Zone, ZoneCorrected(y)
    PROVE  BillInv'
<1>1. /\ phase = "net_delta" /\ y \in todo /\ todo' = todo \ {y}
      /\ Excess(y) <= Tol(y) \/ LightEnough(y) = {}
      /\ phase' = IF todo' = {} THEN "cross_zone" ELSE "net_delta"
      /\ UNCHANGED <<shopVars, basket>> /\ TypeOK
    BY DEF ZoneCorrected, BillInv
<1>2. Cleared(y)
  <2>1. Excess(y) \in Int /\ Tol(y) \in Int /\ \A p \in Product : Weight[p] \in Int
      BY <1>1, Excesses, Parameters
  <2>2. In(y) \subseteq Product
      BY DEF In
  <2> QED
      BY <1>1, <2>1, <2>2 DEF Cleared, LightEnough
<1>3. \A z \in LogZones \ todo' : Cleared(z)
    BY <1>1, <1>2 DEF BillInv
<1>4. LogZones' = LogZones /\ net' = net
    BY <1>1 DEF LogZones, shopVars
<1>5. \A z \in Zone \ LogZones : net[z] = 0 /\ basket[z] = None
    BY <1>1 DEF BillInv
<1>6. \A z \in Zone \ LogZones : Cleared(z)
    BY <1>1, <1>5, Untouched
<1>7. \A z : Cleared(z) => Cleared(z)'
    BY <1>1, <1>4 DEF Cleared, Excess, Left, In
<1> QED
    BY <1>1, <1>3, <1>4, <1>5, <1>6, <1>7 DEF BillInv
LEMMA BillCrossZone ==
    ASSUME BillInv, TypeOK', CrossZone
    PROVE  BillInv'
<1>1. phase = "cross_zone" /\ UNCHANGED <<phase, shopVars, todo>> /\ net' = net /\ TypeOK
    BY DEF CrossZone, BillInv, shopVars
<1>2. CASE \E zp \in Elsewhere(Head(unmatched)) : basket' = Without(zp[1], zp[2])
  <2> PICK zp \in Elsewhere(Head(unmatched)) : basket' = Without(zp[1], zp[2])
      BY <1>2
  <2> DEFINE y == zp[1]  p == zp[2]
  <2>1. y \in Zone /\ p \in Product /\ basket[y][p] > 0 /\ basket' = Without(y, p)
      BY DEF Elsewhere, In
  <2> HIDE DEF y, p
  <2>2. y \in LogZones
    <3> SUFFICES ASSUME y \in Zone \ LogZones PROVE FALSE
        BY <2>1
    <3>1. basket[y] = None
        BY <1>1 DEF BillInv
    <3> QED
        BY <2>1, <3>1 DEF None
  <2>3. \A z \in Zone \ {y} : basket'[z] = basket[z]
      BY <1>1, <2>1, Lighter
  <2>4. \A z \in Zone \ LogZones' : net'[z] = 0 /\ basket'[z] = None
      BY <1>1, <2>2, <2>3, BillRest
  <2>5. ASSUME NEW z \in Zone PROVE Cleared(z)'
    <3>1. Cleared(z)
        BY <1>1 DEF BillInv
    <3> QED
        BY <1>1, <2>1, <3>1, StaysCleared
  <2> QED
      BY <1>1, <2>4, <2>5 DEF BillInv
<1>3. CASE UNCHANGED basket
  <2>1. \A z : Cleared(z) => Cleared(z)'
      BY <1>1, <1>3 DEF Cleared, Excess, Left, In
  <2>2. LogZones' = LogZones
      BY <1>1 DEF LogZones, shopVars
  <2> QED
      BY <1>1, <1>3, <2>1, <2>2 DEF BillInv
<1> QED
    BY <1>2, <1>3 DEF CrossZone

LEMMA BillCrossZoneDone ==
    ASSUME BillInv, TypeOK', CrossZoneDone
    PROVE  BillInv'
<1>1. /\ phase = "cross_zone" /\ phase' \in {"freezer", "done"} /\ todo' \subseteq Freezer
      /\ UNCHANGED <<shopVars, basket>> /\ TypeOK
    BY DEF CrossZoneDone, BillInv
<1>2. \A z \in Zone : Follows(z)
    BY <1>1, ClearedFollows DEF BillInv
<1>3. net' = net
    BY <1>1 DEF shopVars
<1>4. \A z \in Zone : Follows(z)'
    BY <1>1, <1>2, <1>3 DEF Follows, Slack, Excess, Left, In
<1> QED
    BY <1>1, <1>4 DEF BillInv

(* A pile within the gate of what left a freezer zone, and an empty pile,  *)
(* is not charged beyond the gate.                                         *)
LEMMA GatedFollows ==
    ASSUME TypeOK, NEW z \in Zone, z \in Freezer, NEW b \in Pieces,
           basket' = [basket EXCEPT ![z] = b], net' = net,
           b = None \/ (net[z] < -FreezerGate /\ WithinGate(-net[z], b))
    PROVE  Follows(z)'
<1>1. basket'[z] = b
    BY DEF TypeOK
<1>2. /\ Grams(b) \in Nat /\ Gate(b) \in Int /\ Gate(b) >= FreezerGate /\ FreezerGate \in Nat
      /\ net[z] \in Int
    BY PileNat, GateWide, Parameters DEF TypeOK
<1>3. Slack(z)' = Gate(b)
    BY <1>1 DEF Slack
<1>4. Excess(z)' = Grams(b) - Left(z)
    BY <1>1 DEF Excess, Left
<1>5. CASE b = None
  <2>1. Grams(b) = 0 /\ Left(z) \in Nat
      BY <1>5, PileOfNone, Excesses
  <2> QED
      BY <1>2, <1>3, <1>4, <2>1 DEF Follows
<1>6. CASE net[z] < -FreezerGate /\ WithinGate(-net[z], b)
  <2>1. Left(z) = -net[z] /\ Grams(b) + net[z] <= Gate(b)
      BY <1>2, <1>6 DEF Left, WithinGate, Distance
  <2> QED
      BY <1>2, <1>3, <1>4, <2>1 DEF Follows
<1> QED
    BY <1>5, <1>6

LEMMA ResolvedWithinGate ==
    ASSUME TypeOK, NEW z \in Zone, FreezerResolve(z)
    PROVE  \/ UNCHANGED basket
           \/ \E b \in Pieces :
                 /\ basket' = [basket EXCEPT ![z] = b]
                 /\ b = None \/ (net[z] < -FreezerGate /\ WithinGate(-net[z], b))
<1> DEFINE Found(b) == /\ b \in Pieces /\ basket' = [basket EXCEPT ![z] = b]
                       /\ b = None \/ (net[z] < -FreezerGate /\ WithinGate(-net[z], b))
<1>1. ASSUME basket' = [basket EXCEPT ![z] = None] PROVE \E b : Found(b)
  <2>1. Found(None)
      BY <1>1, Piles
  <2> HIDE DEF Found
  <2> QED
      BY <2>1
<1>2. ASSUME NEW combo \in Combos(-net[z]), basket' = [basket EXCEPT ![z] = combo],
             net[z] < -FreezerGate
      PROVE  Found(combo)
    BY <1>2 DEF Combos, Pieces
<1>3. ASSUME NEW p \in Product, NEW n, SnapOK(p, n, -net[z]),
             basket' = [basket EXCEPT ![z] = Some(p, n)], net[z] < -FreezerGate
      PROVE  Found(Some(p, n))
  <2>1. n \in Nat /\ WithinGate(-net[z], Some(p, n))
      BY <1>3, Parameters DEF SnapOK
  <2> QED
      BY <1>3, <2>1, Piles
<1> HIDE DEF Found
<1>4. CASE net[z] < -FreezerGate /\ Cardinality(In(z)) # 1 /\ UNCHANGED basket
    BY <1>4
<1>5. ASSUME net[z] < -FreezerGate, NEW p \in Product,
             LET g == -net[z]
                 n == Rounded(g, Weight[p]) IN
             \/ /\ n >= 2 \/ ~SnapOK(p, n, g)
                /\ \E combo \in Combos(g) : basket' = [basket EXCEPT ![z] = combo]
             \/ /\ SnapOK(p, n, g)
                /\ basket' = [basket EXCEPT ![z] = Some(p, n)]
             \/ /\ ~SnapOK(p, n, g)
                /\ UNCHANGED basket
      PROVE  UNCHANGED basket \/ \E b : Found(b)
  <2> DEFINE n == Rounded(-net[z], Weight[p])
  <2>1. \/ \E combo \in Combos(-net[z]) : basket' = [basket EXCEPT ![z] = combo]
        \/ SnapOK(p, n, -net[z]) /\ basket' = [basket EXCEPT ![z] = Some(p, n)]
        \/ UNCHANGED basket
      BY <1>5
  <2> HIDE DEF n
  <2> QED
      BY <1>2, <1>3, <1>5, <2>1
<1>6. UNCHANGED basket \/ \E b : Found(b)
    BY <1>1, <1>4, <1>5 DEF FreezerResolve
<1> QED
    BY <1>6 DEF Found

LEMMA BillFreezerResolve ==
    ASSUME BillInv, TypeOK', NEW y \in Zone, FreezerResolve(y)
    PROVE  BillInv'
<1>1. /\ phase = "freezer" /\ y \in todo /\ todo' = todo \ {y}
      /\ phase' \in {"freezer", "done"} /\ net' = net
      /\ TypeOK /\ y \in Freezer /\ todo \subseteq Freezer /\ \A z \in Zone : Follows(z)
    BY DEF FreezerResolve, BillInv, shopVars
<1>2. CASE UNCHANGED basket
  <2>1. \A z \in Zone : Follows(z)'
      BY <1>1, <1>2 DEF Follows, Slack, Excess, Left, In
  <2> QED
      BY <1>1, <2>1 DEF BillInv
<1>3. ASSUME NEW b \in Pieces, basket' = [basket EXCEPT ![y] = b],
             b = None \/ (net[y] < -FreezerGate /\ WithinGate(-net[y], b))
      PROVE  BillInv'
  <2>1. Follows(y)'
      BY <1>1, <1>3, GatedFollows
  <2>2. ASSUME NEW z \in Zone \ {y} PROVE Follows(z)'
    <3>1. basket'[z] = basket[z] /\ Follows(z)
        BY <1>1, <1>3, <2>2 DEF TypeOK
    <3> QED
        BY <1>1, <3>1 DEF Follows, Slack, Excess, Left, In
  <2>3. \A z \in Zone : Follows(z)'
      BY <2>1, <2>2
  <2> QED
      BY <1>1, <2>3 DEF BillInv
<1> QED
    BY <1>1, <1>2, <1>3, ResolvedWithinGate

LEMMA BillNext == BillInv /\ [Next]_vars => BillInv'
<1> SUFFICES ASSUME BillInv, [Next]_vars PROVE BillInv'
    OBVIOUS
<1>0. TypeOK /\ TypeOK'
    BY TypeNext DEF BillInv
<1>1. CASE \E z \in Zone, p, q \in Product, n, m \in 1 .. MaxTake : Take(z, p, n, q, m)
    BY <1>0, <1>1, BillShop DEF Take
<1>2. CASE \E y, z \in Zone, back \in [Product -> 0 .. MaxBack] : PutBack(y, z, back)
    BY <1>0, <1>2, BillShop DEF PutBack
<1>3. CASE Settle
    BY <1>0, <1>3 DEF BillInv, Settle, shopVars, LogZones
<1>4. CASE AddRemoval \/ MatchReturn
    BY <1>0, <1>4, BillSameZone
<1>5. CASE SameZoneDone
    BY <1>0, <1>5, BillSameZoneDone
<1>6. CASE \E z \in Zone : CorrectZone(z)
    BY <1>0, <1>6, BillCorrectZone
<1>7. CASE \E z \in Zone : ZoneCorrected(z)
    BY <1>0, <1>7, BillZoneCorrected
<1>8. CASE CrossZone
    BY <1>0, <1>8, BillCrossZone
<1>9. CASE CrossZoneDone
    BY <1>0, <1>9, BillCrossZoneDone
<1>10. CASE \E z \in Zone : FreezerResolve(z)
    BY <1>0, <1>10, BillFreezerResolve
<1>11. CASE UNCHANGED vars
    BY <1>0, <1>11 DEF BillInv, vars, shopVars, LogZones, Cleared, Follows, Slack, Excess, Left, In
<1> QED
    BY <1>1, <1>2, <1>3, <1>4, <1>5, <1>6, <1>7, <1>8, <1>9, <1>10, <1>11 DEF Next

LEMMA BillSafe == BillInv => NotOvercharged
<1> SUFFICES ASSUME BillInv, phase \in {"cross_zone", "freezer", "done"}, NEW z \in Zone
             PROVE  Follows(z)
    BY DEF NotOvercharged, Follows, Slack
<1>1. CASE phase = "cross_zone"
    BY <1>1, ClearedFollows DEF BillInv
<1> QED
    BY <1>1 DEF BillInv

(* The bill follows the scales, for any products, weights and tolerances,  *)
(* any judgements and returns and any number of them: once settled, a zone *)
(* is charged at most what left it and its tolerance, unless every product *)
(* charged is heavier than the excess (ledger/settler.py, settle).         *)
THEOREM BillFollowsScales == Spec => []NotOvercharged
BY BillInit, BillNext, BillSafe, PTL DEF Spec
-----------------------------------------------------------------------------
(* An honest session is billed exactly.  Layer 1 goes through the same     *)
(* holdings as the shopper did: there is a history h of what was held      *)
(* before each event, and the baskets are what it says of the event that   *)
(* is next.  A return weighs what was put back, which is one or two pieces *)
(* that are in the basket; weight tells them apart from any others, so     *)
(* that they are the ones taken out, and no return is left unmatched.      *)
(* What left each zone by the scales is then what its basket weighs, and   *)
(* the later layers have nothing to correct outside the freezer.           *)
Honest == Separated /\ honest /\ MaxBack <= 2

Added(a, z, pieces) == [a EXCEPT ![z] = [p \in Product |-> @[p] + pieces[p]]]
Removed(a, z, back) == [a EXCEPT ![z] = [p \in Product |-> @[p] - back[p]]]

IsBack(back, e, a) ==
    /\ back \in Pieces /\ back # None /\ Count(back) <= 2
    /\ \A p \in Product : back[p] <= a[e.zone][p]
    /\ e.grams = Grams(back)

Moved(e, a, b) ==
    \/ e.grams < 0 /\ b = Added(a, e.zone, e.pieces)
    \/ \E back \in Pieces : IsBack(back, e, a) /\ b = Removed(a, e.zone, back)

Story(h) ==
    /\ h \in [1 .. Len(log) + 1 -> Charges]
    /\ h[1] = [z \in Zone |-> None]
    /\ h[Len(log) + 1] = held
    /\ \A i \in 1 .. Len(log) : Moved(log[i], h[i], h[i + 1])

Balanced == \A z \in Zone : net[z] + Grams(held[z]) = 0

HonestInv ==
    Honest =>
        /\ Balanced
        /\ phase = "shopping" => next = 1
        /\ phase \in {"shopping", "same_zone"} => \E h : Story(h) /\ basket = h[next]
        /\ phase \in {"net_delta", "cross_zone"} => basket = held
        /\ phase \in {"freezer", "done"} => \A z \in Zone \ Freezer : basket[z] = held[z]
        /\ phase \in {"shopping", "same_zone", "net_delta", "cross_zone"} => unmatched = <<>>

LEMMA Weighs ==
    ASSUME NEW b \in Pieces, b # None
    PROVE  Grams(b) > 0 /\ \E p \in Product : b[p] > 0
<1>1. \E p \in Product : b[p] # 0
    BY DEF Pieces, None
<1>2. PICK p \in Product : b[p] > 0
    BY <1>1 DEF Pieces
<1> DEFINE rest == [b EXCEPT ![p] = @ - 1]
<1>3. rest \in Pieces /\ Grams(b) = Grams(rest) + Weight[p]
    BY <1>2, OneLess
<1> HIDE DEF rest
<1>4. Grams(rest) \in Nat /\ Weight[p] \in Nat /\ Weight[p] > 0
    BY <1>3, PileNat, Parameters
<1> QED
    BY <1>2, <1>3, <1>4

LEMMA TakenAndAdded ==
    ASSUME NEW b \in Pieces, NEW p \in Product
    PROVE  b = [[b EXCEPT ![p] = @ - 1] EXCEPT ![p] = @ + 1]
<1> DEFINE c == [[b EXCEPT ![p] = @ - 1] EXCEPT ![p] = @ + 1]
<1>1. b = [q \in Product |-> b[q]] /\ \A q \in Product : b[q] \in Nat
    BY DEF Pieces
<1>2. c = [q \in Product |-> c[q]]
    BY <1>1
<1>3. \A q \in Product : c[q] = b[q]
    BY <1>1
<1> HIDE DEF c
<1>4. c = b
    BY <1>1, <1>2, <1>3
<1> QED
    BY <1>4 DEF c

(* At most two pieces are one, or one and another.                         *)
LEMMA OneOrTwo ==
    ASSUME NEW b \in Pieces, b # None, Count(b) <= 2
    PROVE  \/ \E x \in Product : b = Some(x, 1) /\ Grams(b) = Weight[x]
           \/ \E x, y \in Product :
                 /\ b = [Some(x, 1) EXCEPT ![y] = @ + 1]
                 /\ Grams(b) = Weight[x] + Weight[y]
<1>1. ASSUME NEW c \in Pieces, Count(c) = 0 PROVE c = None
  <2>1. \A p \in Product : c[p] \in Nat /\ c[p] <= 0
      BY <1>1, PileNat DEF Pieces
  <2> QED
      BY <2>1 DEF Pieces, None
<1>2. PICK x \in Product : b[x] > 0
    BY Weighs
<1> DEFINE r == [b EXCEPT ![x] = @ - 1]
<1>3. /\ r \in Pieces /\ Grams(b) = Grams(r) + Weight[x] /\ Count(b) = Count(r) + 1
    BY <1>2, OneLess
<1>4. b = [r EXCEPT ![x] = @ + 1]
    BY TakenAndAdded
<1> HIDE DEF r
<1>5. CASE r = None
  <2>1. b = Some(x, 1)
      BY <1>4, <1>5 DEF Some, None
  <2>2. Grams(r) = 0 /\ Weight[x] \in Nat
      BY <1>5, PileOfNone, Parameters
  <2> QED
      BY <1>3, <2>1, <2>2
<1>6. CASE r # None
  <2>1. PICK y \in Product : r[y] > 0
      BY <1>3, <1>6, Weighs
  <2> DEFINE q == [r EXCEPT ![y] = @ - 1]
  <2>2. q \in Pieces /\ Grams(r) = Grams(q) + Weight[y] /\ Count(r) = Count(q) + 1
      BY <1>3, <2>1, OneLess
  <2>3. r = [q EXCEPT ![y] = @ + 1]
      BY <1>3, TakenAndAdded
  <2> HIDE DEF q
  <2>4. q = None
    <3>1. Count(q) \in Nat
        BY <2>2, PileNat
    <3>2. Count(q) = 0
        BY <1>3, <2>2, <3>1
    <3> QED
        BY <1>1, <2>2, <3>2
  <2>5. Grams(b) = Weight[y] + Weight[x]
    <3>1. Grams(q) = 0 /\ Weight[x] \in Nat /\ Weight[y] \in Nat
        BY <2>4, PileOfNone, Parameters
    <3> QED
        BY <1>3, <2>2, <3>1
  <2>6. r = Some(y, 1)
      BY <2>3, <2>4 DEF Some, None
  <2> QED
      BY <1>4, <2>5, <2>6
<1> QED
    BY <1>5, <1>6
LEMMA HonestInit == Init => HonestInv
<1> SUFFICES ASSUME Init PROVE HonestInv
    OBVIOUS
<1>1. /\ phase = "shopping" /\ log = <<>> /\ next = 1 /\ unmatched = <<>>
      /\ net = [z \in Zone |-> 0] /\ held = [z \in Zone |-> None]
      /\ basket = [z \in Zone |-> None]
    BY DEF Init
<1>2. Balanced
  <2>1. \A z \in Zone : net[z] = 0 /\ held[z] = None
      BY <1>1
  <2> QED
      BY <2>1, PileOfNone DEF Balanced
<1> DEFINE h == [i \in 1 .. 1 |-> held]
<1>3. Story(h) /\ basket = h[next]
  <2>1. held \in Charges /\ Len(log) = 0
      BY <1>1, Piles DEF Charges
  <2> QED
      BY <1>1, <2>1 DEF Story
<1> QED
    BY <1>1, <1>2, <1>3 DEF HonestInv

(* One more event, and the holdings after it.                              *)
LEMMA StoryGoesOn ==
    ASSUME TypeOK, NEW h, Story(h), NEW e \in Event, log' = Append(log, e),
           NEW c \in Charges, held' = c, Moved(e, held, c)
    PROVE  \E g : Story(g)' /\ g[1] = h[1]
<1> DEFINE n == Len(log) + 1
<1>1. /\ n \in Nat /\ n >= 1 /\ Len(log') = n /\ log'[n] = e
      /\ \A i \in 1 .. Len(log) : log'[i] = log[i]
    BY AppendProperties DEF TypeOK
<1>2. /\ h \in [1 .. n -> Charges] /\ h[1] = [z \in Zone |-> None] /\ h[n] = held
      /\ \A i \in 1 .. Len(log) : Moved(log[i], h[i], h[i + 1])
    BY DEF Story
<1>3. Len(log) = n - 1
    BY <1>1 DEF TypeOK
<1> HIDE DEF n
<1>4. PICK g : /\ g \in [1 .. n + 1 -> Charges] /\ g[n + 1] = c
               /\ \A i \in 1 .. n : g[i] = h[i]
  <2> DEFINE f == [i \in 1 .. n + 1 |-> IF i = n + 1 THEN c ELSE h[i]]
  <2>1. f \in [1 .. n + 1 -> Charges] /\ f[n + 1] = c /\ \A i \in 1 .. n : f[i] = h[i]
      BY <1>1, <1>2
  <2> HIDE DEF f
  <2> QED
      BY <2>1
<1>5. ASSUME NEW i \in 1 .. n PROVE Moved(log'[i], g[i], g[i + 1])
  <2>1. CASE i = n
      BY <1>1, <1>2, <1>4, <2>1
  <2>2. CASE i # n
    <3>1. i \in 1 .. Len(log) /\ g[i] = h[i] /\ g[i + 1] = h[i + 1]
        BY <1>1, <1>3, <1>4, <2>2
    <3> QED
        BY <1>1, <1>2, <3>1
  <2> QED
      BY <2>1, <2>2
<1>6. g[1] = h[1]
    BY <1>1, <1>4
<1>7. Story(g)'
    BY <1>1, <1>2, <1>4, <1>5, <1>6 DEF Story
<1> QED
    BY <1>6, <1>7

LEMMA HonestTake ==
    ASSUME TypeOK, HonestInv, NEW z \in Zone, NEW p \in Product, NEW q \in Product,
           NEW n \in 1 .. MaxTake, NEW m \in 1 .. MaxTake, Take(z, p, n, q, m), Honest'
    PROVE  HonestInv'
<1> DEFINE g == -(n * Weight[p])
           pieces == Some(p, n)
           e == [zone |-> z, grams |-> g, pieces |-> pieces]
<1>1. Honest /\ q = p /\ m = n /\ Shop(z, g, pieces)
    BY DEF Honest, Take
<1>2. n \in Nat /\ n > 0 /\ pieces \in Pieces /\ Grams(pieces) = -g /\ g \in Int /\ g < 0
  <2>1. n \in Nat /\ n > 0 /\ Weight[p] \in Nat /\ Weight[p] > 0
      BY Parameters, SettlementAssumption DEF SettlementAssumption
  <2>2. \A i, j \in Nat : i > 0 /\ j > 0 => i * j \in Nat /\ i * j > 0
      OBVIOUS
  <2>3. n * Weight[p] \in Nat /\ n * Weight[p] > 0
      BY <2>1, <2>2
  <2> QED
      BY <2>1, <2>3, Piles, PileOfOne
<1>3. held' = Added(held, z, pieces)
  <2> DEFINE b == [held[z] EXCEPT ![p] = @ + n]
             c == [r \in Product |-> held[z][r] + pieces[r]]
  <2>1. held \in Charges /\ held[z] \in Pieces
      BY DEF TypeOK, Charges
  <2>2. b = c
      BY <1>2, <2>1 DEF Pieces, Some, None
  <2>3. held' = [held EXCEPT ![z] = b] /\ Added(held, z, pieces) = [held EXCEPT ![z] = c]
    <3> HIDE DEF pieces
    <3> QED
        BY DEF Take, Added
  <2> QED
      BY <2>2, <2>3
<1>4. held' \in Charges
    BY TypeTake DEF TypeOK, Charges
<1>5. e \in Event
    BY <1>2 DEF Event
<1>6. /\ phase = "shopping" /\ phase' = phase /\ next' = next /\ basket' = basket
      /\ unmatched' = unmatched /\ log' = Append(log, e)
      /\ net' = [net EXCEPT ![z] = @ + g]
    BY <1>1 DEF Shop
<1> HIDE DEF g, pieces
<1>7. Balanced'
  <2> SUFFICES ASSUME NEW y \in Zone PROVE net'[y] + Grams(held'[y]) = 0
      BY DEF Balanced
  <2>1. net[y] + Grams(held[y]) = 0 /\ held[y] \in Pieces /\ net[y] \in Int
      BY <1>1 DEF HonestInv, Balanced, TypeOK
  <2>2. CASE y = z
    <3>1. held'[z] \in Pieces /\ \A r \in Product : held'[z][r] = held[z][r] + pieces[r]
        BY <1>2, <1>3, <1>4 DEF Added, TypeOK, Charges
    <3>2. Grams(held'[z]) = Grams(held[z]) + Grams(pieces)
        BY <1>2, <2>1, <2>2, <3>1, PilePlus
    <3>3. Grams(held[z]) \in Nat
        BY <2>1, <2>2, PileNat
    <3> QED
        BY <1>2, <1>6, <2>1, <2>2, <3>2, <3>3 DEF TypeOK
  <2>3. CASE y # z
    <3>1. held'[y] = held[y] /\ net'[y] = net[y]
        BY <1>3, <1>6, <2>3 DEF Added, TypeOK
    <3> QED
        BY <2>1, <3>1
  <2> QED
      BY <2>2, <2>3
<1>8. PICK h : Story(h) /\ basket = h[next] /\ next = 1 /\ unmatched = <<>>
    BY <1>1, <1>6 DEF HonestInv
<1>9. Moved(e, held, held')
    BY <1>2, <1>3 DEF Moved
<1>10. PICK k : Story(k)' /\ k[1] = h[1]
  <2> HIDE DEF e
  <2> QED
      BY <1>4, <1>5, <1>6, <1>8, <1>9, StoryGoesOn
<1> QED
    BY <1>6, <1>7, <1>8, <1>10 DEF HonestInv

LEMMA HonestPutBack ==
    ASSUME TypeOK, HonestInv, NEW y \in Zone, NEW z \in Zone,
           NEW back \in [Product -> 0 .. MaxBack], PutBack(y, z, back), Honest'
    PROVE  HonestInv'
<1> DEFINE e == [zone |-> z, grams |-> Grams(back), pieces |-> None]
<1>1. Honest /\ y = z /\ Shop(z, Grams(back), None)
    BY DEF Honest, PutBack
<1>2. back \in Pieces /\ Grams(back) \in Nat /\ Count(back) \in Nat
  <2>1. back \in Pieces
      BY SettlementAssumption DEF SettlementAssumption, Pieces
  <2> QED
      BY <2>1, PileNat
<1>3. held' = Removed(held, z, back)
    BY <1>1 DEF PutBack, Removed
<1>4. held' \in Charges
    BY TypePutBack DEF TypeOK, Charges
<1>5. e \in Event
    BY <1>2, Piles DEF Event
<1>6. /\ phase = "shopping" /\ phase' = phase /\ next' = next /\ basket' = basket
      /\ unmatched' = unmatched /\ log' = Append(log, e)
      /\ net' = [net EXCEPT ![z] = @ + Grams(back)]
    BY <1>1 DEF Shop
<1>7. Balanced'
  <2> SUFFICES ASSUME NEW x \in Zone PROVE net'[x] + Grams(held'[x]) = 0
      BY DEF Balanced
  <2>1. net[x] + Grams(held[x]) = 0 /\ held[x] \in Pieces /\ net[x] \in Int
      BY <1>1 DEF HonestInv, Balanced, TypeOK
  <2>2. CASE x = z
    <3>1. held'[z] \in Pieces /\ \A r \in Product : held'[z][r] = held[z][r] - back[r]
        BY <1>3, <1>4 DEF Removed, TypeOK, Charges
    <3>2. \A r \in Product : held[z][r] = held'[z][r] + back[r]
        BY <1>2, <2>1, <2>2, <3>1 DEF Pieces
    <3>3. Grams(held[z]) = Grams(held'[z]) + Grams(back)
        BY <1>2, <2>1, <2>2, <3>1, <3>2, PilePlus
    <3>4. Grams(held'[z]) \in Nat
        BY <3>1, PileNat
    <3> QED
        BY <1>2, <1>6, <2>1, <2>2, <3>3, <3>4 DEF TypeOK
  <2>3. CASE x # z
    <3>1. held'[x] = held[x] /\ net'[x] = net[x]
        BY <1>3, <1>6, <2>3 DEF Removed, TypeOK
    <3> QED
        BY <2>1, <3>1
  <2> QED
      BY <2>2, <2>3
<1>8. PICK h : Story(h) /\ basket = h[next] /\ next = 1 /\ unmatched = <<>>
    BY <1>1, <1>6 DEF HonestInv
<1>9. Moved(e, held, held')
  <2>1. back # None /\ Count(back) <= 2 /\ \A p \in Product : back[p] <= held[z][p]
      BY <1>1, <1>2, SettlementAssumption DEF PutBack, Honest, SettlementAssumption
  <2>2. IsBack(back, e, held)
      BY <1>2, <2>1 DEF IsBack
  <2> QED
      BY <1>2, <1>3, <2>2 DEF Moved
<1>10. PICK k : Story(k)' /\ k[1] = h[1]
  <2> HIDE DEF e
  <2> QED
      BY <1>4, <1>5, <1>6, <1>8, <1>9, StoryGoesOn
<1> QED
    BY <1>6, <1>7, <1>8, <1>10 DEF HonestInv
(* The pieces put back, and taking them out of a basket.                   *)
Two(x, y) == [Some(x, 1) EXCEPT ![y] = @ + 1]

LEMMA TwoOf ==
    ASSUME NEW x \in Product, NEW y \in Product
    PROVE  /\ Two(x, y) \in Pieces /\ Two(x, y) = Two(y, x)
           /\ Two(x, y)[x] > 0 /\ Two(x, y)[y] > 0 /\ (x = y => Two(x, y)[x] = 2)
<1> DEFINE One(p, q) == IF p = q THEN 1 ELSE 0
<1>1. ASSUME NEW u \in Product, NEW v \in Product
      PROVE  Two(u, v) = [p \in Product |-> One(p, u) + One(p, v)]
    BY DEF Two, Some, None
<1>2. Two(x, y) = [p \in Product |-> One(p, x) + One(p, y)]
    BY <1>1
<1>3. Two(y, x) = [p \in Product |-> One(p, x) + One(p, y)]
  <2>1. \A p \in Product : One(p, x) + One(p, y) = One(p, y) + One(p, x)
      OBVIOUS
  <2> HIDE DEF One
  <2> QED
      BY <1>1, <2>1
<1> QED
    BY <1>2, <1>3 DEF Pieces

LEMMA RemovedOne ==
    ASSUME basket \in Charges, NEW z \in Zone, NEW x \in Product
    PROVE  Removed(basket, z, Some(x, 1)) = Without(z, x)
<1> DEFINE a == [p \in Product |-> basket[z][p] - Some(x, 1)[p]]
           b == [basket[z] EXCEPT ![x] = @ - 1]
<1>1. basket[z] \in Pieces
    BY DEF Charges
<1>2. b = [p \in Product |-> IF p = x THEN basket[z][p] - 1 ELSE basket[z][p]]
    BY <1>1 DEF Pieces
<1>3. \A p \in Product : basket[z][p] - Some(x, 1)[p]
                              = IF p = x THEN basket[z][p] - 1 ELSE basket[z][p]
    BY <1>1 DEF Pieces, Some, None
<1>4. a = b
    BY <1>2, <1>3
<1> QED
    BY <1>4 DEF Removed, Without

LEMMA RemovedTwo ==
    ASSUME basket \in Charges, NEW z \in Zone, NEW x \in Product, NEW y \in Product
    PROVE  Removed(basket, z, Two(x, y)) = [Without(z, x) EXCEPT ![z][y] = @ - 1]
<1> DEFINE a == [p \in Product |-> basket[z][p] - Two(x, y)[p]]
           b == [[basket[z] EXCEPT ![x] = @ - 1] EXCEPT ![y] = @ - 1]
<1>1. basket[z] \in Pieces
    BY DEF Charges
<1>2. b = [p \in Product |-> b[p]] /\ a = [p \in Product |-> a[p]]
    BY <1>1 DEF Pieces
<1>3. \A p \in Product : a[p] = b[p]
    BY <1>1 DEF Pieces, Two, Some, None
<1>4. a = b
  <2> HIDE DEF a, b
  <2> QED
      BY <1>2, <1>3
<1>5. [Without(z, x) EXCEPT ![z][y] = @ - 1] = [basket EXCEPT ![z] = b]
    BY DEF Without, Charges
<1> QED
    BY <1>4, <1>5 DEF Removed

(* What the story says of the event that layer 1 looks at.                 *)
LEMMA StoryNow ==
    ASSUME TypeOK, HonestInv, Honest, NextEvent
    PROVE  \E h : /\ Story(h) /\ basket = h[next] /\ unmatched = <<>>
                  /\ next + 1 \in 1 .. Len(log) + 1 /\ Moved(log[next], basket, h[next + 1])
<1>1. phase = "same_zone" /\ next \in 1 .. Len(log) /\ Len(log) \in Nat
    BY DEF NextEvent, TypeOK
<1>2. PICK h : Story(h) /\ basket = h[next] /\ unmatched = <<>>
    BY <1>1 DEF HonestInv
<1>3. next + 1 \in 1 .. Len(log) + 1 /\ Moved(log[next], basket, h[next + 1])
    BY <1>1, <1>2 DEF Story
<1> QED
    BY <1>2, <1>3

LEMMA HonestAddRemoval ==
    ASSUME TypeOK, HonestInv, AddRemoval, Honest
    PROVE  HonestInv'
<1>1. PICK h : /\ Story(h) /\ basket = h[next] /\ unmatched = <<>>
               /\ Moved(log[next], basket, h[next + 1])
    BY StoryNow DEF AddRemoval
<1>2. /\ phase = "same_zone" /\ log[next].grams < 0 /\ next' = next + 1
      /\ basket' = Added(basket, log[next].zone, log[next].pieces)
      /\ UNCHANGED <<phase, log, net, held, honest, unmatched>>
    BY DEF AddRemoval, NextEvent, Added, shopVars
<1>3. h[next + 1] = basket'
  <2>1. ASSUME NEW back \in Pieces, IsBack(back, log[next], basket) PROVE FALSE
    <3>1. log[next].grams \in Nat
        BY <2>1, PileNat DEF IsBack
    <3> QED
        BY <1>2, <3>1
  <2> QED
      BY <1>1, <1>2, <2>1 DEF Moved
<1>4. Story(h)' /\ basket' = h[next']
    BY <1>1, <1>2, <1>3 DEF Story
<1>5. Balanced'
    BY <1>2 DEF HonestInv, Balanced
<1> QED
    BY <1>1, <1>2, <1>4, <1>5 DEF HonestInv

(* A return of one piece, or of two, is matched with just these.           *)
LEMMA MatchedOne ==
    ASSUME TypeOK, Honest, MatchReturn, NEW x \in Product,
           log[next].grams = Weight[x], basket[log[next].zone][x] > 0
    PROVE  basket' = Without(log[next].zone, x) /\ UNCHANGED unmatched
<1> DEFINE e == log[next]
<1>1. e.zone \in Zone /\ Tol(e.zone) \in Nat /\ Weight[x] \in Nat
    BY EventOf, Parameters DEF MatchReturn, NextEvent
<1>2. x \in Singles(e)
    BY <1>1 DEF Singles, In, Matches, Distance
<1>3. \A p \in Singles(e) : p = x
    BY <1>1 DEF Singles, In, Honest, Separated
<1> HIDE DEF e
<1>4. \E p \in Singles(e) : basket' = Without(e.zone, p) /\ UNCHANGED unmatched
    BY <1>2 DEF MatchReturn, e
<1> QED
    BY <1>3, <1>4 DEF e

LEMMA MatchedTwo ==
    ASSUME TypeOK, Honest, MatchReturn, NEW x \in Product, NEW y \in Product,
           log[next].grams = Weight[x] + Weight[y],
           basket[log[next].zone][x] > 0, basket[log[next].zone][y] > 0,
           x = y => basket[log[next].zone][x] >= 2
    PROVE  basket' = Removed(basket, log[next].zone, Two(x, y)) /\ UNCHANGED unmatched
<1> DEFINE e == log[next]
<1>1. /\ e.zone \in Zone /\ Tol(e.zone) \in Nat /\ Weight[x] \in Nat /\ Weight[y] \in Nat
      /\ basket \in Charges
    BY EventOf, Parameters DEF MatchReturn, NextEvent, TypeOK, Charges
<1>2. Singles(e) = {}
    BY <1>1 DEF Singles, In, Honest, Separated
<1>3. <<x, y>> \in Pairs(e)
  <2>1. Matches(e.grams, Weight[x] + Weight[y], Tol(e.zone))
      BY <1>1 DEF Matches, Distance
  <2> HIDE DEF e
  <2> QED
      BY <2>1 DEF Pairs, In, e
<1>4. ASSUME NEW pq \in Pairs(e)
      PROVE  <<pq[1], pq[2]>> \in {<<x, y>>, <<y, x>>}
  <2>1. /\ pq[1] \in Product /\ pq[2] \in Product
        /\ Matches(Weight[x] + Weight[y], Weight[pq[1]] + Weight[pq[2]], Tol(e.zone))
      BY DEF Pairs, In
  <2>2. {x, y} = {pq[1], pq[2]}
    <3> HIDE DEF e
    <3> QED
        BY <1>1, <2>1 DEF Honest, Separated
  <2> QED
      BY <2>2
<1> HIDE DEF e
<1>5. PICK pq \in Pairs(e) :
          /\ basket' = [Without(e.zone, pq[1]) EXCEPT ![e.zone][pq[2]] = @ - 1]
          /\ UNCHANGED unmatched
    BY <1>2, <1>3 DEF MatchReturn, e
<1>6. pq[1] \in {x, y} /\ pq[2] \in {x, y} /\ {pq[1], pq[2]} = {x, y}
    BY <1>4
<1>7. basket' = Removed(basket, e.zone, Two(pq[1], pq[2]))
    BY <1>1, <1>5, <1>6, RemovedTwo
<1>8. Two(pq[1], pq[2]) = Two(x, y)
    BY <1>4, TwoOf
<1> QED
    BY <1>5, <1>7, <1>8 DEF e

LEMMA HonestMatchReturn ==
    ASSUME TypeOK, HonestInv, MatchReturn, Honest
    PROVE  HonestInv'
<1> DEFINE z == log[next].zone
<1>1. PICK h : /\ Story(h) /\ basket = h[next] /\ unmatched = <<>>
               /\ Moved(log[next], basket, h[next + 1])
    BY StoryNow DEF MatchReturn
<1>2. /\ phase = "same_zone" /\ log[next].grams > 0 /\ next' = next + 1
      /\ UNCHANGED <<phase, log, net, held, honest>>
    BY DEF MatchReturn, NextEvent, shopVars
<1>3. z \in Zone /\ log[next].grams \in Int /\ basket \in Charges /\ basket[z] \in Pieces
    BY EventOf DEF MatchReturn, NextEvent, TypeOK, Charges
<1>4. PICK back \in Pieces : /\ IsBack(back, log[next], basket)
                             /\ h[next + 1] = Removed(basket, z, back)
    BY <1>1, <1>2, <1>3 DEF Moved
<1>5. /\ back # None /\ Count(back) <= 2 /\ \A p \in Product : back[p] <= basket[z][p]
      /\ log[next].grams = Grams(back)
    BY <1>4 DEF IsBack
<1>6. basket' = h[next + 1] /\ UNCHANGED unmatched
  <2>1. CASE \E x \in Product : back = Some(x, 1) /\ Grams(back) = Weight[x]
    <3> PICK x \in Product : back = Some(x, 1) /\ Grams(back) = Weight[x]
        BY <2>1
    <3>1. back[x] = 1
        BY DEF Some, None
    <3>2. basket' = Without(z, x) /\ UNCHANGED unmatched
      <4>1. back[x] <= basket[z][x] /\ basket[z][x] \in Nat
          BY <1>3, <1>5 DEF Pieces
      <4>2. basket[z][x] > 0
          BY <3>1, <4>1
      <4> QED
          BY <1>5, <4>2, MatchedOne
    <3> QED
        BY <1>3, <1>4, <3>2, RemovedOne
  <2>2. CASE \E x, y \in Product : back = Two(x, y) /\ Grams(back) = Weight[x] + Weight[y]
    <3> PICK x \in Product, y \in Product :
               back = Two(x, y) /\ Grams(back) = Weight[x] + Weight[y]
        BY <2>2
    <3>1. back[x] > 0 /\ back[y] > 0 /\ (x = y => back[x] = 2)
        BY TwoOf
    <3>2. /\ back[x] <= basket[z][x] /\ back[y] <= basket[z][y]
          /\ basket[z][x] \in Nat /\ basket[z][y] \in Nat /\ back[x] \in Nat /\ back[y] \in Nat
        BY <1>3, <1>5 DEF Pieces
    <3>3. basket[z][x] > 0 /\ basket[z][y] > 0 /\ (x = y => basket[z][x] >= 2)
        BY <3>1, <3>2
    <3>4. basket' = Removed(basket, z, Two(x, y)) /\ UNCHANGED unmatched
        BY <1>5, <3>3, MatchedTwo
    <3> QED
        BY <1>4, <3>4
  <2> QED
      BY <1>5, <2>1, <2>2, OneOrTwo DEF Two
<1>7. Story(h)' /\ basket' = h[next']
    BY <1>1, <1>2, <1>6 DEF Story
<1>8. Balanced'
    BY <1>2 DEF HonestInv, Balanced
<1> QED
    BY <1>1, <1>2, <1>6, <1>7, <1>8 DEF HonestInv
LEMMA HonestSameZoneDone ==
    ASSUME TypeOK, HonestInv, SameZoneDone, Honest
    PROVE  HonestInv'
<1>1. /\ phase = "same_zone" /\ next > Len(log) /\ phase' \in {"net_delta", "cross_zone"}
      /\ UNCHANGED <<log, net, held, honest, basket, unmatched>>
    BY DEF SameZoneDone, shopVars
<1>2. next = Len(log) + 1
    BY <1>1 DEF TypeOK
<1>3. PICK h : Story(h) /\ basket = h[next] /\ unmatched = <<>>
    BY <1>1 DEF HonestInv
<1>4. basket = held
    BY <1>2, <1>3 DEF Story
<1>5. Balanced'
    BY <1>1 DEF HonestInv, Balanced
<1> QED
    BY <1>1, <1>3, <1>4, <1>5 DEF HonestInv

(* What a zone is charged in layer 2 is what left it.                      *)
LEMMA NothingToCorrect ==
    ASSUME TypeOK, HonestInv, Honest, phase = "net_delta", NEW z \in Zone
    PROVE  ~CorrectZone(z)
<1>1. net[z] + Grams(held[z]) = 0 /\ basket[z] = held[z]
    BY DEF HonestInv, Balanced
<1>2. Grams(held[z]) \in Nat /\ net[z] \in Int /\ Tol(z) \in Nat
    BY PileNat, Parameters DEF TypeOK
<1>3. Excess(z) = 0
    BY <1>1, <1>2 DEF Excess, Left
<1> QED
    BY <1>2, <1>3 DEF CorrectZone

LEMMA HonestLayers ==
    ASSUME BillInv, HonestInv, Honest, [Next]_vars, phase \notin {"shopping", "same_zone"}
    PROVE  HonestInv'
<1>1. TypeOK
    BY DEF BillInv
<1>2. CASE \E z \in Zone : CorrectZone(z)
    BY <1>1, <1>2, NothingToCorrect DEF CorrectZone
<1>3. CASE \E z \in Zone : ZoneCorrected(z)
    BY <1>3 DEF ZoneCorrected, shopVars, HonestInv, Balanced
<1>4. CASE CrossZone
    BY <1>4 DEF CrossZone, HonestInv
<1>5. CASE CrossZoneDone
    BY <1>5 DEF CrossZoneDone, shopVars, HonestInv, Balanced
<1>6. ASSUME NEW y \in Zone, FreezerResolve(y) PROVE HonestInv'
  <2>1. /\ y \in Freezer /\ phase = "freezer" /\ phase' \in {"freezer", "done"}
        /\ UNCHANGED <<net, held, honest>>
      BY <1>6 DEF FreezerResolve, shopVars, BillInv
  <2>2. \A z \in Zone \ Freezer : basket'[z] = basket[z]
      BY <1>1, <1>6, <2>1, Resolved DEF TypeOK
  <2>3. \A z \in Zone \ Freezer : basket[z] = held[z]
      BY <2>1 DEF HonestInv
  <2>4. Balanced'
      BY <2>1 DEF HonestInv, Balanced
  <2> QED
      BY <2>1, <2>2, <2>3, <2>4 DEF HonestInv
<1>7. CASE UNCHANGED vars
    BY <1>7 DEF vars, shopVars, HonestInv, Balanced
<1> QED
    BY <1>2, <1>3, <1>4, <1>5, <1>6, <1>7
    DEF Next, Take, PutBack, Shop, Settle, AddRemoval, MatchReturn, NextEvent, SameZoneDone

LEMMA HonestNext == BillInv /\ HonestInv /\ [Next]_vars => HonestInv'
<1> SUFFICES ASSUME BillInv, HonestInv, [Next]_vars, Honest' PROVE HonestInv'
    BY DEF HonestInv
<1>1. TypeOK
    BY DEF BillInv
<1>2. Honest
    BY DEF Honest, Next, Take, PutBack, Settle, AddRemoval, MatchReturn, SameZoneDone, CorrectZone,
           ZoneCorrected, CrossZone, CrossZoneDone, FreezerResolve, vars, shopVars
<1>3. CASE \E z \in Zone, p, q \in Product, n, m \in 1 .. MaxTake : Take(z, p, n, q, m)
    BY <1>1, <1>3, HonestTake
<1>4. CASE \E y, z \in Zone, back \in [Product -> 0 .. MaxBack] : PutBack(y, z, back)
    BY <1>1, <1>4, HonestPutBack
<1>5. CASE Settle
  <2>1. phase = "shopping" /\ phase' = "same_zone" /\ Balanced'
      BY <1>2, <1>5 DEF Settle, shopVars, HonestInv, Balanced
  <2>2. \A h : Story(h) /\ basket = h[next] => Story(h)' /\ basket' = h[next']
      BY <1>5 DEF Settle, shopVars, Story
  <2>3. unmatched' = unmatched
      BY <1>5 DEF Settle
  <2> QED
      BY <1>2, <2>1, <2>2, <2>3 DEF HonestInv
<1>6. CASE AddRemoval
    BY <1>1, <1>2, <1>6, HonestAddRemoval
<1>7. CASE MatchReturn
    BY <1>1, <1>2, <1>7, HonestMatchReturn
<1>8. CASE SameZoneDone
    BY <1>1, <1>2, <1>8, HonestSameZoneDone
<1>9. CASE UNCHANGED vars
  <2>1. Balanced'
      BY <1>2, <1>9 DEF vars, shopVars, HonestInv, Balanced
  <2>2. \A h : Story(h) /\ basket = h[next] => Story(h)' /\ basket' = h[next']
      BY <1>9 DEF vars, shopVars, Story
  <2> QED
      BY <1>2, <1>9, <2>1, <2>2 DEF HonestInv, vars, shopVars
<1>10. CASE phase \notin {"shopping", "same_zone"}
    BY <1>2, <1>10, HonestLayers
<1> QED
    BY <1>3, <1>4, <1>5, <1>6, <1>7, <1>8, <1>9, <1>10
    DEF Next, CorrectZone, ZoneCorrected, CrossZone, CrossZoneDone, FreezerResolve

(* An honest session is billed exactly, for any products that weight tells *)
(* apart, any number of events and any order of them: what a refrigerated  *)
(* zone is charged is what the shopper took from it and kept               *)
(* (ledger/settler.py, settle).                                            *)
THEOREM HonestIsExact == Spec => []HonestBill
<1>1. HonestInv => HonestBill
    BY DEF HonestInv, Honest, HonestBill
<1> QED
    BY <1>1, BillInit, BillNext, HonestInit, HonestNext, PTL DEF Spec
=============================================================================
