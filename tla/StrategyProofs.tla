---------------------------- MODULE StrategyProofs ----------------------------
(* Whatever strategy answers, for any profile, products, candidates and      *)
(* steps: its bill keeps to the stock, in the freezer it is chosen by what   *)
(* was seen, and where weight tells products apart nothing on it is too      *)
(* heavy (Answers).  One lemma per strategy (VisionOnlySolves, ...), then    *)
(* the router and what it enforces (JudgeAnswers).  The lemmas before them   *)
(* say what the orders, sums and folds of the strategies come to.            *)
EXTENDS Judgment, FoldFacts

(* A context the trigger can be in, and a bill within its stock.             *)
Sound(in) ==
    /\ in.profile \in ProfileType /\ in.profile.tolerance >= NearestGrams
    /\ in.products \in Seq(ProductType)
    /\ in.candidates \in Seq(CandidateType) /\ Distinct(in.candidates)
    /\ in.segments \in Seq(Int) /\ in.delta \in Int /\ in.visionOnly \in BOOLEAN

IsBill(in, b) ==
    /\ DOMAIN b \subseteq Stocked(in) /\ b = [p \in DOMAIN b |-> b[p]]
    /\ \A p \in DOMAIN b : b[p] \in 1 .. in.products[p].stock

LEMMA Fields ==
    ASSUME NEW in, Sound(in)
    PROVE  /\ \A p \in DOMAIN in.products :
                 /\ in.products[p].cls \in Int /\ in.products[p].weight \in Nat
                 /\ in.products[p].stock \in Nat
           /\ \A i \in DOMAIN in.candidates :
                 /\ in.candidates[i].cls \in Int /\ in.candidates[i].conf \in Nat
                 /\ in.candidates[i].votes \in Nat
           /\ DOMAIN in.products = 1 .. Len(in.products) /\ Len(in.products) \in Nat
           /\ DOMAIN in.candidates = 1 .. Len(in.candidates) /\ Len(in.candidates) \in Nat
           /\ in.profile.tolerance \in Nat /\ in.profile.tolerance >= 5
           /\ in.profile.gate \in Nat /\ in.profile.discriminative \in BOOLEAN
           /\ Target(in) \in Nat
<1>1. /\ in.products \in Seq(ProductType) /\ in.candidates \in Seq(CandidateType)
      /\ in.profile \in ProfileType /\ in.profile.tolerance >= 5 /\ in.delta \in Int
    BY DEF Sound, NearestGrams
<1>2. \A p \in DOMAIN in.products : in.products[p] \in ProductType
    BY <1>1
<1>3. \A i \in DOMAIN in.candidates : in.candidates[i] \in CandidateType
    BY <1>1
<1>4. Target(in) \in Nat
    BY <1>1 DEF Target, Size
<1>5. ASSUME NEW p \in DOMAIN in.products
      PROVE  /\ in.products[p].cls \in Int /\ in.products[p].weight \in Nat
             /\ in.products[p].stock \in Nat
    BY <1>2 DEF ProductType
<1>6. ASSUME NEW i \in DOMAIN in.candidates
      PROVE  /\ in.candidates[i].cls \in Int /\ in.candidates[i].conf \in Nat
             /\ in.candidates[i].votes \in Nat
    BY <1>3 DEF CandidateType
<1>7. /\ in.profile.tolerance \in Nat /\ in.profile.gate \in Nat
      /\ in.profile.discriminative \in BOOLEAN
    BY <1>1 DEF ProfileType
<1>8. /\ DOMAIN in.products = 1 .. Len(in.products) /\ Len(in.products) \in Nat
      /\ DOMAIN in.candidates = 1 .. Len(in.candidates) /\ Len(in.candidates) \in Nat
    BY <1>1
<1> QED
    BY <1>1, <1>4, <1>5, <1>6, <1>7, <1>8

LEMMA StockedIs ==
    ASSUME NEW in, Sound(in)
    PROVE  /\ IsFiniteSet(Stocked(in)) /\ Stocked(in) \subseteq DOMAIN in.products
           /\ \A p \in Stocked(in) : 1 \in 1 .. in.products[p].stock
           /\ IsFiniteSet(DOMAIN in.candidates)
<1>1. IsFiniteSet(1 .. Len(in.products)) /\ IsFiniteSet(1 .. Len(in.candidates))
  <2>1. Len(in.products) \in Int /\ Len(in.candidates) \in Int /\ 1 \in Int
      BY Fields
  <2> QED
      BY <2>1, FS_Interval
<1>2. Stocked(in) \in SUBSET (1 .. Len(in.products))
    BY Fields DEF Stocked
<1>3. IsFiniteSet(Stocked(in))
    BY <1>1, <1>2, FS_Subset
<1> QED
    BY <1>1, <1>3, Fields DEF Stocked

LEMMA OnSale ==
    ASSUME NEW in, Sound(in), NEW p \in Stocked(in)
    PROVE  /\ in.products[p].weight \in Nat /\ in.products[p].stock \in Nat \ {0}
           /\ p \in 1 .. Len(in.products) /\ p \in Nat
BY Fields DEF Stocked

(* The orders of candidates: each leaves one in front.                       *)
LEMMA RankedFirst ==
    ASSUME NEW in, Sound(in), NEW S \in SUBSET DOMAIN in.candidates, S # {}
    PROVE  Top(in, S) \in S /\ \A y \in S \ {Top(in, S)} : Ranked(in, Top(in, S), y)
<1> DEFINE R == {q \in S \X S : Ranked(in, q[1], q[2])}
<1>1. Orders(R, S)
  <2>1. \A i \in S : i \in Int /\ in.candidates[i].conf \in Nat /\ in.candidates[i].votes \in Nat
      BY Fields
  <2>2. \A x, y \in S : x # y => <<x, y>> \in R \/ <<y, x>> \in R
      BY <2>1 DEF Ranked
  <2>3. \A x, y, z \in S : <<x, y>> \in R /\ <<y, z>> \in R /\ x # z => <<x, z>> \in R
      BY <2>1 DEF Ranked
  <2> QED
      BY <2>2, <2>3 DEF Orders
<1>2. \A x, y \in S : <<x, y>> \in R <=> Ranked(in, x, y)
    OBVIOUS
<1> HIDE DEF R
<1>3. IsFiniteSet(S)
    BY StockedIs, FS_Subset
<1>4. \E x \in S : \A y \in S \ {x} : <<x, y>> \in R
    BY <1>1, <1>3, FirstExists
<1>5. \E x \in S : \A y \in S \ {x} : Ranked(in, x, y)
    BY <1>2, <1>4
<1> QED
    BY <1>5 DEF First, Top

Surest(in, S) == First(S, LAMBDA i, j : Surer(in, i, j))

LEMMA SurerFirst ==
    ASSUME NEW in, Sound(in), NEW S \in SUBSET DOMAIN in.candidates, S # {}
    PROVE  /\ Surest(in, S) \in S
           /\ \A y \in S \ {Surest(in, S)} : Surer(in, Surest(in, S), y)
<1> DEFINE R == {q \in S \X S : Surer(in, q[1], q[2])}
<1>1. Orders(R, S)
  <2>1. \A i \in S : i \in Int /\ in.candidates[i].conf \in Nat /\ in.candidates[i].votes \in Nat
      BY Fields
  <2>2. \A x, y \in S : x # y => <<x, y>> \in R \/ <<y, x>> \in R
      BY <2>1 DEF Surer
  <2>3. \A x, y, z \in S : <<x, y>> \in R /\ <<y, z>> \in R /\ x # z => <<x, z>> \in R
      BY <2>1 DEF Surer
  <2> QED
      BY <2>2, <2>3 DEF Orders
<1>2. \A x, y \in S : <<x, y>> \in R <=> Surer(in, x, y)
    OBVIOUS
<1> HIDE DEF R
<1>3. IsFiniteSet(S)
    BY StockedIs, FS_Subset
<1>4. \E x \in S : \A y \in S \ {x} : <<x, y>> \in R
    BY <1>1, <1>3, FirstExists
<1>5. \E x \in S : \A y \in S \ {x} : Surer(in, x, y)
    BY <1>2, <1>4
<1> QED
    BY <1>5 DEF First, Surest

(* A candidate that is a product; how many pieces of it fit.                 *)
LEMMA ProductIs ==
    ASSUME NEW in, Sound(in), NEW i, Mapped(in, i)
    PROVE  /\ ProductOf(in, i) \in Stocked(in)
           /\ in.products[ProductOf(in, i)].cls = in.candidates[i].cls
BY DEF Mapped, ProductOf, OfClass

LEMMA RoundIs ==
    ASSUME NEW a \in Nat, NEW b \in Nat \ {0}
    PROVE  Round(a, b) \in Nat
<1>1. a \div b \in Nat
    OBVIOUS
<1> QED
    BY <1>1 DEF Round

LEMMA FitIs ==
    ASSUME NEW in, Sound(in), NEW p \in Stocked(in), in.products[p].weight > 0
    PROVE  Fit(in, p) \in 1 .. in.products[p].stock
<1>1. /\ in.products[p].weight \in Nat \ {0} /\ in.products[p].stock \in Nat \ {0}
      /\ Target(in) \in Nat
    BY Fields DEF Stocked
<1>2. Round(Target(in), in.products[p].weight) \in Nat
    BY <1>1, RoundIs
<1> QED
    BY <1>1, <1>2 DEF Fit, Least, Most

LEMMA SingleBill ==
    ASSUME NEW in, Sound(in), NEW p \in Stocked(in), NEW n \in 1 .. in.products[p].stock
    PROVE  IsBill(in, Single(p, n)) /\ DOMAIN Single(p, n) = {p}
BY DEF IsBill, Single
-----------------------------------------------------------------------------
(* What a strategy may answer.                                               *)
Answers(in, v) ==
    /\ v = Verdict(v.status, v.bill, v.conf, v.reason)
    /\ v.status \in {"complete", "partial", "no_detection"}
    /\ IsBill(in, v.bill) /\ NoneTooHeavy(in, v.bill) /\ ChosenBySight(in, v.bill)

Solves(in, v) == v = Undecided \/ Answers(in, v)

LEMMA NothingAnswers ==
    ASSUME NEW in, NEW conf, NEW why
    PROVE  Answers(in, Verdict("no_detection", Empty, conf, why))
<1>1. DOMAIN Empty = {} /\ Empty = [p \in DOMAIN Empty |-> Empty[p]]
    BY DEF Empty
<1>2. Cardinality(DOMAIN Empty) # 1
    BY <1>1, FS_EmptySet
<1>3. IsBill(in, Empty) /\ NoneTooHeavy(in, Empty) /\ ChosenBySight(in, Empty)
    BY <1>1, <1>2 DEF IsBill, NoneTooHeavy, ChosenBySight
<1> QED
    BY <1>3 DEF Answers, Verdict

LEMMA ObservedIs ==
    ASSUME NEW in, Sound(in)
    PROVE  /\ Observed(in) \in Nat /\ Target(in) <= Observed(in)
           /\ \A j \in DOMAIN in.segments :
                 Size(in.segments[j]) \in Nat /\ Size(in.segments[j]) <= Observed(in)
<1> DEFINE D == DOMAIN in.segments
           s == [j \in D |-> Size(in.segments[j])]
           S == {Size(in.delta)} \cup {Size(in.segments[j]) : j \in D}
<1>1. D = 1 .. Len(in.segments) /\ Len(in.segments) \in Nat
    BY DEF Sound
<1>2. IsFiniteSet(D)
  <2>1. Len(in.segments) \in Int /\ 1 \in Int
      BY <1>1
  <2> HIDE DEF D
  <2> QED
      BY <1>1, <2>1, FS_Interval
<1>3. \A j \in D : s[j] \in Nat /\ s[j] = Size(in.segments[j])
  <2>1. \A j \in D : in.segments[j] \in Int
      BY DEF Sound
  <2> QED
      BY <2>1 DEF Size
<1>4. Target(in) \in Nat /\ Target(in) = Size(in.delta)
    BY Fields DEF Target
<1> DEFINE T == {Size(in.segments[j]) : j \in D}
<1>5. IsFiniteSet(T)
  <2>1. s \in Surjection(D, T)
      BY DEF Surjection
  <2> HIDE DEF s, T, D
  <2> QED
      BY <1>2, <2>1, FS_Surjection
<1>6. IsFiniteSet(S)
  <2> HIDE DEF T
  <2>1. IsFiniteSet(T \cup {Size(in.delta)})
      BY <1>5, FS_AddElement
  <2>2. S = T \cup {Size(in.delta)}
      BY DEF T
  <2> QED
      BY <2>1, <2>2
<1>7. S \in SUBSET Int /\ S \in SUBSET Nat /\ Size(in.delta) \in S
  <2>1. \A n \in S : n \in Nat
      BY <1>3, <1>4
  <2> QED
      BY <2>1
<1>8. \A j \in D : s[j] \in S
    OBVIOUS
<1>9. Observed(in) = Max(S)
    BY DEF Observed
<1> HIDE DEF S, s
<1>10. Max(S) \in S /\ \A n \in S : n <= Max(S)
  <2>1. S # {}
      BY <1>7
  <2> QED
      BY <1>6, <1>7, <2>1, MaxIs
<1> QED
    BY <1>3, <1>4, <1>7, <1>8, <1>9, <1>10

(* A residual within t bounds what one piece weighs.                         *)
LEMMA ResidualBounds ==
    ASSUME NEW in, Sound(in), NEW p \in Stocked(in), NEW n \in Nat, n >= 1, NEW t \in Nat,
           Residual(in, p, n) <= t
    PROVE  in.products[p].weight <= Target(in) + t
<1> DEFINE w == in.products[p].weight
           a == Target(in)
<1>1. w \in Nat /\ a \in Nat
    BY Fields DEF Stocked
<1>2. Distance(a, n * w) <= t
    BY DEF Residual
<1> HIDE DEF w, a
<1>3. n * w \in Nat /\ w <= n * w
  <2>1. \A x, y \in Nat : x >= 1 => x * y \in Nat /\ y <= x * y
      OBVIOUS
  <2> QED
      BY <1>1, <2>1
<1>4. n * w <= a + t
  <2> DEFINE m == n * w
  <2>1. m \in Nat /\ Distance(a, m) <= t
      BY <1>2, <1>3
  <2> HIDE DEF m
  <2>2. m <= a + t
      BY <1>1, <2>1 DEF Distance
  <2> QED
      BY <2>2 DEF m
<1>5. w <= a + t
  <2> DEFINE m == n * w
  <2>1. m \in Nat /\ w <= m /\ m <= a + t
      BY <1>3, <1>4
  <2> HIDE DEF m
  <2> QED
      BY <1>1, <2>1
<1> QED
    BY <1>5 DEF w, a

(* One kind of product where weight tells products apart.                    *)
LEMMA WeighedSingle ==
    ASSUME NEW in, Sound(in), in.profile.discriminative,
           NEW p \in Stocked(in), NEW n \in 1 .. in.products[p].stock,
           in.products[p].weight <= Observed(in) + 3 * in.profile.tolerance,
           NEW status \in {"complete", "partial"}, NEW conf, NEW why
    PROVE  Answers(in, Verdict(status, Single(p, n), conf, why))
<1>1. IsBill(in, Single(p, n)) /\ DOMAIN Single(p, n) = {p}
    BY SingleBill
<1>2. NoneTooHeavy(in, Single(p, n)) /\ ChosenBySight(in, Single(p, n))
    BY <1>1 DEF NoneTooHeavy, ChosenBySight
<1> QED
    BY <1>1, <1>2 DEF Answers, Verdict

(* The first by a key, then by position.                                     *)
LEMMA KeyFirst ==
    ASSUME NEW S \in SUBSET Int, IsFiniteSet(S), S # {}, NEW k \in [S -> Int]
    PROVE  \E x \in S : \A y \in S \ {x} : k[x] < k[y] \/ (k[x] = k[y] /\ x < y)
<1> DEFINE R == {q \in S \X S : k[q[1]] < k[q[2]] \/ (k[q[1]] = k[q[2]] /\ q[1] < q[2])}
<1>1. Orders(R, S)
  <2>1. \A x \in S : x \in Int /\ k[x] \in Int
      OBVIOUS
  <2>2. \A x, y \in S : x # y => <<x, y>> \in R \/ <<y, x>> \in R
      BY <2>1
  <2>3. \A x, y, z \in S : <<x, y>> \in R /\ <<y, z>> \in R /\ x # z => <<x, z>> \in R
      BY <2>1
  <2> QED
      BY <2>2, <2>3 DEF Orders
<1>2. \A x, y \in S : <<x, y>> \in R <=> k[x] < k[y] \/ (k[x] = k[y] /\ x < y)
    OBVIOUS
<1> HIDE DEF R
<1>3. PICK x \in S : \A y \in S \ {x} : <<x, y>> \in R
    BY <1>1, FirstExists
<1> QED
    BY <1>2, <1>3
-----------------------------------------------------------------------------
LEMMA VisionOnlySolves ==
    ASSUME NEW in, Sound(in)
    PROVE  Solves(in, VisionOnly(in))
<1> DEFINE seen == {i \in DOMAIN in.candidates : Mapped(in, i)}
           x    == Top(in, seen)
<1>1. VisionOnly(in) =
          IF ~in.visionOnly THEN Undecided
          ELSE IF seen = {} THEN NoDetection("no_vision_candidates")
          ELSE Complete(Single(ProductOf(in, x), 1), 70 * in.candidates[x].conf, "vision_only")
    BY DEF VisionOnly, Top
<1>2. CASE in.visionOnly /\ seen # {}
  <2>1. x \in seen
    <3>1. seen \in SUBSET DOMAIN in.candidates
        OBVIOUS
    <3> HIDE DEF seen
    <3> QED
        BY <1>2, <3>1, RankedFirst
  <2> HIDE DEF x
  <2>2. ProductOf(in, x) \in Stocked(in)
      BY <2>1, ProductIs
  <2>3. 1 \in 1 .. in.products[ProductOf(in, x)].stock
      BY <2>2, StockedIs
  <2> DEFINE b == Single(ProductOf(in, x), 1)
  <2>4. IsBill(in, b)
      BY <2>2, <2>3, SingleBill
  <2> HIDE DEF b, seen
  <2>5. NoneTooHeavy(in, b) /\ ChosenBySight(in, b)
      BY <1>2 DEF NoneTooHeavy, ChosenBySight
  <2>6. VisionOnly(in) = Verdict("complete", b, 70 * in.candidates[x].conf, "vision_only")
      BY <1>1, <1>2 DEF Complete, b
  <2> QED
      BY <2>4, <2>5, <2>6 DEF Solves, Answers, Verdict
<1>3. CASE in.visionOnly /\ seen = {}
    BY <1>1, <1>3, NothingAnswers DEF Solves, NoDetection
<1>4. CASE ~in.visionOnly
    BY <1>1, <1>4 DEF Solves
<1> QED
    BY <1>2, <1>3, <1>4

LEMMA NoCandidateSolves ==
    ASSUME NEW in, Sound(in)
    PROVE  Solves(in, NoCandidateFallback(in))
<1> DEFINE ways == {w \in Stocked(in) \X (1 .. MaxItems) :
                       /\ w[2] <= in.products[w[1]].stock
                       /\ in.products[w[1]].weight > 0
                       /\ Residual(in, w[1], w[2]) <= in.profile.tolerance}
           way  == CHOOSE w \in ways : TRUE
           v    == NoCandidateFallback(in)
<1>1. v =
        IF in.candidates # <<>> \/ in.visionOnly THEN Undecided
        ELSE IF ~in.profile.discriminative THEN NoDetection("loadcell_identity_suppressed")
        ELSE IF ways = {} THEN NoDetection("no_candidates_forced_final")
        ELSE IF ways = {way} THEN Complete(Single(way[1], way[2]), 3000, "weight_only")
        ELSE NoDetection("weight_only_ambiguous")
    BY DEF NoCandidateFallback
<1>2. CASE in.profile.discriminative /\ ways = {way}
           /\ v = Verdict("complete", Single(way[1], way[2]), 3000, "weight_only")
  <2>1. way \in ways
      BY <1>2
  <2> HIDE DEF way
  <2>2. PICK p \in Stocked(in), n \in 1 .. MaxItems : way = <<p, n>>
      BY <2>1
  <2>3. n <= in.products[p].stock /\ Residual(in, p, n) <= in.profile.tolerance
      BY <2>1, <2>2
  <2> HIDE DEF ways
  <2>4. n \in 1 .. in.products[p].stock /\ n \in Nat /\ n >= 1 /\ in.profile.tolerance \in Nat
      BY <2>2, <2>3, Fields DEF Stocked
  <2>5. in.products[p].weight <= Target(in) + in.profile.tolerance
      BY <2>3, <2>4, ResidualBounds
  <2>6. /\ in.products[p].weight \in Nat /\ Target(in) \in Nat
        /\ Observed(in) \in Nat /\ Target(in) <= Observed(in)
      BY Fields, ObservedIs DEF Stocked
  <2>7. in.products[p].weight <= Observed(in) + 3 * in.profile.tolerance
      BY <2>4, <2>5, <2>6
  <2>8. v = Verdict("complete", Single(p, n), 3000, "weight_only")
      BY <1>2, <2>2
  <2> QED
      BY <1>2, <2>4, <2>7, <2>8, WeighedSingle DEF Solves
<1>3. CASE v = Undecided
    BY <1>3 DEF Solves
<1>4. CASE \E why : v = Verdict("no_detection", Empty, 0, why)
    BY <1>4, NothingAnswers DEF Solves
<1>5. \/ v = Undecided
      \/ \E why : v = Verdict("no_detection", Empty, 0, why)
      \/ in.profile.discriminative /\ ways = {way}
         /\ v = Verdict("complete", Single(way[1], way[2]), 3000, "weight_only")
  <2> HIDE DEF ways, way, v
  <2> QED
      BY <1>1 DEF NoDetection, Complete
<1> QED
    BY <1>2, <1>3, <1>4, <1>5

LEMMA MinWeightSolves ==
    ASSUME NEW in
    PROVE  Solves(in, MinWeightGate(in))
BY NothingAnswers DEF MinWeightGate, NoDetection, Solves

LEMMA SeenIs ==
    ASSUME NEW in, Sound(in)
    PROVE  \A cls \in DOMAIN Seen(in) : Seen(in)[cls] \in Nat
<1> DEFINE Of(cls) == CHOOSE i \in DOMAIN in.candidates : in.candidates[i].cls = cls
<1>1. ASSUME NEW cls \in DOMAIN Seen(in)
      PROVE  Of(cls) \in DOMAIN in.candidates /\ Seen(in)[cls] = in.candidates[Of(cls)].conf
    BY DEF Seen
<1> HIDE DEF Of
<1>2. ASSUME NEW cls \in DOMAIN Seen(in) PROVE Seen(in)[cls] \in Nat
  <2>1. Of(cls) \in DOMAIN in.candidates /\ Seen(in)[cls] = in.candidates[Of(cls)].conf
      BY <1>1
  <2>2. in.candidates[Of(cls)].conf \in Nat
      BY <2>1, Fields
  <2> QED
      BY <2>1, <2>2
<1> QED
    BY <1>2

LEMMA CollisionSolves ==
    ASSUME NEW in, Sound(in)
    PROVE  Solves(in, SameWeightCollisionGuard(in))
<1> DEFINE conf    == Seen(in)
           singles == {p \in SeenProducts(in) : Residual(in, p, 1) <= in.profile.tolerance}
           ByConf(p, q) == \/ conf[in.products[p].cls] > conf[in.products[q].cls]
                           \/ conf[in.products[p].cls] = conf[in.products[q].cls] /\ p < q
           one     == First(singles, ByConf)
           v       == SameWeightCollisionGuard(in)
<1>1. \/ v = Undecided
      \/ /\ in.profile.discriminative /\ ~ (Cardinality(singles) < 2)
         /\ v = Complete(Single(one, 1), 100 * conf[in.products[one].cls],
                         "same_weight_collision_guard")
    BY DEF SameWeightCollisionGuard
<1>2. ASSUME ~ (Cardinality(singles) < 2) PROVE one \in singles
  <2> DEFINE k == [p \in singles |-> 0 - conf[in.products[p].cls]]
  <2>1. \A p \in singles : /\ p \in Stocked(in) /\ p \in Int
                           /\ conf[in.products[p].cls] \in Nat
      BY SeenIs, Fields, StockedIs DEF SeenProducts
  <2>2. singles \in SUBSET Int /\ singles \in SUBSET Stocked(in) /\ k \in [singles -> Int]
      BY <2>1
  <2>3. \A p \in singles : k[p] = 0 - conf[in.products[p].cls]
      OBVIOUS
  <2>4. singles # {}
      BY <1>2, FS_EmptySet
  <2> HIDE DEF k, conf, singles
  <2>5. IsFiniteSet(singles)
      BY <2>2, StockedIs, FS_Subset
  <2>6. PICK x \in singles : \A y \in singles \ {x} : k[x] < k[y] \/ (k[x] = k[y] /\ x < y)
      BY <2>2, <2>4, <2>5, KeyFirst
  <2>7. \A y \in singles \ {x} : ByConf(x, y)
      BY <2>1, <2>3, <2>6
  <2> HIDE DEF ByConf
  <2> QED
      BY <2>7 DEF First
<1>3. CASE v = Undecided
    BY <1>3 DEF Solves
<1>4. CASE /\ in.profile.discriminative /\ ~ (Cardinality(singles) < 2)
           /\ v = Complete(Single(one, 1), 100 * conf[in.products[one].cls],
                           "same_weight_collision_guard")
  <2>1. one \in singles
      BY <1>2, <1>4
  <2> HIDE DEF one
  <2>2. one \in Stocked(in) /\ Residual(in, one, 1) <= in.profile.tolerance
      BY <2>1 DEF SeenProducts
  <2> HIDE DEF singles
  <2>3. in.profile.tolerance \in Nat /\ 1 \in Nat
      BY Fields
  <2>4. in.products[one].weight <= Target(in) + in.profile.tolerance
      BY <2>2, <2>3, ResidualBounds
  <2>5. /\ in.products[one].weight \in Nat /\ Target(in) \in Nat
        /\ Observed(in) \in Nat /\ Target(in) <= Observed(in)
      BY <2>2, Fields, ObservedIs DEF Stocked
  <2>6. in.products[one].weight <= Observed(in) + 3 * in.profile.tolerance
      BY <2>3, <2>4, <2>5
  <2>7. 1 \in 1 .. in.products[one].stock
      BY <2>2, StockedIs
  <2> QED
      BY <1>4, <2>2, <2>6, <2>7, WeighedSingle DEF Solves, Complete
<1> QED
    BY <1>1, <1>3, <1>4

LEMMA CountSolves ==
    ASSUME NEW in, Sound(in)
    PROVE  Solves(in, SameProductCount(in))
<1> DEFINE N(p)  == Round(Target(in), in.products[p].weight)
           fits  == {p \in SeenProducts(in) :
                        /\ in.products[p].weight > 0
                        /\ N(p) \in 2 .. in.products[p].stock
                        /\ Residual(in, p, N(p)) <= in.profile.tolerance}
           best  == First(fits, LAMBDA p, q :
                        \/ Residual(in, p, N(p)) < Residual(in, q, N(q))
                        \/ Residual(in, p, N(p)) = Residual(in, q, N(q)) /\ p < q)
           v     == SameProductCount(in)
<1>1. \/ v = Undecided
      \/ /\ in.profile.discriminative /\ fits # {}
         /\ v = Complete(Single(best, N(best)), 100 * Seen(in)[in.products[best].cls],
                         "same_product_count")
    BY DEF SameProductCount
<1>2. ASSUME fits # {} PROVE best \in fits
  <2> DEFINE k == [p \in fits |-> Residual(in, p, N(p))]
  <2>1. \A p \in fits : p \in Stocked(in) /\ p \in Int /\ N(p) \in Nat
      BY Fields, StockedIs DEF SeenProducts
  <2>2. \A p \in fits : Residual(in, p, N(p)) \in Int
    <3> TAKE p \in fits
    <3>1. N(p) \in Nat /\ in.products[p].weight \in Nat /\ Target(in) \in Nat
        BY <2>1, Fields DEF Stocked
    <3>2. \A x, y \in Nat : x * y \in Nat
        OBVIOUS
    <3>3. N(p) * in.products[p].weight \in Nat
        BY <3>1, <3>2
    <3> HIDE DEF N
    <3> QED
        BY <3>1, <3>3 DEF Residual, Distance
  <2>3. fits \in SUBSET Int /\ fits \in SUBSET Stocked(in) /\ k \in [fits -> Int]
      BY <2>1, <2>2
  <2>4. \A p \in fits : k[p] = Residual(in, p, N(p))
      OBVIOUS
  <2> HIDE DEF k, N, fits
  <2>5. IsFiniteSet(fits)
      BY <2>3, StockedIs, FS_Subset
  <2>6. PICK x \in fits : \A y \in fits \ {x} : k[x] < k[y] \/ (k[x] = k[y] /\ x < y)
      BY <1>2, <2>3, <2>5, KeyFirst
  <2>7. \A y \in fits \ {x} : \/ Residual(in, x, N(x)) < Residual(in, y, N(y))
                              \/ Residual(in, x, N(x)) = Residual(in, y, N(y)) /\ x < y
      BY <2>4, <2>6
  <2> QED
      BY <2>7 DEF First
<1>3. CASE v = Undecided
    BY <1>3 DEF Solves
<1>4. CASE /\ in.profile.discriminative /\ fits # {}
           /\ v = Complete(Single(best, N(best)), 100 * Seen(in)[in.products[best].cls],
                           "same_product_count")
  <2>1. best \in fits
      BY <1>2, <1>4
  <2> HIDE DEF best
  <2>2. /\ best \in Stocked(in) /\ N(best) \in 2 .. in.products[best].stock
        /\ Residual(in, best, N(best)) <= in.profile.tolerance
      BY <2>1 DEF SeenProducts
  <2> HIDE DEF fits, N
  <2>3. /\ in.profile.tolerance \in Nat /\ N(best) \in Nat /\ N(best) >= 1
        /\ N(best) \in 1 .. in.products[best].stock
      BY <2>2, Fields DEF Stocked
  <2>4. in.products[best].weight <= Target(in) + in.profile.tolerance
      BY <2>2, <2>3, ResidualBounds
  <2>5. /\ in.products[best].weight \in Nat /\ Target(in) \in Nat
        /\ Observed(in) \in Nat /\ Target(in) <= Observed(in)
      BY <2>2, Fields, ObservedIs DEF Stocked
  <2>6. in.products[best].weight <= Observed(in) + 3 * in.profile.tolerance
      BY <2>3, <2>4, <2>5
  <2> QED
      BY <1>4, <2>2, <2>3, <2>6, WeighedSingle DEF Solves, Complete
<1> QED
    BY <1>1, <1>3, <1>4

LEMMA NearestSolves ==
    ASSUME NEW in, Sound(in)
    PROVE  Solves(in, RelaxedLoadcellOnly(in))
<1> DEFINE Err(p) == Residual(in, p, 1)
           best   == First(Stocked(in),
                           LAMBDA q, r : Err(q) < Err(r) \/ (Err(q) = Err(r) /\ q < r))
           v      == RelaxedLoadcellOnly(in)
           grams  == (7000 * (NearestGrams - Err(best))) \div NearestGrams
           charge == Partial(Single(best, 1), grams, "relaxed_loadcell_only")
<1>1. v = IF \/ ~in.profile.discriminative \/ in.candidates = <<>>
             \/ \E i \in DOMAIN in.candidates : Mapped(in, i)
             \/ Stocked(in) = {}
          THEN Undecided
          ELSE IF Err(best) >= NearestGrams THEN Undecided ELSE charge
    BY DEF RelaxedLoadcellOnly
<1>2. \A p \in Stocked(in) : Err(p) \in Nat
  <2> TAKE p \in Stocked(in)
  <2>1. in.products[p].weight \in Nat /\ Target(in) \in Nat
      BY Fields DEF Stocked
  <2>2. 1 * in.products[p].weight \in Nat
      BY <2>1
  <2> QED
      BY <2>1, <2>2 DEF Residual, Distance
<1>3. ASSUME Stocked(in) # {} PROVE best \in Stocked(in)
  <2> DEFINE S == Stocked(in)
             k == [p \in S |-> Err(p)]
  <2>1. S \in SUBSET Int /\ IsFiniteSet(S) /\ S # {}
    <3>1. S \subseteq 1 .. Len(in.products) /\ IsFiniteSet(S)
        BY Fields, StockedIs
    <3> QED
        BY <1>3, <3>1
  <2>2. \A p \in S : k[p] = Err(p)
      OBVIOUS
  <2>3. k \in [S -> Int]
      BY <1>2
  <2> HIDE DEF k, S, Err
  <2>4. PICK x \in S : \A y \in S \ {x} : k[x] < k[y] \/ (k[x] = k[y] /\ x < y)
      BY <2>1, <2>3, KeyFirst
  <2>5. \A y \in S \ {x} : Err(x) < Err(y) \/ (Err(x) = Err(y) /\ x < y)
      BY <2>2, <2>4
  <2> QED
      BY <2>5 DEF First, S
<1>4. CASE v = Undecided
    BY <1>4 DEF Solves
<1>5. CASE /\ in.profile.discriminative /\ Stocked(in) # {}
           /\ ~ (Err(best) >= NearestGrams) /\ v = charge
  <2> HIDE DEF best
  <2>1. best \in Stocked(in)
      BY <1>3, <1>5
  <2>2. Err(best) \in Nat /\ Err(best) <= 4
      BY <1>2, <1>5, <2>1 DEF NearestGrams
  <2>3. in.products[best].weight <= Target(in) + 4
      BY <2>1, <2>2, ResidualBounds
  <2>4. /\ in.products[best].weight \in Nat /\ Target(in) \in Nat
        /\ Observed(in) \in Nat /\ Target(in) <= Observed(in)
        /\ in.profile.tolerance \in Nat /\ in.profile.tolerance >= 5
      BY <2>1, Fields, ObservedIs DEF Stocked
  <2>5. in.products[best].weight <= Observed(in) + 3 * in.profile.tolerance
      BY <2>3, <2>4
  <2>6. 1 \in 1 .. in.products[best].stock
      BY <2>1, StockedIs
  <2> HIDE DEF Err, grams
  <2> QED
      BY <1>5, <2>1, <2>5, <2>6, WeighedSingle DEF Solves, Partial
<1> HIDE DEF Err, best, charge, v
<1> QED
    BY <1>1, <1>4, <1>5

-----------------------------------------------------------------------------
(* In the freezer: one kind, and nobody who fits saw it worse.               *)
Leads(in, i) == \A j \in Identities(in) \ {i} : Ranked(in, i, j)

LEMMA IdentitiesAre ==
    ASSUME NEW in, Sound(in)
    PROVE  /\ Identities(in) \in SUBSET DOMAIN in.candidates
           /\ \A i \in Identities(in) :
                 /\ Mapped(in, i) /\ ProductOf(in, i) \in Stocked(in)
                 /\ in.products[ProductOf(in, i)].weight > 0
                 /\ Pcs(in, i) \in 1 .. in.products[ProductOf(in, i)].stock
<1>1. /\ Identities(in) \in SUBSET DOMAIN in.candidates
      /\ \A i \in Identities(in) :
            Mapped(in, i) /\ in.products[ProductOf(in, i)].weight > 0
    BY DEF Identities
<1>2. ASSUME NEW i \in Identities(in)
      PROVE  /\ ProductOf(in, i) \in Stocked(in)
             /\ Pcs(in, i) \in 1 .. in.products[ProductOf(in, i)].stock
  <2>1. ProductOf(in, i) \in Stocked(in)
      BY <1>1, ProductIs
  <2>2. Fit(in, ProductOf(in, i)) \in 1 .. in.products[ProductOf(in, i)].stock
      BY <1>1, <2>1, FitIs
  <2> QED
      BY <2>1, <2>2 DEF Pcs
<1> QED
    BY <1>1, <1>2

(* An identity charged alone: nobody who fits was seen better.               *)
Unrivalled(in, i) ==
    ~ \E j \in Identities(in) \ {i} :
         /\ FitsToo(in, j)
         /\ in.candidates[j].votes >= in.candidates[i].votes
         /\ in.candidates[j].conf > in.candidates[i].conf

LEMMA SightSingle ==
    ASSUME NEW in, Sound(in), ~in.profile.discriminative,
           NEW i \in Identities(in), Unrivalled(in, i),
           NEW n \in 1 .. in.products[ProductOf(in, i)].stock,
           NEW status \in {"complete", "partial"}, NEW conf, NEW why
    PROVE  Answers(in, Verdict(status, Single(ProductOf(in, i), n), conf, why))
<1> DEFINE p == ProductOf(in, i)
<1>1. p \in Stocked(in)
    BY IdentitiesAre
<1> HIDE DEF p
<1>2. n \in 1 .. in.products[p].stock
    BY DEF p
<1>3. IsBill(in, Single(p, n)) /\ DOMAIN Single(p, n) = {p}
    BY <1>1, <1>2, SingleBill
<1>4. NoneTooHeavy(in, Single(p, n))
    BY DEF NoneTooHeavy
<1>5. ChosenBySight(in, Single(p, n))
    BY <1>3 DEF ChosenBySight, Unrivalled, p
<1> QED
    BY <1>3, <1>4, <1>5 DEF Answers, Verdict, p

LEMMA LeaderUnrivalled ==
    ASSUME NEW in, Sound(in), NEW i \in Identities(in), Leads(in, i)
    PROVE  Unrivalled(in, i)
<1> SUFFICES ASSUME NEW j \in Identities(in) \ {i},
                    in.candidates[j].votes >= in.candidates[i].votes,
                    in.candidates[j].conf > in.candidates[i].conf
             PROVE  FALSE
    BY DEF Unrivalled
<1>1. Ranked(in, i, j)
    BY DEF Leads
<1>2. i \in DOMAIN in.candidates /\ j \in DOMAIN in.candidates
    BY IdentitiesAre
<1>3. /\ in.candidates[i].votes \in Nat /\ in.candidates[j].votes \in Nat
      /\ in.candidates[i].conf \in Nat /\ in.candidates[j].conf \in Nat
    BY <1>2, Fields
<1> QED
    BY <1>1, <1>3 DEF Ranked

LEMMA TopLeads ==
    ASSUME NEW in, Sound(in), Identities(in) # {}
    PROVE  /\ Top(in, Identities(in)) \in Identities(in)
           /\ Leads(in, Top(in, Identities(in)))
<1>1. Identities(in) \in SUBSET DOMAIN in.candidates
    BY IdentitiesAre
<1> QED
    BY <1>1, RankedFirst DEF Leads

LEMMA IdentitySolves ==
    ASSUME NEW in, Sound(in)
    PROVE  Solves(in, VisionFirstIdentityPartial(in, Identities(in)))
<1> DEFINE i == Top(in, Identities(in))
           v == VisionFirstIdentityPartial(in, Identities(in))
           fit == Complete(Single(ProductOf(in, i), Pcs(in, i)), 100 * in.candidates[i].conf,
                           "vision_identity_weight_validated")
           one == Partial(Single(ProductOf(in, i), 1), 50 * in.candidates[i].conf,
                          "vision_first_identity_partial")
<1>1. \/ v = Undecided
      \/ ~in.profile.discriminative /\ Identities(in) # {} /\ (v = fit \/ v = one)
    BY DEF VisionFirstIdentityPartial
<1>2. CASE ~in.profile.discriminative /\ Identities(in) # {} /\ (v = fit \/ v = one)
  <2>1. i \in Identities(in) /\ Leads(in, i)
      BY <1>2, TopLeads
  <2> HIDE DEF i
  <2>2. Unrivalled(in, i)
      BY <2>1, LeaderUnrivalled
  <2>3. /\ Pcs(in, i) \in 1 .. in.products[ProductOf(in, i)].stock
        /\ ProductOf(in, i) \in Stocked(in)
      BY <2>1, IdentitiesAre
  <2>4. 1 \in 1 .. in.products[ProductOf(in, i)].stock
      BY <2>3, StockedIs
  <2>5. Answers(in, fit)
      BY <1>2, <2>1, <2>2, <2>3, SightSingle DEF Complete
  <2>6. Answers(in, one)
      BY <1>2, <2>1, <2>2, <2>4, SightSingle DEF Partial
  <2>7. v = fit \/ v = one
      BY <1>2
  <2> HIDE DEF fit, one
  <2>8. Solves(in, v)
      BY <2>5, <2>6, <2>7 DEF Solves
  <2> QED
      BY <2>8 DEF v
<1>3. CASE v = Undecided
    BY <1>3 DEF Solves
<1> HIDE DEF fit, one
<1> QED
    BY <1>1, <1>2, <1>3

LEMMA NotEmpty ==
    ASSUME NEW E, NEW s \in Seq(E), s # <<>>
    PROVE  DOMAIN s # {} /\ Len(s) \in Nat /\ Len(s) >= 1
OBVIOUS

LEMMA DetectedSolves ==
    ASSUME NEW in, Sound(in)
    PROVE  Solves(in, DetectedSingle(in))
<1> DEFINE i     == Top(in, DOMAIN in.candidates)
           p     == ProductOf(in, i)
           loose == LooseFactor * in.profile.tolerance
           left  == Left(in, i)
           fit   == Complete(Single(p, Pcs(in, i)),
                        Least(6500, (4500 * (loose - left)) \div loose
                                    + 25 * in.candidates[i].conf + 1000),
                        "detected_single_item_fallback")
           v     == DetectedSingle(in)
<1>1. v = IF in.delta >= 0 \/ in.candidates = <<>> THEN Undecided
          ELSE IF ~Mapped(in, i) THEN Undecided
          ELSE IF in.products[p].weight <= 0 THEN Undecided
          ELSE IF left > loose THEN Undecided
          ELSE fit
    BY DEF DetectedSingle, Top
<1>2. CASE /\ in.candidates # <<>> /\ Mapped(in, i) /\ ~(in.products[p].weight <= 0)
           /\ ~(left > loose) /\ v = fit
  <2>1. DOMAIN in.candidates # {}
    <3>1. in.candidates \in Seq(CandidateType) /\ in.candidates # <<>>
        BY <1>2 DEF Sound
    <3> HIDE DEF i, p, loose, left, fit, v
    <3> QED
        BY <3>1, NotEmpty
  <2>2. i \in DOMAIN in.candidates /\ \A j \in DOMAIN in.candidates \ {i} : Ranked(in, i, j)
      BY <2>1, RankedFirst
  <2> HIDE DEF i
  <2>3. p \in Stocked(in)
      BY <1>2, ProductIs
  <2>4. in.products[p].weight \in Nat /\ in.products[p].weight > 0
    <3>1. in.products[p].weight \in Nat /\ ~(in.products[p].weight <= 0)
        BY <1>2, <2>3, OnSale
    <3> QED
        BY <3>1
  <2>5. Pcs(in, i) \in 1 .. in.products[p].stock
      BY <2>3, <2>4, FitIs DEF Pcs
  <2>6. CASE in.profile.discriminative
    <3>1. in.profile.tolerance \in Nat /\ Pcs(in, i) \in Nat /\ Pcs(in, i) >= 1
        BY <2>3, <2>5, Fields DEF Stocked
    <3>2. Pcs(in, i) * in.products[p].weight \in Nat
        BY <2>4, <3>1
    <3>3. Target(in) \in Nat /\ Observed(in) \in Nat /\ Target(in) <= Observed(in)
        BY Fields, ObservedIs
    <3>4. left \in Nat
        BY <3>2, <3>3 DEF Left, Residual, Distance
    <3>5. Residual(in, p, Pcs(in, i)) <= 3 * in.profile.tolerance
        BY <1>2, <3>1, <3>4 DEF Left, LooseFactor
    <3>6. 3 * in.profile.tolerance \in Nat
        BY <3>1
    <3> HIDE DEF p
    <3>7. in.products[p].weight <= Target(in) + 3 * in.profile.tolerance
        BY <2>3, <3>1, <3>5, <3>6, ResidualBounds
    <3>8. in.products[p].weight <= Observed(in) + 3 * in.profile.tolerance
        BY <2>4, <3>1, <3>3, <3>7
    <3> HIDE DEF loose, left
    <3>9. Answers(in, fit)
        BY <2>3, <2>5, <2>6, <3>8, WeighedSingle DEF Complete
    <3>10. v = fit
        BY <1>2
    <3> HIDE DEF fit
    <3> QED
        BY <3>9, <3>10 DEF Solves
  <2>7. CASE ~in.profile.discriminative
    <3>1. \A j \in DOMAIN in.candidates : ~Ranked(in, j, i)
      <4> SUFFICES ASSUME NEW j \in DOMAIN in.candidates, Ranked(in, j, i) PROVE FALSE
          OBVIOUS
      <4>1. j # i => Ranked(in, i, j)
          BY <2>2
      <4>2. /\ i \in Nat /\ in.candidates[i].votes \in Nat /\ in.candidates[i].conf \in Nat
            /\ j \in Nat /\ in.candidates[j].votes \in Nat /\ in.candidates[j].conf \in Nat
          BY <2>2, Fields
      <4> QED
          BY <4>1, <4>2 DEF Ranked
    <3> DEFINE all == {k \in DOMAIN in.candidates :
                          Mapped(in, k) /\ in.products[ProductOf(in, k)].weight > 0}
    <3>2. i \in all
        BY <1>2, <2>2, <2>4
    <3>3. {j \in all : Ranked(in, j, i)} = {}
        BY <3>1
    <3>4. i \in Identities(in)
      <4>1. Cardinality({j \in all : Ranked(in, j, i)}) = 0
          BY <3>3, FS_EmptySet
      <4>2. Identities(in) = {k \in all : Cardinality({j \in all : Ranked(in, j, k)}) < 6}
          BY DEF Identities, IdentityPool
      <4> HIDE DEF all
      <4> QED
          BY <3>2, <4>1, <4>2
    <3>5. Leads(in, i)
        BY <2>2, IdentitiesAre DEF Leads
    <3>6. Unrivalled(in, i)
        BY <3>4, <3>5, LeaderUnrivalled
    <3> HIDE DEF loose, left
    <3>7. Answers(in, fit)
        BY <2>5, <2>7, <3>4, <3>6, SightSingle DEF Complete
    <3>8. v = fit
        BY <1>2
    <3> HIDE DEF fit
    <3> QED
        BY <3>7, <3>8 DEF Solves
  <2> QED
      BY <2>6, <2>7
<1>3. CASE v = Undecided
    BY <1>3 DEF Solves
<1> HIDE DEF fit, loose, left, p, i
<1> QED
    BY <1>1, <1>2, <1>3
(* The ceiling of relaxed_partial is what was observed and three tolerances. *)
LEMMA CeilingIs ==
    ASSUME NEW in, Sound(in)
    PROVE  /\ Ceiling(in) \in Int
           /\ Ceiling(in) <= Observed(in) + 3 * in.profile.tolerance
           /\ Observed(in) \in Nat
<1> DEFINE D == DOMAIN in.segments
           N == {in.segments[k] : k \in D} \ Nat
           S == {Target(in)} \cup {Size(d) : d \in N}
           s == [j \in D |-> in.segments[j]]
           z == [d \in N |-> Size(d)]
<1>1. D = 1 .. Len(in.segments) /\ Len(in.segments) \in Nat /\ \A j \in D : in.segments[j] \in Int
    BY DEF Sound
<1>2. IsFiniteSet(D)
  <2>1. Len(in.segments) \in Int /\ 1 \in Int
      BY <1>1
  <2> HIDE DEF D
  <2> QED
      BY <1>1, <2>1, FS_Interval
<1>3. IsFiniteSet({in.segments[k] : k \in D})
  <2> DEFINE T == {in.segments[k] : k \in D}
  <2>1. s \in Surjection(D, T)
      BY DEF Surjection
  <2> HIDE DEF s, T, D
  <2>2. IsFiniteSet(T)
      BY <1>2, <2>1, FS_Surjection
  <2> QED
      BY <2>2 DEF T
<1>4. IsFiniteSet(N)
  <2> DEFINE T == {in.segments[k] : k \in D}
  <2>1. N \in SUBSET T /\ IsFiniteSet(T)
      BY <1>3
  <2> HIDE DEF N, T
  <2> QED
      BY <2>1, FS_Subset
<1>5. IsFiniteSet({Size(d) : d \in N})
  <2> DEFINE T == {Size(d) : d \in N}
  <2>1. z \in Surjection(N, T)
      BY DEF Surjection
  <2> HIDE DEF z, T, N
  <2>2. IsFiniteSet(T)
      BY <1>4, <2>1, FS_Surjection
  <2> QED
      BY <2>2 DEF T
<1>6. IsFiniteSet(S)
  <2> DEFINE T == {Size(d) : d \in N}
  <2>1. IsFiniteSet(T) /\ S = T \cup {Target(in)}
      BY <1>5
  <2> HIDE DEF S, T
  <2> QED
      BY <2>1, FS_AddElement
<1>7. \A n \in S : n \in Nat /\ n <= Observed(in)
  <2>1. \A d \in N : Size(d) \in Nat /\ Size(d) <= Observed(in)
      BY ObservedIs
  <2> QED
      BY <2>1, Fields, ObservedIs
<1>8. Ceiling(in) = Max(S) + 3 * in.profile.tolerance
    BY DEF Ceiling, LooseFactor
<1>9. S \in SUBSET Int /\ S # {}
    BY <1>7
<1> HIDE DEF S
<1>10. Max(S) \in S
    BY <1>6, <1>9, MaxIs
<1>11. Max(S) \in Nat /\ Max(S) <= Observed(in)
    BY <1>7, <1>10
<1>12. in.profile.tolerance \in Nat /\ Observed(in) \in Nat
    BY Fields, ObservedIs
<1> QED
    BY <1>8, <1>11, <1>12

LEMMA PartialSolves ==
    ASSUME NEW in, Sound(in)
    PROVE  Solves(in, RelaxedPartial(in))
<1> DEFINE could == {i \in DOMAIN in.candidates :
                     Mapped(in, i) /\ in.products[ProductOf(in, i)].weight <= Ceiling(in)}
           i == Top(in, could)
           one == Partial(Single(ProductOf(in, i), 1), 50 * in.candidates[i].conf,
                          "relaxed_partial")
           v == RelaxedPartial(in)
<1>1. \/ v = Undecided
      \/ in.profile.discriminative /\ could # {} /\ v = one
    BY DEF RelaxedPartial, Top
<1>2. CASE in.profile.discriminative /\ could # {} /\ v = one
  <2>1. i \in could
    <3>1. could \in SUBSET DOMAIN in.candidates /\ could # {}
        BY <1>2
    <3> HIDE DEF could
    <3> QED
        BY <3>1, RankedFirst
  <2> HIDE DEF i
  <2> DEFINE p == ProductOf(in, i)
  <2>2. /\ p \in Stocked(in) /\ in.products[p].weight <= Ceiling(in)
        /\ 1 \in 1 .. in.products[p].stock
      BY <2>1, ProductIs, StockedIs
  <2> HIDE DEF could, p
  <2>3. in.products[p].weight <= Observed(in) + 3 * in.profile.tolerance
    <3>1. in.products[p].weight \in Nat /\ in.profile.tolerance \in Nat
        BY <2>2, Fields DEF Stocked
    <3>2. /\ Observed(in) \in Nat /\ Ceiling(in) \in Int
          /\ Ceiling(in) <= Observed(in) + 3 * in.profile.tolerance
        BY CeilingIs
    <3> QED
        BY <2>2, <3>1, <3>2
  <2>4. Answers(in, one)
      BY <1>2, <2>2, <2>3, WeighedSingle DEF Partial, p
  <2>5. v = one
      BY <1>2
  <2> HIDE DEF one
  <2> QED
      BY <2>4, <2>5 DEF Solves
<1>3. CASE v = Undecided
    BY <1>3 DEF Solves
<1> HIDE DEF one
<1> QED
    BY <1>1, <1>2, <1>3

-----------------------------------------------------------------------------
(* What bills come to.                                                       *)
Grams(in, b) == [p \in DOMAIN b |-> b[p] * in.products[p].weight]

LEMMA WeightIs ==
    ASSUME NEW in, NEW b
    PROVE  Weight(in, b) = Total(Grams(in, b), DOMAIN b)
<1> DEFINE D == DOMAIN b
           w == Grams(in, b)
           A(g) == [u \in SUBSET D |->
                       IF u = {} THEN 0
                       ELSE b[CHOOSE x \in u : TRUE] * in.products[CHOOSE x \in u : TRUE].weight
                            + g[u \ {CHOOSE x \in u : TRUE}]]
           B(g) == [u \in SUBSET D |->
                       IF u = {} THEN 0
                       ELSE w[CHOOSE x \in u : TRUE] + g[u \ {CHOOSE x \in u : TRUE}]]
<1>1. Weight(in, b) = (CHOOSE g : g = A(g))[D]
    BY DEF Weight, MapThenSumSet, MapThenFoldSet
<1>2. Total(w, D) = (CHOOSE g : g = B(g))[D]
    BY DEF Total, MapThenSumSet, MapThenFoldSet
<1>3. \A u \in SUBSET D : u # {} =>
          w[CHOOSE x \in u : TRUE] =
              b[CHOOSE x \in u : TRUE] * in.products[CHOOSE x \in u : TRUE].weight
  <2> TAKE u \in SUBSET D
  <2> HAVE u # {}
  <2>1. (CHOOSE x \in u : TRUE) \in D
      OBVIOUS
  <2> QED
      BY <2>1 DEF Grams
<1> HIDE DEF w
<1>4. ASSUME NEW g PROVE A(g) = B(g)
    BY <1>3
<1>5. (CHOOSE g : g = A(g)) = (CHOOSE g : g = B(g))
  <2> HIDE DEF A, B
  <2> QED
      BY <1>4
<1> HIDE DEF A, B
<1> QED
    BY <1>1, <1>2, <1>5 DEF w

LEMMA BillNumbers ==
    ASSUME NEW in, Sound(in), NEW b, IsBill(in, b)
    PROVE  /\ IsFiniteSet(DOMAIN b) /\ Cardinality(DOMAIN b) \in Nat
           /\ Pieces(b) \in Nat /\ Weight(in, b) \in Nat
           /\ \A p \in DOMAIN b :
                 b[p] <= Pieces(b) /\ in.products[p].weight <= Weight(in, b)
<1> DEFINE D == DOMAIN b
           w == Grams(in, b)
<1>1. /\ D \in SUBSET Stocked(in) /\ b = [p \in D |-> b[p]]
      /\ \A p \in D : b[p] \in 1 .. in.products[p].stock
    BY DEF IsBill
<1>2. \A p \in D : b[p] \in Nat /\ b[p] >= 1 /\ in.products[p].weight \in Nat
    BY <1>1, OnSale
<1>3. IsFiniteSet(D) /\ Cardinality(D) \in Nat
  <2>1. IsFiniteSet(D)
    <3> HIDE DEF D
    <3> QED
        BY <1>1, StockedIs, FS_Subset
  <2> QED
      BY <2>1, FS_CardinalityType
<1>4. b \in [D -> Nat]
    BY <1>1, <1>2
<1>5. \A x, y \in Nat : x >= 1 => x * y \in Nat /\ y <= x * y
    OBVIOUS
<1>6. w \in [D -> Nat]
    BY <1>2, <1>5 DEF Grams
<1>7. \A p \in D : w[p] \in Nat /\ in.products[p].weight <= w[p]
    BY <1>2, <1>5 DEF Grams
<1>8. Pieces(b) = Total(b, D)
    BY DEF Pieces, Total
<1>9. Weight(in, b) = Total(w, D)
    BY WeightIs
<1> HIDE DEF D, w
<1>10. Total(b, D) \in Nat /\ \A p \in D : b[p] <= Total(b, D)
    BY <1>3, <1>4, TotalNat
<1>11. Total(w, D) \in Nat /\ \A p \in D : w[p] <= Total(w, D)
    BY <1>3, <1>6, TotalNat
<1>12. \A p \in D : in.products[p].weight <= Weight(in, b)
  <2> TAKE p \in D
  <2>1. /\ in.products[p].weight \in Nat /\ w[p] \in Nat /\ in.products[p].weight <= w[p]
        /\ w[p] <= Weight(in, b) /\ Weight(in, b) \in Nat
      BY <1>2, <1>7, <1>9, <1>11
  <2> QED
      BY <2>1
<1> QED
    BY <1>3, <1>8, <1>9, <1>10, <1>11, <1>12 DEF D

(* Bills are compared by the counts of what is on sale, heaviest first.      *)
Counts(in, b) == [p \in Stocked(in) |-> Count(b, p)]

HeavierIn(in, p, q) ==
    \/ in.products[p].weight > in.products[q].weight
    \/ in.products[p].weight = in.products[q].weight /\ p < q

Heavy(in) == {q \in Stocked(in) \X Stocked(in) : HeavierIn(in, q[1], q[2])}

LEMMA CountsTell ==
    ASSUME NEW in, Sound(in), NEW a, IsBill(in, a)
    PROVE  /\ Counts(in, a) \in [Stocked(in) -> Int]
           /\ \A b : IsBill(in, b) /\ Counts(in, a) = Counts(in, b) => a = b
<1>1. ASSUME NEW b, IsBill(in, b)
      PROVE  /\ DOMAIN b \subseteq Stocked(in) /\ b = [p \in DOMAIN b |-> b[p]]
             /\ \A p \in Stocked(in) : /\ Count(b, p) \in Nat
                                       /\ p \in DOMAIN b <=> Count(b, p) >= 1
                                       /\ p \in DOMAIN b => Count(b, p) = b[p]
    BY <1>1, OnSale DEF IsBill, Count
<1>2. Counts(in, a) \in [Stocked(in) -> Int]
    BY <1>1 DEF Counts
<1>3. ASSUME NEW b, IsBill(in, b), Counts(in, a) = Counts(in, b) PROVE a = b
  <2> DEFINE S == Stocked(in)
  <2>1. \A p \in S : Count(a, p) = Count(b, p)
    <3> TAKE p \in S
    <3>1. Counts(in, a)[p] = Count(a, p) /\ Counts(in, b)[p] = Count(b, p)
        BY DEF Counts
    <3> QED
        BY <1>3, <3>1
  <2>2. DOMAIN a = DOMAIN b
      BY <1>1, <1>3, <2>1
  <2>3. \A p \in DOMAIN a : a[p] = b[p]
      BY <1>1, <1>3, <2>1, <2>2
  <2>4. a = [p \in DOMAIN a |-> a[p]] /\ b = [p \in DOMAIN b |-> b[p]]
      BY <1>1, <1>3
  <2> QED
      BY <2>2, <2>3, <2>4
<1> QED
    BY <1>2, <1>3

LEMMA HeavyIs ==
    ASSUME NEW in, Sound(in)
    PROVE  OneWay(Heavy(in), Stocked(in))
<1> DEFINE S == Stocked(in)
           R == Heavy(in)
<1>1. \A p \in S : p \in Int /\ in.products[p].weight \in Int
    BY OnSale
<1>2. \A p, q \in S : <<p, q>> \in R <=> HeavierIn(in, p, q)
    BY DEF Heavy
<1> HIDE DEF S, R
<1>3. \A p, q \in S : p # q => HeavierIn(in, p, q) \/ HeavierIn(in, q, p)
    BY <1>1 DEF HeavierIn
<1>4. \A p, q, r \in S : HeavierIn(in, p, q) /\ HeavierIn(in, q, r) => HeavierIn(in, p, r)
    BY <1>1 DEF HeavierIn
<1>5. \A p, q \in S : ~ (HeavierIn(in, p, q) /\ HeavierIn(in, q, p))
    BY <1>1 DEF HeavierIn
<1>6. OneWay(R, S)
    BY <1>2, <1>3, <1>4, <1>5 DEF OneWay, Orders
<1> QED
    BY <1>6 DEF R, S

LEMMA FoundIs ==
    ASSUME NEW in, Sound(in), NEW a, NEW b, IsBill(in, a), IsBill(in, b),
           AtFirst(Counts(in, a), Counts(in, b), Heavy(in), Stocked(in))
    PROVE  Found(in, a, b)
<1> DEFINE differ == {p \in DOMAIN a \cup DOMAIN b : Count(a, p) # Count(b, p)}
           lead   == CHOOSE x \in differ : \A y \in differ \ {x} : HeavierIn(in, x, y)
<1>1. Found(in, a, b) <=> Count(a, lead) < Count(b, lead)
    BY DEF Found, First, HeavierIn
<1>2. PICK p \in Stocked(in) :
          /\ Counts(in, a)[p] < Counts(in, b)[p]
          /\ \A q \in Stocked(in) : <<q, p>> \in Heavy(in) =>
                Counts(in, a)[q] = Counts(in, b)[q]
    BY DEF AtFirst
<1>3. \A q \in Stocked(in) : Counts(in, a)[q] = Count(a, q) /\ Counts(in, b)[q] = Count(b, q)
    BY DEF Counts
<1>4. differ \in SUBSET Stocked(in)
    BY DEF IsBill
<1>5. p \in differ
  <2>1. Count(a, p) < Count(b, p)
      BY <1>2, <1>3
  <2>2. Count(a, p) \in Nat /\ Count(b, p) \in Nat
      BY OnSale DEF IsBill, Count
  <2>3. p \in DOMAIN a \cup DOMAIN b
      BY <2>1, <2>2 DEF Count
  <2> QED
      BY <2>1, <2>2, <2>3
<1>6. OneWay(Heavy(in), Stocked(in))
    BY HeavyIs
<1>7. \A q, r \in Stocked(in) : <<q, r>> \in Heavy(in) <=> HeavierIn(in, q, r)
    BY DEF Heavy
<1> HIDE DEF differ
<1>8. ASSUME NEW y \in differ \ {p} PROVE HeavierIn(in, p, y) /\ ~HeavierIn(in, y, p)
  <2>1. y \in Stocked(in) /\ Count(a, y) # Count(b, y)
      BY <1>4 DEF differ
  <2>2. ~ (<<y, p>> \in Heavy(in))
      BY <1>2, <1>3, <2>1
  <2>3. <<p, y>> \in Heavy(in)
      BY <1>6, <2>1, <2>2 DEF OneWay, Orders
  <2> QED
      BY <1>7, <2>1, <2>2, <2>3
<1>9. lead = p
  <2>1. lead \in differ /\ \A y \in differ \ {lead} : HeavierIn(in, lead, y)
      BY <1>5, <1>8
  <2> HIDE DEF lead
  <2> QED
      BY <1>5, <1>8, <2>1
<1> QED
    BY <1>1, <1>2, <1>3, <1>9

-----------------------------------------------------------------------------
(* What the matcher finds.                                                   *)
Sights(in, conf, b) == [p \in DOMAIN b |-> conf[in.products[p].cls] * b[p]]

SightOf(in, conf, b) == MapThenSumSet(LAMBDA p : conf[in.products[p].cls] * b[p], DOMAIN b)

LEMMA SightsSum ==
    ASSUME NEW in, NEW conf, NEW b
    PROVE  SightOf(in, conf, b) = Total(Sights(in, conf, b), DOMAIN b)
<1> DEFINE D == DOMAIN b
           w == Sights(in, conf, b)
           A(g) == [u \in SUBSET D |->
                       IF u = {} THEN 0
                       ELSE conf[in.products[CHOOSE x \in u : TRUE].cls] * b[CHOOSE x \in u : TRUE]
                            + g[u \ {CHOOSE x \in u : TRUE}]]
           B(g) == [u \in SUBSET D |->
                       IF u = {} THEN 0
                       ELSE w[CHOOSE x \in u : TRUE] + g[u \ {CHOOSE x \in u : TRUE}]]
<1>1. SightOf(in, conf, b) = (CHOOSE g : g = A(g))[D]
    BY DEF SightOf, MapThenSumSet, MapThenFoldSet
<1>2. Total(w, D) = (CHOOSE g : g = B(g))[D]
    BY DEF Total, MapThenSumSet, MapThenFoldSet
<1>3. \A u \in SUBSET D : u # {} =>
          w[CHOOSE x \in u : TRUE] =
              conf[in.products[CHOOSE x \in u : TRUE].cls] * b[CHOOSE x \in u : TRUE]
  <2> TAKE u \in SUBSET D
  <2> HAVE u # {}
  <2>1. (CHOOSE x \in u : TRUE) \in D
      OBVIOUS
  <2> QED
      BY <2>1 DEF Sights
<1> HIDE DEF w
<1>4. ASSUME NEW g PROVE A(g) = B(g)
    BY <1>3
<1>5. (CHOOSE g : g = A(g)) = (CHOOSE g : g = B(g))
  <2> HIDE DEF A, B
  <2> QED
      BY <1>4
<1> HIDE DEF A, B
<1> QED
    BY <1>1, <1>2, <1>5 DEF w

Confident(conf) == \A cls \in DOMAIN conf : conf[cls] \in Nat

Explains(in, conf, target, tolerance, b) ==
    /\ IsBill(in, b) /\ DOMAIN b # {}
    /\ \A p \in DOMAIN b : in.products[p].cls \in DOMAIN conf
    /\ Distance(Weight(in, b), target) <= tolerance

LEMMA ScoreIs ==
    ASSUME NEW in, Sound(in), NEW conf, Confident(conf), NEW target \in Nat,
           NEW tolerance \in Nat, NEW b, Explains(in, conf, target, tolerance, b)
    PROVE  Score(in, conf, b, target, tolerance) \in Int
<1> DEFINE w == Sights(in, conf, b)
           D == DOMAIN b
           sum == Total(w, D)
           pieces == Pieces(b)
           err == Distance(Weight(in, b), target)
           kinds == Cardinality(D)
<1>1. \A x, y \in Nat : x * y \in Nat
    OBVIOUS
<1>2. w \in [D -> Nat]
  <2>1. \A p \in D : conf[in.products[p].cls] \in Nat /\ b[p] \in Nat
      BY OnSale DEF Explains, IsBill, Confident
  <2> QED
      BY <1>1, <2>1 DEF Sights
<1>3. IsFiniteSet(D) /\ kinds \in Nat /\ pieces \in Nat /\ Weight(in, b) \in Nat
    BY BillNumbers DEF Explains
<1>4. sum \in Nat
  <2> HIDE DEF w, D
  <2> QED
      BY <1>2, <1>3, TotalNat
<1>5. pieces >= 1
  <2>1. PICK p \in D : b[p] \in Nat /\ b[p] >= 1
      BY OnSale DEF Explains, IsBill
  <2>2. b[p] <= pieces
      BY BillNumbers DEF Explains
  <2> QED
      BY <1>3, <2>1, <2>2
<1>6. err \in Nat
    BY <1>3 DEF Distance
<1>7. Score(in, conf, b, target, tolerance) =
          36000 * Most(0, tolerance - err) + (180 * tolerance * sum) \div pieces
          + 600 * tolerance * (12 - 2 * kinds)
  <2>1. Score(in, conf, b, target, tolerance) =
            36000 * Most(0, tolerance - err)
            + (180 * tolerance * SightOf(in, conf, b)) \div pieces
            + 600 * tolerance * (12 - 2 * kinds)
      BY DEF Score, SightOf, MapThenSumSet, MapThenFoldSet
  <2>2. SightOf(in, conf, b) = sum
      BY SightsSum
  <2> HIDE DEF sum
  <2> QED
      BY <2>1, <2>2
<1> HIDE DEF sum, pieces, err, kinds
<1>8. 36000 * Most(0, tolerance - err) \in Int
    BY <1>6 DEF Most
<1>9. (180 * tolerance * sum) \div pieces \in Int
  <2>1. 180 * tolerance * sum \in Int
      BY <1>1, <1>4
  <2> QED
      BY <1>3, <1>5, <2>1
<1>10. 600 * tolerance * (12 - 2 * kinds) \in Int
  <2>1. \A x, y \in Int : x * y \in Int
      OBVIOUS
  <2>2. 600 * tolerance \in Int /\ 12 - 2 * kinds \in Int
      BY <1>3
  <2> QED
      BY <2>1, <2>2
<1> QED
    BY <1>7, <1>8, <1>9, <1>10

LEMMA ExplainingIs ==
    ASSUME NEW in, Sound(in), NEW conf, NEW target \in Nat, NEW tolerance \in Nat
    PROVE  /\ IsFiniteSet(Explaining(in, conf, target, tolerance))
           /\ \A b \in Explaining(in, conf, target, tolerance) :
                 Explains(in, conf, target, tolerance, b)
<1> DEFINE pool == {p \in Stocked(in) : in.products[p].cls \in DOMAIN conf}
           caps == {Least(MaxItems, in.products[p].stock) : p \in pool}
           most == Max({1} \cup caps)
           T    == Explaining(in, conf, target, tolerance)
<1>1. IsFiniteSet(pool) /\ pool \in SUBSET Stocked(in)
  <2>1. pool \in SUBSET Stocked(in)
      OBVIOUS
  <2> HIDE DEF pool
  <2> QED
      BY <2>1, StockedIs, FS_Subset
<1>2. most \in Nat
  <2>1. IsFiniteSet(caps)
    <3> DEFINE f == [p \in pool |-> Least(MaxItems, in.products[p].stock)]
    <3>1. f \in Surjection(pool, caps)
        BY DEF Surjection
    <3> HIDE DEF f, pool, caps
    <3> QED
        BY <1>1, <3>1, FS_Surjection
  <2>2. \A n \in caps : n \in Nat
      BY OnSale DEF Least, MaxItems
  <2> HIDE DEF caps
  <2>3. IsFiniteSet({1} \cup caps) /\ {1} \cup caps \in SUBSET Int /\ {1} \cup caps # {}
    <3>1. IsFiniteSet(caps \cup {1}) /\ caps \cup {1} = {1} \cup caps
        BY <2>1, FS_AddElement
    <3> QED
        BY <2>2, <3>1
  <2>4. most \in {1} \cup caps
      BY <2>3, MaxIs
  <2> QED
      BY <2>2, <2>4
<1>3. ASSUME NEW b \in T
      PROVE  /\ \E S \in SUBSET pool : S # {} /\ b \in [S -> 1 .. most]
             /\ \A p \in DOMAIN b : b[p] <= in.products[p].stock
             /\ Distance(Weight(in, b), target) <= tolerance
    BY DEF Explaining
<1> HIDE DEF most, T, pool
<1>4. ASSUME NEW b \in T PROVE Explains(in, conf, target, tolerance, b)
  <2>1. PICK S \in SUBSET pool : S # {} /\ b \in [S -> 1 .. most]
      BY <1>3
  <2>2. DOMAIN b = S /\ b = [p \in S |-> b[p]] /\ \A p \in S : b[p] \in 1 .. most
      BY <2>1
  <2>3. \A p \in S : /\ b[p] \in 1 .. in.products[p].stock
                     /\ p \in Stocked(in) /\ in.products[p].cls \in DOMAIN conf
    <3> TAKE p \in S
    <3>1. p \in Stocked(in) /\ in.products[p].cls \in DOMAIN conf
        BY <2>1 DEF pool
    <3>2. b[p] \in Nat /\ b[p] >= 1 /\ b[p] <= in.products[p].stock
        BY <1>2, <1>3, <2>2
    <3>3. in.products[p].stock \in Nat
        BY <3>1, OnSale
    <3> QED
        BY <3>1, <3>2, <3>3
  <2>4. IsBill(in, b)
      BY <2>2, <2>3 DEF IsBill
  <2> QED
      BY <1>3, <2>1, <2>2, <2>3, <2>4 DEF Explains
<1>5. IsFiniteSet(T)
  <2>1. \A b \in T : \E S \in SUBSET pool : b \in [S -> 1 .. most]
      BY <1>3
  <2> QED
      BY <1>1, <1>2, <2>1, BagsFinite
<1> QED
    BY <1>4, <1>5 DEF T

MatchOf(in, conf, target, tolerance, v) ==
    \/ v = Undecided
    \/ \E b, c : Explains(in, conf, target, tolerance, b) /\ v = Complete(b, c, "strict")

LEMMA BestIs ==
    ASSUME NEW in, Sound(in), NEW conf, Confident(conf), NEW target \in Nat,
           NEW tolerance \in Nat, NEW T, IsFiniteSet(T),
           \A b \in T : Explains(in, conf, target, tolerance, b)
    PROVE  MatchOf(in, conf, target, tolerance, BestMatch(in, conf, T, target, tolerance))
<1> DEFINE score    == [b \in T |-> Score(in, conf, b, target, tolerance)]
           Err(b)   == Distance(Weight(in, b), target)
           Kinds(b) == Cardinality(DOMAIN b)
           Better(a, b) ==
               \/ score[a] > score[b]
               \/ score[a] = score[b] /\ Kinds(a) < Kinds(b)
               \/ score[a] = score[b] /\ Kinds(a) = Kinds(b) /\ Err(a) < Err(b)
               \/ /\ score[a] = score[b] /\ Kinds(a) = Kinds(b) /\ Err(a) = Err(b)
                  /\ Found(in, a, b)
           best     == First(T, Better)
           v        == BestMatch(in, conf, T, target, tolerance)
<1>1. v = IF T = {} THEN Undecided
          ELSE Complete(best, score[best] \div (6 * tolerance), "strict")
    BY DEF BestMatch
<1>2. ASSUME T # {} PROVE best \in T
  <2> DEFINE k == [b \in T |-> 0 - score[b]]
             l == [b \in T |-> Kinds(b)]
             m == [b \in T |-> Err(b)]
             c == [b \in T |-> Counts(in, b)]
             S == Stocked(in)
             R == Heavy(in)
  <2>1. \A b \in T : IsBill(in, b) /\ score[b] \in Int /\ Kinds(b) \in Int /\ Err(b) \in Int
    <3> TAKE b \in T
    <3>1. Explains(in, conf, target, tolerance, b) /\ IsBill(in, b)
        BY DEF Explains
    <3>2. Score(in, conf, b, target, tolerance) \in Int
        BY <3>1, ScoreIs
    <3>3. Cardinality(DOMAIN b) \in Nat /\ Weight(in, b) \in Nat
        BY <3>1, BillNumbers
    <3>4. Distance(Weight(in, b), target) \in Nat
        BY <3>3 DEF Distance
    <3> QED
        BY <3>1, <3>2, <3>3, <3>4
  <2>2. /\ \A b \in T : k[b] = 0 - score[b] /\ l[b] = Kinds(b) /\ m[b] = Err(b)
        /\ \A b \in T : c[b] = Counts(in, b)
      OBVIOUS
  <2> HIDE DEF score
  <2>3. k \in [T -> Int] /\ l \in [T -> Int] /\ m \in [T -> Int]
      BY <2>1
  <2>4. c \in [T -> [S -> Int]] /\ \A a, b \in T : c[a] = c[b] => a = b
      BY <2>1, CountsTell
  <2> HIDE DEF k, l, m, c, S, R, Kinds, Err
  <2>5. IsFiniteSet(S) /\ OneWay(R, S)
      BY StockedIs, HeavyIs DEF S, R
  <2>6. Orders(ByKeys(T, k, l, m, c, R, S), T)
      BY <2>3, <2>4, <2>5, KeysOrder
  <2>7. PICK x \in T : \A y \in T \ {x} : <<x, y>> \in ByKeys(T, k, l, m, c, R, S)
      BY <1>2, <2>6, FirstExists
  <2>8. \A y \in T \ {x} : Better(x, y)
    <3> TAKE y \in T \ {x}
    <3>1. \/ k[x] < k[y]
          \/ k[x] = k[y] /\ l[x] < l[y]
          \/ k[x] = k[y] /\ l[x] = l[y] /\ m[x] < m[y]
          \/ k[x] = k[y] /\ l[x] = l[y] /\ m[x] = m[y] /\ AtFirst(c[x], c[y], R, S)
        BY <2>7 DEF ByKeys, KeysThen
    <3>2. AtFirst(c[x], c[y], R, S) => Found(in, x, y)
        BY <2>1, <2>2, FoundIs DEF R, S
    <3>3. /\ score[x] \in Int /\ score[y] \in Int
          /\ k[x] = 0 - score[x] /\ k[y] = 0 - score[y]
          /\ l[x] = Kinds(x) /\ l[y] = Kinds(y) /\ m[x] = Err(x) /\ m[y] = Err(y)
        BY <2>1, <2>2
    <3>4. /\ k[x] < k[y] => score[x] > score[y]
          /\ k[x] = k[y] => score[x] = score[y]
        BY <3>3
    <3> QED
        BY <3>1, <3>2, <3>3, <3>4
  <2> HIDE DEF Better
  <2> QED
      BY <2>8 DEF First
<1> HIDE DEF best
<1>3. CASE T # {}
    BY <1>1, <1>2, <1>3 DEF MatchOf
<1>4. CASE T = {}
    BY <1>1, <1>4 DEF MatchOf
<1> QED
    BY <1>3, <1>4

LEMMA MatchIs ==
    ASSUME NEW in, Sound(in), NEW conf, Confident(conf), NEW target \in Nat,
           NEW tolerance \in Nat
    PROVE  MatchOf(in, conf, target, tolerance, Match(in, conf, target, tolerance))
<1> DEFINE E == Explaining(in, conf, target, tolerance)
           T == Occam(in, E, target)
<1>1. T \in SUBSET E
    BY DEF Occam
<1>2. IsFiniteSet(E) /\ \A b \in E : Explains(in, conf, target, tolerance, b)
    BY ExplainingIs
<1>3. Match(in, conf, target, tolerance) =
          IF target < tolerance THEN Undecided ELSE BestMatch(in, conf, T, target, tolerance)
    BY DEF Match
<1> HIDE DEF E, T
<1>4. IsFiniteSet(T) /\ \A b \in T : Explains(in, conf, target, tolerance, b)
    BY <1>1, <1>2, FS_Subset
<1>5. MatchOf(in, conf, target, tolerance, BestMatch(in, conf, T, target, tolerance))
    BY <1>4, BestIs
<1> QED
    BY <1>3, <1>5 DEF MatchOf

-----------------------------------------------------------------------------
(* Each removal matched of its own, and the bills added up.                  *)
Losses == {d \in Int : d < 0}

LEMMA RemovalsAre ==
    ASSUME NEW in, in.segments \in Seq(Int)
    PROVE  Removals(in) = Those(in.segments, Losses)
<1> DEFINE s == in.segments
           A(g) == [u \in SUBSET DOMAIN s |->
                       IF u = {} THEN <<>>
                       ELSE IF s[Max(u)] < 0 THEN Append(g[u \ {Max(u)}], s[Max(u)])
                       ELSE g[u \ {Max(u)}]]
           B(g) == [u \in SUBSET DOMAIN s |->
                       IF u = {} THEN <<>>
                       ELSE IF s[Max(u)] \in Losses THEN Append(g[u \ {Max(u)}], s[Max(u)])
                       ELSE g[u \ {Max(u)}]]
<1>1. \A k \in DOMAIN s : s[k] \in Losses <=> s[k] < 0
    BY DEF Losses
<1>2. DOMAIN s = 1 .. Len(s) /\ Len(s) \in Nat
    OBVIOUS
<1>3. \A u \in SUBSET DOMAIN s : u # {} => Max(u) \in u
  <2> HIDE DEF s
  <2> QED
      BY <1>2, LastOf
<1>4. \A u \in SUBSET DOMAIN s : u # {} => (s[Max(u)] \in Losses <=> s[Max(u)] < 0)
    BY <1>1, <1>3
<1>5. ASSUME NEW g PROVE A(g) = B(g)
    BY <1>4
<1>6. Removals(in) = (CHOOSE g : g = A(g))[DOMAIN s]
    BY DEF Removals, Filtered, FoldLeft, MapThenFoldSet
<1>7. Those(s, Losses) = (CHOOSE g : g = B(g))[DOMAIN s]
    BY DEF Those, Filtered, FoldLeft, MapThenFoldSet
<1>8. (CHOOSE g : g = A(g)) = (CHOOSE g : g = B(g))
  <2> HIDE DEF A, B
  <2> QED
      BY <1>5
<1> HIDE DEF A, B, s
<1> QED
    BY <1>6, <1>7, <1>8 DEF s

LEMMA RemovalsObserved ==
    ASSUME NEW in, Sound(in)
    PROVE  /\ Removals(in) \in Seq(Int)
           /\ \A k \in 1 .. Len(Removals(in)) :
                 Size(Removals(in)[k]) \in Nat /\ Size(Removals(in)[k]) <= Observed(in)
<1> DEFINE s == in.segments
           r == Removals(in)
<1>1. s \in Seq(Int)
    BY DEF Sound
<1>2. r = Those(s, Losses)
    BY <1>1, RemovalsAre
<1>3. Those(s, Losses) \in Seq(Int) /\ TakenFrom(Those(s, Losses), Len(s), s, Losses)
  <2> HIDE DEF s
  <2> QED
      BY <1>1, FilteredFrom
<1>4. DOMAIN s = 1 .. Len(s)
    BY <1>1
<1>5. \A j \in DOMAIN s : Size(s[j]) \in Nat /\ Size(s[j]) <= Observed(in)
    BY ObservedIs
<1> HIDE DEF s, r
<1>6. PICK m \in [1 .. Len(r) -> 1 .. Len(s)] : Copies(m, r, s, Losses)
    BY <1>2, <1>3 DEF TakenFrom
<1>7. \A k \in 1 .. Len(r) : m[k] \in DOMAIN s /\ r[k] = s[m[k]]
    BY <1>4, <1>6 DEF Copies
<1> QED
    BY <1>2, <1>3, <1>5, <1>7 DEF r

Adds(t, n, bills) ==
    /\ t[0] = Empty /\ AddAll(bills) = t[n]
    /\ \A k \in 1 .. n : t[k] = Add(t[k - 1], bills[k])

LEMMA AddTrace ==
    ASSUME NEW n \in Nat, NEW bills, DOMAIN bills = 1 .. n, NEW V, Empty \in V,
           \A k \in 1 .. n : \A v \in V : Add(v, bills[k]) \in V
    PROVE  \E t \in [0 .. n -> V] : Adds(t, n, bills)
<1> DEFINE h == [k \in 1 .. n |-> [v \in V |-> Add(v, bills[k])]]
           Def(g) == g = [s \in SUBSET (1 .. n) |->
                             IF s = {} THEN Empty ELSE Add(g[s \ {Max(s)}], bills[Max(s)])]
           f == CHOOSE g : Def(g)
<1>1. AddAll(bills) = f[1 .. n]
    BY DEF AddAll, FoldLeft, MapThenFoldSet
<1>2. h \in [1 .. n -> [V -> V]]
    OBVIOUS
<1>3. \A s \in SUBSET (1 .. n) : s # {} => Max(s) \in s
    BY LastOf
<1>4. \A k \in 1 .. n, v \in V : h[k][v] = Add(v, bills[k])
    OBVIOUS
<1> HIDE DEF h
<1>5. PICK g \in [SUBSET (1 .. n) -> V] : ListFolds(g, n, V, Empty, h)
    BY <1>2, ListFoldExists
<1>6. ASSUME NEW s \in SUBSET (1 .. n)
      PROVE  g[s] = IF s = {} THEN Empty ELSE Add(g[s \ {Max(s)}], bills[Max(s)])
  <2>1. CASE s = {}
      BY <1>5, <2>1 DEF ListFolds
  <2>2. CASE s # {}
    <3>1. Max(s) \in 1 .. n /\ g[s \ {Max(s)}] \in V
        BY <1>3, <2>2
    <3>2. g[s] = h[Max(s)][g[s \ {Max(s)}]]
        BY <1>5, <2>2, <3>1 DEF ListFolds
    <3> QED
        BY <1>4, <2>2, <3>1, <3>2
  <2> QED
      BY <2>1, <2>2
<1>7. Def(g)
    BY <1>6
<1>8. Def(f)
  <2> HIDE DEF Def
  <2> QED
      BY <1>7
<1> HIDE DEF f
<1>9. \A s \in SUBSET (1 .. n) :
          f[s] = IF s = {} THEN Empty ELSE Add(f[s \ {Max(s)}], bills[Max(s)])
    BY <1>8
<1> HIDE DEF Def
<1>10. ListFolds(f, n, V, Empty, h)
  <2>1. ASSUME NEW s \in SUBSET (1 .. n), s # {}, f[s \ {Max(s)}] \in V
        PROVE  f[s] = h[Max(s)][f[s \ {Max(s)}]]
    <3>1. Max(s) \in 1 .. n
        BY <1>3, <2>1
    <3>2. h[Max(s)][f[s \ {Max(s)}]] = Add(f[s \ {Max(s)}], bills[Max(s)])
        BY <1>4, <2>1, <3>1
    <3> QED
        BY <1>9, <2>1, <3>2
  <2>2. f[{}] = Empty
      BY <1>9
  <2> QED
      BY <2>1, <2>2 DEF ListFolds
<1>11. PICK t \in [0 .. n -> V] : Traces(t, n, Empty, h) /\ f[1 .. n] = t[n]
    BY <1>2, <1>10, ListFoldTrace
<1>12. t[0] = Empty
    BY <1>11 DEF Traces
<1>13. ASSUME NEW k \in 1 .. n PROVE t[k] = Add(t[k - 1], bills[k])
  <2>1. k - 1 \in 0 .. n
      OBVIOUS
  <2> QED
      BY <1>4, <1>11, <2>1 DEF Traces
<1> QED
    BY <1>1, <1>11, <1>12, <1>13 DEF Adds

(* Bills of products in S, whatever the stock.                               *)
BillsOf(S) == UNION {[D -> Nat \ {0}] : D \in SUBSET S}

LEMMA BillsAdd ==
    ASSUME NEW S, NEW a \in BillsOf(S), NEW b \in BillsOf(S)
    PROVE  Add(a, b) \in BillsOf(S)
<1>1. PICK D \in SUBSET S : a \in [D -> Nat \ {0}]
    BY DEF BillsOf
<1>2. PICK E \in SUBSET S : b \in [E -> Nat \ {0}]
    BY DEF BillsOf
<1>3. \A p \in D \cup E : Count(a, p) + Count(b, p) \in Nat \ {0}
    BY <1>1, <1>2 DEF Count
<1>4. Add(a, b) \in [D \cup E -> Nat \ {0}]
    BY <1>1, <1>2, <1>3 DEF Add
<1> QED
    BY <1>4 DEF BillsOf

LEMMA AllAdded ==
    ASSUME NEW S, NEW n \in Nat, NEW bills, DOMAIN bills = 1 .. n,
           \A k \in 1 .. n : bills[k] \in BillsOf(S)
    PROVE  AddAll(bills) \in BillsOf(S)
<1> DEFINE V == BillsOf(S)
<1>1. Empty \in V
  <2>1. Empty \in [{} -> Nat \ {0}]
      BY DEF Empty
  <2> QED
      BY <2>1 DEF BillsOf
<1>2. \A k \in 1 .. n : \A v \in V : Add(v, bills[k]) \in V
    BY BillsAdd
<1> HIDE DEF V
<1>3. PICK t \in [0 .. n -> V] : Adds(t, n, bills)
    BY <1>1, <1>2, AddTrace
<1>4. t[n] \in V /\ AddAll(bills) = t[n]
    BY <1>3 DEF Adds
<1> QED
    BY <1>4 DEF V

(* A bill of products none of which is too heavy.                            *)
Light(in) == {p \in Stocked(in) : in.products[p].weight <= Observed(in) + 3 * in.profile.tolerance}

LEMMA LightBill ==
    ASSUME NEW in, Sound(in), in.profile.discriminative,
           NEW b \in BillsOf(Light(in)), \A p \in DOMAIN b : ~(b[p] > in.products[p].stock),
           NEW status \in {"complete", "partial"}, NEW conf, NEW why
    PROVE  Answers(in, Verdict(status, b, conf, why))
<1>1. PICK D \in SUBSET Light(in) : b \in [D -> Nat \ {0}]
    BY DEF BillsOf
<1>2. \A p \in D : /\ p \in Stocked(in) /\ b[p] \in 1 .. in.products[p].stock
                   /\ in.products[p].weight <= Observed(in) + 3 * in.profile.tolerance
  <2> TAKE p \in D
  <2>1. /\ p \in Stocked(in) /\ b[p] \in Nat \ {0} /\ ~(b[p] > in.products[p].stock)
        /\ in.products[p].weight <= Observed(in) + 3 * in.profile.tolerance
      BY <1>1 DEF Light
  <2>2. in.products[p].stock \in Nat
      BY <2>1, OnSale
  <2> QED
      BY <2>1, <2>2
<1>3. IsBill(in, b)
    BY <1>1, <1>2 DEF IsBill
<1>4. NoneTooHeavy(in, b) /\ ChosenBySight(in, b)
    BY <1>1, <1>2 DEF NoneTooHeavy, ChosenBySight
<1> QED
    BY <1>3, <1>4 DEF Answers, Verdict

LEMMA ExplainsLight ==
    ASSUME NEW in, Sound(in), NEW conf, NEW target \in Nat, target <= Observed(in),
           NEW tolerance \in Nat, tolerance <= 3 * in.profile.tolerance,
           NEW b, Explains(in, conf, target, tolerance, b)
    PROVE  b \in BillsOf(Light(in)) /\ \A p \in DOMAIN b : ~(b[p] > in.products[p].stock)
<1>1. IsBill(in, b) /\ Distance(Weight(in, b), target) <= tolerance
    BY DEF Explains
<1>2. Weight(in, b) \in Nat /\ \A p \in DOMAIN b : in.products[p].weight <= Weight(in, b)
    BY <1>1, BillNumbers
<1>3. Observed(in) \in Nat /\ in.profile.tolerance \in Nat
    BY ObservedIs, Fields
<1>4. Weight(in, b) <= Observed(in) + 3 * in.profile.tolerance
    BY <1>1, <1>2, <1>3 DEF Distance
<1>5. ASSUME NEW p \in DOMAIN b
      PROVE  p \in Light(in) /\ b[p] \in Nat \ {0} /\ ~(b[p] > in.products[p].stock)
  <2>1. p \in Stocked(in) /\ b[p] \in 1 .. in.products[p].stock
      BY <1>1 DEF IsBill
  <2>2. in.products[p].weight \in Nat /\ in.products[p].stock \in Nat
      BY <2>1, OnSale
  <2>3. in.products[p].weight <= Observed(in) + 3 * in.profile.tolerance
      BY <1>2, <1>3, <1>4, <2>2
  <2> QED
      BY <2>1, <2>2, <2>3 DEF Light
<1>6. b \in [DOMAIN b -> Nat \ {0}]
    BY <1>1, <1>5 DEF IsBill
<1> QED
    BY <1>5, <1>6 DEF BillsOf

LEMMA EachSolves ==
    ASSUME NEW in, Sound(in), in.profile.discriminative, NEW conf, Confident(conf), NEW why
    PROVE  Solves(in, MatchEach(in, conf, why))
<1> DEFINE steps == Removals(in)
           match == [k \in DOMAIN steps |->
                        Match(in, conf, Size(steps[k]), in.profile.tolerance)]
           bills == [k \in DOMAIN match |-> match[k].bill]
           bill  == AddAll(bills)
           mean  == FoldLeft(LAMBDA n, m : n + m.conf, 0, match) \div Len(steps)
           v     == MatchEach(in, conf, why)
<1>1. v = IF \/ \E k \in DOMAIN steps : match[k] = Undecided
             \/ \E p \in DOMAIN bill : bill[p] > in.products[p].stock
          THEN Undecided ELSE Complete(bill, mean, why)
    BY DEF MatchEach
<1>2. CASE v = Undecided
    BY <1>2 DEF Solves
<1>3. CASE /\ \A k \in DOMAIN steps : match[k] # Undecided
           /\ \A p \in DOMAIN bill : ~(bill[p] > in.products[p].stock)
           /\ v = Complete(bill, mean, why)
  <2> DEFINE n == Len(steps)
  <2>1. /\ n \in Nat /\ DOMAIN steps = 1 .. n
        /\ \A k \in 1 .. n : Size(steps[k]) \in Nat /\ Size(steps[k]) <= Observed(in)
    <3>1. steps \in Seq(Int)
        BY RemovalsObserved
    <3> QED
        BY <3>1, RemovalsObserved
  <2>2. in.profile.tolerance \in Nat /\ in.profile.tolerance <= 3 * in.profile.tolerance
      BY Fields
  <2>3. DOMAIN bills = 1 .. n /\ \A k \in 1 .. n : bills[k] = match[k].bill
      BY <2>1
  <2>4. ASSUME NEW k \in 1 .. n PROVE bills[k] \in BillsOf(Light(in))
    <3> DEFINE w == Size(steps[k])
    <3>1. w \in Nat /\ w <= Observed(in)
        BY <2>1
    <3>2. match[k] = Match(in, conf, w, in.profile.tolerance) /\ match[k] # Undecided
        BY <1>3, <2>1
    <3> HIDE DEF w, match, bills
    <3>3. MatchOf(in, conf, w, in.profile.tolerance, match[k])
        BY <2>2, <3>1, <3>2, MatchIs
    <3>4. PICK b, c : /\ Explains(in, conf, w, in.profile.tolerance, b)
                      /\ match[k] = Complete(b, c, "strict")
        BY <3>2, <3>3 DEF MatchOf
    <3>5. bills[k] = b
        BY <2>3, <3>4 DEF Complete, Verdict
    <3>6. b \in BillsOf(Light(in))
        BY <2>2, <3>1, <3>4, ExplainsLight
    <3> QED
        BY <3>5, <3>6
  <2> HIDE DEF bills, n, mean
  <2>5. bill \in BillsOf(Light(in))
      BY <2>1, <2>3, <2>4, AllAdded
  <2> HIDE DEF bill
  <2>6. Answers(in, Verdict("complete", bill, mean, why))
      BY <1>3, <2>5, LightBill
  <2> QED
      BY <1>3, <2>6 DEF Solves, Complete
<1> HIDE DEF match, bill, mean
<1> QED
    BY <1>1, <1>2, <1>3

LEMMA SeenConfident ==
    ASSUME NEW in, Sound(in)
    PROVE  Confident(Seen(in))
BY SeenIs DEF Confident

LEMMA SegmentSolves ==
    ASSUME NEW in, Sound(in)
    PROVE  Solves(in, SegmentWeightMatching(in))
<1>1. CASE in.profile.discriminative
  <2>1. Solves(in, MatchEach(in, Seen(in), "segment_weight_matching"))
      BY <1>1, SeenConfident, EachSolves
  <2> QED
      BY <2>1 DEF SegmentWeightMatching, Solves
<1>2. CASE ~in.profile.discriminative
    BY <1>2 DEF SegmentWeightMatching, Solves
<1> QED
    BY <1>1, <1>2

LEMMA StageSolves ==
    ASSUME NEW in, Sound(in), NEW blind
    PROVE  Solves(in, StageCountCombination(in, blind))
<1> DEFINE zero == [cls \in {in.products[p].cls : p \in Stocked(in)} |-> 0]
           conf == IF in.candidates # <<>> THEN Seen(in) ELSE zero
           each == MatchEach(in, conf, "stage_count_combo")
           v    == StageCountCombination(in, blind)
<1>1. v = Undecided \/ (in.profile.discriminative /\ v = each)
    BY DEF StageCountCombination
<1>2. CASE in.profile.discriminative /\ v = each
  <2>1. Confident(zero)
      BY DEF Confident
  <2> HIDE DEF zero
  <2>2. Confident(conf)
      BY <2>1, SeenConfident
  <2> HIDE DEF conf
  <2>3. Solves(in, each)
      BY <1>2, <2>2, EachSolves
  <2> QED
      BY <1>2, <2>3
<1>3. CASE v = Undecided
    BY <1>3 DEF Solves
<1> QED
    BY <1>1, <1>2, <1>3

LEMMA MatchSeenIs ==
    ASSUME NEW in, Sound(in), NEW factor \in {1, 2}
    PROVE  \/ MatchSeen(in, factor) = Undecided
           \/ /\ in.profile.discriminative
              /\ \E b, c : /\ MatchSeen(in, factor) = Complete(b, c, "strict")
                           /\ b \in BillsOf(Light(in))
                           /\ \A p \in DOMAIN b : ~(b[p] > in.products[p].stock)
<1> DEFINE tolerance == factor * in.profile.tolerance
           target == Target(in)
           conf == Seen(in)
<1>1. /\ tolerance \in Nat /\ tolerance <= 3 * in.profile.tolerance
      /\ target \in Nat /\ target <= Observed(in)
    BY Fields, ObservedIs
<1>2. \/ MatchSeen(in, factor) = Undecided
      \/ /\ in.profile.discriminative
         /\ MatchSeen(in, factor) = Match(in, conf, target, tolerance)
    BY DEF MatchSeen
<1> HIDE DEF tolerance, target, conf
<1>3. MatchOf(in, conf, target, tolerance, Match(in, conf, target, tolerance))
    BY <1>1, SeenConfident, MatchIs DEF conf
<1>4. ASSUME NEW b, Explains(in, conf, target, tolerance, b)
      PROVE  b \in BillsOf(Light(in)) /\ \A p \in DOMAIN b : ~(b[p] > in.products[p].stock)
    BY <1>1, <1>4, ExplainsLight
<1> QED
    BY <1>2, <1>3, <1>4 DEF MatchOf

LEMMA StrictSolves ==
    ASSUME NEW in, Sound(in)
    PROVE  Solves(in, Strict(in))
<1>1. CASE MatchSeen(in, 1) = Undecided
    BY <1>1 DEF Strict, Solves
<1>2. CASE MatchSeen(in, 1) # Undecided
  <2>1. PICK b, c : /\ MatchSeen(in, 1) = Complete(b, c, "strict")
                    /\ b \in BillsOf(Light(in))
                    /\ \A p \in DOMAIN b : ~(b[p] > in.products[p].stock)
      BY <1>2, MatchSeenIs
  <2>2. in.profile.discriminative
      BY <1>2, MatchSeenIs
  <2>3. Answers(in, Verdict("complete", b, c, "strict"))
      BY <2>1, <2>2, LightBill
  <2> QED
      BY <2>1, <2>3 DEF Strict, Solves, Complete
<1> QED
    BY <1>1, <1>2

LEMMA RelaxedSolves ==
    ASSUME NEW in, Sound(in)
    PROVE  Solves(in, Relaxed(in))
<1> DEFINE m == MatchSeen(in, 2)
           v == Relaxed(in)
<1>1. v = IF m = Undecided THEN Undecided
          ELSE Complete(m.bill, (8 * m.conf) \div 10, "relaxed_combination")
    BY DEF Relaxed, RelaxFactor
<1>2. CASE m = Undecided
    BY <1>1, <1>2 DEF Solves
<1>3. CASE m # Undecided
  <2>1. PICK b, c : /\ m = Complete(b, c, "strict")
                    /\ b \in BillsOf(Light(in))
                    /\ \A p \in DOMAIN b : ~(b[p] > in.products[p].stock)
      BY <1>3, MatchSeenIs
  <2>2. in.profile.discriminative
      BY <1>3, MatchSeenIs
  <2>3. m.bill = b /\ m.conf = c
      BY <2>1 DEF Complete, Verdict
  <2> DEFINE conf == (8 * c) \div 10
  <2>4. v = Complete(b, conf, "relaxed_combination")
      BY <1>1, <1>3, <2>3
  <2> HIDE DEF conf, m
  <2>5. Answers(in, Verdict("complete", b, conf, "relaxed_combination"))
      BY <2>1, <2>2, LightBill
  <2> QED
      BY <2>4, <2>5 DEF Solves, Complete
<1> QED
    BY <1>2, <1>3

-----------------------------------------------------------------------------
(* The stages of the freezer.                                                *)
LEMMA GateIs ==
    ASSUME NEW in, Sound(in), NEW i \in Identities(in)
    PROVE  /\ GateOf(in, Pcs(in, i)) \in Nat /\ Left(in, i) \in Nat
           /\ InGate(in, i) => IsNear(in, i)
<1>1. /\ Pcs(in, i) \in 1 .. in.products[ProductOf(in, i)].stock
      /\ ProductOf(in, i) \in Stocked(in)
    BY IdentitiesAre
<1>2. /\ in.products[ProductOf(in, i)].stock \in Nat
      /\ in.products[ProductOf(in, i)].weight \in Nat
      /\ in.profile.gate \in Nat /\ Target(in) \in Nat
    BY <1>1, OnSale, Fields
<1>3. GateOf(in, Pcs(in, i)) \in Nat
    BY <1>1, <1>2 DEF GateOf, UnitSlack
<1>4. \A x, y \in Nat : x * y \in Nat
    OBVIOUS
<1>5. Pcs(in, i) * in.products[ProductOf(in, i)].weight \in Nat
    BY <1>1, <1>2, <1>4
<1>6. Left(in, i) \in Nat
    BY <1>2, <1>5 DEF Left, Residual, Distance
<1>7. InGate(in, i) => IsNear(in, i)
    BY <1>3, <1>6 DEF InGate, IsNear, NearFactor
<1> QED
    BY <1>3, <1>6, <1>7

(* j was seen as often as i and surer.                                       *)
SeenBetter(in, j, i) ==
    /\ in.candidates[j].votes >= in.candidates[i].votes
    /\ in.candidates[j].conf > in.candidates[i].conf

LEMMA BetterIs ==
    ASSUME NEW in, Sound(in), NEW i \in DOMAIN in.candidates, NEW j \in DOMAIN in.candidates,
           SeenBetter(in, j, i)
    PROVE  ~Ranked(in, i, j) /\ ~Surer(in, i, j)
<1>1. /\ in.candidates[i].votes \in Nat /\ in.candidates[i].conf \in Nat
      /\ in.candidates[j].votes \in Nat /\ in.candidates[j].conf \in Nat
    BY Fields
<1>2. ~Ranked(in, i, j)
    BY <1>1 DEF Ranked, SeenBetter
<1>3. ~Surer(in, i, j)
    BY <1>1 DEF Surer, SeenBetter
<1> QED
    BY <1>2, <1>3

LEMMA ShareIs ==
    ASSUME NEW in, Sound(in), NEW i \in DOMAIN in.candidates, NEW j \in DOMAIN in.candidates,
           SeenBetter(in, j, i), NEW top \in DOMAIN in.candidates
    PROVE  /\ \A n \in Nat : HasShare(in, top, i, n) => HasShare(in, top, j, n)
           /\ Eligible(in, top, i) => Eligible(in, top, j)
<1>1. /\ in.candidates[i].votes \in Nat /\ in.candidates[i].conf \in Nat
      /\ in.candidates[j].votes \in Nat /\ in.candidates[j].conf \in Nat
      /\ in.candidates[top].votes \in Nat
    BY Fields
<1>2. ASSUME NEW n \in Nat, HasShare(in, top, i, n) PROVE HasShare(in, top, j, n)
  <2> DEFINE m == n * in.candidates[top].votes
  <2>1. m \in Nat
    <3>1. \A x, y \in Nat : x * y \in Nat
        OBVIOUS
    <3> QED
        BY <1>1, <3>1
  <2>2. 100 * in.candidates[i].votes >= m
      BY <1>2 DEF HasShare
  <2> HIDE DEF m
  <2>3. 100 * in.candidates[j].votes >= m
      BY <1>1, <2>1, <2>2 DEF SeenBetter
  <2> QED
      BY <2>3 DEF HasShare, m
<1>3. Eligible(in, top, i) => Eligible(in, top, j)
  <2>1. in.candidates[i].conf >= 90 => in.candidates[j].conf >= 90
      BY <1>1 DEF SeenBetter
  <2> QED
      BY <1>2, <2>1 DEF Eligible, SingleShare, RefitShare, ConfOverride
<1> QED
    BY <1>2, <1>3

LEMMA WinnerUnrivalled ==
    ASSUME NEW in, Sound(in), Identities(in) # {}, NEW w \in Winners(in, Identities(in))
    PROVE  w \in Identities(in) /\ Unrivalled(in, w) /\ Winners(in, Identities(in)) = {w}
<1> DEFINE ids   == Identities(in)
           top   == Top(in, ids)
           fits  == Fits(in, ids)
           F     == OccamFits(in, fits)
           voted == Top(in, F)
           sure  == Surest(in, F)
<1>1. Winners(in, ids) =
          IF F = {} THEN {}
          ELSE IF Beats(in, sure, voted) THEN {sure}
          ELSE IF sure = voted \/ voted = top THEN {voted} ELSE {}
    BY DEF Winners, Winner, Top, Surest
<1>2. F \in SUBSET fits /\ fits \in SUBSET ids /\ ids \in SUBSET DOMAIN in.candidates
    BY IdentitiesAre DEF OccamFits, Fits
<1>3. top \in ids
    BY TopLeads
<1>4. F # {} => /\ voted \in F /\ \A y \in F \ {voted} : Ranked(in, voted, y)
                /\ sure \in F /\ \A y \in F \ {sure} : Surer(in, sure, y)
  <2>1. F \in SUBSET DOMAIN in.candidates
      BY <1>2
  <2> HIDE DEF F
  <2> QED
      BY <2>1, RankedFirst, SurerFirst
<1> HIDE DEF voted, sure
<1>5. /\ F # {} /\ (w = voted \/ w = sure)
      /\ Winners(in, ids) = {w}
    BY <1>1
<1>6. w \in F /\ w \in fits /\ w \in ids
    BY <1>2, <1>4, <1>5
<1>7. ASSUME NEW j \in ids \ {w}, FitsToo(in, j), SeenBetter(in, j, w) PROVE FALSE
  <2>1. j \in DOMAIN in.candidates /\ w \in DOMAIN in.candidates /\ top \in DOMAIN in.candidates
      BY <1>2, <1>3, <1>6
  <2>2. j \in fits
    <3>1. Eligible(in, top, w)
        BY <1>6 DEF Fits
    <3> HIDE DEF top
    <3>2. Eligible(in, top, j)
        BY <1>7, <2>1, <3>1, ShareIs
    <3> QED
        BY <1>7, <3>2 DEF Fits, FitsToo, top
  <2>3. \A one \in fits : Pcs(in, one) = 1 => Pcs(in, j) = 1
    <3> TAKE one \in fits
    <3> HAVE Pcs(in, one) = 1
    <3>1. one \in ids /\ InGate(in, one)
        BY DEF Fits
    <3>2. ~ (Pcs(in, j) > 1)
        BY <1>7, <3>1 DEF FitsToo
    <3>3. Pcs(in, j) \in Nat /\ Pcs(in, j) >= 1
      <4>1. /\ Pcs(in, j) \in 1 .. in.products[ProductOf(in, j)].stock
            /\ in.products[ProductOf(in, j)].stock \in Nat
          BY IdentitiesAre, OnSale
      <4> QED
          BY <4>1
    <3> QED
        BY <3>2, <3>3
  <2>4. j \in F
      BY <2>2, <2>3 DEF OccamFits
  <2>5. Ranked(in, w, j) \/ Surer(in, w, j)
      BY <1>4, <1>5, <1>7, <2>4
  <2> QED
      BY <1>7, <2>1, <2>5, BetterIs
<1> QED
    BY <1>5, <1>6, <1>7 DEF Unrivalled, SeenBetter

(* The leader that nearly fits.                                              *)
LEMMA NearSolves ==
    ASSUME NEW in, Sound(in), ~in.profile.discriminative, Identities(in) # {}
    PROVE  LET top == Top(in, Identities(in)) IN
           /\ Solves(in, NearGate(in, top))
           /\ NearGate(in, top) = Undecided => ~IsNear(in, top)
<1> DEFINE top  == Top(in, Identities(in))
           conf == 60 * in.candidates[top].conf
           v    == NearGate(in, top)
           none == Verdict("no_detection", Empty, conf, "freezer_vision_first_near_gate_low_conf")
           one  == Partial(Single(ProductOf(in, top), Pcs(in, top)), conf,
                           "freezer_vision_first_near_gate")
<1>1. v = IF ~IsNear(in, top) THEN Undecided
          ELSE IF conf < PartialFloor THEN none ELSE one
    BY DEF NearGate
<1>2. top \in Identities(in) /\ Leads(in, top)
    BY TopLeads
<1> HIDE DEF top
<1>3. Unrivalled(in, top)
    BY <1>2, LeaderUnrivalled
<1>4. Pcs(in, top) \in 1 .. in.products[ProductOf(in, top)].stock
    BY <1>2, IdentitiesAre
<1> HIDE DEF conf
<1>5. Answers(in, one)
    BY <1>2, <1>3, <1>4, SightSingle DEF Partial
<1>6. Answers(in, none)
    BY NothingAnswers
<1>7. one # Undecided /\ none # Undecided
    BY DEF Partial, Undecided, Verdict
<1> HIDE DEF one, none
<1>8. Solves(in, v) /\ (v = Undecided => ~IsNear(in, top))
    BY <1>1, <1>5, <1>6, <1>7 DEF Solves
<1> QED
    BY <1>8 DEF top

(* The leader refuted, another charged.                                      *)
LEMMA RefitSolves ==
    ASSUME NEW in, Sound(in), ~in.profile.discriminative, Identities(in) # {},
           NEW top, top = Top(in, Identities(in)), ~IsNear(in, top)
    PROVE  Solves(in, Refit(in, {i \in Identities(in) \ {top} : HasShare(in, top, i, RefitShare)}))
<1> DEFINE ids    == Identities(in)
           others == {i \in ids \ {top} : HasShare(in, top, i, RefitShare)}
           gated  == {i \in others : InGate(in, i)}
           near   == {i \in others : IsNear(in, i)}
           sure   == Surest(in, gated)
           C      == Chosen(in, gated, near)
           i      == CHOOSE w \in C : TRUE
           conf   == 80 * in.candidates[i].conf
           one    == Complete(Single(ProductOf(in, i), Pcs(in, i)), conf,
                              "freezer_vision_first_refit")
           v      == Refit(in, others)
<1>1. v = IF C = {} THEN Undecided ELSE one
    BY DEF Refit
<1>2. \/ C = gated /\ Cardinality(gated) = 1
      \/ C = {sure} /\ gated # {}
      \/ C = near /\ Cardinality(near) = 1 /\ gated = {}
      \/ C = {}
    BY DEF Chosen, Surest
<1>3. top \in ids /\ ids \in SUBSET DOMAIN in.candidates
    BY TopLeads, IdentitiesAre
<1>4. /\ others \in SUBSET DOMAIN in.candidates /\ gated \in SUBSET others
      /\ near \in SUBSET others
    BY <1>3
<1>5. gated # {} => sure \in gated /\ \A y \in gated \ {sure} : Surer(in, sure, y)
  <2>1. gated \in SUBSET DOMAIN in.candidates
      BY <1>4
  <2> HIDE DEF gated
  <2> QED
      BY <2>1, SurerFirst
<1> HIDE DEF sure, C
<1>6. IsFiniteSet(gated) /\ IsFiniteSet(near)
  <2>1. /\ gated \in SUBSET DOMAIN in.candidates /\ near \in SUBSET DOMAIN in.candidates
        /\ IsFiniteSet(DOMAIN in.candidates)
      BY <1>4, StockedIs
  <2> HIDE DEF gated, near
  <2> QED
      BY <2>1, FS_Subset
<1>7. CASE C # {}
  <2>1. \E x : C = {x} /\ x \in others
    <3> HIDE DEF gated, near, others
    <3>1. Cardinality(gated) = 1 => \E x : gated = {x}
        BY <1>6, FS_Singleton
    <3>2. Cardinality(near) = 1 => \E x : near = {x}
        BY <1>6, FS_Singleton
    <3> QED
        BY <1>2, <1>4, <1>5, <1>7, <3>1, <3>2
  <2>2. C = {i} /\ i \in others
      BY <2>1
  <2> HIDE DEF i
  <2>3. i \in ids /\ HasShare(in, top, i, RefitShare) /\ i # top
      BY <2>2
  <2>4. ASSUME NEW j \in ids \ {i}, FitsToo(in, j), SeenBetter(in, j, i) PROVE FALSE
    <3>1. j # top
      <4>1. InGate(in, j)
          BY <2>4 DEF FitsToo
      <4>2. IsNear(in, j)
          BY <4>1, GateIs
      <4> QED
          BY <4>2
    <3>2. HasShare(in, top, j, RefitShare)
      <4>1. i \in DOMAIN in.candidates /\ j \in DOMAIN in.candidates /\ top \in DOMAIN in.candidates
          BY <1>3, <2>3
      <4>2. RefitShare \in Nat
          BY DEF RefitShare
      <4> QED
          BY <2>3, <2>4, <4>1, <4>2, ShareIs
    <3>3. j \in gated
        BY <2>4, <3>1, <3>2 DEF FitsToo
    <3>4. C = {sure}
      <4>1. C = gated => FALSE
          BY <2>2, <2>4, <3>3
      <4> QED
          BY <1>2, <1>7, <3>3, <4>1
    <3>5. i = sure /\ Surer(in, i, j)
        BY <1>5, <2>2, <2>4, <3>3, <3>4
    <3>6. i \in DOMAIN in.candidates /\ j \in DOMAIN in.candidates
        BY <1>3, <2>3
    <3> QED
        BY <2>4, <3>5, <3>6, BetterIs
  <2>5. Unrivalled(in, i)
      BY <2>4 DEF Unrivalled, SeenBetter
  <2>6. Pcs(in, i) \in 1 .. in.products[ProductOf(in, i)].stock
      BY <2>3, IdentitiesAre
  <2> HIDE DEF conf
  <2>7. Answers(in, one)
      BY <2>3, <2>5, <2>6, SightSingle DEF Complete
  <2> HIDE DEF one
  <2>8. Solves(in, v)
      BY <1>1, <1>7, <2>7 DEF Solves
  <2> QED
      BY <2>8
<1>8. CASE C = {}
    BY <1>1, <1>8 DEF Solves
<1> QED
    BY <1>7, <1>8

-----------------------------------------------------------------------------
(* Stage 3: the leader with others.                                          *)
VotesOf(in, a)  == MapThenSumSet(LAMBDA i : in.candidates[i].votes, DOMAIN a)
BallotOf(in, a) == [i \in DOMAIN a |-> in.candidates[i].votes]

LEMMA VotesSum ==
    ASSUME NEW in, NEW a
    PROVE  VotesOf(in, a) = Total(BallotOf(in, a), DOMAIN a)
<1> DEFINE D == DOMAIN a
           w == BallotOf(in, a)
           A(g) == [u \in SUBSET D |->
                       IF u = {} THEN 0
                       ELSE in.candidates[CHOOSE x \in u : TRUE].votes
                            + g[u \ {CHOOSE x \in u : TRUE}]]
           B(g) == [u \in SUBSET D |->
                       IF u = {} THEN 0
                       ELSE w[CHOOSE x \in u : TRUE] + g[u \ {CHOOSE x \in u : TRUE}]]
<1>1. VotesOf(in, a) = (CHOOSE g : g = A(g))[D]
    BY DEF VotesOf, MapThenSumSet, MapThenFoldSet
<1>2. Total(w, D) = (CHOOSE g : g = B(g))[D]
    BY DEF Total, MapThenSumSet, MapThenFoldSet
<1>3. \A u \in SUBSET D : u # {} =>
          w[CHOOSE x \in u : TRUE] = in.candidates[CHOOSE x \in u : TRUE].votes
  <2> TAKE u \in SUBSET D
  <2> HAVE u # {}
  <2>1. (CHOOSE x \in u : TRUE) \in D
      OBVIOUS
  <2> QED
      BY <2>1 DEF BallotOf
<1> HIDE DEF w
<1>4. ASSUME NEW g PROVE A(g) = B(g)
    BY <1>3
<1>5. (CHOOSE g : g = A(g)) = (CHOOSE g : g = B(g))
  <2> HIDE DEF A, B
  <2> QED
      BY <1>4
<1> HIDE DEF A, B
<1> QED
    BY <1>1, <1>2, <1>5 DEF w

(* Pieces of two or more of the identities.                                  *)
IsShare(in, a) ==
    /\ a = [i \in DOMAIN a |-> a[i]] /\ DOMAIN a \in SUBSET Identities(in)
    /\ \A i \in DOMAIN a : a[i] \in 1 .. in.products[ProductOf(in, i)].stock
    /\ \E i, j \in DOMAIN a : i # j

LEMMA AllocationsAre ==
    ASSUME NEW in, Sound(in), Identities(in) # {}
    PROVE  LET A == Allocations(in, Top(in, Identities(in)), Identities(in)) IN
           IsFiniteSet(A) /\ \A a \in A : IsShare(in, a)
<1> DEFINE ids    == Identities(in)
           top    == Top(in, ids)
           others == {i \in ids \ {top} : HasShare(in, top, i, ComboShare)}
           caps   == {Least(ComboItems, in.products[p].stock) : p \in Stocked(in)}
           most   == Max({1} \cup caps)
           T      == Allocations(in, top, ids)
<1>1. top \in ids /\ ids \in SUBSET DOMAIN in.candidates
    BY TopLeads, IdentitiesAre
<1>2. IsFiniteSet(ids)
  <2> HIDE DEF ids
  <2> QED
      BY <1>1, StockedIs, FS_Subset
<1>3. most \in Nat
  <2> DEFINE S == Stocked(in)
             f == [p \in S |-> Least(ComboItems, in.products[p].stock)]
  <2>1. IsFiniteSet(caps)
    <3>1. f \in Surjection(S, caps)
        BY DEF Surjection
    <3>2. IsFiniteSet(S)
        BY StockedIs
    <3> HIDE DEF f, S, caps
    <3> QED
        BY <3>1, <3>2, FS_Surjection
  <2>2. \A n \in caps : n \in Nat
      BY OnSale DEF Least, ComboItems
  <2> HIDE DEF caps
  <2>3. IsFiniteSet({1} \cup caps) /\ {1} \cup caps \in SUBSET Int /\ {1} \cup caps # {}
    <3>1. IsFiniteSet(caps \cup {1}) /\ caps \cup {1} = {1} \cup caps
        BY <2>1, FS_AddElement
    <3> QED
        BY <2>2, <3>1
  <2>4. most \in {1} \cup caps
      BY <2>3, MaxIs
  <2> QED
      BY <2>2, <2>4
<1>4. ASSUME NEW a \in T
      PROVE  /\ \E S \in SUBSET others : Cardinality(S) \in 1 .. 3 /\ a \in [S \cup {top} -> 1 .. most]
             /\ \A i \in DOMAIN a : a[i] <= in.products[ProductOf(in, i)].stock
  <2> DEFINE kinds == {S \in SUBSET others : Cardinality(S) \in 1 .. ComboKinds - 1}
  <2>1. /\ a \in UNION {[S \cup {top} -> 1 .. most] : S \in kinds}
        /\ \A i \in DOMAIN a : a[i] <= in.products[ProductOf(in, i)].stock
      BY DEF Allocations
  <2> HIDE DEF T, most, top, ids, others
  <2>2. PICK S \in kinds : a \in [S \cup {top} -> 1 .. most]
      BY <2>1
  <2>3. S \in SUBSET others /\ Cardinality(S) \in 1 .. 3
      BY <2>2 DEF ComboKinds
  <2> QED
      BY <2>1, <2>2, <2>3
<1> HIDE DEF most, T, ids, top
<1>5. ASSUME NEW a \in T
      PROVE  IsShare(in, a) /\ \E S \in SUBSET ids : a \in [S -> 1 .. most]
  <2>1. PICK S \in SUBSET others : Cardinality(S) \in 1 .. 3 /\ a \in [S \cup {top} -> 1 .. most]
      BY <1>4
  <2>2. S # {}
      BY <2>1, FS_EmptySet
  <2> DEFINE D == S \cup {top}
  <2>3. S \cup {top} \in SUBSET ids /\ top \notin S /\ a \in [D -> 1 .. most]
      BY <1>1, <2>1
  <2>4. DOMAIN a = D /\ a = [i \in DOMAIN a |-> a[i]] /\ \A i \in D : a[i] \in 1 .. most
      BY <2>3
  <2>5. \A i \in DOMAIN a : a[i] \in 1 .. in.products[ProductOf(in, i)].stock
    <3> TAKE i \in DOMAIN a
    <3>1. i \in Identities(in)
        BY <2>3, <2>4 DEF ids
    <3>2. in.products[ProductOf(in, i)].stock \in Nat
        BY <3>1, IdentitiesAre, OnSale
    <3>3. a[i] \in Nat /\ a[i] >= 1 /\ a[i] <= in.products[ProductOf(in, i)].stock
        BY <1>3, <1>4, <2>4
    <3> QED
        BY <3>2, <3>3
  <2>6. \E i, j \in DOMAIN a : i # j
      BY <2>2, <2>3, <2>4
  <2> QED
      BY <2>3, <2>4, <2>5, <2>6 DEF IsShare, ids
<1>6. IsFiniteSet(T)
  <2>1. \A b \in T : \E S \in SUBSET ids : b \in [S -> 1 .. most]
      BY <1>5
  <2> QED
      BY <1>2, <1>3, <2>1, BagsFinite
<1> QED
    BY <1>5, <1>6 DEF T, top, ids

LEMMA ShareBill ==
    ASSUME NEW in, Sound(in), NEW a, IsShare(in, a)
    PROVE  IsBill(in, BillOf(in, a)) /\ Cardinality(DOMAIN BillOf(in, a)) # 1
<1> DEFINE b == BillOf(in, a)
           D == DOMAIN a
           W(p) == CHOOSE i \in D : ProductOf(in, i) = p
           P == {ProductOf(in, i) : i \in D}
<1>1. /\ D \in SUBSET Identities(in)
      /\ \A i \in D : a[i] \in 1 .. in.products[ProductOf(in, i)].stock
      /\ \E i, j \in D : i # j
    BY DEF IsShare
<1>2. b = [p \in P |-> a[W(p)]]
    BY DEF BillOf
<1>3. \A p \in P : W(p) \in D /\ ProductOf(in, W(p)) = p
    OBVIOUS
<1>4. \A i \in D : ProductOf(in, i) \in Stocked(in)
    BY <1>1, IdentitiesAre
<1> HIDE DEF W, b, D
<1>5. IsBill(in, b)
  <2>1. DOMAIN b = P /\ \A p \in P : b[p] = a[W(p)]
      BY <1>2
  <2>2. P \subseteq Stocked(in)
      BY <1>4
  <2>3. \A p \in P : b[p] \in 1 .. in.products[p].stock
    <3> TAKE p \in P
    <3>1. W(p) \in D /\ ProductOf(in, W(p)) = p /\ b[p] = a[W(p)]
        BY <1>3, <2>1
    <3>2. a[W(p)] \in 1 .. in.products[ProductOf(in, W(p))].stock
        BY <1>1, <3>1
    <3> QED
        BY <3>1, <3>2
  <2>4. b = [p \in DOMAIN b |-> b[p]]
      BY <1>2, <2>1
  <2> QED
      BY <2>1, <2>2, <2>3, <2>4 DEF IsBill
<1>6. PICK i \in D, j \in D : i # j
    BY <1>1
<1>7. ProductOf(in, i) # ProductOf(in, j)
  <2>1. Mapped(in, i) /\ Mapped(in, j) /\ i \in DOMAIN in.candidates /\ j \in DOMAIN in.candidates
      BY <1>1, IdentitiesAre
  <2>2. /\ in.products[ProductOf(in, i)].cls = in.candidates[i].cls
        /\ in.products[ProductOf(in, j)].cls = in.candidates[j].cls
      BY <2>1, ProductIs
  <2>3. in.candidates[i].cls # in.candidates[j].cls
      BY <1>6, <2>1 DEF Sound, Distinct
  <2> QED
      BY <2>2, <2>3
<1>8. Cardinality(DOMAIN b) # 1
  <2>1. IsFiniteSet(DOMAIN b)
      BY <1>5, BillNumbers
  <2>2. ProductOf(in, i) \in DOMAIN b /\ ProductOf(in, j) \in DOMAIN b
      BY <1>2
  <2>3. Cardinality(DOMAIN b) = 1 => \E x : DOMAIN b = {x}
      BY <2>1, FS_Singleton
  <2>4. ASSUME NEW x, DOMAIN b = {x} PROVE FALSE
      BY <1>7, <2>2, <2>4
  <2> QED
      BY <2>3, <2>4
<1> QED
    BY <1>5, <1>8 DEF b

(* Allocations are compared by their members, leaders first, and then by     *)
(* their counts: as if each identity stood on two rungs of a ladder.         *)
Rungs(in)         == {1, 2} \X Identities(in)
Sooner(in, q, r)  == q[1] < r[1] \/ (q[1] = r[1] /\ Ranked(in, q[2], r[2]))
Leading(in)       == {q \in Rungs(in) \X Rungs(in) : Sooner(in, q[1], q[2])}
Share(a, q)       == IF q[1] = 2 THEN Count(a, q[2]) ELSE IF q[2] \in DOMAIN a THEN 0 ELSE 1
SharesOf(in, a)   == [q \in Rungs(in) |-> Share(a, q)]

LEMMA OnRungs ==
    ASSUME NEW in, Sound(in)
    PROVE  \A q \in Rungs(in) : /\ q[1] \in {1, 2} /\ q[2] \in Identities(in)
                                /\ q = <<q[1], q[2]>>
BY DEF Rungs

LEMMA LeadingIs ==
    ASSUME NEW in, Sound(in)
    PROVE  OneWay(Leading(in), Rungs(in)) /\ IsFiniteSet(Rungs(in))
<1> DEFINE S == Identities(in)
           R == Leading(in)
           Q == Rungs(in)
<1>1. S \in SUBSET DOMAIN in.candidates
    BY IdentitiesAre
<1>2. \A i \in S : i \in Int /\ in.candidates[i].conf \in Nat /\ in.candidates[i].votes \in Nat
    BY <1>1, Fields
<1>3. \A q, r \in Q : <<q, r>> \in R <=> Sooner(in, q, r)
    BY DEF Leading
<1>4. \A q \in Q : q[1] \in {1, 2} /\ q[2] \in S /\ q = <<q[1], q[2]>>
    BY OnRungs
<1>5. IsFiniteSet(Q)
  <2>1. IsFiniteSet(S)
      BY <1>1, StockedIs, FS_Subset
  <2>2. IsFiniteSet({1, 2})
    <3>1. IsFiniteSet({1} \cup {2}) /\ {1} \cup {2} = {1, 2}
        BY FS_Singleton, FS_Union
    <3> QED
        BY <3>1
  <2> HIDE DEF S
  <2> QED
      BY <2>1, <2>2, FS_Product DEF Rungs, S
<1> HIDE DEF S, R, Q
<1>6. \A i, j \in S : i # j => Ranked(in, i, j) \/ Ranked(in, j, i)
    BY <1>2 DEF Ranked
<1>7. \A i, j, k \in S : Ranked(in, i, j) /\ Ranked(in, j, k) => Ranked(in, i, k)
    BY <1>2 DEF Ranked
<1>8. \A i, j \in S : ~ (Ranked(in, i, j) /\ Ranked(in, j, i))
    BY <1>2 DEF Ranked
<1>9. \A q, r \in Q : q # r => Sooner(in, q, r) \/ Sooner(in, r, q)
  <2> TAKE q, r \in Q
  <2> HAVE q # r
  <2>1. q[1] # r[1] \/ q[2] # r[2]
      BY <1>4
  <2>2. q[1] # r[1] => q[1] < r[1] \/ r[1] < q[1]
      BY <1>4
  <2> QED
      BY <1>4, <1>6, <2>1, <2>2 DEF Sooner
<1>10. \A q, r, s \in Q : Sooner(in, q, r) /\ Sooner(in, r, s) => Sooner(in, q, s)
  <2> TAKE q, r, s \in Q
  <2> HAVE Sooner(in, q, r) /\ Sooner(in, r, s)
  <2>1. \/ q[1] < s[1]
        \/ q[1] = s[1] /\ Ranked(in, q[2], r[2]) /\ Ranked(in, r[2], s[2])
      BY <1>4 DEF Sooner
  <2> QED
      BY <1>4, <1>7, <2>1 DEF Sooner
<1>11. \A q, r \in Q : ~ (Sooner(in, q, r) /\ Sooner(in, r, q))
  <2> TAKE q, r \in Q
  <2>1. ~ (q[1] < r[1] /\ r[1] < q[1]) /\ (q[1] = r[1] => ~ (q[1] < r[1] \/ r[1] < q[1]))
      BY <1>4
  <2> QED
      BY <1>4, <1>8, <2>1 DEF Sooner
<1>12. OneWay(R, Q)
    BY <1>3, <1>9, <1>10, <1>11 DEF OneWay, Orders
<1> QED
    BY <1>5, <1>12 DEF R, Q

LEMMA SharesTell ==
    ASSUME NEW in, Sound(in), NEW a, IsShare(in, a)
    PROVE  /\ SharesOf(in, a) \in [Rungs(in) -> Int]
           /\ \A b : IsShare(in, b) /\ SharesOf(in, a) = SharesOf(in, b) => a = b
<1> DEFINE S == Identities(in)
           Q == Rungs(in)
<1>1. ASSUME NEW b, IsShare(in, b)
      PROVE  /\ DOMAIN b \in SUBSET S /\ b = [i \in DOMAIN b |-> b[i]]
             /\ \A i \in DOMAIN b : b[i] \in Nat
             /\ \A q \in Q : SharesOf(in, b)[q] = Share(b, q)
    BY <1>1, IdentitiesAre, OnSale DEF IsShare, SharesOf
<1>2. \A q \in Q : Share(a, q) \in Int
    BY <1>1 DEF Share, Count
<1>3. SharesOf(in, a) \in [Q -> Int]
    BY <1>2 DEF SharesOf
<1>4. ASSUME NEW b, IsShare(in, b), SharesOf(in, a) = SharesOf(in, b)
      PROVE  a = b
  <2>1. \A i \in S : <<1, i>> \in Q /\ <<2, i>> \in Q
      BY DEF Rungs
  <2>2. \A q \in Q : Share(a, q) = Share(b, q)
      BY <1>1, <1>4
  <2>3. \A i \in S : i \in DOMAIN a <=> i \in DOMAIN b
    <3> TAKE i \in S
    <3>1. Share(a, <<1, i>>) = Share(b, <<1, i>>)
        BY <2>1, <2>2
    <3> QED
        BY <3>1 DEF Share
  <2>4. DOMAIN a = DOMAIN b
      BY <1>1, <1>4, <2>3
  <2>5. \A i \in DOMAIN a : a[i] = b[i]
    <3> TAKE i \in DOMAIN a
    <3>1. Share(a, <<2, i>>) = Share(b, <<2, i>>)
        BY <1>1, <2>1, <2>2
    <3> QED
        BY <2>4, <3>1 DEF Share, Count
  <2>6. a = [i \in DOMAIN a |-> a[i]] /\ b = [i \in DOMAIN b |-> b[i]]
      BY <1>1, <1>4
  <2> QED
      BY <2>4, <2>5, <2>6
<1> QED
    BY <1>3, <1>4

(* Nothing is ranked before the top of some candidates.                      *)
LEMMA TopIs ==
    ASSUME NEW in, Sound(in), NEW S \in SUBSET DOMAIN in.candidates, NEW p \in S,
           \A y \in S : ~Ranked(in, y, p)
    PROVE  Top(in, S) = p
BY RankedFirst

OtherIn(a, b)  == (DOMAIN a \ DOMAIN b) \cup (DOMAIN b \ DOMAIN a)
DifferIn(a, b) == {j \in DOMAIN a : a[j] # Count(b, j)}

EarlierIn(in, a, b) ==
    LET i == Top(in, DifferIn(a, b))
    IN  IF OtherIn(a, b) # {} THEN Top(in, OtherIn(a, b)) \in DOMAIN a ELSE a[i] < b[i]

LEMMA EarlierIs ==
    ASSUME NEW in, Sound(in), NEW a, NEW b, IsShare(in, a), IsShare(in, b),
           AtFirst(SharesOf(in, a), SharesOf(in, b), Leading(in), Rungs(in))
    PROVE  EarlierIn(in, a, b)
<1> DEFINE S == Identities(in)
           Q == Rungs(in)
           other  == OtherIn(a, b)
           differ == DifferIn(a, b)
<1>1. PICK p \in Q : /\ SharesOf(in, a)[p] < SharesOf(in, b)[p]
                     /\ \A q \in Q : <<q, p>> \in Leading(in) =>
                            SharesOf(in, a)[q] = SharesOf(in, b)[q]
    BY DEF AtFirst
<1>2. /\ Share(a, p) < Share(b, p)
      /\ \A q \in Q : Sooner(in, q, p) => Share(a, q) = Share(b, q)
    BY <1>1 DEF SharesOf, Leading
<1>3. /\ DOMAIN a \in SUBSET S /\ DOMAIN b \in SUBSET S
      /\ \A i \in DOMAIN a : a[i] \in Nat
      /\ \A i \in DOMAIN b : b[i] \in Nat
    BY IdentitiesAre, OnSale DEF IsShare
<1>4. /\ p[1] \in {1, 2} /\ p[2] \in S
      /\ \A i \in S : <<1, i>> \in Q /\ <<2, i>> \in Q
    BY OnRungs DEF Rungs
<1>5. S \in SUBSET DOMAIN in.candidates
    BY IdentitiesAre
<1> HIDE DEF S, Q
<1>6. CASE p[1] = 1
  <2>1. p[2] \in DOMAIN a \ DOMAIN b
      BY <1>2, <1>6 DEF Share
  <2>2. \A y \in other : ~Ranked(in, y, p[2])
    <3> TAKE y \in other
    <3>1. y \in S /\ <<1, y>> \in Q /\ Share(a, <<1, y>>) # Share(b, <<1, y>>)
      <4>1. Share(a, <<1, y>>) = (IF y \in DOMAIN a THEN 0 ELSE 1)
            /\ Share(b, <<1, y>>) = (IF y \in DOMAIN b THEN 0 ELSE 1)
          BY DEF Share
      <4>2. y \in DOMAIN a <=> y \notin DOMAIN b
          BY DEF OtherIn
      <4>3. Share(a, <<1, y>>) # Share(b, <<1, y>>)
          BY <4>1, <4>2
      <4>4. y \in S
          BY <1>3 DEF OtherIn
      <4> QED
          BY <1>4, <4>3, <4>4
    <3> QED
        BY <1>2, <1>6, <3>1 DEF Sooner
  <2>3. other \in SUBSET DOMAIN in.candidates /\ p[2] \in other
      BY <1>3, <1>5, <2>1 DEF OtherIn
  <2> HIDE DEF other
  <2>4. Top(in, other) = p[2]
      BY <2>2, <2>3, TopIs
  <2> QED
      BY <2>1, <2>3, <2>4 DEF EarlierIn, other
<1>7. CASE p[1] = 2
  <2>1. \A i \in S : i \in DOMAIN a <=> i \in DOMAIN b
    <3> TAKE i \in S
    <3>1. Sooner(in, <<1, i>>, p)
        BY <1>7 DEF Sooner
    <3>2. Share(a, <<1, i>>) = Share(b, <<1, i>>)
        BY <1>2, <1>4, <3>1
    <3> QED
        BY <3>2 DEF Share
  <2>2. DOMAIN a = DOMAIN b /\ other = {}
      BY <1>3, <2>1 DEF OtherIn
  <2>3. Count(a, p[2]) < Count(b, p[2])
      BY <1>2, <1>7 DEF Share
  <2>4. p[2] \in DOMAIN a /\ a[p[2]] < b[p[2]]
      BY <2>2, <2>3 DEF Count
  <2>5. p[2] \in differ
      BY <1>3, <2>2, <2>4 DEF DifferIn, Count
  <2>6. \A y \in differ : ~Ranked(in, y, p[2])
    <3> TAKE y \in differ
    <3>1. y \in S /\ <<2, y>> \in Q /\ Share(a, <<2, y>>) # Share(b, <<2, y>>)
        BY <1>3, <1>4 DEF DifferIn, Share, Count
    <3> QED
        BY <1>2, <1>7, <3>1 DEF Sooner
  <2>7. differ \in SUBSET DOMAIN in.candidates
      BY <1>3, <1>5 DEF DifferIn
  <2> HIDE DEF differ, other
  <2>8. Top(in, differ) = p[2]
      BY <2>5, <2>6, <2>7, TopIs
  <2> QED
      BY <2>2, <2>4, <2>8 DEF EarlierIn, differ, other
<1> QED
    BY <1>4, <1>6, <1>7

Combo(in, v) ==
    \/ v = Undecided
    \/ \E b, c : /\ IsBill(in, b) /\ Cardinality(DOMAIN b) # 1
                 /\ v = Complete(b, c, "freezer_vision_first_combo")

LEMMA CombinationIs ==
    ASSUME NEW in, Sound(in), NEW T, IsFiniteSet(T), \A a \in T : IsShare(in, a)
    PROVE  Combo(in, Combination(in, T))
<1> DEFINE Kinds(a) == Cardinality(DOMAIN a)
           Err(a)   == Distance(Target(in), Weight(in, BillOf(in, a)))
           Votes(a) == VotesOf(in, a)
           best == First(T, LAMBDA a, b : Preferred(in, a, b))
           conf == (100 * MapThenSumSet(LAMBDA i : in.candidates[i].conf, DOMAIN best))
                       \div Cardinality(DOMAIN best)
           v    == Combination(in, T)
<1>1. v = IF T = {} THEN Undecided
          ELSE Complete(BillOf(in, best), conf, "freezer_vision_first_combo")
    BY DEF Combination
<1>2. ASSUME NEW a, NEW b,
             \/ Kinds(a) < Kinds(b)
             \/ Kinds(a) = Kinds(b) /\ Err(a) < Err(b)
             \/ Kinds(a) = Kinds(b) /\ Err(a) = Err(b) /\ Votes(a) > Votes(b)
             \/ /\ Kinds(a) = Kinds(b) /\ Err(a) = Err(b) /\ Votes(a) = Votes(b)
                /\ EarlierIn(in, a, b),
             Kinds(a) \in Int, Kinds(b) \in Int, Err(a) \in Int, Err(b) \in Int
      PROVE  Preferred(in, a, b)
  <2>1. Preferred(in, a, b) <=>
            IF Kinds(a) # Kinds(b) THEN Kinds(a) < Kinds(b)
            ELSE IF Err(a) # Err(b) THEN Err(a) < Err(b)
            ELSE Votes(a) > Votes(b) \/ (Votes(a) = Votes(b) /\ EarlierIn(in, a, b))
      BY DEF Preferred, EarlierIn, OtherIn, DifferIn, VotesOf
  <2>2. \A x, y \in Int : x < y => x # y
      OBVIOUS
  <2>3. /\ Kinds(a) < Kinds(b) => Kinds(a) # Kinds(b)
        /\ Err(a) < Err(b) => Err(a) # Err(b)
      BY <1>2, <2>2
  <2> HIDE DEF Kinds, Err, Votes
  <2> QED
      BY <1>2, <2>1, <2>3
<1>3. ASSUME T # {} PROVE best \in T
  <2> DEFINE k == [a \in T |-> Kinds(a)]
             l == [a \in T |-> Err(a)]
             m == [a \in T |-> 0 - Votes(a)]
             c == [a \in T |-> SharesOf(in, a)]
             S == Rungs(in)
             R == Leading(in)
  <2>1. \A a \in T : Kinds(a) \in Int /\ Err(a) \in Int /\ Votes(a) \in Int
    <3> TAKE a \in T
    <3> DEFINE D == DOMAIN a
               w == BallotOf(in, a)
    <3>1. D \in SUBSET DOMAIN in.candidates
        BY IdentitiesAre DEF IsShare
    <3>2. IsFiniteSet(D)
      <4> HIDE DEF D
      <4> QED
          BY <3>1, StockedIs, FS_Subset
    <3>3. Cardinality(D) \in Nat
        BY <3>2, FS_CardinalityType
    <3>4. Weight(in, BillOf(in, a)) \in Nat /\ Target(in) \in Nat
        BY ShareBill, BillNumbers, Fields
    <3>5. w \in [D -> Nat]
        BY <3>1, Fields DEF BallotOf
    <3>6. Total(w, D) \in Nat
      <4> HIDE DEF w, D
      <4> QED
          BY <3>2, <3>5, TotalNat
    <3>7. VotesOf(in, a) = Total(w, D)
        BY VotesSum
    <3>8. Err(a) \in Int
        BY <3>4 DEF Distance
    <3> QED
        BY <3>3, <3>6, <3>7, <3>8
  <2>2. /\ \A a \in T : k[a] = Kinds(a) /\ l[a] = Err(a) /\ m[a] = 0 - Votes(a)
        /\ \A a \in T : c[a] = SharesOf(in, a)
      OBVIOUS
  <2> HIDE DEF Kinds, Err, Votes
  <2>3. k \in [T -> Int] /\ l \in [T -> Int] /\ m \in [T -> Int]
      BY <2>1
  <2>4. c \in [T -> [S -> Int]] /\ \A a, b \in T : c[a] = c[b] => a = b
      BY SharesTell
  <2> HIDE DEF k, l, m, c, S, R
  <2>5. IsFiniteSet(S) /\ OneWay(R, S)
      BY LeadingIs DEF S, R
  <2>6. Orders(ByKeys(T, k, l, m, c, R, S), T)
      BY <2>3, <2>4, <2>5, KeysOrder
  <2>7. PICK x \in T : \A y \in T \ {x} : <<x, y>> \in ByKeys(T, k, l, m, c, R, S)
      BY <1>3, <2>6, FirstExists
  <2>8. \A y \in T \ {x} : Preferred(in, x, y)
    <3> TAKE y \in T \ {x}
    <3>1. \/ k[x] < k[y]
          \/ k[x] = k[y] /\ l[x] < l[y]
          \/ k[x] = k[y] /\ l[x] = l[y] /\ m[x] < m[y]
          \/ k[x] = k[y] /\ l[x] = l[y] /\ m[x] = m[y] /\ AtFirst(c[x], c[y], R, S)
        BY <2>7 DEF ByKeys, KeysThen
    <3>2. AtFirst(c[x], c[y], R, S) => EarlierIn(in, x, y)
        BY <2>2, EarlierIs DEF R, S
    <3>3. /\ Votes(x) \in Int /\ Votes(y) \in Int
          /\ m[x] = 0 - Votes(x) /\ m[y] = 0 - Votes(y)
          /\ k[x] = Kinds(x) /\ k[y] = Kinds(y) /\ l[x] = Err(x) /\ l[y] = Err(y)
          /\ Kinds(x) \in Int /\ Kinds(y) \in Int /\ Err(x) \in Int /\ Err(y) \in Int
        BY <2>1, <2>2
    <3>4. /\ m[x] < m[y] => Votes(x) > Votes(y)
          /\ m[x] = m[y] => Votes(x) = Votes(y)
        BY <3>3
    <3>5. \/ Kinds(x) < Kinds(y)
          \/ Kinds(x) = Kinds(y) /\ Err(x) < Err(y)
          \/ Kinds(x) = Kinds(y) /\ Err(x) = Err(y) /\ Votes(x) > Votes(y)
          \/ /\ Kinds(x) = Kinds(y) /\ Err(x) = Err(y) /\ Votes(x) = Votes(y)
             /\ EarlierIn(in, x, y)
        BY <3>1, <3>2, <3>3, <3>4
    <3> QED
        BY <1>2, <3>3, <3>5
  <2> QED
      BY <2>8 DEF First
<1> HIDE DEF best
<1>4. CASE T # {}
  <2>1. IsBill(in, BillOf(in, best)) /\ Cardinality(DOMAIN BillOf(in, best)) # 1
      BY <1>3, <1>4, ShareBill
  <2> HIDE DEF conf
  <2> QED
      BY <1>1, <1>4, <2>1 DEF Combo
<1>5. CASE T = {}
    BY <1>1, <1>5 DEF Combo
<1> QED
    BY <1>4, <1>5

LEMMA ComboSolves ==
    ASSUME NEW in, Sound(in), ~in.profile.discriminative, NEW b, NEW c, NEW why,
           IsBill(in, b), Cardinality(DOMAIN b) # 1
    PROVE  Answers(in, Verdict("complete", b, c, why))
BY DEF Answers, Verdict, NoneTooHeavy, ChosenBySight

LEMMA InBandSolves ==
    ASSUME NEW in, Sound(in), ~in.profile.discriminative, Identities(in) # {},
           NEW combo, Combo(in, combo)
    PROVE  Solves(in, InBand(in, Winners(in, Identities(in)), combo))
<1> DEFINE W    == Winners(in, Identities(in))
           i    == CHOOSE w \in W : TRUE
           conf == 100 * in.candidates[i].conf
           one  == Complete(Single(ProductOf(in, i), Pcs(in, i)), conf,
                            "freezer_vision_first_single")
           ch   == Challenge(in, i, combo)
           v    == InBand(in, W, combo)
<1>1. v = IF W = {} THEN Undecided ELSE OrElse(ch, one)
    BY DEF InBand
<1>2. \/ ch = Undecided
      \/ ch = [combo EXCEPT !.reason = "freezer_vision_first_segment_combo"] /\ combo # Undecided
    BY DEF Challenge
<1>3. Solves(in, ch)
  <2> HIDE DEF ch, i
  <2>1. CASE ch = Undecided
      BY <2>1 DEF Solves
  <2>2. CASE /\ ch = [combo EXCEPT !.reason = "freezer_vision_first_segment_combo"]
             /\ combo # Undecided
    <3>1. PICK b, c : /\ IsBill(in, b) /\ Cardinality(DOMAIN b) # 1
                      /\ combo = Complete(b, c, "freezer_vision_first_combo")
        BY <2>2 DEF Combo
    <3>2. ch = Verdict("complete", b, c, "freezer_vision_first_segment_combo")
        BY <2>2, <3>1 DEF Complete, Verdict
    <3> QED
        BY <3>1, <3>2, ComboSolves DEF Solves
  <2> QED
      BY <1>2, <2>1, <2>2
<1>4. CASE W # {}
  <2>1. i \in W
      BY <1>4
  <2> HIDE DEF i
  <2>2. i \in Identities(in) /\ Unrivalled(in, i)
      BY <2>1, WinnerUnrivalled
  <2> HIDE DEF W, conf, ch
  <2>3. Pcs(in, i) \in 1 .. in.products[ProductOf(in, i)].stock
      BY <2>2, IdentitiesAre
  <2>4. Answers(in, one)
      BY <2>2, <2>3, SightSingle DEF Complete
  <2> HIDE DEF one
  <2>5. v = ch \/ v = one
      BY <1>1, <1>4 DEF OrElse
  <2>6. Solves(in, v)
      BY <1>3, <2>4, <2>5 DEF Solves
  <2> QED
      BY <2>6 DEF W
<1>5. CASE W = {}
    BY <1>1, <1>5 DEF Solves
<1> QED
    BY <1>4, <1>5

LEMMA FreezerSolves ==
    ASSUME NEW in, Sound(in)
    PROVE  Solves(in, FreezerVisionFirst(in, Identities(in)))
<1> DEFINE ids   == Identities(in)
           top   == Top(in, ids)
           combo == Combination(in, Allocations(in, top, ids))
           band  == InBand(in, Winners(in, ids), combo)
           near  == NearGate(in, top)
           refit == Refit(in, {i \in ids \ {top} : HasShare(in, top, i, RefitShare)})
           v     == FreezerVisionFirst(in, ids)
<1>1. \/ v = Undecided
      \/ /\ ~in.profile.discriminative /\ ids # {}
         /\ v = OrElse(band, OrElse(near, OrElse(combo, refit)))
    BY DEF FreezerVisionFirst, Stages
<1>2. CASE /\ ~in.profile.discriminative /\ ids # {}
           /\ v = OrElse(band, OrElse(near, OrElse(combo, refit)))
  <2>1. Combo(in, combo)
    <3> DEFINE A == Allocations(in, top, ids)
    <3>1. IsFiniteSet(A) /\ \A a \in A : IsShare(in, a)
        BY <1>2, AllocationsAre
    <3> HIDE DEF A
    <3> QED
        BY <3>1, CombinationIs DEF A
  <2> HIDE DEF combo
  <2>2. Solves(in, band)
      BY <1>2, <2>1, InBandSolves
  <2>3. Solves(in, near) /\ (near = Undecided => ~IsNear(in, top))
      BY <1>2, NearSolves
  <2>4. near = Undecided => Solves(in, refit)
      BY <1>2, <2>3, RefitSolves
  <2>5. Solves(in, combo)
      BY <1>2, <2>1, ComboSolves DEF Combo, Solves, Complete
  <2> HIDE DEF band, near, refit, top, ids
  <2>6. v = band \/ v = near \/ v = combo \/ (v = refit /\ near = Undecided)
      BY <1>2 DEF OrElse
  <2>7. Solves(in, v)
      BY <2>2, <2>3, <2>4, <2>5, <2>6
  <2> QED
      BY <2>7 DEF ids
<1>3. CASE v = Undecided
    BY <1>3 DEF Solves
<1> QED
    BY <1>1, <1>2, <1>3
-----------------------------------------------------------------------------
(* The router.                                                               *)
LEMMA SolveSolves ==
    ASSUME NEW in, Sound(in), NEW k \in DOMAIN Pipeline
    PROVE  Solves(in, Solve(Pipeline[k], in))
<1>1. Solve("vision_only", in) = VisionOnly(in)
    BY DEF Solve
<1>2. Solve("freezer_vision_first", in) = FreezerVisionFirst(in, Identities(in))
    BY DEF Solve
<1>3. Solve("segment_weight_matching", in) = SegmentWeightMatching(in)
    BY DEF Solve
<1>4. Solve("stage_count_combo_blind", in) = StageCountCombination(in, TRUE)
    BY DEF Solve
<1>5. Solve("no_candidate_fallback", in) = NoCandidateFallback(in)
    BY DEF Solve
<1>6. Solve("min_weight_gate", in) = MinWeightGate(in)
    BY DEF Solve
<1>7. Solve("same_weight_collision_guard", in) = SameWeightCollisionGuard(in)
    BY DEF Solve
<1>8. Solve("strict", in) = Strict(in)
    BY DEF Solve
<1>9. Solve("stage_count_combo", in) = StageCountCombination(in, FALSE)
    BY DEF Solve
<1>10. Solve("same_product_count", in) = SameProductCount(in)
    BY DEF Solve
<1>11. Solve("relaxed", in) = Relaxed(in)
    BY DEF Solve
<1>12. Solve("relaxed_loadcell_only", in) = RelaxedLoadcellOnly(in)
    BY DEF Solve
<1>13. Solve("vision_first_identity_partial", in) =
           VisionFirstIdentityPartial(in, Identities(in))
    BY DEF Solve
<1>14. Solve("detected_single_item_fallback", in) = DetectedSingle(in)
    BY DEF Solve
<1>15. Solve("relaxed_partial", in) = RelaxedPartial(in)
    BY DEF Solve
<1>16. Solve("forced_final", in) = NoDetection("forced_final_no_match")
    BY DEF Solve
<1>17. Pipeline[k] \in
          {"vision_only", "freezer_vision_first", "segment_weight_matching",
           "stage_count_combo_blind", "no_candidate_fallback", "min_weight_gate",
           "same_weight_collision_guard", "strict", "stage_count_combo",
           "same_product_count", "relaxed", "relaxed_loadcell_only",
           "vision_first_identity_partial", "detected_single_item_fallback",
           "relaxed_partial", "forced_final"}
    BY DEF Pipeline
<1>18. /\ Solves(in, VisionOnly(in)) /\ Solves(in, FreezerVisionFirst(in, Identities(in)))
       /\ Solves(in, SegmentWeightMatching(in)) /\ Solves(in, StageCountCombination(in, TRUE))
       /\ Solves(in, NoCandidateFallback(in)) /\ Solves(in, MinWeightGate(in))
       /\ Solves(in, SameWeightCollisionGuard(in)) /\ Solves(in, Strict(in))
    BY VisionOnlySolves, FreezerSolves, SegmentSolves, StageSolves, NoCandidateSolves,
       MinWeightSolves, CollisionSolves, StrictSolves
<1>19. /\ Solves(in, StageCountCombination(in, FALSE)) /\ Solves(in, SameProductCount(in))
       /\ Solves(in, Relaxed(in)) /\ Solves(in, RelaxedLoadcellOnly(in))
       /\ Solves(in, VisionFirstIdentityPartial(in, Identities(in)))
       /\ Solves(in, DetectedSingle(in)) /\ Solves(in, RelaxedPartial(in))
    BY StageSolves, CountSolves, RelaxedSolves, NearestSolves, IdentitySolves,
       DetectedSolves, PartialSolves
<1>20. Solves(in, NoDetection("forced_final_no_match"))
    BY NothingAnswers DEF NoDetection, Solves
<1> QED
    BY <1>1, <1>2, <1>3, <1>4, <1>5, <1>6, <1>7, <1>8, <1>9, <1>10, <1>11, <1>12, <1>13,
       <1>14, <1>15, <1>16, <1>17, <1>18, <1>19, <1>20

Routes(t, in) ==
    /\ t[0] = Undecided /\ Routed(in) = t[Len(Pipeline)]
    /\ \A k \in 1 .. Len(Pipeline) : t[k] = OrElse(t[k - 1], Solve(Pipeline[k], in))

LEMMA RoutedTrace ==
    ASSUME NEW in
    PROVE  \E t : Routes(t, in)
<1> DEFINE n == Len(Pipeline)
           W == {Solve(Pipeline[k], in) : k \in 1 .. n}
           V == {Undecided} \cup W
           h == [k \in 1 .. n |-> [v \in V |-> OrElse(v, Solve(Pipeline[k], in))]]
           Def(g) == g = [s \in SUBSET (1 .. n) |->
                             IF s = {} THEN Undecided
                             ELSE OrElse(g[s \ {Max(s)}], Solve(Pipeline[Max(s)], in))]
           f == CHOOSE g : Def(g)
<1>0. n \in Nat /\ DOMAIN Pipeline = 1 .. n
    BY DEF Pipeline
<1>1. Routed(in) = f[1 .. n]
    BY <1>0 DEF Routed, FoldLeft, MapThenFoldSet
<1>2. h \in [1 .. n -> [V -> V]]
    BY DEF OrElse
<1>3. \A s \in SUBSET (1 .. n) : s # {} => Max(s) \in s
  <2> HIDE DEF n
  <2> QED
      BY <1>0, LastOf
<1>4. \A k \in 1 .. n, v \in V : h[k][v] = OrElse(v, Solve(Pipeline[k], in))
    OBVIOUS
<1>5. Undecided \in V
    OBVIOUS
<1> HIDE DEF h, V, n
<1>6. PICK g \in [SUBSET (1 .. n) -> V] : ListFolds(g, n, V, Undecided, h)
    BY <1>0, <1>2, <1>5, ListFoldExists
<1>7. ASSUME NEW s \in SUBSET (1 .. n)
      PROVE  g[s] = IF s = {} THEN Undecided
                    ELSE OrElse(g[s \ {Max(s)}], Solve(Pipeline[Max(s)], in))
  <2>1. CASE s = {}
      BY <1>6, <2>1 DEF ListFolds
  <2>2. CASE s # {}
    <3>1. Max(s) \in 1 .. n /\ g[s \ {Max(s)}] \in V
        BY <1>3, <2>2
    <3>2. g[s] = h[Max(s)][g[s \ {Max(s)}]]
        BY <1>6, <2>2, <3>1 DEF ListFolds
    <3> QED
        BY <1>4, <2>2, <3>1, <3>2
  <2> QED
      BY <2>1, <2>2
<1>8. Def(g)
    BY <1>7
<1>9. Def(f)
  <2> HIDE DEF Def
  <2> QED
      BY <1>8
<1> HIDE DEF f
<1>10. \A s \in SUBSET (1 .. n) :
          f[s] = IF s = {} THEN Undecided
                 ELSE OrElse(f[s \ {Max(s)}], Solve(Pipeline[Max(s)], in))
    BY <1>9
<1> HIDE DEF Def
<1>11. ListFolds(f, n, V, Undecided, h)
  <2>1. ASSUME NEW s \in SUBSET (1 .. n), s # {}, f[s \ {Max(s)}] \in V
        PROVE  f[s] = h[Max(s)][f[s \ {Max(s)}]]
    <3>1. Max(s) \in 1 .. n
        BY <1>3, <2>1
    <3>2. h[Max(s)][f[s \ {Max(s)}]] = OrElse(f[s \ {Max(s)}], Solve(Pipeline[Max(s)], in))
        BY <1>4, <2>1, <3>1
    <3> QED
        BY <1>10, <2>1, <3>2
  <2>2. f[{}] = Undecided
      BY <1>10
  <2> QED
      BY <2>1, <2>2 DEF ListFolds
<1>12. PICK t \in [0 .. n -> V] : Traces(t, n, Undecided, h) /\ f[1 .. n] = t[n]
    BY <1>0, <1>2, <1>5, <1>11, ListFoldTrace
<1>13. ASSUME NEW k \in 1 .. n PROVE t[k] = OrElse(t[k - 1], Solve(Pipeline[k], in))
  <2>1. k - 1 \in 0 .. n
      BY <1>0
  <2>2. t[k] = h[k][t[k - 1]] /\ t[k - 1] \in V
      BY <1>12, <2>1 DEF Traces
  <2> QED
      BY <1>4, <2>2
<1>14. t[0] = Undecided
    BY <1>12 DEF Traces
<1>15. Routes(t, in)
    BY <1>1, <1>12, <1>13, <1>14 DEF Routes, n
<1> QED
    BY <1>15

(* Whatever is routed is decided, and what decides it answers.               *)
LEMMA JudgeAnswers ==
    ASSUME NEW in, Sound(in)
    PROVE  Answers(in, Judge(in))
<1> DEFINE n == Len(Pipeline)
<1>1. PICK t : Routes(t, in)
    BY RoutedTrace
<1>2. /\ t[0] = Undecided /\ Routed(in) = t[n]
      /\ \A k \in 1 .. n : t[k] = OrElse(t[k - 1], Solve(Pipeline[k], in))
    BY <1>1 DEF Routes
<1>3. n = 16 /\ Pipeline[16] = "forced_final" /\ DOMAIN Pipeline = 1 .. 16
    BY DEF Pipeline
<1> HIDE DEF n
<1>4. \A k \in 0 .. 16 : Solves(in, t[k])
  <2> DEFINE good == {k \in 0 .. 16 : Solves(in, t[k])}
  <2>1. 0 \in good
      BY <1>2 DEF Solves
  <2>2. ASSUME NEW k \in 1 .. 16, k - 1 \in good PROVE k \in good
    <3>1. Solves(in, t[k - 1]) /\ Solves(in, Solve(Pipeline[k], in))
        BY <1>3, <2>2, SolveSolves
    <3>2. t[k] = t[k - 1] \/ t[k] = Solve(Pipeline[k], in)
        BY <1>2, <1>3 DEF OrElse
    <3> QED
        BY <3>1, <3>2
  <2> HIDE DEF good
  <2>3. \A k \in 0 .. 16 : k \in good
      BY <2>1, <2>2, Upward
  <2> QED
      BY <2>3 DEF good
<1>5. t[16] # Undecided
  <2>1. Solve("forced_final", in) = NoDetection("forced_final_no_match")
      BY DEF Solve
  <2>2. NoDetection("forced_final_no_match") # Undecided
      BY DEF NoDetection, Undecided, Verdict
  <2>3. t[16] = OrElse(t[15], Solve(Pipeline[16], in))
    <3>1. 16 \in 1 .. n /\ 16 - 1 = 15
        BY <1>3
    <3> QED
        BY <1>2, <3>1
  <2> QED
      BY <1>3, <2>1, <2>2, <2>3 DEF OrElse
<1>6. Answers(in, Routed(in))
    BY <1>2, <1>3, <1>4, <1>5 DEF Solves
<1> DEFINE v == Routed(in)
<1> HIDE DEF v
<1>7. Judge(in) = v \/ Judge(in) = [v EXCEPT !.status = "partial"]
    BY DEF Judge, Enforce, v
<1>8. Answers(in, v)
    BY <1>6 DEF v
<1>9. Answers(in, [v EXCEPT !.status = "partial"])
  <2>1. v = Verdict(v.status, v.bill, v.conf, v.reason)
      BY <1>8 DEF Answers
  <2>2. [v EXCEPT !.status = "partial"] = Verdict("partial", v.bill, v.conf, v.reason)
      BY <2>1 DEF Verdict
  <2>3. IsBill(in, v.bill) /\ NoneTooHeavy(in, v.bill) /\ ChosenBySight(in, v.bill)
      BY <1>8 DEF Answers
  <2> QED
      BY <2>2, <2>3 DEF Answers, Verdict
<1> QED
    BY <1>7, <1>8, <1>9
-----------------------------------------------------------------------------
(* The weight of two bills added up.                                         *)
LEMMA WeightType ==
    ASSUME NEW in, Sound(in), NEW b \in BillsOf(Stocked(in))
    PROVE  /\ IsFiniteSet(DOMAIN b) /\ DOMAIN b \subseteq Stocked(in)
           /\ Grams(in, b) \in [DOMAIN b -> Int] /\ Weight(in, b) \in Int
<1>1. PICK D \in SUBSET Stocked(in) : b \in [D -> Nat \ {0}]
    BY DEF BillsOf
<1>2. \A x, y \in Nat : x * y \in Nat
    OBVIOUS
<1>3. \A p \in D : b[p] \in Nat /\ in.products[p].weight \in Nat
    BY <1>1, OnSale
<1>4. DOMAIN b = D
    BY <1>1
<1>5. Grams(in, b) \in [D -> Nat]
    BY <1>2, <1>3, <1>4 DEF Grams
<1>6. IsFiniteSet(D)
    BY <1>1, StockedIs, FS_Subset
<1>7. Total(Grams(in, b), D) \in Nat
    BY <1>5, <1>6, TotalNat
<1>8. Weight(in, b) = Total(Grams(in, b), D)
    BY <1>4, WeightIs
<1>9. Grams(in, b) \in [D -> Int]
    BY <1>5
<1> QED
    BY <1>1, <1>4, <1>6, <1>7, <1>8, <1>9

LEMMA WeightAdds ==
    ASSUME NEW in, Sound(in), NEW a \in BillsOf(Stocked(in)), NEW b \in BillsOf(Stocked(in))
    PROVE  Weight(in, Add(a, b)) = Weight(in, a) + Weight(in, b)
<1> DEFINE c == Add(a, b)
           T == DOMAIN a \cup DOMAIN b
           A == [p \in T |-> IF p \in DOMAIN a THEN a[p] * in.products[p].weight ELSE 0]
           B == [p \in T |-> IF p \in DOMAIN b THEN b[p] * in.products[p].weight ELSE 0]
<1>1. c \in BillsOf(Stocked(in)) /\ DOMAIN c = T
    BY BillsAdd DEF Add
<1>2. /\ IsFiniteSet(DOMAIN a) /\ DOMAIN a \subseteq Stocked(in)
      /\ Grams(in, a) \in [DOMAIN a -> Int]
    BY WeightType
<1>3. /\ IsFiniteSet(DOMAIN b) /\ DOMAIN b \subseteq Stocked(in)
      /\ Grams(in, b) \in [DOMAIN b -> Int]
    BY WeightType
<1>4. IsFiniteSet(T) /\ Grams(in, c) \in [T -> Int]
  <2> HIDE DEF c, T
  <2> QED
      BY <1>1, WeightType
<1>5. A \in [T -> Int] /\ \A p \in DOMAIN a : A[p] = Grams(in, a)[p]
    BY <1>2 DEF Grams
<1>6. B \in [T -> Int] /\ \A p \in DOMAIN b : B[p] = Grams(in, b)[p]
    BY <1>3 DEF Grams
<1>7. \A x, y, z \in Nat : (x + y) * z = x * z + y * z
    OBVIOUS
<1>8. \A p \in T : Grams(in, c)[p] = A[p] + B[p]
  <2> TAKE p \in T
  <2>1. Count(a, p) \in Nat /\ Count(b, p) \in Nat
      BY DEF BillsOf, Count
  <2>2. in.products[p].weight \in Nat
      BY <1>2, <1>3, OnSale
  <2>3. Grams(in, c)[p] = (Count(a, p) + Count(b, p)) * in.products[p].weight
      BY DEF Grams, Add
  <2>4. (Count(a, p) + Count(b, p)) * in.products[p].weight
            = Count(a, p) * in.products[p].weight + Count(b, p) * in.products[p].weight
      BY <1>7, <2>1, <2>2
  <2>5. A[p] = Count(a, p) * in.products[p].weight
      BY <2>2 DEF Count
  <2>6. B[p] = Count(b, p) * in.products[p].weight
      BY <2>2 DEF Count
  <2> QED
      BY <2>3, <2>4, <2>5, <2>6
<1>9. \A p \in T \ DOMAIN a : A[p] = 0
    OBVIOUS
<1>10. \A p \in T \ DOMAIN b : B[p] = 0
    OBVIOUS
<1>11. DOMAIN a \in SUBSET T /\ DOMAIN b \in SUBSET T
    OBVIOUS
<1>12. /\ Weight(in, c) = Total(Grams(in, c), T)
       /\ Weight(in, a) = Total(Grams(in, a), DOMAIN a)
       /\ Weight(in, b) = Total(Grams(in, b), DOMAIN b)
    BY <1>1, WeightIs
<1> HIDE DEF A, B, T, c
<1>13. Total(Grams(in, c), T) = Total(A, T) + Total(B, T)
    BY <1>4, <1>5, <1>6, <1>8, TotalPlus
<1>14. Total(A, T) = Total(Grams(in, a), DOMAIN a)
    BY <1>2, <1>4, <1>5, <1>9, <1>11, TotalWider
<1>15. Total(B, T) = Total(Grams(in, b), DOMAIN b)
    BY <1>3, <1>4, <1>6, <1>10, <1>11, TotalWider
<1> QED
    BY <1>12, <1>13, <1>14, <1>15 DEF c
===============================================================================
