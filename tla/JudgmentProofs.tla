---------------------------- MODULE JudgmentProofs ----------------------------
(* The judgement of a trigger, for any profile, products, candidates and     *)
(* weight events, and its review at the close, for any session.              *)
(*                                                                           *)
(* The trays have no order because both passes judge a tray by its own       *)
(* steps and by what the first pass as a whole has left (FirstOf and         *)
(* SecondOf name no neighbour); PassInv says how far the passes have got.    *)
(* The induction needs that what counts as consumed does not change while the*)
(* second pass replaces verdicts (SameConsumed).  That a complete trigger    *)
(* explains its weight follows from what Judge enforces, kept through both   *)
(* retries (VerdictInv), and from the weight of a merged bill being the sum  *)
(* of its parts (ChargeWeighs, ResultInv).                                   *)
(* The steps of a trigger deliver what Outcome says (TriggerDelivers), which *)
(* is what the review takes for the log; so a merged bill that exceeds the   *)
(* stock is among what is reviewed (LoggedIs).                               *)
(*                                                                           *)
(* What a single verdict may charge is known of every context the strategies *)
(* can be given (JudgeAnswers of StrategyProofs); SoundInv says that the     *)
(* contexts of the first pass, of the retry over the sum of the steps and of *)
(* the second pass in a smaller pool all are such contexts.                  *)
(*                                                                           *)
(* Of a review ReviewInv says that each pass gives an event what it makes of *)
(* that event in the log the pass before has left, so that the order of the  *)
(* events does not enter (TwinsIn).  The rest is about one event: neither    *)
(* pass changes more than candidates and verdict (Keeping), the first adopts *)
(* only what explains the weight, the second also drops products of other    *)
(* zones (Alters); of two rivals one keeps the product (OneKeeps); and what  *)
(* one removal joins is one episode (ThroughOne).                            *)
EXTENDS TriggerJudgment, SessionReview, StrategyProofs

FirstOf(k) == Judged(Alone(ctx, trays[k], ctx.candidates))

Taken ==
    UNION {Classes(ctx, FirstOf(k).verdict.bill) :
              k \in {j \in 1 .. Len(trays) : FirstOf(j).verdict.status = "complete"}}

Rest == Without(ctx.candidates, Taken)

SecondOf(k) == Second(ctx, trays[k], FirstOf(k), Rest)

ContextFields == {"profile", "products", "candidates", "delta", "segments", "visionOnly"}
Recorded(in)  == DOMAIN in = ContextFields /\ in = [f \in ContextFields |-> in[f]]

Shape ==
    /\ Recorded(ctx)
    /\ Len(trays) \in Nat /\ DOMAIN trays = 1 .. Len(trays)
    /\ next \in Nat

PassInv ==
    /\ pc = "start" => verdicts = <<>> /\ next = 1
    /\ pc = "judge" =>
          /\ next >= 1 /\ (Many(ctx, trays) => next <= Len(trays))
          /\ DOMAIN verdicts = 1 .. next - 1 /\ Len(verdicts) = next - 1
          /\ verdicts \in Seq({FirstOf(k) : k \in 1 .. Len(trays)})
          /\ \A k \in 1 .. next - 1 : verdicts[k] = FirstOf(k)
    /\ pc \in {"again", "merge"} => Many(ctx, trays) /\ DOMAIN verdicts = 1 .. Len(trays)
    /\ pc = "again" =>
          /\ next \in 1 .. Len(trays)
          /\ \A k \in 1 .. Len(trays) :
                verdicts[k] = IF k < next THEN SecondOf(k) ELSE FirstOf(k)
    /\ pc = "merge" => \A k \in 1 .. Len(trays) : verdicts[k] = SecondOf(k)
    /\ pc \in {"again", "merge"} => verdicts = [k \in 1 .. Len(trays) |-> verdicts[k]]

VerdictOK(k) ==
    /\ OfTray(k)
    /\ verdicts[k].verdict.status = "complete" /\ ~ctx.visionOnly =>
          Explained(verdicts[k].in, verdicts[k].verdict.bill)

VerdictInv ==
    /\ \A k \in DOMAIN verdicts : VerdictOK(k)
    /\ pc = "done" /\ result.status = "complete" =>
          \A k \in DOMAIN verdicts : verdicts[k].verdict.status = "complete"

Inv == Shape /\ PassInv /\ VerdictInv
-----------------------------------------------------------------------------
(* A sum over a list, as a sequence of intermediate sums.                    *)
Sums(t, n, s) == t[0] = 0 /\ Sum(s) = t[n] /\ \A k \in 1 .. n : t[k] = t[k - 1] + s[k]

LEMMA SumTrace ==
    ASSUME NEW n \in Nat, NEW s, DOMAIN s = 1 .. n, \A k \in 1 .. n : s[k] \in Int
    PROVE  \E t \in [0 .. n -> Int] : Sums(t, n, s)
<1> DEFINE V == Int
           h == [k \in 1 .. n |-> [v \in V |-> v + s[k]]]
           Def(g) == g = [u \in SUBSET (1 .. n) |->
                             IF u = {} THEN 0 ELSE g[u \ {Max(u)}] + s[Max(u)]]
           f == CHOOSE g : Def(g)
<1>1. Sum(s) = f[1 .. n]
    BY DEF Sum, FoldLeft, MapThenFoldSet
<1>2. h \in [1 .. n -> [V -> V]] /\ 0 \in V
    OBVIOUS
<1>3. \A u \in SUBSET (1 .. n) : u # {} => Max(u) \in u
    BY LastOf
<1>4. \A k \in 1 .. n, v \in V : h[k][v] = v + s[k]
    OBVIOUS
<1> HIDE DEF h, V
<1>5. PICK g \in [SUBSET (1 .. n) -> V] : ListFolds(g, n, V, 0, h)
    BY <1>2, ListFoldExists
<1>6. ASSUME NEW u \in SUBSET (1 .. n)
      PROVE  g[u] = IF u = {} THEN 0 ELSE g[u \ {Max(u)}] + s[Max(u)]
  <2>1. CASE u = {}
      BY <1>5, <2>1 DEF ListFolds
  <2>2. CASE u # {}
    <3>1. Max(u) \in 1 .. n /\ g[u \ {Max(u)}] \in V
        BY <1>3, <2>2
    <3>2. g[u] = h[Max(u)][g[u \ {Max(u)}]]
        BY <1>5, <2>2, <3>1 DEF ListFolds
    <3> QED
        BY <1>4, <2>2, <3>1, <3>2
  <2> QED
      BY <2>1, <2>2
<1>7. Def(g)
    BY <1>6
<1>8. Def(f)
  <2> HIDE DEF Def
  <2> QED
      BY <1>7
<1> HIDE DEF f
<1>9. \A u \in SUBSET (1 .. n) :
          f[u] = IF u = {} THEN 0 ELSE f[u \ {Max(u)}] + s[Max(u)]
    BY <1>8
<1> HIDE DEF Def
<1>10. ListFolds(f, n, V, 0, h)
  <2>1. ASSUME NEW u \in SUBSET (1 .. n), u # {}, f[u \ {Max(u)}] \in V
        PROVE  f[u] = h[Max(u)][f[u \ {Max(u)}]]
    <3>1. Max(u) \in 1 .. n
        BY <1>3, <2>1
    <3>2. h[Max(u)][f[u \ {Max(u)}]] = f[u \ {Max(u)}] + s[Max(u)]
        BY <1>4, <2>1, <3>1
    <3> QED
        BY <1>9, <2>1, <3>2
  <2>2. f[{}] = 0
      BY <1>9
  <2> QED
      BY <2>1, <2>2 DEF ListFolds
<1>11. PICK t \in [0 .. n -> V] : Traces(t, n, 0, h) /\ f[1 .. n] = t[n]
    BY <1>2, <1>10, ListFoldTrace
<1>12. t[0] = 0
    BY <1>11 DEF Traces
<1>13. ASSUME NEW k \in 1 .. n PROVE t[k] = t[k - 1] + s[k]
  <2>1. k - 1 \in 0 .. n /\ t[k - 1] \in V
      BY <1>11
  <2> QED
      BY <1>4, <1>11, <2>1 DEF Traces
<1> QED
    BY <1>1, <1>11, <1>12, <1>13 DEF Sums, V

LEMMA SumIsInt ==
    ASSUME NEW n \in Nat, NEW s, DOMAIN s = 1 .. n, \A k \in 1 .. n : s[k] \in Int
    PROVE  Sum(s) \in Int
<1>1. PICK t \in [0 .. n -> Int] : Sums(t, n, s)
    BY SumTrace
<1> QED
    BY <1>1 DEF Sums

(* The steps of all trays, one after the other.                              *)
LEMMA StepsAreSteps ==
    ASSUME NEW list \in Seq(TrayType)
    PROVE  Steps(list) \in Seq(Int)
<1> DEFINE n == Len(list)
           V == Seq(Int)
           h == [k \in 1 .. n |-> [v \in V |-> v \o list[k].segments]]
           Def(g) == g = [u \in SUBSET (1 .. n) |->
                             IF u = {} THEN <<>> ELSE g[u \ {Max(u)}] \o list[Max(u)].segments]
           f == CHOOSE g : Def(g)
<1>0. n \in Nat /\ DOMAIN list = 1 .. n /\ \A k \in 1 .. n : list[k] \in TrayType
    OBVIOUS
<1>1. Steps(list) = f[1 .. n]
    BY <1>0 DEF Steps, FoldLeft, MapThenFoldSet
<1>2. h \in [1 .. n -> [V -> V]]
  <2>1. \A k \in 1 .. n : list[k].segments \in Seq(Int)
      BY <1>0 DEF TrayType
  <2>2. \A k \in 1 .. n, v \in Seq(Int) : v \o list[k].segments \in Seq(Int)
    <3> HIDE DEF n
    <3> QED
        BY <2>1, ConcatProperties
  <2> QED
      BY <2>2
<1>3. \A u \in SUBSET (1 .. n) : u # {} => Max(u) \in u
  <2> HIDE DEF n
  <2> QED
      BY <1>0, LastOf
<1>4. \A k \in 1 .. n, v \in V : h[k][v] = v \o list[k].segments
    OBVIOUS
<1>5. <<>> \in V
    OBVIOUS
<1> HIDE DEF h, V, n
<1>6. PICK g \in [SUBSET (1 .. n) -> V] : ListFolds(g, n, V, <<>>, h)
    BY <1>0, <1>2, <1>5, ListFoldExists
<1>7. ASSUME NEW u \in SUBSET (1 .. n)
      PROVE  g[u] = IF u = {} THEN <<>> ELSE g[u \ {Max(u)}] \o list[Max(u)].segments
  <2>1. CASE u = {}
      BY <1>6, <2>1 DEF ListFolds
  <2>2. CASE u # {}
    <3>1. Max(u) \in 1 .. n /\ g[u \ {Max(u)}] \in V
        BY <1>3, <2>2
    <3>2. g[u] = h[Max(u)][g[u \ {Max(u)}]]
        BY <1>6, <2>2, <3>1 DEF ListFolds
    <3> QED
        BY <1>4, <2>2, <3>1, <3>2
  <2> QED
      BY <2>1, <2>2
<1>8. Def(g)
    BY <1>7
<1>9. Def(f)
  <2> HIDE DEF Def
  <2> QED
      BY <1>8
<1> HIDE DEF f
<1>10. \A u \in SUBSET (1 .. n) :
          f[u] = IF u = {} THEN <<>> ELSE f[u \ {Max(u)}] \o list[Max(u)].segments
    BY <1>9
<1> HIDE DEF Def
<1>11. ListFolds(f, n, V, <<>>, h)
  <2>1. ASSUME NEW u \in SUBSET (1 .. n), u # {}, f[u \ {Max(u)}] \in V
        PROVE  f[u] = h[Max(u)][f[u \ {Max(u)}]]
    <3>1. Max(u) \in 1 .. n
        BY <1>3, <2>1
    <3>2. h[Max(u)][f[u \ {Max(u)}]] = f[u \ {Max(u)}] \o list[Max(u)].segments
        BY <1>4, <2>1, <3>1
    <3> QED
        BY <1>10, <2>1, <3>2
  <2>2. f[{}] = <<>>
      BY <1>10
  <2> QED
      BY <2>1, <2>2 DEF ListFolds
<1>12. PICK t \in [0 .. n -> V] : Traces(t, n, <<>>, h) /\ f[1 .. n] = t[n]
    BY <1>0, <1>2, <1>5, <1>11, ListFoldTrace
<1>13. t[n] \in V
    BY <1>0, <1>12
<1> QED
    BY <1>1, <1>12, <1>13 DEF V
-----------------------------------------------------------------------------
LEMMA EmptyBill ==
    ASSUME NEW S
    PROVE  Empty \in BillsOf(S)
<1>1. Empty \in [{} -> Nat \ {0}]
    BY DEF Empty
<1> QED
    BY <1>1 DEF BillsOf

(* What is charged weighs as much as the bills it is made of.                *)
LEMMA ChargeWeighs ==
    ASSUME NEW in, Sound(in), NEW n \in Nat, NEW bills, DOMAIN bills = 1 .. n,
           \A k \in 1 .. n : bills[k] \in BillsOf(Stocked(in))
    PROVE  Weight(in, AddAll(bills)) = Sum([k \in 1 .. n |-> Weight(in, bills[k])])
<1> DEFINE V == BillsOf(Stocked(in))
           w == [k \in 1 .. n |-> Weight(in, bills[k])]
<1>1. Empty \in V
    BY EmptyBill
<1>2. \A k \in 1 .. n : \A v \in V : Add(v, bills[k]) \in V
    BY BillsAdd
<1>3. \A k \in 1 .. n : bills[k] \in V /\ w[k] = Weight(in, bills[k]) /\ w[k] \in Int
    BY WeightType
<1>4. \A a, b \in V : Weight(in, Add(a, b)) = Weight(in, a) + Weight(in, b)
    BY WeightAdds
<1>5. DOMAIN w = 1 .. n
    OBVIOUS
<1>6. Weight(in, Empty) = 0
  <2> DEFINE z == Grams(in, Empty)
  <2>1. DOMAIN Empty = {}
      BY DEF Empty
  <2>2. z \in [{} -> Int] /\ IsFiniteSet({})
      BY <2>1, FS_EmptySet DEF Grams
  <2>3. Weight(in, Empty) = Total(z, {})
      BY <2>1, WeightIs
  <2> HIDE DEF z
  <2> QED
      BY <2>2, <2>3, TotalNone
<1> HIDE DEF V, w
<1>7. PICK t \in [0 .. n -> V] : Adds(t, n, bills)
    BY <1>1, <1>2, AddTrace
<1>8. PICK u \in [0 .. n -> Int] : Sums(u, n, w)
    BY <1>3, <1>5, SumTrace
<1> DEFINE good == {k \in 0 .. n : Weight(in, t[k]) = u[k]}
<1>9. 0 \in good
    BY <1>6, <1>7, <1>8 DEF Adds, Sums
<1>10. ASSUME NEW k \in 1 .. n, k - 1 \in good PROVE k \in good
  <2>1. /\ t[k] = Add(t[k - 1], bills[k]) /\ u[k] = u[k - 1] + w[k]
        /\ t[k - 1] \in V /\ k \in 0 .. n /\ Weight(in, t[k - 1]) = u[k - 1]
      BY <1>7, <1>8, <1>10 DEF Adds, Sums
  <2>2. Weight(in, t[k]) = Weight(in, t[k - 1]) + Weight(in, bills[k])
      BY <1>3, <1>4, <2>1
  <2> QED
      BY <1>3, <2>1, <2>2
<1> HIDE DEF good
<1>11. n \in good
  <2>1. \A k \in 0 .. n : k \in good
      BY <1>9, <1>10, Upward
  <2> QED
      BY <2>1
<1>12. Weight(in, t[n]) = u[n]
    BY <1>11 DEF good
<1> QED
    BY <1>7, <1>8, <1>12 DEF Adds, Sums, w
-----------------------------------------------------------------------------
(* The candidates of some classes left out: still candidates, each once.     *)
Others(classes) == {c \in CandidateType : c.cls \notin classes}

LEMMA WithoutIs ==
    ASSUME NEW s \in Seq(CandidateType), NEW classes
    PROVE  Without(s, classes) = Those(s, Others(classes))
<1> DEFINE A(g) == [u \in SUBSET DOMAIN s |->
                       IF u = {} THEN <<>>
                       ELSE IF s[Max(u)].cls \notin classes THEN Append(g[u \ {Max(u)}], s[Max(u)])
                       ELSE g[u \ {Max(u)}]]
           B(g) == [u \in SUBSET DOMAIN s |->
                       IF u = {} THEN <<>>
                       ELSE IF s[Max(u)] \in Others(classes)
                            THEN Append(g[u \ {Max(u)}], s[Max(u)])
                       ELSE g[u \ {Max(u)}]]
<1>1. \A k \in DOMAIN s : s[k] \in Others(classes) <=> s[k].cls \notin classes
    BY DEF Others
<1>2. DOMAIN s = 1 .. Len(s) /\ Len(s) \in Nat
    OBVIOUS
<1>3. \A u \in SUBSET DOMAIN s : u # {} => Max(u) \in u
    BY <1>2, LastOf
<1>4. \A u \in SUBSET DOMAIN s :
          u # {} => (s[Max(u)] \in Others(classes) <=> s[Max(u)].cls \notin classes)
    BY <1>1, <1>3
<1>5. ASSUME NEW g PROVE A(g) = B(g)
    BY <1>4
<1>6. Without(s, classes) = (CHOOSE g : g = A(g))[DOMAIN s]
    BY DEF Without, Filtered, FoldLeft, MapThenFoldSet
<1>7. Those(s, Others(classes)) = (CHOOSE g : g = B(g))[DOMAIN s]
    BY DEF Those, Filtered, FoldLeft, MapThenFoldSet
<1>8. (CHOOSE g : g = A(g)) = (CHOOSE g : g = B(g))
  <2> HIDE DEF A, B
  <2> QED
      BY <1>5
<1> HIDE DEF A, B
<1> QED
    BY <1>6, <1>7, <1>8

LEMMA WithoutDistinct ==
    ASSUME NEW s \in Seq(CandidateType), Distinct(s), NEW classes
    PROVE  Without(s, classes) \in Seq(CandidateType) /\ Distinct(Without(s, classes))
<1> DEFINE r == Without(s, classes)
           E == CandidateType
           T == Others(classes)
<1>1. r = Those(s, T)
    BY WithoutIs
<1>2. s \in Seq(E)
    OBVIOUS
<1> HIDE DEF r, T, E
<1>3. Those(s, T) \in Seq(E) /\ TakenFrom(Those(s, T), Len(s), s, T)
    BY <1>2, FilteredFrom
<1>4. PICK m \in [1 .. Len(r) -> 1 .. Len(s)] : Rises(m, 1 .. Len(r)) /\ Copies(m, r, s, T)
    BY <1>1, <1>3 DEF TakenFrom
<1>5. Len(r) \in Nat /\ DOMAIN r = 1 .. Len(r) /\ Len(s) \in Nat /\ DOMAIN s = 1 .. Len(s)
    BY <1>1, <1>2, <1>3
<1>6. ASSUME NEW i \in DOMAIN r, NEW j \in DOMAIN r, r[i].cls = r[j].cls PROVE i = j
  <2>1. i \in 1 .. Len(r) /\ j \in 1 .. Len(r) /\ i \in Int /\ j \in Int
      BY <1>5
  <2>2. r[i] = s[m[i]] /\ r[j] = s[m[j]] /\ m[i] \in DOMAIN s /\ m[j] \in DOMAIN s
      BY <1>4, <1>5, <2>1 DEF Copies
  <2>3. s[m[i]].cls = s[m[j]].cls
      BY <1>6, <2>2
  <2>4. m[i] = m[j]
      BY <2>2, <2>3 DEF Distinct
  <2>5. m[i] \in Int /\ m[j] \in Int
      BY <1>4, <2>1
  <2>6. ~(i < j) /\ ~(j < i)
    <3>1. i < j => m[i] < m[j]
        BY <1>4, <2>1 DEF Rises
    <3>2. j < i => m[j] < m[i]
        BY <1>4, <2>1 DEF Rises
    <3> QED
        BY <2>4, <2>5, <3>1, <3>2
  <2> QED
      BY <2>1, <2>6
<1>7. Distinct(r)
    BY <1>6 DEF Distinct
<1> QED
    BY <1>1, <1>3, <1>7 DEF r, E

(* The verdict of a context, and of the one it is tried again in.            *)
VerdictSound(v, products) ==
    /\ Sound(v.in) /\ v.in.products = products
    /\ Answers(v.in, v.verdict)

LEMMA JudgedSound ==
    ASSUME NEW in, Sound(in), Recorded(in)
    PROVE  VerdictSound(Judged(in), in.products)
<1> DEFINE sum   == Sum(in.segments)
           again == [in EXCEPT !.delta = sum]
<1>1. in.segments \in Seq(Int)
    BY DEF Sound
<1>2. sum \in Int
  <2>1. /\ Len(in.segments) \in Nat /\ DOMAIN in.segments = 1 .. Len(in.segments)
        /\ \A k \in 1 .. Len(in.segments) : in.segments[k] \in Int
      BY <1>1
  <2> QED
      BY <2>1, SumIsInt
<1>3. Judged(in) = [verdict |-> Judge(in), in |-> in]
      \/ Judged(in) = [verdict |-> Judge(again), in |-> again]
    BY DEF Judged, SegmentRetry, Better
<1> HIDE DEF sum
<1>4. /\ again.profile = in.profile /\ again.products = in.products
      /\ again.candidates = in.candidates /\ again.segments = in.segments
      /\ again.visionOnly = in.visionOnly /\ again.delta = sum
    BY DEF Recorded, ContextFields
<1> HIDE DEF again
<1>5. Sound(again)
    BY <1>2, <1>4 DEF Sound
<1>6. CASE Judged(in) = [verdict |-> Judge(in), in |-> in]
  <2>1. Answers(in, Judge(in))
      BY JudgeAnswers
  <2> QED
      BY <1>6, <2>1 DEF VerdictSound
<1>7. CASE Judged(in) = [verdict |-> Judge(again), in |-> again]
  <2>1. Answers(again, Judge(again))
      BY <1>5, JudgeAnswers
  <2> QED
      BY <1>4, <1>5, <1>7, <2>1 DEF VerdictSound
<1> QED
    BY <1>3, <1>6, <1>7 DEF again

LEMMA TraySound ==
    ASSUME NEW in, Sound(in), Recorded(in), NEW tray \in TrayType,
           NEW s \in Seq(CandidateType), Distinct(s)
    PROVE  VerdictSound(Judged(Alone(in, tray, s)), in.products)
<1> DEFINE own == Alone(in, tray, s)
<1>1. tray.delta \in Int /\ tray.segments \in Seq(Int)
    BY DEF TrayType
<1>2. /\ own.profile = in.profile /\ own.products = in.products /\ own.candidates = s
      /\ own.segments = tray.segments /\ own.visionOnly = in.visionOnly
      /\ own.delta = tray.delta /\ Recorded(own)
    BY DEF Alone, Recorded, ContextFields
<1> HIDE DEF own
<1>3. Sound(own)
    BY <1>1, <1>2 DEF Sound
<1>4. VerdictSound(Judged(own), own.products)
    BY <1>2, <1>3, JudgedSound
<1> QED
    BY <1>2, <1>4 DEF own

LEMMA SecondSound ==
    ASSUME NEW in, Sound(in), Recorded(in), NEW tray \in TrayType, NEW first,
           VerdictSound(first, in.products), NEW classes
    PROVE  VerdictSound(Second(in, tray, first, Without(in.candidates, classes)), in.products)
<1> DEFINE left == Without(in.candidates, classes)
           again == Judged(Alone(in, tray, left))
<1>1. left \in Seq(CandidateType) /\ Distinct(left)
    BY WithoutDistinct DEF Sound
<1> HIDE DEF left
<1>2. VerdictSound(again, in.products)
    BY <1>1, TraySound
<1>3. Second(in, tray, first, left) = first \/ Second(in, tray, first, left) = again
    BY DEF Second, Replaced
<1> HIDE DEF again
<1> QED
    BY <1>2, <1>3 DEF left

(* The context of a trigger, as the code builds it.                          *)
IsZone(in, profile, products, s) ==
    /\ Sound(in) /\ Recorded(in)
    /\ in.products = products /\ in.profile = profile /\ in.candidates = s

LEMMA ContextSound ==
    ASSUME NEW list \in Seq(TrayType), NEW profile \in ProfileType,
           profile.tolerance >= NearestGrams, NEW products \in Seq(ProductType),
           NEW s \in Seq(CandidateType), Distinct(s), NEW v \in BOOLEAN
    PROVE  IsZone(Zone(profile, products, s, list, v), profile, products, s)
<1> DEFINE deltas == [k \in DOMAIN list |-> list[k].delta]
           in == Zone(profile, products, s, list, v)
<1>1. Sum(deltas) \in Int
  <2>1. /\ Len(list) \in Nat /\ DOMAIN list = 1 .. Len(list)
        /\ \A k \in 1 .. Len(list) : list[k] \in TrayType
      OBVIOUS
  <2>2. DOMAIN deltas = 1 .. Len(list) /\ \A k \in 1 .. Len(list) : deltas[k] \in Int
      BY <2>1 DEF TrayType
  <2> HIDE DEF deltas
  <2> QED
      BY <2>1, <2>2, SumIsInt
<1>2. Steps(list) \in Seq(Int)
    BY StepsAreSteps
<1>3. in = [profile |-> profile, products |-> products, candidates |-> s,
            delta |-> IF v THEN 0 ELSE Sum(deltas),
            segments |-> IF v THEN <<>> ELSE Steps(list), visionOnly |-> v]
    BY DEF Zone
<1> HIDE DEF deltas, in
<1>4. /\ in.profile = profile /\ in.products = products /\ in.candidates = s
      /\ in.delta = (IF v THEN 0 ELSE Sum(deltas)) /\ in.visionOnly = v
      /\ in.segments = (IF v THEN <<>> ELSE Steps(list))
    BY <1>3
<1>5. Recorded(in)
    BY <1>3 DEF Recorded, ContextFields
<1>6. in.delta \in Int /\ in.segments \in Seq(Int)
    BY <1>1, <1>2, <1>4
<1>7. IsZone(in, profile, products, s)
    BY <1>4, <1>5, <1>6 DEF Sound, IsZone
<1> QED
    BY <1>7 DEF in

(* A bill of a verdict is one of the trigger.                                *)
LEMMA VerdictBill ==
    ASSUME NEW in, Sound(in), NEW v, VerdictSound(v, in.products)
    PROVE  /\ InStock(in, v.verdict.bill) /\ v.verdict.bill \in BillsOf(Stocked(in))
           /\ v.verdict.status \in {"complete", "partial", "no_detection"}
<1> DEFINE b == v.verdict.bill
           D == DOMAIN b
<1>1. IsBill(v.in, b) /\ v.in.products = in.products
      /\ v.verdict.status \in {"complete", "partial", "no_detection"}
    BY DEF VerdictSound, Answers
<1>2. Stocked(v.in) = Stocked(in)
    BY <1>1 DEF Stocked
<1>3. /\ D \subseteq Stocked(in) /\ b = [p \in D |-> b[p]]
      /\ \A p \in D : b[p] \in 1 .. in.products[p].stock
    BY <1>1, <1>2 DEF IsBill
<1>4. \A p \in D : b[p] \in Nat \ {0}
    BY <1>3, OnSale
<1>5. b \in [D -> Nat \ {0}]
    BY <1>3, <1>4
<1>6. b \in BillsOf(Stocked(in))
    BY <1>3, <1>5 DEF BillsOf
<1> QED
    BY <1>1, <1>3, <1>6 DEF InStock

-----------------------------------------------------------------------------
(* What a judgement keeps of its context, and what it enforces.              *)
LEMMA Enforced ==
    ASSUME NEW in, Judge(in).status = "complete", ~in.visionOnly
    PROVE  Explained(in, Judge(in).bill)
<1>1. CASE Judge(in) = Routed(in)
  <2>1. Distance(Weight(in, Routed(in).bill), Target(in)) <= Allowed(in, Pieces(Routed(in).bill))
      BY <1>1 DEF Judge, Enforce
  <2> QED
      BY <1>1, <2>1 DEF Explained
<1>2. CASE Judge(in) # Routed(in)
  <2>1. Judge(in) = [Routed(in) EXCEPT !.status = "partial"] /\ Routed(in).status = "complete"
      BY <1>2 DEF Judge, Enforce
  <2> QED
      BY <2>1
<1> QED
    BY <1>1, <1>2

(* Apart from the change it is judged over, a context stays as it is.        *)
SameButDelta(in, used) ==
    /\ used.candidates = in.candidates /\ used.visionOnly = in.visionOnly
    /\ used.segments = in.segments
    /\ \/ used.delta = in.delta
       \/ /\ used.delta = Sum(in.segments)
          /\ ~(Distance(in.delta, used.delta) <= RetryGap)

LEMMA JudgedKeeps ==
    ASSUME NEW in, Recorded(in)
    PROVE  /\ SameButDelta(in, Judged(in).in)
           /\ Judged(in).verdict.status = "complete" /\ ~in.visionOnly =>
                  Explained(Judged(in).in, Judged(in).verdict.bill)
<1> DEFINE again == [in EXCEPT !.delta = Sum(in.segments)]
<1>1. /\ again.candidates = in.candidates /\ again.visionOnly = in.visionOnly
      /\ again.segments = in.segments /\ again.delta = Sum(in.segments)
    BY DEF Recorded, ContextFields
<1> HIDE DEF again
<1>2. CASE Judged(in) = [verdict |-> Judge(in), in |-> in]
  <2>1. Judged(in).in = in /\ Judged(in).verdict = Judge(in)
      BY <1>2
  <2>2. SameButDelta(in, Judged(in).in)
      BY <2>1 DEF SameButDelta
  <2> QED
      BY <2>1, <2>2, Enforced
<1>3. CASE /\ Judged(in) = [verdict |-> Judge(again), in |-> again]
           /\ ~(Distance(in.delta, Sum(in.segments)) <= RetryGap)
  <2>1. Judged(in).in = again /\ Judged(in).verdict = Judge(again)
      BY <1>3
  <2>2. SameButDelta(in, Judged(in).in)
      BY <1>1, <1>3, <2>1 DEF SameButDelta
  <2>3. again.visionOnly = in.visionOnly
      BY <1>1
  <2>4. Judge(again).status = "complete" /\ ~again.visionOnly =>
            Explained(again, Judge(again).bill)
      BY Enforced
  <2> QED
      BY <2>1, <2>2, <2>3, <2>4
<1>4. \/ Judged(in) = [verdict |-> Judge(in), in |-> in]
      \/ /\ Judged(in) = [verdict |-> Judge(again), in |-> again]
         /\ ~(Distance(in.delta, Sum(in.segments)) <= RetryGap)
    BY DEF Judged, SegmentRetry, Better, again
<1> QED
    BY <1>2, <1>3, <1>4

LEMMA TrayContextShape ==
    ASSUME Shape, NEW k, NEW candidates
    PROVE  /\ Recorded(Alone(ctx, trays[k], candidates))
           /\ Alone(ctx, trays[k], candidates).candidates = candidates
           /\ Alone(ctx, trays[k], candidates).visionOnly = ctx.visionOnly
           /\ Alone(ctx, trays[k], candidates).delta = trays[k].delta
           /\ Alone(ctx, trays[k], candidates).segments = trays[k].segments
BY DEF Shape, Recorded, ContextFields, Alone

(* The verdict of a tray, whatever candidates it was given.                  *)
LEMMA TrayJudged ==
    ASSUME Shape, NEW k, NEW candidates
    PROVE  LET v == Judged(Alone(ctx, trays[k], candidates)) IN
           /\ v.in.candidates = candidates
           /\ \/ v.in.delta = trays[k].delta
              \/ /\ v.in.delta = Sum(trays[k].segments)
                 /\ ~(Distance(trays[k].delta, v.in.delta) <= RetryGap)
           /\ v.verdict.status = "complete" /\ ~ctx.visionOnly =>
                  Explained(v.in, v.verdict.bill)
<1> DEFINE in == Alone(ctx, trays[k], candidates)
<1>1. /\ Recorded(in)
      /\ in.candidates = candidates /\ in.visionOnly = ctx.visionOnly
      /\ in.delta = trays[k].delta /\ in.segments = trays[k].segments
    BY TrayContextShape
<1> HIDE DEF in
<1>2. /\ SameButDelta(in, Judged(in).in)
      /\ Judged(in).verdict.status = "complete" /\ ~in.visionOnly =>
             Explained(Judged(in).in, Judged(in).verdict.bill)
    BY <1>1, JudgedKeeps
<1>3. /\ Judged(in).in.candidates = candidates
      /\ \/ Judged(in).in.delta = trays[k].delta
         \/ /\ Judged(in).in.delta = Sum(trays[k].segments)
            /\ ~(Distance(trays[k].delta, Judged(in).in.delta) <= RetryGap)
      /\ Judged(in).verdict.status = "complete" /\ ~ctx.visionOnly =>
             Explained(Judged(in).in, Judged(in).verdict.bill)
    BY <1>1, <1>2 DEF SameButDelta
<1> QED
    BY <1>3 DEF in
-----------------------------------------------------------------------------
LEMMA InvInit == Init => Inv
<1> SUFFICES ASSUME Init PROVE Inv
    OBVIOUS
<1>1. Shape
  <2>1. PICK profile \in Profile, products \in Shop, candidates \in Candidates, v \in BOOLEAN :
            ctx = Zone(profile, products, candidates, trays, v)
      BY DEF Init
  <2>2. Recorded(ctx)
      BY <2>1 DEF Zone, Recorded, ContextFields
  <2>3. Len(trays) \in Nat /\ DOMAIN trays = 1 .. Len(trays)
      BY JudgmentAssumption DEF Init, JudgmentAssumption
  <2> QED
      BY <2>2, <2>3 DEF Init, Shape
<1>2. PassInv
    BY DEF Init, PassInv
<1>3. VerdictInv
    BY DEF Init, VerdictInv
<1> QED
    BY <1>1, <1>2, <1>3 DEF Inv

(* What a tray should be judged depends on the trigger alone.                *)
LEMMA SameTrigger ==
    ASSUME ctx' = ctx, trays' = trays
    PROVE  /\ \A k : FirstOf(k)' = FirstOf(k) /\ SecondOf(k)' = SecondOf(k)
           /\ Many(ctx, trays)' = Many(ctx, trays) /\ (Shape /\ next' \in Nat => Shape')
<1>1. ASSUME NEW k PROVE FirstOf(k)' = FirstOf(k)
    BY DEF FirstOf, Alone
<1>2. Taken' = Taken
    BY <1>1 DEF Taken, Classes
<1>3. ASSUME NEW k PROVE SecondOf(k)' = SecondOf(k)
    BY <1>1, <1>2 DEF SecondOf, Second, Rest, Alone
<1>4. Many(ctx, trays)' = Many(ctx, trays) /\ (Shape /\ next' \in Nat => Shape')
    BY DEF Many, Shape
<1> QED
    BY <1>1, <1>3, <1>4

(* The verdicts stay, with what they were reached in.                        *)
LEMMA SameVerdicts ==
    ASSUME VerdictInv, UNCHANGED <<ctx, trays, verdicts>>
    PROVE  \A k \in DOMAIN verdicts' : VerdictOK(k)'
BY DEF VerdictInv, VerdictOK, OfTray, Many
-----------------------------------------------------------------------------
LEMMA SpareStep ==
    ASSUME Inv, Spare
    PROVE  Inv'
<1>1. /\ pc = "start" /\ pc' = "done" /\ verdicts = <<>>
      /\ UNCHANGED <<ctx, trays, next, verdicts>>
    BY DEF Inv, PassInv, Spare
<1>2. Shape'
    BY <1>1, SameTrigger DEF Inv, Shape
<1>3. PassInv'
    BY <1>1 DEF PassInv
<1>4. VerdictInv'
    BY <1>1 DEF VerdictInv
<1> QED
    BY <1>2, <1>3, <1>4 DEF Inv

LEMMA SeeStep ==
    ASSUME Inv, See
    PROVE  Inv'
<1>1. /\ pc = "start" /\ pc' = "judge" /\ verdicts = <<>> /\ next = 1
      /\ UNCHANGED <<ctx, trays, next, verdicts, result>>
    BY DEF Inv, PassInv, See
<1>2. Shape'
    BY <1>1, SameTrigger DEF Inv, Shape
<1>3. PassInv'
  <2>1. Many(ctx, trays)' => next' <= Len(trays')
      BY <1>1 DEF Inv, Shape, Many
  <2> QED
      BY <1>1, <2>1 DEF PassInv
<1>4. VerdictInv'
    BY <1>1 DEF VerdictInv
<1> QED
    BY <1>2, <1>3, <1>4 DEF Inv

LEMMA JudgeZoneStep ==
    ASSUME Inv, JudgeZone
    PROVE  Inv'
<1>1. /\ pc = "judge" /\ ~Many(ctx, trays) /\ pc' = "done"
      /\ verdicts' = <<Judged(ctx)>> /\ result' = verdicts'[1].verdict
      /\ UNCHANGED <<ctx, trays, next>>
    BY DEF JudgeZone
<1>2. Shape'
    BY <1>1, SameTrigger DEF Inv, Shape
<1>3. PassInv'
    BY <1>1 DEF PassInv
<1>4. VerdictInv'
  <2>1. DOMAIN verdicts' = {1} /\ verdicts'[1] = Judged(ctx)
      BY <1>1
  <2>2. ctx.visionOnly' = ctx.visionOnly /\ Many(ctx, trays)' = Many(ctx, trays)
      BY <1>1 DEF Many
  <2>3. Judged(ctx).verdict.status = "complete" /\ ~ctx.visionOnly =>
            Explained(Judged(ctx).in, Judged(ctx).verdict.bill)
      BY JudgedKeeps DEF Inv, Shape
  <2>4. VerdictOK(1)'
      BY <1>1, <2>1, <2>2, <2>3 DEF VerdictOK, OfTray
  <2> QED
      BY <1>1, <2>1, <2>4 DEF VerdictInv
<1> QED
    BY <1>2, <1>3, <1>4 DEF Inv

LEMMA ListIs ==
    ASSUME NEW S, NEW s \in Seq(S)
    PROVE  s = [k \in 1 .. Len(s) |-> s[k]]
OBVIOUS

LEMMA JudgeTrayStep ==
    ASSUME Inv, JudgeTray
    PROVE  Inv'
<1>1. /\ pc = "judge" /\ Many(ctx, trays)
      /\ verdicts' = Append(verdicts, FirstOf(next))
      /\ next' = IF next = Len(trays) THEN 1 ELSE next + 1
      /\ pc' = IF next = Len(trays) THEN "again" ELSE "judge"
      /\ UNCHANGED <<ctx, trays, result>>
    BY DEF JudgeTray, FirstOf
<1>2. Shape /\ PassInv /\ VerdictInv
    BY DEF Inv
<1>3. /\ Len(trays) \in Nat /\ next \in 1 .. Len(trays)
      /\ DOMAIN verdicts = 1 .. next - 1 /\ Len(verdicts) = next - 1
      /\ verdicts \in Seq({FirstOf(k) : k \in 1 .. Len(trays)})
      /\ \A k \in 1 .. next - 1 : verdicts[k] = FirstOf(k)
  <2>1. Len(trays) \in Nat /\ next \in Nat
      BY <1>2 DEF Shape
  <2>2. /\ next >= 1 /\ next <= Len(trays)
        /\ DOMAIN verdicts = 1 .. next - 1 /\ Len(verdicts) = next - 1
        /\ verdicts \in Seq({FirstOf(k) : k \in 1 .. Len(trays)})
        /\ \A k \in 1 .. next - 1 : verdicts[k] = FirstOf(k)
      BY <1>1, <1>2 DEF PassInv
  <2> QED
      BY <2>1, <2>2
<1>4. /\ verdicts' \in Seq({FirstOf(k) : k \in 1 .. Len(trays)})
      /\ Len(verdicts') = next
      /\ \A k \in 1 .. next - 1 : verdicts'[k] = verdicts[k]
      /\ verdicts'[next] = FirstOf(next)
  <2>1. FirstOf(next) \in {FirstOf(k) : k \in 1 .. Len(trays)}
      BY <1>3
  <2>2. Len(verdicts) + 1 = next
      BY <1>3
  <2> QED
      BY <1>1, <1>3, <2>1, <2>2, AppendProperties
<1>5. DOMAIN verdicts' = 1 .. next
    BY <1>4
<1>6. \A k \in 1 .. next : verdicts'[k] = FirstOf(k)
  <2> TAKE k \in 1 .. next
  <2>1. k = next \/ k \in 1 .. next - 1
      BY <1>3
  <2> QED
      BY <1>3, <1>4, <2>1
<1>7. Shape' /\ Many(ctx, trays)' /\ \A k : FirstOf(k)' = FirstOf(k) /\ SecondOf(k)' = SecondOf(k)
    BY <1>1, <1>2, <1>3, SameTrigger
<1>8. PassInv'
  <2>1. CASE next = Len(trays)
    <3>1. pc' = "again" /\ next' = 1
        BY <1>1, <2>1
    <3>2. next' \in 1 .. Len(trays') /\ DOMAIN verdicts' = 1 .. Len(trays')
        BY <1>1, <1>3, <1>5, <2>1, <3>1
    <3>3. \A k \in 1 .. Len(trays') : ~(k < next') /\ verdicts'[k] = FirstOf(k)'
        BY <1>1, <1>3, <1>6, <1>7, <2>1, <3>1
    <3>4. verdicts' = [k \in 1 .. Len(trays') |-> verdicts'[k]]
      <4>1. verdicts' = [k \in 1 .. Len(verdicts') |-> verdicts'[k]]
          BY <1>4, ListIs
      <4>2. Len(trays') = Len(verdicts')
          BY <1>1, <1>4, <2>1
      <4> QED
          BY <4>1, <4>2
    <3> QED
        BY <1>7, <3>1, <3>2, <3>3, <3>4 DEF PassInv
  <2>2. CASE next # Len(trays)
    <3>1. pc' = "judge" /\ next' = next + 1 /\ next' - 1 = next
        BY <1>1, <1>3, <2>2
    <3>2. next' >= 1 /\ next' <= Len(trays')
        BY <1>1, <1>3, <2>2, <3>1
    <3>3. verdicts' \in Seq({FirstOf(k)' : k \in 1 .. Len(trays')})
        BY <1>1, <1>4, <1>7
    <3>4. \A k \in 1 .. next' - 1 : verdicts'[k] = FirstOf(k)'
        BY <1>6, <1>7, <3>1
    <3> QED
        BY <1>4, <1>5, <3>1, <3>2, <3>3, <3>4 DEF PassInv
  <2> QED
      BY <2>1, <2>2
<1>9. VerdictInv'
  <2>1. ASSUME NEW k \in DOMAIN verdicts' PROVE VerdictOK(k)'
    <3>1. verdicts'[k] = Judged(Alone(ctx, trays[k], ctx.candidates))
        BY <1>5, <1>6, <2>1 DEF FirstOf
    <3>2. /\ \/ verdicts'[k].in.delta = trays[k].delta
             \/ /\ verdicts'[k].in.delta = Sum(trays[k].segments)
                /\ ~(Distance(trays[k].delta, verdicts'[k].in.delta) <= RetryGap)
          /\ verdicts'[k].verdict.status = "complete" /\ ~ctx.visionOnly =>
                 Explained(verdicts'[k].in, verdicts'[k].verdict.bill)
        BY <1>2, <3>1, TrayJudged
    <3> QED
        BY <1>1, <3>2 DEF VerdictOK, OfTray
  <2>2. pc' # "done"
      BY <1>1
  <2> QED
      BY <2>1, <2>2 DEF VerdictInv
<1> QED
    BY <1>7, <1>8, <1>9 DEF Inv
-----------------------------------------------------------------------------
(* A tray judged again in another pool was not complete before.              *)
LEMMA SecondTaken ==
    ASSUME Shape, NEW j
    PROVE  /\ SecondOf(j).verdict.status = "complete"
                 /\ SecondOf(j).in.candidates = ctx.candidates
              <=> FirstOf(j).verdict.status = "complete"
           /\ FirstOf(j).verdict.status = "complete" => SecondOf(j) = FirstOf(j)
<1> DEFINE again == Judged(Alone(ctx, trays[j], Rest))
<1>1. FirstOf(j).in.candidates = ctx.candidates /\ again.in.candidates = Rest
    BY TrayJudged DEF FirstOf
<1> HIDE DEF again
<1>2. CASE SecondOf(j) = FirstOf(j)
    BY <1>1, <1>2
<1>3. CASE /\ SecondOf(j) = again /\ FirstOf(j).verdict.status # "complete"
           /\ Rest # ctx.candidates
    BY <1>1, <1>3
<1>4. \/ SecondOf(j) = FirstOf(j)
      \/ /\ SecondOf(j) = again /\ FirstOf(j).verdict.status # "complete"
         /\ Rest # ctx.candidates
    BY DEF SecondOf, Second, Replaced, again
<1> QED
    BY <1>2, <1>3, <1>4

LEMMA SameConsumed ==
    ASSUME Shape, PassInv, pc = "again"
    PROVE  Consumed(ctx, verdicts) = Taken
<1>1. /\ DOMAIN verdicts = 1 .. Len(trays)
      /\ \A k \in 1 .. Len(trays) :
            verdicts[k] = IF k < next THEN SecondOf(k) ELSE FirstOf(k)
    BY DEF PassInv
<1>2. ASSUME NEW j \in 1 .. Len(trays)
      PROVE  /\ Ended(verdicts, j, "complete") /\ verdicts[j].in.candidates = ctx.candidates
                    <=> FirstOf(j).verdict.status = "complete"
             /\ FirstOf(j).verdict.status = "complete" => verdicts[j] = FirstOf(j)
  <2>1. FirstOf(j).in.candidates = ctx.candidates
      BY TrayJudged DEF FirstOf
  <2>2. CASE verdicts[j] = FirstOf(j)
      BY <2>1, <2>2 DEF Ended
  <2>3. CASE verdicts[j] = SecondOf(j)
      BY <2>3, SecondTaken DEF Ended
  <2> QED
      BY <1>1, <2>2, <2>3
<1> DEFINE now  == {j \in DOMAIN verdicts : Ended(verdicts, j, "complete")
                                            /\ verdicts[j].in.candidates = ctx.candidates}
           then == {j \in 1 .. Len(trays) : FirstOf(j).verdict.status = "complete"}
<1>3. now = then
    BY <1>1, <1>2
<1>4. \A k \in then : verdicts[k].verdict.bill = FirstOf(k).verdict.bill
    BY <1>2
<1> HIDE DEF now, then
<1>5. {Classes(ctx, verdicts[k].verdict.bill) : k \in now}
          = {Classes(ctx, FirstOf(k).verdict.bill) : k \in then}
    BY <1>3, <1>4
<1> QED
    BY <1>5 DEF Consumed, Taken, now, then

LEMMA JudgeAgainStep ==
    ASSUME Inv, JudgeAgain
    PROVE  Inv'
<1>0. Shape /\ PassInv /\ VerdictInv
    BY DEF Inv
<1> DEFINE again == Judged(Alone(ctx, trays[next], Rest))
<1>1. /\ pc = "again"
      /\ next' = IF next = Len(trays) THEN 1 ELSE next + 1
      /\ pc' = IF next = Len(trays) THEN "merge" ELSE "again"
      /\ UNCHANGED <<ctx, trays, result>>
    BY DEF JudgeAgain
<1>2. Without(ctx.candidates, Consumed(ctx, verdicts)) = Rest
    BY <1>0, <1>1, SameConsumed DEF Rest
<1>3. verdicts' = [verdicts EXCEPT ![next] = Second(ctx, trays[next], verdicts[next], Rest)]
    BY <1>2 DEF JudgeAgain
<1>4. /\ Many(ctx, trays) /\ Len(trays) \in Nat /\ next \in 1 .. Len(trays)
      /\ DOMAIN verdicts = 1 .. Len(trays)
      /\ \A k \in 1 .. Len(trays) :
            verdicts[k] = IF k < next THEN SecondOf(k) ELSE FirstOf(k)
    BY <1>0, <1>1 DEF Shape, PassInv
<1>5. verdicts[next] = FirstOf(next)
    BY <1>4
<1>6. verdicts'[next] = SecondOf(next)
    BY <1>3, <1>4, <1>5 DEF SecondOf
<1>7. /\ DOMAIN verdicts' = 1 .. Len(trays)
      /\ \A k \in 1 .. Len(trays) : k # next => verdicts'[k] = verdicts[k]
      /\ verdicts' = [k \in 1 .. Len(trays') |-> verdicts'[k]]
    BY <1>1, <1>3, <1>4
<1>8. verdicts'[next] = verdicts[next] \/ verdicts'[next] = again
    BY <1>3, <1>4 DEF Second, Replaced
<1> HIDE DEF again
<1>9. Shape' /\ Many(ctx, trays)' /\ \A k : FirstOf(k)' = FirstOf(k) /\ SecondOf(k)' = SecondOf(k)
    BY <1>0, <1>1, <1>4, SameTrigger
<1>10. PassInv'
  <2>1. CASE next = Len(trays)
    <3>1. pc' = "merge"
        BY <1>1, <2>1
    <3>2. \A k \in 1 .. Len(trays') : verdicts'[k] = SecondOf(k)'
      <4> TAKE k \in 1 .. Len(trays')
      <4>1. k \in 1 .. Len(trays) /\ (k = next \/ k < next)
          BY <1>1, <1>4, <2>1
      <4> QED
          BY <1>4, <1>6, <1>7, <1>9, <4>1
    <3> QED
        BY <1>1, <1>7, <1>9, <3>1, <3>2 DEF PassInv
  <2>2. CASE next # Len(trays)
    <3>1. pc' = "again" /\ next' = next + 1 /\ next' \in 1 .. Len(trays')
        BY <1>1, <1>4, <2>2
    <3>2. \A k \in 1 .. Len(trays') :
              verdicts'[k] = IF k < next' THEN SecondOf(k)' ELSE FirstOf(k)'
      <4> TAKE k \in 1 .. Len(trays')
      <4>1. k \in 1 .. Len(trays) /\ (k = next \/ (k < next <=> k < next'))
          BY <1>1, <1>4, <3>1
      <4>2. k = next => k < next'
          BY <1>4, <3>1
      <4> QED
          BY <1>4, <1>6, <1>7, <1>9, <4>1, <4>2
    <3> QED
        BY <1>1, <1>7, <1>9, <3>1, <3>2 DEF PassInv
  <2> QED
      BY <2>1, <2>2
<1>11. VerdictInv'
  <2>1. ASSUME NEW k \in DOMAIN verdicts', verdicts'[k] = verdicts[k] PROVE VerdictOK(k)'
    <3>1. VerdictOK(k)
        BY <1>0, <1>4, <1>7, <2>1 DEF VerdictInv
    <3> QED
        BY <1>1, <1>4, <1>9, <2>1, <3>1 DEF VerdictOK, OfTray
  <2>2. ASSUME NEW k \in DOMAIN verdicts', k = next, verdicts'[k] = again PROVE VerdictOK(k)'
    <3>1. /\ \/ again.in.delta = trays[next].delta
             \/ /\ again.in.delta = Sum(trays[next].segments)
                /\ ~(Distance(trays[next].delta, again.in.delta) <= RetryGap)
          /\ again.verdict.status = "complete" /\ ~ctx.visionOnly =>
                 Explained(again.in, again.verdict.bill)
        BY <1>0, TrayJudged DEF again
    <3> QED
        BY <1>1, <2>2, <3>1 DEF VerdictOK, OfTray
  <2>3. ASSUME NEW k \in DOMAIN verdicts' PROVE VerdictOK(k)'
    <3>1. CASE verdicts'[k] = verdicts[k]
        BY <2>1, <3>1
    <3>2. CASE k = next /\ verdicts'[k] = again
        BY <2>2, <3>2
    <3> QED
        BY <1>7, <1>8, <3>1, <3>2
  <2>4. pc' # "done"
      BY <1>1
  <2> QED
      BY <2>3, <2>4 DEF VerdictInv
<1> QED
    BY <1>9, <1>10, <1>11 DEF Inv

LEMMA MergeStep ==
    ASSUME Inv, Merge
    PROVE  Inv'
<1> DEFINE decided == {k \in DOMAIN verdicts :
                          Charged(verdicts, k) /\ Ended(verdicts, k, "complete")}
<1>1. /\ pc' = "done" /\ result' = Merged(ctx, verdicts)
      /\ UNCHANGED <<ctx, trays, next, verdicts>>
    BY DEF Merge
<1>3. result'.status = "complete" => decided = DOMAIN verdicts
    BY <1>1 DEF Merged, Partial, NoDetection, Verdict
<1>4. Shape'
    BY <1>1, SameTrigger DEF Inv, Shape
<1>5. PassInv'
    BY <1>1 DEF PassInv
<1>6. VerdictInv'
  <2>1. \A k \in DOMAIN verdicts' : VerdictOK(k)'
      BY <1>1, SameVerdicts DEF Inv
  <2>2. decided = DOMAIN verdicts =>
            \A k \in DOMAIN verdicts : verdicts[k].verdict.status = "complete"
      BY DEF Ended
  <2> QED
      BY <1>1, <1>3, <2>1, <2>2 DEF VerdictInv
<1> QED
    BY <1>4, <1>5, <1>6 DEF Inv

LEMMA FailStep ==
    ASSUME Inv, Fail
    PROVE  Inv'
<1>1. /\ pc' = "done" /\ result'.status = "error"
      /\ UNCHANGED <<ctx, trays, next, verdicts>>
    BY DEF Fail, Failure, Entry, Verdict
<1>2. Shape'
    BY <1>1, SameTrigger DEF Inv, Shape
<1>3. PassInv'
    BY <1>1 DEF PassInv
<1>4. VerdictInv'
    BY <1>1, SameVerdicts DEF Inv, VerdictInv
<1> QED
    BY <1>2, <1>3, <1>4 DEF Inv

LEMMA StutterStep ==
    ASSUME Inv, UNCHANGED vars
    PROVE  Inv'
<1>1. UNCHANGED <<pc, ctx, trays, next, verdicts, result>>
    BY DEF vars
<1>2. Shape' /\ Many(ctx, trays)' = Many(ctx, trays)
      /\ \A k : FirstOf(k)' = FirstOf(k) /\ SecondOf(k)' = SecondOf(k)
    BY <1>1, SameTrigger DEF Inv, Shape
<1>3. PassInv'
    BY <1>1, <1>2 DEF Inv, PassInv
<1>4. VerdictInv'
    BY <1>1, SameVerdicts DEF Inv, VerdictInv
<1> QED
    BY <1>2, <1>3, <1>4 DEF Inv

LEMMA Invariant == Spec => []Inv
<1>1. Inv /\ [Next]_vars => Inv'
    BY SpareStep, SeeStep, JudgeZoneStep, JudgeTrayStep, JudgeAgainStep, MergeStep, FailStep,
       StutterStep DEF Next
<1> QED
    BY <1>1, InvInit, PTL DEF Spec
-----------------------------------------------------------------------------
(* Trays with the same weight changes are charged the same, however many     *)
(* there are, whatever else was taken and in whichever order the channels    *)
(* come (_judge_tray_events, _pool_exhaustion_retry).                        *)
THEOREM TraysAlike == Spec => []TraysHaveNoOrder
<1>1. ASSUME Inv, pc = "merge", NEW j \in DOMAIN trays, NEW k \in DOMAIN trays,
             trays[j] = trays[k]
      PROVE  verdicts[j].verdict = verdicts[k].verdict
  <2>1. SecondOf(j) = SecondOf(k)
      BY <1>1 DEF SecondOf, FirstOf
  <2>2. verdicts[j] = SecondOf(j) /\ verdicts[k] = SecondOf(k)
      BY <1>1 DEF Inv, Shape, PassInv
  <2> QED
      BY <2>1, <2>2
<1>2. Inv => TraysHaveNoOrder
    BY <1>1 DEF TraysHaveNoOrder
<1> QED
    BY <1>2, Invariant, PTL

(* The part of CompleteExplains that speaks of each tray: a trigger that     *)
(* ends complete has charged every tray for all of its weight, whatever the  *)
(* strategies propose (enforce_full_delta_match and both retries).           *)
THEOREM TraysExplained == Spec => []EachTrayExplained
<1>1. Inv => EachTrayExplained
    BY DEF Inv, VerdictInv, VerdictOK, EachTrayExplained
<1> QED
    BY <1>1, Invariant, PTL
-----------------------------------------------------------------------------
(* Every verdict was reached in a context of the trigger and answers it.     *)
SoundInv ==
    /\ trays \in Events /\ ctx.products \in Shop /\ ctx.profile \in Profile
    /\ Sound(ctx)
    /\ \A k \in DOMAIN verdicts : VerdictSound(verdicts[k], ctx.products)

(* How many there are, and what the trigger came to.                         *)
ResultInv ==
    /\ pc \in {"start", "judge", "again", "merge", "done"}
    /\ next \in 1 .. Most(1, Len(trays))
    /\ Len(verdicts) <= Most(1, Len(trays))
    /\ result.status \in {"none", "complete", "partial", "no_detection", "error"}
    /\ pc = "done" /\ result.status = "complete" =>
           Weight(ctx, result.bill) =
               Sum([k \in DOMAIN verdicts |-> Weight(ctx, verdicts[k].verdict.bill)])

LEMMA TrayTypes ==
    ASSUME SoundInv
    PROVE  trays \in Seq(TrayType) /\ Len(trays) \in Nat /\ DOMAIN trays = 1 .. Len(trays)
<1>1. trays \in Seq(TrayType)
    BY JudgmentAssumption DEF JudgmentAssumption, SoundInv, TrayType
<1> QED
    BY <1>1

LEMMA SoundInit == Init => SoundInv
<1> SUFFICES ASSUME Init PROVE SoundInv
    OBVIOUS
<1>1. PICK profile \in Profile, products \in Shop, s \in Candidates, v \in BOOLEAN :
          ctx = Zone(profile, products, s, trays, v)
    BY DEF Init
<1>2. trays \in Events /\ verdicts = <<>>
    BY DEF Init
<1>3. trays \in Seq(TrayType)
    BY <1>2, JudgmentAssumption DEF JudgmentAssumption, TrayType
<1>4. profile \in ProfileType /\ profile.tolerance >= NearestGrams
    BY JudgmentAssumption DEF JudgmentAssumption
<1>5. products \in Seq(ProductType) /\ s \in Seq(CandidateType) /\ Distinct(s)
    BY JudgmentAssumption DEF JudgmentAssumption
<1>6. IsZone(ctx, profile, products, s)
    BY <1>1, <1>3, <1>4, <1>5, ContextSound
<1> QED
    BY <1>2, <1>6 DEF SoundInv, IsZone

(* Only the three judging actions reach verdicts.                            *)
LEMMA SoundKept ==
    ASSUME SoundInv, UNCHANGED <<ctx, trays>>,
           \A k \in DOMAIN verdicts' : VerdictSound(verdicts'[k], ctx.products)
    PROVE  SoundInv'
BY DEF SoundInv

LEMMA ZoneSound ==
    ASSUME SoundInv, Shape, JudgeZone
    PROVE  VerdictSound(Judged(ctx), ctx.products) /\ SoundInv'
<1>1. VerdictSound(Judged(ctx), ctx.products)
    BY JudgedSound DEF SoundInv, Shape
<1>2. verdicts' = <<Judged(ctx)>> /\ UNCHANGED <<ctx, trays>>
    BY DEF JudgeZone
<1>3. DOMAIN verdicts' = {1} /\ verdicts'[1] = Judged(ctx)
    BY <1>2
<1> HIDE DEF VerdictSound
<1>4. \A k \in DOMAIN verdicts' : VerdictSound(verdicts'[k], ctx.products)
    BY <1>1, <1>3
<1> QED
    BY <1>1, <1>2, <1>4, SoundKept

LEMMA TraysSound ==
    ASSUME SoundInv, Inv, JudgeTray
    PROVE  SoundInv'
<1>1. /\ pc = "judge" /\ Many(ctx, trays) /\ verdicts' = Append(verdicts, FirstOf(next))
      /\ UNCHANGED <<ctx, trays>>
    BY DEF JudgeTray, FirstOf
<1>2. /\ next \in Nat /\ next >= 1 /\ next <= Len(trays) /\ Len(verdicts) = next - 1
      /\ verdicts \in Seq({FirstOf(k) : k \in 1 .. Len(trays)})
    BY <1>1 DEF Inv, Shape, PassInv
<1>3. trays \in Seq(TrayType) /\ Len(trays) \in Nat /\ DOMAIN trays = 1 .. Len(trays)
    BY TrayTypes
<1>4. next \in DOMAIN trays
    BY <1>2, <1>3
<1>5. VerdictSound(FirstOf(next), ctx.products)
  <2>1. ctx.candidates \in Seq(CandidateType) /\ Distinct(ctx.candidates) /\ Recorded(ctx)
      BY DEF SoundInv, Sound, Inv, Shape
  <2>2. trays[next] \in TrayType
      BY <1>3, <1>4
  <2>3. VerdictSound(Judged(Alone(ctx, trays[next], ctx.candidates)), ctx.products)
      BY <2>1, <2>2, TraySound DEF SoundInv
  <2> QED
      BY <2>3 DEF FirstOf
<1> DEFINE S == {FirstOf(k) : k \in 1 .. Len(trays)}
<1>6. FirstOf(next) \in S /\ verdicts \in Seq(S)
    BY <1>2, <1>3
<1> HIDE DEF S
<1>7. /\ DOMAIN verdicts' = 1 .. next
      /\ \A k \in 1 .. Len(verdicts) : verdicts'[k] = verdicts[k]
      /\ verdicts'[next] = FirstOf(next) /\ DOMAIN verdicts = 1 .. Len(verdicts)
    BY <1>1, <1>2, <1>6, AppendProperties
<1>8. ASSUME NEW k \in DOMAIN verdicts' PROVE VerdictSound(verdicts'[k], ctx.products)
  <2>1. CASE k = next
      BY <1>5, <1>7, <2>1
  <2>2. CASE k # next
    <3>1. k \in DOMAIN verdicts /\ verdicts'[k] = verdicts[k]
        BY <1>2, <1>7, <2>2
    <3> QED
        BY <3>1 DEF SoundInv
  <2> QED
      BY <2>1, <2>2
<1> QED
    BY <1>1, <1>8, SoundKept

LEMMA AgainSound ==
    ASSUME SoundInv, Inv, JudgeAgain
    PROVE  SoundInv'
<1> DEFINE second == Second(ctx, trays[next], verdicts[next],
                            Without(ctx.candidates, Consumed(ctx, verdicts)))
<1>1. /\ pc = "again" /\ UNCHANGED <<ctx, trays>>
      /\ verdicts' = [verdicts EXCEPT ![next] = second]
    BY DEF JudgeAgain
<1>2. trays \in Seq(TrayType) /\ Len(trays) \in Nat /\ DOMAIN trays = 1 .. Len(trays)
    BY TrayTypes
<1>3. next \in DOMAIN trays /\ DOMAIN verdicts = 1 .. Len(trays)
    BY <1>1, <1>2 DEF Inv, PassInv
<1>4. Recorded(ctx) /\ Sound(ctx) /\ trays[next] \in TrayType
    BY <1>2, <1>3 DEF SoundInv, Inv, Shape
<1>5. VerdictSound(verdicts[next], ctx.products)
    BY <1>2, <1>3 DEF SoundInv
<1>6. VerdictSound(second, ctx.products)
    BY <1>4, <1>5, SecondSound
<1> HIDE DEF second
<1>7. ASSUME NEW k \in DOMAIN verdicts' PROVE VerdictSound(verdicts'[k], ctx.products)
  <2>1. k \in DOMAIN verdicts /\ (verdicts'[k] = verdicts[k] \/ verdicts'[k] = second)
      BY <1>1
  <2> QED
      BY <1>6, <2>1 DEF SoundInv
<1> QED
    BY <1>1, <1>7, SoundKept

LEMMA SoundStep ==
    ASSUME SoundInv, Inv, [Next]_vars
    PROVE  SoundInv'
<1>1. CASE UNCHANGED <<ctx, trays, verdicts>>
    BY <1>1, SoundKept DEF SoundInv
<1>2. CASE JudgeZone
    BY <1>2, ZoneSound DEF Inv
<1>3. CASE JudgeTray
    BY <1>3, TraysSound
<1>4. CASE JudgeAgain
    BY <1>4, AgainSound
<1>5. \/ UNCHANGED <<ctx, trays, verdicts>> \/ JudgeZone \/ JudgeTray \/ JudgeAgain
    BY DEF Next, Spare, See, Merge, Fail, vars
<1> QED
    BY <1>1, <1>2, <1>3, <1>4, <1>5

LEMMA AlwaysSound == Spec => []SoundInv
<1>1. Inv /\ SoundInv /\ [Next]_vars => SoundInv'
    BY SoundStep
<1> QED
    BY <1>1, SoundInit, Invariant, PTL DEF Spec
-----------------------------------------------------------------------------
(* Where weight tells products apart, no product is charged one piece of     *)
(* which is much heavier than all that was taken, by any strategy and with   *)
(* any retry (relaxed_partial, segment_weight_matching, strict, ...).        *)
THEOREM WeightRefutes == Spec => []NothingTooHeavy
<1>1. SoundInv => NothingTooHeavy
    BY DEF SoundInv, VerdictSound, Answers, NothingTooHeavy
<1> QED
    BY <1>1, AlwaysSound, PTL

(* In the freezer, of two products that fit the weight the one seen with     *)
(* fewer votes and less confidence is never charged alone                    *)
(* (FreezerVisionFirstStrategy, the matcher's rivals and the retries).       *)
THEOREM SightChooses == Spec => []WeightDoesNotChoose
<1>1. SoundInv => WeightDoesNotChoose
    BY DEF SoundInv, VerdictSound, Answers, WeightDoesNotChoose
<1> QED
    BY <1>1, AlwaysSound, PTL
-----------------------------------------------------------------------------
LEMMA ZoneResult ==
    ASSUME SoundInv, Inv, ResultInv, JudgeZone
    PROVE  ResultInv'
<1>1. /\ pc' = "done" /\ verdicts' = <<Judged(ctx)>> /\ result' = verdicts'[1].verdict
      /\ UNCHANGED <<ctx, trays, next>>
    BY DEF JudgeZone
<1>2. VerdictSound(Judged(ctx), ctx.products) /\ Sound(ctx)
    BY ZoneSound DEF Inv, SoundInv
<1> DEFINE v == Judged(ctx)
           b == v.verdict.bill
           s == [k \in DOMAIN verdicts' |-> Weight(ctx, verdicts'[k].verdict.bill)]
<1>3. b \in BillsOf(Stocked(ctx)) /\ v.verdict.status \in {"complete", "partial", "no_detection"}
    BY <1>2, VerdictBill
<1>4. /\ Len(verdicts') = 1 /\ DOMAIN verdicts' = 1 .. 1 /\ verdicts'[1] = v
      /\ result' = v.verdict
    BY <1>1
<1> HIDE DEF v
<1>5. Weight(ctx, b) \in Int
    BY <1>2, <1>3, WeightType
<1>6. Sum(s) = Weight(ctx, b)
  <2>1. DOMAIN s = 1 .. 1 /\ s[1] = Weight(ctx, b) /\ \A k \in 1 .. 1 : s[k] \in Int
      BY <1>4, <1>5
  <2> HIDE DEF s, b
  <2>2. PICK t \in [0 .. 1 -> Int] : Sums(t, 1, s)
      BY <2>1, SumTrace
  <2>3. t[0] = 0 /\ Sum(s) = t[1] /\ t[1] = t[1 - 1] + s[1]
      BY <2>2 DEF Sums
  <2> QED
      BY <1>5, <2>1, <2>3
<1>7. Len(verdicts') <= Most(1, Len(trays))'
  <2>1. Len(trays) \in Nat
      BY TrayTypes
  <2> QED
      BY <1>1, <1>4, <2>1 DEF Most
<1> QED
    BY <1>1, <1>3, <1>4, <1>6, <1>7 DEF ResultInv

LEMMA MergeResult ==
    ASSUME SoundInv, Inv, ResultInv, Merge
    PROVE  ResultInv'
<1> DEFINE decided == {k \in DOMAIN verdicts :
                          Charged(verdicts, k) /\ Ended(verdicts, k, "complete")}
           n == Len(trays)
           bills == [k \in 1 .. n |-> verdicts[k].verdict.bill]
           total == Charge(ctx, verdicts)
<1>1. /\ pc = "merge" /\ pc' = "done" /\ UNCHANGED <<ctx, trays, next, verdicts>>
      /\ result' = Merged(ctx, verdicts)
    BY DEF Merge
<1>2. result'.status \in {"complete", "partial", "no_detection"}
      /\ (result'.status = "complete" =>
              decided = DOMAIN verdicts /\ result'.bill = total)
    BY <1>1 DEF Merged, Complete, Partial, NoDetection, Verdict
<1>3. n \in Nat /\ DOMAIN verdicts = 1 .. n
    BY <1>1, TrayTypes DEF Inv, PassInv
<1>4. ASSUME decided = DOMAIN verdicts
      PROVE  Weight(ctx, total) =
                 Sum([k \in DOMAIN verdicts |-> Weight(ctx, verdicts[k].verdict.bill)])
  <2>1. \A k \in DOMAIN verdicts : k \in Billable(ctx, verdicts)
      BY <1>4 DEF Billable
  <2>2. total = AddAll(bills)
      BY <1>3, <2>1 DEF Charge
  <2>3. \A k \in 1 .. n : bills[k] \in BillsOf(Stocked(ctx))
      BY <1>3, VerdictBill DEF SoundInv
  <2>4. DOMAIN bills = 1 .. n /\ \A k \in 1 .. n : bills[k] = verdicts[k].verdict.bill
      OBVIOUS
  <2> HIDE DEF bills, n, total
  <2>5. Weight(ctx, AddAll(bills)) = Sum([k \in 1 .. n |-> Weight(ctx, bills[k])])
      BY <1>3, <2>3, <2>4, ChargeWeighs DEF SoundInv
  <2>6. [k \in 1 .. n |-> Weight(ctx, bills[k])]
            = [k \in 1 .. n |-> Weight(ctx, verdicts[k].verdict.bill)]
      BY <2>4
  <2> QED
      BY <1>3, <2>2, <2>5, <2>6
<1> HIDE DEF decided, n, bills, total
<1>5. result'.status = "complete" =>
          Weight(ctx, result'.bill) =
              Sum([k \in DOMAIN verdicts |-> Weight(ctx, verdicts[k].verdict.bill)])
    BY <1>2, <1>4
<1> QED
    BY <1>1, <1>2, <1>5 DEF ResultInv

LEMMA TrayResult ==
    ASSUME SoundInv, Inv, ResultInv, JudgeTray
    PROVE  ResultInv'
<1>1. /\ pc = "judge" /\ Many(ctx, trays) /\ verdicts' = Append(verdicts, FirstOf(next))
      /\ next' = IF next = Len(trays) THEN 1 ELSE next + 1
      /\ pc' = IF next = Len(trays) THEN "again" ELSE "judge"
      /\ UNCHANGED <<ctx, trays, result>>
    BY DEF JudgeTray, FirstOf
<1>2. /\ next \in Nat /\ next >= 1 /\ next <= Len(trays) /\ Len(verdicts) = next - 1
      /\ verdicts \in Seq({FirstOf(k) : k \in 1 .. Len(trays)})
    BY <1>1 DEF Inv, Shape, PassInv
<1>3. Len(trays) \in Nat /\ Len(trays) >= 2
    BY <1>1, TrayTypes DEF Many
<1>4. Len(verdicts') = next
  <2> DEFINE S == {FirstOf(k) : k \in 1 .. Len(trays)}
  <2>1. FirstOf(next) \in S /\ verdicts \in Seq(S)
      BY <1>2, <1>3
  <2> HIDE DEF S
  <2>2. Len(verdicts') = Len(verdicts) + 1
      BY <1>1, <2>1, AppendProperties
  <2> QED
      BY <1>2, <2>2
<1>5. next' \in 1 .. Most(1, Len(trays))
    BY <1>1, <1>2, <1>3 DEF Most
<1>6. Len(verdicts') <= Most(1, Len(trays))
    BY <1>2, <1>3, <1>4 DEF Most
<1> QED
    BY <1>1, <1>5, <1>6 DEF ResultInv

LEMMA AgainResult ==
    ASSUME SoundInv, Inv, ResultInv, JudgeAgain
    PROVE  ResultInv'
<1> DEFINE second == Second(ctx, trays[next], verdicts[next],
                            Without(ctx.candidates, Consumed(ctx, verdicts)))
<1>1. /\ pc = "again"
      /\ next' = IF next = Len(trays) THEN 1 ELSE next + 1
      /\ pc' = IF next = Len(trays) THEN "merge" ELSE "again"
      /\ UNCHANGED <<ctx, trays, result>>
      /\ verdicts' = [verdicts EXCEPT ![next] = second]
    BY DEF JudgeAgain
<1> HIDE DEF second
<1>2. /\ Many(ctx, trays) /\ DOMAIN verdicts = 1 .. Len(trays) /\ next \in 1 .. Len(trays)
    BY <1>1 DEF Inv, PassInv
<1>3. Len(trays) \in Nat /\ Len(trays) >= 2
    BY <1>2, TrayTypes DEF Many
<1>4. Len(verdicts') = Len(trays)
  <2>1. ASSUME NEW n \in Nat, DOMAIN verdicts = 1 .. n, NEW x
        PROVE  Len([verdicts EXCEPT ![next] = x]) = n
      BY <2>1
  <2> QED
      BY <1>1, <1>2, <1>3, <2>1
<1>5. next' \in 1 .. Most(1, Len(trays))
    BY <1>1, <1>2, <1>3 DEF Most
<1>6. Len(verdicts') <= Most(1, Len(trays))
    BY <1>3, <1>4 DEF Most, ResultInv
<1> QED
    BY <1>1, <1>5, <1>6 DEF ResultInv

LEMMA ResultStep ==
    ASSUME SoundInv, Inv, ResultInv, [Next]_vars
    PROVE  ResultInv'
<1>1. CASE Spare
  <2>1. /\ pc' = "done" /\ result'.status = "no_detection"
        /\ UNCHANGED <<ctx, trays, next, verdicts>>
      BY <1>1 DEF Spare, NoDetection, Verdict
  <2> QED
      BY <2>1 DEF ResultInv
<1>2. CASE See
    BY <1>2 DEF See, ResultInv
<1>3. CASE JudgeZone
    BY <1>3, ZoneResult
<1>4. CASE JudgeTray
    BY <1>4, TrayResult
<1>5. CASE JudgeAgain
    BY <1>5, AgainResult
<1>6. CASE Merge
    BY <1>6, MergeResult
<1>7. CASE Fail
  <2>1. /\ pc' = "done" /\ result'.status = "error"
        /\ UNCHANGED <<ctx, trays, next, verdicts>>
      BY <1>7 DEF Fail, Failure, Entry, Verdict
  <2> QED
      BY <2>1 DEF ResultInv
<1>8. CASE UNCHANGED vars
    BY <1>8 DEF vars, ResultInv
<1> QED
    BY <1>1, <1>2, <1>3, <1>4, <1>5, <1>6, <1>7, <1>8 DEF Next

LEMMA ResultInit ==
    ASSUME Init, SoundInv
    PROVE  ResultInv
<1>1. pc = "start" /\ next = 1 /\ verdicts = <<>> /\ result.status = "none"
    BY DEF Init, Undecided, Verdict
<1>2. Len(trays) \in Nat
    BY TrayTypes
<1>3. 1 \in 1 .. Most(1, Len(trays)) /\ 0 <= Most(1, Len(trays))
    BY <1>2 DEF Most
<1> QED
    BY <1>1, <1>3 DEF ResultInv

LEMMA AlwaysResult == Spec => []ResultInv
<1>1. Inv /\ SoundInv /\ ResultInv /\ [Next]_vars => ResultInv'
    BY ResultStep
<1>2. Init /\ SoundInv => ResultInv
    BY ResultInit
<1> QED
    BY <1>1, <1>2, SoundInit, AlwaysSound, Invariant, PTL DEF Spec

(* Types: every verdict is decided and charges within the stock, for any     *)
(* trays, candidates and shop (judge and every strategy's bill).             *)
THEOREM JudgmentTyped == Spec => []TypeOK
<1>1. SoundInv /\ ResultInv => TypeOK
  <2> SUFFICES ASSUME SoundInv, ResultInv PROVE TypeOK
      OBVIOUS
  <2>1. ASSUME NEW k \in DOMAIN verdicts
        PROVE  /\ verdicts[k].verdict.status \in {"complete", "partial", "no_detection"}
               /\ InStock(ctx, verdicts[k].verdict.bill)
    <3>1. VerdictSound(verdicts[k], ctx.products) /\ Sound(ctx)
        BY DEF SoundInv
    <3> QED
        BY <3>1, VerdictBill
  <2> QED
      BY <2>1 DEF SoundInv, ResultInv, TypeOK
<1> QED
    BY <1>1, AlwaysSound, AlwaysResult, PTL

(* I6 for the whole trigger: one that ends complete charges for all of the   *)
(* weight, tray by tray and in sum (enforce_full_delta_match, both retries   *)
(* and the merge of the trays' bills).                                       *)
THEOREM TriggerExplained == Spec => []CompleteExplains
<1>1. Inv /\ ResultInv => CompleteExplains
    BY DEF Inv, VerdictInv, VerdictOK, ResultInv, EachTrayExplained, CompleteExplains
<1> QED
    BY <1>1, Invariant, AlwaysResult, PTL
-----------------------------------------------------------------------------
(* A trigger that does not fail ends with the verdict of Outcome, which is   *)
(* the one SessionReview starts from: what the steps do one tray after the   *)
(* other is what the function says of all trays at once.                     *)
Delivered == pc = "done" /\ result.status # "error" => result = Outcome(ctx, trays).verdict

DeliveredInv ==
    /\ pc \in {"judge", "again", "merge"} => ctx.products # <<>> /\ ~Slight(ctx)
    /\ Delivered

LEMMA BothPasses ==
    ASSUME Inv, pc = "merge"
    PROVE  verdicts = Seconds(ctx, trays, Firsts(ctx, trays))
<1> DEFINE first == Firsts(ctx, trays)
           now   == {j \in DOMAIN first : Ended(first, j, "complete")
                                             /\ first[j].in.candidates = ctx.candidates}
           then  == {j \in 1 .. Len(trays) : FirstOf(j).verdict.status = "complete"}
<1>1. Shape /\ DOMAIN trays = 1 .. Len(trays)
    BY DEF Inv, Shape
<1>2. DOMAIN first = 1 .. Len(trays) /\ \A k \in 1 .. Len(trays) : first[k] = FirstOf(k)
    BY DEF Firsts, FirstOf
<1> HIDE DEF first
<1>3. \A k \in 1 .. Len(trays) : FirstOf(k).in.candidates = ctx.candidates
    BY <1>1, TrayJudged DEF FirstOf
<1>4. now = then
    BY <1>2, <1>3 DEF Ended
<1>5. {Classes(ctx, first[k].verdict.bill) : k \in now}
          = {Classes(ctx, FirstOf(k).verdict.bill) : k \in then}
    BY <1>2, <1>4
<1>6. Consumed(ctx, first) = Taken
    BY <1>5 DEF Consumed, Taken
<1>7. Without(ctx.candidates, Consumed(ctx, first)) = Rest
    BY <1>6 DEF Rest
<1>8. Seconds(ctx, trays, first) =
          [k \in 1 .. Len(trays) |-> Second(ctx, trays[k], first[k], Rest)]
    BY <1>7 DEF Seconds
<1>9. /\ verdicts = [k \in 1 .. Len(trays) |-> verdicts[k]]
      /\ \A k \in 1 .. Len(trays) : verdicts[k] = SecondOf(k)
    BY DEF Inv, PassInv
<1>10. \A k \in 1 .. Len(trays) : verdicts[k] = Second(ctx, trays[k], first[k], Rest)
    BY <1>2, <1>9 DEF SecondOf
<1> QED
    BY <1>8, <1>9, <1>10 DEF first

LEMMA ValueIs ==
    ASSUME NEW x
    PROVE  Value({x}) = x
BY DEF Value

LEMMA ManyIs ==
    ASSUME NEW in, NEW list, Many(in, list)
    PROVE  OfTrigger(in, list) = Merged(in, Seconds(in, list, Firsts(in, list)))
<1> DEFINE first    == Firsts(in, list)
           Of(f)    == Seconds(in, list, f)
           Whole(v) == Merged(in, v)
<1>1. OfTrigger(in, list) = Value({Whole(v) : v \in {Of(f) : f \in {first}}})
    BY DEF OfTrigger
<1> HIDE DEF first, Of, Whole
<1>2. {Of(f) : f \in {first}} = {Of(first)}
    OBVIOUS
<1>3. {Whole(v) : v \in {Of(first)}} = {Whole(Of(first))}
    OBVIOUS
<1>4. OfTrigger(in, list) = Whole(Of(first))
    BY <1>1, <1>2, <1>3, ValueIs
<1> QED
    BY <1>4 DEF first, Of, Whole

LEMMA DeliveredStep == Inv /\ DeliveredInv /\ [Next]_vars => DeliveredInv'
<1> SUFFICES ASSUME Inv, DeliveredInv, [Next]_vars PROVE DeliveredInv'
    OBVIOUS
<1> DEFINE ready == ctx.products # <<>> /\ ~Slight(ctx)
           of    == Outcome(ctx, trays).verdict
<1>1. pc \in {"judge", "again", "merge"} => ready
    BY DEF DeliveredInv
<1>2. ready => of = OfTrigger(ctx, trays)
    BY DEF Outcome, Entry
<1>3. UNCHANGED <<ctx, trays>> => ready' = ready /\ of' = of
    BY DEF Slight
<1>4. CASE Spare
  <2>1. pc' = "done" /\ UNCHANGED <<ctx, trays>> /\ result' = of
      BY <1>4 DEF Spare, Outcome, Entry
  <2> QED
      BY <1>3, <2>1 DEF DeliveredInv, Delivered
<1>5. CASE See
  <2>1. pc' = "judge" /\ UNCHANGED <<ctx, trays>> /\ ready
      BY <1>5 DEF See
  <2> QED
      BY <1>3, <2>1 DEF DeliveredInv, Delivered
<1>6. CASE JudgeZone
  <2>1. /\ pc = "judge" /\ pc' = "done" /\ UNCHANGED <<ctx, trays>>
        /\ ~Many(ctx, trays) /\ result' = Judged(ctx).verdict
      BY <1>6 DEF JudgeZone
  <2>2. result' = of
      BY <1>1, <1>2, <2>1 DEF OfTrigger
  <2> QED
      BY <1>3, <2>1, <2>2 DEF DeliveredInv, Delivered
<1>7. CASE JudgeTray \/ JudgeAgain
  <2>1. /\ pc \in {"judge", "again"} /\ pc' \in {"judge", "again", "merge"}
        /\ UNCHANGED <<ctx, trays>>
      BY <1>7 DEF JudgeTray, JudgeAgain
  <2> QED
      BY <1>1, <1>3, <2>1 DEF DeliveredInv, Delivered
<1>8. CASE Merge
  <2>1. /\ pc = "merge" /\ pc' = "done" /\ UNCHANGED <<ctx, trays>>
        /\ result' = Merged(ctx, verdicts)
      BY <1>8 DEF Merge
  <2>2. Many(ctx, trays) /\ verdicts = Seconds(ctx, trays, Firsts(ctx, trays))
      BY <2>1, BothPasses DEF Inv, PassInv
  <2>3. result' = of
      BY <1>1, <1>2, <2>1, <2>2, ManyIs
  <2> QED
      BY <1>3, <2>1, <2>3 DEF DeliveredInv, Delivered
<1>9. CASE Fail
  <2>1. pc' = "done" /\ result'.status = "error"
      BY <1>9 DEF Fail, Failure, Entry, Verdict
  <2> QED
      BY <2>1 DEF DeliveredInv, Delivered
<1>10. CASE UNCHANGED vars
  <2>1. UNCHANGED <<pc, ctx, trays, result>>
      BY <1>10 DEF vars
  <2> QED
      BY <1>1, <1>3, <2>1 DEF DeliveredInv, Delivered
<1> QED
    BY <1>4, <1>5, <1>6, <1>7, <1>8, <1>9, <1>10 DEF Next

(* Unless it fails, a trigger delivers what Outcome says (pipeline.py,       *)
(* _process and _judge_tray_events), for any products, candidates and trays: *)
(* the reviews start from what the triggers leave.                           *)
THEOREM TriggerDelivers == Spec => []Delivered
<1>1. Init => DeliveredInv
    BY DEF Init, DeliveredInv, Delivered
<1>2. DeliveredInv => Delivered
    BY DEF DeliveredInv
<1> QED
    BY <1>1, <1>2, DeliveredStep, Invariant, PTL DEF Spec
-----------------------------------------------------------------------------
(* The reviews at the close of a session, for any log, products and zones.  *)
(* An event of a log is a record of these fields, charged for products on    *)
(* the shelf, though perhaps for more of them than there are.                *)
EventFields == {"zone", "at", "video", "ok", "delta", "segments", "candidates", "verdict"}
OnShelf     == {p \in DOMAIN Products : Products[p].stock > 0}
Shelved(b)  == \A p \in DOMAIN b : b[p] \in 1 .. Products[p].stock
IsVerdict(v) ==
    v = Verdict(v.status, v.bill, v.conf, v.reason) /\ v.bill \in BillsOf(OnShelf)

SoundEvent(e) ==
    /\ DOMAIN e = EventFields /\ e = [f \in EventFields |-> e[f]]
    /\ e.zone \in DOMAIN ProfileOf /\ e.delta \in Int /\ e.segments \in Seq(Int)
    /\ e.candidates \in Seq(CandidateType) /\ Distinct(e.candidates)
    /\ IsVerdict(e.verdict)

SameRemoval(e, f) ==
    /\ e.zone = f.zone /\ e.at = f.at /\ e.video = f.video
    /\ e.ok = f.ok /\ e.delta = f.delta /\ e.segments = f.segments

(* The candidates of s are those of t, with other votes perhaps.             *)
SameClasses(s, t) ==
    /\ Len(s) = Len(t) /\ DOMAIN s = DOMAIN t /\ \A i \in DOMAIN t : s[i].cls = t[i].cls

FitsRemoval(e, bill) ==
    Distance(Size(e.delta), Weight(ContextOf(e, <<>>), bill))
        <= Allowed(ContextOf(e, <<>>), Pieces(bill))

LEMMA ReviewContext ==
    ASSUME NEW e, SoundEvent(e), NEW s \in Seq(CandidateType), Distinct(s)
    PROVE  /\ Sound(ContextOf(e, s)) /\ ContextOf(e, s).products = Products
           /\ ContextOf(e, s).candidates = s /\ ContextOf(e, s).delta = e.delta
           /\ ContextOf(e, s).profile = ProfileOf[e.zone]
           /\ ~ContextOf(e, s).visionOnly
<1> DEFINE in == ContextOf(e, s)
<1>1. /\ in.profile = ProfileOf[e.zone] /\ in.products = Products /\ in.candidates = s
      /\ in.delta = e.delta /\ in.segments = e.segments /\ in.visionOnly = FALSE
    BY DEF ContextOf
<1>2. ProfileOf[e.zone] \in ProfileType /\ ProfileOf[e.zone].tolerance >= NearestGrams
    BY ReviewAssumption DEF ReviewAssumption, SoundEvent
<1>3. Products \in Seq(ProductType)
    BY ReviewAssumption DEF ReviewAssumption
<1>4. e.segments \in Seq(Int) /\ e.delta \in Int
    BY DEF SoundEvent
<1> HIDE DEF in
<1>5. Sound(in)
    BY <1>1, <1>2, <1>3, <1>4 DEF Sound
<1> QED
    BY <1>1, <1>5 DEF in

(* What a bill weighs does not depend on what was seen.                      *)
LEMMA ReviewWeight ==
    ASSUME NEW e, NEW s, NEW t, NEW b
    PROVE  /\ Weight(ContextOf(e, s), b) = Weight(ContextOf(e, t), b)
           /\ Allowed(ContextOf(e, s), Pieces(b)) = Allowed(ContextOf(e, t), Pieces(b))
<1>1. ContextOf(e, s).products = ContextOf(e, t).products
      /\ ContextOf(e, s).profile = ContextOf(e, t).profile
    BY DEF ContextOf
<1>2. Grams(ContextOf(e, s), b) = Grams(ContextOf(e, t), b)
    BY <1>1 DEF Grams
<1> QED
    BY <1>1, <1>2, WeightIs DEF Allowed

LEMMA ReviewBill ==
    ASSUME NEW e, SoundEvent(e)
    PROVE  Weight(ContextOf(e, <<>>), e.verdict.bill) \in Int
<1>1. <<>> \in Seq(CandidateType) /\ Distinct(<<>>)
    BY DEF Distinct
<1>2. Sound(ContextOf(e, <<>>)) /\ ContextOf(e, <<>>).products = Products
    BY <1>1, ReviewContext
<1>3. Stocked(ContextOf(e, <<>>)) = OnShelf
    BY <1>2 DEF Stocked, OnShelf
<1>4. e.verdict.bill \in BillsOf(Stocked(ContextOf(e, <<>>)))
    BY <1>3 DEF SoundEvent, IsVerdict
<1> QED
    BY <1>2, <1>4, WeightType

LEMMA DistanceBothWays == \A x, y \in Int : Distance(x, y) = Distance(y, x) /\ Distance(x, y) \in Nat
BY DEF Distance

(* A judgement keeps to the stock, and is complete only if it explains the   *)
(* weight.                                                                   *)
LEMMA ReviewJudge ==
    ASSUME NEW e, SoundEvent(e), NEW s \in Seq(CandidateType), Distinct(s)
    PROVE  /\ IsVerdict(Judge(ContextOf(e, s))) /\ Shelved(Judge(ContextOf(e, s)).bill)
           /\ Judge(ContextOf(e, s)).status = "complete" =>
                  FitsRemoval(e, Judge(ContextOf(e, s)).bill)
<1> DEFINE in == ContextOf(e, s)
           v  == Judge(in)
<1>1. /\ Sound(in) /\ in.products = Products /\ in.delta = e.delta /\ ~in.visionOnly
    BY ReviewContext
<1> HIDE DEF in
<1>2. Answers(in, v)
    BY <1>1, JudgeAnswers
<1>3. v = Verdict(v.status, v.bill, v.conf, v.reason) /\ IsBill(in, v.bill)
    BY <1>2 DEF Answers
<1>4. Shelved(v.bill)
    BY <1>1, <1>3 DEF Shelved, IsBill
<1>5. IsVerdict(v)
  <2>1. Stocked(in) = OnShelf
      BY <1>1 DEF Stocked, OnShelf
  <2>2. VerdictSound([verdict |-> v, in |-> in], in.products)
      BY <1>1, <1>2 DEF VerdictSound
  <2>3. v.bill \in BillsOf(Stocked(in))
    <3> DEFINE r == [verdict |-> v, in |-> in]
    <3>1. r.verdict.bill \in BillsOf(Stocked(in))
        BY <1>1, <2>2, VerdictBill
    <3> QED
        BY <3>1
  <2> QED
      BY <1>3, <2>1, <2>3 DEF IsVerdict
<1>6. ASSUME v.status = "complete" PROVE FitsRemoval(e, v.bill)
  <2>1. Distance(Weight(in, v.bill), Target(in)) <= Allowed(in, Pieces(v.bill))
      BY <1>1, <1>6, Enforced DEF Explained
  <2>2. Target(in) = Size(e.delta) /\ Target(in) \in Nat
    <3>1. Target(in) \in Nat
        BY <1>1, Fields
    <3> QED
        BY <1>1, <3>1 DEF Target
  <2>3. Weight(in, v.bill) \in Nat
      BY <1>1, <1>3, BillNumbers
  <2>4. Distance(Weight(in, v.bill), Target(in)) = Distance(Size(e.delta), Weight(in, v.bill))
    <3>1. Weight(in, v.bill) \in Int /\ Target(in) \in Int
        BY <2>2, <2>3
    <3> QED
        BY <2>2, <3>1, DistanceBothWays
  <2>5. /\ Weight(in, v.bill) = Weight(ContextOf(e, <<>>), v.bill)
        /\ Allowed(in, Pieces(v.bill)) = Allowed(ContextOf(e, <<>>), Pieces(v.bill))
      BY ReviewWeight DEF in
  <2> QED
      BY <2>1, <2>4, <2>5 DEF FitsRemoval
<1> QED
    BY <1>4, <1>5, <1>6 DEF in

LEMMA HalvedIs ==
    ASSUME NEW e, SoundEvent(e), NEW classes
    PROVE  /\ Halved(e, classes) \in Seq(CandidateType) /\ Distinct(Halved(e, classes))
           /\ SameClasses(Halved(e, classes), e.candidates)
           /\ \A i \in DOMAIN e.candidates :
                 e.candidates[i].cls \notin classes => Halved(e, classes)[i] = e.candidates[i]
<1> DEFINE s == e.candidates
           h == Halved(e, classes)
<1>1. /\ s \in Seq(CandidateType) /\ DOMAIN s = 1 .. Len(s) /\ Len(s) \in Nat
      /\ \A i \in DOMAIN s : s[i] \in CandidateType
    BY DEF SoundEvent
<1>2. /\ DOMAIN h = DOMAIN s
      /\ \A i \in DOMAIN s :
            h[i] = IF s[i].cls \in classes
                   THEN [s[i] EXCEPT !.conf = @ \div 2, !.votes = @ \div 2] ELSE s[i]
      /\ h = [i \in 1 .. Len(s) |-> h[i]]
    BY <1>1 DEF Halved
<1>3. \A n \in Nat : n \div 2 \in Nat
    OBVIOUS
<1>4. Distinct(s)
    BY DEF SoundEvent
<1> HIDE DEF h, s
<1>5. ASSUME NEW i \in DOMAIN s PROVE h[i] \in CandidateType /\ h[i].cls = s[i].cls
  <2> DEFINE c == s[i]
  <2>1. /\ c = [cls |-> c.cls, conf |-> c.conf, votes |-> c.votes]
        /\ c.cls \in Int /\ c.conf \in Nat /\ c.votes \in Nat
      BY <1>1 DEF CandidateType
  <2> HIDE DEF c
  <2>2. c.conf \div 2 \in Nat /\ c.votes \div 2 \in Nat
      BY <1>3, <2>1
  <2>3. [c EXCEPT !.conf = @ \div 2, !.votes = @ \div 2]
            = [cls |-> c.cls, conf |-> c.conf \div 2, votes |-> c.votes \div 2]
    <3> DEFINE x == c.conf \div 2
               y == c.votes \div 2
    <3> HIDE DEF x, y
    <3> DEFINE d == [c EXCEPT !.conf = x]
    <3>1. d = [cls |-> c.cls, conf |-> x, votes |-> c.votes]
        BY <2>1
    <3>2. [c EXCEPT !.conf = x, !.votes = y] = [d EXCEPT !.votes = y]
        OBVIOUS
    <3> HIDE DEF d
    <3>3. [d EXCEPT !.votes = y] = [cls |-> c.cls, conf |-> x, votes |-> y]
        BY <3>1
    <3>4. [c EXCEPT !.conf = x, !.votes = y] = [cls |-> c.cls, conf |-> x, votes |-> y]
        BY <3>2, <3>3
    <3> QED
        BY <3>4 DEF x, y
  <2>4. h[i] = c \/ h[i] = [cls |-> c.cls, conf |-> c.conf \div 2, votes |-> c.votes \div 2]
      BY <1>2, <2>3 DEF c
  <2>5. h[i] \in CandidateType /\ h[i].cls = c.cls
      BY <2>1, <2>2, <2>4 DEF CandidateType
  <2> QED
      BY <2>5 DEF c
<1>6. h \in Seq(CandidateType) /\ Len(h) = Len(s)
  <2>1. h \in [1 .. Len(s) -> CandidateType]
      BY <1>1, <1>2, <1>5
  <2> QED
      BY <1>1, <2>1
<1>7. Distinct(h)
    BY <1>2, <1>4, <1>5 DEF Distinct
<1>8. SameClasses(h, s)
    BY <1>2, <1>5, <1>6 DEF SameClasses
<1> QED
    BY <1>2, <1>6, <1>7, <1>8 DEF h, s
-----------------------------------------------------------------------------
(* What each pass leaves of an event.                                        *)
Improves(v, e) ==
    v.status = "complete" /\ FitsRemoval(e, v.bill) /\ Shelved(v.bill)
WithCandidates(e, s) == [e EXCEPT !.candidates = s]
WithVerdict(e, v)    == [e EXCEPT !.verdict = v]
Keeping(h, e)        == SoundEvent(h) /\ SameRemoval(h, e)

LEMMA CandidatesChange ==
    ASSUME NEW e, SoundEvent(e), NEW s \in Seq(CandidateType), Distinct(s)
    PROVE  /\ Keeping(WithCandidates(e, s), e) /\ WithCandidates(e, s).candidates = s
           /\ WithCandidates(e, s).verdict = e.verdict
<1> DEFINE h == WithCandidates(e, s)
<1>1. DOMAIN e = EventFields /\ e = [f \in EventFields |-> e[f]]
    BY DEF SoundEvent
<1>2. /\ h.zone = e.zone /\ h.at = e.at /\ h.video = e.video /\ h.ok = e.ok
      /\ h.delta = e.delta /\ h.segments = e.segments /\ h.verdict = e.verdict
      /\ h.candidates = s
    BY <1>1 DEF WithCandidates, EventFields
<1>3. DOMAIN h = EventFields /\ h = [f \in EventFields |-> h[f]]
    BY <1>1 DEF WithCandidates
<1> HIDE DEF h
<1>4. SoundEvent(h)
    BY <1>2, <1>3 DEF SoundEvent
<1> QED
    BY <1>2, <1>4 DEF h, Keeping, SameRemoval

LEMMA VerdictChange ==
    ASSUME NEW e, SoundEvent(e), NEW v, IsVerdict(v)
    PROVE  /\ Keeping(WithVerdict(e, v), e) /\ WithVerdict(e, v).candidates = e.candidates
           /\ WithVerdict(e, v).verdict = v
<1> DEFINE h == WithVerdict(e, v)
<1>1. DOMAIN e = EventFields /\ e = [f \in EventFields |-> e[f]]
    BY DEF SoundEvent
<1>2. /\ h.zone = e.zone /\ h.at = e.at /\ h.video = e.video /\ h.ok = e.ok
      /\ h.delta = e.delta /\ h.segments = e.segments /\ h.verdict = v
      /\ h.candidates = e.candidates
    BY <1>1 DEF WithVerdict, EventFields
<1>3. DOMAIN h = EventFields /\ h = [f \in EventFields |-> h[f]]
    BY <1>1 DEF WithVerdict
<1> HIDE DEF h
<1>4. SoundEvent(h)
    BY <1>2, <1>3 DEF SoundEvent
<1> QED
    BY <1>2, <1>4 DEF h, Keeping, SameRemoval

LEMMA FitsSame ==
    ASSUME NEW e, NEW h, SameRemoval(h, e), NEW b
    PROVE  FitsRemoval(h, b) <=> FitsRemoval(e, b)
<1>1. ContextOf(h, <<>>) = ContextOf(e, <<>>) /\ h.delta = e.delta
    BY DEF SameRemoval, ContextOf
<1> QED
    BY <1>1 DEF FitsRemoval

(* What the first pass leaves of an event.                                   *)
LEMMA ExorcisedIs ==
    ASSUME NEW e, SoundEvent(e), NEW ghosts
    PROVE  /\ Keeping(Exorcised(e, ghosts), e)
           /\ SameClasses(Exorcised(e, ghosts).candidates, e.candidates)
           /\ \A i \in DOMAIN e.candidates : e.candidates[i].cls \notin ghosts =>
                  Exorcised(e, ghosts).candidates[i] = e.candidates[i]
           /\ \/ Exorcised(e, ghosts).verdict = e.verdict
              \/ Improves(Exorcised(e, ghosts).verdict, e)
<1> DEFINE found  == SeenIn(e) \cap ghosts
           halved == Halved(e, found)
           again  == Judge(ContextOf(e, halved))
           less   == WithCandidates(e, halved)
           h      == Exorcised(e, ghosts)
<1>1. h = e \/ h = less \/ (h = WithVerdict(less, again) /\ Decided(again))
    BY DEF Exorcised, Adopted, WithCandidates, WithVerdict
<1>2. /\ halved \in Seq(CandidateType) /\ Distinct(halved)
      /\ SameClasses(halved, e.candidates)
      /\ \A i \in DOMAIN e.candidates :
            e.candidates[i].cls \notin found => halved[i] = e.candidates[i]
    BY HalvedIs
<1>3. found \subseteq ghosts
    OBVIOUS
<1> HIDE DEF found
<1> HIDE DEF halved
<1>4. /\ IsVerdict(again) /\ Shelved(again.bill)
      /\ again.status = "complete" => FitsRemoval(e, again.bill)
    BY <1>2, ReviewJudge
<1>5. Keeping(less, e) /\ less.candidates = halved /\ less.verdict = e.verdict
    BY <1>2, CandidatesChange
<1> HIDE DEF again, less, h
<1>6. /\ Keeping(WithVerdict(less, again), less)
      /\ WithVerdict(less, again).candidates = less.candidates
      /\ WithVerdict(less, again).verdict = again
    BY <1>4, <1>5, VerdictChange DEF Keeping
<1>7. Keeping(e, e) /\ SameClasses(e.candidates, e.candidates)
    BY DEF Keeping, SameRemoval, SameClasses
<1>8. Keeping(h, e) /\ (h.candidates = e.candidates \/ h.candidates = halved)
    BY <1>1, <1>5, <1>6, <1>7 DEF Keeping, SameRemoval
<1>9. h.verdict = e.verdict \/ Improves(h.verdict, e)
    BY <1>1, <1>4, <1>5, <1>6 DEF Decided, Improves
<1> QED
    BY <1>2, <1>3, <1>7, <1>8, <1>9 DEF h

(* What the second pass may do to a verdict.                                 *)
Alters(v, e, log) ==
    \/ v = e.verdict
    \/ Improves(v, e)
    \/ /\ e.verdict.status = "partial"
       /\ \A p \in DOMAIN v.bill : Count(e.verdict.bill, p) = v.bill[p]
       /\ \A p \in DOMAIN e.verdict.bill \ DOMAIN v.bill : ClassOf(p) \in Sources(e, log)

Remaining(e, penalized) ==
    [p \in {q \in DOMAIN e.verdict.bill : ClassOf(q) \notin penalized} |-> e.verdict.bill[p]]

LEMMA PrunedIs ==
    ASSUME NEW e, SoundEvent(e), NEW again, NEW log, NEW penalized \in SUBSET Sources(e, log)
    PROVE  /\ Keeping(Pruned(e, again, penalized), e)
           /\ Pruned(e, again, penalized).candidates = e.candidates
           /\ Alters(Pruned(e, again, penalized).verdict, e, log)
<1> DEFINE left == Remaining(e, penalized)
           b    == e.verdict.bill
           some == [e.verdict EXCEPT !.bill = left]
           none == NoDetection("cross_zone_contaminated_partial_suppressed")
           r    == Pruned(e, again, penalized)
<1>1. \/ r = e
      \/ /\ e.verdict.status = "partial"
         /\ \/ r = WithVerdict(e, some)
            \/ left = Empty /\ r = WithVerdict(e, none)
    BY DEF Pruned, Remaining, WithVerdict
<1>2. /\ e.verdict = Verdict(e.verdict.status, b, e.verdict.conf, e.verdict.reason)
      /\ b \in BillsOf(OnShelf)
    BY DEF SoundEvent, IsVerdict
<1>3. /\ DOMAIN left = {q \in DOMAIN b : ClassOf(q) \notin penalized}
      /\ \A p \in DOMAIN left : left[p] = b[p]
      /\ left = [p \in DOMAIN left |-> left[p]]
    BY DEF Remaining
<1>4. left \in BillsOf(OnShelf)
  <2> HIDE DEF left, b
  <2>1. PICK D \in SUBSET OnShelf : b \in [D -> Nat \ {0}]
      BY <1>2 DEF BillsOf
  <2>2. DOMAIN left \in SUBSET OnShelf /\ left \in [DOMAIN left -> Nat \ {0}]
      BY <1>3, <2>1
  <2> QED
      BY <2>2 DEF BillsOf
<1>5. some = Verdict(e.verdict.status, left, e.verdict.conf, e.verdict.reason)
  <2> HIDE DEF left, b
  <2> QED
      BY <1>2 DEF Verdict
<1>6. some.bill = left /\ IsVerdict(some)
  <2> HIDE DEF left, some
  <2> QED
      BY <1>4, <1>5 DEF Verdict, IsVerdict
<1>7. none.bill = Empty /\ DOMAIN Empty = {} /\ IsVerdict(none)
  <2>1. none = Verdict("no_detection", Empty, 0, "cross_zone_contaminated_partial_suppressed")
      BY DEF NoDetection
  <2>2. DOMAIN Empty = {} /\ Empty \in BillsOf(OnShelf)
      BY EmptyBill DEF Empty
  <2> HIDE DEF none
  <2> QED
      BY <2>1, <2>2 DEF Verdict, IsVerdict
<1>8. \A p \in DOMAIN b \ DOMAIN left : ClassOf(p) \in Sources(e, log)
    BY <1>3
<1> HIDE DEF some, none, left, r
<1>9. CASE r = e
  <2>1. Keeping(e, e) /\ Alters(e.verdict, e, log)
      BY DEF Keeping, SameRemoval, Alters
  <2> QED
      BY <1>9, <2>1 DEF r
<1>10. CASE e.verdict.status = "partial" /\ r = WithVerdict(e, some)
  <2>1. Keeping(r, e) /\ r.candidates = e.candidates /\ r.verdict = some
      BY <1>6, <1>10, VerdictChange
  <2>2. \A p \in DOMAIN left : Count(b, p) = left[p]
      BY <1>3 DEF Count
  <2>3. Alters(some, e, log)
      BY <1>6, <1>8, <1>10, <2>2 DEF Alters
  <2> QED
      BY <2>1, <2>3 DEF r
<1>11. CASE e.verdict.status = "partial" /\ left = Empty /\ r = WithVerdict(e, none)
  <2>1. Keeping(r, e) /\ r.candidates = e.candidates /\ r.verdict = none
      BY <1>7, <1>11, VerdictChange
  <2>2. DOMAIN left = {} /\ DOMAIN none.bill = {}
      BY <1>7, <1>11
  <2>3. Alters(none, e, log)
      BY <1>8, <1>11, <2>2 DEF Alters
  <2> QED
      BY <2>1, <2>3 DEF r
<1> QED
    BY <1>1, <1>9, <1>10, <1>11

(* What the second pass takes from an event.                                 *)
Penalized(e, log) ==
    {c \in SeenIn(e) \cap Sources(e, log) : c > 0 /\ ~Exempt(e.zone, c, log)}

LEMMA ReviewedIs ==
    ASSUME NEW e, SoundEvent(e), NEW log
    PROVE  /\ Keeping(Reviewed(e, log), e) /\ Reviewed(e, log).candidates = e.candidates
           /\ Alters(Reviewed(e, log).verdict, e, log)
<1> DEFINE penalized == Penalized(e, log)
           halved == Halved(e, penalized)
           again  == Judge(ContextOf(e, halved))
           r      == Reviewed(e, log)
<1>1. r = e \/ r = Repassed(e, again, penalized)
    BY DEF Reviewed, Penalized
<1>2. penalized \in SUBSET Sources(e, log)
    BY DEF Penalized
<1>3. halved \in Seq(CandidateType) /\ Distinct(halved)
    BY HalvedIs
<1> HIDE DEF penalized
<1> HIDE DEF halved
<1>4. /\ IsVerdict(again) /\ Shelved(again.bill)
      /\ again.status = "complete" => FitsRemoval(e, again.bill)
    BY <1>3, ReviewJudge
<1> HIDE DEF again, r
<1>5. \/ r = e
      \/ r = Pruned(e, again, penalized)
      \/ r = WithVerdict(e, again) /\ Decided(again)
    BY <1>1 DEF Repassed, WithVerdict
<1>6. CASE r = e
  <2>1. Keeping(e, e) /\ Alters(e.verdict, e, log)
      BY DEF Keeping, SameRemoval, Alters
  <2> QED
      BY <1>6, <2>1 DEF r
<1>7. CASE r = Pruned(e, again, penalized)
  <2>1. /\ Keeping(r, e) /\ r.candidates = e.candidates /\ Alters(r.verdict, e, log)
      BY <1>2, <1>7, PrunedIs
  <2> QED
      BY <2>1 DEF r
<1>8. CASE r = WithVerdict(e, again) /\ Decided(again)
  <2>1. Keeping(r, e) /\ r.candidates = e.candidates /\ r.verdict = again
      BY <1>4, <1>8, VerdictChange
  <2>2. Alters(again, e, log)
      BY <1>4, <1>8 DEF Alters, Improves, Decided
  <2> QED
      BY <2>1, <2>2 DEF r
<1> QED
    BY <1>5, <1>6, <1>7, <1>8
-----------------------------------------------------------------------------
(* How far the two passes have got: each looks only at the log before it.    *)
HauntOf(log, m, k) ==
    IF m = "active" /\ Products # <<>> THEN Exorcised(log[k], Ghosts(log)) ELSE log[k]
ReviewOf(log, k) == IF CrossZone /\ Products # <<>> THEN Reviewed(log[k], log) ELSE log[k]
Haunts(log, m)   == {HauntOf(log, m, k) : k \in DOMAIN log}
Reviews(log)     == {ReviewOf(log, k) : k \in DOMAIN log}

LogShape(log) ==
    /\ Len(log) \in Nat /\ DOMAIN log = 1 .. Len(log) /\ log = [k \in DOMAIN log |-> log[k]]
    /\ \A k \in 1 .. Len(log) : SoundEvent(log[k])

FirstPass(first, log, m) ==
    /\ first \in Seq(Haunts(log, m)) /\ Len(first) <= Len(log)
    /\ \A k \in 1 .. Len(first) : first[k] = HauntOf(log, m, k)

SecondPass(second, log) ==
    /\ second \in Seq(Reviews(log)) /\ Len(second) <= Len(log)
    /\ \A k \in 1 .. Len(second) : second[k] = ReviewOf(log, k)

ReviewInv ==
    /\ mode \in GhostMode
    /\ LogShape(came)
    /\ FirstPass(haunted, came, mode)
    /\ SecondPass(out, haunted)
    /\ out = <<>> \/ Len(haunted) = Len(came)

(* What a trigger leaves.  A merged bill names products of the trigger, but  *)
(* the pieces of several trays add up without regard to the stock.           *)
Charges(v, in) ==
    v = Verdict(v.status, v.bill, v.conf, v.reason) /\ v.bill \in BillsOf(Stocked(in))

LEMMA MergedBill ==
    ASSUME NEW in, Sound(in), NEW n \in Nat, NEW judged, DOMAIN judged = 1 .. n,
           \A k \in 1 .. n : VerdictSound(judged[k], in.products)
    PROVE  Charges(Merged(in, judged), in)
<1> DEFINE V == BillsOf(Stocked(in))
           bills == [k \in DOMAIN judged |->
                       IF k \in Billable(in, judged) THEN judged[k].verdict.bill ELSE Empty]
           m == Merged(in, judged)
           b == Charge(in, judged)
<1>1. Empty \in V
    BY EmptyBill
<1>2. \A k \in 1 .. n : judged[k].verdict.bill \in V
  <2> HIDE DEF V
  <2>1. ASSUME NEW k \in 1 .. n PROVE judged[k].verdict.bill \in V
      BY VerdictBill DEF V
  <2> QED
      BY <2>1
<1>3. DOMAIN bills = 1 .. n /\ \A k \in 1 .. n : bills[k] \in V
  <2> HIDE DEF V
  <2> QED
      BY <1>1, <1>2
<1>4. b = AddAll(bills)
    BY DEF Charge
<1> HIDE DEF bills
<1>5. \A k \in 1 .. n : \A v \in V : Add(v, bills[k]) \in V
    BY <1>3, BillsAdd
<1> HIDE DEF V, b
<1>6. PICK t \in [0 .. n -> V] : Adds(t, n, bills)
    BY <1>1, <1>3, <1>5, AddTrace
<1>7. b \in V
    BY <1>4, <1>6 DEF Adds
<1>8. \E status, conf, why : m = Verdict(status, b, conf, why) \/ m = Verdict(status, Empty, conf, why)
    BY DEF Merged, Complete, Partial, NoDetection, b
<1> HIDE DEF m
<1>9. Charges(m, in)
    BY <1>1, <1>7, <1>8 DEF Charges, Verdict, V
<1> QED
    BY <1>9 DEF m

LEMMA OfTriggerIs ==
    ASSUME NEW in, Sound(in), Recorded(in), NEW list \in Seq(TrayType)
    PROVE  Charges(OfTrigger(in, list), in)
<1> DEFINE n     == Len(list)
           first == Firsts(in, list)
           left  == Without(in.candidates, Consumed(in, first))
           both  == Seconds(in, list, first)
<1>1. n \in Nat /\ \A k \in 1 .. n : list[k] \in TrayType
    OBVIOUS
<1>2. in.candidates \in Seq(CandidateType) /\ Distinct(in.candidates)
    BY DEF Sound
<1>3. \A k \in 1 .. n : first[k] = Judged(Alone(in, list[k], in.candidates))
    BY DEF Firsts
<1>4. DOMAIN both = 1 .. n /\ \A k \in 1 .. n : both[k] = Second(in, list[k], first[k], left)
    BY DEF Seconds
<1> HIDE DEF n, first, both
<1>5. ASSUME NEW k \in 1 .. n PROVE VerdictSound(both[k], in.products)
  <2>1. VerdictSound(first[k], in.products)
      BY <1>1, <1>2, <1>3, TraySound
  <2>2. VerdictSound(Second(in, list[k], first[k], left), in.products)
      BY <1>1, <2>1, SecondSound
  <2> QED
      BY <1>4, <2>2
<1>6. Charges(Merged(in, both), in)
    BY <1>1, <1>4, <1>5, MergedBill
<1>7. Charges(Judged(in).verdict, in)
  <2>1. VerdictSound(Judged(in), in.products)
      BY JudgedSound
  <2>2. Judged(in).verdict.bill \in BillsOf(Stocked(in))
      BY <2>1, VerdictBill
  <2> QED
      BY <2>1, <2>2 DEF VerdictSound, Answers, Charges
<1>8. CASE Many(in, list)
  <2>1. OfTrigger(in, list) = Merged(in, both)
      BY <1>8, ManyIs DEF both, first
  <2> QED
      BY <1>6, <2>1
<1> QED
    BY <1>7, <1>8 DEF OfTrigger

LeavesSound(left, in) ==
    /\ left.delta \in Int /\ left.segments \in Seq(Int)
    /\ left.candidates = <<>> \/ left.candidates = in.candidates
    /\ Charges(left.verdict, in)

LEMMA NothingLeft ==
    ASSUME NEW in, Sound(in), NEW status, NEW conf, NEW why,
           NEW delta \in Int, NEW segments \in Seq(Int)
    PROVE  LeavesSound(Entry(delta, segments, <<>>, Verdict(status, Empty, conf, why)), in)
<1>1. Empty \in BillsOf(Stocked(in))
    BY EmptyBill
<1>2. Charges(Verdict(status, Empty, conf, why), in)
    BY <1>1 DEF Charges, Verdict
<1> QED
    BY <1>2 DEF LeavesSound, Entry

LEMMA OutcomeIs ==
    ASSUME NEW in, Sound(in), Recorded(in), NEW list \in Seq(TrayType)
    PROVE  LeavesSound(Outcome(in, list), in) /\ LeavesSound(Failure, in)
<1>1. in.delta \in Int /\ in.segments \in Seq(Int) /\ 0 \in Int /\ <<>> \in Seq(Int)
    BY DEF Sound
<1>2. LeavesSound(Failure, in)
    BY <1>1, NothingLeft DEF Failure
<1>3. CASE in.products = <<>>
  <2>1. Outcome(in, list) =
            Entry(0, <<>>, <<>>, Verdict("no_detection", Empty, 0, "empty_allowlist_fail_closed"))
      BY <1>3 DEF Outcome, NoDetection
  <2> QED
      BY <1>1, <1>2, <2>1, NothingLeft
<1>4. CASE in.products # <<>> /\ Slight(in)
  <2>1. Outcome(in, list) = Entry(in.delta, in.segments, <<>>,
                                  Verdict("no_detection", Empty, 0, "below_min_weight_change"))
      BY <1>4 DEF Outcome, NoDetection
  <2> QED
      BY <1>1, <1>2, <2>1, NothingLeft
<1>5. CASE in.products # <<>> /\ ~Slight(in)
  <2>1. Outcome(in, list) = Entry(in.delta, in.segments, in.candidates, OfTrigger(in, list))
      BY <1>5 DEF Outcome
  <2>2. Charges(OfTrigger(in, list), in)
      BY OfTriggerIs
  <2>3. LeavesSound(Outcome(in, list), in)
      BY <1>1, <2>1, <2>2 DEF LeavesSound, Entry
  <2> QED
      BY <1>2, <2>3
<1> QED
    BY <1>3, <1>4, <1>5

LEMMA LoggedFields ==
    ASSUME NEW t
    PROVE  Logged(t) = [zone |-> t.zone, at |-> t.at, video |-> t.video, ok |-> t.ok,
                        delta |-> LeftBy(t).delta, segments |-> LeftBy(t).segments,
                        candidates |-> LeftBy(t).candidates, verdict |-> LeftBy(t).verdict]
<1> DEFINE Of(left) == [zone |-> t.zone, at |-> t.at, video |-> t.video, ok |-> t.ok,
                        delta |-> left.delta, segments |-> left.segments,
                        candidates |-> left.candidates, verdict |-> left.verdict]
<1>1. Logged(t) = Value({Of(left) : left \in {LeftBy(t)}})
    BY DEF Logged
<1> HIDE DEF Of
<1>2. {Of(left) : left \in {LeftBy(t)}} = {Of(LeftBy(t))}
    OBVIOUS
<1>3. Logged(t) = Of(LeftBy(t))
    BY <1>1, <1>2, ValueIs
<1> QED
    BY <1>3 DEF Of

LEMMA LoggedIs ==
    ASSUME NEW t \in TriggerType, Distinct(t.candidates)
    PROVE  SoundEvent(Logged(t))
<1> DEFINE in   == Zone(ProfileOf[t.zone], Products, t.candidates, t.trays, t.visionOnly)
           left == LeftBy(t)
           e    == Logged(t)
<1>1. /\ t.zone \in DOMAIN ProfileOf /\ t.visionOnly \in BOOLEAN
      /\ t.trays \in Seq(TrayType) /\ t.candidates \in Seq(CandidateType)
    BY DEF TriggerType
<1>2. ProfileOf[t.zone] \in ProfileType /\ ProfileOf[t.zone].tolerance >= NearestGrams
    BY <1>1, ReviewAssumption DEF ReviewAssumption
<1>3. Products \in Seq(ProductType)
    BY ReviewAssumption DEF ReviewAssumption
<1>4. IsZone(in, ProfileOf[t.zone], Products, t.candidates)
    BY <1>1, <1>2, <1>3, ContextSound
<1>5. left = Outcome(in, t.trays) \/ left = Failure
    BY DEF LeftBy
<1>6. /\ DOMAIN e = EventFields /\ e = [f \in EventFields |-> e[f]]
      /\ e.zone = t.zone /\ e.delta = left.delta /\ e.segments = left.segments
      /\ e.candidates = left.candidates /\ e.verdict = left.verdict
    BY LoggedFields DEF EventFields
<1> HIDE DEF in, left, e
<1>7. /\ Sound(in) /\ Recorded(in) /\ in.products = Products
      /\ in.candidates = t.candidates
    BY <1>4 DEF IsZone
<1>8. LeavesSound(left, in)
    BY <1>1, <1>5, <1>7, OutcomeIs
<1>9. IsVerdict(left.verdict)
  <2>1. Stocked(in) = OnShelf
      BY <1>7 DEF Stocked, OnShelf
  <2> QED
      BY <1>8, <2>1 DEF LeavesSound, Charges, IsVerdict
<1>10. left.candidates \in Seq(CandidateType) /\ Distinct(left.candidates)
  <2>1. <<>> \in Seq(CandidateType) /\ Distinct(<<>>)
      BY DEF Distinct
  <2> QED
      BY <1>1, <1>7, <1>8, <2>1 DEF LeavesSound
<1>11. SoundEvent(e)
    BY <1>1, <1>6, <1>8, <1>9, <1>10 DEF SoundEvent, LeavesSound
<1> QED
    BY <1>11 DEF e

LEMMA ReviewStarts == ReviewInit => ReviewInv
<1> SUFFICES ASSUME ReviewInit PROVE ReviewInv
    OBVIOUS
<1>1. PICK session \in Sessions : came = [k \in DOMAIN session |-> Logged(session[k])]
    BY DEF ReviewInit
<1>2. session \in Seq(TriggerType) /\ \A k \in DOMAIN session : Distinct(session[k].candidates)
    BY ReviewAssumption DEF ReviewAssumption
<1>3. /\ Len(session) \in Nat /\ DOMAIN session = 1 .. Len(session)
      /\ \A k \in DOMAIN session : session[k] \in TriggerType
    BY <1>2
<1>4. Len(came) = Len(session)
  <2> DEFINE S == {Logged(session[k]) : k \in DOMAIN session}
  <2>1. came \in [1 .. Len(session) -> S]
      BY <1>1, <1>3
  <2> HIDE DEF S
  <2> QED
      BY <1>3, <2>1
<1>5. LogShape(came)
    BY <1>1, <1>2, <1>3, <1>4, LoggedIs DEF LogShape
<1>6. mode \in GhostMode /\ haunted = <<>> /\ out = <<>>
    BY DEF ReviewInit
<1>7. FirstPass(haunted, came, mode)
    BY <1>5, <1>6 DEF FirstPass, LogShape
<1>8. SecondPass(out, haunted)
    BY <1>6 DEF SecondPass
<1> QED
    BY <1>5, <1>6, <1>7, <1>8 DEF ReviewInv

(* A list of what F gives grows by what F gives next.                        *)
LEMMA Grown ==
    ASSUME NEW S, NEW s \in Seq(S), NEW x \in S
    PROVE  /\ Append(s, x) \in Seq(S) /\ Len(Append(s, x)) = Len(s) + 1
           /\ Append(s, x)[Len(s) + 1] = x /\ Len(s) \in Nat
           /\ \A k \in 1 .. Len(s) : Append(s, x)[k] = s[k]
OBVIOUS

LEMMA ReviewStep == ReviewInv /\ [ReviewNext]_reviewVars => ReviewInv'
<1> SUFFICES ASSUME ReviewInv, [ReviewNext]_reviewVars PROVE ReviewInv'
    OBVIOUS
<1>1. LogShape(came) /\ FirstPass(haunted, came, mode) /\ SecondPass(out, haunted)
    BY DEF ReviewInv
<1>2. /\ Len(came) \in Nat /\ DOMAIN came = 1 .. Len(came)
      /\ haunted \in Seq(Haunts(came, mode)) /\ Len(haunted) \in Nat
      /\ DOMAIN haunted = 1 .. Len(haunted) /\ out \in Seq(Reviews(haunted)) /\ Len(out) \in Nat
    BY <1>1 DEF LogShape, FirstPass, SecondPass
<1>3. CASE Exorcise
  <2> DEFINE n == Len(haunted) + 1
             x == HauntOf(came, mode, n)
  <2>1. /\ haunted' = Append(haunted, x) /\ Len(haunted) < Len(came)
        /\ came' = came /\ out' = out /\ mode' = mode
      BY <1>3 DEF Exorcise, HauntOf
  <2>2. out = <<>>
    <3>1. Len(haunted) < Len(came) /\ Len(haunted) \in Nat /\ Len(came) \in Nat
        BY <1>2, <2>1
    <3>2. out = <<>> \/ Len(haunted) = Len(came)
        BY DEF ReviewInv
    <3> QED
        BY <3>1, <3>2
  <2>3. n \in DOMAIN came
      BY <1>2, <2>1
  <2>4. x \in Haunts(came, mode)
      BY <2>3 DEF Haunts
  <2>5. /\ haunted' \in Seq(Haunts(came, mode)) /\ Len(haunted') = n /\ haunted'[n] = x
        /\ \A k \in 1 .. Len(haunted) : haunted'[k] = haunted[k]
    <3> HIDE DEF x
    <3> QED
        BY <1>2, <2>1, <2>4, Grown
  <2>6. FirstPass(haunted', came', mode')
    <3>1. \A k \in 1 .. n : k \in 1 .. Len(haunted) \/ k = n
        BY <1>2
    <3>2. \A k \in 1 .. n : haunted'[k] = HauntOf(came, mode, k)
        BY <1>1, <2>5, <3>1 DEF FirstPass
    <3>3. n <= Len(came)
        BY <1>2, <2>1
    <3> QED
        BY <2>1, <2>5, <3>2, <3>3 DEF FirstPass
  <2>7. SecondPass(out', haunted')
    <3>1. Len(<<>>) = 0 /\ 0 <= n /\ 1 .. 0 = {}
        BY <1>2
    <3>2. SecondPass(<<>>, haunted')
      <4> HIDE DEF n
      <4> QED
          BY <2>5, <3>1 DEF SecondPass
    <3> QED
        BY <2>1, <2>2, <3>2
  <2> QED
      BY <1>1, <2>1, <2>2, <2>6, <2>7 DEF ReviewInv
<1>4. CASE Penalize
  <2> DEFINE n == Len(out) + 1
             x == ReviewOf(haunted, n)
  <2>1. /\ out' = Append(out, x) /\ Len(haunted) = Len(came) /\ Len(out) < Len(came)
        /\ came' = came /\ haunted' = haunted /\ mode' = mode
      BY <1>4 DEF Penalize, ReviewOf, Log
  <2>2. n \in DOMAIN haunted
      BY <1>2, <2>1
  <2>3. x \in Reviews(haunted)
      BY <2>2 DEF Reviews
  <2>4. /\ out' \in Seq(Reviews(haunted)) /\ Len(out') = n /\ out'[n] = x
        /\ \A k \in 1 .. Len(out) : out'[k] = out[k]
    <3> HIDE DEF x
    <3> QED
        BY <1>2, <2>1, <2>3, Grown
  <2>5. SecondPass(out', haunted')
    <3>1. \A k \in 1 .. n : k \in 1 .. Len(out) \/ k = n
        BY <1>2
    <3>2. \A k \in 1 .. n : out'[k] = ReviewOf(haunted, k)
        BY <1>1, <2>4, <3>1 DEF SecondPass
    <3>3. n <= Len(haunted)
        BY <1>2, <2>1
    <3> QED
        BY <2>1, <2>4, <3>2, <3>3 DEF SecondPass
  <2> QED
      BY <1>1, <2>1, <2>5 DEF ReviewInv
<1>5. CASE UNCHANGED reviewVars
    BY <1>5 DEF ReviewInv, reviewVars
<1> QED
    BY <1>3, <1>4, <1>5 DEF ReviewNext

LEMMA ReviewAlways == ReviewSpec => []ReviewInv
<1> QED
    BY ReviewStarts, ReviewStep, PTL DEF ReviewSpec

(* What each event is after the passes.                                      *)
LEMMA HauntedIs ==
    ASSUME ReviewInv, NEW k \in DOMAIN haunted
    PROVE  /\ k \in DOMAIN came /\ haunted[k] = HauntOf(came, mode, k)
           /\ SoundEvent(came[k]) /\ Keeping(haunted[k], came[k])
           /\ SameClasses(haunted[k].candidates, came[k].candidates)
           /\ \A i \in DOMAIN came[k].candidates :
                 came[k].candidates[i].cls \notin Ghosts(came) =>
                     haunted[k].candidates[i] = came[k].candidates[i]
           /\ haunted[k].verdict = came[k].verdict \/ Improves(haunted[k].verdict, came[k])
<1> DEFINE e == came[k]
<1>1. k \in 1 .. Len(haunted) /\ k \in 1 .. Len(came)
    BY DEF ReviewInv, LogShape, FirstPass
<1>2. k \in DOMAIN came /\ haunted[k] = HauntOf(came, mode, k) /\ SoundEvent(e)
    BY <1>1 DEF ReviewInv, LogShape, FirstPass
<1> HIDE DEF e
<1>3. haunted[k] = e \/ haunted[k] = Exorcised(e, Ghosts(came))
    BY <1>2 DEF HauntOf, e
<1>4. Keeping(e, e) /\ SameClasses(e.candidates, e.candidates)
    BY <1>2 DEF Keeping, SameRemoval, SameClasses
<1>5. /\ Keeping(haunted[k], e) /\ SameClasses(haunted[k].candidates, e.candidates)
      /\ \A i \in DOMAIN e.candidates : e.candidates[i].cls \notin Ghosts(came) =>
             haunted[k].candidates[i] = e.candidates[i]
      /\ haunted[k].verdict = e.verdict \/ Improves(haunted[k].verdict, e)
    BY <1>2, <1>3, <1>4, ExorcisedIs
<1> QED
    BY <1>2, <1>5 DEF e

LEMMA OutIs ==
    ASSUME ReviewInv, NEW k \in DOMAIN out
    PROVE  /\ k \in DOMAIN haunted /\ out[k] = ReviewOf(haunted, k)
           /\ Len(haunted) = Len(came) /\ DOMAIN haunted = DOMAIN came
           /\ Keeping(out[k], haunted[k]) /\ out[k].candidates = haunted[k].candidates
           /\ Alters(out[k].verdict, haunted[k], haunted)
<1> DEFINE h == haunted[k]
<1>1. k \in 1 .. Len(out) /\ k \in 1 .. Len(haunted) /\ out # <<>>
    BY DEF ReviewInv, FirstPass, SecondPass
<1>2. k \in DOMAIN haunted /\ out[k] = ReviewOf(haunted, k)
    BY <1>1 DEF ReviewInv, SecondPass, FirstPass
<1>3. Len(haunted) = Len(came) /\ DOMAIN haunted = DOMAIN came
    BY <1>1 DEF ReviewInv, FirstPass, LogShape
<1>4. SoundEvent(h)
    BY <1>2, HauntedIs DEF Keeping
<1> HIDE DEF h
<1>5. out[k] = h \/ out[k] = Reviewed(h, haunted)
    BY <1>2 DEF ReviewOf, h
<1>6. Keeping(h, h) /\ Alters(h.verdict, h, haunted)
    BY <1>4 DEF Keeping, SameRemoval, Alters
<1>7. /\ Keeping(out[k], h) /\ out[k].candidates = h.candidates
      /\ Alters(out[k].verdict, h, haunted)
    BY <1>4, <1>5, <1>6, ReviewedIs
<1> QED
    BY <1>2, <1>3, <1>7 DEF h

LEMMA SameSeen ==
    ASSUME NEW e, NEW f, SameClasses(e.candidates, f.candidates)
    PROVE  SeenIn(e) = SeenIn(f)
BY DEF SeenIn, SameClasses

(* Events keep their place, their weight and what could have been seen; of a *)
(* product a review charges what the trigger did, or no more than there are. *)
THEOREM ReviewTyped == ReviewSpec => []ReviewTypeOK
<1>1. ReviewInv => ReviewTypeOK
  <2> SUFFICES ASSUME ReviewInv PROVE ReviewTypeOK
      OBVIOUS
  <2>1. /\ mode \in GhostMode
        /\ Len(out) <= Len(haunted) /\ Len(haunted) <= Len(came)
      BY DEF ReviewInv, FirstPass, SecondPass
  <2>2. ASSUME NEW k \in DOMAIN out
        PROVE  /\ out[k].zone = came[k].zone /\ out[k].delta = came[k].delta
               /\ SeenIn(out[k]) = SeenIn(came[k])
               /\ \A p \in DOMAIN out[k].verdict.bill :
                     \/ out[k].verdict.bill[p] = Count(came[k].verdict.bill, p)
                     \/ out[k].verdict.bill[p] \in 1 .. Products[p].stock
    <3>1. /\ k \in DOMAIN haunted /\ Keeping(out[k], haunted[k])
          /\ out[k].candidates = haunted[k].candidates
          /\ Alters(out[k].verdict, haunted[k], haunted)
        BY OutIs
    <3>2. /\ Keeping(haunted[k], came[k])
          /\ SameClasses(haunted[k].candidates, came[k].candidates)
          /\ haunted[k].verdict = came[k].verdict \/ Improves(haunted[k].verdict, came[k])
        BY <3>1, HauntedIs
    <3>3. SeenIn(out[k]) = SeenIn(came[k])
        BY <3>1, <3>2, SameSeen
    <3>4. ASSUME NEW p \in DOMAIN out[k].verdict.bill
          PROVE  \/ out[k].verdict.bill[p] = Count(came[k].verdict.bill, p)
                 \/ out[k].verdict.bill[p] \in 1 .. Products[p].stock
      <4>1. CASE Shelved(out[k].verdict.bill)
          BY <4>1 DEF Shelved
      <4>2. CASE out[k].verdict = came[k].verdict
          BY <4>2 DEF Count
      <4>3. CASE /\ haunted[k].verdict.status = "partial"
                 /\ Count(haunted[k].verdict.bill, p) = out[k].verdict.bill[p]
        <5>1. haunted[k].verdict = came[k].verdict
            BY <3>2, <4>3 DEF Improves
        <5> QED
            BY <4>3, <5>1
      <4> QED
          BY <3>1, <3>2, <4>1, <4>2, <4>3 DEF Alters, Improves
    <3> QED
        BY <3>1, <3>2, <3>3, <3>4 DEF Keeping, SameRemoval
  <2> QED
      BY <2>1, <2>2 DEF ReviewTypeOK
<1> QED
    BY <1>1, ReviewAlways, PTL

(* R2: a bill changes only to one that explains the whole weight, or, if it  *)
(* did not explain it, by losing products another zone was charged for.      *)
THEOREM ReviewsImprove == ReviewSpec => []ReviewImproves
<1>1. ReviewInv => ReviewImproves
  <2> SUFFICES ASSUME ReviewInv, NEW k \in DOMAIN out
               PROVE  LET before == came[k].verdict
                          after  == out[k].verdict
                      IN  \/ after.bill = before.bill /\ after.status = before.status
                          \/ after.status = "complete" /\ FitsRemoval(came[k], after.bill)
                          \/ /\ before.status = "partial"
                             /\ \A p \in DOMAIN after.bill : Count(before.bill, p) = after.bill[p]
                             /\ \A p \in DOMAIN before.bill \ DOMAIN after.bill :
                                   \E j \in DOMAIN came :
                                      /\ came[j].zone # came[k].zone
                                      /\ ClassOf(p) \in Billed(haunted[j])
      BY DEF ReviewImproves, FitsRemoval
  <2> DEFINE e == came[k]
             h == haunted[k]
             v == out[k].verdict
  <2>1. /\ k \in DOMAIN haunted /\ DOMAIN haunted = DOMAIN came /\ Alters(v, h, haunted)
      BY OutIs
  <2>2. SameRemoval(h, e) /\ (h.verdict = e.verdict \/ Improves(h.verdict, e))
      BY <2>1, HauntedIs DEF Keeping
  <2>3. ASSUME NEW c \in Sources(h, haunted)
        PROVE  \E j \in DOMAIN came : came[j].zone # e.zone /\ c \in Billed(haunted[j])
    <3>1. PICK j \in DOMAIN haunted : haunted[j].zone # h.zone /\ c \in Billed(haunted[j])
        BY DEF Sources
    <3>2. SameRemoval(haunted[j], came[j])
        BY <3>1, HauntedIs DEF Keeping
    <3> QED
        BY <2>1, <2>2, <3>1, <3>2 DEF SameRemoval
  <2> HIDE DEF e, h, v
  <2>4. CASE v = h.verdict
    <3>1. v = e.verdict \/ (v.status = "complete" /\ FitsRemoval(e, v.bill))
        BY <2>2, <2>4 DEF Improves
    <3> QED
        BY <3>1 DEF e, v
  <2>5. CASE Improves(v, h)
    <3>1. v.status = "complete" /\ FitsRemoval(e, v.bill)
        BY <2>2, <2>5, FitsSame DEF Improves
    <3> QED
        BY <3>1 DEF e, v
  <2>6. CASE /\ h.verdict.status = "partial"
             /\ \A p \in DOMAIN v.bill : Count(h.verdict.bill, p) = v.bill[p]
             /\ \A p \in DOMAIN h.verdict.bill \ DOMAIN v.bill : ClassOf(p) \in Sources(h, haunted)
    <3>1. h.verdict = e.verdict
        BY <2>2, <2>6 DEF Improves
    <3>2. /\ e.verdict.status = "partial"
          /\ \A p \in DOMAIN v.bill : Count(e.verdict.bill, p) = v.bill[p]
          /\ \A p \in DOMAIN e.verdict.bill \ DOMAIN v.bill :
                \E j \in DOMAIN came :
                   came[j].zone # e.zone /\ ClassOf(p) \in Billed(haunted[j])
        BY <2>3, <2>6, <3>1
    <3> QED
        BY <3>2 DEF e, v
  <2> QED
      BY <2>1, <2>4, <2>5, <2>6 DEF Alters
<1> QED
    BY <1>1, ReviewAlways, PTL
-----------------------------------------------------------------------------
LEMMA MisfitIs ==
    ASSUME NEW e, SoundEvent(e)
    PROVE  Misfit(e) \in Nat
<1>1. e.delta \in Int
    BY DEF SoundEvent
<1>2. Weight(ContextOf(e, <<>>), e.verdict.bill) \in Int
    BY ReviewBill
<1>3. Size(e.delta) \in Int
    BY <1>1 DEF Size
<1> QED
    BY <1>2, <1>3, DistanceBothWays DEF Misfit

(* Of two rivals one keeps the product, or both.                             *)
LEMMA OneKeeps ==
    ASSUME NEW e, NEW f, SoundEvent(e), SoundEvent(f), NEW c
    PROVE  Keeps(e, f, c) \/ Keeps(f, e, c)
<1>1. Misfit(e) \in Nat /\ Misfit(f) \in Nat
    BY MisfitIs
<1>2. Misfit(e) <= Misfit(f) \/ Misfit(f) <= Misfit(e)
    BY <1>1
<1>3. CASE Unfit(e, c) # Unfit(f, c)
  <2>1. Keeps(e, f, c) = Unfit(f, c) /\ Keeps(f, e, c) = Unfit(e, c)
      BY <1>3 DEF Keeps
  <2>2. Unfit(e, c) \in BOOLEAN /\ Unfit(f, c) \in BOOLEAN
      BY DEF Unfit
  <2> QED
      BY <1>3, <2>1, <2>2
<1>4. CASE Unfit(e, c) = Unfit(f, c)
    BY <1>2, <1>4 DEF Keeps
<1> QED
    BY <1>3, <1>4

LEMMA RivalsBothWays ==
    ASSUME NEW e, NEW f, NEW c, Rivals(e, f, c)
    PROVE  Rivals(f, e, c)
BY DEF Rivals, Overlap

LEMMA ExemptStays ==
    ASSUME NEW e, NEW log, NEW c, Exempt(e.zone, c, log), SeenIn(e) \cap Sources(e, log) = {c}
    PROVE  Reviewed(e, log) = e
<1>1. Penalized(e, log) = {}
    BY DEF Penalized
<1> QED
    BY <1>1 DEF Reviewed, Penalized

(* _mutual_exemptions: what two zones were charged for in one scene is still *)
(* charged in one of them, if nothing else they saw was charged elsewhere.   *)
THEOREM SharedProductSurvives == ReviewSpec => []SharedSurvives
<1>1. ReviewInv => SharedSurvives
  <2> SUFFICES ASSUME ReviewInv, Done, NEW i \in DOMAIN out, NEW j \in DOMAIN out,
                      NEW cls \in Billed(haunted[i]), Rivals(haunted[i], haunted[j], cls),
                      \A k \in {i, j} :
                          SeenIn(haunted[k]) \cap Sources(haunted[k], haunted) = {cls}
               PROVE  cls \in Billed(out[i]) \cup Billed(out[j])
      BY DEF SharedSurvives
  <2>1. i \in DOMAIN haunted /\ j \in DOMAIN haunted
      BY OutIs
  <2>2. SoundEvent(haunted[i]) /\ SoundEvent(haunted[j])
      BY <2>1, HauntedIs DEF Keeping
  <2>3. Rivals(haunted[j], haunted[i], cls)
      BY RivalsBothWays
  <2>4. Keeps(haunted[i], haunted[j], cls) \/ Keeps(haunted[j], haunted[i], cls)
      BY <2>2, OneKeeps
  <2>5. PICK k \in {i, j} : Exempt(haunted[k].zone, cls, haunted)
    <3>1. Keeps(haunted[i], haunted[j], cls) => Exempt(haunted[i].zone, cls, haunted)
        BY <2>1 DEF Exempt
    <3>2. Keeps(haunted[j], haunted[i], cls) => Exempt(haunted[j].zone, cls, haunted)
        BY <2>1, <2>3 DEF Exempt
    <3> QED
        BY <2>4, <3>1, <3>2
  <2>6. out[k] = haunted[k]
    <3>1. SeenIn(haunted[k]) \cap Sources(haunted[k], haunted) = {cls}
        BY <2>5
    <3>2. Reviewed(haunted[k], haunted) = haunted[k]
        BY <2>5, <3>1, ExemptStays
    <3>3. out[k] = ReviewOf(haunted, k)
        BY <2>5, OutIs
    <3> QED
        BY <3>2, <3>3 DEF ReviewOf
  <2>7. cls \in Billed(haunted[i]) /\ cls \in Billed(haunted[j])
      BY DEF Rivals
  <2> QED
      BY <2>5, <2>6, <2>7
<1> QED
    BY <1>1, ReviewAlways, PTL
-----------------------------------------------------------------------------
(* The removals of a log.                                                    *)
Removed(log) == {x \in {log[k] : k \in DOMAIN log} : x.ok /\ x.delta < 0}

LEMMA RemovedAre ==
    ASSUME NEW log, LogShape(log)
    PROVE  /\ Filtered(log, LAMBDA e : e.ok /\ e.delta < 0) = Those(log, Removed(log))
           /\ log \in Seq({log[k] : k \in DOMAIN log})
<1> DEFINE Keep(x) == x.ok /\ x.delta < 0
           A(g) == [u \in SUBSET DOMAIN log |->
                       IF u = {} THEN <<>>
                       ELSE IF Keep(log[Max(u)])
                            THEN Append(g[u \ {Max(u)}], log[Max(u)])
                       ELSE g[u \ {Max(u)}]]
           B(g) == [u \in SUBSET DOMAIN log |->
                       IF u = {} THEN <<>>
                       ELSE IF log[Max(u)] \in Removed(log)
                            THEN Append(g[u \ {Max(u)}], log[Max(u)])
                       ELSE g[u \ {Max(u)}]]
<1>1. \A k \in DOMAIN log : log[k] \in Removed(log) <=> Keep(log[k])
    BY DEF Removed
<1>2. DOMAIN log = 1 .. Len(log) /\ Len(log) \in Nat /\ log = [k \in DOMAIN log |-> log[k]]
    BY DEF LogShape
<1>3. \A u \in SUBSET DOMAIN log : u # {} => Max(u) \in u
    BY <1>2, LastOf
<1>4. \A u \in SUBSET DOMAIN log : u # {} => (log[Max(u)] \in Removed(log) <=> Keep(log[Max(u)]))
    BY <1>1, <1>3
<1>5. ASSUME NEW g PROVE A(g) = B(g)
    BY <1>4
<1>6. Filtered(log, LAMBDA e : e.ok /\ e.delta < 0) = (CHOOSE g : g = A(g))[DOMAIN log]
    BY DEF Filtered, FoldLeft, MapThenFoldSet
<1>7. Those(log, Removed(log)) = (CHOOSE g : g = B(g))[DOMAIN log]
    BY DEF Those, Filtered, FoldLeft, MapThenFoldSet
<1>8. (CHOOSE g : g = A(g)) = (CHOOSE g : g = B(g))
  <2> HIDE DEF A, B
  <2> QED
      BY <1>5
<1>9. log \in Seq({log[k] : k \in DOMAIN log})
  <2> DEFINE E == {log[k] : k \in DOMAIN log}
  <2>1. log \in [1 .. Len(log) -> E]
      BY <1>2
  <2> HIDE DEF E
  <2>2. log \in Seq(E)
      BY <1>2, <2>1
  <2> QED
      BY <2>2 DEF E
<1> HIDE DEF A, B
<1> QED
    BY <1>6, <1>7, <1>8, <1>9

(* Whatever joins two events to a third makes them one episode.              *)
LEMMA ThroughOne ==
    ASSUME NEW taken, NEW h \in DOMAIN taken, NEW i \in DOMAIN taken, NEW j \in DOMAIN taken,
           Overlap(taken[h], taken[i]), Overlap(taken[h], taken[j])
    PROVE  OneEpisode(taken, i, j)
<1>1. SameScene(taken[i], taken[h]) /\ SameScene(taken[h], taken[j])
    BY DEF SameScene, Overlap
<1> QED
    BY <1>1 DEF OneEpisode

LEMMA OneSceneNoGhost ==
    ASSUME NEW log, LogShape(log), NEW h \in DOMAIN log, log[h].ok, log[h].delta < 0, NEW c,
           \A k \in DOMAIN log : c \in SeenIn(log[k]) => Overlap(log[h], log[k])
    PROVE  c \notin Ghosts(log)
<1> DEFINE taken == Those(log, Removed(log))
           E     == {log[k] : k \in DOMAIN log}
<1> SUFFICES ASSUME c \in Ghosts(log) PROVE FALSE
    OBVIOUS
<1>1. Filtered(log, LAMBDA e : e.ok /\ e.delta < 0) = taken /\ log \in Seq(E)
    BY RemovedAre
<1>2. PICK i \in DOMAIN taken, j \in DOMAIN taken :
          c \in SeenIn(taken[i]) /\ c \in SeenIn(taken[j]) /\ ~OneEpisode(taken, i, j)
  <2> DEFINE Sightings == {k \in DOMAIN taken :
                              \E m \in DOMAIN taken[k].candidates :
                                  /\ taken[k].candidates[m].cls = c
                                  /\ taken[k].candidates[m].votes >= VoteFloor}
  <2>1. \E i, j \in Sightings : ~OneEpisode(taken, i, j)
    <3> HIDE DEF taken
    <3> QED
        BY <1>1 DEF Ghosts
  <2>2. \A k \in Sightings : k \in DOMAIN taken /\ c \in SeenIn(taken[k])
      BY DEF SeenIn
  <2> QED
      BY <2>1, <2>2
<1>3. taken \in Seq(E) /\ TakenFrom(taken, Len(log), log, Removed(log))
  <2> HIDE DEF E
  <2> QED
      BY <1>1, FilteredFrom
<1>4. ASSUME NEW k \in DOMAIN taken PROVE \E m \in DOMAIN log : taken[k] = log[m]
  <2>1. taken[k] \in E
    <3> HIDE DEF taken, E
    <3> QED
        BY <1>3
  <2> QED
      BY <2>1
<1>5. log[h] \in Removed(log)
    BY DEF Removed
<1>6. PICK g \in DOMAIN taken : taken[g] = log[h]
  <2> HIDE DEF E
  <2> QED
      BY <1>1, <1>5, FilteredAll
<1> HIDE DEF taken
<1>7. Overlap(taken[g], taken[i]) /\ Overlap(taken[g], taken[j])
    BY <1>2, <1>4, <1>6
<1> QED
    BY <1>2, <1>6, <1>7, ThroughOne

(* A product seen only by zones that recorded one and the same removal keeps *)
(* its votes and its confidence.                                             *)
THEOREM OneSceneSpared == ReviewSpec => []OneSceneIsNoEvidence
<1>1. ReviewInv => OneSceneIsNoEvidence
  <2> SUFFICES ASSUME ReviewInv, NEW c, NEW h \in DOMAIN came, came[h].ok, came[h].delta < 0,
                      \A k \in SightingsOf(c) : Overlap(came[h], came[k]),
                      NEW k \in DOMAIN haunted, NEW i \in DOMAIN came[k].candidates,
                      came[k].candidates[i].cls = c
               PROVE  haunted[k].candidates[i] = came[k].candidates[i]
      BY DEF OneSceneIsNoEvidence
  <2>1. LogShape(came)
      BY DEF ReviewInv
  <2>2. c \notin Ghosts(came)
      BY <2>1, OneSceneNoGhost DEF SightingsOf
  <2> QED
      BY <2>2, HauntedIs
<1> QED
    BY <1>1, ReviewAlways, PTL
-----------------------------------------------------------------------------
(* Two events that differ only in their zone and recording.                  *)
Alike(e, f) ==
    /\ e.at = f.at /\ e.ok = f.ok /\ e.delta = f.delta /\ e.segments = f.segments
    /\ e.candidates = f.candidates /\ e.verdict = f.verdict
    /\ ProfileOf[e.zone] = ProfileOf[f.zone]

LEMMA AlikeContext ==
    ASSUME NEW e, NEW f, Alike(e, f)
    PROVE  /\ \A s : ContextOf(e, s) = ContextOf(f, s)
           /\ \A classes : Halved(e, classes) = Halved(f, classes)
           /\ SeenIn(e) = SeenIn(f) /\ Billed(e) = Billed(f)
           /\ Reviewable(e) = Reviewable(f)
BY DEF Alike, ContextOf, Halved, SeenIn, Billed, Reviewable

LEMMA ExorcisedAlike ==
    ASSUME NEW e, NEW f, SoundEvent(e), SoundEvent(f), Alike(e, f), NEW ghosts
    PROVE  Alike(Exorcised(e, ghosts), Exorcised(f, ghosts))
<1> DEFINE found  == SeenIn(e) \cap ghosts
           halved == Halved(e, found)
           again  == Judge(ContextOf(e, halved))
           spared == ~Reviewable(e) \/ found = {}
           adopt  == Billed(e) \cap found # {} /\ Decided(again) /\ ~SameBill(again, e.verdict)
           E      == WithCandidates(e, halved)
           F      == WithCandidates(f, halved)
<1>1. /\ SeenIn(f) = SeenIn(e) /\ Halved(f, found) = halved /\ Billed(f) = Billed(e)
      /\ ContextOf(f, halved) = ContextOf(e, halved)
      /\ Reviewable(f) = Reviewable(e) /\ f.verdict = e.verdict
    BY AlikeContext DEF Alike
<1>2. Exorcised(e, ghosts) = IF spared THEN e ELSE IF adopt THEN WithVerdict(E, again) ELSE E
    BY DEF Exorcised, Adopted, WithCandidates, WithVerdict
<1>3. Exorcised(f, ghosts) = IF spared THEN f ELSE IF adopt THEN WithVerdict(F, again) ELSE F
  <2>1. Exorcised(f, ghosts) =
            IF ~Reviewable(f) \/ SeenIn(f) \cap ghosts = {} THEN f
            ELSE Adopted(f, WithCandidates(f, Halved(f, SeenIn(f) \cap ghosts)),
                         SeenIn(f) \cap ghosts,
                         Judge(ContextOf(f, Halved(f, SeenIn(f) \cap ghosts))))
      BY DEF Exorcised, WithCandidates
  <2>2. SeenIn(f) \cap ghosts = found
      BY <1>1
  <2> HIDE DEF found
  <2>3. Exorcised(f, ghosts) =
            IF ~Reviewable(f) \/ found = {} THEN f
            ELSE Adopted(f, WithCandidates(f, Halved(f, found)), found,
                         Judge(ContextOf(f, Halved(f, found))))
      BY <2>1, <2>2
  <2>4. Exorcised(f, ghosts) =
            IF spared THEN f ELSE Adopted(f, F, found, again)
      BY <1>1, <2>3
  <2>5. Adopted(f, F, found, again) = IF adopt THEN WithVerdict(F, again) ELSE F
      BY <1>1 DEF Adopted, WithVerdict
  <2> QED
      BY <2>4, <2>5
<1>4. halved \in Seq(CandidateType) /\ Distinct(halved)
    BY HalvedIs
<1>5. IsVerdict(again)
  <2> HIDE DEF found
  <2> HIDE DEF halved
  <2> QED
      BY <1>4, ReviewJudge
<1> HIDE DEF found
<1> HIDE DEF halved
<1> HIDE DEF again, spared, adopt
<1>6. /\ Keeping(E, e) /\ E.candidates = halved /\ E.verdict = e.verdict
      /\ Keeping(F, f) /\ F.candidates = halved /\ F.verdict = f.verdict
    BY <1>4, CandidatesChange
<1> HIDE DEF E, F
<1>7. /\ Keeping(WithVerdict(E, again), E) /\ WithVerdict(E, again).candidates = halved
      /\ WithVerdict(E, again).verdict = again
      /\ Keeping(WithVerdict(F, again), F) /\ WithVerdict(F, again).candidates = halved
      /\ WithVerdict(F, again).verdict = again
    BY <1>5, <1>6, VerdictChange DEF Keeping
<1>8. Alike(E, F)
    BY <1>6 DEF Alike, Keeping, SameRemoval
<1>9. Alike(WithVerdict(E, again), WithVerdict(F, again))
    BY <1>7, <1>8 DEF Alike, Keeping, SameRemoval
<1> QED
    BY <1>2, <1>3, <1>8, <1>9

LEMMA FitAlike ==
    ASSUME NEW e, NEW f, Alike(e, f)
    PROVE  /\ Comparable(e) = Comparable(f) /\ Misfit(e) = Misfit(f)
           /\ \A c : Unfit(e, c) = Unfit(f, c)
           /\ Ambiguous(e) = Ambiguous(f)
<1>1. ContextOf(e, <<>>) = ContextOf(f, <<>>) /\ SeenIn(e) = SeenIn(f)
    BY AlikeContext
<1>2. e.delta = f.delta /\ e.verdict = f.verdict /\ ProfileOf[e.zone] = ProfileOf[f.zone]
    BY DEF Alike
<1>3. Comparable(e) = Comparable(f)
    BY <1>2 DEF Comparable
<1>4. Misfit(e) = Misfit(f)
    BY <1>1, <1>2 DEF Misfit
<1>5. ASSUME NEW c PROVE Alternatives(e, c) = Alternatives(f, c)
    BY <1>1 DEF Alternatives
<1>6. ASSUME NEW w PROVE FitOf(e, w) = FitOf(f, w)
    BY <1>2 DEF FitOf
<1>7. ASSUME NEW c PROVE Unfit(e, c) = Unfit(f, c)
    BY <1>2, <1>3, <1>4, <1>5, <1>6 DEF Unfit
<1>8. Ambiguous(e) = Ambiguous(f)
  <2> DEFINE gate == IF ProfileOf[e.zone].discriminative THEN ProfileOf[e.zone].tolerance
                     ELSE ProfileOf[e.zone].gate
             A == {w[1] : w \in {v \in Alternatives(e, 0) : FitOf(e, v) <= gate}}
             B == {w[1] : w \in {v \in Alternatives(f, 0) : FitOf(f, v) <= gate}}
  <2>1. A = B
      BY <1>5, <1>6
  <2>2. Ambiguous(e) = (Cardinality(A) >= 2)
      BY DEF Ambiguous
  <2>3. Ambiguous(f) = (Cardinality(B) >= 2)
      BY <1>2 DEF Ambiguous
  <2> HIDE DEF A, B
  <2> QED
      BY <2>1, <2>2, <2>3
<1> QED
    BY <1>3, <1>4, <1>7, <1>8

(* Two events of a log that are alike, the others in other zones.            *)
TwinsIn(log, i, j) ==
    /\ Alike(log[i], log[j])
    /\ \A k \in DOMAIN log \ {i, j} : log[k].zone \notin {log[i].zone, log[j].zone}

LEMMA TwinsBothWays ==
    ASSUME NEW log, NEW i, NEW j, TwinsIn(log, i, j)
    PROVE  TwinsIn(log, j, i)
BY DEF TwinsIn, Alike

LEMMA SourcesAlike ==
    ASSUME NEW log, NEW i \in DOMAIN log, NEW j \in DOMAIN log, TwinsIn(log, i, j)
    PROVE  Sources(log[i], log) \subseteq Sources(log[j], log)
<1> SUFFICES ASSUME NEW c \in Sources(log[i], log) PROVE c \in Sources(log[j], log)
    OBVIOUS
<1>1. Alike(log[i], log[j]) /\ Billed(log[i]) = Billed(log[j])
    BY AlikeContext DEF TwinsIn
<1>2. PICK k \in DOMAIN log : /\ c \in Billed(log[k])
                             /\ log[k].zone # log[i].zone /\ log[k].ok
                             /\ InWindow(log[i], log[k]) # {}
                             /\ log[k].verdict.conf >= SureEnough
    BY DEF Sources
<1>3. \A m : InWindow(log[j], log[m]) = InWindow(log[i], log[m])
    BY <1>1 DEF Alike, InWindow
<1>4. CASE log[i].zone = log[j].zone
    BY <1>2, <1>3, <1>4 DEF Sources
<1>5. CASE log[i].zone # log[j].zone /\ k = j
  <2>1. InWindow(log[j], log[i]) = InWindow(log[i], log[j])
      BY <1>1 DEF Alike, InWindow
  <2>2. log[i].ok /\ log[i].verdict.conf >= SureEnough /\ c \in Billed(log[i])
      BY <1>1, <1>2, <1>5 DEF Alike
  <2> QED
      BY <1>2, <1>5, <2>1, <2>2 DEF Sources
<1>6. CASE k # j
  <2>1. k \in DOMAIN log \ {i, j}
      BY <1>2, <1>6
  <2>2. log[k].zone # log[j].zone
      BY <2>1 DEF TwinsIn
  <2> QED
      BY <1>2, <1>3, <2>2 DEF Sources
<1> QED
    BY <1>4, <1>5, <1>6

LEMMA ExemptAlike ==
    ASSUME NEW log, NEW i \in DOMAIN log, NEW j \in DOMAIN log, TwinsIn(log, i, j), NEW c,
           SoundEvent(log[i]), SoundEvent(log[j]), Exempt(log[i].zone, c, log)
    PROVE  Exempt(log[j].zone, c, log)
<1>1. PICK a \in DOMAIN log, b \in DOMAIN log :
          /\ log[a].zone = log[i].zone
          /\ Rivals(log[a], log[b], c) /\ Keeps(log[a], log[b], c)
    BY DEF Exempt
<1>2. /\ Alike(log[i], log[j]) /\ Billed(log[i]) = Billed(log[j])
      /\ \A x : Unfit(log[i], x) = Unfit(log[j], x)
      /\ Comparable(log[i]) = Comparable(log[j]) /\ Misfit(log[i]) = Misfit(log[j])
    BY AlikeContext, FitAlike DEF TwinsIn
<1>3. CASE log[i].zone = log[j].zone
    BY <1>1, <1>3 DEF Exempt
<1>4. CASE log[i].zone # log[j].zone
  <2>1. a = i
    <3>1. a \notin DOMAIN log \ {i, j} /\ a # j
        BY <1>1, <1>4 DEF TwinsIn
    <3> QED
        BY <3>1
  <2>2. b # i /\ log[b].zone # log[i].zone
      BY <1>1, <2>1 DEF Rivals
  <2>3. CASE b = j
    <3>1. Rivals(log[j], log[i], c)
        BY <1>1, <2>1, <2>3, RivalsBothWays
    <3>2. Misfit(log[j]) <= Misfit(log[i])
      <4>1. Misfit(log[i]) \in Nat /\ Misfit(log[j]) = Misfit(log[i])
          BY <1>2, MisfitIs
      <4> QED
          BY <4>1
    <3>3. Keeps(log[j], log[i], c)
        BY <1>2, <3>2 DEF Keeps
    <3> QED
        BY <3>1, <3>3 DEF Exempt
  <2>4. CASE b # j
    <3>1. log[b].zone # log[j].zone
        BY <2>2, <2>4 DEF TwinsIn
    <3>2. Overlap(log[j], log[b])
      <4>1. /\ InWindow(log[j], log[b]) = InWindow(log[i], log[b])
            /\ InWindow(log[b], log[j]) = InWindow(log[b], log[i])
          BY <1>2 DEF Alike, InWindow
      <4> QED
          BY <1>1, <2>1, <4>1 DEF Rivals, Overlap
    <3>3. Rivals(log[j], log[b], c)
        BY <1>1, <1>2, <2>1, <3>1, <3>2 DEF Rivals, Alike
    <3>4. Keeps(log[j], log[b], c)
        BY <1>1, <1>2, <2>1 DEF Keeps
    <3> QED
        BY <3>3, <3>4 DEF Exempt
  <2> QED
      BY <2>3, <2>4
<1> QED
    BY <1>3, <1>4

(* The verdict an event gets depends on nothing else of it.                  *)
LEMMA RepassedAlike ==
    ASSUME NEW e, NEW f, SoundEvent(e), SoundEvent(f), Alike(e, f),
           NEW again, IsVerdict(again), NEW penalized
    PROVE  Repassed(e, again, penalized).verdict = Repassed(f, again, penalized).verdict
<1> DEFINE left == Remaining(e, penalized)
           some == [e.verdict EXCEPT !.bill = left]
           none == NoDetection("cross_zone_contaminated_partial_suppressed")
           stay == \/ e.verdict.status # "partial" \/ left = e.verdict.bill
                   \/ again.bill # Empty /\ SameBill(again, e.verdict)
           v    == IF stay THEN e.verdict ELSE IF left # Empty THEN some ELSE none
           w    == IF SameBill(again, e.verdict) THEN e.verdict ELSE again
<1>1. e.verdict = f.verdict /\ Remaining(f, penalized) = left
    BY DEF Alike, Remaining
<1>2. ASSUME NEW x \in {e, f}, NEW u PROVE WithVerdict(x, u).verdict = u
  <2>1. DOMAIN x = EventFields
      BY DEF SoundEvent
  <2> QED
      BY <2>1 DEF WithVerdict, EventFields
<1>3. Pruned(e, again, penalized) =
          IF stay THEN e ELSE IF left # Empty THEN WithVerdict(e, some) ELSE WithVerdict(e, none)
    BY DEF Pruned, Remaining, WithVerdict
<1>4. Pruned(f, again, penalized) =
          IF stay THEN f ELSE IF left # Empty THEN WithVerdict(f, some) ELSE WithVerdict(f, none)
  <2>1. Pruned(f, again, penalized) =
            IF \/ f.verdict.status # "partial" \/ Remaining(f, penalized) = f.verdict.bill
               \/ again.bill # Empty /\ SameBill(again, f.verdict)
            THEN f
            ELSE IF Remaining(f, penalized) # Empty
                 THEN WithVerdict(f, [f.verdict EXCEPT !.bill = Remaining(f, penalized)])
                 ELSE WithVerdict(f, none)
      BY DEF Pruned, Remaining, WithVerdict
  <2> HIDE DEF left
  <2> QED
      BY <1>1, <2>1
<1> HIDE DEF left, some, none, stay
<1>5. Pruned(e, again, penalized).verdict = v /\ Pruned(f, again, penalized).verdict = v
    BY <1>1, <1>2, <1>3, <1>4
<1>6. /\ Repassed(e, again, penalized) =
             IF ~Decided(again) THEN Pruned(e, again, penalized)
             ELSE IF SameBill(again, e.verdict) THEN e ELSE WithVerdict(e, again)
      /\ Repassed(f, again, penalized) =
             IF ~Decided(again) THEN Pruned(f, again, penalized)
             ELSE IF SameBill(again, e.verdict) THEN f ELSE WithVerdict(f, again)
    BY <1>1 DEF Repassed, WithVerdict
<1> HIDE DEF v
<1> QED
    BY <1>1, <1>2, <1>5, <1>6

LEMMA ReviewedAlike ==
    ASSUME NEW log, NEW i \in DOMAIN log, NEW j \in DOMAIN log, TwinsIn(log, i, j),
           SoundEvent(log[i]), SoundEvent(log[j])
    PROVE  Reviewed(log[i], log).verdict = Reviewed(log[j], log).verdict
<1> DEFINE e == log[i]
           f == log[j]
           P == Penalized(e, log)
           again == Judge(ContextOf(e, Halved(e, P)))
           spared == \/ ~Reviewable(e) \/ P = {}
                     \/ e.verdict.status = "complete" /\ ~Ambiguous(e)
<1>1. Alike(e, f) /\ TwinsIn(log, j, i)
    BY TwinsBothWays DEF TwinsIn
<1>2. Sources(e, log) = Sources(f, log)
    BY <1>1, SourcesAlike
<1>3. ASSUME NEW c PROVE Exempt(e.zone, c, log) <=> Exempt(f.zone, c, log)
    BY <1>1, ExemptAlike
<1>4. /\ SeenIn(e) = SeenIn(f) /\ Reviewable(e) = Reviewable(f) /\ e.verdict = f.verdict
      /\ Ambiguous(e) = Ambiguous(f) /\ Halved(e, P) = Halved(f, P)
      /\ ContextOf(e, Halved(e, P)) = ContextOf(f, Halved(e, P))
    BY <1>1, AlikeContext, FitAlike DEF Alike
<1>5. Penalized(f, log) = P
    BY <1>2, <1>3, <1>4 DEF Penalized
<1>6. Reviewed(e, log) = IF spared THEN e ELSE Repassed(e, again, P)
    BY DEF Reviewed, Penalized
<1>7. Reviewed(f, log) = IF spared THEN f ELSE Repassed(f, again, P)
  <2>1. Reviewed(f, log) =
            IF \/ ~Reviewable(f) \/ Penalized(f, log) = {}
               \/ f.verdict.status = "complete" /\ ~Ambiguous(f)
            THEN f
            ELSE Repassed(f, Judge(ContextOf(f, Halved(f, Penalized(f, log)))),
                          Penalized(f, log))
      BY DEF Reviewed, Penalized
  <2> HIDE DEF e, f, P
  <2> QED
      BY <1>4, <1>5, <2>1
<1>8. IsVerdict(again)
  <2> HIDE DEF P
  <2> QED
      BY HalvedIs, ReviewJudge
<1> HIDE DEF again, P, spared
<1>9. Repassed(e, again, P).verdict = Repassed(f, again, P).verdict
    BY <1>1, <1>8, RepassedAlike
<1> QED
    BY <1>4, <1>6, <1>7, <1>9

(* The events of a session have no order.                                    *)
THEOREM OrderIsIrrelevant == ReviewSpec => []EventsHaveNoOrder
<1>1. ReviewInv => EventsHaveNoOrder
  <2> SUFFICES ASSUME ReviewInv, Done, NEW i \in DOMAIN out, NEW j \in DOMAIN out, Mirror(i, j)
               PROVE  out[i].verdict = out[j].verdict
      BY DEF EventsHaveNoOrder
  <2>1. i \in DOMAIN haunted /\ j \in DOMAIN haunted /\ DOMAIN haunted = DOMAIN came
      BY OutIs
  <2>2. /\ SoundEvent(came[i]) /\ SoundEvent(came[j])
        /\ Keeping(haunted[i], came[i]) /\ Keeping(haunted[j], came[j])
        /\ haunted[i] = HauntOf(came, mode, i) /\ haunted[j] = HauntOf(came, mode, j)
        /\ \A k \in DOMAIN haunted : Keeping(haunted[k], came[k])
      BY <2>1, HauntedIs
  <2>3. Alike(came[i], came[j])
    <3> DEFINE e == came[i]
               f == came[j]
               z == came[i].zone
               v == came[i].video
    <3>1. e = [f EXCEPT !.zone = z, !.video = v] /\ ProfileOf[e.zone] = ProfileOf[f.zone]
        BY DEF Mirror
    <3>2. DOMAIN f = EventFields
        BY <2>2 DEF SoundEvent
    <3> HIDE DEF f, z, v, e
    <3>3. /\ e.at = f.at /\ e.ok = f.ok /\ e.delta = f.delta /\ e.segments = f.segments
          /\ e.candidates = f.candidates /\ e.verdict = f.verdict
        BY <3>1, <3>2 DEF EventFields
    <3>4. Alike(e, f)
        BY <3>1, <3>3 DEF Alike
    <3> QED
        BY <3>4 DEF e, f
  <2>4. Alike(haunted[i], haunted[j])
      BY <2>2, <2>3, ExorcisedAlike DEF HauntOf
  <2>5. TwinsIn(haunted, i, j)
    <3>1. \A k \in DOMAIN came \ {i, j} : came[k].zone \notin {came[i].zone, came[j].zone}
        BY DEF Mirror
    <3>2. \A k \in DOMAIN haunted : haunted[k].zone = came[k].zone
        BY <2>2 DEF Keeping, SameRemoval
    <3> QED
        BY <2>1, <2>4, <3>1, <3>2 DEF TwinsIn
  <2>6. Reviewed(haunted[i], haunted).verdict = Reviewed(haunted[j], haunted).verdict
      BY <2>1, <2>2, <2>5, ReviewedAlike DEF Keeping
  <2>7. haunted[i].verdict = haunted[j].verdict
      BY <2>4 DEF Alike
  <2>8. out[i] = ReviewOf(haunted, i) /\ out[j] = ReviewOf(haunted, j)
      BY OutIs
  <2> QED
      BY <2>6, <2>7, <2>8 DEF ReviewOf
<1> QED
    BY <1>1, ReviewAlways, PTL
===============================================================================
