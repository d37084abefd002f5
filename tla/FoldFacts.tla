------------------------------ MODULE FoldFacts ------------------------------
(***************************************************************************)
(* What the folds of the community modules compute, for the proofs about   *)
(* the models that use them.                                               *)
(*                                                                         *)
(* A fold is defined by a recursive function over the subsets of a finite  *)
(* set S, that is by the choice of a function which satisfies an equation: *)
(* nothing is known of it until such a function is shown to exist.  The    *)
(* lemmas here show it, for any way to choose the next element (c), any    *)
(* base and any step (h); a fold of a model is an instance with its own c  *)
(* and h.  Induction is by a smallest counterexample among the subsets     *)
(* (WFMin of WellFoundedInduction).                                        *)
(***************************************************************************)
EXTENDS Integers, Sequences, FiniteSets, Lists, FiniteSetTheorems, SequenceTheorems, TLAPS

(* c names an element of each nonempty subset of S.                        *)
Picks(c, S) == \A s \in SUBSET S : s # {} => c[s] \in s

(* g is the fold over the subsets of S: the base for the empty set, else   *)
(* the step of the element picked, applied to the fold of the others.      *)
Folds(g, S, base, c, h) ==
    g = [s \in SUBSET S |-> IF s = {} THEN base ELSE h[s][g[s \ {c[s]}]]]

(* Induction over the subsets of a finite set: if something fails for a    *)
(* subset, then for one whose proper subsets are all free of it.           *)
LEMMA SmallestSubset ==
    ASSUME NEW S, IsFiniteSet(S), NEW bad \in SUBSET (SUBSET S), bad # {}
    PROVE  \E t \in bad : \A u \in bad : u \subseteq t => u = t
<1>1. IsWellFoundedOn(StrictSubsetOrdering(S), SUBSET S)
    BY FS_StrictSubsetOrderingWellFounded, FS_FiniteSubsetsOfFinite
<1>2. bad \subseteq SUBSET S
    OBVIOUS
<1>3. PICK t \in bad : \A u \in bad : ~ (<<u, t>> \in StrictSubsetOrdering(S))
    BY <1>1, <1>2, WFMin
<1>4. ASSUME NEW u \in bad, u \subseteq t, u # t PROVE FALSE
    BY <1>2, <1>3, <1>4 DEF StrictSubsetOrdering
<1> QED
    BY <1>4

(* A fold over a set and one over another agree on the subsets of both.    *)
LEMMA FoldsAgree ==
    ASSUME NEW t, NEW u, NEW base, NEW c, NEW h, IsFiniteSet(t), Picks(c, t),
           NEW f, NEW g, Folds(f, t, base, c, h), Folds(g, u, base, c, h)
    PROVE  \A s \in SUBSET (t \cap u) : f[s] = g[s]
<1> DEFINE bad == {s \in SUBSET (t \cap u) : f[s] # g[s]}
<1> SUFFICES ASSUME bad # {} PROVE FALSE
    OBVIOUS
<1>1. bad \in SUBSET (SUBSET t)
    OBVIOUS
<1> HIDE DEF bad
<1>2. PICK s \in bad : \A r \in bad : r \subseteq s => r = s
    BY <1>1, SmallestSubset
<1>3. s \in SUBSET t /\ s \in SUBSET u /\ f[s] # g[s]
    BY <1>2 DEF bad
<1>4. /\ f[s] = IF s = {} THEN base ELSE h[s][f[s \ {c[s]}]]
      /\ g[s] = IF s = {} THEN base ELSE h[s][g[s \ {c[s]}]]
    BY <1>3 DEF Folds
<1>5. s # {} /\ c[s] \in s
    BY <1>3, <1>4 DEF Picks
<1>6. s \ {c[s]} \notin bad
    BY <1>2, <1>5
<1>7. f[s \ {c[s]}] = g[s \ {c[s]}]
    BY <1>3, <1>6 DEF bad
<1> QED
    BY <1>3, <1>4, <1>5, <1>7

(* There is a fold, and its values are those the step may take.            *)
LEMMA FoldExists ==
    ASSUME NEW S, IsFiniteSet(S), NEW V, NEW base \in V, NEW c, Picks(c, S),
           NEW h \in [SUBSET S -> [V -> V]]
    PROVE  \E g \in [SUBSET S -> V] : Folds(g, S, base, c, h)
<1> DEFINE Has(t) == \E g \in [SUBSET t -> V] : Folds(g, t, base, c, h)
           bad    == {t \in SUBSET S : ~Has(t)}
<1> SUFFICES ASSUME bad # {} PROVE FALSE
    OBVIOUS
<1>1. bad \in SUBSET (SUBSET S)
    OBVIOUS
<1> HIDE DEF bad
<1>2. PICK t \in bad : \A u \in bad : u \subseteq t => u = t
    BY <1>1, SmallestSubset
<1>3. t \in SUBSET S /\ ~Has(t)
    BY <1>2 DEF bad
<1>4. ASSUME NEW u \in SUBSET t, u # t PROVE Has(u)
    BY <1>2, <1>3, <1>4 DEF bad
<1> DEFINE Of(u)  == CHOOSE g \in [SUBSET u -> V] : Folds(g, u, base, c, h)
           Rest(s) == s \ {c[s]}
           g == [s \in SUBSET t |-> IF s = {} THEN base ELSE h[s][Of(Rest(s))[Rest(s)]]]
<1>5. ASSUME NEW u \in SUBSET t, u # t
      PROVE  Of(u) \in [SUBSET u -> V] /\ Folds(Of(u), u, base, c, h)
    BY <1>4, <1>5
<1> HIDE DEF Has, Of
<1>6. ASSUME NEW s \in SUBSET t, s # {}
      PROVE  c[s] \in s /\ Rest(s) \in SUBSET t /\ Rest(s) # t
    BY <1>3, <1>6 DEF Picks
<1>7. g \in [SUBSET t -> V]
  <2>1. ASSUME NEW s \in SUBSET t, s # {} PROVE h[s][Of(Rest(s))[Rest(s)]] \in V
    <3>1. Of(Rest(s)) \in [SUBSET Rest(s) -> V]
        BY <1>5, <1>6, <2>1
    <3>2. Of(Rest(s))[Rest(s)] \in V
        BY <3>1
    <3>3. h[s] \in [V -> V]
        BY <1>3
    <3> QED
        BY <3>2, <3>3
  <2> QED
      BY <2>1
<1>8. ASSUME NEW s \in SUBSET t, s # {}
      PROVE  g[Rest(s)] = Of(Rest(s))[Rest(s)]
  <2> DEFINE r == Rest(s)
  <2>1. r \in SUBSET t /\ r # t
      BY <1>6, <1>8
  <2>2. Folds(Of(r), r, base, c, h)
      BY <1>5, <2>1
  <2>3. Of(r)[r] = IF r = {} THEN base ELSE h[r][Of(r)[Rest(r)]]
      BY <2>2 DEF Folds
  <2>4. ASSUME r # {} PROVE Of(r)[Rest(r)] = Of(Rest(r))[Rest(r)]
    <3>1. Rest(r) \in SUBSET t /\ Rest(r) # t /\ Rest(r) \subseteq r
        BY <1>6, <2>1, <2>4
    <3>2. Folds(Of(Rest(r)), Rest(r), base, c, h)
        BY <1>5, <3>1
    <3>3. IsFiniteSet(r) /\ Picks(c, r)
      <4>1. r \in SUBSET S
          BY <1>3, <2>1
      <4> QED
          BY <4>1, FS_Subset DEF Picks
    <3> HIDE DEF r, Rest, g
    <3>4. \A q \in SUBSET (r \cap Rest(r)) : Of(r)[q] = Of(Rest(r))[q]
        BY <2>2, <3>2, <3>3, FoldsAgree
    <3> QED
        BY <3>1, <3>4
  <2>5. g[r] = IF r = {} THEN base ELSE h[r][Of(Rest(r))[Rest(r)]]
      BY <2>1
  <2> QED
      BY <2>3, <2>4, <2>5
<1>9. Folds(g, t, base, c, h)
  <2>1. ASSUME NEW s \in SUBSET t
        PROVE  g[s] = IF s = {} THEN base ELSE h[s][g[Rest(s)]]
      BY <1>8, <2>1
  <2> QED
      BY <2>1 DEF Folds
<1> QED
    BY <1>3, <1>7, <1>9 DEF Has
-----------------------------------------------------------------------------
(* Sums (FiniteSetsExt.MapThenSumSet) are folds of addition: g[s] is the   *)
(* sum of w over s, for every s within S.                                  *)
Pick(s) == CHOOSE x \in s : TRUE

SumsUp(g, S, w) ==
    \A s \in SUBSET S : g[s] = IF s = {} THEN 0 ELSE w[Pick(s)] + g[s \ {Pick(s)}]

IsSum(g, S, w) == g \in [SUBSET S -> Int] /\ SumsUp(g, S, w)

LEMMA SumExists ==
    ASSUME NEW S, IsFiniteSet(S), NEW w \in [S -> Int]
    PROVE  \E g : IsSum(g, S, w)
<1> DEFINE c == [s \in SUBSET S |-> Pick(s)]
           h == [s \in SUBSET S |-> [v \in Int |-> IF s = {} THEN v ELSE w[c[s]] + v]]
<1>1. ASSUME NEW s \in SUBSET S, s # {} PROVE c[s] \in s
    BY <1>1 DEF Pick
<1>2. Picks(c, S)
    BY <1>1 DEF Picks
<1>3. ASSUME NEW s \in SUBSET S, NEW v \in Int
      PROVE  (IF s = {} THEN v ELSE w[c[s]] + v) \in Int
  <2>1. CASE s # {}
    <3>1. c[s] \in S
        BY <1>1, <2>1
    <3> HIDE DEF c
    <3> QED
        BY <2>1, <3>1
  <2> QED
      BY <2>1
<1>4. h \in [SUBSET S -> [Int -> Int]]
  <2> HIDE DEF c
  <2> QED
      BY <1>3
<1>5. PICK g \in [SUBSET S -> Int] : Folds(g, S, 0, c, h)
  <2> HIDE DEF c, h
  <2>1. 0 \in Int
      OBVIOUS
  <2> QED
      BY <1>2, <1>4, <2>1, FoldExists
<1>6. ASSUME NEW s \in SUBSET S
      PROVE  g[s] = IF s = {} THEN 0 ELSE w[Pick(s)] + g[s \ {Pick(s)}]
  <2>1. g[s] = IF s = {} THEN 0 ELSE h[s][g[s \ {c[s]}]]
    <3> HIDE DEF c, h
    <3> QED
        BY <1>5 DEF Folds
  <2>2. CASE s # {}
    <3>1. s \ {c[s]} \in SUBSET S /\ c[s] = Pick(s)
        OBVIOUS
    <3>2. g[s \ {c[s]}] \in Int
        BY <3>1
    <3>3. h[s][g[s \ {c[s]}]] = w[c[s]] + g[s \ {c[s]}]
      <4> HIDE DEF c
      <4> QED
          BY <2>2, <3>2
    <3> HIDE DEF c, h
    <3> QED
        BY <2>1, <2>2, <3>1, <3>3
  <2> QED
      BY <2>1, <2>2
<1> QED
    BY <1>5, <1>6 DEF IsSum, SumsUp

(* The order of addition does not matter.                                  *)
LEMMA SumAt ==
    ASSUME NEW S, IsFiniteSet(S), NEW w \in [S -> Int], NEW g, IsSum(g, S, w)
    PROVE  \A s \in SUBSET S : \A x \in s : g[s] = w[x] + g[s \ {x}]
<1> DEFINE bad == {s \in SUBSET S : \E x \in s : g[s] # w[x] + g[s \ {x}]}
<1> SUFFICES ASSUME bad # {} PROVE FALSE
    OBVIOUS
<1>1. bad \in SUBSET (SUBSET S)
    OBVIOUS
<1> HIDE DEF bad
<1>2. PICK s \in bad : \A u \in bad : u \subseteq s => u = s
    BY <1>1, SmallestSubset
<1>3. s \in SUBSET S /\ \E x \in s : g[s] # w[x] + g[s \ {x}]
    BY <1>2 DEF bad
<1>4. PICK x \in s : g[s] # w[x] + g[s \ {x}]
    BY <1>3
<1> DEFINE y == Pick(s)
<1>5. y \in s
    BY <1>3 DEF Pick
<1>6. g[s] = w[y] + g[s \ {y}]
    BY <1>3, <1>5 DEF IsSum, SumsUp
<1> HIDE DEF y
<1>7. x # y
    BY <1>4, <1>6
<1>8. /\ s \ {y} \in SUBSET S /\ s \ {x} \in SUBSET S /\ (s \ {x}) \ {y} \in SUBSET S
      /\ (s \ {y}) \ {x} = (s \ {x}) \ {y}
      /\ x \in s \ {y} /\ y \in s \ {x}
    BY <1>3, <1>5, <1>7
<1>9. s \ {y} \notin bad /\ s \ {x} \notin bad
    BY <1>2, <1>5
<1>10. g[s \ {y}] = w[x] + g[(s \ {y}) \ {x}]
    BY <1>8, <1>9 DEF bad
<1>11. g[s \ {x}] = w[y] + g[(s \ {x}) \ {y}]
    BY <1>8, <1>9 DEF bad
<1>12. w[x] \in Int /\ w[y] \in Int /\ g[(s \ {x}) \ {y}] \in Int
    BY <1>3, <1>5, <1>8 DEF IsSum, SumsUp
<1>13. g[s] = w[y] + (w[x] + g[(s \ {x}) \ {y}])
    BY <1>6, <1>8, <1>10
<1>14. g[s] # w[x] + (w[y] + g[(s \ {x}) \ {y}])
    BY <1>4, <1>11
<1> QED
    BY <1>12, <1>13, <1>14

(* Addition, term by term.                                                 *)
LEMMA SumPlus ==
    ASSUME NEW S, IsFiniteSet(S),
           NEW w \in [S -> Int], NEW v \in [S -> Int], NEW u \in [S -> Int],
           NEW g, NEW f, NEW e, IsSum(g, S, w), IsSum(f, S, v), IsSum(e, S, u),
           \A x \in S : w[x] = v[x] + u[x]
    PROVE  \A s \in SUBSET S : g[s] = f[s] + e[s]
<1> DEFINE bad == {s \in SUBSET S : g[s] # f[s] + e[s]}
<1> SUFFICES ASSUME bad # {} PROVE FALSE
    OBVIOUS
<1>1. bad \in SUBSET (SUBSET S)
    OBVIOUS
<1> HIDE DEF bad
<1>2. PICK s \in bad : \A r \in bad : r \subseteq s => r = s
    BY <1>1, SmallestSubset
<1>3. s \in SUBSET S /\ g[s] # f[s] + e[s]
    BY <1>2 DEF bad
<1>4. CASE s = {}
  <2>1. g[s] = 0 /\ f[s] = 0 /\ e[s] = 0
      BY <1>3, <1>4 DEF IsSum, SumsUp
  <2> QED
      BY <1>3, <2>1
<1>5. CASE s # {}
  <2> DEFINE x == Pick(s)
  <2>1. x \in s
      BY <1>5 DEF Pick
  <2>2. /\ g[s] = w[x] + g[s \ {x}] /\ f[s] = v[x] + f[s \ {x}]
        /\ e[s] = u[x] + e[s \ {x}]
      BY <1>3, <1>5 DEF IsSum, SumsUp
  <2> HIDE DEF x
  <2>3. s \ {x} \in SUBSET S /\ s \ {x} \notin bad
      BY <1>2, <1>3, <2>1
  <2>4. g[s \ {x}] = f[s \ {x}] + e[s \ {x}]
      BY <2>3 DEF bad
  <2>5. /\ f[s \ {x}] \in Int /\ e[s \ {x}] \in Int
        /\ v[x] \in Int /\ u[x] \in Int /\ w[x] = v[x] + u[x]
      BY <1>3, <2>1, <2>3 DEF IsSum, SumsUp
  <2> QED
      BY <1>3, <2>2, <2>4, <2>5
<1> QED
    BY <1>4, <1>5

(* The equation has no other solution.                                     *)
LEMMA SumUnique ==
    ASSUME NEW S, IsFiniteSet(S), NEW w, NEW g, NEW f, IsSum(g, S, w), SumsUp(f, S, w)
    PROVE  f[S] = g[S]
<1> DEFINE bad == {s \in SUBSET S : f[s] # g[s]}
<1> SUFFICES ASSUME bad # {} PROVE FALSE
    OBVIOUS
<1>1. bad \in SUBSET (SUBSET S)
    OBVIOUS
<1> HIDE DEF bad
<1>2. PICK s \in bad : \A r \in bad : r \subseteq s => r = s
    BY <1>1, SmallestSubset
<1>3. s \in SUBSET S /\ f[s] # g[s]
    BY <1>2 DEF bad
<1>4. /\ f[s] = IF s = {} THEN 0 ELSE w[Pick(s)] + f[s \ {Pick(s)}]
      /\ g[s] = IF s = {} THEN 0 ELSE w[Pick(s)] + g[s \ {Pick(s)}]
    BY <1>3 DEF IsSum, SumsUp
<1>5. s # {}
    BY <1>3, <1>4
<1>6. Pick(s) \in s
    BY <1>5 DEF Pick
<1>7. s \ {Pick(s)} \notin bad /\ s \ {Pick(s)} \in SUBSET S
    BY <1>2, <1>3, <1>6
<1>8. f[s \ {Pick(s)}] = g[s \ {Pick(s)}]
    BY <1>7 DEF bad
<1> QED
    BY <1>3, <1>4, <1>5, <1>8

(* The sum of w over S, as the community modules compute it.               *)
Total(w, S) == MapThenSumSet(LAMBDA x : w[x], S)

LEMMA TotalIs ==
    ASSUME NEW S, IsFiniteSet(S), NEW w \in [S -> Int]
    PROVE  \E g : IsSum(g, S, w) /\ Total(w, S) = g[S]
<1> DEFINE Def(g) == g = [s \in SUBSET S |->
               IF s = {} THEN 0
               ELSE w[CHOOSE x \in s : TRUE] + g[s \ {CHOOSE x \in s : TRUE}]]
           f == CHOOSE g : Def(g)
<1>1. Total(w, S) = f[S]
    BY DEF Total, MapThenSumSet, MapThenFoldSet
<1>2. PICK g : IsSum(g, S, w)
    BY SumExists
<1>3. Def(g)
    BY <1>2 DEF IsSum, SumsUp, Pick
<1>4. Def(f)
  <2> HIDE DEF Def
  <2> QED
      BY <1>3
<1> HIDE DEF f
<1>5. SumsUp(f, S, w)
    BY <1>4 DEF Pick, SumsUp
<1>6. f[S] = g[S]
    BY <1>2, <1>5, SumUnique
<1> QED
    BY <1>1, <1>2, <1>6

LEMMA SumNat ==
    ASSUME NEW S, IsFiniteSet(S), NEW w \in [S -> Nat], NEW g, IsSum(g, S, w)
    PROVE  \A s \in SUBSET S : g[s] \in Nat
<1> DEFINE bad == {s \in SUBSET S : g[s] \notin Nat}
<1> SUFFICES ASSUME bad # {} PROVE FALSE
    OBVIOUS
<1>1. bad \in SUBSET (SUBSET S)
    OBVIOUS
<1> HIDE DEF bad
<1>2. PICK s \in bad : \A r \in bad : r \subseteq s => r = s
    BY <1>1, SmallestSubset
<1>3. s \in SUBSET S /\ g[s] \notin Nat
    BY <1>2 DEF bad
<1>4. g[s] = IF s = {} THEN 0 ELSE w[Pick(s)] + g[s \ {Pick(s)}]
    BY <1>3 DEF IsSum, SumsUp
<1>5. s # {}
    BY <1>3, <1>4
<1>6. Pick(s) \in s
    BY <1>5 DEF Pick
<1>7. s \ {Pick(s)} \notin bad /\ s \ {Pick(s)} \in SUBSET S
    BY <1>2, <1>3, <1>6
<1>8. g[s \ {Pick(s)}] \in Nat /\ w[Pick(s)] \in Nat
    BY <1>3, <1>6, <1>7 DEF bad
<1> QED
    BY <1>3, <1>4, <1>5, <1>8

LEMMA SumZero ==
    ASSUME NEW S, IsFiniteSet(S), NEW w, NEW g, IsSum(g, S, w),
           NEW t \in SUBSET S, \A x \in t : w[x] = 0
    PROVE  g[t] = 0
<1> DEFINE bad == {s \in SUBSET t : g[s] # 0}
<1> SUFFICES ASSUME bad # {} PROVE FALSE
    OBVIOUS
<1>1. bad \in SUBSET (SUBSET S)
    OBVIOUS
<1> HIDE DEF bad
<1>2. PICK s \in bad : \A r \in bad : r \subseteq s => r = s
    BY <1>1, SmallestSubset
<1>3. s \in SUBSET t /\ g[s] # 0
    BY <1>2 DEF bad
<1>4. g[s] = IF s = {} THEN 0 ELSE w[Pick(s)] + g[s \ {Pick(s)}]
    BY <1>3 DEF IsSum, SumsUp
<1>5. s # {}
    BY <1>3, <1>4
<1>6. Pick(s) \in s
    BY <1>5 DEF Pick
<1>7. s \ {Pick(s)} \notin bad /\ s \ {Pick(s)} \in SUBSET t
    BY <1>2, <1>3, <1>6
<1>8. g[s \ {Pick(s)}] = 0 /\ w[Pick(s)] = 0
    BY <1>3, <1>6, <1>7 DEF bad
<1> QED
    BY <1>3, <1>4, <1>5, <1>8

(* A sum of natural numbers is one, and no term exceeds it.                *)
LEMMA TotalNat ==
    ASSUME NEW S, IsFiniteSet(S), NEW w \in [S -> Nat]
    PROVE  Total(w, S) \in Nat /\ \A x \in S : w[x] <= Total(w, S)
<1>1. w \in [S -> Int]
    OBVIOUS
<1>2. PICK g : IsSum(g, S, w) /\ Total(w, S) = g[S]
    BY <1>1, TotalIs
<1>3. \A s \in SUBSET S : g[s] \in Nat
    BY <1>2, SumNat
<1>4. ASSUME NEW x \in S PROVE w[x] <= g[S]
  <2>1. g[S] = w[x] + g[S \ {x}]
      BY <1>1, <1>2, SumAt
  <2>2. g[S \ {x}] \in Nat
      BY <1>3
  <2> QED
      BY <2>1, <2>2
<1> QED
    BY <1>2, <1>3, <1>4

LEMMA TotalPlus ==
    ASSUME NEW S, IsFiniteSet(S),
           NEW w \in [S -> Int], NEW v \in [S -> Int], NEW u \in [S -> Int],
           \A x \in S : w[x] = v[x] + u[x]
    PROVE  Total(w, S) = Total(v, S) + Total(u, S)
<1>1. PICK g : IsSum(g, S, w) /\ Total(w, S) = g[S]
    BY TotalIs
<1>2. PICK f : IsSum(f, S, v) /\ Total(v, S) = f[S]
    BY TotalIs
<1>3. PICK e : IsSum(e, S, u) /\ Total(u, S) = e[S]
    BY TotalIs
<1>4. \A s \in SUBSET S : g[s] = f[s] + e[s]
    BY <1>1, <1>2, <1>3, SumPlus
<1> QED
    BY <1>1, <1>2, <1>3, <1>4

(* A sum over more, where the rest adds nothing.                           *)
LEMMA TotalWider ==
    ASSUME NEW T, IsFiniteSet(T), NEW S \in SUBSET T, NEW w \in [T -> Int],
           NEW v \in [S -> Int], \A x \in S : v[x] = w[x], \A x \in T \ S : w[x] = 0
    PROVE  Total(w, T) = Total(v, S)
<1>0. IsFiniteSet(S)
    BY FS_Subset
<1>1. PICK g : IsSum(g, T, w) /\ Total(w, T) = g[T]
    BY TotalIs
<1>2. PICK f : IsSum(f, S, v) /\ Total(v, S) = f[S]
    BY <1>0, TotalIs
<1>3. SumsUp(g, S, v)
  <2>1. ASSUME NEW s \in SUBSET S
        PROVE  g[s] = IF s = {} THEN 0 ELSE v[Pick(s)] + g[s \ {Pick(s)}]
    <3>1. g[s] = IF s = {} THEN 0 ELSE w[Pick(s)] + g[s \ {Pick(s)}]
        BY <1>1 DEF IsSum, SumsUp
    <3>2. s # {} => Pick(s) \in s
        BY DEF Pick
    <3>3. s # {} => v[Pick(s)] = w[Pick(s)]
        BY <3>2
    <3> QED
        BY <3>1, <3>3
  <2> QED
      BY <2>1 DEF SumsUp
<1>4. g[S] = f[S]
    BY <1>0, <1>2, <1>3, SumUnique
<1> DEFINE bad == {u \in SUBSET T : S \subseteq u /\ g[u] # g[S]}
<1>5. bad = {}
  <2> SUFFICES ASSUME bad # {} PROVE FALSE
      OBVIOUS
  <2>1. bad \in SUBSET (SUBSET T)
      OBVIOUS
  <2> HIDE DEF bad
  <2>2. PICK s \in bad : \A r \in bad : r \subseteq s => r = s
      BY <2>1, SmallestSubset
  <2>3. s \in SUBSET T /\ S \subseteq s /\ g[s] # g[S]
      BY <2>2 DEF bad
  <2>4. PICK x \in s : x \notin S
      BY <2>3
  <2>5. w[x] = 0
      BY <2>3, <2>4
  <2>9. g[s] = w[x] + g[s \ {x}]
      BY <1>1, <2>3, SumAt
  <2>6. s \ {x} \in SUBSET T /\ S \subseteq s \ {x} /\ s \ {x} \notin bad
      BY <2>2, <2>3, <2>4
  <2>7. g[s \ {x}] = g[S]
      BY <2>6 DEF bad
  <2>8. g[S] \in Int
      BY <1>1 DEF IsSum
  <2> QED
      BY <2>3, <2>5, <2>7, <2>8, <2>9
<1>6. g[T] = g[S]
    BY <1>5
<1> QED
    BY <1>1, <1>2, <1>4, <1>6

(* A sum with one term besides zeros, and one with none.                   *)
LEMMA TotalOne ==
    ASSUME NEW S, IsFiniteSet(S), NEW w \in [S -> Int], NEW x \in S,
           \A y \in S \ {x} : w[y] = 0
    PROVE  Total(w, S) = w[x]
<1>1. PICK g : IsSum(g, S, w) /\ Total(w, S) = g[S]
    BY TotalIs
<1>2. g[S] = w[x] + g[S \ {x}]
    BY <1>1, SumAt
<1>3. S \ {x} \in SUBSET S
    OBVIOUS
<1>4. g[S \ {x}] = 0
    BY <1>1, <1>3, SumZero
<1> QED
    BY <1>1, <1>2, <1>4

LEMMA TotalNone ==
    ASSUME NEW S, IsFiniteSet(S), NEW w \in [S -> Int], \A y \in S : w[y] = 0
    PROVE  Total(w, S) = 0
<1>1. PICK g : IsSum(g, S, w) /\ Total(w, S) = g[S]
    BY TotalIs
<1>2. g[S] = 0
    BY <1>1, SumZero
<1> QED
    BY <1>1, <1>2
-----------------------------------------------------------------------------
(* A set of natural numbers has a least element, which Min chooses; Max    *)
(* of two numbers is one of them.                                          *)
LEMMA MinIs ==
    ASSUME NEW S \in SUBSET Nat, S # {}
    PROVE  Min(S) \in S /\ \A n \in S : Min(S) <= n
<1>1. IsWellFoundedOn(OpToRel(<, Nat), Nat)
    BY NatLessThanWellFounded
<1>2. PICK m \in S : \A n \in S : ~ (<<n, m>> \in OpToRel(<, Nat))
    BY <1>1, WFMin
<1>3. ASSUME NEW n \in S PROVE m <= n
  <2>1. ~ (n < m)
      BY <1>2 DEF OpToRel
  <2> QED
      BY <2>1
<1> QED
    BY <1>3 DEF Min

LEMMA MaxOfTwo ==
    ASSUME NEW a \in Int, NEW b \in Int
    PROVE  Max({a, b}) = IF a < b THEN b ELSE a
<1> DEFINE m == IF a < b THEN b ELSE a
<1>1. m \in {a, b} /\ \A n \in {a, b} : n <= m
    OBVIOUS
<1>2. \A x \in {a, b} : (\A n \in {a, b} : n <= x) => x = m
    OBVIOUS
<1> QED
    BY <1>1, <1>2 DEF Max

-----------------------------------------------------------------------------
(* R puts any two elements of S one way or the other, without circles.     *)
Orders(R, S) ==
    /\ \A x, y \in S : x # y => <<x, y>> \in R \/ <<y, x>> \in R
    /\ \A x, y, z \in S : <<x, y>> \in R /\ <<y, z>> \in R /\ x # z => <<x, z>> \in R

(* Of a finite set in order one element comes first.                       *)
LEMMA FirstExists ==
    ASSUME NEW S, IsFiniteSet(S), S # {}, NEW R, Orders(R, S)
    PROVE  \E x \in S : \A y \in S \ {x} : <<x, y>> \in R
<1> DEFINE Leads(x, s) == \A y \in s \ {x} : <<x, y>> \in R
           bad == {s \in SUBSET S : s # {} /\ ~ \E x \in s : Leads(x, s)}
<1> SUFFICES ASSUME bad # {} PROVE FALSE
    OBVIOUS
<1>1. bad \in SUBSET (SUBSET S)
    OBVIOUS
<1> HIDE DEF bad
<1>2. PICK s \in bad : \A u \in bad : u \subseteq s => u = s
    BY <1>1, SmallestSubset
<1>3. s \in SUBSET S /\ s # {} /\ \A x \in s : ~ Leads(x, s)
    BY <1>2 DEF bad
<1>4. PICK x \in s : TRUE
    BY <1>3
<1>5. s \ {x} \in SUBSET S /\ s \ {x} \notin bad /\ s \ {x} # {}
    BY <1>2, <1>3, <1>4
<1>6. PICK y \in s \ {x} : Leads(y, s \ {x})
    BY <1>5 DEF bad
<1>7. x \in S /\ y \in S /\ x # y
    BY <1>3, <1>4, <1>6
<1>8. CASE <<y, x>> \in R
  <2>1. Leads(y, s)
      BY <1>6, <1>8
  <2> QED
      BY <1>3, <1>6, <2>1
<1>9. CASE <<x, y>> \in R
  <2>1. ASSUME NEW z \in s \ {x} PROVE <<x, z>> \in R
    <3>1. z = y \/ <<y, z>> \in R
        BY <1>6
    <3>2. z \in S /\ x # z
        BY <1>3
    <3> QED
        BY <1>7, <1>9, <3>1, <3>2 DEF Orders
  <2> QED
      BY <1>3, <2>1
<1> QED
    BY <1>7, <1>8, <1>9 DEF Orders

LEMMA MaxIs ==
    ASSUME NEW S \in SUBSET Int, IsFiniteSet(S), S # {}
    PROVE  Max(S) \in S /\ \A n \in S : n <= Max(S)
<1> DEFINE R == {q \in S \X S : q[1] >= q[2]}
<1>1. Orders(R, S)
    BY DEF Orders
<1> HIDE DEF R
<1>2. PICK m \in S : \A n \in S \ {m} : <<m, n>> \in R
    BY <1>1, FirstExists
<1>3. ASSUME NEW n \in S PROVE m >= n
  <2>1. m = n \/ <<m, n>> \in R
      BY <1>2
  <2>2. <<m, n>> \in R => m >= n
      BY DEF R
  <2> QED
      BY <2>1, <2>2
<1> QED
    BY <1>3 DEF Max

(* A fold over a list takes the last element off, time and again.          *)
LEMMA LastOf ==
    ASSUME NEW n \in Nat
    PROVE  /\ \A s \in SUBSET (1 .. n) : s # {} => Max(s) \in s
           /\ \A k \in 1 .. n : Max(1 .. k) = k /\ (1 .. k) \ {Max(1 .. k)} = 1 .. k - 1
<1>1. ASSUME NEW s \in SUBSET (1 .. n), s # {} PROVE Max(s) \in s /\ \A k \in s : k <= Max(s)
  <2>1. IsFiniteSet(1 .. n)
      BY FS_Interval
  <2>2. IsFiniteSet(s)
      BY <2>1, FS_Subset
  <2>3. s \in SUBSET Int
      OBVIOUS
  <2> QED
      BY <1>1, <2>2, <2>3, MaxIs
<1>2. ASSUME NEW k \in 1 .. n PROVE Max(1 .. k) = k
  <2>1. 1 .. k \in SUBSET (1 .. n) /\ k \in 1 .. k
      OBVIOUS
  <2> QED
      BY <1>1, <2>1
<1>3. ASSUME NEW k \in 1 .. n PROVE (1 .. k) \ {k} = 1 .. k - 1
    OBVIOUS
<1> QED
    BY <1>1, <1>2, <1>3

(* g is a fold over the positions of a list of length n, for values in V.  *)
ListFolds(g, n, V, base, h) ==
    /\ g[{}] = base
    /\ \A s \in SUBSET (1 .. n) :
          s # {} /\ g[s \ {Max(s)}] \in V => g[s] = h[Max(s)][g[s \ {Max(s)}]]

LEMMA ListFoldExists ==
    ASSUME NEW n \in Nat, NEW V, NEW base \in V, NEW h \in [1 .. n -> [V -> V]]
    PROVE  \E g \in [SUBSET (1 .. n) -> V] : ListFolds(g, n, V, base, h)
<1> DEFINE S == 1 .. n
           c == [s \in SUBSET S |-> Max(s)]
           e == [s \in SUBSET S |-> IF s = {} THEN [v \in V |-> v] ELSE h[Max(s)]]
<1>1. IsFiniteSet(S)
    BY FS_Interval
<1>2. \A s \in SUBSET S : s # {} => Max(s) \in s
    BY LastOf
<1>3. Picks(c, S)
    BY <1>2 DEF Picks
<1>4. e \in [SUBSET S -> [V -> V]]
    BY <1>2
<1>5. \A s \in SUBSET S : c[s] = Max(s) /\ (s # {} => e[s] = h[Max(s)])
    OBVIOUS
<1> HIDE DEF c, e, S
<1>6. PICK g \in [SUBSET S -> V] : Folds(g, S, base, c, e)
    BY <1>1, <1>3, <1>4, FoldExists
<1>7. \A s \in SUBSET S : g[s] = IF s = {} THEN base ELSE h[Max(s)][g[s \ {Max(s)}]]
    BY <1>5, <1>6 DEF Folds
<1>8. ListFolds(g, n, V, base, h)
    BY <1>7 DEF ListFolds, S
<1> QED
    BY <1>6, <1>8 DEF S

(* Induction up to n.                                                      *)
LEMMA Upward ==
    ASSUME NEW n \in Nat, NEW good, 0 \in good, \A k \in 1 .. n : k - 1 \in good => k \in good
    PROVE  \A k \in 0 .. n : k \in good
<1> DEFINE bad == {k \in 0 .. n : k \notin good}
<1> SUFFICES ASSUME bad # {} PROVE FALSE
    OBVIOUS
<1>1. bad \in SUBSET Nat
    OBVIOUS
<1> HIDE DEF bad
<1> DEFINE k == Min(bad)
<1>2. k \in bad /\ \A m \in bad : k <= m
    BY <1>1, MinIs
<1> HIDE DEF k
<1>3. k \in 0 .. n /\ k \notin good
    BY <1>2 DEF bad
<1>4. k \in 1 .. n /\ k - 1 \in 0 .. n /\ k - 1 \notin bad
    BY <1>2, <1>3
<1> QED
    BY <1>3, <1>4 DEF bad

(* What a fold f over a list comes to, as a sequence of intermediate       *)
(* results.                                                                *)
Traces(t, n, base, h) == t[0] = base /\ \A k \in 1 .. n : t[k] = h[k][t[k - 1]]

LEMMA ListFoldTrace ==
    ASSUME NEW n \in Nat, NEW V, NEW base \in V, NEW h \in [1 .. n -> [V -> V]], NEW f,
           ListFolds(f, n, V, base, h)
    PROVE  \E t \in [0 .. n -> V] : Traces(t, n, base, h) /\ f[1 .. n] = t[n]
<1> DEFINE good == {k \in 0 .. n : f[1 .. k] \in V}
<1>1. f[1 .. 0] = base
  <2>1. 1 .. 0 = {}
      OBVIOUS
  <2> QED
      BY <2>1 DEF ListFolds
<1>2. ASSUME NEW k \in 1 .. n, f[1 .. k - 1] \in V
      PROVE  f[1 .. k] = h[k][f[1 .. k - 1]] /\ f[1 .. k] \in V
  <2>1. Max(1 .. k) = k /\ (1 .. k) \ {Max(1 .. k)} = 1 .. k - 1
      BY LastOf
  <2>2. 1 .. k \in SUBSET (1 .. n) /\ k \in 1 .. k
      OBVIOUS
  <2>3. f[1 .. k] = h[k][f[1 .. k - 1]]
      BY <1>2, <2>1, <2>2 DEF ListFolds
  <2> QED
      BY <1>2, <2>3
<1>3. \A k \in 0 .. n : f[1 .. k] \in V
  <2>1. 0 \in good
      BY <1>1
  <2>2. ASSUME NEW k \in 1 .. n, k - 1 \in good PROVE k \in good
      BY <1>2, <2>2
  <2>3. \A k \in 0 .. n : k \in good
    <3> HIDE DEF good
    <3> QED
        BY <2>1, <2>2, Upward
  <2> QED
      BY <2>3
<1> DEFINE g == [k \in 0 .. n |-> f[1 .. k]]
<1>4. g \in [0 .. n -> V]
    BY <1>3
<1>5. g[0] = base /\ f[1 .. n] = g[n]
    BY <1>1
<1>6. ASSUME NEW k \in 1 .. n PROVE g[k] = h[k][g[k - 1]]
  <2>1. k - 1 \in 0 .. n /\ k \in 0 .. n
      OBVIOUS
  <2>2. f[1 .. k - 1] \in V
      BY <1>3, <2>1
  <2>3. f[1 .. k] = h[k][f[1 .. k - 1]]
      BY <1>2, <2>2
  <2> QED
      BY <2>1, <2>3
<1> QED
    BY <1>4, <1>5, <1>6 DEF Traces

(* What filtering a list comes to: a shorter list of elements that pass,   *)
(* from increasing positions.                                              *)
Those(seq, T)    == Filtered(seq, LAMBDA x : x \in T)
Step(T, kept, x) == IF x \in T THEN Append(kept, x) ELSE kept

Filters(g, seq, T) ==
    /\ g[0] = <<>> /\ Those(seq, T) = g[Len(seq)]
    /\ \A k \in 1 .. Len(seq) : g[k] = Step(T, g[k - 1], seq[k])

LEMMA FilteredTrace ==
    ASSUME NEW E, NEW seq \in Seq(E), NEW T
    PROVE  \E g \in [0 .. Len(seq) -> Seq(E)] : Filters(g, seq, T)
<1> DEFINE n == Len(seq)
           V == Seq(E)
           h == [k \in 1 .. n |-> [v \in V |-> Step(T, v, seq[k])]]
           Def(g) == g = [s \in SUBSET (1 .. n) |->
                             IF s = {} THEN <<>> ELSE Step(T, g[s \ {Max(s)}], seq[Max(s)])]
           f == CHOOSE g : Def(g)
<1>1. n \in Nat /\ DOMAIN seq = 1 .. n /\ \A k \in 1 .. n : seq[k] \in E
    OBVIOUS
<1>2. Those(seq, T) = f[1 .. n]
    BY <1>1 DEF Those, Filtered, FoldLeft, MapThenFoldSet, Step
<1>3. ASSUME NEW k \in 1 .. n, NEW v \in V PROVE Step(T, v, seq[k]) \in V
    BY <1>1 DEF Step
<1> HIDE DEF n, V
<1>4. h \in [1 .. n -> [V -> V]]
    BY <1>3
<1>5. <<>> \in V
    BY DEF V
<1>6. \A s \in SUBSET (1 .. n) : s # {} => Max(s) \in s
    BY <1>1, LastOf
<1>7. \A k \in 1 .. n, v \in V : h[k][v] = Step(T, v, seq[k])
    OBVIOUS
<1> HIDE DEF h
<1>8. PICK g \in [SUBSET (1 .. n) -> V] : ListFolds(g, n, V, <<>>, h)
    BY <1>1, <1>4, <1>5, ListFoldExists
<1>9. ASSUME NEW s \in SUBSET (1 .. n)
      PROVE  g[s] = IF s = {} THEN <<>> ELSE Step(T, g[s \ {Max(s)}], seq[Max(s)])
  <2>1. CASE s = {}
      BY <1>8, <2>1 DEF ListFolds
  <2>2. CASE s # {}
    <3>1. Max(s) \in 1 .. n /\ g[s \ {Max(s)}] \in V
        BY <1>6, <2>2
    <3>2. g[s] = h[Max(s)][g[s \ {Max(s)}]]
        BY <1>8, <2>2, <3>1 DEF ListFolds
    <3> QED
        BY <1>7, <2>2, <3>1, <3>2
  <2> QED
      BY <2>1, <2>2
<1>10. Def(g)
    BY <1>9
<1>11. Def(f)
  <2> HIDE DEF Def
  <2> QED
      BY <1>10
<1> HIDE DEF f
<1>12. \A s \in SUBSET (1 .. n) :
          f[s] = IF s = {} THEN <<>> ELSE Step(T, f[s \ {Max(s)}], seq[Max(s)])
    BY <1>11
<1> HIDE DEF Def
<1>13. ListFolds(f, n, V, <<>>, h)
  <2>1. ASSUME NEW s \in SUBSET (1 .. n), s # {}, f[s \ {Max(s)}] \in V
        PROVE  f[s] = h[Max(s)][f[s \ {Max(s)}]]
    <3>1. Max(s) \in 1 .. n
        BY <1>6, <2>1
    <3>2. h[Max(s)][f[s \ {Max(s)}]] = Step(T, f[s \ {Max(s)}], seq[Max(s)])
        BY <1>7, <2>1, <3>1
    <3> QED
        BY <1>12, <2>1, <3>2
  <2>2. f[{}] = <<>>
      BY <1>12
  <2> QED
      BY <2>1, <2>2 DEF ListFolds
<1>14. PICK t \in [0 .. n -> V] : Traces(t, n, <<>>, h) /\ f[1 .. n] = t[n]
    BY <1>1, <1>4, <1>5, <1>13, ListFoldTrace
<1>15. t[0] = <<>>
    BY <1>14 DEF Traces
<1>16. ASSUME NEW k \in 1 .. n PROVE t[k] = Step(T, t[k - 1], seq[k])
  <2>1. k - 1 \in 0 .. n
      BY <1>1
  <2> QED
      BY <1>7, <1>14, <2>1 DEF Traces
<1> QED
    BY <1>2, <1>14, <1>15, <1>16 DEF n, V, Filters

(* r is taken from the first k elements of seq that are in T, in order.    *)
Rises(m, S)        == \A i, j \in S : i < j => m[i] < m[j]
Copies(m, r, seq, T) == \A i \in 1 .. Len(r) : r[i] = seq[m[i]] /\ r[i] \in T
TakenFrom(r, k, seq, T) ==
    \E m \in [1 .. Len(r) -> 1 .. k] : Rises(m, 1 .. Len(r)) /\ Copies(m, r, seq, T)

LEMMA FilteredFrom ==
    ASSUME NEW E, NEW seq \in Seq(E), NEW T
    PROVE  /\ Those(seq, T) \in Seq(E)
           /\ TakenFrom(Those(seq, T), Len(seq), seq, T)
<1>0. PICK g \in [0 .. Len(seq) -> Seq(E)] : Filters(g, seq, T)
    BY FilteredTrace
<1>1. /\ g[0] = <<>> /\ Those(seq, T) = g[Len(seq)]
      /\ \A k \in 1 .. Len(seq) : g[k] = Step(T, g[k - 1], seq[k])
    BY <1>0 DEF Filters
<1> DEFINE n == Len(seq)
           good == {k \in 0 .. n : TakenFrom(g[k], k, seq, T)}
<1>2. n \in Nat /\ \A k \in 1 .. n : seq[k] \in E
    OBVIOUS
<1>3. 0 \in good
  <2>1. g[0] = <<>> /\ Len(g[0]) = 0 /\ 1 .. Len(g[0]) = {}
      BY <1>1
  <2>2. [i \in 1 .. Len(g[0]) |-> 1] \in [1 .. Len(g[0]) -> 1 .. 0]
      BY <2>1
  <2>3. TakenFrom(g[0], 0, seq, T)
      BY <2>1, <2>2 DEF TakenFrom, Rises, Copies
  <2> QED
      BY <1>2, <2>3
<1>4. ASSUME NEW k \in 1 .. n, k - 1 \in good PROVE k \in good
  <2> DEFINE r == g[k - 1]
             q == g[k]
  <2>1. TakenFrom(r, k - 1, seq, T) /\ q = Step(T, r, seq[k]) /\ k \in 0 .. n
      BY <1>1, <1>2, <1>4
  <2>2. r \in Seq(E) /\ Len(r) \in Nat
      BY <1>1, <1>4
  <2> HIDE DEF r, q
  <2>3. PICK m \in [1 .. Len(r) -> 1 .. k - 1] :
            Rises(m, 1 .. Len(r)) /\ Copies(m, r, seq, T)
      BY <2>1 DEF TakenFrom
  <2>4. CASE seq[k] \in T
    <3> DEFINE l == Len(r)
               e == [i \in 1 .. l + 1 |-> IF i = l + 1 THEN k ELSE m[i]]
    <3>1. /\ Len(q) = l + 1 /\ q[l + 1] = seq[k]
          /\ \A i \in 1 .. l : q[i] = r[i]
      <4>1. q = Append(r, seq[k])
          BY <2>1, <2>4 DEF Step
      <4>2. seq[k] \in E
          BY <1>2
      <4> QED
          BY <2>2, <4>1, <4>2, AppendProperties
    <3>2. l \in Nat
        BY <2>2
    <3> HIDE DEF l
    <3>3. \A i \in 1 .. l : m[i] \in 1 .. k - 1 /\ i \in 1 .. l + 1 /\ i # l + 1
        BY <2>3, <3>2 DEF l
    <3>4. e \in [1 .. l + 1 -> 1 .. k]
      <4>1. ASSUME NEW i \in 1 .. l + 1, i # l + 1 PROVE m[i] \in 1 .. k
        <5>1. i \in 1 .. l
            BY <3>2, <4>1
        <5> QED
            BY <3>3, <5>1
      <4> QED
          BY <4>1
    <3>5. e[l + 1] = k /\ \A i \in 1 .. l : e[i] = m[i]
        BY <3>2, <3>3
    <3> HIDE DEF e
    <3>6. Rises(e, 1 .. l + 1)
      <4> SUFFICES ASSUME NEW i \in 1 .. l + 1, NEW j \in 1 .. l + 1, i < j
                   PROVE  e[i] < e[j]
          BY DEF Rises
      <4>1. i \in 1 .. l /\ (j \in 1 .. l \/ j = l + 1)
          BY <3>2
      <4>2. CASE j \in 1 .. l
        <5>1. m[i] < m[j]
            BY <2>3, <4>1, <4>2 DEF Rises, l
        <5> QED
            BY <3>5, <4>1, <4>2, <5>1
      <4>3. CASE j = l + 1
          BY <3>3, <3>5, <4>1, <4>3
      <4> QED
          BY <4>1, <4>2, <4>3
    <3>7. Copies(e, q, seq, T)
      <4> SUFFICES ASSUME NEW i \in 1 .. Len(q) PROVE q[i] = seq[e[i]] /\ q[i] \in T
          BY DEF Copies
      <4>1. i \in 1 .. l \/ i = l + 1
          BY <3>1, <3>2
      <4>2. CASE i \in 1 .. l
        <5>1. r[i] = seq[m[i]] /\ r[i] \in T
            BY <2>3, <4>2 DEF Copies, l
        <5> QED
            BY <3>1, <3>5, <4>2, <5>1
      <4>3. CASE i = l + 1
          BY <2>4, <3>1, <3>5, <4>3
      <4> QED
          BY <4>1, <4>2, <4>3
    <3>8. TakenFrom(q, k, seq, T)
        BY <3>1, <3>4, <3>6, <3>7 DEF TakenFrom
    <3> QED
        BY <2>1, <3>8 DEF q
  <2>5. CASE seq[k] \notin T
    <3>1. q = r
        BY <2>1, <2>5 DEF Step
    <3>2. m \in [1 .. Len(r) -> 1 .. k]
        BY <2>3
    <3>3. TakenFrom(q, k, seq, T)
        BY <2>3, <3>1, <3>2 DEF TakenFrom
    <3> QED
        BY <2>1, <3>3 DEF q
  <2> QED
      BY <2>4, <2>5
<1>5. \A k \in 0 .. n : k \in good
  <2> HIDE DEF n, good
  <2> QED
      BY <1>2, <1>3, <1>4, Upward
<1>6. n \in good
    BY <1>2, <1>5
<1> QED
    BY <1>1, <1>6

(* Whatever passes is kept.                                                *)
LEMMA FilteredAll ==
    ASSUME NEW E, NEW seq \in Seq(E), NEW T, NEW j \in DOMAIN seq, seq[j] \in T
    PROVE  \E i \in DOMAIN Those(seq, T) : Those(seq, T)[i] = seq[j]
<1> DEFINE n == Len(seq)
           Has(r) == \E i \in DOMAIN r : r[i] = seq[j]
<1>0. PICK g \in [0 .. n -> Seq(E)] : Filters(g, seq, T)
    BY FilteredTrace
<1> DEFINE good == {k \in 0 .. n : k >= j => Has(g[k])}
<1>1. n \in Nat /\ j \in 1 .. n /\ \A k \in 1 .. n : seq[k] \in E
    OBVIOUS
<1>2. Those(seq, T) = g[n] /\ \A k \in 1 .. n : g[k] = Step(T, g[k - 1], seq[k])
    BY <1>0 DEF Filters
<1> HIDE DEF n
<1>3. 0 \in good
    BY <1>1
<1>4. ASSUME NEW k \in 1 .. n, k - 1 \in good PROVE k \in good
  <2>1. k - 1 \in 0 .. n /\ k \in 0 .. n /\ (k >= j => k - 1 >= j \/ k = j)
      BY <1>1
  <2>2. g[k] = Step(T, g[k - 1], seq[k])
      BY <1>2
  <2> DEFINE r == g[k - 1]
  <2>3. r \in Seq(E) /\ seq[k] \in E
      BY <1>1, <2>1
  <2>4. k - 1 >= j => Has(r)
      BY <1>4
  <2> HIDE DEF r
  <2>5. /\ DOMAIN r = 1 .. Len(r) /\ Len(r) \in Nat
        /\ DOMAIN Append(r, seq[k]) = 1 .. Len(r) + 1 /\ Append(r, seq[k])[Len(r) + 1] = seq[k]
        /\ \A i \in 1 .. Len(r) : Append(r, seq[k])[i] = r[i]
      BY <2>3
  <2>6. Has(r) => Has(Append(r, seq[k]))
    <3> SUFFICES ASSUME NEW i \in DOMAIN r, r[i] = seq[j] PROVE Has(Append(r, seq[k]))
        OBVIOUS
    <3>1. i \in 1 .. Len(r) + 1 /\ Append(r, seq[k])[i] = seq[j]
        BY <2>5
    <3> QED
        BY <2>5, <3>1
  <2>7. CASE k = j
    <3>1. g[k] = Append(r, seq[k])
        BY <2>2, <2>7 DEF Step, r
    <3>2. Len(r) + 1 \in DOMAIN Append(r, seq[k])
        BY <2>5
    <3>3. Has(g[k])
        BY <2>5, <2>7, <3>1, <3>2
    <3> QED
        BY <2>1, <3>3
  <2>8. CASE k - 1 >= j
    <3>1. Has(r) /\ (g[k] = Append(r, seq[k]) \/ g[k] = r)
        BY <2>2, <2>4, <2>8 DEF Step, r
    <3>2. Has(g[k])
        BY <2>6, <3>1
    <3> QED
        BY <2>1, <3>2
  <2> QED
      BY <2>1, <2>7, <2>8
<1>5. \A k \in 0 .. n : k \in good
  <2> HIDE DEF good
  <2> QED
      BY <1>1, <1>3, <1>4, Upward
<1>6. n \in good /\ n >= j
    BY <1>1, <1>5
<1> QED
    BY <1>2, <1>6

-----------------------------------------------------------------------------
(* No two come before each other.                                          *)
OneWay(R, S) == Orders(R, S) /\ \A x, y \in S : ~ (<<x, y>> \in R /\ <<y, x>> \in R)

(* a is less than b where, in the order R, they first differ.              *)
AtFirst(a, b, R, S) == \E p \in S : a[p] < b[p] /\ \A q \in S : <<q, p>> \in R => a[q] = b[q]

LEMMA FirstDiffers ==
    ASSUME NEW S, IsFiniteSet(S), NEW R, OneWay(R, S),
           NEW a \in [S -> Int], NEW b \in [S -> Int], a # b
    PROVE  AtFirst(a, b, R, S) \/ AtFirst(b, a, R, S)
<1> DEFINE differ == {p \in S : a[p] # b[p]}
<1>1. differ # {}
  <2>1. a = [p \in S |-> a[p]] /\ b = [p \in S |-> b[p]]
      OBVIOUS
  <2> QED
      BY <2>1
<1>2. differ \in SUBSET S
    OBVIOUS
<1>3. Orders(R, differ)
    BY <1>2 DEF OneWay, Orders
<1> HIDE DEF differ
<1>4. IsFiniteSet(differ)
    BY <1>2, FS_Subset
<1>5. PICK p \in differ : \A y \in differ \ {p} : <<p, y>> \in R
    BY <1>1, <1>3, <1>4, FirstExists
<1>6. \A q \in S : <<q, p>> \in R => a[q] = b[q]
  <2> SUFFICES ASSUME NEW q \in S, <<q, p>> \in R, a[q] # b[q] PROVE FALSE
      OBVIOUS
  <2>1. q \in differ /\ p \in S
      BY <1>5 DEF differ
  <2>2. q # p
      BY <2>1 DEF OneWay
  <2> QED
      BY <1>5, <2>1, <2>2 DEF OneWay
<1>7. p \in S /\ a[p] # b[p] /\ a[p] \in Int /\ b[p] \in Int
    BY <1>5 DEF differ
<1>8. a[p] < b[p] \/ b[p] < a[p]
    BY <1>7
<1> QED
    BY <1>6, <1>7, <1>8 DEF AtFirst

LEMMA FirstChains ==
    ASSUME NEW S, NEW R, OneWay(R, S),
           NEW a \in [S -> Int], NEW b \in [S -> Int], NEW c \in [S -> Int],
           AtFirst(a, b, R, S), AtFirst(b, c, R, S)
    PROVE  AtFirst(a, c, R, S)
<1>1. PICK p \in S : a[p] < b[p] /\ \A q \in S : <<q, p>> \in R => a[q] = b[q]
    BY DEF AtFirst
<1>2. PICK r \in S : b[r] < c[r] /\ \A q \in S : <<q, r>> \in R => b[q] = c[q]
    BY DEF AtFirst
<1>3. /\ a[p] \in Int /\ b[p] \in Int /\ c[p] \in Int
      /\ a[r] \in Int /\ b[r] \in Int /\ c[r] \in Int
    OBVIOUS
<1>4. CASE p = r
    BY <1>1, <1>2, <1>3, <1>4 DEF AtFirst
<1>5. CASE p # r /\ <<p, r>> \in R
  <2>1. a[p] < c[p]
      BY <1>1, <1>2, <1>5
  <2>2. ASSUME NEW q \in S, <<q, p>> \in R PROVE a[q] = c[q]
    <3>1. q # r
        BY <1>5, <2>2 DEF OneWay
    <3>2. <<q, r>> \in R
        BY <1>5, <2>2, <3>1 DEF OneWay, Orders
    <3> QED
        BY <1>1, <1>2, <2>2, <3>2
  <2> QED
      BY <2>1, <2>2 DEF AtFirst
<1>6. CASE p # r /\ <<r, p>> \in R
  <2>1. a[r] < c[r]
      BY <1>1, <1>2, <1>6
  <2>2. ASSUME NEW q \in S, <<q, r>> \in R PROVE a[q] = c[q]
    <3>1. q # p
        BY <1>6, <2>2 DEF OneWay
    <3>2. <<q, p>> \in R
        BY <1>6, <2>2, <3>1 DEF OneWay, Orders
    <3> QED
        BY <1>1, <1>2, <2>2, <3>2
  <2> QED
      BY <2>1, <2>2 DEF AtFirst
<1> QED
    BY <1>4, <1>5, <1>6 DEF OneWay, Orders

(* By three keys in turn, then as v has it, in the order R.                *)
KeysThen(q, k, l, m, v, R, S) ==
    LET a == q[1]  b == q[2] IN
    \/ k[a] < k[b]
    \/ k[a] = k[b] /\ l[a] < l[b]
    \/ k[a] = k[b] /\ l[a] = l[b] /\ m[a] < m[b]
    \/ k[a] = k[b] /\ l[a] = l[b] /\ m[a] = m[b] /\ AtFirst(v[a], v[b], R, S)

ByKeys(T, k, l, m, v, R, S) == {q \in T \X T : KeysThen(q, k, l, m, v, R, S)}

LEMMA KeysOrder ==
    ASSUME NEW S, IsFiniteSet(S), NEW R, OneWay(R, S),
           NEW T, NEW k \in [T -> Int], NEW l \in [T -> Int], NEW m \in [T -> Int],
           NEW v \in [T -> [S -> Int]], \A a, b \in T : v[a] = v[b] => a = b
    PROVE  Orders(ByKeys(T, k, l, m, v, R, S), T)
<1> DEFINE L == {q \in T \X T : AtFirst(v[q[1]], v[q[2]], R, S)}
<1>1. \A a, b \in T : a # b => <<a, b>> \in L \/ <<b, a>> \in L
    BY FirstDiffers
<1>2. \A a, b, c \in T : <<a, b>> \in L /\ <<b, c>> \in L => <<a, c>> \in L
  <2> TAKE a, b, c \in T
  <2>1. v[a] \in [S -> Int] /\ v[b] \in [S -> Int] /\ v[c] \in [S -> Int]
      OBVIOUS
  <2> HAVE <<a, b>> \in L /\ <<b, c>> \in L
  <2>2. AtFirst(v[a], v[b], R, S) /\ AtFirst(v[b], v[c], R, S)
      OBVIOUS
  <2>3. AtFirst(v[a], v[c], R, S)
      BY <2>1, <2>2, FirstChains
  <2> QED
      BY <2>3
<1> DEFINE B == ByKeys(T, k, l, m, v, R, S)
<1>3. \A a, b \in T : <<a, b>> \in B <=>
          \/ k[a] < k[b]
          \/ k[a] = k[b] /\ l[a] < l[b]
          \/ k[a] = k[b] /\ l[a] = l[b] /\ m[a] < m[b]
          \/ k[a] = k[b] /\ l[a] = l[b] /\ m[a] = m[b] /\ <<a, b>> \in L
    BY DEF ByKeys, KeysThen
<1> HIDE DEF L, B
<1>4. \A a \in T : k[a] \in Int /\ l[a] \in Int /\ m[a] \in Int
    OBVIOUS
<1>5. \A a, b \in T : a # b => <<a, b>> \in B \/ <<b, a>> \in B
  <2> SUFFICES ASSUME NEW a \in T, NEW b \in T, a # b
               PROVE  <<a, b>> \in B \/ <<b, a>> \in B
      OBVIOUS
  <2>1. <<a, b>> \in L \/ <<b, a>> \in L
      BY <1>1
  <2>2. /\ k[a] \in Int /\ l[a] \in Int /\ m[a] \in Int
        /\ k[b] \in Int /\ l[b] \in Int /\ m[b] \in Int
      BY <1>4
  <2>3. <<a, b>> \in B <=>
            \/ k[a] < k[b]
            \/ k[a] = k[b] /\ l[a] < l[b]
            \/ k[a] = k[b] /\ l[a] = l[b] /\ m[a] < m[b]
            \/ k[a] = k[b] /\ l[a] = l[b] /\ m[a] = m[b] /\ <<a, b>> \in L
      BY <1>3
  <2>4. <<b, a>> \in B <=>
            \/ k[b] < k[a]
            \/ k[b] = k[a] /\ l[b] < l[a]
            \/ k[b] = k[a] /\ l[b] = l[a] /\ m[b] < m[a]
            \/ k[b] = k[a] /\ l[b] = l[a] /\ m[b] = m[a] /\ <<b, a>> \in L
      BY <1>3
  <2>5. /\ k[a] < k[b] \/ k[b] < k[a] \/ k[a] = k[b]
        /\ l[a] < l[b] \/ l[b] < l[a] \/ l[a] = l[b]
        /\ m[a] < m[b] \/ m[b] < m[a] \/ m[a] = m[b]
    <3>1. \A x, y \in Int : x < y \/ y < x \/ x = y
        OBVIOUS
    <3> QED
        BY <2>2, <3>1, Zenon
  <2> QED
      BY <2>1, <2>3, <2>4, <2>5, Zenon
<1>6. \A a, b, c \in T : <<a, b>> \in B /\ <<b, c>> \in B => <<a, c>> \in B
    BY <1>2, <1>3, <1>4
<1>7. Orders(B, T)
    BY <1>5, <1>6 DEF Orders
<1> QED
    BY <1>7 DEF B

(* Finitely many functions from subsets of P to 1 .. n.                    *)
LEMMA BagsFinite ==
    ASSUME NEW P, IsFiniteSet(P), NEW n \in Nat, NEW T,
           \A b \in T : \E S \in SUBSET P : b \in [S -> 1 .. n]
    PROVE  IsFiniteSet(T)
<1> DEFINE X == P \X (1 .. n)
           G == [b \in T |-> {<<p, b[p]>> : p \in DOMAIN b}]
<1>1. IsFiniteSet(1 .. n)
    BY FS_Interval
<1>2. IsFiniteSet(X)
    BY <1>1, FS_Product
<1> HIDE DEF X
<1>3. IsFiniteSet(SUBSET X)
    BY <1>2, FS_SUBSET
<1>4. \A b \in T : /\ DOMAIN b \subseteq P /\ b = [p \in DOMAIN b |-> b[p]]
                   /\ \A p \in DOMAIN b : b[p] \in 1 .. n
    OBVIOUS
<1>5. G \in [T -> SUBSET X]
    BY <1>4 DEF X
<1>6. ASSUME NEW a \in T, NEW b \in T, G[a] = G[b] PROVE a = b
  <2>1. {<<p, a[p]>> : p \in DOMAIN a} = {<<p, b[p]>> : p \in DOMAIN b}
      BY <1>6
  <2>2. \A p \in DOMAIN a : p \in DOMAIN b /\ a[p] = b[p]
    <3> TAKE p \in DOMAIN a
    <3>1. <<p, a[p]>> \in {<<q, b[q]>> : q \in DOMAIN b}
        BY <2>1
    <3> QED
        BY <3>1
  <2>3. \A p \in DOMAIN b : p \in DOMAIN a
    <3> TAKE p \in DOMAIN b
    <3>1. <<p, b[p]>> \in {<<q, a[q]>> : q \in DOMAIN a}
        BY <2>1
    <3> QED
        BY <3>1
  <2>4. DOMAIN a = DOMAIN b
      BY <2>2, <2>3
  <2> DEFINE D == DOMAIN a
  <2>5. a = [p \in D |-> a[p]] /\ b = [p \in D |-> b[p]] /\ \A p \in D : a[p] = b[p]
      BY <1>4, <2>2, <2>4
  <2> HIDE DEF D
  <2> QED
      BY <2>5
<1> HIDE DEF G
<1>7. G \in Injection(T, SUBSET X)
    BY <1>5, <1>6 DEF Injection, IsInjective
<1> QED
    BY <1>3, <1>7, FS_Injection

=============================================================================
