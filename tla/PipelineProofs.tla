--------------------------- MODULE PipelineProofs ---------------------------
(***************************************************************************)
(* What the Planner's greedy pass computes, for every set of listings,      *)
(* prices and ranks: Pipeline says only which set the pass ends with; here  *)
(* that set is shown to exist, to be the only one, to be a plan whenever    *)
(* the code saves one, and to fit the ledger the Planner has read.          *)
(*                                                                         *)
(* The pass is a loop over the listings in rank order.  The loop's prefixes *)
(* are the partial selections up to a rank, and the induction over them is  *)
(* by a least counterexample among the naturals (LeastNat).                 *)
(***************************************************************************)
EXTENDS Pipeline, PersonalDataProofs, WellFoundedInduction

-----------------------------------------------------------------------------
(* Least and last elements *)

(* Every non-empty set of naturals has a least element.                     *)
LEMMA LeastNat ==
    ASSUME NEW T \in SUBSET Nat, T # {}
    PROVE  \E n \in T : \A m \in T : n <= m
<1>1. PICK x \in T : \A y \in T : ~ (<<y, x>> \in OpToRel(<, Nat))
  BY NatLessThanWellFounded, WFMin
<1>2. ASSUME NEW y \in T PROVE x <= y
  <2>1. ~ (<<y, x>> \in OpToRel(<, Nat))
    BY <1>1
  <2>2. ~(y < x)
    BY <2>1 DEF OpToRel
  <2> QED BY <2>2
<1> QED BY <1>2

(* A non-empty set of listings has one ranked last: the one with the fewest *)
(* listings ranked after it.                                                *)
LEMMA LastRanked ==
    ASSUME NEW E \in SUBSET Listing, E # {}
    PROVE  \E l \in E : \A m \in E : Rank[m] <= Rank[l]
<1> DEFINE after(l) == {m \in E : Rank[l] < Rank[m]}
           counts == {Cardinality(after(l)) : l \in E}
<1>1. IsFiniteSet(E)
  BY ListingAssumption, FS_Subset
<1>2. \A l \in E : IsFiniteSet(after(l)) /\ Cardinality(after(l)) \in Nat
  <2>1. ASSUME NEW l \in E PROVE IsFiniteSet(after(l))
    <3>1. after(l) \in SUBSET E
      OBVIOUS
    <3> QED BY <1>1, <3>1, FS_Subset
  <2> QED BY <2>1, FS_CardinalityType
<1>3. counts \in SUBSET Nat /\ counts # {}
  BY <1>2
<1> HIDE DEF after
<1>4. PICK n \in counts : \A m \in counts : n <= m
  BY <1>3, LeastNat
<1>5. PICK l \in E : n = Cardinality(after(l))
  BY <1>4
<1>6. ASSUME NEW m \in E, ~(Rank[m] <= Rank[l]) PROVE FALSE
  <2>1. Rank[l] \in Nat /\ Rank[m] \in Nat /\ Rank[l] < Rank[m] /\ E \subseteq Listing
    BY <1>6, RankAssumption
  <2>2. after(m) \subseteq after(l)
    BY <2>1, RankAssumption DEF after
  <2>3. m \in after(l) /\ m \notin after(m)
    BY <2>1 DEF after
  <2>4. Cardinality(after(m)) <= Cardinality(after(l)) /\ Cardinality(after(m)) # Cardinality(after(l))
    BY <2>2, <2>3, <1>2, FS_Subset
  <2>5. Cardinality(after(l)) <= Cardinality(after(m))
    BY <1>4, <1>5
  <2> QED BY <2>4, <2>5, <1>2
<1> QED BY <1>6

-----------------------------------------------------------------------------
(* The greedy pass *)

Before(S, l) == {m \in S : Rank[m] < Rank[l]}

(* S is what the loop over E has selected when it ends, and when it has     *)
(* passed the listings ranked below k.                                      *)
Greedy(E, L, S) ==
    /\ S \subseteq E
    /\ \A l \in E : l \in S <=> Fits(L, l, Before(S, l))
GreedyTo(E, L, k, S) ==
    /\ S \subseteq E
    /\ \A l \in S : Rank[l] < k
    /\ \A l \in E : Rank[l] < k => (l \in S <=> Fits(L, l, Before(S, l)))

(* Each round of the loop extends the selection by one listing or none.     *)
LEMMA GreedyPrefix ==
    ASSUME NEW E \in SUBSET Listing, NEW L, NEW k \in Nat
    PROVE  \E S : GreedyTo(E, L, k, S)
<1> DEFINE bad == {n \in Nat : ~ \E S : GreedyTo(E, L, n, S)}
<1>1. SUFFICES ASSUME bad # {} PROVE FALSE
  OBVIOUS
<1>2. PICK n \in bad : \A m \in bad : n <= m
  BY <1>1, LeastNat
<1>3. \A l \in E : Rank[l] \in Nat
  BY RankAssumption
<1>4. n # 0
  <2>1. GreedyTo(E, L, 0, {})
    BY <1>3 DEF GreedyTo
  <2> QED BY <2>1, <1>2
<1>5. n \in Nat /\ n - 1 \in Nat /\ n - 1 \notin bad
  BY <1>2, <1>4
<1>6. PICK S : GreedyTo(E, L, n - 1, S)
  BY <1>5
<1> DEFINE T == S \cup {l \in E : Rank[l] = n - 1 /\ Fits(L, l, S)}
<1>7. \A l \in S : l \in E /\ Rank[l] < n - 1
  BY <1>6 DEF GreedyTo
<1>8. ASSUME NEW l \in E, Rank[l] < n PROVE Before(T, l) = Before(S, l)
  BY <1>3, <1>5, <1>7, <1>8 DEF Before
<1>9. T \subseteq E /\ \A l \in T : Rank[l] < n
  BY <1>3, <1>5, <1>7
<1>10. ASSUME NEW l \in E, Rank[l] < n PROVE l \in T <=> Fits(L, l, Before(T, l))
  <2>1. CASE Rank[l] < n - 1
    <3>1. l \in S <=> Fits(L, l, Before(S, l))
      BY <1>6, <2>1 DEF GreedyTo
    <3>2. l \in T <=> l \in S
      BY <2>1, <1>3, <1>5
    <3> QED BY <3>1, <3>2, <1>8, <1>10
  <2>2. CASE Rank[l] = n - 1
    <3>1. Before(S, l) = S
      BY <1>7, <2>2 DEF Before
    <3>2. l \notin S
      BY <1>3, <1>7, <2>2, <1>5
    <3>3. l \in T <=> Fits(L, l, S)
      BY <2>2, <3>2
    <3> QED BY <3>1, <3>3, <1>8, <1>10
  <2> QED BY <2>1, <2>2, <1>3, <1>5, <1>10
<1>11. GreedyTo(E, L, n, T)
  BY <1>9, <1>10 DEF GreedyTo
<1> QED BY <1>2, <1>11

(* The pass ends with some selection.                                       *)
LEMMA GreedyExists ==
    ASSUME NEW E \in SUBSET Listing, NEW L
    PROVE  \E S : Greedy(E, L, S)
<1>1. CASE E = {}
  BY <1>1 DEF Greedy
<1>2. CASE E # {}
  <2>1. PICK l \in E : \A m \in E : Rank[m] <= Rank[l]
    BY <1>2, LastRanked
  <2>2. \A m \in E : Rank[m] \in Nat
    BY RankAssumption
  <2>3. PICK S : GreedyTo(E, L, Rank[l] + 1, S)
    BY <2>2, GreedyPrefix
  <2>4. Greedy(E, L, S)
    BY <2>1, <2>2, <2>3 DEF Greedy, GreedyTo
  <2> QED BY <2>4
<1> QED BY <1>1, <1>2

(* Two selections of one pass agree: look at the first listing they differ  *)
(* on, before which they have selected the same.                            *)
LEMMA GreedyUnique ==
    ASSUME NEW E \in SUBSET Listing, NEW L, NEW S, NEW T, Greedy(E, L, S), Greedy(E, L, T)
    PROVE  S = T
<1> DEFINE differ == {l \in E : l \in S <=> l \notin T}
           ranks == {Rank[l] : l \in differ}
<1>1. SUFFICES ASSUME differ # {} PROVE FALSE
  BY DEF Greedy
<1>2. \A l \in E : Rank[l] \in Nat
  BY RankAssumption
<1>3. ranks \in SUBSET Nat /\ ranks # {}
  BY <1>1, <1>2
<1>4. PICK n \in ranks : \A m \in ranks : n <= m
  BY <1>3, LeastNat
<1>5. PICK l \in differ : n = Rank[l]
  BY <1>4
<1>6. Before(S, l) = Before(T, l)
  <2>1. ASSUME NEW m \in E, Rank[m] < Rank[l] PROVE m \in S <=> m \in T
    <3>1. m \notin differ
      BY <1>2, <1>4, <1>5, <2>1
    <3> QED BY <3>1
  <2> QED BY <2>1 DEF Before, Greedy
<1> QED BY <1>5, <1>6 DEF Greedy

(* Selected(q) is the selection the Planner's loop ends with: the only set  *)
(* that holds exactly the eligible listings that fit beside the selected    *)
(* ones ranked before them.                                                 *)
THEOREM SelectionIsGreedy ==
    ASSUME NEW q, Eligible(q) \in SUBSET Listing
    PROVE  /\ Greedy(Eligible(q), q.seen, Selected(q))
           /\ \A S : Greedy(Eligible(q), q.seen, S) => S = Selected(q)
<1> DEFINE E == Eligible(q)
           OK(S) == \A l \in E : l \in S <=> Fits(q.seen, l, {m \in S : Rank[m] < Rank[l]})
<1>1. PICK T : Greedy(E, q.seen, T)
  BY GreedyExists
<1>2. T \in SUBSET E /\ OK(T)
  BY <1>1 DEF Greedy, Before
<1>3. Selected(q) = CHOOSE S \in SUBSET E : OK(S)
  BY DEF Selected
<1> HIDE DEF OK
<1>4. Selected(q) \in SUBSET E /\ OK(Selected(q))
  BY <1>2, <1>3
<1>5. Greedy(E, q.seen, Selected(q))
  BY <1>4 DEF Greedy, Before, OK
<1> QED BY <1>5, GreedyUnique

(* Something is selected whenever something is eligible and a try is left.  *)
LEMMA SelectsSomething ==
    ASSUME NEW q, Eligible(q) \in SUBSET Listing, Eligible(q) # {}, q.seen \in Ledger,
           ItemLimit(q.seen) > 0
    PROVE  Selected(q) # {}
<1>1. SUFFICES ASSUME Selected(q) = {} PROVE FALSE
  OBVIOUS
<1>2. PICK l \in Eligible(q) : TRUE
  OBVIOUS
<1>3. Cost[l] \in Nat /\ Duration[l] \in Nat
  BY UnitAssumption
<1>4. MoneyRemaining(q.seen) \in Int /\ HoursRemaining(q.seen) \in Int
  BY DEF MoneyRemaining, HoursRemaining, Ledger
<1>5. ~(Cost[l] > MoneyRemaining(q.seen)) /\ ~(Duration[l] > HoursRemaining(q.seen))
  BY <1>2 DEF Eligible, Filter
<1>6. Cardinality({}) = 0 /\ 0 < ItemLimit(q.seen)
  BY FS_EmptySet
<1>7. Fits(q.seen, l, {})
  <2>1. \A w : {x \in {} \X (1..MaxUnit) : x[2] <= w[x[1]]} = {}
    OBVIOUS
  <2> HIDE DEF MoneyRemaining
  <2> QED BY <1>3, <1>4, <1>5, <1>6, <2>1 DEF Fits
<1>8. Before(Selected(q), l) = {}
  BY <1>1 DEF Before
<1> QED BY <1>1, <1>7, <1>8, SelectionIsGreedy DEF Greedy

-----------------------------------------------------------------------------
(* The plan that is built from the selection *)

(* Of finitely many counts one is the largest, and the first of its size.   *)
LEMMA FirstLargest ==
    ASSUME NEW N \in Nat \ {0}, NEW c \in [1..N -> Nat]
    PROVE  \E n \in 1..N : \A m \in 1..N : c[m] < c[n] \/ (c[m] = c[n] /\ n <= m)
<1> DEFINE largest(n, k) == \A m \in 1..k : c[m] < c[n] \/ (c[m] = c[n] /\ n <= m)
           bad == {k \in 1..N : ~ \E n \in 1..k : largest(n, k)}
<1>1. SUFFICES ASSUME bad # {} PROVE FALSE
  <2>1. N \in 1..N
    OBVIOUS
  <2>2. N \notin bad => \E n \in 1..N : largest(n, N)
    <3> HIDE DEF largest
    <3> QED BY <2>1
  <2> QED BY <2>2
<1>2. bad \in SUBSET Nat
  OBVIOUS
<1>3. PICK k \in bad : \A j \in bad : k <= j
  BY <1>1, <1>2, LeastNat
<1>4. k # 1
  <2>1. largest(1, 1) /\ 1 \in 1..1
    OBVIOUS
  <2>2. 1 \notin bad
    <3> HIDE DEF largest
    <3> QED BY <2>1
  <2> QED BY <1>3, <2>2
<1>5. k \in 1..N /\ k - 1 \in 1..N /\ k - 1 \notin bad
  <2> HIDE DEF largest
  <2>1. k \in 1..N /\ k - 1 \in 1..N
    BY <1>4
  <2>2. ~(k <= k - 1)
    BY <2>1
  <2> QED BY <1>3, <2>1, <2>2
<1>6. PICK n \in 1..(k - 1) : largest(n, k - 1)
  BY <1>5
<1>7. c[n] \in Nat /\ c[k] \in Nat /\ n \in 1..k /\ \A m \in 1..(k - 1) : c[m] \in Nat
  BY <1>5
<1>8. CASE c[k] <= c[n]
  <2>1. largest(n, k)
    BY <1>5, <1>6, <1>7, <1>8
  <2>2. \E j \in 1..k : largest(j, k)
    <3> HIDE DEF largest
    <3> QED BY <1>7, <2>1
  <2> QED BY <1>3, <2>2
<1>9. CASE c[k] > c[n]
  <2>1. largest(k, k)
    BY <1>5, <1>6, <1>7, <1>9
  <2>2. k \in 1..k
    BY <1>5
  <2>3. \E j \in 1..k : largest(j, k)
    <3> HIDE DEF largest
    <3> QED BY <2>1, <2>2
  <2> QED BY <1>3, <2>3
<1> QED BY <1>7, <1>8, <1>9

(* The binding constraint is always one of the declared reasons.            *)
LEMMA BindingTyped ==
    ASSUME NEW q, Known \in SUBSET Listing
    PROVE  BindingConstraint(q) \in Binding
<1> DEFINE count == [n \in DOMAIN FilterOrder |->
                        Cardinality({l \in Considered(q) : Filter(q, l) = FilterOrder[n]})]
           most == CHOOSE n \in DOMAIN FilterOrder :
                        \A m \in DOMAIN FilterOrder :
                            count[m] < count[n] \/ (count[m] = count[n] /\ n <= m)
<1>1. DOMAIN FilterOrder = 1..6
  BY DEF FilterOrder
<1>2. ASSUME NEW x PROVE Cardinality({l \in Considered(q) : Filter(q, l) = x}) \in Nat
  <2>1. {l \in Considered(q) : Filter(q, l) = x} \in SUBSET Listing
    BY DEF Considered
  <2>2. IsFiniteSet({l \in Considered(q) : Filter(q, l) = x})
    BY <2>1, ListingAssumption, FS_Subset
  <2> QED BY <2>2, FS_CardinalityType
<1>3. count \in [1..6 -> Nat]
  BY <1>1, <1>2
<1> HIDE DEF count
<1>4. \E n \in 1..6 : \A m \in 1..6 : count[m] < count[n] \/ (count[m] = count[n] /\ n <= m)
  BY <1>3, FirstLargest
<1>5. most \in DOMAIN FilterOrder
  BY <1>1, <1>4
<1>6. FilterOrder[most] \in Binding /\ "limited_supply" \in Binding
  BY <1>5, BindingAssumption
<1>7. BindingConstraint(q) = IF \A n \in DOMAIN FilterOrder : count[n] = 0
                             THEN "limited_supply" ELSE FilterOrder[most]
  BY DEF BindingConstraint, count
<1> QED BY <1>6, <1>7

(* What the Planner saves is a plan of the teen, at the version it read.    *)
LEMMA PlanForTyped ==
    ASSUME NEW q, q.teen \in Teen, q.seen \in Ledger, Known \in SUBSET Listing,
           Eligible(q) # {}, ItemLimit(q.seen) > 0
    PROVE  /\ PlanFor(q) \in Plan
           /\ PlanFor(q).id = [teen |-> q.teen, version |-> q.seen.version, items |-> Selected(q)]
           /\ Selected(q) \subseteq Eligible(q)
<1>1. Eligible(q) \in SUBSET Listing
  BY DEF Eligible, Considered
<1>2. Selected(q) \subseteq Eligible(q) /\ Selected(q) # {}
  BY <1>1, SelectionIsGreedy, SelectsSomething DEF Greedy
<1> DEFINE i == [teen |-> q.teen, version |-> q.seen.version, items |-> Selected(q)]
<1>3. q.seen.version \in Version
  BY VersionAssumption DEF Ledger
<1>4. i \in PlanId
  BY <1>1, <1>2, <1>3 DEF PlanId
<1>5. (IF Thin(q, i) THEN BindingConstraint(q) ELSE "none") \in Binding
  BY BindingTyped, BindingAssumption
<1>6. PlanFor(q) = [id |-> i, binding |-> IF Thin(q, i) THEN BindingConstraint(q) ELSE "none"]
  BY DEF PlanFor
<1> QED BY <1>2, <1>4, <1>5, <1>6 DEF Plan

-----------------------------------------------------------------------------
(* The plan fits the ledger it was made from *)

(* The units Fits counts for selected listings are those their keys weigh.  *)
UnitsOf(w, R) == {x \in R \X (1..MaxUnit) : x[2] <= w[x[1]]}
KeysFor(i, R) == {[plan |-> i, listing |-> l] : l \in R}

LEMMA UnitsWeigh ==
    ASSUME NEW w, NEW i, NEW R, IsFiniteSet(R)
    PROVE  Cardinality(UnitsOf(w, R)) = Weight(w, KeysFor(i, R))
<1> DEFINE f == [x \in UnitsOf(w, R) |-> <<[plan |-> i, listing |-> x[1]], x[2]>>]
<1>1. IsFiniteSet(UnitsOf(w, R))
  <2>1. IsFiniteSet(1..MaxUnit)
    BY FS_Interval, UnitAssumption
  <2>2. IsFiniteSet(R \X (1..MaxUnit))
    BY <2>1, FS_Product
  <2>3. UnitsOf(w, R) \in SUBSET (R \X (1..MaxUnit))
    BY DEF UnitsOf
  <2> QED BY <2>2, <2>3, FS_Subset
<1>2. ASSUME NEW x \in UnitsOf(w, R) PROVE f[x] \in Units(w, KeysFor(i, R))
  BY <1>2 DEF UnitsOf, Units, KeysFor
<1>3. ASSUME NEW y \in Units(w, KeysFor(i, R)) PROVE \E x \in UnitsOf(w, R) : f[x] = y
  <2>1. y \in KeysFor(i, R) \X (1..MaxUnit) /\ y[2] <= w[y[1].listing]
    BY DEF Units
  <2>2. PICK l \in R : y[1] = [plan |-> i, listing |-> l]
    BY <2>1 DEF KeysFor
  <2>3. <<l, y[2]>> \in UnitsOf(w, R)
    BY <2>1, <2>2 DEF UnitsOf
  <2>4. f[<<l, y[2]>>] = y
    BY <2>1, <2>2, <2>3
  <2> QED BY <2>3, <2>4
<1>4. f \in Surjection(UnitsOf(w, R), Units(w, KeysFor(i, R)))
  <2>1. f \in [UnitsOf(w, R) -> Units(w, KeysFor(i, R))]
    BY <1>2
  <2> QED BY <2>1, <1>3 DEF Surjection
<1>5. f \in Injection(UnitsOf(w, R), Units(w, KeysFor(i, R)))
  <2>1. ASSUME NEW x \in UnitsOf(w, R), NEW y \in UnitsOf(w, R), f[x] = f[y] PROVE x = y
    <3>1. x \in R \X (1..MaxUnit) /\ y \in R \X (1..MaxUnit)
      BY DEF UnitsOf
    <3>2. [plan |-> i, listing |-> x[1]] = [plan |-> i, listing |-> y[1]] /\ x[2] = y[2]
      BY <2>1
    <3>3. [plan |-> i, listing |-> x[1]].listing = [plan |-> i, listing |-> y[1]].listing
      BY <3>2
    <3> QED BY <3>1, <3>2, <3>3
  <2>2. f \in [UnitsOf(w, R) -> Units(w, KeysFor(i, R))]
    BY <1>2
  <2> QED BY <2>1, <2>2 DEF Injection, IsInjective
<1> HIDE DEF f
<1> QED BY <1>1, <1>4, <1>5, FS_Surjection DEF Weight

(* A non-empty selection costs, lasts and counts no more than is left: what *)
(* Fits says of the listing selected last.                                  *)
LEMMA SelectionFits ==
    ASSUME NEW q, Eligible(q) \in SUBSET Listing, q.seen \in Ledger,
           NEW i \in PlanId, i.items = Selected(q)
    PROVE  /\ Price(i) <= MoneyRemaining(q.seen)
           /\ Hours(i) <= HoursRemaining(q.seen)
           /\ Cardinality(i.items) <= ItemLimit(q.seen)
<1> DEFINE S == Selected(q)
<1>1. S \in SUBSET Listing /\ S # {} /\ Greedy(Eligible(q), q.seen, S)
  BY SelectionIsGreedy DEF PlanId
<1>2. IsFiniteSet(S)
  BY <1>1, ListingAssumption, FS_Subset
<1>3. PICK l \in S : \A m \in S : Rank[m] <= Rank[l]
  BY <1>1, LastRanked
<1> DEFINE R == S \ {l}
           k == [plan |-> i, listing |-> l]
<1>4. Before(S, l) = R
  <2>1. \A m \in S : Rank[m] \in Nat /\ (Rank[m] = Rank[l] => m = l)
    BY <1>1, RankAssumption
  <2> QED BY <1>3, <2>1 DEF Before
<1>5. Fits(q.seen, l, R)
  BY <1>1, <1>3, <1>4 DEF Greedy
<1>6. IsFiniteSet(R) /\ Cardinality(R) = Cardinality(S) - 1
  BY <1>2, FS_RemoveElement
<1>7. Keys(i) \ {k} = KeysFor(i, R) /\ k \in Keys(i) /\ k.listing = l
  <2>1. Keys(i) = KeysFor(i, S)
    BY DEF Keys, KeysFor
  <2>2. \A m \in S : [plan |-> i, listing |-> m] = k => m = l
    <3>1. ASSUME NEW m \in S, [plan |-> i, listing |-> m] = k PROVE m = l
      <4>1. [plan |-> i, listing |-> m].listing = k.listing
        BY <3>1
      <4> QED BY <4>1
    <3> QED BY <3>1
  <2>3. k.listing = l
    OBVIOUS
  <2>4. KeysFor(i, S) \ {k} = KeysFor(i, R)
    BY <2>2, <1>3 DEF KeysFor
  <2>5. k \in KeysFor(i, S)
    BY <1>3 DEF KeysFor
  <2> QED BY <2>1, <2>3, <2>4, <2>5
<1>8. Keys(i) \in SUBSET Key /\ IsFiniteSet(Keys(i))
  BY KeysOfPlan
<1>9. ASSUME NEW w \in Weighing, NEW left \in Int,
             Cardinality(UnitsOf(w, R)) + w[l] <= left
      PROVE  Weight(w, Keys(i)) <= left
  <2> HIDE DEF k, R
  <2>1. Weight(w, Keys(i) \ {k}) = Weight(w, Keys(i)) - w[l] /\ w[l] \in Nat
    BY <1>7, <1>8, WeightWithout
  <2>2. Cardinality(UnitsOf(w, R)) = Weight(w, Keys(i) \ {k})
    BY <1>6, <1>7, UnitsWeigh
  <2>3. Weight(w, Keys(i)) \in Nat
    BY <1>8, UnitsFinite
  <2> QED BY <1>9, <2>1, <2>2, <2>3
<1>10. Cost \in Weighing /\ Duration \in Weighing
  BY UnitAssumption DEF Weighing
<1>11. MoneyRemaining(q.seen) \in Int /\ HoursRemaining(q.seen) \in Int /\ ItemLimit(q.seen) \in Int
  BY CapAssumption DEF MoneyRemaining, HoursRemaining, ItemLimit, TriesRemaining, Ledger
<1>12. /\ Cardinality(R) < ItemLimit(q.seen)
       /\ Cardinality(UnitsOf(Cost, R)) + Cost[l] <= MoneyRemaining(q.seen)
       /\ Cardinality(UnitsOf(Duration, R)) + Duration[l] <= HoursRemaining(q.seen)
  BY <1>5 DEF Fits, UnitsOf
<1>13. Weight(Cost, Keys(i)) <= MoneyRemaining(q.seen)
       /\ Weight(Duration, Keys(i)) <= HoursRemaining(q.seen)
  BY <1>9, <1>10, <1>11, <1>12
<1>14. Cardinality(S) <= ItemLimit(q.seen)
  <2>1. Cardinality(S) \in Nat
    BY <1>2, FS_CardinalityType
  <2> HIDE DEF S, R
  <2> QED BY <1>6, <1>11, <1>12, <2>1
<1> QED BY <1>13, <1>14 DEF Price, Hours

(* A plan passes G2 at the moment it is made, if the ledger the Planner     *)
(* read in an earlier statement is still the teen's: what G2 refuses later  *)
(* is a plan that another commit, outcome or scan has overtaken.            *)
THEOREM FreshPlanPassesG2 ==
    ASSUME NEW q, q.teen \in Teen, q.seen \in Ledger, Known \in SUBSET Listing,
           Eligible(q) # {}, ItemLimit(q.seen) > 0, q.seen = ledger[q.teen]
    PROVE  PlanFor(q) \in Plan /\ G2Passes(PlanFor(q).id)
<1> DEFINE i == PlanFor(q).id
<1>1. /\ PlanFor(q) \in Plan /\ i \in PlanId
      /\ i = [teen |-> q.teen, version |-> q.seen.version, items |-> Selected(q)]
      /\ Selected(q) \subseteq Eligible(q)
  BY PlanForTyped DEF Plan
<1>2. i.teen = q.teen /\ i.version = q.seen.version /\ i.items = Selected(q)
  BY <1>1
<1>3. Eligible(q) \in SUBSET Listing
  BY DEF Eligible, Considered
<1> HIDE DEF i
<1>4. /\ Price(i) <= MoneyRemaining(q.seen)
      /\ Hours(i) <= HoursRemaining(q.seen)
      /\ Cardinality(i.items) <= ItemLimit(q.seen)
  BY <1>1, <1>2, <1>3, SelectionFits
<1>5. Cardinality(i.items) <= TriesRemaining(q.seen)
  <2>1. IsFiniteSet(i.items)
    BY <1>1, <1>2, <1>3, ListingAssumption, FS_Subset
  <2>2. Cardinality(i.items) \in Nat /\ TriesRemaining(q.seen) \in Int /\ MaxItems \in Nat
    BY <2>1, FS_CardinalityType, CapAssumption DEF TriesRemaining, Ledger
  <2> QED BY <1>4, <2>2 DEF ItemLimit
<1>6. \A l \in i.items : l \in Known /\ ~Retired(l)
  BY <1>1, <1>2 DEF Eligible, Considered
<1>7. G2Passes(i)
  BY <1>2, <1>4, <1>5, <1>6 DEF G2Passes
<1> QED BY <1>1, <1>7 DEF i
=============================================================================
