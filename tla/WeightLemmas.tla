---------------------------- MODULE WeightLemmas ----------------------------
(***************************************************************************)
(* The weight of a set of bookings is additive: what lets the ledger's      *)
(* sums be followed through commits and outcomes without any recursion.     *)
(***************************************************************************)
EXTENDS PersonalData, FiniteSetTheorems, TLAPS

(* A weighing is a cost or duration table: a natural up to MaxUnit each.    *)
Weighing == [Listing -> 0..MaxUnit]

(* The units of finitely many bookings are finitely many.                   *)
LEMMA UnitsFinite ==
    ASSUME NEW w, NEW K, IsFiniteSet(K)
    PROVE  IsFiniteSet(Units(w, K)) /\ Weight(w, K) \in Nat
<1>1. IsFiniteSet(1..MaxUnit)
  BY FS_Interval, UnitAssumption
<1>2. IsFiniteSet(K \X (1..MaxUnit))
  BY <1>1, FS_Product
<1>3. Units(w, K) \in SUBSET (K \X (1..MaxUnit))
  BY DEF Units
<1>4. IsFiniteSet(Units(w, K))
  BY <1>2, <1>3, FS_Subset
<1> QED BY <1>4, FS_CardinalityType DEF Weight

(* Disjoint sets of bookings weigh together what they weigh apart.          *)
LEMMA WeightUnion ==
    ASSUME NEW w, NEW K, IsFiniteSet(K), NEW M, IsFiniteSet(M), K \cap M = {}
    PROVE  Weight(w, K \cup M) = Weight(w, K) + Weight(w, M)
<1>1. Units(w, K \cup M) = Units(w, K) \cup Units(w, M)
  BY DEF Units
<1>2. Units(w, K) \cap Units(w, M) = {}
  <2>1. SUFFICES ASSUME NEW x \in Units(w, K), x \in Units(w, M)
                 PROVE  FALSE
    OBVIOUS
  <2>2. x[1] \in K /\ x[1] \in M
    BY <2>1 DEF Units
  <2> QED BY <2>2
<1>3. /\ IsFiniteSet(Units(w, K)) /\ Weight(w, K) \in Nat
      /\ IsFiniteSet(Units(w, M)) /\ Weight(w, M) \in Nat
  BY UnitsFinite
<1>4. Cardinality(Units(w, K) \cup Units(w, M))
        = Cardinality(Units(w, K)) + Cardinality(Units(w, M)) - Cardinality({})
  BY <1>2, <1>3, FS_Union
<1>5. Cardinality({}) = 0
  BY FS_EmptySet
<1>6. Weight(w, K \cup M) = Weight(w, K) + Weight(w, M) - 0
  BY <1>1, <1>4, <1>5 DEF Weight
<1> QED BY <1>3, <1>6

(* One booking weighs what its listing does.                                *)
LEMMA WeightOne ==
    ASSUME NEW w \in Weighing, NEW k \in Key
    PROVE  Weight(w, {k}) = w[k.listing]
<1> DEFINE n == w[k.listing]
<1>1. k.listing \in Listing
  BY DEF Key
<1>2. n \in 0..MaxUnit /\ MaxUnit \in Nat
  BY <1>1, UnitAssumption DEF Weighing
<1>3. Units(w, {k}) = {k} \X (1..n)
  <2>1. ASSUME NEW x \in Units(w, {k}) PROVE x \in {k} \X (1..n)
    BY <2>1, <1>2 DEF Units
  <2>2. ASSUME NEW x \in {k} \X (1..n) PROVE x \in Units(w, {k})
    BY <2>2, <1>2 DEF Units
  <2> QED BY <2>1, <2>2
<1>4. IsFiniteSet(1..n) /\ Cardinality(1..n) = n
  <2>1. 1 \in Int /\ n \in Int /\ n >= 0
    BY <1>2
  <2>2. IsFiniteSet(1..n) /\ Cardinality(1..n) = IF 1 > n THEN 0 ELSE n - 1 + 1
    BY <2>1, FS_Interval
  <2> HIDE DEF n
  <2> QED BY <2>1, <2>2
<1>5. IsFiniteSet({k}) /\ Cardinality({k}) = 1
  BY FS_Singleton
<1>6. Cardinality({k} \X (1..n)) = 1 * n
  <2>1. PICK S : S = 1..n
    OBVIOUS
  <2>2. PICK T : T = {k}
    OBVIOUS
  <2>3. /\ IsFiniteSet(S) /\ Cardinality(S) = n
        /\ IsFiniteSet(T) /\ Cardinality(T) = 1
    BY <1>4, <1>5, <2>1, <2>2
  <2>4. Cardinality(T \X S) = 1 * n
    BY <2>3, FS_Product
  <2> QED BY <2>1, <2>2, <2>4
<1>7. Weight(w, {k}) = 1 * n
  BY <1>3, <1>6 DEF Weight
<1>8. n \in Nat
  BY <1>2
<1> QED BY <1>7, <1>8

(* Nothing weighs nothing.                                                  *)
LEMMA WeightNone == ASSUME NEW w PROVE Weight(w, {}) = 0
<1>1. Units(w, {}) = {}
  BY DEF Units
<1> QED BY <1>1, FS_EmptySet DEF Weight

(* Taking one booking out of a set takes its weight out, so that a member   *)
(* never weighs more than the set.                                          *)
LEMMA WeightWithout ==
    ASSUME NEW w \in Weighing, NEW K \in SUBSET Key, IsFiniteSet(K), NEW k \in K
    PROVE  /\ Weight(w, K \ {k}) = Weight(w, K) - w[k.listing]
           /\ w[k.listing] <= Weight(w, K)
           /\ w[k.listing] \in Nat
<1>1. IsFiniteSet(K \ {k}) /\ IsFiniteSet({k})
  BY FS_RemoveElement, FS_Singleton
<1>2. Weight(w, (K \ {k}) \cup {k}) = Weight(w, K \ {k}) + Weight(w, {k})
  BY <1>1, WeightUnion
<1>3. (K \ {k}) \cup {k} = K
  OBVIOUS
<1>4. Weight(w, {k}) = w[k.listing]
  BY WeightOne
<1>5. Weight(w, K \ {k}) \in Nat /\ Weight(w, {k}) \in Nat
  BY <1>1, UnitsFinite
<1>6. Weight(w, K) = Weight(w, K \ {k}) + Weight(w, {k})
  BY <1>2, <1>3
<1> QED BY <1>4, <1>5, <1>6
=============================================================================
