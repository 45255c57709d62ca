------------------------- MODULE PersonalDataProofs -------------------------
(***************************************************************************)
(* What the store guarantees for every set of teens, listings, prices and   *)
(* opening ledgers, and whatever its callers do.                            *)
(*                                                                         *)
(* The properties of PersonalData are not inductive one by one: a commit    *)
(* keeps the evidence of older plans only because every transaction belongs *)
(* to a booking, and an outcome keeps the money non-negative only because   *)
(* the ledger matches the bookings.  PDInv is their conjunction with the    *)
(* facts in Grounded; it is inductive.                                      *)
(***************************************************************************)
EXTENDS WeightLemmas

Grounded ==
    /\ IsFiniteSet(bookings) /\ IsFiniteSet(CommittedPlans)
    /\ \A p \in plans : p.id.teen \in profiles
    /\ \A x \in txns : x.key \in bookings
    /\ \A t \in Teen : Balanced(opening[t])

PDInv ==
    /\ PDTypeOK
    /\ Grounded
    /\ LedgerMatchesBookings
    /\ LedgerStaysReadable
    /\ OneCommitPerVersion
    /\ ReplayIsAnswered
    /\ VersionCountsEffects
    /\ OutcomeRecordedOnce
    /\ LivePlanIsLatest
    /\ BookingsAuthorised

-----------------------------------------------------------------------------
(* Facts about plans and their keys *)

(* A plan has finitely many keys and at least one; all are of its teen.     *)
LEMMA KeysOfPlan ==
    ASSUME NEW i \in PlanId
    PROVE  /\ Keys(i) \subseteq Key /\ Keys(i) # {}
           /\ IsFiniteSet(Keys(i)) /\ Cardinality(Keys(i)) \in Nat
           /\ \A k \in Keys(i) : k.plan = i /\ k.listing \in i.items
<1>1. i.items \subseteq Listing /\ i.items # {}
  BY DEF PlanId
<1>2. Keys(i) \subseteq Key /\ \A k \in Keys(i) : k.plan = i /\ k.listing \in i.items
  BY <1>1 DEF Keys, Key
<1>3. Keys(i) # {}
  BY <1>1 DEF Keys
<1>4. IsFiniteSet(i.items)
  BY <1>1, ListingAssumption, FS_Subset
<1>5. IsFiniteSet(Keys(i))
  <2> DEFINE f == [l \in i.items |-> [plan |-> i, listing |-> l]]
  <2>1. f \in Surjection(i.items, Keys(i))
    BY DEF Surjection, Keys
  <2> QED BY <2>1, <1>4, FS_Surjection
<1> QED BY <1>2, <1>3, <1>5, FS_CardinalityType

(* Under the invariant, a plan whose commit is allowed is a known plan of a *)
(* set-up teen that is not booked, at the present version.                  *)
LEMMA AllowedPlan ==
    ASSUME PDInv, NEW i, CommitAllowed(i)
    PROVE  /\ i \in PlanId /\ i.teen \in Teen /\ i.teen \in profiles
           /\ i.version = ledger[i.teen].version
           /\ i \notin CommittedPlans
           /\ Keys(i) \cap bookings = {}
<1>1. i \in StoredIds
  BY DEF CommitAllowed
<1>2. i \in PlanId /\ i.teen \in profiles
  BY <1>1 DEF PDInv, PDTypeOK, Grounded, StoredIds, Plan
<1>3. i.teen \in Teen
  BY <1>2 DEF PlanId
<1>4. Keys(i) \cap bookings = {} /\ i.version = ledger[i.teen].version
  BY DEF CommitAllowed
<1>5. i \notin CommittedPlans
  <2>1. ASSUME i \in CommittedPlans PROVE FALSE
    <3>1. Keys(i) \subseteq bookings
      BY <2>1 DEF PDInv, ReplayIsAnswered
    <3> QED BY <3>1, <1>2, <1>4, KeysOfPlan
  <2> QED BY <2>1
<1> QED BY <1>2, <1>3, <1>4, <1>5

-----------------------------------------------------------------------------
(* The initial state *)

(* A blank store satisfies the invariant.                                   *)
LEMMA InitInv == ASSUME PDInit PROVE PDInv
<1> USE DEF PDInit
<1>1. BlankLedger \in Ledger /\ Balanced(BlankLedger)
  BY DEF BlankLedger, Ledger, Balanced
<1>2. PDTypeOK
  BY <1>1 DEF PDTypeOK
<1>3. CommittedPlans = {} /\ \A t \in Teen : BookedOf(t) = {}
  BY DEF CommittedPlans, BookedOf
<1>4. Grounded
  BY <1>1, <1>3, FS_EmptySet DEF Grounded
<1>5. LedgerMatchesBookings
  <2> SUFFICES ASSUME NEW t \in Teen
               PROVE  LET B == BookedOf(t) IN
                      /\ ledger[t].money_spent = opening[t].money_spent + Weight(Cost, B \cap reconciled)
                      /\ ledger[t].money_committed = opening[t].money_committed + Weight(Cost, B \ reconciled)
                      /\ ledger[t].hours_committed = opening[t].hours_committed + Weight(Duration, B \ reconciled)
                      /\ ledger[t].tries_used = opening[t].tries_used + Cardinality(B)
                      /\ ledger[t].tries_abandoned = opening[t].tries_abandoned + Cardinality(B \cap NoShows)
    BY DEF LedgerMatchesBookings
  <2>1. BookedOf(t) \cap reconciled = {} /\ BookedOf(t) \ reconciled = {}
        /\ BookedOf(t) = {} /\ BookedOf(t) \cap NoShows = {}
    BY <1>3
  <2>2. Weight(Cost, {}) = 0 /\ Weight(Duration, {}) = 0 /\ Cardinality({}) = 0
    BY WeightNone, FS_EmptySet
  <2>3. ledger[t] = BlankLedger /\ opening[t] = BlankLedger
    OBVIOUS
  <2> QED BY <2>1, <2>2, <2>3 DEF BlankLedger
<1>6. LedgerStaysReadable
  BY <1>1 DEF LedgerStaysReadable
<1>7. VersionCountsEffects
  <2> SUFFICES ASSUME NEW t \in Teen
               PROVE  ledger[t].version =
                        opening[t].version + Cardinality({i \in CommittedPlans : i.teen = t})
                                           + Cardinality({k \in reconciled : k.plan.teen = t})
    BY DEF VersionCountsEffects
  <2>1. {i \in CommittedPlans : i.teen = t} = {} /\ {k \in reconciled : k.plan.teen = t} = {}
    BY <1>3
  <2>2. ledger[t] = BlankLedger /\ opening[t] = BlankLedger /\ Cardinality({}) = 0
    BY FS_EmptySet
  <2> QED BY <2>1, <2>2 DEF BlankLedger
<1>8. OneCommitPerVersion /\ ReplayIsAnswered /\ OutcomeRecordedOnce
      /\ LivePlanIsLatest /\ BookingsAuthorised
  BY <1>3 DEF OneCommitPerVersion, ReplayIsAnswered, OutcomeRecordedOnce,
              LivePlanIsLatest, BookingsAuthorised
<1> QED BY <1>2, <1>4, <1>5, <1>6, <1>7, <1>8 DEF PDInv

-----------------------------------------------------------------------------
(* Steps that touch neither ledgers nor bookings *)

(* The parts of the invariant over ledgers and bookings are unaffected.     *)
LEMMA QuietStep ==
    ASSUME PDInv, UNCHANGED <<ledger, opening, bookings, reconciled, txns, attendance>>
    PROVE  /\ LedgerMatchesBookings' /\ LedgerStaysReadable' /\ OneCommitPerVersion'
           /\ ReplayIsAnswered' /\ VersionCountsEffects' /\ OutcomeRecordedOnce'
           /\ CommittedPlans' = CommittedPlans
<1>1. CommittedPlans' = CommittedPlans /\ NoShows' = NoShows
      /\ \A t \in Teen : BookedOf(t)' = BookedOf(t)
  BY DEF CommittedPlans, NoShows, BookedOf
<1>2. LedgerMatchesBookings'
  BY <1>1 DEF PDInv, LedgerMatchesBookings
<1>3. LedgerStaysReadable' /\ OneCommitPerVersion' /\ VersionCountsEffects'
  BY <1>1 DEF PDInv, LedgerStaysReadable, OneCommitPerVersion, VersionCountsEffects
<1>4. ReplayIsAnswered'
  BY <1>1 DEF PDInv, ReplayIsAnswered, EvidenceHolds
<1>5. OutcomeRecordedOnce'
  BY DEF PDInv, OutcomeRecordedOnce
<1> QED BY <1>1, <1>2, <1>3, <1>4, <1>5

(* A refused call, or a replay answered from the tables.                    *)
LEMMA StutterInv == ASSUME PDInv, UNCHANGED pdVars PROVE PDInv'
<1> USE DEF pdVars, ledgerVars, planVars, commitVars
<1>1. PDTypeOK'
  BY DEF PDInv, PDTypeOK
<1>2. CommittedPlans' = CommittedPlans
  BY QuietStep
<1>3. Grounded'
  BY <1>2 DEF PDInv, Grounded
<1>4. LivePlanIsLatest' /\ BookingsAuthorised'
  BY <1>2 DEF PDInv, LivePlanIsLatest, BookingsAuthorised, StoredIds
<1> QED BY <1>1, <1>3, <1>4, QuietStep DEF PDInv

(* A plan row saved as a draft; a colliding one is refused.                 *)
LEMMA SavePlanInv == ASSUME PDInv, NEW p \in Plan, SavePlan(p) PROVE PDInv'
<1> USE DEF SavePlan, ledgerVars, commitVars
<1>1. PDTypeOK'
  BY DEF PDInv, PDTypeOK
<1>2. CommittedPlans' = CommittedPlans
  BY QuietStep
<1>3. Grounded'
  BY <1>2 DEF PDInv, Grounded
<1>4. LivePlanIsLatest'
  BY <1>2 DEF PDInv, LivePlanIsLatest
<1>5. BookingsAuthorised'
  <2>1. StoredIds \subseteq StoredIds'
    BY DEF StoredIds
  <2>2. ASSUME NEW q \in plans', NEW o \in plans', q.id = o.id PROVE q = o
    <3>1. \A x, y \in plans : x.id = y.id => x = y
      BY DEF PDInv, BookingsAuthorised
    <3>2. \A x \in plans : x.id = p.id => x = p
      BY DEF Collides
    <3> QED BY <2>2, <3>1, <3>2
  <2> QED BY <2>1, <2>2 DEF PDInv, BookingsAuthorised
<1> QED BY <1>1, <1>3, <1>4, <1>5, QuietStep DEF PDInv

(* A Guardian verdict, approving or not, on any plan.                       *)
LEMMA VerdictInv ==
    ASSUME PDInv, NEW v \in [plan : PlanId, approved : BOOLEAN], SaveGuardianVerdict(v)
    PROVE  PDInv'
<1> USE DEF SaveGuardianVerdict, ledgerVars, planVars
<1>1. PDTypeOK'
  BY DEF PDInv, PDTypeOK
<1>2. CommittedPlans' = CommittedPlans
  BY QuietStep
<1>3. Grounded'
  BY <1>2 DEF PDInv, Grounded
<1>4. LivePlanIsLatest' /\ BookingsAuthorised'
  BY <1>2 DEF PDInv, LivePlanIsLatest, BookingsAuthorised, StoredIds
<1> QED BY <1>1, <1>3, <1>4, QuietStep DEF PDInv

(* Flagging the live plans that hold a dead listing.                        *)
LEMMA FlagInv == ASSUME PDInv, NEW l \in Listing, FlagDeadListing(l) PROVE PDInv'
<1> USE DEF FlagDeadListing, ledgerVars, commitVars
<1>1. PDTypeOK'
  BY DEF PDInv, PDTypeOK
<1>2. CommittedPlans' = CommittedPlans
  BY QuietStep
<1>3. Grounded'
  BY <1>2 DEF PDInv, Grounded
<1>4. LivePlanIsLatest' /\ BookingsAuthorised'
  BY <1>2 DEF PDInv, LivePlanIsLatest, BookingsAuthorised, StoredIds
<1> QED BY <1>1, <1>3, <1>4, QuietStep DEF PDInv

(* A retired plan is live no longer; its bookings stay.                     *)
LEMMA RetireInv == ASSUME PDInv, NEW i, RetirePlan(i) PROVE PDInv'
<1> USE DEF RetirePlan, ledgerVars, commitVars
<1>1. PDTypeOK'
  BY DEF PDInv, PDTypeOK
<1>2. CommittedPlans' = CommittedPlans
  BY QuietStep
<1>3. Grounded'
  BY <1>2 DEF PDInv, Grounded
<1>4. LivePlanIsLatest' /\ BookingsAuthorised'
  BY <1>2 DEF PDInv, LivePlanIsLatest, BookingsAuthorised, StoredIds
<1> QED BY <1>1, <1>3, <1>4, QuietStep DEF PDInv

-----------------------------------------------------------------------------
(* Setting up a teen *)

(* A teen not set up yet has no plan, hence no booking to account for.      *)
LEMMA SetupInv ==
    ASSUME PDInv, NEW t \in Teen, NEW L \in OpeningLedger, SetupProfile(t, L)
    PROVE  PDInv'
<1> USE DEF SetupProfile, planVars, commitVars
<1>1. L \in Ledger /\ Balanced(L)
  BY OpeningAssumption
<1>2. PDTypeOK'
  BY <1>1 DEF PDInv, PDTypeOK
<1>3. ledger \in [Teen -> Ledger] /\ opening \in [Teen -> Ledger]
  BY DEF PDInv, PDTypeOK
<1>4. /\ ledger'[t] = L /\ opening'[t] = L
      /\ \A u \in Teen \ {t} : ledger'[u] = ledger[u] /\ opening'[u] = opening[u]
  BY <1>3
<1>5. CommittedPlans' = CommittedPlans /\ StoredIds' = StoredIds /\ NoShows' = NoShows
      /\ \A u \in Teen : BookedOf(u)' = BookedOf(u)
  BY DEF CommittedPlans, StoredIds, NoShows, BookedOf
<1>6. \A k \in bookings : k.plan.teen \in profiles /\ k.plan.teen \in Teen /\ k.plan.teen # t
  <2>1. \A k \in bookings : k.plan \in StoredIds /\ k.plan \in PlanId
    BY DEF PDInv, BookingsAuthorised, PDTypeOK, Key
  <2>2. \A i \in StoredIds : i.teen \in profiles
    BY DEF PDInv, Grounded, StoredIds
  <2> QED BY <2>1, <2>2 DEF PlanId
<1>7. Grounded'
  BY <1>1, <1>4, <1>5 DEF PDInv, Grounded
<1>8. BookedOf(t) = {} /\ \A i \in CommittedPlans : i.teen # t /\ i.teen \in Teen
  BY <1>6 DEF BookedOf, CommittedPlans
<1>9. L.money_spent \in Nat /\ L.money_committed \in Nat /\ L.hours_committed \in Nat
      /\ L.tries_used \in Nat /\ L.tries_abandoned \in Nat /\ L.version \in Nat
  BY <1>1 DEF Ledger
<1>10. LedgerMatchesBookings'
  <2> SUFFICES ASSUME NEW u \in Teen
               PROVE  /\ ledger'[u].money_spent = opening'[u].money_spent + Weight(Cost, BookedOf(u) \cap reconciled)
                      /\ ledger'[u].money_committed = opening'[u].money_committed + Weight(Cost, BookedOf(u) \ reconciled)
                      /\ ledger'[u].hours_committed = opening'[u].hours_committed + Weight(Duration, BookedOf(u) \ reconciled)
                      /\ ledger'[u].tries_used = opening'[u].tries_used + Cardinality(BookedOf(u))
                      /\ ledger'[u].tries_abandoned = opening'[u].tries_abandoned + Cardinality(BookedOf(u) \cap NoShows)
    BY <1>5 DEF LedgerMatchesBookings
  <2>1. CASE u = t
    <3>1. BookedOf(u) = {} /\ BookedOf(u) \cap reconciled = {} /\ BookedOf(u) \ reconciled = {}
          /\ BookedOf(u) \cap NoShows = {}
      BY <1>8, <2>1
    <3>2. Weight(Cost, {}) = 0 /\ Weight(Duration, {}) = 0 /\ Cardinality({}) = 0
      BY WeightNone, FS_EmptySet
    <3> QED BY <1>4, <1>9, <2>1, <3>1, <3>2
  <2>2. CASE u # t
    BY <1>4, <2>2 DEF PDInv, LedgerMatchesBookings
  <2> QED BY <2>1, <2>2
<1>11. LedgerStaysReadable'
  BY <1>1, <1>4 DEF PDInv, LedgerStaysReadable
<1>12. OneCommitPerVersion'
  BY <1>4, <1>6 DEF PDInv, OneCommitPerVersion
<1>13. ReplayIsAnswered'
  BY <1>4, <1>5, <1>8 DEF PDInv, ReplayIsAnswered, EvidenceHolds
<1>14. VersionCountsEffects'
  <2> SUFFICES ASSUME NEW u \in Teen
               PROVE  ledger'[u].version =
                        opening'[u].version + Cardinality({i \in CommittedPlans : i.teen = u})
                                            + Cardinality({k \in reconciled : k.plan.teen = u})
    BY <1>5 DEF VersionCountsEffects
  <2>1. CASE u = t
    <3>1. reconciled \subseteq bookings
      BY DEF PDInv, OutcomeRecordedOnce
    <3>2. {i \in CommittedPlans : i.teen = u} = {} /\ {k \in reconciled : k.plan.teen = u} = {}
      BY <1>6, <1>8, <2>1, <3>1
    <3>3. Cardinality({}) = 0
      BY FS_EmptySet
    <3>4. Cardinality({i \in CommittedPlans : i.teen = u}) = 0
          /\ Cardinality({k \in reconciled : k.plan.teen = u}) = 0
      BY <3>2, <3>3
    <3>5. ledger'[u].version = L.version /\ opening'[u].version = L.version
      BY <1>4, <2>1
    <3> HIDE DEF SetupProfile
    <3> QED BY <1>9, <3>4, <3>5
  <2>2. CASE u # t
    BY <1>4, <2>2 DEF PDInv, VersionCountsEffects
  <2> QED BY <2>1, <2>2
<1>15. OutcomeRecordedOnce' /\ LivePlanIsLatest' /\ BookingsAuthorised'
  BY <1>5 DEF PDInv, OutcomeRecordedOnce, LivePlanIsLatest, BookingsAuthorised
<1> QED BY <1>2, <1>7, <1>10, <1>11, <1>12, <1>13, <1>14, <1>15 DEF PDInv

-----------------------------------------------------------------------------
(* Committing a plan *)

(* What a commit does to the ledger row of its teen.                        *)
LEMMA ChargedRow ==
    ASSUME NEW L \in Ledger, NEW K, IsFiniteSet(K)
    PROVE  /\ Charged(L, K) \in Ledger
           /\ Charged(L, K).money_committed = L.money_committed + Weight(Cost, K)
           /\ Charged(L, K).hours_committed = L.hours_committed + Weight(Duration, K)
           /\ Charged(L, K).tries_used = L.tries_used + Cardinality(K)
           /\ Charged(L, K).version = L.version + 1
           /\ Charged(L, K).money_spent = L.money_spent
           /\ Charged(L, K).tries_abandoned = L.tries_abandoned
           /\ Charged(L, K).money_total = L.money_total
           /\ Charged(L, K).hours_per_week = L.hours_per_week
           /\ Charged(L, K).tries_total = L.tries_total
<1> DEFINE c == Weight(Cost, K)
           h == Weight(Duration, K)
           n == Cardinality(K)
<1>1. c \in Nat /\ h \in Nat /\ n \in Nat
  BY UnitsFinite, FS_CardinalityType
<1>2. Charged(L, K) = [L EXCEPT !.money_committed = @ + c, !.hours_committed = @ + h,
                                !.tries_used = @ + n, !.version = @ + 1]
  BY DEF Charged
<1> HIDE DEF c, h, n
<1>3. Charged(L, K) \in Ledger
  <2>1. L.money_committed + c \in Nat /\ L.hours_committed + h \in Nat
        /\ L.tries_used + n \in Nat /\ L.version + 1 \in Nat
    BY <1>1 DEF Ledger
  <2> DEFINE A == [L EXCEPT !.money_committed = L.money_committed + c]
             E == [A EXCEPT !.hours_committed = L.hours_committed + h]
             F == [E EXCEPT !.tries_used = L.tries_used + n]
             G == [F EXCEPT !.version = L.version + 1]
  <2>2. A \in Ledger
    BY <2>1 DEF Ledger
  <2> HIDE DEF A
  <2>3. E \in Ledger
    BY <2>1, <2>2 DEF Ledger
  <2> HIDE DEF E
  <2>4. F \in Ledger
    BY <2>1, <2>3 DEF Ledger
  <2> HIDE DEF F
  <2>5. G \in Ledger
    BY <2>1, <2>4 DEF Ledger
  <2> HIDE DEF G
  <2>6. G = Charged(L, K)
    BY <1>2 DEF A, E, F, G
  <2> QED BY <2>5, <2>6
<1>4. /\ Charged(L, K).money_committed = L.money_committed + c
      /\ Charged(L, K).hours_committed = L.hours_committed + h
      /\ Charged(L, K).tries_used = L.tries_used + n
      /\ Charged(L, K).version = L.version + 1
      /\ Charged(L, K).money_spent = L.money_spent
      /\ Charged(L, K).tries_abandoned = L.tries_abandoned
      /\ Charged(L, K).money_total = L.money_total
      /\ Charged(L, K).hours_per_week = L.hours_per_week
      /\ Charged(L, K).tries_total = L.tries_total
  BY <1>2 DEF Ledger
<1> QED BY <1>3, <1>4 DEF c, h, n

(* What a commit does to the sets the properties speak of.                  *)
LEMMA CommitSets ==
    ASSUME PDInv, NEW i, CommitPlanBookings(i)
    PROVE  /\ CommittedPlans' = CommittedPlans \cup {i}
           /\ BookedOf(i.teen)' = BookedOf(i.teen) \cup Keys(i)
           /\ \A u \in Teen \ {i.teen} : BookedOf(u)' = BookedOf(u)
           /\ NoShows' = NoShows
           /\ StoredIds' = StoredIds
           /\ reconciled \cap Keys(i) = {} /\ NoShows \cap Keys(i) = {}
           /\ BookedOf(i.teen) \cap Keys(i) = {}
<1> USE DEF CommitPlanBookings
<1>1. i \in PlanId /\ Keys(i) \cap bookings = {}
  BY AllowedPlan
<1>2. Keys(i) # {} /\ \A k \in Keys(i) : k.plan = i
  BY <1>1, KeysOfPlan
<1>3. bookings' = bookings \cup Keys(i)
  OBVIOUS
<1>4. CommittedPlans' = CommittedPlans \cup {i}
  BY <1>2, <1>3 DEF CommittedPlans
<1>5. BookedOf(i.teen)' = BookedOf(i.teen) \cup Keys(i)
      /\ \A u \in Teen \ {i.teen} : BookedOf(u)' = BookedOf(u)
  BY <1>2, <1>3 DEF BookedOf
<1>6. /\ \A a \in attendance : a.key \in bookings
      /\ reconciled \subseteq bookings
  BY DEF PDInv, OutcomeRecordedOnce
<1>7. \A k \in Keys(i) : [key |-> k, attended |-> FALSE] \notin attendance
  BY <1>1, <1>6
<1>8. NoShows' = NoShows
  BY <1>3, <1>7 DEF NoShows
<1>9. reconciled \cap Keys(i) = {} /\ NoShows \cap Keys(i) = {}
      /\ BookedOf(i.teen) \cap Keys(i) = {}
  BY <1>1, <1>6 DEF NoShows, BookedOf
<1> QED BY <1>4, <1>5, <1>8, <1>9 DEF StoredIds

(* A commit keeps the whole invariant: it is charged in full to the row of  *)
(* its teen, and every other plan keeps its evidence.                       *)
LEMMA CommitInv == ASSUME PDInv, NEW i, CommitPlanBookings(i) PROVE PDInv'
<1> DEFINE t == i.teen
           L == ledger[t]
           K == Keys(i)
           B == BookedOf(t)
<1>1. /\ i \in PlanId /\ t \in Teen /\ i.version = L.version
      /\ K \cap bookings = {} /\ i \notin CommittedPlans /\ CommitAllowed(i)
  BY AllowedPlan DEF CommitPlanBookings
<1>2. /\ K \subseteq Key /\ K # {} /\ IsFiniteSet(K) /\ Cardinality(K) \in Nat
      /\ \A k \in K : k.plan = i /\ k.listing \in i.items
  BY <1>1, KeysOfPlan
<1>3. /\ ledger \in [Teen -> Ledger] /\ opening \in [Teen -> Ledger] /\ L \in Ledger
      /\ IsFiniteSet(bookings)
  BY <1>1 DEF PDInv, PDTypeOK, Grounded
<1>4. /\ bookings' = bookings \cup K
      /\ txns' = txns \cup {[key |-> k, before |-> L.version, after |-> L.version + 1] : k \in K}
      /\ ledger' = [ledger EXCEPT ![t] = Charged(L, K)]
      /\ live' = {j \in live : j.teen # t} \cup {i}
      /\ flagged' = flagged \ {i}
      /\ UNCHANGED <<profiles, opening, plans, verdicts, reconciled, attendance>>
  BY DEF CommitPlanBookings
<1>5. /\ Charged(L, K) \in Ledger
      /\ ledger'[t] = Charged(L, K)
      /\ \A u \in Teen \ {t} : ledger'[u] = ledger[u]
  BY <1>1, <1>2, <1>3, <1>4, ChargedRow
<1>6. /\ CommittedPlans' = CommittedPlans \cup {i}
      /\ BookedOf(t)' = B \cup K
      /\ \A u \in Teen \ {t} : BookedOf(u)' = BookedOf(u)
      /\ NoShows' = NoShows /\ StoredIds' = StoredIds
      /\ reconciled \cap K = {} /\ NoShows \cap K = {} /\ B \cap K = {}
  BY CommitSets
<1> HIDE DEF t, L, K, B
<1>7. PDTypeOK'
  <2>1. ledger' \in [Teen -> Ledger]
    BY <1>3, <1>4, <1>5
  <2>2. L.version \in Nat
    BY <1>3 DEF Ledger
  <2>3. txns' \subseteq [key : Key, before : Nat, after : Nat]
    <3>1. \A k \in K : [key |-> k, before |-> L.version, after |-> L.version + 1]
                          \in [key : Key, before : Nat, after : Nat]
      BY <1>2, <2>2
    <3> QED BY <1>4, <3>1 DEF PDInv, PDTypeOK
  <2>4. live' \subseteq PlanId /\ flagged' \subseteq PlanId /\ bookings' \subseteq Key
    BY <1>1, <1>2, <1>4 DEF PDInv, PDTypeOK
  <2> QED BY <1>4, <2>1, <2>3, <2>4 DEF PDInv, PDTypeOK
<1>8. Grounded'
  <2>1. IsFiniteSet(bookings')
    BY <1>2, <1>3, <1>4, FS_Union
  <2>2. IsFiniteSet(CommittedPlans')
    BY <1>6, FS_AddElement DEF PDInv, Grounded
  <2>3. \A x \in txns' : x.key \in bookings'
    BY <1>4 DEF PDInv, Grounded
  <2> QED BY <1>4, <2>1, <2>2, <2>3 DEF PDInv, Grounded
<1>9. LedgerMatchesBookings'
  <2> SUFFICES ASSUME NEW u \in Teen
               PROVE  /\ ledger'[u].money_spent = opening[u].money_spent + Weight(Cost, BookedOf(u)' \cap reconciled)
                      /\ ledger'[u].money_committed = opening[u].money_committed + Weight(Cost, BookedOf(u)' \ reconciled)
                      /\ ledger'[u].hours_committed = opening[u].hours_committed + Weight(Duration, BookedOf(u)' \ reconciled)
                      /\ ledger'[u].tries_used = opening[u].tries_used + Cardinality(BookedOf(u)')
                      /\ ledger'[u].tries_abandoned = opening[u].tries_abandoned + Cardinality(BookedOf(u)' \cap NoShows)
    BY <1>4, <1>6 DEF LedgerMatchesBookings
  <2>1. CASE u # t
    BY <1>5, <1>6, <2>1 DEF PDInv, LedgerMatchesBookings
  <2>2. CASE u = t
    <3>1. /\ L.money_spent = opening[t].money_spent + Weight(Cost, B \cap reconciled)
          /\ L.money_committed = opening[t].money_committed + Weight(Cost, B \ reconciled)
          /\ L.hours_committed = opening[t].hours_committed + Weight(Duration, B \ reconciled)
          /\ L.tries_used = opening[t].tries_used + Cardinality(B)
          /\ L.tries_abandoned = opening[t].tries_abandoned + Cardinality(B \cap NoShows)
      BY <1>1 DEF PDInv, LedgerMatchesBookings, B, L
    <3>2. /\ (B \cup K) \cap reconciled = B \cap reconciled
          /\ (B \cup K) \ reconciled = (B \ reconciled) \cup K
          /\ (B \ reconciled) \cap K = {}
          /\ (B \cup K) \cap NoShows = B \cap NoShows
      BY <1>6
    <3>3. IsFiniteSet(B) /\ IsFiniteSet(B \ reconciled)
      BY <1>3, FS_Subset DEF B, BookedOf
    <3>4. /\ Weight(Cost, (B \ reconciled) \cup K) = Weight(Cost, B \ reconciled) + Weight(Cost, K)
          /\ Weight(Duration, (B \ reconciled) \cup K) = Weight(Duration, B \ reconciled) + Weight(Duration, K)
      BY <1>2, <3>2, <3>3, WeightUnion
    <3>5. Cardinality(B \cup K) = Cardinality(B) + Cardinality(K)
      <4>1. Cardinality(B \cup K) = Cardinality(B) + Cardinality(K) - Cardinality({})
        BY <1>2, <1>6, <3>3, FS_Union
      <4>2. Cardinality({}) = 0 /\ Cardinality(B) \in Nat
        BY <3>3, FS_EmptySet, FS_CardinalityType
      <4> QED BY <1>2, <4>1, <4>2
    <3>6. /\ Weight(Cost, B \ reconciled) \in Nat /\ Weight(Duration, B \ reconciled) \in Nat
          /\ Weight(Cost, K) \in Nat /\ Weight(Duration, K) \in Nat /\ Cardinality(B) \in Nat
      BY <1>2, <3>3, UnitsFinite, FS_CardinalityType
    <3>7. /\ opening[t].money_committed \in Nat /\ opening[t].hours_committed \in Nat
          /\ opening[t].tries_used \in Nat
      BY <1>1, <1>3 DEF Ledger
    <3>8. /\ ledger'[t].money_spent = L.money_spent
          /\ ledger'[t].money_committed = L.money_committed + Weight(Cost, K)
          /\ ledger'[t].hours_committed = L.hours_committed + Weight(Duration, K)
          /\ ledger'[t].tries_used = L.tries_used + Cardinality(K)
          /\ ledger'[t].tries_abandoned = L.tries_abandoned
      BY <1>2, <1>3, <1>5, ChargedRow
    <3>9. /\ ledger'[t].money_spent = opening[t].money_spent + Weight(Cost, (B \cup K) \cap reconciled)
          /\ ledger'[t].tries_abandoned = opening[t].tries_abandoned + Cardinality((B \cup K) \cap NoShows)
      BY <3>1, <3>2, <3>8
    <3>10. ledger'[t].money_committed = opening[t].money_committed + Weight(Cost, (B \cup K) \ reconciled)
      <4>1. Weight(Cost, (B \cup K) \ reconciled) = Weight(Cost, B \ reconciled) + Weight(Cost, K)
        BY <3>2, <3>4
      <4>2. ledger'[t].money_committed
              = opening[t].money_committed + Weight(Cost, B \ reconciled) + Weight(Cost, K)
        BY <3>1, <3>8
      <4> QED BY <3>6, <3>7, <4>1, <4>2
    <3>11. ledger'[t].hours_committed = opening[t].hours_committed + Weight(Duration, (B \cup K) \ reconciled)
      <4>1. Weight(Duration, (B \cup K) \ reconciled) = Weight(Duration, B \ reconciled) + Weight(Duration, K)
        BY <3>2, <3>4
      <4>2. ledger'[t].hours_committed
              = opening[t].hours_committed + Weight(Duration, B \ reconciled) + Weight(Duration, K)
        BY <3>1, <3>8
      <4> QED BY <3>6, <3>7, <4>1, <4>2
    <3>12. ledger'[t].tries_used = opening[t].tries_used + Cardinality(B \cup K)
      BY <1>2, <3>1, <3>5, <3>6, <3>7, <3>8
    <3> QED BY <1>6, <2>2, <3>9, <3>10, <3>11, <3>12
  <2> QED BY <2>1, <2>2
<1>10. LedgerStaysReadable'
  <2>1. /\ Weight(Cost, K) <= MoneyRemaining(L) /\ Weight(Duration, K) <= HoursRemaining(L)
        /\ Cardinality(K) <= TriesRemaining(L)
    BY <1>1 DEF CommitAllowed, L, t, K
  <2>2. Weight(Cost, K) \in Nat /\ Weight(Duration, K) \in Nat
    BY <1>2, UnitsFinite
  <2>3. Balanced(L) /\ L.money_total = opening[t].money_total
        /\ L.hours_per_week = opening[t].hours_per_week /\ L.tries_total = opening[t].tries_total
    BY <1>1 DEF PDInv, LedgerStaysReadable, L
  <2>4. /\ Charged(L, K).money_committed = L.money_committed + Weight(Cost, K)
        /\ Charged(L, K).hours_committed = L.hours_committed + Weight(Duration, K)
        /\ Charged(L, K).tries_used = L.tries_used + Cardinality(K)
        /\ Charged(L, K).money_spent = L.money_spent
        /\ Charged(L, K).tries_abandoned = L.tries_abandoned
        /\ Charged(L, K).money_total = L.money_total
        /\ Charged(L, K).hours_per_week = L.hours_per_week
        /\ Charged(L, K).tries_total = L.tries_total
    BY <1>2, <1>3, ChargedRow
  <2>5. Balanced(Charged(L, K))
    BY <1>2, <1>3, <2>1, <2>2, <2>3, <2>4
       DEF Balanced, MoneyRemaining, HoursRemaining, TriesRemaining, Ledger
  <2> SUFFICES ASSUME NEW u \in Teen
               PROVE  /\ Balanced(ledger'[u])
                      /\ ledger'[u].money_total = opening[u].money_total
                      /\ ledger'[u].hours_per_week = opening[u].hours_per_week
                      /\ ledger'[u].tries_total = opening[u].tries_total
    BY <1>4 DEF LedgerStaysReadable
  <2>6. CASE u = t
    BY <1>5, <2>3, <2>4, <2>5, <2>6
  <2>7. CASE u # t
    BY <1>5, <2>7 DEF PDInv, LedgerStaysReadable
  <2> QED BY <2>6, <2>7
<1>11. ledger'[t].version = L.version + 1 /\ L.version \in Nat
  BY <1>2, <1>3, <1>5, ChargedRow DEF Ledger
<1>12. \A k \in bookings : k.plan.teen \in Teen /\ k.plan.version \in Nat /\ k \in Key
                           /\ k.plan.version < ledger[k.plan.teen].version
  BY BoundAssumption DEF PDInv, PDTypeOK, Key, PlanId, OneCommitPerVersion
<1>13. OneCommitPerVersion'
  <2>1. ASSUME NEW k \in bookings', NEW m \in bookings',
               k.plan.teen = m.plan.teen, k.plan.version = m.plan.version
        PROVE  k.plan = m.plan
    <3>1. CASE k \in bookings /\ m \in bookings
      BY <2>1, <3>1 DEF PDInv, OneCommitPerVersion
    <3>2. CASE k \in K /\ m \in K
      BY <1>2, <3>2
    <3>3. CASE k \in bookings /\ m \in K
      BY <1>1, <1>2, <1>11, <1>12, <2>1, <3>3 DEF L, t
    <3>4. CASE k \in K /\ m \in bookings
      BY <1>1, <1>2, <1>11, <1>12, <2>1, <3>4 DEF L, t
    <3> QED BY <1>4, <3>1, <3>2, <3>3, <3>4
  <2>2. ASSUME NEW k \in bookings' PROVE k.plan.version < ledger'[k.plan.teen].version
    <3>1. CASE k \in K
      BY <1>1, <1>2, <1>11, <3>1 DEF t
    <3>2. CASE k \in bookings /\ k.plan.teen = t
      <4>1. k.plan.version < L.version /\ k.plan.version \in Nat
        BY <1>12, <3>2 DEF L
      <4> QED BY <1>11, <3>2, <4>1
    <3>3. CASE k \in bookings /\ k.plan.teen # t
      BY <1>5, <1>12, <3>3
    <3> QED BY <1>4, <3>1, <3>2, <3>3
  <2> QED BY <2>1, <2>2 DEF OneCommitPerVersion
<1>14. ReplayIsAnswered'
  <2> SUFFICES ASSUME NEW j \in CommittedPlans'
               PROVE  Keys(j) \subseteq bookings' /\ EvidenceHolds(j)'
    BY DEF ReplayIsAnswered, Keys
  <2>1. CASE j = i
    <3>1. {x \in txns' : x.key \in K}
            = {[key |-> k, before |-> L.version, after |-> L.version + 1] : k \in K}
      BY <1>1, <1>4 DEF PDInv, Grounded
    <3> DEFINE new(k) == [key |-> k, before |-> L.version, after |-> L.version + 1]
               rows == {x \in txns' : x.key \in K}
    <3>2. /\ \A k \in K : \E x \in rows : x.key = k
          /\ \A x \in rows : x.before = L.version /\ x.after = L.version + 1
      <4>1. \A k \in K : new(k) \in rows /\ new(k).key = k
        BY <3>1
      <4>2. \A x \in rows : \E k \in K : x = new(k)
        BY <3>1
      <4>3. \A k : new(k).before = L.version /\ new(k).after = L.version + 1
        OBVIOUS
      <4> HIDE DEF new, rows
      <4> QED BY <4>1, <4>2, <4>3
    <3>3. L.version + 1 <= ledger'[t].version
      BY <1>11
    <3>4. EvidenceHolds(i)'
      BY <3>2, <3>3 DEF EvidenceHolds, K, t, Keys
    <3> QED BY <1>4, <2>1, <3>4 DEF K
  <2>2. CASE j # i
    <3>1. j \in CommittedPlans
      BY <1>6, <2>2
    <3>2. Keys(j) \subseteq bookings /\ EvidenceHolds(j)
      BY <3>1 DEF PDInv, ReplayIsAnswered
    <3>3. {x \in txns' : x.key \in Keys(j)} = {x \in txns : x.key \in Keys(j)}
      BY <1>1, <1>4, <3>2
    <3>4. j.teen \in Teen
      BY <1>12, <3>1 DEF CommittedPlans
    <3>5. ledger[j.teen].version <= ledger'[j.teen].version /\ ledger[j.teen].version \in Nat
          /\ ledger'[j.teen].version \in Nat
      BY <1>3, <1>5, <1>11, <3>4 DEF L, Ledger
    <3>6. \A x \in txns : x.after \in Nat
      BY DEF PDInv, PDTypeOK
    <3>7. EvidenceHolds(j)'
      BY <3>2, <3>3, <3>5, <3>6 DEF EvidenceHolds, Keys
    <3> QED BY <1>4, <3>2, <3>7
  <2> QED BY <2>1, <2>2
<1>15. VersionCountsEffects'
  <2> SUFFICES ASSUME NEW u \in Teen
               PROVE  ledger'[u].version =
                        opening[u].version + Cardinality({j \in CommittedPlans' : j.teen = u})
                                           + Cardinality({k \in reconciled : k.plan.teen = u})
    BY <1>4 DEF VersionCountsEffects
  <2> DEFINE C == {j \in CommittedPlans : j.teen = u}
             R == {k \in reconciled : k.plan.teen = u}
  <2>1. ledger[u].version = opening[u].version + Cardinality(C) + Cardinality(R)
    BY DEF PDInv, VersionCountsEffects
  <2>2. CASE u # t
    <3>1. {j \in CommittedPlans' : j.teen = u} = C
      BY <1>6, <2>2 DEF t
    <3> QED BY <1>5, <2>1, <2>2, <3>1
  <2>3. CASE u = t
    <3>1. {j \in CommittedPlans' : j.teen = u} = C \cup {i}
      BY <1>6, <2>3 DEF t
    <3>2. IsFiniteSet(C) /\ i \notin C
      BY <1>1, FS_Subset DEF PDInv, Grounded
    <3>3. Cardinality(C \cup {i}) = Cardinality(C) + 1 /\ Cardinality(C) \in Nat
      BY <3>2, FS_AddElement, FS_CardinalityType
    <3>4. IsFiniteSet(R)
      BY <1>3, FS_Subset DEF PDInv, OutcomeRecordedOnce
    <3>5. Cardinality(R) \in Nat /\ opening[u].version \in Nat
      BY <1>3, <3>4, FS_CardinalityType DEF Ledger
    <3>6. ledger'[u].version = ledger[u].version + 1
      BY <1>11, <2>3 DEF L
    <3>7. Cardinality({j \in CommittedPlans' : j.teen = u}) = Cardinality(C) + 1
      BY <3>1, <3>3
    <3> HIDE DEF C
    <3>8. ledger'[u].version = opening[u].version + (Cardinality(C) + 1) + Cardinality(R)
      <4> HIDE DEF R
      <4> QED BY <2>1, <3>3, <3>5, <3>6
    <3> QED BY <3>7, <3>8
  <2> QED BY <2>2, <2>3
<1>16. OutcomeRecordedOnce'
  BY <1>4 DEF PDInv, OutcomeRecordedOnce
<1>17. LivePlanIsLatest'
  <2>1. \A j \in CommittedPlans : j.teen = t => j.version < L.version /\ j.version \in Nat
    BY <1>12 DEF CommittedPlans, L
  <2> SUFFICES ASSUME NEW j \in live'
               PROVE  /\ j \in CommittedPlans'
                      /\ \A m \in CommittedPlans' : m.teen = j.teen => m.version <= j.version
                      /\ \A m \in live' : m.teen = j.teen => m = j
    BY DEF LivePlanIsLatest
  <2>2. CASE j = i
    BY <1>1, <1>4, <1>6, <1>11, <2>1, <2>2 DEF t
  <2>3. CASE j \in live /\ j.teen # t
    BY <1>4, <1>6, <2>3 DEF PDInv, LivePlanIsLatest, t
  <2> QED BY <1>4, <2>2, <2>3
<1>18. BookingsAuthorised'
  <2>1. i \in StoredIds /\ [plan |-> i, approved |-> TRUE] \in verdicts
    BY <1>1 DEF CommitAllowed
  <2> QED BY <1>2, <1>4, <1>6, <2>1 DEF PDInv, BookingsAuthorised
<1> QED BY <1>7, <1>8, <1>9, <1>10, <1>13, <1>14, <1>15, <1>16, <1>17, <1>18 DEF PDInv

-----------------------------------------------------------------------------
(* Recording an outcome *)

(* What an outcome does to the ledger row of its teen, when the row still   *)
(* carries the booking's money and hours.                                   *)
LEMMA SettledRow ==
    ASSUME NEW L \in Ledger, NEW k \in Key, NEW ok \in BOOLEAN,
           Cost[k.listing] <= L.money_committed, Duration[k.listing] <= L.hours_committed
    PROVE  /\ Settled(L, k, ok) \in Ledger
           /\ Settled(L, k, ok).money_spent = L.money_spent + Cost[k.listing]
           /\ Settled(L, k, ok).money_committed = L.money_committed - Cost[k.listing]
           /\ Settled(L, k, ok).hours_committed = L.hours_committed - Duration[k.listing]
           /\ Settled(L, k, ok).tries_abandoned = L.tries_abandoned + (IF ok THEN 0 ELSE 1)
           /\ Settled(L, k, ok).version = L.version + 1
           /\ Settled(L, k, ok).tries_used = L.tries_used
           /\ Settled(L, k, ok).money_total = L.money_total
           /\ Settled(L, k, ok).hours_per_week = L.hours_per_week
           /\ Settled(L, k, ok).tries_total = L.tries_total
<1> DEFINE c == Cost[k.listing]
           h == Duration[k.listing]
           spent == L.money_spent + c
           money == L.money_committed - c
           hours == IF L.hours_committed >= h THEN L.hours_committed - h ELSE 0
           abandoned == IF ok THEN L.tries_abandoned ELSE L.tries_abandoned + 1
<1>1. c \in Nat /\ h \in Nat
  BY UnitAssumption DEF Key
<1>2. /\ L.money_spent \in Nat /\ L.money_committed \in Nat /\ L.hours_committed \in Nat
      /\ L.tries_abandoned \in Nat /\ L.version \in Nat
  BY DEF Ledger
<1>3. c <= L.money_committed /\ h <= L.hours_committed
  OBVIOUS
<1>4. Settled(L, k, ok) =
        [L EXCEPT !.money_spent = spent, !.money_committed = money, !.hours_committed = hours,
                  !.tries_abandoned = abandoned, !.version = L.version + 1]
  BY DEF Settled
<1> HIDE DEF c, h
<1>5. /\ spent \in Nat /\ money \in Nat /\ hours \in Nat /\ abandoned \in Nat
      /\ L.version + 1 \in Nat
      /\ hours = L.hours_committed - h
      /\ abandoned = L.tries_abandoned + (IF ok THEN 0 ELSE 1)
  BY <1>1, <1>2, <1>3
<1> HIDE DEF spent, money, hours, abandoned
<1>6. Settled(L, k, ok) \in Ledger
  <2> DEFINE A == [L EXCEPT !.money_spent = spent]
             E == [A EXCEPT !.money_committed = money]
             F == [E EXCEPT !.hours_committed = hours]
             G == [F EXCEPT !.tries_abandoned = abandoned]
             H == [G EXCEPT !.version = L.version + 1]
  <2>1. A \in Ledger
    BY <1>5 DEF Ledger
  <2> HIDE DEF A
  <2>2. E \in Ledger
    BY <1>5, <2>1 DEF Ledger
  <2> HIDE DEF E
  <2>3. F \in Ledger
    BY <1>5, <2>2 DEF Ledger
  <2> HIDE DEF F
  <2>4. G \in Ledger
    BY <1>5, <2>3 DEF Ledger
  <2> HIDE DEF G
  <2>5. H \in Ledger
    BY <1>5, <2>4 DEF Ledger
  <2> HIDE DEF H
  <2>6. H = Settled(L, k, ok)
    BY <1>4 DEF A, E, F, G, H
  <2> QED BY <2>5, <2>6
<1>7. /\ Settled(L, k, ok).money_spent = spent
      /\ Settled(L, k, ok).money_committed = money
      /\ Settled(L, k, ok).hours_committed = hours
      /\ Settled(L, k, ok).tries_abandoned = abandoned
      /\ Settled(L, k, ok).version = L.version + 1
      /\ Settled(L, k, ok).tries_used = L.tries_used
      /\ Settled(L, k, ok).money_total = L.money_total
      /\ Settled(L, k, ok).hours_per_week = L.hours_per_week
      /\ Settled(L, k, ok).tries_total = L.tries_total
  BY <1>4 DEF Ledger
<1>8. spent = L.money_spent + Cost[k.listing] /\ money = L.money_committed - Cost[k.listing]
      /\ hours = L.hours_committed - Duration[k.listing]
  BY <1>5 DEF spent, money, c, h
<1> QED BY <1>5, <1>6, <1>7, <1>8

(* What an outcome does to the sets the properties speak of.                *)
LEMMA OutcomeSets ==
    ASSUME PDInv, NEW k \in bookings, NEW ok \in BOOLEAN, RecordOutcome(k, ok)
    PROVE  /\ k \in Key /\ k.plan.teen \in Teen
           /\ k \in BookedOf(k.plan.teen) \ reconciled
           /\ CommittedPlans' = CommittedPlans /\ StoredIds' = StoredIds
           /\ \A u \in Teen : BookedOf(u)' = BookedOf(u)
           /\ k \notin NoShows
           /\ NoShows' = IF ok THEN NoShows ELSE NoShows \cup {k}
<1> USE DEF RecordOutcome, planVars
<1>1. k \in Key /\ k \notin reconciled
  BY DEF PDInv, PDTypeOK
<1>2. k.plan.teen \in Teen
  BY <1>1 DEF Key, PlanId
<1>3. CommittedPlans' = CommittedPlans /\ StoredIds' = StoredIds
      /\ \A u \in Teen : BookedOf(u)' = BookedOf(u)
  BY DEF CommittedPlans, StoredIds, BookedOf
<1>4. k \notin NoShows
  BY DEF NoShows
<1>5. attendance' = attendance \cup {[key |-> k, attended |-> ok]} /\ bookings' = bookings
  OBVIOUS
<1>6. NoShows' = IF ok THEN NoShows ELSE NoShows \cup {k}
  <2>1. CASE ok
    BY <1>5, <2>1 DEF NoShows
  <2>2. CASE ~ok
    BY <1>5, <2>2 DEF NoShows
  <2> QED BY <2>1, <2>2
<1> QED BY <1>1, <1>2, <1>3, <1>4, <1>6 DEF BookedOf

(* An outcome keeps the whole invariant: the booking was still charged to   *)
(* its row, so settling it never takes the row below zero.                  *)
LEMMA OutcomeInv ==
    ASSUME PDInv, NEW k \in bookings, NEW ok \in BOOLEAN, RecordOutcome(k, ok)
    PROVE  PDInv'
<1> DEFINE t == k.plan.teen
           L == ledger[t]
           O == opening[t]
           B == BookedOf(t)
           N == Settled(L, k, ok)
           one == IF ok THEN 0 ELSE 1
<1>1. /\ k \in Key /\ t \in Teen /\ k \in B \ reconciled
      /\ CommittedPlans' = CommittedPlans /\ StoredIds' = StoredIds
      /\ \A u \in Teen : BookedOf(u)' = BookedOf(u)
      /\ k \notin NoShows
      /\ NoShows' = IF ok THEN NoShows ELSE NoShows \cup {k}
  BY OutcomeSets
<1>2. /\ ledger \in [Teen -> Ledger] /\ opening \in [Teen -> Ledger]
      /\ L \in Ledger /\ O \in Ledger
  BY <1>1 DEF PDInv, PDTypeOK
<1>3. /\ \A a \in attendance : a.key # k
      /\ ledger' = [ledger EXCEPT ![t] = N]
      /\ attendance' = attendance \cup {[key |-> k, attended |-> ok]}
      /\ reconciled' = reconciled \cup {k}
      /\ UNCHANGED <<profiles, opening, plans, live, flagged, verdicts, bookings, txns>>
  BY DEF RecordOutcome, planVars
<1>4. /\ IsFiniteSet(B) /\ IsFiniteSet(B \ reconciled) /\ IsFiniteSet(B \cap reconciled)
      /\ B \subseteq Key
  BY FS_Subset DEF PDInv, Grounded, PDTypeOK, BookedOf
<1>5. /\ L.money_spent = O.money_spent + Weight(Cost, B \cap reconciled)
      /\ L.money_committed = O.money_committed + Weight(Cost, B \ reconciled)
      /\ L.hours_committed = O.hours_committed + Weight(Duration, B \ reconciled)
      /\ L.tries_used = O.tries_used + Cardinality(B)
      /\ L.tries_abandoned = O.tries_abandoned + Cardinality(B \cap NoShows)
  BY <1>1 DEF PDInv, LedgerMatchesBookings
<1>6. /\ O.money_spent \in Nat /\ O.money_committed \in Nat /\ O.hours_committed \in Nat
      /\ O.tries_used \in Nat /\ O.tries_abandoned \in Nat
      /\ L.money_spent \in Nat /\ L.money_committed \in Nat /\ L.hours_committed \in Nat
      /\ L.money_total \in Nat /\ L.hours_per_week \in Nat /\ L.tries_total \in Nat
      /\ L.version \in Nat
  BY <1>2 DEF Ledger
<1> HIDE DEF t, L, O, B, N
<1>7. /\ Cost \in Weighing /\ Duration \in Weighing
      /\ Cost[k.listing] \in Nat /\ Duration[k.listing] \in Nat
  BY <1>1, UnitAssumption DEF Weighing, Key
<1>8. /\ Weight(Cost, (B \ reconciled) \ {k}) = Weight(Cost, B \ reconciled) - Cost[k.listing]
      /\ Cost[k.listing] <= Weight(Cost, B \ reconciled)
      /\ Weight(Duration, (B \ reconciled) \ {k}) = Weight(Duration, B \ reconciled) - Duration[k.listing]
      /\ Duration[k.listing] <= Weight(Duration, B \ reconciled)
  BY <1>1, <1>4, <1>7, WeightWithout
<1>9. Weight(Cost, (B \cap reconciled) \cup {k}) = Weight(Cost, B \cap reconciled) + Cost[k.listing]
  <2>1. IsFiniteSet({k}) /\ (B \cap reconciled) \cap {k} = {}
    BY <1>1, FS_Singleton
  <2>2. Weight(Cost, {k}) = Cost[k.listing]
    BY <1>1, <1>7, WeightOne
  <2> QED BY <1>4, <2>1, <2>2, WeightUnion
<1>10. /\ Weight(Cost, B \ reconciled) \in Nat /\ Weight(Duration, B \ reconciled) \in Nat
       /\ Weight(Cost, B \cap reconciled) \in Nat
  BY <1>4, UnitsFinite
<1>11. Cost[k.listing] <= L.money_committed /\ Duration[k.listing] <= L.hours_committed
  <2>1. Weight(Cost, B \ reconciled) <= L.money_committed
    BY <1>5, <1>6, <1>10
  <2>2. Weight(Duration, B \ reconciled) <= L.hours_committed
    BY <1>5, <1>6, <1>10
  <2> QED BY <1>6, <1>7, <1>8, <1>10, <2>1, <2>2
<1>12. /\ N \in Ledger
       /\ N.money_spent = L.money_spent + Cost[k.listing]
       /\ N.money_committed = L.money_committed - Cost[k.listing]
       /\ N.hours_committed = L.hours_committed - Duration[k.listing]
       /\ N.tries_abandoned = L.tries_abandoned + one
       /\ N.version = L.version + 1
       /\ N.tries_used = L.tries_used /\ N.money_total = L.money_total
       /\ N.hours_per_week = L.hours_per_week /\ N.tries_total = L.tries_total
  BY <1>1, <1>2, <1>11, SettledRow DEF N
<1>13. ledger'[t] = N /\ \A u \in Teen \ {t} : ledger'[u] = ledger[u]
  BY <1>1, <1>2, <1>3
<1> HIDE DEF one
<1>14. PDTypeOK'
  <2>1. ledger' \in [Teen -> Ledger]
    BY <1>2, <1>3, <1>12
  <2>2. attendance' \subseteq [key : Key, attended : BOOLEAN]
    BY <1>1, <1>3 DEF PDInv, PDTypeOK
  <2>3. reconciled' \subseteq Key
    BY <1>1, <1>3 DEF PDInv, PDTypeOK
  <2> QED BY <1>3, <2>1, <2>2, <2>3 DEF PDInv, PDTypeOK
<1>15. Grounded'
  BY <1>1, <1>3 DEF PDInv, Grounded
<1>16. Cardinality(B \cap NoShows') = Cardinality(B \cap NoShows) + one
       /\ Cardinality(B \cap NoShows') <= Cardinality(B)
       /\ Cardinality(B) \in Nat /\ Cardinality(B \cap NoShows) \in Nat
       /\ Cardinality(B \cap NoShows') \in Nat
  <2>1. /\ IsFiniteSet(B \cap NoShows) /\ IsFiniteSet(B \cap NoShows')
        /\ Cardinality(B \cap NoShows') <= Cardinality(B)
    BY <1>4, FS_Subset
  <2>2. /\ Cardinality(B) \in Nat /\ Cardinality(B \cap NoShows) \in Nat
        /\ Cardinality(B \cap NoShows') \in Nat
    BY <1>4, <2>1, FS_CardinalityType
  <2>3. CASE ok
    <3>1. B \cap NoShows' = B \cap NoShows
      BY <1>1, <2>3
    <3>2. one = 0
      BY <2>3 DEF one
    <3> QED BY <2>1, <2>2, <3>1, <3>2
  <2>4. CASE ~ok
    <3>1. B \cap NoShows' = (B \cap NoShows) \cup {k} /\ k \notin B \cap NoShows
      BY <1>1, <2>4
    <3>2. one = 1
      BY <2>4 DEF one
    <3>3. Cardinality((B \cap NoShows) \cup {k}) = Cardinality(B \cap NoShows) + 1
      BY <2>1, <3>1, FS_AddElement
    <3> QED BY <2>1, <2>2, <3>1, <3>2, <3>3
  <2> QED BY <2>3, <2>4
<1>17. one \in Nat
  BY DEF one
<1>18. LedgerMatchesBookings'
  <2> SUFFICES ASSUME NEW u \in Teen
               PROVE  /\ ledger'[u].money_spent = opening[u].money_spent + Weight(Cost, BookedOf(u) \cap reconciled')
                      /\ ledger'[u].money_committed = opening[u].money_committed + Weight(Cost, BookedOf(u) \ reconciled')
                      /\ ledger'[u].hours_committed = opening[u].hours_committed + Weight(Duration, BookedOf(u) \ reconciled')
                      /\ ledger'[u].tries_used = opening[u].tries_used + Cardinality(BookedOf(u))
                      /\ ledger'[u].tries_abandoned = opening[u].tries_abandoned + Cardinality(BookedOf(u) \cap NoShows')
    BY <1>1, <1>3 DEF LedgerMatchesBookings
  <2>1. CASE u # t
    <3>1. k \notin BookedOf(u)
      BY <2>1 DEF BookedOf, t
    <3>2. BookedOf(u) \cap reconciled' = BookedOf(u) \cap reconciled
          /\ BookedOf(u) \ reconciled' = BookedOf(u) \ reconciled
          /\ BookedOf(u) \cap NoShows' = BookedOf(u) \cap NoShows
      BY <1>1, <1>3, <3>1
    <3>3. ledger'[u] = ledger[u]
      BY <1>13, <2>1
    <3> QED BY <3>2, <3>3 DEF PDInv, LedgerMatchesBookings
  <2>2. CASE u = t
    <3>1. B \cap reconciled' = (B \cap reconciled) \cup {k}
          /\ B \ reconciled' = (B \ reconciled) \ {k}
      BY <1>1, <1>3
    <3>2. N.money_spent = O.money_spent + Weight(Cost, B \cap reconciled')
      <4>1. Weight(Cost, B \cap reconciled') = Weight(Cost, B \cap reconciled) + Cost[k.listing]
        BY <1>9, <3>1
      <4>2. N.money_spent = O.money_spent + Weight(Cost, B \cap reconciled) + Cost[k.listing]
        BY <1>5, <1>12
      <4> QED BY <1>6, <1>7, <1>10, <4>1, <4>2
    <3>3. N.money_committed = O.money_committed + Weight(Cost, B \ reconciled')
      <4>1. Weight(Cost, B \ reconciled') = Weight(Cost, B \ reconciled) - Cost[k.listing]
        BY <1>8, <3>1
      <4>2. N.money_committed = (O.money_committed + Weight(Cost, B \ reconciled)) - Cost[k.listing]
        BY <1>5, <1>12
      <4> QED BY <1>6, <1>7, <1>10, <4>1, <4>2
    <3>4. N.hours_committed = O.hours_committed + Weight(Duration, B \ reconciled')
      <4>1. Weight(Duration, B \ reconciled') = Weight(Duration, B \ reconciled) - Duration[k.listing]
        BY <1>8, <3>1
      <4>2. N.hours_committed = (O.hours_committed + Weight(Duration, B \ reconciled)) - Duration[k.listing]
        BY <1>5, <1>12
      <4> QED BY <1>6, <1>7, <1>10, <4>1, <4>2
    <3>5. N.tries_used = O.tries_used + Cardinality(B)
      BY <1>5, <1>12
    <3>6. N.tries_abandoned = O.tries_abandoned + Cardinality(B \cap NoShows')
      <4>1. N.tries_abandoned = O.tries_abandoned + Cardinality(B \cap NoShows) + one
        BY <1>5, <1>12
      <4> QED BY <1>6, <1>16, <1>17, <4>1
    <3>7. ledger'[u] = N /\ opening[u] = O /\ BookedOf(u) = B
      BY <1>13, <2>2 DEF O, B
    <3> QED BY <3>2, <3>3, <3>4, <3>5, <3>6, <3>7
  <2> QED BY <2>1, <2>2
<1>19. LedgerStaysReadable'
  <2>1. Balanced(L) /\ L.money_total = O.money_total
        /\ L.hours_per_week = O.hours_per_week /\ L.tries_total = O.tries_total
    BY <1>1 DEF PDInv, LedgerStaysReadable, L, O
  <2>2. Balanced(O)
    BY <1>1 DEF PDInv, Grounded, O
  <2>3. N.money_spent + N.money_committed <= N.money_total
    BY <1>6, <1>7, <1>12, <2>1 DEF Balanced
  <2>4. N.hours_committed <= N.hours_per_week
    BY <1>6, <1>7, <1>12, <2>1 DEF Balanced
  <2>5. N.tries_abandoned <= N.tries_used
    <3>1. N.tries_abandoned = O.tries_abandoned + Cardinality(B \cap NoShows')
      <4>1. N.tries_abandoned = O.tries_abandoned + Cardinality(B \cap NoShows) + one
        BY <1>5, <1>12
      <4> QED BY <1>6, <1>16, <1>17, <4>1
    <3>2. N.tries_used = O.tries_used + Cardinality(B)
      BY <1>5, <1>12
    <3>3. O.tries_abandoned <= O.tries_used
      BY <2>2 DEF Balanced
    <3> QED BY <1>6, <1>16, <3>1, <3>2, <3>3
  <2>6. N.tries_used <= N.tries_total
    BY <1>12, <2>1 DEF Balanced
  <2>7. Balanced(N)
    BY <2>3, <2>4, <2>5, <2>6 DEF Balanced
  <2> SUFFICES ASSUME NEW u \in Teen
               PROVE  /\ Balanced(ledger'[u])
                      /\ ledger'[u].money_total = opening[u].money_total
                      /\ ledger'[u].hours_per_week = opening[u].hours_per_week
                      /\ ledger'[u].tries_total = opening[u].tries_total
    BY <1>3 DEF LedgerStaysReadable
  <2>8. CASE u = t
    BY <1>12, <1>13, <2>1, <2>7, <2>8 DEF O
  <2>9. CASE u # t
    BY <1>13, <2>9 DEF PDInv, LedgerStaysReadable
  <2> QED BY <2>8, <2>9
<1>20. \A u \in Teen : /\ ledger[u].version \in Nat /\ ledger'[u].version \in Nat
                       /\ ledger[u].version <= ledger'[u].version
  <2> SUFFICES ASSUME NEW u \in Teen
               PROVE  /\ ledger[u].version \in Nat /\ ledger'[u].version \in Nat
                      /\ ledger[u].version <= ledger'[u].version
    OBVIOUS
  <2>1. ledger[u].version \in Nat
    BY <1>2 DEF Ledger
  <2>2. CASE u = t
    BY <1>6, <1>12, <1>13, <2>2 DEF L
  <2>3. CASE u # t
    BY <1>13, <2>1, <2>3
  <2> QED BY <2>1, <2>2, <2>3
<1>21. \A m \in bookings : m.plan \in PlanId /\ m.plan.teen \in Teen /\ m.plan.version \in Nat
                           /\ m.plan.version < ledger[m.plan.teen].version
  BY BoundAssumption DEF PDInv, PDTypeOK, Key, PlanId, OneCommitPerVersion
<1>22. OneCommitPerVersion'
  <2>1. ASSUME NEW m \in bookings PROVE m.plan.version < ledger'[m.plan.teen].version
    BY <1>20, <1>21
  <2> QED BY <1>3, <2>1 DEF PDInv, OneCommitPerVersion
<1>23. ReplayIsAnswered'
  <2> SUFFICES ASSUME NEW j \in CommittedPlans
               PROVE  Keys(j) \subseteq bookings' /\ EvidenceHolds(j)'
    BY <1>1 DEF ReplayIsAnswered, Keys
  <2>1. Keys(j) \subseteq bookings /\ EvidenceHolds(j)
    BY DEF PDInv, ReplayIsAnswered
  <2>2. j.teen \in Teen
    BY <1>21 DEF CommittedPlans
  <2>3. \A x \in txns : x.after \in Nat
    BY DEF PDInv, PDTypeOK
  <2>4. EvidenceHolds(j)'
    BY <1>3, <1>20, <2>1, <2>2, <2>3 DEF EvidenceHolds, Keys
  <2> QED BY <1>3, <2>1, <2>4
<1>24. VersionCountsEffects'
  <2> SUFFICES ASSUME NEW u \in Teen
               PROVE  ledger'[u].version =
                        opening[u].version + Cardinality({j \in CommittedPlans : j.teen = u})
                                           + Cardinality({m \in reconciled' : m.plan.teen = u})
    BY <1>1, <1>3 DEF VersionCountsEffects
  <2> DEFINE C == Cardinality({j \in CommittedPlans : j.teen = u})
             R == {m \in reconciled : m.plan.teen = u}
             S == {m \in reconciled' : m.plan.teen = u}
  <2>1. ledger[u].version = opening[u].version + C + Cardinality(R)
    BY DEF PDInv, VersionCountsEffects
  <2>2. CASE u # t
    <3>1. S = R
      BY <1>3, <2>2 DEF t
    <3>2. ledger'[u] = ledger[u]
      BY <1>13, <2>2
    <3> HIDE DEF C, R, S
    <3>3. ledger'[u].version = opening[u].version + C + Cardinality(S)
      BY <2>1, <3>1, <3>2
    <3> QED BY <3>3 DEF C, S
  <2>3. CASE u = t
    <3>1. S = R \cup {k} /\ k \notin R
      BY <1>1, <1>3, <2>3 DEF t
    <3>2. IsFiniteSet(R)
      BY FS_Subset DEF PDInv, Grounded, OutcomeRecordedOnce
    <3>3. C \in Nat
      BY FS_Subset, FS_CardinalityType DEF PDInv, Grounded
    <3>4. ledger'[u].version = ledger[u].version + 1
      BY <1>12, <1>13, <2>3 DEF L
    <3>5. opening[u].version \in Nat
      BY <1>2 DEF Ledger
    <3> HIDE DEF C, R, S
    <3>6. Cardinality(S) = Cardinality(R) + 1 /\ Cardinality(R) \in Nat
      BY <3>1, <3>2, FS_AddElement, FS_CardinalityType
    <3>7. ledger'[u].version = opening[u].version + C + Cardinality(S)
      BY <2>1, <3>3, <3>4, <3>5, <3>6
    <3> QED BY <3>7 DEF C, S
  <2> QED BY <2>2, <2>3
<1>25. OutcomeRecordedOnce'
  <2>1. reconciled' = {a.key : a \in attendance'}
    <3> DEFINE e == [key |-> k, attended |-> ok]
    <3>1. reconciled = {a.key : a \in attendance}
      BY DEF PDInv, OutcomeRecordedOnce
    <3>2. e.key = k /\ attendance' = attendance \cup {e} /\ reconciled' = reconciled \cup {k}
      BY <1>3
    <3> HIDE DEF e
    <3>3. ASSUME NEW m \in reconciled' PROVE \E a \in attendance' : m = a.key
      BY <3>1, <3>2
    <3>4. ASSUME NEW a \in attendance' PROVE a.key \in reconciled'
      BY <3>1, <3>2
    <3> QED BY <3>3, <3>4
  <2>2. reconciled' \subseteq bookings'
    BY <1>3 DEF PDInv, OutcomeRecordedOnce
  <2>3. \A a, b \in attendance' : a.key = b.key => a = b
    BY <1>3 DEF PDInv, OutcomeRecordedOnce
  <2> QED BY <2>1, <2>2, <2>3 DEF OutcomeRecordedOnce
<1>26. LivePlanIsLatest' /\ BookingsAuthorised'
  BY <1>1, <1>3 DEF PDInv, LivePlanIsLatest, BookingsAuthorised
<1> QED BY <1>14, <1>15, <1>18, <1>19, <1>22, <1>23, <1>24, <1>25, <1>26 DEF PDInv

-----------------------------------------------------------------------------
(* The theorems *)

(* Every step of the store keeps the invariant.                             *)
LEMMA NextInv == ASSUME PDInv, [StoreNext]_pdVars PROVE PDInv'
<1>1. StoredIds \subseteq PlanId
  BY DEF PDInv, PDTypeOK, StoredIds, Plan
<1>2. ASSUME NEW t \in Teen, NEW L \in OpeningLedger, SetupProfile(t, L) PROVE PDInv'
  BY <1>2, SetupInv
<1>3. ASSUME NEW p \in Plan, SavePlan(p) PROVE PDInv'
  BY <1>3, SavePlanInv
<1>4. ASSUME NEW i \in StoredIds, NEW ok \in BOOLEAN,
             SaveGuardianVerdict([plan |-> i, approved |-> ok])
      PROVE  PDInv'
  BY <1>1, <1>4, VerdictInv
<1>5. ASSUME NEW i \in StoredIds, CommitPlanBookings(i) \/ CommitBooking(i) PROVE PDInv'
  BY <1>5, CommitInv DEF CommitBooking
<1>6. ASSUME NEW i \in StoredIds, ReplayCommit(i) \/ RetirePlan(i) PROVE PDInv'
  BY <1>6, StutterInv, RetireInv DEF ReplayCommit
<1>7. ASSUME NEW k \in bookings, NEW ok \in BOOLEAN, RecordOutcome(k, ok) PROVE PDInv'
  BY <1>7, OutcomeInv
<1>8. ASSUME NEW k \in bookings, NEW ok \in BOOLEAN, ReplayOutcome(k, ok) PROVE PDInv'
  BY <1>8, StutterInv DEF ReplayOutcome
<1>9. ASSUME NEW l \in Listing, FlagDeadListing(l) PROVE PDInv'
  BY <1>9, FlagInv
<1>10. CASE UNCHANGED pdVars
  BY <1>10, StutterInv
<1> QED BY <1>2, <1>3, <1>4, <1>5, <1>6, <1>7, <1>8, <1>9, <1>10 DEF StoreNext, Transactions

(* The inductive invariant holds of every behaviour of the store, whatever  *)
(* its callers do and in whatever order.                                    *)
THEOREM StoreInvariant == StoreSpec => []PDInv
<1>1. PDInit => PDInv
  BY InitInv
<1>2. PDInv /\ [StoreNext]_pdVars => PDInv'
  BY NextInv
<1> QED BY <1>1, <1>2, PTL DEF StoreSpec

(* The callers of the store run, who save few plans, are among its callers. *)
LEMMA FewCallers == PDSpec => StoreSpec
<1>1. [PDNext]_pdVars => [StoreNext]_pdVars
  BY DEF PDNext, StoreNext, CallerSavesPlan
<1> QED BY <1>1, PTL DEF PDSpec, StoreSpec

(* Every table keeps its type; no money, hours or version goes negative.    *)
THEOREM StoreTyped == StoreSpec => []PDTypeOK
<1>1. PDInv => PDTypeOK
  BY DEF PDInv
<1> QED BY <1>1, StoreInvariant, PTL

(* The ledger row of every teen is the opening ledger plus what the booking *)
(* and attendance tables account for, after any commits and outcomes.       *)
THEOREM LedgerAccounts == StoreSpec => []LedgerMatchesBookings
<1>1. PDInv => LedgerMatchesBookings
  BY DEF PDInv
<1> QED BY <1>1, StoreInvariant, PTL

(* No sequence of calls leaves a ledger row that BudgetLedger rejects when  *)
(* it is next loaded.                                                       *)
THEOREM LedgerReadable == StoreSpec => []LedgerStaysReadable
<1>1. PDInv => LedgerStaysReadable
  BY DEF PDInv
<1> QED BY <1>1, StoreInvariant, PTL

(* Two plans of one teen never both commit against one ledger version.      *)
THEOREM CommitsAreSerial == StoreSpec => []OneCommitPerVersion
<1>1. PDInv => OneCommitPerVersion
  BY DEF PDInv
<1> QED BY <1>1, StoreInvariant, PTL

(* Retrying commit_plan_bookings after it took effect never raises          *)
(* ReplayConflict: the evidence of every booked plan always checks out.     *)
THEOREM CommitReplays == StoreSpec => []ReplayIsAnswered
<1>1. PDInv => ReplayIsAnswered
  BY DEF PDInv
<1> QED BY <1>1, StoreInvariant, PTL

(* The ledger version counts commits and outcomes, no more and no less.     *)
THEOREM VersionsCount == StoreSpec => []VersionCountsEffects
<1>1. PDInv => VersionCountsEffects
  BY DEF PDInv
<1> QED BY <1>1, StoreInvariant, PTL

(* A booking has at most one outcome and is reconciled exactly then.        *)
THEOREM OutcomesOnce == StoreSpec => []OutcomeRecordedOnce
<1>1. PDInv => OutcomeRecordedOnce
  BY DEF PDInv
<1> QED BY <1>1, StoreInvariant, PTL

(* The live plan of a teen is the one committed last, and the only one.     *)
THEOREM LiveIsLatest == StoreSpec => []LivePlanIsLatest
<1>1. PDInv => LivePlanIsLatest
  BY DEF PDInv
<1> QED BY <1>1, StoreInvariant, PTL

(* No booking exists without an approved verdict for its own stored plan.   *)
THEOREM BookingsApproved == StoreSpec => []BookingsAuthorised
<1>1. PDInv => BookingsAuthorised
  BY DEF PDInv
<1> QED BY <1>1, StoreInvariant, PTL
=============================================================================
