--------------------------- MODULE ContractProofs ---------------------------
(***************************************************************************)
(* The store implements PlanCommitment, for every set of teens, listings,   *)
(* prices and opening ledgers, and whatever its callers do.                 *)
(*                                                                         *)
(* The contract's clock is the ledger version, its effects are the booked   *)
(* plans and its settlements the reconciled bookings.  A commit is one      *)
(* TakeEffect only because a plan that is not booked at all is not in       *)
(* effect, and an outcome is one Settle only because a booking stands for   *)
(* one item of a stored plan: both are part of PDInv.                       *)
(***************************************************************************)
EXTENDS PersonalDataProofs

ClockOf == [t \in Teen |-> ledger[t].version]
SettledItems == {<<k.plan, k.listing>> : k \in reconciled}

-----------------------------------------------------------------------------
(* The initial state *)

LEMMA ContractInit == ASSUME PDInit PROVE Contract!Init
<1>1. CommittedPlans = {} /\ SettledItems = {}
  BY DEF PDInit, CommittedPlans, SettledItems
<1>2. ClockOf = [t \in Teen |-> 0]
  BY DEF PDInit, ClockOf, BlankLedger
<1> QED BY <1>1, <1>2 DEF Contract!Init, PDInit, SettledItems, ClockOf

-----------------------------------------------------------------------------
(* One step of the contract, or none, for each operation of the store *)

(* A call that leaves the ledgers, bookings and outcomes alone is invisible.*)
LEMMA Invisible ==
    ASSUME UNCHANGED <<profiles, ledger, bookings, reconciled>>
    PROVE  UNCHANGED Contract!vars
BY DEF Contract!vars, CommittedPlans

LEMMA SetupOpens ==
    ASSUME PDInv, NEW t \in Teen, NEW L \in OpeningLedger, SetupProfile(t, L)
    PROVE  Contract!Open(t)
<1>1. ledger \in [Teen -> Ledger] /\ UNCHANGED <<bookings, reconciled>>
      /\ ledger' = [ledger EXCEPT ![t] = L]
      /\ t \notin profiles /\ profiles' = profiles \cup {t}
  BY DEF PDInv, PDTypeOK, SetupProfile, commitVars
<1>2. ClockOf' = [ClockOf EXCEPT ![t] = L.version]
  BY <1>1 DEF ClockOf
<1>3. CommittedPlans' = CommittedPlans /\ SettledItems' = SettledItems
  BY <1>1 DEF CommittedPlans, SettledItems
<1>4. L.version \in {M.version : M \in OpeningLedger}
  OBVIOUS
<1> QED BY <1>1, <1>2, <1>3, <1>4 DEF Contract!Open, ClockOf, SettledItems

LEMMA CommitTakesEffect ==
    ASSUME PDInv, NEW i, CommitPlanBookings(i)
    PROVE  i \in PlanId /\ Contract!TakeEffect(i)
<1>1. /\ i \in PlanId /\ i.teen \in Teen /\ i.teen \in profiles
      /\ i.version = ledger[i.teen].version /\ i \notin CommittedPlans
  BY AllowedPlan DEF CommitPlanBookings
<1>2. CommittedPlans' = CommittedPlans \cup {i}
  BY CommitSets
<1>3. /\ ledger' = [ledger EXCEPT ![i.teen] = Charged(ledger[i.teen], Keys(i))]
      /\ UNCHANGED <<profiles, reconciled>>
  BY DEF CommitPlanBookings
<1>4. ledger \in [Teen -> Ledger]
  BY DEF PDInv, PDTypeOK
<1>5. Charged(ledger[i.teen], Keys(i)).version = ledger[i.teen].version + 1
  BY <1>1, <1>4 DEF Charged, Ledger
<1>6. ClockOf' = [ClockOf EXCEPT ![i.teen] = @ + 1]
  BY <1>1, <1>3, <1>4, <1>5 DEF ClockOf
<1>7. ClockOf[i.teen] = i.version
  BY <1>1 DEF ClockOf
<1>8. SettledItems' = SettledItems
  BY <1>3 DEF SettledItems
<1> QED BY <1>1, <1>2, <1>3, <1>6, <1>7, <1>8
        DEF Contract!TakeEffect, Contract!Tick, ClockOf, SettledItems

LEMMA OutcomeSettles ==
    ASSUME PDInv, NEW k \in bookings, NEW ok \in BOOLEAN, RecordOutcome(k, ok)
    PROVE  /\ k.plan \in PlanId /\ k.listing \in k.plan.items
           /\ Contract!Settle(k.plan, k.listing)
<1>1. k \in Key /\ k.plan \in PlanId /\ k.plan.teen \in Teen
      /\ CommittedPlans' = CommittedPlans
  BY OutcomeSets DEF Key
<1>2. k.listing \in k.plan.items /\ k.plan \in CommittedPlans
  BY DEF PDInv, BookingsAuthorised, CommittedPlans
<1>3. /\ k \notin reconciled /\ reconciled' = reconciled \cup {k}
      /\ ledger' = [ledger EXCEPT ![k.plan.teen] = Settled(@, k, ok)]
      /\ UNCHANGED profiles
  BY DEF RecordOutcome
<1>4. SettledItems' = SettledItems \cup {<<k.plan, k.listing>>}
  BY <1>3 DEF SettledItems
<1>5. <<k.plan, k.listing>> \notin SettledItems
  <2>1. ASSUME NEW m \in reconciled, <<m.plan, m.listing>> = <<k.plan, k.listing>>
        PROVE  m = k
    <3>1. m \in Key
      BY DEF PDInv, PDTypeOK
    <3> QED BY <1>1, <2>1, <3>1 DEF Key
  <2> QED BY <1>3, <2>1 DEF SettledItems
<1>6. ledger \in [Teen -> Ledger]
  BY DEF PDInv, PDTypeOK
<1>7. Settled(ledger[k.plan.teen], k, ok).version = ledger[k.plan.teen].version + 1
  BY <1>1, <1>6 DEF Settled, Ledger
<1>8. ClockOf' = [ClockOf EXCEPT ![k.plan.teen] = @ + 1]
  BY <1>1, <1>3, <1>6, <1>7 DEF ClockOf
<1> QED BY <1>1, <1>2, <1>3, <1>4, <1>5, <1>8
        DEF Contract!Settle, Contract!Tick, ClockOf, SettledItems

LEMMA ContractStep == ASSUME PDInv, [StoreNext]_pdVars PROVE [Contract!Next]_(Contract!vars)
<1> USE DEF ledgerVars, planVars, commitVars
<1>1. ASSUME NEW t \in Teen, NEW L \in OpeningLedger, SetupProfile(t, L)
      PROVE  Contract!Next
  BY <1>1, SetupOpens DEF Contract!Next
<1>2. ASSUME NEW p \in Plan, SavePlan(p)
      PROVE  UNCHANGED Contract!vars
  BY <1>2, Invisible DEF SavePlan
<1>3. ASSUME NEW i \in StoredIds, NEW ok \in BOOLEAN,
             SaveGuardianVerdict([plan |-> i, approved |-> ok])
      PROVE  UNCHANGED Contract!vars
  BY <1>3, Invisible DEF SaveGuardianVerdict
<1>4. ASSUME NEW i \in StoredIds, CommitPlanBookings(i) \/ CommitBooking(i)
      PROVE  Contract!Next
  BY <1>4, CommitTakesEffect DEF CommitBooking, Contract!Next
<1>5. ASSUME NEW i \in StoredIds, ReplayCommit(i) \/ RetirePlan(i)
      PROVE  UNCHANGED Contract!vars
  BY <1>5, Invisible DEF ReplayCommit, RetirePlan, pdVars
<1>6. ASSUME NEW k \in bookings, NEW ok \in BOOLEAN, RecordOutcome(k, ok)
      PROVE  Contract!Next
  BY <1>6, OutcomeSettles DEF Contract!Next
<1>7. ASSUME NEW k \in bookings, NEW ok \in BOOLEAN, ReplayOutcome(k, ok)
      PROVE  UNCHANGED Contract!vars
  BY <1>7, Invisible DEF ReplayOutcome, pdVars
<1>8. ASSUME NEW l \in Listing, FlagDeadListing(l)
      PROVE  UNCHANGED Contract!vars
  BY <1>8, Invisible DEF FlagDeadListing
<1>9. CASE UNCHANGED pdVars
  BY <1>9, Invisible DEF pdVars
<1> QED BY <1>1, <1>2, <1>3, <1>4, <1>5, <1>6, <1>7, <1>8, <1>9 DEF StoreNext, Transactions

(* Every behaviour of the store is one of the contract: a plan takes effect *)
(* at most once, as a whole and at the version it was made for, and each of *)
(* its items is settled at most once afterwards.                            *)
THEOREM StoreImplementsContract == StoreSpec => ImplementsContract
<1>1. PDInit => Contract!Init
  BY ContractInit
<1>2. PDInv /\ [StoreNext]_pdVars => [Contract!Next]_(Contract!vars)
  BY ContractStep
<1> QED BY <1>1, <1>2, StoreInvariant, PTL DEF StoreSpec, ImplementsContract, Contract!Spec
=============================================================================
