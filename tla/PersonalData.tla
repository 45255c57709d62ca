---------------------------- MODULE PersonalData ----------------------------
(***************************************************************************)
(* The Personal Data store (src/store/personal_data.py): the tables that    *)
(* carry plans, Guardian verdicts, bookings, ledger transactions,           *)
(* attendance and the optimistic budget ledger of every teen.               *)
(*                                                                         *)
(* Every method of the store runs inside one BEGIN IMMEDIATE transaction    *)
(* and rolls back on any exception, so every method is one atomic action    *)
(* and a refused call (stale version, missing verdict, exceeded budget,     *)
(* colliding plan) is a stutter.  PDNext lets any caller invoke any method  *)
(* at any time: what holds here holds whatever the agents above the store   *)
(* do, crash and retry.                                                     *)
(*                                                                         *)
(* Money and hours are whole units.  A sum over bookings is the number of   *)
(* <<booking, unit>> pairs (Weight), which needs no recursion.              *)
(***************************************************************************)
EXTENDS Listings

CONSTANTS
    Teen,           \* profiles the service may hold
    Binding,        \* values of Plan.thin / Plan.binding_constraint
    OpeningLedger,  \* ledgers a setup call may declare
    Version,        \* ledger versions a plan may be made for: Nat, or a few of them
                    \* where a run lets arbitrary callers choose one
    MaxPlans        \* bound on the plan rows arbitrary callers save

Ledger ==
    [money_total : Nat, money_spent : Nat, money_committed : Nat,
     hours_per_week : Nat, hours_committed : Nat,
     tries_total : Nat, tries_used : Nat, tries_abandoned : Nat,
     version : Nat]

(* BudgetLedger._balances: every read of a ledger row revalidates this, so  *)
(* a row that breaks it can never be read again.                            *)
Balanced(L) ==
    /\ L.money_spent + L.money_committed <= L.money_total
    /\ L.hours_committed <= L.hours_per_week
    /\ L.tries_used <= L.tries_total
    /\ L.tries_abandoned <= L.tries_used

ASSUME BoundAssumption ==
    /\ IF IsFiniteSet(Version) THEN Version \subseteq Nat ELSE Version = Nat
    /\ MaxPlans \in Nat
ASSUME OpeningAssumption ==
    /\ OpeningLedger \subseteq Ledger
    /\ \A L \in OpeningLedger : Balanced(L)

MoneyRemaining(L) == L.money_total - L.money_spent - L.money_committed
HoursRemaining(L) == L.hours_per_week - L.hours_committed
TriesRemaining(L) == L.tries_total - L.tries_used

(* A plan id is a hash of the planning key (the teen), the goal, the ledger *)
(* version and the chosen listings; thin and binding_constraint are content *)
(* the id does not cover.                                                   *)
PlanId == [teen : Teen, version : Version, items : (SUBSET Listing) \ {{}}]
Plan   == [id : PlanId, binding : Binding]

(* logical_commitment_key: one key per item of a plan.  Booking ids and     *)
(* ledger transaction ids are hashes of it, so the key stands for all three.*)
Key == [plan : PlanId, listing : Listing]
Keys(i) == {[plan |-> i, listing |-> l] : l \in i.items}

Units(w, K)  == {x \in K \X (1..MaxUnit) : x[2] <= w[x[1].listing]}
Weight(w, K) == Cardinality(Units(w, K))

VARIABLES
    profiles,     \* teens with a profile row
    ledger,       \* ledger[t]: the ledgers row of t (meaningful once t is set up)
    opening,      \* history: the ledger setup stored for t
    plans,        \* plans table: Plan values
    live,         \* ids of plans with is_live = 1
    flagged,      \* ids of plans with needs_replan = 1
    verdicts,     \* guardian_verdicts: [plan, approved]
    bookings,     \* bookings table, by logical key
    reconciled,   \* bookings with reconciled = 1
    txns,         \* ledger_transactions: [key, before, after]
    attendance    \* attendance_events: [key, attended]

ledgerVars == <<profiles, ledger, opening>>
planVars   == <<plans, live, flagged>>
commitVars == <<verdicts, bookings, reconciled, txns, attendance>>
pdVars     == <<ledgerVars, planVars, commitVars>>

BlankLedger ==
    [money_total |-> 0, money_spent |-> 0, money_committed |-> 0,
     hours_per_week |-> 0, hours_committed |-> 0,
     tries_total |-> 0, tries_used |-> 0, tries_abandoned |-> 0, version |-> 0]

StoredIds   == {p.id : p \in plans}
BookedOf(t) == {k \in bookings : k.plan.teen = t}
CommittedPlans == {k.plan : k \in bookings}
NoShows     == {k \in bookings : [key |-> k, attended |-> FALSE] \in attendance}

-----------------------------------------------------------------------------
(* Operations *)

PDInit ==
    /\ profiles = {}
    /\ ledger  = [t \in Teen |-> BlankLedger]
    /\ opening = [t \in Teen |-> BlankLedger]
    /\ plans = {} /\ live = {} /\ flagged = {}
    /\ verdicts = {} /\ bookings = {} /\ reconciled = {}
    /\ txns = {} /\ attendance = {}

(* A slip the runs must catch: a second setup replaces the first.           *)
SetupReplaces(t, L) ==
    /\ profiles' = profiles \cup {t}
    /\ ledger'  = [ledger EXCEPT ![t] = L]
    /\ opening' = [opening EXCEPT ![t] = L]
    /\ UNCHANGED <<planVars, commitVars>>

(* setup_profile: once per teen, never a replacement. *)
SetupProfile(t, L) ==
    /\ t \notin profiles
    /\ profiles' = profiles \cup {t}
    /\ ledger'  = [ledger EXCEPT ![t] = L]
    /\ opening' = [opening EXCEPT ![t] = L]
    /\ UNCHANGED <<planVars, commitVars>>

(* save_plan(live=False), the only form the agents call: a new row, or the  *)
(* same content again (is_live keeps its maximum).                          *)
Collides(p)  == \E q \in plans : q.id = p.id /\ q # p
SavePlan(p) ==
    /\ p.id.teen \in profiles
    /\ ~Collides(p)
    /\ plans' = plans \cup {p}
    /\ UNCHANGED <<ledgerVars, live, flagged, commitVars>>

SaveGuardianVerdict(v) ==
    /\ v.plan.teen \in profiles
    /\ verdicts' = verdicts \cup {v}
    /\ UNCHANGED <<ledgerVars, planVars, bookings, reconciled, txns, attendance>>

(* _commit_evidence: every key has its one transaction row, all rows agree  *)
(* on one version step, and the ledger is not behind it.                    *)
EvidenceHolds(i) ==
    LET rows == {x \in txns : x.key \in Keys(i)} IN
    /\ \A k \in Keys(i) : \E x \in rows : x.key = k
    /\ \A x, y \in rows : x.before = y.before /\ x.after = y.after
    /\ \A x \in rows : x.after = x.before + 1
    /\ \A x \in rows : x.after <= ledger[i.teen].version

(* commit_plan_bookings, the branch taken when rows already exist: the      *)
(* stored records are returned and nothing is written.                      *)
ReplayCommit(i) ==
    /\ Keys(i) \cap bookings # {}
    /\ Keys(i) \subseteq bookings
    /\ EvidenceHolds(i)
    /\ UNCHANGED pdVars

(* Slips: the balance tested per item; a version already passed accepted;   *)
(* any verdict of the plan taken for an approval.                           *)
CommitAllowedPerItem(i) ==
    LET L == ledger[i.teen] IN
    /\ i \in StoredIds
    /\ [plan |-> i, approved |-> TRUE] \in verdicts
    /\ Keys(i) \cap bookings = {}
    /\ L.version = i.version
    /\ \A k \in Keys(i) : Cost[k.listing] <= MoneyRemaining(L)
    /\ Weight(Duration, Keys(i)) <= HoursRemaining(L)
    /\ Cardinality(Keys(i)) <= TriesRemaining(L)
CommitAllowedStale(i) ==
    LET L == ledger[i.teen] IN
    /\ i \in StoredIds
    /\ [plan |-> i, approved |-> TRUE] \in verdicts
    /\ Keys(i) \cap bookings = {}
    /\ L.version >= i.version
    /\ Weight(Cost, Keys(i)) <= MoneyRemaining(L)
    /\ Weight(Duration, Keys(i)) <= HoursRemaining(L)
    /\ Cardinality(Keys(i)) <= TriesRemaining(L)
CommitAllowedAnyVerdict(i) ==
    LET L == ledger[i.teen] IN
    /\ i \in StoredIds
    /\ \E v \in verdicts : v.plan = i
    /\ Keys(i) \cap bookings = {}
    /\ L.version = i.version
    /\ Weight(Cost, Keys(i)) <= MoneyRemaining(L)
    /\ Weight(Duration, Keys(i)) <= HoursRemaining(L)
    /\ Cardinality(Keys(i)) <= TriesRemaining(L)

CommitAllowed(i) ==
    LET L == ledger[i.teen] IN
    /\ i \in StoredIds
    /\ [plan |-> i, approved |-> TRUE] \in verdicts
    /\ Keys(i) \cap bookings = {}
    /\ L.version = i.version
    /\ Weight(Cost, Keys(i)) <= MoneyRemaining(L)
    /\ Weight(Duration, Keys(i)) <= HoursRemaining(L)
    /\ Cardinality(Keys(i)) <= TriesRemaining(L)

(* A slip: the version counts items, not commits.                           *)
ChargedPerItem(L, K) ==
    [L EXCEPT !.money_committed = @ + Weight(Cost, K),
              !.hours_committed = @ + Weight(Duration, K),
              !.tries_used = @ + Cardinality(K),
              !.version = @ + Cardinality(K)]

(* The ledger row after committing the keys K of one plan. *)
Charged(L, K) ==
    [L EXCEPT !.money_committed = @ + Weight(Cost, K),
              !.hours_committed = @ + Weight(Duration, K),
              !.tries_used = @ + Cardinality(K),
              !.version = @ + 1]

(* Slips: the evidence counts items; older plans stay live.                 *)
CommitCountsItems(i) ==
    LET L == ledger[i.teen] IN
    /\ CommitAllowed(i)
    /\ bookings' = bookings \cup Keys(i)
    /\ txns' = txns \cup {[key |-> k, before |-> L.version,
                            after |-> L.version + Cardinality(Keys(i))] : k \in Keys(i)}
    /\ ledger' = [ledger EXCEPT ![i.teen] = Charged(L, Keys(i))]
    /\ live' = {j \in live : j.teen # i.teen} \cup {i}
    /\ flagged' = flagged \ {i}
    /\ UNCHANGED <<profiles, opening, plans, verdicts, reconciled, attendance>>
CommitKeepsOlderLive(i) ==
    LET L == ledger[i.teen] IN
    /\ CommitAllowed(i)
    /\ bookings' = bookings \cup Keys(i)
    /\ txns' = txns \cup {[key |-> k, before |-> L.version, after |-> L.version + 1] : k \in Keys(i)}
    /\ ledger' = [ledger EXCEPT ![i.teen] = Charged(L, Keys(i))]
    /\ live' = live \cup {i}
    /\ flagged' = flagged \ {i}
    /\ UNCHANGED <<profiles, opening, plans, verdicts, reconciled, attendance>>

(* commit_plan_bookings: all items of one approved plan, or none; older     *)
(* plans of the teen stop being live.                                       *)
CommitPlanBookings(i) ==
    LET L == ledger[i.teen] IN
    /\ CommitAllowed(i)
    /\ bookings' = bookings \cup Keys(i)
    /\ txns' = txns \cup {[key |-> k, before |-> L.version, after |-> L.version + 1] : k \in Keys(i)}
    /\ ledger' = [ledger EXCEPT ![i.teen] = Charged(L, Keys(i))]
    /\ live' = {j \in live : j.teen # i.teen} \cup {i}
    /\ flagged' = flagged \ {i}
    /\ UNCHANGED <<profiles, opening, plans, verdicts, reconciled, attendance>>

(* commit_booking: the same for a plan of a single item.                    *)
CommitBooking(i) ==
    /\ Cardinality(i.items) = 1
    /\ CommitPlanBookings(i)

(* retire_plan: the plan is no longer live and needs no replan; what is     *)
(* booked of it stays booked.                                               *)
RetirePlan(i) ==
    /\ live' = live \ {i}
    /\ flagged' = flagged \ {i}
    /\ UNCHANGED <<ledgerVars, plans, commitVars>>

(* A slip: money is spent without being released.                           *)
SettledStillCommitted(L, k, attended) ==
    LET h == Duration[k.listing] IN
    [L EXCEPT !.money_spent = @ + Cost[k.listing],
              !.hours_committed = IF @ >= h THEN @ - h ELSE 0,
              !.tries_abandoned = IF attended THEN @ ELSE @ + 1,
              !.version = @ + 1]

(* The ledger row after the outcome of booking k is recorded. *)
Settled(L, k, attended) ==
    LET h == Duration[k.listing] IN
    [L EXCEPT !.money_spent = @ + Cost[k.listing],
              !.money_committed = @ - Cost[k.listing],
              !.hours_committed = IF @ >= h THEN @ - h ELSE 0,
              !.tries_abandoned = IF attended THEN @ ELSE @ + 1,
              !.version = @ + 1]

(* Slips: every outcome applied; only the exact replay recognised.          *)
RecordEveryOutcome(k, attended) ==
    /\ k \in bookings
    /\ ledger' = [ledger EXCEPT ![k.plan.teen] = Settled(@, k, attended)]
    /\ attendance' = attendance \cup {[key |-> k, attended |-> attended]}
    /\ reconciled' = reconciled \cup {k}
    /\ UNCHANGED <<profiles, opening, planVars, verdicts, bookings, txns>>
RecordCorrection(k, attended) ==
    /\ [key |-> k, attended |-> attended] \notin attendance
    /\ k \in bookings
    /\ ledger' = [ledger EXCEPT ![k.plan.teen] = Settled(@, k, attended)]
    /\ attendance' = attendance \cup {[key |-> k, attended |-> attended]}
    /\ reconciled' = reconciled \cup {k}
    /\ UNCHANGED <<profiles, opening, planVars, verdicts, bookings, txns>>

(* record_outcome: the first outcome of a booking settles its money and     *)
(* hours; the same outcome again is a no-op, a different one is refused.    *)
RecordOutcome(k, attended) ==
    /\ \A a \in attendance : a.key # k
    /\ k \in bookings
    /\ k \notin reconciled
    /\ ledger' = [ledger EXCEPT ![k.plan.teen] = Settled(@, k, attended)]
    /\ attendance' = attendance \cup {[key |-> k, attended |-> attended]}
    /\ reconciled' = reconciled \cup {k}
    /\ UNCHANGED <<profiles, opening, planVars, verdicts, bookings, txns>>

ReplayOutcome(k, attended) ==
    /\ [key |-> k, attended |-> attended] \in attendance
    /\ UNCHANGED pdVars

(* A slip: every live plan is flagged, whatever it holds.                   *)
FlagEveryLivePlan(l) ==
    /\ flagged' = flagged \cup live
    /\ UNCHANGED <<ledgerVars, plans, live, commitVars>>

(* flag_dead_listing: every live plan that holds the listing. *)
FlagDeadListing(l) ==
    /\ flagged' = flagged \cup {i \in live : l \in i.items}
    /\ UNCHANGED <<ledgerVars, plans, live, commitVars>>

(* A caller plans for a version it has read; MaxPlans bounds the rows. *)
CallerSavesPlan(p) ==
    /\ p.id.version <= ledger[p.id.teen].version
    /\ p \in plans \/ Cardinality(plans) < MaxPlans
    /\ SavePlan(p)

Transactions ==
    \/ \E t \in Teen, L \in OpeningLedger : SetupProfile(t, L)
    \/ \E i \in StoredIds, ok \in BOOLEAN : SaveGuardianVerdict([plan |-> i, approved |-> ok])
    \/ \E i \in StoredIds : CommitPlanBookings(i) \/ CommitBooking(i)
    \/ \E i \in StoredIds : ReplayCommit(i) \/ RetirePlan(i)
    \/ \E k \in bookings, ok \in BOOLEAN : RecordOutcome(k, ok)
    \/ \E k \in bookings, ok \in BOOLEAN : ReplayOutcome(k, ok)
    \/ \E l \in Listing : FlagDeadListing(l)

PDNext == (\E p \in Plan : CallerSavesPlan(p)) \/ Transactions

PDSpec == PDInit /\ [][PDNext]_pdVars

(* The store with no bound on what callers save: the proofs are about this, *)
(* and the service, whose plans no bound limits, is one of its callers.     *)
StoreNext == (\E p \in Plan : SavePlan(p)) \/ Transactions
StoreSpec == PDInit /\ [][StoreNext]_pdVars

-----------------------------------------------------------------------------
(* Properties *)

(* Types of the tables; bookings and their settlement are finite, and money *)
(* and hours never go below zero (BudgetLedger's ge=0 fields).              *)
PDTypeOK ==
    /\ profiles \subseteq Teen
    /\ ledger \in [Teen -> Ledger] /\ opening \in [Teen -> Ledger]
    /\ plans \subseteq Plan
    /\ live \subseteq PlanId /\ flagged \subseteq PlanId
    /\ verdicts \subseteq [plan : PlanId, approved : BOOLEAN]
    /\ bookings \subseteq Key /\ reconciled \subseteq Key
    /\ txns \subseteq [key : Key, before : Nat, after : Nat]
    /\ attendance \subseteq [key : Key, attended : BOOLEAN]

(* Ledger and tables agree: whatever order commits and outcomes came in,    *)
(* the money, hours and tries on the row are those of the bookings that     *)
(* exist, the open ones committed and the reconciled ones spent.            *)
LedgerMatchesBookings ==
    \A t \in Teen :
        LET B == BookedOf(t) IN
        /\ ledger[t].money_spent = opening[t].money_spent + Weight(Cost, B \cap reconciled)
        /\ ledger[t].money_committed = opening[t].money_committed + Weight(Cost, B \ reconciled)
        /\ ledger[t].hours_committed = opening[t].hours_committed + Weight(Duration, B \ reconciled)
        /\ ledger[t].tries_used = opening[t].tries_used + Cardinality(B)
        /\ ledger[t].tries_abandoned = opening[t].tries_abandoned + Cardinality(B \cap NoShows)

(* No sequence of commits and outcomes writes a ledger row that             *)
(* BudgetLedger would refuse to load again, or changes a declared total.    *)
LedgerStaysReadable ==
    \A t \in Teen :
        /\ Balanced(ledger[t])
        /\ ledger[t].money_total = opening[t].money_total
        /\ ledger[t].hours_per_week = opening[t].hours_per_week
        /\ ledger[t].tries_total = opening[t].tries_total

(* Optimistic concurrency: two plans of a teen never both commit against    *)
(* one ledger version, and no plan is booked against a version to come.     *)
OneCommitPerVersion ==
    /\ \A k, m \in bookings :
          k.plan.teen = m.plan.teen /\ k.plan.version = m.plan.version => k.plan = m.plan
    /\ \A k \in bookings : k.plan.version < ledger[k.plan.teen].version

(* A retry of a commit that took effect is always answered from the stored  *)
(* rows: a plan is booked whole, with evidence that passes every check, and *)
(* so the replay branch can never raise ReplayConflict.                     *)
ReplayIsAnswered ==
    \A i \in CommittedPlans : Keys(i) \subseteq bookings /\ EvidenceHolds(i)

(* The ledger version counts effects: one step per committed plan and one   *)
(* per recorded outcome, so a reader that saw a version knows what happened.*)
VersionCountsEffects ==
    \A t \in Teen :
        ledger[t].version =
            opening[t].version + Cardinality({i \in CommittedPlans : i.teen = t})
                               + Cardinality({k \in reconciled : k.plan.teen = t})

(* A booking is reconciled exactly when it has an attendance event, and it  *)
(* has at most one.                                                         *)
OutcomeRecordedOnce ==
    /\ reconciled = {a.key : a \in attendance}
    /\ reconciled \subseteq bookings
    /\ \A a, b \in attendance : a.key = b.key => a = b

(* At most one plan of a teen is live, it is booked, and it is the one      *)
(* committed last.                                                          *)
LivePlanIsLatest ==
    \A i \in live :
        /\ i \in CommittedPlans
        /\ \A j \in CommittedPlans : j.teen = i.teen => j.version <= i.version
        /\ \A j \in live : j.teen = i.teen => j = i

(* Every booking stands on an approved verdict for its own plan and on a    *)
(* stored plan with one content.                                            *)
BookingsAuthorised ==
    /\ \A k \in bookings : [plan |-> k.plan, approved |-> TRUE] \in verdicts
    /\ \A k \in bookings : k.plan \in StoredIds /\ k.listing \in k.plan.items
    /\ \A p, q \in plans : p.id = q.id => p = q

Contract == INSTANCE PlanCommitment WITH
    opened       <- profiles,
    clock        <- [t \in Teen |-> ledger[t].version],
    effective    <- CommittedPlans,
    settled      <- {<<k.plan, k.listing>> : k \in reconciled},
    OpeningClock <- {L.version : L \in OpeningLedger}

(* The store implements PlanCommitment: every transaction is one effect of  *)
(* the contract or invisible to it.                                         *)
ImplementsContract == Contract!Spec
=============================================================================
