------------------------------ MODULE MCHobbi ------------------------------
(***************************************************************************)
(* The service on small instances: the values its runs give to constants,   *)
(* and two later initial states, so that a run need not spend its states on *)
(* the requests that lead there.                                            *)
(***************************************************************************)
EXTENDS Hobbi, TLC

CONSTANTS t1, t2, a, b, c, r1, r2, r3, s1, s2

Fresh(m, h, n) ==
    [money_total |-> m, money_spent |-> 0, money_committed |-> 0,
     hours_per_week |-> h, hours_committed |-> 0,
     tries_total |-> n, tries_used |-> 0, tries_abandoned |-> 0, version |-> 0]
OpenLedger   == Fresh(2, 4, 4)
MCOpening    == {OpenLedger}
PoorOpening  == {Fresh(0, 4, 4)}
MixedOpening == MCOpening \cup PoorOpening

Record1(v)   == [verification |-> v, freshness |-> "fresh", rechecked |-> FALSE]
MCCost       == [l \in Listing |-> IF l = a THEN 0 ELSE 1]
MCDuration   == [l \in Listing |-> 1]
MCRank       == [l \in Listing |-> CASE l = a -> 1 [] l = b -> 2 [] l = c -> 3]
MCScreen     == [t \in Teen |-> [l \in Listing |-> IF t = t2 /\ l = c THEN "schedule" ELSE "ok"]]
MCOrder      == [l \in Listing |-> CASE l = c -> 1 [] l = a -> 2 [] l = b -> 3]
MCHost       == [l \in Listing |-> "host"]
TwoHosts     == [l \in Listing |-> IF l = b THEN "library" ELSE "host"]
SeedA        == a :> Record1("verified")
SeedAB       == SeedA @@ b :> Record1("unverified")
SeedABC      == SeedAB @@ c :> Record1("verified")
Captured(l)  == [listing |-> l, record |-> Record1("unverified")]
NoReplay     == <<>>
ReplayB      == <<Captured(b)>>
ReplayC      == <<Captured(c)>>
ReplayBC     == ReplayB \o ReplayC
AllGrants    == {"attendance", "spend", b, c}     \* a is verified throughout
MCGrants     == {{"attendance"}, AllGrants}
FullGrants   == {AllGrants}
Symmetry     == Permutations(Request)

-----------------------------------------------------------------------------
(* After an intake: one plan of a and b is stored and waits for the adult. *)
PlanAB == [teen |-> t1, version |-> 0, items |-> {a, b}]

PlanOfAB == [id |-> PlanAB, binding |-> "none"]

(* An approval of that plan past the Guardian, while its twin committed.    *)
AtBroker ==
    [Idle EXCEPT !.pc = "broker", !.teen = t1, !.kind = "approval",
                 !.candidate = PlanOfAB, !.approved = PlanOfAB, !.verdict = ReviewOf(PlanAB)]

Stored(L, B, R) ==
    /\ profiles = {t1}
    /\ ledger  = [t \in Teen |-> L]
    /\ opening = [t \in Teen |-> OpenLedger]
    /\ plans = {PlanOfAB}
    /\ bookings = B
    /\ live = {k.plan : k \in B}
    /\ verdicts = {[plan |-> k.plan, approved |-> TRUE] : k \in B}
    /\ txns = {[key |-> k, before |-> 0, after |-> 1] : k \in B}
    /\ flagged = {} /\ reconciled = {} /\ attendance = {}
    /\ KBInit /\ ScanInit
    /\ approvals = {[plan |-> k.plan, grant |-> g] : k \in B, g \in AllGrants \ {c}}
    /\ req = [r \in Request |-> IF r \in R THEN AtBroker ELSE Idle]
    /\ crashes = 0

PlannedInit == Stored(OpenLedger, {}, {})
PlannedSpec == PlannedInit /\ [][Next]_vars

(* After its approval: the plan is booked and live, and a second submission *)
(* of the approval may be under way.                                        *)
BookedInit == \E R \in {{}, {r1}} : Stored(Charged(OpenLedger, Keys(PlanAB)), Keys(PlanAB), R)
ScanSpec   == (PlannedInit \/ BookedInit) /\ [][Next]_vars
=============================================================================
