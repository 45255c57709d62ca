------------------------------ MODULE Pipeline ------------------------------
(***************************************************************************)
(* The request graph (src/graph.py): Planner -> G1 -> Discovery -> G2 ->    *)
(* Guardian -> G3 -> Broker -> G4, run by concurrent request threads        *)
(* (src/api.py) over one Personal Data store and one knowledge base.        *)
(*                                                                         *)
(* A request is a LangGraph thread.  Its HobbiState is checkpointed after   *)
(* each node; what a node reads before it returns (booked, seen, review,    *)
(* at) is lost by a crash.  The thread then stays down: the service starts  *)
(* none again.  A caller of HobbiRuntime.resume may, at any later time, and *)
(* it runs the node again from its start.                                   *)
(* A node is split into one step per store transaction or store read whose  *)
(* value is used later, so other requests interleave where the code lets    *)
(* them.                                                                    *)
(***************************************************************************)
EXTENDS PersonalData, KnowledgeBase

CONSTANTS
    Request,        \* request threads
    None,           \* Python's None
    Rank,           \* Rank[l]: the Planner's sort order, cheapest first
    Screen,         \* Screen[t][l]: "ok", or the static filter that drops l for t
    MaxItems,       \* constraints["max_items"]
    NoPaid,         \* teens with the parental rule no_paid_activities
    Flaky,          \* listings the sandbox availability callback may refuse
    MaxReplans, MaxDiscoveryRounds, MaxGuardianRejections,  \* constants.py
    MaxCrashes      \* bound on process crashes

ASSUME CapAssumption ==
    /\ MaxReplans \in Nat /\ MaxDiscoveryRounds \in Nat
    /\ MaxGuardianRejections \in Nat \ {0} /\ MaxCrashes \in Nat /\ MaxItems \in Nat
(* Ledger versions are SQLite integers that only grow, with no cap.         *)
ASSUME VersionAssumption == Version = Nat
ASSUME RankAssumption ==
    /\ Rank \in [Listing -> Nat]
    /\ \A l, m \in Listing : Rank[l] = Rank[m] => l = m
    /\ \A l, m \in Listing : Cost[l] < Cost[m] => Rank[l] < Rank[m]

VARIABLES
    req,        \* req[r]: the HobbiState of r and its place in the graph
    approvals,  \* trusted_adult_approvals: [plan, grant]
    crashes     \* crashes so far

pipeVars == <<req, approvals, crashes>>

(* A grant is "attendance", "spend", or the listing whose provider is       *)
(* approved; issue_plan_approvals admits no spend ceiling below the total.  *)
Approval == [plan : PlanId, grant : {"attendance", "spend"} \cup Listing]

Verdict == [plan : PlanId, providers : SUBSET Listing,
            attendance : BOOLEAN, spend : BOOLEAN, approved : BOOLEAN]

Outcome == {"booked", "escalated_to_adult", "no_viable_plan", "cap_breached"}
ASSUME NoneAssumption == None \notin Outcome

Place == {"idle", "planner", "planner_ledger", "planner_plan", "planner_return",
          "discovery", "discovery_insert", "g2", "guardian", "guardian_g3",
          "broker", "broker_commit", "broker_return",
          "planner_died", "discovery_died", "g2_died", "guardian_died", "broker_died",
          "done", "error"}

Idle ==
    [pc |-> "idle", teen |-> None, kind |-> "none",
     candidate |-> None, approved |-> None, verdict |-> None,
     vetoed |-> {}, unavailable |-> {},
     replans |-> 0, rounds |-> 0, rejects |-> 0, outcome |-> None,
     booked |-> {}, seen |-> None, review |-> None, at |-> 1]

PipeInit ==
    /\ req = [r \in Request |-> Idle]
    /\ approvals = {}
    /\ crashes = 0

(* Locals of a node, dropped when it returns. *)
Returned(q) == [q EXCEPT !.booked = {}, !.seen = None, !.review = None, !.at = 1]

At(r, place) == req[r].pc = place
Go(r, q) == req' = [req EXCEPT ![r] = q]
Fail(r) == Go(r, [Returned(req[r]) EXCEPT !.pc = "error"])

Price(i) == Weight(Cost, Keys(i))
Hours(i) == Weight(Duration, Keys(i))

-----------------------------------------------------------------------------
(* Requests arriving: api.py HobbiService.handle *)

(* intake_and_plan: setup stores the profile, then the graph starts at the  *)
(* Planner with an empty state.                                             *)
StartIntake(r, t, L) ==
    /\ At(r, "idle")
    /\ SetupProfile(t, L)
    /\ Go(r, [Idle EXCEPT !.pc = "planner", !.teen = t, !.kind = "intake"])
    /\ UNCHANGED <<ckb, approvals, crashes>>

(* guardian_approve: the grants are stored, then a new thread starts at G2  *)
(* with the stored plan as its candidate.                                   *)
StartApproval(r, p, G) ==
    /\ At(r, "idle")
    /\ p \in plans
    /\ G # {} /\ G \subseteq {"attendance", "spend"} \cup p.id.items
    /\ approvals' = approvals \cup {[plan |-> p.id, grant |-> g] : g \in G}
    /\ Go(r, [Idle EXCEPT !.pc = "g2", !.teen = p.id.teen, !.kind = "approval",
                          !.candidate = p])
    /\ UNCHANGED <<pdVars, ckb, crashes>>

(* compliance_scan with replan_flagged: one new thread per flagged plan,    *)
(* the retired listings unavailable from the start.                         *)
StartReplan(r, t, U) ==
    /\ At(r, "idle")
    /\ t \in profiles
    /\ Go(r, [Idle EXCEPT !.pc = "planner", !.teen = t, !.kind = "replan",
                          !.unavailable = U])
    /\ UNCHANGED <<pdVars, ckb, approvals, crashes>>

(* discovery_replay: an operator has the replay file loaded outside any     *)
(* plan's request.                                                          *)
StartDiscovery(r) ==
    /\ At(r, "idle")
    /\ Go(r, [Idle EXCEPT !.pc = "discovery", !.kind = "discovery"])
    /\ UNCHANGED <<pdVars, ckb, approvals, crashes>>

-----------------------------------------------------------------------------
(* Planner: planner_node, after_planner and Planner.create_plan *)

(* planner_snapshot reads the open bookings in one statement ...            *)
ReadBookings(r) ==
    /\ At(r, "planner")
    /\ Go(r, [req[r] EXCEPT !.pc = "planner_ledger",
              !.booked = {k.listing : k \in BookedOf(req[r].teen) \ reconciled}])
    /\ UNCHANGED <<pdVars, ckb, approvals, crashes>>

(* ... and the ledger afterwards, over another connection (get_ledger).     *)
ReadLedger(r) ==
    /\ At(r, "planner_ledger")
    /\ Go(r, [req[r] EXCEPT !.pc = "planner_plan", !.seen = ledger[req[r].teen]])
    /\ UNCHANGED <<pdVars, ckb, approvals, crashes>>

ItemLimit(L) == IF TriesRemaining(L) < MaxItems THEN TriesRemaining(L) ELSE MaxItems

(* A slip: the listings of rejections are considered again.                 *)
ConsideredAgain(q) == {l \in Known : l \notin q.unavailable \cup q.booked /\ ~Retired(l)}

Considered(q) ==
    {l \in Known : l \notin q.unavailable \cup q.booked \cup q.vetoed /\ ~Retired(l)}

(* The filter that drops a listing, in the order create_plan applies them.  *)
Filter(q, l) ==
    CASE Screen[q.teen][l] \in {"age", "travel"} -> Screen[q.teen][l]
      [] Cost[l] > MoneyRemaining(q.seen) -> "money"
      [] Duration[l] > HoursRemaining(q.seen) -> "time"
      [] q.teen \in NoPaid /\ Cost[l] > 0 -> "rules"
      [] OTHER -> Screen[q.teen][l]

Eligible(q) == {l \in Considered(q) : Filter(q, l) = "ok"}

(* max(binding_counts, key=...): the most frequent filter, the first listed *)
(* on a tie; limited_supply when nothing was filtered.                      *)
FilterOrder == <<"money", "travel", "time", "schedule", "age", "rules">>
ASSUME BindingAssumption ==
    {"none", "limited_supply"} \cup {FilterOrder[n] : n \in DOMAIN FilterOrder} \subseteq Binding
BindingConstraint(q) ==
    LET count == [n \in DOMAIN FilterOrder |->
                    Cardinality({l \in Considered(q) : Filter(q, l) = FilterOrder[n]})]
        most  == CHOOSE n \in DOMAIN FilterOrder :
                    \A m \in DOMAIN FilterOrder :
                        count[m] < count[n] \/ (count[m] = count[n] /\ n <= m)
    IN IF \A n \in DOMAIN FilterOrder : count[n] = 0
       THEN "limited_supply"
       ELSE FilterOrder[most]

(* The greedy pass: a listing is selected exactly when it fits beside the   *)
(* selected listings ranked before it.                                      *)
Fits(L, l, S) ==
    LET Before(w) == Cardinality({x \in S \X (1..MaxUnit) : x[2] <= w[x[1]]}) IN
    /\ Cardinality(S) < ItemLimit(L)
    /\ Before(Cost) + Cost[l] <= MoneyRemaining(L)
    /\ Before(Duration) + Duration[l] <= HoursRemaining(L)

Selected(q) ==
    LET eligible == Eligible(q) IN
    CHOOSE S \in SUBSET eligible :
        \A l \in eligible : l \in S <=> Fits(q.seen, l, {m \in S : Rank[m] < Rank[l]})

Thin(q, i) == Cardinality(i.items) < (IF ItemLimit(q.seen) < 2 THEN ItemLimit(q.seen) ELSE 2)

PlanFor(q) ==
    LET i == [teen |-> q.teen, version |-> q.seen.version, items |-> Selected(q)] IN
    [id |-> i, binding |-> IF Thin(q, i) THEN BindingConstraint(q) ELSE "none"]

(* No listing is eligible or no try is left: the request ends.              *)
PlannerGivesUp(r) ==
    LET q == req[r] IN
    /\ At(r, "planner_plan")
    /\ Eligible(q) = {} \/ ItemLimit(q.seen) <= 0
    /\ Go(r, [Returned(q) EXCEPT !.pc = "done", !.candidate = None,
                                 !.outcome = "no_viable_plan"])
    /\ UNCHANGED <<pdVars, ckb, approvals, crashes>>

(* A slip: an empty selection saved as a plan.                              *)
PlannerSavesEmpty(r) ==
    LET q == req[r] IN
    /\ At(r, "planner_plan")
    /\ SavePlan(PlanFor(q))
    /\ Go(r, [q EXCEPT !.pc = "planner_return", !.review = PlanFor(q)])
    /\ UNCHANGED <<ckb, approvals, crashes>>

(* The plan is saved, not live; G1 passes every plan the Planner builds.    *)
PlannerSaves(r) ==
    LET q == req[r] IN
    /\ At(r, "planner_plan")
    /\ Eligible(q) # {} /\ ItemLimit(q.seen) > 0
    /\ \E p \in {PlanFor(q)} :
          /\ SavePlan(p)
          /\ Go(r, [q EXCEPT !.pc = "planner_return", !.review = p])
    /\ UNCHANGED <<ckb, approvals, crashes>>

(* save_plan refuses the id with another content: ReplayConflict.           *)
PlannerCollides(r) ==
    LET q == req[r] IN
    /\ At(r, "planner_plan")
    /\ Eligible(q) # {} /\ ItemLimit(q.seen) > 0
    /\ \E p \in {PlanFor(q)} : Collides(p)
    /\ Fail(r)
    /\ UNCHANGED <<pdVars, ckb, approvals, crashes>>

PlannerReturns(r) ==
    LET q == req[r]
        p == q.review
        thin == p.binding # "none" IN
    /\ At(r, "planner_return")
    /\ Go(r, [Returned(q) EXCEPT
              !.pc = IF thin /\ q.rounds < MaxDiscoveryRounds THEN "discovery" ELSE "g2",
              !.candidate = p, !.approved = None])
    /\ UNCHANGED <<pdVars, ckb, approvals, crashes>>

-----------------------------------------------------------------------------
(* Discovery: discovery_node and Discovery.cached_replay, one record at a   *)
(* time in the order of the replay file                                     *)

DiscoverySkips(r) ==
    /\ At(r, "discovery") /\ req[r].at <= Len(Replay)
    /\ IsDuplicate(Replay[req[r].at])
    /\ Go(r, [req[r] EXCEPT !.at = @ + 1])
    /\ UNCHANGED <<pdVars, ckb, approvals, crashes>>

DiscoverySelects(r) ==
    /\ At(r, "discovery") /\ req[r].at <= Len(Replay)
    /\ IsNew(Replay[req[r].at])
    /\ Go(r, [req[r] EXCEPT !.pc = "discovery_insert"])
    /\ UNCHANGED <<pdVars, ckb, approvals, crashes>>

DiscoveryInserts(r) ==
    /\ At(r, "discovery_insert")
    /\ InsertListing(Replay[req[r].at])
    /\ Go(r, [req[r] EXCEPT !.pc = "discovery", !.at = @ + 1])
    /\ UNCHANGED <<pdVars, approvals, crashes>>

(* The stored row differs from the replay record, or the INSERT lost a race *)
(* on the primary key: the exception ends the request.                      *)
DiscoveryFails(r) ==
    /\ \/ /\ At(r, "discovery") /\ req[r].at <= Len(Replay)
          /\ IsCollision(Replay[req[r].at])
       \/ /\ At(r, "discovery_insert")
          /\ ~IsNew(Replay[req[r].at])
    /\ Fail(r)
    /\ UNCHANGED <<pdVars, ckb, approvals, crashes>>

(* A slip: the round is not counted.                                        *)
DiscoveryForgetsRound(r) ==
    LET q == req[r] IN
    /\ At(r, "discovery") /\ q.at > Len(Replay)
    /\ Go(r, [Returned(q) EXCEPT !.pc = IF q.kind = "discovery" THEN "done" ELSE "planner"])
    /\ UNCHANGED <<pdVars, ckb, approvals, crashes>>

DiscoveryReturns(r) ==
    LET q == req[r] IN
    /\ At(r, "discovery") /\ q.at > Len(Replay)
    /\ Go(r, IF q.kind = "discovery"
             THEN [Returned(q) EXCEPT !.pc = "done"]
             ELSE [Returned(q) EXCEPT !.pc = "planner", !.rounds = @ + 1])
    /\ UNCHANGED <<pdVars, ckb, approvals, crashes>>

-----------------------------------------------------------------------------
(* G2: Validator.g2 over the ledger and the knowledge base as they are now  *)

G2Passes(i) ==
    LET L == ledger[i.teen] IN
    /\ i.version = L.version
    /\ Price(i) <= MoneyRemaining(L)
    /\ Hours(i) <= HoursRemaining(L)
    /\ Cardinality(i.items) <= TriesRemaining(L)
    /\ \A l \in i.items : l \in Known /\ ~Retired(l)

(* A failed G2 records its outcome but keeps the edge to the Guardian.      *)
G2(r) ==
    LET q == req[r]
        passes == G2Passes(q.candidate.id) IN
    /\ At(r, "g2")
    /\ Go(r, [q EXCEPT !.pc = "guardian",
              !.approved = IF passes THEN q.candidate ELSE None,
              !.outcome = IF passes THEN @ ELSE "no_viable_plan"])
    /\ UNCHANGED <<pdVars, ckb, approvals, crashes>>

-----------------------------------------------------------------------------
(* Guardian and G3: guardian_node, Guardian.review, Validator.g3 *)

(* A slip: a grant for any plan of the teen counts.                         *)
GrantedToTeen(i, g) == \E x \in approvals : x.plan.teen = i.teen /\ x.grant = g

Granted(i, g) == [plan |-> i, grant |-> g] \in approvals
Unvetted(i, providers) ==
    {l \in i.items : ckb[l].verification = "unverified" /\ l \notin providers}
DeadItems(i) == {l \in i.items : Retired(l)}

(* Guardian.review over guardian_snapshot: a fresh verdict for this plan.   *)
ReviewOf(i) ==
    LET providers == {l \in i.items : Granted(i, l)} IN
    [plan |-> i, providers |-> providers,
     attendance |-> Granted(i, "attendance"), spend |-> Granted(i, "spend"),
     approved |-> /\ Unvetted(i, providers) = {} /\ DeadItems(i) = {}
                  /\ Granted(i, "attendance")
                  /\ Price(i) > 0 => Granted(i, "spend")
                  /\ ~(i.teen \in NoPaid /\ Price(i) > 0)]

G3Passes(i, v) ==
    /\ v.approved /\ v.plan = i
    /\ \A l \in i.items : l \in Known /\ (ckb[l].verification = "verified" \/ l \in v.providers)
    /\ v.attendance
    /\ Price(i) > 0 => v.spend

(* Without a G2-approved plan the node raises ValueError.                   *)
GuardianRefuses(r) ==
    /\ At(r, "guardian") /\ req[r].approved = None
    /\ Fail(r)
    /\ UNCHANGED <<pdVars, ckb, approvals, crashes>>

(* The review, with the listings to veto if it is a rejection that a new    *)
(* plan could answer.                                                       *)
GuardianReviews(r) ==
    LET q == req[r]
        i == q.approved.id IN
    /\ At(r, "guardian") /\ q.approved # None
    /\ \E v \in {ReviewOf(i)} :
          Go(r, [q EXCEPT !.pc = "guardian_g3",
                 !.review = [verdict |-> v, veto |-> Unvetted(i, v.providers) \cup DeadItems(i)]])
    /\ UNCHANGED <<pdVars, ckb, approvals, crashes>>

(* G3 reads the knowledge base again; an approval that fails it raises.     *)
GuardianApproves(r) ==
    LET q == req[r]
        v == q.review.verdict IN
    /\ At(r, "guardian_g3") /\ v.approved
    /\ IF G3Passes(q.approved.id, v)
       THEN Go(r, [Returned(q) EXCEPT !.pc = "broker", !.verdict = v])
       ELSE Fail(r)
    /\ UNCHANGED <<pdVars, ckb, approvals, crashes>>

(* A rejection ends at the adult on the second one, or when no other plan   *)
(* could help; it ends capped after MaxReplans; else it goes back to the    *)
(* Planner with the rejected listings vetoed.                               *)
GuardianRejects(r) ==
    LET q == req[r]
        rejects == q.rejects + 1
        replannable == q.review.veto # {} \/ (q.teen \in NoPaid /\ Price(q.approved.id) > 0)
        next == [Returned(q) EXCEPT !.verdict = q.review.verdict, !.rejects = rejects,
                                    !.vetoed = @ \cup q.review.veto] IN
    /\ At(r, "guardian_g3") /\ ~q.review.verdict.approved
    /\ Go(r, IF rejects >= MaxGuardianRejections \/ ~replannable
             THEN [next EXCEPT !.pc = "done", !.outcome = "escalated_to_adult"]
             ELSE IF q.replans >= MaxReplans
             THEN [next EXCEPT !.pc = "done", !.outcome = "cap_breached"]
             ELSE [next EXCEPT !.pc = "planner", !.replans = @ + 1,
                               !.candidate = None, !.approved = None])
    /\ UNCHANGED <<pdVars, ckb, approvals, crashes>>

-----------------------------------------------------------------------------
(* Broker and G4: broker_node, Broker.book, Validator.g4 *)

(* A slip: the Broker's replans are not capped.                             *)
BrokerReplansFreely(r, l) ==
    LET q == req[r] IN
    /\ At(r, "broker")
    /\ l \in q.approved.id.items
    /\ l \in q.unavailable \cup Flaky
    /\ Go(r, [Returned(q) EXCEPT !.pc = "planner", !.replans = @ + 1,
                                 !.unavailable = @ \cup {l},
                                 !.approved = None, !.verdict = None])
    /\ UNCHANGED <<pdVars, ckb, approvals, crashes>>

(* An item is unavailable: the listing is excluded and the graph replans,   *)
(* or ends capped.                                                          *)
BrokerUnavailable(r, l) ==
    LET q == req[r] IN
    /\ At(r, "broker")
    /\ l \in q.approved.id.items
    /\ l \in q.unavailable \cup Flaky
    /\ Go(r, IF q.replans >= MaxReplans
             THEN [Returned(q) EXCEPT !.pc = "done", !.outcome = "cap_breached"]
             ELSE [Returned(q) EXCEPT !.pc = "planner", !.replans = @ + 1,
                                      !.unavailable = @ \cup {l},
                                      !.approved = None, !.verdict = None])
    /\ UNCHANGED <<pdVars, ckb, approvals, crashes>>

(* Every item is available and G3 holds on the records read now: the plan   *)
(* is saved again, which changes nothing, and the verdict is stored.        *)
BrokerPrepares(r) ==
    LET q == req[r] IN
    /\ At(r, "broker")
    /\ q.approved.id.items \cap q.unavailable = {}
    /\ G3Passes(q.approved.id, q.verdict)
    /\ ~Collides(q.approved) /\ q.approved \in plans
    /\ SaveGuardianVerdict([plan |-> q.verdict.plan, approved |-> q.verdict.approved])
    /\ Go(r, [q EXCEPT !.pc = "broker_commit"])
    /\ UNCHANGED <<ckb, approvals, crashes>>

BrokerFailsG3(r) ==
    LET q == req[r] IN
    /\ At(r, "broker")
    /\ q.approved.id.items \cap q.unavailable = {}
    /\ ~G3Passes(q.approved.id, q.verdict)
    /\ Fail(r)
    /\ UNCHANGED <<pdVars, ckb, approvals, crashes>>

(* Slips: a refused commit reported as booked; a replay refused as a commit. *)
BrokerSwallowsRefusal(r) ==
    LET i == req[r].approved.id IN
    /\ At(r, "broker_commit")
    /\ ~CommitAllowed(i) /\ Keys(i) \cap bookings = {}
    /\ Go(r, [Returned(req[r]) EXCEPT !.pc = "done", !.outcome = "booked"])
    /\ UNCHANGED <<pdVars, ckb, approvals, crashes>>
BrokerRefusesReplay(r) ==
    LET i == req[r].approved.id IN
    /\ At(r, "broker_commit")
    /\ ~CommitAllowed(i)
    /\ Fail(r)
    /\ UNCHANGED <<pdVars, ckb, approvals, crashes>>

BrokerCommits(r) ==
    LET i == req[r].approved.id IN
    /\ At(r, "broker_commit")
    /\ CommitPlanBookings(i) \/ ReplayCommit(i)
    /\ Go(r, [req[r] EXCEPT !.pc = "broker_return"])
    /\ UNCHANGED <<ckb, approvals, crashes>>

(* StaleLedgerVersion, LedgerConstraintError and the rest end the request.  *)
BrokerRefused(r) ==
    LET i == req[r].approved.id IN
    /\ At(r, "broker_commit")
    /\ ~CommitAllowed(i) /\ Keys(i) \cap bookings = {}
    /\ Fail(r)
    /\ UNCHANGED <<pdVars, ckb, approvals, crashes>>

(* G4 over the evidence of the commit, then the terminal outcome.           *)
BrokerReturns(r) ==
    LET q == req[r] IN
    /\ At(r, "broker_return")
    /\ IF EvidenceHolds(q.approved.id)
       THEN Go(r, [Returned(q) EXCEPT !.pc = "done", !.outcome = "booked"])
       ELSE Fail(r)
    /\ UNCHANGED <<pdVars, ckb, approvals, crashes>>

-----------------------------------------------------------------------------
(* Crash: the process dies inside a node                                    *)

NodeOf(place) ==
    CASE place \in {"planner_ledger", "planner_plan", "planner_return"} -> "planner"
      [] place = "discovery_insert" -> "discovery"
      [] place = "guardian_g3" -> "guardian"
      [] place \in {"broker_commit", "broker_return"} -> "broker"
      [] OTHER -> place

(* A thread whose process died, by the node it will run when resumed.       *)
Died == [planner |-> "planner_died", discovery |-> "discovery_died", g2 |-> "g2_died",
         guardian |-> "guardian_died", broker |-> "broker_died"]
Down(r) == \E node \in DOMAIN Died : At(r, Died[node])
Running(r) == req[r].pc \notin {"idle", "done", "error"} /\ ~Down(r)

(* What the node had committed stays; the state is the last checkpoint's.   *)
Crash(r) ==
    /\ Running(r) /\ crashes < MaxCrashes
    /\ crashes' = crashes + 1
    /\ Go(r, [Returned(req[r]) EXCEPT !.pc = Died[NodeOf(@)]])
    /\ UNCHANGED <<pdVars, ckb, approvals>>

(* HobbiRuntime.resume: the node of the last checkpoint runs from its start. *)
(* A discovery_replay is no graph thread and leaves no checkpoint.           *)
Resume(r) ==
    /\ req[r].kind # "discovery"
    /\ \E node \in DOMAIN Died :
          At(r, Died[node]) /\ Go(r, [req[r] EXCEPT !.pc = node])
    /\ UNCHANGED <<pdVars, ckb, approvals, crashes>>

(* One step of a request that has started. *)
NodeStep(r) ==
    \/ ReadBookings(r) \/ ReadLedger(r)
    \/ PlannerGivesUp(r) \/ PlannerSaves(r) \/ PlannerCollides(r) \/ PlannerReturns(r)
    \/ DiscoverySkips(r) \/ DiscoverySelects(r) \/ DiscoveryInserts(r)
    \/ DiscoveryFails(r) \/ DiscoveryReturns(r)
    \/ G2(r)
    \/ GuardianRefuses(r) \/ GuardianReviews(r) \/ GuardianApproves(r) \/ GuardianRejects(r)
    \/ \E l \in Listing : BrokerUnavailable(r, l)
    \/ BrokerPrepares(r) \/ BrokerFailsG3(r)
    \/ BrokerCommits(r) \/ BrokerRefused(r) \/ BrokerReturns(r)
=============================================================================
