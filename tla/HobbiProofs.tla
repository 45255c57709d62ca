----------------------------- MODULE HobbiProofs -----------------------------
(* The service, proved for every set of teens, listings, requests and scans *)
(* and for every seed, replay feed and cap: the claims the runs of MCHobbi  *)
(* check, as theorems of Spec. They all follow from one inductive           *)
(* invariant, HobbiInv, of four parts:                                      *)
(*                                                                          *)
(* PDInv: the store's own invariant, which the service keeps because each   *)
(* of its steps is one transaction of the store (ServiceStoreStep);         *)
(*                                                                          *)
(* ServiceTyped: the types;                                                 *)
(*                                                                          *)
(* RequestInv: what a request holds at each place of the graph (a plan that *)
(* avoids what was refused, a verdict whose grants are on file, a booking's *)
(* authority, the budgets it has left);                                     *)
(*                                                                          *)
(* ScanInv: the copies of the knowledge base that scans hold agree with the *)
(* rows and with one another except where one of them is retired, and a     *)
(* flag names a dead listing.                                               *)
(*                                                                          *)
(* A step moves one request, one scan or the store alone. For a request,    *)
(* each operation "lands": the fields it leaves fit the place it goes to,   *)
(* in the tables the step leaves (the ...Lands lemmas), and requests that   *)
(* stay are undisturbed because what they rely on only grows (Grows,        *)
(* RequestsStand). That a commit is reported needs one part more, BrokerInv:*)
(* the verdict the Broker holds still passes G3 unless an item was retired. *)
(* What a scan serves needs no invariant beyond the types: it is decided    *)
(* from the rows it starts with (ListServesInTurn).                         *)
EXTENDS Hobbi, PipelineProofs, ContractProofs

-----------------------------------------------------------------------------
(* The inductive invariant *)

DiscoveryPlace == {"discovery", "discovery_insert", "discovery_died"}
BrokerPlace    == {"broker", "broker_commit", "broker_return", "broker_died"}
ChosenPlace    == {"g2", "g2_died", "guardian", "guardian_g3", "guardian_died"} \cup BrokerPlace

(* The types of a request's fields; the proofs rarely look inside them.     *)
Review      == [verdict : Verdict, veto : SUBSET Listing]
Kind        == {"none", "intake", "approval", "replan", "discovery"}
MaybeTeen   == Teen \cup {None}
MaybePlan   == Plan \cup {None}
MaybeVerdict == Verdict \cup {None}
MaybeOutcome == Outcome \cup {None}
MaybeLedger == Ledger \cup {None}
InReview    == Plan \cup Review \cup {None}
ListingSet  == SUBSET Listing
ReplayIndex == 1..(Len(Replay) + 1)
HobbiState  ==
    [pc : Place, teen : MaybeTeen, kind : Kind,
     candidate : MaybePlan, approved : MaybePlan, verdict : MaybeVerdict,
     vetoed : ListingSet, unavailable : ListingSet,
     replans : Nat, rounds : Nat, rejects : Nat, outcome : MaybeOutcome,
     booked : ListingSet, seen : MaybeLedger, review : InReview, at : ReplayIndex]

ScanPlace    == {"idle", "fetch", "update", "flag", "done", "dead"}
Copies       == UNION {[D -> Record] : D \in SUBSET Listing}
MaybeListing == Listing \cup {0}
MaybeRecord  == Record \cup {0}
MaybeThread  == Request \cup {0}
Replans      == SUBSET [plan : PlanId, dead : Listing]
ScanState ==
    [pc : ScanPlace, copy : Copies, todo : ListingSet, at : MaybeListing,
     write : MaybeRecord, retired : ListingSet, replan : Replans, thread : MaybeThread]

ServiceTyped ==
    /\ KBTypeOK /\ ckb \in [Known -> Record]
    /\ req \in [Request -> HobbiState]
    /\ approvals \subseteq Approval
    /\ crashes \in 0..MaxCrashes
    /\ scan \in [Scan -> ScanState]

(* What a request holds at each place of the graph.                         *)
Avoids(q, p) == p.id.items \cap (q.vetoed \cup q.unavailable) = {}
Placed(q) ==
    /\ q.kind = "discovery" => q.pc \in DiscoveryPlace \cup {"done", "error"}
    /\ q.kind # "discovery" /\ q.pc \notin {"idle", "done", "error"} => q.teen \in profiles
    /\ q.pc = "planner_plan" => q.seen \in Ledger
    /\ q.pc = "planner_return" => q.review \in plans /\ Avoids(q, q.review)
    /\ q.pc = "discovery_insert" => q.at <= Len(Replay)
    /\ q.candidate \in plans \cup {None} /\ q.approved \in plans \cup {None}
    /\ q.pc \in ChosenPlace => q.candidate \in plans /\ Avoids(q, q.candidate)

Backed(v) ==
    /\ v.attendance => Granted(v.plan, "attendance")
    /\ v.spend => Granted(v.plan, "spend")
    /\ \A l \in v.providers : Granted(v.plan, l)
Authorised(i) ==
    /\ Granted(i, "attendance")
    /\ Price(i) > 0 => Granted(i, "spend")
    /\ \A l \in i.items : ArrivedVerified(l) \/ Granted(i, l)
Approved(q) ==
    /\ q.pc = "guardian_g3" =>
          /\ q.approved \in plans /\ q.review \in Review
          /\ q.review.verdict.plan = q.approved.id /\ Backed(q.review.verdict)
    /\ q.pc \in BrokerPlace =>
          /\ q.approved \in plans /\ q.verdict \in Verdict
          /\ q.verdict.plan = q.approved.id /\ Backed(q.verdict)
    /\ q.pc \in {"broker_commit", "broker_return"} => Authorised(q.approved.id)
    /\ q.pc = "broker_return" => Keys(q.approved.id) \subseteq bookings
    /\ q.outcome = "booked" => q.pc = "done" /\ Keys(q.approved.id) \subseteq bookings

Looped(q) ==
    /\ q.replans <= MaxReplans /\ q.rounds <= MaxDiscoveryRounds
    /\ q.rejects <= MaxGuardianRejections
    /\ q.pc \in DiscoveryPlace /\ q.kind # "discovery" => q.rounds < MaxDiscoveryRounds
    /\ q.rejects = MaxGuardianRejections => q.pc = "done" /\ q.outcome = "escalated_to_adult"

RequestInv ==
    /\ \A p \in plans : p.id.items \subseteq Known
    /\ \A r \in Request : Placed(req[r]) /\ Approved(req[r]) /\ Looped(req[r])
    /\ \A k \in bookings : Authorised(k.plan)

Working(s)    == scan[s].pc \in {"fetch", "update", "flag"}
Awaited(s)    == scan[s].todo \cup (IF Scanning(s, "update") THEN {scan[s].at} ELSE {})
SameUnlessRetired(x, y) ==
    x.verification = "retired" \/ y.verification = "retired" \/ x.verification = y.verification
CopyKept(s) ==
    LET q == scan[s] IN
    /\ DOMAIN q.copy \subseteq Known /\ Awaited(s) \subseteq DOMAIN q.copy
    /\ \A l \in DOMAIN q.copy :
          /\ q.copy[l].verification = "verified" => ArrivedVerified(l)
          /\ SameUnlessRetired(q.copy[l], ckb[l])
          /\ \A o \in Scan : Working(o) /\ l \in DOMAIN scan[o].copy =>
                                SameUnlessRetired(q.copy[l], scan[o].copy[l])
    /\ \A l \in Awaited(s) :
          /\ q.copy[l].verification # "retired"
          /\ Retired(l) => \E o \in Scan \ {s} : l \in scan[o].retired
WritePending(s) ==
    LET q == scan[s] IN
    /\ q.at \notin q.todo
    /\ q.write \in Record /\ q.write.verification \in {q.copy[q.at].verification, "retired"}
ScanInv ==
    /\ \A l \in Known : ckb[l].verification = "verified" => ArrivedVerified(l)
    /\ \A s \in Scan :
          /\ Working(s) => CopyKept(s)
          /\ Scanning(s, "update") => WritePending(s)
          /\ Scanning(s, "flag") => scan[s].at \in scan[s].retired
          /\ Scanning(s, "idle") => scan[s].retired = {}
    /\ FlagsAreExplained

HobbiInv == PDInv /\ ServiceTyped /\ RequestInv /\ ScanInv
-----------------------------------------------------------------------------
Grows ==
    /\ profiles \subseteq profiles' /\ plans \subseteq plans' /\ bookings \subseteq bookings'
    /\ approvals \subseteq approvals' /\ Known \subseteq Known'

(* The blanks of a record are in its fields' types.                         *)
LEMMA Blanks ==
    /\ None \in MaybeTeen /\ None \in MaybePlan /\ None \in MaybeVerdict
    /\ None \in MaybeOutcome /\ None \in MaybeLedger /\ None \in InReview
    /\ {} \in ListingSet /\ 1 \in ReplayIndex
<1>1. Len(Replay) \in Nat
  BY ReplayAssumption
<1> QED BY <1>1 DEF MaybeTeen, MaybePlan, MaybeVerdict, MaybeOutcome, MaybeLedger, InReview, ListingSet, ReplayIndex

(* The places of the graph, by name.                                        *)
LEMMA Names ==
    /\ "idle" \in Place /\ "planner" \in Place /\ "planner_ledger" \in Place
    /\ "planner_plan" \in Place /\ "planner_return" \in Place
    /\ "discovery" \in Place /\ "discovery_insert" \in Place /\ "g2" \in Place
    /\ "guardian" \in Place /\ "guardian_g3" \in Place /\ "broker" \in Place
    /\ "broker_commit" \in Place /\ "broker_return" \in Place
    /\ "planner_died" \in Place /\ "discovery_died" \in Place /\ "g2_died" \in Place
    /\ "guardian_died" \in Place /\ "broker_died" \in Place
    /\ "done" \in Place /\ "error" \in Place
    /\ Outcome \subseteq MaybeOutcome
BY DEF Place, MaybeOutcome

(* A step that changes the place and the locals of a node, and nothing that *)
(* is checkpointed.                                                         *)
Keeps(q, p) ==
    /\ q.teen = p.teen /\ q.kind = p.kind /\ q.candidate = p.candidate
    /\ q.approved = p.approved /\ q.verdict = p.verdict
    /\ q.vetoed = p.vetoed /\ q.unavailable = p.unavailable
    /\ q.replans = p.replans /\ q.rounds = p.rounds /\ q.rejects = p.rejects
    /\ q.outcome = p.outcome

(* Leaving a node clears its locals and keeps what is checkpointed.         *)
LEMMA ReturnedFields ==
    ASSUME NEW q \in HobbiState
    PROVE  /\ Returned(q) \in HobbiState
           /\ Returned(q).pc = q.pc /\ Returned(q).teen = q.teen /\ Returned(q).kind = q.kind
           /\ Returned(q).candidate = q.candidate /\ Returned(q).approved = q.approved
           /\ Returned(q).verdict = q.verdict /\ Returned(q).vetoed = q.vetoed
           /\ Returned(q).unavailable = q.unavailable /\ Returned(q).replans = q.replans
           /\ Returned(q).rounds = q.rounds /\ Returned(q).rejects = q.rejects
           /\ Returned(q).outcome = q.outcome
BY Blanks DEF Returned, HobbiState

(* The same, as a state to go on from.                                      *)
LEMMA ReturnedKeeps ==
    ASSUME NEW q \in HobbiState
    PROVE  \E P \in HobbiState : P = Returned(q) /\ P.pc = q.pc /\ Keeps(P, q)
BY ReturnedFields DEF Keeps

(* A step that moves request r leaves it in a place that fits its fields.   *)
Lands(r) ==
    \E q \in HobbiState : Go(r, q) /\ Placed(q)' /\ Approved(q)' /\ Looped(q)

(* What the invariant says of one request.                                  *)
LEMMA Stands ==
    ASSUME HobbiInv, NEW r \in Request
    PROVE  /\ req[r] \in HobbiState
           /\ Placed(req[r]) /\ Approved(req[r]) /\ Looped(req[r])
BY DEF HobbiInv, ServiceTyped, RequestInv

(* The store's tables as the service's proofs need them.                    *)
LEMMA Tables ==
    ASSUME HobbiInv
    PROVE  /\ plans \subseteq Plan /\ profiles \subseteq Teen /\ Known \in SUBSET Listing
           /\ ledger \in [Teen -> Ledger]
           /\ \A p \in plans : p.id \in PlanId /\ p.id.teen \in profiles
BY DEF HobbiInv, PDInv, PDTypeOK, Grounded, ServiceTyped, KBTypeOK, Plan

(* The caps are numbers, and a first rejection is always permitted.         *)
LEMMA Capped ==
    /\ MaxReplans \in Nat /\ MaxDiscoveryRounds \in Nat /\ MaxGuardianRejections \in Nat
    /\ MaxGuardianRejections # 0
BY CapAssumption

(* An error ends a request, which keeps what it had.                        *)
LEMMA FailLands ==
    ASSUME HobbiInv, Grows, NEW r \in Request, Fail(r), req[r].pc \notin {"done", "idle", "error"}
    PROVE  Lands(r)
<1>1. req[r] \in HobbiState /\ Placed(req[r]) /\ Approved(req[r]) /\ Looped(req[r])
  BY Stands
<1>2. PICK q : q = [Returned(req[r]) EXCEPT !.pc = "error"]
  OBVIOUS
<1>3. /\ q \in HobbiState /\ q.pc = "error" /\ q.candidate = req[r].candidate /\ q.approved = req[r].approved
      /\ q.outcome = req[r].outcome /\ q.replans = req[r].replans
      /\ q.rounds = req[r].rounds /\ q.rejects = req[r].rejects
  <2>1. PICK P \in HobbiState : P = Returned(req[r]) /\ Keeps(P, req[r])
    BY <1>1, ReturnedKeeps
  <2>2. q \in HobbiState
    BY <1>1, <1>2, <2>1, Names DEF HobbiState
  <2> QED BY <1>1, <1>2, <2>1, <2>2 DEF HobbiState, Keeps
<1>4. Placed(q)'
  BY <1>1, <1>3 DEF Placed, Grows, ChosenPlace, BrokerPlace
<1>5. Approved(q)'
  BY <1>1, <1>3 DEF Approved, BrokerPlace
<1>6. Looped(q)
  BY <1>1, <1>3 DEF Looped, DiscoveryPlace
<1> QED BY <1>2, <1>3, <1>4, <1>5, <1>6 DEF Lands, Fail

-----------------------------------------------------------------------------
(* Requests arriving *)

(* A request that has not arrived.                                          *)
LEMMA IdleFields ==
    /\ Idle \in HobbiState
    /\ Idle.pc = "idle" /\ Idle.teen = None /\ Idle.kind = "none"
    /\ Idle.candidate = None /\ Idle.approved = None /\ Idle.verdict = None
    /\ Idle.vetoed = {} /\ Idle.unavailable = {} /\ Idle.outcome = None
    /\ Idle.replans = 0 /\ Idle.rounds = 0 /\ Idle.rejects = 0
    /\ "none" \in Kind /\ "intake" \in Kind /\ "approval" \in Kind
    /\ "replan" \in Kind /\ "discovery" \in Kind
<1>1. /\ "none" \in Kind /\ "intake" \in Kind /\ "approval" \in Kind
      /\ "replan" \in Kind /\ "discovery" \in Kind
  BY DEF Kind
<1> QED BY <1>1, Blanks, Names DEF Idle, HobbiState

(* A request that has just started has used none of its budgets.            *)
LEMMA StartsLooped ==
    ASSUME NEW q \in HobbiState, q.replans = 0, q.rounds = 0, q.rejects = 0, q.outcome = None,
           q.pc \in DiscoveryPlace => q.kind = "discovery"
    PROVE  Looped(q) /\ q.outcome # "booked"
<1>1. q.outcome # "booked"
  BY NoneAssumption DEF Outcome
<1> QED BY <1>1, Capped DEF Looped

(* An intake begins at the Planner, for a teen whose profile it has saved.  *)
LEMMA IntakeLands ==
    ASSUME HobbiInv, Grows, NEW r \in Request, IntakeArrives(r)
    PROVE  Lands(r)
<1>1. PICK t \in Teen, L \in OpeningLedger : StartIntake(r, t, L)
  BY DEF IntakeArrives
<1>2. t \in profiles'
  BY <1>1 DEF StartIntake, SetupProfile
<1>3. t \in MaybeTeen
  BY DEF MaybeTeen
<1>4. PICK q : q = [Idle EXCEPT !.pc = "planner", !.teen = t, !.kind = "intake"]
  OBVIOUS
<1>5. /\ q \in HobbiState /\ q.pc = "planner" /\ q.teen = t /\ q.kind = "intake"
      /\ q.candidate = None /\ q.approved = None /\ q.outcome = None
      /\ q.replans = 0 /\ q.rounds = 0 /\ q.rejects = 0
  BY <1>3, <1>4, IdleFields, Names DEF HobbiState
<1>6. Placed(q)'
  BY <1>2, <1>5 DEF Placed, ChosenPlace, BrokerPlace
<1>7. Looped(q) /\ q.outcome # "booked"
  BY <1>5, StartsLooped DEF DiscoveryPlace
<1>8. Approved(q)'
  BY <1>5, <1>7 DEF Approved, BrokerPlace
<1> QED BY <1>1, <1>4, <1>5, <1>6, <1>7, <1>8 DEF Lands, StartIntake

(* An approval begins at G2, with the saved plan it was given.              *)
LEMMA ApprovalLands ==
    ASSUME HobbiInv, Grows, NEW r \in Request, ApprovalArrives(r)
    PROVE  Lands(r)
<1>1. PICK p \in plans, G \in GrantSets :
         StartApproval(r, p, G \cap ({"attendance", "spend"} \cup p.id.items))
  BY DEF ApprovalArrives
<1>2. p \in plans' /\ p.id.teen \in profiles' /\ p.id.teen \in Teen /\ p \in Plan
  BY Tables DEF Grows
<1>3. p.id.teen \in MaybeTeen /\ p \in MaybePlan
  BY <1>2 DEF MaybeTeen, MaybePlan
<1>4. PICK q : q = [Idle EXCEPT !.pc = "g2", !.teen = p.id.teen, !.kind = "approval",
                                !.candidate = p]
  OBVIOUS
<1>5. /\ q \in HobbiState /\ q.pc = "g2" /\ q.teen = p.id.teen /\ q.kind = "approval"
      /\ q.candidate = p /\ q.approved = None /\ q.outcome = None
      /\ q.vetoed = {} /\ q.unavailable = {}
      /\ q.replans = 0 /\ q.rounds = 0 /\ q.rejects = 0
  BY <1>3, <1>4, IdleFields, Names DEF HobbiState
<1>6. Placed(q)'
  BY <1>2, <1>5 DEF Placed, ChosenPlace, BrokerPlace, Avoids
<1>7. Looped(q) /\ q.outcome # "booked"
  BY <1>5, StartsLooped DEF DiscoveryPlace
<1>8. Approved(q)'
  BY <1>5, <1>7 DEF Approved, BrokerPlace
<1> QED BY <1>1, <1>4, <1>5, <1>6, <1>7, <1>8 DEF Lands, StartApproval

(* A replan begins at the Planner, with the dead listings unavailable.      *)
LEMMA ReplanLands ==
    ASSUME HobbiInv, Grows, NEW r \in Request, NEW s \in Scan, ReplanArrives(r, s)
    PROVE  Lands(r)
<1>1. PICK f \in scan[s].replan : StartReplan(r, f.plan.teen, scan[s].retired)
  BY DEF ReplanArrives
<1> DEFINE t == f.plan.teen
<1>2. t \in profiles /\ t \in Teen /\ t \in profiles'
  BY <1>1, Tables DEF StartReplan, Grows
<1>3. t \in MaybeTeen /\ scan[s].retired \in ListingSet
  BY <1>2 DEF MaybeTeen, ListingSet, HobbiInv, ServiceTyped, ScanState
<1> HIDE DEF t
<1>4. PICK q : q = [Idle EXCEPT !.pc = "planner", !.teen = t, !.kind = "replan",
                                !.unavailable = scan[s].retired]
  OBVIOUS
<1>5. /\ q \in HobbiState /\ q.pc = "planner" /\ q.teen = t /\ q.kind = "replan"
      /\ q.candidate = None /\ q.approved = None /\ q.outcome = None
      /\ q.replans = 0 /\ q.rounds = 0 /\ q.rejects = 0
  BY <1>3, <1>4, IdleFields, Names DEF HobbiState
<1>6. Placed(q)'
  BY <1>2, <1>5 DEF Placed, ChosenPlace, BrokerPlace
<1>7. Looped(q) /\ q.outcome # "booked"
  BY <1>5, StartsLooped DEF DiscoveryPlace
<1>8. Approved(q)'
  BY <1>5, <1>7 DEF Approved, BrokerPlace
<1> QED BY <1>1, <1>4, <1>5, <1>6, <1>7, <1>8 DEF Lands, StartReplan, t

(* A discovery request has only the discovery node to run.                  *)
LEMMA DiscoveryLands ==
    ASSUME HobbiInv, Grows, NEW r \in Request, DiscoveryArrives(r)
    PROVE  Lands(r)
<1>1. StartDiscovery(r)
  BY DEF DiscoveryArrives
<1>2. PICK q : q = [Idle EXCEPT !.pc = "discovery", !.kind = "discovery"]
  OBVIOUS
<1>3. /\ q \in HobbiState /\ q.pc = "discovery" /\ q.kind = "discovery"
      /\ q.candidate = None /\ q.approved = None /\ q.outcome = None
      /\ q.replans = 0 /\ q.rounds = 0 /\ q.rejects = 0
  BY <1>2, IdleFields, Names DEF HobbiState
<1>4. Placed(q)'
  BY <1>3 DEF Placed, ChosenPlace, BrokerPlace, DiscoveryPlace
<1>5. Looped(q) /\ q.outcome # "booked"
  BY <1>3, StartsLooped DEF DiscoveryPlace
<1>6. Approved(q)'
  BY <1>3, <1>5 DEF Approved, BrokerPlace
<1> QED BY <1>1, <1>2, <1>3, <1>4, <1>5, <1>6 DEF Lands, StartDiscovery

-----------------------------------------------------------------------------
(* The Planner *)

(* A request inside the graph is not booked yet, and has a rejection left.  *)
LEMMA Inside ==
    ASSUME HobbiInv, NEW r \in Request, req[r].pc \notin {"idle", "done", "error"}
    PROVE  /\ req[r].outcome # "booked" /\ req[r].rejects < MaxGuardianRejections
           /\ req[r].replans \in Nat /\ req[r].rounds \in Nat /\ req[r].rejects \in Nat
           /\ req[r].replans <= MaxReplans /\ req[r].rounds <= MaxDiscoveryRounds
           /\ req[r].kind # "discovery" => req[r].teen \in profiles /\ req[r].teen \in Teen
<1>1. req[r] \in HobbiState /\ Placed(req[r]) /\ Approved(req[r]) /\ Looped(req[r])
  BY Stands
<1>2. /\ req[r].replans \in Nat /\ req[r].rounds \in Nat /\ req[r].rejects \in Nat
      /\ req[r].replans <= MaxReplans /\ req[r].rounds <= MaxDiscoveryRounds
      /\ req[r].rejects <= MaxGuardianRejections /\ req[r].rejects # MaxGuardianRejections
  BY <1>1 DEF HobbiState, Looped
<1>3. req[r].outcome # "booked"
  BY <1>1 DEF Approved
<1>4. req[r].kind # "discovery" => req[r].teen \in profiles
  BY <1>1 DEF Placed
<1> QED BY <1>2, <1>3, <1>4, Tables, Capped

(* Such a step, into the Planner's or Discovery's places.                   *)
LEMMA EarlyMove ==
    ASSUME HobbiInv, Grows, NEW r \in Request, req[r].pc \notin {"idle", "done", "error"},
           NEW q \in HobbiState, Keeps(q, req[r]), Go(r, q),
           q.pc \in {"planner", "planner_ledger", "planner_plan", "planner_return",
                     "discovery", "discovery_insert"},
           q.kind = "discovery" => q.pc \in DiscoveryPlace,
           q.pc = "planner_plan" => q.seen \in Ledger,
           q.pc = "planner_return" => q.review \in plans' /\ Avoids(q, q.review),
           q.pc = "discovery_insert" => q.at <= Len(Replay),
           q.pc \in DiscoveryPlace => req[r].pc \in DiscoveryPlace
    PROVE  Lands(r)
<1>1. req[r] \in HobbiState /\ Placed(req[r]) /\ Approved(req[r]) /\ Looped(req[r])
  BY Stands
<1>2. Placed(q)'
  <2>1. q.kind = "discovery" => q.pc \in DiscoveryPlace \cup {"done", "error"}
    OBVIOUS
  <2>2. q.kind # "discovery" => q.teen \in profiles'
    BY Inside DEF Keeps, Grows
  <2>3. q.candidate \in plans' \cup {None} /\ q.approved \in plans' \cup {None}
    BY <1>1 DEF Placed, Keeps, Grows
  <2>4. q.pc \notin ChosenPlace
    BY DEF ChosenPlace, BrokerPlace
  <2>5. q.pc = "planner_return" => q.review \in plans' /\ Avoids(q, q.review)'
    BY DEF Avoids
  <2> QED BY <2>1, <2>2, <2>3, <2>4, <2>5 DEF Placed
<1>3. Approved(q)'
  BY Inside DEF Approved, Keeps, BrokerPlace
<1>4. Looped(q)
  BY <1>1, Inside, Capped DEF Looped, Keeps
<1> QED BY <1>2, <1>3, <1>4 DEF Lands

(* The listings a teen has booked become the Planner's to avoid.            *)
LEMMA ReadBookingsLands ==
    ASSUME HobbiInv, Grows, NEW r \in Request, ReadBookings(r) PROVE Lands(r)
<1> DEFINE B == {k.listing : k \in BookedOf(req[r].teen) \ reconciled}
<1>1. req[r] \in HobbiState /\ Placed(req[r]) /\ req[r].pc = "planner"
  BY Stands DEF ReadBookings, At
<1>2. B \in ListingSet
  <2>1. \A k \in bookings : k.listing \in Listing
    BY DEF HobbiInv, PDInv, PDTypeOK, Key
  <2> QED BY <2>1 DEF ListingSet, BookedOf
<1> HIDE DEF B
<1>3. PICK q : q = [req[r] EXCEPT !.pc = "planner_ledger", !.booked = B]
  OBVIOUS
<1>4. q \in HobbiState /\ q.pc = "planner_ledger" /\ Keeps(q, req[r])
  BY <1>1, <1>2, <1>3, Names DEF HobbiState, Keeps
<1>5. q.kind # "discovery"
  BY <1>1, <1>4 DEF Placed, DiscoveryPlace, Keeps
<1>6. Go(r, q)
  BY <1>3 DEF ReadBookings, B
<1> QED BY <1>1, <1>4, <1>5, <1>6, EarlyMove DEF DiscoveryPlace

(* The ledger read is the teen's, who has a profile.                        *)
LEMMA ReadLedgerLands ==
    ASSUME HobbiInv, Grows, NEW r \in Request, ReadLedger(r) PROVE Lands(r)
<1>1. req[r] \in HobbiState /\ Placed(req[r]) /\ req[r].pc = "planner_ledger"
  BY Stands DEF ReadLedger, At
<1>2. req[r].kind # "discovery"
  BY <1>1 DEF Placed, DiscoveryPlace
<1>3. ledger[req[r].teen] \in Ledger
  BY <1>1, <1>2, Inside, Tables
<1>4. ledger[req[r].teen] \in MaybeLedger
  BY <1>3 DEF MaybeLedger
<1>5. PICK q : q = [req[r] EXCEPT !.pc = "planner_plan", !.seen = ledger[req[r].teen]]
  OBVIOUS
<1>6. /\ q \in HobbiState /\ q.pc = "planner_plan" /\ q.seen = ledger[req[r].teen]
      /\ Keeps(q, req[r])
  BY <1>1, <1>4, <1>5, Names DEF HobbiState, Keeps
<1>7. Go(r, q)
  BY <1>5 DEF ReadLedger
<1>8. q.kind # "discovery"
  BY <1>2, <1>6 DEF Keeps
<1> QED BY <1>1, <1>3, <1>6, <1>7, <1>8, EarlyMove DEF DiscoveryPlace

(* Where the Planner plans it has a teen and a ledger it has read.          *)
LEMMA Planning ==
    ASSUME HobbiInv, NEW r \in Request, req[r].pc = "planner_plan"
    PROVE  /\ req[r] \in HobbiState /\ req[r].kind # "discovery"
           /\ req[r].teen \in Teen /\ req[r].seen \in Ledger
<1>1. req[r] \in HobbiState /\ Placed(req[r])
  BY Stands
<1>2. req[r].kind # "discovery" /\ req[r].seen \in Ledger
  BY <1>1 DEF Placed, DiscoveryPlace
<1> QED BY <1>1, <1>2, Inside

(* The plan saved avoids what was vetoed or was unavailable: it is chosen   *)
(* from the eligible rows.                                                  *)
LEMMA PlannerSavesLands ==
    ASSUME HobbiInv, Grows, NEW r \in Request, PlannerSaves(r) PROVE Lands(r)
<1> DEFINE p == PlanFor(req[r])
<1>1. /\ req[r].pc = "planner_plan" /\ Eligible(req[r]) # {} /\ ItemLimit(req[r].seen) > 0
      /\ SavePlan(p) /\ Go(r, [req[r] EXCEPT !.pc = "planner_return", !.review = p])
  BY DEF PlannerSaves, At
<1>2. /\ req[r] \in HobbiState /\ req[r].kind # "discovery"
      /\ req[r].teen \in Teen /\ req[r].seen \in Ledger
  BY <1>1, Planning
<1>3. /\ p \in Plan /\ p.id = [teen |-> req[r].teen, version |-> req[r].seen.version,
                              items |-> Selected(req[r])]
      /\ Selected(req[r]) \subseteq Eligible(req[r])
  BY <1>1, <1>2, PlanForTyped, Tables
<1>4. p \in plans'
  BY <1>1 DEF SavePlan
<1>5. Avoids(req[r], p)
  <2>1. p.id.items \subseteq Considered(req[r])
    BY <1>3 DEF Eligible
  <2> QED BY <2>1 DEF Avoids, Considered
<1>6. p \in InReview
  BY <1>3 DEF InReview
<1> HIDE DEF p
<1>7. PICK q : q = [req[r] EXCEPT !.pc = "planner_return", !.review = p]
  OBVIOUS
<1>8. q \in HobbiState /\ q.pc = "planner_return" /\ q.review = p /\ Keeps(q, req[r])
  BY <1>2, <1>6, <1>7, Names DEF HobbiState, Keeps
<1>9. Avoids(q, q.review) /\ q.kind # "discovery"
  BY <1>2, <1>5, <1>8 DEF Avoids, Keeps
<1> QED BY <1>1, <1>4, <1>7, <1>8, <1>9, EarlyMove DEF DiscoveryPlace

(* With nothing to plan the request ends without a candidate.               *)
LEMMA PlannerGivesUpLands ==
    ASSUME HobbiInv, Grows, NEW r \in Request, PlannerGivesUp(r) PROVE Lands(r)
<1>1. req[r] \in HobbiState /\ req[r].pc = "planner_plan" /\ Placed(req[r]) /\ Looped(req[r])
  BY Stands DEF PlannerGivesUp, At
<1>2. PICK q : q = [Returned(req[r]) EXCEPT !.pc = "done", !.candidate = None,
                                            !.outcome = "no_viable_plan"]
  OBVIOUS
<1>3. "no_viable_plan" \in MaybeOutcome
  BY Names DEF Outcome
<1>4. /\ q \in HobbiState /\ q.pc = "done" /\ q.candidate = None /\ q.outcome = "no_viable_plan"
      /\ q.approved = req[r].approved /\ q.kind = req[r].kind
      /\ q.replans = req[r].replans /\ q.rounds = req[r].rounds /\ q.rejects = req[r].rejects
  <2>1. PICK P \in HobbiState : P = Returned(req[r]) /\ Keeps(P, req[r])
    BY <1>1, ReturnedKeeps
  <2>2. q \in HobbiState
    BY <1>1, <1>2, <1>3, <2>1, Names, Blanks DEF HobbiState
  <2> QED BY <1>1, <1>2, <1>3, <2>1, <2>2 DEF HobbiState, Keeps
<1>5. Placed(q)'
  BY <1>1, <1>4 DEF Placed, Grows, ChosenPlace, BrokerPlace
<1>6. Approved(q)'
  BY <1>4 DEF Approved, BrokerPlace
<1>7. Looped(q)
  BY <1>1, <1>4 DEF Looped, DiscoveryPlace
<1> QED BY <1>2, <1>4, <1>5, <1>6, <1>7 DEF Lands, PlannerGivesUp

(* The saved plan becomes the candidate; discovery is next only while it    *)
(* has a round left.                                                        *)
LEMMA PlannerReturnsLands ==
    ASSUME HobbiInv, Grows, NEW r \in Request, PlannerReturns(r) PROVE Lands(r)
<1> DEFINE p == req[r].review
           place == IF p.binding # "none" /\ req[r].rounds < MaxDiscoveryRounds
                    THEN "discovery" ELSE "g2"
<1>1. /\ req[r] \in HobbiState /\ req[r].pc = "planner_return"
      /\ Placed(req[r]) /\ Approved(req[r]) /\ Looped(req[r])
  BY Stands DEF PlannerReturns, At
<1>2. p \in plans /\ Avoids(req[r], p) /\ req[r].kind # "discovery"
  BY <1>1 DEF Placed, DiscoveryPlace
<1>3. p \in MaybePlan
  BY <1>2, Tables DEF MaybePlan
<1>4. place \in {"discovery", "g2"} /\ (place = "discovery" => req[r].rounds < MaxDiscoveryRounds)
  OBVIOUS
<1>5. Go(r, [Returned(req[r]) EXCEPT !.pc = place, !.candidate = p, !.approved = None])
  BY DEF PlannerReturns
<1> HIDE DEF p, place
<1>6. PICK q : q = [Returned(req[r]) EXCEPT !.pc = place, !.candidate = p, !.approved = None]
  OBVIOUS
<1>7. /\ q \in HobbiState /\ q.pc = place /\ q.candidate = p /\ q.approved = None
      /\ q.teen = req[r].teen /\ q.kind = req[r].kind /\ q.outcome = req[r].outcome
      /\ q.vetoed = req[r].vetoed /\ q.unavailable = req[r].unavailable
      /\ q.replans = req[r].replans /\ q.rounds = req[r].rounds /\ q.rejects = req[r].rejects
  <2>1. PICK P \in HobbiState : P = Returned(req[r]) /\ Keeps(P, req[r])
    BY <1>1, ReturnedKeeps
  <2>2. q \in HobbiState
    BY <1>1, <1>3, <1>4, <1>6, <2>1, Names, Blanks DEF HobbiState
  <2> QED BY <1>1, <1>3, <1>4, <1>6, <2>1, <2>2 DEF HobbiState, Keeps
<1>8. Placed(q)'
  <2>1. q.teen \in profiles' /\ q.kind # "discovery"
    BY <1>1, <1>2, <1>7, Inside DEF Grows
  <2>2. q.candidate \in plans' /\ Avoids(q, q.candidate)
    BY <1>2, <1>7 DEF Avoids, Grows
  <2> QED BY <1>4, <1>7, <2>1, <2>2 DEF Placed, Avoids
<1>9. Approved(q)'
  BY <1>1, <1>4, <1>7, Inside DEF Approved, BrokerPlace
<1>10. Looped(q)
  BY <1>1, <1>4, <1>7, Inside, Capped DEF Looped, DiscoveryPlace
<1> QED BY <1>5, <1>6, <1>7, <1>8, <1>9, <1>10 DEF Lands

-----------------------------------------------------------------------------
(* Discovery *)

(* A replay record that is not taken is passed by.                          *)
LEMMA DiscoverySkipsLands ==
    ASSUME HobbiInv, Grows, NEW r \in Request, DiscoverySkips(r) PROVE Lands(r)
<1>1. /\ req[r] \in HobbiState /\ req[r].pc = "discovery" /\ req[r].at <= Len(Replay)
      /\ Go(r, [req[r] EXCEPT !.at = req[r].at + 1])
  BY Stands DEF DiscoverySkips, At
<1>2. req[r].at + 1 \in ReplayIndex
  BY <1>1, ReplayAssumption DEF HobbiState, ReplayIndex
<1>3. PICK q : q = [req[r] EXCEPT !.at = req[r].at + 1]
  OBVIOUS
<1>4. q \in HobbiState /\ q.pc = "discovery" /\ Keeps(q, req[r])
  BY <1>1, <1>2, <1>3 DEF HobbiState, Keeps
<1> QED BY <1>1, <1>3, <1>4, EarlyMove DEF DiscoveryPlace

(* A record that is taken is within the feed.                               *)
LEMMA DiscoverySelectsLands ==
    ASSUME HobbiInv, Grows, NEW r \in Request, DiscoverySelects(r) PROVE Lands(r)
<1>1. /\ req[r] \in HobbiState /\ req[r].pc = "discovery" /\ req[r].at <= Len(Replay)
      /\ Go(r, [req[r] EXCEPT !.pc = "discovery_insert"])
  BY Stands DEF DiscoverySelects, At
<1>2. PICK q : q = [req[r] EXCEPT !.pc = "discovery_insert"]
  OBVIOUS
<1>3. q \in HobbiState /\ q.pc = "discovery_insert" /\ q.at = req[r].at /\ Keeps(q, req[r])
  BY <1>1, <1>2, Names DEF HobbiState, Keeps
<1> QED BY <1>1, <1>2, <1>3, EarlyMove DEF DiscoveryPlace

(* After an insertion the next record is looked at.                         *)
LEMMA DiscoveryInsertsLands ==
    ASSUME HobbiInv, Grows, NEW r \in Request, DiscoveryInserts(r) PROVE Lands(r)
<1>1. /\ req[r] \in HobbiState /\ req[r].pc = "discovery_insert" /\ Placed(req[r])
      /\ Go(r, [req[r] EXCEPT !.pc = "discovery", !.at = req[r].at + 1])
  BY Stands DEF DiscoveryInserts, At
<1>2. req[r].at <= Len(Replay)
  BY <1>1 DEF Placed
<1>3. req[r].at + 1 \in ReplayIndex
  BY <1>1, <1>2, ReplayAssumption DEF HobbiState, ReplayIndex
<1>4. PICK q : q = [req[r] EXCEPT !.pc = "discovery", !.at = req[r].at + 1]
  OBVIOUS
<1>5. q \in HobbiState /\ q.pc = "discovery" /\ Keeps(q, req[r])
  BY <1>1, <1>3, <1>4, Names DEF HobbiState, Keeps
<1> QED BY <1>1, <1>4, <1>5, EarlyMove DEF DiscoveryPlace

(* A round of a plan's request is counted; it was below the cap.            *)
LEMMA DiscoveryReturnsLands ==
    ASSUME HobbiInv, Grows, NEW r \in Request, DiscoveryReturns(r) PROVE Lands(r)
<1>1. /\ req[r] \in HobbiState /\ req[r].pc = "discovery"
      /\ Placed(req[r]) /\ Approved(req[r]) /\ Looped(req[r])
  BY Stands DEF DiscoveryReturns, At
<1>2. CASE req[r].kind = "discovery"
  <2>1. PICK q : q = [Returned(req[r]) EXCEPT !.pc = "done"]
    OBVIOUS
  <2>2. /\ q \in HobbiState /\ q.pc = "done" /\ q.candidate = req[r].candidate
        /\ q.approved = req[r].approved /\ q.outcome = req[r].outcome
        /\ q.replans = req[r].replans /\ q.rounds = req[r].rounds /\ q.rejects = req[r].rejects
    <3>1. PICK P \in HobbiState : P = Returned(req[r]) /\ Keeps(P, req[r])
      BY <1>1, ReturnedKeeps
    <3>2. q \in HobbiState
      BY <1>1, <2>1, <3>1, Names DEF HobbiState
    <3> QED BY <1>1, <2>1, <3>1, <3>2 DEF HobbiState, Keeps
  <2>3. Placed(q)'
    BY <1>1, <2>2 DEF Placed, Grows, ChosenPlace, BrokerPlace
  <2>4. Approved(q)'
    BY <1>1, <2>2, Inside DEF Approved, BrokerPlace
  <2>5. Looped(q)
    BY <1>1, <2>2, Inside, Capped DEF Looped, DiscoveryPlace
  <2>6. Go(r, q)
    BY <1>2, <2>1 DEF DiscoveryReturns
  <2> QED BY <2>2, <2>3, <2>4, <2>5, <2>6 DEF Lands
<1>3. CASE req[r].kind # "discovery"
  <2>1. req[r].rounds + 1 \in Nat /\ req[r].rounds < MaxDiscoveryRounds
    BY <1>1, <1>3, Inside DEF Looped, DiscoveryPlace
  <2>2. PICK q : q = [Returned(req[r]) EXCEPT !.pc = "planner", !.rounds = req[r].rounds + 1]
    OBVIOUS
  <2>3. /\ q \in HobbiState /\ q.pc = "planner" /\ q.candidate = req[r].candidate
        /\ q.approved = req[r].approved /\ q.outcome = req[r].outcome
        /\ q.teen = req[r].teen /\ q.kind = req[r].kind
        /\ q.replans = req[r].replans /\ q.rounds = req[r].rounds + 1 /\ q.rejects = req[r].rejects
    <3>1. PICK P \in HobbiState : P = Returned(req[r]) /\ Keeps(P, req[r])
      BY <1>1, ReturnedKeeps
    <3>2. q \in HobbiState
      BY <1>1, <2>1, <2>2, <3>1, Names DEF HobbiState
    <3> QED BY <1>1, <2>1, <2>2, <3>1, <3>2 DEF HobbiState, Keeps
  <2>4. q.teen \in profiles'
    BY <1>1, <1>3, <2>3, Inside DEF Grows
  <2>5. Placed(q)'
    BY <1>1, <1>3, <2>3, <2>4 DEF Placed, Grows, ChosenPlace, BrokerPlace
  <2>6. Approved(q)'
    BY <1>1, <2>3, Inside DEF Approved, BrokerPlace
  <2>7. Looped(q)
    BY <1>1, <2>1, <2>3, Inside, Capped DEF Looped, DiscoveryPlace
  <2>8. Go(r, q)
    <3>1. Returned(req[r]).rounds = req[r].rounds
      BY <1>1, ReturnedFields
    <3> QED BY <1>3, <2>2, <3>1 DEF DiscoveryReturns
  <2> QED BY <2>3, <2>5, <2>6, <2>7, <2>8 DEF Lands
<1> QED BY <1>2, <1>3

-----------------------------------------------------------------------------
(* G2 and the Guardian *)

(* G2 keeps the candidate as approved, or drops it and ends the request.    *)
LEMMA G2Lands ==
    ASSUME HobbiInv, Grows, NEW r \in Request, G2(r) PROVE Lands(r)
<1> DEFINE p == IF G2Passes(req[r].candidate.id) THEN req[r].candidate ELSE None
           out == IF G2Passes(req[r].candidate.id) THEN req[r].outcome ELSE "no_viable_plan"
<1>1. /\ req[r] \in HobbiState /\ req[r].pc = "g2"
      /\ Placed(req[r]) /\ Approved(req[r]) /\ Looped(req[r])
  BY Stands DEF G2, At
<1>2. req[r].candidate \in plans /\ Avoids(req[r], req[r].candidate)
  BY <1>1 DEF Placed, ChosenPlace
<1>3. "no_viable_plan" \in MaybeOutcome /\ req[r].outcome \in MaybeOutcome
  BY <1>1, Names DEF Outcome, HobbiState
<1>4. p \in plans \cup {None} /\ p \in MaybePlan /\ out \in MaybeOutcome /\ out # "booked"
  BY <1>1, <1>2, <1>3, Inside, Tables DEF MaybePlan
<1>5. Go(r, [req[r] EXCEPT !.pc = "guardian", !.approved = p, !.outcome = out])
  BY DEF G2
<1> HIDE DEF p, out
<1>6. PICK q : q = [req[r] EXCEPT !.pc = "guardian", !.approved = p, !.outcome = out]
  OBVIOUS
<1>7. /\ q \in HobbiState /\ q.pc = "guardian" /\ q.approved = p /\ q.outcome = out
      /\ q.candidate = req[r].candidate /\ q.teen = req[r].teen /\ q.kind = req[r].kind
      /\ q.vetoed = req[r].vetoed /\ q.unavailable = req[r].unavailable
      /\ q.replans = req[r].replans /\ q.rounds = req[r].rounds /\ q.rejects = req[r].rejects
  BY <1>1, <1>4, <1>6, Names DEF HobbiState
<1>8. Placed(q)'
  BY <1>1, <1>2, <1>4, <1>7 DEF Placed, Avoids, Grows, ChosenPlace, BrokerPlace, DiscoveryPlace
<1>9. Approved(q)'
  BY <1>4, <1>7 DEF Approved, BrokerPlace
<1>10. Looped(q)
  BY <1>1, <1>7, Inside, Capped DEF Looped, DiscoveryPlace
<1> QED BY <1>5, <1>6, <1>7, <1>8, <1>9, <1>10 DEF Lands

(* The grants a verdict lists are on file, and stay there.                  *)
LEMMA BackedStays ==
    ASSUME Grows, NEW v, Backed(v) PROVE Backed(v)'
BY DEF Backed, Grows, Granted

(* A review's verdict claims the grants that are on file and no more.       *)
LEMMA ReviewTyped ==
    ASSUME HobbiInv, NEW i \in PlanId
    PROVE  /\ ReviewOf(i) \in Verdict /\ ReviewOf(i).plan = i /\ Backed(ReviewOf(i))
           /\ Unvetted(i, ReviewOf(i).providers) \cup DeadItems(i) \in SUBSET Listing
<1>1. i.items \subseteq Listing
  BY DEF PlanId
<1> DEFINE ok == /\ Unvetted(i, {l \in i.items : Granted(i, l)}) = {} /\ DeadItems(i) = {}
                 /\ Granted(i, "attendance") /\ (Price(i) > 0 => Granted(i, "spend"))
                 /\ ~(i.teen \in NoPaid /\ Price(i) > 0)
           given == {l \in i.items : Granted(i, l)}
<1>2. Granted(i, "attendance") \in BOOLEAN /\ Granted(i, "spend") \in BOOLEAN
  BY DEF Granted
<1>3. ok \in BOOLEAN
  OBVIOUS
<1>4. given \in SUBSET Listing
  BY <1>1
<1>5. ReviewOf(i) = [plan |-> i, providers |-> given, attendance |-> Granted(i, "attendance"),
                     spend |-> Granted(i, "spend"), approved |-> ok]
  BY DEF ReviewOf
<1>6. ReviewOf(i) \in Verdict
  <2> HIDE DEF ok, given
  <2> QED BY <1>2, <1>4, <1>5, <1>3 DEF Verdict
<1>7. /\ ReviewOf(i).plan = i /\ ReviewOf(i).providers = given
      /\ ReviewOf(i).attendance = Granted(i, "attendance")
      /\ ReviewOf(i).spend = Granted(i, "spend")
  <2> HIDE DEF ok, given
  <2> QED BY <1>5
<1>8. Backed(ReviewOf(i))
  BY <1>7 DEF Backed
<1>9. Unvetted(i, given) \cup DeadItems(i) \in SUBSET Listing
  BY <1>1 DEF Unvetted, DeadItems
<1> QED BY <1>6, <1>7, <1>8, <1>9

(* The review is kept until G3 has been passed.                             *)
LEMMA GuardianReviewsLands ==
    ASSUME HobbiInv, Grows, NEW r \in Request, GuardianReviews(r) PROVE Lands(r)
<1>1. /\ req[r] \in HobbiState /\ req[r].pc = "guardian" /\ req[r].approved # None
      /\ Placed(req[r]) /\ Approved(req[r]) /\ Looped(req[r])
  BY Stands DEF GuardianReviews, At
<1>2. PICK i : i = req[r].approved.id
  OBVIOUS
<1>3. req[r].approved \in plans /\ i \in PlanId
  BY <1>1, <1>2, Tables DEF Placed
<1>4. PICK rev : rev = [verdict |-> ReviewOf(i),
                         veto |-> Unvetted(i, ReviewOf(i).providers) \cup DeadItems(i)]
  OBVIOUS
<1>5. Go(r, [req[r] EXCEPT !.pc = "guardian_g3", !.review = rev])
  BY <1>2, <1>4 DEF GuardianReviews
<1>6. rev \in Review /\ rev.verdict = ReviewOf(i) /\ rev.verdict.plan = i /\ Backed(rev.verdict)
  BY <1>3, <1>4, ReviewTyped DEF Review
<1>7. rev \in InReview /\ Backed(rev.verdict)'
  BY <1>6, BackedStays DEF InReview
<1>8. PICK q : q = [req[r] EXCEPT !.pc = "guardian_g3", !.review = rev]
  OBVIOUS
<1>9. q \in HobbiState /\ q.pc = "guardian_g3" /\ q.review = rev /\ Keeps(q, req[r])
  BY <1>1, <1>7, <1>8, Names DEF HobbiState, Keeps
<1>10. Placed(q)'
  BY <1>1, <1>9 DEF Placed, Avoids, Keeps, Grows, ChosenPlace, BrokerPlace, DiscoveryPlace
<1>11. Approved(q)'
  <2>1. q.approved \in plans' /\ q.approved.id = i
    BY <1>3, <1>9, <1>2 DEF Grows, Keeps
  <2>2. q.review \in Review /\ q.review.verdict.plan = i /\ Backed(q.review.verdict)'
    BY <1>6, <1>7, <1>9
  <2>3. q.outcome # "booked"
    BY <1>1, <1>9, Inside DEF Keeps
  <2> QED BY <1>9, <2>1, <2>2, <2>3 DEF Approved, BrokerPlace
<1>12. Looped(q)
  BY <1>1, <1>9, Inside, Capped DEF Looped, Keeps, DiscoveryPlace
<1> QED BY <1>5, <1>8, <1>9, <1>10, <1>11, <1>12 DEF Lands

(* The verdict the Broker gets is the review's.                             *)
LEMMA GuardianApprovesLands ==
    ASSUME HobbiInv, Grows, NEW r \in Request, GuardianApproves(r) PROVE Lands(r)
<1>1. PICK v : v = req[r].review.verdict
  OBVIOUS
<1>2. /\ req[r] \in HobbiState /\ req[r].pc = "guardian_g3"
      /\ Placed(req[r]) /\ Approved(req[r]) /\ Looped(req[r])
  BY Stands DEF GuardianApproves, At
<1>3. CASE Fail(r)
  BY <1>2, <1>3, FailLands
<1>4. CASE Go(r, [Returned(req[r]) EXCEPT !.pc = "broker", !.verdict = v])
  <2>1. /\ req[r].approved \in plans /\ req[r].review \in Review
        /\ v.plan = req[r].approved.id /\ Backed(v)
    BY <1>2, <1>1 DEF Approved
  <2>2. v \in Verdict /\ v \in MaybeVerdict /\ Backed(v)'
    BY <1>1, <2>1, BackedStays DEF Review, MaybeVerdict
  <2>3. PICK q : q = [Returned(req[r]) EXCEPT !.pc = "broker", !.verdict = v]
    OBVIOUS
  <2>4. /\ q \in HobbiState /\ q.pc = "broker" /\ q.verdict = v /\ q.approved = req[r].approved
        /\ q.candidate = req[r].candidate /\ q.teen = req[r].teen /\ q.kind = req[r].kind
        /\ q.vetoed = req[r].vetoed /\ q.unavailable = req[r].unavailable
        /\ q.replans = req[r].replans /\ q.rounds = req[r].rounds /\ q.rejects = req[r].rejects
        /\ q.outcome = req[r].outcome
    <3>1. PICK P \in HobbiState : P = Returned(req[r]) /\ Keeps(P, req[r])
      BY <1>2, ReturnedKeeps
    <3>2. q \in HobbiState
      BY <1>2, <2>2, <2>3, <3>1, Names DEF HobbiState
    <3> QED BY <1>2, <2>2, <2>3, <3>1, <3>2 DEF HobbiState, Keeps
  <2>5. Placed(q)'
    BY <1>2, <2>4 DEF Placed, Avoids, Grows, ChosenPlace, BrokerPlace, DiscoveryPlace
  <2>6. Approved(q)'
    BY <1>2, <2>1, <2>2, <2>4, Inside DEF Approved, Grows, BrokerPlace
  <2>7. Looped(q)
    BY <1>2, <2>4, Inside, Capped DEF Looped, DiscoveryPlace
  <2> QED BY <1>4, <2>3, <2>4, <2>5, <2>6, <2>7 DEF Lands
<1> QED BY <1>3, <1>4, <1>1 DEF GuardianApproves

(* A rejection takes the request to its end or back to the Planner, and the *)
(* last one permitted always to the adult.                                  *)
LEMMA GuardianRejectsLands ==
    ASSUME HobbiInv, Grows, NEW r \in Request, GuardianRejects(r) PROVE Lands(r)
<1>1. /\ req[r] \in HobbiState /\ req[r].pc = "guardian_g3"
      /\ Placed(req[r]) /\ Approved(req[r]) /\ Looped(req[r])
  BY Stands DEF GuardianRejects, At
<1>2. req[r].review \in Review
  BY <1>1 DEF Approved
<1>3. /\ req[r].review.verdict \in MaybeVerdict /\ req[r].rejects + 1 \in Nat
      /\ req[r].replans + 1 \in Nat /\ req[r].vetoed \cup req[r].review.veto \in ListingSet
  BY <1>1, <1>2 DEF HobbiState, Review, MaybeVerdict, ListingSet
<1>4. PICK next : next = [Returned(req[r]) EXCEPT !.verdict = req[r].review.verdict,
                                             !.rejects = req[r].rejects + 1,
                                             !.vetoed = @ \cup req[r].review.veto]
  OBVIOUS
<1>5. /\ next \in HobbiState /\ next.pc = "guardian_g3" /\ next.rejects = req[r].rejects + 1
      /\ next.candidate = req[r].candidate /\ next.approved = req[r].approved
      /\ next.outcome = req[r].outcome /\ next.teen = req[r].teen /\ next.kind = req[r].kind
      /\ next.replans = req[r].replans /\ next.rounds = req[r].rounds
  <2>1. PICK P \in HobbiState : P = Returned(req[r]) /\ P.pc = req[r].pc /\ Keeps(P, req[r])
    BY <1>1, ReturnedKeeps
  <2>2. next \in HobbiState
    BY <1>1, <1>2, <1>3, <1>4, <2>1 DEF HobbiState, Keeps
  <2> QED BY <1>1, <1>2, <1>3, <1>4, <2>1, <2>2 DEF HobbiState, Keeps
<1>6. \/ Go(r, [next EXCEPT !.pc = "done", !.outcome = "escalated_to_adult"])
      \/ /\ Go(r, [next EXCEPT !.pc = "done", !.outcome = "cap_breached"])
         /\ ~(req[r].rejects + 1 >= MaxGuardianRejections)
      \/ /\ Go(r, [next EXCEPT !.pc = "planner", !.replans = @ + 1,
                               !.candidate = None, !.approved = None])
         /\ ~(req[r].rejects + 1 >= MaxGuardianRejections) /\ ~(req[r].replans >= MaxReplans)
  BY <1>4 DEF GuardianRejects
<1>7. "escalated_to_adult" \in MaybeOutcome /\ "cap_breached" \in MaybeOutcome
  BY Names DEF Outcome
<1>8. ASSUME NEW out \in {"escalated_to_adult", "cap_breached"},
             Go(r, [next EXCEPT !.pc = "done", !.outcome = out]),
             out = "cap_breached" => ~(req[r].rejects + 1 >= MaxGuardianRejections)
      PROVE  Lands(r)
  <2>1. PICK q : q = [next EXCEPT !.pc = "done", !.outcome = out]
    OBVIOUS
  <2>2. /\ q \in HobbiState /\ q.pc = "done" /\ q.outcome = out /\ q.kind = next.kind
        /\ q.candidate = next.candidate /\ q.approved = next.approved
        /\ q.replans = next.replans /\ q.rounds = next.rounds /\ q.rejects = next.rejects
    BY <1>5, <1>7, <2>1, Names DEF HobbiState
  <2>3. Placed(q)'
    BY <1>1, <1>5, <2>2 DEF Placed, Grows, ChosenPlace, BrokerPlace
  <2>4. Approved(q)'
    BY <2>2 DEF Approved, BrokerPlace
  <2>5. Looped(q)
    BY <1>1, <1>5, <1>8, <2>2, Inside, Capped DEF Looped, DiscoveryPlace
  <2> QED BY <1>8, <2>1, <2>2, <2>3, <2>4, <2>5 DEF Lands
<1>9. ASSUME Go(r, [next EXCEPT !.pc = "planner", !.replans = @ + 1,
                                !.candidate = None, !.approved = None]),
             ~(req[r].rejects + 1 >= MaxGuardianRejections), ~(req[r].replans >= MaxReplans)
      PROVE  Lands(r)
  <2>1. PICK q : q = [next EXCEPT !.pc = "planner", !.replans = @ + 1,
                                  !.candidate = None, !.approved = None]
    OBVIOUS
  <2>2. /\ q \in HobbiState /\ q.pc = "planner" /\ q.outcome = next.outcome
        /\ q.teen = next.teen /\ q.kind = next.kind
        /\ q.candidate = None /\ q.approved = None
        /\ q.replans = next.replans + 1 /\ q.rounds = next.rounds /\ q.rejects = next.rejects
    BY <1>3, <1>5, <2>1, Names, Blanks DEF HobbiState
  <2>3. q.kind # "discovery" /\ q.teen \in profiles'
    BY <1>1, <1>5, <2>2, Inside DEF Placed, DiscoveryPlace, Grows
  <2>4. Placed(q)'
    BY <2>2, <2>3 DEF Placed, ChosenPlace, BrokerPlace
  <2>5. Approved(q)'
    BY <1>1, <1>5, <2>2, Inside DEF Approved, BrokerPlace
  <2>6. Looped(q)
    BY <1>1, <1>5, <1>9, <2>2, Inside, Capped DEF Looped, DiscoveryPlace
  <2> QED BY <1>9, <2>1, <2>2, <2>4, <2>5, <2>6 DEF Lands
<1> QED BY <1>6, <1>8, <1>9

-----------------------------------------------------------------------------
(* The Broker *)

(* A listing that became unavailable costs one of the replans.              *)
LEMMA BrokerUnavailableLands ==
    ASSUME HobbiInv, Grows, NEW r \in Request, NEW l \in Listing, BrokerUnavailable(r, l)
    PROVE  Lands(r)
<1>1. /\ req[r] \in HobbiState /\ req[r].pc = "broker"
      /\ Placed(req[r]) /\ Approved(req[r]) /\ Looped(req[r])
  BY Stands DEF BrokerUnavailable, At
<1>2. \/ Go(r, [Returned(req[r]) EXCEPT !.pc = "done", !.outcome = "cap_breached"])
      \/ /\ ~(req[r].replans >= MaxReplans)
         /\ Go(r, [Returned(req[r]) EXCEPT !.pc = "planner", !.replans = @ + 1,
                                           !.unavailable = @ \cup {l},
                                           !.approved = None, !.verdict = None])
  BY DEF BrokerUnavailable
<1>3. CASE Go(r, [Returned(req[r]) EXCEPT !.pc = "done", !.outcome = "cap_breached"])
  <2>1. PICK q : q = [Returned(req[r]) EXCEPT !.pc = "done", !.outcome = "cap_breached"]
    OBVIOUS
  <2>2. "cap_breached" \in MaybeOutcome
    BY Names DEF Outcome
  <2>3. /\ q \in HobbiState /\ q.pc = "done" /\ q.outcome = "cap_breached" /\ q.kind = req[r].kind
        /\ q.candidate = req[r].candidate /\ q.approved = req[r].approved
        /\ q.replans = req[r].replans /\ q.rounds = req[r].rounds /\ q.rejects = req[r].rejects
    <3>1. PICK P \in HobbiState : P = Returned(req[r]) /\ Keeps(P, req[r])
      BY <1>1, ReturnedKeeps
    <3>2. q \in HobbiState
      BY <1>1, <2>1, <2>2, <3>1, Names DEF HobbiState
    <3> QED BY <1>1, <2>1, <2>2, <3>1, <3>2 DEF HobbiState, Keeps
  <2>4. Placed(q)'
    BY <1>1, <2>3 DEF Placed, Grows, ChosenPlace, BrokerPlace
  <2>5. Approved(q)'
    BY <2>3 DEF Approved, BrokerPlace
  <2>6. Looped(q)
    BY <1>1, <2>3, Inside, Capped DEF Looped, DiscoveryPlace
  <2> QED BY <1>3, <2>1, <2>3, <2>4, <2>5, <2>6 DEF Lands
<1>4. ASSUME ~(req[r].replans >= MaxReplans),
             Go(r, [Returned(req[r]) EXCEPT !.pc = "planner", !.replans = @ + 1,
                                            !.unavailable = @ \cup {l},
                                            !.approved = None, !.verdict = None])
      PROVE  Lands(r)
  <2>1. PICK U : U = req[r].unavailable \cup {l}
    OBVIOUS
  <2>2. U \in ListingSet /\ req[r].replans + 1 \in Nat
    BY <1>1, <2>1 DEF ListingSet, HobbiState
  <2>3. PICK q : q = [Returned(req[r]) EXCEPT !.pc = "planner", !.replans = req[r].replans + 1,
                                              !.unavailable = U,
                                              !.approved = None, !.verdict = None]
    OBVIOUS
  <2>4. /\ q \in HobbiState /\ q.pc = "planner" /\ q.outcome = req[r].outcome
        /\ q.teen = req[r].teen /\ q.kind = req[r].kind
        /\ q.candidate = req[r].candidate /\ q.approved = None
        /\ q.replans = req[r].replans + 1 /\ q.rounds = req[r].rounds /\ q.rejects = req[r].rejects
    <3>1. PICK P \in HobbiState : P = Returned(req[r]) /\ Keeps(P, req[r])
      BY <1>1, ReturnedKeeps
    <3>2. q \in HobbiState
      BY <1>1, <2>2, <2>3, <3>1, Names, Blanks DEF HobbiState
    <3> QED BY <1>1, <2>2, <2>3, <3>1, <3>2 DEF HobbiState, Keeps
  <2>5. Go(r, q)
    <3>1. Returned(req[r]).replans = req[r].replans /\ Returned(req[r]).unavailable = req[r].unavailable
      BY <1>1, ReturnedFields
    <3> QED BY <1>4, <2>1, <2>3, <3>1
  <2>6. q.kind # "discovery" /\ q.teen \in profiles'
    BY <1>1, <2>4, Inside DEF Placed, DiscoveryPlace, Grows
  <2>7. Placed(q)'
    BY <1>1, <2>4, <2>6 DEF Placed, ChosenPlace, BrokerPlace, Grows
  <2>8. Approved(q)'
    BY <1>1, <2>4, Inside DEF Approved, BrokerPlace
  <2>9. Looped(q)
    BY <1>1, <1>4, <2>4, Inside, Capped DEF Looped, DiscoveryPlace
  <2> QED BY <2>4, <2>5, <2>7, <2>8, <2>9 DEF Lands
<1> QED BY <1>2, <1>3, <1>4

(* Authority to book is never withdrawn: approvals and profiles only grow.  *)
LEMMA AuthorisedStays ==
    ASSUME Grows, NEW i, Authorised(i) PROVE Authorised(i)'
BY DEF Authorised, Grows, Granted, Price, ArrivedVerified

(* G3 on the records read now, for a verdict whose grants are on file, is   *)
(* what authorises the bookings of a plan.                                  *)
LEMMA G3Authorises ==
    ASSUME HobbiInv, NEW i, NEW v, v.plan = i, Backed(v), G3Passes(i, v)
    PROVE  Authorised(i)
<1>1. Granted(i, "attendance") /\ (Price(i) > 0 => Granted(i, "spend"))
  BY DEF G3Passes, Backed
<1>2. ASSUME NEW l \in i.items PROVE ArrivedVerified(l) \/ Granted(i, l)
  <2>1. l \in Known /\ (ckb[l].verification = "verified" \/ l \in v.providers)
    BY DEF G3Passes
  <2>2. \A m \in Known : ckb[m].verification = "verified" => ArrivedVerified(m)
    BY DEF HobbiInv, ScanInv
  <2> QED BY <2>1, <2>2 DEF Backed
<1> QED BY <1>1, <1>2 DEF Authorised

(* Past G3 the plan is authorised.                                          *)
LEMMA BrokerPreparesLands ==
    ASSUME HobbiInv, Grows, NEW r \in Request, BrokerPrepares(r) PROVE Lands(r)
<1>1. /\ req[r] \in HobbiState /\ req[r].pc = "broker"
      /\ Placed(req[r]) /\ Approved(req[r]) /\ Looped(req[r])
      /\ G3Passes(req[r].approved.id, req[r].verdict)
  BY Stands DEF BrokerPrepares, At
<1>2. PICK v : v = req[r].verdict
  OBVIOUS
<1>3. PICK i : i = req[r].approved.id
  OBVIOUS
<1>4. req[r].approved \in plans /\ v \in Verdict /\ v.plan = i /\ Backed(v)
  BY <1>1, <1>2, <1>3 DEF Approved, BrokerPlace
<1>5. Authorised(i)' /\ Backed(v)'
  BY <1>1, <1>2, <1>3, <1>4, G3Authorises, AuthorisedStays, BackedStays
<1>6. PICK q : q = [req[r] EXCEPT !.pc = "broker_commit"]
  OBVIOUS
<1>7. q \in HobbiState /\ q.pc = "broker_commit" /\ Keeps(q, req[r])
  BY <1>1, <1>6, Names DEF HobbiState, Keeps
<1>8. Placed(q)'
  BY <1>1, <1>7 DEF Placed, Avoids, Keeps, Grows, ChosenPlace, BrokerPlace, DiscoveryPlace
<1>9. Approved(q)'
  <2>1. q.approved \in plans' /\ q.verdict = v /\ q.approved.id = i /\ q.outcome # "booked"
    BY <1>1, <1>2, <1>3, <1>4, <1>7, Inside DEF Grows, Keeps
  <2> QED BY <1>4, <1>5, <1>7, <2>1 DEF Approved, BrokerPlace
<1>10. Looped(q)
  BY <1>1, <1>7, Inside, Capped DEF Looped, Keeps, DiscoveryPlace
<1> QED BY <1>6, <1>7, <1>8, <1>9, <1>10 DEF Lands, BrokerPrepares

(* The bookings committed are those of an authorised plan.                  *)
LEMMA BrokerCommitsLands ==
    ASSUME HobbiInv, Grows, NEW r \in Request, BrokerCommits(r) PROVE Lands(r)
<1>1. /\ req[r] \in HobbiState /\ req[r].pc = "broker_commit"
      /\ Placed(req[r]) /\ Approved(req[r]) /\ Looped(req[r])
  BY Stands DEF BrokerCommits, At
<1>2. PICK v : v = req[r].verdict
  OBVIOUS
<1>3. PICK i : i = req[r].approved.id
  OBVIOUS
<1>4. req[r].approved \in plans /\ v \in Verdict /\ v.plan = i /\ Backed(v) /\ Authorised(i)
  BY <1>1, <1>2, <1>3 DEF Approved, BrokerPlace
<1>5. Authorised(i)' /\ Backed(v)'
  BY <1>4, AuthorisedStays, BackedStays
<1>6. Keys(i) \subseteq bookings'
  BY <1>3 DEF BrokerCommits, CommitPlanBookings, ReplayCommit, Grows
<1>7. PICK q : q = [req[r] EXCEPT !.pc = "broker_return"]
  OBVIOUS
<1>8. q \in HobbiState /\ q.pc = "broker_return" /\ Keeps(q, req[r])
  BY <1>1, <1>7, Names DEF HobbiState, Keeps
<1>9. Placed(q)'
  BY <1>1, <1>8 DEF Placed, Avoids, Keeps, Grows, ChosenPlace, BrokerPlace, DiscoveryPlace
<1>10. Approved(q)'
  <2>1. q.approved \in plans' /\ q.verdict = v /\ q.approved.id = i /\ q.outcome # "booked"
    BY <1>1, <1>2, <1>3, <1>4, <1>8, Inside DEF Grows, Keeps
  <2>2. (Keys(q.approved.id) \subseteq bookings)'
    BY <1>6, <2>1 DEF Keys
  <2> QED BY <1>4, <1>5, <1>8, <2>1, <2>2 DEF Approved, BrokerPlace
<1>11. Looped(q)
  BY <1>1, <1>8, Inside, Capped DEF Looped, Keeps, DiscoveryPlace
<1> QED BY <1>7, <1>8, <1>9, <1>10, <1>11 DEF Lands, BrokerCommits

(* A booked outcome is reported by a request whose plan's keys are in the   *)
(* bookings.                                                                *)
LEMMA BrokerReturnsLands ==
    ASSUME HobbiInv, Grows, NEW r \in Request, BrokerReturns(r) PROVE Lands(r)
<1>1. /\ req[r] \in HobbiState /\ req[r].pc = "broker_return"
      /\ Placed(req[r]) /\ Approved(req[r]) /\ Looped(req[r])
  BY Stands DEF BrokerReturns, At
<1>2. CASE Fail(r)
  BY <1>1, <1>2, FailLands
<1>3. CASE Go(r, [Returned(req[r]) EXCEPT !.pc = "done", !.outcome = "booked"])
  <2>1. Keys(req[r].approved.id) \subseteq bookings'
    BY <1>1 DEF Approved, Grows
  <2>2. "booked" \in MaybeOutcome
    BY Names DEF Outcome
  <2>3. PICK q : q = [Returned(req[r]) EXCEPT !.pc = "done", !.outcome = "booked"]
    OBVIOUS
  <2>4. /\ q \in HobbiState /\ q.pc = "done" /\ q.outcome = "booked" /\ q.kind = req[r].kind
        /\ q.candidate = req[r].candidate /\ q.approved = req[r].approved
        /\ q.replans = req[r].replans /\ q.rounds = req[r].rounds /\ q.rejects = req[r].rejects
    <3>1. PICK P \in HobbiState : P = Returned(req[r]) /\ Keeps(P, req[r])
      BY <1>1, ReturnedKeeps
    <3>2. q \in HobbiState
      BY <1>1, <2>2, <2>3, <3>1, Names DEF HobbiState
    <3> QED BY <1>1, <2>2, <2>3, <3>1, <3>2 DEF HobbiState, Keeps
  <2>5. Placed(q)'
    BY <1>1, <2>4 DEF Placed, Grows, ChosenPlace, BrokerPlace
  <2>6. (Keys(q.approved.id) \subseteq bookings)'
    BY <2>1, <2>4 DEF Keys
  <2>7. Approved(q)'
    BY <2>4, <2>6 DEF Approved, BrokerPlace
  <2>8. Looped(q)
    BY <1>1, <2>4, Inside, Capped DEF Looped, DiscoveryPlace
  <2> QED BY <1>3, <2>3, <2>4, <2>5, <2>7, <2>8 DEF Lands
<1> QED BY <1>2, <1>3 DEF BrokerReturns

-----------------------------------------------------------------------------
(* A crash, a resumption, and every step of a request *)

(* The places from which a node starts, and where a death in it leaves it.  *)
NodePlace == {"planner", "discovery", "g2", "guardian", "broker",
              "planner_died", "discovery_died", "g2_died", "guardian_died", "broker_died"}

(* A request may go between them as long as it stays with its node.         *)
LEMMA NodeLands ==
    ASSUME HobbiInv, Grows, NEW r \in Request, req[r].pc \notin {"idle", "done", "error"},
           NEW q \in HobbiState, Keeps(q, req[r]), Go(r, q), q.pc \in NodePlace,
           q.pc \in DiscoveryPlace <=> req[r].pc \in DiscoveryPlace,
           q.pc \in ChosenPlace <=> req[r].pc \in ChosenPlace,
           q.pc \in BrokerPlace <=> req[r].pc \in BrokerPlace
    PROVE  Lands(r)
<1>1. req[r] \in HobbiState /\ Placed(req[r]) /\ Approved(req[r]) /\ Looped(req[r])
  BY Stands
<1>2. /\ q.pc \notin {"idle", "done", "error", "planner_plan", "planner_return",
                      "discovery_insert", "guardian_g3", "broker_commit", "broker_return"}
  BY DEF NodePlace
<1>3. Placed(q)'
  <2>1. q.kind = "discovery" => q.pc \in DiscoveryPlace
    BY <1>1 DEF Placed, Keeps
  <2>2. q.kind # "discovery" => q.teen \in profiles'
    BY Inside DEF Keeps, Grows
  <2>3. q.candidate \in plans' \cup {None} /\ q.approved \in plans' \cup {None}
    BY <1>1 DEF Placed, Keeps, Grows
  <2>4. q.pc \in ChosenPlace => q.candidate \in plans' /\ Avoids(q, q.candidate)
    BY <1>1 DEF Placed, Avoids, Keeps, Grows
  <2> QED BY <1>2, <2>1, <2>2, <2>3, <2>4 DEF Placed, Avoids
<1>4. Approved(q)'
  <2>1. q.outcome # "booked"
    BY Inside DEF Keeps
  <2>2. ASSUME q.pc \in BrokerPlace
        PROVE  /\ q.approved \in plans' /\ q.verdict \in Verdict
               /\ q.verdict.plan = q.approved.id /\ Backed(q.verdict)'
    <3>1. PICK v : v = req[r].verdict
      OBVIOUS
    <3>2. req[r].approved \in plans /\ v \in Verdict /\ v.plan = req[r].approved.id /\ Backed(v)
      BY <1>1, <2>2, <3>1 DEF Approved
    <3>3. Backed(v)'
      BY <3>2, BackedStays
    <3> QED BY <3>1, <3>2, <3>3 DEF Keeps, Grows
  <2> QED BY <1>2, <2>1, <2>2 DEF Approved
<1>5. Looped(q)
  BY <1>1, Inside, Capped DEF Looped, Keeps
<1> QED BY <1>3, <1>4, <1>5 DEF Lands

(* A node that dies leaves its checkpoint; what it had committed stays.     *)
LEMMA CrashLands ==
    ASSUME HobbiInv, Grows, NEW r \in Request, Crash(r) PROVE Lands(r)
<1>1. /\ req[r] \in HobbiState /\ req[r].pc \in Place
      /\ req[r].pc \notin {"idle", "done", "error"} /\ ~Down(r)
  BY Stands DEF Crash, Running, HobbiState
<1>2. PICK place : place = Died[NodeOf(req[r].pc)]
  OBVIOUS
<1>3. /\ place \in NodePlace
      /\ place \in DiscoveryPlace <=> req[r].pc \in DiscoveryPlace
      /\ place \in ChosenPlace <=> req[r].pc \in ChosenPlace
      /\ place \in BrokerPlace <=> req[r].pc \in BrokerPlace
  <2>1. req[r].pc \notin {"planner_died", "discovery_died", "g2_died", "guardian_died", "broker_died"}
    BY <1>1 DEF Down, Died, At
  <2> QED BY <1>1, <1>2, <2>1
          DEF NodeOf, Died, Place, NodePlace, DiscoveryPlace, ChosenPlace, BrokerPlace
<1>4. place \in Place
  BY <1>3, Names DEF NodePlace
<1>5. PICK q : q = [Returned(req[r]) EXCEPT !.pc = place]
  OBVIOUS
<1>6. q \in HobbiState /\ q.pc = place /\ Keeps(q, req[r])
  <2>1. PICK P \in HobbiState : P = Returned(req[r]) /\ Keeps(P, req[r])
    BY <1>1, ReturnedKeeps
  <2>2. q \in HobbiState
    BY <1>1, <1>4, <1>5, <2>1 DEF HobbiState
  <2> QED BY <1>1, <1>4, <1>5, <2>1, <2>2 DEF HobbiState, Keeps
<1>7. Go(r, q)
  <2>1. Returned(req[r]).pc = req[r].pc
    BY <1>1, ReturnedFields
  <2> QED BY <1>2, <1>5, <2>1 DEF Crash
<1> QED BY <1>1, <1>3, <1>6, <1>7, NodeLands

(* A resumed request is back at the start of the node it died in.           *)
LEMMA ResumeLands ==
    ASSUME HobbiInv, Grows, NEW r \in Request, Resume(r) PROVE Lands(r)
<1>1. PICK node \in DOMAIN Died : At(r, Died[node]) /\ Go(r, [req[r] EXCEPT !.pc = node])
  BY DEF Resume
<1>2. /\ node \in NodePlace /\ req[r].pc \notin {"idle", "done", "error"}
      /\ node \in DiscoveryPlace <=> req[r].pc \in DiscoveryPlace
      /\ node \in ChosenPlace <=> req[r].pc \in ChosenPlace
      /\ node \in BrokerPlace <=> req[r].pc \in BrokerPlace
  BY <1>1 DEF Died, At, NodePlace, DiscoveryPlace, ChosenPlace, BrokerPlace
<1>3. PICK q : q = [req[r] EXCEPT !.pc = node]
  OBVIOUS
<1>4. q \in HobbiState /\ q.pc = node /\ Keeps(q, req[r])
  BY <1>2, <1>3, Stands, Names DEF HobbiState, Keeps, NodePlace
<1> QED BY <1>1, <1>2, <1>3, <1>4, NodeLands

(* Every step of a node lands.                                              *)
LEMMA StepLands ==
    ASSUME HobbiInv, Grows, NEW r \in Request, NodeStep(r) PROVE Lands(r)
<1>1. CASE \/ PlannerCollides(r) \/ DiscoveryFails(r) \/ GuardianRefuses(r)
           \/ BrokerFailsG3(r) \/ BrokerRefused(r)
  <2>1. Fail(r) /\ req[r].pc \notin {"idle", "done", "error"}
    BY <1>1 DEF PlannerCollides, DiscoveryFails, GuardianRefuses, BrokerFailsG3, BrokerRefused, At
  <2> QED BY <2>1, FailLands
<1> QED BY <1>1, ReadBookingsLands, ReadLedgerLands, PlannerGivesUpLands, PlannerSavesLands,
           PlannerReturnsLands, DiscoverySkipsLands, DiscoverySelectsLands,
           DiscoveryInsertsLands, DiscoveryReturnsLands, G2Lands, GuardianReviewsLands,
           GuardianApprovesLands, GuardianRejectsLands, BrokerUnavailableLands,
           BrokerPreparesLands, BrokerCommitsLands, BrokerReturnsLands
        DEF NodeStep

-----------------------------------------------------------------------------
(* The service is a caller of the store *)

(* The types of a scan's fields.                                            *)
LEMMA ScanTyped ==
    ASSUME HobbiInv, NEW s \in Scan
    PROVE  /\ scan[s] \in ScanState /\ scan[s].pc \in ScanPlace /\ scan[s].copy \in Copies
           /\ scan[s].todo \subseteq Listing /\ scan[s].retired \subseteq Listing
           /\ scan[s].at \in MaybeListing /\ scan[s].write \in MaybeRecord
           /\ scan[s].replan \in Replans /\ scan[s].thread \in MaybeThread
BY DEF HobbiInv, ServiceTyped, ScanState, ListingSet

(* The step of a request is one transaction of the store, or none.          *)
LEMMA NodeStoreStep ==
    ASSUME HobbiInv, NEW r \in Request, NodeStep(r)
    PROVE  StoreNext \/ UNCHANGED pdVars
<1>1. req[r] \in HobbiState /\ Placed(req[r]) /\ Approved(req[r])
  BY Stands
<1>2. CASE PlannerSaves(r)
  <2>1. /\ req[r].pc = "planner_plan" /\ Eligible(req[r]) # {} /\ ItemLimit(req[r].seen) > 0
        /\ SavePlan(PlanFor(req[r]))
    BY <1>2 DEF PlannerSaves, At
  <2>2. PlanFor(req[r]) \in Plan
    BY <2>1, Planning, PlanForTyped, Tables
  <2> QED BY <2>1, <2>2 DEF StoreNext
<1>3. CASE BrokerPrepares(r)
  <2>1. /\ req[r].pc = "broker"
        /\ SaveGuardianVerdict([plan |-> req[r].verdict.plan, approved |-> req[r].verdict.approved])
    BY <1>3 DEF BrokerPrepares, At
  <2>2. req[r].approved \in plans /\ req[r].verdict \in Verdict /\ req[r].verdict.plan = req[r].approved.id
    BY <1>1, <2>1 DEF Approved, BrokerPlace
  <2>3. req[r].verdict.plan \in StoredIds /\ req[r].verdict.approved \in BOOLEAN
    BY <2>2 DEF StoredIds, Verdict
  <2> QED BY <2>1, <2>3 DEF StoreNext, Transactions
<1>4. CASE BrokerCommits(r)
  <2>1. req[r].pc = "broker_commit"
        /\ (CommitPlanBookings(req[r].approved.id) \/ ReplayCommit(req[r].approved.id))
    BY <1>4 DEF BrokerCommits, At
  <2>2. req[r].approved.id \in StoredIds
    BY <1>1, <2>1 DEF Approved, BrokerPlace, StoredIds
  <2> QED BY <2>1, <2>2 DEF StoreNext, Transactions
<1>5. CASE ~(PlannerSaves(r) \/ BrokerPrepares(r) \/ BrokerCommits(r))
  <2>1. CASE \/ ReadBookings(r) \/ ReadLedger(r) \/ PlannerGivesUp(r) \/ PlannerCollides(r)
             \/ PlannerReturns(r)
    BY <2>1 DEF ReadBookings, ReadLedger, PlannerGivesUp, PlannerCollides, PlannerReturns
  <2>2. CASE \/ DiscoverySkips(r) \/ DiscoverySelects(r) \/ DiscoveryInserts(r)
             \/ DiscoveryFails(r) \/ DiscoveryReturns(r)
    BY <2>2 DEF DiscoverySkips, DiscoverySelects, DiscoveryInserts, DiscoveryFails, DiscoveryReturns
  <2>3. CASE \/ G2(r) \/ GuardianRefuses(r) \/ GuardianReviews(r) \/ GuardianApproves(r)
             \/ GuardianRejects(r)
    BY <2>3 DEF G2, GuardianRefuses, GuardianReviews, GuardianApproves, GuardianRejects
  <2>4. CASE \/ \E l \in Listing : BrokerUnavailable(r, l)
             \/ BrokerFailsG3(r) \/ BrokerRefused(r) \/ BrokerReturns(r)
    BY <2>4 DEF BrokerUnavailable, BrokerFailsG3, BrokerRefused, BrokerReturns
  <2> QED BY <1>5, <2>1, <2>2, <2>3, <2>4 DEF NodeStep
<1> QED BY <1>2, <1>3, <1>4, <1>5

(* Every step of the service is one transaction of the store, or none.      *)
LEMMA ServiceStoreStep ==
    ASSUME HobbiInv, [Next]_vars
    PROVE  [StoreNext]_pdVars
<1>1. ASSUME NEW r \in Request, IntakeArrives(r) PROVE StoreNext
  BY <1>1 DEF IntakeArrives, StartIntake, StoreNext, Transactions
<1>2. ASSUME NEW r \in Request,
             ApprovalArrives(r) \/ DiscoveryArrives(r) \/ \E s \in Scan : ReplanArrives(r, s)
      PROVE  UNCHANGED pdVars
  BY <1>2 DEF ApprovalArrives, StartApproval, DiscoveryArrives, StartDiscovery,
              ReplanArrives, StartReplan
<1>3. ASSUME NEW r \in Request, Steps(r) PROVE StoreNext \/ UNCHANGED pdVars
  BY <1>3, NodeStoreStep DEF Steps
<1>4. ASSUME NEW s \in Scan, Scans(s) PROVE StoreNext \/ UNCHANGED pdVars
  <2>1. CASE ScanFlags(s)
    <3>1. Scanning(s, "flag") /\ FlagDeadListing(scan[s].at)
      BY <2>1 DEF ScanFlags
    <3>2. scan[s].at \in Listing
      BY <3>1, ScanTyped DEF HobbiInv, ScanInv
    <3> QED BY <3>1, <3>2 DEF StoreNext, Transactions
  <2>2. CASE ~ScanFlags(s)
    BY <1>4, <2>2 DEF Scans, ScanStarts, ScanStep, ScanFetches, ScanUpdates, ScanEnds
  <2> QED BY <2>1, <2>2
<1>5. CASE Crashes \/ Resumes
  BY <1>5 DEF Crashes, Resumes, Crash, Resume, ScanDies
<1>6. CASE AttendanceReported
  BY <1>6 DEF AttendanceReported, StoreNext, Transactions
<1>7. CASE UNCHANGED vars
  BY <1>7 DEF vars
<1> QED BY <1>1, <1>2, <1>3, <1>4, <1>5, <1>6, <1>7 DEF Next, Arrives

(* Teens, plans and bookings are never deleted.                             *)
LEMMA StoreGrows ==
    ASSUME [StoreNext]_pdVars
    PROVE  profiles \subseteq profiles' /\ plans \subseteq plans' /\ bookings \subseteq bookings'
<1> USE DEF pdVars, ledgerVars, planVars, commitVars
<1>1. ASSUME NEW p \in Plan, SavePlan(p)
      PROVE  profiles \subseteq profiles' /\ plans \subseteq plans' /\ bookings \subseteq bookings'
  BY <1>1 DEF SavePlan
<1>2. ASSUME Transactions
      PROVE  profiles \subseteq profiles' /\ plans \subseteq plans' /\ bookings \subseteq bookings'
  <2>1. ASSUME NEW t, NEW L, SetupProfile(t, L)
        PROVE  profiles \subseteq profiles' /\ plans \subseteq plans' /\ bookings \subseteq bookings'
    BY <2>1 DEF SetupProfile
  <2>2. ASSUME NEW v, SaveGuardianVerdict(v)
        PROVE  profiles \subseteq profiles' /\ plans \subseteq plans' /\ bookings \subseteq bookings'
    BY <2>2 DEF SaveGuardianVerdict
  <2>3. ASSUME NEW i, CommitPlanBookings(i) \/ CommitBooking(i) \/ ReplayCommit(i) \/ RetirePlan(i)
        PROVE  profiles \subseteq profiles' /\ plans \subseteq plans' /\ bookings \subseteq bookings'
    BY <2>3 DEF CommitPlanBookings, CommitBooking, ReplayCommit, RetirePlan
  <2>4. ASSUME NEW k, NEW ok, RecordOutcome(k, ok) \/ ReplayOutcome(k, ok)
        PROVE  profiles \subseteq profiles' /\ plans \subseteq plans' /\ bookings \subseteq bookings'
    BY <2>4 DEF RecordOutcome, ReplayOutcome
  <2>5. ASSUME NEW l, FlagDeadListing(l)
        PROVE  profiles \subseteq profiles' /\ plans \subseteq plans' /\ bookings \subseteq bookings'
    BY <2>5 DEF FlagDeadListing
  <2> QED BY <1>2, <2>1, <2>2, <2>3, <2>4, <2>5 DEF Transactions
<1> QED BY <1>1, <1>2 DEF StoreNext

(* The knowledge base changes by an insert of Discovery or an update of a   *)
(* scan, and no row is ever deleted.                                        *)
LEMMA KBStep ==
    ASSUME [Next]_vars
    PROVE  \/ UNCHANGED ckb
           \/ \E r \in Request : DiscoveryInserts(r) /\ UNCHANGED scan
           \/ \E s \in Scan : ScanUpdates(s)
<1>1. ASSUME NEW r \in Request, Arrives(r) PROVE UNCHANGED ckb
  BY <1>1 DEF Arrives, IntakeArrives, StartIntake, ApprovalArrives, StartApproval,
              DiscoveryArrives, StartDiscovery, ReplanArrives, StartReplan
<1>2. ASSUME NEW r \in Request, Steps(r) PROVE UNCHANGED ckb \/ (DiscoveryInserts(r) /\ UNCHANGED scan)
  <2>1. CASE \/ ReadBookings(r) \/ ReadLedger(r) \/ PlannerGivesUp(r) \/ PlannerCollides(r)
             \/ PlannerReturns(r) \/ PlannerSaves(r)
    BY <2>1 DEF ReadBookings, ReadLedger, PlannerGivesUp, PlannerCollides, PlannerReturns, PlannerSaves
  <2>2. CASE \/ DiscoverySkips(r) \/ DiscoverySelects(r) \/ DiscoveryFails(r) \/ DiscoveryReturns(r)
    BY <2>2 DEF DiscoverySkips, DiscoverySelects, DiscoveryFails, DiscoveryReturns
  <2>3. CASE \/ G2(r) \/ GuardianRefuses(r) \/ GuardianReviews(r) \/ GuardianApproves(r)
             \/ GuardianRejects(r)
    BY <2>3 DEF G2, GuardianRefuses, GuardianReviews, GuardianApproves, GuardianRejects
  <2>4. CASE \/ \E l \in Listing : BrokerUnavailable(r, l)
             \/ BrokerFailsG3(r) \/ BrokerRefused(r) \/ BrokerReturns(r)
             \/ BrokerPrepares(r) \/ BrokerCommits(r)
    BY <2>4 DEF BrokerUnavailable, BrokerFailsG3, BrokerRefused, BrokerReturns, BrokerPrepares,
                BrokerCommits
  <2> QED BY <1>2, <2>1, <2>2, <2>3, <2>4 DEF Steps, NodeStep
<1>3. ASSUME NEW s \in Scan, Scans(s) PROVE UNCHANGED ckb \/ ScanUpdates(s)
  BY <1>3 DEF Scans, ScanStarts, ScanStep, ScanFetches, ScanFlags, ScanEnds
<1>4. CASE Crashes \/ Resumes
  BY <1>4 DEF Crashes, Resumes, Crash, Resume, ScanDies
<1>5. CASE AttendanceReported \/ UNCHANGED vars
  BY <1>5 DEF AttendanceReported, vars
<1> QED BY <1>1, <1>2, <1>3, <1>4, <1>5 DEF Next

(* Only an adult's request files grants, and it files them.                 *)
LEMMA ApprovalsStep ==
    ASSUME [Next]_vars
    PROVE  UNCHANGED approvals \/ \E r \in Request : ApprovalArrives(r)
<1>1. ASSUME NEW r \in Request, Arrives(r), ~ApprovalArrives(r) PROVE UNCHANGED approvals
  BY <1>1 DEF Arrives, IntakeArrives, StartIntake,
              DiscoveryArrives, StartDiscovery, ReplanArrives, StartReplan
<1>2. ASSUME NEW r \in Request, Steps(r) PROVE UNCHANGED approvals
  <2>1. CASE \/ ReadBookings(r) \/ ReadLedger(r) \/ PlannerGivesUp(r) \/ PlannerCollides(r)
             \/ PlannerReturns(r) \/ PlannerSaves(r)
    BY <2>1 DEF ReadBookings, ReadLedger, PlannerGivesUp, PlannerCollides, PlannerReturns, PlannerSaves
  <2>2. CASE \/ DiscoverySkips(r) \/ DiscoverySelects(r) \/ DiscoveryInserts(r)
             \/ DiscoveryFails(r) \/ DiscoveryReturns(r)
    BY <2>2 DEF DiscoverySkips, DiscoverySelects, DiscoveryInserts, DiscoveryFails, DiscoveryReturns
  <2>3. CASE \/ G2(r) \/ GuardianRefuses(r) \/ GuardianReviews(r) \/ GuardianApproves(r)
             \/ GuardianRejects(r)
    BY <2>3 DEF G2, GuardianRefuses, GuardianReviews, GuardianApproves, GuardianRejects
  <2>4. CASE \/ \E l \in Listing : BrokerUnavailable(r, l)
             \/ BrokerFailsG3(r) \/ BrokerRefused(r) \/ BrokerReturns(r)
             \/ BrokerPrepares(r) \/ BrokerCommits(r)
    BY <2>4 DEF BrokerUnavailable, BrokerFailsG3, BrokerRefused, BrokerReturns, BrokerPrepares,
                BrokerCommits
  <2> QED BY <1>2, <2>1, <2>2, <2>3, <2>4 DEF Steps, NodeStep
<1>3. ASSUME NEW s \in Scan, Scans(s) PROVE UNCHANGED approvals
  BY <1>3 DEF Scans, pipeVars
<1>4. CASE Crashes \/ Resumes
  BY <1>4 DEF Crashes, Resumes, Crash, Resume
<1>5. CASE AttendanceReported \/ UNCHANGED vars
  BY <1>5 DEF AttendanceReported, vars, pipeVars
<1> QED BY <1>1, <1>2, <1>3, <1>4, <1>5 DEF Next

(* No step of the service takes a profile, plan, booking, approval or row   *)
(* away.                                                                    *)
LEMMA StepGrows == ASSUME HobbiInv, [Next]_vars PROVE Grows
<1>1. profiles \subseteq profiles' /\ plans \subseteq plans' /\ bookings \subseteq bookings'
  BY ServiceStoreStep, StoreGrows
<1>2. approvals \subseteq approvals'
  BY ApprovalsStep DEF ApprovalArrives, StartApproval
<1>3. Known \subseteq Known'
  <2>1. CASE UNCHANGED ckb
    BY <2>1 DEF Known
  <2>2. ASSUME NEW r \in Request, DiscoveryInserts(r) PROVE Known \subseteq Known'
    BY <2>2 DEF DiscoveryInserts, InsertListing, Known
  <2>3. ASSUME NEW s \in Scan, ScanUpdates(s) PROVE Known \subseteq Known'
    BY <2>3 DEF ScanUpdates, UpdateRecord, Known
  <2> QED BY <2>1, <2>2, <2>3, KBStep
<1> QED BY <1>1, <1>2, <1>3 DEF Grows

-----------------------------------------------------------------------------
(* The requests *)

(* A step moves one request, or none.                                       *)
Moves(r) == Arrives(r) \/ NodeStep(r) \/ Crash(r) \/ Resume(r)
LEMMA OneMoves ==
    ASSUME HobbiInv, [Next]_vars
    PROVE  UNCHANGED req \/ \E r \in Request : Moves(r) /\ Lands(r)
<1>1. Grows
  BY StepGrows
<1>2. ASSUME NEW r \in Request, Arrives(r) PROVE Moves(r) /\ Lands(r)
  BY <1>1, <1>2, IntakeLands, ApprovalLands, DiscoveryLands, ReplanLands DEF Arrives, Moves
<1>3. ASSUME NEW r \in Request, Steps(r) PROVE Moves(r) /\ Lands(r)
  BY <1>1, <1>3, StepLands DEF Steps, Moves
<1>4. ASSUME NEW s \in Scan, Scans(s) PROVE UNCHANGED req
  BY <1>4 DEF Scans, pipeVars
<1>5. CASE Crashes \/ Resumes
  <2>1. ASSUME NEW r \in Request, Crash(r) \/ Resume(r) PROVE Moves(r) /\ Lands(r)
    BY <1>1, <2>1, CrashLands, ResumeLands DEF Moves
  <2> QED BY <1>5, <2>1 DEF Crashes, Resumes
<1>6. CASE AttendanceReported \/ UNCHANGED vars
  BY <1>6 DEF AttendanceReported, vars, pipeVars
<1> QED BY <1>2, <1>3, <1>4, <1>5, <1>6 DEF Next

(* What others do takes nothing from a request that stays where it is.      *)
LEMMA StaysPut ==
    ASSUME Grows, NEW q, Placed(q), Approved(q)
    PROVE  Placed(q)' /\ Approved(q)'
<1>1. Placed(q)'
  BY DEF Placed, Avoids, Grows
<1>2. Approved(q)'
  <2>1. \A v : Backed(v) => Backed(v)'
    BY BackedStays
  <2>2. \A i : Authorised(i) => Authorised(i)'
    BY AuthorisedStays
  <2>3. \A i : Keys(i) \subseteq bookings => (Keys(i) \subseteq bookings)'
    BY DEF Grows, Keys
  <2>4. \A p \in plans : p \in plans'
    BY DEF Grows
  <2> QED BY <2>1, <2>2, <2>3, <2>4 DEF Approved
<1> QED BY <1>1, <1>2

(* Hence every request is where it may be after any step.                   *)
LEMMA RequestsStand ==
    ASSUME HobbiInv, [Next]_vars
    PROVE  /\ req' \in [Request -> HobbiState]
           /\ (\A r \in Request : Placed(req[r]) /\ Approved(req[r]) /\ Looped(req[r]))'
<1>1. Grows /\ req \in [Request -> HobbiState]
      /\ \A r \in Request : Placed(req[r]) /\ Approved(req[r]) /\ Looped(req[r])
  BY StepGrows DEF HobbiInv, RequestInv, ServiceTyped
<1>2. ASSUME NEW r \in Request, req'[r] = req[r]
      PROVE  (Placed(req[r]) /\ Approved(req[r]) /\ Looped(req[r]))'
  <2>1. PICK q : q = req[r]
    OBVIOUS
  <2>2. Placed(q)' /\ Approved(q)' /\ Looped(q)
    BY <1>1, <2>1, StaysPut
  <2>3. q = req'[r]
    BY <1>2, <2>1
  <2> QED BY <2>2, <2>3 DEF Placed, Approved, Looped, Avoids, Backed, Authorised
<1>3. CASE UNCHANGED req
  BY <1>1, <1>2, <1>3
<1>4. CASE \E r \in Request : Lands(r)
  <2>1. PICK r \in Request, q \in HobbiState :
           Go(r, q) /\ Placed(q)' /\ Approved(q)' /\ Looped(q)
    BY <1>4 DEF Lands
  <2>2. req' = [req EXCEPT ![r] = q] /\ req'[r] = q /\ \A o \in Request \ {r} : req'[o] = req[o]
    BY <1>1, <2>1 DEF Go
  <2>3. (Placed(req[r]) /\ Approved(req[r]) /\ Looped(req[r]))'
    BY <2>1, <2>2
  <2>4. ASSUME NEW o \in Request
        PROVE  (Placed(req[o]) /\ Approved(req[o]) /\ Looped(req[o]))'
    BY <1>2, <2>2, <2>3
  <2>5. req' \in [Request -> HobbiState]
    BY <1>1, <2>1, <2>2
  <2> QED BY <2>4, <2>5
<1> QED BY <1>3, <1>4, OneMoves

(* Plans hold listings of the knowledge base, the Planner's only source.    *)
LEMMA PlansStep ==
    ASSUME [Next]_vars, HobbiInv
    PROVE  UNCHANGED plans \/ \E r \in Request : PlannerSaves(r)
<1>1. ASSUME NEW r \in Request, Arrives(r) PROVE UNCHANGED plans
  BY <1>1 DEF Arrives, IntakeArrives, StartIntake, ApprovalArrives, StartApproval,
              DiscoveryArrives, StartDiscovery, ReplanArrives, StartReplan,
              SetupProfile, pdVars, planVars
<1>2. ASSUME NEW r \in Request, Steps(r), ~PlannerSaves(r) PROVE UNCHANGED plans
  <2> USE DEF pdVars, planVars
  <2>1. CASE \/ ReadBookings(r) \/ ReadLedger(r) \/ PlannerGivesUp(r) \/ PlannerCollides(r)
             \/ PlannerReturns(r)
    BY <2>1 DEF ReadBookings, ReadLedger, PlannerGivesUp, PlannerCollides, PlannerReturns
  <2>2. CASE \/ DiscoverySkips(r) \/ DiscoverySelects(r) \/ DiscoveryInserts(r)
             \/ DiscoveryFails(r) \/ DiscoveryReturns(r)
    BY <2>2 DEF DiscoverySkips, DiscoverySelects, DiscoveryInserts, DiscoveryFails, DiscoveryReturns
  <2>3. CASE \/ G2(r) \/ GuardianRefuses(r) \/ GuardianReviews(r) \/ GuardianApproves(r)
             \/ GuardianRejects(r)
    BY <2>3 DEF G2, GuardianRefuses, GuardianReviews, GuardianApproves, GuardianRejects
  <2>4. CASE \/ \E l \in Listing : BrokerUnavailable(r, l)
             \/ BrokerFailsG3(r) \/ BrokerRefused(r) \/ BrokerReturns(r)
    BY <2>4 DEF BrokerUnavailable, BrokerFailsG3, BrokerRefused, BrokerReturns
  <2>5. CASE BrokerPrepares(r) \/ BrokerCommits(r)
    BY <2>5 DEF BrokerPrepares, BrokerCommits, SaveGuardianVerdict, CommitPlanBookings, ReplayCommit
  <2> QED BY <1>2, <2>1, <2>2, <2>3, <2>4, <2>5 DEF Steps, NodeStep
<1>3. ASSUME NEW s \in Scan, Scans(s) PROVE UNCHANGED plans
  BY <1>3 DEF Scans, ScanStarts, ScanStep, ScanFetches, ScanUpdates, ScanFlags, ScanEnds,
              FlagDeadListing, pdVars, planVars
<1>4. CASE Crashes \/ Resumes
  BY <1>4 DEF Crashes, Resumes, Crash, Resume, ScanDies, pdVars, planVars
<1>5. CASE AttendanceReported \/ UNCHANGED vars
  BY <1>5 DEF AttendanceReported, RecordOutcome, vars, pdVars, planVars
<1> QED BY <1>1, <1>2, <1>3, <1>4, <1>5 DEF Next

(* A plan is made of known rows: it was chosen from the knowledge base.     *)
LEMMA PlansStayKnown ==
    ASSUME HobbiInv, [Next]_vars
    PROVE  (\A p \in plans : p.id.items \subseteq Known)'
<1>1. (\A p \in plans : p.id.items \subseteq Known) /\ Known \subseteq Known'
  BY StepGrows DEF HobbiInv, RequestInv, Grows
<1>2. ASSUME NEW r \in Request, PlannerSaves(r)
      PROVE  (\A p \in plans : p.id.items \subseteq Known)'
  <2>1. /\ req[r].pc = "planner_plan" /\ Eligible(req[r]) # {} /\ ItemLimit(req[r].seen) > 0
        /\ SavePlan(PlanFor(req[r]))
    BY <1>2 DEF PlannerSaves, At
  <2>2. PICK p : p = PlanFor(req[r])
    OBVIOUS
  <2>3. p.id.items \subseteq Eligible(req[r])
    <3>1. /\ p.id = [teen |-> req[r].teen, version |-> req[r].seen.version,
                     items |-> Selected(req[r])]
          /\ Selected(req[r]) \subseteq Eligible(req[r])
      BY <2>1, <2>2, Planning, PlanForTyped, Tables
    <3> QED BY <3>1
  <2>4. p.id.items \subseteq Known
    BY <2>3 DEF Eligible, Considered
  <2>5. plans' = plans \cup {p}
    BY <2>1, <2>2 DEF SavePlan
  <2> QED BY <1>1, <2>4, <2>5
<1>3. CASE UNCHANGED plans
  BY <1>1, <1>3
<1> QED BY <1>2, <1>3, PlansStep

(* Bookings, live plans and flags are made by the Broker's commit and the   *)
(* scans' flags.                                                            *)
LEMMA TablesStep ==
    ASSUME [Next]_vars
    PROVE  \/ UNCHANGED <<bookings, live, flagged>>
           \/ \E r \in Request : /\ req[r].pc = "broker_commit"
                                 /\ CommitPlanBookings(req[r].approved.id)
                                 /\ UNCHANGED <<ckb, scan>>
           \/ \E s \in Scan : ScanFlags(s)
<1> USE DEF pdVars, planVars, commitVars
<1>1. ASSUME NEW r \in Request, Arrives(r) PROVE UNCHANGED <<bookings, live, flagged>>
  BY <1>1 DEF Arrives, IntakeArrives, StartIntake, ApprovalArrives, StartApproval,
              DiscoveryArrives, StartDiscovery, ReplanArrives, StartReplan,
              SetupProfile
<1>2. ASSUME NEW r \in Request, Steps(r)
      PROVE  \/ UNCHANGED <<bookings, live, flagged>>
             \/ /\ req[r].pc = "broker_commit"
                /\ CommitPlanBookings(req[r].approved.id) /\ UNCHANGED <<ckb, scan>>
  <2>1. CASE \/ ReadBookings(r) \/ ReadLedger(r) \/ PlannerGivesUp(r) \/ PlannerCollides(r)
             \/ PlannerReturns(r) \/ PlannerSaves(r)
    BY <2>1 DEF ReadBookings, ReadLedger, PlannerGivesUp, PlannerCollides, PlannerReturns,
                PlannerSaves, SavePlan
  <2>2. CASE \/ DiscoverySkips(r) \/ DiscoverySelects(r) \/ DiscoveryInserts(r)
             \/ DiscoveryFails(r) \/ DiscoveryReturns(r)
    BY <2>2 DEF DiscoverySkips, DiscoverySelects, DiscoveryInserts, DiscoveryFails, DiscoveryReturns
  <2>3. CASE \/ G2(r) \/ GuardianRefuses(r) \/ GuardianReviews(r) \/ GuardianApproves(r)
             \/ GuardianRejects(r)
    BY <2>3 DEF G2, GuardianRefuses, GuardianReviews, GuardianApproves, GuardianRejects
  <2>4. CASE \/ \E l \in Listing : BrokerUnavailable(r, l)
             \/ BrokerFailsG3(r) \/ BrokerRefused(r) \/ BrokerReturns(r) \/ BrokerPrepares(r)
    BY <2>4 DEF BrokerUnavailable, BrokerFailsG3, BrokerRefused, BrokerReturns, BrokerPrepares,
                SaveGuardianVerdict
  <2>5. CASE BrokerCommits(r)
    BY <1>2, <2>5 DEF Steps, BrokerCommits, ReplayCommit, At
  <2> QED BY <1>2, <2>1, <2>2, <2>3, <2>4, <2>5 DEF Steps, NodeStep
<1>3. ASSUME NEW s \in Scan, Scans(s) PROVE UNCHANGED <<bookings, live, flagged>> \/ ScanFlags(s)
  BY <1>3 DEF Scans, ScanStarts, ScanStep, ScanFetches, ScanUpdates, ScanEnds
<1>4. CASE Crashes \/ Resumes
  BY <1>4 DEF Crashes, Resumes, Crash, Resume, ScanDies
<1>5. CASE AttendanceReported \/ UNCHANGED vars
  BY <1>5 DEF AttendanceReported, RecordOutcome, vars
<1> QED BY <1>1, <1>2, <1>3, <1>4, <1>5 DEF Next

(* Bookings appear only in BrokerCommits, for an authorised plan.           *)
LEMMA BookingsStayAuthorised ==
    ASSUME HobbiInv, [Next]_vars
    PROVE  (\A k \in bookings : Authorised(k.plan))'
<1>1. \A k \in bookings : Authorised(k.plan)
  BY DEF HobbiInv, RequestInv
<1>2. \A i : Authorised(i) => Authorised(i)'
  BY StepGrows, AuthorisedStays
<1>3. ASSUME NEW r \in Request, req[r].pc = "broker_commit", CommitPlanBookings(req[r].approved.id)
      PROVE  (\A k \in bookings : Authorised(k.plan))'
  <2>1. PICK i : i = req[r].approved.id
    OBVIOUS
  <2>2. Authorised(i)
    BY <1>3, <2>1, Stands DEF Approved
  <2>3. bookings' = bookings \cup Keys(i)
    BY <1>3, <2>1 DEF CommitPlanBookings
  <2>4. \A k \in Keys(i) : k.plan = i
    BY DEF Keys
  <2> QED BY <1>1, <1>2, <2>2, <2>3, <2>4
<1>4. ASSUME bookings' = bookings PROVE (\A k \in bookings : Authorised(k.plan))'
  BY <1>1, <1>2, <1>4
<1>5. ASSUME NEW s \in Scan, ScanFlags(s) PROVE bookings' = bookings
  BY <1>5 DEF ScanFlags, FlagDeadListing, commitVars
<1> QED BY <1>3, <1>4, <1>5, TablesStep

(* Part three of the invariant.                                             *)
LEMMA RequestStep == ASSUME HobbiInv, [Next]_vars PROVE RequestInv'
BY RequestsStand, PlansStayKnown, BookingsStayAuthorised DEF RequestInv

-----------------------------------------------------------------------------
(* The scans *)

(* Scans move one at a time: a request moves at most the entry of the scan  *)
(* that starts it.                                                          *)
ScanMoves(s) ==
    \/ ScanStarts(s) \/ ScanUpdates(s) \/ ScanFlags(s) \/ ScanEnds(s) \/ ScanDies(s)
    \/ \E l \in scan[s].todo, status \in {"alive", "transient", "missing"} :
          ScanFetches(s, l, status)
    \/ \E r \in Request : ReplanArrives(r, s)

(* A step moves one scan at most.                                           *)
LEMMA OneScanMoves ==
    ASSUME [Next]_vars
    PROVE  UNCHANGED scan \/ \E s \in Scan : ScanMoves(s)
<1>1. ASSUME NEW r \in Request, Arrives(r) PROVE UNCHANGED scan \/ \E s \in Scan : ReplanArrives(r, s)
  BY <1>1 DEF Arrives, IntakeArrives, ApprovalArrives, DiscoveryArrives
<1>2. ASSUME NEW r \in Request, Steps(r) PROVE UNCHANGED scan
  BY <1>2 DEF Steps
<1>3. ASSUME NEW s \in Scan, Scans(s) PROVE ScanMoves(s)
  BY <1>3 DEF Scans, ScanStep, ScanMoves
<1>4. CASE Crashes \/ Resumes
  BY <1>4 DEF Crashes, Resumes, ScanMoves
<1>5. CASE AttendanceReported \/ UNCHANGED vars
  BY <1>5 DEF AttendanceReported, vars
<1> QED BY <1>1, <1>2, <1>3, <1>4, <1>5 DEF Next, ScanMoves

(* The places of a scan, and the blanks of its record.                      *)
LEMMA ScanNames ==
    /\ "idle" \in ScanPlace /\ "fetch" \in ScanPlace /\ "update" \in ScanPlace
    /\ "flag" \in ScanPlace /\ "done" \in ScanPlace /\ "dead" \in ScanPlace
    /\ <<>> \in Copies /\ {} \in ListingSet /\ 0 \in MaybeListing /\ 0 \in MaybeRecord
    /\ {} \in Replans /\ 0 \in MaybeThread
<1>1. <<>> \in [{} -> Record] /\ {} \in SUBSET Listing
  OBVIOUS
<1> QED BY <1>1 DEF ScanPlace, Copies, ListingSet, MaybeListing, MaybeRecord, Replans, MaybeThread

(* The record a scan writes back: the copy's, or retired and dead.          *)
LEMMA RewrittenTyped ==
    ASSUME NEW rec \in Record, rec.verification # "retired",
           NEW status \in {"alive", "transient", "missing"}
    PROVE  /\ Rewritten(rec, status) \in Record
           /\ Rewritten(rec, status).verification \in {rec.verification, "retired"}
<1>1. CASE status = "alive"
  <2>1. Rewritten(rec, status) = [rec EXCEPT !.rechecked = TRUE]
    BY <1>1 DEF Rewritten
  <2> QED BY <2>1 DEF Record
<1>2. CASE status = "transient"
  <2>1. Rewritten(rec, status) = [rec EXCEPT !.freshness = "stale"]
    BY <1>2 DEF Rewritten
  <2> QED BY <2>1 DEF Record
<1>3. CASE status = "missing"
  <2>1. Rewritten(rec, status) = [rec EXCEPT !.verification = "retired", !.freshness = "dead",
                                             !.rechecked = TRUE]
    BY <1>3 DEF Rewritten
  <2> QED BY <2>1 DEF Record
<1> QED BY <1>1, <1>2, <1>3

(* What one scan's step does to its own entry.                              *)
LEMMA StartedScan ==
    ASSUME HobbiInv, NEW s \in Scan, ScanStarts(s)
    PROVE  \E q \in ScanState : /\ GoScan(s, q) /\ scan[s].pc = "idle" /\ q.pc = "fetch"
                                /\ q.copy = ckb /\ q.todo = ScanList(ckb) /\ q.retired = {}
<1>1. ckb \in Copies /\ ScanList(ckb) \in ListingSet
  <2>1. Known \subseteq Listing /\ \A l \in Known : ckb[l] \in Record
    BY DEF HobbiInv, ServiceTyped, KBTypeOK
  <2>2. ckb \in [Known -> Record]
    BY DEF HobbiInv, ServiceTyped
  <2>3. ckb \in Copies
    BY <2>1, <2>2 DEF Copies
  <2>4. ScanList(ckb) \subseteq Listing
    BY <2>1 DEF ScanList, WithinHostCap, Fetchable, Known
  <2> QED BY <2>3, <2>4 DEF ListingSet
<1>2. PICK q : q = [IdleScan EXCEPT !.pc = "fetch", !.copy = ckb, !.todo = ScanList(ckb)]
  OBVIOUS
<1>3. q \in ScanState /\ q.pc = "fetch" /\ q.copy = ckb /\ q.todo = ScanList(ckb) /\ q.retired = {}
  BY <1>1, <1>2, ScanNames DEF IdleScan, ScanState
<1> QED BY <1>2, <1>3 DEF ScanStarts, Scanning

(* A fetch decides the row to write: as copied, or retired.                 *)
LEMMA FetchedScan ==
    ASSUME HobbiInv, NEW s \in Scan, NEW l \in scan[s].todo,
           NEW status \in {"alive", "transient", "missing"}, ScanFetches(s, l, status)
    PROVE  \E q \in ScanState :
              /\ GoScan(s, q) /\ scan[s].pc = "fetch" /\ q.pc = "update" /\ q.copy = scan[s].copy
              /\ q.todo = scan[s].todo \ {l} /\ q.at = l /\ q.retired = scan[s].retired
              /\ q.write \in Record
              /\ q.write.verification \in {scan[s].copy[l].verification, "retired"}
<1>1. scan[s] \in ScanState /\ scan[s].pc = "fetch" /\ l \in Listing
  BY ScanTyped DEF ScanFetches, Scanning
<1>2. l \in DOMAIN scan[s].copy /\ scan[s].copy[l].verification # "retired"
  BY <1>1 DEF HobbiInv, ScanInv, Working, CopyKept, Awaited
<1>3. scan[s].copy[l] \in Record
  <2>1. PICK D \in SUBSET Listing : scan[s].copy \in [D -> Record]
    BY ScanTyped DEF Copies
  <2> QED BY <1>2, <2>1
<1>4. PICK w : w = Rewritten(scan[s].copy[l], status)
  OBVIOUS
<1>5. /\ w \in Record /\ w.verification \in {scan[s].copy[l].verification, "retired"}
      /\ w \in MaybeRecord /\ l \in MaybeListing /\ scan[s].todo \ {l} \in ListingSet
  BY <1>1, <1>2, <1>3, <1>4, RewrittenTyped, ScanTyped DEF MaybeRecord, MaybeListing, ListingSet
<1>6. PICK q : q = [scan[s] EXCEPT !.pc = "update", !.todo = scan[s].todo \ {l}, !.at = l, !.write = w]
  OBVIOUS
<1>7. /\ q \in ScanState /\ q.pc = "update" /\ q.copy = scan[s].copy
      /\ q.todo = scan[s].todo \ {l} /\ q.at = l /\ q.retired = scan[s].retired /\ q.write = w
  BY <1>1, <1>5, <1>6, ScanNames DEF ScanState
<1>8. GoScan(s, q)
  BY <1>4, <1>6 DEF ScanFetches
<1> QED BY <1>1, <1>5, <1>7, <1>8

(* An update goes on to flag only when it retired the row.                  *)
LEMMA UpdatedScan ==
    ASSUME HobbiInv, NEW s \in Scan, ScanUpdates(s)
    PROVE  \E q \in ScanState :
              /\ GoScan(s, q) /\ scan[s].pc = "update" /\ q.copy = scan[s].copy
              /\ q.todo = scan[s].todo /\ q.at = scan[s].at
              /\ \/ /\ scan[s].write.verification = "retired" /\ q.pc = "flag"
                    /\ q.retired = scan[s].retired \cup {scan[s].at}
                 \/ /\ scan[s].write.verification # "retired" /\ q.pc = "fetch"
                    /\ q.retired = scan[s].retired
<1>1. scan[s] \in ScanState /\ scan[s].pc = "update" /\ scan[s].retired \in ListingSet
  BY ScanTyped DEF ScanUpdates, Scanning, ListingSet
<1>2. scan[s].at \in Listing
  <2>1. scan[s].at \in DOMAIN scan[s].copy /\ DOMAIN scan[s].copy \subseteq Known
    BY <1>1 DEF HobbiInv, ScanInv, Working, CopyKept, Awaited, Scanning
  <2> QED BY <2>1, Tables
<1>3. PICK place, U :
         /\ place = (IF scan[s].write.verification = "retired" THEN "flag" ELSE "fetch")
         /\ U = (IF scan[s].write.verification = "retired"
                 THEN scan[s].retired \cup {scan[s].at} ELSE scan[s].retired)
  OBVIOUS
<1>4. place \in ScanPlace /\ U \in ListingSet
  BY <1>1, <1>2, <1>3, ScanNames DEF ListingSet
<1>5. PICK q : q = [scan[s] EXCEPT !.pc = place, !.retired = U]
  OBVIOUS
<1>6. /\ q \in ScanState /\ q.pc = place /\ q.copy = scan[s].copy /\ q.todo = scan[s].todo
      /\ q.at = scan[s].at /\ q.retired = U
  BY <1>1, <1>4, <1>5 DEF ScanState
<1>7. GoScan(s, q)
  BY <1>3, <1>5 DEF ScanUpdates
<1> QED BY <1>1, <1>3, <1>6, <1>7

(* A scan that has flagged fetches its next listing.                        *)
LEMMA FlaggedScan ==
    ASSUME HobbiInv, NEW s \in Scan, ScanFlags(s)
    PROVE  \E q \in ScanState :
              /\ GoScan(s, q) /\ scan[s].pc = "flag" /\ q.pc = "fetch" /\ q.copy = scan[s].copy
              /\ q.todo = scan[s].todo /\ q.retired = scan[s].retired
<1>1. scan[s] \in ScanState /\ scan[s].pc = "flag" /\ scan[s].at \in Listing
  BY ScanTyped DEF ScanFlags, Scanning, HobbiInv, ScanInv
<1>2. PICK R : R = scan[s].replan \cup {[plan |-> i, dead |-> scan[s].at] :
                                          i \in {j \in live : scan[s].at \in j.items}}
  OBVIOUS
<1>3. R \in Replans
  <2>1. live \subseteq PlanId
    BY DEF HobbiInv, PDInv, PDTypeOK
  <2>2. scan[s].replan \in Replans
    BY ScanTyped
  <2> QED BY <1>1, <1>2, <2>1, <2>2 DEF Replans
<1>4. PICK q : q = [scan[s] EXCEPT !.pc = "fetch", !.replan = R]
  OBVIOUS
<1>5. /\ q \in ScanState /\ q.pc = "fetch" /\ q.copy = scan[s].copy
      /\ q.todo = scan[s].todo /\ q.retired = scan[s].retired
  BY <1>1, <1>3, <1>4, ScanNames DEF ScanState
<1>6. GoScan(s, q)
  BY <1>2, <1>4 DEF ScanFlags
<1> QED BY <1>1, <1>5, <1>6

(* The scan is over, or dies, or one of its replans starts.                 *)
LEMMA LeftScan ==
    ASSUME HobbiInv, NEW s \in Scan,
           ScanEnds(s) \/ ScanDies(s) \/ \E r \in Request : ReplanArrives(r, s)
    PROVE  \E q \in ScanState :
              /\ GoScan(s, q) /\ q.pc \in {"done", "dead"} /\ q.retired = scan[s].retired
              /\ q.at = scan[s].at /\ scan[s].pc # "idle"
              /\ q.pc = "done" => scan[s].pc \in {"fetch", "done"}
<1>1. scan[s] \in ScanState
  BY ScanTyped
<1>2. CASE ScanEnds(s)
  <2>1. PICK q : q = [scan[s] EXCEPT !.pc = "done", !.copy = <<>>]
    OBVIOUS
  <2>2. q \in ScanState /\ q.pc = "done" /\ q.retired = scan[s].retired /\ q.at = scan[s].at
    BY <1>1, <2>1, ScanNames DEF ScanState
  <2> QED BY <1>2, <2>1, <2>2 DEF ScanEnds, Scanning
<1>3. CASE ScanDies(s)
  <2>1. PICK q : q = [scan[s] EXCEPT !.pc = "dead", !.copy = <<>>, !.replan = {}]
    OBVIOUS
  <2>2. q \in ScanState /\ q.pc = "dead" /\ q.retired = scan[s].retired /\ q.at = scan[s].at
    BY <1>1, <2>1, ScanNames DEF ScanState
  <2> QED BY <1>3, <2>1, <2>2 DEF ScanDies, Scanning
<1>4. ASSUME NEW r \in Request, ReplanArrives(r, s)
      PROVE  \E q \in ScanState :
                /\ GoScan(s, q) /\ q.pc \in {"done", "dead"} /\ q.retired = scan[s].retired
                /\ q.at = scan[s].at /\ scan[s].pc # "idle"
                /\ q.pc = "done" => scan[s].pc \in {"fetch", "done"}
  <2>1. scan[s].pc = "done"
    BY <1>4 DEF ReplanArrives
  <2>2. PICK f \in scan[s].replan :
           scan' = [scan EXCEPT ![s] = [scan[s] EXCEPT !.replan = @ \ {f}, !.thread = r]]
    BY <1>4 DEF ReplanArrives
  <2>3. PICK R : R = scan[s].replan \ {f}
    OBVIOUS
  <2>4. R \in Replans /\ r \in MaybeThread
    BY <2>3, ScanTyped DEF Replans, MaybeThread
  <2>5. PICK q : q = [scan[s] EXCEPT !.replan = R, !.thread = r]
    OBVIOUS
  <2>6. q \in ScanState /\ q.pc = scan[s].pc /\ q.retired = scan[s].retired /\ q.at = scan[s].at
    BY <1>1, <2>4, <2>5 DEF ScanState
  <2>7. GoScan(s, q)
    BY <2>2, <2>3, <2>5 DEF GoScan
  <2> QED BY <2>1, <2>6, <2>7
<1> QED BY <1>2, <1>3, <1>4

(* Retired listings of a scan stay in its record.                           *)
LEMMA RetiredKept ==
    ASSUME HobbiInv, [Next]_vars
    PROVE  /\ scan' \in [Scan -> ScanState]
           /\ \A s \in Scan : scan[s].retired \subseteq scan'[s].retired
<1>1. scan \in [Scan -> ScanState]
  BY DEF HobbiInv, ServiceTyped
<1>2. CASE UNCHANGED scan
  BY <1>1, <1>2
<1>3. ASSUME NEW s \in Scan, ScanMoves(s)
      PROVE  \E q \in ScanState : GoScan(s, q) /\ scan[s].retired \subseteq q.retired
  <2>1. CASE ScanStarts(s)
    <3>1. PICK q \in ScanState : GoScan(s, q) /\ scan[s].pc = "idle"
      BY <2>1, StartedScan
    <3>2. scan[s].retired = {}
      BY <3>1 DEF HobbiInv, ScanInv, Scanning
    <3> QED BY <3>1, <3>2
  <2>2. CASE \E l \in scan[s].todo, status \in {"alive", "transient", "missing"} :
                ScanFetches(s, l, status)
    BY <2>2, FetchedScan
  <2>3. CASE ScanUpdates(s)
    BY <2>3, UpdatedScan
  <2>4. CASE ScanFlags(s)
    BY <2>4, FlaggedScan
  <2>5. CASE ScanEnds(s) \/ ScanDies(s) \/ \E r \in Request : ReplanArrives(r, s)
    BY <2>5, LeftScan
  <2> QED BY <1>3, <2>1, <2>2, <2>3, <2>4, <2>5 DEF ScanMoves
<1>4. ASSUME NEW s \in Scan, ScanMoves(s)
      PROVE  scan' \in [Scan -> ScanState] /\ \A o \in Scan : scan[o].retired \subseteq scan'[o].retired
  <2>1. PICK q \in ScanState : GoScan(s, q) /\ scan[s].retired \subseteq q.retired
    BY <1>3, <1>4
  <2>2. scan' = [scan EXCEPT ![s] = q]
    BY <2>1 DEF GoScan
  <2> QED BY <1>1, <2>1, <2>2
<1> QED BY <1>2, <1>4, OneScanMoves

(* A step that starts no scan and rewrites no row of a copy keeps every     *)
(* copy as good as it was.                                                  *)
LEMMA QuietScans ==
    ASSUME HobbiInv, [Next]_vars,
           \A l \in Known : ckb'[l] = ckb[l],
           \A o \in Scan : Working(o)' => /\ Working(o) /\ scan'[o].copy = scan[o].copy
                                          /\ Awaited(o)' \subseteq Awaited(o)
    PROVE  \A s \in Scan : Working(s)' => CopyKept(s)'
<1> SUFFICES ASSUME NEW s \in Scan, Working(s)' PROVE CopyKept(s)'
  OBVIOUS
<1>1. Working(s) /\ scan'[s].copy = scan[s].copy /\ Awaited(s)' \subseteq Awaited(s)
  OBVIOUS
<1>2. /\ DOMAIN scan[s].copy \subseteq Known /\ Awaited(s) \subseteq DOMAIN scan[s].copy
      /\ \A l \in DOMAIN scan[s].copy :
            /\ scan[s].copy[l].verification = "verified" => ArrivedVerified(l)
            /\ SameUnlessRetired(scan[s].copy[l], ckb[l])
            /\ \A o \in Scan : Working(o) /\ l \in DOMAIN scan[o].copy =>
                                  SameUnlessRetired(scan[s].copy[l], scan[o].copy[l])
      /\ \A l \in Awaited(s) :
            /\ scan[s].copy[l].verification # "retired"
            /\ Retired(l) => \E o \in Scan \ {s} : l \in scan[o].retired
  BY <1>1 DEF HobbiInv, ScanInv, CopyKept
<1>3. Known \subseteq Known' /\ \A o \in Scan : scan[o].retired \subseteq scan'[o].retired
  BY StepGrows, RetiredKept DEF Grows
<1>4. DOMAIN scan'[s].copy \subseteq Known' /\ Awaited(s)' \subseteq DOMAIN scan'[s].copy
  BY <1>1, <1>2, <1>3
<1>5. ASSUME NEW l \in DOMAIN scan'[s].copy
      PROVE  /\ scan'[s].copy[l].verification = "verified" => ArrivedVerified(l)
             /\ SameUnlessRetired(scan'[s].copy[l], ckb'[l])
             /\ \A o \in Scan : Working(o)' /\ l \in DOMAIN scan'[o].copy =>
                                   SameUnlessRetired(scan'[s].copy[l], scan'[o].copy[l])
  <2>1. l \in DOMAIN scan[s].copy /\ ckb'[l] = ckb[l]
    BY <1>1, <1>2, <1>5
  <2> QED BY <1>1, <1>2, <2>1
<1>6. ASSUME NEW l \in Awaited(s)'
      PROVE  /\ scan'[s].copy[l].verification # "retired"
             /\ Retired(l)' => \E o \in Scan \ {s} : l \in scan'[o].retired
  <2>1. l \in Awaited(s) /\ l \in Known /\ ckb'[l] = ckb[l]
    BY <1>1, <1>2, <1>6
  <2>2. Retired(l)' => Retired(l)
    BY <2>1 DEF Retired
  <2>3. \A o \in Scan \ {s} : l \in scan[o].retired => l \in scan'[o].retired
    BY <1>3
  <2> QED BY <1>1, <1>2, <2>1, <2>2, <2>3
<1> QED BY <1>4, <1>5, <1>6 DEF CopyKept, ArrivedVerified, SameUnlessRetired

(* The entries of the other scans are untouched.                            *)
LEMMA OthersKept ==
    ASSUME HobbiInv, NEW s \in Scan, NEW q, GoScan(s, q)
    PROVE  /\ scan'[s] = q
           /\ \A o \in Scan \ {s} : /\ scan'[o] = scan[o] /\ (Working(o)' <=> Working(o))
                                    /\ Awaited(o)' = Awaited(o)
<1>1. scan' = [scan EXCEPT ![s] = q] /\ scan \in [Scan -> ScanState]
  BY DEF GoScan, HobbiInv, ServiceTyped
<1>2. scan'[s] = q /\ \A o \in Scan \ {s} : scan'[o] = scan[o]
  BY <1>1
<1> QED BY <1>2 DEF Working, Awaited, Scanning

(* The snapshot a scan starts from agrees with the rows, and so with the    *)
(* snapshots of the scans under way.                                        *)
LEMMA StartKeepsCopies ==
    ASSUME HobbiInv, [Next]_vars, NEW s \in Scan, ScanStarts(s)
    PROVE  \A o \in Scan : Working(o)' => CopyKept(o)'
<1>1. PICK q \in ScanState : /\ GoScan(s, q) /\ scan[s].pc = "idle" /\ q.pc = "fetch"
                             /\ q.copy = ckb /\ q.todo = ScanList(ckb) /\ q.retired = {}
  BY StartedScan
<1>2. ckb' = ckb
  BY DEF ScanStarts
<1>3. /\ scan'[s] = q
      /\ \A o \in Scan \ {s} : /\ scan'[o] = scan[o] /\ (Working(o)' <=> Working(o))
                               /\ Awaited(o)' = Awaited(o)
  BY <1>1, OthersKept
<1>4. \A l \in Known : ckb[l].verification = "verified" => ArrivedVerified(l)
  BY DEF HobbiInv, ScanInv
<1>5. \A o \in Scan \ {s} : Working(o)' => CopyKept(o)
  BY <1>3 DEF HobbiInv, ScanInv
<1>6. \A x, y : SameUnlessRetired(x, y) <=> SameUnlessRetired(y, x)
  BY DEF SameUnlessRetired
<1>7. \A x : SameUnlessRetired(x, x)
  BY DEF SameUnlessRetired
<1>8. CopyKept(s)'
  <2>1. Awaited(s)' = ScanList(ckb)
    BY <1>1, <1>3 DEF Awaited, Scanning
  <2>2. /\ ScanList(ckb) \subseteq Known
        /\ \A l \in ScanList(ckb) : ckb[l].verification # "retired"
    BY DEF ScanList, WithinHostCap, Fetchable, Known
  <2>3. \A l \in Known, o \in Scan : Working(o)' /\ l \in DOMAIN scan'[o].copy =>
                                        SameUnlessRetired(ckb[l], scan'[o].copy[l])
    <3>1. ASSUME NEW l \in Known, NEW o \in Scan \ {s}, Working(o)', l \in DOMAIN scan'[o].copy
          PROVE  SameUnlessRetired(ckb[l], scan'[o].copy[l])
      <4>1. scan'[o].copy = scan[o].copy /\ CopyKept(o)
        BY <1>3, <1>5, <3>1
      <4>2. SameUnlessRetired(scan[o].copy[l], ckb[l])
        BY <3>1, <4>1 DEF CopyKept
      <4> QED BY <1>6, <4>1, <4>2
    <3>2. ASSUME NEW l \in Known PROVE SameUnlessRetired(ckb[l], scan'[s].copy[l])
      BY <1>1, <1>3, <1>7
    <3> QED BY <3>1, <3>2
  <2>4. \A l \in ScanList(ckb) : ~Retired(l)'
    BY <1>2, <2>2 DEF Retired
  <2>5. scan'[s].copy = ckb /\ Known' = Known
    BY <1>1, <1>2, <1>3 DEF Known
  <2> QED BY <1>2, <1>4, <1>7, <2>1, <2>2, <2>3, <2>4, <2>5
          DEF CopyKept, Known, ArrivedVerified, SameUnlessRetired
<1>9. ASSUME NEW o \in Scan \ {s}, Working(o)' PROVE CopyKept(o)'
  <2>1. CopyKept(o) /\ scan'[o].copy = scan[o].copy /\ Awaited(o)' = Awaited(o)
    BY <1>3, <1>5, <1>9
  <2>2. \A l \in DOMAIN scan[o].copy, p \in Scan :
           Working(p)' /\ l \in DOMAIN scan'[p].copy =>
               SameUnlessRetired(scan[o].copy[l], scan'[p].copy[l])
    <3>1. ASSUME NEW l \in DOMAIN scan[o].copy, NEW p \in Scan \ {s}, Working(p)',
                 l \in DOMAIN scan'[p].copy
          PROVE  SameUnlessRetired(scan[o].copy[l], scan'[p].copy[l])
      BY <1>3, <2>1, <3>1 DEF CopyKept
    <3>2. ASSUME NEW l \in DOMAIN scan[o].copy
          PROVE  SameUnlessRetired(scan[o].copy[l], scan'[s].copy[l])
      BY <1>1, <1>3, <2>1 DEF CopyKept
    <3> QED BY <3>1, <3>2
  <2>3. \A p \in Scan : scan[p].retired \subseteq scan'[p].retired
    BY RetiredKept
  <2>4. \A l \in Awaited(o) : Retired(l)' => \E p \in Scan \ {o} : l \in scan'[p].retired
    BY <1>2, <2>1, <2>3 DEF CopyKept, Retired
  <2>5. Known' = Known
    BY <1>2 DEF Known
  <2> QED BY <1>2, <2>1, <2>2, <2>4, <2>5 DEF CopyKept, ArrivedVerified, SameUnlessRetired
<1> QED BY <1>8, <1>9

(* The write of a scan changes the verification of a row, if at all, to     *)
(* retired, or from retired back to what the copies say.                    *)
LEMMA UpdateKeepsCopies ==
    ASSUME HobbiInv, [Next]_vars, NEW s \in Scan, ScanUpdates(s)
    PROVE  \A o \in Scan : Working(o)' => CopyKept(o)'
<1>1. PICK q \in ScanState :
         /\ GoScan(s, q) /\ scan[s].pc = "update" /\ q.copy = scan[s].copy
         /\ q.todo = scan[s].todo /\ q.at = scan[s].at
         /\ \/ /\ scan[s].write.verification = "retired" /\ q.pc = "flag"
               /\ q.retired = scan[s].retired \cup {scan[s].at}
            \/ /\ scan[s].write.verification # "retired" /\ q.pc = "fetch"
               /\ q.retired = scan[s].retired
  BY UpdatedScan
<1>2. PICK l : l = scan[s].at
  OBVIOUS
<1>3. PICK w : w = scan[s].write
  OBVIOUS
<1>4. /\ scan'[s] = q
      /\ \A o \in Scan \ {s} : /\ scan'[o] = scan[o] /\ (Working(o)' <=> Working(o))
                               /\ Awaited(o)' = Awaited(o)
  BY <1>1, OthersKept
<1>5. /\ Working(s) /\ CopyKept(s) /\ WritePending(s)
      /\ Awaited(s) = scan[s].todo \cup {l}
  BY <1>1, <1>2 DEF HobbiInv, ScanInv, Working, Scanning, Awaited
<1>6. /\ l \notin scan[s].todo /\ l \in DOMAIN scan[s].copy
      /\ w.verification \in {scan[s].copy[l].verification, "retired"}
  BY <1>2, <1>3, <1>5 DEF WritePending, CopyKept
<1>7. l \in Known /\ Known' = Known /\ ckb'[l] = w /\ \A m \in Known \ {l} : ckb'[m] = ckb[m]
  <2>1. UpdateRecord(l, w)
    BY <1>2, <1>3 DEF ScanUpdates
  <2>2. ckb \in [Known -> Record]
    BY DEF HobbiInv, ServiceTyped
  <2> QED BY <2>1, <2>2 DEF UpdateRecord, Known
<1>8. \A o \in Scan : Working(o)' => /\ Working(o) /\ CopyKept(o) /\ scan'[o].copy = scan[o].copy
                                     /\ Awaited(o)' \subseteq Awaited(o)
                                     /\ o = s => l \notin Awaited(o)'
  <2>1. ASSUME NEW o \in Scan \ {s}, Working(o)'
        PROVE  /\ Working(o) /\ CopyKept(o) /\ scan'[o].copy = scan[o].copy
               /\ Awaited(o)' \subseteq Awaited(o)
    BY <1>4, <2>1 DEF HobbiInv, ScanInv
  <2>2. Awaited(s)' = scan[s].todo
    BY <1>1, <1>4 DEF Awaited, Scanning
  <2> QED BY <1>1, <1>4, <1>5, <1>6, <2>1, <2>2
<1>9. \A p \in Scan : scan[p].retired \subseteq scan'[p].retired
  BY RetiredKept
<1> SUFFICES ASSUME NEW o \in Scan, Working(o)' PROVE CopyKept(o)'
  OBVIOUS
<1>10. /\ DOMAIN scan[o].copy \subseteq Known /\ Awaited(o) \subseteq DOMAIN scan[o].copy
       /\ \A m \in DOMAIN scan[o].copy :
            /\ scan[o].copy[m].verification = "verified" => ArrivedVerified(m)
            /\ SameUnlessRetired(scan[o].copy[m], ckb[m])
            /\ \A p \in Scan : Working(p) /\ m \in DOMAIN scan[p].copy =>
                                  SameUnlessRetired(scan[o].copy[m], scan[p].copy[m])
       /\ \A m \in Awaited(o) :
            /\ scan[o].copy[m].verification # "retired"
            /\ Retired(m) => \E p \in Scan \ {o} : m \in scan[p].retired
  BY <1>8 DEF CopyKept
<1>11. ASSUME NEW m \in DOMAIN scan[o].copy PROVE SameUnlessRetired(scan[o].copy[m], ckb'[m])
  <2>1. CASE m = l
    <3>1. SameUnlessRetired(scan[o].copy[l], scan[s].copy[l])
      BY <1>5, <1>6, <1>10, <2>1
    <3> QED BY <1>6, <1>7, <2>1, <3>1 DEF SameUnlessRetired
  <2>2. CASE m # l
    BY <1>7, <1>10, <2>2
  <2> QED BY <2>1, <2>2
<1>12. ASSUME NEW m \in Awaited(o)', Retired(m)'
       PROVE  \E p \in Scan \ {o} : m \in scan'[p].retired
  <2>1. m \in Awaited(o) /\ m \in Known
    BY <1>8, <1>10, <1>12
  <2>2. CASE m = l
    <3>1. o # s
      BY <1>8, <1>12, <2>2
    <3>2. w.verification = "retired"
      BY <1>7, <1>12, <2>2 DEF Retired
    <3>3. l \in scan'[s].retired
      BY <1>1, <1>2, <1>3, <1>4, <3>2
    <3> QED BY <2>2, <3>1, <3>3
  <2>3. CASE m # l
    <3>1. Retired(m)
      BY <1>7, <1>12, <2>1, <2>3 DEF Retired
    <3> QED BY <1>9, <1>10, <2>1, <3>1
  <2> QED BY <2>2, <2>3
<1>13. \A m \in DOMAIN scan[o].copy, p \in Scan :
          Working(p)' /\ m \in DOMAIN scan'[p].copy =>
             SameUnlessRetired(scan[o].copy[m], scan'[p].copy[m])
  BY <1>8, <1>10
<1>14. scan'[o].copy = scan[o].copy /\ Awaited(o)' \subseteq Awaited(o)
  BY <1>8
<1> QED BY <1>7, <1>10, <1>11, <1>12, <1>13, <1>14
        DEF CopyKept, ArrivedVerified, SameUnlessRetired

(* Every scan at work keeps its copies in step with the rows.               *)
LEMMA CopiesKept ==
    ASSUME HobbiInv, [Next]_vars
    PROVE  \A s \in Scan : Working(s)' => CopyKept(s)'
<1>1. CASE UNCHANGED scan
  <2>1. \A o \in Scan : /\ Working(o)' <=> Working(o)
                        /\ scan'[o].copy = scan[o].copy /\ Awaited(o)' = Awaited(o)
    BY <1>1 DEF Working, Awaited, Scanning
  <2>2. \A l \in Known : ckb'[l] = ckb[l]
    <3>1. ASSUME NEW r \in Request, DiscoveryInserts(r) PROVE \A l \in Known : ckb'[l] = ckb[l]
      BY <3>1 DEF DiscoveryInserts, InsertListing, IsNew
    <3>2. ASSUME NEW s \in Scan, ScanUpdates(s) PROVE FALSE
      <4>1. PICK q \in ScanState : GoScan(s, q) /\ scan[s].pc = "update" /\ q.pc \in {"flag", "fetch"}
        BY <3>2, UpdatedScan
      <4>2. scan'[s] = q
        BY <4>1, OthersKept
      <4> QED BY <1>1, <4>1, <4>2
    <3> QED BY <3>1, <3>2, KBStep
  <2> QED BY <2>1, <2>2, QuietScans
<1>2. ASSUME NEW s \in Scan, ScanMoves(s), ~ScanStarts(s), ~ScanUpdates(s)
      PROVE  \A o \in Scan : Working(o)' => CopyKept(o)'
  <2>1. ckb' = ckb
    BY <1>2 DEF ScanMoves, ScanFetches, ScanFlags, ScanEnds, ScanDies, ReplanArrives, StartReplan
  <2>2. \E q \in ScanState :
           /\ GoScan(s, q)
           /\ q.pc \in {"fetch", "update", "flag"} =>
                /\ scan[s].pc \in {"fetch", "update", "flag"} /\ q.copy = scan[s].copy
                /\ q.todo \cup (IF q.pc = "update" THEN {q.at} ELSE {}) \subseteq scan[s].todo
    <3>1. CASE \E l \in scan[s].todo, status \in {"alive", "transient", "missing"} :
                  ScanFetches(s, l, status)
      <4>1. PICK l \in scan[s].todo, status \in {"alive", "transient", "missing"} :
               ScanFetches(s, l, status)
        BY <3>1
      <4>2. PICK q \in ScanState :
               /\ GoScan(s, q) /\ scan[s].pc = "fetch" /\ q.pc = "update" /\ q.copy = scan[s].copy
               /\ q.todo = scan[s].todo \ {l} /\ q.at = l
        BY <4>1, FetchedScan
      <4>3. q.todo \cup {q.at} \subseteq scan[s].todo
        BY <4>2
      <4> QED BY <4>2, <4>3
    <3>2. CASE ScanFlags(s)
      BY <3>2, FlaggedScan
    <3>3. CASE ScanEnds(s) \/ ScanDies(s) \/ \E r \in Request : ReplanArrives(r, s)
      <4>1. PICK q \in ScanState : GoScan(s, q) /\ q.pc \in {"done", "dead"}
        BY <3>3, LeftScan
      <4> QED BY <4>1
    <3> QED BY <1>2, <3>1, <3>2, <3>3 DEF ScanMoves
  <2>3. PICK q \in ScanState :
           /\ GoScan(s, q)
           /\ q.pc \in {"fetch", "update", "flag"} =>
                /\ scan[s].pc \in {"fetch", "update", "flag"} /\ q.copy = scan[s].copy
                /\ q.todo \cup (IF q.pc = "update" THEN {q.at} ELSE {}) \subseteq scan[s].todo
    BY <2>2
  <2>4. /\ scan'[s] = q
        /\ \A o \in Scan \ {s} : /\ scan'[o] = scan[o] /\ (Working(o)' <=> Working(o))
                                 /\ Awaited(o)' = Awaited(o)
    BY <2>3, OthersKept
  <2>5. Working(s)' => /\ Working(s) /\ scan'[s].copy = scan[s].copy
                       /\ Awaited(s)' \subseteq Awaited(s)
    BY <2>3, <2>4 DEF Working, Awaited, Scanning
  <2>6. \A o \in Scan : Working(o)' => /\ Working(o) /\ scan'[o].copy = scan[o].copy
                                       /\ Awaited(o)' \subseteq Awaited(o)
    BY <2>4, <2>5
  <2> QED BY <2>1, <2>6, QuietScans
<1> QED BY <1>1, <1>2, StartKeepsCopies, UpdateKeepsCopies, OneScanMoves

(* What a row says of a listing's vetting comes from the seed or the        *)
(* replay file.                                                             *)
LEMMA RowsArrive ==
    ASSUME HobbiInv, [Next]_vars
    PROVE  (\A l \in Known : ckb[l].verification = "verified" => ArrivedVerified(l))'
<1>1. \A l \in Known : ckb[l].verification = "verified" => ArrivedVerified(l)
  BY DEF HobbiInv, ScanInv
<1>2. CASE UNCHANGED ckb
  BY <1>1, <1>2 DEF Known, ArrivedVerified
<1>3. ASSUME NEW r \in Request, DiscoveryInserts(r)
      PROVE  (\A l \in Known : ckb[l].verification = "verified" => ArrivedVerified(l))'
  <2>1. PICK n : n = req[r].at
    OBVIOUS
  <2>2. n \in DOMAIN Replay
    <3>1. n \in ReplayIndex /\ n <= Len(Replay) /\ Len(Replay) \in Nat
      BY <1>3, <2>1, Stands, ReplayAssumption DEF HobbiState, Placed, DiscoveryInserts, At
    <3> QED BY <3>1, ReplayAssumption DEF ReplayIndex
  <2>3. Known' = Known \cup {Replay[n].listing}
        /\ ckb' = [l \in Known \cup {Replay[n].listing} |->
                      IF l = Replay[n].listing THEN Replay[n].record ELSE ckb[l]]
    BY <1>3, <2>1 DEF DiscoveryInserts, InsertListing, Known
  <2>4. ASSUME NEW l \in Known', ckb'[l].verification = "verified" PROVE ArrivedVerified(l)
    BY <1>1, <2>2, <2>3, <2>4 DEF ArrivedVerified
  <2> QED BY <2>4 DEF ArrivedVerified
<1>4. ASSUME NEW s \in Scan, ScanUpdates(s)
      PROVE  (\A l \in Known : ckb[l].verification = "verified" => ArrivedVerified(l))'
  <2>1. UpdateRecord(scan[s].at, scan[s].write) /\ scan[s].pc = "update"
    BY <1>4 DEF ScanUpdates, Scanning
  <2>2. Working(s) /\ CopyKept(s) /\ WritePending(s) /\ scan[s].at \in Awaited(s)
    BY <2>1 DEF HobbiInv, ScanInv, Working, Scanning, Awaited
  <2>3. scan[s].write.verification = "verified" => ArrivedVerified(scan[s].at)
    BY <2>2 DEF CopyKept, WritePending
  <2>4. ckb' = [ckb EXCEPT ![scan[s].at] = scan[s].write] /\ Known' = Known /\ scan[s].at \in Known
    BY <2>1 DEF UpdateRecord, Known
  <2>5. ASSUME NEW l \in Known', ckb'[l].verification = "verified" PROVE ArrivedVerified(l)
    BY <1>1, <2>3, <2>4, <2>5 DEF Known
  <2> QED BY <2>5 DEF ArrivedVerified
<1> QED BY <1>2, <1>3, <1>4, KBStep

(* What a scan holds at each of its places.                                 *)
LEMMA ScansStand ==
    ASSUME HobbiInv, [Next]_vars
    PROVE  (\A s \in Scan : /\ Scanning(s, "update") => WritePending(s)
                            /\ Scanning(s, "flag") => scan[s].at \in scan[s].retired
                            /\ Scanning(s, "idle") => scan[s].retired = {})'
<1> DEFINE Good(q) == /\ q.pc = "update" => /\ q.at \notin q.todo /\ q.write \in Record
                                            /\ q.write.verification \in {q.copy[q.at].verification, "retired"}
                      /\ q.pc = "flag" => q.at \in q.retired
                      /\ q.pc = "idle" => q.retired = {}
<1>1. \A s \in Scan : Good(scan[s])
  BY DEF HobbiInv, ScanInv, WritePending, Scanning
<1>2. ASSUME NEW s \in Scan, ScanMoves(s) PROVE \E q : GoScan(s, q) /\ Good(q)
  <2>1. CASE ScanStarts(s)
    <3>1. PICK q \in ScanState : GoScan(s, q) /\ q.pc = "fetch"
      BY <2>1, StartedScan
    <3> QED BY <3>1
  <2>2. ASSUME NEW l \in scan[s].todo, NEW status \in {"alive", "transient", "missing"},
               ScanFetches(s, l, status)
        PROVE  \E q : GoScan(s, q) /\ Good(q)
    <3>1. PICK q \in ScanState :
              /\ GoScan(s, q) /\ q.pc = "update" /\ q.copy = scan[s].copy
              /\ q.todo = scan[s].todo \ {l} /\ q.at = l /\ q.write \in Record
              /\ q.write.verification \in {scan[s].copy[l].verification, "retired"}
      BY <2>2, FetchedScan
    <3>2. Good(q)
      BY <3>1
    <3> QED BY <3>1, <3>2
  <2>3. CASE ScanUpdates(s)
    <3>1. PICK q \in ScanState :
             /\ GoScan(s, q) /\ q.at = scan[s].at
             /\ \/ /\ q.pc = "flag" /\ q.retired = scan[s].retired \cup {scan[s].at}
                \/ q.pc = "fetch"
      BY <2>3, UpdatedScan
    <3>2. Good(q)
      BY <3>1
    <3> QED BY <3>1, <3>2
  <2>4. CASE ScanFlags(s)
    <3>1. PICK q \in ScanState : GoScan(s, q) /\ q.pc = "fetch"
      BY <2>4, FlaggedScan
    <3> QED BY <3>1
  <2>5. CASE ScanEnds(s) \/ ScanDies(s) \/ \E r \in Request : ReplanArrives(r, s)
    <3>1. PICK q \in ScanState : GoScan(s, q) /\ q.pc \in {"done", "dead"}
      BY <2>5, LeftScan
    <3> QED BY <3>1
  <2> HIDE DEF Good
  <2> QED BY <1>2, <2>1, <2>2, <2>3, <2>4, <2>5 DEF ScanMoves
<1> HIDE DEF Good
<1>3. \A s \in Scan : Good(scan'[s])
  <2>1. CASE UNCHANGED scan
    BY <1>1, <2>1
  <2>2. ASSUME NEW s \in Scan, ScanMoves(s) PROVE \A o \in Scan : Good(scan'[o])
    <3>1. PICK q : GoScan(s, q) /\ Good(q)
      BY <1>2, <2>2
    <3>2. scan'[s] = q /\ \A o \in Scan \ {s} : scan'[o] = scan[o]
      BY <3>1, OthersKept
    <3> QED BY <1>1, <3>1, <3>2
  <2> QED BY <2>1, <2>2, OneScanMoves
<1> QED BY <1>3 DEF Good, WritePending, Scanning

(* A flag is raised only for a listing that its own scan has just retired.  *)
LEMMA FlagsStayExplained == ASSUME HobbiInv, [Next]_vars PROVE FlagsAreExplained'
<1>1. \A i \in flagged : \E l \in i.items, s \in Scan : l \in scan[s].retired
  BY DEF HobbiInv, ScanInv, FlagsAreExplained
<1>2. \A s \in Scan : scan[s].retired \subseteq scan'[s].retired
  BY RetiredKept
<1>3. \A i \in flagged : \E l \in i.items, s \in Scan : l \in scan'[s].retired
  BY <1>1, <1>2
<1>4. CASE UNCHANGED flagged
  BY <1>3, <1>4 DEF FlagsAreExplained
<1>5. ASSUME NEW r \in Request, CommitPlanBookings(req[r].approved.id) PROVE FlagsAreExplained'
  BY <1>3, <1>5 DEF FlagsAreExplained, CommitPlanBookings
<1>6. ASSUME NEW s \in Scan, ScanFlags(s) PROVE FlagsAreExplained'
  <2>1. scan[s].pc = "flag" /\ flagged' = flagged \cup {i \in live : scan[s].at \in i.items}
    BY <1>6 DEF ScanFlags, FlagDeadListing, Scanning
  <2>2. scan[s].at \in scan'[s].retired
    BY <1>2, <2>1 DEF HobbiInv, ScanInv, Scanning
  <2> QED BY <1>3, <2>1, <2>2 DEF FlagsAreExplained
<1> QED BY <1>4, <1>5, <1>6, TablesStep

(* Part four of the invariant.                                              *)
LEMMA ScanInvStep == ASSUME HobbiInv, [Next]_vars PROVE ScanInv'
BY RowsArrive, CopiesKept, ScansStand, FlagsStayExplained DEF ScanInv

-----------------------------------------------------------------------------
(* Types *)

(* The knowledge base stays a table of records.                             *)
LEMMA RowsTyped ==
    ASSUME HobbiInv, [Next]_vars
    PROVE  (KBTypeOK /\ ckb \in [Known -> Record])'
<1>1. Known \subseteq Listing /\ ckb \in [Known -> Record]
  BY DEF HobbiInv, ServiceTyped, KBTypeOK
<1>2. SUFFICES (Known \subseteq Listing /\ ckb \in [Known -> Record])'
  BY DEF KBTypeOK
<1>3. CASE UNCHANGED ckb
  BY <1>1, <1>3 DEF Known
<1>4. ASSUME NEW r \in Request, DiscoveryInserts(r)
      PROVE  (Known \subseteq Listing /\ ckb \in [Known -> Record])'
  <2>1. PICK x : x = Replay[req[r].at]
    OBVIOUS
  <2>2. x.listing \in Listing /\ x.record \in Record
    <3>1. req[r].at \in ReplayIndex /\ req[r].at <= Len(Replay) /\ Len(Replay) \in Nat
      BY <1>4, Stands, ReplayAssumption DEF HobbiState, Placed, DiscoveryInserts, At
    <3>2. req[r].at \in 1..Len(Replay)
      BY <3>1 DEF ReplayIndex
    <3>3. PICK X : X = [listing : Listing, record : Record]
      OBVIOUS
    <3>4. x \in X
      <4>1. Replay \in Seq(X)
        BY <3>3, ReplayAssumption
      <4> QED BY <2>1, <3>2, <4>1
    <3> QED BY <3>3, <3>4
  <2>3. ckb' = [l \in Known \cup {x.listing} |-> IF l = x.listing THEN x.record ELSE ckb[l]]
    BY <1>4, <2>1 DEF DiscoveryInserts, InsertListing
  <2>4. Known' = Known \cup {x.listing}
    BY <2>3 DEF Known
  <2> QED BY <1>1, <2>2, <2>3, <2>4
<1>5. ASSUME NEW s \in Scan, ScanUpdates(s)
      PROVE  (Known \subseteq Listing /\ ckb \in [Known -> Record])'
  <2>1. scan[s].at \in Known /\ ckb' = [ckb EXCEPT ![scan[s].at] = scan[s].write]
    BY <1>5 DEF ScanUpdates, UpdateRecord
  <2>2. scan[s].write \in Record
    BY <1>5 DEF ScanUpdates, HobbiInv, ScanInv, WritePending
  <2>3. Known' = Known
    BY <2>1 DEF Known
  <2> QED BY <1>1, <2>1, <2>2, <2>3
<1> QED BY <1>3, <1>4, <1>5, KBStep

(* Approvals name a plan and a grant.                                       *)
LEMMA GrantsTyped == ASSUME HobbiInv, [Next]_vars PROVE (approvals \subseteq Approval)'
<1>1. approvals \subseteq Approval
  BY DEF HobbiInv, ServiceTyped
<1>2. ASSUME NEW r \in Request, ApprovalArrives(r) PROVE (approvals \subseteq Approval)'
  <2>1. PICK p \in plans, G \in GrantSets :
           StartApproval(r, p, G \cap ({"attendance", "spend"} \cup p.id.items))
    BY <1>2 DEF ApprovalArrives
  <2>2. p.id \in PlanId /\ p.id.items \subseteq Listing
    BY Tables DEF PlanId
  <2>3. PICK H : H = G \cap ({"attendance", "spend"} \cup p.id.items)
    OBVIOUS
  <2>4. approvals' = approvals \cup {[plan |-> p.id, grant |-> g] : g \in H}
    BY <2>1, <2>3 DEF StartApproval
  <2>5. \A g \in H : [plan |-> p.id, grant |-> g] \in Approval
    BY <2>2, <2>3 DEF Approval
  <2> QED BY <1>1, <2>4, <2>5
<1> QED BY <1>1, <1>2, ApprovalsStep

(* Crashes are counted up to their bound.                                   *)
LEMMA CrashesTyped == ASSUME HobbiInv, [Next]_vars PROVE crashes' \in 0..MaxCrashes
<1>1. crashes \in 0..MaxCrashes /\ MaxCrashes \in Nat
  BY CapAssumption DEF HobbiInv, ServiceTyped
<1>2. ASSUME NEW r \in Request, Arrives(r) PROVE UNCHANGED crashes
  BY <1>2 DEF Arrives, IntakeArrives, StartIntake, ApprovalArrives, StartApproval,
              DiscoveryArrives, StartDiscovery, ReplanArrives, StartReplan
<1>3. ASSUME NEW r \in Request, Steps(r) PROVE UNCHANGED crashes
  <2>1. CASE \/ ReadBookings(r) \/ ReadLedger(r) \/ PlannerGivesUp(r) \/ PlannerCollides(r)
             \/ PlannerReturns(r) \/ PlannerSaves(r)
    BY <2>1 DEF ReadBookings, ReadLedger, PlannerGivesUp, PlannerCollides, PlannerReturns, PlannerSaves
  <2>2. CASE \/ DiscoverySkips(r) \/ DiscoverySelects(r) \/ DiscoveryInserts(r)
             \/ DiscoveryFails(r) \/ DiscoveryReturns(r)
    BY <2>2 DEF DiscoverySkips, DiscoverySelects, DiscoveryInserts, DiscoveryFails, DiscoveryReturns
  <2>3. CASE \/ G2(r) \/ GuardianRefuses(r) \/ GuardianReviews(r) \/ GuardianApproves(r)
             \/ GuardianRejects(r)
    BY <2>3 DEF G2, GuardianRefuses, GuardianReviews, GuardianApproves, GuardianRejects
  <2>4. CASE \/ \E l \in Listing : BrokerUnavailable(r, l)
             \/ BrokerFailsG3(r) \/ BrokerRefused(r) \/ BrokerReturns(r)
             \/ BrokerPrepares(r) \/ BrokerCommits(r)
    BY <2>4 DEF BrokerUnavailable, BrokerFailsG3, BrokerRefused, BrokerReturns, BrokerPrepares,
                BrokerCommits
  <2> QED BY <1>3, <2>1, <2>2, <2>3, <2>4 DEF Steps, NodeStep
<1>4. ASSUME NEW s \in Scan, Scans(s) PROVE UNCHANGED crashes
  BY <1>4 DEF Scans, pipeVars
<1>5. CASE Crashes
  <2>1. crashes < MaxCrashes /\ crashes' = crashes + 1
    BY <1>5 DEF Crashes, Crash
  <2> QED BY <1>1, <2>1
<1>6. CASE Resumes \/ AttendanceReported \/ UNCHANGED vars
  BY <1>1, <1>6 DEF Resumes, Resume, AttendanceReported, vars, pipeVars
<1> QED BY <1>1, <1>2, <1>3, <1>4, <1>5, <1>6 DEF Next

-----------------------------------------------------------------------------
(* The invariant *)

(* The invariant holds when the service starts.                             *)
LEMMA HobbiStarts == Init => HobbiInv
<1> SUFFICES ASSUME Init PROVE HobbiInv
  OBVIOUS
<1>1. PDInv
  BY InitInv DEF Init
<1>2. Idle \in HobbiState /\ Placed(Idle) /\ Approved(Idle) /\ Looped(Idle)
  <2>1. Looped(Idle) /\ Idle.outcome # "booked"
    BY IdleFields, NoneAssumption, Capped DEF Looped, Outcome, DiscoveryPlace
  <2>2. Placed(Idle)
    BY IdleFields DEF Placed, ChosenPlace, BrokerPlace
  <2>3. Approved(Idle)
    BY IdleFields, <2>1 DEF Approved, BrokerPlace
  <2> QED BY <2>1, <2>2, <2>3, IdleFields
<1>3. IdleScan \in ScanState /\ IdleScan.pc = "idle" /\ IdleScan.retired = {}
  BY ScanNames DEF IdleScan, ScanState
<1>4. ServiceTyped
  <2>1. ckb = Seed /\ Known \subseteq Listing /\ ckb \in [Known -> Record]
    BY SeedAssumption DEF Init, KBInit, Known
  <2>2. req \in [Request -> HobbiState] /\ approvals = {} /\ crashes = 0
    BY <1>2 DEF Init, PipeInit
  <2>3. scan \in [Scan -> ScanState]
    BY <1>3 DEF Init, ScanInit
  <2> QED BY <2>1, <2>2, <2>3, CapAssumption DEF ServiceTyped, KBTypeOK
<1>5. RequestInv
  <2>1. plans = {} /\ bookings = {} /\ \A r \in Request : req[r] = Idle
    BY DEF Init, PDInit, PipeInit
  <2> QED BY <1>2, <2>1 DEF RequestInv
<1>6. ScanInv
  <2>1. flagged = {} /\ ckb = Seed /\ \A s \in Scan : scan[s] = IdleScan
    BY DEF Init, PDInit, KBInit, ScanInit
  <2>2. \A l \in Known : ckb[l].verification = "verified" => ArrivedVerified(l)
    BY <2>1 DEF Known, ArrivedVerified
  <2>3. FlagsAreExplained
    BY <2>1 DEF FlagsAreExplained
  <2> QED BY <1>3, <2>1, <2>2, <2>3 DEF ScanInv, Working, Scanning
<1> QED BY <1>1, <1>4, <1>5, <1>6 DEF HobbiInv

(* Every step keeps it.                                                     *)
LEMMA HobbiKeeps == HobbiInv /\ [Next]_vars => HobbiInv'
<1> SUFFICES ASSUME HobbiInv, [Next]_vars PROVE HobbiInv'
  OBVIOUS
<1>1. PDInv'
  BY ServiceStoreStep, NextInv DEF HobbiInv
<1>2. ServiceTyped'
  BY RowsTyped, RequestsStand, GrantsTyped, CrashesTyped, RetiredKept DEF ServiceTyped
<1> QED BY <1>1, <1>2, RequestStep, ScanInvStep DEF HobbiInv

(* The inductive invariant holds of every behaviour of the service.         *)
THEOREM ServiceInvariant == Spec => []HobbiInv
BY HobbiStarts, HobbiKeeps, PTL DEF Spec

-----------------------------------------------------------------------------
(* The theorems *)

(* The service is one of the store's callers: whatever requests, scans,     *)
(* crashes and reports overlap, what the store guarantees its callers       *)
(* (PersonalDataProofs) is guaranteed to the service.                       *)
THEOREM ServiceUsesStore == Spec => StoreSpec
<1>1. Init => PDInit
  BY DEF Init
<1>2. HobbiInv /\ [Next]_vars => [StoreNext]_pdVars
  BY ServiceStoreStep
<1> QED BY <1>1, <1>2, ServiceInvariant, PTL DEF Spec, StoreSpec

(* The whole service keeps the store's contract with its callers: every     *)
(* plan commits at most once, whole, at the version it was planned for, and *)
(* the clock of a teen moves with the effects and with nothing else.        *)
THEOREM ServiceKeepsContract == Spec => ImplementsContract
BY ServiceUsesStore, StoreImplementsContract, PTL

(* Every table of the service and every field of a request keeps its type.  *)
THEOREM ServiceIsTyped == Spec => []TypeOK
<1>1. ASSUME HobbiInv PROVE TypeOK
  <2>1. PDTypeOK /\ KBTypeOK /\ approvals \subseteq Approval /\ crashes \in 0..MaxCrashes
    BY <1>1 DEF HobbiInv, PDInv, ServiceTyped
  <2>2. ASSUME NEW r \in Request
        PROVE  /\ req[r].pc \in Place /\ req[r].teen \in MaybeTeen
               /\ req[r].candidate \in MaybePlan /\ req[r].approved \in MaybePlan
               /\ req[r].verdict \in MaybeVerdict
               /\ req[r].vetoed \in ListingSet /\ req[r].unavailable \in ListingSet
               /\ req[r].booked \in ListingSet
               /\ req[r].outcome \in MaybeOutcome /\ req[r].at \in ReplayIndex
    BY <1>1, Stands DEF HobbiState
  <2> QED BY <2>1, <2>2 DEF TypeOK, MaybeTeen, MaybePlan, MaybeVerdict, ListingSet, MaybeOutcome, ReplayIndex
<1> QED BY <1>1, ServiceInvariant, PTL

(* No listing a request was refused comes back in a later plan of it,       *)
(* through any number of vetoes, unavailable sessions, crashes and Discovery*)
(* rounds, and whatever scans and other requests do meanwhile.              *)
THEOREM RefusedStaysOut == Spec => []ReplacementAvoidsRefused
<1>1. ASSUME HobbiInv PROVE ReplacementAvoidsRefused
  <2> SUFFICES ASSUME NEW r \in Request,
                      req[r].pc \in {"g2", "guardian", "guardian_g3", "broker", "broker_commit"}
               PROVE  req[r].candidate.id.items \cap (req[r].vetoed \cup req[r].unavailable) = {}
    BY DEF ReplacementAvoidsRefused
  <2> QED BY <1>1, Stands DEF Placed, Avoids, ChosenPlace, BrokerPlace
<1> QED BY <1>1, ServiceInvariant, PTL

(* No interleaving of rejections, unavailable sessions, Discovery rounds    *)
(* and crashes takes a request beyond its caps, and the last rejection      *)
(* always leaves it with the adult.                                         *)
THEOREM LoopsStayCapped == Spec => []LoopsCapped
<1>1. ASSUME HobbiInv PROVE LoopsCapped
  BY <1>1, Stands DEF LoopsCapped, Looped
<1> QED BY <1>1, ServiceInvariant, PTL

(* Every booking stands on the adult's grants for exactly its plan, whoever *)
(* committed it and whatever the knowledge base went through since.         *)
THEOREM BookingsStandOnGrants == Spec => []BookedUnderApproval
<1>1. ASSUME HobbiInv PROVE BookedUnderApproval
  <2> SUFFICES ASSUME NEW k \in bookings
               PROVE  LET grants == {x.grant : x \in {y \in approvals : y.plan = k.plan}} IN
                      /\ "attendance" \in grants
                      /\ Price(k.plan) > 0 => "spend" \in grants
                      /\ ArrivedVerified(k.listing) \/ k.listing \in grants
    BY DEF BookedUnderApproval
  <2> DEFINE grants == {x.grant : x \in {y \in approvals : y.plan = k.plan}}
  <2>1. Authorised(k.plan) /\ k.listing \in k.plan.items
    BY <1>1 DEF HobbiInv, RequestInv, PDInv, BookingsAuthorised
  <2>2. ASSUME NEW g, Granted(k.plan, g) PROVE g \in grants
    <3>1. PICK x : x = [plan |-> k.plan, grant |-> g]
      OBVIOUS
    <3>2. x \in approvals /\ x.plan = k.plan /\ x.grant = g
      BY <2>2, <3>1 DEF Granted
    <3> QED BY <3>2
  <2> HIDE DEF grants
  <2>3. /\ "attendance" \in grants
        /\ Price(k.plan) > 0 => "spend" \in grants
        /\ ArrivedVerified(k.listing) \/ k.listing \in grants
    BY <2>1, <2>2 DEF Authorised
  <2> QED BY <2>3 DEF grants
<1> QED BY <1>1, ServiceInvariant, PTL

(* A request that reports "booked" has its whole plan booked, also when its *)
(* commit was answered from the rows of an earlier attempt.                 *)
THEOREM BookedIsCommitted == Spec => []BookedMeansCommitted
<1>1. ASSUME HobbiInv PROVE BookedMeansCommitted
  BY <1>1, Stands DEF BookedMeansCommitted, Approved
<1> QED BY <1>1, ServiceInvariant, PTL

(* A flag on a plan always goes back to a listing of it that a scan retired.*)
THEOREM FlagsExplained == Spec => []FlagsAreExplained
<1>1. HobbiInv => FlagsAreExplained
  BY DEF HobbiInv, ScanInv
<1> QED BY <1>1, ServiceInvariant, PTL

(* A live plan is a stored one, and all it holds is in the knowledge base.  *)
LEMMA LiveIsKnown ==
    ASSUME HobbiInv, NEW i \in live
    PROVE  i \in CommittedPlans /\ i.items \subseteq Known
<1>1. i \in CommittedPlans
  BY DEF HobbiInv, PDInv, LivePlanIsLatest
<1>2. i \in StoredIds
  BY <1>1 DEF HobbiInv, PDInv, BookingsAuthorised, CommittedPlans
<1>3. PICK p \in plans : p.id = i
  BY <1>2 DEF StoredIds
<1> QED BY <1>1, <1>3 DEF HobbiInv, RequestInv

(* A step cannot take a live plan's flag away.                              *)
LEMMA FlagStays ==
    ASSUME HobbiInv, [Next]_vars, NEW i \in live, i \in flagged
    PROVE  i \in flagged'
<1>1. ASSUME NEW r \in Request, CommitPlanBookings(req[r].approved.id) PROVE i \in flagged'
  <2>1. PICK j : j = req[r].approved.id
    OBVIOUS
  <2>2. CommitAllowed(j) /\ flagged' = flagged \ {j}
    BY <1>1, <2>1 DEF CommitPlanBookings
  <2>3. j \notin CommittedPlans
    BY <2>2, AllowedPlan DEF HobbiInv
  <2>4. i # j
    BY <2>3, LiveIsKnown
  <2> QED BY <2>2, <2>4
<1>2. ASSUME NEW s \in Scan, ScanFlags(s) PROVE i \in flagged'
  BY <1>2 DEF ScanFlags, FlagDeadListing
<1>3. CASE UNCHANGED <<bookings, live, flagged>>
  BY <1>3
<1> QED BY <1>1, <1>2, <1>3, TablesStep

(* A scan leaves the moment between its two writes by flagging, or dies in  *)
(* it for good.                                                             *)
LEMMA RetiringEnds ==
    ASSUME HobbiInv, [Next]_vars, NEW l, Retiring(l), ~Retiring(l)'
    PROVE  \E s \in Scan : ScanFlags(s) /\ scan[s].at = l
<1>1. PICK s \in Scan : scan[s].pc \in {"flag", "dead"} /\ scan[s].at = l
  BY DEF Retiring
<1>2. ~(scan'[s].pc \in {"flag", "dead"} /\ scan'[s].at = l)
  BY DEF Retiring
<1>3. ASSUME NEW o \in Scan, ScanMoves(o), o # s PROVE FALSE
  <2>1. \E q : GoScan(o, q)
    BY <1>3 DEF ScanMoves, ScanStarts, ScanUpdates, ScanFlags, ScanEnds, ScanDies, ScanFetches,
                ReplanArrives, GoScan
  <2>2. scan'[s] = scan[s]
    BY <1>3, <2>1, OthersKept
  <2> QED BY <1>1, <1>2, <2>2
<1>4. ScanMoves(s)
  <2>1. ~UNCHANGED scan
    BY <1>1, <1>2
  <2> QED BY <1>3, <2>1, OneScanMoves
<1>5. CASE ScanDies(s)
  <2>1. PICK q \in ScanState : GoScan(s, q) /\ q.pc \in {"done", "dead"} /\ q.at = scan[s].at
                               /\ (q.pc = "done" => scan[s].pc \in {"fetch", "done"})
    BY <1>5, LeftScan
  <2>2. scan'[s] = q
    BY <2>1, OthersKept
  <2> QED BY <1>1, <1>2, <2>1, <2>2
<1>6. CASE ~ScanDies(s)
  <2>1. ~ScanStarts(s) /\ ~ScanUpdates(s) /\ ~ScanEnds(s)
        /\ (\A m, status : ~ScanFetches(s, m, status)) /\ (\A r : ~ReplanArrives(r, s))
    BY <1>1 DEF ScanStarts, ScanUpdates, ScanEnds, ScanFetches, ReplanArrives, Scanning
  <2> QED BY <1>1, <1>4, <1>6, <2>1 DEF ScanMoves
<1> QED BY <1>5, <1>6

(* Only the scan that writes a row changes it.                              *)
LEMMA RowChanges ==
    ASSUME HobbiInv, [Next]_vars, NEW l \in Known, ckb'[l] # ckb[l]
    PROVE  \E s \in Scan : ScanUpdates(s) /\ scan[s].at = l /\ ckb'[l] = scan[s].write
<1>1. ASSUME NEW r \in Request, DiscoveryInserts(r) PROVE FALSE
  BY <1>1 DEF DiscoveryInserts, InsertListing, IsNew
<1>2. PICK s \in Scan : ScanUpdates(s)
  BY <1>1, KBStep
<1>3. ckb' = [ckb EXCEPT ![scan[s].at] = scan[s].write] /\ ckb \in [Known -> Record]
  BY <1>2 DEF ScanUpdates, UpdateRecord, HobbiInv, ServiceTyped
<1> QED BY <1>2, <1>3

(* A live plan with a retired listing that no scan is about to flag was so  *)
(* before the step: no step creates one.                                    *)
LEMMA ExposedStays ==
    ASSUME HobbiInv, [Next]_vars, NEW i \in live, Exposed(i)'
    PROVE  Exposed(i)
<1>1. i \in live' /\ i \notin flagged'
  BY DEF Exposed
<1>2. PICK l \in i.items : Retired(l)' /\ ~Retiring(l)'
  BY DEF Exposed
<1>3. l \in Known /\ i \notin flagged
  BY <1>1, <1>2, LiveIsKnown, FlagStays
<1>4. Retired(l)
  <2>1. SUFFICES ASSUME ckb'[l] # ckb[l] PROVE FALSE
    BY <1>2 DEF Retired
  <2>2. PICK s \in Scan : ScanUpdates(s) /\ scan[s].at = l /\ ckb'[l] = scan[s].write
    BY <1>3, <2>1, RowChanges
  <2>3. scan[s].write.verification = "retired"
    BY <1>2, <2>2 DEF Retired
  <2>4. PICK q \in ScanState : GoScan(s, q) /\ q.pc = "flag" /\ q.at = scan[s].at
    BY <2>2, <2>3, UpdatedScan
  <2>5. scan'[s] = q
    BY <2>4, OthersKept
  <2> QED BY <1>2, <2>2, <2>4, <2>5 DEF Retiring
<1>5. ~Retiring(l)
  <2>1. SUFFICES ASSUME Retiring(l) PROVE FALSE
    OBVIOUS
  <2>2. PICK s \in Scan : ScanFlags(s) /\ scan[s].at = l
    BY <1>2, <2>1, RetiringEnds
  <2>3. i \in flagged'
    BY <1>2, <2>2 DEF ScanFlags, FlagDeadListing
  <2> QED BY <1>1, <2>3
<1> QED BY <1>2, <1>3, <1>4, <1>5 DEF Exposed

(* A plan that is live when one of its listings dies is flagged, whatever   *)
(* scans, replans and approvals overlap: no step exposes a live plan.       *)
THEOREM LiveGetFlagged == Spec => LivePlansGetFlagged
<1>1. HobbiInv /\ [Next]_vars => [\A i \in live : Exposed(i)' => Exposed(i)]_vars
  BY ExposedStays
<1> QED BY <1>1, ServiceInvariant, PTL DEF Spec, LivePlansGetFlagged

(* A row gains trust only from a scan that overwrites another scan's        *)
(* retirement.                                                              *)
LEMMA TrustStep ==
    ASSUME HobbiInv, [Next]_vars, NEW l \in Known, Trust(l)' > Trust(l)
    PROVE  Retired(l) /\ \E s, o \in Scan : s # o /\ Overwrites(s, o, l)
<1>1. ckb'[l] # ckb[l]
  <2>1. ckb[l].verification \in {"retired", "unverified", "verified"}
    BY DEF HobbiInv, ServiceTyped, KBTypeOK, Record
  <2>2. Trust(l) \in Nat
    BY <2>1 DEF Trust
  <2> QED BY <2>1, <2>2 DEF Trust
<1>2. PICK s \in Scan : ScanUpdates(s) /\ scan[s].at = l /\ ckb'[l] = scan[s].write
  BY <1>1, RowChanges
<1>3. scan[s].pc = "update" /\ CopyKept(s) /\ WritePending(s) /\ l \in Awaited(s)
  BY <1>2 DEF HobbiInv, ScanInv, Working, Scanning, Awaited, ScanUpdates
<1>4. /\ scan[s].copy[l].verification # "retired" /\ SameUnlessRetired(scan[s].copy[l], ckb[l])
      /\ Retired(l) => \E o \in Scan \ {s} : l \in scan[o].retired
      /\ ckb'[l].verification \in {scan[s].copy[l].verification, "retired"}
  BY <1>2, <1>3 DEF CopyKept, WritePending
<1>5. ckb'[l] \in Record /\ ckb[l] \in Record
  BY <1>2, <1>3 DEF WritePending, HobbiInv, ServiceTyped, KBTypeOK
<1>6. ckb'[l].verification # "retired"
  <2>1. SUFFICES ASSUME ckb'[l].verification = "retired" PROVE FALSE
    OBVIOUS
  <2>2. Trust(l)' = 0 /\ Trust(l) \in Nat
    BY <1>5, <2>1 DEF Trust, Record
  <2> QED BY <2>2
<1>7. Retired(l)
  <2>1. SUFFICES ASSUME ckb[l].verification # "retired" PROVE FALSE
    BY DEF Retired
  <2>2. ckb'[l].verification = ckb[l].verification
    BY <1>4, <1>6, <2>1 DEF SameUnlessRetired
  <2>3. Trust(l)' = Trust(l) /\ Trust(l) \in Nat
    BY <1>5, <2>2 DEF Trust, Record
  <2> QED BY <2>3
<1>8. PICK o \in Scan \ {s} : l \in scan[o].retired
  BY <1>4, <1>7
<1>9. Overwrites(s, o, l)
  BY <1>2, <1>3, <1>4, <1>8 DEF Overwrites, Scanning
<1> QED BY <1>7, <1>8, <1>9

(* Nothing Discovery or Compliance writes makes a listing more trusted than *)
(* it arrived, but for a retirement another scan's older copy writes over.  *)
THEOREM TrustRisesByOverlap == Spec => TrustRisesOnlyByOverlap
<1>1. HobbiInv /\ [Next]_vars =>
        [\A l \in Known : Trust(l)' > Trust(l) =>
            Retired(l) /\ \E s, o \in Scan : s # o /\ Overwrites(s, o, l)]_vars
  BY TrustStep
<1> QED BY <1>1, ServiceInvariant, PTL DEF Spec, TrustRisesOnlyByOverlap
-----------------------------------------------------------------------------
(* What the Broker has in hand when it finds its commit made *)

(* Once vetted, a listing stays vetted for good: no row and no scan's copy  *)
(* of it says "unverified", though it may be retired and come back.         *)
Vetted(l) ==
    /\ l \in Known /\ ckb[l].verification # "unverified"
    /\ \A s \in Scan : Working(s) /\ l \in DOMAIN scan[s].copy =>
                            scan[s].copy[l].verification # "unverified"

(* An approving verdict claims what G3 asks for, whenever G3 asks.          *)
Vouched(v) ==
    v.approved => /\ v.attendance /\ (Price(v.plan) > 0 => v.spend)
                  /\ \A l \in v.plan.items : l \in v.providers \/ Vetted(l)

(* The plan the Guardian and the Broker hold is the one the Planner chose,  *)
(* and the Broker has an approving verdict of it.                           *)
Vouching(q) ==
    /\ q.pc \in {"guardian", "guardian_died"} => q.approved = None \/ q.approved = q.candidate
    /\ q.pc = "guardian_g3" => q.approved = q.candidate /\ Vouched(q.review.verdict)
    /\ q.pc \in BrokerPlace => q.approved = q.candidate /\ q.verdict.approved /\ Vouched(q.verdict)
BrokerInv == HobbiInv /\ \A r \in Request : Vouching(req[r])

(* A scan at work keeps the copies it started with.                         *)
LEMMA CopiesStay ==
    ASSUME HobbiInv, NEW s \in Scan, ScanMoves(s), ~ScanStarts(s), Working(s)'
    PROVE  Working(s) /\ scan'[s].copy = scan[s].copy
<1> DEFINE Kept == \E q \in ScanState :
                      /\ GoScan(s, q)
                      /\ q.pc \notin {"done", "dead"} => /\ scan[s].pc \in {"fetch", "update", "flag"}
                                                       /\ q.copy = scan[s].copy
<1>1. Kept
  <2>1. ASSUME NEW l \in scan[s].todo, NEW status \in {"alive", "transient", "missing"},
               ScanFetches(s, l, status)
        PROVE  Kept
    BY <2>1, FetchedScan
  <2>2. CASE ScanUpdates(s)
    BY <2>2, UpdatedScan
  <2>3. CASE ScanFlags(s)
    BY <2>3, FlaggedScan
  <2>4. CASE ScanEnds(s) \/ ScanDies(s) \/ \E r \in Request : ReplanArrives(r, s)
    BY <2>4, LeftScan
  <2> HIDE DEF Kept
  <2> QED BY <2>1, <2>2, <2>3, <2>4 DEF ScanMoves
<1>2. PICK q \in ScanState :
         /\ GoScan(s, q)
         /\ q.pc \notin {"done", "dead"} => /\ scan[s].pc \in {"fetch", "update", "flag"}
                                          /\ q.copy = scan[s].copy
  BY <1>1
<1>3. scan'[s] = q
  BY <1>2, OthersKept
<1> QED BY <1>2, <1>3 DEF Working

(* So a vetted listing stays so: a scan writes its copy, or a retirement.   *)
LEMMA VettedStays ==
    ASSUME HobbiInv, [Next]_vars, NEW l, Vetted(l)
    PROVE  Vetted(l)'
<1>1. l \in Known /\ l \in Known'
  BY StepGrows DEF Vetted, Grows
<1>2. ckb'[l].verification # "unverified"
  <2>1. SUFFICES ASSUME ckb'[l] # ckb[l] PROVE ckb'[l].verification # "unverified"
    BY DEF Vetted
  <2>2. PICK s \in Scan : ScanUpdates(s) /\ scan[s].at = l /\ ckb'[l] = scan[s].write
    BY <1>1, <2>1, RowChanges
  <2>3. Working(s) /\ CopyKept(s) /\ WritePending(s) /\ l \in Awaited(s)
    BY <2>2 DEF HobbiInv, ScanInv, Working, Scanning, Awaited, ScanUpdates
  <2>4. l \in DOMAIN scan[s].copy /\ ckb'[l].verification \in {scan[s].copy[l].verification, "retired"}
    BY <2>2, <2>3 DEF CopyKept, WritePending
  <2> QED BY <2>3, <2>4 DEF Vetted
<1>3. ASSUME NEW s \in Scan, Working(s)', l \in DOMAIN scan'[s].copy
      PROVE  scan'[s].copy[l].verification # "unverified"
  <2>1. CASE Working(s) /\ scan'[s].copy = scan[s].copy
    BY <1>3, <2>1 DEF Vetted
  <2>2. CASE ScanStarts(s)
    <3>1. PICK q \in ScanState : GoScan(s, q) /\ q.copy = ckb
      BY <2>2, StartedScan
    <3>2. scan'[s] = q
      BY <3>1, OthersKept
    <3> QED BY <3>1, <3>2 DEF Vetted
  <2>3. ASSUME NEW o \in Scan, ScanMoves(o), o # s
        PROVE  Working(s) /\ scan'[s].copy = scan[s].copy
    <3>1. \E q : GoScan(o, q)
      BY <2>3 DEF ScanMoves, ScanStarts, ScanUpdates, ScanFlags, ScanEnds, ScanDies, ScanFetches,
                  ReplanArrives, GoScan
    <3> QED BY <1>3, <2>3, <3>1, OthersKept
  <2>4. CASE UNCHANGED scan
    BY <1>3, <2>1, <2>4 DEF Working
  <2> QED BY <1>3, <2>1, <2>2, <2>3, <2>4, OneScanMoves, CopiesStay
<1> QED BY <1>1, <1>2, <1>3 DEF Vetted

(* What a verdict claims it keeps, and so does a request that stays put.    *)
LEMMA VouchingStays ==
    ASSUME HobbiInv, [Next]_vars
    PROVE  /\ \A v : Vouched(v) => Vouched(v)'
           /\ \A q : Vouching(q) => Vouching(q)'
<1>1. \A v : Vouched(v) => Vouched(v)'
  BY VettedStays DEF Vouched, Price
<1> QED BY <1>1 DEF Vouching

(* A review that approves was given its grants, and found every other       *)
(* listing verified, in the rows and so in the copies of the scans.         *)
LEMMA ReviewVouches ==
    ASSUME HobbiInv, NEW p \in plans
    PROVE  Vouched(ReviewOf(p.id))
<1>1. PICK i : i = p.id
  OBVIOUS
<1>2. i \in PlanId /\ i.items \subseteq Known
  BY <1>1, Tables DEF HobbiInv, RequestInv
<1> DEFINE given == {l \in i.items : Granted(i, l)}
<1>3. /\ ReviewOf(i).plan = i /\ ReviewOf(i).providers = given
      /\ ReviewOf(i).attendance = Granted(i, "attendance")
      /\ ReviewOf(i).spend = Granted(i, "spend")
      /\ ReviewOf(i).approved => /\ Unvetted(i, given) = {} /\ DeadItems(i) = {}
                                 /\ Granted(i, "attendance") /\ (Price(i) > 0 => Granted(i, "spend"))
  BY DEF ReviewOf
<1>4. ASSUME ReviewOf(i).approved, NEW l \in i.items, l \notin given PROVE Vetted(l)
  <2>1. ckb[l].verification = "verified"
    <3>1. ckb[l] \in Record /\ ckb[l].verification # "unverified" /\ ~Retired(l)
      BY <1>2, <1>3, <1>4 DEF Unvetted, DeadItems, HobbiInv, ServiceTyped, KBTypeOK
    <3> QED BY <3>1 DEF Record, Retired
  <2>2. \A s \in Scan : Working(s) /\ l \in DOMAIN scan[s].copy =>
                            SameUnlessRetired(scan[s].copy[l], ckb[l])
    BY DEF HobbiInv, ScanInv, CopyKept
  <2> QED BY <1>2, <2>1, <2>2 DEF Vetted, SameUnlessRetired
<1> HIDE DEF given
<1>5. Vouched(ReviewOf(i))
  BY <1>3, <1>4 DEF Vouched
<1> QED BY <1>1, <1>5

(* Outside these places a request holds nothing to vouch for.               *)
LatePlace == {"guardian", "guardian_g3", "guardian_died"} \cup BrokerPlace

(* A step writes the entry of its request.                                  *)
LEMMA Goes ==
    ASSUME HobbiInv, NEW r \in Request, NEW q, Go(r, q)
    PROVE  req'[r] = q /\ \A o \in Request \ {r} : req'[o] = req[o]
BY DEF Go, HobbiInv, ServiceTyped

(* The steps that leave a request there.                                    *)
LEMMA LeavesEarly ==
    ASSUME HobbiInv, NEW r \in Request,
           \/ Arrives(r) \/ Fail(r)
           \/ ReadBookings(r) \/ ReadLedger(r) \/ PlannerGivesUp(r) \/ PlannerSaves(r)
           \/ PlannerReturns(r) \/ DiscoverySkips(r) \/ DiscoverySelects(r)
           \/ DiscoveryInserts(r) \/ DiscoveryReturns(r) \/ GuardianRejects(r)
           \/ (\E l \in Listing : BrokerUnavailable(r, l)) \/ BrokerReturns(r)
    PROVE  req'[r].pc \notin LatePlace
<1>1. req[r] \in HobbiState
  BY Stands
<1>2. PICK P \in HobbiState : P = Returned(req[r])
  BY <1>1, ReturnedFields
<1> DEFINE Early == {"planner", "planner_ledger", "planner_plan", "planner_return",
                     "discovery", "discovery_insert", "g2", "done", "error"}
<1>3. SUFFICES \E q : Go(r, q) /\ q.pc \in Early
  BY Goes DEF LatePlace, BrokerPlace
<1>4. CASE Fail(r) \/ BrokerReturns(r)
  <2>1. \/ Go(r, [P EXCEPT !.pc = "error"])
        \/ Go(r, [P EXCEPT !.pc = "done", !.outcome = "booked"])
    BY <1>1, <1>2, <1>4 DEF Fail, BrokerReturns
  <2>2. /\ [P EXCEPT !.pc = "error"].pc \in Early
        /\ [P EXCEPT !.pc = "done", !.outcome = "booked"].pc \in Early
    BY <1>2 DEF HobbiState
  <2> QED BY <2>1, <2>2
<1>5. CASE Arrives(r)
  <2>1. ASSUME NEW t, NEW L, StartIntake(r, t, L) PROVE \E q : Go(r, q) /\ q.pc \in Early
    <3>1. Go(r, [Idle EXCEPT !.pc = "planner", !.teen = t, !.kind = "intake"])
      BY <2>1 DEF StartIntake
    <3>2. [Idle EXCEPT !.pc = "planner", !.teen = t, !.kind = "intake"].pc \in Early
      BY DEF Idle
    <3> QED BY <3>1, <3>2
  <2>2. ASSUME NEW p, NEW G, StartApproval(r, p, G) PROVE \E q : Go(r, q) /\ q.pc \in Early
    <3> DEFINE q == [Idle EXCEPT !.pc = "g2", !.teen = p.id.teen, !.kind = "approval", !.candidate = p]
    <3>1. Go(r, q)
      BY <2>2 DEF StartApproval
    <3>2. q.pc \in Early
      BY DEF Idle
    <3> QED BY <3>1, <3>2
  <2>3. ASSUME NEW t, NEW U, StartReplan(r, t, U) PROVE \E q : Go(r, q) /\ q.pc \in Early
    <3> DEFINE q == [Idle EXCEPT !.pc = "planner", !.teen = t, !.kind = "replan", !.unavailable = U]
    <3>1. Go(r, q)
      BY <2>3 DEF StartReplan
    <3>2. q.pc \in Early
      BY DEF Idle
    <3> QED BY <3>1, <3>2
  <2>4. ASSUME StartDiscovery(r) PROVE \E q : Go(r, q) /\ q.pc \in Early
    <3>1. Go(r, [Idle EXCEPT !.pc = "discovery", !.kind = "discovery"])
      BY <2>4 DEF StartDiscovery
    <3>2. [Idle EXCEPT !.pc = "discovery", !.kind = "discovery"].pc \in Early
      BY DEF Idle
    <3> QED BY <3>1, <3>2
  <2> HIDE DEF Early
  <2> QED BY <1>5, <2>1, <2>2, <2>3, <2>4
          DEF Arrives, IntakeArrives, ApprovalArrives, DiscoveryArrives, ReplanArrives
<1>6. CASE ReadBookings(r) \/ ReadLedger(r)
  <2>1. \/ Go(r, [req[r] EXCEPT !.pc = "planner_ledger",
                  !.booked = {k.listing : k \in BookedOf(req[r].teen) \ reconciled}])
        \/ Go(r, [req[r] EXCEPT !.pc = "planner_plan", !.seen = ledger[req[r].teen]])
    BY <1>1, <1>2, <1>6 DEF ReadBookings, ReadLedger
  <2>2. /\ [req[r] EXCEPT !.pc = "planner_ledger",
                  !.booked = {k.listing : k \in BookedOf(req[r].teen) \ reconciled}].pc \in Early
        /\ [req[r] EXCEPT !.pc = "planner_plan", !.seen = ledger[req[r].teen]].pc \in Early
    BY <1>1 DEF HobbiState
  <2> QED BY <2>1, <2>2
<1>7. CASE DiscoverySkips(r)
  <2>1. Go(r, [req[r] EXCEPT !.at = @ + 1])
    BY <1>1, <1>2, <1>7 DEF DiscoverySkips
  <2>2. [req[r] EXCEPT !.at = @ + 1].pc \in Early
    BY <1>1, <1>7 DEF HobbiState, DiscoverySkips, At
  <2> QED BY <2>1, <2>2
<1>8. CASE DiscoverySelects(r) \/ DiscoveryInserts(r)
  <2>1. \/ Go(r, [req[r] EXCEPT !.pc = "discovery_insert"])
        \/ Go(r, [req[r] EXCEPT !.pc = "discovery", !.at = @ + 1])
    BY <1>1, <1>2, <1>8 DEF DiscoverySelects, DiscoveryInserts
  <2>2. /\ [req[r] EXCEPT !.pc = "discovery_insert"].pc \in Early
        /\ [req[r] EXCEPT !.pc = "discovery", !.at = @ + 1].pc \in Early
    BY <1>1 DEF HobbiState
  <2> QED BY <2>1, <2>2
<1>9. CASE PlannerSaves(r)
  <2>1. Go(r, [req[r] EXCEPT !.pc = "planner_return", !.review = PlanFor(req[r])])
    BY <1>1, <1>2, <1>9 DEF PlannerSaves
  <2>2. [req[r] EXCEPT !.pc = "planner_return", !.review = PlanFor(req[r])].pc \in Early
    BY <1>1 DEF HobbiState
  <2> QED BY <2>1, <2>2
<1>10. CASE PlannerGivesUp(r)
  <2>1. Go(r, [P EXCEPT !.pc = "done", !.candidate = None, !.outcome = "no_viable_plan"])
    BY <1>1, <1>2, <1>10 DEF PlannerGivesUp
  <2>2. [P EXCEPT !.pc = "done", !.candidate = None, !.outcome = "no_viable_plan"].pc \in Early
    BY <1>2 DEF HobbiState
  <2> QED BY <2>1, <2>2
<1>11. CASE PlannerReturns(r)
  <2>1. \/ Go(r, [P EXCEPT !.pc = "discovery", !.candidate = req[r].review, !.approved = None])
        \/ Go(r, [P EXCEPT !.pc = "g2", !.candidate = req[r].review, !.approved = None])
    BY <1>1, <1>2, <1>11 DEF PlannerReturns
  <2>2. /\ [P EXCEPT !.pc = "discovery", !.candidate = req[r].review, !.approved = None].pc \in Early
        /\ [P EXCEPT !.pc = "g2", !.candidate = req[r].review, !.approved = None].pc \in Early
    BY <1>2 DEF HobbiState
  <2> QED BY <2>1, <2>2
<1>12. CASE DiscoveryReturns(r)
  <2>1. \/ Go(r, [P EXCEPT !.pc = "done"])
        \/ Go(r, [P EXCEPT !.pc = "planner", !.rounds = @ + 1])
    BY <1>1, <1>2, <1>12 DEF DiscoveryReturns
  <2>2. /\ [P EXCEPT !.pc = "done"].pc \in Early
        /\ [P EXCEPT !.pc = "planner", !.rounds = @ + 1].pc \in Early
    BY <1>2 DEF HobbiState
  <2> QED BY <2>1, <2>2
<1>13. ASSUME NEW l \in Listing, BrokerUnavailable(r, l) PROVE \E q : Go(r, q) /\ q.pc \in Early
  <2> DEFINE capped == [P EXCEPT !.pc = "done", !.outcome = "cap_breached"]
             again  == [P EXCEPT !.pc = "planner", !.replans = @ + 1, !.unavailable = @ \cup {l},
                                 !.approved = None, !.verdict = None]
  <2>1. Go(r, capped) \/ Go(r, again)
    BY <1>2, <1>13 DEF BrokerUnavailable
  <2>2. capped.pc \in Early /\ again.pc \in Early
    BY <1>2 DEF HobbiState
  <2> QED BY <2>1, <2>2
<1>14. CASE GuardianRejects(r)
  <2> DEFINE next == [P EXCEPT !.verdict = req[r].review.verdict, !.rejects = req[r].rejects + 1,
                               !.vetoed = @ \cup req[r].review.veto]
  <2>1. PICK Q : Q = next
    OBVIOUS
  <2>2. \/ Go(r, [Q EXCEPT !.pc = "done", !.outcome = "escalated_to_adult"])
        \/ Go(r, [Q EXCEPT !.pc = "done", !.outcome = "cap_breached"])
        \/ Go(r, [Q EXCEPT !.pc = "planner", !.replans = @ + 1, !.candidate = None, !.approved = None])
    BY <1>2, <1>14, <2>1 DEF GuardianRejects
  <2>3. /\ [Q EXCEPT !.pc = "done", !.outcome = "escalated_to_adult"].pc \in Early
        /\ [Q EXCEPT !.pc = "done", !.outcome = "cap_breached"].pc \in Early
        /\ [Q EXCEPT !.pc = "planner", !.replans = @ + 1, !.candidate = None, !.approved = None].pc
              \in Early
    BY <1>2, <2>1 DEF HobbiState
  <2> QED BY <2>2, <2>3
<1> QED BY <1>4, <1>5, <1>6, <1>7, <1>8, <1>9, <1>10, <1>11, <1>12, <1>13, <1>14

(* Whichever step moves it, a request has what it needs where it arrives.   *)
LEMMA MoverVouches ==
    ASSUME BrokerInv, [Next]_vars, NEW r \in Request, Moves(r)
    PROVE  Vouching(req[r])'
<1>1. HobbiInv /\ req[r] \in HobbiState /\ Approved(req[r]) /\ Vouching(req[r])
  BY Stands DEF BrokerInv
<1>2. \A v : Vouched(v) => Vouched(v)'
  BY <1>1, VouchingStays
<1>3. PICK P \in HobbiState : P = Returned(req[r]) /\ Keeps(P, req[r])
  BY <1>1, ReturnedKeeps
<1>4. ASSUME req'[r].pc \notin LatePlace PROVE Vouching(req[r])'
  BY <1>4 DEF Vouching, LatePlace
<1>5. CASE G2(r)
  <2> DEFINE p == IF G2Passes(req[r].candidate.id) THEN req[r].candidate ELSE None
             q == [req[r] EXCEPT !.pc = "guardian", !.approved = p,
                      !.outcome = IF G2Passes(req[r].candidate.id) THEN @ ELSE "no_viable_plan"]
  <2>1. Go(r, q)
    BY <1>5 DEF G2
  <2>2. q.pc = "guardian" /\ q.approved = p /\ q.candidate = req[r].candidate
    BY <1>1 DEF HobbiState
  <2>3. req'[r] = q
    BY <1>1, <2>1, Goes
  <2> QED BY <2>2, <2>3 DEF Vouching, BrokerPlace
<1>6. CASE GuardianReviews(r)
  <2>1. /\ req[r].pc = "guardian" /\ req[r].approved # None /\ req[r].approved = req[r].candidate
        /\ req[r].approved \in plans
    BY <1>1, <1>6, Stands DEF GuardianReviews, At, Vouching, Placed
  <2>2. PICK v : v = ReviewOf(req[r].approved.id)
    OBVIOUS
  <2>3. PICK rev : rev = [verdict |-> v, veto |-> Unvetted(req[r].approved.id, v.providers)
                                                   \cup DeadItems(req[r].approved.id)]
    OBVIOUS
  <2>4. Go(r, [req[r] EXCEPT !.pc = "guardian_g3", !.review = rev])
    BY <1>6, <2>2, <2>3 DEF GuardianReviews
  <2>5. PICK q : q = [req[r] EXCEPT !.pc = "guardian_g3", !.review = rev]
    OBVIOUS
  <2>6. /\ q.pc = "guardian_g3" /\ q.review.verdict = v
        /\ q.approved = req[r].approved /\ q.candidate = req[r].candidate
    BY <1>1, <2>3, <2>5 DEF HobbiState
  <2>7. Vouched(v)'
    BY <1>1, <1>2, <2>1, <2>2, ReviewVouches
  <2>8. req'[r] = q
    BY <1>1, <2>4, <2>5, Goes
  <2> QED BY <2>1, <2>6, <2>7, <2>8 DEF Vouching, BrokerPlace
<1>7. CASE GuardianApproves(r)
  <2>1. PICK v : v = req[r].review.verdict
    OBVIOUS
  <2>2. req[r].pc = "guardian_g3" /\ v.approved
    BY <1>7, <2>1 DEF GuardianApproves, At
  <2>3. req[r].approved = req[r].candidate /\ Vouched(v)'
    BY <1>1, <1>2, <2>1, <2>2 DEF Vouching
  <2>4. Fail(r) \/ Go(r, [P EXCEPT !.pc = "broker", !.verdict = v])
    BY <1>3, <1>7, <2>1 DEF GuardianApproves
  <2>5. CASE Fail(r)
    BY <1>1, <1>4, <2>5, LeavesEarly
  <2>6. CASE Go(r, [P EXCEPT !.pc = "broker", !.verdict = v])
    <3>1. PICK q : q = [P EXCEPT !.pc = "broker", !.verdict = v]
      OBVIOUS
    <3>2. q.pc = "broker" /\ q.verdict = v /\ q.approved = q.candidate
      BY <1>3, <2>3, <3>1 DEF HobbiState, Keeps
    <3>3. req'[r] = q
      BY <1>1, <2>6, <3>1, Goes
    <3> QED BY <2>2, <2>3, <3>2, <3>3 DEF Vouching, BrokerPlace
  <2> QED BY <2>4, <2>5, <2>6
<1>8. ASSUME NEW q, Go(r, q), Keeps(q, req[r]),
             q.pc \in {"guardian", "guardian_died"} => req[r].pc \in LatePlace \ BrokerPlace,
             q.pc # "guardian_g3", q.pc \in BrokerPlace => req[r].pc \in BrokerPlace
      PROVE  Vouching(req[r])'
  <2>1. PICK v : v = req[r].verdict
    OBVIOUS
  <2>2. q.pc \in BrokerPlace => q.approved = q.candidate /\ v.approved /\ Vouched(v)' /\ q.verdict = v
    BY <1>1, <1>2, <1>8, <2>1 DEF Vouching, Keeps
  <2>3. q.pc \in {"guardian", "guardian_died"} => q.approved = None \/ q.approved = q.candidate
    BY <1>1, <1>8 DEF Vouching, Keeps, LatePlace
  <2>4. req'[r] = q
    BY <1>1, <1>8, Goes
  <2> QED BY <1>8, <2>2, <2>3, <2>4 DEF Vouching
<1>9. CASE BrokerPrepares(r) \/ BrokerCommits(r)
  <2>1. PICK place \in {"broker_commit", "broker_return"} :
           Go(r, [req[r] EXCEPT !.pc = place]) /\ req[r].pc \in BrokerPlace
    BY <1>9 DEF BrokerPrepares, BrokerCommits, At, BrokerPlace
  <2>2. PICK q : q = [req[r] EXCEPT !.pc = place]
    OBVIOUS
  <2>3. q.pc = place /\ Keeps(q, req[r])
    BY <1>1, <2>2 DEF HobbiState, Keeps
  <2> QED BY <1>8, <2>1, <2>2, <2>3
<1>10. CASE Crash(r)
  <2>1. PICK place : place = Died[NodeOf(req[r].pc)]
    OBVIOUS
  <2>2. req[r].pc \in Place \ {"idle", "done", "error"} /\ ~Down(r)
    BY <1>1, <1>10 DEF Crash, Running, HobbiState
  <2>3. req[r].pc \notin {"planner_died", "discovery_died", "g2_died", "guardian_died", "broker_died"}
    BY <2>2 DEF Down, Died, At
  <2>4. /\ place \in {"guardian", "guardian_died"} => req[r].pc \in LatePlace \ BrokerPlace
        /\ place # "guardian_g3" /\ (place \in BrokerPlace => req[r].pc \in BrokerPlace)
    BY <2>1, <2>2, <2>3 DEF NodeOf, Died, Place, LatePlace, BrokerPlace
  <2>5. P.pc = req[r].pc
    BY <1>1, <1>3, ReturnedFields
  <2>6. Go(r, [P EXCEPT !.pc = place])
    BY <1>3, <1>10, <2>1, <2>5 DEF Crash
  <2>7. PICK q : q = [P EXCEPT !.pc = place]
    OBVIOUS
  <2>8. q.pc = place /\ Keeps(q, req[r])
    BY <1>3, <2>7 DEF HobbiState, Keeps
  <2> QED BY <1>8, <2>4, <2>6, <2>7, <2>8
<1>13. CASE Resume(r)
  <2>1. PICK node \in DOMAIN Died : At(r, Died[node]) /\ Go(r, [req[r] EXCEPT !.pc = node])
    BY <1>13 DEF Resume
  <2>2. /\ node \in {"guardian", "guardian_died"} => req[r].pc \in LatePlace \ BrokerPlace
        /\ node # "guardian_g3" /\ (node \in BrokerPlace => req[r].pc \in BrokerPlace)
    BY <2>1 DEF Died, At, LatePlace, BrokerPlace
  <2>3. PICK q : q = [req[r] EXCEPT !.pc = node]
    OBVIOUS
  <2>4. q.pc = node /\ Keeps(q, req[r])
    BY <1>1, <2>3 DEF HobbiState, Keeps
  <2> QED BY <1>8, <2>1, <2>2, <2>3, <2>4
<1>11. CASE \/ PlannerCollides(r) \/ DiscoveryFails(r) \/ GuardianRefuses(r)
            \/ BrokerFailsG3(r) \/ BrokerRefused(r)
  <2>1. Fail(r)
    BY <1>11 DEF PlannerCollides, DiscoveryFails, GuardianRefuses, BrokerFailsG3, BrokerRefused
  <2> QED BY <1>1, <1>4, <2>1, LeavesEarly
<1>12. ASSUME \/ Arrives(r)
              \/ ReadBookings(r) \/ ReadLedger(r) \/ PlannerGivesUp(r) \/ PlannerSaves(r)
              \/ PlannerReturns(r) \/ DiscoverySkips(r) \/ DiscoverySelects(r)
              \/ DiscoveryInserts(r) \/ DiscoveryReturns(r) \/ GuardianRejects(r)
              \/ (\E l \in Listing : BrokerUnavailable(r, l)) \/ BrokerReturns(r)
       PROVE  Vouching(req[r])'
  BY <1>1, <1>4, <1>12, LeavesEarly
<1> QED BY <1>5, <1>6, <1>7, <1>9, <1>10, <1>11, <1>12, <1>13 DEF Moves, NodeStep

(* The invariant of this section, and the theorem it is for.                *)
LEMMA BrokerInvKept == BrokerInv /\ [Next]_vars => BrokerInv'
<1> SUFFICES ASSUME BrokerInv, [Next]_vars PROVE BrokerInv'
  OBVIOUS
<1>1. HobbiInv /\ HobbiInv'
  BY HobbiKeeps DEF BrokerInv
<1>2. ASSUME NEW r \in Request, req'[r] = req[r] PROVE Vouching(req[r])'
  <2>1. PICK q : q = req[r]
    OBVIOUS
  <2>2. Vouching(q)'
    BY <1>1, <2>1, VouchingStays DEF BrokerInv
  <2>3. q = req'[r]
    BY <1>2, <2>1
  <2> QED BY <2>2, <2>3 DEF Vouching
<1>3. \A r \in Request : Vouching(req[r])'
  <2>1. CASE UNCHANGED req
    BY <1>2, <2>1
  <2>2. ASSUME NEW r \in Request, Moves(r), Lands(r) PROVE \A o \in Request : Vouching(req[o])'
    <3>1. \A o \in Request \ {r} : req'[o] = req[o]
      BY <1>1, <2>2, Goes DEF Lands
    <3> QED BY <1>2, <2>2, <3>1, MoverVouches
  <2> QED BY <1>1, <2>1, <2>2, OneMoves
<1> QED BY <1>1, <1>3 DEF BrokerInv

(* A Broker with a committed plan can fail nowhere: its items are available *)
(* and pass G3 unless that is excepted, the store takes the commit for the  *)
(* replay it is, and the evidence checks.                                   *)
LEMMA CommittedPasses ==
    ASSUME BrokerInv, NEW r \in Request, Committed(r), ~Refusable(r)
    PROVE  /\ At(r, "broker") => /\ G3Passes(req[r].approved.id, req[r].verdict)
                                 /\ req[r].approved.id.items \cap (req[r].unavailable \cup Flaky) = {}
           /\ Keys(req[r].approved.id) \cap bookings # {} /\ EvidenceHolds(req[r].approved.id)
<1>1. /\ HobbiInv /\ PDInv /\ Vouching(req[r]) /\ Approved(req[r]) /\ Placed(req[r])
      /\ req[r].pc \in BrokerPlace /\ req[r].pc \in ChosenPlace
  BY Stands DEF BrokerInv, HobbiInv, Committed, InBroker, BrokerPlace, ChosenPlace
<1>2. PICK i : i = req[r].approved.id
  OBVIOUS
<1>3. PICK v : v = req[r].verdict
  OBVIOUS
<1>4. /\ i \in PlanId /\ i.items \subseteq Known /\ Keys(i) \subseteq bookings
      /\ v.plan = i /\ v.approved /\ Vouched(v) /\ i.items \cap req[r].unavailable = {}
  BY <1>1, <1>2, <1>3, Tables DEF Approved, Vouching, Placed, Avoids, Committed, HobbiInv, RequestInv
<1>5. Keys(i) \cap bookings # {} /\ EvidenceHolds(i)
  <2>1. PICK k \in Keys(i) : k.plan = i
    BY <1>4, KeysOfPlan
  <2>2. k \in bookings /\ i \in CommittedPlans
    BY <1>4, <2>1 DEF CommittedPlans
  <2> QED BY <1>1, <2>1, <2>2 DEF PDInv, ReplayIsAnswered
<1>6. ASSUME At(r, "broker") PROVE G3Passes(i, v) /\ i.items \cap (req[r].unavailable \cup Flaky) = {}
  <2>1. \A l \in i.items : l \notin Flaky /\ ~Retired(l)
    BY <1>2, <1>6 DEF Refusable
  <2>2. ASSUME NEW l \in i.items, l \notin v.providers PROVE ckb[l].verification = "verified"
    <3>1. Vetted(l)
      BY <1>4, <2>2 DEF Vouched
    <3>2. ckb[l] \in Record
      BY <1>1, <1>4 DEF HobbiInv, ServiceTyped, KBTypeOK
    <3> QED BY <2>1, <3>1, <3>2 DEF Vetted, Record, Retired
  <2>3. v.attendance /\ (Price(i) > 0 => v.spend)
    BY <1>4 DEF Vouched
  <2> QED BY <1>4, <2>1, <2>2, <2>3 DEF G3Passes
<1> QED BY <1>2, <1>3, <1>5, <1>6

LEMMA BrokerReports ==
    ASSUME BrokerInv, [Next]_vars, NEW r \in Request, Committed(r), ~Refusable(r)
    PROVE  Reports(r)'
<1>1. HobbiInv /\ req[r] \in HobbiState /\ InBroker(r)
  BY Stands DEF BrokerInv, Committed
<1>2. CASE req'[r] = req[r]
  BY <1>1, <1>2 DEF Reports, InBroker
<1>3. PICK P \in HobbiState : P = Returned(req[r]) /\ P.pc = req[r].pc
  BY <1>1, ReturnedFields
<1>4. ASSUME NEW q, Go(r, q),
             \/ q.pc \in {"broker", "broker_commit", "broker_return", "broker_died"}
             \/ q.outcome = "booked"
      PROVE  Reports(r)'
  BY <1>1, <1>4, Goes DEF Reports, InBroker, At
<1>5. CASE Crash(r)
  <2>1. PICK q : q = [P EXCEPT !.pc = "broker_died"]
    OBVIOUS
  <2>2. q.pc = "broker_died"
    BY <2>1 DEF HobbiState
  <2>3. Died[NodeOf(req[r].pc)] = "broker_died"
    BY <1>1 DEF InBroker, NodeOf, Died
  <2>4. Go(r, q)
    BY <1>3, <1>5, <2>1, <2>3 DEF Crash
  <2> QED BY <1>4, <2>2, <2>4
<1>6. CASE BrokerPrepares(r) \/ BrokerCommits(r)
  <2>1. PICK place \in {"broker_commit", "broker_return"} : Go(r, [req[r] EXCEPT !.pc = place])
    BY <1>6 DEF BrokerPrepares, BrokerCommits
  <2>2. PICK q : q = [req[r] EXCEPT !.pc = place]
    OBVIOUS
  <2>3. q.pc = place
    BY <1>1, <2>2 DEF HobbiState
  <2> QED BY <1>4, <2>1, <2>2, <2>3
<1>7. CASE BrokerReturns(r)
  <2>1. PICK q : q = [P EXCEPT !.pc = "done", !.outcome = "booked"]
    OBVIOUS
  <2>2. q.outcome = "booked"
    BY <2>1 DEF HobbiState
  <2>3. Go(r, q)
    BY <1>3, <1>7, <2>1, CommittedPasses DEF BrokerReturns
  <2> QED BY <1>4, <2>2, <2>3
<1>8. ~BrokerFailsG3(r) /\ ~BrokerRefused(r) /\ \A l \in Listing : ~BrokerUnavailable(r, l)
  BY CommittedPasses DEF BrokerFailsG3, BrokerRefused, BrokerUnavailable
<1>9. ASSUME Moves(r) PROVE Crash(r) \/ BrokerPrepares(r) \/ BrokerCommits(r) \/ BrokerReturns(r)
  <2>1. ~Arrives(r)
    BY <1>1 DEF InBroker, At, Arrives, IntakeArrives, ApprovalArrives, DiscoveryArrives, ReplanArrives,
                StartIntake, StartApproval, StartDiscovery, StartReplan
  <2>2. ~Resume(r)
    <3>1. SUFFICES ASSUME Resume(r) PROVE FALSE
      OBVIOUS
    <3>2. PICK node \in DOMAIN Died : req[r].pc = Died[node]
      BY <3>1 DEF Resume, At
    <3> QED BY <1>1, <3>2 DEF InBroker, Died
  <2>3. ASSUME NodeStep(r) PROVE BrokerPrepares(r) \/ BrokerCommits(r) \/ BrokerReturns(r)
    BY <1>1, <1>8, <2>3
       DEF InBroker, At, NodeStep, ReadBookings, ReadLedger, PlannerGivesUp, PlannerSaves,
           PlannerCollides, PlannerReturns, DiscoverySkips, DiscoverySelects, DiscoveryInserts,
           DiscoveryFails, DiscoveryReturns, G2, GuardianRefuses, GuardianReviews,
           GuardianApproves, GuardianRejects
  <2> QED BY <1>9, <2>1, <2>2, <2>3 DEF Moves
<1>10. ASSUME NEW o \in Request, Moves(o), Lands(o), o # r PROVE req'[r] = req[r]
  BY <1>1, <1>10, Goes DEF Lands
<1> QED BY <1>1, <1>2, <1>5, <1>6, <1>7, <1>9, <1>10, OneMoves

(* The Broker of a request reports the commit it finds made, by itself or   *)
(* by another request, before a crash or after it, unless an item is        *)
(* refused or retired before it asks the store.                             *)
THEOREM CommitReported == Spec => CommitIsReported
<1>1. Init => BrokerInv
  <2> SUFFICES ASSUME Init PROVE BrokerInv
    OBVIOUS
  <2>1. req = [r \in Request |-> Idle]
    BY DEF Init, PipeInit
  <2>2. \A r \in Request : req[r] = Idle
    BY <2>1
  <2>3. Vouching(Idle)
    BY IdleFields DEF Vouching, BrokerPlace
  <2> QED BY <2>2, <2>3, HobbiStarts DEF BrokerInv
<1>2. BrokerInv /\ [Next]_vars
        => [\A r \in Request : Committed(r) /\ ~Refusable(r) => Reports(r)']_vars
  BY BrokerReports
<1> QED BY <1>1, <1>2, BrokerInvKept, PTL DEF Spec, CommitIsReported

-----------------------------------------------------------------------------
(* What a scan serves *)

(* Where the members of A with fewer than N before them are served, whoever *)
(* is left out has N served before it: the first left out has them, and     *)
(* they come before every other.                                            *)
LEMMA FilledFirst ==
    ASSUME NEW A \in SUBSET Listing, NEW B \in SUBSET A, NEW N \in Nat,
           \A m \in A : m \in B <=> Cardinality(Earlier(A, m)) < N,
           NEW x \in A \ B
    PROVE  Cardinality(Earlier(B, x)) >= N
<1> DEFINE T == {Order[m] : m \in {k \in A \ B : Order[k] <= Order[x]}}
<1>1. T \in SUBSET Nat /\ T # {}
  BY OrderAssumption
<1>2. PICK n \in T : \A k \in T : n <= k
  BY <1>1, LeastNat
<1>3. PICK m \in A \ B : Order[m] = n /\ Order[m] <= Order[x]
  BY <1>2
<1>4. ASSUME NEW k \in A, Order[k] < Order[m] PROVE k \in B /\ Order[k] < Order[x]
  <2>1. Order[k] \in Nat /\ Order[m] \in Nat /\ Order[x] \in Nat
    BY OrderAssumption
  <2>2. Order[k] < Order[x]
    BY <1>3, <1>4, <2>1
  <2> QED BY <1>2, <1>3, <1>4, <2>1, <2>2
<1> HIDE DEF T
<1>5. Earlier(A, m) \subseteq Earlier(B, x)
  BY <1>4 DEF Earlier
<1>6. IsFiniteSet(Earlier(B, x)) /\ IsFiniteSet(Earlier(A, m))
  BY ListingAssumption, FS_Subset DEF Earlier
<1>7. /\ Cardinality(Earlier(A, m)) <= Cardinality(Earlier(B, x))
      /\ Cardinality(Earlier(A, m)) \in Nat /\ Cardinality(Earlier(B, x)) \in Nat
  BY <1>5, <1>6, FS_Subset, FS_CardinalityType
<1>8. ~ (Cardinality(Earlier(A, m)) < N)
  BY <1>3
<1> QED BY <1>7, <1>8

(* A nonempty finite set of listings has a last one.                        *)
LEMMA LastServed ==
    ASSUME NEW B \in SUBSET Listing, IsFiniteSet(B), B # {}
    PROVE  \E m \in B : \A k \in B : Order[k] <= Order[m]
<1> DEFINE after(m) == {k \in B : Order[k] > Order[m]}
           counts == {Cardinality(after(m)) : m \in B}
<1>1. ASSUME NEW m \in B PROVE IsFiniteSet(after(m)) /\ Cardinality(after(m)) \in Nat
  BY FS_Subset, FS_CardinalityType
<1>2. counts \in SUBSET Nat /\ counts # {}
  BY <1>1
<1> HIDE DEF after
<1>3. PICK n \in counts : \A k \in counts : n <= k
  BY <1>2, LeastNat
<1>4. PICK m \in B : n = Cardinality(after(m))
  BY <1>3
<1>5. ASSUME NEW k \in B, ~ (Order[k] <= Order[m]) PROVE FALSE
  <2>1. k \in after(m) /\ k \notin after(k) /\ after(k) \subseteq after(m)
    BY <1>5, OrderAssumption DEF after
  <2>2. Cardinality(after(k)) <= Cardinality(after(m)) /\ Cardinality(after(k)) # Cardinality(after(m))
    BY <1>1, <2>1, FS_Subset
  <2>3. Cardinality(after(m)) <= Cardinality(after(k))
    BY <1>3, <1>4
  <2> QED BY <1>1, <2>2, <2>3
<1> QED BY <1>5

(* And N at most are served: the last of them has all others before it.     *)
LEMMA ServedAtMost ==
    ASSUME NEW A \in SUBSET Listing, NEW B \in SUBSET A, NEW N \in Nat,
           \A m \in B : Cardinality(Earlier(A, m)) < N
    PROVE  Cardinality(B) <= N
<1>1. IsFiniteSet(B)
  BY ListingAssumption, FS_Subset
<1>2. CASE B = {}
  BY <1>2, FS_EmptySet
<1>3. CASE B # {}
  <2>1. PICK m \in B : \A k \in B : Order[k] <= Order[m]
    BY <1>1, <1>3, LastServed
  <2>2. B \ {m} \subseteq Earlier(A, m)
    BY <2>1, OrderAssumption DEF Earlier
  <2>3. IsFiniteSet(Earlier(A, m)) /\ IsFiniteSet(B \ {m})
    BY ListingAssumption, FS_Subset DEF Earlier
  <2>4. Cardinality(B \ {m}) = Cardinality(B) - 1 /\ Cardinality(B) \in Nat
    BY <1>1, <2>1, FS_RemoveElement, FS_CardinalityType
  <2>5. Cardinality(B \ {m}) <= Cardinality(Earlier(A, m)) /\ Cardinality(Earlier(A, m)) \in Nat
    BY <2>2, <2>3, FS_Subset, FS_CardinalityType
  <2> QED BY <2>1, <2>4, <2>5
<1> QED BY <1>2, <1>3

(* The list of a scan, whatever rows it finds, is the one its loop serves:  *)
(* what is left out for its host alone counts for nobody.                   *)
LEMMA ListServesInTurn ==
    ASSUME NEW copy, DOMAIN copy \subseteq Listing
    PROVE  ServedInTurn(ScanList(copy), copy)
<1>1. PICK F : F = Fetchable(copy)
  OBVIOUS
<1>2. PICK W : W = WithinHostCap(copy)
  OBVIOUS
<1>3. PICK S : S = ScanList(copy)
  OBVIOUS
<1>4. /\ F \in SUBSET Listing /\ W \in SUBSET F /\ S \in SUBSET W
      /\ F \subseteq DOMAIN copy /\ MaxFetchesPerDomain \in Nat /\ MaxListingsPerScan \in Nat
  BY <1>1, <1>2, <1>3, FetchCapAssumption DEF Fetchable, WithinHostCap, ScanList
<1>5. \A l \in W : l \in S <=> Cardinality(Earlier(W, l)) < MaxListingsPerScan
  BY <1>2, <1>3 DEF ScanList, Earlier
<1>6. ASSUME NEW h, NEW l \in OfHost(F, h)
      PROVE  l \in OfHost(W, h) <=> Cardinality(Earlier(OfHost(F, h), l)) < MaxFetchesPerDomain
  <2>1. Earlier(OfHost(F, h), l) = {m \in F : Host[m] = Host[l] /\ Order[m] < Order[l]}
    BY DEF Earlier, OfHost
  <2> QED BY <1>1, <1>2, <2>1 DEF WithinHostCap, OfHost
<1>7. \A h : OfHost(F, h) \in SUBSET Listing /\ OfHost(W, h) \in SUBSET OfHost(F, h)
  BY <1>4 DEF OfHost
<1>8. ASSUME NEW A, NEW B, A \subseteq B, B \subseteq Listing
      PROVE  /\ Cardinality(A) <= Cardinality(B)
             /\ Cardinality(A) \in Nat /\ Cardinality(B) \in Nat
  <2>1. IsFiniteSet(B) /\ IsFiniteSet(A)
    BY <1>8, ListingAssumption, FS_Subset
  <2> QED BY <1>8, <2>1, FS_Subset, FS_CardinalityType
<1>9. ASSUME NEW l \in S PROVE l \in F /\ HasRoom(S, l)
  <2>1. l \in W /\ l \in F /\ l \in OfHost(F, Host[l]) /\ l \in OfHost(W, Host[l])
    BY <1>4 DEF OfHost
  <2>2. /\ Cardinality(Earlier(OfHost(F, Host[l]), l)) < MaxFetchesPerDomain
        /\ Cardinality(Earlier(W, l)) < MaxListingsPerScan
    BY <1>5, <1>6, <2>1
  <2>3. /\ OfHost(Earlier(S, l), Host[l]) \subseteq Earlier(OfHost(F, Host[l]), l)
        /\ Earlier(S, l) \subseteq Earlier(W, l)
        /\ Earlier(OfHost(F, Host[l]), l) \subseteq Listing /\ Earlier(W, l) \subseteq Listing
    BY <1>4 DEF Earlier, OfHost
  <2>4. /\ Cardinality(OfHost(Earlier(S, l), Host[l])) < MaxFetchesPerDomain
        /\ Cardinality(Earlier(S, l)) < MaxListingsPerScan
    BY <1>4, <1>8, <2>2, <2>3
  <2> QED BY <2>1, <2>4 DEF HasRoom
<1>10. ASSUME NEW l \in F, HasRoom(S, l) PROVE l \in S
  <2>1. /\ Cardinality(OfHost(Earlier(S, l), Host[l])) < MaxFetchesPerDomain
        /\ Cardinality(Earlier(S, l)) < MaxListingsPerScan
    BY <1>10 DEF HasRoom
  <2>2. ASSUME NEW x \in W \ S, Order[x] <= Order[l] PROVE FALSE
    <3>1. Cardinality(Earlier(S, x)) >= MaxListingsPerScan
      BY <1>4, <1>5, FilledFirst
    <3>2. Earlier(S, x) \subseteq Earlier(S, l) /\ Earlier(S, l) \subseteq Listing
      BY <1>4, <2>2, OrderAssumption DEF Earlier
    <3> QED BY <1>4, <1>8, <2>1, <3>1, <3>2
  <2>3. Earlier(OfHost(W, Host[l]), l) \subseteq OfHost(Earlier(S, l), Host[l])
    <3>1. ASSUME NEW x \in W, Order[x] < Order[l] PROVE x \in S
      <4>1. Order[x] <= Order[l]
        BY <1>4, <3>1, OrderAssumption
      <4> QED BY <2>2, <4>1
    <3> QED BY <3>1 DEF Earlier, OfHost
  <2>4. l \in W
    <3>1. SUFFICES ASSUME l \notin W PROVE FALSE
      OBVIOUS
    <3>2. l \in OfHost(F, Host[l]) \ OfHost(W, Host[l])
      BY <3>1 DEF OfHost
    <3>3. Cardinality(Earlier(OfHost(W, Host[l]), l)) >= MaxFetchesPerDomain
      BY <1>4, <1>6, <1>7, <3>2, FilledFirst
    <3>4. OfHost(Earlier(S, l), Host[l]) \subseteq Listing
      BY <1>4 DEF OfHost, Earlier
    <3> QED BY <1>4, <1>8, <2>1, <2>3, <3>3, <3>4
  <2> QED
    <3>1. Order[l] <= Order[l]
      BY <1>4, OrderAssumption
    <3> QED BY <2>2, <2>4, <3>1
<1>11. ASSUME NEW l \in S PROVE Cardinality(OfHost(S, Host[l])) <= MaxFetchesPerDomain
  <2>1. OfHost(S, Host[l]) \in SUBSET OfHost(F, Host[l]) /\ OfHost(S, Host[l]) \subseteq OfHost(W, Host[l])
    BY <1>4 DEF OfHost
  <2>2. \A m \in OfHost(S, Host[l]) : Cardinality(Earlier(OfHost(F, Host[l]), m)) < MaxFetchesPerDomain
    BY <1>6, <2>1
  <2> QED BY <1>4, <1>7, <2>1, <2>2, ServedAtMost
<1>12. Cardinality(S) <= MaxListingsPerScan
  BY <1>4, <1>5, ServedAtMost
<1>13. \A l \in DOMAIN copy : l \in S <=> l \in F /\ HasRoom(S, l)
  BY <1>9, <1>10
<1> QED BY <1>1, <1>3, <1>11, <1>12, <1>13 DEF ServedInTurn

(* No other step takes a scan out of "idle".                                *)
LEMMA OnlyStartLeavesIdle ==
    ASSUME HobbiInv, [Next]_vars, NEW s \in Scan, Scanning(s, "idle"), Scanning(s, "fetch")'
    PROVE  ScanStarts(s)
<1>1. scan' # scan
  BY DEF Scanning
<1>2. PICK o \in Scan : ScanMoves(o)
  BY <1>1, OneScanMoves
<1>3. o = s
  <2>1. SUFFICES ASSUME o # s PROVE FALSE
    OBVIOUS
  <2>2. \E q : scan' = [scan EXCEPT ![o] = q]
    BY <1>2 DEF ScanMoves, ScanStarts, ScanFetches, ScanUpdates, ScanFlags, ScanEnds, ScanDies,
                ReplanArrives, GoScan
  <2>3. scan'[s] = scan[s]
    BY <2>1, <2>2 DEF HobbiInv, ServiceTyped
  <2> QED BY <2>3 DEF Scanning
<1>4. ~ (ScanUpdates(s) \/ ScanFlags(s) \/ ScanEnds(s) \/ ScanDies(s))
  BY DEF Scanning, ScanUpdates, ScanFlags, ScanEnds, ScanDies
<1>5. ~ \E l \in scan[s].todo, status \in {"alive", "transient", "missing"} : ScanFetches(s, l, status)
  BY DEF Scanning, ScanFetches
<1>6. ~ \E r \in Request : ReplanArrives(r, s)
  BY DEF Scanning, ReplanArrives
<1> QED BY <1>2, <1>3, <1>4, <1>5, <1>6 DEF ScanMoves

(* Every scan takes its list within both bounds, and in turn, from whatever *)
(* the knowledge base holds when it starts.                                 *)
LEMMA StartServesInTurn ==
    ASSUME HobbiInv, [Next]_vars, NEW s \in Scan, Scanning(s, "idle"), Scanning(s, "fetch")'
    PROVE  ServedInTurn(scan'[s].todo, ckb)
<1>1. ScanStarts(s)
  BY OnlyStartLeavesIdle
<1>2. PICK q \in ScanState : GoScan(s, q) /\ q.todo = ScanList(ckb)
  BY <1>1, StartedScan
<1>3. scan'[s].todo = ScanList(ckb)
  BY <1>2 DEF GoScan, HobbiInv, ServiceTyped
<1>4. DOMAIN ckb \subseteq Listing
  BY DEF HobbiInv, ServiceTyped, KBTypeOK, Known
<1> QED BY <1>3, <1>4, ListServesInTurn

(* A scan stops at either bound, per host and in all, and leaves a listing  *)
(* out only for those it serves before it.                                  *)
THEOREM ScansServe == Spec => ScansServeInTurn
<1>1. HobbiInv /\ [Next]_vars =>
        [\A s \in Scan : Scanning(s, "idle") /\ Scanning(s, "fetch")'
            => ServedInTurn(scan'[s].todo, ckb)]_vars
  BY StartServesInTurn
<1> QED BY <1>1, ServiceInvariant, PTL DEF Spec, ScansServeInTurn
=============================================================================
