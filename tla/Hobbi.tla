------------------------------- MODULE Hobbi -------------------------------
(***************************************************************************)
(* The service (src/api.py): request graphs, Compliance scans and           *)
(* attendance reports of concurrent HTTP threads over the two stores.       *)
(***************************************************************************)
EXTENDS Pipeline, Compliance

CONSTANTS
    GrantSets,      \* the bundles of grants an adult may send, chosen per plan
    OperatorReplays,\* whether an operator calls discovery_replay
    MaxOutcomes     \* bound on attendance reports

vars == <<pdVars, ckb, pipeVars, scan>>

Init == PDInit /\ KBInit /\ PipeInit /\ ScanInit

IntakeArrives(r) ==
    /\ \E t \in Teen, L \in OpeningLedger : StartIntake(r, t, L)
    /\ UNCHANGED scan

(* An adult sends the grants of a bundle that apply to the plan.            *)
ApprovalArrives(r) ==
    /\ \E p \in plans, G \in GrantSets :
          StartApproval(r, p, G \cap ({"attendance", "spend"} \cup p.id.items))
    /\ UNCHANGED scan

DiscoveryArrives(r) ==
    /\ OperatorReplays
    /\ StartDiscovery(r)
    /\ UNCHANGED scan

(* compliance_scan with replan_flagged: after the scan, one replan after    *)
(* the other, each with every listing the scan retired.  A replan that      *)
(* raises, or dies with its process, ends the handler.                      *)
ReplanArrives(r, s) ==
    LET q == scan[s] IN
    /\ q.pc = "done"
    /\ q.thread \in Request => At(q.thread, "done")
    /\ \E f \in q.replan :
          /\ StartReplan(r, f.plan.teen, q.retired)
          /\ scan' = [scan EXCEPT ![s] = [q EXCEPT !.replan = @ \ {f}, !.thread = r]]

Arrives(r) ==
    \/ IntakeArrives(r) \/ ApprovalArrives(r) \/ DiscoveryArrives(r)
    \/ \E s \in Scan : ReplanArrives(r, s)

Steps(r) == NodeStep(r) /\ UNCHANGED scan

Crashes ==
    \/ \E r \in Request : Crash(r) /\ UNCHANGED scan
    \/ /\ crashes < MaxCrashes
       /\ crashes' = crashes + 1
       /\ \E s \in Scan : ScanDies(s)
       /\ UNCHANGED <<req, approvals>>

Resumes == \E r \in Request : Resume(r) /\ UNCHANGED scan

Scans(s) == (ScanStarts(s) \/ ScanStep(s)) /\ UNCHANGED pipeVars

(* The attendance operation, as far as the ledger is concerned. *)
AttendanceReported ==
    /\ Cardinality(attendance) < MaxOutcomes
    /\ \E k \in bookings, ok \in BOOLEAN : RecordOutcome(k, ok)
    /\ UNCHANGED <<ckb, pipeVars, scan>>

Next ==
    \/ \E r \in Request : Arrives(r) \/ Steps(r)
    \/ \E s \in Scan : Scans(s)
    \/ Crashes
    \/ Resumes
    \/ AttendanceReported

Spec == Init /\ [][Next]_vars

(* A request thread whose process lives keeps running (synchronous invoke); *)
(* arrivals, scans, crashes, resumptions and attendance happen or not.      *)
Fairness == \A r \in Request : WF_vars(Steps(r))

FairSpec == Spec /\ Fairness
-----------------------------------------------------------------------------
(* Properties *)

TypeOK ==
    /\ PDTypeOK /\ KBTypeOK
    /\ approvals \subseteq Approval
    /\ crashes \in 0..MaxCrashes
    /\ \A r \in Request :
        LET q == req[r] IN
        /\ q.pc \in Place
        /\ q.teen \in Teen \cup {None}
        /\ q.candidate \in Plan \cup {None} /\ q.approved \in Plan \cup {None}
        /\ q.verdict \in Verdict \cup {None}
        /\ q.vetoed \subseteq Listing /\ q.unavailable \subseteq Listing
        /\ q.booked \subseteq Listing
        /\ q.outcome \in Outcome \cup {None}
        /\ q.at \in 1..(Len(Replay) + 1)

(* The records Discovery or the seed brought in as verified. *)
ArrivedVerified(l) ==
    \/ l \in DOMAIN Seed /\ Seed[l].verification = "verified"
    \/ \E n \in DOMAIN Replay : Replay[n].listing = l /\ Replay[n].record.verification = "verified"

(* Every booking, whichever request committed it and after whatever         *)
(* replans, stands on the adult's grants for exactly that plan: attendance, *)
(* spend when it costs money, and the provider of every listing that was    *)
(* never verified.                                                          *)
BookedUnderApproval ==
    \A k \in bookings :
        LET grants == {x.grant : x \in {y \in approvals : y.plan = k.plan}} IN
        /\ "attendance" \in grants
        /\ Price(k.plan) > 0 => "spend" \in grants
        /\ ArrivedVerified(k.listing) \/ k.listing \in grants

(* No listing a request was refused, by the Guardian, by the provider or    *)
(* because a scan retired it, comes back in a later plan of that request.   *)
ReplacementAvoidsRefused ==
    \A r \in Request :
        LET q == req[r] IN
        /\ q.pc \in {"g2", "guardian", "guardian_g3", "broker", "broker_commit"}
        /\ q.replans > 0 \/ q.kind = "replan"
        => q.candidate.id.items \cap (q.vetoed \cup q.unavailable) = {}

(* The loops of one request share their budgets across nodes: replans after *)
(* a rejection and after an unavailable session draw on one cap, Discovery  *)
(* has its own, and the last permitted rejection always ends at the adult.  *)
LoopsCapped ==
    \A r \in Request :
        LET q == req[r] IN
        /\ q.replans <= MaxReplans /\ q.rounds <= MaxDiscoveryRounds
        /\ q.rejects <= MaxGuardianRejections
        /\ q.rejects = MaxGuardianRejections => q.outcome = "escalated_to_adult"

(* A request reports "booked" only for a plan whose every item is booked,   *)
(* also when the commit was a replay after a crash.                         *)
BookedMeansCommitted ==
    \A r \in Request :
        req[r].outcome = "booked" => Keys(req[r].approved.id) \subseteq bookings

(* The ledger version a plan carries stands for the bookings its Planner     *)
(* read: no commit books a listing the teen already holds an open booking   *)
(* of, over whichever plans.                                                *)
NoDoubleBooking ==
    \A k, m \in bookings \ reconciled :
        k.plan.teen = m.plan.teen /\ k.listing = m.listing => k = m

(* Trust in a listing only falls: nothing Discovery or Compliance writes    *)
(* makes an unverified listing verified, and a retired one comes back only  *)
(* where a scan writes its copy over the retirement of an overlapping scan. *)
Trust(l) == CASE ckb[l].verification = "retired"    -> 0
              [] ckb[l].verification = "unverified" -> 1
              [] ckb[l].verification = "verified"   -> 2
Overwrites(s, o, l) ==
    /\ Scanning(s, "update") /\ scan[s].at = l
    /\ l \in scan[o].retired /\ scan[s].copy[l].verification # "retired"
TrustRisesOnlyByOverlap ==
    [][\A l \in Known : Trust(l)' > Trust(l) =>
          Retired(l) /\ \E s, o \in Scan : s # o /\ Overwrites(s, o, l)]_vars

(* A plan is flagged for replanning only over a listing some scan retired.  *)
FlagsAreExplained ==
    \A i \in flagged : \E l \in i.items, s \in Scan : l \in scan[s].retired

(* No live plan holds a retired listing unflagged, outside the moment       *)
(* between the two writes of a retirement, which lasts if the process dies. *)
Retiring(l) == \E s \in Scan : scan[s].pc \in {"flag", "dead"} /\ scan[s].at = l
Exposed(i) == i \in live \ flagged /\ \E l \in i.items : Retired(l) /\ ~Retiring(l)
LivePlansAreFlagged == \A i \in live : ~Exposed(i)

(* What the code does keep of it, whatever scans, replans and approvals     *)
(* overlap: a plan that is live when its listing dies is flagged; only a    *)
(* commit that makes a plan live can leave it with a dead listing.          *)
LivePlansGetFlagged == [][\A i \in live : Exposed(i)' => Exposed(i)]_vars

(* A scan stops at either bound, and it wastes no fetch: a listing it may   *)
(* fetch is left out only if the listings served before it fill its host or *)
(* the scan.  So no listing waits for one that comes after it in id order   *)
(* or that was itself left out.                                             *)
Earlier(S, l)  == {m \in S : Order[m] < Order[l]}
OfHost(S, h)  == {m \in S : Host[m] = h}
HasRoom(S, l) ==
    /\ Cardinality(OfHost(Earlier(S, l), Host[l])) < MaxFetchesPerDomain
    /\ Cardinality(Earlier(S, l)) < MaxListingsPerScan
ServedInTurn(S, copy) ==
    /\ \A l \in DOMAIN copy : l \in S <=> l \in Fetchable(copy) /\ HasRoom(S, l)
    /\ \A l \in S : Cardinality(OfHost(S, Host[l])) <= MaxFetchesPerDomain
    /\ Cardinality(S) <= MaxListingsPerScan
ScansServeInTurn ==
    [][\A s \in Scan : Scanning(s, "idle") /\ Scanning(s, "fetch")'
          => ServedInTurn(scan'[s].todo, ckb)]_vars

(* A request that finds its plan made for a ledger version gone by is not   *)
(* ended by an error.                                                       *)
StaleVersionReplans ==
    [][\A r \in Request :
          /\ At(r, "guardian")
          /\ req[r].candidate.id.version # ledger[req[r].teen].version
          => req'[r].pc # "error"]_vars

(* A commit that took effect is reported as booked: no step of the Broker,  *)
(* the first time or in a later run of the node, of the request that made   *)
(* it or of a second approval of the plan, ends otherwise than with the     *)
(* commit's evidence, unless it finds an item refused by the provider or    *)
(* retired before it asks the store.                                        *)
InBroker(r) == req[r].pc \in {"broker", "broker_commit", "broker_return"}
Committed(r) == InBroker(r) /\ Keys(req[r].approved.id) \subseteq bookings
Refusable(r) ==
    At(r, "broker") /\ \E l \in req[r].approved.id.items : l \in Flaky \/ Retired(l)
Reports(r) == InBroker(r) \/ At(r, "broker_died") \/ req[r].outcome = "booked"
CommitIsReported ==
    [][\A r \in Request : Committed(r) /\ ~Refusable(r) => Reports(r)']_vars

(* The same without the exception, as an exact replay is promised.          *)
ReplayIsReported == [][\A r \in Request : Committed(r) => Reports(r)']_vars

(* A started request reaches an end, whatever the loops it goes through,    *)
(* unless its process dies first.                                           *)
RequestsEnd == \A r \in Request : Running(r) ~> ~Running(r)
=============================================================================
