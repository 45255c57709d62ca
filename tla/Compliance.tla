----------------------------- MODULE Compliance -----------------------------
(***************************************************************************)
(* The freshness scan (src/agents/compliance.py): off the request path, it  *)
(* takes one snapshot of the knowledge base, checks each source it may      *)
(* fetch, writes its own copy of the record back, and flags the live plans  *)
(* of a listing it retires.  The knowledge base and Personal Data are two   *)
(* databases, so the two writes of a retirement are two steps.              *)
(***************************************************************************)
EXTENDS PersonalData, KnowledgeBase

CONSTANTS
    Scan,               \* scan requests
    Host,               \* Host[l]: host of the source URL
    Checkable,          \* real listings on an allow-listed domain
    Order,              \* Order[l]: position of l in listing_id order
    MaxFetchesPerDomain, MaxListingsPerScan   \* constants.py

(* ckb.all() reads ORDER BY listing_id, the primary key: no two rows tie.   *)
ASSUME OrderAssumption ==
    /\ Order \in [Listing -> Nat]
    /\ \A l, m \in Listing : Order[l] = Order[m] => l = m
ASSUME FetchCapAssumption == MaxFetchesPerDomain \in Nat /\ MaxListingsPerScan \in Nat

VARIABLE scan     \* scan[s]: progress of scan s

(* replan holds the flagged_plans of the result that still await a replan,  *)
(* one entry per plan and dead listing; thread is the last replan started.  *)
IdleScan == [pc |-> "idle", copy |-> <<>>, todo |-> {}, at |-> 0, write |-> 0,
             retired |-> {}, replan |-> {}, thread |-> 0]

ScanInit == scan = [s \in Scan |-> IdleScan]

(* The listings one scan fetches, from its snapshot: real, not retired, on  *)
(* an allowed domain, at most MaxFetchesPerDomain of a host and             *)
(* MaxListingsPerScan in all, first in listing_id order.                    *)
Fetchable(copy) == {l \in DOMAIN copy : l \in Checkable /\ copy[l].verification # "retired"}
WithinHostCap(copy) ==
    {l \in Fetchable(copy) :
        Cardinality({m \in Fetchable(copy) : Host[m] = Host[l] /\ Order[m] < Order[l]})
            < MaxFetchesPerDomain}
(* A slip: a listing counts against the scan before its host is looked at.  *)
CountedFirst(copy) ==
    {l \in WithinHostCap(copy) :
        Cardinality({m \in Fetchable(copy) : Order[m] < Order[l]}) < MaxListingsPerScan}

ScanList(copy) ==
    {l \in WithinHostCap(copy) :
        Cardinality({m \in WithinHostCap(copy) : Order[m] < Order[l]}) < MaxListingsPerScan}

Scanning(s, place) == scan[s].pc = place
GoScan(s, q) == scan' = [scan EXCEPT ![s] = q]

ScanStarts(s) ==
    /\ Scanning(s, "idle")
    /\ GoScan(s, [IdleScan EXCEPT !.pc = "fetch", !.copy = ckb, !.todo = ScanList(ckb)])
    /\ UNCHANGED <<pdVars, ckb>>

(* A slip: a page that answers is taken for a vetted provider.              *)
RewrittenVetted(rec, status) ==
    CASE status = "alive"     -> [rec EXCEPT !.verification = "verified", !.rechecked = TRUE]
      [] status = "transient" -> [rec EXCEPT !.freshness = "stale"]
      [] status = "missing"   -> [rec EXCEPT !.verification = "retired",
                                             !.freshness = "dead", !.rechecked = TRUE]

(* The record written back is the snapshot's copy with the new verdict on   *)
(* it: last_seen_at moved, or stale, or retired and dead.                   *)
Rewritten(rec, status) ==
    CASE status = "alive"     -> [rec EXCEPT !.rechecked = TRUE]
      [] status = "transient" -> [rec EXCEPT !.freshness = "stale"]
      [] status = "missing"   -> [rec EXCEPT !.verification = "retired",
                                             !.freshness = "dead", !.rechecked = TRUE]

ScanFetches(s, l, status) ==
    LET q == scan[s] IN
    /\ Scanning(s, "fetch")
    /\ l \in q.todo /\ \A m \in q.todo : Order[l] <= Order[m]
    /\ GoScan(s, [q EXCEPT !.pc = "update", !.todo = @ \ {l}, !.at = l,
                           !.write = Rewritten(q.copy[l], status)])
    /\ UNCHANGED <<pdVars, ckb>>

(* A slip: the plans of a retired listing are forgotten.                    *)
ScanUpdatesOnly(s) ==
    LET q == scan[s]
        retires == q.write.verification = "retired" IN
    /\ Scanning(s, "update")
    /\ UpdateRecord(q.at, q.write)
    /\ GoScan(s, [q EXCEPT !.pc = "fetch",
                           !.retired = IF retires THEN @ \cup {q.at} ELSE @])
    /\ UNCHANGED pdVars

ScanUpdates(s) ==
    LET q == scan[s]
        retires == q.write.verification = "retired" IN
    /\ Scanning(s, "update")
    /\ UpdateRecord(q.at, q.write)
    /\ GoScan(s, [q EXCEPT !.pc = IF retires THEN "flag" ELSE "fetch",
                           !.retired = IF retires THEN @ \cup {q.at} ELSE @])
    /\ UNCHANGED pdVars

ScanFlags(s) ==
    LET q == scan[s] IN
    /\ Scanning(s, "flag")
    /\ FlagDeadListing(q.at)
    /\ GoScan(s, [q EXCEPT !.pc = "fetch",
                           !.replan = @ \cup {[plan |-> i, dead |-> q.at] :
                                                i \in {j \in live : q.at \in j.items}}])
    /\ UNCHANGED ckb

ScanEnds(s) ==
    /\ Scanning(s, "fetch") /\ scan[s].todo = {}
    /\ GoScan(s, [scan[s] EXCEPT !.pc = "done", !.copy = <<>>])
    /\ UNCHANGED <<pdVars, ckb>>

(* The process dies: a scan has no checkpoint and is not resumed, nor are   *)
(* the replans it had still to start.                                       *)
ScanDies(s) ==
    /\ \/ scan[s].pc \in {"fetch", "update", "flag"}
       \/ Scanning(s, "done") /\ scan[s].replan # {}
    /\ GoScan(s, [scan[s] EXCEPT !.pc = "dead", !.copy = <<>>, !.replan = {}])
    /\ UNCHANGED <<pdVars, ckb>>

ScanStep(s) ==
    \/ \E l \in scan[s].todo, status \in {"alive", "transient", "missing"} :
          ScanFetches(s, l, status)
    \/ ScanUpdates(s) \/ ScanFlags(s) \/ ScanEnds(s)
=============================================================================
