------------------------------- MODULE Supply -------------------------------
(***************************************************************************)
(* How listings reach the service: captured candidates, the review queue,   *)
(* the shortlist, the reviewers' ledger, the promoted sheet, the built      *)
(* artifact and the runtime knowledge base.  Every script reads the files   *)
(* as they are when it runs and replaces one of its own, at any time and in *)
(* any order, so each file may be older than the one it was made from; a    *)
(* script that fails leaves its file as it was.                             *)
(***************************************************************************)
EXTENDS SeedBuild

CONSTANTS
    Drafts, Posts, Webs,    \* what the draft CSV files, draft_social_candidates.json and
                            \* draft_web_candidates.json may hold: sets of sequences
    Reviews,           \* reviewers' decisions: a set of [id, review]
    NonHuman,          \* NON_HUMAN_REVIEWERS
    Quarantines,       \* what quarantine_listings.json may hold: sequences of fixtures
    Answers,           \* the sets of pages that may be gone at once
    MaxDay, MaxReviews, MaxCaptures   \* bounds

ASSUME SupplyAssumption ==
    /\ MaxDay \in Nat \ {0} /\ MaxReviews \in Nat /\ MaxCaptures \in Nat
    /\ Nobody \in NonHuman
    /\ \A s \in Drafts \cup Posts \cup Webs : s \in Seq(ToSet(s))
    /\ \A x \in Reviews : x = [id |-> x.id, review |-> x.review] /\ x.review.at \in Nat
    /\ \A q \in Quarantines : q \in Seq(ToSet(q)) /\ \A i \in DOMAIN q : q[i].fictional \in BOOLEAN

(* The kind of a row is that of its file (_source_kind, candidate_rows); an   *)
(* id starts with its source's prefix (NLB-, FTP-, SOC-, WEB-) and is          *)
(* compared as a string, for which a number stands; a post's id is a digest   *)
(* of its page, and the fetcher keeps one candidate of a page.                *)
CandidateTyped(c) ==
    /\ {"id", "kind", "url", "regs", "event", "buckets"} \subseteq DOMAIN c
    /\ c.id \in Int /\ IsFiniteSet(c.buckets)

ASSUME CaptureAssumption ==
    /\ \A s \in Drafts : \A i \in DOMAIN s : CandidateTyped(s[i]) /\ s[i].kind \in Draft
    /\ \A s \in Posts : \A i \in DOMAIN s : CandidateTyped(s[i]) /\ s[i].kind = KindOrder[3]
    /\ \A s \in Webs : \A i \in DOMAIN s : CandidateTyped(s[i]) /\ s[i].kind = KindOrder[4]
    /\ \A d \in Drafts, p \in Posts, w \in Webs :
          Ids(d) \cap Ids(p) = {} /\ Ids(d) \cap Ids(w) = {} /\ Ids(p) \cap Ids(w) = {}
    /\ \A s \in Posts : \A i, j \in DOMAIN s : s[i].id = s[j].id => i = j

VARIABLES
    today,
    files,       \* the captured candidates: drafts, social, web
    queue, shortlist,    \* ckb_review_queue.csv, ckb_shortlist.csv
    ledger,      \* ckb_attestations.json: id -> review
    sheet,       \* the rows of seed_ckb.csv
    artifact,    \* seed_ckb.json: its records, and whether the schema was consulted
    ckb,         \* the records of the runtime knowledge base
    attested,    \* every decision ever written to the ledger
    captures     \* captures made so far

vars == <<today, files, queue, shortlist, ledger, sheet, artifact, ckb, attested, captures>>

NoArtifact == [records |-> {}, schema |-> TRUE]
AsOf       == 1..MaxDay     \* --as-of: any day, by default today

SupplyInit ==
    /\ today = 1
    /\ \E d \in Drafts, p \in Posts, w \in Webs : files = [drafts |-> d, social |-> p, web |-> w]
    /\ queue = <<>> /\ shortlist = <<>>
    /\ ledger = <<>> /\ sheet = <<>>
    /\ artifact = NoArtifact /\ ckb = {}
    /\ attested = {} /\ captures = 0

-----------------------------------------------------------------------------
(* A capture replaces one file.  The social fetcher writes whatever it got,  *)
(* nothing when every channel failed.                                       *)
Captured(file, rows) ==
    /\ captures < MaxCaptures
    /\ files' = [files EXCEPT ![file] = rows]
    /\ captures' = captures + 1
    /\ UNCHANGED <<today, queue, shortlist, ledger, sheet, artifact, ckb, attested>>

CaptureDrafts == \E d \in Drafts : Captured("drafts", d)
CaptureWeb    == \E w \in Webs : Captured("web", w)
CaptureSocial == \E p \in Posts : Captured("social", p)

Queue ==
    /\ queue' = BuildQueue(files)
    /\ UNCHANGED <<today, files, shortlist, ledger, sheet, artifact, ckb, attested, captures>>

Select(asOf) ==
    LET rows == LoadCandidates(queue, asOf)
        chosen == SelectAreas(rows)
        selected == chosen \o Supplements(rows, chosen)
    IN  /\ Selectable(rows, chosen)
        /\ shortlist' = [i \in 1..Len(selected) |->
                            [id |-> selected[i].id, url |-> selected[i].url,
                             area |-> selected[i].area]]
        /\ UNCHANGED <<today, files, queue, ledger, sheet, artifact, ckb, attested, captures>>

(* A reviewer records a decision on a shortlisted candidate, or takes one    *)
(* out of the ledger.                                                       *)
Attest(i, x) ==
    /\ shortlist[i].id = x.id
    /\ Cardinality(attested) < MaxReviews
    /\ ledger' = [id \in DOMAIN ledger \cup {x.id} |-> IF id = x.id THEN x.review ELSE ledger[id]]
    /\ attested' = attested \cup {x}
    /\ UNCHANGED <<today, files, queue, shortlist, sheet, artifact, ckb, captures>>

Withdraw(id) ==
    /\ id \in DOMAIN ledger
    /\ ledger' = [j \in DOMAIN ledger \ {id} |-> ledger[j]]
    /\ UNCHANGED <<today, files, queue, shortlist, sheet, artifact, ckb, attested, captures>>

-----------------------------------------------------------------------------
(* promote_ckb_shortlist.py *)

(* Of a file's rows, and of the records the runtime holds.                   *)
DistinctIds(rows)  == \A i, j \in DOMAIN rows : rows[i].id = rows[j].id => i = j
UniqueIds(records) == \A r, q \in records : r.id = q.id => r = q

IsHuman(reviewer) == reviewer \notin NonHuman
Approved == {i \in DOMAIN shortlist : /\ shortlist[i].id \in DOMAIN ledger
                                      /\ ledger[shortlist[i].id].decision = "approve"}

(* The page and the id come from the shortlist, all else from the ledger.    *)
SeedRow(i) ==
    LET a == ledger[shortlist[i].id]
    IN  [id |-> shortlist[i].id, url |-> shortlist[i].url, verified_at |-> a.at,
         verified_by |-> a.by, verification |-> "verified", notes |-> a.notes, facts |-> a.facts]

(* Mutant: a decision about a candidate that is gone is ignored.             *)
UnknownIgnored == TRUE

(* apply_attestations: the ledger names no candidate the shortlist lacks.    *)
NoneUnknown == DOMAIN ledger \subseteq Ids(shortlist)
NoneTwice   == DistinctIds(shortlist)
NonePending ==
    \A i \in DOMAIN shortlist :
        /\ shortlist[i].id \in DOMAIN ledger
        /\ ledger[shortlist[i].id].decision \in {"approve", "reject"}

(* Mutant: whoever signed.                                                   *)
DecisionUnsigned(i, asOf) ==
    LET a == ledger[shortlist[i].id]
    IN  /\ a.decision = "reject"  => a.notes # {} /\ a.at # NoDay
        /\ a.decision = "approve" => RowParses(SeedRow(i), asOf)

DecisionStands(i, asOf) ==
    LET a == ledger[shortlist[i].id]
    IN  /\ IsHuman(a.by)
        /\ a.decision = "reject"  => a.notes # {} /\ a.at # NoDay
        /\ a.decision = "approve" => RowParses(SeedRow(i), asOf)

Promote(asOf) ==
    /\ NoneUnknown /\ NoneTwice /\ NonePending
    /\ \A i \in DOMAIN shortlist : DecisionStands(i, asOf)
    /\ Approved # {}
    /\ sheet' = Those([i \in DOMAIN shortlist |-> SeedRow(i)], Approved)
    /\ UNCHANGED <<today, files, queue, shortlist, ledger, artifact, ckb, attested, captures>>

-----------------------------------------------------------------------------
(* build_ckb.py.  Each option of a run is a choice: --as-of, whether         *)
(* pydantic is installed, --allow-incomplete, and the pages --check-urls     *)
(* finds gone (none when it is not given).                                  *)

SheetRecords(asOf)      == [k \in DOMAIN sheet |-> RecordOf(sheet[k], asOf)]
Records(fixtures, asOf) == SheetRecords(asOf) \o fixtures

(* Mutants: the sheet's rows were validated when they were promoted; ids are *)
(* compared in each source alone.                                           *)
RowsTrusted(fixtures, asOf) ==
    /\ \A i \in DOMAIN fixtures : FixtureParses(fixtures[i])
    /\ DistinctIds(Records(fixtures, asOf))
RowsApart(fixtures, asOf) ==
    /\ \A k \in DOMAIN sheet : RowParses(sheet[k], asOf)
    /\ \A i \in DOMAIN fixtures : FixtureParses(fixtures[i])
    /\ DistinctIds(sheet) /\ DistinctIds(fixtures)

RowsStand(fixtures, asOf) ==
    /\ \A k \in DOMAIN sheet : RowParses(sheet[k], asOf)
    /\ \A i \in DOMAIN fixtures : FixtureParses(fixtures[i])
    /\ DistinctIds(Records(fixtures, asOf))

Build(fixtures, asOf, schema, allowIncomplete, gone) ==
    LET rows == Records(fixtures, asOf)
    IN  /\ sheet # <<>>
        /\ RowsStand(fixtures, asOf)
        /\ DeadLinks(rows, gone) = {}
        /\ schema => \A r \in ToSet(rows) : Conforms(r, today)
        /\ allowIncomplete \/ Complete(rows, asOf)
        /\ artifact' = [records |-> ToSet(rows), schema |-> schema]
        /\ UNCHANGED <<today, files, queue, shortlist, ledger, sheet, ckb, attested, captures>>

-----------------------------------------------------------------------------
(* The service start seeds an empty knowledge base from the artifact, whole  *)
(* or not at all: load_seed_records reads every record before any is used.   *)
Loads(records) == UniqueIds(records) /\ \A r \in records : Conforms(r, today)

(* Mutant: the artifact is taken as it is.                                   *)
StartUnread ==
    /\ artifact # NoArtifact /\ ckb = {}
    /\ ckb' = artifact.records
    /\ UNCHANGED <<today, files, queue, shortlist, ledger, sheet, artifact, attested, captures>>

StartService ==
    /\ artifact # NoArtifact
    /\ ckb = {}
    /\ Loads(artifact.records)
    /\ ckb' = artifact.records
    /\ UNCHANGED <<today, files, queue, shortlist, ledger, sheet, artifact, attested, captures>>

DayPasses ==
    /\ today < MaxDay
    /\ today' = today + 1
    /\ UNCHANGED <<files, queue, shortlist, ledger, sheet, artifact, ckb, attested, captures>>

Curate  == CaptureDrafts \/ CaptureWeb \/ CaptureSocial \/ Queue \/ \E d \in AsOf : Select(d)
Review  == \/ \E i \in DOMAIN shortlist, x \in Reviews : Attest(i, x)
           \/ \E id \in DOMAIN ledger : Withdraw(id)
Publish == \/ \E d \in AsOf : Promote(d)
           \/ \E q \in Quarantines, d \in AsOf, schema, all \in BOOLEAN, gone \in Answers :
                Build(q, d, schema, all, gone)
SupplyNext == Curate \/ Review \/ Publish \/ StartService \/ DayPasses

SupplySpec == SupplyInit /\ [][SupplyNext]_vars

-----------------------------------------------------------------------------
(* Properties *)

(* Deduplication loses no candidate and no evidence: each captured row has    *)
(* exactly one row of its key in the queue, and none of that key says more    *)
(* (build_queue, "Keep the more complete version").                          *)
QueueKeepsBest ==
    LET rows == Combined(files)
        kept == Deduplicate(rows)
    IN  /\ ToSet(kept) \subseteq ToSet(rows)
        /\ \A i \in DOMAIN rows :
              \E k \in DOMAIN kept :
                /\ kept[k].priority >= rows[i].priority
                /\ \A j \in DOMAIN kept : CandidateKey(kept[j]) = CandidateKey(rows[i]) <=> j = k

(* The shortlist depends on what the queue holds and not on the order of its  *)
(* rows, whatever is asked for and as long as ids are distinct: _take_diverse *)
(* ranks by a total order.                                                   *)
SelectionIgnoresOrder ==
    LET rows == LoadCandidates(queue, today)
    IN  Cardinality(Ids(rows)) = Len(rows) =>
            /\ SelectAreas(Reverse(rows)) = SelectAreas(rows)
            /\ TakeDiverse(Reverse(rows), Len(rows), <<>>) = TakeDiverse(rows, Len(rows), <<>>)

(* A written shortlist has every area filled to its quota, more only by a     *)
(* supplement, and every supplement; one id stands twice only for two pages.  *)
ShortlistIsBalanced ==
    shortlist # <<>> =>
        /\ \A a \in TargetAreas :
              /\ Cardinality(InArea(shortlist, a)) >= AreaQuota[a]
              /\ Cardinality({i \in InArea(shortlist, a) : shortlist[i].id \notin SupplementalIds})
                    <= AreaQuota[a]
        /\ SupplementalIds \subseteq Ids(shortlist)
        /\ \A i, j \in DOMAIN shortlist :
              shortlist[i].id = shortlist[j].id /\ shortlist[i].url = shortlist[j].url => i = j

(* Whatever is in the sheet, in the artifact or served as real is what a      *)
(* human approved under that id, with that day and those facts, however many  *)
(* refreshes, rebuilds and ledger edits lie between; and no invented row is   *)
(* ever verified (promote_ckb_shortlist.py: "fails closed").                 *)
Backed(r) ==
    \E h \in attested :
        /\ h.id = r.id /\ h.review.decision = "approve" /\ IsHuman(h.review.by)
        /\ h.review.by = r.verified_by /\ h.review.at = r.verified_at /\ h.review.facts = r.facts

PublishedWasAttested ==
    /\ \A r \in ToSet(sheet) : Backed(r)
    /\ \A r \in artifact.records \cup ckb :
          IF r.fictional THEN r.verification = "unverified" ELSE Backed(r)

(* A promotion is all or nothing: it publishes every approval of the ledger,  *)
(* nothing else, and leaves no shortlisted candidate without a decision, so   *)
(* a refresh that loses a candidate never silently drops its approval.        *)
PromotionIsComplete ==
    [][sheet' # sheet =>
        /\ Ids(sheet') = {id \in DOMAIN ledger : ledger[id].decision = "approve"}
        /\ Ids(shortlist) \subseteq DOMAIN ledger]_vars

(* An id names one row, in each file and in the runtime, although a hand-kept *)
(* source may list a candidate twice and a fixture may use a real row's id.   *)
IdsAreUnique == DistinctIds(sheet) /\ UniqueIds(artifact.records) /\ UniqueIds(ckb)

(* What the service serves satisfies the schema, and an artifact built with   *)
(* the schema installed will always load, on any later day; without it the    *)
(* builder lets an age below 0 pass that the loader then refuses.             *)
OnlyLoadable == Loads(ckb) /\ (artifact.schema => Loads(artifact.records))

(* At its build no published session was past and no review lay ahead,        *)
(* although the sheet was validated on another day than the artifact.         *)
BuiltCurrent ==
    \A r \in artifact.records \cup ckb :
        ~r.fictional => /\ r.verified_at <= r.last_seen
                        /\ r.facts.schedule.kind = "fixed_dates" =>
                              \A d \in r.facts.schedule.dates : d >= r.last_seen
=============================================================================
