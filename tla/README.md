# Hobbi, specified

TLA+ modules of the Hobbi service (`src/`): an agent pipeline that plans first
sessions of activities for teenagers, has a trusted adult approve them, and
books them against a budget ledger; and the offline chain that brings the listings
there.  TLC checks the modules on small instances; TLAPS proves the safety
properties of the store, the service, the Observer, the intake and the supply chain
for every value of the constants.  Paths below are those of the repository.

## The system

| Component | State it keeps | Operations | Talks to |
|---|---|---|---|
| Personal Data store (`src/store/personal_data.py`) | profiles, consents, access tokens, ledgers, plans, verdicts, grants, bookings, ledger transactions, attendance (SQLite) | setup_profile, save_plan, save_guardian_verdict, issue_plan_approvals, commit_plan_bookings, record_outcome, flag_dead_listing, snapshots | called by everyone; each write is one `BEGIN IMMEDIATE` transaction |
| Knowledge base (`src/ckb/store.py`) | one row per listing (a second SQLite file, autocommit) | seed, upsert_discovered, update_record, all, get | Planner, gates, Guardian, Discovery, Compliance |
| Request graph (`src/graph.py`) | `HobbiState` of a thread, checkpointed after each node | planner, discovery, g2, guardian, broker nodes; invoke, resume | both stores |
| Planner, Guardian, gates (`src/agents`, `src/validation`) | none | create_plan, review, g1..g4 | called by the nodes |
| Discovery (`src/agents/discovery.py`) | none | cached_replay | knowledge base |
| Broker (`src/agents/broker.py`) | none | book | Personal Data |
| Compliance (`src/agents/compliance.py`) | a snapshot held during a scan | scan | both stores, web sources |
| Observer (`src/agents/observer.py`) | preferences in the profile row | observe | Personal Data |
| Intake (`src/intake.py`, `handle` in `src/api.py`) | a token between its storing and the answer | setup: I0, consent, persist; token; graph run | Personal Data, request graph |
| HTTP service (`src/api.py`) | the service singleton | six operations, one thread per HTTP request | all |
| Supply scripts (`scripts/`) | files: captured candidates, review queue, shortlist, attestation ledger, seed sheet, seed artifact | fetch, build queue, select, promote, build | each other's files; operators and reviewers run and edit them by hand |
| Seed loader (`src/ckb/seed_loader.py`) | none | load_seed_records | artifact to knowledge base, at a start with an empty one |

A request is started by `intake_and_plan` (Planner first), by `guardian_approve`
(at G2, with a stored plan) or by `compliance_scan` with `replan_flagged`
(Planner, retired listings excluded).  Nodes call the stores; there is no lock
above a store transaction, so requests, scans and attendance reports of
different HTTP threads interleave between transactions.

What makes it hard: optimistic concurrency on the ledger version; adult grants
bound to one plan while the plan may be replaced; two databases with no common
transaction; a scan that holds a snapshot while others write; loops with
separate and shared budgets; a node that runs again from its start when the
process died before its checkpoint and the thread is resumed, which nothing in the
service does by itself; a setup that can never be repeated, with a
token that is told once; and a chain of files, each of which may be older than the
one it was made from.  `PROJECT.json` lists each hazard at its line.

Correctness, by component:

* store: the ledger equals what the tables account for and stays loadable; one
  commit per version; replays answered; one outcome per booking; one live plan.
* graph: no booking without the grants for that very plan; a reported booking
  exists; refused listings do not come back; loops are capped; requests end;
  the Broker reports a commit it finds made, with two exceptions that are known.
* scan and knowledge base: a plan that is live when its listing dies is flagged,
  and only such plans are; trust in a listing only falls, but for overlapping scans;
  a scan keeps both its bounds and leaves a listing out only for those served before it.
* Observer: an outcome is learned once and as it was recorded; what overlaps may
  lose is known; answers follow the teen's history; weak evidence never moves what
  strong evidence has set.
* intake: a token that was told keeps opening its profile; a profile out of reach
  comes from a failure; consents stay on file; no graph thread runs twice.
* supply: what is published was attested by a human, as published, and was current
  when built; ids are unique; what the builder writes loads; selection does not
  depend on the order of its input.

## Modules

| Module | Models | Notes |
|---|---|---|
| `Listings` | the listing as id, cost, duration | constants and assumptions only |
| `PersonalData` | the store: any caller, any method, any time (`StoreSpec`; `PDSpec` bounds the plans saved) | composed by the modules below |
| `PlanCommitment` | what the store promises, without tables | abstract specification |
| `KnowledgeBase` | listing rows and the two statements of an insert | |
| `Pipeline` | the request graph over both stores | one action per transaction or per read whose value is used later |
| `Compliance` | the scan | |
| `Hobbi` | the service: arrivals, node steps, scans, crashes, attendance | all properties of the whole |
| `Observer` | attendance reports and preference learning over the store | a report is its read and its write |
| `Intake` | setups of concurrent requests up to their answers | stands beside `Hobbi`: its graph step is a whole `Pipeline` run |
| `Selection` | review queue and shortlist as operators on sequences of candidates | pure |
| `SeedBuild` | the builder's, the schema's and the coverage gate's judgement of rows | pure |
| `Supply` | the scripts as steps over their files, reviewers, pages, days, the service start | extends the two above |
| `MCPersonalData`, `MCHobbi`, `MCObserver`, `MCIntake`, `MCSupply` | values for TLC, two later initial states | |
| `WeightLemmas`, `PersonalDataProofs`, `ContractProofs`, `PipelineProofs`, `HobbiProofs`, `ObserverProofs`, `IntakeProofs`, `SupplyProofs` | proofs | |

How state corresponds to code.  A table is a set of rows; `live`, `flagged` and
`reconciled` are the rows whose flag is 1.  `req[r]` is the `HobbiState` of a
thread with a place `pc`; what a node has read and not yet returned (`booked`,
`seen`, `review`, `at`) are its locals and vanish in a crash (`Crash`).  The thread then
stays down (`Died`) until a `Resume`, a step of its own that may come late, after other
requests and scans, or never: `HobbiRuntime.resume` has no caller in the service.  A plan id is a
hash of teen, goal, ledger version and listings in the code, and the record of
teen, version and listings here (a teen's goal does not change after setup);
`binding` is the part of a plan the id does not cover.  `logical_commitment_key`,
`stable_transaction_id` and the booking id are functions of plan and item, so one
`Key` stands for all three.  Grants stand for the ids of
`trusted_adult_approvals`.  A method that raises is a stutter of the store and an
`error` end of the request.

In `Intake`, `profiles[t]` is the setup the row came from, so the list of consents
as it was sent is still there to compare the consent rows with; `access[t]` is the
token whose hash is stored; `held` and `broken` record what callers got and which
teens' intakes failed, for the properties only.  In `Supply` each variable is a file;
a script reads files as they are when it runs and replaces its own at the end, or
fails and leaves it (the code writes to a temporary file and renames it);
the sheet and the lists before it are in file order, since the coverage gate names the
densest area by the row it meets first; `attested` remembers every decision ever written,
also those edited since.

Definitions named as slips or mutants are mutated forms of the definition that follows
them, each a bug the code could plausibly have; no specification uses them.  They
are kept to show that the runs would notice.

Abstractions, all of data:

* money and hours are whole units up to `MaxUnit`; the sum over a set of bookings
  is the number of <<booking, unit>> pairs (`Weight`);
* the Planner's sort is a constant order `Rank` that respects price; interest,
  commitment type and travel only break ties of price in the code;
* static filters (age, travel, schedule, area, provider rules) are a constant
  `Screen[t][l]`;
* a knowledge-base record is its verification, its freshness and whether
  `last_seen_at` moved, since these take part in what the agents branch on or
  in record equality;
* `G2` and the Guardian's review each read two databases and are one step; the
  gap between a review and G3, and between G3 and the commit, is kept;
* `Flaky` is the set of listings the `sandbox_availability` callback of
  `HobbiRuntime` may refuse; the HTTP service passes none, which is `Flaky = {}`;
* in `Observer` a debrief is what its words say (a pause, what they blame, whether
  they are words of dislike), axis values are sixtieths and confidences twentieths,
  so that the constants 0.6, 0.1, 0.75 and 0.05 are whole; dates and providers, which
  only ranking reads, are left out, and so are the three axes no outcome moves;
* the rejection by `no_paid_activities` in Guardian is kept although the Planner
  filters such listings first and rules cannot change after setup;
* in `Intake` tokens are never drawn twice, role tokens are left out (a caller who
  lacks one changes nothing) and the graph run is one step that returns or raises;
* in `Supply` and `Selection` days stand for dates and date-times, a weekday is the
  day modulo 7, evening and weekend flags of a schedule are given; what the text
  patterns find in a candidate is part of the candidate; a fetcher is a capture of
  any of a set of files a run of it may leave; `--check-urls` finds any of a set of
  pages gone; the ledger's `defaults` block and review in the shared spreadsheet are
  left out (they fill in the same fields); the coverage gate's thresholds are the
  constant `Gate`, scaled for TLC (the code asks for 40 to 60 rows, 3 areas, 3 thin
  ones, 2 evenings, 6 weekends and 8 fixtures).

## Runs

| Run | Question | Instance |
|---|---|---|
| `store` | does the store keep its invariants and implement `PlanCommitment` under any callers? | 2 teens, 2 listings, 2 opening ledgers, plans for versions 0 to 2 |
| `requests` | is anything booked without approval, or reported without being booked; do replacements avoid refused listings; do loops stay capped? | a stored plan, 3 requests, 3 listings, partial and full grants, one flaky listing, 1 crash |
| `progress` | does every request end whose process lives, one that is resumed included? | 2 teens, one of them barred from paid activities, 2 requests, 2 replay records, 1 crash, fairness |
| `scan` | does every plan that is live when a listing dies get flagged, are flags explained, when can a retired listing come back, is a commit reported, and whom does a scan leave out? | a stored plan or a booked one, 2 scans, 1 request (approval, replan or replay), 1 outcome, 1 crash |
| `observe` | is every outcome learned once, answered from history and ranked by its evidence? | 1 teen, 3 listings (two sporty, one artistic and chill), 3 reports, 2 kinds of debrief |
| `intake` | who can open a profile, who is locked out, are consents kept, does a thread run twice? | 3 teens, 2 request threads, 10 setups (sound, under age, conflicting, withdrawing), 4 tokens, 1 crash |
| `supply` | is what is served attested, current, unambiguous and loadable, whatever the order of the steps? | 2 areas, 6 candidates on 6 pages in 3 files, 7 reviews, 3 fixture files, 2 days, 1 recapture, 3 decisions |
| `stale`, `race`, `double_booking`, `lost_report`, `resent_report` | where the code departs from what it or a document says | the smallest instance that shows it |

Bounds. `Version`, the versions a plan may carry, and `MaxPlans` bound the arbitrary
callers of `store`; the service needs neither and runs with `Version` the naturals. Two
plans of a teen at each version and a version gap are enough for every conflict
the store distinguishes (same version, past version, replay). Two requests
suffice for a race over one ledger; the third in `requests` is an approval that
arrives late. Three listings are a plan of two and a replacement. Caps of
`src/constants.py` are scaled: `MaxReplans` 1 in `requests`; in `scan` one fetch of a
host and two in all over three listings on two hosts, so that once Discovery has
brought in the third, one is left out for its host and must not count for the last.
`MaxCrashes` 1: a thread that stays down, or a node that is run twice.
`MaxOutcomes` bounds attendance reports. Two scans in `scan` overlap or follow each
other, and one request is the approval or replan between their steps; with a second
request the instance has more than eight million states.  In `intake` two teens
can compete for a thread or a consent id and a third can follow; four tokens are
enough since no teen sets up twice.  In `supply` the candidates differ where the
scripts branch: a duplicate with more on it, a repost, one whose day passes, a
supplement outside the areas, one listed twice by mistake, two of one score, facts the
builder accepts and the schema refuses; one recapture makes any file stale. Three reports in `observe` are the
longest history an answer looks at (three visits), and an overlap of two with a
third between them; two sporty listings let evidence add up and dislikes
corroborate each other. `PlannedInit` and `BookedInit` are the states after an
intake, and after its approval; they are reachable from `Init` and save the runs
the way there (in `BookedInit` a second submission of the approval may already
be at the Broker). Requests are symmetric in runs without
temporal properties, and so are the tokens of `intake`.
Deadlock is not checked: when every request slot is used the instance stops.

Fairness.  `WF` on the steps of a started request: `invoke` is synchronous and a
node never waits for another request.  Arrivals, scans, crashes, resumes and attendance
are not fair: they may never happen.  So `RequestsEnd` promises an end to a request only
as long as its process lives, and again from a resume on.  The other specifications
state safety only.

## What the violation runs show

* `stale`: a plan made for an old ledger version fails G2, but the edge to the
  Guardian is unconditional, and the Guardian raises.  The documents promise a
  replan.
* `race`: a listing retired between the Broker's G3 and the commit leaves a live,
  unflagged plan with a dead listing; later scans skip retired listings.
* `double_booking`: the Planner reads open bookings and ledger over two connections
  (`planner_snapshot`).  A commit between them gives a plan that carries the new
  version and was filtered by the old bookings; every later check accepts it, and
  with its own approval it books a listing the teen already holds.  Three requests
  take part: the approval that commits, a rejected one that plans again meanwhile,
  and the approval of what it planned.
* `lost_report`: after a crash between commit and checkpoint the Broker of the resumed
  thread asks availability before the store, so the replay branch may never be reached
  (`ReplayIsReported`).
* `resent_report`: the action is decided before the store says that the report is a
  replay, from a history to which the event was added again; one no-show sent twice
  is answered with a replan.

`scan` shows the converse of `lost_report`, and `CommitReported` proves it: a Broker that
finds its plan committed, by itself before a crash or by another approval of the plan,
reports it, unless the provider refuses an item or a scan has retired one by the time
the Broker starts (`Refusable`).  The second exception needs no availability callback:
G3 (`broker.py:56`) stands before the store's replay branch too, so a retirement
between commit and resume, or between two submissions of one approval, is enough.
Whether a thread that died is resumed at all is left open.

`scan` also shows the converse of `race`: of all steps only a commit
can leave a live plan with a dead listing unflagged (`LivePlansGetFlagged`), apart
from the listing a dying scan was on (`Retiring`), whose plans stay unflagged since
later scans skip retired listings.

Some losses need an overlap and are stated as such, by properties that pass:

* of two overlapping scans the one with the older copy can bring a retired listing
  back, and nothing else can raise trust (`TrustRisesOnlyByOverlap`);
* of two overlapping attendance reports the later write can take back what the other
  has learned, attendance evidence included, and nothing else can
  (`ForgottenOnlyByOverlap`);
* a profile whose adult holds no token comes from an intake that died, raised or
  lost its answer after the setup (`LockedOutOnlyByFailure`); it stays locked, for
  setup cannot be repeated.

`OnlyLoadable` says what a builder without pydantic costs: its artifact may not load,
but then a service refuses all of it.

Three errors are modelled and stated by no run of their own: `save_plan` refuses a plan
with the items of a stored one and another binding constraint (`PlannerCollides`); of
two Discovery rounds that insert one id the second fails; and a replay record whose
row a scan has rewritten is a collision, no duplicate (both `DiscoveryFails`).
`progress`, which has no scans, shows of the first two that such requests end, not how.
A shortlist decision is keyed by candidate
id: when a recapture moves the page, the facts confirmed on the old page are published
with the new one; `PublishedWasAttested` speaks of id, reviewer, day and facts only.

## Proofs

`PersonalDataProofs` proves, for every finite set of listings, every price table,
every set of teens, every set of balanced opening ledgers and any callers:

    THEOREM StoreInvariant == StoreSpec => []PDInv

and from it one theorem per safety invariant of the `store` run (`StoreTyped`,
`LedgerAccounts`, `LedgerReadable`, `CommitsAreSerial`, `CommitReplays`,
`VersionsCount`, `OutcomesOnce`, `LiveIsLatest`, `BookingsApproved`).  The
assumptions are those declared with the constants: `ListingAssumption`,
`UnitAssumption`, `BoundAssumption`, `OpeningAssumption`.  `StoreSpec` is the store with no
bound on what its callers save; `PDSpec`, which the `store` run explores, allows less
(`FewCallers`), so the theorems hold of it too.

The argument.  No property is inductive alone.  The ledger stays loadable after
an outcome because the booking's money is part of `money_committed`, which is
`LedgerMatchesBookings`; that equation survives a commit because the plan's keys
are new, which needs every committed plan to be booked whole
(`ReplayIsAnswered`); the evidence of old plans survives because a transaction
row always belongs to a booking (`Grounded`) and versions never fall; the live
plan is the latest because each booked version lies below the ledger's
(`OneCommitPerVersion`).  `PDInv` is the conjunction, `Grounded` adds finiteness,
the owner of each plan and the balance of the opening ledger.  There is one lemma
per action (`SetupInv`, `SavePlanInv`, `VerdictInv`, `FlagInv`, `CommitInv`,
`RetireInv`, `OutcomeInv`, `StutterInv`).  `WeightLemmas` proves that `Weight` is additive
from the cardinality theorems, so no recursive sum is needed.

`ContractProofs` proves `StoreImplementsContract` (`StoreSpec => ImplementsContract`):
the ledger versions are the contract's clocks, the booked plans its effects, the
reconciled bookings its settlements.  One lemma per operation maps its step to a step
of `PlanCommitment` or to a stutter; `PDInv` is what excludes a second effect of a
plan and a second settlement of an item.

`PipelineProofs` is about the Planner's greedy pass.  `Selected` says which set the pass
ends with, not how it gets there; `SelectionIsGreedy` shows that such a set exists and is
the only one, so the `CHOOSE` in the model is the loop's result and nothing else.  The
prefixes of the loop are the selections up to a rank, and the induction over them is by
a least counterexample among the naturals (`LeastNat`), since a theorem with an operator
parameter is of no use to the prover.  `FreshPlanPassesG2` shows that a plan fits the
ledger it was made from and passes G2 there: what G2 refuses has been overtaken.
`GreedyUnique` needs that ranks are distinct (`RankAssumption`: Python's sort is total,
with the id last).

`HobbiProofs` proves every property of the runs `requests` and `scan`, for any
teens, listings, requests, scans, seed, replay feed, caps and crashes:

    THEOREM ServiceInvariant == Spec => []HobbiInv

* `ServiceUsesStore` (`Spec => StoreSpec`): every step of the service is one transaction
  of the store or none, so all theorems of the store hold of the service, and
  `ServiceKeepsContract`, the refinement, with them.
* `ServiceIsTyped`, `RefusedStaysOut`, `LoopsStayCapped`, `BookingsStandOnGrants`,
  `BookedIsCommitted` rest on `RequestInv`.  None of them is inductive: that a booking
  stands on grants is decided three steps earlier, when the Guardian reads them, and
  what the request carries since is only as good as its place in the graph says.
  `Placed` states what a request holds at each place, `Approved` that the verdict it
  carries claims only grants that are on file (`Backed`) and that past G3 its plan may
  be booked (`Authorised`), `Looped` what is left of its budgets.  Each operation has a
  lemma that the request it moves lands in a place its fields fit (`Lands`); a request
  that stays is untouched because profiles, plans, bookings, approvals and rows only
  grow (`Grows`).  A rejected request goes back to the Planner with the veto kept, so
  `Placed` asks of every place after the Planner that the candidate avoids it.
* `FlagsExplained`, `LiveGetFlagged`, `TrustRisesByOverlap` rest on `ScanInv`: the copies
  that scans hold agree with the rows, and with one another, except where one of them is
  retired; a listing that a scan still has ahead of it is not retired in its copy, and if
  the row is, another scan has done it.  So a write that raises trust is that of a scan
  whose copy is older than another's retirement, and a row that dies is flagged by the
  scan that wrote it, which is `Retiring` it until then.
* `ScansServe` (`ScansServeInTurn`): `ScanList` takes the listings by counting, host by
  host and then in all; what a scan starts with is the set that the loop's own tests
  serve, counting only what was served before, and it keeps both bounds, whatever rows
  the scan finds.  The first listing that a bound leaves out has the bound's number
  served before it (`FilledFirst`), and the last one served has all others before it
  (`ServedAtMost`), so no induction is needed.

* `CommitReported` rests on `BrokerInv`: the Broker has an approving verdict of the very plan
  it was given (`Vouching`), and such a verdict passes G3 at any later time unless an
  item is retired (`Vouched`).  The point is a provider that the Guardian passed since its
  listing was verified: rows change in between, but no row and no scan's copy of a
  listing once vetted says "unverified" again (`Vetted`), even if a scan writes an older
  copy over a retirement.  So G3, which comes before the store, stops a replay only at
  a retirement (`CommittedPasses`).

Assumptions: `CapAssumption` (a first rejection is permitted), `VersionAssumption`
(versions have no bound), `NoneAssumption`, `BindingAssumption`, `RankAssumption`,
`SeedAssumption`, `ReplayAssumption`, `OrderAssumption` (`ckb.all` reads in the order of
the primary key), `FetchCapAssumption`, all true of `src/constants.py`, of the schema and of
the Planner's sort key.

`ObserverProofs` proves of the Observer, for every set of reports, debriefs, vibes
and chips:

* `ObserverUsesStore` (`ObsSpec => PDSpec`): each of its steps is one call of the
  store or none, which needs that a report under way names an existing booking
  (`ReportsTyped`); every theorem above then holds of the service with its Observer;
* `ObserverTyped`: no axis leaves its range, from lemmas on each operator of the
  learning (`AxesTyped`, `AfterVisitPrefs`, `AfterDebriefPrefs`, `AdaptedPrefs`);
* `LearnsOnce` and `EvidenceIsRanked`: neither property is inductive, because what a
  report writes is computed from what it read earlier, when other reports may have
  written since.  `LearningInv` and `EvidenceInv` state the property of the stored
  preferences and of every copy held by a report under way; a copy stays right since
  outcomes are never removed, and the new event cannot be in it since the store
  records a booking's outcome once.

* `ForgettingIsOverlap` and `AnswersAreRight`: `HistoryInv` adds that the log of a teen
  names each recorded outcome once (`LogInv`, so the turn of a report is fixed), that the
  pauses kept in preferences, stored or read, are those of the outcomes they know
  (`PausesRight`), and that a report under way misses only what was forgotten before it
  read (`ReadInv`).  A report that is recorded forgets exactly the outcomes between its
  read and its own turn (`LearntHistory`).

Its further assumptions are `VibesAssumption`, `ChipsAssumption` and `SaidAssumption`.

`SupplyProofs` proves of the supply chain, for any candidates, pages, reviews, fixture
files, gate and number of days: `PublishedIsAttested`, `IdsStayUnique`,
`ArtifactLoads`, `ArtifactIsCurrent` (all from `SupplyInvariant`), `PromotesAll`,
`QueueIsBest`, and of the shortlist `OrderIsIgnored` and `ShortlistBalanced`.  What the properties say
of the last file rests on every file before it,
so `SupplyInv` adds that each file holds what its readers expect (`ChainTyped`), that each ledger
entry was attested (`LedgerIsAttested`) and that the review days of published rows are numbers
(`DaysAreTyped`).  The promoted sheet holds each approved row of the shortlist once
(`PromotedSheet`); that the shortlist is a list at all comes from `SelectionInvariant` below.
Steps that only move files upstream fall under `CurationKeeps`, ledger edits under
`ReviewKeeps`; promotion, build, start and the passing of a day have a lemma each; a
record that conforms today conforms tomorrow (`ConformsLater`), which is why an artifact
built with the schema keeps loading.  `QueueIsBest` proves `QueueKeepsBest` for captures
of any size: `Kept` says what the loop of `build_queue` has kept of the first n rows, a
pass preserves it (`KeepKeeps`), and the induction over the passes, like the existence of
the recursive function itself (`PassesExist`), is by a least counterexample.

`SelectionInvariant` carries what the selection needs from one file to the next
(`SelectionInv`): the files hold typed candidates, the rows of the queue can be compared
(`QueueTyped`), no two share an id and a page (`OnePerPage`), and the shortlist on file
is balanced.  Loops are functions over their passes that exist for any length
(`LoopRuns`); a filter or a sort only picks rows (`Picked`).  A pass of `_take_diverse`
takes a row that no other exceeds, and the id at the end of the key leaves only one such
row (`OneUnexceeded`), so two orders of one pool give equal picks (`TakeDiverseAlike`),
areas (`SelectAreasAlike`) and shortlists: `OrderIsIgnored`.  `ShortlistBalanced` follows
from the same loops, since each takes only rows not taken before (`Fresh`) and stops at
its quota or with its pool empty.  That no row of the queue repeats an id on a page rests
on the key by which the queue is deduplicated (`SameCandidate`): two rows of one key are
one row, and rows of one id and page have one key.

Assumptions: `SupplyAssumption` (a capture is a sequence of rows), `SeedBuildAssumption`,
`SelectionAssumption` and `CaptureAssumption`.  The last is what the scripts that make the
files keep: a file holds candidates of its own kinds (`_source_kind`, `candidate_rows`);
ids carry the prefix of their kind, so ids of two kinds differ, that of the hand-kept web
file included; and the fetcher of posts keeps one candidate for each page, its id being
a digest of the page.

`IntakeProofs` proves `HeldTokensOpen`, `LockedOutByFailure`, `ConsentsStayOnFile`,
`ThreadsAreRunOnce` and type correctness (`IntakeTyped`) for any teens, threads, setups,
tokens and crashes, from `IntakeInvariant`.  A told token is safe because at most one
intake of a teen is ever under way (`OneIntakePerTeen`) and it holds what is stored
(`RequestHoldsStored`), which in turn needs that a profile is never replaced; a thread
runs once because the profiles' threads differ (`ThreadsApart`) and no request starts a
thread that was started (`StartedByProfile`).  Assumption: `IntakeAssumption`.

Every invariant and action property of the passing runs is a theorem.  Only
model-checked: `RequestsEnd` (liveness under fairness, and with it ENABLED, is beyond the
prover), and the five properties of the violation runs, which do not hold.

## Not modelled, and next

Not modelled: the hosted-model client (`src/runtime`), per-teen hydration of listings,
`ToolGuard`'s static table, role tokens, health report and HTTP framing, HTTP and HTML
parsing in the fetchers, and the simulation (`sim/`), whose harness drives the same
components with synthetic teens and whose counterfactual and report compute statistics
of its traces: no state of its own that a later run reads.  `save_plan` with `live=True`
has no caller under `src/` and is not an action; `commit_booking` and `retire_plan` have
none either, and are actions of `PDSpec` only.

What could follow: live saves beside plan commits, as a second next-state relation of
the store, once a caller saves a plan live; and the simulation's harness as one more
client of `Hobbi`.
