------------------------------ MODULE SeedBuild ------------------------------
(***************************************************************************)
(* The builder's judgement (scripts/build_ckb.py) and the schema's          *)
(* (src/schema/listing.py): which sheet rows and which quarantine fixtures  *)
(* are accepted, what record a row becomes, what coverage the artifact      *)
(* has, and what the runtime loader will read.                              *)
(*                                                                          *)
(* A row has its id, page, attribution and notes, and under `facts` what    *)
(* the reviewer confirmed.  A field no parser of the builder accepts is     *)
(* named in `unreadable`; a day stands for a date or a date-time, NoDay for *)
(* none.  Rows and records stand in sequences, as in their files.           *)
(***************************************************************************)
EXTENDS Selection

CONSTANTS
    WebPages,      \* pages with a full http(s) URL
    InvalidPages,  \* those of them under the reserved .invalid TLD
    Vibes,         \* VIBES
    DeepArea,      \* --deep-area
    Gate,          \* the thresholds of coverage()
    Nobody         \* an empty reviewer

NoDay      == 0
AgeFloor   == 13
AgeCeiling == 17

ASSUME SeedBuildAssumption ==
    /\ InvalidPages \subseteq WebPages
    /\ DeepArea \in TargetAreas

ServesTeens(f) == f.age_min <= f.age_max /\ f.age_max >= AgeFloor /\ f.age_min <= AgeCeiling
Attributed(r)  == r.verified_at # NoDay /\ r.verified_by # Nobody
HasVibes(f)    == f.vibes # {} /\ f.vibes \subseteq Vibes

(* What a schedule of each kind must state, to either validator and to the   *)
(* schema.                                                                  *)
ScheduleStates(s) ==
    \/ s.kind = "weekly" /\ s.first % 7 = s.weekday /\ s.duration > 0 /\ s.sessions > 0
    \/ s.kind = "fixed_dates" /\ s.dates # {}
    \/ s.kind = "drop_in" /\ s.noted

(* parse_schedule also refuses a session that is past.                       *)
ScheduleParses(s, asOf) ==
    /\ ScheduleStates(s)
    /\ s.kind = "fixed_dates" => \A d \in s.dates : d >= asOf

RowParses(r, asOf) ==
    /\ r.facts.unreadable = {}
    /\ r.verified_at <= asOf
    /\ r.url \in WebPages
    /\ ServesTeens(r.facts)
    /\ r.verification = "verified" => Attributed(r)
    /\ HasVibes(r.facts)
    /\ ScheduleParses(r.facts.schedule, asOf)

FirstCost(f) == f.one_off + f.equipment

RecordOf(r, asOf) ==
    [id |-> r.id, url |-> r.url, verified_at |-> r.verified_at, verified_by |-> r.verified_by,
     verification |-> r.verification, fictional |-> FALSE,
     freshness |-> IF r.verification = "retired" THEN "dead" ELSE "fresh",
     last_seen |-> asOf, total |-> FirstCost(r.facts), notes |-> r.notes, facts |-> r.facts]

(* validate_quarantine_record: an invented row, visibly so.  Its sessions    *)
(* may be past.                                                             *)
FixtureParses(q) ==
    /\ q.facts.unreadable = {}
    /\ q.fictional
    /\ q.facts.provider_type = "private_unverified"
    /\ q.verification = "unverified" /\ q.freshness = "fresh"
    /\ q.verified_at = NoDay /\ q.verified_by = Nobody
    /\ q.url \in InvalidPages
    /\ q.total = FirstCost(q.facts)
    /\ {q.facts.age_min, q.facts.age_max} \subseteq 0..120
    /\ ServesTeens(q.facts)
    /\ HasVibes(q.facts)
    /\ ScheduleStates(q.facts.schedule)

-----------------------------------------------------------------------------
(* ListingRecord: the schema the builder consults when pydantic is there,    *)
(* and the runtime loader always.  `today` is the clock, not the --as-of.    *)
Conforms(r, today) ==
    /\ r.url \in WebPages
    /\ r.verified_at <= today
    /\ {r.facts.age_min, r.facts.age_max} \subseteq 0..120
    /\ ServesTeens(r.facts)
    /\ HasVibes(r.facts)
    /\ ScheduleStates(r.facts.schedule)
    /\ r.total = FirstCost(r.facts)
    /\ r.verification = "verified" => ~r.fictional /\ Attributed(r)
    /\ r.fictional => /\ r.verification = "unverified"
                      /\ r.facts.provider_type = "private_unverified"
                      /\ r.url \in InvalidPages
    /\ r.verification = "retired" <=> r.freshness = "dead"

-----------------------------------------------------------------------------
(* coverage(): the gaps of a list of records, by the name of their check.    *)

IsFree(r)   == r.facts.one_off = 0 /\ r.facts.recurring = 0 /\ r.facts.equipment = 0
In(rs, a)   == {r \in rs : r.facts.area = a}
Free(rs)    == {r \in rs : IsFree(r)}

(* Python's max: the area of most real rows; of equals, the one whose first  *)
(* row comes first.                                                         *)
RealIn(list, a) == {i \in DOMAIN list : ~list[i].fictional /\ list[i].facts.area = a}
IsDensest(list, areas, a) ==
    \A b \in areas \ {a} :
        \/ Cardinality(RealIn(list, b)) < Cardinality(RealIn(list, a))
        \/ /\ Cardinality(RealIn(list, b)) = Cardinality(RealIn(list, a))
           /\ Min(RealIn(list, a)) < Min(RealIn(list, b))

Covers(check, list, asOf) ==
    LET records == ToSet(list)
        real  == {r \in records : ~r.fictional}
        fake  == records \ real
        deep  == In(real, DeepArea)
        areas == {r.facts.area : r \in real}
    IN CASE check = "volume" -> Cardinality(records) \in Gate.least..Gate.most
         [] check = "areas" ->
                Cardinality(areas) >= Gate.areas /\ deep # {} /\ IsDensest(list, areas, DeepArea)
         [] check = "thin" ->
                \A a \in TargetAreas :
                    Cardinality({r \in Free(In(real, a)) : r.facts.beginner /\ r.facts.alone}) >= Gate.thin
         [] check = "demo" ->
                /\ Cardinality({r \in Free(deep) : r.facts.schedule.evening}) <= Gate.evenings
                /\ Cardinality({r \in Free(deep) : r.facts.schedule.weekend}) >= Gate.weekends
         [] check = "ages" ->
                /\ \E r \in real : r.facts.age_min = AgeFloor
                /\ \E r \in real : r.facts.age_max = AgeCeiling
         [] check = "quarantine" ->
                Cardinality(fake) >= Gate.fixtures /\ \A r \in fake : r.verification = "unverified"
         [] check = "retire" -> \E r \in real : "#demo-retire" \in r.notes
         [] check = "long tail" ->
                real # {} /\ 100 * Cardinality({r \in real : ~r.facts.incumbent}) >= 40 * Cardinality(real)
         [] check = "vibes" -> UNION {r.facts.vibes : r \in deep} = Vibes
         [] check = "providers" ->
                \A t \in DOMAIN Gate.providers :
                    Cardinality({r \in real : r.facts.provider_type = t}) >= Gate.providers[t]
         [] check = "free" -> real # {} /\ 2 * Cardinality(Free(real)) >= Cardinality(real)
         [] check = "fresh" ->
                real # {} /\ \A r \in real : r.verified_at # NoDay => r.verified_at >= asOf - Gate.days

CoverageChecks == {"volume", "areas", "thin", "demo", "ages", "quarantine", "retire",
                   "long tail", "vibes", "providers", "free", "fresh"}

Complete(list, asOf) == \A check \in CoverageChecks : Covers(check, list, asOf)

(* check_urls: a 404 or 410 of a real row's page is a dead link; any other   *)
(* failure is only unchecked.                                               *)
DeadLinks(list, gone) == {r \in ToSet(list) : ~r.fictional /\ r.url \in gone}
=============================================================================
