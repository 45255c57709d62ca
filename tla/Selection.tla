------------------------------ MODULE Selection ------------------------------
(***************************************************************************)
(* Which captured candidates a human is asked to review: the review queue   *)
(* (scripts/build_ckb_review_queue.py) and the shortlist taken from it      *)
(* (scripts/select_ckb_shortlist.py).  Both are pure: files in, file out.   *)
(*                                                                          *)
(* A candidate is a record of what the scripts tell apart: id and kind, the *)
(* normalised page `url`, the set `has` of fields a value was found for,    *)
(* those of its "registration_urls" that lead out of Telegram `regs`, the   *)
(* `event` they register for, the areas that the three look-ups of          *)
(* infer_area return (`named`, `facility`, `channel`), the area hints       *)
(* `areas`, the days `dates` and the numbers `ages` read from its hints,    *)
(* what the text patterns find (`text`, `buckets`) and the reduced title    *)
(* `activity`.                                                              *)
(***************************************************************************)
EXTENDS Integers, FiniteSets, Sequences, SequencesExt

CONSTANTS
    AreaOrder,        \* AREA_QUOTAS in the order of the dict: a sequence of areas
    AreaQuota,        \* AREA_QUOTAS: area -> rows to select
    SourceQuota,      \* SOURCE_QUOTAS: area -> sequence of [kind, quota]
    SupplementalIds,  \* SUPPLEMENTAL_IDS
    UnavailableIds,   \* KNOWN_UNAVAILABLE_IDS
    NoArea            \* infer_area's None

TargetAreas == ToSet(AreaOrder)
KindOrder   == <<"merged_activesg_draft", "merged_nlb_draft",
                 "public_telegram_candidate", "public_web_candidate">>
Draft       == {KindOrder[1], KindOrder[2]}
ReviewFields ==
    {"verified_at", "verified_by", "cost_one_off_sgd", "planning_area", "age_min",
     "age_max", "beginner_friendly", "join_alone_ok", "guest_allowed"}

ASSUME SelectionAssumption ==
    /\ AreaQuota \in [TargetAreas -> Nat]
    /\ AreaOrder \in Seq(TargetAreas)
    /\ \A a \in TargetAreas :
          /\ SourceQuota[a] \in Seq(ToSet(SourceQuota[a]))
          /\ \A i \in DOMAIN SourceQuota[a] : SourceQuota[a][i].quota \in Nat
    /\ NoArea \notin TargetAreas

Points(n, condition) == IF condition THEN n ELSE 0
Ids(rows) == {rows[i].id : i \in DOMAIN rows}

(* Python compares tuples place by place; the keys here are triples.         *)
Exceeds(u, v) ==
    \/ u[1] > v[1]
    \/ u[1] = v[1] /\ u[2] > v[2]
    \/ u[1] = v[1] /\ u[2] = v[2] /\ u[3] > v[3]

(* The rows at some places, in an order of the places (a set of pairs): the  *)
(* k-th of them has k places up to it, itself included.                      *)
Listed(rows, places, order) ==
    LET upTo == [i \in places |-> Cardinality({j \in places : <<j, i>> \in order})]
    IN  [k \in 1..Cardinality(places) |-> rows[CHOOSE i \in places : upTo[i] = k]]

(* Those of the rows that stand at some places, in the order they stand.     *)
Those(rows, places) ==
    LET those[n \in 0..Len(rows)] ==
            IF n = 0 THEN <<>>
            ELSE IF n \in places THEN Append(those[n - 1], rows[n]) ELSE those[n - 1]
    IN  those[Len(rows)]

-----------------------------------------------------------------------------
(* The review queue. *)

DraftPriority(c) ==
    4 + Points(2, {"age_min", "age_max"} \subseteq c.has)
      + Points(2, "postal_code" \in c.has)
      + Points(2, "schedule" \in c.has)
      + Points(1, c.areas \cap TargetAreas # {})
      - Cardinality(ReviewFields \ c.has)

LeadPriority(c) ==
    1 + Points(2, "dates" \in c.has)
      + Points(1, "times" \in c.has)
      + Points(2, "costs" \in c.has)
      + Points(3, "ages" \in c.has)
      + Points(2, "postal_codes" \in c.has)
      + Points(2, c.areas \cap TargetAreas # {})

(* The columns of a row of the queue are its candidate's and the priority.   *)
Priority(c) == IF c.kind \in Draft THEN DraftPriority(c) ELSE LeadPriority(c)
QueueRow(c) ==
    [field \in DOMAIN c \cup {"priority"} |-> IF field = "priority" THEN Priority(c) ELSE c[field]]

(* _candidate_key: web activities may share an evidence page; reposts of    *)
(* one registration link for one event are one candidate.                   *)
CandidateKey(c) ==
    CASE c.kind = "public_web_candidate" -> <<"activity", c.url, c.id>>
      [] c.kind = "public_telegram_candidate" /\ c.regs # <<>> ->
            <<"registration", c.regs[1], c.event>>
      [] OTHER -> <<"page", c.url>>

(* Mutant: the first row of a key is kept.                                   *)
DeduplicateFirst(rows) ==
    FoldLeft(LAMBDA kept, row :
                IF \E i \in DOMAIN kept : CandidateKey(kept[i]) = CandidateKey(row)
                THEN kept ELSE Append(kept, row),
             <<>>, rows)

(* A later row replaces the kept one of its key only with a higher priority, *)
(* and takes its place (a dict keeps the order of first insertion).          *)
Keep(kept, row) ==
    LET same == {i \in DOMAIN kept : CandidateKey(kept[i]) = CandidateKey(row)}
    IN  IF same = {} THEN Append(kept, row)
        ELSE [i \in DOMAIN kept |->
                IF i \in same /\ row.priority > kept[i].priority THEN row ELSE kept[i]]

Deduplicate(rows) ==
    LET kept[n \in 0..Len(rows)] == IF n = 0 THEN <<>> ELSE Keep(kept[n - 1], rows[n])
    IN  kept[Len(rows)]

(* The order of the queue file: priority downwards, then kind, then id; rows *)
(* that the key does not tell apart stay as they stand.                      *)
SortKey(c) == <<- c.priority, CHOOSE k \in DOMAIN KindOrder : KindOrder[k] = c.kind, c.id>>

Ahead(rows, i, j) ==
    \/ Exceeds(SortKey(rows[j]), SortKey(rows[i]))
    \/ SortKey(rows[i]) = SortKey(rows[j]) /\ i <= j

Sorted(rows) ==
    Listed(rows, DOMAIN rows, {x \in (DOMAIN rows) \X (DOMAIN rows) : Ahead(rows, x[1], x[2])})

Combined(files) ==
    LET rows == files.drafts \o files.social \o files.web
    IN  [i \in DOMAIN rows |-> QueueRow(rows[i])]

BuildQueue(files) == Sorted(Deduplicate(Combined(files)))

-----------------------------------------------------------------------------
(* What the selection reads off a queue row. *)

(* infer_area: text, facility and channel in this order, then a single hint. *)
AreaLookups(c) ==
    LET hinted == c.areas \cap TargetAreas
    IN  <<c.named, c.facility, c.channel,
          IF Cardinality(hinted) = 1 THEN CHOOSE a \in hinted : TRUE ELSE NoArea>>
Answered(c)  == {i \in 1..4 : AreaLookups(c)[i] # NoArea}
InferArea(c) == IF Answered(c) = {} THEN NoArea ELSE AreaLookups(c)[Min(Answered(c))]

AgeStated(c)  == c.has \cap {"ages", "age_min", "age_max"} # {}
CostStated(c) ==
    c.has \cap {"costs", "cost_one_off_sgd", "cost_recurring_sgd", "equipment_cost_sgd"} # {}

(* _age_overlaps_target: no number, or "all ages", passes; an open range     *)
(* ("13 and above") has no upper end.                                       *)
AgeOverlapsTarget(c) ==
    \/ c.ages = {} \/ c.text \cap {"all ages", "everyone"} # {}
    \/ Min(c.ages) <= 17 /\ ("open-ended" \in c.text \/ Max(c.ages) >= 13)

(* The disqualifying part of automated_flags; the other flags are only shown. *)
Disqualified(c, asOf) ==
    \/ c.text \cap {"closed", "not a hobby", "outside venue"} # {}
    \/ c.id \in UnavailableIds
    \/ ~AgeOverlapsTarget(c)
    \/ c.dates # {} /\ Max(c.dates) < asOf

CandidateScore(c) ==
    c.priority + (IF c.named # NoArea THEN 5 ELSE 2)
                + Points(3, AgeStated(c)) + Points(2, CostStated(c))
                + Points(1, "registration_urls" \in c.has)

(* The columns of a prepared row that the selection reads.                   *)
Prepared(c) ==
    [id |-> c.id, kind |-> c.kind, url |-> c.url, buckets |-> c.buckets, activity |-> c.activity,
     area |-> InferArea(c), score |-> CandidateScore(c)]

LoadCandidates(queue, asOf) ==
    LET rows == [i \in DOMAIN queue |-> Prepared(queue[i])]
    IN  Those(rows, {i \in DOMAIN queue : /\ InferArea(queue[i]) # NoArea
                                          /\ ~Disqualified(queue[i], asOf)})

-----------------------------------------------------------------------------
(* The selection. *)

CountBucket(rows, b) == Cardinality({i \in DOMAIN rows : b \in rows[i].buckets})

(* Rare hobby buckets first: a point for each of the first five places in a  *)
(* bucket that is still open; then no repeat of an activity within one call, *)
(* then the score, then the id.  `area` is what the area has so far.         *)
Diversity(c, area, chosen) ==
    Cardinality(UNION {{b} \X ((CountBucket(area \o chosen, b) + 1)..5) : b \in c.buckets})
      - 12 * Cardinality({i \in DOMAIN chosen : chosen[i].activity = c.activity})

(* Mutant: no tie-break.                                                     *)
UtilityWithoutId(c, area, chosen) == <<Diversity(c, area, chosen), c.score, 0>>

Utility(c, area, chosen) == <<Diversity(c, area, chosen), c.score, c.id>>

(* Python's max: the first of the rows whose utility no other exceeds.       *)
BestIndex(pool, area, chosen) ==
    LET u == [i \in DOMAIN pool |-> Utility(pool[i], area, chosen)]
    IN  Min({i \in DOMAIN pool : \A j \in DOMAIN pool : ~Exceeds(u[j], u[i])})

(* One turn of the loop: the best row left joins the chosen.                 *)
TakeBest(p, area) ==
    LET i == BestIndex(p.left, area, p.chosen)
    IN  IF p.left = <<>> THEN p
        ELSE [left |-> Those(p.left, DOMAIN p.left \ {i}), chosen |-> Append(p.chosen, p.left[i])]

TakeDiverse(pool, count, area) ==
    LET take[n \in 0..count] ==
            IF n = 0 THEN [left |-> pool, chosen |-> <<>>] ELSE TakeBest(take[n - 1], area)
    IN  take[count].chosen

(* The places of the area's rows that no area has taken.                     *)
Untaken(rows, area, taken) == {i \in DOMAIN rows : rows[i].area = area /\ rows[i].id \notin Ids(taken)}

FromSource(rows, area, before, chosen, q) ==
    LET free == {i \in Untaken(rows, area, before \o chosen) : rows[i].kind = q.kind}
    IN  chosen \o TakeDiverse(Those(rows, free), q.quota, chosen)

(* Whatever is best until the area is full.                                  *)
FillArea(rows, area, before, chosen) ==
    LET short == AreaQuota[area] - Len(chosen)
        free  == Untaken(rows, area, before \o chosen)
    IN  IF short > 0 THEN chosen \o TakeDiverse(Those(rows, free), short, chosen) ELSE chosen

(* The quotas by source, then the rest of the area's quota.                  *)
SelectArea(rows, area, before) ==
    LET quotas == SourceQuota[area]
        bySource[n \in 0..Len(quotas)] ==
            IF n = 0 THEN <<>> ELSE FromSource(rows, area, before, bySource[n - 1], quotas[n])
    IN  FillArea(rows, area, before, bySource[Len(quotas)])

AndArea(rows, before, area) == before \o SelectArea(rows, area, before)

SelectAreas(rows) ==
    LET chosen[n \in 0..Len(AreaOrder)] ==
            IF n = 0 THEN <<>> ELSE AndArea(rows, chosen[n - 1], AreaOrder[n])
    IN  chosen[Len(AreaOrder)]

InArea(rows, area) == {i \in DOMAIN rows : rows[i].area = area}

(* select_shortlist raises ValueError when an area stays short or a          *)
(* supplemental row is missing.                                             *)
Selectable(rows, chosen) ==
    /\ \A a \in TargetAreas : Cardinality(InArea(chosen, a)) = AreaQuota[a]
    /\ SupplementalIds \subseteq Ids(rows)

(* Mutant: a supplement is appended although its area took it.               *)
SupplementsAgain(rows, chosen) ==
    Those(rows, {i \in DOMAIN rows : rows[i].id \in SupplementalIds})

(* Rows of a supplemental id that no area took, by id.                       *)
Supplements(rows, chosen) ==
    LET places == {i \in DOMAIN rows : rows[i].id \in SupplementalIds \ Ids(chosen)}
    IN  Listed(rows, places,
               {x \in places \X places : \/ rows[x[1]].id < rows[x[2]].id
                                         \/ rows[x[1]].id = rows[x[2]].id /\ x[1] <= x[2]})
=============================================================================
