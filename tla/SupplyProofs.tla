---------------------------- MODULE SupplyProofs ----------------------------
(***************************************************************************)
(* Proofs about the supply chain.  The review queue is a function of the    *)
(* captures; what its loop keeps is followed pass by pass, by a least       *)
(* counterexample among the naturals (LeastNat).  The shortlist is selected *)
(* from the queue by loops of the same kind: each takes a row that no other *)
(* exceeds, and ids leave no tie, so the order of the queue does not show,  *)
(* and quotas and supplements hold.  Every decision in the ledger was once  *)
(* attested, and every published row carries days that can be compared:     *)
(* these two facts ground what is said of published rows, whatever is       *)
(* captured, however often a file is made again, and in whatever order.     *)
(***************************************************************************)
EXTENDS Supply, SequenceTheorems, FiniteSetTheorems, WellFoundedInduction, TLAPS

-----------------------------------------------------------------------------
(* The review queue *)

(* Every non-empty set of naturals has a least element.                     *)
LEMMA LeastNat ==
    ASSUME NEW T \in SUBSET Nat, T # {}
    PROVE  \E n \in T : \A m \in T : n <= m
<1>1. PICK x \in T : \A y \in T : ~ (<<y, x>> \in OpToRel(<, Nat))
  BY NatLessThanWellFounded, WFMin
<1>2. ASSUME NEW y \in T PROVE x <= y
  <2>1. ~ (<<y, x>> \in OpToRel(<, Nat))
    BY <1>1
  <2>2. ~(y < x)
    BY <2>1 DEF OpToRel
  <2> QED BY <2>2
<1> QED BY <1>2

(* The passes of the loop of build_queue over the first n rows.             *)
Passes(kept, rows, n) ==
    /\ DOMAIN kept = 0..n /\ kept[0] = <<>>
    /\ \A m \in 1..n : kept[m] = Keep(kept[m - 1], rows[m])

(* Passes exist for any number of rows: a shortest count without them would *)
(* have passes one shorter, and one more pass can always be made.           *)
LEMMA PassesExist ==
    ASSUME NEW rows, NEW N \in Nat
    PROVE  \E kept : Passes(kept, rows, N)
<1> DEFINE bad == {n \in Nat : ~ \E kept : Passes(kept, rows, n)}
<1>1. SUFFICES ASSUME bad # {} PROVE FALSE
  OBVIOUS
<1>2. PICK n \in bad : \A m \in bad : n <= m
  <2>1. bad \in SUBSET Nat
    OBVIOUS
  <2> HIDE DEF bad
  <2> QED BY <1>1, <2>1, LeastNat
<1>3. n # 0
  <2>1. Passes([m \in 0..0 |-> <<>>], rows, 0)
    BY DEF Passes
  <2> QED BY <2>1
<1>4. n \in Nat /\ n - 1 \in Nat /\ ~(n <= n - 1)
  BY <1>3
<1>5. PICK kept : Passes(kept, rows, n - 1)
  BY <1>2, <1>4
<1>6. PICK more : more = [m \in 0..n |-> IF m = n THEN Keep(kept[n - 1], rows[n]) ELSE kept[m]]
  OBVIOUS
<1>7. Passes(more, rows, n)
  <2>1. DOMAIN more = 0..n /\ more[0] = <<>>
    BY <1>3, <1>4, <1>5, <1>6 DEF Passes
  <2>2. ASSUME NEW m \in 1..n PROVE more[m] = Keep(more[m - 1], rows[m])
    <3>1. m - 1 \in 0..(n - 1) /\ m - 1 # n /\ m - 1 \in 0..n /\ m \in 0..n
      BY <1>4
    <3>2. more[m - 1] = kept[m - 1]
      BY <1>6, <3>1
    <3>3. CASE m = n
      BY <1>6, <3>1, <3>2, <3>3
    <3>4. CASE m # n
      <4>1. m \in 1..(n - 1)
        BY <1>4, <3>4
      <4> QED BY <1>5, <1>6, <3>1, <3>2, <3>4, <4>1 DEF Passes
    <3> QED BY <3>3, <3>4
  <2> QED BY <2>1, <2>2 DEF Passes
<1> QED BY <1>7

(* Deduplicate is what the last pass leaves.                                *)
LEMMA DeduplicatePasses ==
    ASSUME NEW rows, Len(rows) \in Nat
    PROVE  \E kept : Passes(kept, rows, Len(rows)) /\ Deduplicate(rows) = kept[Len(rows)]
<1> DEFINE Loop(f) == f = [n \in 0..Len(rows) |-> IF n = 0 THEN <<>> ELSE Keep(f[n - 1], rows[n])]
<1>1. PICK kept : Passes(kept, rows, Len(rows))
  BY PassesExist
<1>2. PICK f : f = [n \in 0..Len(rows) |-> kept[n]]
  OBVIOUS
<1>3. Loop(f)
  <2>1. ASSUME NEW n \in 0..Len(rows) PROVE f[n] = IF n = 0 THEN <<>> ELSE Keep(f[n - 1], rows[n])
    <3>1. CASE n = 0
      BY <1>1, <1>2, <3>1 DEF Passes
    <3>2. CASE n # 0
      <4>1. n \in 1..Len(rows) /\ n - 1 \in 0..Len(rows)
        BY <3>2
      <4> QED BY <1>1, <1>2, <3>2, <4>1 DEF Passes
    <3> QED BY <3>1, <3>2
  <2> QED BY <1>2, <2>1
<1>4. PICK g : g = CHOOSE h : Loop(h)
  OBVIOUS
<1>5. Loop(g)
  <2> HIDE DEF Loop
  <2> QED BY <1>3, <1>4
<1>6. Passes(g, rows, Len(rows))
  BY <1>5 DEF Passes
<1>7. Deduplicate(rows) = g[Len(rows)]
  BY <1>4 DEF Deduplicate
<1> QED BY <1>6, <1>7

(* What the loop has kept of the first n rows.                              *)
Kept(kept, rows, n) ==
    /\ kept \in Seq(ToSet(rows))
    /\ \A j, k \in DOMAIN kept : CandidateKey(kept[j]) = CandidateKey(kept[k]) => j = k
    /\ \A i \in 1..n : \E k \in DOMAIN kept :
          /\ CandidateKey(kept[k]) = CandidateKey(rows[i])
          /\ kept[k].priority >= rows[i].priority

(* A pass keeps what the passes before it kept: of every key seen, one row   *)
(* that says no less than any row of that key.                              *)
LEMMA KeepKeeps ==
    ASSUME NEW rows, DOMAIN rows = 1..Len(rows), Len(rows) \in Nat,
           \A i \in DOMAIN rows : rows[i].priority \in Int,
           NEW n \in 1..Len(rows), NEW kept, Kept(kept, rows, n - 1)
    PROVE  Kept(Keep(kept, rows[n]), rows, n)
<1>1. PICK row : row = rows[n]
  OBVIOUS
<1>2. PICK R : R = ToSet(rows)
  OBVIOUS
<1>3. row \in R /\ row.priority \in Int /\ \A r \in R : r.priority \in Int
  BY <1>1, <1>2 DEF ToSet
<1>4. /\ kept \in Seq(R) /\ Len(kept) \in Nat /\ DOMAIN kept = 1..Len(kept)
      /\ \A k \in DOMAIN kept : kept[k] \in R
  BY <1>2 DEF Kept
<1>5. PICK same : same = {i \in DOMAIN kept : CandidateKey(kept[i]) = CandidateKey(row)}
  OBVIOUS
<1>6. PICK then : then = Keep(kept, row)
  OBVIOUS
<1>7. CASE same = {}
  <2>1. then = Append(kept, row)
    BY <1>5, <1>6, <1>7 DEF Keep
  <2>2. /\ then \in Seq(R) /\ DOMAIN then = 1..(Len(kept) + 1) /\ then[Len(kept) + 1] = row
        /\ \A k \in 1..Len(kept) : then[k] = kept[k]
    BY <1>3, <1>4, <2>1
  <2>3. ASSUME NEW j \in DOMAIN then, NEW k \in DOMAIN then,
               CandidateKey(then[j]) = CandidateKey(then[k])
        PROVE  j = k
    <3>1. CASE j \in DOMAIN kept /\ k \in DOMAIN kept
      BY <1>4, <2>2, <2>3, <3>1 DEF Kept
    <3>2. CASE j = Len(kept) + 1 \/ k = Len(kept) + 1
      BY <1>4, <1>5, <1>7, <2>2, <2>3, <3>2
    <3> QED BY <1>4, <2>2, <3>1, <3>2
  <2>4. ASSUME NEW i \in 1..n
        PROVE  \E k \in DOMAIN then : /\ CandidateKey(then[k]) = CandidateKey(rows[i])
                                      /\ then[k].priority >= rows[i].priority
    <3>1. CASE i = n
      BY <1>1, <1>3, <1>4, <2>2, <3>1
    <3>2. CASE i # n
      <4>1. i \in 1..(n - 1)
        BY <3>2
      <4>2. PICK k \in DOMAIN kept : /\ CandidateKey(kept[k]) = CandidateKey(rows[i])
                                     /\ kept[k].priority >= rows[i].priority
        BY <4>1 DEF Kept
      <4> QED BY <1>4, <2>2, <4>2
    <3> QED BY <3>1, <3>2
  <2> QED BY <1>1, <1>2, <1>6, <2>2, <2>3, <2>4 DEF Kept
<1>8. CASE same # {}
  <2>1. then = [i \in DOMAIN kept |-> IF i \in same /\ row.priority > kept[i].priority THEN row ELSE kept[i]]
    BY <1>5, <1>6, <1>8 DEF Keep
  <2>2. then \in Seq(R) /\ DOMAIN then = DOMAIN kept
    <3>1. then \in [1..Len(kept) -> R]
      BY <1>3, <1>4, <2>1
    <3> QED BY <1>4, <2>1, <3>1, SeqDef
  <2>3. \A k \in DOMAIN kept : /\ CandidateKey(then[k]) = CandidateKey(kept[k])
                               /\ then[k].priority >= kept[k].priority
                               /\ then[k].priority \in Int /\ kept[k].priority \in Int
    BY <1>3, <1>4, <1>5, <2>1
  <2>4. \A j, k \in DOMAIN then : CandidateKey(then[j]) = CandidateKey(then[k]) => j = k
    BY <2>2, <2>3 DEF Kept
  <2>5. ASSUME NEW i \in 1..n
        PROVE  \E k \in DOMAIN then : /\ CandidateKey(then[k]) = CandidateKey(rows[i])
                                      /\ then[k].priority >= rows[i].priority
    <3>1. rows[i].priority \in Int
      OBVIOUS
    <3>2. CASE i = n
      <4>1. PICK k \in same : TRUE
        BY <1>8
      <4>2. k \in DOMAIN kept /\ CandidateKey(kept[k]) = CandidateKey(row)
        BY <1>5
      <4>3. then[k].priority >= row.priority
        BY <1>3, <2>1, <2>3, <4>1, <4>2
      <4> QED BY <1>1, <2>2, <2>3, <3>2, <4>2, <4>3
    <3>3. CASE i # n
      <4>1. i \in 1..(n - 1)
        BY <3>3
      <4>2. PICK k \in DOMAIN kept : /\ CandidateKey(kept[k]) = CandidateKey(rows[i])
                                     /\ kept[k].priority >= rows[i].priority
        BY <4>1 DEF Kept
      <4> QED BY <2>2, <2>3, <3>1, <4>2
    <3> QED BY <3>2, <3>3
  <2> QED BY <1>1, <1>2, <1>6, <2>2, <2>4, <2>5 DEF Kept
<1> QED BY <1>7, <1>8

(* So does the loop.                                                        *)
LEMMA DeduplicateKeeps ==
    ASSUME NEW rows, DOMAIN rows = 1..Len(rows), Len(rows) \in Nat,
           \A i \in DOMAIN rows : rows[i].priority \in Int
    PROVE  Kept(Deduplicate(rows), rows, Len(rows))
<1>1. PICK kept : Passes(kept, rows, Len(rows)) /\ Deduplicate(rows) = kept[Len(rows)]
  BY DeduplicatePasses
<1> DEFINE bad == {n \in 0..Len(rows) : ~Kept(kept[n], rows, n)}
<1>2. SUFFICES ASSUME bad # {} PROVE FALSE
  BY <1>1
<1>3. PICK n \in bad : \A m \in bad : n <= m
  <2>1. bad \in SUBSET Nat
    OBVIOUS
  <2> HIDE DEF bad
  <2> QED BY <1>2, <2>1, LeastNat
<1>4. n # 0
  <2>1. Kept(<<>>, rows, 0)
    BY EmptySeq DEF Kept
  <2> QED BY <1>1, <2>1 DEF Passes
<1>5. n \in 1..Len(rows) /\ n - 1 \in 0..Len(rows) /\ ~(n <= n - 1)
  BY <1>4
<1>6. Kept(kept[n - 1], rows, n - 1)
  BY <1>3, <1>5
<1>7. Kept(kept[n], rows, n)
  BY <1>1, <1>5, <1>6, KeepKeeps DEF Passes
<1> QED BY <1>7

(* Priorities are numbers: a draft's fields to review are finitely many.     *)
LEMMA PriorityTyped ==
    ASSUME NEW c
    PROVE  QueueRow(c).priority \in Int
<1>1. Cardinality(ReviewFields \ c.has) \in Nat
  <2>1. IsFiniteSet(ReviewFields)
    <3>1. \A x : IsFiniteSet({x})
      BY FS_Singleton
    <3>2. \A U, V : IsFiniteSet(U) /\ IsFiniteSet(V) => IsFiniteSet(U \cup V)
      BY FS_Union
    <3>3. IsFiniteSet({"verified_at"} \cup {"verified_by"} \cup {"cost_one_off_sgd"})
      BY <3>1, <3>2
    <3>4. IsFiniteSet({"planning_area"} \cup {"age_min"} \cup {"age_max"})
      BY <3>1, <3>2
    <3>5. IsFiniteSet({"beginner_friendly"} \cup {"join_alone_ok"} \cup {"guest_allowed"})
      BY <3>1, <3>2
    <3>6. ReviewFields = ({"verified_at"} \cup {"verified_by"} \cup {"cost_one_off_sgd"}) \cup
                         (({"planning_area"} \cup {"age_min"} \cup {"age_max"}) \cup
                          ({"beginner_friendly"} \cup {"join_alone_ok"} \cup {"guest_allowed"}))
      BY DEF ReviewFields
    <3> QED BY <3>2, <3>3, <3>4, <3>5, <3>6
  <2> QED BY <2>1, FS_Subset, FS_CardinalityType
<1>2. \A n \in Nat : \A b : Points(n, b) \in Int
  BY DEF Points
<1>3. DraftPriority(c) \in Int
  BY <1>1, <1>2 DEF DraftPriority
<1>4. LeadPriority(c) \in Int
  BY <1>2 DEF LeadPriority
<1> QED BY <1>3, <1>4 DEF QueueRow, Priority

(* The capture files hold what the captures may write.                       *)
FilesTyped == files \in [drafts : Drafts, social : Posts, web : Webs]

Fetched(c) == c \in ToSet(files.drafts) \/ c \in ToSet(files.social) \/ c \in ToSet(files.web)

(* The rows that build_queue combines are those of the captured files.       *)
LEMMA CombinedRows ==
    ASSUME FilesTyped, NEW all, all = Combined(files)
    PROVE  /\ Len(all) \in Nat /\ DOMAIN all = 1..Len(all)
           /\ \A i \in DOMAIN all : \E c : Fetched(c) /\ all[i] = QueueRow(c)
<1>1. PICK rows, S : /\ rows = files.drafts \o files.social \o files.web
                     /\ S = ToSet(files.drafts) \cup ToSet(files.social) \cup ToSet(files.web)
  OBVIOUS
<1>2. rows \in Seq(S)
  <2>1. /\ files.drafts \in Seq(ToSet(files.drafts)) /\ files.social \in Seq(ToSet(files.social))
        /\ files.web \in Seq(ToSet(files.web))
    BY SupplyAssumption DEF FilesTyped
  <2>2. files.drafts \in Seq(S) /\ files.social \in Seq(S) /\ files.web \in Seq(S)
    BY <1>1, <2>1, SeqMonotonic
  <2> QED BY <1>1, <2>2, ConcatProperties
<1>3. Len(rows) \in Nat /\ DOMAIN rows = 1..Len(rows) /\ \A i \in DOMAIN rows : rows[i] \in S
  BY <1>2, LenProperties
<1>4. all = [i \in DOMAIN rows |-> QueueRow(rows[i])]
  BY <1>1 DEF Combined
<1>5. Len(all) = Len(rows) /\ DOMAIN all = 1..Len(all)
  <2>1. all \in [1..Len(rows) -> ToSet(all)]
    BY <1>3, <1>4 DEF ToSet
  <2>2. all \in Seq(ToSet(all))
    BY <1>3, <2>1, SeqDef
  <2> QED BY <1>3, <1>4, <2>2, LenProperties
<1>6. ASSUME NEW i \in DOMAIN all PROVE \E c : Fetched(c) /\ all[i] = QueueRow(c)
  <2>1. i \in DOMAIN rows /\ all[i] = QueueRow(rows[i])
    BY <1>4
  <2>2. Fetched(rows[i])
    BY <1>1, <1>3, <2>1 DEF Fetched
  <2> QED BY <2>1, <2>2
<1> QED BY <1>3, <1>5, <1>6

(* The queue of such files keeps the best of every key.                      *)
LEMMA QueueKeeps == FilesTyped => QueueKeepsBest
<1> SUFFICES ASSUME FilesTyped PROVE QueueKeepsBest
  OBVIOUS
<1>1. PICK all : all = Combined(files)
  OBVIOUS
<1>2. /\ Len(all) \in Nat /\ DOMAIN all = 1..Len(all)
      /\ \A i \in DOMAIN all : all[i].priority \in Int
  BY <1>1, CombinedRows, PriorityTyped
<1>3. PICK kept : kept = Deduplicate(all)
  OBVIOUS
<1>4. Kept(kept, all, Len(all))
  BY <1>2, <1>3, DeduplicateKeeps
<1>5. ToSet(kept) \subseteq ToSet(all)
  <2>1. kept \in Seq(ToSet(all))
    BY <1>4 DEF Kept
  <2>2. \A k \in DOMAIN kept : kept[k] \in ToSet(all)
    BY <2>1, LenProperties
  <2> QED BY <2>2 DEF ToSet
<1>6. ASSUME NEW i \in DOMAIN all
      PROVE  \E k \in DOMAIN kept :
               /\ kept[k].priority >= all[i].priority
               /\ \A j \in DOMAIN kept : CandidateKey(kept[j]) = CandidateKey(all[i]) <=> j = k
  <2>1. i \in 1..Len(all)
    BY <1>2
  <2>2. PICK k \in DOMAIN kept : /\ CandidateKey(kept[k]) = CandidateKey(all[i])
                                 /\ kept[k].priority >= all[i].priority
    BY <1>4, <2>1 DEF Kept
  <2>3. \A j \in DOMAIN kept : CandidateKey(kept[j]) = CandidateKey(kept[k]) => j = k
    BY <1>4 DEF Kept
  <2> QED BY <2>2, <2>3
<1> QED BY <1>1, <1>3, <1>5, <1>6 DEF QueueKeepsBest

(* The review queue holds, for every captured candidate, exactly one row of   *)
(* its key, and none of that key says more, whatever the captures hold.      *)
THEOREM QueueIsBest == SupplySpec => []QueueKeepsBest
<1>1. SupplyInit => FilesTyped
  BY DEF SupplyInit, FilesTyped
<1>2. FilesTyped /\ [SupplyNext]_vars => FilesTyped'
  <2> SUFFICES ASSUME FilesTyped, [SupplyNext]_vars PROVE FilesTyped'
    OBVIOUS
  <2>1. CASE CaptureDrafts \/ CaptureWeb \/ CaptureSocial
    BY <2>1 DEF CaptureDrafts, CaptureWeb, CaptureSocial, Captured, FilesTyped
  <2>2. CASE UNCHANGED files
    BY <2>2 DEF FilesTyped
  <2> QED BY <2>1, <2>2 DEF vars, SupplyNext, Curate, Review, Publish, Queue, Select, Attest,
          Withdraw, Promote, Build, StartService, DayPasses
<1> QED BY <1>1, <1>2, QueueKeeps, PTL DEF SupplySpec

-----------------------------------------------------------------------------
(* Loops over a sequence *)

(* Counting up from 0.                                                      *)
LEMMA UpTo ==
    ASSUME NEW N \in Nat, NEW G, 0 \in G, \A n \in 1..N : n - 1 \in G => n \in G
    PROVE  \A n \in 0..N : n \in G
<1> DEFINE bad == {n \in 0..N : n \notin G}
<1>1. SUFFICES ASSUME bad # {} PROVE FALSE
  OBVIOUS
<1>2. PICK n \in bad : \A m \in bad : n <= m
  <2>1. bad \in SUBSET Nat
    OBVIOUS
  <2> HIDE DEF bad
  <2> QED BY <1>1, <2>1, LeastNat
<1>3. n # 0
  OBVIOUS
<1>4. n \in 1..N /\ n - 1 \in 0..N /\ ~(n <= n - 1)
  BY <1>3
<1>5. n - 1 \in G
  BY <1>2, <1>4
<1> QED BY <1>4, <1>5

(* A loop whose turns stay among the states S, and a run of n turns of it.   *)
Loops(turn, S, N) == turn \in [S \X (1..N) -> S]
Runs(f, S, start, turn, n) ==
    /\ f \in [0..n -> S] /\ f[0] = start
    /\ \A m \in 1..n : f[m] = turn[<<f[m - 1], m>>]

(* Such a loop runs for any number of turns.                                *)
LEMMA LoopRuns ==
    ASSUME NEW S, NEW start \in S, NEW N \in Nat, NEW turn, Loops(turn, S, N)
    PROVE  \E f : Runs(f, S, start, turn, N)
<1> USE DEF Loops
<1> DEFINE Run(f, n) == /\ f \in [0..n -> S] /\ f[0] = start
                        /\ \A m \in 1..n : f[m] = turn[<<f[m - 1], m>>]
           G == {n \in 0..N : \E f : Run(f, n)}
<1>1. 0 \in G
  <2>1. Run([m \in 0..0 |-> start], 0)
    OBVIOUS
  <2> HIDE DEF Run
  <2> QED BY <2>1
<1>2. ASSUME NEW n \in 1..N, n - 1 \in G PROVE n \in G
  <2>1. PICK f : Run(f, n - 1)
    BY <1>2
  <2>2. n - 1 \in 0..(n - 1) /\ f[n - 1] \in S
    BY <2>1
  <2>3. PICK more : more = [m \in 0..n |-> IF m = n THEN turn[<<f[n - 1], n>>] ELSE f[m]]
    OBVIOUS
  <2>4. more \in [0..n -> S] /\ more[0] = start
    <3>1. turn[<<f[n - 1], n>>] \in S
      BY <2>2
    <3>2. \A m \in 0..n : m # n => m \in 0..(n - 1)
      OBVIOUS
    <3> QED BY <2>1, <2>3, <3>1, <3>2
  <2>5. ASSUME NEW m \in 1..n PROVE more[m] = turn[<<more[m - 1], m>>]
    <3>1. m - 1 \in 0..n /\ m - 1 # n /\ m \in 0..n
      OBVIOUS
    <3>2. more[m - 1] = f[m - 1]
      BY <2>3, <3>1
    <3>3. CASE m = n
      BY <2>3, <3>1, <3>2, <3>3
    <3>4. CASE m # n
      <4>1. m \in 1..(n - 1)
        BY <3>4
      <4> QED BY <2>1, <2>3, <3>1, <3>2, <3>4, <4>1
    <3> QED BY <3>3, <3>4
  <2> QED BY <2>4, <2>5
<1>3. N \in G
  <2> HIDE DEF G
  <2> QED BY <1>1, <1>2, UpTo
<1> QED BY <1>3 DEF Runs

-----------------------------------------------------------------------------
(* Rows picked from a sequence *)

(* s holds the rows at the given places, each once.                         *)
PickedBy(p, s, R, rows, places) ==
    /\ s \in Seq(R) /\ p \in [DOMAIN s -> places]
    /\ \A k \in DOMAIN s : s[k] = rows[p[k]]
    /\ \A k, l \in DOMAIN s : p[k] = p[l] => k = l
    /\ \A i \in places : \E k \in DOMAIN s : p[k] = i

Picked(s, R, rows, places) == \E p : PickedBy(p, s, R, rows, places)

(* One more place of the filter.                                            *)
LEMMA PickedNext ==
    ASSUME NEW R, NEW rows, NEW places, NEW s, Picked(s, R, rows, places),
           NEW i, i \notin places, rows[i] \in R
    PROVE  Picked(Append(s, rows[i]), R, rows, places \cup {i})
<1>0. PICK p : PickedBy(p, s, R, rows, places)
  BY DEF Picked
<1>1. s \in Seq(R) /\ Len(s) \in Nat /\ DOMAIN s = 1..Len(s)
  BY <1>0, LenProperties DEF PickedBy
<1>2. /\ p \in [DOMAIN s -> places]
      /\ \A k \in DOMAIN s : s[k] = rows[p[k]]
      /\ \A k, l \in DOMAIN s : p[k] = p[l] => k = l
      /\ \A j \in places : \E k \in DOMAIN s : p[k] = j
  BY <1>0 DEF PickedBy
<1>3. PICK t : t = Append(s, rows[i])
  OBVIOUS
<1>4. /\ t \in Seq(R) /\ DOMAIN t = 1..(Len(s) + 1) /\ t[Len(s) + 1] = rows[i]
      /\ \A k \in 1..Len(s) : t[k] = s[k]
  <2>1. Len(t) = Len(s) + 1 /\ t \in Seq(R) /\ t[Len(s) + 1] = rows[i] /\ \A k \in 1..Len(s) : t[k] = s[k]
    BY <1>1, <1>3, AppendProperties
  <2> QED BY <2>1, LenProperties
<1>5. PICK q : q = [k \in DOMAIN t |-> IF k = Len(s) + 1 THEN i ELSE p[k]]
  OBVIOUS
<1>6. \A k \in DOMAIN t : k = Len(s) + 1 \/ k \in DOMAIN s
  BY <1>1, <1>4
<1>7. q \in [DOMAIN t -> places \cup {i}]
  BY <1>2, <1>5, <1>6
<1>8. \A k \in DOMAIN t : t[k] = rows[q[k]]
  BY <1>1, <1>2, <1>4, <1>5, <1>6
<1>9. \A k \in DOMAIN s : k \in DOMAIN t /\ q[k] = p[k] /\ q[k] \in places /\ k # Len(s) + 1
  BY <1>1, <1>2, <1>4, <1>5
<1>10. Len(s) + 1 \in DOMAIN t /\ q[Len(s) + 1] = i
  BY <1>1, <1>4, <1>5
<1>11. \A k, l \in DOMAIN t : q[k] = q[l] => k = l
  BY <1>2, <1>6, <1>9, <1>10
<1>12. \A j \in places \cup {i} : \E k \in DOMAIN t : q[k] = j
  BY <1>2, <1>9, <1>10
<1>13. PickedBy(q, t, R, rows, places \cup {i})
  <2>1. PICK P : P = places \cup {i}
    OBVIOUS
  <2>2. q \in [DOMAIN t -> P] /\ \A j \in P : \E k \in DOMAIN t : q[k] = j
    BY <1>7, <1>12, <2>1
  <2>3. PickedBy(q, t, R, rows, P)
    BY <1>4, <1>8, <1>11, <2>2, Zenon DEF PickedBy
  <2> QED BY <2>1, <2>3
<1> QED BY <1>3, <1>13 DEF Picked

(* The filter picks the rows at its places.                                 *)
LEMMA ThosePicked ==
    ASSUME NEW R, NEW rows \in Seq(R), NEW places \in SUBSET DOMAIN rows
    PROVE  Picked(Those(rows, places), R, rows, places)
<1> DEFINE Turn(s, n) == IF n \in places THEN Append(s, rows[n]) ELSE s
           Loop(f) == f = [n \in 0..Len(rows) |->
                              IF n = 0 THEN <<>>
                              ELSE IF n \in places THEN Append(f[n - 1], rows[n]) ELSE f[n - 1]]
<1>1. PICK N : N = Len(rows)
  OBVIOUS
<1>2. N \in Nat /\ DOMAIN rows = 1..N /\ \A n \in 1..N : rows[n] \in R
  BY <1>1, LenProperties
<1>3. PICK turn : turn = [x \in Seq(R) \X (1..N) |-> Turn(x[1], x[2])]
  OBVIOUS
<1>4. turn \in [Seq(R) \X (1..N) -> Seq(R)]
  <2>1. \A s \in Seq(R), n \in 1..N : Turn(s, n) \in Seq(R)
    BY <1>2, AppendProperties
  <2> HIDE DEF Turn
  <2> QED BY <1>3, <2>1
<1>5. <<>> \in Seq(R)
  BY EmptySeq
<1>6. PICK f \in [0..N -> Seq(R)] : f[0] = <<>> /\ \A n \in 1..N : f[n] = turn[<<f[n - 1], n>>]
  <2>1. PICK S : S = Seq(R)
    OBVIOUS
  <2>2. PICK start \in S : start = <<>>
    BY <1>5, <2>1
  <2>3. Loops(turn, S, N)
    BY <1>4, <2>1 DEF Loops
  <2>4. PICK f : Runs(f, S, start, turn, N)
    BY <1>2, <2>3, LoopRuns
  <2> QED BY <2>1, <2>2, <2>4 DEF Runs
<1>7. Loop(f)
  <2>1. \A n \in 1..N : f[n] = Turn(f[n - 1], n)
    <3> SUFFICES ASSUME NEW n \in 1..N PROVE f[n] = Turn(f[n - 1], n)
      OBVIOUS
    <3>1. n - 1 \in 0..N /\ f[n - 1] \in Seq(R)
      BY <1>2
    <3> HIDE DEF Turn
    <3> QED BY <1>3, <1>6, <3>1
  <2>2. \A n \in 0..N : n # 0 => n \in 1..N
    BY <1>2
  <2> QED BY <1>1, <1>6, <2>1, <2>2
<1>8. PICK g : g = CHOOSE h : Loop(h)
  OBVIOUS
<1>9. Loop(g)
  <2> HIDE DEF Loop
  <2> QED BY <1>7, <1>8
<1>10. g[0] = <<>> /\ \A n \in 1..N : g[n] = Turn(g[n - 1], n)
  <2>1. \A n \in 0..N : g[n] = IF n = 0 THEN <<>> ELSE Turn(g[n - 1], n)
    BY <1>1, <1>9
  <2>2. 0 \in 0..N /\ \A n \in 1..N : n \in 0..N /\ n # 0
    BY <1>2
  <2> HIDE DEF Turn
  <2> QED BY <2>1, <2>2
<1>11. Those(rows, places) = g[N]
  BY <1>1, <1>8 DEF Those
<1>12. PICK G : G = {n \in 0..N : Picked(g[n], R, rows, places \cap (1..n))}
  OBVIOUS
<1>13. 0 \in G
  <2>1. places \cap (1..0) = {} /\ DOMAIN (<<>>) = {}
    OBVIOUS
  <2>2. Picked(<<>>, R, rows, {})
    <3>1. <<>> \in [DOMAIN (<<>>) -> {}]
      BY <2>1
    <3>2. PickedBy(<<>>, <<>>, R, rows, {})
      BY <1>5, <2>1, <3>1 DEF PickedBy
    <3> QED BY <3>2 DEF Picked
  <2> QED BY <1>2, <1>10, <1>12, <2>1, <2>2
<1>14. ASSUME NEW n \in 1..N, n - 1 \in G PROVE n \in G
  <2>1. Picked(g[n - 1], R, rows, places \cap (1..(n - 1)))
    BY <1>12, <1>14
  <2>2. n \in 0..N
    BY <1>2
  <2>3. CASE n \in places
    <3>1. places \cap (1..n) = (places \cap (1..(n - 1))) \cup {n} /\ n \notin 1..(n - 1)
      BY <1>2, <2>3
    <3>2. Picked(Append(g[n - 1], rows[n]), R, rows, places \cap (1..n))
      <4>1. PICK old : old = places \cap (1..(n - 1))
        OBVIOUS
      <4>2. n \notin old /\ rows[n] \in R /\ Picked(g[n - 1], R, rows, old)
        BY <1>2, <2>1, <3>1, <4>1
      <4>3. Picked(Append(g[n - 1], rows[n]), R, rows, old \cup {n})
        BY <4>2, PickedNext
      <4> QED BY <3>1, <4>1, <4>3
    <3>3. g[n] = Append(g[n - 1], rows[n])
      BY <1>10, <2>3
    <3> QED BY <1>12, <2>2, <3>2, <3>3
  <2>4. CASE n \notin places
    <3>1. places \cap (1..n) = places \cap (1..(n - 1))
      BY <1>2, <2>4
    <3>2. g[n] = g[n - 1]
      BY <1>10, <2>4
    <3> QED BY <1>12, <2>1, <2>2, <3>1, <3>2
  <2> QED BY <2>3, <2>4
<1>15. N \in G
  <2>1. N \in 0..N
    BY <1>2
  <2> QED BY <1>2, <1>13, <1>14, <2>1, UpTo
<1>16. places \cap (1..N) = places
  BY <1>2
<1> QED BY <1>11, <1>12, <1>15, <1>16

OnePerPage(rows) ==
    \A i, j \in DOMAIN rows : rows[i].id = rows[j].id /\ rows[i].url = rows[j].url => i = j

(* Picking adds no row and repeats none.                                    *)
LEMMA PickedKeeps ==
    ASSUME NEW R, NEW rows, NEW places \in SUBSET DOMAIN rows, NEW s, Picked(s, R, rows, places)
    PROVE  /\ s \in Seq(R) /\ DOMAIN s = 1..Len(s)
           /\ ToSet(s) = {rows[i] : i \in places}
           /\ DistinctIds(rows) => DistinctIds(s)
           /\ OnePerPage(rows) => OnePerPage(s)
<1>1. PICK p : PickedBy(p, s, R, rows, places)
  BY DEF Picked
<1>2. /\ s \in Seq(R) /\ p \in [DOMAIN s -> places]
      /\ \A k \in DOMAIN s : s[k] = rows[p[k]] /\ p[k] \in places /\ p[k] \in DOMAIN rows
      /\ \A k, l \in DOMAIN s : p[k] = p[l] => k = l
      /\ \A i \in places : \E k \in DOMAIN s : p[k] = i
  BY <1>1 DEF PickedBy
<1>3. ToSet(s) = {rows[i] : i \in places}
  <2>1. ASSUME NEW x \in ToSet(s) PROVE x \in {rows[i] : i \in places}
    BY <1>2 DEF ToSet
  <2>2. ASSUME NEW i \in places PROVE rows[i] \in ToSet(s)
    BY <1>2 DEF ToSet
  <2> QED BY <2>1, <2>2
<1>4. DistinctIds(rows) => DistinctIds(s)
  BY <1>2 DEF DistinctIds
<1>5. OnePerPage(rows) => OnePerPage(s)
  BY <1>2 DEF OnePerPage
<1> QED BY <1>2, <1>3, <1>4, <1>5, LenProperties

(* A total order of the places.                                             *)
Orders(order, places) ==
    /\ \A i, j \in places : <<i, j>> \in order \/ <<j, i>> \in order
    /\ \A i, j \in places : <<i, j>> \in order /\ <<j, i>> \in order => i = j
    /\ \A i, j, k \in places : <<i, j>> \in order /\ <<j, k>> \in order => <<i, k>> \in order

(* Under a total order each place has a number of its own, so that a sorted  *)
(* list picks the rows at its places too.                                   *)
LEMMA ListedPicked ==
    ASSUME NEW R, NEW rows \in Seq(R), NEW places \in SUBSET DOMAIN rows,
           NEW order, Orders(order, places)
    PROVE  Picked(Listed(rows, places, order), R, rows, places)
<1> DEFINE UpToIt(i) == {j \in places : <<j, i>> \in order}
<1>1. IsFiniteSet(places) /\ Cardinality(places) \in Nat
  <2>1. Len(rows) \in Nat /\ DOMAIN rows = 1..Len(rows)
    BY LenProperties
  <2>2. IsFiniteSet(1..Len(rows))
    BY <2>1, FS_Interval
  <2> QED BY <2>1, <2>2, FS_Subset, FS_CardinalityType
<1>2. PICK N : N = Cardinality(places)
  OBVIOUS
<1>3. PICK upTo : upTo = [i \in places |-> Cardinality(UpToIt(i))]
  OBVIOUS
<1>4. ASSUME NEW i \in places
      PROVE  /\ UpToIt(i) \subseteq places /\ IsFiniteSet(UpToIt(i)) /\ i \in UpToIt(i)
             /\ upTo[i] = Cardinality(UpToIt(i)) /\ upTo[i] \in 1..N
  <2>1. UpToIt(i) \subseteq places /\ i \in UpToIt(i)
    BY DEF Orders
  <2>2. upTo[i] = Cardinality(UpToIt(i))
    BY <1>3
  <2> HIDE DEF UpToIt
  <2>3. IsFiniteSet(UpToIt(i)) /\ Cardinality(UpToIt(i)) <= N /\ Cardinality(UpToIt(i)) \in Nat
    BY <1>1, <1>2, <2>1, FS_Subset, FS_CardinalityType
  <2>4. Cardinality(UpToIt(i)) # 0
    BY <2>1, <2>3, FS_EmptySet
  <2> QED BY <1>1, <1>2, <2>1, <2>2, <2>3, <2>4
<1>5. ASSUME NEW i \in places, NEW j \in places, upTo[i] = upTo[j], <<i, j>> \in order
      PROVE  i = j
  <2>1. UpToIt(i) \subseteq UpToIt(j)
    BY <1>5 DEF Orders
  <2>2. UpToIt(i) = UpToIt(j)
    <3>1. IsFiniteSet(UpToIt(j)) /\ Cardinality(UpToIt(j)) = Cardinality(UpToIt(i))
      BY <1>4, <1>5
    <3> HIDE DEF UpToIt
    <3> QED BY <2>1, <3>1, FS_Subset
  <2>3. j \in UpToIt(i)
    BY <1>4, <2>2
  <2> QED BY <1>5, <2>3 DEF Orders
<1>6. \A i, j \in places : upTo[i] = upTo[j] => i = j
  BY <1>5 DEF Orders
<1>7. \A k \in 1..N : \E i \in places : upTo[i] = k
  <2>1. upTo \in [places -> 1..N]
    BY <1>3, <1>4
  <2>2. upTo \in Injection(places, 1..N)
    BY <1>6, <2>1 DEF Injection, IsInjective
  <2>3. IsFiniteSet(1..N) /\ Cardinality(1..N) = N
    BY <1>1, <1>2, FS_Interval
  <2>4. upTo \in Surjection(places, 1..N)
    BY <1>2, <2>2, <2>3, FS_Injection
  <2> QED BY <2>4 DEF Surjection
<1>8. PICK p : p = [k \in 1..N |-> CHOOSE i \in places : upTo[i] = k]
  OBVIOUS
<1>9. \A k \in 1..N : p[k] \in places /\ upTo[p[k]] = k
  BY <1>7, <1>8
<1>10. PICK s : s = Listed(rows, places, order)
  OBVIOUS
<1>11. s = [k \in 1..N |-> rows[p[k]]]
  BY <1>2, <1>3, <1>8, <1>10 DEF Listed
<1>12. s \in Seq(R) /\ DOMAIN s = 1..N
  <2>1. N \in Nat /\ \A k \in 1..N : rows[p[k]] \in R
    BY <1>1, <1>2, <1>9, LenProperties
  <2>2. s \in [1..N -> R]
    BY <1>11, <2>1
  <2> QED BY <1>11, <2>1, <2>2, SeqDef
<1>13. PickedBy(p, s, R, rows, places)
  <2>1. p \in [DOMAIN s -> places]
    BY <1>8, <1>9, <1>12
  <2>2. \A k, l \in DOMAIN s : p[k] = p[l] => k = l
    BY <1>9, <1>12
  <2>3. \A i \in places : \E k \in DOMAIN s : p[k] = i
    BY <1>4, <1>6, <1>9, <1>12
  <2> QED BY <1>11, <1>12, <2>1, <2>2, <2>3 DEF PickedBy
<1> QED BY <1>10, <1>13 DEF Picked

-----------------------------------------------------------------------------
(* The best row of a pool *)

(* Rows that _take_diverse can rate.                                        *)
Rated(R) == \A r \in R : r.id \in Int /\ r.score \in Int /\ IsFiniteSet(r.buckets)

Triple(u) == u[1] \in Int /\ u[2] \in Int /\ u[3] \in Int

(* Tuples of numbers are totally ordered.                                   *)
LEMMA ExceedsOrders ==
    ASSUME NEW u, NEW v, NEW w, Triple(u), Triple(v), Triple(w)
    PROVE  /\ ~Exceeds(u, u)
           /\ Exceeds(u, v) => ~Exceeds(v, u)
           /\ Exceeds(u, v) /\ ~Exceeds(w, v) => Exceeds(u, w)
           /\ ~Exceeds(u, v) /\ ~Exceeds(v, u) => u[1] = v[1] /\ u[2] = v[2] /\ u[3] = v[3]
           /\ Exceeds(u, v) /\ Exceeds(v, w) => Exceeds(u, w)
BY DEF Triple, Exceeds

LEMMA FinitePlaces ==
    ASSUME NEW R, NEW s \in Seq(R), NEW T \in SUBSET DOMAIN s
    PROVE  IsFiniteSet(T) /\ Cardinality(T) \in Nat
<1>1. Len(s) \in Nat /\ DOMAIN s = 1..Len(s)
  BY LenProperties
<1>2. IsFiniteSet(1..Len(s))
  BY <1>1, FS_Interval
<1> QED BY <1>1, <1>2, FS_Subset, FS_CardinalityType

(* The rating of a row is a triple of numbers.                              *)
LEMMA UtilityTyped ==
    ASSUME NEW R, Rated(R), NEW c \in R, NEW area \in Seq(R), NEW chosen \in Seq(R)
    PROVE  Triple(Utility(c, area, chosen)) /\ Utility(c, area, chosen)[3] = c.id
<1>1. PICK had : had = area \o chosen
  OBVIOUS
<1>2. had \in Seq(R)
  BY <1>1, ConcatProperties
<1>3. \A b : CountBucket(had, b) \in Nat
  <2> SUFFICES ASSUME NEW b PROVE CountBucket(had, b) \in Nat
    OBVIOUS
  <2>1. {i \in DOMAIN had : b \in had[i].buckets} \in SUBSET DOMAIN had
    OBVIOUS
  <2> QED BY <1>2, <2>1, FinitePlaces DEF CountBucket
<1> DEFINE open == UNION {{b} \X ((CountBucket(had, b) + 1)..5) : b \in c.buckets}
<1>4. Cardinality(open) \in Nat
  <2>1. open \subseteq c.buckets \X (1..5)
    <3> SUFFICES ASSUME NEW b \in c.buckets
                 PROVE  {b} \X ((CountBucket(had, b) + 1)..5) \subseteq c.buckets \X (1..5)
      OBVIOUS
    <3>1. (CountBucket(had, b) + 1)..5 \subseteq 1..5
      BY <1>3
    <3> QED BY <3>1
  <2>2. IsFiniteSet(c.buckets) /\ IsFiniteSet(1..5)
    <3>1. IsFiniteSet(c.buckets)
      BY DEF Rated
    <3>2. 1 \in Int /\ 5 \in Int
      OBVIOUS
    <3> QED BY <3>1, <3>2, FS_Interval
  <2>3. IsFiniteSet(c.buckets \X (1..5))
    BY <2>2, FS_Product
  <2> HIDE DEF open
  <2> QED BY <2>1, <2>3, FS_Subset, FS_CardinalityType
<1>5. Cardinality({i \in DOMAIN chosen : chosen[i].activity = c.activity}) \in Nat
  <2>1. {i \in DOMAIN chosen : chosen[i].activity = c.activity} \in SUBSET DOMAIN chosen
    OBVIOUS
  <2> QED BY <2>1, FinitePlaces
<1>6. Diversity(c, area, chosen) \in Int
  <2>1. Diversity(c, area, chosen) =
            Cardinality(open) - 12 * Cardinality({i \in DOMAIN chosen : chosen[i].activity = c.activity})
    BY <1>1 DEF Diversity
  <2> HIDE DEF open
  <2> QED BY <1>4, <1>5, <2>1
<1>7. c.score \in Int /\ c.id \in Int
  BY DEF Rated
<1> QED BY <1>6, <1>7 DEF Utility, Triple

(* The places of a pool that no row exceeds.                                *)
Unexceeded(pool, area, chosen) ==
    {i \in DOMAIN pool : \A j \in DOMAIN pool :
        ~Exceeds(Utility(pool[j], area, chosen), Utility(pool[i], area, chosen))}

(* Every pool that is not empty has one, and BestIndex is one of them.       *)
LEMMA BestIsUnexceeded ==
    ASSUME NEW R, Rated(R), NEW area \in Seq(R), NEW chosen \in Seq(R),
           NEW pool \in Seq(R), pool # <<>>
    PROVE  BestIndex(pool, area, chosen) \in Unexceeded(pool, area, chosen)
<1>1. Len(pool) \in Nat \ {0} /\ DOMAIN pool = 1..Len(pool) /\ \A i \in DOMAIN pool : pool[i] \in R
  BY EmptySeq, LenProperties
<1>2. PICK N : N = Len(pool)
  OBVIOUS
<1>3. PICK u : u = [i \in DOMAIN pool |-> Utility(pool[i], area, chosen)]
  OBVIOUS
<1>4. \A i \in DOMAIN pool : u[i] = Utility(pool[i], area, chosen) /\ Triple(u[i])
  BY <1>1, <1>3, UtilityTyped
<1>5. PICK G : G = {n \in 0..N : n = 0 \/ \E i \in 1..n : \A j \in 1..n : ~Exceeds(u[j], u[i])}
  OBVIOUS
<1>6. 0 \in G
  BY <1>1, <1>2, <1>5
<1>7. ASSUME NEW n \in 1..N, n - 1 \in G PROVE n \in G
  <2>1. n \in 0..N /\ n \in DOMAIN pool /\ \A i \in 1..n : i \in DOMAIN pool
    BY <1>1, <1>2
  <2>2. \A i \in 1..n : Triple(u[i])
    BY <1>4, <2>1
  <2>3. \A j \in 1..n : j = n \/ j \in 1..(n - 1)
    OBVIOUS
  <2>4. n \in 1..n /\ \A j \in 1..(n - 1) : j \in 1..n
    OBVIOUS
  <2>5. CASE n - 1 = 0
    <3>1. \A j \in 1..n : j = n
      BY <2>5
    <3>2. \A j \in 1..n : ~Exceeds(u[j], u[n])
      BY <2>2, <2>4, <3>1, ExceedsOrders
    <3> QED BY <1>5, <2>1, <2>4, <3>2
  <2>6. CASE n - 1 # 0
    <3>1. PICK i \in 1..(n - 1) : \A j \in 1..(n - 1) : ~Exceeds(u[j], u[i])
      BY <1>5, <1>7, <2>6
    <3>2. CASE Exceeds(u[n], u[i])
      <4>1. ASSUME NEW j \in 1..n PROVE ~Exceeds(u[j], u[n])
        <5>1. CASE j = n
          BY <2>2, <2>4, <5>1, ExceedsOrders
        <5>2. CASE j \in 1..(n - 1)
          <6>1. Exceeds(u[n], u[j])
            BY <2>2, <2>4, <3>1, <3>2, <5>2, ExceedsOrders
          <6> QED BY <2>2, <2>4, <6>1, ExceedsOrders
        <5> QED BY <2>3, <5>1, <5>2
      <4> QED BY <1>5, <2>1, <2>4, <4>1
    <3>3. CASE ~Exceeds(u[n], u[i])
      <4>1. \A j \in 1..n : ~Exceeds(u[j], u[i])
        BY <2>3, <3>1, <3>3
      <4> QED BY <1>5, <2>1, <2>4, <3>1, <4>1
    <3> QED BY <3>2, <3>3
  <2> QED BY <2>5, <2>6
<1>8. N \in G
  <2>1. N \in 0..N /\ N \in Nat
    BY <1>1, <1>2
  <2> QED BY <1>6, <1>7, <2>1, UpTo
<1>9. PICK T : T = {i \in DOMAIN pool : \A j \in DOMAIN pool : ~Exceeds(u[j], u[i])}
  OBVIOUS
<1>10. T # {} /\ T \in SUBSET Nat
  <2>1. PICK i \in 1..N : \A j \in 1..N : ~Exceeds(u[j], u[i])
    BY <1>1, <1>2, <1>5, <1>8
  <2>2. i \in T
    BY <1>1, <1>2, <1>9, <2>1
  <2> QED BY <1>1, <1>9, <2>2
<1>11. BestIndex(pool, area, chosen) = Min(T)
  BY <1>3, <1>9 DEF BestIndex
<1>12. Min(T) \in T
  <2>1. \E n \in T : \A m \in T : n <= m
    BY <1>10, LeastNat
  <2> QED BY <2>1 DEF Min
<1> QED BY <1>4, <1>9, <1>11, <1>12 DEF Unexceeded

-----------------------------------------------------------------------------
(* Taking the best rows of a pool *)

Takings(R) == [left : Seq(R), chosen : Seq(R)]

(* What a turn of _take_diverse does to a pool with rows left.               *)
LEMMA TakeBestTaken ==
    ASSUME NEW R, Rated(R), NEW area \in Seq(R), NEW p \in Takings(R), p.left # <<>>
    PROVE  \E i \in Unexceeded(p.left, area, p.chosen) :
              /\ i \in DOMAIN p.left /\ i = BestIndex(p.left, area, p.chosen)
              /\ TakeBest(p, area).chosen = Append(p.chosen, p.left[i])
              /\ Picked(TakeBest(p, area).left, R, p.left, DOMAIN p.left \ {i})
              /\ TakeBest(p, area) \in Takings(R)
<1>1. p.left \in Seq(R) /\ p.chosen \in Seq(R)
  BY DEF Takings
<1>2. PICK i : i = BestIndex(p.left, area, p.chosen)
  OBVIOUS
<1>3. i \in Unexceeded(p.left, area, p.chosen) /\ i \in DOMAIN p.left
  <2>1. i \in Unexceeded(p.left, area, p.chosen)
    BY <1>1, <1>2, BestIsUnexceeded
  <2> QED BY <2>1 DEF Unexceeded
<1>4. PICK rest : rest = Those(p.left, DOMAIN p.left \ {i})
  OBVIOUS
<1>5. Picked(rest, R, p.left, DOMAIN p.left \ {i})
  BY <1>1, <1>4, ThosePicked
<1>6. TakeBest(p, area) = [left |-> rest, chosen |-> Append(p.chosen, p.left[i])]
  BY <1>2, <1>4 DEF TakeBest
<1>7. rest \in Seq(R)
  BY <1>5 DEF Picked, PickedBy
<1>8. Append(p.chosen, p.left[i]) \in Seq(R)
  <2>1. p.left[i] \in R
    BY <1>1, <1>3, LenProperties
  <2> QED BY <1>1, <2>1, AppendProperties
<1>9. TakeBest(p, area) \in Takings(R)
  BY <1>6, <1>7, <1>8 DEF Takings
<1>10. TakeBest(p, area).chosen = Append(p.chosen, p.left[i]) /\ TakeBest(p, area).left = rest
  BY <1>6
<1> QED BY <1>2, <1>3, <1>5, <1>9, <1>10

LEMMA TakeBestTyped ==
    ASSUME NEW R, Rated(R), NEW area \in Seq(R), NEW p \in Takings(R)
    PROVE  TakeBest(p, area) \in Takings(R)
<1>1. CASE p.left = <<>>
  BY <1>1 DEF TakeBest
<1>2. CASE p.left # <<>>
  BY <1>2, TakeBestTaken
<1> QED BY <1>1, <1>2

(* The turns of _take_diverse.                                              *)
Takes(f, R, pool, area, n) ==
    /\ f \in [0..n -> Takings(R)]
    /\ f[0] = [left |-> pool, chosen |-> <<>>]
    /\ \A m \in 1..n : f[m] = TakeBest(f[m - 1], area)

LEMMA TakeDiverseTakes ==
    ASSUME NEW R, Rated(R), NEW pool \in Seq(R), NEW area \in Seq(R), NEW N \in Nat
    PROVE  \E f : Takes(f, R, pool, area, N) /\ TakeDiverse(pool, N, area) = f[N].chosen
<1> DEFINE Loop(f) == f = [n \in 0..N |-> IF n = 0 THEN [left |-> pool, chosen |-> <<>>]
                                          ELSE TakeBest(f[n - 1], area)]
<1>1. PICK S : S = Takings(R)
  OBVIOUS
<1>2. PICK start : start = [left |-> pool, chosen |-> <<>>]
  OBVIOUS
<1>3. start \in S
  BY <1>1, <1>2, EmptySeq DEF Takings
<1>4. PICK turn : turn = [x \in S \X (1..N) |-> TakeBest(x[1], area)]
  OBVIOUS
<1>5. Loops(turn, S, N)
  <2>1. \A p \in S : TakeBest(p, area) \in S
    BY <1>1, TakeBestTyped
  <2> QED BY <1>4, <2>1 DEF Loops
<1>6. PICK f : Runs(f, S, start, turn, N)
  BY <1>3, <1>5, LoopRuns
<1>7. f \in [0..N -> S] /\ f[0] = start /\ \A n \in 1..N : f[n] = TakeBest(f[n - 1], area)
  <2>1. f \in [0..N -> S] /\ f[0] = start /\ \A n \in 1..N : f[n] = turn[<<f[n - 1], n>>]
    BY <1>6 DEF Runs
  <2>2. ASSUME NEW n \in 1..N PROVE turn[<<f[n - 1], n>>] = TakeBest(f[n - 1], area)
    <3>1. n - 1 \in 0..N /\ f[n - 1] \in S
      BY <2>1
    <3> QED BY <1>4, <3>1
  <2> QED BY <2>1, <2>2
<1>8. Loop(f)
  <2>1. \A n \in 0..N : n # 0 => n \in 1..N
    OBVIOUS
  <2> QED BY <1>2, <1>7, <2>1
<1>9. PICK g : g = CHOOSE h : Loop(h)
  OBVIOUS
<1>10. Loop(g)
  <2> HIDE DEF Loop
  <2> QED BY <1>8, <1>9
<1>11. \A n \in 0..N : g[n] = f[n]
  <2>1. PICK G : G = {n \in 0..N : g[n] = f[n]}
    OBVIOUS
  <2>2. 0 \in G
    BY <1>2, <1>7, <1>10, <2>1
  <2>3. ASSUME NEW n \in 1..N, n - 1 \in G PROVE n \in G
    <3>1. n \in 0..N /\ n # 0
      OBVIOUS
    <3>2. g[n] = TakeBest(g[n - 1], area)
      BY <1>10, <3>1
    <3> QED BY <1>7, <2>1, <2>3, <3>1, <3>2
  <2> QED BY <2>1, <2>2, <2>3, UpTo
<1>12. TakeDiverse(pool, N, area) = g[N].chosen
  BY <1>9 DEF TakeDiverse
<1>13. Takes(f, R, pool, area, N)
  BY <1>1, <1>2, <1>7 DEF Takes
<1> QED BY <1>11, <1>12, <1>13

(* What is taken comes from the pool, each row once.                        *)
TakenApart(p, pool) ==
    /\ ToSet(p.left) \cup ToSet(p.chosen) \subseteq ToSet(pool)
    /\ OnePerPage(pool) =>
          /\ OnePerPage(p.left) /\ OnePerPage(p.chosen)
          /\ \A r \in ToSet(p.left), t \in ToSet(p.chosen) : ~(r.id = t.id /\ r.url = t.url)

LEMMA AppendOne ==
    ASSUME NEW R, NEW s \in Seq(R), NEW x \in R
    PROVE  /\ Append(s, x) \in Seq(R)
           /\ DOMAIN s = 1..Len(s) /\ DOMAIN Append(s, x) = 1..(Len(s) + 1) /\ Len(s) \in Nat
           /\ Append(s, x)[Len(s) + 1] = x
           /\ \A k \in DOMAIN s : Append(s, x)[k] = s[k]
           /\ ToSet(Append(s, x)) = ToSet(s) \cup {x}
<1>1. PICK t : t = Append(s, x)
  OBVIOUS
<1>2. /\ t \in Seq(R) /\ Len(t) = Len(s) + 1 /\ t[Len(s) + 1] = x /\ \A k \in 1..Len(s) : t[k] = s[k]
  BY <1>1, AppendProperties
<1>3. Len(s) \in Nat /\ DOMAIN s = 1..Len(s) /\ DOMAIN t = 1..(Len(s) + 1)
  BY <1>2, LenProperties
<1>4. \A k \in DOMAIN t : k = Len(s) + 1 \/ k \in DOMAIN s
  BY <1>3
<1>5. Len(s) + 1 \in DOMAIN t /\ \A k \in DOMAIN s : k \in DOMAIN t
  BY <1>3
<1>6. ToSet(t) = ToSet(s) \cup {x}
  BY <1>2, <1>3, <1>4, <1>5 DEF ToSet
<1> QED BY <1>1, <1>2, <1>3, <1>6

LEMMA TakeBestApart ==
    ASSUME NEW R, Rated(R), NEW area \in Seq(R), NEW pool, NEW p \in Takings(R), TakenApart(p, pool)
    PROVE  TakenApart(TakeBest(p, area), pool)
<1>1. CASE p.left = <<>>
  BY <1>1 DEF TakeBest
<1>2. CASE p.left # <<>>
  <2>1. PICK q : q = TakeBest(p, area)
    OBVIOUS
  <2>2. PICK i \in DOMAIN p.left :
              /\ q.chosen = Append(p.chosen, p.left[i])
              /\ Picked(q.left, R, p.left, DOMAIN p.left \ {i})
    BY <1>2, <2>1, TakeBestTaken
  <2>3. PICK best : best = p.left[i]
    OBVIOUS
  <2>4. p.left \in Seq(R) /\ p.chosen \in Seq(R) /\ best \in R /\ best \in ToSet(p.left)
    BY <2>2, <2>3, LenProperties DEF Takings, ToSet
  <2>5. /\ ToSet(q.left) = {p.left[j] : j \in DOMAIN p.left \ {i}}
        /\ OnePerPage(p.left) => OnePerPage(q.left)
    BY <2>2, PickedKeeps
  <2>6. PICK t : t = q.chosen
    OBVIOUS
  <2>7. /\ DOMAIN p.chosen = 1..Len(p.chosen) /\ DOMAIN t = 1..(Len(p.chosen) + 1)
        /\ Len(p.chosen) \in Nat /\ t[Len(p.chosen) + 1] = best
        /\ \A k \in DOMAIN p.chosen : t[k] = p.chosen[k]
        /\ ToSet(t) = ToSet(p.chosen) \cup {best}
    BY <2>2, <2>3, <2>4, <2>6, AppendOne
  <2>8. ToSet(q.left) \cup ToSet(q.chosen) \subseteq ToSet(pool)
    <3>1. ToSet(q.left) \subseteq ToSet(p.left)
      BY <2>5 DEF ToSet
    <3> QED BY <2>4, <2>6, <2>7, <3>1 DEF TakenApart
  <2>9. ASSUME OnePerPage(pool)
        PROVE  /\ OnePerPage(q.left) /\ OnePerPage(q.chosen)
               /\ \A r \in ToSet(q.left), c \in ToSet(q.chosen) : ~(r.id = c.id /\ r.url = c.url)
    <3>1. /\ OnePerPage(p.left) /\ OnePerPage(p.chosen)
          /\ \A r \in ToSet(p.left), c \in ToSet(p.chosen) : ~(r.id = c.id /\ r.url = c.url)
      BY <2>9 DEF TakenApart
    <3>2. \A r \in ToSet(q.left) : r \in ToSet(p.left) /\ ~(r.id = best.id /\ r.url = best.url)
      BY <2>2, <2>3, <2>5, <3>1 DEF OnePerPage, ToSet
    <3>3. \A r \in ToSet(q.left), c \in ToSet(q.chosen) : ~(r.id = c.id /\ r.url = c.url)
      BY <2>6, <2>7, <3>1, <3>2
    <3>4. \A k \in DOMAIN p.chosen : ~(p.chosen[k].id = best.id /\ p.chosen[k].url = best.url)
      BY <2>4, <3>1 DEF ToSet
    <3>5. \A k \in DOMAIN t : k = Len(p.chosen) + 1 \/ k \in DOMAIN p.chosen
      BY <2>7
    <3>6. OnePerPage(t)
      BY <2>7, <3>1, <3>4, <3>5 DEF OnePerPage
    <3> QED BY <2>5, <2>6, <3>1, <3>3, <3>6
  <2> QED BY <2>1, <2>8, <2>9 DEF TakenApart
<1> QED BY <1>1, <1>2

LEMMA TakeDiverseApart ==
    ASSUME NEW R, Rated(R), NEW pool \in Seq(R), NEW area \in Seq(R), NEW N \in Nat
    PROVE  /\ TakeDiverse(pool, N, area) \in Seq(R)
           /\ ToSet(TakeDiverse(pool, N, area)) \subseteq ToSet(pool)
           /\ OnePerPage(pool) => OnePerPage(TakeDiverse(pool, N, area))
<1>1. PICK f : Takes(f, R, pool, area, N) /\ TakeDiverse(pool, N, area) = f[N].chosen
  BY TakeDiverseTakes
<1>2. PICK G : G = {n \in 0..N : TakenApart(f[n], pool)}
  OBVIOUS
<1>3. 0 \in G
  <2>1. f[0].left = pool /\ f[0].chosen = <<>>
    BY <1>1 DEF Takes
  <2>2. ToSet(<<>>) = {} /\ OnePerPage(<<>>)
    BY DEF ToSet, OnePerPage
  <2>3. TakenApart(f[0], pool)
    BY <2>1, <2>2 DEF TakenApart
  <2> QED BY <1>2, <2>3
<1>4. ASSUME NEW n \in 1..N, n - 1 \in G PROVE n \in G
  <2>1. n \in 0..N /\ n - 1 \in 0..N /\ f[n - 1] \in Takings(R)
    BY <1>1 DEF Takes
  <2>2. f[n] = TakeBest(f[n - 1], area) /\ TakenApart(f[n - 1], pool)
    BY <1>1, <1>2, <1>4 DEF Takes
  <2>3. TakenApart(f[n], pool)
    BY <2>1, <2>2, TakeBestApart
  <2> QED BY <1>2, <2>1, <2>3
<1>5. N \in 0..N
  OBVIOUS
<1>6. TakenApart(f[N], pool)
  <2>1. N \in G
    BY <1>3, <1>4, <1>5, UpTo
  <2> QED BY <1>2, <2>1
<1>7. f[N].chosen \in Seq(R)
  BY <1>1, <1>5 DEF Takes, Takings
<1> QED BY <1>1, <1>6, <1>7 DEF TakenApart

-----------------------------------------------------------------------------
(* The order of a pool does not show *)

(* The same rows, in whatever order, each with an id of its own.             *)
Alike(p, q, R) ==
    /\ p \in Seq(R) /\ q \in Seq(R)
    /\ DistinctIds(p) /\ DistinctIds(q)
    /\ ToSet(p) = ToSet(q)

(* Ids break every tie.                                                     *)
LEMMA OneUnexceeded ==
    ASSUME NEW R, Rated(R), NEW area \in Seq(R), NEW chosen \in Seq(R),
           NEW pool \in Seq(R), DistinctIds(pool),
           NEW i \in Unexceeded(pool, area, chosen), NEW j \in Unexceeded(pool, area, chosen)
    PROVE  i = j
<1>1. i \in DOMAIN pool /\ j \in DOMAIN pool /\ pool[i] \in R /\ pool[j] \in R
  BY LenProperties DEF Unexceeded
<1>2. PICK u, v : u = Utility(pool[i], area, chosen) /\ v = Utility(pool[j], area, chosen)
  OBVIOUS
<1>3. ~Exceeds(u, v) /\ ~Exceeds(v, u)
  BY <1>1, <1>2 DEF Unexceeded
<1>4. Triple(u) /\ Triple(v) /\ u[3] = pool[i].id /\ v[3] = pool[j].id
  BY <1>1, <1>2, UtilityTyped
<1>5. u[3] = v[3]
  BY <1>3, <1>4, ExceedsOrders
<1> QED BY <1>1, <1>4, <1>5 DEF DistinctIds

(* So the best row of a pool does not depend on the order of its rows.       *)
LEMMA BestAlike ==
    ASSUME NEW R, Rated(R), NEW area \in Seq(R), NEW chosen \in Seq(R),
           NEW p, NEW q, Alike(p, q, R), p # <<>>
    PROVE  /\ q # <<>>
           /\ p[BestIndex(p, area, chosen)] = q[BestIndex(q, area, chosen)]
<1>1. p \in Seq(R) /\ q \in Seq(R) /\ DistinctIds(q) /\ ToSet(p) = ToSet(q)
  BY DEF Alike
<1>2. PICK i : i = BestIndex(p, area, chosen)
  OBVIOUS
<1>3. i \in Unexceeded(p, area, chosen) /\ i \in DOMAIN p
  <2>1. i \in Unexceeded(p, area, chosen)
    BY <1>1, <1>2, BestIsUnexceeded
  <2> QED BY <2>1 DEF Unexceeded
<1>4. PICK j \in DOMAIN q : q[j] = p[i]
  BY <1>1, <1>3 DEF ToSet
<1>5. q # <<>>
  BY <1>4
<1>6. j \in Unexceeded(q, area, chosen)
  <2> SUFFICES ASSUME NEW k \in DOMAIN q
               PROVE  ~Exceeds(Utility(q[k], area, chosen), Utility(q[j], area, chosen))
    BY DEF Unexceeded
  <2>1. PICK l \in DOMAIN p : p[l] = q[k]
    BY <1>1 DEF ToSet
  <2> QED BY <1>3, <1>4, <2>1 DEF Unexceeded
<1>7. BestIndex(q, area, chosen) = j
  <2>1. BestIndex(q, area, chosen) \in Unexceeded(q, area, chosen)
    BY <1>1, <1>5, BestIsUnexceeded
  <2> QED BY <1>1, <1>6, <2>1, OneUnexceeded
<1> QED BY <1>2, <1>4, <1>5, <1>7

(* Picking all but one place leaves all rows but that one.                   *)
LEMMA PickedRest ==
    ASSUME NEW R, NEW p, DistinctIds(p), NEW i \in DOMAIN p,
           NEW s, Picked(s, R, p, DOMAIN p \ {i})
    PROVE  /\ s \in Seq(R) /\ DistinctIds(s)
           /\ \A r : r \in ToSet(s) <=> r \in ToSet(p) /\ r # p[i]
<1>1. PICK q : PickedBy(q, s, R, p, DOMAIN p \ {i})
  BY DEF Picked
<1>2. /\ s \in Seq(R)
      /\ \A k \in DOMAIN s : s[k] = p[q[k]] /\ q[k] \in DOMAIN p /\ q[k] # i
      /\ \A k, l \in DOMAIN s : q[k] = q[l] => k = l
      /\ \A j \in DOMAIN p : j # i => \E k \in DOMAIN s : q[k] = j
  BY <1>1 DEF PickedBy
<1>3. DistinctIds(s)
  BY <1>2 DEF DistinctIds
<1>4. \A j \in DOMAIN p : j # i => p[j] # p[i]
  BY DEF DistinctIds
<1>5. /\ \A r : r \in ToSet(p) <=> \E j \in DOMAIN p : r = p[j]
      /\ \A r : r \in ToSet(s) <=> \E j \in DOMAIN s : r = s[j]
  BY DEF ToSet
<1>6. ASSUME NEW r PROVE r \in ToSet(s) <=> r \in ToSet(p) /\ r # p[i]
  <2>1. ASSUME r \in ToSet(s) PROVE r \in ToSet(p) /\ r # p[i]
    BY <1>2, <1>4, <1>5, <2>1
  <2>2. ASSUME r \in ToSet(p), r # p[i] PROVE r \in ToSet(s)
    <3>1. PICK j \in DOMAIN p : r = p[j] /\ j # i
      BY <1>5, <2>2
    <3> QED BY <1>2, <1>5, <3>1
  <2> QED BY <2>1, <2>2
<1> QED BY <1>2, <1>3, <1>6

TakenAlike(p, q, R) == p \in Takings(R) /\ q \in Takings(R) /\ p.chosen = q.chosen /\ Alike(p.left, q.left, R)

LEMMA TakeBestAlike ==
    ASSUME NEW R, Rated(R), NEW area \in Seq(R), NEW p, NEW q, TakenAlike(p, q, R)
    PROVE  TakenAlike(TakeBest(p, area), TakeBest(q, area), R)
<1>1. /\ p \in Takings(R) /\ q \in Takings(R) /\ p.chosen = q.chosen /\ p.chosen \in Seq(R)
      /\ Alike(p.left, q.left, R)
  BY DEF TakenAlike, Takings
<1>2. CASE p.left = <<>>
  <2>1. q.left = <<>>
    <3> SUFFICES ASSUME q.left # <<>> PROVE FALSE
      OBVIOUS
    <3>1. Alike(q.left, p.left, R)
      BY <1>1 DEF Alike
    <3>2. p.left # <<>>
      BY <1>1, <3>1, BestAlike
    <3> QED BY <1>2, <3>2
  <2> QED BY <1>2, <2>1 DEF TakeBest
<1>3. CASE p.left # <<>>
  <2>1. PICK pl, ql, chosen : pl = p.left /\ ql = q.left /\ chosen = p.chosen
    OBVIOUS
  <2>2. q.left # <<>> /\ pl[BestIndex(pl, area, chosen)] = ql[BestIndex(ql, area, chosen)]
    BY <1>1, <1>3, <2>1, BestAlike
  <2>3. PICK pp, qq : pp = TakeBest(p, area) /\ qq = TakeBest(q, area)
    OBVIOUS
  <2>4. PICK i \in DOMAIN pl : /\ i = BestIndex(pl, area, chosen)
                               /\ pp.chosen = Append(chosen, pl[i])
                               /\ Picked(pp.left, R, pl, DOMAIN pl \ {i})
                               /\ pp \in Takings(R)
    BY <1>1, <1>3, <2>1, <2>3, TakeBestTaken
  <2>5. PICK j \in DOMAIN ql : /\ j = BestIndex(ql, area, chosen)
                               /\ qq.chosen = Append(chosen, ql[j])
                               /\ Picked(qq.left, R, ql, DOMAIN ql \ {j})
                               /\ qq \in Takings(R)
    BY <1>1, <2>1, <2>2, <2>3, TakeBestTaken
  <2>6. pl[i] = ql[j]
    BY <2>2, <2>4, <2>5
  <2>7. pl \in Seq(R) /\ ql \in Seq(R) /\ DistinctIds(pl) /\ DistinctIds(ql) /\ ToSet(pl) = ToSet(ql)
    BY <1>1, <2>1 DEF Alike
  <2>8. PICK sl, tl : sl = pp.left /\ tl = qq.left
    OBVIOUS
  <2>9. sl \in Seq(R) /\ DistinctIds(sl) /\ \A r : r \in ToSet(sl) <=> r \in ToSet(pl) /\ r # pl[i]
    <3>1. Picked(sl, R, pl, DOMAIN pl \ {i})
      BY <2>4, <2>8
    <3> QED BY <2>7, <3>1, PickedRest
  <2>10. tl \in Seq(R) /\ DistinctIds(tl) /\ \A r : r \in ToSet(tl) <=> r \in ToSet(ql) /\ r # ql[j]
    <3>1. Picked(tl, R, ql, DOMAIN ql \ {j})
      BY <2>5, <2>8
    <3> QED BY <2>7, <3>1, PickedRest
  <2>11. ToSet(sl) = ToSet(tl)
    BY <2>6, <2>7, <2>9, <2>10
  <2>12. Alike(sl, tl, R) /\ pp.chosen = qq.chosen
    BY <2>4, <2>5, <2>6, <2>9, <2>10, <2>11 DEF Alike
  <2> QED BY <2>3, <2>4, <2>5, <2>8, <2>12 DEF TakenAlike
<1> QED BY <1>2, <1>3

(* _take_diverse takes the same rows in the same order from any permutation. *)
LEMMA TakeDiverseAlike ==
    ASSUME NEW R, Rated(R), NEW area \in Seq(R), NEW p, NEW q, Alike(p, q, R), NEW N \in Nat
    PROVE  TakeDiverse(p, N, area) = TakeDiverse(q, N, area)
<1>1. p \in Seq(R) /\ q \in Seq(R)
  BY DEF Alike
<1>2. PICK f : Takes(f, R, p, area, N) /\ TakeDiverse(p, N, area) = f[N].chosen
  BY <1>1, TakeDiverseTakes
<1>3. PICK g : Takes(g, R, q, area, N) /\ TakeDiverse(q, N, area) = g[N].chosen
  BY <1>1, TakeDiverseTakes
<1>4. PICK G : G = {n \in 0..N : TakenAlike(f[n], g[n], R)}
  OBVIOUS
<1>5. 0 \in G
  <2>1. 0 \in 0..N
    OBVIOUS
  <2>2. f[0] \in Takings(R) /\ g[0] \in Takings(R)
    BY <1>2, <1>3, <2>1 DEF Takes
  <2>3. f[0].left = p /\ g[0].left = q /\ f[0].chosen = <<>> /\ g[0].chosen = <<>>
    BY <1>2, <1>3 DEF Takes
  <2>4. TakenAlike(f[0], g[0], R)
    BY <2>2, <2>3 DEF TakenAlike
  <2> QED BY <1>4, <2>1, <2>4
<1>6. ASSUME NEW n \in 1..N, n - 1 \in G PROVE n \in G
  <2>1. TakenAlike(f[n - 1], g[n - 1], R)
    BY <1>4, <1>6
  <2>2. f[n] = TakeBest(f[n - 1], area) /\ g[n] = TakeBest(g[n - 1], area)
    BY <1>2, <1>3 DEF Takes
  <2>3. TakenAlike(f[n], g[n], R)
    BY <2>1, <2>2, TakeBestAlike
  <2>4. n \in 0..N
    OBVIOUS
  <2> QED BY <1>4, <2>3, <2>4
<1>7. N \in G
  <2>1. N \in 0..N
    OBVIOUS
  <2> QED BY <1>5, <1>6, <2>1, UpTo
<1> QED BY <1>2, <1>3, <1>4, <1>7 DEF TakenAlike

-----------------------------------------------------------------------------
(* Filling the areas *)

(* One list after another.                                                  *)
LEMMA ConcatSet ==
    ASSUME NEW R, NEW s \in Seq(R), NEW t \in Seq(R), NEW st, st = s \o t
    PROVE  /\ st \in Seq(R) /\ Len(s) \in Nat /\ Len(t) \in Nat /\ Len(st) = Len(s) + Len(t)
           /\ DOMAIN s = 1..Len(s) /\ DOMAIN t = 1..Len(t) /\ DOMAIN st = 1..(Len(s) + Len(t))
           /\ \A k \in DOMAIN s : k \in DOMAIN st /\ st[k] = s[k]
           /\ \A k \in DOMAIN t : Len(s) + k \in DOMAIN st /\ st[Len(s) + k] = t[k]
           /\ \A k \in DOMAIN st : k \notin DOMAIN s => k - Len(s) \in DOMAIN t /\ st[k] = t[k - Len(s)]
           /\ \A r : r \in ToSet(st) <=> r \in ToSet(s) \/ r \in ToSet(t)
           /\ \A x : x \in Ids(st) <=> x \in Ids(s) \/ x \in Ids(t)
<1>1. /\ st \in Seq(R) /\ Len(st) = Len(s) + Len(t)
      /\ \A i \in 1..(Len(s) + Len(t)) : st[i] = IF i <= Len(s) THEN s[i] ELSE t[i - Len(s)]
  BY ConcatProperties
<1>2. /\ Len(s) \in Nat /\ Len(t) \in Nat
      /\ DOMAIN s = 1..Len(s) /\ DOMAIN t = 1..Len(t) /\ DOMAIN st = 1..(Len(s) + Len(t))
  BY <1>1, LenProperties
<1>3. \A k \in DOMAIN s : k \in DOMAIN st /\ st[k] = s[k]
  BY <1>1, <1>2
<1>4. ASSUME NEW k \in DOMAIN t PROVE Len(s) + k \in DOMAIN st /\ st[Len(s) + k] = t[k]
  <2>1. Len(s) + k \in 1..(Len(s) + Len(t)) /\ ~(Len(s) + k <= Len(s)) /\ Len(s) + k - Len(s) = k
    BY <1>2
  <2> QED BY <1>1, <1>2, <2>1
<1>5. ASSUME NEW k \in DOMAIN st, k \notin DOMAIN s
      PROVE  k - Len(s) \in DOMAIN t /\ st[k] = t[k - Len(s)]
  <2>1. k - Len(s) \in 1..Len(t) /\ ~(k <= Len(s))
    BY <1>2, <1>5
  <2> QED BY <1>1, <1>2, <2>1
<1>6. \A r : r \in ToSet(st) <=> r \in ToSet(s) \/ r \in ToSet(t)
  <2>1. /\ \A r : r \in ToSet(st) <=> \E k \in DOMAIN st : r = st[k]
        /\ \A r : r \in ToSet(s) <=> \E k \in DOMAIN s : r = s[k]
        /\ \A r : r \in ToSet(t) <=> \E k \in DOMAIN t : r = t[k]
    BY DEF ToSet
  <2>2. ASSUME NEW r \in ToSet(st) PROVE r \in ToSet(s) \/ r \in ToSet(t)
    <3>1. PICK k \in DOMAIN st : r = st[k]
      BY <2>1
    <3>2. CASE k \in DOMAIN s
      BY <1>3, <2>1, <3>1, <3>2
    <3>3. CASE k \notin DOMAIN s
      BY <1>5, <2>1, <3>1, <3>3
    <3> QED BY <3>2, <3>3
  <2>3. ASSUME NEW r \in ToSet(s) PROVE r \in ToSet(st)
    BY <1>3, <2>1
  <2>4. ASSUME NEW r \in ToSet(t) PROVE r \in ToSet(st)
    <3>1. PICK k \in DOMAIN t : r = t[k]
      BY <2>1
    <3> QED BY <1>4, <2>1, <3>1
  <2> QED BY <2>2, <2>3, <2>4
<1>7. \A x : x \in Ids(st) <=> x \in Ids(s) \/ x \in Ids(t)
  <2>1. /\ \A x : x \in Ids(st) <=> \E k \in DOMAIN st : x = st[k].id
        /\ \A x : x \in Ids(s) <=> \E k \in DOMAIN s : x = s[k].id
        /\ \A x : x \in Ids(t) <=> \E k \in DOMAIN t : x = t[k].id
    BY DEF Ids
  <2>2. ASSUME NEW x \in Ids(st) PROVE x \in Ids(s) \/ x \in Ids(t)
    <3>1. PICK k \in DOMAIN st : x = st[k].id
      BY <2>1
    <3>2. CASE k \in DOMAIN s
      BY <1>3, <2>1, <3>1, <3>2
    <3>3. CASE k \notin DOMAIN s
      BY <1>5, <2>1, <3>1, <3>3
    <3> QED BY <3>2, <3>3
  <2>3. ASSUME NEW x \in Ids(s) PROVE x \in Ids(st)
    BY <1>3, <2>1
  <2>4. ASSUME NEW x \in Ids(t) PROVE x \in Ids(st)
    <3>1. PICK k \in DOMAIN t : x = t[k].id
      BY <2>1
    <3> QED BY <1>4, <2>1, <3>1
  <2> QED BY <2>2, <2>3, <2>4
<1> QED BY <1>1, <1>2, <1>3, <1>4, <1>5, <1>6, <1>7

LEMMA ConcatOnePerPage ==
    ASSUME NEW R, NEW s \in Seq(R), NEW t \in Seq(R), OnePerPage(s), OnePerPage(t),
           \A i \in DOMAIN s, j \in DOMAIN t : s[i].id # t[j].id
    PROVE  OnePerPage(s \o t)
<1>1. PICK st : st = s \o t
  OBVIOUS
<1>2. /\ \A k \in DOMAIN s : st[k] = s[k]
      /\ \A k \in DOMAIN st : k \notin DOMAIN s => k - Len(s) \in DOMAIN t /\ st[k] = t[k - Len(s)]
      /\ \A k \in DOMAIN st : k \in Int /\ Len(s) \in Int
  BY <1>1, ConcatSet
<1>3. ASSUME NEW i \in DOMAIN st, NEW j \in DOMAIN st, st[i].id = st[j].id, st[i].url = st[j].url
      PROVE  i = j
  <2>1. CASE i \in DOMAIN s /\ j \in DOMAIN s
    BY <1>2, <1>3, <2>1 DEF OnePerPage
  <2>2. CASE i \in DOMAIN s /\ j \notin DOMAIN s
    BY <1>2, <1>3, <2>2
  <2>3. CASE i \notin DOMAIN s /\ j \in DOMAIN s
    BY <1>2, <1>3, <2>3
  <2>4. CASE i \notin DOMAIN s /\ j \notin DOMAIN s
    <3>1. PICK k, l : k = i - Len(s) /\ l = j - Len(s)
      OBVIOUS
    <3>2. k \in DOMAIN t /\ l \in DOMAIN t /\ st[i] = t[k] /\ st[j] = t[l]
      BY <1>2, <2>4, <3>1
    <3>3. k = l
      BY <1>3, <3>2 DEF OnePerPage
    <3> QED BY <1>2, <3>1, <3>3
  <2> QED BY <2>1, <2>2, <2>3, <2>4
<1> QED BY <1>1, <1>3 DEF OnePerPage

(* Rows of the pool that are not among those taken before.                  *)
Fresh(s, R, rows, before) ==
    /\ s \in Seq(R)
    /\ \A r \in ToSet(s) : r \in ToSet(rows) /\ r.id \notin Ids(before)
    /\ OnePerPage(rows) => OnePerPage(s)

LEMMA PoolFresh ==
    ASSUME NEW R, NEW rows \in Seq(R), NEW before, NEW free \in SUBSET DOMAIN rows,
           \A i \in free : rows[i].id \notin Ids(before)
    PROVE  Fresh(Those(rows, free), R, rows, before)
<1>1. PICK s : s = Those(rows, free)
  OBVIOUS
<1>2. PICK p : PickedBy(p, s, R, rows, free)
  <2>1. Picked(s, R, rows, free)
    BY <1>1, ThosePicked
  <2> QED BY <2>1 DEF Picked
<1>3. /\ s \in Seq(R)
      /\ \A k \in DOMAIN s : s[k] = rows[p[k]] /\ p[k] \in free /\ p[k] \in DOMAIN rows
      /\ \A k, l \in DOMAIN s : p[k] = p[l] => k = l
  BY <1>2 DEF PickedBy
<1>4. \A r \in ToSet(s) : r \in ToSet(rows) /\ r.id \notin Ids(before)
  BY <1>3 DEF ToSet
<1>5. OnePerPage(rows) => OnePerPage(s)
  BY <1>3 DEF OnePerPage
<1> QED BY <1>1, <1>3, <1>4, <1>5 DEF Fresh

LEMMA TakenFresh ==
    ASSUME NEW R, Rated(R), NEW rows \in Seq(R), NEW before, NEW pool, Fresh(pool, R, rows, before),
           NEW area \in Seq(R), NEW N \in Nat
    PROVE  Fresh(TakeDiverse(pool, N, area), R, rows, before)
<1>1. PICK t : t = TakeDiverse(pool, N, area)
  OBVIOUS
<1>2. pool \in Seq(R)
  BY DEF Fresh
<1>3. t \in Seq(R) /\ ToSet(t) \subseteq ToSet(pool) /\ (OnePerPage(pool) => OnePerPage(t))
  BY <1>1, <1>2, TakeDiverseApart
<1> QED BY <1>1, <1>3 DEF Fresh

LEMMA AndFresh ==
    ASSUME NEW R, NEW rows \in Seq(R), NEW before \in Seq(R), NEW chosen, NEW t,
           Fresh(chosen, R, rows, before), Fresh(t, R, rows, before \o chosen)
    PROVE  Fresh(chosen \o t, R, rows, before)
<1>1. PICK had, s : had = before \o chosen /\ s = chosen \o t
  OBVIOUS
<1>2. chosen \in Seq(R) /\ t \in Seq(R)
  BY DEF Fresh
<1>3. \A x : x \in Ids(had) <=> x \in Ids(before) \/ x \in Ids(chosen)
  BY <1>1, <1>2, ConcatSet
<1>4. s \in Seq(R) /\ \A r : r \in ToSet(s) <=> r \in ToSet(chosen) \/ r \in ToSet(t)
  BY <1>1, <1>2, ConcatSet
<1>5. /\ \A r \in ToSet(chosen) : r \in ToSet(rows) /\ r.id \notin Ids(before)
      /\ \A r \in ToSet(t) : r \in ToSet(rows) /\ r.id \notin Ids(had)
  BY <1>1 DEF Fresh
<1>6. ASSUME OnePerPage(rows) PROVE OnePerPage(s)
  <2>1. OnePerPage(chosen) /\ OnePerPage(t)
    BY <1>6 DEF Fresh
  <2>2. \A i \in DOMAIN chosen, j \in DOMAIN t : chosen[i].id # t[j].id
    <3> SUFFICES ASSUME NEW i \in DOMAIN chosen, NEW j \in DOMAIN t PROVE chosen[i].id # t[j].id
      OBVIOUS
    <3>1. chosen[i].id \in Ids(chosen) /\ t[j] \in ToSet(t)
      BY DEF Ids, ToSet
    <3> QED BY <1>3, <1>5, <3>1
  <2> QED BY <1>1, <1>2, <2>1, <2>2, ConcatOnePerPage
<1> QED BY <1>1, <1>3, <1>4, <1>5, <1>6 DEF Fresh

LEMMA FromSourceFresh ==
    ASSUME NEW R, Rated(R), NEW rows \in Seq(R), NEW area, NEW before \in Seq(R), NEW chosen,
           Fresh(chosen, R, rows, before), NEW q, q.quota \in Nat
    PROVE  Fresh(FromSource(rows, area, before, chosen, q), R, rows, before)
<1>1. PICK free, had : /\ had = before \o chosen
                       /\ free = {i \in Untaken(rows, area, had) : rows[i].kind = q.kind}
  OBVIOUS
<1>2. free \in SUBSET DOMAIN rows /\ \A i \in free : rows[i].id \notin Ids(had)
  BY <1>1 DEF Untaken
<1>3. PICK pool : pool = Those(rows, free)
  OBVIOUS
<1>4. Fresh(pool, R, rows, had)
  BY <1>2, <1>3, PoolFresh
<1>5. PICK N : N = q.quota
  OBVIOUS
<1>6. PICK t : t = TakeDiverse(pool, N, chosen)
  OBVIOUS
<1>7. Fresh(t, R, rows, had)
  <2>1. chosen \in Seq(R)
    BY DEF Fresh
  <2> QED BY <1>4, <1>5, <1>6, <2>1, TakenFresh
<1>8. Fresh(chosen \o t, R, rows, before)
  BY <1>1, <1>7, AndFresh
<1> QED BY <1>1, <1>3, <1>5, <1>6, <1>8 DEF FromSource

LEMMA FillAreaFresh ==
    ASSUME NEW R, Rated(R), NEW rows \in Seq(R), NEW area \in TargetAreas, NEW before \in Seq(R),
           NEW chosen, Fresh(chosen, R, rows, before)
    PROVE  Fresh(FillArea(rows, area, before, chosen), R, rows, before)
<1>1. PICK free, had, short :
            /\ had = before \o chosen
            /\ free = Untaken(rows, area, had)
            /\ short = AreaQuota[area] - Len(chosen)
  OBVIOUS
<1>2. chosen \in Seq(R)
  BY DEF Fresh
<1>3. CASE short > 0
  <2>1. short \in Nat
    <3>1. AreaQuota[area] \in Nat
      BY SelectionAssumption DEF SelectionAssumption
    <3> QED BY <1>1, <1>2, <1>3, <3>1, LenProperties
  <2>2. free \in SUBSET DOMAIN rows /\ \A i \in free : rows[i].id \notin Ids(had)
    BY <1>1 DEF Untaken
  <2>3. PICK pool : pool = Those(rows, free)
    OBVIOUS
  <2>4. Fresh(pool, R, rows, had)
    BY <2>2, <2>3, PoolFresh
  <2>5. PICK t : t = TakeDiverse(pool, short, chosen)
    OBVIOUS
  <2>6. Fresh(t, R, rows, had)
    BY <1>2, <2>1, <2>4, <2>5, TakenFresh
  <2>7. Fresh(chosen \o t, R, rows, before)
    BY <1>1, <2>6, AndFresh
  <2> QED BY <1>1, <1>3, <2>3, <2>5, <2>7 DEF FillArea
<1>4. CASE ~(short > 0)
  BY <1>1, <1>4 DEF FillArea
<1> QED BY <1>3, <1>4

(* The quotas by source: how the loop of select_shortlist runs.              *)
Sources(f, R, rows, area, before, N) ==
    /\ N \in Nat /\ f \in [0..N -> Seq(R)] /\ f[0] = <<>>
    /\ \A n \in 1..N : f[n] = FromSource(rows, area, before, f[n - 1], SourceQuota[area][n])
    /\ \A n \in 0..N : Fresh(f[n], R, rows, before)

LEMMA SelectAreaRuns ==
    ASSUME NEW R, Rated(R), NEW rows \in Seq(R), NEW area \in TargetAreas, NEW before \in Seq(R)
    PROVE  \E f : /\ Sources(f, R, rows, area, before, Len(SourceQuota[area]))
                  /\ SelectArea(rows, area, before) = FillArea(rows, area, before, f[Len(SourceQuota[area])])
<1>1. PICK quotas : quotas = SourceQuota[area]
  OBVIOUS
<1>2. PICK N : N = Len(quotas)
  OBVIOUS
<1>3. N \in Nat /\ \A n \in 1..N : quotas[n].quota \in Nat
  BY <1>1, <1>2, SelectionAssumption, LenProperties DEF SelectionAssumption
<1> DEFINE Loop(f) == f = [n \in 0..Len(quotas) |->
                              IF n = 0 THEN <<>>
                              ELSE FromSource(rows, area, before, f[n - 1], quotas[n])]
<1>4. PICK S : S = {s \in Seq(R) : Fresh(s, R, rows, before)}
  OBVIOUS
<1>5. <<>> \in S
  <2>1. ToSet(<<>>) = {} /\ OnePerPage(<<>>) /\ <<>> \in Seq(R)
    BY EmptySeq DEF ToSet, OnePerPage
  <2> QED BY <1>4, <2>1 DEF Fresh
<1>6. PICK turn : turn = [x \in S \X (1..N) |-> FromSource(rows, area, before, x[1], quotas[x[2]])]
  OBVIOUS
<1>7. Loops(turn, S, N)
  <2>1. ASSUME NEW s \in S, NEW n \in 1..N
        PROVE  FromSource(rows, area, before, s, quotas[n]) \in S
    <3>1. Fresh(s, R, rows, before) /\ quotas[n].quota \in Nat
      BY <1>3, <1>4
    <3>2. PICK t : t = FromSource(rows, area, before, s, quotas[n])
      OBVIOUS
    <3>3. Fresh(t, R, rows, before)
      BY <3>1, <3>2, FromSourceFresh
    <3>4. t \in Seq(R)
      BY <3>3 DEF Fresh
    <3> QED BY <1>4, <3>2, <3>3, <3>4
  <2> QED BY <1>6, <2>1 DEF Loops
<1>8. PICK start \in S : start = <<>>
  BY <1>5
<1>9. PICK f : Runs(f, S, start, turn, N)
  BY <1>3, <1>7, LoopRuns
<1>10. /\ f \in [0..N -> S] /\ f[0] = <<>>
       /\ \A n \in 1..N : f[n] = FromSource(rows, area, before, f[n - 1], quotas[n])
  <2>1. f \in [0..N -> S] /\ f[0] = start /\ \A n \in 1..N : f[n] = turn[<<f[n - 1], n>>]
    BY <1>9 DEF Runs
  <2>2. ASSUME NEW n \in 1..N
        PROVE  turn[<<f[n - 1], n>>] = FromSource(rows, area, before, f[n - 1], quotas[n])
    <3>1. n - 1 \in 0..N /\ f[n - 1] \in S
      BY <1>3, <2>1
    <3> QED BY <1>6, <3>1
  <2> QED BY <1>8, <2>1, <2>2
<1>11. PICK g : g = CHOOSE h : Loop(h)
  OBVIOUS
<1>12. Loop(g)
  <2>1. Loop(f)
    <3>1. \A n \in 0..N : n # 0 => n \in 1..N
      BY <1>3
    <3> QED BY <1>2, <1>10, <3>1
  <2> HIDE DEF Loop
  <2> QED BY <1>11, <2>1
<1>13. \A n \in 0..N : g[n] = f[n]
  <2>1. PICK G : G = {n \in 0..N : g[n] = f[n]}
    OBVIOUS
  <2>2. \A n \in 0..N : g[n] = IF n = 0 THEN <<>> ELSE FromSource(rows, area, before, g[n - 1], quotas[n])
    BY <1>2, <1>12
  <2>3. 0 \in G
    BY <1>3, <1>10, <2>1, <2>2
  <2>4. ASSUME NEW n \in 1..N, n - 1 \in G PROVE n \in G
    <3>1. n \in 0..N /\ n # 0
      BY <1>3
    <3> QED BY <1>10, <2>1, <2>2, <2>4, <3>1
  <2> QED BY <1>3, <2>1, <2>3, <2>4, UpTo
<1>14. SelectArea(rows, area, before) = FillArea(rows, area, before, g[N])
  BY <1>1, <1>2, <1>11 DEF SelectArea
<1>15. g[N] = f[N]
  BY <1>3, <1>13
<1>16. Sources(f, R, rows, area, before, N)
  BY <1>1, <1>3, <1>4, <1>10 DEF Sources
<1> QED BY <1>1, <1>2, <1>14, <1>15, <1>16

LEMMA SelectAreaFresh ==
    ASSUME NEW R, Rated(R), NEW rows \in Seq(R), NEW area \in TargetAreas, NEW before \in Seq(R)
    PROVE  Fresh(SelectArea(rows, area, before), R, rows, before)
<1>1. PICK N : N = Len(SourceQuota[area])
  OBVIOUS
<1>2. PICK f : /\ Sources(f, R, rows, area, before, N)
               /\ SelectArea(rows, area, before) = FillArea(rows, area, before, f[N])
  BY <1>1, SelectAreaRuns
<1>3. Fresh(f[N], R, rows, before)
  BY <1>2 DEF Sources
<1> QED BY <1>2, <1>3, FillAreaFresh

(* Alike lists, filtered alike, stay alike.                                 *)
LEMMA PoolAlike ==
    ASSUME NEW R, NEW p, NEW q, Alike(p, q, R), NEW W, NEW P, NEW Q,
           P = {i \in DOMAIN p : p[i] \in W}, Q = {i \in DOMAIN q : q[i] \in W}
    PROVE  Alike(Those(p, P), Those(q, Q), R)
<1>1. p \in Seq(R) /\ q \in Seq(R) /\ DistinctIds(p) /\ DistinctIds(q) /\ ToSet(p) = ToSet(q)
  BY DEF Alike
<1>2. ASSUME NEW r \in Seq(R), DistinctIds(r), NEW T, T = {i \in DOMAIN r : r[i] \in W}
      PROVE  /\ Those(r, T) \in Seq(R) /\ DistinctIds(Those(r, T))
             /\ \A x : x \in ToSet(Those(r, T)) <=> x \in ToSet(r) /\ x \in W
  <2>1. PICK s : s = Those(r, T)
    OBVIOUS
  <2>2. T \in SUBSET DOMAIN r
    BY <1>2
  <2>3. PICK f : PickedBy(f, s, R, r, T)
    <3>1. Picked(s, R, r, T)
      BY <2>1, <2>2, ThosePicked
    <3> QED BY <3>1 DEF Picked
  <2>4. /\ s \in Seq(R)
        /\ \A k \in DOMAIN s : s[k] = r[f[k]] /\ f[k] \in DOMAIN r /\ r[f[k]] \in W
        /\ \A k, l \in DOMAIN s : f[k] = f[l] => k = l
        /\ \A i \in DOMAIN r : r[i] \in W => \E k \in DOMAIN s : f[k] = i
    BY <1>2, <2>3 DEF PickedBy
  <2>5. DistinctIds(s)
    BY <1>2, <2>4 DEF DistinctIds
  <2>6. ASSUME NEW x \in ToSet(s) PROVE x \in ToSet(r) /\ x \in W
    BY <2>4 DEF ToSet
  <2>7. ASSUME NEW x \in ToSet(r), x \in W PROVE x \in ToSet(s)
    <3>1. PICK i \in DOMAIN r : x = r[i]
      BY DEF ToSet
    <3> QED BY <2>4, <2>7, <3>1 DEF ToSet
  <2> QED BY <2>1, <2>4, <2>5, <2>6, <2>7
<1>3. PICK s, t : s = Those(p, P) /\ t = Those(q, Q)
  OBVIOUS
<1>4. s \in Seq(R) /\ DistinctIds(s) /\ \A x : x \in ToSet(s) <=> x \in ToSet(p) /\ x \in W
  BY <1>1, <1>2, <1>3
<1>5. t \in Seq(R) /\ DistinctIds(t) /\ \A x : x \in ToSet(t) <=> x \in ToSet(q) /\ x \in W
  BY <1>1, <1>2, <1>3
<1>6. ToSet(s) = ToSet(t)
  BY <1>1, <1>4, <1>5
<1> QED BY <1>3, <1>4, <1>5, <1>6 DEF Alike

LEMMA FromSourceAlike ==
    ASSUME NEW R, Rated(R), NEW p, NEW q, Alike(p, q, R), NEW area, NEW before,
           NEW chosen \in Seq(R), NEW source, source.quota \in Nat
    PROVE  FromSource(p, area, before, chosen, source) = FromSource(q, area, before, chosen, source)
<1>1. PICK had : had = before \o chosen
  OBVIOUS
<1>2. PICK W : W = {r \in R : r.area = area /\ r.id \notin Ids(had) /\ r.kind = source.kind}
  OBVIOUS
<1>3. PICK P, Q : /\ P = {i \in Untaken(p, area, had) : p[i].kind = source.kind}
                  /\ Q = {i \in Untaken(q, area, had) : q[i].kind = source.kind}
  OBVIOUS
<1>4. P = {i \in DOMAIN p : p[i] \in W} /\ Q = {i \in DOMAIN q : q[i] \in W}
  <2>1. \A i \in DOMAIN p : p[i] \in R
    BY LenProperties DEF Alike
  <2>2. \A i \in DOMAIN q : q[i] \in R
    BY LenProperties DEF Alike
  <2>3. P = {i \in DOMAIN p : p[i] \in W}
    BY <1>2, <1>3, <2>1 DEF Untaken
  <2>4. Q = {i \in DOMAIN q : q[i] \in W}
    BY <1>2, <1>3, <2>2 DEF Untaken
  <2> QED BY <2>3, <2>4
<1>5. PICK s, t : s = Those(p, P) /\ t = Those(q, Q)
  OBVIOUS
<1>6. Alike(s, t, R)
  BY <1>4, <1>5, PoolAlike
<1>7. PICK N : N = source.quota
  OBVIOUS
<1>8. TakeDiverse(s, N, chosen) = TakeDiverse(t, N, chosen)
  BY <1>6, <1>7, TakeDiverseAlike
<1>9. FromSource(p, area, before, chosen, source) = chosen \o TakeDiverse(s, N, chosen)
  BY <1>1, <1>3, <1>5, <1>7 DEF FromSource
<1>10. FromSource(q, area, before, chosen, source) = chosen \o TakeDiverse(t, N, chosen)
  BY <1>1, <1>3, <1>5, <1>7 DEF FromSource
<1> QED BY <1>8, <1>9, <1>10

LEMMA FillAreaAlike ==
    ASSUME NEW R, Rated(R), NEW p, NEW q, Alike(p, q, R), NEW area \in TargetAreas, NEW before,
           NEW chosen \in Seq(R)
    PROVE  FillArea(p, area, before, chosen) = FillArea(q, area, before, chosen)
<1>1. PICK had, short : had = before \o chosen /\ short = AreaQuota[area] - Len(chosen)
  OBVIOUS
<1>2. PICK W : W = {r \in R : r.area = area /\ r.id \notin Ids(had)}
  OBVIOUS
<1>3. PICK P, Q : P = Untaken(p, area, had) /\ Q = Untaken(q, area, had)
  OBVIOUS
<1>4. P = {i \in DOMAIN p : p[i] \in W} /\ Q = {i \in DOMAIN q : q[i] \in W}
  <2>1. \A i \in DOMAIN p : p[i] \in R
    BY LenProperties DEF Alike
  <2>2. \A i \in DOMAIN q : q[i] \in R
    BY LenProperties DEF Alike
  <2>3. P = {i \in DOMAIN p : p[i] \in W}
    BY <1>2, <1>3, <2>1 DEF Untaken
  <2>4. Q = {i \in DOMAIN q : q[i] \in W}
    BY <1>2, <1>3, <2>2 DEF Untaken
  <2> QED BY <2>3, <2>4
<1>5. PICK s, t : s = Those(p, P) /\ t = Those(q, Q)
  OBVIOUS
<1>6. Alike(s, t, R)
  BY <1>4, <1>5, PoolAlike
<1>7. CASE short > 0
  <2>1. short \in Nat
    <3>1. AreaQuota[area] \in Nat
      BY SelectionAssumption DEF SelectionAssumption
    <3> QED BY <1>1, <1>7, <3>1, LenProperties
  <2>2. TakeDiverse(s, short, chosen) = TakeDiverse(t, short, chosen)
    BY <1>6, <2>1, TakeDiverseAlike
  <2>3. FillArea(p, area, before, chosen) = chosen \o TakeDiverse(s, short, chosen)
    BY <1>1, <1>3, <1>5, <1>7 DEF FillArea
  <2>4. FillArea(q, area, before, chosen) = chosen \o TakeDiverse(t, short, chosen)
    BY <1>1, <1>3, <1>5, <1>7 DEF FillArea
  <2> QED BY <2>2, <2>3, <2>4
<1>8. CASE ~(short > 0)
  BY <1>1, <1>8 DEF FillArea
<1> QED BY <1>7, <1>8

LEMMA SelectAreaAlike ==
    ASSUME NEW R, Rated(R), NEW p, NEW q, Alike(p, q, R), NEW area \in TargetAreas,
           NEW before \in Seq(R)
    PROVE  SelectArea(p, area, before) = SelectArea(q, area, before)
<1>1. p \in Seq(R) /\ q \in Seq(R)
  BY DEF Alike
<1>2. PICK quotas : quotas = SourceQuota[area]
  OBVIOUS
<1>3. PICK N : N = Len(quotas)
  OBVIOUS
<1>4. N \in Nat /\ \A n \in 1..N : quotas[n].quota \in Nat
  BY <1>2, <1>3, SelectionAssumption, LenProperties DEF SelectionAssumption
<1>5. PICK f : Sources(f, R, p, area, before, N) /\ SelectArea(p, area, before) = FillArea(p, area, before, f[N])
  BY <1>1, <1>2, <1>3, SelectAreaRuns
<1>6. PICK g : Sources(g, R, q, area, before, N) /\ SelectArea(q, area, before) = FillArea(q, area, before, g[N])
  BY <1>1, <1>2, <1>3, SelectAreaRuns
<1>7. /\ f \in [0..N -> Seq(R)] /\ f[0] = <<>> /\ g[0] = <<>>
      /\ \A n \in 1..N : f[n] = FromSource(p, area, before, f[n - 1], quotas[n])
      /\ \A n \in 1..N : g[n] = FromSource(q, area, before, g[n - 1], quotas[n])
  BY <1>2, <1>5, <1>6 DEF Sources
<1>8. PICK G : G = {n \in 0..N : f[n] = g[n]}
  OBVIOUS
<1>9. 0 \in G
  BY <1>4, <1>7, <1>8
<1>10. ASSUME NEW n \in 1..N, n - 1 \in G PROVE n \in G
  <2>1. n - 1 \in 0..N /\ n \in 0..N
    BY <1>4
  <2>2. PICK s \in Seq(R) : s = f[n - 1] /\ s = g[n - 1]
    BY <1>7, <1>8, <1>10, <2>1
  <2>3. PICK source : source = quotas[n] /\ source.quota \in Nat
    BY <1>4
  <2>4. FromSource(p, area, before, s, source) = FromSource(q, area, before, s, source)
    BY <2>3, FromSourceAlike
  <2> QED BY <1>7, <1>8, <2>1, <2>2, <2>3, <2>4
<1>11. PICK s \in Seq(R) : s = f[N] /\ s = g[N]
  <2>1. N \in Nat /\ N \in 0..N
    BY <1>4
  <2>2. \A n \in 0..N : n \in G
    BY <1>9, <1>10, <2>1, UpTo
  <2> QED BY <1>7, <1>8, <2>1, <2>2
<1>12. FillArea(p, area, before, s) = FillArea(q, area, before, s)
  BY FillAreaAlike
<1> QED BY <1>5, <1>6, <1>11, <1>12

-----------------------------------------------------------------------------
(* All areas *)

LEMMA AndAreaFresh ==
    ASSUME NEW R, Rated(R), NEW rows \in Seq(R), NEW area \in TargetAreas,
           NEW before, Fresh(before, R, rows, <<>>)
    PROVE  Fresh(AndArea(rows, before, area), R, rows, <<>>)
<1>1. before \in Seq(R) /\ <<>> \in Seq(R)
  BY EmptySeq DEF Fresh
<1>2. PICK none : none = <<>>
  OBVIOUS
<1>3. none \o before = before
  BY <1>1, <1>2, ConcatEmptySeq
<1>4. PICK t : t = SelectArea(rows, area, before)
  OBVIOUS
<1>5. Fresh(t, R, rows, none \o before)
  BY <1>1, <1>3, <1>4, SelectAreaFresh
<1>6. Fresh(before \o t, R, rows, none)
  BY <1>1, <1>2, <1>5, AndFresh
<1> QED BY <1>2, <1>4, <1>6 DEF AndArea

(* How the loop over the areas runs.                                        *)
Areas(f, R, rows, N) ==
    /\ N \in Nat /\ f \in [0..N -> Seq(R)] /\ f[0] = <<>>
    /\ \A n \in 1..N : f[n] = AndArea(rows, f[n - 1], AreaOrder[n])
    /\ \A n \in 0..N : Fresh(f[n], R, rows, <<>>)

LEMMA SelectAreasRuns ==
    ASSUME NEW R, Rated(R), NEW rows \in Seq(R)
    PROVE  \E f : Areas(f, R, rows, Len(AreaOrder)) /\ SelectAreas(rows) = f[Len(AreaOrder)]
<1>1. PICK N : N = Len(AreaOrder)
  OBVIOUS
<1>2. N \in Nat /\ \A n \in 1..N : AreaOrder[n] \in TargetAreas
  BY <1>1, SelectionAssumption, LenProperties DEF SelectionAssumption
<1> DEFINE Loop(f) == f = [n \in 0..Len(AreaOrder) |->
                              IF n = 0 THEN <<>> ELSE AndArea(rows, f[n - 1], AreaOrder[n])]
<1>3. PICK S : S = {s \in Seq(R) : Fresh(s, R, rows, <<>>)}
  OBVIOUS
<1>4. <<>> \in S
  <2>1. ToSet(<<>>) = {} /\ OnePerPage(<<>>) /\ <<>> \in Seq(R)
    BY EmptySeq DEF ToSet, OnePerPage
  <2> QED BY <1>3, <2>1 DEF Fresh
<1>5. PICK turn : turn = [x \in S \X (1..N) |-> AndArea(rows, x[1], AreaOrder[x[2]])]
  OBVIOUS
<1>6. Loops(turn, S, N)
  <2>1. ASSUME NEW s \in S, NEW n \in 1..N PROVE AndArea(rows, s, AreaOrder[n]) \in S
    <3>1. PICK t, area : t = AndArea(rows, s, area) /\ area = AreaOrder[n]
      OBVIOUS
    <3>2. Fresh(t, R, rows, <<>>)
      BY <1>2, <1>3, <3>1, AndAreaFresh
    <3>3. t \in Seq(R)
      BY <3>2 DEF Fresh
    <3> QED BY <1>3, <3>1, <3>2, <3>3
  <2> QED BY <1>5, <2>1 DEF Loops
<1>7. PICK start \in S : start = <<>>
  BY <1>4
<1>8. PICK f : Runs(f, S, start, turn, N)
  BY <1>2, <1>6, LoopRuns
<1>9. /\ f \in [0..N -> S] /\ f[0] = <<>>
      /\ \A n \in 1..N : f[n] = AndArea(rows, f[n - 1], AreaOrder[n])
  <2>1. f \in [0..N -> S] /\ f[0] = start /\ \A n \in 1..N : f[n] = turn[<<f[n - 1], n>>]
    BY <1>8 DEF Runs
  <2>2. ASSUME NEW n \in 1..N PROVE turn[<<f[n - 1], n>>] = AndArea(rows, f[n - 1], AreaOrder[n])
    <3>1. n - 1 \in 0..N /\ f[n - 1] \in S
      BY <1>2, <2>1
    <3> QED BY <1>5, <3>1
  <2> QED BY <1>7, <2>1, <2>2
<1>10. PICK g : g = CHOOSE h : Loop(h)
  OBVIOUS
<1>11. Loop(g)
  <2>1. Loop(f)
    <3>1. \A n \in 0..N : n # 0 => n \in 1..N
      BY <1>2
    <3> QED BY <1>1, <1>9, <3>1
  <2> HIDE DEF Loop
  <2> QED BY <1>10, <2>1
<1>12. \A n \in 0..N : g[n] = f[n]
  <2>1. PICK G : G = {n \in 0..N : g[n] = f[n]}
    OBVIOUS
  <2>2. \A n \in 0..N : g[n] = IF n = 0 THEN <<>> ELSE AndArea(rows, g[n - 1], AreaOrder[n])
    BY <1>1, <1>11
  <2>3. 0 \in G
    BY <1>2, <1>9, <2>1, <2>2
  <2>4. ASSUME NEW n \in 1..N, n - 1 \in G PROVE n \in G
    <3>1. n \in 0..N /\ n # 0
      BY <1>2
    <3> QED BY <1>9, <2>1, <2>2, <2>4, <3>1
  <2> QED BY <1>2, <2>1, <2>3, <2>4, UpTo
<1>13. SelectAreas(rows) = f[N]
  <2>1. SelectAreas(rows) = g[N]
    BY <1>1, <1>10 DEF SelectAreas
  <2> QED BY <1>2, <1>12, <2>1
<1>14. Areas(f, R, rows, N)
  BY <1>2, <1>3, <1>9 DEF Areas
<1> QED BY <1>1, <1>13, <1>14

(* What the areas take is of the pool and has one row per id and page.       *)
LEMMA SelectAreasFresh ==
    ASSUME NEW R, Rated(R), NEW rows \in Seq(R)
    PROVE  Fresh(SelectAreas(rows), R, rows, <<>>)
<1>1. PICK N : N = Len(AreaOrder)
  OBVIOUS
<1>2. PICK f : Areas(f, R, rows, N) /\ SelectAreas(rows) = f[N]
  BY <1>1, SelectAreasRuns
<1> QED BY <1>2 DEF Areas

(* The order of the prepared rows does not show in what the areas take.      *)
LEMMA SelectAreasAlike ==
    ASSUME NEW R, Rated(R), NEW p, NEW q, Alike(p, q, R)
    PROVE  SelectAreas(p) = SelectAreas(q)
<1>1. p \in Seq(R) /\ q \in Seq(R)
  BY DEF Alike
<1>2. PICK N : N = Len(AreaOrder)
  OBVIOUS
<1>3. N \in Nat /\ \A n \in 1..N : AreaOrder[n] \in TargetAreas
  BY <1>2, SelectionAssumption, LenProperties DEF SelectionAssumption
<1>4. PICK f : Areas(f, R, p, N) /\ SelectAreas(p) = f[N]
  BY <1>1, <1>2, SelectAreasRuns
<1>5. PICK g : Areas(g, R, q, N) /\ SelectAreas(q) = g[N]
  BY <1>1, <1>2, SelectAreasRuns
<1>6. /\ f \in [0..N -> Seq(R)] /\ f[0] = <<>> /\ g[0] = <<>>
      /\ \A n \in 1..N : f[n] = AndArea(p, f[n - 1], AreaOrder[n])
      /\ \A n \in 1..N : g[n] = AndArea(q, g[n - 1], AreaOrder[n])
  BY <1>4, <1>5 DEF Areas
<1>7. PICK G : G = {n \in 0..N : f[n] = g[n]}
  OBVIOUS
<1>8. 0 \in G
  BY <1>3, <1>6, <1>7
<1>9. ASSUME NEW n \in 1..N, n - 1 \in G PROVE n \in G
  <2>1. n - 1 \in 0..N /\ n \in 0..N
    BY <1>3
  <2>2. PICK s \in Seq(R) : s = f[n - 1] /\ s = g[n - 1]
    BY <1>6, <1>7, <1>9, <2>1
  <2>3. PICK area \in TargetAreas : area = AreaOrder[n]
    BY <1>3
  <2>4. SelectArea(p, area, s) = SelectArea(q, area, s)
    BY SelectAreaAlike
  <2>5. AndArea(p, s, area) = AndArea(q, s, area)
    BY <2>4 DEF AndArea
  <2> QED BY <1>6, <1>7, <2>1, <2>2, <2>3, <2>5
<1>10. N \in G
  BY <1>3, <1>8, <1>9, UpTo
<1> QED BY <1>4, <1>5, <1>7, <1>10

-----------------------------------------------------------------------------
(* The prepared rows *)

(* As many ids as rows: every row has an id of its own.                     *)
LEMMA IdsDistinct ==
    ASSUME NEW R, NEW rows \in Seq(R), Cardinality(Ids(rows)) = Len(rows)
    PROVE  DistinctIds(rows)
<1>1. Len(rows) \in Nat /\ DOMAIN rows = 1..Len(rows)
  BY LenProperties
<1>2. PICK S, T : S = DOMAIN rows /\ T = Ids(rows)
  OBVIOUS
<1>3. IsFiniteSet(S) /\ Cardinality(S) = Len(rows)
  <2>1. IsFiniteSet(1..Len(rows)) /\ Cardinality(1..Len(rows)) = Len(rows)
    <3>1. PICK n \in Nat : n = Len(rows)
      BY <1>1
    <3>2. IsFiniteSet(1..n) /\ Cardinality(1..n) = n
      <4>1. 1 \in Int /\ n \in Int /\ (IF 1 > n THEN 0 ELSE n - 1 + 1) = n
        OBVIOUS
      <4> QED BY <4>1, FS_Interval
    <3> QED BY <3>1, <3>2
  <2> QED BY <1>1, <1>2, <2>1
<1>4. PICK f : f = [i \in S |-> rows[i].id]
  OBVIOUS
<1>5. f \in Surjection(S, T)
  BY <1>2, <1>4 DEF Surjection, Ids
<1>6. f \in Injection(S, T)
  BY <1>2, <1>3, <1>5, FS_SurjSameCardinalityImpliesInj
<1> QED BY <1>2, <1>4, <1>6 DEF Injection, IsInjective, DistinctIds

(* Back to front, the rows are the same.                                    *)
LEMMA ReverseAlike ==
    ASSUME NEW R, NEW rows \in Seq(R), DistinctIds(rows)
    PROVE  Alike(Reverse(rows), rows, R)
<1>1. PICK N : N = Len(rows)
  OBVIOUS
<1>2. N \in Nat /\ DOMAIN rows = 1..N /\ \A i \in 1..N : rows[i] \in R
  BY <1>1, LenProperties
<1>3. PICK s : s = Reverse(rows)
  OBVIOUS
<1>4. s = [i \in 1..N |-> rows[(N - i) + 1]]
  BY <1>1, <1>3 DEF Reverse
<1>5. \A i \in 1..N : (N - i) + 1 \in 1..N /\ (N - ((N - i) + 1)) + 1 = i
  BY <1>2
<1>6. s \in Seq(R) /\ DOMAIN s = 1..N
  <2>1. s \in [1..N -> R]
    BY <1>2, <1>4, <1>5
  <2> QED BY <1>2, <1>4, <2>1, SeqDef
<1>7. DistinctIds(s)
  <2> SUFFICES ASSUME NEW i \in 1..N, NEW j \in 1..N, s[i].id = s[j].id PROVE i = j
    BY <1>6 DEF DistinctIds
  <2>1. PICK k \in 1..N, l \in 1..N : k = (N - i) + 1 /\ l = (N - j) + 1
    BY <1>5
  <2>2. k = l
    BY <1>2, <1>4, <2>1 DEF DistinctIds
  <2> QED BY <1>2, <2>1, <2>2
<1>8. ToSet(s) = ToSet(rows)
  <2>1. ASSUME NEW x \in ToSet(s) PROVE x \in ToSet(rows)
    BY <1>2, <1>4, <1>5, <1>6 DEF ToSet
  <2>2. ASSUME NEW x \in ToSet(rows) PROVE x \in ToSet(s)
    <3>1. PICK i \in 1..N : x = rows[i]
      BY <1>2 DEF ToSet
    <3>2. PICK k \in 1..N : k = (N - i) + 1 /\ (N - k) + 1 = i
      BY <1>5
    <3>3. s[k] = x
      BY <1>4, <3>1, <3>2
    <3> QED BY <1>6, <3>3 DEF ToSet
  <2> QED BY <2>1, <2>2
<1> QED BY <1>3, <1>6, <1>7, <1>8 DEF Alike

(* Rows of a queue: what the selection compares is a number.                *)
QueueTyped(rows) ==
    /\ DOMAIN rows = 1..Len(rows) /\ Len(rows) \in Nat
    /\ \A i \in DOMAIN rows :
          /\ rows[i].id \in Int /\ rows[i].priority \in Int /\ IsFiniteSet(rows[i].buckets)
          /\ rows[i].kind \in ToSet(KindOrder)

LEMMA ScoreTyped ==
    ASSUME NEW c, c.priority \in Int
    PROVE  CandidateScore(c) \in Int
<1>1. \A n \in Nat : \A b : Points(n, b) \in Int
  BY DEF Points
<1> QED BY <1>1 DEF CandidateScore

(* Preparing rows makes them comparable and no two alike that were not.      *)
LEMMA PreparedRated ==
    ASSUME NEW queue0, QueueTyped(queue0), NEW asOf
    PROVE  \E R : /\ Rated(R) /\ LoadCandidates(queue0, asOf) \in Seq(R)
                  /\ OnePerPage(queue0) => OnePerPage(LoadCandidates(queue0, asOf))
<1>1. PICK rows : rows = [i \in DOMAIN queue0 |-> Prepared(queue0[i])]
  OBVIOUS
<1>2. PICK places : places = {i \in DOMAIN queue0 : /\ InferArea(queue0[i]) # NoArea
                                                    /\ ~Disqualified(queue0[i], asOf)}
  OBVIOUS
<1>3. PICK s : s = Those(rows, places)
  OBVIOUS
<1>4. LoadCandidates(queue0, asOf) = s
  BY <1>1, <1>2, <1>3 DEF LoadCandidates
<1>5. PICK R : R = ToSet(rows)
  OBVIOUS
<1>6. rows \in Seq(R) /\ DOMAIN rows = DOMAIN queue0
  <2>1. rows \in [1..Len(queue0) -> R]
    BY <1>1, <1>5 DEF QueueTyped, ToSet
  <2> QED BY <1>1, <2>1, SeqDef DEF QueueTyped
<1>7. \A i \in DOMAIN rows : /\ rows[i].id = queue0[i].id /\ rows[i].url = queue0[i].url
                             /\ rows[i].buckets = queue0[i].buckets
                             /\ rows[i].score = CandidateScore(queue0[i])
  BY <1>1 DEF Prepared
<1>8. Rated(R)
  <2> SUFFICES ASSUME NEW i \in DOMAIN rows
               PROVE  rows[i].id \in Int /\ rows[i].score \in Int /\ IsFiniteSet(rows[i].buckets)
    BY <1>5 DEF Rated, ToSet
  <2>1. queue0[i].id \in Int /\ queue0[i].priority \in Int /\ IsFiniteSet(queue0[i].buckets)
    BY <1>6 DEF QueueTyped
  <2>2. CandidateScore(queue0[i]) \in Int
    <3>1. PICK c : c = queue0[i]
      OBVIOUS
    <3> QED BY <2>1, <3>1, ScoreTyped
  <2> QED BY <1>7, <2>1, <2>2
<1>9. PICK p : PickedBy(p, s, R, rows, places)
  <2>1. places \in SUBSET DOMAIN rows
    BY <1>2, <1>6
  <2>2. Picked(s, R, rows, places)
    BY <1>3, <1>6, <2>1, ThosePicked
  <2> QED BY <2>2 DEF Picked
<1>10. s \in Seq(R)
  BY <1>9 DEF PickedBy
<1>11. OnePerPage(queue0) => OnePerPage(s)
  <2>1. /\ \A k \in DOMAIN s : s[k] = rows[p[k]] /\ p[k] \in DOMAIN queue0
        /\ \A k, l \in DOMAIN s : p[k] = p[l] => k = l
    BY <1>2, <1>9 DEF PickedBy
  <2>2. \A k \in DOMAIN s : s[k].id = queue0[p[k]].id /\ s[k].url = queue0[p[k]].url
    BY <1>6, <1>7, <2>1
  <2> QED BY <2>1, <2>2 DEF OnePerPage
<1> QED BY <1>4, <1>8, <1>10, <1>11

(* Whatever is asked for, the order of the queue does not show.              *)
LEMMA OrderDoesNotShow == QueueTyped(queue) => SelectionIgnoresOrder
<1> SUFFICES ASSUME QueueTyped(queue) PROVE SelectionIgnoresOrder
  OBVIOUS
<1>1. PICK rows : rows = LoadCandidates(queue, today)
  OBVIOUS
<1>2. PICK R : Rated(R) /\ rows \in Seq(R)
  BY <1>1, PreparedRated
<1>3. SUFFICES ASSUME Cardinality(Ids(rows)) = Len(rows)
               PROVE  /\ SelectAreas(Reverse(rows)) = SelectAreas(rows)
                      /\ TakeDiverse(Reverse(rows), Len(rows), <<>>) = TakeDiverse(rows, Len(rows), <<>>)
  BY <1>1 DEF SelectionIgnoresOrder
<1>4. PICK back : back = Reverse(rows)
  OBVIOUS
<1>5. Alike(back, rows, R)
  BY <1>2, <1>3, <1>4, IdsDistinct, ReverseAlike
<1>6. SelectAreas(back) = SelectAreas(rows)
  BY <1>2, <1>5, SelectAreasAlike
<1>7. TakeDiverse(back, Len(rows), <<>>) = TakeDiverse(rows, Len(rows), <<>>)
  <2>1. PICK N \in Nat : N = Len(rows)
    BY <1>2, LenProperties
  <2>2. PICK none \in Seq(R) : none = <<>>
    BY EmptySeq
  <2>3. TakeDiverse(back, N, none) = TakeDiverse(rows, N, none)
    BY <1>2, <1>5, TakeDiverseAlike
  <2> QED BY <2>1, <2>2, <2>3
<1> QED BY <1>4, <1>6, <1>7

-----------------------------------------------------------------------------
(* The rows of the queue *)

(* A row of the queue says what its candidate says.                         *)
LEMMA RowSays ==
    ASSUME NEW c, CandidateTyped(c)
    PROVE  /\ QueueRow(c).id = c.id /\ QueueRow(c).url = c.url /\ QueueRow(c).kind = c.kind
           /\ QueueRow(c).regs = c.regs /\ QueueRow(c).event = c.event
           /\ QueueRow(c).buckets = c.buckets
BY DEF QueueRow, CandidateTyped

LEMMA FetchedTyped ==
    ASSUME FilesTyped, NEW c, Fetched(c)
    PROVE  /\ CandidateTyped(c)
           /\ c \in ToSet(files.drafts) => c.kind \in Draft
           /\ c \in ToSet(files.social) => c.kind = KindOrder[3]
           /\ c \in ToSet(files.web) => c.kind = KindOrder[4]
<1>1. files.drafts \in Drafts /\ files.social \in Posts /\ files.web \in Webs
  BY DEF FilesTyped
<1>2. c \in ToSet(files.drafts) => CandidateTyped(c) /\ c.kind \in Draft
  BY <1>1, CaptureAssumption DEF CaptureAssumption, ToSet
<1>3. c \in ToSet(files.social) => CandidateTyped(c) /\ c.kind = KindOrder[3]
  BY <1>1, CaptureAssumption DEF CaptureAssumption, ToSet
<1>4. c \in ToSet(files.web) => CandidateTyped(c) /\ c.kind = KindOrder[4]
  BY <1>1, CaptureAssumption DEF CaptureAssumption, ToSet
<1> QED BY <1>2, <1>3, <1>4 DEF Fetched

LEMMA RowTyped ==
    ASSUME FilesTyped, NEW c, Fetched(c), NEW r, r = QueueRow(c)
    PROVE  /\ r.id \in Int /\ r.priority \in Int /\ IsFiniteSet(r.buckets)
           /\ r.kind \in ToSet(KindOrder)
<1>1. CandidateTyped(c)
  BY FetchedTyped
<1>2. r.id = c.id /\ r.kind = c.kind /\ r.buckets = c.buckets
  BY <1>1, RowSays
<1>3. c.id \in Int /\ IsFiniteSet(c.buckets)
  BY <1>1 DEF CandidateTyped
<1>4. r.priority \in Int
  BY PriorityTyped
<1>5. c.kind \in {KindOrder[1], KindOrder[2], KindOrder[3], KindOrder[4]}
  BY FetchedTyped DEF Fetched, Draft
<1>6. {KindOrder[1], KindOrder[2], KindOrder[3], KindOrder[4]} \subseteq ToSet(KindOrder)
  BY DEF ToSet, KindOrder
<1> QED BY <1>2, <1>3, <1>4, <1>5, <1>6

(* One id and one page make one candidate: the captures share no id, a page  *)
(* is a draft's key, a page and an id are a web activity's, and a post's id   *)
(* is its own.                                                              *)
LEMMA SameCandidate ==
    ASSUME FilesTyped, NEW c, NEW d, Fetched(c), Fetched(d), c.id = d.id, c.url = d.url
    PROVE  CandidateKey(QueueRow(c)) = CandidateKey(QueueRow(d))
<1>1. PICK drafts \in Drafts, social \in Posts, web \in Webs :
            drafts = files.drafts /\ social = files.social /\ web = files.web
  BY DEF FilesTyped
<1>2. Ids(drafts) \cap Ids(social) = {} /\ Ids(drafts) \cap Ids(web) = {} /\ Ids(social) \cap Ids(web) = {}
  BY CaptureAssumption DEF CaptureAssumption
<1>3. \A s, x : x \in ToSet(s) => x.id \in Ids(s)
  BY DEF ToSet, Ids
<1>4. CandidateTyped(c) /\ CandidateTyped(d)
  BY FetchedTyped
<1>5. PICK r, q : r = QueueRow(c) /\ q = QueueRow(d)
  OBVIOUS
<1>6. r.id = c.id /\ r.url = c.url /\ r.kind = c.kind /\ q.id = d.id /\ q.url = d.url /\ q.kind = d.kind
  BY <1>4, <1>5, RowSays
<1>7. CASE c \in ToSet(drafts)
  <2>1. d \in ToSet(drafts)
    BY <1>1, <1>2, <1>3, <1>7 DEF Fetched
  <2>2. r.kind \in Draft /\ q.kind \in Draft
    BY <1>1, <1>6, <1>7, <2>1, FetchedTyped
  <2>3. CandidateKey(r) = <<"page", c.url>> /\ CandidateKey(q) = <<"page", d.url>>
    BY <1>6, <2>2 DEF CandidateKey, Draft, KindOrder
  <2> QED BY <1>5, <2>3
<1>8. CASE c \in ToSet(social)
  <2>1. d \in ToSet(social)
    BY <1>1, <1>2, <1>3, <1>8 DEF Fetched
  <2>2. PICK i \in DOMAIN social, j \in DOMAIN social : c = social[i] /\ d = social[j]
    BY <1>8, <2>1 DEF ToSet
  <2>3. i = j
    BY <2>2, CaptureAssumption DEF CaptureAssumption
  <2> QED BY <2>2, <2>3
<1>9. CASE c \in ToSet(web)
  <2>1. d \in ToSet(web)
    BY <1>1, <1>2, <1>3, <1>9 DEF Fetched
  <2>2. r.kind = KindOrder[4] /\ q.kind = KindOrder[4]
    BY <1>1, <1>6, <1>9, <2>1, FetchedTyped
  <2>3. CandidateKey(r) = <<"activity", c.url, c.id>> /\ CandidateKey(q) = <<"activity", d.url, d.id>>
    BY <1>6, <2>2 DEF CandidateKey, KindOrder
  <2> QED BY <1>5, <2>3
<1> QED BY <1>1, <1>7, <1>8, <1>9 DEF Fetched

(* The order of the queue file is a total order of its places.              *)
LEMMA SortKeyTyped ==
    ASSUME NEW c, c.id \in Int, c.priority \in Int, c.kind \in ToSet(KindOrder)
    PROVE  Triple(SortKey(c))
<1>1. PICK k \in DOMAIN KindOrder : KindOrder[k] = c.kind
  BY DEF ToSet
<1>2. (CHOOSE l \in DOMAIN KindOrder : KindOrder[l] = c.kind) \in DOMAIN KindOrder
  BY <1>1
<1>3. DOMAIN KindOrder \subseteq Int
  BY DEF KindOrder
<1>4. PICK n \in Int : n = CHOOSE l \in DOMAIN KindOrder : KindOrder[l] = c.kind
  BY <1>2, <1>3
<1>5. PICK m \in Int : m = - c.priority
  OBVIOUS
<1>6. SortKey(c) = <<m, n, c.id>>
  BY <1>4, <1>5 DEF SortKey
<1> QED BY <1>6 DEF Triple

LEMMA AheadOrders ==
    ASSUME NEW rows, QueueTyped(rows), NEW order,
           order = {x \in (DOMAIN rows) \X (DOMAIN rows) : Ahead(rows, x[1], x[2])}
    PROVE  Orders(order, DOMAIN rows)
<1>1. PICK N \in Nat : DOMAIN rows = 1..N
  BY DEF QueueTyped
<1>2. PICK u : u = [i \in DOMAIN rows |-> SortKey(rows[i])]
  OBVIOUS
<1>3. \A i \in DOMAIN rows : Triple(u[i]) /\ u[i] = SortKey(rows[i])
  BY <1>2, SortKeyTyped DEF QueueTyped
<1>4. \A i, j \in DOMAIN rows : <<i, j>> \in order <=> Exceeds(u[j], u[i]) \/ (u[i] = u[j] /\ i <= j)
  <2>1. \A i, j \in DOMAIN rows : <<i, j>> \in order <=> Ahead(rows, i, j)
    OBVIOUS
  <2>2. \A i, j \in DOMAIN rows : Ahead(rows, i, j) <=> Exceeds(u[j], u[i]) \/ (u[i] = u[j] /\ i <= j)
    BY <1>3 DEF Ahead
  <2> QED BY <2>1, <2>2
<1>5. \A i, j \in DOMAIN rows : ~Exceeds(u[i], u[j]) /\ ~Exceeds(u[j], u[i]) => u[i] = u[j]
  <2> SUFFICES ASSUME NEW i \in DOMAIN rows, NEW j \in DOMAIN rows,
                      ~Exceeds(u[i], u[j]), ~Exceeds(u[j], u[i])
               PROVE  u[i] = u[j]
    OBVIOUS
  <2>1. u[i][1] = u[j][1] /\ u[i][2] = u[j][2] /\ u[i][3] = u[j][3]
    BY <1>3, ExceedsOrders
  <2>2. u[i] = <<u[i][1], u[i][2], u[i][3]>> /\ u[j] = <<u[j][1], u[j][2], u[j][3]>>
    BY <1>3 DEF SortKey
  <2> QED BY <2>1, <2>2
<1>6. \A i, j \in DOMAIN rows : <<i, j>> \in order \/ <<j, i>> \in order
  <2>1. \A i, j \in DOMAIN rows : i <= j \/ j <= i
    BY <1>1
  <2> SUFFICES ASSUME NEW i \in DOMAIN rows, NEW j \in DOMAIN rows, <<i, j>> \notin order
               PROVE  <<j, i>> \in order
    OBVIOUS
  <2>2. ~Exceeds(u[j], u[i]) /\ ~(u[i] = u[j] /\ i <= j)
    BY <1>4
  <2>3. Exceeds(u[i], u[j]) \/ (u[i] = u[j] /\ j <= i)
    BY <1>5, <2>1, <2>2
  <2> QED BY <1>4, <2>3
<1>7. \A i, j \in DOMAIN rows : <<i, j>> \in order /\ <<j, i>> \in order => i = j
  <2>1. \A i, j \in DOMAIN rows : i <= j /\ j <= i => i = j
    BY <1>1
  <2>2. \A i, j \in DOMAIN rows : Exceeds(u[i], u[j]) => ~Exceeds(u[j], u[i]) /\ u[i] # u[j]
    BY <1>3, ExceedsOrders
  <2> QED BY <1>4, <2>1, <2>2
<1>8. \A i, j, k \in DOMAIN rows : <<i, j>> \in order /\ <<j, k>> \in order => <<i, k>> \in order
  <2>1. \A i, j, k \in DOMAIN rows : i <= j /\ j <= k => i <= k
    BY <1>1
  <2>2. \A i, j, k \in DOMAIN rows : Exceeds(u[k], u[j]) /\ Exceeds(u[j], u[i]) => Exceeds(u[k], u[i])
    BY <1>3, ExceedsOrders
  <2> QED BY <1>4, <2>1, <2>2
<1> QED BY <1>6, <1>7, <1>8 DEF Orders

(* The queue that is written can be selected from, and one id stands in it    *)
(* twice only for two pages.                                                 *)
LEMMA QueueMade ==
    ASSUME FilesTyped
    PROVE  QueueTyped(BuildQueue(files)) /\ OnePerPage(BuildQueue(files))
<1>1. PICK all : all = Combined(files)
  OBVIOUS
<1>2. /\ Len(all) \in Nat /\ DOMAIN all = 1..Len(all)
      /\ \A i \in DOMAIN all : \E c : Fetched(c) /\ all[i] = QueueRow(c)
  BY <1>1, CombinedRows
<1>3. \A i \in DOMAIN all : all[i].priority \in Int
  BY <1>2, PriorityTyped
<1>4. PICK kept : kept = Deduplicate(all)
  OBVIOUS
<1>5. PICK R : R = ToSet(all)
  OBVIOUS
<1>6. /\ kept \in Seq(R)
      /\ \A j, k \in DOMAIN kept : CandidateKey(kept[j]) = CandidateKey(kept[k]) => j = k
  BY <1>2, <1>3, <1>4, <1>5, DeduplicateKeeps DEF Kept
<1>7. Len(kept) \in Nat /\ DOMAIN kept = 1..Len(kept)
  BY <1>6, LenProperties
<1>8. \A k \in DOMAIN kept : \E c : Fetched(c) /\ kept[k] = QueueRow(c)
  <2>1. \A k \in DOMAIN kept : kept[k] \in R
    BY <1>6, LenProperties
  <2>2. \A r \in R : \E i \in DOMAIN all : r = all[i]
    BY <1>5 DEF ToSet
  <2> QED BY <1>2, <2>1, <2>2
<1>9. QueueTyped(kept)
  <2>1. \A k \in DOMAIN kept : /\ kept[k].id \in Int /\ kept[k].priority \in Int
                               /\ IsFiniteSet(kept[k].buckets) /\ kept[k].kind \in ToSet(KindOrder)
    BY <1>8, RowTyped
  <2> QED BY <1>7, <2>1 DEF QueueTyped
<1>10. OnePerPage(kept)
  <2> SUFFICES ASSUME NEW i \in DOMAIN kept, NEW j \in DOMAIN kept,
                      kept[i].id = kept[j].id, kept[i].url = kept[j].url
               PROVE  i = j
    BY DEF OnePerPage
  <2>1. PICK c : Fetched(c) /\ kept[i] = QueueRow(c)
    BY <1>8
  <2>2. PICK d : Fetched(d) /\ kept[j] = QueueRow(d)
    BY <1>8
  <2>3. CandidateTyped(c) /\ CandidateTyped(d)
    BY <2>1, <2>2, FetchedTyped
  <2>4. c.id = d.id /\ c.url = d.url
    BY <2>1, <2>2, <2>3, RowSays
  <2>5. CandidateKey(kept[i]) = CandidateKey(kept[j])
    BY <2>1, <2>2, <2>4, SameCandidate
  <2> QED BY <1>6, <2>5
<1>11. PICK order : order = {x \in (DOMAIN kept) \X (DOMAIN kept) : Ahead(kept, x[1], x[2])}
  OBVIOUS
<1>12. PICK places : places = DOMAIN kept
  OBVIOUS
<1>13. PICK s : s = Listed(kept, places, order)
  OBVIOUS
<1>14. BuildQueue(files) = s
  BY <1>1, <1>4, <1>11, <1>12, <1>13 DEF BuildQueue, Sorted
<1>15. PICK p : PickedBy(p, s, R, kept, places)
  <2>1. Orders(order, places)
    BY <1>9, <1>11, <1>12, AheadOrders
  <2>2. Picked(s, R, kept, places)
    BY <1>6, <1>12, <1>13, <2>1, ListedPicked
  <2> QED BY <2>2 DEF Picked
<1>16. /\ s \in Seq(R)
       /\ \A k \in DOMAIN s : s[k] = kept[p[k]] /\ p[k] \in DOMAIN kept
       /\ \A k, l \in DOMAIN s : p[k] = p[l] => k = l
  BY <1>12, <1>15 DEF PickedBy
<1>17. Len(s) \in Nat /\ DOMAIN s = 1..Len(s)
  BY <1>16, LenProperties
<1>18. QueueTyped(s)
  BY <1>9, <1>16, <1>17 DEF QueueTyped
<1>19. OnePerPage(s)
  BY <1>10, <1>16 DEF OnePerPage
<1> QED BY <1>14, <1>18, <1>19

-----------------------------------------------------------------------------
(* The shortlist *)

(* The supplements are the rows of a supplemental id that no area took.      *)
LEMMA SupplementsPicked ==
    ASSUME NEW R, Rated(R), NEW rows \in Seq(R), NEW chosen, NEW places,
           places = {i \in DOMAIN rows : rows[i].id \in SupplementalIds \ Ids(chosen)}
    PROVE  Picked(Supplements(rows, chosen), R, rows, places)
<1>1. PICK order : order = {x \in places \X places : \/ rows[x[1]].id < rows[x[2]].id
                                                     \/ rows[x[1]].id = rows[x[2]].id /\ x[1] <= x[2]}
  OBVIOUS
<1>2. \A i \in places : i \in DOMAIN rows /\ i \in Int /\ rows[i].id \in Int
  <2>1. \A i \in DOMAIN rows : i \in Int /\ rows[i] \in R
    BY LenProperties
  <2> QED BY <2>1 DEF Rated
<1>3. \A i, j \in places : <<i, j>> \in order <=> \/ rows[i].id < rows[j].id
                                                  \/ rows[i].id = rows[j].id /\ i <= j
  BY <1>1
<1>4. Orders(order, places)
  <2>1. PICK id : id = [i \in places |-> rows[i].id]
    OBVIOUS
  <2>2. \A i \in places : i \in Int /\ id[i] \in Int
    BY <1>2, <2>1
  <2>3. \A i, j \in places : <<i, j>> \in order <=> id[i] < id[j] \/ (id[i] = id[j] /\ i <= j)
    BY <1>3, <2>1
  <2>4. ASSUME NEW i \in places, NEW j \in places PROVE <<i, j>> \in order \/ <<j, i>> \in order
    <3>1. \/ id[i] < id[j] \/ (id[i] = id[j] /\ i <= j)
          \/ id[j] < id[i] \/ (id[j] = id[i] /\ j <= i)
      BY <2>2
    <3> QED BY <2>3, <3>1
  <2>5. \A i, j \in places : <<i, j>> \in order /\ <<j, i>> \in order => i = j
    BY <2>2, <2>3
  <2>6. ASSUME NEW i \in places, NEW j \in places, NEW k \in places,
               <<i, j>> \in order, <<j, k>> \in order
        PROVE  <<i, k>> \in order
    <3>1. id[i] < id[j] \/ (id[i] = id[j] /\ i <= j)
      BY <2>3, <2>6
    <3>2. id[j] < id[k] \/ (id[j] = id[k] /\ j <= k)
      BY <2>3, <2>6
    <3>3. id[i] < id[k] \/ (id[i] = id[k] /\ i <= k)
      BY <2>2, <3>1, <3>2
    <3> QED BY <2>3, <3>3
  <2> QED BY <2>4, <2>5, <2>6 DEF Orders
<1>5. places \in SUBSET DOMAIN rows
  BY <1>2
<1>6. Supplements(rows, chosen) = Listed(rows, places, order)
  BY <1>1 DEF Supplements
<1>7. Picked(Listed(rows, places, order), R, rows, places)
  BY <1>4, <1>5, ListedPicked
<1> QED BY <1>6, <1>7

(* A function over the places up to some number is a list of its values.     *)
LEMMA ListOfItsRows ==
    ASSUME NEW s, NEW n \in Nat, DOMAIN s = 1..n, s = [i \in DOMAIN s |-> s[i]]
    PROVE  s \in Seq(ToSet(s))
<1>1. \A i \in 1..n : s[i] \in ToSet(s)
  BY DEF ToSet
<1>2. s \in [1..n -> ToSet(s)]
  BY <1>1
<1> QED BY <1>2, SeqDef

(* What stands in a shortlist: the areas' rows, then the supplements.        *)
LEMMA SelectBalances ==
    ASSUME QueueTyped(queue), OnePerPage(queue), NEW asOf, Select(asOf)
    PROVE  ShortlistIsBalanced' /\ shortlist' \in Seq(ToSet(shortlist'))
<1>1. PICK rows : rows = LoadCandidates(queue, asOf)
  OBVIOUS
<1>2. PICK R : Rated(R) /\ rows \in Seq(R) /\ OnePerPage(rows)
  BY <1>1, PreparedRated
<1>3. PICK chosen : chosen = SelectAreas(rows)
  OBVIOUS
<1>4. PICK more : more = Supplements(rows, chosen)
  OBVIOUS
<1>5. PICK all : all = chosen \o more
  OBVIOUS
<1>6. PICK list : list = shortlist'
  OBVIOUS
<1>7. /\ \A a \in TargetAreas : Cardinality(InArea(chosen, a)) = AreaQuota[a]
      /\ SupplementalIds \subseteq Ids(rows)
      /\ list = [i \in 1..Len(all) |-> [id |-> all[i].id, url |-> all[i].url, area |-> all[i].area]]
  BY <1>1, <1>3, <1>4, <1>5, <1>6 DEF Select, Selectable
<1>8. chosen \in Seq(R) /\ OnePerPage(chosen)
  <2>1. Fresh(chosen, R, rows, <<>>)
    BY <1>2, <1>3, SelectAreasFresh
  <2> QED BY <1>2, <2>1 DEF Fresh
<1>9. PICK places : places = {i \in DOMAIN rows : rows[i].id \in SupplementalIds \ Ids(chosen)}
  OBVIOUS
<1>10. PICK p : PickedBy(p, more, R, rows, places)
  <2>1. Picked(more, R, rows, places)
    BY <1>2, <1>4, <1>9, SupplementsPicked
  <2> QED BY <2>1 DEF Picked
<1>11. /\ more \in Seq(R)
       /\ \A k \in DOMAIN more : more[k] = rows[p[k]] /\ p[k] \in places
       /\ \A k, l \in DOMAIN more : p[k] = p[l] => k = l
       /\ \A i \in places : \E k \in DOMAIN more : p[k] = i
  BY <1>10 DEF PickedBy
<1>12. \A k \in DOMAIN more : /\ p[k] \in DOMAIN rows
                              /\ more[k].id \in SupplementalIds /\ more[k].id \notin Ids(chosen)
  BY <1>9, <1>11
<1>13. /\ DOMAIN all = 1..Len(all) /\ all \in Seq(R)
       /\ \A k \in DOMAIN chosen : k \in DOMAIN all /\ all[k] = chosen[k]
       /\ \A k \in DOMAIN all : k \notin DOMAIN chosen =>
             k - Len(chosen) \in DOMAIN more /\ all[k] = more[k - Len(chosen)]
  <2>1. all \in Seq(R)
    BY <1>5, <1>8, <1>11, ConcatProperties
  <2>2. \A k \in DOMAIN chosen : k \in DOMAIN all /\ all[k] = chosen[k]
    BY <1>5, <1>8, <1>11, ConcatSet
  <2>3. \A k \in DOMAIN all : k \notin DOMAIN chosen =>
             k - Len(chosen) \in DOMAIN more /\ all[k] = more[k - Len(chosen)]
    BY <1>5, <1>8, <1>11, ConcatSet
  <2> QED BY <2>1, <2>2, <2>3, LenProperties
<1>14. \A x : x \in Ids(all) <=> x \in Ids(chosen) \/ x \in Ids(more)
  BY <1>5, <1>8, <1>11, ConcatSet
<1>15. /\ DOMAIN list = DOMAIN all
       /\ \A i \in DOMAIN all : /\ list[i].id = all[i].id /\ list[i].url = all[i].url
                                /\ list[i].area = all[i].area
  BY <1>7, <1>13
<1>16. ASSUME NEW a \in TargetAreas
       PROVE  /\ Cardinality(InArea(list, a)) >= AreaQuota[a]
              /\ Cardinality({i \in InArea(list, a) : list[i].id \notin SupplementalIds}) <= AreaQuota[a]
  <2>1. PICK S, T, U : /\ S = InArea(chosen, a) /\ T = InArea(list, a)
                       /\ U = {i \in InArea(list, a) : list[i].id \notin SupplementalIds}
    OBVIOUS
  <2>2. S \subseteq T
    BY <1>13, <1>15, <2>1 DEF InArea
  <2>3. U \subseteq S
    <3> SUFFICES ASSUME NEW i \in U PROVE i \in S
      OBVIOUS
    <3>1. i \in DOMAIN all /\ all[i].id \notin SupplementalIds /\ all[i].area = a
      BY <1>15, <2>1 DEF InArea
    <3>2. i \in DOMAIN chosen
      BY <1>12, <1>13, <3>1
    <3> QED BY <1>13, <2>1, <3>1, <3>2 DEF InArea
  <2>4. IsFiniteSet(S) /\ IsFiniteSet(T) /\ Cardinality(S) \in Nat /\ Cardinality(T) \in Nat
    <3>1. S \in SUBSET DOMAIN chosen /\ T \in SUBSET DOMAIN all
      BY <1>15, <2>1 DEF InArea
    <3> QED BY <1>8, <1>13, <3>1, FinitePlaces
  <2>5. Cardinality(S) <= Cardinality(T) /\ Cardinality(U) <= Cardinality(S)
    BY <2>2, <2>3, <2>4, FS_Subset
  <2>6. Cardinality(S) = AreaQuota[a]
    BY <1>7, <2>1
  <2>7. Cardinality(U) \in Nat
    BY <2>3, <2>4, FS_Subset, FS_CardinalityType
  <2> QED BY <2>1, <2>4, <2>5, <2>6, <2>7
<1>17. SupplementalIds \subseteq Ids(list)
  <2> SUFFICES ASSUME NEW x \in SupplementalIds PROVE x \in Ids(list)
    OBVIOUS
  <2>1. x \in Ids(all)
    <3>1. CASE x \in Ids(chosen)
      BY <1>14, <3>1
    <3>2. CASE x \notin Ids(chosen)
      <4>1. PICK i \in DOMAIN rows : x = rows[i].id
        BY <1>7 DEF Ids
      <4>2. PICK k \in DOMAIN more : p[k] = i
        BY <1>9, <1>11, <3>2, <4>1
      <4>3. x \in Ids(more)
        BY <1>11, <4>1, <4>2 DEF Ids
      <4> QED BY <1>14, <4>3
    <3> QED BY <3>1, <3>2
  <2> QED BY <1>15, <2>1 DEF Ids
<1>18. OnePerPage(all)
  <2>1. OnePerPage(more)
    BY <1>2, <1>11, <1>12 DEF OnePerPage
  <2>2. \A i \in DOMAIN chosen, j \in DOMAIN more : chosen[i].id # more[j].id
    BY <1>12 DEF Ids
  <2> QED BY <1>5, <1>8, <1>11, <2>1, <2>2, ConcatOnePerPage
<1>19. \A i, j \in DOMAIN list : list[i].id = list[j].id /\ list[i].url = list[j].url => i = j
  BY <1>15, <1>18 DEF OnePerPage
<1>20. list \in Seq(ToSet(list))
  <2>1. PICK n \in Nat : n = Len(all)
    BY <1>13, LenProperties
  <2>2. DOMAIN list = 1..n /\ list = [i \in DOMAIN list |-> list[i]]
    BY <1>7, <2>1
  <2> QED BY <2>2, ListOfItsRows
<1> QED BY <1>6, <1>16, <1>17, <1>19, <1>20 DEF ShortlistIsBalanced

(* What the queue file holds can be selected from, and the shortlist file    *)
(* holds what a selection wrote.                                            *)
SelectionInv ==
    /\ FilesTyped /\ QueueTyped(queue) /\ OnePerPage(queue)
    /\ ShortlistIsBalanced /\ shortlist \in Seq(ToSet(shortlist))

LEMMA SelectionStarts == SupplyInit => SelectionInv
<1> SUFFICES ASSUME SupplyInit PROVE SelectionInv
  OBVIOUS
<1>1. FilesTyped
  BY DEF SupplyInit, FilesTyped
<1>2. QueueTyped(queue) /\ OnePerPage(queue)
  <2>1. queue = <<>>
    BY DEF SupplyInit
  <2>2. Len(<<>>) = 0 /\ DOMAIN <<>> = {} /\ 1..0 = {}
    OBVIOUS
  <2> QED BY <2>1, <2>2 DEF QueueTyped, OnePerPage
<1>3. ShortlistIsBalanced /\ shortlist \in Seq(ToSet(shortlist))
  BY EmptySeq DEF SupplyInit, ShortlistIsBalanced
<1> QED BY <1>1, <1>2, <1>3 DEF SelectionInv

LEMMA SelectionStep == SelectionInv /\ [SupplyNext]_vars => SelectionInv'
<1> SUFFICES ASSUME SelectionInv, [SupplyNext]_vars PROVE SelectionInv'
  OBVIOUS
<1>1. CASE CaptureDrafts \/ CaptureWeb \/ CaptureSocial
  <2>1. FilesTyped' /\ UNCHANGED <<queue, shortlist>>
    BY <1>1 DEF CaptureDrafts, CaptureWeb, CaptureSocial, Captured, SelectionInv, FilesTyped
  <2> QED BY <2>1 DEF SelectionInv, QueueTyped, OnePerPage, ShortlistIsBalanced
<1>2. CASE Queue
  <2>1. queue' = BuildQueue(files) /\ UNCHANGED <<files, shortlist>> /\ FilesTyped
    BY <1>2 DEF Queue, SelectionInv
  <2>2. FilesTyped' /\ ShortlistIsBalanced' /\ shortlist' \in Seq(ToSet(shortlist'))
    BY <2>1 DEF SelectionInv, FilesTyped, ShortlistIsBalanced
  <2>3. QueueTyped(queue') /\ OnePerPage(queue')
    BY <2>1, QueueMade
  <2>4. QueueTyped(queue)' /\ OnePerPage(queue)'
    BY <2>3 DEF QueueTyped, OnePerPage
  <2> QED BY <2>2, <2>4 DEF SelectionInv
<1>3. CASE \E d \in AsOf : Select(d)
  <2>1. PICK d \in AsOf : Select(d)
    BY <1>3
  <2>2. QueueTyped(queue) /\ OnePerPage(queue) /\ FilesTyped
    BY DEF SelectionInv
  <2>3. ShortlistIsBalanced' /\ shortlist' \in Seq(ToSet(shortlist'))
    BY <2>1, <2>2, SelectBalances
  <2>4. UNCHANGED <<files, queue>>
    BY <2>1 DEF Select
  <2>5. FilesTyped' /\ QueueTyped(queue)' /\ OnePerPage(queue)'
    BY <2>2, <2>4 DEF FilesTyped, QueueTyped, OnePerPage
  <2> QED BY <2>3, <2>5 DEF SelectionInv
<1>4. CASE UNCHANGED <<files, queue, shortlist>>
  BY <1>4 DEF SelectionInv, FilesTyped, QueueTyped, OnePerPage, ShortlistIsBalanced
<1> QED BY <1>1, <1>2, <1>3, <1>4
    DEF vars, SupplyNext, Curate, Review, Publish, Attest, Withdraw, Promote, Build, StartService, DayPasses

(* Whatever is captured, in whatever order the scripts run: the queue on file *)
(* holds comparable rows, one for an id and a page, and the shortlist on file *)
(* is one that a selection of such rows wrote.                                *)
THEOREM SelectionInvariant == SupplySpec => []SelectionInv
BY SelectionStarts, SelectionStep, PTL DEF SupplySpec

(* The shortlist depends on what the queue holds and not on the order of its  *)
(* rows: _take_diverse ranks by a total order, whatever is captured.          *)
THEOREM OrderIsIgnored == SupplySpec => []SelectionIgnoresOrder
<1>1. SelectionInv => SelectionIgnoresOrder
  BY OrderDoesNotShow DEF SelectionInv
<1> QED BY <1>1, SelectionInvariant, PTL

(* A written shortlist fills every area to its quota, exceeds one only by a    *)
(* supplement, has every supplement, and repeats no id on one page.            *)
THEOREM ShortlistBalanced == SupplySpec => []ShortlistIsBalanced
<1>1. SelectionInv => ShortlistIsBalanced
  BY DEF SelectionInv
<1> QED BY <1>1, SelectionInvariant, PTL

-----------------------------------------------------------------------------
(* What is published *)

(* The ledger holds only decisions a reviewer wrote.                         *)
LedgerIsAttested == \A id \in DOMAIN ledger : [id |-> id, review |-> ledger[id]] \in attested

(* The files hold what their scripts write.                                  *)
ChainTyped ==
    /\ today \in 1..MaxDay /\ captures \in 0..MaxCaptures
    /\ \A id \in DOMAIN ledger : [id |-> id, review |-> ledger[id]] \in Reviews
    /\ attested \subseteq Reviews
    /\ sheet \in Seq(ToSet(sheet)) /\ \A r \in ToSet(sheet) : r.verification = "verified"
    /\ artifact.schema \in BOOLEAN
    /\ \A r \in artifact.records \cup ckb : r.fictional \in BOOLEAN

(* Review days are days.                                                     *)
DaysAreTyped ==
    /\ \A r \in ToSet(sheet) : r.verified_at \in Nat
    /\ \A r \in artifact.records \cup ckb : r.verified_at \in Nat

SupplyInv ==
    /\ ChainTyped /\ LedgerIsAttested /\ DaysAreTyped
    /\ PublishedWasAttested /\ IdsAreUnique /\ OnlyLoadable /\ BuiltCurrent

-----------------------------------------------------------------------------
(* A row that conforms today conforms on any later day.                      *)
LEMMA ConformsLater ==
    ASSUME NEW r, r.verified_at \in Nat, NEW d \in Nat, Conforms(r, d)
    PROVE  Conforms(r, d + 1)
BY DEF Conforms

(* A row of a promotion says what the ledger says under its id.              *)
LEMMA PromotedRows ==
    ASSUME NEW i \in Approved
    PROVE  /\ SeedRow(i).id = shortlist[i].id
           /\ SeedRow(i).id \in DOMAIN ledger
           /\ SeedRow(i).verification = "verified"
           /\ SeedRow(i).verified_at = ledger[SeedRow(i).id].at
           /\ SeedRow(i).verified_by = ledger[SeedRow(i).id].by
           /\ SeedRow(i).facts = ledger[SeedRow(i).id].facts
           /\ ledger[SeedRow(i).id].decision = "approve"
BY DEF Approved, SeedRow

(* The records of a build are the sheet's rows and the fixtures.             *)
LEMMA BuiltRecords ==
    ASSUME NEW fixtures \in Quarantines, NEW asOf, sheet \in Seq(ToSet(sheet)),
           NEW r \in ToSet(Records(fixtures, asOf)), RowsStand(fixtures, asOf)
    PROVE  \/ \E q \in ToSet(sheet) : r = RecordOf(q, asOf) /\ RowParses(q, asOf)
           \/ \E i \in DOMAIN fixtures : r = fixtures[i] /\ FixtureParses(r)
<1>1. PICK s, R : s = SheetRecords(asOf) /\ R = ToSet(s) \cup ToSet(fixtures)
  OBVIOUS
<1>2. PICK n \in Nat : DOMAIN sheet = 1..n
  BY LenProperties
<1>3. DOMAIN s = 1..n /\ \A k \in 1..n : s[k] = RecordOf(sheet[k], asOf)
  BY <1>1, <1>2 DEF SheetRecords
<1>4. s \in Seq(R) /\ fixtures \in Seq(R)
  <2>1. s = [k \in DOMAIN s |-> s[k]]
    BY <1>1 DEF SheetRecords
  <2>2. s \in Seq(ToSet(s)) /\ fixtures \in Seq(ToSet(fixtures))
    BY <1>3, <2>1, ListOfItsRows, SupplyAssumption
  <2>3. s \in [1..Len(s) -> ToSet(s)] /\ fixtures \in [1..Len(fixtures) -> ToSet(fixtures)]
        /\ Len(s) \in Nat /\ Len(fixtures) \in Nat
    BY <2>2, LenProperties
  <2>4. s \in [1..Len(s) -> R] /\ fixtures \in [1..Len(fixtures) -> R]
    BY <1>1, <2>3
  <2> QED BY <2>3, <2>4, SeqDef
<1>5. PICK st : st = s \o fixtures
  OBVIOUS
<1>6. r \in ToSet(s) \/ r \in ToSet(fixtures)
  BY <1>1, <1>4, <1>5, ConcatSet DEF Records
<1>7. CASE r \in ToSet(s)
  <2>1. PICK k \in 1..n : r = RecordOf(sheet[k], asOf)
    BY <1>3, <1>7 DEF ToSet
  <2>2. RowParses(sheet[k], asOf) /\ sheet[k] \in ToSet(sheet)
    BY <1>2, <2>1 DEF RowsStand, ToSet
  <2> QED BY <2>1, <2>2
<1>8. CASE r \in ToSet(fixtures)
  BY <1>8 DEF RowsStand, ToSet
<1> QED BY <1>6, <1>7, <1>8

(* A promotion writes the approved rows of the shortlist, in its order.      *)
LEMMA PromotedSheet ==
    ASSUME shortlist \in Seq(ToSet(shortlist)), NEW asOf, Promote(asOf)
    PROVE  /\ sheet' \in Seq(ToSet(sheet')) /\ DistinctIds(sheet')
           /\ ToSet(sheet') = {SeedRow(i) : i \in Approved}
<1>1. PICK rows, R : rows = [i \in DOMAIN shortlist |-> SeedRow(i)] /\ R = ToSet(rows)
  OBVIOUS
<1>2. rows \in Seq(R)
  <2>1. PICK n \in Nat : DOMAIN shortlist = 1..n
    BY LenProperties
  <2>2. DOMAIN rows = 1..n /\ rows = [i \in DOMAIN rows |-> rows[i]]
    BY <1>1, <2>1
  <2> QED BY <1>1, <2>2, ListOfItsRows
<1>3. PICK places : places = Approved
  OBVIOUS
<1>4. places \in SUBSET DOMAIN rows /\ places \in SUBSET DOMAIN shortlist
  BY <1>1, <1>3 DEF Approved
<1>5. PICK s : s = Those(rows, places)
  OBVIOUS
<1>6. Picked(s, R, rows, places)
  BY <1>2, <1>4, <1>5, ThosePicked
<1>7. DistinctIds(rows)
  <2>1. \A i \in DOMAIN rows : rows[i].id = shortlist[i].id /\ i \in DOMAIN shortlist
    BY <1>1 DEF SeedRow
  <2> QED BY <2>1 DEF DistinctIds, Promote, NoneTwice
<1>8. s \in Seq(R) /\ DOMAIN s = 1..Len(s) /\ ToSet(s) = {rows[i] : i \in places} /\ DistinctIds(s)
  BY <1>4, <1>6, <1>7, PickedKeeps
<1>9. s \in Seq(ToSet(s))
  <2>1. Len(s) \in Nat /\ s = [i \in DOMAIN s |-> s[i]]
    BY <1>8, LenProperties
  <2> QED BY <1>8, <2>1, ListOfItsRows
<1>10. sheet' = s
  BY <1>1, <1>3, <1>5 DEF Promote
<1>11. {rows[i] : i \in places} = {SeedRow(i) : i \in Approved}
  BY <1>1, <1>3, <1>4
<1> QED BY <1>8, <1>9, <1>10, <1>11

-----------------------------------------------------------------------------
(* At the start nothing is published.                                        *)
LEMMA SupplyStarts == SupplyInit => SupplyInv
<1> SUFFICES ASSUME SupplyInit PROVE SupplyInv
  OBVIOUS
<1> USE SupplyAssumption DEF SupplyInit, NoArtifact
<1>0. ToSet(sheet) = {} /\ sheet \in Seq(ToSet(sheet))
  BY EmptySeq DEF ToSet
<1>1. ChainTyped /\ LedgerIsAttested /\ DaysAreTyped
  BY <1>0 DEF ChainTyped, LedgerIsAttested, DaysAreTyped
<1>2. PublishedWasAttested /\ BuiltCurrent
  BY <1>0 DEF PublishedWasAttested, BuiltCurrent
<1>3. IdsAreUnique /\ OnlyLoadable
  BY DEF IdsAreUnique, OnlyLoadable, DistinctIds, UniqueIds, Loads
<1> QED
  BY <1>1, <1>2, <1>3 DEF SupplyInv

(* A step that leaves the review and what is published alone keeps all.      *)
LEMMA CurationKeeps ==
    ASSUME SupplyInv, UNCHANGED <<today, ledger, sheet, artifact, ckb, attested>>,
           captures' \in 0..MaxCaptures
    PROVE  SupplyInv'
BY DEF SupplyInv, ChainTyped, LedgerIsAttested, DaysAreTyped, PublishedWasAttested, Backed,
       IdsAreUnique, DistinctIds, UniqueIds, OnlyLoadable, Loads, BuiltCurrent

(* New decisions and withdrawals leave every published row backed.           *)
LEMMA ReviewKeeps ==
    ASSUME SupplyInv, UNCHANGED <<today, captures, shortlist, sheet, artifact, ckb>>,
           attested \subseteq attested', attested' \subseteq Reviews,
           LedgerIsAttested'
    PROVE  SupplyInv'
<1>1. ChainTyped'
  BY DEF SupplyInv, ChainTyped, LedgerIsAttested
<1>2. PublishedWasAttested'
  <2>1. \A r : Backed(r) => Backed(r)'
    BY DEF Backed
  <2> QED
    BY <2>1 DEF SupplyInv, PublishedWasAttested
<1>3. (DaysAreTyped /\ IdsAreUnique /\ OnlyLoadable /\ BuiltCurrent)'
  BY DEF SupplyInv, DaysAreTyped, IdsAreUnique, DistinctIds, UniqueIds, OnlyLoadable, Loads,
         BuiltCurrent
<1> QED
  BY <1>1, <1>2, <1>3 DEF SupplyInv

LEMMA AttestKeeps ==
    ASSUME SupplyInv, NEW i \in DOMAIN shortlist, NEW x \in Reviews, Attest(i, x)
    PROVE  SupplyInv'
<1>1. x = [id |-> x.id, review |-> x.review]
  BY SupplyAssumption
<1>2. attested \subseteq attested' /\ attested' \subseteq Reviews
  BY DEF Attest, SupplyInv, ChainTyped
<1>3. LedgerIsAttested'
  BY <1>1 DEF Attest, SupplyInv, LedgerIsAttested
<1> QED
  BY <1>2, <1>3, ReviewKeeps DEF Attest

LEMMA WithdrawKeeps ==
    ASSUME SupplyInv, NEW id \in DOMAIN ledger, Withdraw(id)
    PROVE  SupplyInv'
<1>1. LedgerIsAttested'
  BY DEF Withdraw, SupplyInv, LedgerIsAttested
<1>2. attested' \subseteq Reviews
  BY DEF Withdraw, SupplyInv, ChainTyped
<1> QED
  BY <1>1, <1>2, ReviewKeeps DEF Withdraw

(* A promotion writes rows with ids of their own that the ledger approves.   *)
LEMMA PromoteKeeps ==
    ASSUME SupplyInv, shortlist \in Seq(ToSet(shortlist)), NEW asOf \in AsOf, Promote(asOf)
    PROVE  SupplyInv'
<1>1. UNCHANGED <<today, shortlist, ledger, artifact, ckb, attested, captures>>
  BY DEF Promote
<1>0. PICK rows : rows = {SeedRow(i) : i \in Approved}
  OBVIOUS
<1>5. ToSet(sheet)' = rows /\ DistinctIds(sheet)' /\ sheet' \in Seq(rows)
  BY <1>0, PromotedSheet DEF DistinctIds, ToSet
<1>2. ASSUME NEW i \in Approved
      PROVE  /\ Backed(SeedRow(i))
             /\ SeedRow(i).verification = "verified"
             /\ SeedRow(i).verified_at \in Nat
  <2>1. i \in DOMAIN shortlist /\ DecisionStands(i, asOf)
    BY DEF Promote, Approved
  <2> DEFINE id == shortlist[i].id
             h  == [id |-> id, review |-> ledger[id]]
  <2>2. id \in DOMAIN ledger /\ ledger[id].decision = "approve" /\ IsHuman(ledger[id].by)
    BY <2>1 DEF Approved, DecisionStands
  <2>3. h \in attested /\ h \in Reviews
    BY <2>2 DEF SupplyInv, ChainTyped, LedgerIsAttested
  <2>4. ledger[id].at \in Nat
    BY <2>3, SupplyAssumption
  <2>5. Backed(SeedRow(i))
    BY <2>2, <2>3, PromotedRows DEF Backed
  <2> QED
    BY <2>1, <2>4, <2>5, PromotedRows DEF SupplyInv
<1>3. (ChainTyped /\ LedgerIsAttested /\ DaysAreTyped)'
  BY <1>0, <1>1, <1>2, <1>5 DEF SupplyInv, ChainTyped, LedgerIsAttested, DaysAreTyped
<1>4. PublishedWasAttested'
  BY <1>0, <1>1, <1>2, <1>5 DEF SupplyInv, PublishedWasAttested, Backed
<1>6. (IdsAreUnique /\ OnlyLoadable /\ BuiltCurrent)'
  BY <1>1, <1>5 DEF SupplyInv, IdsAreUnique, UniqueIds, OnlyLoadable, Loads, BuiltCurrent
<1> QED
  BY <1>3, <1>4, <1>6 DEF SupplyInv

(* A build publishes current rows of the sheet, with their backing, and      *)
(* fixtures that are unverified.                                            *)
LEMMA BuildKeeps ==
    ASSUME SupplyInv, NEW fixtures \in Quarantines, NEW asOf \in AsOf, NEW schema \in BOOLEAN,
           NEW all \in BOOLEAN, NEW gone \in Answers, Build(fixtures, asOf, schema, all, gone)
    PROVE  SupplyInv'
<1> DEFINE rows == ToSet(Records(fixtures, asOf))
<1>1. /\ artifact' = [records |-> rows, schema |-> schema]
      /\ UNCHANGED <<today, shortlist, ledger, sheet, ckb, attested, captures>>
      /\ RowsStand(fixtures, asOf)
      /\ schema => \A r \in rows : Conforms(r, today)
  BY DEF Build
<1>2. ASSUME NEW r \in rows
      PROVE  /\ r.fictional \in BOOLEAN /\ r.verified_at \in Nat
             /\ IF r.fictional THEN r.verification = "unverified" ELSE Backed(r)
             /\ ~r.fictional => /\ r.verified_at <= r.last_seen
                                /\ r.facts.schedule.kind = "fixed_dates" =>
                                      \A d \in r.facts.schedule.dates : d >= r.last_seen
  <2>1. CASE \E q \in ToSet(sheet) : r = RecordOf(q, asOf) /\ RowParses(q, asOf)
    <3>0. PICK q \in ToSet(sheet) : r = RecordOf(q, asOf) /\ RowParses(q, asOf)
      BY <2>1
    <3>1. Backed(q) /\ q.verified_at \in Nat /\ q.verification = "verified"
      BY DEF SupplyInv, ChainTyped, DaysAreTyped, PublishedWasAttested
    <3>2. /\ r.id = q.id /\ r.verified_at = q.verified_at /\ r.verified_by = q.verified_by
          /\ r.facts = q.facts /\ r.fictional = FALSE /\ r.last_seen = asOf
      BY <3>0, <3>1 DEF RecordOf
    <3>3. Backed(r)
      BY <3>1, <3>2 DEF Backed
    <3>4. r.verified_at <= r.last_seen
      BY <3>0, <3>2 DEF RowParses
    <3>5. r.facts.schedule.kind = "fixed_dates" => \A d \in r.facts.schedule.dates : d >= r.last_seen
      BY <3>0, <3>2 DEF RowParses, ScheduleParses
    <3> QED
      BY <3>1, <3>2, <3>3, <3>4, <3>5
  <2>2. CASE \E i \in DOMAIN fixtures : r = fixtures[i] /\ FixtureParses(r)
    BY <2>2, SupplyAssumption DEF FixtureParses, NoDay
  <2> QED
    BY <1>1, <2>1, <2>2, BuiltRecords DEF SupplyInv, ChainTyped
<1>3. (ChainTyped /\ LedgerIsAttested /\ DaysAreTyped)'
  BY <1>1, <1>2 DEF SupplyInv, ChainTyped, LedgerIsAttested, DaysAreTyped
<1>4. PublishedWasAttested'
  BY <1>1, <1>2 DEF SupplyInv, PublishedWasAttested, Backed
<1>7. UniqueIds(rows)
  BY <1>1 DEF RowsStand, DistinctIds, UniqueIds, ToSet
<1>5. IdsAreUnique' /\ OnlyLoadable'
  BY <1>1, <1>7 DEF SupplyInv, IdsAreUnique, DistinctIds, UniqueIds, OnlyLoadable, Loads
<1>6. BuiltCurrent'
  BY <1>1, <1>2 DEF SupplyInv, BuiltCurrent
<1> QED
  BY <1>3, <1>4, <1>5, <1>6 DEF SupplyInv

(* The service start takes an artifact that loads, as it is.                 *)
LEMMA StartKeeps ==
    ASSUME SupplyInv, StartService
    PROVE  SupplyInv'
<1>1. ckb' = artifact.records /\ Loads(artifact.records)
      /\ UNCHANGED <<today, shortlist, ledger, sheet, artifact, attested, captures>>
  BY DEF StartService
<1>2. (ChainTyped /\ LedgerIsAttested /\ DaysAreTyped)'
  BY <1>1 DEF SupplyInv, ChainTyped, LedgerIsAttested, DaysAreTyped
<1>3. (PublishedWasAttested /\ BuiltCurrent)'
  BY <1>1 DEF SupplyInv, PublishedWasAttested, Backed, BuiltCurrent
<1>4. (IdsAreUnique /\ OnlyLoadable)'
  BY <1>1 DEF SupplyInv, IdsAreUnique, DistinctIds, UniqueIds, OnlyLoadable, Loads
<1> QED
  BY <1>2, <1>3, <1>4 DEF SupplyInv

(* A day makes nothing that loaded unreadable.                               *)
LEMMA DayKeeps ==
    ASSUME SupplyInv, DayPasses
    PROVE  SupplyInv'
<1>1. today' = today + 1 /\ today \in Nat /\ today' \in 1..MaxDay
      /\ UNCHANGED <<shortlist, ledger, sheet, artifact, ckb, attested, captures>>
  BY SupplyAssumption DEF DayPasses, SupplyInv, ChainTyped
<1>2. \A r \in artifact.records \cup ckb : Conforms(r, today) => Conforms(r, today')
  BY <1>1, ConformsLater DEF SupplyInv, DaysAreTyped
<1>3. OnlyLoadable'
  BY <1>1, <1>2 DEF SupplyInv, OnlyLoadable, Loads, UniqueIds
<1>4. (ChainTyped /\ LedgerIsAttested /\ DaysAreTyped)'
  BY <1>1 DEF SupplyInv, ChainTyped, LedgerIsAttested, DaysAreTyped
<1>5. (PublishedWasAttested /\ IdsAreUnique /\ BuiltCurrent)'
  BY <1>1 DEF SupplyInv, PublishedWasAttested, Backed, IdsAreUnique, DistinctIds, UniqueIds, BuiltCurrent
<1> QED
  BY <1>3, <1>4, <1>5 DEF SupplyInv

-----------------------------------------------------------------------------
(* Every step of curation, review, publication and service keeps SupplyInv.  *)
LEMMA SupplyStep == SupplyInv /\ SelectionInv /\ [SupplyNext]_vars => SupplyInv'
<1> SUFFICES ASSUME SupplyInv, SelectionInv, [SupplyNext]_vars PROVE SupplyInv'
  OBVIOUS
<1>1. CASE Curate
  <2>1. UNCHANGED <<today, ledger, sheet, artifact, ckb, attested>>
    BY <1>1 DEF Curate, CaptureDrafts, CaptureWeb, CaptureSocial, Captured, Queue, Select
  <2>2. captures' \in 0..MaxCaptures
    BY <1>1, SupplyAssumption
    DEF Curate, CaptureDrafts, CaptureWeb, CaptureSocial, Captured, Queue, Select, SupplyInv, ChainTyped
  <2> QED
    BY <2>1, <2>2, CurationKeeps
<1>2. CASE Review
  BY <1>2, AttestKeeps, WithdrawKeeps DEF Review
<1>3. CASE Publish
  BY <1>3, PromoteKeeps, BuildKeeps DEF Publish, SelectionInv
<1>4. CASE StartService
  BY <1>4, StartKeeps
<1>5. CASE DayPasses
  BY <1>5, DayKeeps
<1>6. CASE UNCHANGED vars
  BY <1>6, CurationKeeps DEF vars, SupplyInv, ChainTyped
<1> QED
  BY <1>1, <1>2, <1>3, <1>4, <1>5, <1>6 DEF SupplyNext

(* The conjunction of the supply chain's properties is an invariant.         *)
THEOREM SupplyInvariant == SupplySpec => []SupplyInv
BY SupplyStarts, SupplyStep, SelectionInvariant, PTL DEF SupplySpec

(* Nothing is published as real that no human approved: however files are    *)
(* refreshed, the ledger edited and artifacts rebuilt.                      *)
THEOREM PublishedIsAttested == SupplySpec => []PublishedWasAttested
<1>1. SupplyInv => PublishedWasAttested
  BY DEF SupplyInv
<1> QED
  BY <1>1, SupplyInvariant, PTL

(* An id names one row in the sheet, the artifact and the runtime.           *)
THEOREM IdsStayUnique == SupplySpec => []IdsAreUnique
<1>1. SupplyInv => IdsAreUnique
  BY DEF SupplyInv
<1> QED
  BY <1>1, SupplyInvariant, PTL

(* What is served satisfies the schema on every later day, and an artifact   *)
(* built with the schema installed loads whenever the service starts.       *)
THEOREM ArtifactLoads == SupplySpec => []OnlyLoadable
<1>1. SupplyInv => OnlyLoadable
  BY DEF SupplyInv
<1> QED
  BY <1>1, SupplyInvariant, PTL

(* No published session was past at the build, nor any review ahead of it.   *)
THEOREM ArtifactIsCurrent == SupplySpec => []BuiltCurrent
<1>1. SupplyInv => BuiltCurrent
  BY DEF SupplyInv
<1> QED
  BY <1>1, SupplyInvariant, PTL

(* Only a promotion writes the sheet, and it publishes the ledger's          *)
(* approvals, all of them and no other.                                     *)
THEOREM PromotesAll == SupplySpec => PromotionIsComplete
<1> DEFINE A == sheet' # sheet =>
                  /\ Ids(sheet') = {id \in DOMAIN ledger : ledger[id].decision = "approve"}
                  /\ Ids(shortlist) \subseteq DOMAIN ledger
<1>1. ASSUME SelectionInv, NEW asOf \in AsOf, Promote(asOf)
      PROVE  A
  <2>1. Ids(sheet') = {shortlist[i].id : i \in Approved}
    <3>1. ToSet(sheet') = {SeedRow(i) : i \in Approved}
      BY <1>1, PromotedSheet DEF SelectionInv
    <3>2. \A i \in Approved : SeedRow(i).id = shortlist[i].id
      BY PromotedRows
    <3>3. Ids(sheet') = {r.id : r \in ToSet(sheet')}
      BY DEF Ids, ToSet
    <3> QED
      BY <3>1, <3>2, <3>3
  <2>2. DOMAIN ledger \subseteq Ids(shortlist)
    BY <1>1 DEF Promote, NoneUnknown
  <2>3. {shortlist[i].id : i \in Approved} = {id \in DOMAIN ledger : ledger[id].decision = "approve"}
    BY <2>2 DEF Approved, Ids
  <2>4. Ids(shortlist) \subseteq DOMAIN ledger
    BY <1>1 DEF Promote, NonePending, Ids
  <2> QED
    BY <2>1, <2>3, <2>4
<1>2. SelectionInv /\ [SupplyNext]_vars => A
  <2> SUFFICES ASSUME SelectionInv, [SupplyNext]_vars, sheet' # sheet
               PROVE  \E asOf \in AsOf : Promote(asOf)
    BY <1>1
  <2> QED
    BY DEF vars, SupplyNext, Curate, Review, Publish, CaptureDrafts, CaptureWeb, CaptureSocial,
           Captured, Queue, Select, Attest, Withdraw, Build, StartService, DayPasses
<1>3. SelectionInv /\ [SupplyNext]_vars => [A]_vars
  BY <1>2
<1> QED
  BY <1>3, SelectionInvariant, PTL DEF SupplySpec, PromotionIsComplete
=============================================================================
