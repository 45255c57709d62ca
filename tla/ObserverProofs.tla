--------------------------- MODULE ObserverProofs ---------------------------
(***************************************************************************)
(* The Observer over the store, for every set of listings, vibes, debriefs  *)
(* and reports: it uses the store as PDSpec allows, so every theorem of     *)
(* PersonalDataProofs holds of it, and it learns of a booking at most once. *)
(*                                                                         *)
(* LearnsOncePerOutcome is not inductive: the preferences a report stores   *)
(* are those it read earlier, so the same must be known of what every       *)
(* report under way has read (Holds below).                                 *)
(*                                                                         *)
(* ForgottenOnlyByOverlap and AnswersFollowHistory rest on the history of a *)
(* teen: HistoryInv follows what a report under way has read of it.         *)
(***************************************************************************)
EXTENDS Observer, PersonalDataProofs

(* Preferences P of teen t know only outcomes of the table, and each once.  *)
Holds(P, t, table) ==
    LET A == P.attendance IN
    /\ \A n \in DOMAIN A : A[n] \in table /\ A[n].key.plan.teen = t
    /\ \A m, n \in DOMAIN A : A[m].key = A[n].key => m = n

ReportsTyped ==
    /\ DOMAIN report = Report
    /\ \A h \in Report : report[h].pc = "observing" =>
          /\ report[h].event \in [key : bookings, attended : BOOLEAN]
          /\ report[h].debrief \in Said \cup {NoDebrief}

LearningInv ==
    /\ prefs \in [Teen -> Preferences]
    /\ log \in [Teen -> Seq([key : Key, attended : BOOLEAN, pause : BOOLEAN])]
    /\ \A h \in Report : report[h].pc \in {"waiting", "observing", "answered", "refused"}
    /\ \A t \in Teen : Holds(prefs[t], t, attendance)
    /\ \A h \in Report : report[h].pc = "observing" =>
          report[h].was \in Preferences /\ Holds(report[h].was, report[h].event.key.plan.teen, attendance)

-----------------------------------------------------------------------------
(* The store under the Observer *)

(* A report under way names a booking, which is never removed.              *)
LEMMA ReportsStayTyped == ASSUME ReportsTyped, [ObsNext]_allVars PROVE ReportsTyped'
<1>1. CASE bookings \subseteq bookings' /\ UNCHANGED report
  BY <1>1 DEF ReportsTyped
<1>2. CASE \E t \in Teen, L \in OpeningLedger, chips \in Chips : IntakeSetup(t, L, chips)
  BY <1>1, <1>2 DEF IntakeSetup, SetupProfile, commitVars
<1>3. CASE PlanCalls
  BY <1>1, <1>3 DEF PlanCalls, obsVars, CallerSavesPlan, SavePlan, SaveGuardianVerdict,
                    CommitPlanBookings, ReplayCommit, FlagDeadListing, pdVars, commitVars
<1>4. ASSUME NEW h \in Report, NEW k \in bookings, NEW ok \in BOOLEAN, NEW d \in Said \cup {NoDebrief},
             ReportArrives(h, [key |-> k, attended |-> ok], d)
      PROVE  ReportsTyped'
  BY <1>4 DEF ReportArrives, ReportsTyped, pdVars, commitVars
<1>5. ASSUME NEW h \in Report, OutcomeLearnt(h) \/ OutcomeReplayed(h) \/ OutcomeRefused(h)
      PROVE  ReportsTyped'
  <2>1. bookings' = bookings
    BY <1>5 DEF OutcomeLearnt, OutcomeReplayed, OutcomeRefused, RecordOutcome, ReplayOutcome,
                pdVars, commitVars
  <2>2. /\ DOMAIN report' = Report /\ report'[h].pc # "observing"
        /\ \A g \in Report \ {h} : report'[g] = report[g]
    <3>1. CASE OutcomeLearnt(h)
      BY <3>1 DEF OutcomeLearnt, Answered, ReportsTyped
    <3>2. CASE OutcomeReplayed(h)
      BY <3>2 DEF OutcomeReplayed, Answered, ReportsTyped
    <3>3. CASE OutcomeRefused(h)
      BY <3>3 DEF OutcomeRefused, Refused, ReportsTyped
    <3> QED BY <1>5, <3>1, <3>2, <3>3
  <2> QED BY <2>1, <2>2 DEF ReportsTyped
<1>6. CASE UNCHANGED allVars
  BY <1>1, <1>6 DEF allVars, obsVars, pdVars, commitVars
<1> QED BY <1>2, <1>3, <1>4, <1>5, <1>6 DEF ObsNext

LEMMA ReportsAlwaysTyped == ObsSpec => []ReportsTyped
<1>1. ObsInit => ReportsTyped
  BY DEF ObsInit, ReportsTyped, Waiting
<1>2. ReportsTyped /\ [ObsNext]_allVars => ReportsTyped'
  BY ReportsStayTyped
<1> QED BY <1>1, <1>2, PTL DEF ObsSpec

(* Each step of the Observer is one call of the store, or none.             *)
LEMMA StepIsCall == ASSUME ReportsTyped, [ObsNext]_allVars PROVE [PDNext]_pdVars
<1>1. CASE \E t \in Teen, L \in OpeningLedger, chips \in Chips : IntakeSetup(t, L, chips)
  BY <1>1 DEF IntakeSetup, PDNext, Transactions
<1>2. CASE PlanCalls
  BY <1>2 DEF PlanCalls, PDNext, Transactions
<1>3. CASE \E h \in Report, k \in bookings, ok \in BOOLEAN, d \in Said \cup {NoDebrief} :
               ReportArrives(h, [key |-> k, attended |-> ok], d)
  BY <1>3 DEF ReportArrives
<1>4. ASSUME NEW h \in Report, OutcomeLearnt(h)
      PROVE  PDNext
  <2>1. report[h].event.key \in bookings /\ report[h].event.attended \in BOOLEAN
    BY <1>4 DEF OutcomeLearnt, Observing, ReportsTyped
  <2>2. RecordOutcome(report[h].event.key, report[h].event.attended)
    BY <1>4 DEF OutcomeLearnt
  <2> QED BY <2>1, <2>2 DEF PDNext, Transactions
<1>5. ASSUME NEW h \in Report, OutcomeReplayed(h) \/ OutcomeRefused(h)
      PROVE  UNCHANGED pdVars
  BY <1>5 DEF OutcomeReplayed, OutcomeRefused, ReplayOutcome
<1>6. CASE UNCHANGED allVars
  BY <1>6 DEF allVars
<1> QED BY <1>1, <1>2, <1>3, <1>4, <1>5, <1>6 DEF ObsNext

(* The service with its Observer runs the store within PDSpec, so it keeps  *)
(* the ledger, the commits and the versions of every teen right.            *)
THEOREM ObserverUsesStore == ObsSpec => PDSpec
<1>1. ObsInit => PDInit
  BY DEF ObsInit
<1>2. ReportsTyped /\ [ObsNext]_allVars => [PDNext]_pdVars
  BY StepIsCall
<1> QED BY <1>1, <1>2, ReportsAlwaysTyped, PTL DEF ObsSpec, PDSpec

-----------------------------------------------------------------------------
(* What the Observer computes *)

(* Evidence of either kind leaves an axis within its ranges.                *)
LEMMA AxesTyped ==
    ASSUME NEW A \in Axis
    PROVE  /\ \A target \in {-36, 36} : AttendanceAxis(A, target) \in Axis
           /\ \A value \in {-24, 24} : StrongerAxis(A, value) \in Axis
<1>1. /\ A = [value |-> A.value, confidence |-> A.confidence, source |-> A.source]
      /\ A.value \in -60..60 /\ A.confidence \in 0..20
      /\ A.source \in {"seed", "debrief", "attendance"}
  BY DEF Axis
<1>2. \A x \in Int : Within(x, -60, 60) \in -60..60 /\ Within(x, 0, 20) \in 0..20
  BY DEF Within
<1>3. ASSUME NEW target \in {-36, 36} PROVE AttendanceAxis(A, target) \in Axis
  <2>1. /\ A.value + 6 \in Int /\ A.value + (-6) \in Int /\ A.confidence + 1 \in Int
        /\ target \in -60..60 /\ 15 \in 0..20
    BY <1>1, <1>3
  <2>2. (A.value + (IF target > 0 THEN 6 ELSE -6)) \in Int
    BY <2>1
  <2>3. /\ Within(A.value + (IF target > 0 THEN 6 ELSE -6), -60, 60) \in -60..60
        /\ Within(A.confidence + 1, 0, 20) \in 0..20
    BY <1>2, <2>1, <2>2
  <2> QED BY <2>1, <2>3 DEF AttendanceAxis, Axis
<1>4. ASSUME NEW value \in {-24, 24} PROVE StrongerAxis(A, value) \in Axis
  BY <1>4 DEF StrongerAxis, Axis
<1> QED BY <1>3, <1>4

(* A visit moves axes only.                                                 *)
LEMMA AfterVisitPrefs ==
    ASSUME NEW P \in Preferences, NEW V \in SUBSET Vibe, NEW ok \in BOOLEAN
    PROVE  AfterVisit(P, V, ok) \in Preferences /\ AfterVisit(P, V, ok).attendance = P.attendance
<1>1. P.intensity \in Axis /\ P.contact \in Axis
  BY DEF Preferences
<1>2. /\ AttendanceAxis(P.intensity, -36) \in Axis /\ AttendanceAxis(P.intensity, 36) \in Axis
      /\ AttendanceAxis(P.contact, 36) \in Axis
  BY <1>1, AxesTyped
<1> DEFINE I == CASE ok /\ "chill" \in V -> AttendanceAxis(P.intensity, -36)
                  [] ok /\ "chill" \notin V /\ "sporty" \in V -> AttendanceAxis(P.intensity, 36)
                  [] OTHER -> P.intensity
           C == IF ok /\ "artistic" \in V THEN AttendanceAxis(P.contact, 36) ELSE P.contact
<1>3. I \in Axis /\ C \in Axis
  BY <1>1, <1>2
<1>4. AfterVisit(P, V, ok) = [P EXCEPT !.intensity = I, !.contact = C]
  BY DEF AfterVisit, Preferences
<1> HIDE DEF I, C
<1> QED BY <1>3, <1>4 DEF Preferences

(* A debrief adds to the dislikes and moves axes only.                      *)
LEMMA AfterDebriefPrefs ==
    ASSUME NEW P \in Preferences, NEW k \in Key, NEW d \in Debrief
    PROVE  AfterDebrief(P, k, d) \in Preferences /\ AfterDebrief(P, k, d).attendance = P.attendance
<1>1. k.listing \in Listing /\ Vibes[k.listing] \in SUBSET Vibe
  BY VibesAssumption DEF Key
<1> DEFINE v == ActivityVibe(Vibes[k.listing])
           D == DislikesAfter(P.dislikes, k.listing, d)
           moves == d.about = "activity" /\ Corroborated(D, v)
<1>2. v \in Vibe \cup {"other"}
  BY <1>1 DEF ActivityVibe, Vibe
<1>3. D \in Seq(Dislike)
  <2> DEFINE x == [axis |-> IF d.about = "activity" THEN v ELSE "activity_fit",
                   listing |-> k.listing, about |-> d.about]
  <2>1. d.about \in Blame
    BY DEF Debrief
  <2>2. x \in Dislike
    BY <1>1, <1>2, <2>1 DEF Dislike
  <2>3. D = IF d.negative THEN Append(P.dislikes, x) ELSE P.dislikes
    BY DEF DislikesAfter
  <2> HIDE DEF x, D
  <2>4. P.dislikes \in Seq(Dislike)
    BY DEF Preferences
  <2> QED BY <2>2, <2>3, <2>4
<1>4. P.intensity \in Axis /\ P.contact \in Axis
  BY DEF Preferences
<1>5. /\ StrongerAxis(P.intensity, -24) \in Axis /\ StrongerAxis(P.intensity, 24) \in Axis
      /\ StrongerAxis(P.contact, -24) \in Axis
  BY <1>4, AxesTyped
<1> DEFINE I == CASE moves /\ v = "sporty" -> StrongerAxis(P.intensity, -24)
                  [] moves /\ v = "chill"  -> StrongerAxis(P.intensity, 24)
                  [] OTHER -> P.intensity
           C == IF moves /\ v = "artistic" THEN StrongerAxis(P.contact, -24) ELSE P.contact
           Z == IF d.pause THEN P.paused \cup {k} ELSE P.paused
<1>6. Z \in SUBSET Key
  BY DEF Preferences
<1> HIDE DEF v, D
<1>7. I \in Axis /\ C \in Axis
  BY <1>4, <1>5
<1>8. AfterDebrief(P, k, d) = [P EXCEPT !.dislikes = D, !.paused = Z, !.intensity = I, !.contact = C]
  BY DEF AfterDebrief, Preferences, D, v
<1> HIDE DEF I, C, Z
<1> QED BY <1>3, <1>6, <1>7, <1>8 DEF Preferences

(* The adapted preferences remember one event more, and only that one.      *)
LEMMA AdaptedPrefs ==
    ASSUME NEW P \in Preferences, NEW e \in Event, NEW d \in Said \cup {NoDebrief}
    PROVE  Adapted(P, e, d) \in Preferences /\ Adapted(P, e, d).attendance = Append(P.attendance, e)
<1> DEFINE P1 == [P EXCEPT !.attendance = Append(@, e)]
           Q  == AfterVisit(P1, Vibes[e.key.listing], e.attended)
<1>1. P1 \in Preferences /\ P1.attendance = Append(P.attendance, e)
  <2>1. Append(P.attendance, e) \in Seq(Event)
    BY DEF Preferences
  <2> QED BY <2>1 DEF Preferences
<1>2. e.key \in Key /\ e.attended \in BOOLEAN /\ Vibes[e.key.listing] \in SUBSET Vibe
  BY VibesAssumption DEF Event, Key
<1> HIDE DEF P1
<1>3. Q \in Preferences /\ Q.attendance = P1.attendance
  BY <1>1, <1>2, AfterVisitPrefs
<1>4. Adapted(P, e, d) = IF d = NoDebrief THEN Q ELSE AfterDebrief(Q, e.key, d)
  BY DEF Adapted, P1
<1> HIDE DEF Q
<1>5. ASSUME d # NoDebrief
      PROVE  AfterDebrief(Q, e.key, d) \in Preferences /\ AfterDebrief(Q, e.key, d).attendance = Q.attendance
  <2>1. d \in Debrief
    BY <1>5, SaidAssumption
  <2> QED BY <1>2, <1>3, <2>1, AfterDebriefPrefs
<1> QED BY <1>1, <1>3, <1>4, <1>5

(* Whatever chips an intake sends, the seeds are preferences that remember  *)
(* nothing yet.                                                             *)
LEMMA SeededPrefs ==
    ASSUME NEW chips \in SUBSET Vibe
    PROVE  Seeded(chips) \in Preferences /\ Seeded(chips).attendance = <<>>
<1>1. \A n \in 0..1, x \in -60..60 : SeedAxis(n, x) \in Axis
  BY DEF SeedAxis, Axis
<1>2. ASSUME NEW n \in 2..3, NEW x \in -120..120
      PROVE  SeedAxis(n, x) \in Axis
  <2>1. x \div n \in -60..60
    BY <1>2
  <2> QED BY <1>2, <2>1 DEF SeedAxis, Axis
<1> DEFINE Of(c, y) == IF c \in chips THEN y ELSE 0
           sum == Of("sporty", 42) + Of("artistic", -24) + Of("chill", -48)
<1>3. SeedAxis(Of("artistic", 1), 42) \in Axis
  <2>1. Of("artistic", 1) \in 0..1 /\ 42 \in -60..60
    OBVIOUS
  <2> QED BY <1>1, <2>1
<1>4. SeedAxis(Cardinality(chips), sum) \in Axis
  <2>1. chips \in {{}, {"sporty"}, {"artistic"}, {"chill"}} \/ chips \in
            {{"sporty", "artistic"}, {"sporty", "chill"}, {"artistic", "chill"}, Vibe}
    <3>1. Vibe = {"sporty", "artistic", "chill"}
      BY DEF Vibe
    <3>2. CASE "sporty" \in chips /\ "artistic" \in chips
      BY <3>1, <3>2
    <3>3. CASE "sporty" \in chips /\ "artistic" \notin chips
      BY <3>1, <3>3
    <3>4. CASE "sporty" \notin chips /\ "artistic" \in chips
      BY <3>1, <3>4
    <3>5. CASE "sporty" \notin chips /\ "artistic" \notin chips
      BY <3>1, <3>5
    <3> QED BY <3>2, <3>3, <3>4, <3>5
  <2>2. ASSUME chips \in {{}, {"sporty"}, {"artistic"}, {"chill"}}
        PROVE  Cardinality(chips) \in 0..1 /\ sum \in -60..60
    <3>1. /\ Cardinality({}) = 0 /\ Cardinality({"sporty"}) = 1
          /\ Cardinality({"artistic"}) = 1 /\ Cardinality({"chill"}) = 1
      BY FS_EmptySet, FS_Singleton
    <3>2. \/ chips = {} \/ chips = {"sporty"} \/ chips = {"artistic"} \/ chips = {"chill"}
      BY <2>2
    <3>3. Cardinality(chips) \in 0..1
      BY <3>1, <3>2
    <3> QED BY <3>2, <3>3
  <2>3. ASSUME chips \in {{"sporty", "artistic"}, {"sporty", "chill"}, {"artistic", "chill"}, Vibe}
        PROVE  Cardinality(chips) \in 2..3 /\ sum \in -120..120
    <3>1. ASSUME NEW x, NEW y, x # y
          PROVE  IsFiniteSet({x, y}) /\ Cardinality({x, y}) = 2
      <4>1. {x, y} = {x} \cup {y} /\ y \notin {x}
        BY <3>1
      <4>2. IsFiniteSet({x}) /\ Cardinality({x}) = 1
        BY FS_Singleton
      <4> QED BY <4>1, <4>2, FS_AddElement
    <3>2. Cardinality(Vibe) = 3
      <4>1. Vibe = {"sporty", "artistic"} \cup {"chill"} /\ "chill" \notin {"sporty", "artistic"}
        BY DEF Vibe
      <4>2. IsFiniteSet({"sporty", "artistic"}) /\ Cardinality({"sporty", "artistic"}) = 2
        BY <3>1
      <4> QED BY <4>1, <4>2, FS_AddElement
    <3>3. /\ Cardinality({"sporty", "artistic"}) = 2 /\ Cardinality({"sporty", "chill"}) = 2
          /\ Cardinality({"artistic", "chill"}) = 2
      BY <3>1
    <3>4. \/ chips = {"sporty", "artistic"} \/ chips = {"sporty", "chill"}
          \/ chips = {"artistic", "chill"} \/ chips = Vibe
      BY <2>3
    <3>5. Cardinality(chips) \in 2..3
      BY <3>2, <3>3, <3>4
    <3>6. sum \in -120..120
      OBVIOUS
    <3> QED BY <3>5, <3>6
  <2> HIDE DEF sum
  <2> QED BY <1>1, <1>2, <2>1, <2>2, <2>3
<1>5. Seeded(chips) = [intensity |-> SeedAxis(Cardinality(chips), sum),
                       contact |-> SeedAxis(Of("artistic", 1), 42),
                       dislikes |-> <<>>, attendance |-> <<>>, paused |-> {}]
  BY DEF Seeded
<1> HIDE DEF sum, Of
<1> QED BY <1>3, <1>4, <1>5 DEF Preferences

-----------------------------------------------------------------------------
(* Learning, report by report *)

(* The outcome of a booking without one is learned by whatever preferences  *)
(* knew the outcomes before it.                                             *)
LEMMA LearntHolds ==
    ASSUME NEW P \in Preferences, NEW e \in Event, NEW d \in Said \cup {NoDebrief},
           Holds(P, e.key.plan.teen, attendance),
           \A x \in attendance : x.key # e.key,
           attendance' = attendance \cup {e}
    PROVE  Holds(Adapted(P, e, d), e.key.plan.teen, attendance')
<1> DEFINE A == P.attendance
           B == Adapted(P, e, d).attendance
<1>1. A \in Seq(Event) /\ B = Append(A, e)
  BY AdaptedPrefs DEF Preferences
<1>2. /\ DOMAIN B = 1..(Len(A) + 1) /\ DOMAIN A = 1..Len(A) /\ Len(A) \in Nat
      /\ B[Len(A) + 1] = e /\ \A n \in 1..Len(A) : B[n] = A[n]
  BY <1>1
<1> HIDE DEF A, B
<1>3. /\ \A n \in DOMAIN A : A[n] \in attendance /\ A[n].key.plan.teen = e.key.plan.teen
      /\ \A m, n \in DOMAIN A : A[m].key = A[n].key => m = n
  BY DEF Holds, A
<1>4. \A n \in DOMAIN B : B[n] \in attendance' /\ B[n].key.plan.teen = e.key.plan.teen
  BY <1>2, <1>3
<1>5. ASSUME NEW m \in DOMAIN B, NEW n \in DOMAIN B, B[m].key = B[n].key PROVE m = n
  <2>1. \A i \in DOMAIN A : B[i] = A[i] /\ A[i].key # e.key
    BY <1>2, <1>3
  <2>2. CASE m \in DOMAIN A /\ n \in DOMAIN A
    BY <1>3, <1>5, <2>1, <2>2
  <2>3. CASE m \notin DOMAIN A \/ n \notin DOMAIN A
    BY <1>2, <1>5, <2>1, <2>3
  <2> QED BY <2>2, <2>3
<1> QED BY <1>4, <1>5 DEF Holds, B

(* Recorded outcomes stay: what the preferences knew, they still know.      *)
LEMMA HoldsStays ==
    ASSUME NEW P, NEW t, NEW S, NEW T, Holds(P, t, S), S \subseteq T
    PROVE  Holds(P, t, T)
BY DEF Holds

(* A call that touches no preferences leaves learning as it is.             *)
LEMMA QuietLearning ==
    ASSUME LearningInv, UNCHANGED obsVars, attendance \subseteq attendance'
    PROVE  LearningInv'
BY HoldsStays DEF LearningInv, obsVars

(* An outcome is learned from what its report read before.                  *)
LEMMA LearntInv ==
    ASSUME LearningInv, ReportsTyped, PDTypeOK, NEW h \in Report, OutcomeLearnt(h)
    PROVE  LearningInv'
<1> DEFINE e == report[h].event
           t == e.key.plan.teen
           d == report[h].debrief
           was == report[h].was
           pause == d # NoDebrief /\ d.pause
<1>1. /\ e \in Event /\ d \in Said \cup {NoDebrief} /\ was \in Preferences /\ Holds(was, t, attendance)
      /\ e.key \in Key /\ t \in Teen /\ e = [key |-> e.key, attended |-> e.attended]
  <2>1. report[h].pc = "observing"
    BY DEF OutcomeLearnt, Observing
  <2>2. /\ e \in [key : bookings, attended : BOOLEAN] /\ d \in Said \cup {NoDebrief}
        /\ was \in Preferences /\ Holds(was, t, attendance)
    BY <2>1 DEF ReportsTyped, LearningInv
  <2>3. e.key \in Key /\ e \in Event /\ e = [key |-> e.key, attended |-> e.attended]
    BY <2>2 DEF PDTypeOK, Event
  <2>4. t \in Teen
    BY <2>3 DEF Key, PlanId
  <2> QED BY <2>2, <2>3, <2>4
<1>2. /\ \A x \in attendance : x.key # e.key
      /\ attendance' = attendance \cup {e}
  BY <1>1 DEF OutcomeLearnt, RecordOutcome
<1>3. /\ prefs' = [prefs EXCEPT ![t] = Adapted(was, e, d)]
      /\ log' = [log EXCEPT ![t] = Append(@, [key |-> e.key, attended |-> e.attended, pause |-> pause])]
  BY DEF OutcomeLearnt, Learnt
<1>4. /\ report'[h].pc = "answered"
      /\ \A g \in Report \ {h} : report'[g] = report[g]
  BY DEF OutcomeLearnt, Answered, ReportsTyped
<1>5. pause \in BOOLEAN
  BY SaidAssumption, <1>1 DEF Debrief
<1> HIDE DEF e, t, d, was, pause
<1>6. Adapted(was, e, d) \in Preferences /\ Holds(Adapted(was, e, d), t, attendance')
  BY <1>1, <1>2, AdaptedPrefs, LearntHolds DEF t
<1>7. prefs' \in [Teen -> Preferences] /\ \A u \in Teen : Holds(prefs'[u], u, attendance')
  <2>1. ASSUME NEW u \in Teen PROVE Holds(prefs'[u], u, attendance')
    <3>1. CASE u = t
      <4>1. prefs'[u] = Adapted(was, e, d)
        BY <1>1, <1>3, <3>1 DEF LearningInv
      <4> QED BY <1>6, <3>1, <4>1 DEF Holds
    <3>2. CASE u # t
      <4>1. prefs'[u] = prefs[u] /\ Holds(prefs[u], u, attendance)
        BY <1>3, <3>2 DEF LearningInv
      <4> QED BY <1>2, <4>1 DEF Holds
    <3> QED BY <3>1, <3>2
  <2> QED BY <1>1, <1>3, <1>6, <2>1 DEF LearningInv
<1>8. log' \in [Teen -> Seq([key : Key, attended : BOOLEAN, pause : BOOLEAN])]
  <2> DEFINE Entry == [key : Key, attended : BOOLEAN, pause : BOOLEAN]
             x == [key |-> e.key, attended |-> e.attended, pause |-> pause]
  <2>1. x \in Entry
    BY <1>1, <1>5 DEF Event
  <2>2. log \in [Teen -> Seq(Entry)]
    BY DEF LearningInv
  <2> HIDE DEF Entry, x
  <2>3. log' = [log EXCEPT ![t] = Append(@, x)]
    BY <1>3 DEF x
  <2>4. log' \in [Teen -> Seq(Entry)]
    BY <1>1, <2>1, <2>2, <2>3
  <2> QED BY <2>4 DEF Entry
<1>9. ASSUME NEW g \in Report, report'[g].pc = "observing"
      PROVE  report'[g].was \in Preferences /\ Holds(report'[g].was, report'[g].event.key.plan.teen, attendance')
  <2>1. report'[g] = report[g]
    BY <1>4, <1>9
  <2>2. /\ report[g].was \in Preferences
        /\ Holds(report[g].was, report[g].event.key.plan.teen, attendance)
    BY <1>9, <2>1 DEF LearningInv
  <2> QED BY <1>2, <2>1, <2>2, HoldsStays
<1>10. \A g \in Report : report'[g].pc \in {"waiting", "observing", "answered", "refused"}
  BY <1>4 DEF LearningInv
<1> QED BY <1>7, <1>8, <1>9, <1>10 DEF LearningInv, Holds

(* Every other step of the Observer.                                        *)
LEMMA LearningStep ==
    ASSUME LearningInv, ReportsTyped, PDTypeOK, [ObsNext]_allVars
    PROVE  LearningInv'
<1>1. ASSUME NEW t \in Teen, NEW L \in OpeningLedger, NEW chips \in Chips, IntakeSetup(t, L, chips)
      PROVE  LearningInv'
  <2>1. /\ prefs' = [prefs EXCEPT ![t] = Seeded(chips)]
        /\ UNCHANGED <<report, log>> /\ attendance' = attendance
    BY <1>1 DEF IntakeSetup, SetupProfile, commitVars
  <2>2. Seeded(chips) \in Preferences /\ Seeded(chips).attendance = <<>>
    BY ChipsAssumption, SeededPrefs
  <2>3. \A u \in Teen : Holds(prefs'[u], u, attendance')
    <3>1. Holds(Seeded(chips), t, attendance')
      BY <2>2 DEF Holds
    <3>2. ASSUME NEW u \in Teen, u # t PROVE Holds(prefs'[u], u, attendance')
      BY <2>1, <3>2 DEF LearningInv
    <3>3. prefs'[t] = Seeded(chips)
      BY <2>1 DEF LearningInv
    <3> QED BY <3>1, <3>2, <3>3
  <2>4. prefs' \in [Teen -> Preferences]
    BY <2>1, <2>2 DEF LearningInv
  <2> QED BY <2>1, <2>3, <2>4 DEF LearningInv
<1>2. CASE PlanCalls
  <2>1. UNCHANGED obsVars /\ attendance' = attendance
    BY <1>2 DEF PlanCalls, CallerSavesPlan, SavePlan, SaveGuardianVerdict,
                CommitPlanBookings, ReplayCommit, FlagDeadListing, pdVars, commitVars
  <2> QED BY <2>1, QuietLearning
<1>3. ASSUME NEW h \in Report, NEW k \in bookings, NEW ok \in BOOLEAN, NEW d \in Said \cup {NoDebrief},
             ReportArrives(h, [key |-> k, attended |-> ok], d)
      PROVE  LearningInv'
  <2>1. k \in Key /\ k.plan.teen \in Teen
    BY DEF PDTypeOK, Key, PlanId
  <2>2. /\ UNCHANGED <<prefs, log>> /\ attendance' = attendance
        /\ report'[h].pc = "observing" /\ report'[h].event.key = k
        /\ report'[h].was = prefs[k.plan.teen]
        /\ \A g \in Report \ {h} : report'[g] = report[g]
    BY <1>3 DEF ReportArrives, ReportsTyped, pdVars, commitVars
  <2>3. report'[h].was \in Preferences /\ Holds(report'[h].was, report'[h].event.key.plan.teen, attendance')
    BY <2>1, <2>2 DEF LearningInv
  <2> QED BY <2>2, <2>3 DEF LearningInv
<1>4. ASSUME NEW h \in Report, OutcomeLearnt(h) PROVE LearningInv'
  BY <1>4, LearntInv
<1>5. ASSUME NEW h \in Report, OutcomeReplayed(h) \/ OutcomeRefused(h) PROVE LearningInv'
  <2>1. UNCHANGED <<prefs, log>> /\ attendance' = attendance
    BY <1>5 DEF OutcomeReplayed, OutcomeRefused, ReplayOutcome, pdVars, commitVars
  <2>2. report'[h].pc \in {"answered", "refused"} /\ \A g \in Report \ {h} : report'[g] = report[g]
    <3>1. CASE OutcomeReplayed(h)
      BY <3>1 DEF OutcomeReplayed, Answered, ReportsTyped
    <3>2. CASE OutcomeRefused(h)
      BY <3>2 DEF OutcomeRefused, Refused, ReportsTyped
    <3> QED BY <1>5, <3>1, <3>2
  <2> QED BY <2>1, <2>2 DEF LearningInv
<1>6. CASE UNCHANGED allVars
  BY <1>6, QuietLearning DEF allVars, pdVars, commitVars
<1> QED BY <1>1, <1>2, <1>3, <1>4, <1>5, <1>6 DEF ObsNext

LEMMA LearningAlways == ObsSpec => []LearningInv
<1>1. ObsInit => LearningInv
  <2> SUFFICES ASSUME ObsInit PROVE LearningInv
    OBVIOUS
  <2>1. Seeded({}) \in Preferences /\ Seeded({}).attendance = <<>>
    BY SeededPrefs
  <2>2. prefs = [t \in Teen |-> Seeded({})] /\ log = [t \in Teen |-> <<>>]
        /\ \A h \in Report : report[h].pc = "waiting"
    BY DEF ObsInit, Waiting
  <2> QED BY <2>1, <2>2 DEF LearningInv, Holds
<1>2. LearningInv /\ ReportsTyped /\ PDTypeOK /\ [ObsNext]_allVars => LearningInv'
  BY LearningStep
<1> QED BY <1>1, <1>2, ReportsAlwaysTyped, ObserverUsesStore, FewCallers, StoreTyped, PTL DEF ObsSpec

-----------------------------------------------------------------------------
(* The theorems *)

(* Preferences and reports keep their types: however long outcomes add up,  *)
(* no axis leaves its range.                                                *)
THEOREM ObserverTyped == ObsSpec => []ObsTypeOK
<1>1. LearningInv => ObsTypeOK
  BY DEF LearningInv, ObsTypeOK
<1> QED BY <1>1, LearningAlways, PTL

(* However often reports are resent and however they overlap, the stored    *)
(* preferences learn of a booking at most once, and only what the           *)
(* attendance table says.                                                   *)
THEOREM LearnsOnce == ObsSpec => []LearnsOncePerOutcome
<1>1. LearningInv => LearnsOncePerOutcome
  BY DEF LearningInv, LearnsOncePerOutcome, Holds
<1> QED BY <1>1, LearningAlways, PTL

-----------------------------------------------------------------------------
(* What an axis rests on *)

EvidenceInv ==
    /\ \A t \in Teen : RestsOnEvidence(prefs[t])
    /\ \A h \in Report : report[h].pc = "observing" => RestsOnEvidence(report[h].was)

(* A dislike more never takes a corroboration away.                         *)
LEMMA CorroboratedGrows ==
    ASSUME NEW D \in Seq(Dislike), NEW x \in Dislike, NEW v, Corroborated(D, v)
    PROVE  Corroborated(Append(D, x), v)
<1> DEFINE E == Append(D, x)
           Of(S) == {n \in DOMAIN S : S[n].about = "activity" /\ S[n].axis = v}
<1>1. /\ Len(D) \in Nat /\ DOMAIN D = 1..Len(D) /\ DOMAIN E = 1..(Len(D) + 1)
      /\ \A n \in DOMAIN D : E[n] = D[n]
  OBVIOUS
<1> HIDE DEF E
<1>2. Of(D) \subseteq Of(E) /\ Of(E) \subseteq 1..(Len(D) + 1)
  BY <1>1
<1>3. IsFiniteSet(1..(Len(D) + 1))
  BY <1>1, FS_Interval
<1>4. IsFiniteSet(Of(E))
  BY <1>2, <1>3, FS_Subset
<1>5. /\ Cardinality(Of(D)) <= Cardinality(Of(E))
      /\ Cardinality(Of(D)) \in Nat /\ Cardinality(Of(E)) \in Nat
  <2>1. IsFiniteSet(Of(D)) /\ Cardinality(Of(D)) <= Cardinality(Of(E))
    BY <1>2, <1>4, FS_Subset
  <2> QED BY <1>4, <2>1, FS_CardinalityType
<1>6. Cardinality(Of(D)) >= 2
  BY DEF Corroborated
<1>7. Cardinality(Of(E)) >= 2
  BY <1>5, <1>6
<1> QED BY <1>7 DEF Corroborated, E

(* A debrief moves an axis that no visit has set, and on a second dislike.  *)
LEMMA DebriefRests ==
    ASSUME NEW P \in Preferences, NEW k \in Key, NEW d \in Debrief, RestsOnEvidence(P)
    PROVE  RestsOnEvidence(AfterDebrief(P, k, d))
<1> DEFINE v == ActivityVibe(Vibes[k.listing])
           D == DislikesAfter(P.dislikes, k.listing, d)
           moves == d.about = "activity" /\ Corroborated(D, v)
           Q == AfterDebrief(P, k, d)
           I == CASE moves /\ v = "sporty" -> StrongerAxis(P.intensity, -24)
                  [] moves /\ v = "chill"  -> StrongerAxis(P.intensity, 24)
                  [] OTHER -> P.intensity
           C == IF moves /\ v = "artistic" THEN StrongerAxis(P.contact, -24) ELSE P.contact
<1>1. k.listing \in Listing /\ Vibes[k.listing] \in SUBSET Vibe
  BY VibesAssumption DEF Key
<1>2. v \in Vibe \cup {"other"}
  BY <1>1 DEF ActivityVibe, Vibe
<1>3. \A w : Corroborated(P.dislikes, w) => Corroborated(D, w)
  <2> DEFINE x == [axis |-> IF d.about = "activity" THEN v ELSE "activity_fit",
                   listing |-> k.listing, about |-> d.about]
  <2>1. d.about \in Blame
    BY DEF Debrief
  <2>2. x \in Dislike
    BY <1>1, <1>2, <2>1 DEF Dislike
  <2>3. D = IF d.negative THEN Append(P.dislikes, x) ELSE P.dislikes
    BY DEF DislikesAfter
  <2>4. P.dislikes \in Seq(Dislike)
    BY DEF Preferences
  <2> HIDE DEF x, D
  <2> QED BY <2>2, <2>3, <2>4, CorroboratedGrows
<1>4. /\ Q.attendance = P.attendance /\ Q.dislikes = D /\ Q.intensity = I /\ Q.contact = C
  BY DEF AfterDebrief, Preferences
<1>5. ASSUME NEW A \in Axis, NEW value
      PROVE  /\ StrongerAxis(A, value).source = "attendance" <=> A.source = "attendance"
             /\ StrongerAxis(A, value).source \in {"attendance", "debrief"}
  BY DEF StrongerAxis, Rank, Axis
<1>6. P.intensity \in Axis /\ P.contact \in Axis
  BY DEF Preferences
<1>7. \A V : Visits(Q, V) = Visits(P, V)
  BY <1>4 DEF Visits
<1> HIDE DEF v, D, Q
<1>8. /\ I.source = "attendance" <=> P.intensity.source = "attendance"
      /\ I.source = "debrief" =>
             P.intensity.source = "debrief" \/ Corroborated(D, "sporty") \/ Corroborated(D, "chill")
  BY <1>5, <1>6
<1>9. /\ C.source = "attendance" <=> P.contact.source = "attendance"
      /\ C.source = "debrief" => P.contact.source = "debrief" \/ Corroborated(D, "artistic")
  BY <1>5, <1>6
<1> HIDE DEF I, C
<1>10. RestsOnEvidence(Q)
  BY <1>3, <1>4, <1>7, <1>8, <1>9 DEF RestsOnEvidence
<1> QED BY <1>10 DEF Q

(* A visit sets the axes its vibes speak of, and no others.                 *)
LEMMA VisitRests ==
    ASSUME NEW P \in Preferences, NEW e \in Event, RestsOnEvidence(P)
    PROVE  RestsOnEvidence(AfterVisit([P EXCEPT !.attendance = Append(@, e)],
                                      Vibes[e.key.listing], e.attended))
<1> DEFINE P1 == [P EXCEPT !.attendance = Append(@, e)]
           V  == Vibes[e.key.listing]
           Q  == AfterVisit(P1, V, e.attended)
           A  == P.attendance
           I  == CASE e.attended /\ "chill" \in V -> AttendanceAxis(P.intensity, -36)
                   [] e.attended /\ "chill" \notin V /\ "sporty" \in V -> AttendanceAxis(P.intensity, 36)
                   [] OTHER -> P.intensity
           C  == IF e.attended /\ "artistic" \in V THEN AttendanceAxis(P.contact, 36) ELSE P.contact
<1>1. /\ Q.attendance = Append(A, e) /\ Q.dislikes = P.dislikes
      /\ Q.intensity = I /\ Q.contact = C
  BY DEF AfterVisit, Preferences
<1>2. \A B, target : AttendanceAxis(B, target).source = "attendance"
  BY DEF AttendanceAxis
<1>3. /\ Len(A) \in Nat /\ DOMAIN A = 1..Len(A) /\ DOMAIN Append(A, e) = 1..(Len(A) + 1)
      /\ Append(A, e)[Len(A) + 1] = e /\ \A n \in DOMAIN A : Append(A, e)[n] = A[n]
  <2>1. A \in Seq(Event)
    BY DEF Preferences
  <2> HIDE DEF A
  <2> QED BY <2>1
<1> HIDE DEF A, Q
<1>4. ASSUME NEW W
      PROVE  Visits(Q, W) # {} <=> Visits(P, W) # {} \/ (e.attended /\ V \cap W # {})
  <2>1. \A n \in DOMAIN A : n \in Visits(P, W) <=> n \in Visits(Q, W)
    BY <1>1, <1>3 DEF Visits, A
  <2>2. Len(A) + 1 \in Visits(Q, W) <=> e.attended /\ V \cap W # {}
    BY <1>1, <1>3 DEF Visits
  <2>3. Visits(P, W) \subseteq DOMAIN A /\ Visits(Q, W) \subseteq DOMAIN A \cup {Len(A) + 1}
    BY <1>1, <1>3 DEF Visits, A
  <2> QED BY <2>1, <2>2, <2>3
<1>5. /\ V \cap {"sporty", "chill"} # {} <=> "sporty" \in V \/ "chill" \in V
      /\ V \cap {"artistic"} # {} <=> "artistic" \in V
  OBVIOUS
<1> HIDE DEF V
<1>6. /\ I.source = "attendance" <=>
             P.intensity.source = "attendance" \/ (e.attended /\ V \cap {"sporty", "chill"} # {})
      /\ I.source = "debrief" => P.intensity.source = "debrief"
  BY <1>2, <1>5
<1>7. /\ C.source = "attendance" <=>
             P.contact.source = "attendance" \/ (e.attended /\ V \cap {"artistic"} # {})
      /\ C.source = "debrief" => P.contact.source = "debrief"
  BY <1>2, <1>5
<1> HIDE DEF I, C
<1>8. RestsOnEvidence(Q)
  BY <1>1, <1>4, <1>6, <1>7 DEF RestsOnEvidence
<1> QED BY <1>8 DEF Q, V

LEMMA AdaptedRests ==
    ASSUME NEW P \in Preferences, NEW e \in Event, NEW d \in Said \cup {NoDebrief},
           RestsOnEvidence(P)
    PROVE  RestsOnEvidence(Adapted(P, e, d))
<1> DEFINE P1 == [P EXCEPT !.attendance = Append(@, e)]
           Q  == AfterVisit(P1, Vibes[e.key.listing], e.attended)
<1>1. RestsOnEvidence(Q)
  BY VisitRests
<1>2. e.key \in Key /\ e.attended \in BOOLEAN /\ Vibes[e.key.listing] \in SUBSET Vibe
  BY VibesAssumption DEF Event, Key
<1>3. P1 \in Preferences
  <2>1. Append(P.attendance, e) \in Seq(Event)
    BY DEF Preferences
  <2> QED BY <2>1 DEF Preferences
<1> HIDE DEF P1
<1>4. Q \in Preferences
  BY <1>2, <1>3, AfterVisitPrefs
<1>5. Adapted(P, e, d) = IF d = NoDebrief THEN Q ELSE AfterDebrief(Q, e.key, d)
  BY DEF Adapted, P1
<1> HIDE DEF Q
<1>6. d # NoDebrief => d \in Debrief
  BY SaidAssumption
<1> QED BY <1>1, <1>2, <1>4, <1>5, <1>6, DebriefRests

(* The cold-start seeds claim no evidence.                                  *)
LEMMA SeedsRest == ASSUME NEW chips \in SUBSET Vibe PROVE RestsOnEvidence(Seeded(chips))
<1>1. Seeded(chips).intensity.source = "seed" /\ Seeded(chips).contact.source = "seed"
      /\ Seeded(chips).attendance = <<>>
  BY DEF Seeded, SeedAxis
<1>2. \A V : Visits(Seeded(chips), V) = {}
  BY <1>1 DEF Visits
<1> QED BY <1>1, <1>2 DEF RestsOnEvidence

LEMMA EvidenceStep ==
    ASSUME EvidenceInv, LearningInv, ReportsTyped, PDTypeOK, [ObsNext]_allVars
    PROVE  EvidenceInv'
<1>1. ASSUME NEW t \in Teen, NEW L \in OpeningLedger, NEW chips \in Chips, IntakeSetup(t, L, chips)
      PROVE  EvidenceInv'
  <2>1. RestsOnEvidence(Seeded(chips))
    BY ChipsAssumption, SeedsRest
  <2> QED BY <1>1, <2>1 DEF IntakeSetup, EvidenceInv, LearningInv
<1>2. ASSUME UNCHANGED obsVars PROVE EvidenceInv'
  BY <1>2 DEF EvidenceInv, obsVars
<1>3. ASSUME NEW h \in Report, NEW k \in bookings, NEW ok \in BOOLEAN, NEW d \in Said \cup {NoDebrief},
             ReportArrives(h, [key |-> k, attended |-> ok], d)
      PROVE  EvidenceInv'
  <2>1. k.plan.teen \in Teen
    BY DEF PDTypeOK, Key, PlanId
  <2>2. /\ UNCHANGED prefs /\ report'[h].was = prefs[k.plan.teen]
        /\ \A g \in Report \ {h} : report'[g] = report[g]
    BY <1>3 DEF ReportArrives, ReportsTyped
  <2> QED BY <2>1, <2>2 DEF EvidenceInv
<1>4. ASSUME NEW h \in Report, OutcomeLearnt(h) PROVE EvidenceInv'
  <2> DEFINE e == report[h].event
             t == e.key.plan.teen
             P == Learnt(h)
  <2>1. /\ e \in Event /\ report[h].debrief \in Said \cup {NoDebrief}
        /\ report[h].was \in Preferences /\ RestsOnEvidence(report[h].was)
    BY <1>4 DEF OutcomeLearnt, Observing, ReportsTyped, LearningInv, EvidenceInv, PDTypeOK, Event
  <2>2. RestsOnEvidence(P)
    BY <2>1, AdaptedRests DEF Learnt
  <2>3. /\ prefs' = [prefs EXCEPT ![t] = P]
        /\ report'[h].pc = "answered" /\ \A g \in Report \ {h} : report'[g] = report[g]
    BY <1>4 DEF OutcomeLearnt, Answered, ReportsTyped
  <2> HIDE DEF P, t
  <2> QED BY <2>2, <2>3 DEF EvidenceInv, LearningInv
<1>5. ASSUME NEW h \in Report, OutcomeReplayed(h) \/ OutcomeRefused(h) PROVE EvidenceInv'
  <2>1. UNCHANGED prefs
    BY <1>5 DEF OutcomeReplayed, OutcomeRefused
  <2>2. report'[h].pc \in {"answered", "refused"} /\ \A g \in Report \ {h} : report'[g] = report[g]
    <3>1. CASE OutcomeReplayed(h)
      BY <3>1 DEF OutcomeReplayed, Answered, ReportsTyped
    <3>2. CASE OutcomeRefused(h)
      BY <3>2 DEF OutcomeRefused, Refused, ReportsTyped
    <3> QED BY <1>5, <3>1, <3>2
  <2> QED BY <2>1, <2>2 DEF EvidenceInv
<1> QED BY <1>1, <1>2, <1>3, <1>4, <1>5 DEF ObsNext, PlanCalls, allVars

(* For every number of visits and debriefs, and however reports overlap, an *)
(* axis is set by attendance exactly when a remembered visit speaks of it,  *)
(* and by debriefs only when two dislikes of the activity are on file.      *)
THEOREM EvidenceIsRanked == ObsSpec => []EvidenceRanks
<1>1. ObsInit => EvidenceInv
  <2>1. RestsOnEvidence(Seeded({}))
    BY SeedsRest
  <2> QED BY <2>1 DEF ObsInit, EvidenceInv, Waiting
<1>2. EvidenceInv /\ LearningInv /\ ReportsTyped /\ PDTypeOK /\ [ObsNext]_allVars => EvidenceInv'
  BY EvidenceStep
<1>3. EvidenceInv => EvidenceRanks
  BY DEF EvidenceInv, EvidenceRanks
<1> QED BY <1>1, <1>2, <1>3, LearningAlways, ReportsAlwaysTyped, ObserverUsesStore, FewCallers, StoreTyped, PTL
        DEF ObsSpec
-----------------------------------------------------------------------------
(* The history of a teen, and what preferences know of it *)

(* The log of a teen names outcomes of the table, each once, and among them *)
(* that of every stored report.                                             *)
EntrySound(t, n) ==
    /\ log[t][n].key \in bookings /\ log[t][n].key.plan.teen = t
    /\ \E x \in attendance : x.key = log[t][n].key
Once(H) == \A m, n \in DOMAIN H : H[m].key = H[n].key => m = n
Logged(h) ==
    LET k == report[h].event.key IN
    k.plan.teen \in Teen /\ \E n \in DOMAIN log[k.plan.teen] : log[k.plan.teen][n].key = k
LogInv ==
    /\ \A t \in Teen : \A n \in DOMAIN log[t] : EntrySound(t, n)
    /\ \A t \in Teen : Once(log[t])
    /\ \A h \in Report : StoredReport(h) => Logged(h)

Knows(P, k) == \E m \in DOMAIN P.attendance : P.attendance[m].key = k

(* The pauses of P are those of the outcomes it knows.                      *)
PausesRight(P, t) ==
    /\ \A k \in P.paused : \E x \in attendance : x.key = k
    /\ \A n \in DOMAIN log[t] : Knows(P, log[t][n].key) =>
          (log[t][n].key \in P.paused <=> log[t][n].pause)

Forgotten(t, n) ==
    \E h \in Report : /\ StoredReport(h) /\ report[h].event.key.plan.teen = t
                      /\ report[h].since < n /\ n < Turn(h)

(* What a report under way has read misses only what was forgotten before.  *)
ReadInv(h) ==
    LET t == report[h].event.key.plan.teen IN
    /\ report[h].since \in Nat /\ report[h].since <= Len(log[t])
    /\ PausesRight(report[h].was, t)
    /\ \A n \in 1..report[h].since :
          Knows(report[h].was, log[t][n].key) \/ Forgotten(t, n)

HistoryInv ==
    /\ LogInv
    /\ \A t \in Teen : PausesRight(prefs[t], t)
    /\ \A h \in Report : report[h].pc = "observing" => ReadInv(h)
    /\ ForgottenOnlyByOverlap
    /\ AnswersFollowHistory

(* What answer q to the nth outcome of history H has to be.                 *)
Follows(H, n, q) ==
    LET Missed(m) == m > 0 /\ ~H[m].attended /\ ~H[m].pause IN
    q.was.attendance = [m \in 1..(n - 1) |-> [key |-> H[m].key, attended |-> H[m].attended]] =>
        /\ q.action = "hold_this_week" <=> ~H[n].attended /\ H[n].pause
        /\ q.action = "replan" <=> Missed(n) /\ Missed(n - 1)
        /\ q.action = "try_to_commit" <=>
               n >= 3 /\ H[n].attended /\ H[n - 1].attended /\ H[n - 2].attended

LEMMA AnswersFollow ==
    AnswersFollowHistory <=> \A h \in Report : StoredReport(h) =>
        Follows(log[report[h].event.key.plan.teen], Turn(h), report[h])
BY DEF AnswersFollowHistory, Follows

(* An outcome is in the log once, so its turn is where it is.               *)
LEMMA TurnIs ==
    ASSUME LogInv, NEW h \in Report, StoredReport(h),
           NEW n \in DOMAIN log[report[h].event.key.plan.teen],
           log[report[h].event.key.plan.teen][n].key = report[h].event.key
    PROVE  Turn(h) = n
<1>1. PICK H : H = log[report[h].event.key.plan.teen]
  OBVIOUS
<1>2. \A m \in DOMAIN H : H[m].key = H[n].key => m = n
  <2>1. Logged(h)
    BY DEF LogInv
  <2>2. PICK t \in Teen : t = report[h].event.key.plan.teen
    BY <2>1 DEF Logged
  <2>3. Once(log[t]) /\ H = log[t]
    BY <1>1, <2>2 DEF LogInv
  <2> QED BY <1>1, <2>3 DEF Once
<1>3. Turn(h) = CHOOSE m \in DOMAIN H : H[m].key = report[h].event.key
  BY <1>1 DEF Turn
<1>4. /\ n \in DOMAIN H /\ H[n].key = report[h].event.key
      /\ \A m \in DOMAIN H : H[m].key = report[h].event.key => m = n
  BY <1>1, <1>2
<1> QED BY <1>3, <1>4

(* A step that records nothing leaves histories and answers as they are.    *)
LEMMA QuietHistory ==
    ASSUME HistoryInv, log' = log, attendance' = attendance, bookings \subseteq bookings',
           \A g \in Report : report'[g] = report[g] \/ (~StoredReport(g) /\ ~StoredReport(g)')
    PROVE  /\ LogInv' /\ AnswersFollowHistory'
           /\ \A t, n : Forgotten(t, n) => Forgotten(t, n)'
           /\ \A P, t : PausesRight(P, t) => PausesRight(P, t)'
<1>0. LogInv
  BY DEF HistoryInv
<1>1. \A g \in Report : /\ StoredReport(g)' <=> StoredReport(g)
                        /\ StoredReport(g) => report'[g] = report[g]
  BY DEF StoredReport
<1>2. \A g \in Report : StoredReport(g) => Turn(g)' = Turn(g)
  BY <1>1 DEF Turn
<1>3. LogInv'
  <2>1. ASSUME NEW t \in Teen, NEW n \in DOMAIN log'[t] PROVE EntrySound(t, n)'
    <3>1. EntrySound(t, n)
      BY <1>0 DEF LogInv
    <3> QED BY <3>1 DEF EntrySound
  <2>2. \A t \in Teen : Once(log'[t])
    BY <1>0 DEF LogInv
  <2>3. ASSUME NEW g \in Report, StoredReport(g)' PROVE Logged(g)'
    <3>1. Logged(g) /\ report'[g] = report[g]
      BY <1>0, <1>1, <2>3 DEF LogInv
    <3> QED BY <3>1 DEF Logged
  <2> QED BY <2>1, <2>2, <2>3 DEF LogInv, Once
<1>4. AnswersFollowHistory'
  <2>1. \A g \in Report : StoredReport(g) =>
            Follows(log[report[g].event.key.plan.teen], Turn(g), report[g])
    BY AnswersFollow DEF HistoryInv
  <2>2. \A g \in Report : StoredReport(g)' =>
            Follows(log'[report'[g].event.key.plan.teen], Turn(g)', report'[g])
    BY <1>1, <1>2, <2>1
  <2>3. AnswersFollowHistory' <=> \A g \in Report : StoredReport(g)' =>
            Follows(log'[report'[g].event.key.plan.teen], Turn(g)', report'[g])
    BY DEF AnswersFollowHistory, Follows
  <2> QED BY <2>2, <2>3
<1>5. \A t, n : Forgotten(t, n) => Forgotten(t, n)'
  BY <1>1, <1>2 DEF Forgotten
<1>6. \A P, t : PausesRight(P, t) => PausesRight(P, t)'
  BY DEF PausesRight
<1> QED BY <1>3, <1>4, <1>5, <1>6

(* A debrief's pause is remembered of its own booking.                      *)
LEMMA AdaptedPauses ==
    ASSUME NEW P \in Preferences, NEW e, NEW d
    PROVE  Adapted(P, e, d).paused =
               IF d # NoDebrief /\ d.pause THEN P.paused \cup {e.key} ELSE P.paused
<1>1. PICK Q : Q = AfterVisit([P EXCEPT !.attendance = Append(@, e)], Vibes[e.key.listing], e.attended)
  OBVIOUS
<1>2. Q.paused = P.paused /\ DOMAIN Q = DOMAIN P
  BY <1>1 DEF AfterVisit, Preferences
<1>3. "paused" \in DOMAIN Q
  BY <1>2 DEF Preferences
<1>4. Adapted(P, e, d) = IF d = NoDebrief THEN Q ELSE AfterDebrief(Q, e.key, d)
  BY <1>1 DEF Adapted
<1>5. AfterDebrief(Q, e.key, d).paused = IF d.pause THEN Q.paused \cup {e.key} ELSE Q.paused
  BY <1>3 DEF AfterDebrief
<1> QED BY <1>2, <1>4, <1>5

(* An outcome recorded: the one step that makes history.                    *)
LEMMA LearntHistory ==
    ASSUME HistoryInv, LearningInv, ReportsTyped, PDInv, NEW h \in Report, OutcomeLearnt(h)
    PROVE  HistoryInv'
<1>0. LogInv
  BY DEF HistoryInv
<1>1. PICK e : e = report[h].event
  OBVIOUS
<1>2. PICK t : t = e.key.plan.teen
  OBVIOUS
<1>3. PICK d : d = report[h].debrief
  OBVIOUS
<1>4. PICK w : w = report[h].was
  OBVIOUS
<1>5. PICK s : s = report[h].since
  OBVIOUS
<1>6. PICK Q : Q = Adapted(w, e, d)
  OBVIOUS
<1>7. PICK H : H = log[t]
  OBVIOUS
<1>8. PICK pause : pause = (d # NoDebrief /\ d.pause)
  OBVIOUS
<1>9. PICK x : x = [key |-> e.key, attended |-> e.attended, pause |-> pause]
  OBVIOUS
<1>10. /\ e \in Event /\ e.key \in bookings /\ t \in Teen /\ w \in Preferences
       /\ d \in Said \cup {NoDebrief} /\ Holds(w, t, attendance) /\ ReadInv(h)
  <2>1. report[h].pc = "observing"
    BY DEF OutcomeLearnt, Observing
  <2>2. e \in [key : bookings, attended : BOOLEAN] /\ bookings \subseteq Key
    BY <1>1, <2>1 DEF ReportsTyped, PDInv, PDTypeOK
  <2>3. e \in Event /\ e.key \in bookings /\ t \in Teen
    BY <1>2, <2>2 DEF Event, Key, PlanId
  <2> QED BY <1>1, <1>2, <1>3, <1>4, <2>1, <2>3 DEF ReportsTyped, LearningInv, HistoryInv
<1>11. pause \in BOOLEAN /\ e.attended \in BOOLEAN
  <2>1. d # NoDebrief => d.pause \in BOOLEAN
    BY <1>10, SaidAssumption DEF Debrief
  <2> QED BY <1>8, <1>10, <2>1 DEF Event
<1>12. /\ \A y \in attendance : y.key # e.key
       /\ attendance' = attendance \cup {e} /\ bookings' = bookings
  BY <1>1, <1>10 DEF OutcomeLearnt, RecordOutcome, Event
<1>13. /\ prefs' = [prefs EXCEPT ![t] = Q] /\ log' = [log EXCEPT ![t] = Append(H, x)]
  BY <1>1, <1>2, <1>3, <1>4, <1>6, <1>7, <1>8, <1>9 DEF OutcomeLearnt, Learnt
<1>14. /\ prefs'[t] = Q /\ \A u \in Teen \ {t} : prefs'[u] = prefs[u] /\ log'[u] = log[u]
       /\ log'[t] = Append(H, x)
  BY <1>10, <1>13 DEF LearningInv
<1>15. PICK N : N = Len(H)
  OBVIOUS
<1>16. /\ N \in Nat /\ DOMAIN log[t] = 1..N /\ DOMAIN log'[t] = 1..(N + 1)
       /\ log'[t][N + 1] = x /\ \A n \in 1..N : log'[t][n] = log[t][n]
  <2>1. H \in Seq([key : Key, attended : BOOLEAN, pause : BOOLEAN])
    BY <1>7, <1>10 DEF LearningInv
  <2>2. /\ N \in Nat /\ DOMAIN H = 1..N /\ DOMAIN Append(H, x) = 1..(N + 1)
        /\ Append(H, x)[N + 1] = x /\ \A n \in 1..N : Append(H, x)[n] = H[n]
    BY <1>15, <2>1
  <2> QED BY <1>7, <1>14, <2>2
<1>17. /\ report'[h] = [pc |-> "answered", event |-> e, debrief |-> d, was |-> w, since |-> s,
                        action |-> Action(Q, e, d), stored |-> TRUE]
       /\ \A g \in Report \ {h} : report'[g] = report[g]
       /\ ~StoredReport(h) /\ report[h].pc = "observing"
  BY <1>1, <1>3, <1>4, <1>5, <1>6 DEF OutcomeLearnt, Answered, Learnt, Observing, StoredReport, ReportsTyped
<1>18. /\ StoredReport(h)' /\ report'[h].event = e /\ report'[h].since = s /\ report'[h].was = w
       /\ report'[h].action = Action(Q, e, d) /\ report'[h].pc = "answered"
       /\ \A g \in Report \ {h} : StoredReport(g)' <=> StoredReport(g)
  BY <1>17 DEF StoredReport
<1>19. \A u \in Teen : \A n \in DOMAIN log[u] : n \in DOMAIN log'[u] /\ log'[u][n] = log[u][n]
  BY <1>14, <1>16
<1>20. \A n \in 1..N : log[t][n].key # e.key
  <2>1. \A n \in 1..N : EntrySound(t, n)
    BY <1>0, <1>10, <1>16 DEF LogInv
  <2> QED BY <1>12, <2>1 DEF EntrySound
<1>21. LogInv'
  <2>1. ASSUME NEW u \in Teen, NEW n \in DOMAIN log'[u] PROVE EntrySound(u, n)'
    <3>1. CASE n \in DOMAIN log[u]
      <4>1. EntrySound(u, n)
        BY <1>0, <3>1 DEF LogInv
      <4>2. log'[u][n] = log[u][n]
        BY <1>19, <3>1
      <4> QED BY <1>12, <4>1, <4>2 DEF EntrySound
    <3>2. CASE n \notin DOMAIN log[u]
      <4>1. u = t
        BY <1>14, <2>1, <3>2
      <4>2. n = N + 1
        BY <1>16, <2>1, <3>2, <4>1
      <4>3. log'[u][n].key = e.key
        BY <1>9, <1>16, <4>1, <4>2
      <4> QED BY <1>2, <1>10, <1>12, <4>1, <4>3 DEF EntrySound
    <3> QED BY <3>1, <3>2
  <2>2. ASSUME NEW u \in Teen, NEW m \in DOMAIN log'[u], NEW n \in DOMAIN log'[u],
               log'[u][m].key = log'[u][n].key
        PROVE  m = n
    <3>1. CASE u # t
      <4>1. Once(log[u]) /\ log'[u] = log[u]
        BY <1>0, <1>14, <3>1 DEF LogInv
      <4> QED BY <2>2, <4>1 DEF Once
    <3>2. CASE u = t
      <4>1. \A i, j \in 1..N : log[t][i].key = log[t][j].key => i = j
        <5>1. Once(log[t])
          BY <1>0, <1>10 DEF LogInv
        <5> QED BY <1>16, <5>1 DEF Once
      <4>2. log'[t][N + 1].key = e.key
        BY <1>9, <1>16
      <4>3. m \in 1..(N + 1) /\ n \in 1..(N + 1) /\ log'[t][m].key = log'[t][n].key
        BY <1>16, <2>2, <3>2
      <4>4. CASE m \in 1..N /\ n \in 1..N
        BY <1>16, <4>1, <4>3, <4>4
      <4>5. CASE m = N + 1 \/ n = N + 1
        BY <1>16, <1>20, <4>2, <4>3, <4>5
      <4> QED BY <1>16, <4>3, <4>4, <4>5
    <3> QED BY <3>1, <3>2
  <2>3. ASSUME NEW g \in Report, StoredReport(g)' PROVE Logged(g)'
    <3>1. CASE g = h
      <4>1. log'[t][N + 1].key = e.key /\ N + 1 \in DOMAIN log'[t]
        BY <1>9, <1>16
      <4> QED BY <1>2, <1>10, <1>18, <3>1, <4>1 DEF Logged
    <3>2. CASE g # h
      <4>1. report'[g] = report[g] /\ StoredReport(g)
        BY <1>17, <2>3, <3>2 DEF StoredReport
      <4>2. Logged(g)
        BY <1>0, <4>1 DEF LogInv
      <4>3. PICK u \in Teen : u = report[g].event.key.plan.teen
        BY <4>2 DEF Logged
      <4>4. PICK n \in DOMAIN log[u] : log[u][n].key = report[g].event.key
        BY <4>2, <4>3 DEF Logged
      <4>5. n \in DOMAIN log'[u] /\ log'[u][n] = log[u][n]
        BY <1>19
      <4> QED BY <4>1, <4>3, <4>4, <4>5 DEF Logged
    <3> QED BY <3>1, <3>2
  <2> QED BY <2>1, <2>2, <2>3 DEF LogInv, Once
<1>22. Turn(h)' = N + 1
  <2>1. log'[t][N + 1].key = e.key /\ N + 1 \in DOMAIN log'[t]
    BY <1>9, <1>16
  <2>2. \A m \in DOMAIN log'[t] : log'[t][m].key = e.key => m = N + 1
    <3>1. Once(log'[t])
      BY <1>10, <1>21 DEF LogInv, Once
    <3> QED BY <2>1, <3>1 DEF Once
  <2>3. Turn(h)' = CHOOSE n \in DOMAIN log'[t] : log'[t][n].key = e.key
    BY <1>2, <1>18 DEF Turn
  <2> QED BY <2>1, <2>2, <2>3
<1>23. ASSUME NEW g \in Report, StoredReport(g)
       PROVE  /\ report'[g] = report[g] /\ Turn(g)' = Turn(g)
              /\ Turn(g) \in DOMAIN log[report[g].event.key.plan.teen]
  <2>1. report'[g] = report[g]
    BY <1>17, <1>23
  <2>2. PICK u \in Teen : u = report[g].event.key.plan.teen
    BY <1>0, <1>23 DEF LogInv, Logged
  <2>3. PICK n \in DOMAIN log[u] : log[u][n].key = report[g].event.key
    BY <1>0, <1>23, <2>2 DEF LogInv, Logged
  <2>4. Turn(g) = n
    BY <1>23, <2>2, <2>3, TurnIs DEF HistoryInv
  <2>5. n \in DOMAIN log'[u] /\ log'[u][n].key = report[g].event.key
    BY <1>19, <2>3
  <2>6. \A m \in DOMAIN log'[u] : log'[u][m].key = report[g].event.key => m = n
    <3>1. Once(log'[u])
      BY <1>21 DEF LogInv, Once
    <3> QED BY <2>5, <3>1 DEF Once
  <2>7. Turn(g)' = CHOOSE m \in DOMAIN log'[u] : log'[u][m].key = report[g].event.key
    BY <2>1, <2>2 DEF Turn
  <2>8. Turn(g)' = n
    BY <2>5, <2>6, <2>7
  <2> QED BY <2>1, <2>2, <2>4, <2>8
<1>24. \A u, n : Forgotten(u, n) => Forgotten(u, n)'
  <2> SUFFICES ASSUME NEW u, NEW n, Forgotten(u, n) PROVE Forgotten(u, n)'
    OBVIOUS
  <2>1. PICK g \in Report : /\ StoredReport(g) /\ report[g].event.key.plan.teen = u
                            /\ report[g].since < n /\ n < Turn(g)
    BY DEF Forgotten
  <2>2. StoredReport(g)' /\ report'[g] = report[g] /\ Turn(g)' = Turn(g)
    BY <1>17, <1>18, <1>23, <2>1
  <2> QED BY <2>1, <2>2 DEF Forgotten
<1>25. /\ Q.attendance = Append(w.attendance, e)
       /\ Q.paused = IF pause THEN w.paused \cup {e.key} ELSE w.paused
  <2>1. Q.attendance = Append(w.attendance, e)
    BY <1>6, <1>8, <1>10, AdaptedPrefs
  <2>2. Q.paused = IF pause THEN w.paused \cup {e.key} ELSE w.paused
    <3>1. w \in Preferences /\ Q = Adapted(w, e, d)
      BY <1>6, <1>10
    <3>2. Q.paused = IF d # NoDebrief /\ d.pause THEN w.paused \cup {e.key} ELSE w.paused
      BY <3>1, AdaptedPauses
    <3> QED BY <1>8, <3>2
  <2> QED BY <2>1, <2>2
<1>26. \A k : Knows(Q, k) <=> Knows(w, k) \/ k = e.key
  <2>1. PICK A : A = w.attendance
    OBVIOUS
  <2>2. A \in Seq(Event)
    BY <1>10, <2>1 DEF Preferences
  <2>3. PICK B : B = Append(A, e)
    OBVIOUS
  <2>4. /\ Len(A) \in Nat /\ DOMAIN A = 1..Len(A) /\ DOMAIN B = 1..(Len(A) + 1)
        /\ B[Len(A) + 1] = e /\ \A n \in 1..Len(A) : B[n] = A[n]
    BY <2>2, <2>3
  <2>5. Q.attendance = B
    BY <1>25, <2>1, <2>3
  <2>6. ASSUME NEW k PROVE (\E m \in DOMAIN B : B[m].key = k) <=> (\E m \in DOMAIN A : A[m].key = k) \/ k = e.key
    BY <2>4
  <2> QED BY <2>1, <2>5, <2>6 DEF Knows
<1>27. ASSUME NEW P, NEW u \in Teen, PausesRight(P, u), Holds(P, u, attendance)
       PROVE  PausesRight(P, u)'
  <2>1. \A k \in P.paused : \E y \in attendance' : y.key = k
    BY <1>12, <1>27 DEF PausesRight
  <2>2. ASSUME NEW n \in DOMAIN log'[u], Knows(P, log'[u][n].key)
        PROVE  log'[u][n].key \in P.paused <=> log'[u][n].pause
    <3>1. CASE n \in DOMAIN log[u]
      BY <1>19, <1>27, <2>2, <3>1 DEF PausesRight
    <3>2. CASE n \notin DOMAIN log[u]
      <4>1. u = t
        BY <1>14, <2>2, <3>2
      <4>2. n = N + 1
        BY <1>16, <2>2, <3>2, <4>1
      <4>3. Knows(P, e.key)
        BY <1>9, <1>16, <2>2, <4>1, <4>2
      <4>4. \E y \in attendance : y.key = e.key
        BY <1>27, <4>3 DEF Knows, Holds
      <4> QED BY <1>12, <4>4
    <3> QED BY <3>1, <3>2
  <2> QED BY <2>1, <2>2 DEF PausesRight
<1>28. PausesRight(w, t) /\ s \in Nat /\ s <= N
       /\ \A n \in 1..s : Knows(w, log[t][n].key) \/ Forgotten(t, n)
  BY <1>1, <1>2, <1>4, <1>5, <1>7, <1>10, <1>15 DEF ReadInv
<1>29. PausesRight(Q, t)'
  <2>1. \A k \in Q.paused : \E y \in attendance' : y.key = k
    BY <1>12, <1>25, <1>28 DEF PausesRight
  <2>2. ASSUME NEW n \in 1..N, Knows(Q, log[t][n].key)
        PROVE  log[t][n].key \in Q.paused <=> log[t][n].pause
    BY <1>16, <1>20, <1>25, <1>26, <1>28, <2>2 DEF PausesRight
  <2>3. x.key \in Q.paused <=> x.pause
    <3>1. e.key \notin w.paused
      BY <1>12, <1>28 DEF PausesRight
    <3> QED BY <1>9, <1>25, <3>1
  <2>4. \A n \in DOMAIN log'[t] : Knows(Q, log'[t][n].key) =>
            (log'[t][n].key \in Q.paused <=> log'[t][n].pause)
    BY <1>16, <2>2, <2>3
  <2> QED BY <2>1, <2>4 DEF PausesRight
<1>30. \A u \in Teen : PausesRight(prefs[u], u)'
  <2>1. ASSUME NEW u \in Teen, u # t PROVE PausesRight(prefs[u], u)'
    <3>1. PICK P : P = prefs[u]
      OBVIOUS
    <3>2. PausesRight(P, u) /\ Holds(P, u, attendance) /\ prefs'[u] = P
      BY <1>14, <2>1, <3>1 DEF HistoryInv, LearningInv
    <3>3. PausesRight(P, u)'
      BY <1>27, <3>2
    <3> QED BY <3>2, <3>3 DEF PausesRight
  <2>2. PausesRight(prefs[t], t)'
    BY <1>14, <1>29 DEF PausesRight
  <2> QED BY <2>1, <2>2
<1>31. ForgottenOnlyByOverlap'
  <2>1. ASSUME NEW u \in Teen, NEW n \in DOMAIN log'[u]
        PROVE  Knows(prefs'[u], log'[u][n].key) \/ Forgotten(u, n)'
    <3>1. CASE u # t
      <4>1. /\ log'[u] = log[u] /\ prefs'[u] = prefs[u] /\ n \in DOMAIN log[u]
        BY <1>14, <2>1, <3>1
      <4>2. Knows(prefs[u], log[u][n].key) \/ Forgotten(u, n)
        BY <4>1 DEF HistoryInv, ForgottenOnlyByOverlap, Knows, Forgotten
      <4> QED BY <1>24, <4>1, <4>2
    <3>2. CASE u = t /\ n = N + 1
      BY <1>9, <1>14, <1>16, <1>26, <3>2
    <3>3. CASE u = t /\ n \in 1..N /\ n <= s
      <4>1. Knows(w, log[t][n].key) \/ Forgotten(t, n)
        BY <1>16, <1>28, <3>3
      <4> QED BY <1>14, <1>16, <1>24, <1>26, <3>3, <4>1
    <3>4. CASE u = t /\ n \in 1..N /\ s < n
      <4>1. n < N + 1
        BY <1>16, <3>4
      <4>2. /\ StoredReport(h)' /\ report'[h].event.key.plan.teen = u
            /\ report'[h].since < n /\ n < Turn(h)'
        BY <1>2, <1>18, <1>22, <3>4, <4>1
      <4> QED BY <4>2 DEF Forgotten
    <3> QED BY <1>16, <1>28, <2>1, <3>1, <3>2, <3>3, <3>4
  <2> QED BY <2>1 DEF ForgottenOnlyByOverlap, Knows, Forgotten
<1>32. ASSUME NEW g \in Report, report'[g].pc = "observing" PROVE ReadInv(g)'
  <2>1. g # h /\ report'[g] = report[g] /\ report[g].pc = "observing"
    BY <1>17, <1>18, <1>32
  <2>2. PICK P : P = report[g].was
    OBVIOUS
  <2>3. PICK u : u = report[g].event.key.plan.teen
    OBVIOUS
  <2>4. /\ report[g].since \in Nat /\ report[g].since <= Len(log[u])
        /\ PausesRight(P, u) /\ Holds(P, u, attendance)
        /\ \A n \in 1..report[g].since : Knows(P, log[u][n].key) \/ Forgotten(u, n)
    BY <2>1, <2>2, <2>3 DEF HistoryInv, ReadInv, LearningInv
  <2>5. u \in Teen
    BY <2>1, <2>3 DEF ReportsTyped, PDInv, PDTypeOK, Key, PlanId
  <2>6. PausesRight(P, u)'
    BY <1>27, <2>4, <2>5
  <2>7. /\ Len(log[u]) \in Nat /\ DOMAIN log[u] = 1..Len(log[u])
        /\ Len(log'[u]) \in Nat /\ Len(log[u]) <= Len(log'[u])
    <3>1. log[u] \in Seq([key : Key, attended : BOOLEAN, pause : BOOLEAN])
      BY <2>5 DEF LearningInv
    <3>2. Len(log[u]) \in Nat /\ DOMAIN log[u] = 1..Len(log[u])
      BY <3>1
    <3>3. u = t => Len(log'[u]) = Len(log[u]) + 1
      BY <1>7, <1>14, <3>1
    <3> QED BY <1>14, <2>5, <3>2, <3>3
  <2>8. \A n \in 1..report[g].since : Knows(P, log'[u][n].key) \/ Forgotten(u, n)'
    BY <1>19, <1>24, <2>4, <2>5, <2>7
  <2>9. report[g].since <= Len(log'[u])
    BY <2>4, <2>7
  <2>10. /\ report'[g].was = P /\ report'[g].since = report[g].since
         /\ report'[g].event.key.plan.teen = u
    BY <2>1, <2>2, <2>3
  <2>11. PausesRight(report[g].was, report[g].event.key.plan.teen)'
    BY <2>6, <2>10 DEF PausesRight
  <2> QED BY <2>4, <2>8, <2>9, <2>10, <2>11 DEF ReadInv
<1>33. ASSUME w.attendance = [m \in 1..N |-> [key |-> H[m].key, attended |-> H[m].attended]]
       PROVE  /\ Action(Q, e, d) = "hold_this_week" <=> ~e.attended /\ pause
              /\ Action(Q, e, d) = "replan" <=>
                     ~e.attended /\ ~pause /\ N >= 1 /\ ~H[N].attended /\ ~H[N].pause
              /\ Action(Q, e, d) = "try_to_commit" <=>
                     N >= 2 /\ e.attended /\ H[N].attended /\ H[N - 1].attended
  <2>1. PICK A : A = Q.attendance
    OBVIOUS
  <2>2. /\ w.attendance \in Seq(Event) /\ Len(w.attendance) = N
        /\ \A m \in 1..N : w.attendance[m].key = H[m].key /\ w.attendance[m].attended = H[m].attended
    <3>1. PICK V : V = w.attendance
      OBVIOUS
    <3>2. V \in Seq(Event)
      BY <1>10, <3>1 DEF Preferences
    <3>3. PICK M \in Nat : M = Len(V) /\ DOMAIN V = 1..M
      BY <3>2
    <3>4. 1..M = 1..N
      BY <1>33, <3>1, <3>3
    <3>5. M = N
      <4>1. N \in Nat /\ M \in Nat
        BY <1>16, <3>3
      <4>2. \A i : i \in 1..M <=> i \in 1..N
        BY <3>4
      <4>3. N >= 1 => N <= M
        BY <4>1, <4>2
      <4>4. M >= 1 => M <= N
        BY <4>1, <4>2
      <4> QED BY <4>1, <4>3, <4>4
    <3>6. \A m \in 1..N : V[m] = [key |-> H[m].key, attended |-> H[m].attended]
      BY <1>33, <3>1
    <3>7. ASSUME NEW m \in 1..N PROVE V[m].key = H[m].key /\ V[m].attended = H[m].attended
      <4>1. V[m] = [key |-> H[m].key, attended |-> H[m].attended]
        BY <3>6
      <4> QED BY <4>1
    <3>8. Len(V) = N
      BY <3>3, <3>5
    <3> QED BY <3>1, <3>2, <3>7, <3>8
  <2>3. /\ Len(A) = N + 1 /\ A[N + 1] = e
        /\ \A m \in 1..N : A[m].key = H[m].key /\ A[m].attended = H[m].attended
    BY <1>16, <1>25, <2>1, <2>2
  <2>4. ASSUME N >= 1
        PROVE  /\ A[N].attended = H[N].attended /\ A[N].key = H[N].key
               /\ H[N].key \in Q.paused <=> H[N].pause
    <3>1. N \in 1..N /\ N \in DOMAIN log'[t] /\ log'[t][N] = H[N]
      BY <1>7, <1>16, <2>4
    <3>2. A[N].attended = H[N].attended /\ A[N].key = H[N].key
      BY <2>3, <3>1
    <3>3. Knows(w, H[N].key)
      BY <2>2, <3>1 DEF Knows
    <3>4. Knows(Q, H[N].key)
      BY <1>26, <3>3
    <3>5. H[N].key \in Q.paused <=> H[N].pause
      BY <1>29, <3>1, <3>4 DEF PausesRight
    <3> QED BY <3>2, <3>5
  <2>5. N >= 2 => A[N - 1].attended = H[N - 1].attended
    BY <1>16, <2>3
  <2>6. Action(Q, e, d) =
            IF ~e.attended /\ pause THEN "hold_this_week"
            ELSE CASE N + 1 >= 2 /\ ~A[N + 1].attended /\ ~A[N].attended /\ A[N].key \notin Q.paused -> "replan"
                   [] N + 1 >= 3 /\ A[N + 1].attended /\ A[N].attended /\ A[N - 1].attended -> "try_to_commit"
                   [] OTHER -> "none"
    <3>1. Len(A) = N + 1 /\ Len(A) - 1 = N /\ Len(A) - 2 = N - 1 /\ A[Len(A)] = A[N + 1]
      BY <1>16, <2>3
    <3>2. (~e.attended /\ d # NoDebrief /\ d.pause) <=> (~e.attended /\ pause)
      BY <1>8
    <3>3. Action(Q, e, d) =
              IF ~e.attended /\ d # NoDebrief /\ d.pause THEN "hold_this_week"
              ELSE CASE Len(A) >= 2 /\ ~A[Len(A)].attended /\ ~A[Len(A) - 1].attended
                        /\ A[Len(A) - 1].key \notin Q.paused -> "replan"
                     [] Len(A) >= 3 /\ A[Len(A)].attended /\ A[Len(A) - 1].attended
                        /\ A[Len(A) - 2].attended -> "try_to_commit"
                     [] OTHER -> "none"
      BY <2>1 DEF Action
    <3> QED BY <3>1, <3>2, <3>3
  <2>7. CASE N = 0
    BY <2>3, <2>6, <2>7
  <2>8. CASE N = 1
    BY <2>3, <2>4, <2>6, <2>8
  <2>9. CASE N >= 2
    BY <1>16, <2>3, <2>4, <2>5, <2>6, <2>9
  <2> QED BY <1>16, <2>7, <2>8, <2>9
<1>34. AnswersFollowHistory'
  <2>1. ASSUME NEW g \in Report, StoredReport(g)'
        PROVE  Follows(log'[report'[g].event.key.plan.teen], Turn(g)', report'[g])
    <3>1. CASE g = h
      <4>1. PICK G : G = log'[t]
        OBVIOUS
      <4>2. /\ G[N + 1].attended = e.attended /\ G[N + 1].pause = pause
            /\ \A m \in 1..N : G[m] = H[m]
        BY <1>7, <1>9, <1>16, <4>1
      <4>3. Follows(G, N + 1, report'[h])
        <5>1. N + 1 - 1 = N /\ N + 1 - 2 = N - 1
          BY <1>16
        <5>2. PICK a : a = Action(Q, e, d)
          OBVIOUS
        <5>3. PICK q : q = report'[h]
          OBVIOUS
        <5>4. q.was = w /\ q.action = a
          BY <1>18, <5>2, <5>3
        <5>5. [m \in 1..N |-> [key |-> G[m].key, attended |-> G[m].attended]]
                  = [m \in 1..N |-> [key |-> H[m].key, attended |-> H[m].attended]]
          BY <4>2
        <5>6. /\ N > 0 => G[N] = H[N]
              /\ N >= 2 => G[N - 1] = H[N - 1]
          <6>1. N \in Nat
            BY <1>16
          <6>2. N > 0 => N \in 1..N
            BY <6>1
          <6>3. N >= 2 => N - 1 \in 1..N
            BY <6>1
          <6> QED BY <4>2, <6>2, <6>3
        <5>7. PICK n : n = N + 1
          OBVIOUS
        <5>8. n - 1 = N /\ n - 2 = N - 1 /\ n > 0 /\ (n - 1 > 0 <=> N >= 1) /\ (n >= 3 <=> N >= 2)
          BY <1>16, <5>7
        <5>9. ASSUME w.attendance = [m \in 1..(n - 1) |-> [key |-> G[m].key, attended |-> G[m].attended]]
              PROVE  /\ a = "hold_this_week" <=> ~G[n].attended /\ G[n].pause
                     /\ a = "replan" <=>
                            /\ n > 0 /\ ~G[n].attended /\ ~G[n].pause
                            /\ n - 1 > 0 /\ ~G[n - 1].attended /\ ~G[n - 1].pause
                     /\ a = "try_to_commit" <=>
                            n >= 3 /\ G[n].attended /\ G[n - 1].attended /\ G[n - 2].attended
          <6>1. w.attendance = [m \in 1..N |-> [key |-> H[m].key, attended |-> H[m].attended]]
            BY <5>5, <5>8, <5>9
          <6>2. /\ a = "hold_this_week" <=> ~e.attended /\ pause
                /\ a = "replan" <=>
                       ~e.attended /\ ~pause /\ N >= 1 /\ ~H[N].attended /\ ~H[N].pause
                /\ a = "try_to_commit" <=>
                       N >= 2 /\ e.attended /\ H[N].attended /\ H[N - 1].attended
            BY <1>33, <5>2, <6>1
          <6>3. G[n].attended = e.attended /\ G[n].pause = pause
            BY <4>2, <5>7
          <6>4. /\ N >= 1 => G[n - 1] = H[N]
                /\ N >= 2 => G[n - 2] = H[N - 1] /\ N >= 1
            BY <1>16, <5>6, <5>8
          <6> QED BY <5>8, <6>2, <6>3, <6>4
        <5>10. Follows(G, n, q)
          BY <5>4, <5>9 DEF Follows
        <5>11. Follows(G, N + 1, q)
          BY <5>7, <5>10
        <5> QED BY <5>3, <5>11
      <4> QED BY <1>2, <1>18, <1>22, <3>1, <4>1, <4>3
    <3>2. CASE g # h
      <4>1. StoredReport(g)
        BY <1>18, <2>1, <3>2
      <4>2. PICK u \in Teen : u = report[g].event.key.plan.teen
        BY <1>0, <4>1 DEF LogInv, Logged
      <4>3. PICK n : n = Turn(g)
        OBVIOUS
      <4>4. /\ report'[g] = report[g] /\ Turn(g)' = n /\ n \in DOMAIN log[u]
        BY <1>23, <4>1, <4>2, <4>3
      <4>5. Follows(log[u], n, report[g])
        BY <4>1, <4>2, <4>3, AnswersFollow DEF HistoryInv
      <4>6. PICK k \in Nat : DOMAIN log[u] = 1..k
        <5>1. log[u] \in Seq([key : Key, attended : BOOLEAN, pause : BOOLEAN])
          BY DEF LearningInv
        <5> QED BY <5>1
      <4>7. n \in Nat /\ \A m \in 1..n : log'[u][m] = log[u][m]
        BY <1>19, <4>4, <4>6
      <4>8. Follows(log'[u], n, report[g])
        BY <4>4, <4>5, <4>6, <4>7 DEF Follows
      <4> QED BY <4>2, <4>4, <4>8
    <3> QED BY <3>1, <3>2
  <2> QED BY <2>1 DEF AnswersFollowHistory, Follows
<1> QED BY <1>21, <1>30, <1>31, <1>32, <1>34 DEF HistoryInv

(* A teen without a profile has no history.                                 *)
LEMMA NoHistory ==
    ASSUME HistoryInv, PDInv, NEW t \in Teen, t \notin profiles
    PROVE  DOMAIN log[t] = {}
<1>1. ASSUME NEW n \in DOMAIN log[t] PROVE FALSE
  <2>1. log[t][n].key \in bookings /\ log[t][n].key.plan.teen = t
    BY DEF HistoryInv, LogInv, EntrySound
  <2>2. log[t][n].key.plan.teen \in profiles
    BY <2>1 DEF PDInv, BookingsAuthorised, StoredIds, Grounded
  <2> QED BY <2>1, <2>2
<1> QED BY <1>1

(* Every other step.                                                        *)
LEMMA HistoryStep ==
    ASSUME HistoryInv, LearningInv, ReportsTyped, PDInv, [ObsNext]_allVars
    PROVE  HistoryInv'
<1>1. ASSUME log' = log, attendance' = attendance, bookings \subseteq bookings',
             \A t \in Teen : prefs'[t] = prefs[t]
                             \/ (DOMAIN log[t] = {} /\ PausesRight(prefs'[t], t)),
             \A g \in Report : /\ report'[g] = report[g] \/ (~StoredReport(g) /\ ~StoredReport(g)')
                               /\ report'[g].pc = "observing" =>
                                      report'[g] = report[g] \/ ReadInv(g)'
      PROVE  HistoryInv'
  <2>1. /\ LogInv' /\ AnswersFollowHistory'
        /\ \A t, n : Forgotten(t, n) => Forgotten(t, n)'
        /\ \A P, t : PausesRight(P, t) => PausesRight(P, t)'
    BY <1>1, QuietHistory
  <2>2. ASSUME NEW t \in Teen
        PROVE  /\ PausesRight(prefs[t], t)'
               /\ \A n \in DOMAIN log'[t] : Knows(prefs'[t], log'[t][n].key) \/ Forgotten(t, n)'
    <3>1. PICK P : P = prefs'[t]
      OBVIOUS
    <3>2. PausesRight(P, t)
      BY <1>1, <3>1 DEF HistoryInv
    <3>3. PausesRight(P, t)'
      BY <2>1, <3>2
    <3>4. PausesRight(prefs[t], t)'
      BY <3>1, <3>3 DEF PausesRight
    <3>5. ASSUME NEW n \in DOMAIN log'[t]
          PROVE  Knows(prefs'[t], log'[t][n].key) \/ Forgotten(t, n)'
      <4>1. prefs'[t] = prefs[t]
        BY <1>1, <3>5
      <4>2. Knows(prefs[t], log[t][n].key) \/ Forgotten(t, n)
        BY <1>1, <3>5 DEF HistoryInv, ForgottenOnlyByOverlap, Knows, Forgotten
      <4> QED BY <1>1, <2>1, <4>1, <4>2
    <3> QED BY <3>4, <3>5
  <2>3. ForgottenOnlyByOverlap'
    BY <2>2 DEF ForgottenOnlyByOverlap, Knows, Forgotten
  <2>4. ASSUME NEW g \in Report, report'[g].pc = "observing" PROVE ReadInv(g)'
    <3>1. CASE ReadInv(g)'
      BY <3>1
    <3>2. CASE report'[g] = report[g]
      <4>1. PICK P : P = report[g].was
        OBVIOUS
      <4>2. PICK t : t = report[g].event.key.plan.teen
        OBVIOUS
      <4>3. /\ report[g].since \in Nat /\ report[g].since <= Len(log[t]) /\ PausesRight(P, t)
            /\ \A n \in 1..report[g].since : Knows(P, log[t][n].key) \/ Forgotten(t, n)
        BY <2>4, <3>2, <4>1, <4>2 DEF HistoryInv, ReadInv
      <4>4. /\ PausesRight(P, t)'
            /\ \A n \in 1..report[g].since : Knows(P, log'[t][n].key) \/ Forgotten(t, n)'
        BY <1>1, <2>1, <4>3
      <4>5. PausesRight(report[g].was, report[g].event.key.plan.teen)'
        BY <3>2, <4>1, <4>2, <4>4 DEF PausesRight
      <4> QED BY <1>1, <3>2, <4>1, <4>2, <4>3, <4>4, <4>5 DEF ReadInv
    <3> QED BY <1>1, <2>4, <3>1, <3>2
  <2> QED BY <2>1, <2>2, <2>3, <2>4 DEF HistoryInv
<1>2. ASSUME UNCHANGED obsVars, attendance' = attendance, bookings \subseteq bookings' PROVE HistoryInv'
  BY <1>1, <1>2 DEF obsVars
<1>3. ASSUME NEW t \in Teen, NEW L \in OpeningLedger, NEW chips \in Chips, IntakeSetup(t, L, chips)
      PROVE  HistoryInv'
  <2>1. /\ prefs' = [prefs EXCEPT ![t] = Seeded(chips)] /\ UNCHANGED <<report, log>>
        /\ attendance' = attendance /\ bookings' = bookings /\ t \notin profiles
    BY <1>3 DEF IntakeSetup, SetupProfile, commitVars
  <2>2. DOMAIN log[t] = {}
    BY <2>1, NoHistory
  <2>3. prefs'[t].paused = {} /\ \A u \in Teen \ {t} : prefs'[u] = prefs[u]
    BY <2>1 DEF LearningInv, Seeded
  <2>4. PausesRight(prefs'[t], t)
    BY <2>2, <2>3 DEF PausesRight
  <2> QED BY <1>1, <2>1, <2>2, <2>3, <2>4
<1>4. CASE PlanCalls
  <2>1. UNCHANGED obsVars /\ attendance' = attendance /\ bookings \subseteq bookings'
    BY <1>4 DEF PlanCalls, CallerSavesPlan, SavePlan, SaveGuardianVerdict,
                CommitPlanBookings, ReplayCommit, FlagDeadListing, pdVars, commitVars
  <2> QED BY <1>2, <2>1
<1>5. ASSUME NEW h \in Report, NEW k \in bookings, NEW ok \in BOOLEAN, NEW d \in Said \cup {NoDebrief},
             ReportArrives(h, [key |-> k, attended |-> ok], d)
      PROVE  HistoryInv'
  <2>1. PICK t \in Teen : t = k.plan.teen
    BY DEF PDInv, PDTypeOK, Key, PlanId
  <2>2. /\ UNCHANGED <<prefs, log>> /\ attendance' = attendance /\ bookings' = bookings
        /\ report[h].pc = "waiting"
        /\ report'[h] = [pc |-> "observing", event |-> [key |-> k, attended |-> ok], debrief |-> d,
                         was |-> prefs[t], since |-> Len(log[t])]
        /\ \A g \in Report \ {h} : report'[g] = report[g]
    BY <1>5, <2>1 DEF ReportArrives, ReportsTyped, Waiting, pdVars, commitVars
  <2>3. ~StoredReport(h) /\ ~StoredReport(h)'
    BY <2>2 DEF StoredReport
  <2>4. /\ LogInv' /\ AnswersFollowHistory'
        /\ \A u, n : Forgotten(u, n) => Forgotten(u, n)'
        /\ \A P, u : PausesRight(P, u) => PausesRight(P, u)'
    BY <2>2, <2>3, QuietHistory
  <2>5. ReadInv(h)'
    <3>1. PICK P : P = prefs[t]
      OBVIOUS
    <3>2. Len(log[t]) \in Nat /\ DOMAIN log[t] = 1..Len(log[t])
      <4>1. log[t] \in Seq([key : Key, attended : BOOLEAN, pause : BOOLEAN])
        BY DEF LearningInv
      <4> QED BY <4>1
    <3>3. PausesRight(P, t)'
      BY <2>4, <3>1 DEF HistoryInv
    <3>4. \A n \in DOMAIN log[t] : Knows(P, log[t][n].key) \/ Forgotten(t, n)
      BY <3>1 DEF HistoryInv, ForgottenOnlyByOverlap, Knows, Forgotten
    <3>5. \A n \in 1..Len(log[t]) : Knows(P, log'[t][n].key) \/ Forgotten(t, n)'
      BY <2>2, <2>4, <3>2, <3>4
    <3>6. /\ report'[h].was = P /\ report'[h].since = Len(log[t]) /\ log' = log
          /\ report'[h].event.key.plan.teen = t
      BY <2>1, <2>2, <3>1
    <3>7. PausesRight(report[h].was, report[h].event.key.plan.teen)'
      BY <3>3, <3>6 DEF PausesRight
    <3> QED BY <3>2, <3>5, <3>6, <3>7 DEF ReadInv
  <2> QED BY <1>1, <2>2, <2>3, <2>5
<1>6. ASSUME NEW h \in Report, OutcomeLearnt(h) PROVE HistoryInv'
  BY <1>6, LearntHistory
<1>7. ASSUME NEW h \in Report, OutcomeReplayed(h) \/ OutcomeRefused(h) PROVE HistoryInv'
  <2>1. UNCHANGED <<prefs, log>> /\ attendance' = attendance /\ bookings' = bookings
    BY <1>7 DEF OutcomeReplayed, OutcomeRefused, ReplayOutcome, pdVars, commitVars
  <2>2. /\ ~StoredReport(h) /\ ~StoredReport(h)' /\ report'[h].pc # "observing"
        /\ \A g \in Report \ {h} : report'[g] = report[g]
    <3>1. CASE OutcomeReplayed(h)
      BY <3>1 DEF OutcomeReplayed, Observing, Answered, ReportsTyped, StoredReport
    <3>2. CASE OutcomeRefused(h)
      BY <3>2 DEF OutcomeRefused, Observing, Refused, ReportsTyped, StoredReport
    <3> QED BY <1>7, <3>1, <3>2
  <2> QED BY <1>1, <2>1, <2>2
<1>8. CASE UNCHANGED allVars
  BY <1>2, <1>8 DEF allVars, pdVars, commitVars
<1> QED BY <1>3, <1>4, <1>5, <1>6, <1>7, <1>8 DEF ObsNext

LEMMA HistoryAlways == ObsSpec => []HistoryInv
<1>1. ObsInit => HistoryInv
  <2> SUFFICES ASSUME ObsInit PROVE HistoryInv
    OBVIOUS
  <2>1. /\ \A t \in Teen : DOMAIN log[t] = {} /\ prefs[t].paused = {}
        /\ \A h \in Report : report[h].pc = "waiting"
    BY DEF ObsInit, Waiting, Seeded
  <2>2. LogInv
    BY <2>1 DEF LogInv, EntrySound, Once, StoredReport
  <2>3. AnswersFollowHistory /\ ForgottenOnlyByOverlap
    BY <2>1 DEF AnswersFollowHistory, ForgottenOnlyByOverlap, StoredReport
  <2> QED BY <2>1, <2>2, <2>3 DEF HistoryInv, PausesRight
<1>2. HistoryInv /\ LearningInv /\ ReportsTyped /\ PDInv /\ [ObsNext]_allVars => HistoryInv'
  BY HistoryStep
<1> QED BY <1>1, <1>2, LearningAlways, ReportsAlwaysTyped, ObserverUsesStore, FewCallers,
           StoreInvariant, PTL DEF ObsSpec

(* However many reports overlap, a recorded outcome is missing from the     *)
(* stored preferences only if a report that had read them before it was     *)
(* recorded after it.                                                       *)
THEOREM ForgettingIsOverlap == ObsSpec => []ForgottenOnlyByOverlap
<1>1. HistoryInv => ForgottenOnlyByOverlap
  BY DEF HistoryInv
<1> QED BY <1>1, HistoryAlways, PTL

(* A report that had read every earlier outcome is answered from the last   *)
(* outcomes of the teen, whatever was said and however long the history.    *)
THEOREM AnswersAreRight == ObsSpec => []AnswersFollowHistory
<1>1. HistoryInv => AnswersFollowHistory
  BY DEF HistoryInv
<1> QED BY <1>1, HistoryAlways, PTL
=============================================================================
