------------------------------ MODULE Observer ------------------------------
(***************************************************************************)
(* The Observer (src/agents/observer.py) behind the attendance operation    *)
(* of the service: it learns a teen's preferences from attendance reports   *)
(* and their optional debriefs.                                             *)
(*                                                                         *)
(* A report is two steps: the preferences are read with planner_snapshot,   *)
(* then record_outcome writes the ledger, the event and the whole adapted   *)
(* preference model in one transaction.  Between the two another report of  *)
(* the teen may be recorded.  A client that got no answer sends its report  *)
(* again: that is another report with the same event.                       *)
(*                                                                         *)
(* A debrief is what its words say: whether they name a temporary pause,    *)
(* what they blame, and whether they are words that count as a dislike.     *)
(* Axis values are sixtieths and confidences twentieths, so the averages    *)
(* and increments of the code are whole numbers.                            *)
(***************************************************************************)
EXTENDS PersonalData, Sequences

CONSTANTS
    Report,     \* attendance reports that may arrive
    Vibes,      \* Vibes[l]: the vibes of listing l
    Chips,      \* cold-start chips an intake may send
    Said,       \* debriefs a teen may send
    NoDebrief

Vibe == {"sporty", "artistic", "chill"}
Blame == {"activity", "instance", "unattributed"}

(* The words that blame the activity are all words of dislike.              *)
Debrief == {d \in [pause : BOOLEAN, about : Blame, negative : BOOLEAN] :
                d.about = "activity" => d.negative}

ASSUME VibesAssumption == Vibes \in [Listing -> SUBSET Vibe]
ASSUME ChipsAssumption == Chips \subseteq SUBSET Vibe
ASSUME SaidAssumption  == Said \subseteq Debrief /\ NoDebrief \notin Said

Rank(source) == CASE source = "seed" -> 0 [] source = "debrief" -> 1 [] source = "attendance" -> 2
Axis  == [value : -60..60, confidence : 0..20, source : {"seed", "debrief", "attendance"}]
Event == [key : Key, attended : BOOLEAN]
Dislike == [axis : Vibe \cup {"other", "activity_fit"}, listing : Listing, about : Blame]

(* intensity and contact_noncontact are the axes that outcomes move; paused *)
(* are the bookings whose stored debrief names a temporary pause.           *)
Preferences == [intensity : Axis, contact : Axis, dislikes : Seq(Dislike),
                attendance : Seq(Event), paused : SUBSET Key]

VARIABLES
    prefs,    \* prefs[t]: preferences_json in t's profile row
    report,   \* report[h]: the request thread of report h
    log       \* history: log[t], the outcomes of t in the order recorded

obsVars == <<prefs, report, log>>
allVars == <<pdVars, obsVars>>

-----------------------------------------------------------------------------
(* Intake: the cold-start seeds *)

SeedAxis(n, value) ==
    IF n = 0 THEN [value |-> 0, confidence |-> 0, source |-> "seed"]
             ELSE [value |-> value \div n, confidence |-> 4, source |-> "seed"]

(* preference_seeds: an axis is the mean of the chips that speak of it.  The *)
(* chip explorative speaks of neither; a list that repeats a chip, which    *)
(* weighs it twice, is left out.                                            *)
Seeded(chips) ==
    LET Of(c, v) == IF c \in chips THEN v ELSE 0 IN
    [intensity |-> SeedAxis(Cardinality(chips),
                            Of("sporty", 42) + Of("artistic", -24) + Of("chill", -48)),
     contact |-> SeedAxis(Of("artistic", 1), 42),
     dislikes |-> <<>>, attendance |-> <<>>, paused |-> {}]

-----------------------------------------------------------------------------
(* Learning from one outcome: Observer.observe *)

Within(x, low, high) == IF x < low THEN low ELSE IF x > high THEN high ELSE x

(* A slip: evidence in one direction adds up without a ceiling.             *)
UnboundedAxis(A, target) ==
    IF A.source = "attendance" /\ A.value * target > 0
    THEN [value |-> A.value + target, confidence |-> A.confidence + 1, source |-> "attendance"]
    ELSE [value |-> target, confidence |-> 15, source |-> "attendance"]

(* _attendance_axis: repeated evidence in one direction adds up; a change   *)
(* of direction, or the first evidence, starts afresh.                      *)
AttendanceAxis(A, target) ==
    IF A.source = "attendance" /\ A.value * target > 0
    THEN [value |-> Within(A.value + (IF target > 0 THEN 6 ELSE -6), -60, 60),
          confidence |-> Within(A.confidence + 1, 0, 20), source |-> "attendance"]
    ELSE [value |-> target, confidence |-> 15, source |-> "attendance"]

(* A slip: the last word wins, whatever its evidence.                       *)
LatestAxis(A, value) == [value |-> value, confidence |-> 10, source |-> "debrief"]

(* _stronger_axis: a debrief never moves what attendance has set.           *)
StrongerAxis(A, value) ==
    IF Rank("debrief") < Rank(A.source) THEN A
    ELSE [value |-> value, confidence |-> 10, source |-> "debrief"]

AfterVisit(P, V, attended) ==
    [P EXCEPT
        !.intensity = CASE attended /\ "chill" \in V -> AttendanceAxis(@, -36)
                        [] attended /\ "chill" \notin V /\ "sporty" \in V -> AttendanceAxis(@, 36)
                        [] OTHER -> @,
        !.contact = IF attended /\ "artistic" \in V THEN AttendanceAxis(@, 36) ELSE @]

ActivityVibe(V) ==
    CASE "sporty" \in V -> "sporty"
      [] "sporty" \notin V /\ "artistic" \in V -> "artistic"
      [] V = {"chill"} -> "chill"
      [] V = {} -> "other"

DislikesAfter(D, l, d) ==
    IF d.negative
    THEN Append(D, [axis |-> IF d.about = "activity" THEN ActivityVibe(Vibes[l]) ELSE "activity_fit",
                    listing |-> l, about |-> d.about])
    ELSE D

Corroborated(D, v) ==
    Cardinality({n \in DOMAIN D : D[n].about = "activity" /\ D[n].axis = v}) >= 2

(* The debrief of the booking k: one more dislike, and an axis moves once a *)
(* second one blames the same activity.                                     *)
AfterDebrief(P, k, d) ==
    LET D == DislikesAfter(P.dislikes, k.listing, d)
        v == ActivityVibe(Vibes[k.listing])
        moves == d.about = "activity" /\ Corroborated(D, v) IN
    [P EXCEPT
        !.dislikes = D,
        !.paused = IF d.pause THEN @ \cup {k} ELSE @,
        !.intensity = CASE moves /\ v = "sporty" -> StrongerAxis(@, -24)
                        [] moves /\ v = "chill"  -> StrongerAxis(@, 24)
                        [] OTHER -> @,
        !.contact = IF moves /\ v = "artistic" THEN StrongerAxis(@, -24) ELSE @]

(* A slip: only visits are remembered.                                      *)
AdaptedToVisits(P, e, d) ==
    LET Q == AfterVisit([P EXCEPT !.attendance = IF e.attended THEN Append(@, e) ELSE @],
                        Vibes[e.key.listing], e.attended) IN
    IF d = NoDebrief THEN Q ELSE AfterDebrief(Q, e.key, d)

(* The preferences record_outcome is given. *)
Adapted(P, e, d) ==
    LET Q == AfterVisit([P EXCEPT !.attendance = Append(@, e)], Vibes[e.key.listing], e.attended) IN
    IF d = NoDebrief THEN Q ELSE AfterDebrief(Q, e.key, d)

(* A slip: the pause named for the earlier booking is forgotten.            *)
ActionForgettingPause(Q, e, d) ==
    LET A == Q.attendance
        n == Len(A) IN
    IF ~e.attended /\ d # NoDebrief /\ d.pause THEN "hold_this_week"
    ELSE CASE n >= 2 /\ ~A[n].attended /\ ~A[n - 1].attended -> "replan"
           [] n >= 3 /\ A[n].attended /\ A[n - 1].attended /\ A[n - 2].attended -> "try_to_commit"
           [] OTHER -> "none"

(* The action answered for outcome e, Q the preferences adapted to it.      *)
Action(Q, e, d) ==
    LET A == Q.attendance
        n == Len(A) IN
    IF ~e.attended /\ d # NoDebrief /\ d.pause THEN "hold_this_week"
    ELSE CASE n >= 2 /\ ~A[n].attended /\ ~A[n - 1].attended /\ A[n - 1].key \notin Q.paused -> "replan"
           [] n >= 3 /\ A[n].attended /\ A[n - 1].attended /\ A[n - 2].attended -> "try_to_commit"
           [] OTHER -> "none"

-----------------------------------------------------------------------------
(* The service *)

Waiting == [pc |-> "waiting"]
Refused == [pc |-> "refused"]

ObsInit ==
    /\ PDInit
    /\ prefs  = [t \in Teen |-> Seeded({})]
    /\ report = [h \in Report |-> Waiting]
    /\ log    = [t \in Teen |-> <<>>]

IntakeSetup(t, L, chips) ==
    /\ SetupProfile(t, L)
    /\ prefs' = [prefs EXCEPT ![t] = Seeded(chips)]
    /\ UNCHANGED <<report, log>>

(* The plan and commit calls of the store, which leave preferences alone.   *)
PlanCalls ==
    /\ \/ \E p \in Plan : CallerSavesPlan(p)
       \/ \E i \in StoredIds, ok \in BOOLEAN : SaveGuardianVerdict([plan |-> i, approved |-> ok])
       \/ \E i \in StoredIds : CommitPlanBookings(i)
       \/ \E i \in StoredIds : ReplayCommit(i)
       \/ \E l \in Listing : FlagDeadListing(l)
    /\ UNCHANGED obsVars

(* planner_snapshot and require_booking_owner: the preferences adapted      *)
(* later are the ones read here.                                            *)
ReportArrives(h, e, d) ==
    /\ report[h] = Waiting
    /\ e.key \in bookings
    /\ report' = [report EXCEPT ![h] =
          [pc |-> "observing", event |-> e, debrief |-> d,
           was |-> prefs[e.key.plan.teen], since |-> Len(log[e.key.plan.teen])]]
    /\ UNCHANGED <<pdVars, prefs, log>>

Observing(h) == report[h].pc = "observing"
Learnt(h) == Adapted(report[h].was, report[h].event, report[h].debrief)
Answered(h, stored) ==
    LET q == report[h] IN
    report' = [report EXCEPT ![h] =
        [pc |-> "answered", event |-> q.event, debrief |-> q.debrief, was |-> q.was,
         since |-> q.since, action |-> Action(Learnt(h), q.event, q.debrief), stored |-> stored]]

(* A slip: the report is learned from before the store knows it.            *)
LearnsFirst(h) ==
    LET e == report[h].event
        t == e.key.plan.teen IN
    /\ Observing(h)
    /\ ReplayOutcome(e.key, e.attended)
    /\ prefs' = [prefs EXCEPT ![t] = Learnt(h)]
    /\ Answered(h, FALSE)
    /\ UNCHANGED log

(* record_outcome takes the outcome and stores the adapted preferences.     *)
OutcomeLearnt(h) ==
    LET e == report[h].event
        t == e.key.plan.teen
        pause == report[h].debrief # NoDebrief /\ report[h].debrief.pause IN
    /\ Observing(h)
    /\ RecordOutcome(e.key, e.attended)
    /\ prefs' = [prefs EXCEPT ![t] = Learnt(h)]
    /\ log' = [log EXCEPT ![t] = Append(@, [key |-> e.key, attended |-> e.attended, pause |-> pause])]
    /\ Answered(h, TRUE)

(* The outcome is there already: nothing is stored, the answer is given.    *)
OutcomeReplayed(h) ==
    LET e == report[h].event IN
    /\ Observing(h)
    /\ ReplayOutcome(e.key, e.attended)
    /\ Answered(h, FALSE)
    /\ UNCHANGED <<prefs, log>>

(* The booking has the other outcome: ReplayConflict.                       *)
OutcomeRefused(h) ==
    LET e == report[h].event IN
    /\ Observing(h)
    /\ [key |-> e.key, attended |-> ~e.attended] \in attendance
    /\ report' = [report EXCEPT ![h] = Refused]
    /\ UNCHANGED <<pdVars, prefs, log>>

ObsNext ==
    \/ \E t \in Teen, L \in OpeningLedger, chips \in Chips : IntakeSetup(t, L, chips)
    \/ PlanCalls
    \/ \E h \in Report, k \in bookings, ok \in BOOLEAN, d \in Said \cup {NoDebrief} :
          ReportArrives(h, [key |-> k, attended |-> ok], d)
    \/ \E h \in Report : OutcomeLearnt(h) \/ OutcomeReplayed(h) \/ OutcomeRefused(h)

ObsSpec == ObsInit /\ [][ObsNext]_allVars

-----------------------------------------------------------------------------
(* Properties *)

(* Stored preferences and the histories of the teens have their types.      *)
ObsTypeOK ==
    /\ prefs \in [Teen -> Preferences]
    /\ \A t \in Teen : log[t] \in Seq([key : Key, attended : BOOLEAN, pause : BOOLEAN])
    /\ \A h \in Report : report[h].pc \in {"waiting", "observing", "answered", "refused"}

StoredReport(h) == report[h].pc = "answered" /\ report[h].stored
Turn(h) == LET e == report[h].event IN CHOOSE n \in DOMAIN log[e.key.plan.teen] :
                log[e.key.plan.teen][n].key = e.key

(* However often a report is sent, and however reports overlap, the stored  *)
(* preferences learn from a booking at most once and only what the          *)
(* attendance table says of it.                                             *)
LearnsOncePerOutcome ==
    \A t \in Teen :
        LET A == prefs[t].attendance IN
        /\ \A n \in DOMAIN A : A[n] \in attendance /\ A[n].key.plan.teen = t
        /\ \A m, n \in DOMAIN A : A[m].key = A[n].key => m = n

(* A recorded outcome is missing from the preferences only if a report that *)
(* had read them before it was recorded after it.                           *)
ForgottenOnlyByOverlap ==
    \A t \in Teen : \A n \in DOMAIN log[t] :
        \/ \E m \in DOMAIN prefs[t].attendance : prefs[t].attendance[m].key = log[t][n].key
        \/ \E h \in Report : /\ StoredReport(h) /\ report[h].event.key.plan.teen = t
                             /\ report[h].since < n /\ n < Turn(h)

(* A report that had read every earlier outcome is answered from the last   *)
(* outcomes of the teen: hold for a pause, replan for two no-shows without  *)
(* one, commit after three visits.                                          *)
AnswersFollowHistory ==
    \A h \in Report : StoredReport(h) =>
        LET H == log[report[h].event.key.plan.teen]
            n == Turn(h)
            Missed(m) == m > 0 /\ ~H[m].attended /\ ~H[m].pause
            complete == [m \in 1..(n - 1) |-> [key |-> H[m].key, attended |-> H[m].attended]] IN
        report[h].was.attendance = complete =>
            /\ report[h].action = "hold_this_week" <=> ~H[n].attended /\ H[n].pause
            /\ report[h].action = "replan" <=> Missed(n) /\ Missed(n - 1)
            /\ report[h].action = "try_to_commit" <=>
                   n >= 3 /\ H[n].attended /\ H[n - 1].attended /\ H[n - 2].attended

(* What an axis rests on: attendance as soon as one visit the preferences   *)
(* know of speaks of it, a debrief only without one and never on a single   *)
(* dislike of the activity.                                                 *)
Visits(P, V) == {n \in DOMAIN P.attendance :
                    P.attendance[n].attended /\ Vibes[P.attendance[n].key.listing] \cap V # {}}
RestsOnEvidence(P) ==
    /\ P.intensity.source = "attendance" <=> Visits(P, {"sporty", "chill"}) # {}
    /\ P.contact.source = "attendance" <=> Visits(P, {"artistic"}) # {}
    /\ P.intensity.source = "debrief" =>
           Corroborated(P.dislikes, "sporty") \/ Corroborated(P.dislikes, "chill")
    /\ P.contact.source = "debrief" => Corroborated(P.dislikes, "artistic")
EvidenceRanks == \A t \in Teen : RestsOnEvidence(prefs[t])

(* One no-show is recorded and changes nothing else: a replan is answered   *)
(* only when the teen has missed two bookings.                              *)
OneNoShowChangesNothing ==
    \A h \in Report : report[h].pc = "answered" /\ report[h].action = "replan" =>
        Cardinality({k \in NoShows : k.plan.teen = report[h].event.key.plan.teen}) >= 2
=============================================================================
