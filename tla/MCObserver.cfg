SPECIFICATION ObsSpec
CONSTANTS
    t1 = t1
    a = a
    b = b
    c = c
    h1 = h1
    h2 = h2
    h3 = h3
    NoDebrief = NoDebrief
    Teen = {t1}
    Listing = {a, b, c}
    Report = {h1, h2, h3}
    Said <- MCSaid
    Chips <- MCChips
    Vibes <- MCVibes
    Binding = {"none"}
    OpeningLedger <- MCOpening
    Cost <- MCFree
    Duration <- MCFree
    MaxUnit = 0
    Version = {0}
    MaxPlans = 1
SYMMETRY Symmetry
INVARIANTS
    ObsTypeOK
    LearnsOncePerOutcome
    ForgottenOnlyByOverlap
    AnswersFollowHistory
    EvidenceRanks
CHECK_DEADLOCK FALSE
