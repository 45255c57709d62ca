SPECIFICATION PDSpec
CONSTANTS
    t1 = t1
    t2 = t2
    l1 = l1
    l2 = l2
    Teen = {t1, t2}
    Listing = {l1, l2}
    Binding = {"full", "thin"}
    Cost <- MCCost
    Duration <- MCDuration
    MaxUnit = 2
    OpeningLedger <- MCOpening
    Version = {0, 1, 2}
    MaxPlans = 2
INVARIANTS
    PDTypeOK
    LedgerMatchesBookings
    LedgerStaysReadable
    OneCommitPerVersion
    ReplayIsAnswered
    VersionCountsEffects
    OutcomeRecordedOnce
    LivePlanIsLatest
    BookingsAuthorised
PROPERTIES
    ImplementsContract
CHECK_DEADLOCK FALSE
