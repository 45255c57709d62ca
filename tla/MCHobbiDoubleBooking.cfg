SPECIFICATION PlannedSpec
CONSTANTS
    t1 = t1
    t2 = t2
    a = a
    b = b
    c = c
    r1 = r1
    r2 = r2
    r3 = r3
    s1 = s1
    s2 = s2
    None = None
    Teen = {t1}
    Listing = {a, b, c}
    Request = {r1, r2, r3}
    Scan = {}
    Seed <- SeedABC
    Replay <- NoReplay
    Flaky = {}
    GrantSets <- MCGrants
    OperatorReplays = FALSE
    MaxCrashes = 0
    MaxOutcomes = 0
    Version <- Nat
    MaxReplans = 1
    MaxDiscoveryRounds = 2
    MaxGuardianRejections = 2
    MaxFetchesPerDomain = 2
    MaxListingsPerScan = 3
    MaxItems = 2
    MaxPlans = 0
    MaxUnit = 1
    Binding = {"none", "money", "travel", "time", "schedule", "age", "rules", "limited_supply"}
    OpeningLedger <- MCOpening
    Cost <- MCCost
    Duration <- MCDuration
    Rank <- MCRank
    Screen <- MCScreen
    NoPaid = {}
    Host <- MCHost
    Checkable = {a, b}
    Order <- MCRank
SYMMETRY Symmetry
INVARIANTS
    NoDoubleBooking
CHECK_DEADLOCK FALSE
