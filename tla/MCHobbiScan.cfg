SPECIFICATION ScanSpec
CONSTANTS
    t1 = t1
    t2 = t2
    a = a
    b = b
    c = c
    r1 = r1
    r2 = r2
    r3 = r3
    s1 = s1
    s2 = s2
    None = None
    Teen = {t1}
    Listing = {a, b, c}
    Request = {r1}
    Scan = {s1, s2}
    Seed <- SeedAB
    Replay <- ReplayC
    Flaky = {}
    GrantSets <- FullGrants
    OperatorReplays = TRUE
    MaxCrashes = 1
    MaxOutcomes = 1
    Version <- Nat
    MaxReplans = 3
    MaxDiscoveryRounds = 2
    MaxGuardianRejections = 2
    MaxFetchesPerDomain = 1
    MaxListingsPerScan = 2
    MaxItems = 2
    MaxPlans = 0
    MaxUnit = 1
    Binding = {"none", "money", "travel", "time", "schedule", "age", "rules", "limited_supply"}
    OpeningLedger <- MCOpening
    Cost <- MCCost
    Duration <- MCDuration
    Rank <- MCRank
    Screen <- MCScreen
    NoPaid = {}
    Host <- TwoHosts
    Checkable = {a, b, c}
    Order <- MCOrder
INVARIANTS
    FlagsAreExplained
PROPERTIES
    LivePlansGetFlagged
    CommitIsReported
    TrustRisesOnlyByOverlap
    ScansServeInTurn
CHECK_DEADLOCK FALSE
