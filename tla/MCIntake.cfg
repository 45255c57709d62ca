SPECIFICATION IntakeSpec
CONSTANTS
    t1 = t1
    t2 = t2
    t3 = t3
    k1 = k1
    k2 = k2
    k3 = k3
    k4 = k4
    r1 = r1
    r2 = r2
    None = None
    Teen = {t1, t2, t3}
    Request = {r1, r2}
    ConsentId <- MCConsentId
    Token = {k1, k2, k3, k4}
    Setups <- MCSetups
    MaxCrashes = 1
SYMMETRY Symmetry
INVARIANTS
    HeldTokenOpens
    LockedOutOnlyByFailure
    ConsentsOnFile
    ThreadsRunOnce
