SPECIFICATION FullSpec
CONSTANTS
    west = west
    north = north
    outside = outside
    pageA = pageA
    pageB = pageB
    pageC = pageC
    pageD = pageD
    pageE = pageE
    pageF = pageF
    invented = invented
    NoArea = NoArea
    Nobody = "nobody"
    AreaOrder <- MCAreaOrder
    AreaQuota <- MCAreaQuota
    SourceQuota <- MCSourceQuota
    SupplementalIds = {9}
    UnavailableIds = {}
    WebPages = {pageA, pageB, pageC, pageD, pageE, pageF, invented}
    InvalidPages = {invented}
    Vibes = {"chill"}
    DeepArea = west
    Gate <- MCGate
    Drafts <- MCDrafts
    Webs <- MCWebs
    Posts <- MCPosts
    Reviews <- MCReviews
    NonHuman = {"bot", "nobody"}
    Quarantines <- MCQuarantines
    Answers = {{}, {pageA}}
    MaxDay = 2
    MaxReviews = 3
    MaxCaptures = 1
INVARIANTS
    QueueKeepsBest
    SelectionIgnoresOrder
    ShortlistIsBalanced
    PublishedWasAttested
    IdsAreUnique
    OnlyLoadable
    BuiltCurrent
PROPERTIES
    PromotionIsComplete
