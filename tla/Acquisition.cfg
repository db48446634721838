SPECIFICATION FairSpec
CONSTANTS
    None = None
    s = s
    a = a
    b = b
    c = c
    d = d
    e = e
    away = away
    broken = broken
    refused = refused
    Urls <- MCUrls
    Start = s
    OnSite = {s, a, b, c, d, e, refused}
    Unparsable = {broken}
    Invalid = {refused}
    Webs <- MCWebs
    MaxPages = 4
    MaxDepth = 2
    MaxSeen = 5
    MaxFailures = 1
    Sizes = {0, 3, 7}
    IndexSizes = {1, 3}
    MaxSitemapChildren = 2
    MaxSitemapLocs = 8
    SitemapSample = 2
    SensitivePaths = 1
INVARIANTS
    TypeOK
    LoadIsBounded
    SampleCoversHalf
    AskedOnce
    DepthIsClickDistance
    CompleteBelowLimits
PROPERTIES
    AcquisitionEnds
CHECK_DEADLOCK FALSE
