\* A restarted client relies on clearAllCache(), a no-op in a release build,
\* and adds each url's BodyInfo without clearing it.
CONSTANTS
    u1 = u1  u2 = u2  v1 = v1  v2 = v2  bad = bad  ca = ca
    None = None  Null = Null  Unknown = Unknown
    Urls <- MCUrls
    FileUrls <- MCFileUrls
    Versions <- MCVersions
    BadVersions <- MCBadVersions
    MaxTime = 2
    InitStamp = 0
    SlowEdits = TRUE
    CharNames <- MCCharNames
    NumLinks <- MCNumLinks
    MaxLinks = 1
    Touching = {}
    MaxPairs = 0
    MaxQueries = 0
    StableClient = TRUE
    CharOrder <- MCCharOrder
    Requests = {}
    TrustClearAll = TRUE
SPECIFICATION Spec
INVARIANT PipelineModelCurrent
