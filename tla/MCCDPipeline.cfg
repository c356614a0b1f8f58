\* The client clears the detector cache of a url before adding a BodyInfo
\* whose content changed, and after a restart before its first add of each
\* url; edits come a second after loads of the same file.
CONSTANTS
    u1 = u1  u2 = u2  v1 = v1  v2 = v2  bad = bad  ca = ca
    None = None  Null = Null  Unknown = Unknown
    Urls <- MCUrls
    FileUrls <- MCFileUrls
    Versions <- MCVersions
    BadVersions <- MCBadVersions
    MaxTime = 2
    InitStamp = 0
    SlowEdits = TRUE
    CharNames <- MCCharNames
    NumLinks <- MCNumLinks
    MaxLinks = 1
    Touching = {}
    MaxPairs = 0
    MaxQueries = 0
    StableClient = TRUE
    CharOrder <- MCCharOrder
    Requests = {}
    TrustClearAll = FALSE
SPECIFICATION Spec
INVARIANT TypeOK
INVARIANT NoFailedLoadCached
INVARIANT GetReturnsCurrent
INVARIANT PipelineModelCurrent
