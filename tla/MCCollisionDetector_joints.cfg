\* Any client: characters may be missing, added late, or sent in another order.
\* A crash (iterator past the end) leaves no successor state.
CONSTANTS
    ca = ca  cb = cb  u1 = u1  u2 = u2  v1 = v1  v2 = v2
    None = None  Null = Null
    CharNames <- MCCharNames
    Urls <- MCUrls
    Versions <- MCVersions
    NumLinks <- MCNumLinks
    Touching <- MCTouching
    CharOrder <- MCCharOrder
    Requests <- MCRequests
    MaxLinks = 2
    MaxPairs = 2
    MaxQueries = 2
    StableClient = FALSE
SPECIFICATION Spec
INVARIANT PosesDelivered
CHECK_DEADLOCK FALSE
