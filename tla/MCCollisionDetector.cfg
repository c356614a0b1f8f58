\* The dynamics simulator's usage: every character is added before the
\* first query, and each query sends the whole scene in one order.
CONSTANTS
    ca = ca  cb = cb  u1 = u1  u2 = u2  v1 = v1  v2 = v2
    None = None  Null = Null
    CharNames <- MCCharNames
    Urls <- MCUrls
    Versions <- MCVersions
    NumLinks <- MCNumLinks
    Touching <- MCTouching
    CharOrder <- MCCharOrder
    Requests <- MCRequests
    MaxLinks = 2
    MaxPairs = 2
    MaxQueries = 2
    StableClient = TRUE
SPECIFICATION Spec
INVARIANTS TypeOK PosesDelivered
PROPERTIES DefinedQueryReportsContacts
