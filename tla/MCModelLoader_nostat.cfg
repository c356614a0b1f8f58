\* Edits a second apart from loads; does getBodyInfo follow a url stat() cannot see?
CONSTANTS
    u1 = u1  u2 = u2  v1 = v1  v2 = v2  bad = bad  None = None
    Urls <- MCUrls
    FileUrls <- MCFileUrls
    Versions <- MCVersions
    BadVersions <- MCBadVersions
    MaxTime = 3
    InitStamp = 0
    SlowEdits = TRUE
SPECIFICATION Spec
INVARIANT GetReturnsCurrentAnyUrl
