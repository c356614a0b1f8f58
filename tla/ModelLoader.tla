------------------------------ MODULE ModelLoader ------------------------------
(***************************************************************************)
(* The BodyInfo cache of ModelLoader_impl                                  *)
(* (src/server/ModelLoader/ModelLoader_impl.cpp) beside the model files it *)
(* reads.  A file has a content version and an mtime in whole seconds      *)
(* (st_mtime) on a clock `now`; a BodyInfo is the content version it was   *)
(* loaded from and the lastUpdateTime stamp it carries.  Urls outside      *)
(* FileUrls are those stat() cannot see (their deleteURLScheme path is not *)
(* a local file).  A content version in BadVersions makes loadModelFile    *)
(* throw ModelLoaderException.                                             *)
(***************************************************************************)
EXTENDS Naturals

CONSTANTS
    Urls,           \* model urls
    FileUrls,       \* urls whose file stat() succeeds on
    Versions,       \* content versions of a model file
    BadVersions,    \* contents loadModelFile rejects
    MaxTime,        \* last second of the clock
    InitStamp,      \* lastUpdateTime of a BodyInfo_impl nobody stamped
    SlowEdits,      \* TRUE: a file is never edited in the second it was loaded
    None

ASSUME /\ FileUrls \subseteq Urls /\ BadVersions \subseteq Versions
       /\ MaxTime \in Nat \ {0} /\ InitStamp \in Nat

Times == 0..MaxTime

VARIABLES
    file,       \* url -> [ver, mtime]: the model file on disk
    now,        \* the wall clock, in seconds
    map,        \* urlToBodyInfoMap: url -> [ver, stamp], or None
    ret,        \* the last call's outcome: [url, ok, ver, cur], or None
    loadedAt    \* history: url -> second of the last load of it

vars == <<file, now, map, ret, loadedAt>>

-----------------------------------------------------------------------------
(* stat(filename).st_mtime, or 0 when stat fails.                          *)
StatMtime(u) == IF u \in FileUrls THEN file[u].mtime ELSE 0

(* The outcome a call reports: the BodyInfo's content and, as `cur`, the  *)
(* file's content at the time of the call.                                 *)
Returned(u, ver) == [url |-> u, ok |-> TRUE, ver |-> ver, cur |-> file[u].ver]
Failed(u) == [url |-> u, ok |-> FALSE, ver |-> None, cur |-> file[u].ver]

(* Mutant: urlToBodyInfoMap[url] assigned before loadModelFile.            *)
LoadFromModelFileEarlyInsert(u, stamp) ==
    IF file[u].ver \in BadVersions
    THEN [map |-> [map EXCEPT ![u] = [ver |-> file[u].ver, stamp |-> stamp]],
          ret |-> Failed(u)]
    ELSE [map |-> [map EXCEPT ![u] = [ver |-> file[u].ver, stamp |-> stamp]],
          ret |-> Returned(u, file[u].ver)]

(* loadBodyInfoFromModelFile(url) followed by the stamp its caller sets:   *)
(* a new BodyInfo_impl loads the file; on ModelLoaderException the         *)
(* exception is rethrown and the map is left alone, otherwise the map      *)
(* entry of url is replaced.                                               *)
LoadFromModelFile(u, stamp) ==
    IF file[u].ver \in BadVersions
    THEN [map |-> map, ret |-> Failed(u)]
    ELSE [map |-> [map EXCEPT ![u] = [ver |-> file[u].ver, stamp |-> stamp]],
          ret |-> Returned(u, file[u].ver)]

Init ==
    /\ file \in [Urls -> [ver : Versions \ BadVersions, mtime : {1}]]
    /\ now = 1
    /\ map = [u \in Urls |-> None]
    /\ ret = None
    /\ loadedAt = [u \in Urls |-> 0]

(* Mutant: time_t mtime left uninitialised, so a failed stat stamps        *)
(* garbage (None).                                                          *)
GetBodyInfoMtimeUnset(u) ==
    LET mtime == IF u \in FileUrls THEN file[u].mtime ELSE None
    IN  IF map[u] # None /\ mtime = map[u].stamp
        THEN /\ ret' = Returned(u, map[u].ver)
             /\ UNCHANGED <<file, now, map, loadedAt>>
        ELSE /\ map' = LoadFromModelFile(u, mtime).map
             /\ ret' = LoadFromModelFile(u, mtime).ret
             /\ loadedAt' = [loadedAt EXCEPT ![u] = now]
             /\ UNCHANGED <<file, now>>

(* Mutant: the cache hit tests only that url is in the map.                *)
GetBodyInfoNoStampCheck(u) ==
    IF map[u] # None
    THEN /\ ret' = Returned(u, map[u].ver)
         /\ UNCHANGED <<file, now, map, loadedAt>>
    ELSE /\ map' = LoadFromModelFile(u, StatMtime(u)).map
         /\ ret' = LoadFromModelFile(u, StatMtime(u)).ret
         /\ loadedAt' = [loadedAt EXCEPT ![u] = now]
         /\ UNCHANGED <<file, now>>

(* getBodyInfo(url): a cache hit iff url is in the map and the file's      *)
(* mtime equals the BodyInfo's lastUpdateTime; otherwise load the file and *)
(* stamp the new BodyInfo with that mtime.                                 *)
GetBodyInfo(u) ==
    IF map[u] # None /\ StatMtime(u) = map[u].stamp
    THEN /\ ret' = Returned(u, map[u].ver)
         /\ UNCHANGED <<file, now, map, loadedAt>>
    ELSE /\ map' = LoadFromModelFile(u, StatMtime(u)).map
         /\ ret' = LoadFromModelFile(u, StatMtime(u)).ret
         /\ loadedAt' = [loadedAt EXCEPT ![u] = now]
         /\ UNCHANGED <<file, now>>

(* loadBodyInfo(url): always load; the new BodyInfo keeps the stamp its   *)
(* constructor gave it.                                                    *)
LoadBodyInfo(u) ==
    /\ map' = LoadFromModelFile(u, InitStamp).map
    /\ ret' = LoadFromModelFile(u, InitStamp).ret
    /\ loadedAt' = [loadedAt EXCEPT ![u] = now]
    /\ UNCHANGED <<file, now>>

(* clearData(): urlToBodyInfoMap.clear().                                  *)
ClearData ==
    /\ map' = [u \in Urls |-> None]
    /\ UNCHANGED <<file, now, ret, loadedAt>>

(* The environment: a user saves a model file, which sets its mtime to    *)
(* the current second; and the clock advances.                             *)
EditFile(u, v) ==
    /\ v # file[u].ver
    /\ SlowEdits => now > loadedAt[u]
    /\ file' = [file EXCEPT ![u] = [ver |-> v, mtime |-> now]]
    /\ UNCHANGED <<now, map, ret, loadedAt>>

Tick ==
    /\ now < MaxTime
    /\ now' = now + 1
    /\ UNCHANGED <<file, map, ret, loadedAt>>

Next ==
    \/ \E u \in Urls : GetBodyInfo(u) \/ LoadBodyInfo(u)
    \/ ClearData
    \/ \E u \in Urls, v \in Versions : EditFile(u, v)
    \/ Tick

Spec == Init /\ [][Next]_vars

-----------------------------------------------------------------------------
BodyInfo == [ver : Versions, stamp : Times \cup {InitStamp}]

TypeOK ==
    /\ file \in [Urls -> [ver : Versions, mtime : Times]]
    /\ now \in Times
    /\ map \in [Urls -> BodyInfo \cup {None}]
    /\ ret \in [url : Urls, ok : BOOLEAN, ver : Versions \cup {None}, cur : Versions]
               \cup {None}
    /\ loadedAt \in [Urls -> Times]

(* A model whose load failed is never cached: after a ModelLoaderException *)
(* every BodyInfo in urlToBodyInfoMap holds content loadModelFile accepted *)
(* (spec 7: "no partial body is registered").                              *)
NoFailedLoadCached ==
    \A u \in Urls : map[u] # None => map[u].ver \notin BadVersions

(* getBodyInfo on a url whose file stat() sees returns the file's current *)
(* content: the mtime comparison detects every edit made since the cached *)
(* BodyInfo was loaded (spec 8, cache correctness).                        *)
GetReturnsCurrent ==
    (ret # None /\ ret.ok /\ ret.url \in FileUrls) => ret.ver = ret.cur

(* The same for every url getBodyInfo can load, whether or not stat()      *)
(* sees its file: when stat fails the stamp is 0 at every call, so the     *)
(* first BodyInfo loaded is returned for good.                             *)
GetReturnsCurrentAnyUrl ==
    (ret # None /\ ret.ok) => ret.ver = ret.cur

=============================================================================
