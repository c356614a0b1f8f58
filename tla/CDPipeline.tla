------------------------------ MODULE CDPipeline ------------------------------
(***************************************************************************)
(* The path of a model file into collision detection: ModelLoader reads   *)
(* the file into a BodyInfo (getBodyInfo, with its mtime-checked cache),  *)
(* a client hands that BodyInfo to a CollisionDetector (addModel), and    *)
(* the detector builds its collision model or takes the one cached for    *)
(* the url in the cache every detector of the factory shares.  The        *)
(* client of both servers (the simulator's front end) is not under src/;  *)
(* it is the one process below that fetches, optionally clears the        *)
(* detector cache, adds, and starts new sessions.  The client may also    *)
(* restart (crash, or be replaced by another client of the same servers): *)
(* it forgets what it put into the cache, which the factory keeps, and    *)
(* calls clearAllCache() before its first fetch.  Other clients of the    *)
(* ModelLoader, the users editing model files and the clock are the whole *)
(* of ModelLoader's Next, run beside it.                                   *)
(***************************************************************************)
EXTENDS Naturals

CONSTANTS
    Urls, FileUrls, Versions, BadVersions, MaxTime, InitStamp, SlowEdits, None,
    CharNames, NumLinks, MaxLinks, Touching, MaxPairs, MaxQueries, StableClient,
    CharOrder, Requests, Null,
    Unknown,        \* seen[u] after a restart: the client cannot tell what the cache holds
    TrustClearAll   \* TRUE: a restarted client takes clearAllCache() to have emptied the
                    \* cache; FALSE: it also clears each url before its first add

VARIABLES
    file, now, map, ret, loadedAt,                                  \* ModelLoader
    cache, scene, pairs, joints, pose, query, sent, result, crashed, \* CollisionDetector
    pending,    \* the client's fetched BodyInfo not yet added: [c, u, ver, cur], or None
    seen,       \* url -> content of the BodyInfo the client last added for it, None
                \* (nothing cached), or Unknown
    fresh,      \* the client restarted and has not called clearAllCache() yet
    fetchedFrom \* history: char -> the file's content when its BodyInfo was fetched

mlVars == <<file, now, map, ret, loadedAt>>
cdVars == <<cache, scene, pairs, joints, pose, query, sent, result, crashed>>
clientVars == <<pending, seen, fresh, fetchedFrom>>
vars == <<mlVars, cdVars, clientVars>>

ML == INSTANCE ModelLoader
CD == INSTANCE CollisionDetector

-----------------------------------------------------------------------------
Init ==
    /\ ML!Init /\ CD!Init
    /\ pending = None
    /\ seen = [u \in Urls |-> None]
    /\ fresh = FALSE
    /\ fetchedFrom = [c \in CharNames |-> None]

(* The client asks the ModelLoader for the BodyInfo of u, for a character *)
(* its detector does not hold yet; a ModelLoaderException ends the try.   *)
Fetch(c, u) ==
    /\ pending = None /\ ~crashed /\ ~fresh
    /\ scene[c] = None
    /\ ML!GetBodyInfo(u)
    /\ pending' = IF ret'.ok THEN [c |-> c, u |-> u, ver |-> ret'.ver, cur |-> ret'.cur]
                  ELSE None
    /\ UNCHANGED <<cdVars, seen, fresh, fetchedFrom>>

(* The content differs from what the client last put into the cache, or  *)
(* the client does not know what it put there.                             *)
Changed(p) == seen[p.u] \notin {None, p.ver}

(* The client calls clearCache(url) before adding a changed BodyInfo.     *)
ClearStale ==
    /\ pending # None /\ Changed(pending)
    /\ CD!ClearCache(pending.u)
    /\ seen' = [seen EXCEPT ![pending.u] = None]
    /\ UNCHANGED <<mlVars, pending, fresh, fetchedFrom>>

(* addModel(c, binfo) on the client's detector.                           *)
AddFetched ==
    /\ pending # None
    /\ ~Changed(pending)
    /\ CD!AddModel(pending.c, pending.u, pending.ver)
    /\ seen' = [seen EXCEPT ![pending.u] = pending.ver]
    /\ fetchedFrom' = [fetchedFrom EXCEPT ![pending.c] = pending.cur]
    /\ pending' = None
    /\ UNCHANGED <<mlVars, fresh>>

(* The client destroys its detector and creates another from the factory. *)
NewSession ==
    /\ pending = None /\ ~fresh
    /\ CD!NewDetector
    /\ UNCHANGED <<mlVars, clientVars>>

(* The client restarts, dropping a fetched BodyInfo, and creates a new    *)
(* detector from the factory, whose cache outlives the client.            *)
ClientRestart ==
    /\ CD!NewDetector
    /\ pending' = None
    /\ seen' = [u \in Urls |-> Unknown]
    /\ fresh' = TRUE
    /\ fetchedFrom' = [c \in CharNames |-> None]
    /\ UNCHANGED mlVars

(* The restarted client calls clearAllCache() to start from an empty      *)
(* cache.                                                                  *)
ResetCache ==
    /\ fresh
    /\ CD!ClearAllCache
    /\ fresh' = FALSE
    /\ seen' = IF TrustClearAll THEN [u \in Urls |-> None] ELSE seen
    /\ UNCHANGED <<mlVars, pending, fetchedFrom>>

(* Another client of the ModelLoader, a user saving a file, the clock.    *)
Environment ==
    /\ ML!Next
    /\ UNCHANGED <<cdVars, clientVars>>

Next ==
    \/ \E c \in CharNames, u \in Urls : Fetch(c, u)
    \/ ClearStale
    \/ AddFetched
    \/ NewSession
    \/ ClientRestart
    \/ ResetCache
    \/ Environment

Spec == Init /\ [][Next]_vars

-----------------------------------------------------------------------------
TypeOK ==
    /\ ML!TypeOK /\ CD!TypeOK
    /\ pending \in [c : CharNames, u : Urls, ver : Versions, cur : Versions] \cup {None}
    /\ seen \in [Urls -> Versions \cup {None, Unknown}]
    /\ fresh \in BOOLEAN
    /\ fetchedFrom \in [CharNames -> Versions \cup {None}]

(* ModelLoader's own guarantees, in the composed system.                   *)
NoFailedLoadCached == ML!NoFailedLoadCached
GetReturnsCurrent == ML!GetReturnsCurrent

(* End to end, for files stat() sees: every character of the current      *)
(* detector collides with the model of the file content the ModelLoader   *)
(* had when the client fetched its BodyInfo, in every session and after  *)
(* client restarts, edits and reloads.  This needs getBodyInfo's mtime    *)
(* check to reload an edited file, and the shared detector cache, keyed   *)
(* by url alone and kept across clients, not to hand back a model of an  *)
(* older content (spec 4.2, 8).                                            *)
PipelineModelCurrent ==
    \A c \in CharNames :
        (scene[c] # None /\ scene[c].url \in FileUrls) => scene[c].ver = fetchedFrom[c]

=============================================================================
