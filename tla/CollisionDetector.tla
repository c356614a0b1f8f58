--------------------------- MODULE CollisionDetector ---------------------------
(***************************************************************************)
(* One CollisionDetector_impl servant and the CdCharCache it shares with  *)
(* every detector of its factory                                           *)
(* (src/server/CollisionDetector/CollisionDetector_impl.cpp).              *)
(*                                                                         *)
(* Characters are added from a BodyInfo (addModel), collision pairs are    *)
(* registered by character and link name (addCollisionPair), and every     *)
(* query first copies the client's link positions into the CdJoints       *)
(* (_setCharacterData) and then evaluates check pairs.  Geometry is        *)
(* abstracted: a link is (character, index), the model built for a url is  *)
(* the version of the BodyInfo it was built from, and whether two joints   *)
(* touch is the fixed relation Touching.  A pose is a tag <<c, j, q>>:     *)
(* "the pose the client sent for link j of character c in query q", so a  *)
(* pose written to the wrong joint, or not written, is visible.            *)
(***************************************************************************)
EXTENDS Naturals, Sequences, SequencesExt, FiniteSets

CONSTANTS
    CharNames,      \* character names clients use
    Urls,           \* model urls
    Versions,       \* versions of a model file a BodyInfo can be read from
    NumLinks,       \* NumLinks[u]: links of the model at u
    MaxLinks,       \* link names are 0..MaxLinks-1 (a name past a model's links is unknown)
    Touching,       \* set of {joint, joint} pairs whose geometry intersects
    MaxPairs,       \* bound on registered pairs
    MaxQueries,     \* bound on queries (the pose generation counter)
    StableClient,   \* TRUE: clients query as the dynamics simulator does (see Sends)
    CharOrder,      \* the simulator's fixed character order
    Requests,       \* the LinkPairs clients register, remove and query
    None, Null      \* absent map entry / null CdJoint pointer

ASSUME /\ NumLinks \in [Urls -> 1..MaxLinks]
       /\ MaxPairs \in Nat /\ MaxQueries \in Nat

VARIABLES
    cache,          \* CdCharCache: url -> model version, shared by the factory's detectors
    scene,          \* CdScene: character name -> [url, ver, given] of its CdChar, or None
    pairs,          \* scene_ check pairs, in registration order: <<joint_[0], joint_[1]>>
    joints,         \* the CdJoint* vector cached by the first _setCharacterData
    pose,           \* joint -> last pose tag written to it
    query,          \* number of queries made
    sent,           \* the CharacterPositionSequence of the last query
    result,         \* [defined, all, pairs]: the check pairs the last query reported in contact
    crashed         \* undefined behaviour: the joints iterator ran past the end

vars == <<cache, scene, pairs, joints, pose, query, sent, result, crashed>>

Joints == CharNames \X (0..MaxLinks-1)
Pose == (CharNames \X (0..MaxLinks-1) \X (1..MaxQueries)) \cup {None}

(* A LinkPair of the IDL: two (character, link name) ends.                 *)
LinkPair == [c1 : CharNames, j1 : 0..MaxLinks-1, c2 : CharNames, j2 : 0..MaxLinks-1]

(* A CharacterPositionSequence: characters with the number of link        *)
(* positions sent for each.                                                *)
Entry == [name : CharNames, n : 1..MaxLinks]

ASSUME Requests \subseteq LinkPair

-----------------------------------------------------------------------------
(* Mutant: the link index taken as 1-based.                                *)
GetJointOffByOne(c, j) ==
    IF scene[c] # None /\ j + 1 < NumLinks[scene[c].url] THEN <<c, j + 1>> ELSE Null

(* CdChar::getJoint(name) and CdChar::getJoint(index): the joint, or null  *)
(* when the character is not in the scene or has no such link.             *)
GetJoint(c, j) ==
    IF scene[c] # None /\ j < NumLinks[scene[c].url] THEN <<c, j>> ELSE Null

(* new CdCheckPair(joint2, joint1): the check pair built for a LinkPair.  *)
CheckPairOf(g) == <<GetJoint(g.c2, g.j2), GetJoint(g.c1, g.j1)>>

(* The flat list of (character, link index) slots a CharacterPositionSeq  *)
(* describes, in the order the code's nested loops visit them.            *)
Slots(ps) == FlattenSeq([i \in 1..Len(ps) |->
                 [j \in 1..ps[i].n |-> <<ps[i].name, j - 1>>]])

(* The vector the first _setCharacterData builds: for every character of  *)
(* ps FOUND in the scene, one entry per link position (null past its      *)
(* links); characters not found contribute no entry.                      *)
JointVector(ps) ==
    LET found == Slots(SelectSeq(ps, LAMBDA e : scene[e.name] # None))
    IN  [k \in 1..Len(found) |-> GetJoint(found[k][1], found[k][2])]

(* _setCharacterData(characterPositions): build the joint vector if it is *)
(* empty, then walk every link position of every character with one       *)
(* iterator into the vector, writing the position into the joint found    *)
(* there.  Dereferencing the iterator past the end is undefined.           *)
SetCharacterData(ps, q) ==
    LET js    == IF Len(joints) = 0 THEN JointVector(ps) ELSE joints
        slots == Slots(ps)
        hit   == {i \in 1..Min({Len(slots), Len(js)}) : js[i] # Null}
    IN  [joints  |-> js,
         pose    |-> [x \in Joints |->
                        IF \E i \in hit : js[i] = x
                        THEN LET i == CHOOSE i \in hit : js[i] = x
                             IN  <<slots[i][1], slots[i][2], q>>
                        ELSE pose[x]],
         overrun |-> Len(slots) > Len(js)]

(* CdCheckPair::collide on a pair: contact iff both joints are resolved   *)
(* and their geometry touches.  A pair with a null side yields nothing    *)
(* (the CdCheckPair code is not in this repository).                      *)
InContact(p) == p[1] # Null /\ p[2] # Null /\ {p[1], p[2]} \in Touching

(* Mutant: the !checkAll break dropped.                                    *)
RECURSIVE CollectNoBreak(_, _, _)
CollectNoBreak(ps, checkAll, acc) ==
    IF ps = <<>> THEN acc
    ELSE CollectNoBreak(Tail(ps), checkAll,
                        IF InContact(Head(ps)) THEN Append(acc, Head(ps)) ELSE acc)

(* The loop of queryIntersectionFor*Pairs: collect pairs in contact; stop  *)
(* after the first one unless checkAll.                                    *)
RECURSIVE Collect(_, _, _)
Collect(ps, checkAll, acc) ==
    IF ps = <<>> THEN acc
    ELSE LET acc2 == IF InContact(Head(ps)) THEN Append(acc, Head(ps)) ELSE acc
         IN  IF ~checkAll /\ acc2 # <<>> THEN acc2
             ELSE Collect(Tail(ps), checkAll, acc2)

(* The temporary pairs of the *ForGivenPairs queries: only LinkPairs whose *)
(* two characters and two joints all resolve.                              *)
GivenCheckPairs(gs) ==
    SelectSeq([i \in 1..Len(gs) |-> CheckPairOf(gs[i])],
              LAMBDA p : p[1] # Null /\ p[2] # Null)

-----------------------------------------------------------------------------
Init ==
    /\ cache = [u \in Urls |-> None]
    /\ scene = [c \in CharNames |-> None]
    /\ pairs = <<>>
    /\ joints = <<>>
    /\ pose = [x \in Joints |-> None]
    /\ query = 0
    /\ sent = <<>>
    /\ result = [defined |-> TRUE, all |-> TRUE, pairs |-> <<>>]
    /\ crashed = FALSE

(* Mutant: cache_->getChar(url) used without the exist() check.           *)
AddModelNoExistCheck(c, u, v) ==
    /\ ~crashed
    /\ scene[c] = None
    /\ cache' = cache
    /\ scene' = [scene EXCEPT ![c] = [url |-> u, ver |-> cache[u], given |-> v]]
    /\ UNCHANGED <<pairs, joints, pose, query, sent, result, crashed>>

(* addModel(charName, binfo): reuse the cached model of binfo's url if     *)
(* there is one, else build it from binfo and cache it; then add a CdChar *)
(* on that model to the scene.  Re-adding a name already in the scene     *)
(* depends on CdScene::addChar, which is not in this repository.          *)
AddModel(c, u, v) ==
    /\ ~crashed
    /\ scene[c] = None
    /\ LET model == IF cache[u] # None THEN cache[u] ELSE v
       IN  /\ cache' = [cache EXCEPT ![u] = model]
           /\ scene' = [scene EXCEPT ![c] = [url |-> u, ver |-> model, given |-> v]]
    /\ UNCHANGED <<pairs, joints, pose, query, sent, result, crashed>>

(* addCollisionPair: resolve both names; the pair is added even when a    *)
(* side is unresolved (NOT_SKIP_EMPTY_JOINT), with the sides swapped.     *)
AddCollisionPair(g) ==
    /\ ~crashed
    /\ Len(pairs) < MaxPairs
    /\ pairs' = Append(pairs, CheckPairOf(g))
    /\ UNCHANGED <<cache, scene, joints, pose, query, sent, result, crashed>>

(* removeCollisionPair: the body is empty (a debug trace at most), so the  *)
(* pair stays registered and every later query still checks it.            *)
RemoveCollisionPair(g) ==
    /\ ~crashed
    /\ UNCHANGED vars

(* What every query does first, and the pairs it reports.                  *)
QueryStep(ps, defined, all, reported) ==
    /\ ~crashed
    /\ query < MaxQueries
    /\ LET r == SetCharacterData(ps, query + 1)
       IN  /\ joints' = r.joints
           /\ pose' = r.pose
           /\ crashed' = r.overrun
    /\ query' = query + 1
    /\ sent' = ps
    /\ result' = [defined |-> defined, all |-> all, pairs |-> reported]
    /\ UNCHANGED <<cache, scene, pairs>>

(* queryIntersectionForDefinedPairs(checkAll, positions).                  *)
QueryIntersectionForDefinedPairs(checkAll, ps) ==
    QueryStep(ps, TRUE, checkAll, Collect(pairs, checkAll, <<>>))

(* queryIntersectionForGivenPairs(checkAll, checkPairs, positions): the    *)
(* temporary pairs are deleted before returning.                           *)
QueryIntersectionForGivenPairs(checkAll, gs, ps) ==
    QueryStep(ps, FALSE, checkAll, Collect(GivenCheckPairs(gs), checkAll, <<>>))

(* queryContactDeterminationForDefinedPairs(positions): a Collision per    *)
(* registered pair; the pairs with contact points are the reported ones.   *)
QueryContactDeterminationForDefinedPairs(ps) ==
    QueryStep(ps, TRUE, TRUE, SelectSeq(pairs, InContact))

(* queryContactDeterminationForGivenPairs(checkPairs, positions).          *)
QueryContactDeterminationForGivenPairs(gs, ps) ==
    QueryStep(ps, FALSE, TRUE, SelectSeq(GivenCheckPairs(gs), InContact))

(* Mutant: clearCache's removeChar compiled only in debug builds, as      *)
(* clearAllCache's is.                                                     *)
ClearCacheDebugOnly(u) ==
    /\ ~crashed
    /\ UNCHANGED vars

(* clearCache(url): remove the url's model from the shared cache.         *)
ClearCache(u) ==
    /\ ~crashed
    /\ cache' = [cache EXCEPT ![u] = None]
    /\ UNCHANGED <<scene, pairs, joints, pose, query, sent, result, crashed>>

(* clearAllCache(): removeAllChar() sits inside #ifdef                      *)
(* COLLISIONDETECTOR_DEBUG, so a release build does nothing.               *)
ClearAllCache ==
    /\ ~crashed
    /\ UNCHANGED vars

(* CollisionDetectorFactory_impl::create(): the client's next detector, a  *)
(* new servant with a new empty CdScene (no characters, no check pairs)   *)
(* and an empty joint vector, holding the factory's cache_.  The previous *)
(* servant is destroyed; the cache outlives it.                            *)
NewDetector ==
    /\ ~crashed
    /\ scene' = [c \in CharNames |-> None]
    /\ pairs' = <<>>
    /\ joints' = <<>>
    /\ pose' = [x \in Joints |-> None]
    /\ query' = 0
    /\ sent' = <<>>
    /\ result' = [defined |-> TRUE, all |-> TRUE, pairs |-> <<>>]
    /\ UNCHANGED <<cache, crashed>>

(* The position sequences a client can send: distinct characters, each    *)
(* with as many positions as its model has links, or, for a name not in   *)
(* the scene, any count.  With StableClient, the client is the dynamics    *)
(* simulator's usage: all characters are added before the first query and *)
(* every query sends the whole scene in the fixed order CharOrder.         *)
Counts(c) == IF scene[c] # None THEN {NumLinks[scene[c].url]} ELSE 1..MaxLinks

Sends ==
    IF StableClient
    THEN IF \E i \in 1..Len(CharOrder) : scene[CharOrder[i]] = None THEN {}
         ELSE {[i \in 1..Len(CharOrder) |-> [name |-> CharOrder[i],
                                             n |-> NumLinks[scene[CharOrder[i]].url]]]}
    ELSE UNION {{[i \in 1..Len(ns) |-> [name |-> ns[i], n |-> f[i]]] :
                    f \in {f \in [1..Len(ns) -> 1..MaxLinks] :
                             \A i \in 1..Len(ns) : f[i] \in Counts(ns[i])}} :
                ns \in UNION {SetToSeqs(S) : S \in SUBSET CharNames \ {{}}}}

(* The dynamics simulator adds every character before its first query.    *)
AddAllowed == ~StableClient \/ query = 0

Next ==
    \/ \E c \in CharNames, u \in Urls, v \in Versions : AddAllowed /\ AddModel(c, u, v)
    \/ \E g \in Requests : AddCollisionPair(g) \/ RemoveCollisionPair(g)
    \/ \E ps \in Sends :
          \/ \E checkAll \in BOOLEAN :
                \/ QueryIntersectionForDefinedPairs(checkAll, ps)
                \/ \E g \in Requests : QueryIntersectionForGivenPairs(checkAll, <<g>>, ps)
          \/ QueryContactDeterminationForDefinedPairs(ps)
          \/ \E g \in Requests : QueryContactDeterminationForGivenPairs(<<g>>, ps)
    \/ \E u \in Urls : ClearCache(u)
    \/ ClearAllCache

Spec == Init /\ [][Next]_vars

-----------------------------------------------------------------------------
JointRef == Joints \cup {Null}
CheckPair == JointRef \X JointRef

TypeOK ==
    /\ cache \in [Urls -> Versions \cup {None}]
    /\ scene \in [CharNames -> [url : Urls, ver : Versions, given : Versions] \cup {None}]
    /\ pairs \in Seq(CheckPair) /\ Len(pairs) <= MaxPairs
    /\ joints \in Seq(JointRef)
    /\ pose \in [Joints -> Pose]
    /\ query \in 0..MaxQueries
    /\ result \in [defined : BOOLEAN, all : BOOLEAN, pairs : Seq(CheckPair)]
    /\ crashed \in BOOLEAN

(* Every link of every character named in the last query, and present in *)
(* the scene, holds the position the client sent for it in that query.    *)
(* This is what _setCharacterData promises its callers; the joint vector  *)
(* cached at the first call (and the single iterator over it) must stay   *)
(* aligned with later position sequences, and must not run past its end.  *)
PosesDelivered ==
    query > 0 =>
        /\ ~crashed
        /\ \A k \in 1..Len(Slots(sent)) :
             LET s == Slots(sent)[k]
             IN  GetJoint(s[1], s[2]) # Null => pose[s] = <<s[1], s[2], query>>

(* A query on the registered pairs reports exactly the registered pairs   *)
(* in contact, in registration order when checkAll (and for contact       *)
(* determination), and only the first of them otherwise: the flag/break   *)
(* loop of queryIntersectionForDefinedPairs against its plain meaning.    *)
DefinedQueryReportsContacts ==
    [][(query' = query + 1 /\ result'.defined) =>
         LET touching == SelectSeq(pairs, InContact)
         IN  result'.pairs = IF result'.all \/ touching = <<>> THEN touching
                             ELSE <<Head(touching)>>]_vars

=============================================================================
