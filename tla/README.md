# TLA+ models of the OpenHRP core

This directory holds TLA+ specifications of the parts of this repository's
sources (`src/`) whose behaviour is state and control, together with TLC
configurations that check them. Each module translates the C++ it names in
`PROJECT.json` ("map"). Geometry, numerics and I/O are abstracted away.

## The system and its parts

| Part | Source | State | Operations |
|---|---|---|---|
| BodyTree (`Link`) | `src/OpenHRP/Base/Link.cpp` | parent / child / sibling pointers, owning `body` of each link | constructor, copy constructor (deep clone), destructor (recursive delete), `addChild`, `detachChild`, `setBodyIter` |
| CollisionDetector server | `src/server/CollisionDetector/CollisionDetector_impl.cpp` | shared `CdCharCache` (url → model), per-servant `CdScene` (characters, check pairs), cached `joints` vector | `addModel`, `addCollisionPair`, `removeCollisionPair`, `_setCharacterData`, four `query*` handlers, `clearCache`, `clearAllCache` |
| PairDetector | `src/hrplib/hrpCollision/ColdetModelPair.cpp` | global `cdContact` buffer and `cdContactsCount` | plane–cylinder analytic test, mesh–mesh BVH test |
| ModelLoader | `src/server/ModelLoader/ModelLoader_impl.cpp` | url → BodyInfo map with last mtime | `getBodyInfo` (mtime-checked cache), `loadBodyInfo`, `clearData` |
| ShapeSetInfo | `src/server/ModelLoader/ShapeSetInfo_impl.cpp` | shape, appearance and material lists; DEF/USE sharing map | VRML traversal, primitive/mesh conversion, `replace` |
| ControllerBridge | `src/server/ControllerBridge/VirtualRobotRTC.cpp` | port handlers, list of connected RTCs | handler creation, `getConnectedRtcs` |
| Samples, headers | `src/sample/*`, `*.h` | — | declarations or numeric sample loops |

How they interact: the ModelLoader turns a model file into a `BodyInfo`. The
CollisionDetector builds collision models from a `BodyInfo` (`addModel`) and
caches them by url in a cache that every detector of the factory shares.
A client, normally the dynamics simulator, registers link pairs. On every
query it sends the link positions of all characters; the detector copies them
into its joints and asks the PairDetector about each check pair.

## Modules

### `LinkTree` (BodyTree)

State `t` is a record of the pointer fields of every link address in `Links`
(`parent`, `child`, `sibling`, `body`). `live` is the set of allocated links,
and `crashed` marks a non-terminating `setBodyIter`. The actions are:

- `NewLink`: `new Link`, with its fields cleared.
- `AddChild`: the whole of `addChild`, that is, detach from the old parent,
  prepend, then `setBodyIter`. When the pointer graph has a cycle,
  `setBodyIter` does not terminate and the action sets `crashed`.
  `addChild` checks nothing itself. The constant `AcyclicCallers` restricts
  the callers to requests that put no link under itself or one of its
  descendants. It is TRUE in `linktree_safety` and FALSE in
  `linktree_addchild_cycle`.
- `DetachChild`: the splice via the previous sibling, then clear the fields
  and call `setBodyIter(c, 0)`.
- `Clone`: the copy constructor applied to a subtree. Copies go to fresh
  addresses chosen by `CopyMap`, and children are prepended as the code does.
- `Destroy`: `delete` of a detached non-root link, which frees its whole
  subtree.

Body roots (`RootOf`) are live from the start. The other addresses are
symmetric (the `FreeAddressSymmetry` set in `MCLinkTree`). This is sound
because `Destroy` clears freed records, so states differ only by the
renaming of unused addresses.

### `BodyForest` (what spec 4.1 promises) and the refinement

`BodyForest` is the abstract specification, modelled from spec sections 3
and 4.1 rather than from code. It has no pointers and no child order.
`parent` maps each link to its parent, `owner` gives each link's owning
body, and `alive` is the set of allocated links. The actions are:

- `Create`: a new link.
- `Graft`: `addChild`. The link's whole subtree takes the new parent's
  owner. A graft under the link's own subtree would break the forest, so it
  is no step of the forest: the contract asks callers not to request one.
- `Cut`: `detachChild` of a direct child. The subtree gets no owner. A
  non-child request is a stuttering step.
- `Copy`: a disjoint copy of a subtree on free links, with no owner.
- `Delete`: a detached subtree is removed.

`LinkTree` defines `Forest == INSTANCE BodyForest WITH parent <- t.parent,
owner <- t.body, alive <- live`. The run `linktree_safety` checks
`ImplementsBodyForest == Forest!ASpec` as a PROPERTY, for callers that keep
the contract. The abstract subtrees follow parent pointers, while the code
copies and deletes along child and sibling lists, so the refinement also
checks that the two representations agree at every step. What a cyclic
request does instead is the run `linktree_addchild_cycle`.

### `ShapeSetInfo`

This module models the collection of a link's shapes from a VRML scene
graph. The graph is given by the constants `Kind` and `Children` and is a
DAG, because DEF/USE shares nodes. A transform matrix is the sequence of
Transform nodes on the path, so composition is concatenation. The
variables are:

- `shapes`, `apps`, `mats`, `texs`: the four output sequences.
- `indexMap`: `shapeInfoIndexMap`.
- `out`: each link's `TransformedShapeIndex` list.
- `appearance`, `texCoord`, `faceData`: the input, read from the model file
  by the environment action `ReadModel`.
- `replaced`: the last `replace` call and its result.

`TraverseLink` is a BodyInfo calling `traverseShapeNodes` on a link's node.
Nothing under `src/` makes that call, so the model lets it happen for each
link, in any order. The recursion is `Traverse`/`TraverseList`, with
`ShapeIndex`, `CreateShapeInfo`, `CreateAppearanceInfo`, `CreateInfo`,
`SetTriangleMesh`, `SetIndices` (`setColors`/`setNormals`) and
`SetTexCoords` for the calls it makes. `ShortOf` is the narrowing to
`short`. An index list is reduced to its length, and a texture coordinate
index list also to its number of -1 terminators. That is all the sizing in
these helpers reads; the vertex, colour and normal values they copy are
left out. The triangulated face set comes from `triangleMeshShaper`, which
is not under `src/`. Its `coordIndex` is taken to hold three indices and a
-1 per triangle (`CoordIndexLen`). A colour or normal index list it keeps
is parallel to it (per vertex) or has one entry per triangle (per face).
`replace` is the RECURSIVE operator `ReplaceFrom`. `ReplaceCall` calls it
on any string of length up to 3 over `{a, b}` and any of the patterns and
substitutes, and the result is checked against a reference replace-all
(`ReplaceAllRef`). `replace` shares no state with the traversal, so its
calls are explored from the state before a model is read. Otherwise the
state space would be the product of both input sets. Each face set carries its triangle count (`Faces`) and its
original primitive.

### `CollisionDetector`

The state is the following variables:

- `cache`: shared by detectors, url → model version.
- `scene`: name → `[url, ver, given]`.
- `pairs`: the check pairs, stored swapped as `CdCheckPair(joint2, joint1)`.
- `joints`: the cached vector.
- `pose`: per joint, the tag `<<c, j, q>>` of the position written last.
- `query`, `sent`, `result`: the last query and its reported pairs.
- `crashed`: the iterator was dereferenced past the vector's end.

Every query handler starts with `_setCharacterData` (`SetCharacterData`),
builds its check pairs and runs the collect/break loop (`Collect`). A joint
is `(character, link index)`. Whether two joints touch is the fixed
relation `Touching`. A side that does not resolve is `Null`.

### `ModelLoader`

This module models the BodyInfo cache of `ModelLoader_impl`, together with
the model files it reads.

- `file[u]`: the content version and the `st_mtime` (in whole seconds) of
  url `u`'s file.
- `now`: the clock.
- `map`: `urlToBodyInfoMap`. Each entry holds the loaded version and its
  `lastUpdateTime` stamp.
- `ret`: the last call's result, together with the file's content at that
  moment.

The actions are:

- `GetBodyInfo`: a cache hit when the entry exists and `StatMtime` equals
  its stamp. Otherwise it calls `LoadFromModelFile` and stamps the new entry
  with the mtime.
- `LoadBodyInfo`: always loads. The new entry keeps the constructor's stamp
  `InitStamp`.
- `ClearData`: clears the map.
- `EditFile` and `Tick`: environment actions for a user saving a file and
  the clock advancing.

A version in `BadVersions` makes `loadModelFile` throw, and the map is left
alone. Urls outside `FileUrls` are those `stat()` fails on, so their mtime
is 0.

### `CDPipeline` (ModelLoader composed with CollisionDetector)

A model file reaches collision detection in three steps. `getBodyInfo`
reads it into a BodyInfo. A client passes that BodyInfo to `addModel`.
`addModel` builds a collision model, or reuses the one the factory's shared
`cache_` holds for the url. `CDPipeline` composes the two servers with
`ML == INSTANCE ModelLoader` and `CD == INSTANCE CollisionDetector`. Both
instances share the constants `Urls`, `Versions` and `None`.

The client of both servers, the simulator's front end, is not under
`src/`. It is one process with these steps:

- `Fetch`: `ML!GetBodyInfo` for a character its detector lacks.
- `ClearStale`: calls `CD!ClearCache(url)` when the content differs from
  what the client last added for that url, or the client does not know
  what it added (`Unknown`, after a restart).
- `AddFetched`: `CD!AddModel` with the BodyInfo fetched.
- `NewSession`: destroy the detector and call the factory's `create`
  (`CD!NewDetector`). The new detector has an empty scene, and the cache
  outlives the old one.
- `ClientRestart`: the client crashes and restarts, or another client of
  the same servers takes over. Its pending BodyInfo and its record `seen`
  of what it added are lost (`seen` becomes `Unknown`), and it creates a
  new detector. The factory's cache lives on.
- `ResetCache`: the restarted client calls `clearAllCache()`
  (`CD!ClearAllCache`, a no-op in a release build) before anything else.
  With `TrustClearAll` it then takes the cache to be empty (`seen` all
  `None`). Without it, the client still clears each url before its first
  add.

`Environment` is all of ModelLoader's `Next`: other clients, file edits and
the clock. The history variable `fetchedFrom` records the file's content at
the moment each character's BodyInfo was fetched.

### `PairDetector`

This module models `detectCollisionsSub` and its two paths.

- `Reset`: the head of `detectCollisionsSub`. It frees `cdContact` only when
  `cdContactsCount` is nonzero.
- `DetectPlaneCylinder`: counts disc contacts into the global
  `cdContactsCount` and returns a fresh array that `cdContact` does not
  point to.
- `DetectMeshMesh`: the Opcode collider leaves `n` contacts in a fresh
  `cdContact`, which is returned.
- `Release`: the caller, which is outside this repository, is done with the
  result. It `delete[]`s the result when the pair kind is in `FreedKinds`.

Arrays are ids on a heap `live`, and `doubleFree` records a second
`delete[]`. The plane–cylinder geometry is exact. The axis tilt is a
Pythagorean triple (`sin = s/k`, `cos = c/k`) and all lengths are scaled by
`2k`, so `dTop`, `dBottom`, `radius` and `radius*cos(theta)` are integers.
`last` records the last detection's contacts (disc and depth).

### `VirtualRobotRTC` (ControllerBridge)

- The constructor's type dispatch (`HasOutHandler`, `HasInHandler`) fixes
  the handled ports.
- `conns` holds each handled port's connectors. Each connector lists the
  owners of its ports. `Connect` and `Disconnect` are environment actions.
- `GetConnectedRtcs` is `getConnectedRtcs`. It covers both handler maps,
  every connector and port (`AddPorts`, `AddConnectors`, `AddOwners`), and
  the `foundRtcNames` test followed by the loop over execution contexts
  (`AddForRtc`).
- `ExtTrig[r]` lists, for each execution context of `r`, whether it
  narrows to `ExtTrigExecutionContextService`.

## Runs

| Run | Expect | Properties | What it shows |
|---|---|---|---|
| `linktree_safety` | pass | TypeOK, ChildListsConsistent, BodyConsistent, NoDangling, CloneIsDeepCopy, ImplementsBodyForest | Tree edits, cloning and deletion keep the pointer structure and body ownership consistent. Clones are disjoint and isomorphic. For callers that request no cyclic graft, the code implements the abstract forest of spec 4.1. No state is a deadlock. |
| `linktree_addchild_cycle` | violation | NoCrash | `addChild(a, ancestor-of-a)` creates a cycle, and `setBodyIter` recurses forever. |
| `cd_simulator_usage` | pass | TypeOK, PosesDelivered, DefinedQueryReportsContacts | When all characters are added first and the scene is always sent in one order, each link receives its own position and queries report exactly the registered pairs in contact. |
| `cd_joint_cache` | violation | PosesDelivered | Any other client pattern, for example naming a character not yet added, misdelivers positions or runs past the cached vector. |
| `cd_pipeline` | pass | TypeOK, NoFailedLoadCached, GetReturnsCurrent, PipelineModelCurrent | In the composed system, for files `stat` sees, `getBodyInfo` always returns current content, provided no file is saved in the same second it was loaded (`SlowEdits`), and a rejected file is never cached. Suppose a client calls `clearCache(url)` before adding changed content, and after a restart before each url's first add. Then every character, in every detector session and across restarts, gets the model of the content it fetched. The mutant that compiles `clearCache` to nothing shows that without clearing, the shared cache, keyed by url alone, hands out the old model. |
| `cd_pipeline_restart` | violation | PipelineModelCurrent | A restarted client (or a second client of the same factory) that relies on `clearAllCache()` still gets the old model after an edit: a release build compiles its body away, and the cache outlives every client. |
| `ml_nostat` | violation | GetReturnsCurrentAnyUrl | For a url `stat` cannot see, the stamp is always 0, so the first load is served forever. |
| `pd_detect` | pass | TypeOK, BufferOwnership, PenetratingHasContact, LyingCenteredTwoContacts | The caller frees plane–cylinder results and keeps mesh–mesh ones. Under that policy every array is freed exactly once. A cylinder touching the plane always yields a contact, and a lying centred one yields two contacts of depth `radius`. |
| `pd_caller_frees` | violation | BufferOwnership | A caller that frees every result double-frees a mesh–mesh result. Keeping every result instead would leak plane–cylinder arrays. |
| `vr_connected_rtcs` | pass | ConnectedRtcsDistinct, ConnectedRtcsComplete | With at most one ExtTrig context per component, the list is exactly the connected ExtTrig components, each listed once. |
| `vr_two_exttrig` | violation | ConnectedRtcsDistinct | A component with two ExtTrig contexts is listed twice. |
| `shape_collection` | pass | TypeOK, TraversalFaithful, AppearanceIndicesFit, ReplaceMatchesReference | In any link order, and with shapes shared by DEF/USE, each link lists every face-set occurrence with its path's transforms, and each shape node gets one ShapeInfo with its own AppearanceInfo. Texture-index buffers fit when index lists end in -1, and colour and normal index lists line up with the triangles, per vertex or per face. `replace` agrees with the reference. |

Every property of a passing run has a mutant in `PROJECT.json`: a
plausible bug in a mapped definition that TLC shows breaks the property.

Bounds:

- **LinkTree** uses 6 link addresses and 2 bodies (roots `l1` and `l2`).
  That allows two roots with a two-level subtree plus room for a clone of a
  two-link subtree, which the clone and cycle cases need. With symmetry the
  run finds 13k distinct states in about 1.5 minutes, most of it spent
  evaluating the refinement mapping.
- **CollisionDetector** uses 2 characters on 2 urls (with 2 links and 1
  link), 2 file versions and 3 client LinkPairs: touching, unresolved, and
  the touching one reversed. It allows up to 2 registered pairs and 2
  queries. Two touching pairs are needed to tell `checkAll` from the early
  break, and two queries to exercise the cached joint vector. The run finds
  324k states in under 1.5 minutes.

- **ModelLoader**, inside `CDPipeline` and alone for `ml_nostat`, uses two
  urls (one `stat` sees, one it cannot), versions `v1`, `v2` and a rejected
  `bad`, and a clock of 3 seconds (2 in the pipeline, whose client steps
  multiply the states). That allows a load, an edit in a later second and
  a reload, interleaved with `loadBodyInfo` and `clearData`.
  - The pipeline adds one character, whose model has one link; pairs and
    queries are left out.
  - Catching the stale cache needs only one character. It is added, the
    client restarts and calls `clearAllCache()`, its file is edited, and
    the edited content is fetched and added again.
  - `cd_pipeline` finds 329k states in about 15 seconds.
- **PairDetector** uses tilts of 0°, 90° and two others (3-4-5 triangles),
  centres from −2 to 3, radius 2, heights 2 and 4, and mesh results of 0 to
  2 contacts. That covers a cylinder clear of the plane, touching it with
  one or two discs, lying, and upright, and a reset that follows each kind
  of detection. Up to 4 arrays are allocated.
- **VirtualRobotRTC** uses two handled out ports and one handled in port
  (an unhandled out and in port test the dispatch), three components (one
  ExtTrig, one with a periodic context then an ExtTrig one, one periodic
  only), and up to 3 connectors. That lets one component be reached twice
  through different ports.
- **ShapeSetInfo** uses ten nodes:
  - a group with a transform nested in a transform;
  - a proto with an `actualNode` and one without;
  - a shape used twice in one link and once in another (through the second
    link's node);
  - a shape without a face set, a cylinder with no triangles, and a node of
    another category.

  Each face-set shape takes one of four appearances (none, material,
  texture, both), one of two texture-coordinate inputs and one of three
  colour/normal inputs (none; colours per vertex and normals per face; the
  reverse). Both link orders are explored. With the 240 `replace` calls,
  the run has 69,361 states.

No liveness is checked yet. Every operation is a synchronous call that runs
to completion, and the models do not assume fairness.
Deadlock checking is disabled in two runs, where the system really stops.
In `cd_joint_cache` the process can crash, and a crash state has no
successor. In `shape_collection` the collection ends once every link is
traversed.

## Not modelled (yet), and the plan

Next steps, most important first:

1. An abstract ContactRegistry (spec 4.4) refined by `CollisionDetector`.
2. `VirtualRobotRTC`: a nil `portRef` reaching `addConnectedRtcs`.

Clients of one factory that run at the same time are not modelled. Two
concurrent `addModel` calls for one url could both miss the cache. Whether
that can happen depends on how the ORB dispatches calls to different
servants, and what follows depends on `CdCharCache::addChar`; neither is in
this repository. Clients taking turns are covered by `ClientRestart`.

Observations without a run, for lack of a faithful model:

- **Float rounding in the plane–cylinder test.** When
  `(dTop-dBottom)/height` rounds past 1, `asin` is NaN and no contact is
  found. The model computes exactly.
- **Same-second saves.** A model file saved within the second it was loaded
  is served stale, because `st_mtime` counts seconds. The passing
  ModelLoader run excludes this with `SlowEdits`.
- **`removeCollisionPair` never deletes anything.** Its body is empty, so a
  removed pair is still checked and reported, contrary to spec 4.4. The
  model's `RemoveCollisionPair` changes nothing. No run is spent on it,
  because the source alone shows it.
- **`replace` with an empty pattern loops forever.** No code under `src/`
  calls it.
- **`setTexCoords` overruns** its `numIndex*3/4` buffer for a given index
  list whose last face lacks the closing -1. Whether the external mesh
  shaper normalises `texCoordIndex` decides if this can happen.

The following stay out. The dynamics simulator, the sensors and the
`ControllerBridge.old` handlers are declarations only. The matrix headers are
typedefs. SamplePD is a numeric loop; its uninitialised-gain hazard is listed
in `PROJECT.json`. CORBA concurrency within a servant depends on ORB
configuration outside this repository.
