----------------------------- MODULE ShapeSetInfo -----------------------------
(***************************************************************************)
(* ShapeSetInfo_impl (src/server/ModelLoader/ShapeSetInfo_impl.cpp): the  *)
(* traversal of a VRML scene graph that turns its Shape nodes into        *)
(* ShapeInfo, AppearanceInfo, MaterialInfo and TextureInfo entries, and   *)
(* the string helper replace().                                            *)
(*                                                                         *)
(* The scene graph is a DAG (DEF/USE shares a node): Kind[n] and          *)
(* Children[n] give each node's category and its children (a proto        *)
(* instance has its actualNode, or none, as its only child).  A transform *)
(* matrix is the sequence of Transform nodes whose local matrices were    *)
(* multiplied into it, leftmost first: composition is concatenation.      *)
(* Vertex, colour, normal and image data are left out; an index list is   *)
(* abstracted to its length (and, for texture coordinates, its number of *)
(* -1 terminators), which is all the sizing of the set* helpers uses.     *)
(* The triangulated face set comes from triangleMeshShaper, which is not  *)
(* under src/: its coordIndex holds three indices and a -1 per triangle,  *)
(* and a colorIndex or normalIndex it keeps is parallel to coordIndex     *)
(* (per vertex) or has one entry per triangle (per face).                  *)
(***************************************************************************)
EXTENDS Integers, Sequences, SequencesExt

CONSTANTS
    Nodes,          \* scene-graph nodes
    Kind,           \* Kind[n] \in {"proto", "group", "transform", "shape", "other"}
    Children,       \* Children[n]: children of a group, or <<actualNode>> of a proto
    Mesh,           \* shape nodes whose geometry is an IndexedFaceSet
    Original,       \* Original[s]: the geometry before triangleMeshShaper
    Appearances,    \* appearances a shape may have: [material, texture] nodes, or None
    Faces,          \* Faces[s]: triangles in the shaped coordIndex
    TexCoords,      \* texture coordinates a face set may carry: [given, len, terms]
    FaceData,       \* colours and normals a face set may carry: [color, normal], each
                    \* "none", "perVertex" or "perFace"
    Links,          \* links whose shapes a BodyInfo collects
    Root,           \* Root[l]: the node traversed for link l
    Strings,        \* inputs of replace(): strings,
    Patterns,       \* the patterns searched for,
    Substitutes,    \* and their replacements
    None

(* shapeInfoIndex is a short.                                              *)
ShortOf(i) == ((i + 2^15) % 2^16) - 2^15

VARIABLES
    shapes,     \* shapes_: [node, prim, app, tris] (tris: length of triangles)
    apps,       \* appearances_: [material, texture, texAlloc, texWritten,
                \*   colorPV, colorIdx, normalPV, normalIdx] (*Idx: index list lengths)
    mats,       \* materials_: the material node each entry was made from
    texs,       \* textures_: the texture node each entry was made from
    indexMap,   \* shapeInfoIndexMap: shape node -> index
    out,        \* link -> its TransformedShapeIndex list [index, T], or None
    appearance, \* the input: shape -> its appearance node's material and texture
    texCoord,   \* the input: shape -> its face set's texCoord and texCoordIndex
    faceData,   \* the input: shape -> its face set's color and normal nodes
    replaced    \* the last replace() call: [str, sb, sa, result], or None

vars == <<shapes, apps, mats, texs, indexMap, out, appearance, texCoord, faceData, replaced>>

-----------------------------------------------------------------------------
(* Mutant: the search resumes at the match, not after the inserted text.  *)
RECURSIVE ReplaceFromStuck(_, _, _, _, _)
ReplaceFromStuck(str, sb, sa, nb, fuel) ==
    LET tail == SubSeq(str, nb + 1, Len(str))
        n    == IF sb \in SubSeqs(tail) THEN nb + IndexFirstSubSeq(sb, tail) - 1 ELSE -1
    IN  IF n = -1 THEN [str |-> str, done |-> TRUE]
        ELSE IF fuel = 0 THEN [str |-> str, done |-> FALSE]
        ELSE ReplaceFromStuck(SubSeq(str, 1, n) \o sa \o SubSeq(str, n + Len(sb) + 1, Len(str)),
                              sb, sa, n, fuel - 1)

(* The while loop of replace(str, sb, sa) from position nb: find sb at or *)
(* after nb (0-based, as string::find), splice sa in, and resume after   *)
(* it.  `fuel` bounds the iterations; done is FALSE when it runs out.     *)
RECURSIVE ReplaceFrom(_, _, _, _, _)
ReplaceFrom(str, sb, sa, nb, fuel) ==
    LET tail == SubSeq(str, nb + 1, Len(str))
        n    == IF sb \in SubSeqs(tail) THEN nb + IndexFirstSubSeq(sb, tail) - 1 ELSE -1
    IN  IF n = -1 THEN [str |-> str, done |-> TRUE]
        ELSE IF fuel = 0 THEN [str |-> str, done |-> FALSE]
        ELSE ReplaceFrom(SubSeq(str, 1, n) \o sa \o SubSeq(str, n + Len(sb) + 1, Len(str)),
                         sb, sa, n + Len(sa), fuel - 1)

Replace(str, sb, sa) == ReplaceFrom(str, sb, sa, 0, Len(str) + 1)

-----------------------------------------------------------------------------
(* setPrimitiveProperties: the primitive the shaper started from, SP_MESH  *)
(* for a face set or when there is none.                                   *)
PrimitiveType(s) ==
    IF Original[s] \in {"box", "cone", "cylinder", "sphere"} THEN Original[s] ELSE "mesh"

(* Mutant: the index read after the sequence was lengthened.             *)
CreateInfoLengthAfter(list, node) ==
    IF node = None THEN [list |-> list, index |-> -1]
    ELSE [list |-> Append(list, node), index |-> Len(list) + 1]

(* createMaterialInfo / createTextureInfo: append an entry for a node, or  *)
(* return -1.                                                               *)
CreateInfo(list, node) ==
    IF node = None THEN [list |-> list, index |-> -1]
    ELSE [list |-> Append(list, node), index |-> Len(list)]

(* The shaped coordIndex: three indices and a -1 per triangle.             *)
CoordIndexLen(s) == 4 * Faces[s]

(* The loops of setTriangleMesh, setColors and setNormals over a per-     *)
(* vertex index list: numIndices/4 triangles, three entries each, the -1  *)
(* skipped.                                                                 *)
IndexTriples(n) == 3 * (n \div 4)

(* setTriangleMesh: the length of shapeInfo.triangles.                     *)
SetTriangleMesh(s) == IndexTriples(CoordIndexLen(s))

(* The colorIndex or normalIndex the face set carries, by kind.            *)
OrgIndices(s, kind) ==
    CASE kind = "perVertex" -> [pv |-> TRUE, len |-> CoordIndexLen(s)]
      [] kind = "perFace"   -> [pv |-> FALSE, len |-> Faces[s]]
      [] OTHER              -> [pv |-> FALSE, len |-> 0]

(* Mutant: the per-vertex branch copies every entry, -1s included.         *)
SetIndicesCopyAll(org) == org.len

(* setColors / setNormals: the length of colorIndices / normalIndices;    *)
(* a face set without a color (normal) node leaves it empty.               *)
SetIndices(org) ==
    IF org.len = 0 THEN 0
    ELSE IF org.pv THEN IndexTriples(org.len) ELSE org.len

(* Mutant: the default mapping keeps the node's old texCoordIndex.         *)
TexIndicesKeepOld(s) ==
    [len |-> texCoord[s].len, terms |-> texCoord[s].terms]

(* setTexCoords: without a texCoord the default mapping copies coordIndex *)
(* (three indices and a -1 per triangle) into texCoordIndex.               *)
TexIndices(s) ==
    IF texCoord[s].given THEN [len |-> texCoord[s].len, terms |-> texCoord[s].terms]
    ELSE [len |-> CoordIndexLen(s), terms |-> Faces[s]]

(* textureCoordIndices is sized numIndex*3/4 and receives every entry     *)
(* that is not -1.                                                          *)
SetTexCoords(s) ==
    LET ti == TexIndices(s)
    IN  IF ti.len > 0 THEN [alloc |-> (ti.len * 3) \div 4, written |-> ti.len - ti.terms]
        ELSE [alloc |-> 0, written |-> 0]

(* createAppearanceInfo for shape s on state st.                            *)
CreateAppearanceInfo(s, st) ==
    LET a  == appearance[s]
        m  == IF a = None THEN [list |-> st.mats, index |-> -1] ELSE CreateInfo(st.mats, a.material)
        t  == IF a = None THEN [list |-> st.texs, index |-> -1] ELSE CreateInfo(st.texs, a.texture)
        tc == IF t.index # -1 THEN SetTexCoords(s) ELSE [alloc |-> 0, written |-> 0]
        co == OrgIndices(s, faceData[s].color)
        no == OrgIndices(s, faceData[s].normal)
    IN  [st EXCEPT !.apps = Append(@, [material |-> m.index, texture |-> t.index,
                                       texAlloc |-> tc.alloc, texWritten |-> tc.written,
                                       colorPV |-> co.pv, colorIdx |-> SetIndices(co),
                                       normalPV |-> no.pv, normalIdx |-> SetIndices(no)]),
                   !.mats = m.list, !.texs = t.list]

(* createShapeInfo: a ShapeInfo for a shape with an IndexedFaceSet, with  *)
(* its triangles (setTriangleMesh) and appearance, recorded in            *)
(* shapeInfoIndexMap; -1 otherwise.                                        *)
CreateShapeInfo(s, st) ==
    IF s \in Mesh
    THEN LET idx == Len(st.shapes)
             st2 == CreateAppearanceInfo(s, st)
         IN  [st2 EXCEPT !.shapes = Append(@, [node |-> s, prim |-> PrimitiveType(s),
                                                app |-> Len(st.apps),
                                                tris |-> SetTriangleMesh(s)]),
                         !.map = (s :> idx) @@ @, !.index = idx]
    ELSE [st EXCEPT !.index = -1]

(* Mutant: shapeInfoIndexMap never consulted.                              *)
ShapeIndexNoLookup(s, st) == CreateShapeInfo(s, st)

(* The SHAPE_NODE branch up to the short index: the cached index, or a     *)
(* new ShapeInfo.                                                          *)
ShapeIndex(s, st) ==
    IF s \in DOMAIN st.map THEN [st EXCEPT !.index = st.map[s]]
    ELSE CreateShapeInfo(s, st)

(* traverseShapeNodes(node, T, io_shapeIndices), st.out being the list.    *)
RECURSIVE Traverse(_, _, _), TraverseList(_, _, _)
Traverse(n, T, st) ==
    CASE Kind[n] = "proto"     -> TraverseList(Children[n], T, st)
      [] Kind[n] = "group"     -> TraverseList(Children[n], T, st)
      [] Kind[n] = "transform" -> TraverseList(Children[n], Append(T, n), st)
      [] Kind[n] = "shape"     ->
            LET r  == ShapeIndex(n, st)
                si == ShortOf(r.index)
            IN  IF si >= 0 THEN [r EXCEPT !.out = Append(@, [index |-> si, T |-> T])] ELSE r
      [] OTHER                 -> st

TraverseList(cs, T, st) ==
    IF cs = <<>> THEN st ELSE TraverseList(Tail(cs), T, Traverse(Head(cs), T, st))

-----------------------------------------------------------------------------
Init ==
    /\ shapes = <<>> /\ apps = <<>> /\ mats = <<>> /\ texs = <<>>
    /\ indexMap = <<>>
    /\ out = [l \in Links |-> None]
    /\ appearance = None
    /\ texCoord = None
    /\ faceData = None
    /\ replaced = None

(* The model file is read: every face-set shape has its appearance and    *)
(* its texture coordinates.                                                 *)
ReadModel ==
    /\ appearance = None /\ replaced = None
    /\ appearance' \in [Mesh -> Appearances]
    /\ texCoord' \in [Mesh -> TexCoords]
    /\ faceData' \in [Mesh -> FaceData]
    /\ UNCHANGED <<shapes, apps, mats, texs, indexMap, out, replaced>>

(* The BodyInfo collects the shapes of link l: traverseShapeNodes on the   *)
(* link's node with the identity transform and an empty index list.        *)
TraverseLink(l) ==
    /\ appearance # None /\ out[l] = None
    /\ LET r == Traverse(Root[l], <<>>, [shapes |-> shapes, apps |-> apps, mats |-> mats,
                                         texs |-> texs, map |-> indexMap, index |-> -1,
                                         out |-> <<>>])
       IN  /\ shapes' = r.shapes /\ apps' = r.apps /\ mats' = r.mats /\ texs' = r.texs
           /\ indexMap' = r.map
           /\ out' = [out EXCEPT ![l] = r.out]
    /\ UNCHANGED <<appearance, texCoord, faceData, replaced>>

(* A call replace(str, sb, sa), with a non-empty pattern.  replace() is a *)
(* pure helper sharing no state with the traversal, so its calls are      *)
(* explored on their own, before a model is read.                          *)
ReplaceCall(str, sb, sa) ==
    /\ appearance = None /\ replaced = None
    /\ replaced' = [str |-> str, sb |-> sb, sa |-> sa, result |-> Replace(str, sb, sa)]
    /\ UNCHANGED <<shapes, apps, mats, texs, indexMap, out, appearance, texCoord, faceData>>

Next ==
    \/ ReadModel
    \/ \E l \in Links : TraverseLink(l)
    \/ \E str \in Strings, sb \in Patterns, sa \in Substitutes : ReplaceCall(str, sb, sa)

Spec == Init /\ [][Next]_vars

-----------------------------------------------------------------------------
(* Reference: the shape occurrences below n, depth first, each with the   *)
(* transforms on its path; shapes without a face set are skipped.         *)
RECURSIVE Occurrences(_, _)
Occurrences(n, T) ==
    CASE Kind[n] \in {"proto", "group"} ->
            FlattenSeq([i \in 1..Len(Children[n]) |-> Occurrences(Children[n][i], T)])
      [] Kind[n] = "transform" ->
            FlattenSeq([i \in 1..Len(Children[n]) |-> Occurrences(Children[n][i], Append(T, n))])
      [] Kind[n] = "shape" /\ n \in Mesh -> <<[node |-> n, T |-> T]>>
      [] OTHER -> <<>>

(* Reference: replace the first occurrence of sb, then the rest of the    *)
(* original text after it.                                                 *)
RECURSIVE ReplaceAllRef(_, _, _)
ReplaceAllRef(t, sb, sa) ==
    IF sb \notin SubSeqs(t) THEN t
    ELSE LET i == IndexFirstSubSeq(sb, t)
         IN  SubSeq(t, 1, i - 1) \o sa \o ReplaceAllRef(SubSeq(t, i + Len(sb), Len(t)), sb, sa)

TypeOK ==
    /\ \A i \in 1..Len(shapes) : /\ shapes[i].node \in Mesh
                                 /\ shapes[i].app \in 0..Len(apps) - 1
    /\ \A i \in 1..Len(apps) : /\ apps[i].material \in -1..Len(mats) - 1
                               /\ apps[i].texture \in -1..Len(texs) - 1
    /\ DOMAIN indexMap \subseteq Mesh
    /\ \A l \in Links : out[l] # None =>
            \A i \in 1..Len(out[l]) : out[l][i].index \in 0..Len(shapes) - 1

(* Whatever order the links are collected in, and however DEF/USE shares  *)
(* shapes between and within them, each link's shape index list names,    *)
(* in traversal order, every occurrence of a face-set shape under its     *)
(* node with the transforms of that occurrence's path, and the ShapeInfo  *)
(* it names was built from that node; no shape node gets two ShapeInfos,  *)
(* and each ShapeInfo has its own AppearanceInfo.                          *)
TraversalFaithful ==
    /\ \A l \in Links : out[l] # None =>
          LET occ == Occurrences(Root[l], <<>>)
          IN  /\ Len(out[l]) = Len(occ)
              /\ \A i \in 1..Len(occ) : /\ shapes[out[l][i].index + 1].node = occ[i].node
                                        /\ out[l][i].T = occ[i].T
    /\ \A i, j \in 1..Len(shapes) : shapes[i].node = shapes[j].node => i = j
    /\ \A i, j \in 1..Len(shapes) : shapes[i].app = shapes[j].app => i = j

(* The index lists of each ShapeInfo's AppearanceInfo fit its triangles:  *)
(* setTexCoords never writes past textureCoordIndices (the entries that   *)
(* are not -1 fit the numIndex*3/4 slots it allocates, for the default    *)
(* mapping and for the texture coordinates a model file gives), and a     *)
(* colour or normal index list setColors/setNormals fills has three       *)
(* entries per triangle of setTriangleMesh when per vertex, one when per  *)
(* face.                                                                   *)
AppearanceIndicesFit ==
    \A i \in 1..Len(shapes) :
        LET a == apps[shapes[i].app + 1]
            Fits(pv, len) == len \in {0, IF pv THEN shapes[i].tris ELSE shapes[i].tris \div 3}
        IN  /\ a.texWritten <= a.texAlloc
            /\ Fits(a.colorPV, a.colorIdx)
            /\ Fits(a.normalPV, a.normalIdx)

(* replace(str, sb, sa) with a non-empty pattern terminates and replaces  *)
(* every non-overlapping occurrence, leftmost first, without rescanning   *)
(* the text it inserted.                                                   *)
ReplaceMatchesReference ==
    replaced # None =>
        replaced.result = [str |-> ReplaceAllRef(replaced.str, replaced.sb, replaced.sa),
                           done |-> TRUE]

=============================================================================
