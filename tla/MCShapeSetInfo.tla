---------------------------- MODULE MCShapeSetInfo ----------------------------
(* A scene with DEF/USE sharing inside a link and across two links:       *)
(*   g0 (group)     : t1, s1, s3, p2                                       *)
(*   t1 (transform) : s1, p1, o1, t2                                       *)
(*   t2 (transform) : s2, s4          (also the node of link l2)           *)
(*   p1 (proto)     : s2              p2 (proto without actualNode)        *)
(* s1, s2 and s4 have face sets (s4 with no triangles), s3 has none, and  *)
(* o1 is a node of another category.                                      *)
EXTENDS ShapeSetInfo, TLC

CONSTANTS g0, t1, t2, p1, p2, s1, s2, s3, s4, o1, l1, l2, m1, x1

MCNodes == {g0, t1, t2, p1, p2, s1, s2, s3, s4, o1}
MCKind == (g0 :> "group") @@ (t1 :> "transform") @@ (t2 :> "transform")
          @@ (p1 :> "proto") @@ (p2 :> "proto") @@ (o1 :> "other")
          @@ [n \in {s1, s2, s3, s4} |-> "shape"]
MCChildren == (g0 :> <<t1, s1, s3, p2>>) @@ (t1 :> <<s1, p1, o1, t2>>)
              @@ (t2 :> <<s2, s4>>) @@ (p1 :> <<s2>>)
              @@ [n \in {p2, s1, s2, s3, s4, o1} |-> <<>>]
MCOriginal == (s1 :> "box") @@ (s2 :> "faceset") @@ (s4 :> "cylinder")
MCFaces == (s1 :> 2) @@ (s2 :> 1) @@ (s4 :> 0)
MCRoot == (l1 :> g0) @@ (l2 :> t2)

MCAppearances == {None, [material |-> m1, texture |-> None],
                  [material |-> None, texture |-> x1], [material |-> m1, texture |-> x1]}
(* No texCoord node but a leftover three-entry texCoordIndex; or a        *)
(* texCoord with two terminated triangles.                                 *)
MCTexCoords == {[given |-> FALSE, len |-> 3, terms |-> 0],
                [given |-> TRUE, len |-> 8, terms |-> 2]}

(* No colours or normals; colours per vertex and normals per face; and    *)
(* the other way round.                                                    *)
MCFaceData == {[color |-> "none", normal |-> "none"],
               [color |-> "perVertex", normal |-> "perFace"],
               [color |-> "perFace", normal |-> "perVertex"]}

MCStrings == BoundedSeq({"a", "b"}, 3)
MCPatterns == {<<"a">>, <<"b">>, <<"a", "b">>, <<"a", "a">>}
MCSubstitutes == {<<>>, <<"a">>, <<"a", "a">>, <<"b", "a">>}
=============================================================================
