\* Shape collection for two links sharing nodes, over every appearance and
\* texture-coordinate input of the three face-set shapes; replace() over
\* strings of up to three characters.
CONSTANTS
    g0 = g0  t1 = t1  t2 = t2  p1 = p1  p2 = p2
    s1 = s1  s2 = s2  s3 = s3  s4 = s4  o1 = o1
    l1 = l1  l2 = l2  m1 = m1  x1 = x1  None = None
    Nodes <- MCNodes
    Kind <- MCKind
    Children <- MCChildren
    Mesh = {s1, s2, s4}
    Original <- MCOriginal
    Appearances <- MCAppearances
    Faces <- MCFaces
    TexCoords <- MCTexCoords
    FaceData <- MCFaceData
    Links = {l1, l2}
    Root <- MCRoot
    Strings <- MCStrings
    Patterns <- MCPatterns
    Substitutes <- MCSubstitutes
SPECIFICATION Spec
INVARIANT TypeOK
INVARIANT TraversalFaithful
INVARIANT AppearanceIndicesFit
INVARIANT ReplaceMatchesReference
\* Collection ends once every link is traversed, and a replace() call once made.
CHECK_DEADLOCK FALSE
