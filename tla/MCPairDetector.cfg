\* Both kinds of pair, exact arithmetic; the caller delete[]s a
\* plane-cylinder result and leaves a mesh-mesh result to the next reset.
CONSTANTS
    Axes <- MCAxes
    Centers <- MCCenters
    Radii = {2}
    Heights = {2, 4}
    MeshCounts = {0, 1, 2}
    Kinds = {"planecyl", "mesh"}
    FreedKinds = {"planecyl"}
    MaxAllocs = 4
SPECIFICATION Spec
INVARIANT TypeOK
INVARIANT BufferOwnership
INVARIANT PenetratingHasContact
INVARIANT LyingCenteredTwoContacts
