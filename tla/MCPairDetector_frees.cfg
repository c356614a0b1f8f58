\* Both kinds of pair; the caller delete[]s every array it is returned.
CONSTANTS
    Axes <- MCAxes
    Centers <- MCCenters
    Radii = {2}
    Heights = {2, 4}
    MeshCounts = {0, 1, 2}
    Kinds = {"planecyl", "mesh"}
    FreedKinds = {"planecyl", "mesh"}
    MaxAllocs = 3
SPECIFICATION Spec
INVARIANT BufferOwnership
