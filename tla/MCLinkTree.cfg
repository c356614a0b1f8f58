\* Link tree safety: structure, ownership, deletion and deep copy, for callers
\* that keep addChild's contract (no link put under itself or a descendant).
CONSTANTS
    l1 = l1  l2 = l2  l3 = l3  l4 = l4  l5 = l5  l6 = l6
    b1 = b1  b2 = b2
    Nil = Nil  NoBody = NoBody  Unset = Unset
    AcyclicCallers = TRUE
    Links <- MCLinks
    Bodies <- MCBodies
    RootOf <- MCRootOf
SYMMETRY FreeAddressSymmetry
SPECIFICATION Spec
INVARIANT TypeOK
INVARIANT ChildListsConsistent
INVARIANT BodyConsistent
INVARIANT NoDangling
PROPERTY CloneIsDeepCopy
PROPERTY ImplementsBodyForest
