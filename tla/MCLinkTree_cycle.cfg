\* addChild on a link that is the new parent or one of its ancestors.
CONSTANTS
    l1 = l1  l2 = l2  l3 = l3  l4 = l4  l5 = l5  l6 = l6
    b1 = b1  b2 = b2
    Nil = Nil  NoBody = NoBody  Unset = Unset
    AcyclicCallers = FALSE
    Links <- MCLinks
    Bodies <- MCBodies
    RootOf <- MCRootOf
SYMMETRY FreeAddressSymmetry
SPECIFICATION Spec
INVARIANT NoCrash
