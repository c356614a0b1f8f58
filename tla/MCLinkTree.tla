---------------------------- MODULE MCLinkTree ----------------------------
(* Six link addresses and two Bodies with roots l1 and l2: room for a body *)
(* tree with a branching node (three links) and a full copy of it.         *)
EXTENDS LinkTree, TLC

CONSTANTS l1, l2, l3, l4, l5, l6, b1, b2

MCLinks == {l1, l2, l3, l4, l5, l6}
MCBodies == {b1, b2}
MCRootOf == (b1 :> l1) @@ (b2 :> l2)

(* The non-root addresses are interchangeable: every CHOOSE over them     *)
(* (the free addresses a copy takes) yields a state equal up to renaming. *)
FreeAddressSymmetry == Permutations(MCLinks \ {l1, l2})
=============================================================================
