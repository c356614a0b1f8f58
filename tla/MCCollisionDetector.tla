------------------------- MODULE MCCollisionDetector -------------------------
(* Two characters on two model urls (two links and one link), two file    *)
(* versions, and a touching relation in which a link of each character    *)
(* meets the other character.                                              *)
EXTENDS CollisionDetector, TLC

CONSTANTS ca, cb, u1, u2, v1, v2

MCCharNames == {ca, cb}
MCUrls == {u1, u2}
MCVersions == {v1, v2}
MCNumLinks == (u1 :> 2) @@ (u2 :> 1)
MCTouching == {{<<ca, 0>>, <<cb, 0>>}, {<<ca, 1>>, <<cb, 0>>}}
MCCharOrder == <<ca, cb>>
\* A touching pair, a pair naming a link u2's model lacks, and the same
\* touching pair with its ends given the other way round.
MCRequests == {[c1 |-> ca, j1 |-> 1, c2 |-> cb, j2 |-> 0],
               [c1 |-> ca, j1 |-> 1, c2 |-> cb, j2 |-> 1],
               [c1 |-> cb, j1 |-> 0, c2 |-> ca, j2 |-> 0]}
=============================================================================
