------------------------------ MODULE BodyForest ------------------------------
(***************************************************************************)
(* What the BodyTree promises (spec sections 3 and 4.1), with no pointers  *)
(* and no child order: allocated links form a forest given by a parent     *)
(* function; every link knows the body owning it, updated over the whole  *)
(* subtree when it is grafted (addChild) or cut (detachChild); a deep      *)
(* clone adds a disjoint copy of a subtree; deleting a detached link      *)
(* deletes its subtree.  A graft that would make a link its own ancestor  *)
(* breaks the forest, so it is no step of the forest: the contract asks   *)
(* callers not to request one.                                             *)
(***************************************************************************)
EXTENDS Naturals, FiniteSets

CONSTANTS Links, Bodies, RootOf, Nil, NoBody, Unset

VARIABLES
    parent,     \* link -> its parent, or Nil
    owner,      \* link -> the body owning it, NoBody or Unset
    alive       \* the allocated links

avars == <<parent, owner, alive>>

BodyRoots == {RootOf[b] : b \in Bodies}

(* x and every link whose chain of parents reaches x.                      *)
RECURSIVE Below(_, _)
Below(x, n) == {x} \cup IF n = 0 THEN {}
                        ELSE UNION {Below(y, n - 1) : y \in {z \in alive : parent[z] = x}}
SubtreeOf(x) == Below(x, Cardinality(Links))

AInit ==
    /\ parent = [l \in Links |-> Nil]
    /\ owner = [l \in Links |-> IF l \in BodyRoots THEN CHOOSE b \in Bodies : RootOf[b] = l
                                ELSE Unset]
    /\ alive = BodyRoots

Create(l) ==
    /\ l \notin alive
    /\ alive' = alive \cup {l}
    /\ parent' = [parent EXCEPT ![l] = Nil]
    /\ owner' = [owner EXCEPT ![l] = Unset]

(* addChild: l moves under p with its subtree, which takes p's owner.      *)
Graft(p, l) ==
    /\ {p, l} \subseteq alive
    /\ p \notin SubtreeOf(l)
    /\ parent' = [parent EXCEPT ![l] = p]
    /\ owner' = [y \in Links |-> IF y \in SubtreeOf(l) THEN owner[p] ELSE owner[y]]
    /\ UNCHANGED alive

(* detachChild: a direct child becomes a root owned by no body; anything  *)
(* else leaves the forest unchanged.                                       *)
Cut(p, c) ==
    /\ {p, c} \subseteq alive
    /\ parent[c] = p
    /\ parent' = [parent EXCEPT ![c] = Nil]
    /\ owner' = [y \in Links |-> IF y \in SubtreeOf(c) THEN NoBody ELSE owner[y]]
    /\ UNCHANGED alive

(* A deep clone: an injective copy f of org's subtree onto free links, the *)
(* copy of org a root, every other copy under the copy of its parent, no  *)
(* owner set.                                                               *)
Copy(org) ==
    /\ org \in alive
    /\ \E f \in [SubtreeOf(org) -> Links \ alive] :
          /\ \A m, n \in DOMAIN f : f[m] = f[n] => m = n
          /\ alive' = alive \cup {f[n] : n \in DOMAIN f}
          /\ parent' = [y \in Links |->
                          IF \E n \in DOMAIN f : f[n] = y
                          THEN LET n == CHOOSE n \in DOMAIN f : f[n] = y
                               IN  IF n = org THEN Nil ELSE f[parent[n]]
                          ELSE parent[y]]
          /\ owner' = [y \in Links |-> IF \E n \in DOMAIN f : f[n] = y THEN Unset ELSE owner[y]]

(* delete of a detached link other than a body's root: its subtree goes.   *)
Delete(l) ==
    /\ l \in alive \ BodyRoots
    /\ parent[l] = Nil
    /\ alive' = alive \ SubtreeOf(l)
    /\ parent' = [y \in Links |-> IF y \in SubtreeOf(l) THEN Nil ELSE parent[y]]
    /\ owner' = [y \in Links |-> IF y \in SubtreeOf(l) THEN Unset ELSE owner[y]]

ANext ==
    \/ \E l \in Links : Create(l) \/ Copy(l) \/ Delete(l)
    \/ \E p, l \in Links : Graft(p, l) \/ Cut(p, l)

ASpec == AInit /\ [][ANext]_avars

=============================================================================
