------------------------------ MODULE LinkTree ------------------------------
(***************************************************************************)
(* The articulated-body link tree of src/OpenHRP/Base/Link.cpp.            *)
(*                                                                         *)
(* Every Link keeps three raw pointers (parent, child = first child,       *)
(* sibling = next sibling) and a back pointer to its owning Body.  The     *)
(* tree is changed by addChild, detachChild, the deep-copy constructor     *)
(* Link(const Link&), the default constructor and the recursive            *)
(* destructor.  Joint parameters (a, d, b, c, m, I, limits...) are copied  *)
(* verbatim by the copy constructor and touched by nothing else here, so   *)
(* they are abstracted away: a link is its identity.                       *)
(*                                                                         *)
(* The pointer record t = [parent, child, sibling, body] is one variable   *)
(* so that the helper steps of a method (detachChild inside addChild,      *)
(* setBodyIter at the end of both) compose as functions on it, in the      *)
(* order the code runs them.                                               *)
(***************************************************************************)
EXTENDS Naturals, Sequences, SequencesExt, FiniteSets

CONSTANTS
    Links,      \* the addresses a Link object may occupy
    Bodies,     \* the Body objects owning a tree
    RootOf,     \* RootOf[b]: the root link Body b was built with
    Nil,        \* the null pointer
    NoBody,     \* Link::body == 0 (set by detachChild)
    Unset,      \* Link::body never assigned (default and copy constructors)
    AcyclicCallers \* TRUE: callers never ask addChild to put a link under itself
                   \* or one of its descendants

ASSUME /\ RootOf \in [Bodies -> Links]
       /\ \A b1, b2 \in Bodies : RootOf[b1] = RootOf[b2] => b1 = b2
       /\ Nil \notin Links
       /\ {NoBody, Unset} \cap Bodies = {}

VARIABLES
    t,          \* [parent, child, sibling, body] of every address
    live,       \* the addresses holding an allocated Link
    crashed     \* the process died (unbounded recursion in setBodyIter)

vars == <<t, live, crashed>>

BodyRoots == {RootOf[b] : b \in Bodies}
LinkOrNil == Links \cup {Nil}

-----------------------------------------------------------------------------
(* Pointer-chasing helpers                                                 *)

(* The sibling list starting at x, in list order.  The cut on a repeated  *)
(* element only guards evaluation; sibling lists never loop.              *)
RECURSIVE SiblingList(_, _, _)
SiblingList(s, x, acc) ==
    IF x = Nil \/ x \in ToSet(acc) THEN acc
    ELSE SiblingList(s, s.sibling[x], Append(acc, x))

Children(s, x) == SiblingList(s, s.child[x], <<>>)

(* Successors of x in the graph that setBodyIter walks.                    *)
Succ(s, x) == {y \in {s.sibling[x], s.child[x]} : y # Nil}

RECURSIVE ReachAcc(_, _, _)
ReachAcc(s, frontier, seen) ==
    IF frontier = {} THEN seen
    ELSE LET next == UNION {Succ(s, x) : x \in frontier} \ seen
         IN  ReachAcc(s, next, seen \cup next)

(* Every link setBodyIter(x, .) visits: x, its siblings, their subtrees.  *)
Reach(s, x) == ReachAcc(s, {x}, {x})

(* setBodyIter recurses without a visited set: it terminates iff no cycle *)
(* is reachable from x.                                                    *)
SetBodyIterTerminates(s, x) ==
    \A y \in Reach(s, x) : y \notin ReachAcc(s, Succ(s, y), Succ(s, y))

(* The links owned by x: x and everything below it.  This is the set     *)
(* ~Link deletes and Link(const Link&) copies.                            *)
Subtree(s, x) == {x} \cup IF s.child[x] = Nil THEN {} ELSE Reach(s, s.child[x])

(* The link whose sibling pointer is x, i.e. x's predecessor in its list. *)
PrevSibling(s, x) ==
    IF \E y \in live : s.sibling[y] = x
    THEN CHOOSE y \in live : s.sibling[y] = x
    ELSE Nil

-----------------------------------------------------------------------------
(* The methods, as transformers of the pointer record                      *)

(* setBodyIter(link, body): body pointer of link, its siblings and all     *)
(* their descendants.                                                      *)
SetBodyIter(s, x, b) ==
    LET r == Reach(s, x)
    IN  [s EXCEPT !.body = [y \in Links |-> IF y \in r THEN b ELSE @[y]]]

(* Mutant: the splice ignores prevSibling and always moves this->child.    *)
DetachNoPrevSibling(s, this, c) ==
    LET kids == Children(s, this)
    IN  IF c \notin ToSet(kids) THEN s
        ELSE LET s1 == [s EXCEPT !.child[this] = s.sibling[c]]
                 s2 == [s1 EXCEPT !.parent[c] = Nil, !.sibling[c] = Nil]
             IN  SetBodyIter(s2, c, NoBody)

(* Mutant: childToRemove->sibling is not cleared before setBodyIter.       *)
DetachKeepSibling(s, this, c) ==
    LET kids == Children(s, this)
    IN  IF c \notin ToSet(kids) THEN s
        ELSE LET i  == CHOOSE k \in 1..Len(kids) : kids[k] = c
                 s1 == IF i > 1
                       THEN [s EXCEPT !.sibling[kids[i-1]] = s.sibling[c]]
                       ELSE [s EXCEPT !.child[this] = s.sibling[c]]
                 s2 == [s1 EXCEPT !.parent[c] = Nil]
             IN  SetBodyIter(s2, c, NoBody)

(* detachChild(childToRemove) on this: unlink it from this's child list   *)
(* (through prevSibling or this->child), clear its parent and sibling,    *)
(* then clear the body pointer of its subtree.  A non-child is a no-op.   *)
Detach(s, this, c) ==
    LET kids == Children(s, this)
    IN  IF c \notin ToSet(kids) THEN s
        ELSE LET i    == CHOOSE k \in 1..Len(kids) : kids[k] = c
                 s1   == IF i > 1
                         THEN [s EXCEPT !.sibling[kids[i-1]] = s.sibling[c]]
                         ELSE [s EXCEPT !.child[this] = s.sibling[c]]
                 s2   == [s1 EXCEPT !.parent[c] = Nil, !.sibling[c] = Nil]
             IN  SetBodyIter(s2, c, NoBody)

(* addChild(link) on this: detach link from its old parent, push it at    *)
(* the front of this's child list, then give its subtree this's body.     *)
Attach(s, this, l) ==
    LET s1 == IF s.parent[l] # Nil THEN Detach(s, s.parent[l], l) ELSE s
        s2 == [s1 EXCEPT !.sibling[l] = s1.child[this],
                         !.parent[l]  = this,
                         !.child[this] = l]
    IN  s2

(* Mutant: the copy loop drops `newChild->sibling = child', so each copied *)
(* list keeps only the last copied child.                                  *)
CopyIntoNoSibling(s, org, f) ==
    LET sub     == DOMAIN f
        copies  == {f[n] : n \in sub}
        orig(y) == CHOOSE n \in sub : f[n] = y
        lastKid(n) == LET k == Children(s, n) IN IF k = <<>> THEN Nil ELSE f[Last(k)]
    IN  [parent  |-> [y \in Links |-> IF y \notin copies THEN s.parent[y]
                                     ELSE IF orig(y) = org THEN Nil
                                     ELSE f[s.parent[orig(y)]]],
         sibling |-> [y \in Links |-> IF y \notin copies THEN s.sibling[y] ELSE Nil],
         child   |-> [y \in Links |-> IF y \notin copies THEN s.child[y]
                                     ELSE lastKid(orig(y))],
         body    |-> [y \in Links |-> IF y \in copies THEN Unset ELSE s.body[y]]]

(* Link(const Link& org): copy org's subtree into the free addresses f.   *)
(* Each copied node gets a null parent and sibling, then its children are *)
(* copied in list order, each pushed at the FRONT of the new child list:  *)
(* the copy's first child is the copy of org's last child.  The copy     *)
(* constructor never assigns body.                                         *)
CopyInto(s, org, f) ==
    LET sub     == DOMAIN f
        copies  == {f[n] : n \in sub}
        orig(y) == CHOOSE n \in sub : f[n] = y
        lastKid(n) == LET k == Children(s, n) IN IF k = <<>> THEN Nil ELSE f[Last(k)]
    IN  [parent  |-> [y \in Links |-> IF y \notin copies THEN s.parent[y]
                                     ELSE IF orig(y) = org THEN Nil
                                     ELSE f[s.parent[orig(y)]]],
         sibling |-> [y \in Links |-> IF y \notin copies THEN s.sibling[y]
                                     ELSE IF orig(y) = org \/ PrevSibling(s, orig(y)) = Nil
                                          THEN Nil
                                          ELSE f[PrevSibling(s, orig(y))]],
         child   |-> [y \in Links |-> IF y \notin copies THEN s.child[y]
                                     ELSE lastKid(orig(y))],
         body    |-> [y \in Links |-> IF y \in copies THEN Unset ELSE s.body[y]]]

-----------------------------------------------------------------------------
(* Initial state: each Body holds its root link, owned by it; no other     *)
(* link is allocated.                                                       *)
Init ==
    /\ t = [parent  |-> [l \in Links |-> Nil],
            child   |-> [l \in Links |-> Nil],
            sibling |-> [l \in Links |-> Nil],
            body    |-> [l \in Links |-> IF \E b \in Bodies : RootOf[b] = l
                                        THEN CHOOSE b \in Bodies : RootOf[b] = l
                                        ELSE Unset]]
    /\ live = BodyRoots
    /\ crashed = FALSE

(* Mutant: Link() leaves the sibling pointer uninitialised.                 *)
NewLinkNoSiblingInit(l) ==
    /\ ~crashed
    /\ l \notin live
    /\ live' = live \cup {l}
    /\ t' = [t EXCEPT !.parent[l] = Nil, !.child[l] = Nil,
                      !.sibling[l] = Unset, !.body[l] = Unset]
    /\ UNCHANGED crashed

(* new Link(): all pointers null, body left unassigned.                    *)
NewLink(l) ==
    /\ ~crashed
    /\ l \notin live
    /\ live' = live \cup {l}
    /\ t' = [t EXCEPT !.parent[l] = Nil, !.child[l] = Nil,
                      !.sibling[l] = Nil, !.body[l] = Unset]
    /\ UNCHANGED crashed

(* Mutant: addChild without its closing setBodyIter call.                 *)
AddChildNoSetBody(this, l) ==
    /\ ~crashed
    /\ this \in live /\ l \in live
    /\ AcyclicCallers => this \notin Subtree(t, l)
    /\ LET s == Attach(t, this, l)
       IN  IF SetBodyIterTerminates(s, l)
           THEN /\ t' = s
                /\ UNCHANGED crashed
           ELSE /\ t' = s
                /\ crashed' = TRUE
    /\ UNCHANGED live

(* this->addChild(link), setBodyIter included.  When link is this or an    *)
(* ancestor of this, the new child pointer closes a cycle and setBodyIter  *)
(* recurses until the stack overflows: the process crashes.  addChild     *)
(* itself checks nothing; AcyclicCallers restricts the callers.            *)
AddChild(this, l) ==
    /\ ~crashed
    /\ this \in live /\ l \in live
    /\ AcyclicCallers => this \notin Subtree(t, l)
    /\ LET s == Attach(t, this, l)
       IN  IF SetBodyIterTerminates(s, l)
           THEN /\ t' = SetBodyIter(s, l, s.body[this])
                /\ UNCHANGED crashed
           ELSE /\ t' = s
                /\ crashed' = TRUE
    /\ UNCHANGED live

(* this->detachChild(childToRemove).                                        *)
DetachChild(this, c) ==
    /\ ~crashed
    /\ this \in live /\ c \in live
    /\ t' = Detach(t, this, c)
    /\ UNCHANGED <<live, crashed>>

(* The free addresses the copy of org's subtree is allocated at.          *)
CopyMap(s, org) ==
    CHOOSE g \in [Subtree(s, org) -> Links \ live] :
        \A m, n \in DOMAIN g : g[m] = g[n] => m = n

(* new Link(org copy): a deep copy of org's subtree at free addresses.          *)
Clone(org) ==
    /\ ~crashed
    /\ org \in live
    /\ LET sub  == Subtree(t, org)
           free == Links \ live
       IN  /\ Cardinality(sub) <= Cardinality(free)
           /\ LET f == CopyMap(t, org)
              IN  /\ t' = CopyInto(t, org, f)
                  /\ live' = live \cup {f[n] : n \in sub}
    /\ UNCHANGED crashed

Cleared(f) == IF f = "body" THEN Unset ELSE Nil

(* Mutant: a destructor that frees only the direct children.               *)
DeletedByShallow(s, l) == {l} \cup ToSet(Children(s, l))

(* The links `delete l' frees: ~Link walks the child list and deletes each *)
(* child, whose own destructor recurses.                                   *)
DeletedBy(s, l) == Subtree(s, l)

(* delete link: ~Link deletes the child list, each child recursively.  It  *)
(* does not unlink link from its parent; by the contract of detachChild   *)
(* ("the detached child link is not deleted") it is called on a link       *)
(* without a parent.  A Body's root is deleted only with its Body, which  *)
(* this module does not model.                                             *)
Destroy(l) ==
    /\ ~crashed
    /\ l \in live \ BodyRoots
    /\ t.parent[l] = Nil
    /\ LET gone == DeletedBy(t, l)
       IN  /\ live' = live \ gone
           \* freed memory is never read again: its contents are dropped
           /\ t' = [f \in DOMAIN t |->
                      [y \in Links |-> IF y \in gone THEN Cleared(f) ELSE t[f][y]]]
    /\ UNCHANGED crashed

Next ==
    \/ \E l \in Links : NewLink(l)
    \/ \E this, l \in Links : AddChild(this, l)
    \/ \E this, c \in Links : DetachChild(this, c)
    \/ \E l \in Links : Clone(l)
    \/ \E l \in Links : Destroy(l)

Spec == Init /\ [][Next]_vars

-----------------------------------------------------------------------------
(* Properties                                                              *)

TypeOK ==
    /\ t \in [parent : [Links -> LinkOrNil], child : [Links -> LinkOrNil],
              sibling : [Links -> LinkOrNil],
              body : [Links -> Bodies \cup {NoBody, Unset}]]
    /\ live \subseteq Links
    /\ crashed \in BOOLEAN

(* The top of x's tree, following parent pointers.                        *)
RECURSIVE TopAcc(_, _, _)
TopAcc(s, x, n) == IF s.parent[x] = Nil \/ n = 0 THEN x
                   ELSE TopAcc(s, s.parent[x], n - 1)
Top(s, x) == TopAcc(s, x, Cardinality(Links))

(* The parent, child and sibling pointers agree: every link in p's child  *)
(* list points back to p, a link with a parent is in that parent's list,  *)
(* and a link without one is in no list and has no sibling.  This is what *)
(* the prevSibling splice of detachChild and the re-parenting of addChild *)
(* must preserve across any sequence of calls.                             *)
ChildListsConsistent ==
    ~crashed =>
      \A x \in live :
        /\ \A c \in ToSet(Children(t, x)) : t.parent[c] = x
        /\ t.parent[x] # Nil => x \in ToSet(Children(t, t.parent[x]))
        /\ t.parent[x] = Nil => t.sibling[x] = Nil /\ PrevSibling(t, x) = Nil

(* Every link knows its owner: all links of one tree carry the body       *)
(* pointer of the tree's top link.  addChild and detachChild keep this by *)
(* re-running setBodyIter over exactly the grafted or cut subtree.        *)
BodyConsistent ==
    ~crashed => \A x \in live : t.body[x] = t.body[Top(t, x)]

(* No allocated link points at a deleted one: deleting a detached link     *)
(* with ~Link frees exactly the links that only it reaches.                *)
NoDangling ==
    \A x \in live : {t.parent[x], t.child[x], t.sibling[x]} \subseteq live \cup {Nil}

(* Link(const Link&) makes a deep copy: every copied link has as children *)
(* exactly the copies of the original's children (so the copy reaches no *)
(* original link), the copy's root has no parent, and no pointer of an    *)
(* existing link changes.                                                  *)
CloneIsDeepCopy ==
    [][\A org \in Links :
         Clone(org) =>
           LET f == CopyMap(t, org)
           IN  /\ \A n \in DOMAIN f :
                    ToSet(Children(t', f[n])) = {f[c] : c \in ToSet(Children(t, n))}
               /\ t'.parent[f[org]] = Nil
               /\ \A y \in live : /\ t'.parent[y] = t.parent[y]
                                  /\ t'.child[y] = t.child[y]
                                  /\ t'.sibling[y] = t.sibling[y]]_vars

(* addChild always succeeds (spec 4.1).  Expected to fail: adding a link   *)
(* under itself or under one of its descendants sends setBodyIter into     *)
(* unbounded recursion.                                                     *)
NoCrash == ~crashed

-----------------------------------------------------------------------------
(* Refinement of the abstract forest of spec 4.1.  The forest's parent    *)
(* function is the parent pointers; its subtrees are then taken along     *)
(* parent pointers, while the code copies and deletes along the child     *)
(* lists, so the mapping also checks that the two agree.                  *)

Forest == INSTANCE BodyForest
            WITH parent <- t.parent, owner <- t.body, alive <- live

(* For callers that never request a cyclic graft, the pointer tree        *)
(* implements the forest spec 4.1 describes: under the mapping above,     *)
(* every addChild, detachChild, copy, new and delete is a graft, a cut    *)
(* (or nothing, for a non-child), a copy, a creation or a deletion of the *)
(* forest, with ownership carried over whole subtrees.                    *)
ImplementsBodyForest == Forest!ASpec

=============================================================================
