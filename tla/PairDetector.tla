------------------------------ MODULE PairDetector ------------------------------
(***************************************************************************)
(* ColdetModelPair::detectCollisionsSub and its two paths                  *)
(* (src/hrplib/hrpCollision/ColdetModelPair.cpp): the analytic            *)
(* plane-cylinder test, and the mesh-mesh test whose contacts the Opcode   *)
(* collider leaves in the process-wide cdContact / cdContactsCount.        *)
(*                                                                         *)
(* Geometry is exact: the cylinder axis makes an angle theta with the     *)
(* plane with sin = s/k and cos = c/k (Pythagorean triples), the centre   *)
(* is z above the plane, and every length is multiplied by 2k so that     *)
(* dTop, dBottom, radius and radius*cos(theta) are integers; float        *)
(* rounding is not modelled.                                               *)
(*                                                                         *)
(* Result buffers are ids 1..MaxAllocs on a heap `live`.  The caller that *)
(* frees a result is not in this repository: FreedKinds are the kinds of  *)
(* pair whose returned array it delete[]s.                                 *)
(***************************************************************************)
EXTENDS Integers, Sequences

CONSTANTS
    Axes,           \* set of [s, c, k]: sin = s/k, cos = c/k of the axis tilt
    Centers,        \* heights z of the cylinder centre above the plane
    Radii, Heights, \* cylinder parameters 0 and 1
    MeshCounts,     \* numbers of contacts the Opcode collider can report
    Kinds,          \* subset of {"planecyl", "mesh"}: the pairs detected
    FreedKinds,     \* kinds of pair whose returned array the caller delete[]s
    MaxAllocs       \* bound on arrays allocated

ASSUME \A a \in Axes : a.s * a.s + a.c * a.c = a.k * a.k /\ a.k > 0 /\ a.c >= 0

(* The caller holds no result.                                            *)
Idle == -1

Geoms == [z : Centers, a : Axes, r : Radii, h : Heights]

VARIABLES
    cdContact,          \* the global contact array of the mesh-mesh path (0 = null)
    cdContactsCount,    \* the global contact count
    live,               \* allocated, not yet freed arrays
    allocs,             \* arrays allocated so far (the next id)
    held,               \* the array the caller holds, 0 for NULL, or Idle
    doubleFree,         \* an array was delete[]d twice
    last                \* the last detection: [kind, geom, contacts]

vars == <<cdContact, cdContactsCount, live, allocs, held, doubleFree, last>>

-----------------------------------------------------------------------------
(* dTop, dBottom, radius and radius*cos(theta), times 2k.                   *)
DTop(g)    == 2 * g.a.k * g.z + g.h * g.a.s
DBottom(g) == 2 * g.a.k * g.z - g.h * g.a.s
Radius(g)  == 2 * g.a.k * g.r
RCosTh(g)  == 2 * g.r * g.a.c

(* Mutant: the depth taken the wrong way round.                            *)
DepthReversed(g, d) == d - RCosTh(g)

(* depth = rcosth - distance.                                               *)
Depth(g, d) == RCosTh(g) - d

(* The contact of one disc and its depth (its position is left out).     *)
DiscContact(g, disc, d) == [disc |-> disc, depth |-> Depth(g, d)]

(* Mutant: the second test copied from the first (dTop twice).             *)
PlaneCylinderContactsTopTwice(g) ==
    IF (DTop(g) > Radius(g) /\ DBottom(g) > Radius(g)) THEN <<>>
    ELSE (IF RCosTh(g) >= DTop(g) THEN <<DiscContact(g, "bottom", DBottom(g))>> ELSE <<>>)
         \o (IF RCosTh(g) >= DTop(g) THEN <<DiscContact(g, "top", DTop(g))>> ELSE <<>>)

(* detectPlaneCylinderCollisions: no contact when both discs are more than *)
(* radius above the plane; otherwise each disc with rcosth >= its distance *)
(* contributes one contact, the bottom disc first.                        *)
PlaneCylinderContacts(g) ==
    IF (DTop(g) > Radius(g) /\ DBottom(g) > Radius(g)) THEN <<>>
    ELSE (IF RCosTh(g) >= DBottom(g) THEN <<DiscContact(g, "bottom", DBottom(g))>> ELSE <<>>)
         \o (IF RCosTh(g) >= DTop(g) THEN <<DiscContact(g, "top", DTop(g))>> ELSE <<>>)

(* The reset at the head of detectCollisionsSub, as a record of the        *)
(* globals and heap after it.                                              *)
Free(p) == [live |-> live \ {p}, twice |-> p \notin live]

(* Mutant: the count reset nested inside the pointer test.                 *)
ResetInsidePointerTest ==
    IF cdContact # 0
    THEN [ptr |-> 0, count |-> 0, live |-> Free(cdContact).live,
          twice |-> Free(cdContact).twice]
    ELSE [ptr |-> cdContact, count |-> cdContactsCount, live |-> live, twice |-> FALSE]

Reset ==
    IF cdContactsCount # 0
    THEN IF cdContact # 0
         THEN [ptr |-> 0, count |-> 0, live |-> Free(cdContact).live,
               twice |-> Free(cdContact).twice]
         ELSE [ptr |-> 0, count |-> 0, live |-> live, twice |-> FALSE]
    ELSE [ptr |-> cdContact, count |-> cdContactsCount, live |-> live, twice |-> FALSE]

-----------------------------------------------------------------------------
Init ==
    /\ cdContact = 0
    /\ cdContactsCount = 0
    /\ live = {}
    /\ allocs = 0
    /\ held = Idle
    /\ doubleFree = FALSE
    /\ last = [kind |-> "none", geom |-> "none", contacts |-> <<>>]

(* Mutant: the plane-cylinder array also stored in cdContact.              *)
DetectPlaneCylinderKeepGlobal(g) ==
    LET r  == Reset
        cs == PlaneCylinderContacts(g)
        n  == r.count + Len(cs)
    IN  /\ "planecyl" \in Kinds /\ held = Idle /\ ~doubleFree
        /\ cdContactsCount' = n
        /\ IF n # 0
           THEN /\ allocs < MaxAllocs
                /\ allocs' = allocs + 1
                /\ live' = r.live \cup {allocs + 1}
                /\ held' = allocs + 1
                /\ cdContact' = allocs + 1
           ELSE /\ UNCHANGED allocs
                /\ live' = r.live
                /\ held' = 0
                /\ cdContact' = r.ptr
        /\ doubleFree' = r.twice
        /\ last' = [kind |-> "planecyl", geom |-> g, contacts |-> cs]

(* detectCollisionsSub on a (PLANE, CYLINDER) pair: reset the globals,    *)
(* count the disc contacts into cdContactsCount, and return a new[] array *)
(* of that many entries (not stored in cdContact), or NULL.                *)
DetectPlaneCylinder(g) ==
    LET r  == Reset
        cs == PlaneCylinderContacts(g)
        n  == r.count + Len(cs)
    IN  /\ "planecyl" \in Kinds /\ held = Idle /\ ~doubleFree
        /\ cdContactsCount' = n
        /\ cdContact' = r.ptr
        /\ IF n # 0
           THEN /\ allocs < MaxAllocs
                /\ allocs' = allocs + 1
                /\ live' = r.live \cup {allocs + 1}
                /\ held' = allocs + 1
           ELSE /\ UNCHANGED allocs
                /\ live' = r.live
                /\ held' = 0
        /\ doubleFree' = r.twice
        /\ last' = [kind |-> "planecyl", geom |-> g, contacts |-> cs]

(* detectCollisionsSub on any other pair: reset the globals, then the     *)
(* Opcode collider (not in this repository) finds n contacts, leaving a   *)
(* new array of them in cdContact and n in cdContactsCount; cdContact is  *)
(* returned.                                                               *)
DetectMeshMesh(n) ==
    LET r == Reset
    IN  /\ "mesh" \in Kinds /\ held = Idle /\ ~doubleFree
        /\ cdContactsCount' = n
        /\ IF n # 0
           THEN /\ allocs < MaxAllocs
                /\ allocs' = allocs + 1
                /\ live' = r.live \cup {allocs + 1}
                /\ cdContact' = allocs + 1
                /\ held' = allocs + 1
           ELSE /\ UNCHANGED allocs
                /\ live' = r.live
                /\ cdContact' = r.ptr
                /\ held' = r.ptr
        /\ doubleFree' = r.twice
        /\ last' = [kind |-> "mesh", geom |-> "none", contacts |-> <<>>]

(* The caller is done with the result: it delete[]s a non-null array     *)
(* returned for a kind of pair in FreedKinds.                              *)
Release ==
    /\ held # Idle /\ ~doubleFree
    /\ IF last.kind \in FreedKinds /\ held # 0
       THEN /\ live' = live \ {held}
            /\ doubleFree' = (held \notin live)
       ELSE UNCHANGED <<live, doubleFree>>
    /\ held' = Idle
    /\ UNCHANGED <<cdContact, cdContactsCount, allocs, last>>

Next ==
    \/ \E g \in Geoms : DetectPlaneCylinder(g)
    \/ \E n \in MeshCounts : DetectMeshMesh(n)
    \/ Release

Spec == Init /\ [][Next]_vars

-----------------------------------------------------------------------------
Contact == [disc : {"bottom", "top"}, depth : Int]

TypeOK ==
    /\ cdContact \in 0..MaxAllocs
    /\ cdContactsCount \in 0..2 \cup MeshCounts
    /\ live \subseteq 1..MaxAllocs
    /\ allocs \in 0..MaxAllocs
    /\ held \in -1..MaxAllocs
    /\ last.contacts \in Seq(Contact)

(* Every contact array is freed exactly once: no delete[] of an array     *)
(* already freed (the reset of detectCollisionsSub frees cdContact, and   *)
(* the caller may free the array it was returned), and, once the caller   *)
(* is done, every array still allocated is the one cdContact refers to.   *)
BufferOwnership ==
    /\ ~doubleFree
    /\ held = Idle => live \subseteq {cdContact}

(* The plane-cylinder test finds a contact whenever the cylinder reaches  *)
(* the plane: its lowest point, on the rim of the lower disc, is           *)
(* min(dTop, dBottom) - radius*cos(theta).                                  *)
PenetratingHasContact ==
    LET g == last.geom
    IN  (last.kind = "planecyl" /\ (DTop(g) <= RCosTh(g) \/ DBottom(g) <= RCosTh(g)))
            => Len(last.contacts) >= 1

(* Spec 8: a cylinder lying with its axis in the plane and its centre on  *)
(* the plane yields exactly two contacts, one per disc, each of depth     *)
(* radius.                                                                  *)
LyingCenteredTwoContacts ==
    LET g == last.geom
    IN  (last.kind = "planecyl" /\ g.a.s = 0 /\ g.z = 0)
            => /\ Len(last.contacts) = 2
               /\ \A i \in 1..2 : last.contacts[i].depth = Radius(g)

=============================================================================
