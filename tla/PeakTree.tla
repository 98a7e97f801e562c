------------------------------ MODULE PeakTree -------------------------------
(***************************************************************************)
(* The red-black trees of include/sys/tree.h, the part of it that the      *)
(* library uses: flows, streams and geolocation entries live in such trees.*)
(*                                                                         *)
(* A tree is the head and the four link fields of every node, so that the  *)
(* operations may be checked for what they leave behind in memory.  The    *)
(* code spells every case out twice, for the left and for the right side;  *)
(* here the side d is a parameter and the other one is Other(d).  NULL is  *)
(* 0 and nodes are positive numbers.  The order of the nodes is a          *)
(* parameter of the operations, as it is of RB_GENERATE(): cmp[n] is what  *)
(* comparing the element at hand with node n returns.                      *)
(***************************************************************************)
EXTENDS Integers, Sequences, SequencesExt

NULL == 0
RB_BLACK == 0
RB_RED == 1

Sides == {"left", "right"}
Other(d) == IF d = "left" THEN "right" ELSE "left"

\* RB_INIT(), and nodes whose fields are all zero.
RB_INIT(Nodes) ==
  [root |-> NULL,
   link |-> [d \in Sides |-> [n \in Nodes |-> NULL]],
   parent |-> [n \in Nodes |-> NULL],
   color |-> [n \in Nodes |-> RB_BLACK]]

\* Reads of a link and of a colour; NULL counts as black where it is allowed.
Link(t, d, n) == t.link[d][n]
Black(t, n) == n = NULL \/ t.color[n] = RB_BLACK
Red(t, n) == ~Black(t, n)

\* Writes.  A guarded write of the code does nothing when n is NULL.
SetParent(t, n, p) == IF n = NULL THEN t ELSE [t EXCEPT !.parent[n] = p]
Paint(t, n, c) == IF n = NULL THEN t ELSE [t EXCEPT !.color[n] = c]

\* RB_SET_BLACKRED()
BlackRed(t, black, red) == Paint(Paint(t, black, RB_BLACK), red, RB_RED)

\* Whatever pointed down at old, its parent p or the head, points at new.
Replace(t, p, old, new) ==
  IF p = NULL THEN [t EXCEPT !.root = new]
  ELSE IF Link(t, "left", p) = old THEN [t EXCEPT !.link["left"][p] = new]
  ELSE [t EXCEPT !.link["right"][p] = new]

\* RB_ROTATE_LEFT() and RB_ROTATE_RIGHT(): elm moves down on side d.
Rotate(t, d, elm) ==
  LET o == Other(d)
      tmp == Link(t, o, elm)
      u == SetParent([t EXCEPT !.link[o][elm] = Link(t, d, tmp)],
                     Link(t, d, tmp), elm)
      v == Replace(SetParent(u, tmp, t.parent[elm]), t.parent[elm], elm, tmp)
  IN  [v EXCEPT !.link[d][tmp] = elm, !.parent[elm] = tmp]
-----------------------------------------------------------------------------
\* The side of its parent that elm is on.
SideOf(t, elm) == IF Link(t, "left", t.parent[elm]) = elm THEN "left" ELSE "right"

\* A variant that takes the nearer uncle's colour for granted.
UncleBlack(t, gparent, o) == FALSE

\* Is the uncle of the new element red?
UncleRed(t, gparent, o) == Red(t, Link(t, o, gparent))

\* The round of RB_INSERT_COLOR() that ends with a rotation.
Straighten(t, d, elm, parent, gparent) ==
  IF Link(t, Other(d), parent) = elm
  THEN Rotate(BlackRed(Rotate(t, d, parent), elm, gparent), Other(d), gparent)
  ELSE Rotate(BlackRed(t, parent, gparent), Other(d), gparent)

RECURSIVE InsertColor(_, _)

\* RB_INSERT_COLOR(): no red element has a red parent in the end.
InsertColor(t, elm) ==
  LET parent == t.parent[elm] IN
  IF parent = NULL \/ Black(t, parent) THEN Paint(t, t.root, RB_BLACK)
  ELSE LET gparent == t.parent[parent]
           d == SideOf(t, parent)
           uncle == Link(t, Other(d), gparent)
       IN  IF UncleRed(t, gparent, Other(d))
           THEN InsertColor(BlackRed(Paint(t, uncle, RB_BLACK), parent, gparent),
                            gparent)
           ELSE Paint(Straighten(t, d, elm, parent, gparent),
                      Straighten(t, d, elm, parent, gparent).root, RB_BLACK)

\* RB_SET(), below parent on side d, or as the root.
Attach(t, elm, parent, d) ==
  LET u == [t EXCEPT !.parent[elm] = parent, !.link["left"][elm] = NULL,
                     !.link["right"][elm] = NULL, !.color[elm] = RB_RED]
  IN  IF parent = NULL THEN [u EXCEPT !.root = elm]
      ELSE [u EXCEPT !.link[d][parent] = elm]

SideFor(comp) == IF comp < 0 THEN "left" ELSE "right"

RECURSIVE Descend(_, _, _, _)

\* The search shared by INSERT and FIND: <<match or NULL, last node, side>>.
Descend(t, cmp, at, last) ==
  IF at = NULL THEN <<NULL>> \o last
  ELSE IF cmp[at] = 0 THEN <<at>> \o last
  ELSE Descend(t, cmp, Link(t, SideFor(cmp[at]), at), <<at, SideFor(cmp[at])>>)

Search(t, cmp) == Descend(t, cmp, t.root, <<NULL, "left">>)

\* RB_FIND()
RB_FIND(t, cmp) == Search(t, cmp)[1]

\* RB_INSERT(): the tree after it; if RB_FIND() finds a node, the same tree.
RB_INSERT(t, elm, cmp) ==
  LET s == Search(t, cmp) IN
  IF s[1] # NULL THEN t ELSE InsertColor(Attach(t, elm, s[2], s[3]), elm)

RECURSIVE NDescend(_, _, _, _)

NDescend(t, cmp, at, res) ==
  IF at = NULL THEN res
  ELSE IF cmp[at] = 0 THEN at
  ELSE NDescend(t, cmp, Link(t, SideFor(cmp[at]), at),
                IF cmp[at] < 0 THEN at ELSE res)

\* A variant that stops at the last node of the way down.
FindLast(t, cmp) == IF Search(t, cmp)[1] # NULL THEN Search(t, cmp)[1] ELSE Search(t, cmp)[2]

\* RB_NFIND(): the first node at or behind the key looked for.
RB_NFIND(t, cmp) == NDescend(t, cmp, t.root, NULL)
-----------------------------------------------------------------------------
RECURSIVE Outermost(_, _, _)

\* As far as it goes to side d; RB_MINMAX() starts at the root.
Outermost(t, d, n) ==
  IF n = NULL \/ Link(t, d, n) = NULL THEN n ELSE Outermost(t, d, Link(t, d, n))

RB_MINMAX(t, d) == Outermost(t, d, t.root)

RECURSIVE Climb(_, _, _)

\* Up until elm was not on side d of its parent; NULL behind the root.
Climb(t, d, elm) ==
  IF t.parent[elm] # NULL /\ Link(t, d, t.parent[elm]) = elm
  THEN Climb(t, d, t.parent[elm])
  ELSE t.parent[elm]

\* RB_NEXT() when d is "right", RB_PREV() when it is "left".
RB_STEP(t, d, elm) ==
  IF Link(t, d, elm) # NULL THEN Outermost(t, Other(d), Link(t, d, elm))
  ELSE IF t.parent[elm] # NULL /\ Link(t, Other(d), t.parent[elm]) = elm
  THEN t.parent[elm]
  ELSE Climb(t, d, elm)

RECURSIVE WalkFrom(_, _, _)

WalkFrom(t, d, n) ==
  IF n = NULL THEN <<>> ELSE <<n>> \o WalkFrom(t, d, RB_STEP(t, d, n))

\* RB_FOREACH() when d is "right", RB_FOREACH_REVERSE() when it is "left".
RB_FOREACH(t, d) == WalkFrom(t, d, RB_MINMAX(t, Other(d)))
-----------------------------------------------------------------------------
\* A variant of the sibling's case with a red nephew on the near side only.
NearNephewKept(t, o, tmp) == t

\* The sibling tmp has no red child on side o: the near one moves up.
NearNephew(t, o, tmp) ==
  IF Red(t, Link(t, o, tmp)) THEN t
  ELSE Rotate(Paint(Paint(t, Link(t, Other(o), tmp), RB_BLACK), tmp, RB_RED),
              o, tmp)

RECURSIVE RemoveColor(_, _, _)

\* RB_REMOVE_COLOR(): the side of elm below parent lacks a black node.
RemoveColor(t, parent, elm) ==
  IF Red(t, elm) \/ elm = t.root THEN Paint(t, elm, RB_BLACK)
  ELSE
  LET d == IF Link(t, "left", parent) = elm THEN "left" ELSE "right"
      o == Other(d)
      sibling == Link(t, o, parent)
      u == IF Red(t, sibling) THEN Rotate(BlackRed(t, sibling, parent), d, parent)
           ELSE t
      tmp == Link(u, o, parent)
  IN
  IF Black(u, Link(u, "left", tmp)) /\ Black(u, Link(u, "right", tmp))
  THEN RemoveColor(Paint(u, tmp, RB_RED), u.parent[parent], parent)
  ELSE LET v == NearNephew(u, o, tmp)
           top == Link(v, o, parent)
           w == Paint(Paint(Paint(v, top, v.color[parent]), parent, RB_BLACK),
                      Link(v, o, top), RB_BLACK)
           x == Rotate(w, d, parent)
       IN  Paint(x, x.root, RB_BLACK)

\* elm, with one child at most, is taken out; its child moves up.
Unlink(t, elm, child) ==
  Replace(SetParent(t, child, t.parent[elm]), t.parent[elm], elm, child)

\* elm takes the place of old, with all of its links and its colour.
TakePlace(t, elm, old) ==
  LET u == [t EXCEPT !.parent[elm] = t.parent[old], !.color[elm] = t.color[old],
                     !.link["left"][elm] = Link(t, "left", old),
                     !.link["right"][elm] = Link(t, "right", old)]
      v == Replace(u, u.parent[old], old, elm)
  IN  SetParent(SetParent(v, Link(v, "left", old), elm), Link(v, "right", old), elm)

\* The colour that is missing afterwards: the one of the place given up.
LostColor(t, old, elm) == t.color[elm]

\* RB_REMOVE(): a node with two children gives its place to its successor.
RB_REMOVE(t, old) ==
  LET both == Link(t, "left", old) # NULL /\ Link(t, "right", old) # NULL
      elm == IF both THEN Outermost(t, "left", Link(t, "right", old)) ELSE old
      child == IF both \/ Link(t, "left", elm) = NULL
               THEN Link(t, "right", elm) ELSE Link(t, "left", elm)
      parent == IF both /\ t.parent[elm] = old THEN elm ELSE t.parent[elm]
      u == Unlink(t, elm, child)
      v == IF both THEN TakePlace(u, elm, old) ELSE u
  IN  IF LostColor(t, old, elm) = RB_BLACK THEN RemoveColor(v, parent, child) ELSE v
-----------------------------------------------------------------------------
RECURSIVE InOrder(_, _), BlackHeight(_, _)

\* The nodes below n from left to right.
InOrder(t, n) ==
  IF n = NULL THEN <<>>
  ELSE InOrder(t, Link(t, "left", n)) \o <<n>> \o InOrder(t, Link(t, "right", n))

\* The number of black nodes on every way down from n, or -1 if they differ.
BlackHeight(t, n) ==
  IF n = NULL THEN 0
  ELSE LET l == BlackHeight(t, Link(t, "left", n))
           r == BlackHeight(t, Link(t, "right", n))
       IN  IF l # r \/ l = -1 THEN -1 ELSE IF Black(t, n) THEN l + 1 ELSE l

\* A red-black tree of the nodes S whose links up and down agree.
RedBlack(t, S) ==
  /\ ToSet(InOrder(t, t.root)) = S /\ Len(InOrder(t, t.root)) = Cardinality(S)
  /\ t.root # NULL => t.parent[t.root] = NULL /\ Black(t, t.root)
  /\ BlackHeight(t, t.root) # -1
  /\ \A n \in S, d \in Sides : Link(t, d, n) # NULL =>
       /\ t.parent[Link(t, d, n)] = n
       /\ Red(t, n) => Black(t, Link(t, d, n))
=============================================================================
