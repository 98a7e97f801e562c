------------------------------ MODULE PeakPage -------------------------------
(***************************************************************************)
(* The paged lists of include/peak_page.h: a sorted list of elements, kept *)
(* in a chain of pages of PageSize elements each.  A list is a sequence of *)
(* pages, a page the sequence of its elements, and elements are records    *)
(* ordered by their field "character", which is the order of the library's *)
(* only user.  Positions inside of a page start at 0, as in the code.      *)
(***************************************************************************)
EXTENDS Integers, Sequences, SequencesExt

CONSTANT PageSize    \* lengthof(page->list)

ASSUME PageAssumption == PageSize \in Nat \ {0}

\* PAGE_FOREACH(): all elements, from PAGE_MIN() to PAGE_MAX().
PAGE_FOREACH(root) == FlattenSeq(root)

\* The first page that does not end before c, or 0.
PageFor(root, c) ==
  LET P == {p \in DOMAIN root : c <= Last(root[p]).character}
  IN  IF P = {} THEN 0 ELSE Min(P)

\* A variant that does not look for the place inside of the page.
BeforeEnd(page, c) == Len(page)

\* The elements of a page before c: the position of c, or where it belongs.
Before(page, c) == Cardinality({i \in DOMAIN page : page[i].character < c})

\* Is c in this page, at the position where it belongs?
At(page, c) ==
  Before(page, c) < Len(page) /\ page[Before(page, c) + 1].character = c

\* PAGE_FIND(): the element with character c, in a sequence of its own, or <<>>.
PAGE_FIND(root, c) ==
  LET p == PageFor(root, c) IN
  IF p = 0 THEN <<>> ELSE SelectSeq(root[p], LAMBDA x : x.character = c)

Half == (PageSize + 1) \div 2

\* A variant that moves one element too few to the new page.
SplitShort(page, pos) ==
  LET keep == IF pos >= Half THEN Half ELSE PageSize - Half
  IN  <<SubSeq(page, 1, keep), SubSeq(page, keep + 1, PageSize - 1)>>

\* The biased split of a full page: the new element goes to the shorter half.
Split(page, pos) ==
  LET keep == IF pos >= Half THEN Half ELSE PageSize - Half
  IN  <<SubSeq(page, 1, keep), SubSeq(page, keep + 1, PageSize)>>

\* Does position pos of the full page end up in the new page?
GoesRight(pos) == pos >= Half

\* The pages that take the place of a page when x is inserted at pos.
Spliced(page, pos, x) ==
  IF Len(page) < PageSize THEN <<InsertAt(page, pos + 1, x)>>
  ELSE LET s == Split(page, pos) IN
       IF GoesRight(pos) THEN <<s[1], InsertAt(s[2], (pos - Half) + 1, x)>>
       ELSE <<InsertAt(s[1], pos + 1, x), s[2]>>

(***************************************************************************)
(* PAGE_INSERT(): the list after it.  An element that is there already is  *)
(* left alone; a list without pages and a full page need another page,     *)
(* without which nothing is changed.                                       *)
(***************************************************************************)
PAGE_INSERT(root, x, alloc) ==
  LET c == x.character
      p == IF PageFor(root, c) = 0 THEN Len(root) ELSE PageFor(root, c)
  IN
  IF root = <<>> THEN (IF alloc THEN <<<<x>>>> ELSE root)
  ELSE IF At(root[p], c) \/ (Len(root[p]) = PageSize /\ ~alloc) THEN root
  ELSE SubSeq(root, 1, p - 1) \o Spliced(root[p], Before(root[p], c), x)
         \o SubSeq(root, p + 1, Len(root))

\* The same elements with x in the place of the one with its character.
Update(root, x) ==
  [p \in DOMAIN root |->
     [i \in DOMAIN root[p] |->
        IF root[p][i].character = x.character THEN x ELSE root[p][i]]]
=============================================================================
