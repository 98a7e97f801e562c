----------------------------- MODULE PeakStream ------------------------------
(***************************************************************************)
(* The stream memory pool of lib/peak_stream.c.                            *)
(*                                                                         *)
(* A pool owns PageCount pages of PageSize units.  A stream is a linear    *)
(* run of pages that grows at its end (peak_stream_claim) and shrinks at   *)
(* its beginning (peak_stream_release); the tree keeps the free pages.     *)
(* Stream references come from a prealloc pool of PageCount elements.      *)
(*                                                                         *)
(* The pool has no lock and is used by one thread: every function is one   *)
(* action.  The contents of the pages are not modelled, only where each    *)
(* stream says its bytes are: buf is kept as the offset "off" from the     *)
(* start of page page_no.  A claim of zero bytes, a release of zero bytes  *)
(* and a release through a NULL reference return at once.                  *)
(***************************************************************************)
EXTENDS PeakPages, FiniteSets, FiniteSetsExt

CONSTANTS
  PageSize,   \* self->page_size, in units of which sizes are multiples
  Refs,       \* the caller's struct peak_stream * variables
  ClaimSizes,   \* the sizes the caller claims
  ReleaseSizes  \* the sizes the caller releases

ASSUME PageSizeAssumption == PageSize \in Nat \ {0}
ASSUME RefsAssumption == IsFiniteSet(Refs)
ASSUME SizesAssumption ==
  ClaimSizes \subseteq Nat \ {0} /\ ReleaseSizes \subseteq Nat \ {0}

VARIABLES
  state,       \* "up", "down", or the panic() that ended the program
  used,        \* self->references.used
  page_no,     \* per reference: first page of the stream
  page_count,  \* per reference: number of pages of the stream
  off,         \* per reference: data.buf - STREAM_PAGE(page_no)
  len,         \* per reference: data.len; zero if and only if *ref is NULL
  ragged       \* history: the operations that left a page boundary so far

stream == <<page_no, page_count, off, len>>
vars == <<state, tree, used, stream, ragged>>

Operations == {"claim", "release"}

NoReferences == "no more stream references available"
Duplicated   == "duplicated page found"
MissingChunks == "missing chunks detected"
Panics == {NoReferences, Duplicated, MissingChunks}

\* Is *ref set?  A stream whose len drops to zero loses its reference.
Live(r) == len[r] > 0

\* The pages stream r accounts for.
Owned(r) == Run(page_no[r], page_count[r])

TypeOK ==
  /\ state \in {"up", "down"} \cup Panics
  /\ tree \subseteq Pages
  /\ used \in 0 .. PageCount
  /\ page_no \in [Refs -> Nat]
  /\ page_count \in [Refs -> Nat]
  /\ off \in [Refs -> Nat]
  /\ len \in [Refs -> Nat]
  /\ ragged \subseteq Operations
-----------------------------------------------------------------------------
\* ALLOC_ALIGN(size, page_size) / page_size
PagesFor(size) == (size + PageSize - 1) \div PageSize

(***************************************************************************)
(* __peak_stream_claim(): first fit.  PeakStreamProbe models the search    *)
(* page by page and shows that it finds exactly this.                      *)
(***************************************************************************)
Fits(n) == {p \in tree : Run(p, n) \subseteq tree}

\* peak_stream_init() past its argument checks: every page is free.
Init ==
  /\ state = "up"
  /\ tree = Pages
  /\ used = 0
  /\ page_no = [r \in Refs |-> 0]
  /\ page_count = [r \in Refs |-> 0]
  /\ off = [r \in Refs |-> 0]
  /\ len = [r \in Refs |-> 0]
  /\ ragged = {}

peak_stream_init ==
  /\ state = "down"
  /\ state' = "up"
  /\ tree' = Pages
  /\ used' = 0
  /\ UNCHANGED <<stream, ragged>>

\* panic() never returns.
Panic(why) == state' = why /\ UNCHANGED <<tree, used, stream>>

(***************************************************************************)
(* History, not code: has a claim asked for a part of a page, has a        *)
(* release ended inside a page of a stream that lives on?                  *)
(***************************************************************************)
Note(operation, leaves) ==
  ragged' = IF leaves THEN ragged \cup {operation} ELSE ragged

\* The stream of r becomes the run of n pages at p with data from its start.
SetStream(r, p, n, size) ==
  /\ page_no' = [page_no EXCEPT ![r] = p]
  /\ page_count' = [page_count EXCEPT ![r] = n]
  /\ off' = [off EXCEPT ![r] = 0]
  /\ len' = [len EXCEPT ![r] = size]

(***************************************************************************)
(* Case 1: a fresh allocation.  It fails, and changes nothing, when no run *)
(* of free pages is long enough; peak_stream_get() panics without a        *)
(* reference.                                                              *)
(***************************************************************************)
ClaimFresh(r, size) ==
  LET n == PagesFor(size) IN
  /\ ~Live(r)
  /\ Fits(n) # {}
  /\ IF used = PageCount
     THEN Panic(NoReferences)
     ELSE /\ tree' = tree \ Run(Min(Fits(n)), n)
          /\ used' = used + 1
          /\ SetStream(r, Min(Fits(n)), n, size)
          /\ UNCHANGED state

\* A variant that forgets the data the stream has already.
ExtraForgetsLen(r, size) == PagesFor(size) - page_count[r]

\* The number of pages a claim asks for on top of the stream's own.
\* A stream that has released a part of a page may get a negative answer.
Extra(r, size) == PagesFor(len[r] + size) - page_count[r]

\* Case 2: no page is needed.
ClaimTrivial(r, size) ==
  /\ Live(r)
  /\ Extra(r, size) = 0
  /\ len' = [len EXCEPT ![r] = @ + size]
  /\ UNCHANGED <<state, tree, used, page_no, page_count, off>>

\* __peak_stream_reclaim(): the pages right behind the stream.
Extension(r, size) == Run(page_no[r] + page_count[r], Extra(r, size))

\* A variant that only looks at the first of the pages it takes.
CanExtendFirst(r, size) ==
  Extension(r, size) # {} => page_no[r] + page_count[r] \in tree

CanExtend(r, size) == Extension(r, size) \subseteq tree

\* Case 3: the stream grows in place, and buf is set to its first page.
ClaimExtend(r, size) ==
  /\ Live(r)
  /\ Extra(r, size) # 0
  /\ CanExtend(r, size)
  /\ tree' = tree \ Extension(r, size)
  /\ SetStream(r, page_no[r], PagesFor(len[r] + size), len[r] + size)
  /\ UNCHANGED <<state, used>>

\* A variant with > instead of >=.
ReleasedTooFew(r, size) ==
  Min({page_count[r], (off[r] + size - 1) \div PageSize})

\* The loop of peak_stream_release(): how many pages go back to the tree.
ReleasedPages(r, size) ==
  Min({page_count[r], (off[r] + size) \div PageSize})

\* The pages themselves, from the start of the stream.
Released(r, size) == Run(page_no[r], ReleasedPages(r, size))

(***************************************************************************)
(* No room behind the stream: claim a new one that holds everything, copy  *)
(* the data, release the old stream as a whole and switch the reference.   *)
(* Old and new stream are held at the same time.                           *)
(***************************************************************************)
ClaimRelocate(r, size) ==
  LET n == PagesFor(len[r] + size)
      freed == Released(r, len[r])
      rest == tree \ Run(Min(Fits(n)), n)
  IN
  /\ Live(r)
  /\ Extra(r, size) # 0
  /\ ~CanExtend(r, size)
  /\ Fits(n) # {}
  /\ CASE used = PageCount -> Panic(NoReferences)
       [] used # PageCount /\ freed \cap rest # {} -> Panic(Duplicated)
       [] OTHER -> /\ tree' = rest \cup freed
                   /\ SetStream(r, Min(Fits(n)), n, len[r] + size)
                   /\ UNCHANGED <<state, used>>

\* Every way of a claim that returns zero: no run of pages is long enough.
ClaimFails(r, size) ==
  /\ IF Live(r)
     THEN /\ Extra(r, size) # 0
          /\ ~CanExtend(r, size)
          /\ Fits(PagesFor(len[r] + size)) = {}
     ELSE Fits(PagesFor(size)) = {}
  /\ UNCHANGED <<state, tree, used, stream>>

peak_stream_claim(r, size) ==
  /\ state = "up"
  /\ \/ ClaimFresh(r, size)
     \/ ClaimTrivial(r, size)
     \/ ClaimExtend(r, size)
     \/ ClaimRelocate(r, size)
     \/ ClaimFails(r, size)
  /\ Note("claim", size % PageSize # 0)

\* Variants that keep the reference while pages are left, or forever.
PutIfEmptied(r, size) ==
  used' = IF len[r] = size /\ page_count[r] = ReleasedPages(r, size)
          THEN used - 1 ELSE used

PutNever(r, size) == used' = used

\* peak_stream_put(): the reference goes back with the last byte.
PutIfDone(r, size) == used' = IF len[r] = size THEN used - 1 ELSE used

\* peak_stream_release() of at most the bytes the stream has.
peak_stream_release(r, size) ==
  LET k == ReleasedPages(r, size) IN
  /\ state = "up"
  /\ Live(r)
  /\ size <= len[r]
  /\ IF Released(r, size) \cap tree # {}
     THEN Panic(Duplicated)
     ELSE /\ tree' = tree \cup Released(r, size)
          /\ PutIfDone(r, size)
          /\ IF len[r] = size
             THEN SetStream(r, 0, 0, 0)
             ELSE /\ page_no' = [page_no EXCEPT ![r] = @ + k]
                  /\ page_count' = [page_count EXCEPT ![r] = @ - k]
                  /\ off' = [off EXCEPT ![r] = (@ + size) - k * PageSize]
                  /\ len' = [len EXCEPT ![r] = @ - size]
          /\ UNCHANGED state
  /\ Note("release", size % PageSize # 0 /\ size # len[r])

\* peak_stream_exit() of a caller that has released all its streams.
peak_stream_exit ==
  /\ state = "up"
  /\ \A r \in Refs : ~Live(r)
  /\ IF used = 0 THEN state' = "down" ELSE state' = MissingChunks
  /\ UNCHANGED <<tree, used, stream, ragged>>

Next ==
  \/ \E r \in Refs, size \in ClaimSizes : peak_stream_claim(r, size)
  \/ \E r \in Refs, size \in ReleaseSizes : peak_stream_release(r, size)
  \/ peak_stream_exit
  \/ peak_stream_init

Spec == Init /\ [][Next]_vars
-----------------------------------------------------------------------------
(***************************************************************************)
(* No page is free and part of a stream, or part of two streams, whatever  *)
(* is claimed and released: two streams never share memory, and the panic  *)
(* of _peak_stream_release() is unreachable.                               *)
(***************************************************************************)
PagesOwnedOnce ==
  /\ state # Duplicated
  /\ \A r \in Refs : Owned(r) \subseteq Pages \ tree
  /\ \A r, q \in Refs : r # q => Owned(r) \cap Owned(q) = {}

(***************************************************************************)
(* The prealloc pool lends exactly one reference to every stream of the    *)
(* caller, so a caller that has released everything may destroy the pool:  *)
(* "missing chunks detected" is unreachable.                               *)
(***************************************************************************)
ReferencesExact ==
  /\ state # MissingChunks
  /\ used = Cardinality({r \in Refs : Live(r)})

(***************************************************************************)
(* A stream's bytes lie within its own pages.  A byte beyond them belongs  *)
(* to another stream or to a free page, whose magic it would trash.        *)
(***************************************************************************)
InBounds == \A r \in Refs : off[r] + len[r] <= page_count[r] * PageSize

(***************************************************************************)
(* InBounds, as long as every release has ended at the end of a page or of *)
(* the stream.  A claim computes its pages from len alone and takes for    *)
(* granted that buf is at the start of page page_no.                       *)
(***************************************************************************)
InBoundsByPage == "release" \notin ragged => InBounds

(***************************************************************************)
(* As long as claims and releases are of whole pages, no page is lost:     *)
(* every page is free or part of a stream, also across relocations, and a  *)
(* caller that has released everything gets all the pages back.            *)
(***************************************************************************)
NoPageLost ==
  state = "up" /\ ragged = {} =>
    tree \cup UNION {Owned(r) : r \in Refs} = Pages

(***************************************************************************)
(* There is a reference left whenever there is a page left, which is why   *)
(* peak_stream_get() takes a shortage for a leak and panics.  It holds     *)
(* while no live stream has given all its pages back.                      *)
(***************************************************************************)
NoReferencePanic == "release" \notin ragged => state # NoReferences

(***************************************************************************)
(* Growing a stream where it is leaves its first byte where it was; only a *)
(* relocation, which copies the data, may move it.  The code relies on     *)
(* releases that end with a page.                                          *)
(***************************************************************************)
GrowKeepsData ==
  [][\A r \in Refs :
       /\ "release" \notin ragged
       /\ Live(r) /\ len'[r] > len[r] /\ page_no'[r] = page_no[r]
       => off'[r] = off[r]]_vars

(***************************************************************************)
(* The pool suffices for careful callers: no page gets lost between tree   *)
(* and streams, and the references last as long as the pages.              *)
(***************************************************************************)
NothingLost == NoPageLost /\ NoReferencePanic
=============================================================================
