--------------------------- MODULE PeakStreamProbe ---------------------------
(***************************************************************************)
(* The page search of lib/peak_stream.c, one loop iteration per step:      *)
(* peak_stream_probe() counts consecutive free pages from a start page,    *)
(* __peak_stream_claim() drives it along the free list, jumping over the   *)
(* pages it has just counted, and peak_stream_unhook() takes the pages.    *)
(* __peak_stream_reclaim() probes once, at the page behind a stream.       *)
(*                                                                         *)
(* The free list is the in-order walk of a red-black tree of page indices: *)
(* RB_MIN, RB_NEXT and RB_FIND are the minimum, the successor and the      *)
(* membership of a set.  PageCount, no index of a page, stands for NULL.   *)
(***************************************************************************)
EXTENDS PeakPages, FiniteSetsExt

CONSTANT
  Requests  \* numbers of pages asked for; a reclaim may ask for fewer than 1

ASSUME RequestsAssumption == Requests \subseteq Int

VARIABLES
  before, \* the free pages when the function was called
  want,   \* page_count, the number of pages asked for
  start,  \* page asked for by a reclaim; -1 for a fresh claim
  pc,     \* "probe", "skip", "unhook" or "done"
  page,   \* the caller's page: base of the current probe
  next,   \* the probe's next page
  count,  \* the probe's count, then the caller's i
  ret     \* the page number returned, or STREAM_ERROR

searchVars == <<tree, before, want, start, pc, page, next, count, ret>>
caller == <<before, want, start>>

NULL == PageCount
STREAM_ERROR == -1

RB_NEXT(T, p) == Min({q \in T : q > p} \cup {NULL})
RB_MIN(T) == Min(T \cup {NULL})
RB_FIND(T, p) == IF p \in T THEN p ELSE NULL

SearchTypeOK ==
  /\ tree \subseteq Pages
  /\ before \subseteq Pages
  /\ want \in Requests
  /\ start \in -1 .. PageCount
  /\ pc \in {"probe", "skip", "unhook", "done"}
  /\ page \in Pages \cup {NULL}
  /\ next \in Pages \cup {NULL}
  /\ count \in 0 .. PageCount
  /\ ret \in Pages \cup {STREAM_ERROR, NULL}
-----------------------------------------------------------------------------
(***************************************************************************)
(* A fresh claim asks for one page or more and finds the tree not empty; a *)
(* reclaim never asks for none.                                            *)
(***************************************************************************)
SearchInit ==
  /\ tree \in SUBSET Pages
  /\ before = tree
  /\ want \in Requests \ {0}
  /\ start \in -1 .. PageCount
  /\ start = -1 => want > 0 /\ tree # {}
  /\ pc = "probe"
  /\ page = IF start = -1 THEN RB_MIN(tree) ELSE RB_FIND(tree, start)
  /\ next = page
  /\ count = 0
  /\ ret = STREAM_ERROR

\* A variant that does not look for holes.
ProbeStopsIgnoringHoles == next = NULL \/ count = want

\* The three ways out of the loop of peak_stream_probe().
ProbeStops == next = NULL \/ count = want \/ next # page + count

probe_step ==
  /\ pc = "probe"
  /\ ~ProbeStops
  /\ next' = RB_NEXT(tree, next)
  /\ count' = count + 1
  /\ UNCHANGED <<tree, caller, pc, page, ret>>

\* The probe returns to __peak_stream_reclaim().
probe_return_reclaim ==
  /\ pc = "probe"
  /\ ProbeStops
  /\ start # -1
  /\ IF want > count
     THEN pc' = "done" /\ ret' = STREAM_ERROR /\ UNCHANGED count
     ELSE pc' = "unhook" /\ ret' = start /\ count' = 0
  /\ UNCHANGED <<tree, caller, page, next>>

\* The probe returns to __peak_stream_claim().
probe_return_claim ==
  /\ pc = "probe"
  /\ ProbeStops
  /\ start = -1
  /\ IF want <= count
     THEN pc' = "unhook" /\ ret' = page /\ count' = 0
     ELSE pc' = "skip" /\ UNCHANGED <<count, ret>>
  /\ UNCHANGED <<tree, caller, page, next>>

\* A variant that forgets to move.
SkipNothing ==
  /\ pc = "skip"
  /\ count > 0
  /\ count' = count - 1
  /\ UNCHANGED <<tree, caller, pc, page, next, ret>>

\* One turn of the loop that moves past the pages just counted.
claim_skip ==
  /\ pc = "skip"
  /\ count > 0
  /\ page' = RB_NEXT(tree, page)
  /\ count' = count - 1
  /\ UNCHANGED <<tree, caller, pc, next, ret>>

\* A variant that resumes at the first page past the probed ones plus one.
ResumeLate ==
  /\ next' = RB_NEXT(tree, page)
  /\ page' = RB_NEXT(tree, page)

\* The next probe starts where the skipping ended.
Resume == next' = page /\ UNCHANGED page

claim_skipped ==
  /\ pc = "skip"
  /\ count = 0
  /\ IF page = NULL
     THEN pc' = "done" /\ UNCHANGED <<page, next>>
     ELSE pc' = "probe" /\ Resume
  /\ UNCHANGED <<tree, caller, count, ret>>

MoreToUnhook == count < want

\* peak_stream_unhook(), page by page; count is its i.
unhook_step ==
  /\ pc = "unhook"
  /\ MoreToUnhook
  /\ tree' = tree \ {page}
  /\ page' = RB_NEXT(tree, page)
  /\ count' = count + 1
  /\ UNCHANGED <<caller, pc, next, ret>>

unhook_return ==
  /\ pc = "unhook"
  /\ ~MoreToUnhook
  /\ pc' = "done"
  /\ UNCHANGED <<tree, caller, page, next, count, ret>>

\* The claim has returned.
returned == pc = "done" /\ UNCHANGED searchVars

SearchNext ==
  \/ probe_step
  \/ probe_return_reclaim
  \/ probe_return_claim
  \/ claim_skip
  \/ claim_skipped
  \/ unhook_step
  \/ unhook_return
  \/ returned

SearchSpec == SearchInit /\ [][SearchNext]_searchVars

FairSearchSpec == SearchSpec /\ WF_searchVars(SearchNext)
-----------------------------------------------------------------------------
\* The pages that start a run of n free pages.
FitsIn(T, n) == {p \in T : Run(p, n) \subseteq T}

\* What a claim or a reclaim has to answer: first fit, or the page asked for.
Answer ==
  IF start = -1
  THEN IF FitsIn(before, want) = {} THEN STREAM_ERROR ELSE Min(FitsIn(before, want))
  ELSE IF Run(start, want) \subseteq before THEN start ELSE STREAM_ERROR

(***************************************************************************)
(* However the free pages are scattered, the search ends with the first    *)
(* run that fits, fails only when there is none, and takes exactly the     *)
(* pages of that run from the tree.                                        *)
(***************************************************************************)
SearchIsFirstFit ==
  pc = "done" =>
    /\ ret = Answer
    /\ tree = IF ret = STREAM_ERROR THEN before ELSE before \ Run(ret, want)

(***************************************************************************)
(* While the search goes on, no run that fits starts before the page it    *)
(* probes next: the jump over the pages just counted misses nothing.       *)
(***************************************************************************)
NothingMissed ==
  start = -1 /\ pc \in {"probe", "skip"}
    => \A p \in FitsIn(tree, want) : p >= IF pc = "skip" THEN page + count ELSE page

\* The search ends: every round moves the page forward, or gives up.
SearchEnds == <>(pc = "done")

(***************************************************************************)
(* The search is first fit at its end and on the way there: nothing that   *)
(* fits lies behind it, and what it takes is what it found.                *)
(***************************************************************************)
SearchSound == SearchTypeOK /\ NothingMissed /\ SearchIsFirstFit
=============================================================================
