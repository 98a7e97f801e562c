------------------------------- MODULE PeakGeo -------------------------------
(***************************************************************************)
(* The geolocation database: geoconv (bin/geoconv/geoconv.y) reads CSV     *)
(* lines into a red-black tree and writes them, sorted, to a binary file;  *)
(* peak_locate_init() of lib/peak_locate.c loads such a file and           *)
(* peak_locate_get() searches it.                                          *)
(*                                                                         *)
(* The two are different processes and nothing keeps them apart, so the    *)
(* reader reads record by record while the writer may still be at work, or *)
(* dead.  Addresses are compared with memcmp(): they are numbers here.     *)
(***************************************************************************)
EXTENDS PeakTree

CONSTANTS
  Entries,   \* the lines of the input: [min, max, location]
  PoolSize,  \* the chunks preallocated for them, 150000 in the code
  Addresses  \* the addresses looked up

ASSUME GeoAssumption ==
  /\ PoolSize \in Nat \ {0}
  /\ Addresses \subseteq Nat
  /\ \A e \in Entries : {e.min, e.max} \subseteq Addresses /\ e.location \in Nat
  /\ \A e \in Entries : e.min <= e.max    \* geoconv itself does not look

VARIABLES
  phase,   \* of geoconv: "parse", "write", or how it ended
  geo,     \* geo_head and the links of the chunks
  data,    \* per chunk: the entry in it, or NoEntry
  free,    \* the free list of geo_mem
  used,    \* its number of chunks in use
  elm,     \* the element that RB_FOREACH() is at, in finalise()
  file,    \* <<>>, or <<the file>>: [revision, count, entries]
  reader   \* [state, count, mem], the peak_locates of the other process

vars == <<phase, geo, data, free, used, elm, file, reader>>
geoVars == <<phase, geo, data, free, used, elm>>

Chunks == 1 .. PoolSize
NoEntry == [min |-> 0, max |-> 0, location |-> 0]

LOCATE_UNKNOWN == 0
LOCATE_XX == -1        \* "undefined", a value of its own in the code
LOCATE_REVISION == 1
NoHeader == -1         \* the header has not been written as a whole

TypeOK ==
  /\ phase \in {"parse", "write", "done", "exit", "panic"}
  /\ data \in [Chunks -> Entries \cup {NoEntry}]
  /\ free \in Seq(Chunks) /\ used \in 0 .. PoolSize
  /\ used = PoolSize - Len(free)
  /\ elm \in Chunks \cup {NULL}
  /\ reader.state \in {"off", "reading", "on"}
-----------------------------------------------------------------------------
\* A file that a geoconv of another revision has left behind.
Foreign == [revision |-> 0, count |-> 1,
            entries |-> <<[min |-> 1, max |-> 1, location |-> 99]>>]

Init ==
  /\ phase = "parse"
  /\ geo = RB_INIT(Chunks)
  /\ data = [c \in Chunks |-> NoEntry]
  /\ free = [c \in Chunks |-> c]
  /\ used = 0
  /\ elm = NULL
  /\ file \in {<<>>, <<Foreign>>}
  /\ reader = [state |-> "off", count |-> 0, mem |-> <<>>]

\* Ranges that overlap are equal, whichever way they overlap.
peak_locate_cmp(x, y) ==
  IF x.max < y.min THEN -1 ELSE IF x.min > y.max THEN 1 ELSE 0

\* locatecmp() of an entry with those in the chunks.
locatecmp(e) == [c \in Chunks |-> peak_locate_cmp(e, data[c])]

\* exit(1), whatever it is that failed.
Exit ==
  /\ phase' = "exit"
  /\ UNCHANGED <<geo, data, free, used, elm, file, reader>>

\* A line with a known location, for which a chunk is left.
Entry(e) ==
  /\ free # <<>>
  /\ LET c == Head(free) IN
     /\ free' = Tail(free)
     /\ used' = used + 1
     /\ data' = [data EXCEPT ![c] = e]
     /\ IF RB_FIND(geo, locatecmp(e)) # NULL
        THEN phase' = "exit" /\ UNCHANGED geo      \* found duplicated entry
        ELSE /\ \E t \in {RB_INSERT(geo, c, locatecmp(e))} : geo' = t
             /\ UNCHANGED phase
     /\ UNCHANGED <<elm, file, reader>>

\* A line of an input file: entry of the grammar.
Line(e) ==
  /\ phase = "parse"
  /\ e.location # LOCATE_UNKNOWN
  /\ \/ Entry(e)
     \/ free = <<>> /\ Exit               \* too many entries

\* yyerror()
SyntaxError == phase = "parse" /\ Exit

\* The next file cannot be opened, and the pool goes with what is in it.
OpenFails ==
  /\ phase = "parse"
  /\ phase' = IF used = 0 THEN "exit" ELSE "panic"
  /\ UNCHANGED <<geo, data, free, used, elm, file, reader>>

\* finalise() without any entry: no output, and an empty pool.
FinaliseEmpty ==
  /\ phase = "parse"
  /\ geo.root = NULL
  /\ phase' = "done"
  /\ UNCHANGED <<geo, data, free, used, elm, file, reader>>

\* finalise(): open() truncates the file, the header is written or not.
Finalise(ok) ==
  /\ phase = "parse"
  /\ geo.root # NULL
  /\ file' = <<[revision |-> LOCATE_REVISION,
                count |-> IF ok THEN used ELSE NoHeader, entries |-> <<>>]>>
  /\ phase' = IF ok THEN "write" ELSE "exit"
  /\ elm' = IF ok THEN RB_MINMAX(geo, "left") ELSE NULL
  /\ UNCHANGED <<geo, data, free, used, reader>>

\* A variant that wipes what it frees.
PutWiped(t, c, next) ==
  [t EXCEPT !.link["left"][c] = next, !.link["right"][c] = NULL]

\* The link of the free list is the first word of a chunk: rbe_left.
PutOver(t, c, next) == [t EXCEPT !.link["left"][c] = next]

\* prealloc_used() after prealloc_put()
UsedLess == used - 1

\* A turn of the loop: one entry is written, freed, and then stepped over.
WriteEntry ==
  /\ phase = "write" /\ elm # NULL
  /\ file' = <<[file[1] EXCEPT !.entries = Append(@, data[elm])]>>
  /\ free' = <<elm>> \o free
  /\ used' = UsedLess
  /\ \E t \in {PutOver(geo, elm, IF free = <<>> THEN NULL ELSE Head(free))} :
       /\ geo' = t
       /\ elm' = RB_STEP(t, "right", elm)
  /\ UNCHANGED <<phase, data, reader>>

\* write() fails; what is in the file stays there.
WriteFails == phase = "write" /\ elm # NULL /\ Exit

\* close(), and prealloc_exit() looks for missing chunks.
Close ==
  /\ phase = "write" /\ elm = NULL
  /\ phase' = IF used = 0 THEN "done" ELSE "panic"
  /\ UNCHANGED <<geo, data, free, used, elm, file, reader>>

Geoconv ==
  \/ \E e \in Entries : Line(e)
  \/ SyntaxError
  \/ OpenFails
  \/ FinaliseEmpty
  \/ \E ok \in BOOLEAN : Finalise(ok)
  \/ WriteEntry
  \/ WriteFails
  \/ Close
-----------------------------------------------------------------------------
\* The header passes all checks; an empty database is as good as none.
HeaderGood(f) == f.revision = LOCATE_REVISION /\ f.count > 0

\* peak_locate_init() up to the header; without a file there are no answers.
peak_locate_init(mem) ==
  /\ reader.state = "off"
  /\ reader' =
       IF file # <<>> /\ HeaderGood(file[1]) /\ mem
       THEN [state |-> "reading", count |-> file[1].count, mem |-> <<>>]
       ELSE [state |-> "on", count |-> 0, mem |-> <<>>]
  /\ UNCHANGED <<geoVars, file>>

\* A variant that keeps what it has got so far.
KeepPart(r) == [state |-> "on", count |-> Len(r.mem), mem |-> r.mem]

\* file not complete: it is as if there were no file.
GiveUp(r) == [state |-> "on", count |-> 0, mem |-> <<>>]

\* One turn of its loop, and the end of it.
ReadEntry ==
  /\ reader.state = "reading"
  /\ reader' =
       IF Len(reader.mem) = reader.count THEN [reader EXCEPT !.state = "on"]
       ELSE IF Len(file[1].entries) > Len(reader.mem)
       THEN [reader EXCEPT !.mem = Append(@, file[1].entries[Len(@) + 1])]
       ELSE GiveUp(reader)
  /\ UNCHANGED <<geoVars, file>>

\* peak_locate_exit()
peak_locate_exit ==
  /\ reader.state = "on"
  /\ reader' = [state |-> "off", count |-> 0, mem |-> <<>>]
  /\ UNCHANGED <<geoVars, file>>

Reader == (\E mem \in BOOLEAN : peak_locate_init(mem)) \/ ReadEntry \/ peak_locate_exit

RECURSIVE bsearch(_, _, _, _)

\* bsearch(3) among the entries l + 1 to u: the index of a match, or 0.
bsearch(mem, ref, l, u) ==
  IF l >= u THEN 0
  ELSE LET i == (l + u) \div 2
           comp == peak_locate_cmp(ref, mem[i + 1])
       IN  IF comp = 0 THEN i + 1
           ELSE IF comp < 0 THEN bsearch(mem, ref, l, i)
           ELSE bsearch(mem, ref, i + 1, u)

peak_locate_get(a) ==
  IF reader.count = 0 THEN LOCATE_UNKNOWN
  ELSE LET n == bsearch(reader.mem, [min |-> a, max |-> a], 0, reader.count)
       IN  IF n = 0 THEN LOCATE_XX ELSE reader.mem[n].location

Next == Geoconv \/ Reader

\* Both processes keep going until they are through with what they began.
Spec ==
  Init /\ [][Next]_vars /\ WF_vars(WriteEntry \/ Close) /\ WF_vars(ReadEntry)
-----------------------------------------------------------------------------
\* The chunks that were taken for entries, and what is in them.
Taken == {c \in Chunks : data[c] # NoEntry}
Accepted == {data[c] : c \in Taken}

(***************************************************************************)
(* As long as lines are read the tree is a red-black tree of the chunks in *)
(* use, in which every way down is the way the comparison goes: each       *)
(* element is found where it is, and walking to either side with RB_NEXT() *)
(* and RB_PREV() shows the ranges in order, none of which overlap.         *)
(***************************************************************************)
TreeSorted ==
  phase = "parse" =>
    /\ RedBlack(geo, Taken)
    /\ \E up \in {RB_FOREACH(geo, "right")} :
         /\ up = InOrder(geo, geo.root)
         /\ Reverse(up) = RB_FOREACH(geo, "left")
         /\ \A m, n \in DOMAIN up : m < n => data[up[m]].max < data[up[n]].min

\* Looking for address a, with one of the searches.
At(a) == locatecmp([min |-> a, max |-> a, location |-> 0])

(***************************************************************************)
(* RB_FIND() finds the range an address is in, and RB_NFIND() the first    *)
(* range that ends at or behind it, however the tree came about.           *)
(***************************************************************************)
SearchExact ==
  phase = "parse" =>
    \A a \in Addresses :
      LET behind == {c \in Taken : data[c].max >= a}
          first == {c \in behind : \A d \in behind : data[c].max <= data[d].max}
      IN  /\ {RB_NFIND(geo, At(a))} = IF behind = {} THEN {NULL} ELSE first
          /\ RB_FIND(geo, At(a)) =
               IF \E c \in first : data[c].min <= a THEN RB_NFIND(geo, At(a)) ELSE NULL

\* t, a tree of S, and all that becomes of it by up to k removals.
RECURSIVE Shrinks(_, _, _)
Shrinks(t, S, k) ==
  /\ RedBlack(t, S)
  /\ k > 0 => \A c \in S : \A u \in {RB_REMOVE(t, c)} : Shrinks(u, S \ {c}, k - 1)

\* Bound: the removals that follow each other.
MaxRemovals == 3

(***************************************************************************)
(* RB_REMOVE(), which the trees of flows and of streams rely on: whatever  *)
(* is removed in whatever order, the rest is a red-black tree.             *)
(***************************************************************************)
RemovalSafe ==
  phase = "parse" => Shrinks(geo, Taken, MaxRemovals)

(***************************************************************************)
(* Freeing the elements under the walk that writes them, "normally unsafe",*)
(* does no harm: when geoconv is done the file has the number of entries   *)
(* its header promises, each of them once and in the order of the tree,    *)
(* and no chunk is missing.  The one way to a panic is an input file that  *)
(* cannot be opened after another has been read.                           *)
(***************************************************************************)
FileComplete ==
  /\ phase = "done" /\ geo.root # NULL =>
       /\ file[1].count = Cardinality(Taken)
       /\ Len(file[1].entries) = file[1].count
       /\ ToSet(file[1].entries) = Accepted
       /\ \A m, n \in DOMAIN file[1].entries :
            m < n => file[1].entries[m].max < file[1].entries[n].min
  /\ phase = "panic" => file = <<>> \/ file[1].revision # LOCATE_REVISION

(***************************************************************************)
(* A lookup tells the location of the range the address is in and          *)
(* "undefined" if there is none; and it answers "unknown" to everything    *)
(* when the file was not there, foreign, empty or cut short at any point,  *)
(* also because it was being written.                                      *)
(***************************************************************************)
LookupSound ==
  reader.state = "on" /\ reader.count # 0 =>
    \A a \in Addresses :
      peak_locate_get(a) \in
        IF \E e \in Accepted : e.min <= a /\ a <= e.max
        THEN {e.location : e \in {f \in Accepted : f.min <= a /\ a <= f.max}}
        ELSE {LOCATE_XX}

(***************************************************************************)
(* finalise() ends: the links it has freed never send the walk in circles. *)
(***************************************************************************)
WriteEnds == phase = "write" ~> phase \in {"done", "exit"}

(***************************************************************************)
(* However it was built, the tree is a red-black tree that searches and    *)
(* walks in order, and would stay one under any removals.                  *)
(***************************************************************************)
TreeSound == TypeOK /\ TreeSorted /\ SearchExact /\ RemovalSafe
=============================================================================
