------------------------------- MODULE PeakJar -------------------------------
(***************************************************************************)
(* The circular data context buffer of lib/peak_jar.c.                     *)
(*                                                                         *)
(* One buffer holds two kinds of blocks: serial headers, each opening a    *)
(* set of data, and the data themselves.  Contexts outside of the buffer   *)
(* link their data, newest first.  Making room drops the oldest header and *)
(* with it the whole set; the contexts are not told.  They find out by     *)
(* comparing serial numbers, in peak_jar_repair(), before they use a link. *)
(*                                                                         *)
(* Blocks live in the memory they describe, so a block that is overwritten *)
(* while somebody still points at it is kept here with ok = FALSE, and the *)
(* program is "wild" once it follows such a pointer: what happens then is  *)
(* undefined and nothing is said about it.                                 *)
(*                                                                         *)
(* Positions and sizes are in units of the 8 bytes everything is aligned   *)
(* to.  peak_jar_pack() loops until it finds room, so its rounds are steps *)
(* of their own; the library is single-threaded, so nothing comes between. *)
(***************************************************************************)
EXTENDS Integers, Sequences, FiniteSets, SequencesExt

CONSTANTS
  Size,        \* self->size
  HeadSize,    \* sizeof(struct peak_jar_head)
  DataSize,    \* sizeof(struct peak_jar_data)
  HeadCount,   \* JAR_HEAD_COUNT
  SerialSize,  \* number of values of the unsigned int serials
  Contexts,    \* the callers' struct peak_jar
  Lens,        \* the lengths of the data packed, aligned
  Drops,       \* may callbacks answer JAR_DROP?
  MaxSerial    \* bound: headers created before the model stops packing

\* peak_jar_init() refuses less than 128 bytes.
ASSUME JarAssumption ==
  /\ Size \in Nat /\ Size >= 16 /\ HeadSize \in Nat \ {0} /\ DataSize \in Nat \ {0}
  /\ HeadCount \in Nat /\ SerialSize \in Nat \ {0, 1}
  /\ Lens \subseteq Nat /\ Drops \in BOOLEAN /\ MaxSerial \in Nat

VARIABLES
  state,         \* "ok" or "wild"
  write,         \* self->write
  read,          \* self->read
  heads,         \* self->heads, oldest first: [at, ok, serial, count, write]
  first_serial,  \* self->first_serial
  last_serial,   \* self->last_serial
  ctx,           \* per context: [datas, first_serial, last_serial]
  packing,       \* the running peak_jar_pack(): <<context, len>>, or <<>>
  known          \* history: the known ways to go astray that were taken

vars == <<state, write, read, heads, first_serial, last_serial, ctx, packing, known>>
serials == <<first_serial, last_serial>>

Serials == 0 .. SerialSize - 1
Uint(n) == n % SerialSize

\* wrap32(x): is the difference x of two serials a negative number?
Wrap32(x) == Uint(x) > (SerialSize - 1) \div 2

HeadType ==
  [at : 0 .. Size, ok : BOOLEAN, serial : Serials, count : 0 .. HeadCount + 1,
   write : 0 .. Size]

DataType ==
  [at : 0 .. Size, ok : BOOLEAN, len : Lens, serial : Serials,
   prev_serial : Serials]

TypeOK ==
  /\ state \in {"ok", "wild"}
  /\ write \in 0 .. Size - 1
  /\ read \in 0 .. Size - 1
  /\ \A n \in DOMAIN heads : heads[n] \in HeadType
  /\ first_serial \in Serials
  /\ last_serial \in Serials
  /\ \A c \in Contexts :
       /\ \A n \in DOMAIN ctx[c].datas : ctx[c].datas[n] \in DataType
       /\ ctx[c].first_serial \in Serials
       /\ ctx[c].last_serial \in Serials
  /\ packing \in {<<>>} \cup (Contexts \X Lens)
  /\ known \subseteq {"overtaken", "patched"}
-----------------------------------------------------------------------------
\* peak_jar_init() and JAR_INIT() of the contexts.
Init ==
  /\ state = "ok"
  /\ write = 0
  /\ read = 0
  /\ heads = <<>>
  /\ first_serial = 0
  /\ last_serial = 0
  /\ ctx = [c \in Contexts |->
              [datas |-> <<>>, first_serial |-> 0, last_serial |-> 0]]
  /\ packing = <<>>
  /\ known = {}

\* peak_jar_write(): does the request run into the end of the buffer?
Wraps(room) == write + room >= Size

\* The room it finds: up to the read position, which may be ahead or behind.
FreeRoom(room) ==
  IF Wraps(room) THEN read
  ELSE IF write >= read THEN (Size - write) + read
  ELSE read - write

\* A variant that fills the last unit too, so that full looks like empty.
GrantedFull(room) == room <= FreeRoom(room)

Granted(room) == room < FreeRoom(room)

\* Where it puts the block, and where it writes next.
Place(room) == IF Wraps(room) THEN 0 ELSE write
NewWrite(room) == Place(room) + room

\* The room that is granted wraps around past the read position, which is
\* ahead: all the sets in between are overwritten.
Overtakes(room) == Wraps(room) /\ write < read

\* Blocks that lie in the room that was granted are overwritten.
Overlaps(b, size, room) ==
  b.at < NewWrite(room) /\ Place(room) < b.at + size

HeadsAfter(room) ==
  [n \in DOMAIN heads |->
     [heads[n] EXCEPT !.ok = @ /\ ~Overlaps(heads[n], HeadSize, room)]]

DatasAfter(datas, room) ==
  [n \in DOMAIN datas |->
     [datas[n] EXCEPT !.ok = @ /\ ~Overlaps(datas[n], DataSize + datas[n].len, room)]]

\* Is the serial older than all the sets in the buffer?
Stale(serial) == Wrap32(serial - first_serial)

(***************************************************************************)
(* peak_jar_repair(): the context after it, with the blocks it looks into. *)
(* The loop re-inserts a block at the tail, which ends the block's own     *)
(* list: it keeps the second newest block at most, and never the newest.   *)
(***************************************************************************)
Gone(x) == heads = <<>> \/ Stale(x.last_serial)
Torn(x) == x.datas # <<>> /\ ~Gone(x) /\ Stale(x.first_serial)
HasSecond(x) == Len(x.datas) > 1 /\ ~Stale(x.datas[1].prev_serial)

RepairLooksInto(x) ==
  {x.datas[n] : n \in {m \in {1, 2} : Torn(x) /\ (m = 1 \/ HasSecond(x))}}

\* A variant that believes the newest serial whatever happened.
RepairTrusting(x) == x

Repair(x) ==
  CASE Torn(x) /\ HasSecond(x) ->
         [x EXCEPT !.datas = <<@[2]>>, !.first_serial = x.datas[2].serial]
    [] Torn(x) /\ ~HasSecond(x) ->
         [x EXCEPT !.datas = <<>>, !.first_serial = x.datas[1].serial]
    [] ~Torn(x) /\ Gone(x) -> [x EXCEPT !.datas = <<>>]
    [] OTHER -> x

\* Following a pointer to a block that is not there any more.
Dangling(S) == \E b \in S : ~b.ok

GoWild ==
  /\ state' = "wild"
  /\ UNCHANGED <<write, read, heads, serials, ctx, packing>>
-----------------------------------------------------------------------------
\* peak_jar_pack() is called.
peak_jar_pack(c, len) ==
  /\ state = "ok" /\ packing = <<>>
  /\ last_serial < MaxSerial
  /\ packing' = <<c, len>>
  /\ UNCHANGED <<state, write, read, heads, serials, ctx, known>>

\* do we need a new serial header?
NeedHead == ~(heads # <<>> /\ Last(heads).count <= HeadCount)

\* What a round asks peak_jar_write() for next.
Request == IF NeedHead THEN HeadSize ELSE DataSize + packing[2]

\* TAILQ_LAST() looks into the last two headers, a removal into the first two.
LastHeads ==
  {heads[n] : n \in {m \in DOMAIN heads : m >= Len(heads) - 1}}
FirstHeads == {heads[n] : n \in DOMAIN heads \cap {1, 2}}

\* A round of peak_jar_pack() that starts a new set.
PackHead ==
  /\ NeedHead
  /\ Granted(HeadSize)
  /\ heads' = Append(HeadsAfter(HeadSize),
                [at |-> Place(HeadSize), ok |-> TRUE, serial |-> last_serial,
                 count |-> 0, write |-> NewWrite(HeadSize)])
  /\ write' = NewWrite(HeadSize)
  /\ last_serial' = Uint(last_serial + 1)
  /\ ctx' = [c \in Contexts |->
               [ctx[c] EXCEPT !.datas = DatasAfter(@, HeadSize)]]
  /\ known' = known \cup {k \in {"overtaken"} : Overtakes(HeadSize)}
  /\ UNCHANGED <<state, read, first_serial, packing>>

\* A variant that does not invalidate the serial of the set it frees.
ReadKeepingSerial ==
  /\ heads' = Tail(heads)
  /\ read' = Head(heads).write
  /\ UNCHANGED first_serial

\* A variant that forgets to move the read position.
ReadStuck ==
  /\ heads' = Tail(heads)
  /\ first_serial' = Uint(first_serial + 1)
  /\ UNCHANGED read

\* peak_jar_read(): drop the oldest set.
FreeOldest ==
  /\ heads' = Tail(heads)
  /\ read' = Head(heads).write
  /\ first_serial' = Uint(first_serial + 1)

peak_jar_read ==
  IF heads = <<>> THEN UNCHANGED <<heads, read, first_serial>> ELSE FreeOldest

\* A round that finds no room, neither for a header nor for the data.
PackRead ==
  /\ ~Granted(Request)
  /\ peak_jar_read
  /\ UNCHANGED <<state, write, last_serial, ctx, packing, known>>

\* A variant that links the new data behind the old ones.
LinkLast(b, datas) == Append(datas, b)

\* TAILQ_INSERT_HEAD() into the context.
Link(b, datas) == <<b>> \o datas

(***************************************************************************)
(* The last round: the context is repaired, the data are written, and then *)
(* linked to the context, whose newest block is looked into.               *)
(***************************************************************************)
PackData ==
  LET c == packing[1]
      room == DataSize + packing[2]
      x == Repair(ctx[c])
      rest == DatasAfter(x.datas, room)
      serial == Last(heads).serial
      b == [at |-> Place(room), ok |-> TRUE, len |-> packing[2],
            serial |-> serial,
            prev_serial |-> IF rest = <<>> THEN 0 ELSE rest[1].serial]
  IN
  /\ ~NeedHead
  /\ Granted(room)
  /\ IF \/ Dangling(RepairLooksInto(ctx[c]))
        \/ rest # <<>> /\ ~rest[1].ok
        \/ Overlaps(Last(heads), HeadSize, room)
     THEN GoWild
     ELSE /\ write' = NewWrite(room)
          /\ heads' = [HeadsAfter(room) EXCEPT
                         ![Len(heads)].count = @ + 1,
                         ![Len(heads)].write = NewWrite(room)]
          /\ ctx' = [d \in Contexts |->
                       IF d # c
                       THEN [ctx[d] EXCEPT !.datas = DatasAfter(@, room)]
                       ELSE [datas |-> Link(b, rest),
                             first_serial |-> IF rest = <<>> THEN serial
                                              ELSE x.first_serial,
                             last_serial |-> serial]]
          /\ packing' = <<>>
          /\ UNCHANGED <<state, read, serials>>
  /\ known' = known \cup {k \in {"overtaken"} : Overtakes(room)}
                   \cup {k \in {"patched"} : Torn(ctx[c])}

\* A round whose look at the list of headers goes astray.
PackWild ==
  /\ \/ Dangling(LastHeads)
     \/ ~Granted(Request) /\ Dangling(FirstHeads)
  /\ GoWild
  /\ UNCHANGED known

\* peak_jar_pack_again
PackRound ==
  /\ state = "ok" /\ packing # <<>>
  /\ \/ PackWild
     \/ /\ ~Dangling(LastHeads)
        /\ \/ PackHead
           \/ ~Dangling(FirstHeads) /\ PackRead
           \/ PackData
-----------------------------------------------------------------------------
\* The list without the blocks at the positions in D.
Without(datas, D) ==
  LET kept == DOMAIN datas \ D
      keep == CHOOSE s \in [1 .. Cardinality(kept) -> kept] :
                \A m, n \in DOMAIN s : m < n => s[m] < s[n]
  IN  [n \in DOMAIN keep |-> datas[keep[n]]]

(***************************************************************************)
(* peak_jar_lifo() and peak_jar_fifo(): repair, then call back for the     *)
(* blocks at the positions in "seen", of which those in D are dropped.  A  *)
(* removal looks into the neighbours, and the reverse walk of fifo is one  *)
(* block ahead of the callback.                                            *)
(***************************************************************************)
Walk(c, seen, ahead, D) ==
  LET x == Repair(ctx[c])
      near == UNION {{n - 1, n + 1} : n \in D}
      looked == {x.datas[n] : n \in DOMAIN x.datas \cap (seen \cup ahead \cup near)}
  IN
  IF Dangling(RepairLooksInto(ctx[c]) \cup looked)
  THEN GoWild /\ UNCHANGED known
  ELSE /\ ctx' = [ctx EXCEPT ![c] = [x EXCEPT !.datas = Without(@, D)]]
       /\ known' = known \cup {k \in {"patched"} : Torn(ctx[c]) \/ D # {}}
       /\ UNCHANGED <<state, write, read, heads, serials, packing>>

\* The callback returns JAR_RETURN for the n-th block, or never if n is 0.
Droppable(seen, last) == IF Drops THEN SUBSET (seen \ {last}) ELSE {{}}

peak_jar_lifo(c) ==
  /\ state = "ok" /\ packing = <<>>
  /\ LET len == Len(Repair(ctx[c]).datas) IN
     \/ \E n \in 1 .. len : \E D \in Droppable(1 .. n, n) :
          Walk(c, 1 .. n, {}, D)
     \/ \E D \in Droppable(1 .. len, 0) : Walk(c, 1 .. len, {}, D)

peak_jar_fifo(c) ==
  /\ state = "ok" /\ packing = <<>>
  /\ LET len == Len(Repair(ctx[c]).datas) IN
     \/ \E n \in 1 .. len : \E D \in Droppable(n .. len, n) :
          Walk(c, n .. len, {n - 1}, D)
     \/ \E D \in Droppable(1 .. len, 0) : Walk(c, 1 .. len, {}, D)

Next ==
  \/ \E c \in Contexts, len \in Lens : peak_jar_pack(c, len)
  \/ PackRound
  \/ \E c \in Contexts : peak_jar_lifo(c) \/ peak_jar_fifo(c)

Spec == Init /\ [][Next]_vars

\* A peak_jar_pack() that has been called keeps running.
FairSpec == Spec /\ WF_vars(PackRound)
-----------------------------------------------------------------------------
(***************************************************************************)
(* The serials of the sets in the buffer are exactly the numbers from      *)
(* first_serial up to last_serial, in the order of the list: this is what  *)
(* lets peak_jar_repair() tell a freed set by one comparison.              *)
(***************************************************************************)
SerialsContiguous ==
  /\ Uint(last_serial - first_serial) = Len(heads)
  /\ \A n \in DOMAIN heads : heads[n].serial = Uint(first_serial + (n - 1))

\* Is the serial that of a set in the buffer?
Held(serial) == \E n \in DOMAIN heads : heads[n].serial = serial

(***************************************************************************)
(* No block of a set that has not been freed is ever overwritten: room is  *)
(* made by peak_jar_read() only, which frees the oldest set.  The known    *)
(* exception is peak_jar_write() wrapping around past the read position.   *)
(***************************************************************************)
HeldDataIntact ==
  state = "ok" /\ "overtaken" \notin known =>
    \A c \in Contexts : \A n \in DOMAIN ctx[c].datas :
      Held(ctx[c].datas[n].serial) => ctx[c].datas[n].ok

(***************************************************************************)
(* No pointer is followed to a block that has been overwritten: the        *)
(* serials stored alongside the pointers tell which of them are valid,     *)
(* unless held blocks were overwritten, or a context has lost some of its  *)
(* blocks, to peak_jar_repair() or to JAR_DROP: it keeps the serials that  *)
(* went with them.                                                         *)
(***************************************************************************)
NoStalePointer == known = {} => state = "ok"

(***************************************************************************)
(* A callback walk that finds the context intact shows it in order: the    *)
(* serials of the blocks that are still held never increase from the       *)
(* newest block to the oldest.                                             *)
(***************************************************************************)
Chronological ==
  \A c \in Contexts : \A m, n \in DOMAIN ctx[c].datas :
    LET a == ctx[c].datas[m]  b == ctx[c].datas[n] IN
    m < n /\ Held(a.serial) /\ Held(b.serial) => ~Wrap32(a.serial - b.serial)

(***************************************************************************)
(* peak_jar_pack() finds room in the end, freeing old sets as needed.      *)
(***************************************************************************)
PackReturns == packing # <<>> ~> (packing = <<>> \/ state = "wild")

(***************************************************************************)
(* The order of things survives every pack, repair and drop: that of the   *)
(* sets, by which freed ones are told, and that of a context's blocks.     *)
(***************************************************************************)
ListsOrdered == TypeOK /\ SerialsContiguous /\ Chronological
=============================================================================
