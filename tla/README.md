# A verification project for libpeak

libpeak is a C library for network packet inspection: flow tracking, memory
pools, application detection, capture files, netmap I/O and a handful of tools
on top.  This directory holds TLA+ models of its stateful parts, the TLC
configurations that check them on small instances, and TLAPS proofs of the
results that hold for every instance.  Paths below are relative to the
repository (`src/`).

Contents: 1 inventory, 2 plan, 3 modules and how they correspond to the code,
4 runs and bounds, 5 fairness, 6 proofs, 7 where the code and its documents
disagree, 8 what is not modelled.

## 1. Inventory

### Components with state

| component | state | operations | works with |
|---|---|---|---|
| `include/peak_sys.h` barrier | mutex, condition, `threads` (registered minus one, starts at `0U - 1U`), `count` (blocked) | init, exit, join, leave, wait, wake | any number of threads call it |
| `lib/peak_stream.c` | pages of one block, red-black tree of the free ones, pool of stream references; per stream first page, page count, buffer, length | init, exit, claim (fresh, trivial, in place, relocation), release | `peak_prealloc.h`, `sys/tree.h` |
| `lib/peak_track.c` | pool of chunks, tree by key, queue by use; process-wide `next_flow_id` | init, exit, acquire | `peak_prealloc.h`, `peak_audit.c`; callers write into the flow (`bin/peek`) |
| `lib/peak_audit.c` | thread-local counters, process-wide export | get, set, add, inc, sync | every thread; called by the tracker |
| `lib/peak_jar.c` | circular buffer with write and read position, list of serial headers, two serials; per context a list of blocks and two serials | init, exit, pack, fifo, lifo; repair on every use | callbacks answer keep, drop or return |
| `include/peak_prealloc.h` | free list, `used` | init, exit, get, put | pools of tracker and streams |
| `lib/peak_netmap.c` | table of devices, lock, claimed packet, rings shared with the kernel | attach, detach, recv, send, forward, drop, lock, unlock | kernel; `bin/netfuse` |
| `include/peak_page.h` | sorted list of pages of elements | find, insert with split, collapse | `lib/peak_string.c` |
| `lib/peak_string.c`, `lib/peak_number.c`, `lib/peak_regex.c` | trie of literal, case-insensitive and wildcard edges; lists of comparisons and expressions | init, exit, add, find | `peak_stash.h` collects results |
| `include/peak_timeslice.h` | three monotonic clocks with offsets to the wall clock | calibrate, advance | timestamps of `peak_load.c` and `peak_netmap.c` |
| `include/peak_token.h` | balance, timestamp, reference count | init, exit, credit, inc, dec | threads, each with its time slice |
| `lib/peak_packet.c` | a parsed packet | parse, layer by layer | drop counters of `peak_audit.c` |
| `lib/peak_li.c` | table of applications | get, test, merge, name, number | `bin/peek`: two labels per flow |
| `bin/peek` | trace, tracker, counters | one round per packet | loads, parses, tracks, inspects |
| `lib/peak_load.c`, `lib/peak_store.c` | file position, format, buffer with the current packet | init, exit, packet | capture files |
| `bin/flowsplit` | trace, tracker, output files | one round per packet | loads, parses, tracks, stores |
| `sys/tree.h` | links and colours of a red-black tree | insert, remove, find, nfind, next, prev | tracker, streams, `geoconv` |
| `bin/geoconv`, `lib/peak_locate.c` | tree in a pool of chunks; database file; loaded table | read lines, finalise; load, look up | one process writes what another loads |

### Where it is hard

* *Interleaving.*  Barrier calls of several threads; trackers of several
  threads that share the id counter and the exported statistics; syncs of the
  statistics, which are an atomic add and a separate wipe per field; a thread
  that configures netmap devices beside one that receives, with the kernel at
  work on the rings of both.
* *Scheduling.*  The barrier relies on the last arrival to wake the others;
  `pthread_cond_wait()` may return without being woken.
* *Long legal sequences.*  Streams are claimed, grown, relocated and shrunk
  by any number of bytes; each operation does its own page arithmetic.
* *Stale pointers by design.*  A jar reuses memory without telling the
  contexts that point into it; two serials per context decide whether a
  pointer may be followed.
* *Unreliable input.*  Lengths and offsets of packets and capture files are
  taken from the input; files may be cut off anywhere, writes may fail half
  way, a database may be loaded while it is written.
* *Time that leaps.*  Timestamps come from packets and go anywhere; threads
  meet at one token bucket with time slices of different age.
* *Limits.*  Full pools (recycle, refuse, panic), full buffers, counters and
  serials that wrap around.

`PROJECT.json` lists each hazard at its line with the properties that are
aimed at it.

### What makes each modelled component correct

* **Barrier**: its counters are the numbers of blocked and of registered
  threads; one thread at most serialises, alone; blocked threads run again.
* **Streams**: no page has two owners; no page and no reference is lost;
  a stream's bytes lie on its pages; growing in place keeps the data in place;
  the search for pages is first fit and ends.
* **Tracker**: pool, tree and queue agree; one flow per conversation; memory of
  a flow is private; ids are unique; it is a least-recently-used table.
* **Audit**: nothing is lost or counted twice at any point of any sync.
* **Jar**: sets in the buffer carry contiguous serials; their data is not
  overwritten; stale pointers are not followed; contexts are in order; packing
  ends.
* **Netmap**: table and descriptors agree; a claimed packet stays valid until
  it is released; every packet gets out once and as decided; no device with a
  packet is passed over for long.
* **Parser and inspection**: layers nest; the parser returns; a label depends
  neither on the direction nor on memory behind the payload; get, test, name
  and number agree; a flow's label is never taken back.
* **Red-black trees and geolocation**: every insertion and removal leaves a
  red-black search tree; the walk that frees what it writes ends with a
  complete file; lookups answer from complete databases only.
* **Rules**: paged lists stay sorted; what was accepted stays; searches report
  what the rules mean.
* **Clock and buckets**: clocks never go back and drift by a unit per leap at
  most; threads get no more tokens than time allows for.
* **Capture files**: what can be read is stored once and reads back; the
  packets of a connection share a file; every readable file ends.

## 2. Plan

Order, most important behaviour first:

1. `PeakBarrier`, `PeakStream` (with proofs), `PeakStreamProbe`, `PeakAudit`,
   `PeakTrack` over `PeakTrackLRU`, `PeakJar`, `PeakNetmap`: done.
2. `PeakPacket`, `PeakLi`, `PeakPeek`: from a frame to the label of a flow:
   done.
3. Data structures against a reference: `PeakTree` with `PeakGeo`, `PeakPage`,
   `PeakString` and `PeakRules`: done.
4. Clocks and rates: `PeakClock`, `PeakToken`: done.
5. Capture files: `PeakLoad`, `PeakFlowsplit`, with writes that fail half way:
   done.
6. Theorems about barrier, streams, page search, statistics, tracker with its
   refinement, netmap, jar, clock and bucket, parser and labels, capture files
   and what is split from them: done (section 6).
7. `netfuse` on top of `PeakNetmap`; the broken-down times of `peak_timeslice`.

Compositions: `PeakTrack` extends `PeakAudit` (an acquire counts in the same
step); `PeakStreamProbe` justifies the first fit that `PeakStream` uses;
`PeakPeek` puts parser, tracker and inspection together; `PeakToken` runs threads on
`PeakClock`; `PeakFlowsplit` reads and writes with `PeakLoad`; `PeakGeo` is a
writer and a reader of one file.

What is out of the prover's reach is named at the end of section 6.

## 3. Modules and code

### PeakBarrier (`include/peak_sys.h`)

The threads, here and in `PeakToken`, are the constant of `PeakThreads`.  Every
function holds `barrier->mutex` from its first to its last statement, so
each is one action; `barrier_wait()` is two because `pthread_cond_wait()` gives
the mutex up.  `pc` says where each thread is; `ret` is what `barrier_wait()`
returned last; counters are taken modulo `UintSize`.  Calls of join and leave
that return one change nothing and are no step of their own.  Spurious wakeups are
an action (`pthread_cond_wait_spurious`, external) that any blocked thread may
take; the history variable `stray` records that one happened.

### PeakStream and PeakStreamProbe (`lib/peak_stream.c`)

`PeakPages` has the pool's pages and its tree, which both modules use.
`PeakStream` is the pool at the grain of its functions (it has no lock and one
user).  The tree is the set of free pages; a stream is `page_no`, `page_count`,
`off` (how far `data.buf` is from the start of the first page) and `len`; a
reference is NULL when `len` is zero.  The three ways of a claim and the
relocation are one disjunct each, with the panics of the code as states the
program never leaves.  Page contents are left out.  The history variable
`ragged` remembers whether a claim asked for a part of a page and whether a
release ended inside a page of a stream that lives on: several promises only
hold for callers that avoid one or both.

`PeakStreamProbe` is the search page by page: `peak_stream_probe()` one
iteration per step, for claim (retry behind the hole) and reclaim (one try at
a given page), then `peak_stream_unhook()`.  It starts from every set of free
pages.  `SearchIsFirstFit` is what `PeakStream` uses as `Fits`.

### PeakAudit (`lib/peak_audit.c`)

A thread's counters, the export, and a sync that walks the fields in two steps
each: the atomic add and the wipe.  `counted` is what was ever counted.

### PeakTrack and PeakTrackLRU (`lib/peak_track.c`)

One tracker per thread, as `peak_track(3)` recommends, over the audit module.
The free list of `peak_prealloc.h` is a stack of chunks, the red-black tree the
set of chunks in it, the queue a sequence.  An acquire is a hit, a failure, a
fresh chunk or a recycled one.  `Classify` is the label `bin/peek` leaves in
the flow.  `PeakTrackLRU` says what a tracker promises: a sequence of flows
per instance ordered by use, of which only the oldest may be forgotten, and
only to make room; `ImplementsLRU` is the refinement.

### PeakJar (`lib/peak_jar.c`)

Positions and sizes in units of the eight bytes everything is aligned to, with
the header sizes of a 64-bit build.  `peak_jar_pack()` retries in a loop, so
each of its rounds is a step: it creates a header, frees the oldest set, or
writes and links the data.  `peak_jar_repair()` is a function on a context
together with the set of blocks it looks into; a walk (`fifo`, `lifo`) repairs
and then drops any subset of what it shows to the callback.  Blocks live in
the memory they describe: one that is overwritten is kept with `ok = FALSE`,
and following a pointer to it makes the state `"wild"`, after which anything
could happen and nothing is said.  The history variable `known` records the
two known ways to get there (section 7): a write that overtook the read
position a second time, and a list patched by a drop or by a repair that lost
a block.

### PeakNetmap (`lib/peak_netmap.c`)

`dev`, `fd` and `last` are the table (positions count from one), `priv` is the
claimed packet of the one receiving thread, `locked` the mutex between its
`peak_netmap_lock()` and `peak_netmap_unlock()`.  Attach and detach take the
mutex for their whole length and are one action each; those that fail change
nothing.  `peak_netmap_recv()` holds no mutex of its own and sleeps in the
kernel, so it is a claim (`recv_any`, `recv_from`) or a poll, which ends in a
timeout or in `recv_polled`.  A ring has its slots with the packet in each
buffer and the forward flag, `cur` (`head` is always equal), `tail`, and `hw`,
up to where the kernel has taken slots back.  The kernel is external: it takes
back RX slots on entry of a `poll()`, receives during it, and transmits from
the `NIOCTXSYNC` of a send on.  Forward flags are left alone by the kernel,
the less favourable case: the code clears them itself.

The callers modelled hold the lock while they receive and release their packet
before they unlock, as `bin/netfuse` does.  Nothing in the code keeps a caller
from unlocking with a packet claimed; a detach then unmaps its ring.  A
second receiving thread is not modelled: `netmap_priv` is thread-local, but
the rings and `last` are shared without a lock.  A host-mode send looks at the
ring behind the last one of whatever device it finds, a pipe's master too; the
model has a TX host ring there, and leaves it to the kernel what becomes of
packets in it.  The panic of `___peak_netmap_recv()` about a slot with buffer 0
or 1 is left out: these are the kernel's own and in no ring.

The filter of timestamps in `___peak_netmap_recv()` is in `PeakClock`.

### PeakPacket, PeakLi and PeakPeek (`lib/peak_packet.c`, `lib/peak_li.c`, `bin/peek`)

A frame is a record of the header fields the parser looks at; `PeakPacket` is
`peak_packet_parse()` with all its layers, lengths in the width they have in
the code, and a third outcome, `"endless"`, beside success and a counted drop.
A transport header read at another place than where it is reads as the
frame's `stray` header.  In `PeakLi` every signature is a predicate of the
name it has in the code; a payload is its length, the first word for text
protocols, the bytes at offsets, and one byte that stands for what lies behind
it.  `IsFrame` says what the inputs are: fields that fit into their bits,
payloads whose words are their first bytes, and IPv6 packets of which the walk
over the headers sees no more than `MaxHeaders` rounds can pass; every such
trace is an input of the proofs.  `apps` is the table in its order, `Labels` the enumeration.  `PeakPeek` is the
loop of the tool: one action per way a packet may go (skipped, shown, tracker
full, parser endless), with the tracker as `PeakTrackLRU` specifies it and
`TRACK_KEY()` from `PeakTrackKey`.

### PeakTree and PeakGeo (`sys/tree.h`, `bin/geoconv`, `lib/peak_locate.c`)

`PeakTree` has the links, parents and colours of every node, so that it shows
what operations leave behind in memory; cases that the macros spell out for
both sides are one case with the side as a parameter.  `PeakGeo` is two
processes: `geoconv` inserts lines in any order, then `finalise()` writes
element by element and gives each back to the pool, which writes the free list
over the `left` link of an element the walk has just left; every step may
fail or be the last.  The other process loads the file record by record, at
any time.

### PeakPage, PeakString and PeakRules (`include/peak_page.h`, `lib/peak_string.c`, `lib/peak_number.c`, `lib/peak_regex.c`)

A paged list is a sequence of pages, a node of the trie is a value with its
pages in it.  `peak_string_add()` may run out of memory at any depth and leaves
the nodes above behind.  Searches change nothing: they are operators, recursive
as in the code, compared with a definition of matching in `PeakRules`.
`peak_number_get()` is what `strtoll()` does with white space, sign, digits and
numbers out of the range of a `long long` (`NumberMax`); what it should make of a
text is defined once more, by stretches of digits and powers of ten
(`NumberOf`), for the property.  What pcre compiles and matches is a constant.  Exits free a whole set of rules, and
a new one is made at once.  The three interfaces share nothing, so a behaviour
adds rules to one of them (`uses`).

### PeakClock and PeakToken (`include/peak_timeslice.h`, `include/peak_token.h`)

`PeakClock` takes any next timestamp, from a file as `bin/peek` does
(`FromFile`) or through netmap's filter, with a program outside of the
repository that passes it on (`FromNetmap`), and recalibrates the three offsets
each in its own unit.  In `PeakToken`
threads begin their time slices when they like and take their `mono_msec` to
one bucket, under its lock: one action per call.  A bucket made with a rate of 0
grants everything and counts nothing (`Whatever`).  History variables count
what was earned and spent.

### PeakLoad and PeakFlowsplit (`lib/peak_load.c`, `lib/peak_store.c`, `bin/flowsplit`)

A file is a sequence of cells: headers, with the fields the code reads, and
bytes, which know their packet.  `PeakLoad` detects the format and reads a
packet in each of them; the buffer keeps what the last packet left.  In
`PeakFlowsplit` the input is what a capture tool has written (`Whole`), cut off
anywhere behind its header; a store may write any part of its record.  Outputs
are read again by `PeakLoad` itself.  Every packet has two lengths, as captured
and on the wire, either of which may be beyond the buffer; what is stored of a
length beyond it is memory behind the buffer (`Memory`, `Foreign`).  `IsInput`
says what a capture tool writes: lengths the headers can tell, and IP packets of
which the headers were captured.  A PCAP packet cut within its headers is one
that does not parse; in the other formats, which report the length on the wire,
the parser would go on with bytes of an earlier packet, and such packets are not
among the inputs.  Neither are packet blocks shorter than their own headers, of
which `BodyLength` wraps around.

## 4. Runs

All runs need `tlc -config <cfg> <module>`.

| run | what it shows | bounds |
|---|---|---|
| `barrier` | counters exact, one serialising thread, alone in its round, until a spurious wakeup; blocked threads run again in spite of them | 3 threads, 8-valued counters that wrap at init; four threads pass too (717594 states) but take minutes |
| `stream` | ownership and references for all callers; bounds, in-place growth, sufficient references, no lost page for callers that keep to pages | 5 streams, 4 pages of 2 units, claims of 1 to 5, releases of 1 to 4 units: fragmentation, extension, relocation, failure and, with one stream more than there are references, the reference panic are reached |
| `stream_probe` | the search ends, misses nothing, is first fit, and unhooks exactly its run | all 64 sets of free pages, every start and length |
| `audit` | conservation under concurrent syncs | 2 threads, wrapping counters |
| `track` | all tracker properties and the refinement | 2 threads, one with `no_timeout`; 2 chunks, 3 conversations, 4 packets, 3 ids, counters modulo 3: full pool, recycling, refusal, exit and re-init, syncs in between |
| `jar` | contiguous serials, order, packing ends; intact data until a write overtakes, no stale pointer until then or until a list is patched | 216 bytes, 2 contexts, blocks of two lengths, callbacks that drop, 6 headers: the buffer wraps and sets are freed several times, and both known ways astray are taken |
| `netmap` | consistent table, valid claim, exact delivery, fair turns | an adapter and both ends of a pipe for a table of two, rings of two slots (one in use), 3 packets, callers that ask for the wire ring while the host ring fills too: devices change places, positions and flags of rings are reused, polls wake for nothing, rings are full.  Beyond the run, callers that ask for both rings have sound claims and deliveries too, with 1 packet (1025896 states) and with 3 and the pipe alone (36680), as have rings of three slots with 2 packets (3889776) |
| `peek` | nesting layers, parser returns, labels blind to direction and to memory behind the payload, get/test/name/number agree, labels remembered | a sample of every signature at its length, one less and one more, over TCP and UDP; all words on all special ports; headers around every check; two IPv6 extension headers; all traces of three packets of a dozen kinds with room for 2 flows |
| `geo` | red-black trees under insertion and up to 3 removals, exact searches, complete file, sound lookups, the walk ends | 6 chunks, 8 lines of which one overlaps two others and one has no location, all orders: rotations on both sides at both levels, a full pool |
| `rules` | sorted pages, rules kept, strings and comparisons found | 5 calls of one interface: 9 string rules, NUL among their characters, with and without memory at every depth; 9 comparisons with all six operators, an unknown operator, an unknown type, a number out of range and no number; 2 expressions of which one does not compile.  Pages of 3, the smallest that split unevenly (the code has 5), and five rules reach the halves; a stash of 2.  All texts of up to 2 of 3 characters and longer ones for strings; 15 texts with white space, signs and numbers on both sides of the bounds, which are 100 and -101, for numbers |
| `token` | clocks go forward, bounded drift; bounded spending, savings and rounding | 2 units per millisecond and per second instead of 1000, 8 units of time, a leap of 2 seconds is believed, 1 leap backwards, 2 threads, 3 tokens per second, requests of 1 and 4, 3 calls; a rate of 0 passes too (21036 states) and is covered by the proofs |
| `flowsplit` | every readable packet stored once, outputs read back, connections together, termination | files of up to 3 packets or blocks in all formats, whole and up to 2 cells short; buffer of 6, 2 flows, 3 files, 1 failing write: truncated packets that fit the buffer on the wire and that do not, empty, oversized and non-IP packets, packets of which nothing was captured, TCP and UDP between the same ports, a host that talks to itself, a full tracker |

Bounds named in the modules: `MaxIds` (flow ids), `MaxSerial` (jar headers),
`Values` (what is added to a counter), `MaxHeaders` (extension headers walked),
`MaxRemovals`, `MaxAdds` (rules), `MaxTime`, `MaxLeaps`, `MaxCalls` (clock and
bucket), `MaxFails` (failing writes).  They end behaviours; what they cut off
is more of the same rounds.  `CHECK_DEADLOCK FALSE` is set where the program
may stop: after a panic of the stream pool, in a jar that has used up its
headers or is wild, at the end of a trace, of a conversion or of a bounded
sequence of calls.

Invariants that belong together are checked as one named conjunction, with the
type invariant of the module first where it has no theorem of its own:

| checked | parts |
|---|---|
| `NothingLost` (stream) | `NoPageLost`, `NoReferencePanic` |
| `SearchSound` (stream_probe) | `NothingMissed`, `SearchIsFirstFit` |
| `PoolSound`, `FlowsApart` (track) | `PoolConsistent`; `OneFlowPerConversation`, `IdsUnique`, `FlowMemoryPrivate` |
| `ClaimSound` (netmap) | `TableConsistent`, `ClaimValid` |
| `ListsOrdered` (jar) | `SerialsContiguous`, `Chronological` |
| `ParserSound`, `PayloadDecides`, `LabelsAgree` (peek) | `LayersNest`, `ParserReturns`; `DirectionBlind`, `LooksInside`; `GetPassesTest`, `NamesRoundTrip`, `PortsSeparate` |
| `TreeSound` (geo) | `TreeSorted`, `SearchExact`, `RemovalSafe` |
| `RulesSound`, `RulesFound` (rules) | `PagesSorted`, `RulesKept`; `StringsFound`, `NumbersFound` |
| `CreditSound` (token) | `SpendBounded`, `SavingsBounded` |
| `SplitSound` (flowsplit) | `AllStored`, `ConnectionsTogether` |

The types of barrier and streams are theorems (section 6).  Each property has a
mutant, a conjunction one for nearly every part: a plausible slip in one
definition under which TLC refutes the property.

## 5. Fairness

* `PeakBarrier!FairBarrierSpec`: weak fairness of `barrier_wait`, its return and
  `barrier_wake` of each thread.  `peak_sys(3)` makes it the caller's duty that
  registered threads keep coming to the barrier and that the serialising
  thread wakes the others; the return only needs the mutex, which is held for
  a few instructions.  No fairness of joining, leaving, or spurious wakeups.
* `PeakStreamProbe!FairSearchSpec`, `PeakJar!FairSpec`: a function that was called
  keeps running.
* `PeakGeo!Spec`: weak fairness of writing (the next element or the close) and
  of reading the next record: both are loops without waiting.  Nothing says
  that lines come, that anything fails, or that the reader starts.
* `PeakFlowsplit!Spec`: weak fairness of the next step of a program that reads
  regular files and waits for nothing.

Everything else is safety.

## 6. Proofs

`tlapm <module>` checks each of the modules below.  The theorems hold for every
value of the constants that meets the named assumptions, which are what the
code requires of its caller or what its types give; TLC evaluates them in the
runs.  Each module has one inductive invariant per question, a conjunction of
named parts, and one lemma per action.  The bounds that end behaviours in the
runs (`MaxIds`, `MaxSerial`, `MaxLeaps`, ...) are any number here.

| theorem | property | of |
|---|---|---|
| `BarrierTyping`, `BarrierCounters`, `BarrierExclusion`, `BarrierOneSerial` | `BarrierTypeOK`, `CountersExact`, `SerialExclusion`, `OneSerialThread` | barrier |
| `StreamTyping`, `StreamOwnership`, `StreamReferences`, `StreamInBounds`, `StreamGrows`, `StreamNothingLost` | `TypeOK`, `PagesOwnedOnce`, `ReferencesExact`, `InBoundsByPage`, `GrowKeepsData`, `NothingLost` | stream pool |
| `SearchFirstFit` | `SearchSound` | page search |
| `AuditConservation` | `AuditConserved` | statistics |
| `TrackPool`, `TrackFlows`, `TrackCounts`, `TrackImplementsLRU` | `PoolSound`, `FlowsApart`, `AuditMatchesFlows`, `ImplementsLRU` | tracker |
| `NetmapClaims`, `NetmapDelivery`, `NetmapFairness` | `ClaimSound`, `DeliveredOnce`, `NoDeviceOvertaken` | netmap |
| `JarOrder`, `JarDataIntact`, `JarPointers` | `ListsOrdered`, `HeldDataIntact`, `NoStalePointer` | jar |
| `ClockDrift`, `ClockForward`, `TokenCredit`, `TokenRounding` | `DriftBounded`, `ClocksForward`, `CreditSound`, `RoundingBounded` | clock and bucket |
| `ParserCorrect`, `PayloadAlone`, `LabelsMeanOneThing`, `LabelsKept` | `ParserSound`, `PayloadDecides`, `LabelsAgree`, `LabelRemembered` | parser, labels, peek |
| `SplitCorrect`, `OutputsReadBack` | `SplitSound`, `ReadsBack` | capture files, flowsplit |

**PeakThreadsProofs**, first the barrier, for any finite set of threads smaller
than the range of an unsigned int (`ThreadsAssumption`, `UintAssumption`).  The
exclusion is not inductive: that `barrier_wait()` finds `count = threads` has to mean that all
others are blocked, which needs the counters to be cardinalities, and that
nobody joins or leaves while somebody is blocked.  `BarrierInv` adds exactly
this; the steps are lemmas on how the cardinalities of members and blocked
threads change per action.  The invariants speak of behaviours before the
first spurious wakeup, because the counters are wrong after it.

Its second part is about clock and bucket, for every resolution, rate, finite set
of threads and requests of which one is the largest (`ClockAssumption`,
`TokenAssumption`, `ThreadsAssumption`; the credit a bucket may be overdrawn by
is the largest request).  `ClockInv` bounds for each pair of units what the finer
clock is ahead of the coarser one beyond the fraction of the timestamp, by one
unit per leap back; `ClockForward` is an action property that follows from it.
`TokenInv` adds that no thread's time slice and no bucket is ahead of the clock,
that the overdraft stays below the largest request, and the balance of what was
earned, spent and lost to rounding.

**PeakStreamProofs**, for every number and size of pages, any finite set of
streams and all positive sizes (`PageAssumption`, `PageSizeAssumption`,
`RefsAssumption`, `SizesAssumption`).  `StreamInv` adds to ownership and reference count that a
NULL reference accounts for no page, and that a destroyed pool has no live
stream.  `OwnershipStep` is the core: a step that only moves pages between the
tree and one stream keeps ownership; what remains is that a release frees a
prefix of the stream (`ReleasedPagesBound`) and that first fit returns free
pages (`FitsAreFree`).  For the bounds, `ByPageInv` adds that while no release
has ended inside a page, data start with their first page and fit the pages
counted; `StreamInBounds` and the action property `StreamGrows` follow from it.
For `StreamNothingLost`, `WholeInv` adds that callers who keep to pages fill
theirs (`Filled`) and that tree and streams cover the pool (`Covered`).  That
references last as long as pages is then a count: disjoint streams with a page
each need as many pages as there are of them.

Its second part is about the search of `PeakStreamProbe`, for every pool, every
set of free pages and every request.  `SearchInv` says at each place of the loop what has been counted,
what is still to be skipped and what has been unhooked (`ProbeInv`, `SkipInv`,
`UnhookInv`).  The jump over the pages just counted is what needs an argument:
a run that starts on one of them would cross the hole behind them.

**PeakTrackProofs**, for any finite set of threads, counters of any width, any
number of fields and flows, and packets whose addresses are numbers
(`AuditAssumption`, `TrackAssumption`; addresses have to compare, as
`netcmp()` does).  `AuditInv` adds to `AuditConserved` that a field is
merged only during a sync; the sum over all threads changes by the share of one
of them.  `TrackInv` is that together with `PoolInv` (queue, tree and free
list hold each chunk once, `QueueOK` and `FreeOK`), `FlowInv` (keys and ids
differ, the ids in the trees are below the next one) and `CountInv` (ids given
out and flows present, modulo the width).  The refinement maps a tracker's
queue to the keys and ids of its chunks: the initial states map to initial
states, a hit is a move to the end, a fresh or recycled chunk is an append with
or without the loss of the first entry, and counting, syncing and labelling
are stutters.

**PeakNetmapProofs**, for any adapters and pipes, tables of any size, rings of
two slots or more, any number of packets (`NetmapAssumption`).  Slots are
looked at by their distance from where the kernel continues (`At`); `RingsInv`
says what the released, the owned and the kernel's part of each ring hold, the
stale forward flags included.  `Unique` (no packet in two slots) lets a
decision about one packet leave all other slots as they were, and `OnItsWay`
keeps decided packets in a released slot until the kernel takes them.
`LockInv` says that packets are claimed and polls run under the lock, so that
attach and detach find neither.  For the fairness, `FairInv` adds a measure: a
device has not been passed over more often than turns have gone by since it
was last in line (`BehindTurns`); a device that was passed over keeps its
packet (`PassedReady`), so a poll, which begins when there is none, begins
with a clean slate (`PolledFresh`).  The proof attempt showed that this needs
a caller who sticks to one mode (`OneMode`, section 7); the first version of
the property did not ask for that.

**PeakJarProofs**, for buffers, headers, blocks and sets of any size, any
contexts, and serials of any range of two or more (`JarAssumption`).  The
hypothesis `[]Young` says that no serial has left the first half of the range:
`wrap32()` orders two serials only if they are not further apart
(`WrapLess`), and a context that is not touched keeps old serials for ever.
`SerialInv` has the serials as numbers, `ListsInv` the order of each
context's blocks.  The core is `LayoutInv`: everything that belongs to the
m-th set, header or data, lies between the end of any set before it, or the
read position, and where writing continues, round the buffer (`InSet`).  A
write that is granted and does not overtake falls outside of that
(`WithinSafe`), extends it (`WithinNew`) and keeps the rest (`WithinKept`);
freeing the oldest set moves the read position to that set's own end, which is
the next mark.  `PointerInv` says that until a list is patched the two serials
of a context are those of its ends, so a comparison with `first_serial` is one
with the blocks themselves, and a block that is not stale belongs to a set in
the buffer (`HeldBlock`, `RepairSound`).

**PeakPeekProofs**, for every trace of frames (`TracesAssumption`, see `IsFrame`),
a tracker of any size and two rounds or more for the walk over extension headers
(`PacketAssumption`).  `PeekInv` says that what is left of the trace are frames,
that the packet at hand is what the parser made of the frame at hand, and that
the table of flows has distinct ids below the next one with labels of the
enumeration.  `ParseIs` has the parser's result layer by layer (`FrameParsed`,
`Nested`).  That
the walk over IPv6 headers ends is a potential argument by induction over its
rounds (`RoundsAdvance`, `WalkEnds`): of two rounds that do not end it, one
passes eight bytes.  For `PayloadAlone`, packets that the operators of
`PeakLi` cannot tell apart (`Alike`) are followed through all signatures
(`AlikeGet`); LDAP and SNMP, which do look one byte too far, are why the property
has its guard.  `LabelsMeanOneThing` is a fact about the two tables and the
order in which `peak_li_get()` tries its entries.  The proof found a mistake
in the first version of `PortsSeparate`: a port of SMTP beside that of FTP rules
out both, so a packet between two such ports may have no label at all; the
property now speaks of one such port, of seven instead of three, and the run
has the ports.  `LabelsKept` follows a flow through the least-recently-used
table, where it moves but keeps its id.

**PeakFlowsplitProofs**, for every input a capture tool can write (`IsInput`,
`InputsAssumption`), in any format and of any length, a buffer of any size
(`LoadAssumption`) and any numbers of flows, files and failing writes
(`FlowsplitAssumption`).  `FileCells` says where the cells of item n are in a
file, wherever it was cut off.  `At` is a reader behind k items: its position,
link type and frame table, and the buffer with the bytes of the last item that
filled it (`Holds`).  A step from there (`LoadStep`, one lemma per format and
kind of block) takes the next item, passes it, or ends for a reason named by
`Passes`.  `SplitInv` adds that what was stored is what is due of those k items
(`Matches`, by an increasing enumeration) and that each flow's place among the
keys gives its file (`Tracked`); `SplitSound` follows, since an enumeration that
increases and is complete is the one in `InOrder`.  For `ReadsBack`, `OutInv`
adds to it that the intact packets of a file lie one behind the other between
marks in it (`Listed`), which later writes, whole or not, leave alone
(`ListedKept`, `ListedMore`), that behind the last mark a file of which no write
failed ends (`GoodIn`) or has the record of a packet longer than the buffer
(`WrittenIn`, `Refused`), which a reader takes for the end, and that a failed
write was counted.  A reader that is opened on
such a file is at mark n after n packets (`AllRead`).  What `FlattenSeq` and
`Reader` compute, recursive functions both, is proved by induction over their
arguments (`FlatStep`, `ReadingExists`).  The property
does not speak of what follows a record too long: that is lost to any reader
(section 7).  The attempt corrected the
properties twice: `AllStored` now has the packets of which nothing was captured,
and `ConnectionsTogether` speaks of packets of one protocol, because TCP and UDP
between the same ports are two flows.

**PeakArithmetic** has what several of them need and the provers do not know:
`Induction` over the natural numbers as a fact about sets, by way of the
smallest counterexample (the library's rule takes an operator); existence and
uniqueness of quotient and remainder (`DivMod`, `DivModUnique`, `ModSmall`,
...); how `SumFunction` changes with one summand, by induction over the size
of the domain; and what is left of a sequence when an element is taken out or
moved to the end.

Some definitions of the models are written so that they can be reasoned
about: `RemoveFirst` takes a chunk out of a queue, `Without` in `PeakJar`
chooses the increasing enumeration of the positions that are kept,
`PeakToken` names the largest request, and `apps` in `PeakLi` is one tuple.

Checked by TLC only:

* the liveness properties `BlockedRunsAgain`, `SearchEnds`, `PackReturns`,
  `WriteEnds` and `Terminates`: fairness and `ENABLED` are out of the prover's
  reach;
* everything in `PeakTree`, `PeakGeo`, `PeakString` and `PeakRules`
  (`TreeSound`, `FileComplete`, `LookupSound`, `RulesSound`, `RulesFound`):
  their algorithms are recursive operators, which the prover does not support,
  and what they compute for every input needs an induction over data.

## 7. Where the code and its documents disagree

Each of these is left out of a property by a guard, and reproduced by dropping
the guard or by a constant, as noted.

Threads, pools and buffers:

* `pthread_cond_wait()` is called once, without a condition to re-check
  (`include/peak_sys.h:101`), so a spurious wakeup lets a thread run beside the
  serialising one; `peak_sys.3:135` promises that all other threads are
  blocked: `SerialExclusion` without its `stray` guard.
* The pages of a claim are computed from `data.len` alone
  (`lib/peak_stream.c:236`), whatever part of the first page was released, so
  data may lie behind the last page: `InBoundsByPage` without its guard.
* A second wrap around before the oldest set is freed overwrites it
  (`lib/peak_jar.c:56`): `HeldDataIntact` without `"overtaken"`.
* A repaired context keeps the serial of the block it lost
  (`lib/peak_jar.c:124`), and `JAR_DROP` leaves the serials as they were
  (`peak_jar.c:205`): `NoStalePointer` without `known = {}`.
* A lone thread that serialises leaves `count` at zero, so another one may
  join beside it (`peak_sys.h:130`): `SerialExclusion` without `ret[s] >= 2`.
* The last page of a stream that ends inside it is never returned
  (`peak_stream.c:348`): `NoPageLost` without `ragged = {}`.
* References run out before pages do when a stream has given back all its
  pages but not its last bytes; the comment above `peak_stream_get()` takes
  this for impossible (`peak_stream.c:188-194`): `NoReferencePanic` without
  its guard.
* Growing in place rewinds the buffer to the start of its page
  (`peak_stream.c:266`): `GrowKeepsData` without its guard.
* `peak_stream.3:98-102` describes a non-zero result with the old stream kept
  when a relocation fails; the code returns zero.
* `TRACK_KEY()` cannot order equal addresses (`peak_track.h:36`), so both
  directions of a conversation of a host with itself get a flow, where
  `peak_track.3` has one: `OneFlowPerConversation` with packets whose
  addresses are equal.
* A repair re-inserts one block at most and never the newest
  (`peak_jar.c:118-122`); `peak_jar.3:65` promises a history as memory permits.
* A block larger than the buffer makes `peak_jar_pack()` loop for ever
  (`peak_jar.c:158`): `PackReturns` with a length that does not fit.

* A `poll()` that finds packets at once serves the first device of the table
  that has one, not the next in turn (`lib/peak_netmap.c:491`): a caller that
  alternates between modes may see a device passed over as often as there are
  devices.  `NoDeviceOvertaken` without `OneMode`, with modes `"wire"` and
  `"host"`.

Packets and labels:

* A variable IPv6 extension header of length 0 is read again and again
  (`peak_packet.c:144-146`): `ParserReturns` without its exception.  `net_hlen`
  is not compared with `net_len` for IPv6 (`peak_packet.c:348`): `LayersNest`
  without that condition.  The length of the frame is not looked at.
* LDAP and SNMP look at the byte behind the length they checked
  (`peak_li.c:1462`, `peak_li.c:1549`): `LooksInside` without
  `EndsAtLastByte`.
* FTP on a port of its own is taken for SMTP by the side that says 220
  (`peak_li.c`, table order), and a flow's label may still change to one that comes
  later in the enumeration; `peek.1` has it remembered: `LabelRemembered` with
  equality.
* `TRACK_KEY()` on a host's conversation with itself separates its directions
  in `flowsplit` too, whose manual keeps connections in one file:
  `ConnectionsTogether` with packets whose addresses are equal.

Capture files:

* ERF, PCAPNG and NetMon readers report the length a packet had on the wire
  (`peak_load.c:227`), so a truncated packet carries bytes of earlier ones:
  `ReadsBack` for all of `Reported`.
* That length is not compared with the size of the buffer (`peak_load.c:153`,
  `peak_load.c:227`, `peak_load.c:283`; `peak_load.c:174` does so for PCAP), so
  of a truncated packet of more than 32 KiB `peak_store_packet()` writes memory
  behind the buffer (`peak_store.c:54`), and the record it makes is refused by
  `peak_load` itself, with all that follows in the file: `ReadsBack` without
  `e.len <= BufSize` in `Readable`.
* A PCAPNG packet block shorter than its own headers makes the length of its
  body wrap around (`peak_load.c:216`): `BodyLength` with a block that
  `ItemCells` does not make.
* An ERF or NetMon packet with a length on the wire of which nothing was
  captured leaves the buffer as it was (`peak_load.c:146`, `peak_load.c:275`), and
  `flowsplit` stores the packet before it once more: `AllStored` with `at[n]` for
  `Seen(at[n])`.
* An empty packet, or one larger than the buffer, ends the file
  (`peak_load.c:204`): `AllStored` without `Passes`.
* The last interface block decides about the link type of all PCAPNG packets
  (`peak_load.c:239`), and outputs always declare Ethernet, whatever the input
  was (`peak_store.c`).
* A PCAPNG block of length 0 is never left (`peak_load.c:248`): `Terminates`
  without `Stuck`.
* `flowsplit` ignores failing stores (`flowsplit.c:136`): `ReadsBack` for what
  follows a failed write.

Rules, clocks, databases:

* A literal match of the last character returns before wildcards and letters
  in either case are tried (`peak_string.c:116`): `StringsFound` with
  `MatchesAt` for `MustReport`.
* The comment at `peak_netmap.c:318` ignores leaps below 3 seconds, but whole
  seconds are compared, and leaps add up, as in `netmap_ts` of `PeakClock`.
* Fractions of a token are lost with every call (`peak_token.h:41`): a bucket
  of less than 1000 tokens per second that is asked every millisecond earns
  nothing, as `RoundingBounded` allows.
* `geoconv` does not check that a range begins before it ends (the assumption
  of `PeakGeo`), and an input that cannot be opened after another was read
  ends in the panic of a pool with chunks missing (`FileComplete` names it).

## 8. Not modelled

* Planned: see the plan above; `PROJECT.json` names each component.
* A thin wrapper around a library whose behaviour is elsewhere: `peak_magic`.
  Of `peak_regex` all is modelled but pcre.
* `netfuse`: what it does with devices is the caller that `PeakNetmap` assumes;
  the rest is configuration.  `peak_alloc.h`: guard words around heap memory.
* `peak_token_inc()` and `peak_token_dec()`: atomic additions to a counter
  nothing looks at.
* Macros without state: `peak_type.h`, `peak_net.h`, `peak_hash.h`,
  `peak_output.h`; `wrap32()` and the order of addresses are modelled where
  they are used.
* `sys/queue.h` is third-party: lists are sequences.  Of `sys/tree.h` red-black
  trees are modelled; nothing uses the splay trees.  Outside of `PeakGeo` a
  tree is the set of its elements.
* Of netmap: `packet->type`, the ioctls that bring an adapter up,
  and the kernel beyond its side of the rings.
* Page contents and page magics of the stream pool, the payload of jar blocks
  and flows beyond a label.
* A jar that lives for 2^31 headers without a context being touched: the
  serial comparison is only valid within half of the range.  The runs stay
  within it, the theorems assume it (`Young`).
* Timestamps of capture files beyond what `PeakClock` needs, and ERF from standard
  input.
* A database that is replaced by another of the same revision while it is
  loaded, the grammar and scanner of `geoconv`, the names of countries.
* Names and descriptions of applications for people.
* Generated tables, parsers, option handling and output of the tools,
  `contrib/`, scripts, tests.
