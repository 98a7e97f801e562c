---------------------------- MODULE PeakFlowsplit ----------------------------
(***************************************************************************)
(* bin/flowsplit: the packets of a trace file (PeakLoad) are given to      *)
(* their flows, and the id of the flow tells which of the output files a   *)
(* packet is stored in.                                                    *)
(*                                                                         *)
(* An input is what a capture tool has seen: packets, and in PCAPNG files  *)
(* blocks of other kinds; the file may end anywhere.                       *)
(***************************************************************************)
EXTENDS PeakLoad, PeakTrackKey

CONSTANTS
  Inputs,     \* inputs [fmt, ll, items, cut], see below
  flow_count, \* -f
  file_count, \* -n
  MaxFails    \* bound: the number of writes that fail

ASSUME FlowsplitAssumption ==
  /\ flow_count \in Nat \ {0} /\ file_count \in Nat \ {0} /\ MaxFails \in Nat

VARIABLES
  input,   \* what is split
  trace,   \* struct peak_load: NULL is <<>>
  keys,    \* the flows of the tracker, a flow's id is its place less one
  outs,    \* the output files
  stored,  \* history: what was stored [item, file, len, good]
  fails,   \* history: the writes that failed
  pc       \* "init", "load", "packet", "exit", "done", or "panic"

vars == <<input, trace, keys, outs, stored, fails, pc>>
-----------------------------------------------------------------------------
(***************************************************************************)
(* The files of capture tools.  Items are packets, captured up to a length *)
(* cap of the orig there were, or blocks of other types.  The headers of   *)
(* an IP packet are its first hdr bytes.                                   *)
(***************************************************************************)
Bytes(n, cap) == [i \in 1 .. cap |-> [is |-> "byte", item |-> n, at |-> i]]

Trailer == <<[is |-> "trailer"]>>

\* The cells of item n.
ItemCells(fmt, n, item) ==
  CASE fmt = "erf" ->
         <<[is |-> "record", rlen |-> item.cap + 1, wlen |-> item.orig]>>
           \o Bytes(n, item.cap)
    [] fmt = "pcap" ->
         <<[is |-> "record", incl_len |-> item.cap, orig_len |-> item.orig]>>
           \o Bytes(n, item.cap)
    [] fmt = "pcap_swap" ->
         <<[is |-> "record", incl_len |-> bswap32(item.cap), orig_len |-> bswap32(item.orig)]>>
           \o Bytes(n, item.cap)
    [] fmt = "netmon" ->
         <<[is |-> "record", include_length |-> item.cap, original_length |-> item.orig]>>
           \o Bytes(n, item.cap)
    [] fmt = "pcapng" /\ item.type \in PacketTypes ->
         <<[is |-> "block", type |-> item.type, length |-> item.cap + 3],
           [is |-> "packet", packetlen |-> item.orig]>>
           \o Bytes(n, item.cap) \o Trailer
    [] fmt = "pcapng" /\ item.type = 1 ->
         <<[is |-> "block", type |-> 1, length |-> 3],
           [is |-> "interface", linktype |-> item.ll]>> \o Trailer
    [] OTHER ->
         <<[is |-> "block", type |-> item.type, length |-> item.cap]>>
           \o [i \in 1 .. Max({0, item.cap - 1}) |-> [is |-> "other"]]

Records(in) == [n \in DOMAIN in.items |-> ItemCells(in.fmt, n, in.items[n])]

\* The cells before item n, in a file that begins with a header of some cells.
Before(in, header, n) == header + Len(FlattenSeq(SubSeq(Records(in), 1, n - 1)))

\* The frame table of Netmon files, behind the frames.
Table(in) == [n \in DOMAIN in.items |-> [is |-> "frame", offset |-> Before(in, 1, n)]]

FileHeader(in) ==
  CASE in.fmt = "erf" -> <<>>
    [] in.fmt = "pcap" -> <<[is |-> "pcap", network |-> in.ll]>>
    [] in.fmt = "pcap_swap" -> <<[is |-> "pcap_swap", network |-> bswap32(in.ll)]>>
    [] in.fmt = "netmon" ->
         <<[is |-> "netmon", version |-> in.version, network |-> in.ll,
            frame_table_offset |-> Before(in, 1, Len(in.items) + 1),
            frame_table_length |-> Len(in.items)]>>
    [] in.fmt = "pcapng" -> <<[is |-> "pcapng", length |-> 2]>> \o Trailer

Whole(in) ==
  FileHeader(in) \o FlattenSeq(Records(in))
    \o (IF in.fmt = "netmon" THEN Table(in) ELSE <<>>)

\* The file flowsplit is given: cut off by some cells.
File(in) == LET whole == Whole(in) IN SubSeq(whole, 1, Len(whole) - in.cut)

(***************************************************************************)
(* What an input is.  An ERF header can tell the length of a packet.  The  *)
(* headers of an IP packet were captured (a packet without them is not ip, *)
(* and a PCAP file alone may have it).  The cut leaves the header of the   *)
(* file.                                                                   *)
(***************************************************************************)
IsItem(item) ==
  /\ item.type \in Nat /\ item.ll \in Nat /\ item.ll < 65536
  /\ item.cap \in Nat /\ item.cap < 65535
  /\ item.orig \in Nat /\ item.orig < 65536
  /\ item.ip \in BOOLEAN /\ item.hdr \in Nat
  /\ item.ip => item.hdr > 0 /\ item.hdr <= item.cap
  /\ item.packet.net_saddr \in Nat /\ item.packet.net_daddr \in Nat

IsInput(in) ==
  /\ in.fmt \in {"erf", "pcap", "pcap_swap", "netmon", "pcapng"}
  /\ in.ll \in Nat /\ in.ll < 65536
  /\ in.items \in Seq(Range(in.items))
  /\ \A n \in DOMAIN in.items : IsItem(in.items[n])
  /\ in.cut \in 0 .. Len(FlattenSeq(Records(in)))

ASSUME InputsAssumption == \A in \in Inputs : IsInput(in)
-----------------------------------------------------------------------------
\* MIN(file_count, flow_count)
FileCount == Min({file_count, flow_count})
Files == 0 .. FileCount - 1

Init ==
  /\ input \in Inputs
  /\ trace = <<>>
  /\ keys = <<>>
  /\ outs = <<>>
  /\ stored = <<>>
  /\ fails = 0
  /\ pc = "init"

\* main() up to the first packet.
Open ==
  /\ pc = "init"
  /\ trace' = peak_load_init(File(input))
  /\ trace' # <<>>
  /\ outs' = [f \in Files |-> peak_store_init]
  /\ pc' = "load"
  /\ UNCHANGED <<input, keys, stored, fails>>

\* panic("cannot init file loader")
OpenFails ==
  /\ pc = "init"
  /\ peak_load_init(File(input)) = <<>>
  /\ pc' = "panic"
  /\ UNCHANGED <<input, trace, keys, outs, stored, fails>>

\* panic("cannot open an output file"): the last is left empty.
CreateFails ==
  /\ pc = "init"
  /\ peak_load_init(File(input)) # <<>>
  /\ fails < MaxFails
  /\ fails' = fails + 1
  /\ \E f \in Files : outs' = [g \in 0 .. f |-> IF g < f THEN peak_store_init ELSE <<>>]
  /\ pc' = "panic"
  /\ UNCHANGED <<input, trace, keys, stored>>

\* peak_load_packet() in the loop of main().
Load ==
  /\ pc = "load"
  /\ \E step \in {peak_load_packet(File(input), trace[1])} :
       /\ trace' = <<step.self>>
       /\ pc' = IF step.again THEN "load"
                ELSE IF step.self.len = 0 THEN "exit" ELSE "packet"
  /\ UNCHANGED <<input, keys, outs, stored, fails>>

\* The item whose headers are in the buffer, if it can be read as what it is:
\* the parser finds the IP packet with the right link type only, and looks
\* for its headers within the length that was reported.
Parses ==
  /\ trace[1].buf[1].is = "byte"
  /\ LET item == input.items[trace[1].buf[1].item] IN
     item.ip /\ item.ll = trace[1].ll /\ item.hdr <= trace[1].len

Key == TRACK_KEY(input.items[trace[1].buf[1].item].packet)

\* flowsplit_packet() returns -1.
Skip ==
  /\ pc = "packet"
  /\ ~Parses
  /\ pc' = "load"
  /\ UNCHANGED <<input, trace, keys, outs, stored, fails>>

\* peak_track_acquire() has the flow, or room for it.
Tracks(k) == Contains(keys, k) \/ Len(keys) < flow_count

\* peak_track_acquire(): the flows, with this one.
Acquired(k) == IF Contains(keys, k) THEN keys ELSE Append(keys, k)

FileOf(id) == id % FileCount

\* A packet of a flow is stored; whether that worked is not looked at.
Split ==
  /\ pc = "packet"
  /\ Parses
  /\ Tracks(Key)
  /\ keys' = Acquired(Key)
  /\ \E written \in 0 .. trace[1].len + 1 :
     LET f == FileOf(SelectInSeq(keys', LAMBDA k : k = Key) - 1)
         good == written = trace[1].len + 1
     IN  /\ good \/ fails < MaxFails
         /\ fails' = IF good THEN fails ELSE fails + 1
         /\ outs' = [outs EXCEPT ![f] =
              peak_store_packet(@, trace[1].buf, trace[1].len, written)]
         /\ stored' = Append(stored,
              [item |-> trace[1].buf[1].item, file |-> f, len |-> trace[1].len,
               good |-> good])
  /\ pc' = "load"
  /\ UNCHANGED <<input, trace>>

\* panic("tracker is empty")
TrackerFull ==
  /\ pc = "packet"
  /\ Parses
  /\ ~Tracks(Key)
  /\ pc' = "panic"
  /\ UNCHANGED <<input, trace, keys, outs, stored, fails>>

\* The files are closed, tracker and reader released.
Exit ==
  /\ pc = "exit"
  /\ pc' = "done"
  /\ UNCHANGED <<input, trace, keys, outs, stored, fails>>

Next == Open \/ OpenFails \/ CreateFails \/ Load \/ Skip \/ Split \/ TrackerFull \/ Exit

Spec == Init /\ [][Next]_vars /\ WF_vars(Next)
-----------------------------------------------------------------------------
TypeOK ==
  /\ Len(keys) <= flow_count
  /\ \A n \in DOMAIN stored : stored[n].file \in Files /\ stored[n].len > 0
  /\ trace # <<>> =>
       /\ trace[1].netmon_pos \in 0 .. Len(trace[1].netmon_table)
       /\ trace[1].pos >= 0
  /\ pc \in {"init", "load", "packet", "exit", "done", "panic"}

IsPacket(n) == input.fmt = "pcapng" => input.items[n].type \in PacketTypes

\* The length that is reported for a packet: PCAP files alone tell how much
\* of it there is.
Reported(n) ==
  IF input.fmt \in {"pcap", "pcap_swap"} THEN input.items[n].cap ELSE input.items[n].orig

\* The link type that holds where item n is read.
LinkAt(n) ==
  CASE input.fmt \in {"pcap", "pcap_swap"} -> input.ll
    [] input.fmt \in {"erf", "netmon"} -> LINKTYPE_ETHERNET
    [] input.fmt = "pcapng" ->
         LET described == {m \in 1 .. n - 1 : input.items[m].type = 1} IN
         IF described = {} THEN 0 ELSE input.items[Max(described)].ll

\* The reader gets over item n: it is there as a whole, it fits into the
\* buffer with its block, and it is not a packet of length 0.
Passes(n) ==
  LET record == ItemCells(input.fmt, n, input.items[n]) IN
  /\ Before(input, Len(FileHeader(input)), n + 1) <= Len(File(input))
  /\ Len(record) - (IF input.fmt = "pcapng" THEN 0 ELSE 1) <= BufSize
  /\ IsPacket(n) => Reported(n) > 0

\* Is there anything of item n that gets into the buffer?
Fills(n) == IF input.fmt = "pcapng" THEN IsPacket(n) ELSE input.items[n].cap > 0

\* Whose bytes are in front of the buffer when item n was read, 0 if nobody's:
\* a packet of which nothing was captured leaves those of an earlier one.
Seen(n) == Max({0} \cup {m \in 1 .. n : Fills(m)})

\* The items at which something is to be stored.
Due ==
  {n \in DOMAIN input.items :
     /\ IsPacket(n) /\ \A m \in 1 .. n : Passes(m)
     /\ Seen(n) > 0 /\ input.items[Seen(n)].ip /\ input.items[Seen(n)].ll = LinkAt(n)
     /\ input.items[Seen(n)].hdr <= Reported(n)}

\* The numbers of a finite set in their order, as a set with one sequence.
InOrder(S) ==
  {s \in [1 .. Cardinality(S) -> S] : \A i, j \in DOMAIN s : i < j => s[i] < s[j]}

(***************************************************************************)
(* All packets of the input are stored, once and in their order, up to the *)
(* first that the reader takes for the end of the file: one that is cut    *)
(* off, does not fit into the buffer, or has length 0.  A PCAPNG packet    *)
(* counts if the link type of its interface was described last; an ERF or  *)
(* Netmon packet of which nothing was captured is stored with the bytes of *)
(* the one before, if it was long enough for its headers.                  *)
(***************************************************************************)
AllStored ==
  pc = "done" =>
    \E at \in InOrder(Due) :
      /\ DOMAIN at = DOMAIN stored
      /\ \A n \in DOMAIN stored :
           stored[n].item = Seen(at[n]) /\ stored[n].len = Reported(at[n])

\* It was written as a whole, and a reader has room for it.
Readable(e) == e.good /\ e.len <= BufSize

\* What was stored in file f before a write failed, and before a packet that
\* had been longer than the buffer on the wire.
Intact(f) ==
  {n \in DOMAIN stored :
     /\ stored[n].file = f
     /\ \A m \in 1 .. n : stored[m].file = f => Readable(stored[m])}

\* The states of a reader of file f, after every packet.
Reader(f) ==
  LET after[n \in 0 .. Len(stored) + 1] ==
        IF n = 0 THEN peak_load_init(outs[f])[1]
        ELSE peak_load_packet(outs[f], after[n - 1]).self
  IN  after

(***************************************************************************)
(* Every output can be read back with peak_load(3), whatever the format of *)
(* the input was: it has the packets that were stored in it, with their    *)
(* own bytes as far as they were captured, and ends behind the last.  When *)
(* a write fails this holds for what came before: flowsplit goes on, but   *)
(* the rest of that file cannot be relied on.  So it does when the reader  *)
(* has reported a length beyond its buffer, which nobody compares: memory  *)
(* behind the buffer is stored, and a reader takes the record for the end. *)
(***************************************************************************)
ReadsBack ==
  pc \in {"load", "done"} =>
    \A f \in Files : \E mine \in InOrder(Intact(f)) :
      LET after == Reader(f) IN
      /\ \A n \in DOMAIN mine :
           LET packet == stored[mine[n]] IN
           /\ after[n].len = packet.len
           /\ after[n].ll = LINKTYPE_ETHERNET
           /\ \A i \in 1 .. Min({packet.len, input.items[packet.item].cap}) :
                after[n].buf[i] = Bytes(packet.item, i)[i]
      /\ fails = 0 => after[Len(mine) + 1].len = 0

\* The ends of the conversation a packet belongs to.
Ends(p) == {<<p.net_saddr, p.flow_sport>>, <<p.net_daddr, p.flow_dport>>}

(***************************************************************************)
(* "keeping all packets of each connection contained in the same output    *)
(* file" (flowsplit.1), but for a host that talks to itself: then the key  *)
(* of a flow depends on the direction.                                     *)
(***************************************************************************)
ConnectionsTogether ==
  \A m, n \in DOMAIN stored :
    LET p == input.items[stored[m].item].packet
        q == input.items[stored[n].item].packet
    IN  /\ Ends(p) = Ends(q) /\ p.net_type = q.net_type
        /\ p.net_saddr # p.net_daddr
        => stored[m].file = stored[n].file

\* A block of length 0 is read again and again.
Stuck == \E n \in DOMAIN input.items : ~IsPacket(n) /\ input.items[n].cap = 0

(***************************************************************************)
(* flowsplit comes to the end of every file, however it was cut off, that  *)
(* has no block of length 0.                                               *)
(***************************************************************************)
Terminates == ~Stuck => <>(pc \in {"done", "panic"})

(***************************************************************************)
(* The packets of the input are in the output files, once and in order,    *)
(* and those of a connection in one file.                                  *)
(***************************************************************************)
SplitSound == TypeOK /\ AllStored /\ ConnectionsTogether
=============================================================================
