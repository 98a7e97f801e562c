------------------------------ MODULE PeakLoad -------------------------------
(***************************************************************************)
(* lib/peak_load.c and lib/peak_store.c: trace files are read in four      *)
(* formats (PCAP in either byte order) and written in one.                 *)
(*                                                                         *)
(* A file is a sequence of cells.  A header is one cell, with the fields   *)
(* the code looks at; so is a byte of a packet, which says whose it is.    *)
(* Timestamps are left out.                                                *)
(***************************************************************************)
EXTENDS Integers, Sequences, SequencesExt, FiniteSetsExt

CONSTANT BufSize  \* sizeof(buf) of struct peak_load

ASSUME LoadAssumption == BufSize \in Nat \ {0}

LINKTYPE_ETHERNET == 1

\* bswap32(): the four bytes of a number in the opposite order.
bswap32(n) ==
  (n % 256) * 16777216 + ((n \div 256) % 256) * 65536
    + ((n \div 65536) % 256) * 256 + ((n \div 16777216) % 256)

\* What calloc() leaves in the buffer.
Zero == [is |-> "zero"]

\* The next n cells from a position on, fewer at the end of the file.
Read(file, pos, n) == SubSeq(file, pos + 1, Min({pos + n, Len(file)}))

\* read() into the buffer: the packet is there only if all of it was read.
ReadBody(file, self, n, len) ==
  LET body == Read(file, self.pos, n) IN
  [self EXCEPT !.pos = @ + Len(body),
               !.buf = [i \in 1 .. BufSize |-> IF i <= Len(body) THEN body[i] ELSE @[i]],
               !.len = IF Len(body) = n THEN len ELSE 0]

\* The part the formats share: the length n of the body limited to the buffer.
ReadLimited(file, self, n, len) ==
  LET next == [self EXCEPT !.pos = @ + 1] IN
  IF BufSize < n THEN next ELSE ReadBody(file, next, n, len)

\* rlen includes the header, a cell here, and the difference is a uint16_t.
ErfLength(rlen) == (rlen - 1) % 65536

_peak_load_erf(file, self) ==
  LET hdr == Read(file, self.pos, 1) IN
  IF hdr = <<>> THEN self
  ELSE ReadLimited(file, self, ErfLength(hdr[1].rlen), hdr[1].wlen)

InclLen(hdr, swap) == IF swap THEN bswap32(hdr.incl_len) ELSE hdr.incl_len

_peak_load_pcap(file, self) ==
  LET hdr == Read(file, self.pos, 1) IN
  IF hdr = <<>> THEN self
  ELSE LET n == InclLen(hdr[1], self.fmt = "pcap_swap")
       IN  ReadLimited(file, self, n, n)

\* lseek() relative to the position.
Seek(self, n) == [self EXCEPT !.pos = @ + n]

\* What a block of a PCAPNG file leads to: the next block, or back.
Again(self) == [self |-> self, again |-> TRUE]
Return(self) == [self |-> self, again |-> FALSE]

\* The types of blocks that hold a packet.
PacketTypes == {2, 6}

\* A variant that looks for another block at the end of the file.
AgainAtEnd(self) == Again(self)

AtEnd(self) == Return(self)

\* A variant that returns from a block it does not know.
ReturnUnknown(self, length) == Return(Seek(self, length - 1))

\* A block that is not known is skipped, from behind its header on.
Unknown(self, length) == Again(Seek(self, length - 1))

\* An interface description: its link type holds for all packets to come.
Interface(file, self, length) ==
  LET iface == Read(file, self.pos, 1) IN
  IF iface = <<>> THEN Return(self)
  ELSE Again([Seek(self, length - 1) EXCEPT !.ll = iface[1].linktype])

\* A size_t, which is larger than any file here as it is there.
SIZE == 1073741824

\* The length of a block without its two headers, cells here.
BodyLength(length) == (length - 2) % SIZE

\* A packet, with all that follows it in its block.
EnhancedPacket(file, self, length) ==
  LET pkt == Read(file, self.pos, 1) IN
  Return(IF pkt = <<>> THEN self
         ELSE ReadBody(file, Seek(self, 1), BodyLength(length), pkt[1].packetlen))

\* _peak_load_pcapng(), from _peak_load_pcapng_again to the next goto.
_peak_load_pcapng(file, self) ==
  LET hdr == Read(file, self.pos, 1)
      next == Seek(self, 1)
  IN  IF hdr = <<>> THEN AtEnd(self)
      ELSE CASE BufSize < hdr[1].length -> Return(next)
             [] BufSize >= hdr[1].length /\ hdr[1].type \in PacketTypes ->
                  EnhancedPacket(file, next, hdr[1].length)
             [] BufSize >= hdr[1].length /\ hdr[1].type = 1 ->
                  Interface(file, next, hdr[1].length)
             [] OTHER -> Unknown(next, hdr[1].length)

_peak_load_netmon(file, self) ==
  IF self.netmon_pos = Len(self.netmon_table) THEN self
  ELSE LET at == [self EXCEPT !.pos = self.netmon_table[self.netmon_pos + 1].offset,
                              !.netmon_pos = @ + 1]
           hdr == Read(file, at.pos, 1)
       IN  IF hdr = <<>> THEN at
           ELSE ReadLimited(file, at, hdr[1].include_length, hdr[1].original_length)

\* peak_load_packet(), or one block of it if the format is PCAPNG.
peak_load_packet(file, self) ==
  LET none == [self EXCEPT !.len = 0] IN
  CASE self.fmt = "erf" -> Return(_peak_load_erf(file, none))
    [] self.fmt \in {"pcap", "pcap_swap"} -> Return(_peak_load_pcap(file, none))
    [] self.fmt = "pcapng" -> _peak_load_pcapng(file, none)
    [] self.fmt = "netmon" -> Return(_peak_load_netmon(file, none))

\* calloc() at the end of peak_load_init()
Opened(fmt, pos, ll, table) ==
  <<[fmt |-> fmt, pos |-> pos, ll |-> ll, len |-> 0, netmon_table |-> table,
     netmon_pos |-> 0, buf |-> [i \in 1 .. BufSize |-> Zero]]>>

\* peak_load_init() of a file: nothing (NULL), or the reader of its format.
peak_load_init(file) ==
  IF file = <<>> THEN <<>>
  ELSE LET hdr == file[1] IN
       CASE hdr.is = "pcap" -> Opened("pcap", 1, hdr.network, <<>>)
         [] hdr.is = "pcap_swap" -> Opened("pcap_swap", 1, bswap32(hdr.network), <<>>)
         [] hdr.is = "netmon" ->
              LET table == Read(file, hdr.frame_table_offset, hdr.frame_table_length) IN
              IF \/ hdr.version # <<2, 0>>
                 \/ hdr.network > 1
                 \/ Len(table) # hdr.frame_table_length
              THEN <<>>
              ELSE Opened("netmon", 1, LINKTYPE_ETHERNET, table)
         [] hdr.is = "pcapng" -> Opened("pcapng", hdr.length, 0, <<>>)
         [] OTHER -> Opened("erf", 0, LINKTYPE_ETHERNET, <<>>)

\* peak_store_init(): the file as it is created.
peak_store_init == <<[is |-> "pcap", network |-> LINKTYPE_ETHERNET]>>

\* What is in memory behind the buffer, the last member of struct peak_load.
Foreign == [is |-> "foreign"]

\* The memory from the buffer on.
Memory(buf, i) == IF i <= BufSize THEN buf[i] ELSE Foreign

\* A variant that leaves out the first byte of a packet.
StoreLess(buf, len) ==
  <<[is |-> "record", incl_len |-> len, orig_len |-> len]>>
    \o [i \in 1 .. len |-> Memory(buf, i + 1)]

\* What the two calls of write() in peak_store_packet() add to a file: the
\* length is not compared with that of the buffer.
StoreCells(buf, len) ==
  <<[is |-> "record", incl_len |-> len, orig_len |-> len]>>
    \o [i \in 1 .. len |-> Memory(buf, i)]

\* peak_store_packet(), when only some of the cells could be written.
peak_store_packet(file, buf, len, written) ==
  file \o SubSeq(StoreCells(buf, len), 1, written)
=============================================================================
