------------------------------- MODULE PeakLi --------------------------------
(***************************************************************************)
(* The lightweight inspection of lib/peak_li.c: which application sent a   *)
(* packet, told from the first bytes of its payload.                       *)
(*                                                                         *)
(* A packet is what the parser leaves behind, see PeakPacket.  Of its      *)
(* payload the signatures see the length app_len, the first four bytes as  *)
(* a word (app.text, for the text protocols) and single bytes: app.at maps *)
(* the offsets of those that are not zero.  What lies in memory behind the *)
(* payload is app.behind.  A signature is a predicate named like the       *)
(* function it stands for, and the layout of its header is in the offsets. *)
(***************************************************************************)
EXTENDS Integers, Sequences, SequencesExt

IPPROTO_ICMP    == 1
IPPROTO_IGMP    == 2
IPPROTO_TCP     == 6
IPPROTO_UDP     == 17
IPPROTO_GRE     == 47
IPPROTO_ICMPV6  == 58
IPPROTO_OSPFIGP == 89
IPPROTO_L2TP    == 115
IPPROTO_MAX     == 256

\* The enumeration of peak_li.h from LI_UNDEFINED on: a label is a position.
Labels ==
  <<"undefined", "http", "rtsp", "pop3", "imap", "smtp", "stun", "pptp",
    "telnet", "dhcp", "ssh", "irc", "ftp", "sip", "dns", "cvs", "bittorrent",
    "gnutella", "netbios", "rtcp", "rtp", "rip", "bgp", "ike", "dtls", "tls",
    "ldap", "snmp", "tftp", "xmpp", "impp", "openvpn", "syslog", "l2tp",
    "ntp", "netflow", "radius", "ospf", "icmp", "igmp">>

LI_UNKNOWN == 0
LI_UNDEFINED == 1
LI(name) == CHOOSE n \in DOMAIN Labels : Labels[n] = name
-----------------------------------------------------------------------------
\* packet->app.raw[i], also when i is behind the payload.
Byte(p, i) ==
  CASE i >= p.app_len -> p.app.behind
    [] i < p.app_len /\ i \in DOMAIN p.app.at -> p.app.at[i]
    [] OTHER -> 0

be16dec(p, i) == 256 * Byte(p, i) + Byte(p, i + 1)

\* Is be32dec() of offset i the number with these two halves?
Is32(p, i, high, low) == be16dec(p, i) = high /\ be16dec(p, i + 2) = low

\* Are the bytes of these offsets all zero?
Zero(p, offsets) == \A i \in offsets : Byte(p, i) = 0

\* The n bits of x from bit number k up.
Bits(x, k, n) == (x \div 2^k) % 2^n

\* LI_STRLEN(): length of the string at off, 0 when its end is not inside.
LI_STRLEN(p, off) ==
  LET ends == {i \in off .. p.app_len - 1 : Byte(p, i) = 0} IN
  IF ends = {} THEN 0 ELSE Min(ends) - off

\* A variant that looks at the destination only.
ExcludeDestination(p, ports) == p.flow_dport \in ports

\* LI_EXCLUDE_PORT() of several ports: does one side alone use one of them?
LI_EXCLUDE_PORT(p, ports) ==
  \E prt \in ports : (p.flow_sport = prt) # (p.flow_dport = prt)

\* LI_MATCH_PAYLOAD() with the usual four bytes.
LI_MATCH_PAYLOAD(p, strings) == p.app_len >= 4 /\ p.app.text \in strings

\* TCP pads some headers with two bytes of length.
Padding(p) == IF p.net_type = IPPROTO_TCP THEN 2 ELSE 0

\* TCP: verify that the length is somewhat correct.
PaddingOK(p) == Padding(p) = 0 \/ be16dec(p, 0) + 2 >= p.app_len
-----------------------------------------------------------------------------
dns(p) ==
  LET at == Padding(p)
      flags == be16dec(p, at + 2) IN
  /\ p.app_len >= 12 + at
  /\ PaddingOK(p)
  /\ Bits(flags, 4, 3) = 0
  /\ Bits(flags, 11, 4) \in 0 .. 2
  /\ IF Bits(flags, 15, 1) = 1
     THEN Bits(flags, 0, 4) \in {0, 1, 3, 4, 5}
     ELSE /\ Bits(flags, 0, 4) = 0
          /\ Bits(flags, 10, 1) = 0 /\ Bits(flags, 7, 1) = 0
          /\ be16dec(p, at + 4) # 0
          /\ be16dec(p, at + 6) = 0

dhcp(p) ==
  p.app_len >= 236 /\ Byte(p, 0) \in {1, 2} /\ Byte(p, 1) = 1 /\ Byte(p, 2) = 6

stun(p) ==
  \/ LI_MATCH_PAYLOAD(p, {"RSP/"})
  \/ p.app_len >= 20 /\ Is32(p, 4, 8466, 42050)

cvs(p) == LI_MATCH_PAYLOAD(p, {"BEGI", "I LO", "I HA"})

rtcp(p) ==
  /\ p.app_len >= 4
  /\ Bits(Byte(p, 0), 6, 2) = 2
  /\ Byte(p, 1) \in (192 .. 195) \cup (200 .. 209)

rtp(p) ==
  /\ p.app_len >= 12
  /\ Bits(Byte(p, 0), 6, 2) = 2
  /\ \/ Zero(p, 4 .. 7)
     \/ Bits(Byte(p, 1), 0, 7) \in
          {0} \cup (3 .. 18) \cup {25, 26, 28} \cup (31 .. 34)

sip(p) ==
  LI_MATCH_PAYLOAD(p,
    {"SIP/", "INVI", "ACK ", "BYE ", "CANC", "OPTI", "REGI", "PRAC", "SUBS",
     "NOTI", "PUBL", "INFO", "REFE", "MESS", "UPDA"})

ftp(p) ==
  /\ ~LI_EXCLUDE_PORT(p, {110, 25, 465, 587, 194, 6667})
  /\ LI_MATCH_PAYLOAD(p, {"220 ", "220-", "USER"})

ssh(p) == LI_MATCH_PAYLOAD(p, {"SSH-"})

imap(p) == LI_MATCH_PAYLOAD(p, {"* OK"})

\* A variant that lost its exclusion of FTP.
smtpAnyPort(p) == LI_MATCH_PAYLOAD(p, {"220 ", "220-", "HELO", "EHLO"})

smtp(p) ==
  /\ ~LI_EXCLUDE_PORT(p, {21})
  /\ LI_MATCH_PAYLOAD(p, {"220 ", "220-", "HELO", "EHLO"})

pop3(p) ==
  /\ ~LI_EXCLUDE_PORT(p, {21, 194, 6667})
  /\ LI_MATCH_PAYLOAD(p, {"+OK ", "USER", "CAPA", "AUTH"})

\* A variant that looks for the next command without asking for the length.
telnetUnchecked(p) ==
  LET next == CASE Byte(p, 1) = 240 -> 2 [] Byte(p, 1) = 250 -> 4 [] OTHER -> 3 IN
  p.app_len >= 2 /\ Byte(p, 0) = 255 /\ Byte(p, next) = 255

telnet(p) ==
  LET next == CASE Byte(p, 1) = 240 -> 2 [] Byte(p, 1) = 250 -> 4 [] OTHER -> 3 IN
  /\ p.app_len >= 2
  /\ Byte(p, 0) = 255
  /\ p.app_len > next => Byte(p, next) = 255

rip(p) ==
  /\ p.app_len >= 24
  /\ Zero(p, 2 .. 3)
  /\ Byte(p, 1) \in {1, 2}
  /\ Byte(p, 0) \in {1, 2}

dtls(p) ==
  /\ p.app_len >= 13
  /\ be16dec(p, 11) \in 1 .. 16384
  /\ be16dec(p, 1) = 65279

tls(p) ==
  /\ p.app_len >= 5
  /\ be16dec(p, 3) \in 1 .. 16384
  /\ Byte(p, 0) \in 20 .. 23
  /\ be16dec(p, 1) \in 768 .. 771

ike(p) ==
  /\ p.app_len >= 28
  /\ ~Zero(p, 0 .. 7)
  /\ \/ /\ Bits(Byte(p, 17), 4, 4) = 1
        /\ Byte(p, 16) \in 1 .. 13 /\ Byte(p, 18) \in 1 .. 5
     \/ /\ Bits(Byte(p, 17), 4, 4) = 2
        /\ Byte(p, 16) \in 33 .. 49 /\ Byte(p, 18) \in 34 .. 38
  /\ Is32(p, 24, 0, p.app_len)

bgp(p) ==
  /\ p.app_len >= 19
  /\ \A i \in 0 .. 15 : Byte(p, i) = 255
  /\ be16dec(p, 16) >= 19
  /\ Byte(p, 18) \in 1 .. 5

http(p) ==
  LI_MATCH_PAYLOAD(p,
    {"HTTP", "GET ", "HEAD", "POST", "PUT ", "DELE", "TRAC", "CONN", "OPTI",
     "PROP", "MKCO", "COPY", "MOVE", "LOCK", "UNLO", "SOUR"})

rtsp(p) ==
  LI_MATCH_PAYLOAD(p,
    {"RTSP", "DESC", "ANNO", "GET_", "OPTI", "PAUS", "PLAY", "RECO", "REDI",
     "SETU", "SET_", "TEAR"})

\* A NetFlow header, its records of 48 bytes, and the padding of the first.
NetflowRecords(p, header, max, pads) ==
  LET count == be16dec(p, 2) IN
  /\ p.app_len >= header + 48
  /\ count \in 1 .. max
  /\ Zero(p, pads)
  /\ ~Zero(p, header .. header + 3) /\ ~Zero(p, header + 4 .. header + 7)
  /\ p.app_len = header + 48 * count

netflow_v1(p) == NetflowRecords(p, 16, 24, {52, 53, 57, 58, 59})

netflow_v5(p) == NetflowRecords(p, 24, 30, {60, 70, 71})

netflow(p) ==
  /\ p.app_len >= 2
  /\ \/ be16dec(p, 0) = 1 /\ netflow_v1(p)
     \/ be16dec(p, 0) = 5 /\ netflow_v5(p)

radius(p) ==
  /\ p.app_len >= 20
  /\ be16dec(p, 2) \in 20 .. 4096
  /\ p.app_len = be16dec(p, 2)
  /\ Byte(p, 0) \in (1 .. 5) \cup (11 .. 13)

\* The word begins with a byte of value 19.
bittorrent(p) == LI_MATCH_PAYLOAD(p, {"19Bit"})

gnutella(p) == LI_MATCH_PAYLOAD(p, {"GNUT", "GIV "})

netbios_name_service(p) ==
  LET at == Padding(p)
      flags == be16dec(p, at + 2) IN
  /\ p.app_len >= 12 + at
  /\ Bits(flags, 5, 2) = 0
  /\ Bits(flags, 0, 4) \in 0 .. 7
  /\ Bits(flags, 11, 4) \in {0} \cup (5 .. 8)

\* A read or write request: a file name and a mode, both terminated.
TftpRequest(p) ==
  LET file_len == LI_STRLEN(p, 2) IN
  /\ file_len > 0
  /\ LI_STRLEN(p, 2 + file_len + 1) > 0
  /\ Byte(p, 2 + file_len + 1) \in {79, 111, 78, 110, 77, 109}

tftp(p) ==
  /\ p.app_len >= 4
  /\ LET opcode == be16dec(p, 0) IN
       \/ opcode \in {1, 2} /\ TftpRequest(p)
       \/ opcode = 3 /\ be16dec(p, 2) # 0 /\ p.app_len <= 4 + 512
       \/ opcode = 4 /\ p.app_len = 4
       \/ opcode = 5 /\ be16dec(p, 2) \in 0 .. 7

netbios_session_service(p) ==
  /\ p.net_type = IPPROTO_TCP
  /\ p.app_len >= 4
  /\ Bits(Byte(p, 1), 1, 7) = 0
  /\ Byte(p, 0) \in {0} \cup (129 .. 133)

netbios_datagram_service(p) ==
  /\ p.net_type = IPPROTO_UDP
  /\ p.app_len >= 14
  /\ Bits(Byte(p, 1), 4, 4) = 0
  /\ ~Zero(p, 4 .. 7) /\ ~Zero(p, 8 .. 9)
  /\ Byte(p, 0) \in 16 .. 22

netbios(p) ==
  netbios_datagram_service(p) \/ netbios_session_service(p) \/ netbios_name_service(p)

pptp_raw(p) ==
  /\ p.app_len >= 8
  /\ Is32(p, 4, 6699, 15437)
  /\ be16dec(p, 0) >= 8
  /\ be16dec(p, 2) \in {1, 2}

l2tp(p) ==
  LET flags == Byte(p, 0) IN
  /\ p.app_len >= 12
  /\ Byte(p, 1) \in {2, 3}
  /\ Bits(flags, 7, 1) = 1
  /\ Bits(flags, 3, 4) # 0
  /\ Bits(flags, 0, 3) = 0 /\ Bits(flags, 4, 2) = 0
  /\ p.app_len = be16dec(p, 2)

ntp(p) ==
  LET version == Bits(Byte(p, 0), 3, 3)
      mode == Bits(Byte(p, 0), 0, 1) + Bits(Byte(p, 0), 2, 1) IN
  /\ p.app_len >= 48
  /\ \/ version = 1 /\ p.app_len = 48 /\ mode = 0
     \/ version \in {2, 3} /\ p.app_len \in {48, 60} /\ mode # 0
     \/ version = 4 /\ p.app_len \in {48, 68} /\ mode # 0

\* The header of a GRE packet is not part of the payload: flow.raw.
pptp_gre(p) ==
  LET raw(i) == IF i \in DOMAIN p.flow.at THEN p.flow.at[i] ELSE 0 IN
  /\ p.flow_len >= 8
  /\ 256 * raw(2) + raw(3) = 34827
  /\ Bits(raw(0), 0, 4) = 0 /\ Bits(raw(0), 6, 2) = 0
  /\ Bits(raw(0), 5, 1) = 1
  /\ Bits(raw(1), 0, 3) = 1
  /\ Bits(raw(1), 3, 4) = 0

pptp(p) == IF p.net_type = IPPROTO_GRE THEN pptp_gre(p) ELSE pptp_raw(p)

ldap(p) ==
  LET message_length == Byte(p, 7)
      op_type == Byte(p, 8 + message_length) IN
  /\ p.app_len >= 8
  /\ Byte(p, 0) = 48
  /\ Byte(p, 1) = 132
  /\ Byte(p, 6) = 2 /\ message_length # 0
  /\ p.app_len >= 8 + message_length
  /\ Bits(op_type, 5, 3) = 3
  /\ Bits(op_type, 0, 5) \in (0 .. 16) \cup {19, 23, 24}

snmp(p) ==
  LET community_length == Byte(p, 6) IN
  /\ p.app_len >= 7
  /\ Byte(p, 0) = 48
  /\ Byte(p, 2) = 2 /\ Byte(p, 3) = 1 /\ Byte(p, 4) \in {0, 1, 3}
  /\ Byte(p, 5) = 4
  /\ p.app_len >= 7 + community_length + 2
  /\ Byte(p, 7 + community_length + 2) \in 0 .. 8

impp(p) ==
  /\ p.app_len >= 4
  /\ Byte(p, 0) = 111
  /\ Byte(p, 1) \in {1, 2}
  /\ be16dec(p, 2) \in {6, 7, 8, 10}

xmpp(p) == LI_MATCH_PAYLOAD(p, {"<?xm", "<str", "<pre"})

openvpn(p) ==
  /\ p.app_len >= 9 + Padding(p)
  /\ PaddingOK(p)
  /\ Byte(p, Padding(p)) \in {32, 40, 56, 64}

irc(p) ==
  /\ ~LI_EXCLUDE_PORT(p, {110, 21})
  /\ LI_MATCH_PAYLOAD(p,
       {"NICK", "PASS", "USER", ":irc", ":loc", "WHO ", "WHOI", "PING",
        "CAP ", "JOIN", "PRIV"})

LI_ISDIGIT(x) == x \in 48 .. 57

syslog(p) ==
  /\ p.app_len >= 3
  /\ Byte(p, 0) = 60
  /\ LI_ISDIGIT(Byte(p, 1))
  /\ LI_ISDIGIT(Byte(p, 2)) \/ Byte(p, 2) = 62
-----------------------------------------------------------------------------
\* An entry of the table: its label and the IP types it is for.
App(name, p1, p2) == [name |-> name, proto |-> {p1, p2}]
TcpApp(name) == App(name, IPPROTO_TCP, IPPROTO_MAX)
UdpApp(name) == App(name, IPPROTO_UDP, IPPROTO_MAX)
BothApp(name) == App(name, IPPROTO_UDP, IPPROTO_TCP)

\* The table, in the order in which its entries are tried.
apps ==
  <<App("icmp", IPPROTO_ICMP, IPPROTO_ICMPV6), App("igmp", IPPROTO_IGMP, IPPROTO_MAX),
    App("ospf", IPPROTO_OSPFIGP, IPPROTO_MAX), App("l2tp", IPPROTO_L2TP, IPPROTO_MAX),
    App("pptp", IPPROTO_TCP, IPPROTO_GRE), TcpApp("http"), BothApp("rtsp"),
    TcpApp("pop3"), TcpApp("imap"), TcpApp("smtp"), TcpApp("ftp"), TcpApp("cvs"),
    TcpApp("ssh"), TcpApp("irc"), BothApp("stun"), BothApp("sip"), UdpApp("rip"),
    UdpApp("radius"), TcpApp("bgp"), UdpApp("ike"), UdpApp("netflow"), UdpApp("tftp"),
    UdpApp("dhcp"), UdpApp("dtls"), TcpApp("tls"), TcpApp("ldap"), UdpApp("snmp"),
    TcpApp("bittorrent"), TcpApp("gnutella"), TcpApp("impp"), TcpApp("xmpp"),
    BothApp("syslog"), UdpApp("l2tp"), UdpApp("ntp"), BothApp("dns"),
    BothApp("openvpn"), UdpApp("rtcp"), BothApp("netbios"), TcpApp("telnet"),
    UdpApp("rtp"), App("undefined", IPPROTO_MAX, IPPROTO_MAX)>>

\* apps[i].function(): the entries that match by IP type look no further.
Function(app, p) ==
  LET name == app.name IN
  CASE name \in {"icmp", "igmp", "ospf", "undefined"} \/ IPPROTO_L2TP \in app.proto
                          -> TRUE
    [] name = "pptp"      -> pptp(p)
    [] name = "http"      -> http(p)
    [] name = "rtsp"      -> rtsp(p)
    [] name = "pop3"      -> pop3(p)
    [] name = "imap"      -> imap(p)
    [] name = "smtp"      -> smtp(p)
    [] name = "ftp"       -> ftp(p)
    [] name = "cvs"       -> cvs(p)
    [] name = "ssh"       -> ssh(p)
    [] name = "irc"       -> irc(p)
    [] name = "stun"      -> stun(p)
    [] name = "sip"       -> sip(p)
    [] name = "rip"       -> rip(p)
    [] name = "radius"    -> radius(p)
    [] name = "bgp"       -> bgp(p)
    [] name = "ike"       -> ike(p)
    [] name = "netflow"   -> netflow(p)
    [] name = "tftp"      -> tftp(p)
    [] name = "dhcp"      -> dhcp(p)
    [] name = "dtls"      -> dtls(p)
    [] name = "tls"       -> tls(p)
    [] name = "ldap"      -> ldap(p)
    [] name = "snmp"      -> snmp(p)
    [] name = "bittorrent" -> bittorrent(p)
    [] name = "gnutella"  -> gnutella(p)
    [] name = "impp"      -> impp(p)
    [] name = "xmpp"      -> xmpp(p)
    [] name = "syslog"    -> syslog(p)
    [] name = "l2tp" /\ IPPROTO_L2TP \notin app.proto -> l2tp(p)
    [] name = "ntp"       -> ntp(p)
    [] name = "dns"       -> dns(p)
    [] name = "openvpn"   -> openvpn(p)
    [] name = "rtcp"      -> rtcp(p)
    [] name = "netbios"   -> netbios(p)
    [] name = "telnet"    -> telnet(p)
    [] name = "rtp"       -> rtp(p)

\* The entry is for packets of this type.
For(app, p) == p.net_type \in app.proto

\* A variant that takes the first entry of the label, whatever its IP type.
TestFirstEntry(p, label) ==
  LET i == SelectInSeq(apps, LAMBDA app : LI(app.name) = label) IN
  i # 0 /\ Function(apps[i], p)

\* Does the first entry of the label for this IP type match?
peak_li_test(p, label) ==
  LET i == SelectInSeq(apps, LAMBDA app : LI(app.name) = label /\ For(app, p)) IN
  i # 0 /\ Function(apps[i], p)

\* TCP and UDP need a payload to look at.
Blind(p) == p.net_type \in {IPPROTO_TCP, IPPROTO_UDP} /\ p.app_len = 0

\* The label of the first entry that matches.
peak_li_get(p) ==
  LET i == SelectInSeq(apps, LAMBDA app : For(app, p) /\ Function(app, p)) IN
  CASE Blind(p) -> LI_UNKNOWN
    [] ~Blind(p) /\ i # 0 -> LI(apps[i].name)
    [] ~Blind(p) /\ i = 0 -> IF p.app_len = 0 THEN LI_UNKNOWN ELSE LI_UNDEFINED

\* A variant that confuses the position in the table with the label.
NumberInTable(name) == SelectInSeq(apps, LAMBDA app : app.name = name)

\* peak_li_number(): the label of a name, case aside.
peak_li_number(name) ==
  LET i == SelectInSeq(apps, LAMBDA app : app.name = name) IN
  IF i = 0 THEN LI_UNKNOWN ELSE LI(apps[i].name)

\* peak_li_data() for peak_li_name(): "panic" for a label without an entry.
peak_li_name(label) ==
  LET i == SelectInSeq(apps, LAMBDA app : LI(app.name) = label) IN
  CASE label = LI_UNKNOWN -> "unknown"
    [] label # LI_UNKNOWN /\ i # 0 -> apps[i].name
    [] OTHER -> "panic"

\* peak_li_merge(): both directions joined.
peak_li_merge(li) ==
  LET ret == IF li[1] > li[2] THEN li[1] ELSE li[2] IN
  IF ret = LI_UNDEFINED /\ LI_UNKNOWN \in {li[1], li[2]} THEN LI_UNKNOWN ELSE ret
=============================================================================
