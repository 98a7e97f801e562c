--------------------------- MODULE PeakPeekProofs ----------------------------
(***************************************************************************)
(* From a frame to the label of its flow: lib/peak_packet.c, lib/peak_li.c *)
(* and bin/peek, for every trace of frames and a tracker of any size.      *)
(*                                                                         *)
(* The parser is a chain of length checks: each layer is shown to leave a  *)
(* packet whose lengths add up, and the walk over IPv6 extension headers   *)
(* to end because every two of its rounds pass eight bytes or more, unless *)
(* a header has length zero.  The signatures read a packet through a few   *)
(* operators only, so packets that these cannot tell apart have one label. *)
(* The table of flows is followed over all that the tracker does to it.    *)
(***************************************************************************)
EXTENDS PeakPeek, SequenceTheorems, PeakArithmetic, TLAPS

\* The names of the table, and the labels they have.
Names ==
  <<"icmp", "igmp", "ospf", "l2tp", "pptp", "http", "rtsp", "pop3", "imap", "smtp",
    "ftp", "cvs", "ssh", "irc", "stun", "sip", "rip", "radius", "bgp", "ike",
    "netflow", "tftp", "dhcp", "dtls", "tls", "ldap", "snmp", "bittorrent",
    "gnutella", "impp", "xmpp", "syslog", "l2tp", "ntp", "dns", "openvpn", "rtcp",
    "netbios", "telnet", "rtp", "undefined">>
LabelOf ==
  <<39, 40, 38, 34, 8, 2, 3, 4, 5, 6, 13, 16, 11, 12, 7, 14, 22, 37, 23, 24, 36,
    29, 10, 25, 26, 27, 28, 17, 18, 31, 30, 33, 34, 35, 15, 32, 20, 19, 9, 21, 1>>

\* The table of applications and the enumeration have these sizes.
LEMMA TableSizes ==
  /\ Len(apps) = 41 /\ DOMAIN apps = 1 .. 41
  /\ Len(Labels) = 40 /\ DOMAIN Labels = 1 .. 40
  /\ DOMAIN LabelOf = 1 .. 41 /\ \A i \in 1 .. 41 : LabelOf[i] \in 1 .. 40
BY DEF apps, Labels, LabelOf

\* No name is twice in the enumeration, and LI() finds them all.
LEMMA LabelsDistinct == \A m, n \in 1 .. 40 : Labels[m] = Labels[n] => m = n
BY DEF Labels

LEMMA LabelFound == \A n \in 1 .. 40 : LI(Labels[n]) = n
BY LabelsDistinct, TableSizes DEF LI

\* The entries have their names, which are names of labels.
LEMMA EntryName == \A i \in 1 .. 41 : apps[i].name = Names[i]
<1>1. \A i \in 1 .. 41 : \E t, u : apps[i] = App(Names[i], t, u)
  BY DEF apps, TcpApp, UdpApp, BothApp, Names
<1>2. TAKE i \in 1 .. 41
<1>3. PICK t, u : apps[i] = App(Names[i], t, u)
  BY <1>1
<1> QED BY <1>3 DEF App

LEMMA EntryLabel == \A i \in 1 .. 41 : LI(apps[i].name) = LabelOf[i]
<1>1. \A i \in 1 .. 41 : Names[i] = Labels[LabelOf[i]]
  BY DEF Names, Labels, LabelOf
<1> QED BY <1>1, EntryName, LabelFound, TableSizes

\* Only l2tp has two entries.
LEMMA EntryTwice ==
  \A i, j \in 1 .. 41 : LabelOf[i] = LabelOf[j] => i = j \/ {i, j} = {4, 33}
BY DEF LabelOf

LEMMA EntryProto ==
  /\ apps[4].proto = {115, 256} /\ apps[33].proto = {17, 256}
  /\ apps[26].proto = {6, 256} /\ apps[27].proto = {17, 256}
  /\ apps[41].proto = {256}
BY DEF apps, TcpApp, UdpApp, App, IPPROTO_TCP, IPPROTO_UDP, IPPROTO_MAX, IPPROTO_L2TP

\* Labels with a meaning of their own, and where they are.
LEMMA EntrySpecial ==
  \A i \in 1 .. 41 :
    /\ Names[i] = "ldap" => i = 26
    /\ Names[i] = "snmp" => i = 27
    /\ LabelOf[i] = 1 <=> i = 41
    /\ Names[i] # "unknown"
BY DEF Names, LabelOf
-----------------------------------------------------------------------------
(***************************************************************************)
(* Two packets the signatures cannot tell apart: they differ in what lies  *)
(* behind their payload at most, and in which of the ports is which.       *)
(***************************************************************************)
Alike(p, q) ==
  /\ q.net_type = p.net_type /\ q.app_len = p.app_len
  /\ q.flow_len = p.flow_len /\ q.flow = p.flow /\ q.app.text = p.app.text
  /\ \A ports : LI_EXCLUDE_PORT(q, ports) <=> LI_EXCLUDE_PORT(p, ports)
  /\ p.app_len \in Nat
  /\ \A i \in Nat : Byte(p, i) \in Nat
  /\ \A i \in Nat : i < p.app_len => Byte(q, i) = Byte(p, i)
  /\ p.net_type = IPPROTO_TCP /\ p.app_len >= 8 + Byte(p, 7) =>
       Byte(q, 8 + Byte(p, 7)) = Byte(p, 8 + Byte(p, 7))
  /\ p.net_type = IPPROTO_UDP /\ p.app_len >= 7 + Byte(p, 6) + 2 =>
       Byte(q, 7 + Byte(p, 6) + 2) = Byte(p, 7 + Byte(p, 6) + 2)

\* Words and numbers inside of the payload are the same.
LEMMA AlikeMatch ==
  ASSUME NEW p, NEW q, Alike(p, q)
  PROVE  \A S : LI_MATCH_PAYLOAD(q, S) <=> LI_MATCH_PAYLOAD(p, S)
BY DEF Alike, LI_MATCH_PAYLOAD

LEMMA AlikeWord ==
  ASSUME NEW p, NEW q, Alike(p, q)
  PROVE  \A i \in Nat : i + 1 < p.app_len => be16dec(q, i) = be16dec(p, i)
BY DEF Alike, be16dec

\* The text protocols see the first word and the ports.
LEMMA AlikeText ==
  ASSUME NEW p, NEW q, Alike(p, q)
  PROVE  /\ (http(q) <=> http(p)) /\ (rtsp(q) <=> rtsp(p)) /\ (pop3(q) <=> pop3(p))
         /\ (imap(q) <=> imap(p)) /\ (smtp(q) <=> smtp(p)) /\ (ftp(q) <=> ftp(p))
         /\ (cvs(q) <=> cvs(p)) /\ (ssh(q) <=> ssh(p)) /\ (irc(q) <=> irc(p))
         /\ (sip(q) <=> sip(p)) /\ (bittorrent(q) <=> bittorrent(p))
         /\ (gnutella(q) <=> gnutella(p)) /\ (xmpp(q) <=> xmpp(p))
<1>1. /\ (http(q) <=> http(p)) /\ (rtsp(q) <=> rtsp(p)) /\ (imap(q) <=> imap(p))
      /\ (cvs(q) <=> cvs(p)) /\ (ssh(q) <=> ssh(p)) /\ (sip(q) <=> sip(p))
      /\ (bittorrent(q) <=> bittorrent(p)) /\ (gnutella(q) <=> gnutella(p))
      /\ (xmpp(q) <=> xmpp(p))
  BY AlikeMatch, Zenon DEF http, rtsp, imap, cvs, ssh, sip, bittorrent, gnutella, xmpp
<1>2. /\ (pop3(q) <=> pop3(p)) /\ (smtp(q) <=> smtp(p)) /\ (ftp(q) <=> ftp(p))
      /\ (irc(q) <=> irc(p))
  <2>1. \A ports : LI_EXCLUDE_PORT(q, ports) <=> LI_EXCLUDE_PORT(p, ports)
    BY DEF Alike
  <2>2. \A S : LI_MATCH_PAYLOAD(q, S) <=> LI_MATCH_PAYLOAD(p, S)
    BY AlikeMatch
  <2>3. pop3(q) <=> pop3(p)
    <3> DEFINE A == {21, 194, 6667}
               B == {"+OK ", "USER", "CAPA", "AUTH"}
    <3>1. \A x : pop3(x) <=> ~LI_EXCLUDE_PORT(x, A) /\ LI_MATCH_PAYLOAD(x, B)
      BY DEF pop3
    <3> HIDE DEF A, B
    <3> QED BY <2>1, <2>2, <3>1, Zenon
  <2>4. smtp(q) <=> smtp(p)
    BY <2>1, <2>2, Zenon DEF smtp
  <2>5. ftp(q) <=> ftp(p)
    <3> DEFINE A == {110, 25, 465, 587, 194, 6667}
               B == {"220 ", "220-", "USER"}
    <3>1. \A x : ftp(x) <=> ~LI_EXCLUDE_PORT(x, A) /\ LI_MATCH_PAYLOAD(x, B)
      BY DEF ftp
    <3> HIDE DEF A, B
    <3> QED BY <2>1, <2>2, <3>1, Zenon
  <2>6. irc(q) <=> irc(p)
    BY <2>1, <2>2, Zenon DEF irc
  <2> QED BY <2>3, <2>4, <2>5, <2>6
<1> QED BY <1>1, <1>2

\* The ones with a header of fixed size see what they asked the length for.
LEMMA AlikeStun ==
  ASSUME NEW p, NEW q, Alike(p, q)
  PROVE  stun(q) <=> stun(p)
BY DEF Alike, stun, LI_MATCH_PAYLOAD, Is32, be16dec

LEMMA AlikePptp ==
  ASSUME NEW p, NEW q, Alike(p, q)
  PROVE  pptp(q) <=> pptp(p)
<1>1. pptp_gre(q) <=> pptp_gre(p)
  BY DEF Alike, pptp_gre
<1>2. pptp_raw(q) <=> pptp_raw(p)
  <2>1. \A i \in Nat : i + 1 < p.app_len => be16dec(q, i) = be16dec(p, i)
    BY AlikeWord
  <2>2. q.app_len = p.app_len /\ p.app_len \in Nat
    BY DEF Alike
  <2> QED BY <2>1, <2>2 DEF pptp_raw, Is32
<1> QED BY <1>1, <1>2 DEF Alike, pptp

LEMMA AlikeRip ==
  ASSUME NEW p, NEW q, Alike(p, q)
  PROVE  rip(q) <=> rip(p)
BY DEF Alike, rip, Zero

LEMMA AlikeRadius ==
  ASSUME NEW p, NEW q, Alike(p, q)
  PROVE  radius(q) <=> radius(p)
BY DEF Alike, radius, be16dec

LEMMA AlikeBgp ==
  ASSUME NEW p, NEW q, Alike(p, q)
  PROVE  bgp(q) <=> bgp(p)
BY DEF Alike, bgp, be16dec

LEMMA AlikeIke ==
  ASSUME NEW p, NEW q, Alike(p, q)
  PROVE  ike(q) <=> ike(p)
<1>1. /\ q.app_len = p.app_len /\ p.app_len \in Nat
      /\ \A i \in Nat : i < p.app_len => Byte(q, i) = Byte(p, i)
      /\ \A i \in Nat : i + 1 < p.app_len => be16dec(q, i) = be16dec(p, i)
  BY AlikeWord DEF Alike
<1>2. CASE p.app_len >= 28
  <2>1. Byte(q, 16) = Byte(p, 16) /\ Byte(q, 17) = Byte(p, 17) /\ Byte(q, 18) = Byte(p, 18)
    BY <1>1, <1>2
  <2>2. Zero(q, 0 .. 7) <=> Zero(p, 0 .. 7)
    BY <1>1, <1>2 DEF Zero
  <2>3. Is32(q, 24, 0, p.app_len) <=> Is32(p, 24, 0, p.app_len)
    BY <1>1, <1>2 DEF Is32
  <2> QED BY <1>1, <2>1, <2>2, <2>3 DEF ike
<1>3. CASE ~(p.app_len >= 28)
  BY <1>1, <1>3 DEF ike
<1> QED BY <1>2, <1>3

LEMMA AlikeNetflow ==
  ASSUME NEW p, NEW q, Alike(p, q)
  PROVE  netflow(q) <=> netflow(p)
BY DEF Alike, netflow, netflow_v1, netflow_v5, NetflowRecords, be16dec, Zero

LEMMA AlikeDhcp ==
  ASSUME NEW p, NEW q, Alike(p, q)
  PROVE  dhcp(q) <=> dhcp(p)
BY DEF Alike, dhcp

LEMMA AlikeTls ==
  ASSUME NEW p, NEW q, Alike(p, q)
  PROVE  (dtls(q) <=> dtls(p)) /\ (tls(q) <=> tls(p))
<1>1. \A i \in Nat : i + 1 < p.app_len => be16dec(q, i) = be16dec(p, i)
  BY AlikeWord
<1>2. /\ q.app_len = p.app_len /\ p.app_len \in Nat
      /\ \A i \in Nat : i < p.app_len => Byte(q, i) = Byte(p, i)
  BY DEF Alike
<1>3. dtls(q) <=> dtls(p)
  BY <1>1, <1>2 DEF dtls
<1>4. tls(q) <=> tls(p)
  <2>1. p.app_len >= 5 => /\ be16dec(q, 3) = be16dec(p, 3) /\ be16dec(q, 1) = be16dec(p, 1)
                          /\ Byte(q, 0) = Byte(p, 0)
    BY <1>1, <1>2
  <2> QED BY <1>2, <2>1 DEF tls
<1> QED BY <1>3, <1>4

LEMMA AlikeImpp ==
  ASSUME NEW p, NEW q, Alike(p, q)
  PROVE  impp(q) <=> impp(p)
BY DEF Alike, impp, be16dec

LEMMA AlikeSyslog ==
  ASSUME NEW p, NEW q, Alike(p, q)
  PROVE  syslog(q) <=> syslog(p)
BY DEF Alike, syslog, LI_ISDIGIT

LEMMA AlikeL2tp ==
  ASSUME NEW p, NEW q, Alike(p, q)
  PROVE  l2tp(q) <=> l2tp(p)
BY DEF Alike, l2tp, be16dec

LEMMA AlikeNtp ==
  ASSUME NEW p, NEW q, Alike(p, q)
  PROVE  ntp(q) <=> ntp(p)
BY DEF Alike, ntp

LEMMA AlikeDns ==
  ASSUME NEW p, NEW q, Alike(p, q)
  PROVE  dns(q) <=> dns(p)
<1> DEFINE at == Padding(p)
<1>1. /\ q.app_len = p.app_len /\ p.app_len \in Nat
      /\ \A i \in Nat : i + 1 < p.app_len => be16dec(q, i) = be16dec(p, i)
  BY AlikeWord DEF Alike
<1>2. Padding(q) = at /\ at \in Nat
  BY DEF Alike, Padding
<1> HIDE DEF at
<1>3. CASE p.app_len >= 12 + at
  <2>1. PaddingOK(q) <=> PaddingOK(p)
    BY <1>1, <1>2, <1>3 DEF PaddingOK, at
  <2>2. /\ be16dec(q, at + 2) = be16dec(p, at + 2) /\ be16dec(q, at + 4) = be16dec(p, at + 4)
        /\ be16dec(q, at + 6) = be16dec(p, at + 6)
    BY <1>1, <1>2, <1>3
  <2> QED BY <1>1, <1>2, <2>1, <2>2 DEF dns, at
<1>4. CASE ~(p.app_len >= 12 + at)
  BY <1>1, <1>2, <1>4 DEF dns, at
<1> QED BY <1>3, <1>4

LEMMA AlikeOpenvpn ==
  ASSUME NEW p, NEW q, Alike(p, q)
  PROVE  openvpn(q) <=> openvpn(p)
BY DEF Alike, openvpn, Padding, PaddingOK, be16dec

LEMMA AlikeRtp ==
  ASSUME NEW p, NEW q, Alike(p, q)
  PROVE  (rtcp(q) <=> rtcp(p)) /\ (rtp(q) <=> rtp(p))
BY DEF Alike, rtcp, rtp, Zero

LEMMA AlikeNetbios ==
  ASSUME NEW p, NEW q, Alike(p, q)
  PROVE  netbios(q) <=> netbios(p)
<1>1. netbios_name_service(q) <=> netbios_name_service(p)
  BY DEF Alike, netbios_name_service, Padding, be16dec
<1>2. netbios_session_service(q) <=> netbios_session_service(p)
  BY DEF Alike, netbios_session_service
<1>3. netbios_datagram_service(q) <=> netbios_datagram_service(p)
  BY DEF Alike, netbios_datagram_service, Zero
<1> QED BY <1>1, <1>2, <1>3 DEF netbios

\* Where the next command is looked for depends on a byte inside.
LEMMA AlikeTelnet ==
  ASSUME NEW p, NEW q, Alike(p, q)
  PROVE  telnet(q) <=> telnet(p)
BY DEF Alike, telnet

\* The length of a string inside of the payload.
LEMMA AlikeStrlen ==
  ASSUME NEW p, NEW q, Alike(p, q), NEW off \in Nat
  PROVE  /\ LI_STRLEN(q, off) = LI_STRLEN(p, off)
         /\ LI_STRLEN(p, off) \in Nat
         /\ LI_STRLEN(p, off) > 0 => off + LI_STRLEN(p, off) < p.app_len
<1> DEFINE E(x) == {i \in off .. x.app_len - 1 : Byte(x, i) = 0}
<1>1. E(q) = E(p)
  BY DEF Alike
<1>2. E(p) \subseteq Nat /\ p.app_len \in Nat
  BY DEF Alike
<1>3. CASE E(p) = {}
  BY <1>1, <1>3 DEF LI_STRLEN
<1>4. CASE E(p) # {}
  <2>1. Min(E(p)) \in E(p)
    BY <1>2, <1>4, MinNat
  <2>2. Min(E(p)) \in Nat /\ off <= Min(E(p)) /\ Min(E(p)) < p.app_len
    BY <2>1, <1>2
  <2>3. LI_STRLEN(p, off) = Min(E(p)) - off /\ LI_STRLEN(q, off) = Min(E(p)) - off
    BY <1>1, <1>4 DEF LI_STRLEN
  <2> QED BY <2>2, <2>3
<1> QED BY <1>3, <1>4

LEMMA AlikeTftp ==
  ASSUME NEW p, NEW q, Alike(p, q)
  PROVE  tftp(q) <=> tftp(p)
<1>1. TftpRequest(q) <=> TftpRequest(p)
  <2> DEFINE n == LI_STRLEN(p, 2)
             at == 2 + n + 1
             m == LI_STRLEN(p, at)
  <2>1. LI_STRLEN(q, 2) = n /\ n \in Nat
    BY AlikeStrlen
  <2>2. LI_STRLEN(q, at) = m /\ m \in Nat /\ at \in Nat
        /\ (m > 0 => at + m < p.app_len)
    BY <2>1, AlikeStrlen
  <2>3. m > 0 => Byte(q, at) = Byte(p, at)
    BY <2>2 DEF Alike
  <2> QED BY <2>1, <2>2, <2>3 DEF TftpRequest
<1>2. p.app_len >= 4 => be16dec(q, 0) = be16dec(p, 0) /\ be16dec(q, 2) = be16dec(p, 2)
  BY AlikeWord DEF Alike
<1>3. q.app_len = p.app_len /\ p.app_len \in Nat
  BY DEF Alike
<1> QED BY <1>1, <1>2, <1>3 DEF tftp

\* The two that look behind the length they checked.
LEMMA AlikeLdap ==
  ASSUME NEW p, NEW q, Alike(p, q), p.net_type = IPPROTO_TCP
  PROVE  ldap(q) <=> ldap(p)
BY DEF Alike, ldap

LEMMA AlikeSnmp ==
  ASSUME NEW p, NEW q, Alike(p, q), p.net_type = IPPROTO_UDP
  PROVE  snmp(q) <=> snmp(p)
BY DEF Alike, snmp

\* The signature of an entry cannot tell the two apart.
LEMMA AlikeFunction ==
  ASSUME NEW p, NEW q, Alike(p, q), Below(p.net_type, 256),
         NEW i \in 1 .. 41, For(apps[i], p)
  PROVE  Function(apps[i], q) <=> Function(apps[i], p)
<1> DEFINE app == apps[i]
<1>1. app.name = "ldap" => (ldap(q) <=> ldap(p))
  <2>1. SUFFICES ASSUME app.name = "ldap" PROVE ldap(q) <=> ldap(p)
    OBVIOUS
  <2>2. p.net_type = IPPROTO_TCP
    <3>1. Names[i] = "ldap"
      BY <2>1, EntryName
    <3>2. i = 26
      BY <3>1, EntrySpecial
    <3> QED BY <3>2, EntryProto DEF For, IPPROTO_TCP, Below
  <2> QED BY <2>2, AlikeLdap
<1>2. app.name = "snmp" => (snmp(q) <=> snmp(p))
  <2>1. SUFFICES ASSUME app.name = "snmp" PROVE snmp(q) <=> snmp(p)
    OBVIOUS
  <2>2. p.net_type = IPPROTO_UDP
    <3>1. Names[i] = "snmp"
      BY <2>1, EntryName
    <3>2. i = 27
      BY <3>1, EntrySpecial
    <3> QED BY <3>2, EntryProto DEF For, IPPROTO_UDP, Below
  <2> QED BY <2>2, AlikeSnmp
<1>3. /\ (http(q) <=> http(p)) /\ (rtsp(q) <=> rtsp(p)) /\ (pop3(q) <=> pop3(p))
      /\ (imap(q) <=> imap(p)) /\ (smtp(q) <=> smtp(p)) /\ (ftp(q) <=> ftp(p))
      /\ (cvs(q) <=> cvs(p)) /\ (ssh(q) <=> ssh(p)) /\ (irc(q) <=> irc(p))
      /\ (sip(q) <=> sip(p)) /\ (bittorrent(q) <=> bittorrent(p))
      /\ (gnutella(q) <=> gnutella(p)) /\ (xmpp(q) <=> xmpp(p))
  BY AlikeText
<1>4. /\ (stun(q) <=> stun(p)) /\ (pptp(q) <=> pptp(p)) /\ (rip(q) <=> rip(p))
      /\ (radius(q) <=> radius(p)) /\ (bgp(q) <=> bgp(p)) /\ (ike(q) <=> ike(p))
      /\ (netflow(q) <=> netflow(p)) /\ (dhcp(q) <=> dhcp(p))
  BY AlikeStun, AlikePptp, AlikeRip, AlikeRadius, AlikeBgp, AlikeIke, AlikeNetflow, AlikeDhcp
<1>5. /\ (dtls(q) <=> dtls(p)) /\ (tls(q) <=> tls(p)) /\ (impp(q) <=> impp(p))
      /\ (syslog(q) <=> syslog(p)) /\ (l2tp(q) <=> l2tp(p)) /\ (ntp(q) <=> ntp(p))
      /\ (dns(q) <=> dns(p)) /\ (openvpn(q) <=> openvpn(p)) /\ (rtcp(q) <=> rtcp(p))
  BY AlikeTls, AlikeImpp, AlikeSyslog, AlikeL2tp, AlikeNtp, AlikeDns, AlikeOpenvpn, AlikeRtp
<1>6. /\ (rtp(q) <=> rtp(p)) /\ (netbios(q) <=> netbios(p)) /\ (telnet(q) <=> telnet(p))
      /\ (tftp(q) <=> tftp(p))
  BY AlikeRtp, AlikeNetbios, AlikeTelnet, AlikeTftp
<1> HIDE DEF app
<1>7. Function(app, q) <=> Function(app, p)
  BY <1>1, <1>2, <1>3, <1>4, <1>5, <1>6 DEF Function
<1> QED BY <1>7 DEF app
-----------------------------------------------------------------------------
\* The entries that match, of which peak_li_get() takes the first.
Matches(p) == {i \in 1 .. 41 : For(apps[i], p) /\ Function(apps[i], p)}

\* What peak_li_get() returns, case by case.
LEMMA GetIs ==
  ASSUME NEW p
  PROVE  /\ Blind(p) => peak_li_get(p) = 0
         /\ ~Blind(p) /\ Matches(p) # {} =>
              /\ Min(Matches(p)) \in Matches(p)
              /\ \A i \in Matches(p) : Min(Matches(p)) <= i
              /\ peak_li_get(p) = LabelOf[Min(Matches(p))]
         /\ ~Blind(p) /\ Matches(p) = {} /\ p.app_len = 0 => peak_li_get(p) = 0
         /\ ~Blind(p) /\ Matches(p) = {} /\ p.app_len # 0 => peak_li_get(p) = 1
<1> DEFINE M == {i \in 1 .. Len(apps) : For(apps[i], p) /\ Function(apps[i], p)}
           i0 == SelectInSeq(apps, LAMBDA app : For(app, p) /\ Function(app, p))
<1>1. M = Matches(p)
  BY TableSizes DEF Matches
<1>2. i0 = IF M # {} THEN Min(M) ELSE 0
  BY DEF SelectInSeq
<1>3. M # {} => Min(M) \in M /\ \A i \in M : Min(M) <= i
  <2>1. M \subseteq Nat
    BY TableSizes
  <2> QED BY <2>1, MinNat
<1>4. \A i \in M : i \in 1 .. 41
  BY TableSizes
<1> DEFINE g == CASE Blind(p) -> LI_UNKNOWN
                  [] ~Blind(p) /\ i0 # 0 -> LI(apps[i0].name)
                  [] ~Blind(p) /\ i0 = 0 -> IF p.app_len = 0 THEN LI_UNKNOWN ELSE LI_UNDEFINED
<1>5. peak_li_get(p) = g
  BY DEF peak_li_get
<1> HIDE DEF M, i0
<1>6. M # {} => i0 = Min(M) /\ i0 \in 1 .. 41 /\ i0 # 0 /\ LI(apps[i0].name) = LabelOf[i0]
  BY <1>2, <1>3, <1>4, EntryLabel
<1>7. M = {} => i0 = 0
  BY <1>2
<1> QED BY <1>1, <1>3, <1>5, <1>6, <1>7 DEF LI_UNKNOWN, LI_UNDEFINED

\* Every label is one of the enumeration, or unknown.
LEMMA GetType ==
  ASSUME NEW p
  PROVE  peak_li_get(p) \in 0 .. 40
<1>1. Matches(p) \subseteq 1 .. 41
  BY DEF Matches
<1>2. CASE Blind(p)
  BY <1>2, GetIs
<1>3. CASE ~Blind(p) /\ Matches(p) # {}
  BY <1>1, <1>3, GetIs, TableSizes
<1>4. CASE ~Blind(p) /\ Matches(p) = {}
  BY <1>4, GetIs
<1> QED BY <1>2, <1>3, <1>4

\* Packets that are alike have the same label.
LEMMA AlikeGet ==
  ASSUME NEW p, NEW q, Alike(p, q), Below(p.net_type, 256)
  PROVE  peak_li_get(q) = peak_li_get(p)
<1>1. Matches(q) = Matches(p)
  <2>1. \A i \in 1 .. 41 : For(apps[i], q) <=> For(apps[i], p)
    BY DEF Alike, For
  <2>2. \A i \in 1 .. 41 : For(apps[i], p) => (Function(apps[i], q) <=> Function(apps[i], p))
    BY AlikeFunction
  <2> QED BY <2>1, <2>2 DEF Matches
<1>2. (Blind(q) <=> Blind(p)) /\ q.app_len = p.app_len
  BY DEF Alike, Blind
<1>3. CASE Blind(p)
  BY <1>2, <1>3, GetIs
<1>4. CASE ~Blind(p) /\ Matches(p) # {}
  BY <1>1, <1>2, <1>4, GetIs
<1>5. CASE ~Blind(p) /\ Matches(p) = {}
  BY <1>1, <1>2, <1>5, GetIs
<1> QED BY <1>3, <1>4, <1>5
-----------------------------------------------------------------------------
\* The packets that the parser can leave behind of a frame.
PacketOf(f, p) ==
  /\ Below(p.mac_type, 65536) /\ Below(p.net_type, 256)
  /\ Below(p.net_hlen, 256) /\ Below(p.net_len, 65536)
  /\ Below(p.flow_hlen, 256) /\ Below(p.flow_len, 65536)
  /\ Below(p.app_len, 65536) /\ p.app = f.app /\ p.flow = f.flow

\* Bytes are bytes, and those of the payload do not depend on what is behind.
LEMMA ByteType ==
  ASSUME NEW f, Payload(f.app), NEW p, PacketOf(f, p)
  PROVE  \A i \in Nat : Byte(p, i) \in Nat
<1>1. p.app = f.app /\ p.app_len \in Nat
  BY DEF PacketOf, Below
<1>2. f.app.behind \in Nat /\ \A i \in DOMAIN f.app.at : f.app.at[i] \in Nat
  BY DEF Payload, Below
<1> QED BY <1>1, <1>2 DEF Byte

\* Both directions of a packet are alike.
LEMMA AlikeReversed ==
  ASSUME NEW f, Payload(f.app), NEW p, PacketOf(f, p)
  PROVE  Alike(p, Reversed(p))
<1> DEFINE q == Reversed(p)
<1>1. /\ q.net_type = p.net_type /\ q.app_len = p.app_len /\ q.flow_len = p.flow_len
      /\ q.flow = p.flow /\ q.app = p.app
      /\ q.flow_sport = p.flow_dport /\ q.flow_dport = p.flow_sport
      /\ p.app_len \in Nat
  BY DEF PacketOf, Reversed, Below
<1> HIDE DEF q
<1>2. \A i : Byte(q, i) = Byte(p, i)
  BY <1>1 DEF Byte
<1>3. \A ports : LI_EXCLUDE_PORT(q, ports) <=> LI_EXCLUDE_PORT(p, ports)
  BY <1>1 DEF LI_EXCLUDE_PORT
<1>4. Alike(p, q)
  BY <1>1, <1>2, <1>3, ByteType DEF Alike
<1> QED BY <1>4 DEF q

\* So are packets that differ in what lies behind them.
LEMMA AlikeBehind ==
  ASSUME NEW f, Payload(f.app), NEW p, PacketOf(f, p), ~EndsAtLastByte(p),
         NEW b
  PROVE  Alike(p, [p EXCEPT !.app.behind = b])
<1> DEFINE a == [p.app EXCEPT !.behind = b]
           q == [p EXCEPT !.app = a]
<1>0. [p EXCEPT !.app.behind = b] = q
  OBVIOUS
<1>1. /\ q.net_type = p.net_type /\ q.app_len = p.app_len /\ q.flow_len = p.flow_len
      /\ q.flow = p.flow /\ q.app = a
      /\ q.flow_sport = p.flow_sport /\ q.flow_dport = p.flow_dport
      /\ p.app_len \in Nat
  BY DEF PacketOf, Below
<1>2. a.text = p.app.text /\ a.at = p.app.at
  OBVIOUS
<1> HIDE DEF a, q
<1>3. \A i \in Nat : i < p.app_len => Byte(q, i) = Byte(p, i)
  BY <1>1, <1>2 DEF Byte
<1>4. \A ports : LI_EXCLUDE_PORT(q, ports) <=> LI_EXCLUDE_PORT(p, ports)
  BY <1>1 DEF LI_EXCLUDE_PORT
<1>5. \A i \in Nat : Byte(p, i) \in Nat
  BY ByteType
<1>6. p.net_type = IPPROTO_TCP /\ p.app_len >= 8 + Byte(p, 7) =>
        Byte(q, 8 + Byte(p, 7)) = Byte(p, 8 + Byte(p, 7))
  BY <1>1, <1>3, <1>5 DEF EndsAtLastByte
<1>7. p.net_type = IPPROTO_UDP /\ p.app_len >= 7 + Byte(p, 6) + 2 =>
        Byte(q, 7 + Byte(p, 6) + 2) = Byte(p, 7 + Byte(p, 6) + 2)
  BY <1>1, <1>3, <1>5 DEF EndsAtLastByte
<1>8. Alike(p, q)
  BY <1>1, <1>2, <1>3, <1>4, <1>5, <1>6, <1>7 DEF Alike
<1> QED BY <1>0, <1>8
-----------------------------------------------------------------------------
\* An IP type and a label have one entry at most.
LEMMA EntryOnce ==
  ASSUME NEW p, Below(p.net_type, 256), NEW i \in 1 .. 41, NEW j \in 1 .. 41,
         LabelOf[i] = LabelOf[j], For(apps[i], p), For(apps[j], p)
  PROVE  i = j
<1>1. SUFFICES ASSUME {i, j} = {4, 33} PROVE FALSE
  BY EntryTwice
<1>2. For(apps[4], p) /\ For(apps[33], p)
  BY <1>1
<1> QED BY <1>2, EntryProto DEF For, Below

\* So peak_li_test() asks whether some entry of the label matches.
LEMMA TestIs ==
  ASSUME NEW p, Below(p.net_type, 256), NEW label
  PROVE  peak_li_test(p, label) <=> \E i \in Matches(p) : LabelOf[i] = label
<1> DEFINE T == {i \in 1 .. Len(apps) : LI(apps[i].name) = label /\ For(apps[i], p)}
           i0 == SelectInSeq(apps, LAMBDA app : LI(app.name) = label /\ For(app, p))
<1>1. T = {i \in 1 .. 41 : LabelOf[i] = label /\ For(apps[i], p)}
  BY TableSizes, EntryLabel
<1>2. i0 = IF T # {} THEN Min(T) ELSE 0
  BY DEF SelectInSeq
<1>3. peak_li_test(p, label) <=> i0 # 0 /\ Function(apps[i0], p)
  BY DEF peak_li_test
<1> HIDE DEF T, i0
<1>4. CASE T = {}
  BY <1>1, <1>2, <1>3, <1>4 DEF Matches
<1>5. CASE T # {}
  <2>1. Min(T) \in T
    <3>1. T \subseteq Nat
      BY <1>1
    <3> QED BY <3>1, <1>5, MinNat
  <2>2. i0 \in T /\ i0 # 0
    BY <1>1, <1>2, <1>5, <2>1
  <2>3. \A i \in T : i = i0
    BY <1>1, <2>2, EntryOnce
  <2>4. \A i \in Matches(p) : LabelOf[i] = label => i = i0
    BY <1>1, <2>3 DEF Matches
  <2>5. i0 \in Matches(p) <=> Function(apps[i0], p)
    BY <1>1, <2>2 DEF Matches
  <2>6. LabelOf[i0] = label
    BY <1>1, <2>2
  <2> QED BY <1>3, <2>2, <2>4, <2>5, <2>6
<1> QED BY <1>4, <1>5

\* The label that is found passes its test, "undefined" says that none does.
LEMMA GetPasses ==
  ASSUME NEW p, Below(p.net_type, 256)
  PROVE  /\ peak_li_get(p) > 1 => peak_li_test(p, peak_li_get(p))
         /\ peak_li_get(p) = 1 => \A l : ~peak_li_test(p, l)
<1> DEFINE label == peak_li_get(p)
<1>1. \A i \in Matches(p) : i \in 1 .. 41 /\ LabelOf[i] # 1
  <2> TAKE i \in Matches(p)
  <2>1. i \in 1 .. 41 /\ For(apps[i], p)
    BY DEF Matches
  <2>2. i # 41
    BY <2>1, EntryProto DEF For, Below
  <2> QED BY <2>1, <2>2, EntrySpecial
<1>2. CASE Matches(p) = {}
  <2>1. \A l : ~peak_li_test(p, l)
    BY <1>2, TestIs
  <2>2. label \in {0, 1}
    BY <1>2, GetIs
  <2> QED BY <2>1, <2>2
<1>3. CASE Matches(p) # {}
  <2>1. CASE Blind(p)
    BY <2>1, GetIs
  <2>2. CASE ~Blind(p)
    <3>1. label # 1 /\ \E i \in Matches(p) : LabelOf[i] = label
      BY <1>1, <1>3, <2>2, GetIs
    <3>2. peak_li_test(p, label)
      BY <3>1, TestIs
    <3> QED BY <3>1, <3>2
  <2> QED BY <2>1, <2>2
<1> QED BY <1>2, <1>3

\* The name of a label of the enumeration leads back to it.
LEMMA NumberOfName ==
  ASSUME NEW label \in 0 .. 40
  PROVE  peak_li_number(peak_li_name(label)) = label
<1> DEFINE number(name) == SelectInSeq(apps, LAMBDA app : app.name = name)
           place == SelectInSeq(apps, LAMBDA app : LI(app.name) = label)
           N(name) == {i \in 1 .. Len(apps) : apps[i].name = name}
           P == {i \in 1 .. Len(apps) : LI(apps[i].name) = label}
<1>1. \A name : /\ number(name) = IF N(name) # {} THEN Min(N(name)) ELSE 0
                /\ N(name) = {i \in 1 .. 41 : Names[i] = name}
  BY TableSizes, EntryName DEF SelectInSeq
<1>2. place = (IF P # {} THEN Min(P) ELSE 0) /\ P = {i \in 1 .. 41 : LabelOf[i] = label}
  BY TableSizes, EntryLabel DEF SelectInSeq
<1>3. \A name : peak_li_number(name) =
                  IF number(name) = 0 THEN 0 ELSE LI(apps[number(name)].name)
  BY DEF peak_li_number, LI_UNKNOWN
<1>4. peak_li_name(label) = CASE label = LI_UNKNOWN -> "unknown"
                              [] label # LI_UNKNOWN /\ place # 0 -> apps[place].name
                              [] OTHER -> "panic"
  BY DEF peak_li_name
<1> HIDE DEF number, place, N, P
<1>5. CASE label = 0
  <2>1. peak_li_name(label) = "unknown"
    BY <1>4, <1>5 DEF LI_UNKNOWN
  <2>2. N("unknown") = {}
    BY <1>1, EntrySpecial
  <2> QED BY <1>1, <1>3, <1>5, <2>1, <2>2
<1>6. CASE label # 0
  <2>1. \E i \in 1 .. 41 : LabelOf[i] = label
    BY <1>6 DEF LabelOf
  <2>2. place \in P /\ place \in 1 .. 41 /\ LabelOf[place] = label
    <3>1. P # {} /\ P \subseteq Nat
      BY <1>2, <2>1
    <3>2. Min(P) \in P
      BY <3>1, MinNat
    <3> QED BY <1>2, <3>1, <3>2
  <2>3. peak_li_name(label) = apps[place].name
    BY <1>4, <1>6, <2>2 DEF LI_UNKNOWN
  <2> DEFINE name == apps[place].name
             n == number(name)
  <2>4. n \in 1 .. 41 /\ apps[n].name = name
    <3>1. place \in N(name)
      BY <1>1, <2>2, EntryName
    <3>2. N(name) \subseteq Nat /\ N(name) # {}
      BY <1>1, <3>1
    <3>3. Min(N(name)) \in N(name)
      BY <3>2, MinNat
    <3> QED BY <1>1, <3>2, <3>3, EntryName
  <2>5. peak_li_number(name) = LI(name)
    BY <1>3, <2>4
  <2> QED BY <2>2, <2>3, <2>5, EntryLabel
<1> QED BY <1>5, <1>6

\* The entries a TCP packet meets first, and what they ask for.
LEMMA EntryTcp ==
  /\ apps[1].proto = {1, 58} /\ apps[2].proto = {2, 256} /\ apps[3].proto = {89, 256}
  /\ apps[5].proto = {6, 47} /\ apps[6].proto = {6, 256} /\ apps[7].proto = {6, 17}
  /\ apps[8].proto = {6, 256} /\ apps[9].proto = {6, 256} /\ apps[10].proto = {6, 256}
  /\ apps[11].proto = {6, 256} /\ apps[12].proto = {6, 256} /\ apps[13].proto = {6, 256}
  /\ apps[14].proto = {6, 256}
BY DEF apps, TcpApp, BothApp, App, IPPROTO_TCP, IPPROTO_UDP, IPPROTO_MAX, IPPROTO_ICMP,
       IPPROTO_ICMPV6, IPPROTO_IGMP, IPPROTO_OSPFIGP, IPPROTO_GRE

LEMMA EntryFunction ==
  ASSUME NEW p
  PROVE  /\ (Function(apps[5], p) <=> pptp(p)) /\ (Function(apps[6], p) <=> http(p))
         /\ (Function(apps[7], p) <=> rtsp(p)) /\ (Function(apps[8], p) <=> pop3(p))
         /\ (Function(apps[9], p) <=> imap(p)) /\ (Function(apps[10], p) <=> smtp(p))
         /\ (Function(apps[11], p) <=> ftp(p)) /\ (Function(apps[12], p) <=> cvs(p))
         /\ (Function(apps[13], p) <=> ssh(p)) /\ (Function(apps[14], p) <=> irc(p))
<1>1. /\ apps[5].name = "pptp" /\ apps[6].name = "http" /\ apps[7].name = "rtsp"
      /\ apps[8].name = "pop3" /\ apps[9].name = "imap" /\ apps[10].name = "smtp"
      /\ apps[11].name = "ftp" /\ apps[12].name = "cvs" /\ apps[13].name = "ssh"
      /\ apps[14].name = "irc"
  BY EntryName DEF Names
<1>2. \A i \in 5 .. 14 : IPPROTO_L2TP \notin apps[i].proto
  BY EntryTcp DEF IPPROTO_L2TP
<1>3. (Function(apps[5], p) <=> pptp(p)) /\ (Function(apps[6], p) <=> http(p))
  BY <1>1, <1>2 DEF Function
<1>4. (Function(apps[7], p) <=> rtsp(p)) /\ (Function(apps[8], p) <=> pop3(p))
  BY <1>1, <1>2 DEF Function
<1>5. (Function(apps[9], p) <=> imap(p)) /\ (Function(apps[10], p) <=> smtp(p))
  BY <1>1, <1>2 DEF Function
<1>6. (Function(apps[11], p) <=> ftp(p)) /\ (Function(apps[12], p) <=> cvs(p))
  BY <1>1, <1>2 DEF Function
<1>7. (Function(apps[13], p) <=> ssh(p)) /\ (Function(apps[14], p) <=> irc(p))
  BY <1>1, <1>2 DEF Function
<1> QED BY <1>3, <1>4, <1>5, <1>6, <1>7

\* Of the excluded ports this packet has one.
LEMMA OnePort ==
  ASSUME NEW p, NEW port, Wellknown(p) = {port}
  PROVE  /\ port \in {21, 25, 110, 194, 465, 587, 6667}
         /\ \A S \in SUBSET {21, 25, 110, 194, 465, 587, 6667} :
              LI_EXCLUDE_PORT(p, S) <=> port \in S
<1> DEFINE W == {21, 25, 110, 194, 465, 587, 6667}
<1>1. p.flow_sport # p.flow_dport /\ {p.flow_sport, p.flow_dport} \cap W = {port}
  BY DEF Wellknown
<1> HIDE DEF W
<1>2. \A prt \in W : ((p.flow_sport = prt) # (p.flow_dport = prt)) <=> prt = port
  BY <1>1
<1>3. \A S \in SUBSET W : LI_EXCLUDE_PORT(p, S) <=> port \in S
  BY <1>2 DEF LI_EXCLUDE_PORT
<1> QED BY <1>1, <1>3 DEF W

\* The two words that several protocols begin with.
User(p) == p.app.text = "USER"
Greeting(p) == p.app.text = "220 "

\* What the text signatures make of them.
LEMMA WordUser ==
  ASSUME NEW p, User(p), p.app_len >= 4
  PROVE  /\ ~http(p) /\ ~rtsp(p) /\ ~imap(p) /\ ~cvs(p) /\ ~ssh(p) /\ ~smtp(p)
         /\ (pop3(p) <=> ~LI_EXCLUDE_PORT(p, {21, 194, 6667}))
         /\ (ftp(p) <=> ~LI_EXCLUDE_PORT(p, {110, 25, 465, 587, 194, 6667}))
         /\ (irc(p) <=> ~LI_EXCLUDE_PORT(p, {110, 21}))
<1>1. ~http(p)
  BY Zenon DEF http, LI_MATCH_PAYLOAD, User
<1>2. ~rtsp(p)
  BY Zenon DEF rtsp, LI_MATCH_PAYLOAD, User
<1>3. ~imap(p) /\ ~cvs(p) /\ ~ssh(p) /\ ~smtp(p)
  BY Zenon DEF imap, cvs, ssh, smtp, LI_MATCH_PAYLOAD, User
<1>4. pop3(p) <=> ~LI_EXCLUDE_PORT(p, {21, 194, 6667})
  <2> DEFINE words == {"+OK ", "USER", "CAPA", "AUTH"}
             excluded == LI_EXCLUDE_PORT(p, {21, 194, 6667})
  <2>1. LI_MATCH_PAYLOAD(p, words)
    BY Zenon DEF LI_MATCH_PAYLOAD, User
  <2>2. pop3(p) <=> ~excluded /\ LI_MATCH_PAYLOAD(p, words)
    BY Zenon DEF pop3
  <2> HIDE DEF words, excluded
  <2>3. pop3(p) <=> ~excluded
    BY <2>1, <2>2
  <2> QED BY <2>3 DEF excluded
<1>5. ftp(p) <=> ~LI_EXCLUDE_PORT(p, {110, 25, 465, 587, 194, 6667})
  <2> DEFINE words == {"220 ", "220-", "USER"}
             excluded == LI_EXCLUDE_PORT(p, {110, 25, 465, 587, 194, 6667})
  <2>1. LI_MATCH_PAYLOAD(p, words)
    BY Zenon DEF LI_MATCH_PAYLOAD, User
  <2>2. ftp(p) <=> ~excluded /\ LI_MATCH_PAYLOAD(p, words)
    BY Zenon DEF ftp
  <2> HIDE DEF words, excluded
  <2>3. ftp(p) <=> ~excluded
    BY <2>1, <2>2
  <2> QED BY <2>3 DEF excluded
<1>6. irc(p) <=> ~LI_EXCLUDE_PORT(p, {110, 21})
  BY Zenon DEF irc, LI_MATCH_PAYLOAD, User
<1> QED BY <1>1, <1>2, <1>3, <1>4, <1>5, <1>6

LEMMA WordGreeting ==
  ASSUME NEW p, Greeting(p), p.app_len >= 4
  PROVE  /\ ~http(p) /\ ~rtsp(p) /\ ~imap(p) /\ ~cvs(p) /\ ~ssh(p) /\ ~pop3(p)
         /\ (smtp(p) <=> ~LI_EXCLUDE_PORT(p, {21}))
         /\ (ftp(p) <=> ~LI_EXCLUDE_PORT(p, {110, 25, 465, 587, 194, 6667}))
<1>1. ~http(p)
  BY Zenon DEF http, LI_MATCH_PAYLOAD, Greeting
<1>2. ~rtsp(p)
  BY Zenon DEF rtsp, LI_MATCH_PAYLOAD, Greeting
<1>3. ~imap(p) /\ ~cvs(p) /\ ~ssh(p) /\ ~pop3(p)
  <2>1. ~imap(p) /\ ~cvs(p) /\ ~ssh(p)
    BY Zenon DEF imap, cvs, ssh, LI_MATCH_PAYLOAD, Greeting
  <2> DEFINE words == {"+OK ", "USER", "CAPA", "AUTH"}
             excluded == LI_EXCLUDE_PORT(p, {21, 194, 6667})
  <2>2. ~LI_MATCH_PAYLOAD(p, words)
    BY Zenon DEF LI_MATCH_PAYLOAD, Greeting
  <2>3. pop3(p) <=> ~excluded /\ LI_MATCH_PAYLOAD(p, words)
    BY Zenon DEF pop3
  <2> HIDE DEF words, excluded
  <2> QED BY <2>1, <2>2, <2>3
<1>4. smtp(p) <=> ~LI_EXCLUDE_PORT(p, {21})
  BY Zenon DEF smtp, LI_MATCH_PAYLOAD, Greeting
<1>5. ftp(p) <=> ~LI_EXCLUDE_PORT(p, {110, 25, 465, 587, 194, 6667})
  <2> DEFINE words == {"220 ", "220-", "USER"}
             excluded == LI_EXCLUDE_PORT(p, {110, 25, 465, 587, 194, 6667})
  <2>1. LI_MATCH_PAYLOAD(p, words)
    BY Zenon DEF LI_MATCH_PAYLOAD, Greeting
  <2>2. ftp(p) <=> ~excluded /\ LI_MATCH_PAYLOAD(p, words)
    BY Zenon DEF ftp
  <2> HIDE DEF words, excluded
  <2>3. ftp(p) <=> ~excluded
    BY <2>1, <2>2
  <2> QED BY <2>3 DEF excluded
<1> QED BY <1>1, <1>2, <1>3, <1>4, <1>5

\* Neither of them is a header of PPTP.
LEMMA WordPptp ==
  ASSUME NEW f, Payload(f.app), NEW p, PacketOf(f, p), p.net_type = 6,
         User(p) \/ Greeting(p), p.app_len >= 4
  PROVE  ~pptp(p)
<1>1. p.app_len \in Nat /\ p.app = f.app
  BY DEF PacketOf, Below
<1>2. \/ \A i \in 0 .. 3 : i \in DOMAIN f.app.at /\ f.app.at[i] = <<85, 83, 69, 82>>[i + 1]
      \/ \A i \in 0 .. 3 : i \in DOMAIN f.app.at /\ f.app.at[i] = <<50, 50, 48, 32>>[i + 1]
  BY <1>1, Zenon DEF Payload, Spells, User, Greeting
<1>3. 2 \in DOMAIN f.app.at /\ 3 \in DOMAIN f.app.at
  BY <1>2
<1>4. (f.app.at[2] = 69 /\ f.app.at[3] = 82) \/ (f.app.at[2] = 48 /\ f.app.at[3] = 32)
  BY <1>2
<1>5. Byte(p, 2) = f.app.at[2] /\ Byte(p, 3) = f.app.at[3]
  BY <1>1, <1>3 DEF Byte
<1>6. be16dec(p, 2) # 1 /\ be16dec(p, 2) # 2
  BY <1>4, <1>5 DEF be16dec
<1> QED BY <1>6 DEF pptp, pptp_raw, IPPROTO_GRE

\* Which label they have on a port that only one side uses.
LEMMA PortDecides ==
  ASSUME NEW f, Payload(f.app), NEW p, PacketOf(f, p), p.net_type = 6,
         User(p) \/ Greeting(p), p.app_len >= 4,
         NEW port, Wellknown(p) = {port}
  PROVE  \/ port = 21 /\ peak_li_get(p) = 13
         \/ port \in {25, 110, 465, 587} /\ peak_li_get(p) \in {4, 6}
         \/ port \in {194, 6667} /\ peak_li_get(p) \in {12, 6}
<1> DEFINE M == Matches(p)
<1>1. p.app_len \in Nat /\ ~Blind(p)
  BY DEF PacketOf, Below, Blind
<1>2. ~pptp(p)
  BY WordPptp
<1>3. ~http(p) /\ ~rtsp(p) /\ ~imap(p) /\ ~cvs(p) /\ ~ssh(p)
  BY WordUser, WordGreeting
<1>4. \A i \in {1, 2, 3, 4} : ~For(apps[i], p)
  BY EntryTcp, EntryProto DEF For
<1>5. \A i \in 5 .. 14 : For(apps[i], p)
  BY EntryTcp DEF For
<1>6. \A i \in M : i \in {8, 10, 11} \/ i >= 14
  BY <1>2, <1>3, <1>4, EntryFunction DEF Matches
<1>7. /\ (8 \in M <=> pop3(p)) /\ (10 \in M <=> smtp(p)) /\ (11 \in M <=> ftp(p))
      /\ (14 \in M <=> irc(p))
  BY <1>5, EntryFunction DEF Matches
<1>8. M \subseteq Nat
  BY DEF Matches
<1>9. M # {} => /\ peak_li_get(p) = LabelOf[Min(M)]
                /\ Min(M) \in M /\ \A i \in M : Min(M) <= i
  BY <1>1, <1>8, GetIs, MinNat
<1>10. LabelOf[8] = 4 /\ LabelOf[10] = 6 /\ LabelOf[11] = 13 /\ LabelOf[14] = 12
  BY DEF LabelOf
<1>11. /\ (LI_EXCLUDE_PORT(p, {21, 194, 6667}) <=> port \in {21, 194, 6667})
       /\ (LI_EXCLUDE_PORT(p, {21}) <=> port = 21)
       /\ (LI_EXCLUDE_PORT(p, {110, 21}) <=> port \in {110, 21})
       /\ (LI_EXCLUDE_PORT(p, {110, 25, 465, 587, 194, 6667})
             <=> port \in {110, 25, 465, 587, 194, 6667})
       /\ port \in {21, 25, 110, 194, 465, 587, 6667}
  BY OnePort
<1>12. ftp(p) <=> port = 21
  BY <1>11, WordUser, WordGreeting
<1> HIDE DEF M
<1> DEFINE m == Min(M)
<1>13. M # {} => m \in Nat /\ m \in M /\ \A i \in M : i \in Nat /\ m <= i
  BY <1>8, <1>9
<1>14. M # {} => peak_li_get(p) = LabelOf[m]
  BY <1>9
<1> HIDE DEF m
<1>15. CASE User(p)
  <2>1. ~smtp(p) /\ (pop3(p) <=> port \notin {21, 194, 6667})
                 /\ (irc(p) <=> port \notin {110, 21})
    BY <1>15, <1>11, WordUser
  <2>2. CASE port = 21
    <3>1. m = 11 /\ M # {}
      BY <1>6, <1>7, <1>13, <1>12, <2>1, <2>2
    <3> QED BY <1>14, <1>10, <2>2, <3>1
  <2>3. CASE port \in {25, 110, 465, 587}
    <3>1. m = 8 /\ M # {}
      BY <1>6, <1>7, <1>13, <2>1, <2>3
    <3> QED BY <1>14, <1>10, <2>3, <3>1
  <2>4. CASE port \in {194, 6667}
    <3>1. m = 14 /\ M # {}
      BY <1>6, <1>7, <1>13, <1>12, <2>1, <2>4
    <3> QED BY <1>14, <1>10, <2>4, <3>1
  <2> QED BY <1>11, <2>2, <2>3, <2>4
<1>16. CASE Greeting(p)
  <2>1. ~pop3(p) /\ (smtp(p) <=> port # 21)
    BY <1>16, <1>11, WordGreeting
  <2>2. CASE port = 21
    <3>1. m = 11 /\ M # {}
      BY <1>6, <1>7, <1>13, <1>12, <2>1, <2>2
    <3> QED BY <1>14, <1>10, <2>2, <3>1
  <2>3. CASE port # 21
    <3>1. m = 10 /\ M # {}
      BY <1>6, <1>7, <1>13, <2>1, <2>3
    <3> QED BY <1>14, <1>10, <1>11, <2>3, <3>1
  <2> QED BY <2>2, <2>3
<1> QED BY <1>15, <1>16
-----------------------------------------------------------------------------
\* Where the walk over the extension headers of an IPv6 packet can be.
IsWalk(w) ==
  /\ Below(w.type, 256) /\ w.off \in Nat /\ Below(w.hlen, 256)
  /\ w.state = "walk" \/ w.state = "end" \/ w.state = "drop"

\* An extension header has a type and a length.
LEMMA ExtensionType ==
  ASSUME NEW f, IPv6Header(f.net), NEW off
  PROVE  Below(Extension(f, off).nxt, 256) /\ Below(Extension(f, off).len, 256)
BY DEF IPv6Header, Extension, Below, IPPROTO_NONE

\* What a round does, case by case.
LEMMA RoundIs ==
  ASSUME NEW f, NEW w, IsWalk(w), IPv6Header(f.net)
  PROVE  LET hdr == Extension(f, w.off)
             v == IPv6Round(f, w)
         IN /\ IsWalk(v)
            /\ w.state # "walk" => v = w
            /\ w.state = "walk" /\ w.type \in VariableHeaders /\ v.state = "walk" =>
                 v.off = w.off + hdr.len /\ hdr.len % 8 = 0 /\ v.type = hdr.nxt
            /\ w.state = "walk" /\ w.type \in VariableHeaders =>
                 v.state = "walk" \/ v.state = "drop"
            /\ w.state = "walk" /\ w.type = 44 =>
                 v.state = "walk" /\ v.off = w.off + 8 /\ v.type = hdr.nxt
            /\ w.state = "walk" /\ w.type \notin VariableHeaders /\ w.type # 44 =>
                 v.state = "end"
<1> DEFINE hdr == Extension(f, w.off)
           v == IPv6Round(f, w)
<1>1. /\ hdr.nxt \in Nat /\ hdr.nxt < 256 /\ hdr.len \in Nat /\ hdr.len < 256
      /\ w.type \in Nat /\ w.type < 256 /\ w.off \in Nat /\ w.hlen \in Nat
  BY ExtensionType DEF Below, IsWalk
<1>2. Below(Uint8(w.hlen + hdr.len), 256) /\ Below(Uint8(w.hlen + 8), 256)
  BY <1>1 DEF Uint8, Below
<1>3. 44 \notin VariableHeaders
  BY DEF VariableHeaders
<1> HIDE DEF hdr
<1>4. CASE w.state # "walk"
  <2>1. v = w
    BY <1>4 DEF IPv6Round, hdr
  <2> QED BY <1>4, <2>1 DEF hdr
<1>5. CASE w.state = "walk" /\ w.type \in VariableHeaders
  <2>1. CASE hdr.len % 8 # 0
    <3>1. v = [w EXCEPT !.state = "drop"]
      BY <1>3, <1>5, <2>1 DEF IPv6Round, hdr, IPPROTO_FRAGMENT
    <3> HIDE DEF v
    <3>2. v.state = "drop" /\ v.type = w.type /\ v.off = w.off /\ v.hlen = w.hlen
      BY <3>1
    <3>3. IsWalk(v)
      BY <3>2 DEF IsWalk
    <3> QED BY <1>3, <1>5, <3>2, <3>3 DEF v
  <2>2. CASE hdr.len % 8 = 0
    <3>1. v = [w EXCEPT !.type = hdr.nxt, !.off = w.off + hdr.len,
                        !.hlen = Uint8(w.hlen + hdr.len)]
      BY <1>1, <1>3, <1>5, <2>2 DEF IPv6Round, hdr, IPPROTO_FRAGMENT
    <3> HIDE DEF v
    <3>2. /\ v.state = "walk" /\ v.type = hdr.nxt /\ v.off = w.off + hdr.len
          /\ v.hlen = Uint8(w.hlen + hdr.len)
      BY <1>5, <3>1
    <3>3. IsWalk(v)
      BY <1>1, <1>2, <3>2 DEF IsWalk, Below
    <3> QED BY <1>3, <1>5, <2>2, <3>2, <3>3 DEF v, hdr
  <2> QED BY <2>1, <2>2
<1>6. CASE w.state = "walk" /\ w.type = 44
  <2>1. v = [w EXCEPT !.type = hdr.nxt, !.off = w.off + 8, !.hlen = Uint8(w.hlen + 8)]
    BY <1>3, <1>6 DEF IPv6Round, hdr, IPPROTO_FRAGMENT
  <2> HIDE DEF v
  <2>2. /\ v.state = "walk" /\ v.type = hdr.nxt /\ v.off = w.off + 8
        /\ v.hlen = Uint8(w.hlen + 8)
    BY <1>6, <2>1
  <2>3. IsWalk(v)
    BY <1>1, <1>2, <2>2 DEF IsWalk, Below
  <2> QED BY <1>3, <1>6, <2>2, <2>3 DEF v, hdr
<1>7. CASE w.state = "walk" /\ w.type \notin VariableHeaders /\ w.type # 44
  <2>1. v = [w EXCEPT !.state = "end"]
    BY <1>7 DEF IPv6Round, hdr, IPPROTO_FRAGMENT
  <2> HIDE DEF v
  <2>2. v.state = "end" /\ v.type = w.type /\ v.off = w.off /\ v.hlen = w.hlen
    BY <2>1
  <2>3. IsWalk(v)
    BY <2>2 DEF IsWalk
  <2> QED BY <1>7, <2>2, <2>3 DEF v
<1> QED BY <1>4, <1>5, <1>6, <1>7

\* Where the walk starts, and where it is after each of its first k rounds.
WalkStart(f) == [type |-> f.net.nxt, off |-> 40, hlen |-> 40, state |-> "walk"]
IsRounds(f, k, g) ==
  g = [n \in 0 .. k |-> IF n = 0 THEN WalkStart(f) ELSE IPv6Round(f, g[n - 1])]

LEMMA RoundsExist ==
  ASSUME NEW f, NEW k \in Nat
  PROVE  \E g : IsRounds(f, k, g)
<1> DEFINE P == {m \in Nat : \E g : IsRounds(f, m, g)}
<1>1. 0 \in P
  <2>1. IsRounds(f, 0, [n \in 0 .. 0 |-> WalkStart(f)])
    BY DEF IsRounds
  <2> QED BY <2>1
<1>2. ASSUME NEW m \in Nat, m \in P PROVE m + 1 \in P
  <2>1. PICK g : IsRounds(f, m, g)
    BY <1>2
  <2> DEFINE h == [n \in 0 .. m + 1 |-> IF n <= m THEN g[n] ELSE IPv6Round(f, g[m])]
  <2>2. \A n \in 0 .. m : g[n] = IF n = 0 THEN WalkStart(f) ELSE IPv6Round(f, g[n - 1])
    BY <2>1 DEF IsRounds
  <2>3. ASSUME NEW n \in 0 .. m + 1
        PROVE  h[n] = IF n = 0 THEN WalkStart(f) ELSE IPv6Round(f, h[n - 1])
    <3>1. CASE n = 0
      BY <2>2, <3>1
    <3>2. CASE n # 0 /\ n <= m
      <4>1. h[n] = g[n] /\ h[n - 1] = g[n - 1]
        BY <3>2
      <4>2. g[n] = IPv6Round(f, g[n - 1])
        BY <2>2, <3>2
      <4> QED BY <3>2, <4>1, <4>2
    <3>3. CASE n = m + 1
      <4>1. h[n] = IPv6Round(f, g[m]) /\ h[n - 1] = g[m]
        BY <3>3
      <4> QED BY <3>3, <4>1
    <3> QED BY <3>1, <3>2, <3>3
  <2>4. h = [n \in 0 .. m + 1 |-> IF n = 0 THEN WalkStart(f) ELSE IPv6Round(f, h[n - 1])]
    BY <2>3
  <2> HIDE DEF h
  <2>5. IsRounds(f, m + 1, h)
    BY <2>4 DEF IsRounds
  <2> QED BY <2>5
<1> HIDE DEF P
<1>3. Nat \subseteq P
  BY <1>1, <1>2, Induction
<1> QED BY <1>3 DEF P

\* The walk stops where its last round leaves it.
LEMMA WalkIs ==
  ASSUME NEW f
  PROVE  \E g : IsRounds(f, MaxHeaders, g) /\ IPv6Walk(f) = g[MaxHeaders]
<1>1. \E g : g = [n \in 0 .. MaxHeaders |->
                    IF n = 0 THEN WalkStart(f) ELSE IPv6Round(f, g[n - 1])]
  BY RoundsExist, PacketAssumption DEF IsRounds
<1> DEFINE g == CHOOSE g : g = [n \in 0 .. MaxHeaders |->
                    IF n = 0 THEN WalkStart(f) ELSE IPv6Round(f, g[n - 1])]
<1>2. IsRounds(f, MaxHeaders, g)
  BY <1>1 DEF IsRounds
<1>3. IPv6Walk(f) = g[MaxHeaders]
  BY DEF IPv6Walk, WalkStart
<1> QED BY <1>2, <1>3

\* Every place of the walk is one.
LEMMA RoundsType ==
  ASSUME NEW f, IPv6Header(f.net), NEW k \in Nat, NEW g, IsRounds(f, k, g)
  PROVE  \A n \in 0 .. k : IsWalk(g[n])
<1> DEFINE P == {m \in Nat : m <= k => IsWalk(g[m])}
<1>1. \A n \in 0 .. k : g[n] = IF n = 0 THEN WalkStart(f) ELSE IPv6Round(f, g[n - 1])
  BY DEF IsRounds
<1>2. 0 \in P
  <2>1. IsWalk(WalkStart(f))
    BY DEF IsWalk, WalkStart, IPv6Header, Below
  <2> QED BY <1>1, <2>1
<1>3. ASSUME NEW m \in Nat, m \in P PROVE m + 1 \in P
  <2>1. CASE m + 1 <= k
    <3>1. g[m + 1] = IPv6Round(f, g[m])
      BY <1>1, <2>1
    <3>2. IsWalk(IPv6Round(f, g[m]))
      BY <1>3, <2>1, RoundIs
    <3> QED BY <3>1, <3>2
  <2>2. CASE ~(m + 1 <= k)
    BY <2>2
  <2> QED BY <2>1, <2>2
<1> HIDE DEF P
<1>4. Nat \subseteq P
  BY <1>2, <1>3, Induction
<1> QED BY <1>4 DEF P

\* Unless a header of length 0 announces another, the walk gets somewhere.
LEMMA RoundsAdvance ==
  ASSUME NEW f, IPv6Header(f.net), NEW k \in Nat, NEW g, IsRounds(f, k, g),
         \A off \in DOMAIN f.net.ext :
           ~(f.net.ext[off].len = 0 /\ f.net.ext[off].nxt \in VariableHeaders)
  PROVE  \A n \in 0 .. k : g[n].state = "walk" =>
           IF g[n].type \in VariableHeaders THEN g[n].off >= 40 + 4 * n
                                            ELSE g[n].off >= 40 + 4 * (n - 1)
<1> DEFINE Far(n) == g[n].state = "walk" =>
             IF g[n].type \in VariableHeaders THEN g[n].off >= 40 + 4 * n
                                              ELSE g[n].off >= 40 + 4 * (n - 1)
           P == {m \in Nat : m <= k => Far(m)}
<1>1. \A n \in 0 .. k : g[n] = IF n = 0 THEN WalkStart(f) ELSE IPv6Round(f, g[n - 1])
  BY DEF IsRounds
<1>2. 0 \in P
  BY <1>1 DEF WalkStart
<1>3. ASSUME NEW m \in Nat, m \in P PROVE m + 1 \in P
  <2>1. SUFFICES ASSUME m + 1 <= k, g[m + 1].state = "walk"
                 PROVE  IF g[m + 1].type \in VariableHeaders
                        THEN g[m + 1].off >= 40 + 4 * (m + 1) ELSE g[m + 1].off >= 40 + 4 * m
    OBVIOUS
  <2> DEFINE w == g[m]
             v == g[m + 1]
             hdr == Extension(f, w.off)
  <2>2. v = IPv6Round(f, w) /\ IsWalk(w) /\ Far(m)
    BY <1>1, <1>3, <2>1, RoundsType
  <2> HIDE DEF w, v
  <2>3. /\ IsWalk(v)
        /\ w.state # "walk" => v = w
        /\ w.state = "walk" /\ w.type \in VariableHeaders /\ v.state = "walk" =>
             v.off = w.off + hdr.len /\ hdr.len % 8 = 0 /\ v.type = hdr.nxt
        /\ w.state = "walk" /\ w.type = 44 => v.off = w.off + 8
        /\ w.state = "walk" /\ w.type \notin VariableHeaders /\ w.type # 44 =>
             v.state = "end"
    BY <2>2, RoundIs
  <2>4. /\ w.state = "walk" /\ w.type \in VariableHeaders => w.off >= 40 + 4 * m
        /\ w.state = "walk" /\ w.type \notin VariableHeaders => w.off >= 40 + 4 * (m - 1)
        /\ v.state = "walk"
    BY <2>1, <2>2 DEF w, v
  <2>5. 59 \notin VariableHeaders
    BY DEF VariableHeaders
  <2>6. hdr.len \in Nat /\ (hdr.len = 0 => hdr.nxt \notin VariableHeaders)
    <3>1. hdr.len \in Nat
      BY ExtensionType DEF Below
    <3> QED BY <2>5, <3>1 DEF Extension, IPPROTO_NONE
  <2>7. w.state = "walk"
    BY <2>3, <2>4
  <2> HIDE DEF hdr
  <2>8. w.off \in Nat
    BY <2>2 DEF IsWalk
  <2>9. CASE w.type \in VariableHeaders
    <3>1. v.off = w.off + hdr.len /\ hdr.len % 8 = 0 /\ v.type = hdr.nxt
      BY <2>3, <2>4, <2>7, <2>9
    <3>2. w.off >= 40 + 4 * m
      BY <2>4, <2>7, <2>9
    <3>3. hdr.len # 0 => hdr.len >= 8
      BY <3>1, <2>6
    <3>4. v.type \in VariableHeaders => v.off >= 40 + 4 * (m + 1)
      BY <2>6, <2>8, <3>1, <3>2, <3>3
    <3>5. v.off >= 40 + 4 * m
      BY <2>6, <2>8, <3>1, <3>2
    <3> QED BY <3>4, <3>5 DEF v
  <2>10. CASE w.type = 44
    <3>1. v.off = w.off + 8
      BY <2>3, <2>7, <2>10
    <3>2. 44 \notin VariableHeaders
      BY DEF VariableHeaders
    <3>3. w.off >= 40 + 4 * (m - 1)
      BY <2>4, <2>7, <2>10, <3>2
    <3>4. v.off >= 40 + 4 * (m + 1) /\ v.off >= 40 + 4 * m
      BY <2>8, <3>1, <3>3
    <3> QED BY <3>4 DEF v
  <2>11. CASE w.type \notin VariableHeaders /\ w.type # 44
    BY <2>3, <2>4, <2>7, <2>11
  <2> QED BY <2>9, <2>10, <2>11
<1> HIDE DEF P
<1>4. Nat \subseteq P
  BY <1>2, <1>3, Induction
<1> QED BY <1>4 DEF P

\* So it ends within the rounds that are counted.
LEMMA WalkEnds ==
  ASSUME NEW f, IPv6Header(f.net), IPv6Walk(f).state = "walk"
  PROVE  \E off \in DOMAIN f.net.ext :
           f.net.ext[off].len = 0 /\ f.net.ext[off].nxt \in VariableHeaders
<1>1. SUFFICES ASSUME \A off \in DOMAIN f.net.ext :
                        ~(f.net.ext[off].len = 0 /\ f.net.ext[off].nxt \in VariableHeaders)
               PROVE  FALSE
  OBVIOUS
<1>2. PICK g : IsRounds(f, MaxHeaders, g) /\ IPv6Walk(f) = g[MaxHeaders]
  BY WalkIs
<1> DEFINE M == MaxHeaders
           w == g[M - 2]
           v == g[M - 1]
           u == g[M]
           hdr == Extension(f, w.off)
<1>3. M \in Nat /\ M >= 2
  BY PacketAssumption
<1>4. \A n \in 0 .. M : IsWalk(g[n])
  BY <1>2, <1>3, RoundsType
<1>5. IsWalk(w) /\ IsWalk(v) /\ IsWalk(u) /\ u.state = "walk"
  BY <1>2, <1>3, <1>4
<1>6. v = IPv6Round(f, w) /\ u = IPv6Round(f, v)
  BY <1>2, <1>3 DEF IsRounds
<1>7. \A n \in 0 .. M : g[n].state = "walk" =>
        IF g[n].type \in VariableHeaders THEN g[n].off >= 40 + 4 * n
                                         ELSE g[n].off >= 40 + 4 * (n - 1)
  BY <1>1, <1>2, <1>3, RoundsAdvance
<1>8. w.state = "walk" => w.off >= 40 + 4 * (M - 3)
  <2>1. M - 2 \in 0 .. M /\ w.off \in Nat
    BY <1>3, <1>5 DEF IsWalk
  <2>2. w.state = "walk" => w.off >= 40 + 4 * (M - 2) \/ w.off >= 40 + 4 * ((M - 2) - 1)
    BY <1>7, <2>1
  <2> HIDE DEF w
  <2> QED BY <1>3, <2>1, <2>2
<1> HIDE DEF w, v, u
<1>9. v.state = "walk" /\ (v.type \in VariableHeaders \/ v.type = 44)
  BY <1>5, <1>6, RoundIs
<1>10. w.state = "walk" /\ v.type = hdr.nxt
  BY <1>5, <1>6, <1>9, RoundIs
<1>11. w.off \in DOMAIN f.net.ext
  BY <1>9, <1>10 DEF Extension, IPPROTO_NONE, VariableHeaders
<1>12. w.off < 40 + 4 * (M - 3)
  BY <1>11 DEF IPv6Header
<1> QED BY <1>3, <1>5, <1>8, <1>10, <1>12 DEF IsWalk

\* The place where the walk stops is one.
LEMMA WalkType ==
  ASSUME NEW f, IPv6Header(f.net)
  PROVE  IsWalk(IPv6Walk(f))
<1>1. PICK g : IsRounds(f, MaxHeaders, g) /\ IPv6Walk(f) = g[MaxHeaders]
  BY WalkIs
<1>2. MaxHeaders \in Nat /\ MaxHeaders \in 0 .. MaxHeaders
  BY PacketAssumption
<1> QED BY <1>1, <1>2, RoundsType
-----------------------------------------------------------------------------
\* The header, transport and payload of a packet follow each other.
Nested(p) == p.net_hlen + p.flow_hlen + p.app_len = p.net_len

\* The payload behind a transport header that fits.
LEMMA WithFlowIs ==
  ASSUME NEW f, NEW p, PacketOf(f, p), NEW h, TransportHeader(h),
         NEW hlen \in Nat, hlen < 256, hlen <= p.flow_len
  PROVE  LET q == WithFlow(p, h, hlen)
         IN /\ PacketOf(f, q)
            /\ q.mac_type = p.mac_type /\ q.net_type = p.net_type
            /\ q.net_hlen = p.net_hlen /\ q.net_len = p.net_len
            /\ q.flow_hlen = hlen /\ q.app_len = p.flow_len - hlen
<1> DEFINE q == WithFlow(p, h, hlen)
<1>1. p.flow_len \in Nat /\ p.flow_len < 65536
  BY DEF PacketOf, Below
<1>2. /\ q.mac_type = p.mac_type /\ q.net_type = p.net_type
      /\ q.net_hlen = p.net_hlen /\ q.net_len = p.net_len /\ q.flow_len = p.flow_len
      /\ q.flow_hlen = hlen /\ q.app_len = Uint16(p.flow_len - hlen)
      /\ q.app = p.app /\ q.flow = p.flow
  BY DEF WithFlow
<1>3. q.app_len = p.flow_len - hlen
  BY <1>1, <1>2, ModSmall DEF Uint16
<1> HIDE DEF q
<1>4. PacketOf(f, q)
  BY <1>1, <1>2, <1>3 DEF PacketOf, Below
<1> QED BY <1>2, <1>3, <1>4 DEF q

\* What the parser returns behind the IP header: it keeps what it knew.
FlowParsed(f, q, r) ==
  /\ r.ret = "ok" \/ r.ret = "drop"
  /\ r.ret = "ok" =>
       /\ PacketOf(f, r.packet)
       /\ r.packet.mac_type = q.mac_type /\ r.packet.net_type = q.net_type
       /\ r.packet.net_hlen = q.net_hlen /\ r.packet.net_len = q.net_len
       /\ /\ q.net_type = 6 \/ q.net_type = 17 \/ q.net_type = 1
          /\ q.net_hlen <= q.net_len
          => Nested(r.packet)

LEMMA FlowIs ==
  ASSUME NEW f, NEW q, PacketOf(f, q), TransportHeader(f.flow), TransportHeader(f.stray)
  PROVE  FlowParsed(f, q, ParseFlow(f, q))
<1> DEFINE p == [q EXCEPT !.flow_len = Uint16(q.net_len - q.net_hlen)]
           h == Transport(f, p)
           r == ParseFlow(f, q)
<1>1. /\ q.net_len \in Nat /\ q.net_len < 65536 /\ q.net_hlen \in Nat /\ q.net_hlen < 256
  BY DEF PacketOf, Below
<1>2. Below(Uint16(q.net_len - q.net_hlen), 65536)
  BY <1>1 DEF Uint16, Below
<1>3. q.net_hlen <= q.net_len =>
        Uint16(q.net_len - q.net_hlen) = q.net_len - q.net_hlen
  BY <1>1, ModSmall DEF Uint16
<1>4. /\ p.mac_type = q.mac_type /\ p.net_type = q.net_type
      /\ p.net_hlen = q.net_hlen /\ p.net_len = q.net_len
      /\ p.flow_hlen = q.flow_hlen /\ p.app_len = q.app_len
      /\ p.flow_len = Uint16(q.net_len - q.net_hlen) /\ p.app = q.app /\ p.flow = q.flow
  OBVIOUS
<1>5. r = CASE p.net_type = IPPROTO_TCP  -> peak_packet_tcp(p, h)
            [] p.net_type = IPPROTO_UDP  -> peak_packet_udp(p, h)
            [] p.net_type = IPPROTO_ICMP -> ParseIcmp(p)
            [] OTHER -> Parsed(p)
  BY DEF ParseFlow
<1>6. TransportHeader(h)
  BY DEF Transport
<1> SUFFICES FlowParsed(f, q, r)
  OBVIOUS
<1> HIDE DEF p, h, r
<1>7. PacketOf(f, p)
  BY <1>2, <1>4 DEF PacketOf
<1>8. p.flow_len \in Nat
  BY <1>7 DEF PacketOf, Below
<1>9. CASE p.net_type = 6
  <2>1. r = peak_packet_tcp(p, h)
    BY <1>5, <1>9 DEF IPPROTO_TCP, IPPROTO_UDP, IPPROTO_ICMP
  <2> DEFINE hlen == 4 * h.off
             d == WithFlow(p, h, hlen)
  <2>2. hlen \in Nat
    BY <1>6 DEF TransportHeader, Below
  <2>3. \/ r = Dropped(p, "TCP")
        \/ r = Parsed(d) /\ hlen <= 60 /\ hlen <= p.flow_len
    BY <1>8, <2>1, <2>2 DEF peak_packet_tcp
  <2> HIDE DEF hlen, d
  <2>4. CASE r = Dropped(p, "TCP")
    BY <2>4 DEF Dropped, FlowParsed
  <2>5. CASE r = Parsed(d) /\ hlen <= 60 /\ hlen <= p.flow_len
    <3>1. /\ PacketOf(f, d)
          /\ d.mac_type = p.mac_type /\ d.net_type = p.net_type
          /\ d.net_hlen = p.net_hlen /\ d.net_len = p.net_len
          /\ d.flow_hlen = hlen /\ d.app_len = p.flow_len - hlen
      BY <1>6, <1>7, <2>2, <2>5, WithFlowIs DEF d
    <3>2. r.ret = "ok" /\ r.packet = d
      BY <2>5 DEF Parsed
    <3>3. q.net_hlen <= q.net_len => Nested(d)
      BY <1>1, <1>3, <1>4, <2>2, <3>1 DEF Nested
    <3> QED BY <1>4, <3>1, <3>2, <3>3 DEF FlowParsed
  <2> QED BY <2>3, <2>4, <2>5
<1>10. CASE p.net_type = 17
  <2>1. r = peak_packet_udp(p, h)
    BY <1>5, <1>10 DEF IPPROTO_TCP, IPPROTO_UDP, IPPROTO_ICMP
  <2> DEFINE d == WithFlow(p, h, 8)
  <2>2. r = Dropped(p, "UDP") \/ (r = Parsed(d) /\ 8 <= p.flow_len)
    BY <1>8, <2>1 DEF peak_packet_udp
  <2> HIDE DEF d
  <2>3. CASE r = Dropped(p, "UDP")
    BY <2>3 DEF Dropped, FlowParsed
  <2>4. CASE r = Parsed(d) /\ 8 <= p.flow_len
    <3>1. /\ PacketOf(f, d)
          /\ d.mac_type = p.mac_type /\ d.net_type = p.net_type
          /\ d.net_hlen = p.net_hlen /\ d.net_len = p.net_len
          /\ d.flow_hlen = 8 /\ d.app_len = p.flow_len - 8
      BY <1>6, <1>7, <2>4, WithFlowIs DEF d
    <3>2. r.ret = "ok" /\ r.packet = d
      BY <2>4 DEF Parsed
    <3>3. q.net_hlen <= q.net_len => Nested(d)
      BY <1>1, <1>3, <1>4, <3>1 DEF Nested
    <3> QED BY <1>4, <3>1, <3>2, <3>3 DEF FlowParsed
  <2> QED BY <2>2, <2>3, <2>4
<1>11. CASE p.net_type = 1
  <2>1. r = ParseIcmp(p)
    BY <1>5, <1>11 DEF IPPROTO_TCP, IPPROTO_UDP, IPPROTO_ICMP
  <2> DEFINE d == [p EXCEPT !.app_len = p.flow_len - 8, !.flow_hlen = 8]
  <2>2. r = Dropped(p, "ICMP") \/ (r = Parsed(d) /\ 8 <= p.flow_len)
    BY <1>8, <2>1 DEF ParseIcmp, ICMP_MINLEN
  <2>3. /\ d.mac_type = p.mac_type /\ d.net_type = p.net_type
        /\ d.net_hlen = p.net_hlen /\ d.net_len = p.net_len /\ d.flow_len = p.flow_len
        /\ d.flow_hlen = 8 /\ d.app_len = p.flow_len - 8 /\ d.app = p.app /\ d.flow = p.flow
    OBVIOUS
  <2> HIDE DEF d
  <2>4. CASE r = Dropped(p, "ICMP")
    BY <2>4 DEF Dropped, FlowParsed
  <2>5. CASE r = Parsed(d) /\ 8 <= p.flow_len
    <3>1. PacketOf(f, d)
      BY <1>7, <2>3, <2>5 DEF PacketOf, Below
    <3>2. r.ret = "ok" /\ r.packet = d
      BY <2>5 DEF Parsed
    <3>3. q.net_hlen <= q.net_len => Nested(d)
      BY <1>1, <1>3, <1>4, <2>3 DEF Nested
    <3> QED BY <1>4, <2>3, <3>1, <3>2, <3>3 DEF FlowParsed
  <2> QED BY <2>2, <2>4, <2>5
<1>12. CASE p.net_type # 6 /\ p.net_type # 17 /\ p.net_type # 1
  <2>1. r = Parsed(p)
    BY <1>5, <1>12 DEF IPPROTO_TCP, IPPROTO_UDP, IPPROTO_ICMP
  <2>2. r.ret = "ok" /\ r.packet = p
    BY <2>1 DEF Parsed
  <2> QED BY <1>4, <1>7, <1>12, <2>2 DEF FlowParsed
<1> QED BY <1>9, <1>10, <1>11, <1>12

\* What peak_packet_parse() returns for a frame.
FrameParsed(f, r) ==
  /\ r.ret = "ok" \/ r.ret = "drop" \/ r.ret = "endless"
  /\ r.ret = "ok" => PacketOf(f, r.packet)
  /\ /\ r.ret = "ok" /\ r.packet.net_len > 0
     /\ r.packet.net_type = 6 \/ r.packet.net_type = 17 \/ r.packet.net_type = 1
     /\ r.packet.mac_type = ETHERTYPE_IPV6 => r.packet.net_hlen <= r.packet.net_len
     => Nested(r.packet)
  /\ r.ret = "endless" =>
       \E off \in DOMAIN f.net.ext :
         f.net.ext[off].len = 0 /\ f.net.ext[off].nxt \in VariableHeaders

\* A packet of which only the link is known.
LEMMA BlankIs ==
  ASSUME NEW f, NEW t, Below(t, 65536)
  PROVE  LET p == [Blank(f) EXCEPT !.mac_type = t]
         IN PacketOf(f, p) /\ p.mac_type = t /\ p.net_len = 0
<1> DEFINE p == [Blank(f) EXCEPT !.mac_type = t]
<1>1. /\ p.mac_type = t /\ p.net_type = 0 /\ p.net_hlen = 0 /\ p.net_len = 0
      /\ p.flow_hlen = 0 /\ p.flow_len = 0 /\ p.app_len = 0
      /\ p.app = f.app /\ p.flow = f.flow
  BY DEF Blank
<1> HIDE DEF p
<1>2. PacketOf(f, p)
  BY <1>1 DEF PacketOf, Below
<1> QED BY <1>1, <1>2 DEF p

\* The type of the network layer is a 16 bit value.
LEMMA MacTypeIs ==
  ASSUME NEW f, IsFrame(f), f.type \in LinkTypes
  PROVE  Below(MacType(f), 65536)
BY DEF IsFrame, LinkTypes, MacType, LINKTYPE_NULL, LINKTYPE_ETHERNET,
       LINKTYPE_LINUX_SLL, ETHERTYPE_IP, ETHERTYPE_VLAN, Below

\* IPv4: a header that is longer than its packet is dropped.
LEMMA IPv4Is ==
  ASSUME NEW f, IPv4Header(f.net), TransportHeader(f.flow), TransportHeader(f.stray),
         NEW p, PacketOf(f, p), p.mac_type # ETHERTYPE_IPV6
  PROVE  FrameParsed(f, ParseIPv4(f, p))
<1> DEFINE ip == f.net
           hlen == 4 * ip.hl
           q == [p EXCEPT !.net_saddr = ip.src, !.net_daddr = ip.dst, !.net_type = ip.p,
                          !.net_hlen = hlen, !.net_len = ip.len]
           r == ParseIPv4(f, p)
<1> SUFFICES FrameParsed(f, r)
  OBVIOUS
<1>1. /\ hlen \in Nat /\ hlen < 256 /\ ip.len \in Nat /\ ip.len < 65536
      /\ Below(ip.p, 256)
  BY DEF IPv4Header, Below
<1>2. r = Dropped(p, "IPV4") \/ (r = ParseFlow(f, q) /\ hlen <= ip.len)
  BY <1>1 DEF ParseIPv4
<1>3. /\ q.mac_type = p.mac_type /\ q.net_type = ip.p /\ q.net_hlen = hlen
      /\ q.net_len = ip.len /\ q.flow_hlen = p.flow_hlen /\ q.flow_len = p.flow_len
      /\ q.app_len = p.app_len /\ q.app = p.app /\ q.flow = p.flow
  OBVIOUS
<1> HIDE DEF ip, hlen, q, r
<1>4. PacketOf(f, q)
  BY <1>1, <1>3 DEF PacketOf, Below
<1>5. FlowParsed(f, q, ParseFlow(f, q))
  BY <1>4, FlowIs
<1>6. CASE r = Dropped(p, "IPV4")
  BY <1>6 DEF Dropped, FrameParsed
<1>7. CASE r = ParseFlow(f, q) /\ hlen <= ip.len
  <2>1. FlowParsed(f, q, r)
    BY <1>5, <1>7
  <2> QED BY <1>1, <1>3, <1>7, <2>1 DEF FlowParsed, FrameParsed
<1> QED BY <1>2, <1>6, <1>7

\* IPv6: the parser comes back when the walk ends.
LEMMA IPv6Is ==
  ASSUME NEW f, IPv6Header(f.net), TransportHeader(f.flow), TransportHeader(f.stray),
         NEW p, PacketOf(f, p), p.mac_type = ETHERTYPE_IPV6
  PROVE  FrameParsed(f, peak_packet_ipv6(f, p))
<1> DEFINE w == IPv6Walk(f)
           n == [p EXCEPT !.net_saddr = f.net.src, !.net_daddr = f.net.dst,
                          !.net_len = Uint16(40 + f.net.plen), !.net_hlen = w.hlen]
           q == [n EXCEPT !.net_type = w.type]
           r == peak_packet_ipv6(f, p)
<1> SUFFICES FrameParsed(f, r)
  OBVIOUS
<1>1. IsWalk(w)
  BY WalkType
<1>2. Below(Uint16(40 + f.net.plen), 65536)
  BY DEF IPv6Header, Below, Uint16
<1>3. /\ w.state = "drop" => r = Dropped(n, "IPV6")
      /\ w.state = "end" => r = ParseFlow(f, q)
      /\ w.state = "walk" => r = Endless(n)
  BY DEF peak_packet_ipv6
<1>4. /\ n.mac_type = p.mac_type /\ n.net_hlen = w.hlen
      /\ n.net_len = Uint16(40 + f.net.plen) /\ n.flow_hlen = p.flow_hlen
      /\ n.flow_len = p.flow_len
      /\ n.app_len = p.app_len /\ n.app = p.app /\ n.flow = p.flow
  OBVIOUS
<1>5. w.state = "walk" =>
        \E off \in DOMAIN f.net.ext :
          f.net.ext[off].len = 0 /\ f.net.ext[off].nxt \in VariableHeaders
  BY WalkEnds
<1> HIDE DEF w, n
<1>6. /\ q.mac_type = n.mac_type /\ q.net_type = w.type /\ q.net_hlen = n.net_hlen
      /\ q.net_len = n.net_len /\ q.flow_hlen = n.flow_hlen /\ q.flow_len = n.flow_len
      /\ q.app_len = n.app_len /\ q.app = n.app /\ q.flow = n.flow
  OBVIOUS
<1> HIDE DEF q, r
<1>7. PacketOf(f, q)
  BY <1>1, <1>2, <1>4, <1>6 DEF PacketOf, IsWalk
<1>8. FlowParsed(f, q, ParseFlow(f, q))
  BY <1>7, FlowIs
<1>9. CASE w.state = "drop"
  BY <1>3, <1>9 DEF Dropped, FrameParsed
<1>10. CASE w.state = "end"
  <2>1. FlowParsed(f, q, r)
    BY <1>3, <1>8, <1>10
  <2> QED BY <1>4, <1>6, <2>1 DEF FlowParsed, FrameParsed
<1>11. CASE w.state = "walk"
  BY <1>3, <1>5, <1>11 DEF Endless, FrameParsed
<1> QED BY <1>1, <1>9, <1>10, <1>11 DEF IsWalk

\* The parser, for every frame.
LEMMA ParseIs ==
  ASSUME NEW f, IsFrame(f)
  PROVE  FrameParsed(f, peak_packet_parse(f))
<1> DEFINE t == MacType(f)
           p == [Blank(f) EXCEPT !.mac_type = t]
           r == peak_packet_parse(f)
<1> SUFFICES FrameParsed(f, r)
  OBVIOUS
<1>1. CASE f.type \notin LinkTypes
  <2>1. r = Dropped(Blank(f), "LINK")
    BY <1>1 DEF peak_packet_parse
  <2> HIDE DEF r
  <2> QED BY <2>1 DEF Dropped, FrameParsed
<1>2. CASE f.type \in LinkTypes
  <2>1. Below(t, 65536)
    BY <1>2, MacTypeIs
  <2>2. PacketOf(f, p) /\ p.mac_type = t /\ p.net_len = 0
    BY <2>1, BlankIs
  <2>3. r = CASE p.mac_type = ETHERTYPE_IP   -> ParseIPv4(f, p)
              [] p.mac_type = ETHERTYPE_IPV6 -> peak_packet_ipv6(f, p)
              [] OTHER -> Parsed(p)
    BY <1>2 DEF peak_packet_parse
  <2>4. /\ t = ETHERTYPE_IP => IPv4Header(f.net)
        /\ t = ETHERTYPE_IPV6 => IPv6Header(f.net)
        /\ TransportHeader(f.flow) /\ TransportHeader(f.stray)
    BY <1>2 DEF IsFrame
  <2>5. ETHERTYPE_IP # ETHERTYPE_IPV6
    BY DEF ETHERTYPE_IP, ETHERTYPE_IPV6
  <2> HIDE DEF t, p, r
  <2>6. CASE t = ETHERTYPE_IP
    BY <2>2, <2>3, <2>4, <2>5, <2>6, IPv4Is
  <2>7. CASE t = ETHERTYPE_IPV6
    BY <2>2, <2>3, <2>4, <2>5, <2>7, IPv6Is
  <2>8. CASE t # ETHERTYPE_IP /\ t # ETHERTYPE_IPV6
    <3>1. r.ret = "ok" /\ r.packet = p
      BY <2>2, <2>3, <2>8 DEF Parsed
    <3> QED BY <2>2, <3>1 DEF FrameParsed
  <2> QED BY <2>6, <2>7, <2>8
<1> QED BY <1>1, <1>2
-----------------------------------------------------------------------------
\* The labels of the two directions, and the label of the flow.
Pairs == (0 .. 40) \X (0 .. 40)

LEMMA MergeType ==
  ASSUME NEW li \in Pairs
  PROVE  peak_li_merge(li) \in 0 .. 40
BY DEF Pairs, peak_li_merge, LI_UNKNOWN, LI_UNDEFINED

LEMMA MergeSame ==
  ASSUME NEW li \in Pairs
  PROVE  peak_li_merge(li) >= peak_li_merge(li)
<1> DEFINE x == peak_li_merge(li)
<1>1. x \in 0 .. 40
  BY MergeType
<1> HIDE DEF x
<1>2. x >= x
  BY <1>1
<1> QED BY <1>2 DEF x

\* One more direction with a label never takes back the label of the flow.
LEMMA MergeGrows ==
  ASSUME NEW li \in Pairs, NEW dir \in {1, 2}, li[dir] = 0, NEW x \in 0 .. 40
  PROVE  /\ [li EXCEPT ![dir] = x] \in Pairs
         /\ peak_li_merge([li EXCEPT ![dir] = x]) >= peak_li_merge(li)
         /\ peak_li_merge(li) # 1
<1> DEFINE lj == [li EXCEPT ![dir] = x]
<1>1. /\ li[1] \in 0 .. 40 /\ li[2] \in 0 .. 40
      /\ lj[1] = (IF dir = 1 THEN x ELSE li[1]) /\ lj[2] = (IF dir = 2 THEN x ELSE li[2])
      /\ lj = <<lj[1], lj[2]>>
  BY DEF Pairs
<1> HIDE DEF lj
<1>2. lj \in Pairs
  BY <1>1 DEF Pairs
<1>3. peak_li_merge(lj) >= peak_li_merge(li) /\ peak_li_merge(li) # 1
  <2>1. CASE dir = 1
    BY <1>1, <2>1 DEF peak_li_merge, LI_UNKNOWN, LI_UNDEFINED
  <2>2. CASE dir = 2
    BY <1>1, <2>2 DEF peak_li_merge, LI_UNKNOWN, LI_UNDEFINED
  <2> QED BY <2>1, <2>2
<1> QED BY <1>2, <1>3 DEF lj

\* An inspection keeps the flow, and what is known of it.
LEMMA InspectIs ==
  ASSUME NEW p, NEW f, f.li \in Pairs
  PROVE  LET g == Inspect(p, f)
         IN /\ g.id = f.id /\ g.li \in Pairs
            /\ peak_li_merge(g.li) >= peak_li_merge(f.li)
            /\ peak_li_merge(f.li) = 1 => peak_li_merge(g.li) = 1
<1> DEFINE dir == Direction(p, f)
           x == peak_li_get(p)
           lj == [f.li EXCEPT ![dir] = x]
           g == Inspect(p, f)
<1>1. dir \in {1, 2} /\ x \in 0 .. 40
  BY GetType DEF Direction
<1>2. g = IF f.li[dir] = 0 THEN [f EXCEPT !.li = lj] ELSE f
  BY DEF Inspect, LI_UNKNOWN
<1> HIDE DEF dir, x, g
<1>3. CASE f.li[dir] = 0
  <2>1. lj \in Pairs /\ peak_li_merge(lj) >= peak_li_merge(f.li) /\ peak_li_merge(f.li) # 1
    BY <1>1, <1>3, MergeGrows
  <2> HIDE DEF lj
  <2>2. g.id = f.id /\ g.li = lj
    BY <1>2, <1>3
  <2> QED BY <2>1, <2>2 DEF g
<1>4. CASE f.li[dir] # 0
  <2>1. g = f
    BY <1>2, <1>4
  <2>2. peak_li_merge(f.li) \in 0 .. 40
    BY MergeType
  <2> QED BY <2>1, <2>2 DEF g
<1> QED BY <1>3, <1>4
-----------------------------------------------------------------------------
\* The table of flows: labels of each, and no id twice.
Table(T, next) ==
  /\ \E S : T \in Seq(S)
  /\ \A n \in 1 .. Len(T) : T[n].id \in Nat /\ T[n].id < next /\ T[n].li \in Pairs
  /\ \A m, n \in 1 .. Len(T) : T[m].id = T[n].id => m = n

\* The label of a flow of the table.
LEMMA LabelInTable ==
  ASSUME NEW T, NEW next, Table(T, next), NEW m \in 1 .. Len(T)
  PROVE  LabelIn(T, T[m].id) = peak_li_merge(T[m].li)
<1> DEFINE id == T[m].id
           I == {i \in 1 .. Len(T) : T[i].id = id}
           n == SelectInSeq(T, LAMBDA f : f.id = id)
<1>1. Len(T) \in Nat /\ I = {m}
  BY DEF Table
<1>2. n = IF I # {} THEN Min(I) ELSE 0
  BY DEF SelectInSeq
<1>3. Min(I) \in I
  <2>1. I \subseteq Nat /\ I # {}
    BY <1>1
  <2> QED BY <2>1, MinNat
<1>4. LabelIn(T, id) = IF n = 0 THEN LI_UNKNOWN ELSE peak_li_merge(T[n].li)
  BY DEF LabelIn
<1> HIDE DEF n, I, id
<1>5. n = m /\ n # 0
  BY <1>1, <1>2, <1>3
<1> QED BY <1>4, <1>5 DEF id

\* The flow at n is moved to the end of T as f, or f is added there.
MovedAs(T, n, f, U) ==
  /\ Len(U) = Len(T)
  /\ \A i \in 1 .. Len(T) :
       U[i] = IF i = Len(T) THEN f ELSE IF i < n THEN T[i] ELSE T[i + 1]
AddedAs(T, f, U) ==
  /\ Len(U) = Len(T) + 1
  /\ \A i \in 1 .. Len(T) + 1 : U[i] = IF i = Len(T) + 1 THEN f ELSE T[i]

\* The flow of a key is moved to the end, or made there.
AcquiredAs(k, f, old, U) ==
  /\ \E S : U \in Seq(S)
  /\ Known(k) => \E n \in 1 .. Len(flows) : old = flows[n] /\ MovedAs(flows, n, f, U)
  /\ ~Known(k) => /\ old = [key |-> k, id |-> next_id, li |-> <<0, 0>>]
                  /\ AddedAs(flows, f, U)

LEMMA AcquiredIs ==
  ASSUME Table(flows, next_id), NEW k, NEW f
  PROVE  AcquiredAs(k, f, Last(Acquired(k)), Append(Front(Acquired(k)), f))
<1> DEFINE new == [key |-> k, id |-> next_id, li |-> <<0, 0>>]
           A == Acquired(k)
           U == Append(Front(A), f)
           L == Len(flows)
           I == {i \in 1 .. Len(flows) : flows[i].key = k}
           n == SelectInSeq(flows, LAMBDA x : x.key = k)
<1>1. PICK S0 : flows \in Seq(S0)
  BY DEF Table
<1> DEFINE S == S0 \cup {new, f}
<1>2. flows \in Seq(S) /\ new \in S /\ f \in S /\ L \in Nat
  BY <1>1
<1>3. n = IF I # {} THEN Min(I) ELSE 0
  BY DEF SelectInSeq
<1>4. A = IF n # 0 THEN Append(RemoveAt(flows, n), flows[n]) ELSE Append(flows, new)
  BY DEF Acquired
<1>5. Known(k) <=> I # {}
  BY <1>2 DEF Known
<1>6. I # {} => Min(I) \in I
  <2>1. I \subseteq Nat
    BY <1>2
  <2> QED BY <2>1, MinNat
<1> HIDE DEF S, new
<1>7. \A R \in Seq(S), e \in S : /\ Last(Append(R, e)) = e
                                 /\ Front(Append(R, e)) = R
  <2> SUFFICES ASSUME NEW R \in Seq(S), NEW e \in S
               PROVE  Last(Append(R, e)) = e /\ Front(Append(R, e)) = R
    OBVIOUS
  <2> DEFINE B == Append(R, e)
  <2>1. /\ B \in Seq(S) /\ Len(B) = Len(R) + 1 /\ B[Len(R) + 1] = e
        /\ \A i \in 1 .. Len(R) : B[i] = R[i]
        /\ Len(R) \in Nat /\ (Len(R) + 1) - 1 = Len(R)
    OBVIOUS
  <2> HIDE DEF B
  <2>2. Last(B) = e
    BY <2>1 DEF Last
  <2>3. Front(B) = SubSeq(B, 1, Len(R))
    BY <2>1 DEF Front
  <2>4. /\ SubSeq(B, 1, Len(R)) \in Seq(S) /\ Len(SubSeq(B, 1, Len(R))) = Len(R)
        /\ \A i \in 1 .. Len(R) : SubSeq(B, 1, Len(R))[i] = B[i]
    BY <2>1
  <2>5. SubSeq(B, 1, Len(R)) = R
    BY <2>1, <2>4, SeqEqual
  <2> QED BY <2>2, <2>3, <2>5 DEF B
<1>8. CASE Known(k)
  <2>1. n \in 1 .. L /\ n # 0
    BY <1>2, <1>3, <1>5, <1>6, <1>8
  <2> HIDE DEF n
  <2> DEFINE R == RemoveAt(flows, n)
  <2>2. R \in Seq(S) /\ flows[n] \in S
    BY <1>2, <2>1, RemoveAtFacts
  <2>3. /\ Append(R, f) \in Seq(S) /\ Len(Append(R, f)) = L
        /\ \A i \in 1 .. L :
             Append(R, f)[i] = IF i = L THEN f ELSE IF i < n THEN flows[i] ELSE flows[i + 1]
    BY <1>2, <2>1, MoveToEnd
  <2> HIDE DEF R
  <2>4. A = Append(R, flows[n])
    BY <1>4, <2>1 DEF R
  <2>5. Last(A) = flows[n] /\ U = Append(R, f)
    BY <1>7, <2>2, <2>4
  <2> HIDE DEF A, U
  <2>6. MovedAs(flows, n, f, U)
    BY <2>3, <2>5 DEF MovedAs
  <2>7. \E S1 : U \in Seq(S1)
    BY <2>3, <2>5
  <2>8. AcquiredAs(k, f, Last(A), U)
    BY <1>8, <2>1, <2>5, <2>6, <2>7 DEF AcquiredAs
  <2> QED BY <2>8 DEF A, U
<1>9. CASE ~Known(k)
  <2>1. A = Append(flows, new)
    BY <1>3, <1>4, <1>5, <1>9
  <2>2. Last(A) = new /\ U = Append(flows, f)
    BY <1>2, <1>7, <2>1
  <2> HIDE DEF A, U
  <2>3. U \in Seq(S) /\ AddedAs(flows, f, U)
    BY <1>2, <2>2 DEF AddedAs
  <2>4. AcquiredAs(k, f, Last(A), U)
    BY <1>9, <2>2, <2>3 DEF AcquiredAs, new
  <2> QED BY <2>4 DEF A, U
<1> QED BY <1>8, <1>9

\* So the table stays one, with the flows it had and no label taken back.
LEMMA TableStep ==
  ASSUME Table(flows, next_id), next_id \in Nat, NEW p, NEW k,
         flows' = Append(Front(Acquired(k)), Inspect(p, Last(Acquired(k)))),
         next_id' = IF Known(k) THEN next_id ELSE next_id + 1
  PROVE  /\ Table(flows', next_id')
         /\ \A n \in 1 .. Len(flows) :
              /\ LabelIn(flows', flows[n].id) >= peak_li_merge(flows[n].li)
              /\ peak_li_merge(flows[n].li) = 1 => LabelIn(flows', flows[n].id) = 1
<1> DEFINE old == Last(Acquired(k))
           f == Inspect(p, old)
           L == Len(flows)
           U == Append(Front(Acquired(k)), f)
<1>1. flows' = U
  OBVIOUS
<1> HIDE DEF f
<1>2. AcquiredAs(k, f, old, U)
  BY AcquiredIs
<1> HIDE DEF old, U
<1>3. /\ \E S : flows' \in Seq(S)
      /\ Known(k) => \E n \in 1 .. L : old = flows[n] /\ MovedAs(flows, n, f, flows')
      /\ ~Known(k) => /\ old = [key |-> k, id |-> next_id, li |-> <<0, 0>>]
                      /\ AddedAs(flows, f, flows')
  BY <1>1, <1>2 DEF AcquiredAs
<1>4. old.li \in Pairs => /\ f.id = old.id /\ f.li \in Pairs
                          /\ peak_li_merge(f.li) >= peak_li_merge(old.li)
                          /\ peak_li_merge(old.li) = 1 => peak_li_merge(f.li) = 1
  BY InspectIs DEF f
<1>5. L \in Nat
  BY DEF Table
<1>6. /\ \A n \in 1 .. L : /\ flows[n].id \in Nat /\ flows[n].id < next_id
                           /\ flows[n].li \in Pairs
      /\ \A m, n \in 1 .. L : flows[m].id = flows[n].id => m = n
  BY DEF Table
<1>7. \A li \in Pairs : peak_li_merge(li) >= peak_li_merge(li)
  BY MergeSame
<1>8. CASE Known(k)
  <2>1. PICK n \in 1 .. L :
          /\ old = flows[n] /\ Len(flows') = L
          /\ \A i \in 1 .. L :
               flows'[i] = IF i = L THEN f ELSE IF i < n THEN flows[i] ELSE flows[i + 1]
    BY <1>3, <1>8 DEF MovedAs
  <2> DEFINE from(i) == IF i = L THEN n ELSE IF i < n THEN i ELSE i + 1
             to(m) == IF m = n THEN L ELSE IF m < n THEN m ELSE m - 1
  <2>2. /\ f.id = flows[n].id /\ f.li \in Pairs
        /\ peak_li_merge(f.li) >= peak_li_merge(flows[n].li)
        /\ peak_li_merge(flows[n].li) = 1 => peak_li_merge(f.li) = 1
    BY <1>4, <1>6, <2>1
  <2>3. \A i \in 1 .. L : /\ from(i) \in 1 .. L
                          /\ flows'[i].id = flows[from(i)].id /\ flows'[i].li \in Pairs
    BY <1>5, <1>6, <2>1, <2>2
  <2>4. \A i, j \in 1 .. L : from(i) = from(j) => i = j
    BY <1>5, <2>1
  <2>5. \A m \in 1 .. L : to(m) \in 1 .. L /\ from(to(m)) = m
    BY <1>5, <2>1
  <2>6. \A m \in 1 .. L : flows'[to(m)] = IF m = n THEN f ELSE flows[m]
    BY <1>5, <2>1
  <2> HIDE DEF from, to
  <2>7. Table(flows', next_id')
    <3>1. \A i \in 1 .. Len(flows') :
            flows'[i].id \in Nat /\ flows'[i].id < next_id' /\ flows'[i].li \in Pairs
      BY <1>6, <1>8, <2>1, <2>3
    <3>2. ASSUME NEW i \in 1 .. L, NEW j \in 1 .. L, flows'[i].id = flows'[j].id
          PROVE  i = j
      <4>1. flows[from(i)].id = flows[from(j)].id /\ from(i) \in 1 .. L /\ from(j) \in 1 .. L
        BY <2>3, <3>2
      <4>2. from(i) = from(j)
        BY <1>6, <4>1
      <4> QED BY <2>4, <4>2
    <3> QED BY <1>3, <2>1, <3>1, <3>2 DEF Table
  <2>8. ASSUME NEW m \in 1 .. L
        PROVE  /\ LabelIn(flows', flows[m].id) >= peak_li_merge(flows[m].li)
               /\ peak_li_merge(flows[m].li) = 1 => LabelIn(flows', flows[m].id) = 1
    <3> DEFINE j == to(m)
    <3>1. j \in 1 .. Len(flows') /\ flows'[j].id = flows[m].id
      BY <2>1, <2>3, <2>5
    <3>2. LabelIn(flows', flows[m].id) = peak_li_merge(flows'[j].li)
      <4>1. LabelIn(flows', flows'[j].id) = peak_li_merge(flows'[j].li)
        BY <2>7, <3>1, LabelInTable
      <4> QED BY <3>1, <4>1
    <3>3. CASE m = n
      BY <2>2, <2>6, <3>2, <3>3
    <3>4. CASE m # n
      <4>1. flows'[j] = flows[m]
        BY <2>6, <3>4
      <4> QED BY <1>6, <1>7, <3>2, <4>1
    <3> QED BY <3>3, <3>4
  <2> QED BY <2>7, <2>8
<1>9. CASE ~Known(k)
  <2>1. /\ old.id = next_id /\ old.li = <<0, 0>> /\ Len(flows') = L + 1
        /\ \A i \in 1 .. L + 1 : flows'[i] = IF i = L + 1 THEN f ELSE flows[i]
    BY <1>3, <1>9 DEF AddedAs
  <2>2. f.id = next_id /\ f.li \in Pairs
    <3>1. old.li \in Pairs
      BY <2>1 DEF Pairs
    <3> QED BY <1>4, <2>1, <3>1
  <2>3. Table(flows', next_id')
    <3>1. \A i \in 1 .. Len(flows') :
            flows'[i].id \in Nat /\ flows'[i].id < next_id' /\ flows'[i].li \in Pairs
      BY <1>5, <1>6, <1>9, <2>1, <2>2
    <3>2. \A i, j \in 1 .. Len(flows') : flows'[i].id = flows'[j].id => i = j
      BY <1>5, <1>6, <2>1, <2>2
    <3> QED BY <1>3, <3>1, <3>2 DEF Table
  <2>4. ASSUME NEW m \in 1 .. L
        PROVE  /\ LabelIn(flows', flows[m].id) >= peak_li_merge(flows[m].li)
               /\ peak_li_merge(flows[m].li) = 1 => LabelIn(flows', flows[m].id) = 1
    <3>1. m \in 1 .. Len(flows') /\ flows'[m] = flows[m]
      BY <1>5, <2>1
    <3>2. LabelIn(flows', flows'[m].id) = peak_li_merge(flows'[m].li)
      BY <2>3, <3>1, LabelInTable
    <3> QED BY <1>6, <1>7, <3>1, <3>2
  <2> QED BY <2>3, <2>4
<1> QED BY <1>8, <1>9
-----------------------------------------------------------------------------
(***************************************************************************)
(* The inductive invariant: frames are left to read, the table is one, and *)
(* the packet is what the parser made of the frame that was read last.     *)
(***************************************************************************)
PeekInv ==
  /\ \E S : trace \in Seq(S) /\ \A f \in S : IsFrame(f)
  /\ Table(flows, next_id) /\ next_id \in Nat
  /\ drops \in [DropFields -> Nat]
  /\ pc \in {"run", "exit", "panic", "endless"}
  /\ packet = NoPacket \/ (IsFrame(frame[1]) /\ packet = peak_packet_parse(frame[1]))
  /\ pc = "endless" => packet.ret = "endless"

LEMMA PeekInvInit == Init => PeekInv
<1> SUFFICES ASSUME Init PROVE PeekInv
  OBVIOUS
<1>1. \E S : trace \in Seq(S) /\ \A f \in S : IsFrame(f)
  BY TracesAssumption DEF Init
<1>2. Table(flows, next_id) /\ next_id \in Nat
  <2>1. flows = <<>> /\ next_id = 0
    BY DEF Init
  <2>2. <<>> \in Seq({}) /\ Len(<<>>) = 0
    OBVIOUS
  <2> QED BY <2>1, <2>2 DEF Table
<1>3. drops \in [DropFields -> Nat]
  BY DEF Init
<1>4. packet = NoPacket /\ pc = "run"
  BY DEF Init
<1> QED BY <1>1, <1>2, <1>3, <1>4 DEF PeekInv

\* The next frame is read, parsed and counted.
LEMMA LoadStep ==
  ASSUME PeekInv, Load, CountDrop
  PROVE  /\ \E S : trace' \in Seq(S) /\ \A f \in S : IsFrame(f)
         /\ IsFrame(frame'[1]) /\ packet' = peak_packet_parse(frame'[1])
         /\ drops' \in [DropFields -> Nat]
         /\ pc = "run"
<1>1. PICK S : trace \in Seq(S) /\ \A f \in S : IsFrame(f)
  BY DEF PeekInv
<1>2. trace # <<>> /\ trace' = Tail(trace) /\ packet' = peak_packet_parse(Head(trace))
      /\ frame' = <<Head(trace)>> /\ pc = "run"
  BY DEF Load
<1>3. Head(trace) \in S /\ Tail(trace) \in Seq(S)
  BY <1>1, <1>2, HeadTailProperties
<1>4. drops' \in [DropFields -> Nat]
  BY DEF PeekInv, CountDrop
<1>5. frame'[1] = Head(trace)
  BY <1>2
<1> QED BY <1>1, <1>2, <1>3, <1>4, <1>5

LEMMA PeekInvStep == PeekInv /\ [Next]_vars => PeekInv'
<1> SUFFICES ASSUME PeekInv, [Next]_vars PROVE PeekInv'
  OBVIOUS
<1>0. Table(flows, next_id) /\ next_id \in Nat
  BY DEF PeekInv
<1>1. CASE SkipPacket
  <2>1. /\ \E S : trace' \in Seq(S) /\ \A f \in S : IsFrame(f)
        /\ IsFrame(frame'[1]) /\ packet' = peak_packet_parse(frame'[1])
        /\ drops' \in [DropFields -> Nat] /\ pc = "run"
    BY <1>1, LoadStep DEF SkipPacket
  <2>2. flows' = flows /\ next_id' = next_id /\ pc' = pc
    BY <1>1 DEF SkipPacket
  <2> QED BY <1>0, <2>1, <2>2 DEF PeekInv
<1>2. CASE peek_packet
  <2>1. /\ \E S : trace' \in Seq(S) /\ \A f \in S : IsFrame(f)
        /\ IsFrame(frame'[1]) /\ packet' = peak_packet_parse(frame'[1])
        /\ drops' \in [DropFields -> Nat] /\ pc = "run"
    BY <1>2, LoadStep DEF peek_packet
  <2>2. PICK p, k :
          /\ flows' = Append(Front(Acquired(k)), Inspect(p, Last(Acquired(k))))
          /\ next_id' = IF Known(k) THEN next_id ELSE next_id + 1
          /\ pc' = "panic" \/ pc' = pc
    BY <1>2 DEF peek_packet
  <2>3. Table(flows', next_id') /\ next_id' \in Nat
    BY <1>0, <2>2, TableStep
  <2> QED BY <2>1, <2>2, <2>3 DEF PeekInv
<1>3. CASE TrackerFull
  <2>1. /\ \E S : trace' \in Seq(S) /\ \A f \in S : IsFrame(f)
        /\ IsFrame(frame'[1]) /\ packet' = peak_packet_parse(frame'[1])
        /\ drops' \in [DropFields -> Nat]
    BY <1>3, LoadStep DEF TrackerFull
  <2>2. flows' = flows /\ next_id' = next_id /\ pc' = "panic"
    BY <1>3 DEF TrackerFull
  <2> QED BY <1>0, <2>1, <2>2 DEF PeekInv
<1>4. CASE ParserLoops
  <2>1. /\ \E S : trace' \in Seq(S) /\ \A f \in S : IsFrame(f)
        /\ IsFrame(frame'[1]) /\ packet' = peak_packet_parse(frame'[1])
        /\ drops' \in [DropFields -> Nat]
    BY <1>4, LoadStep DEF ParserLoops
  <2>2. flows' = flows /\ next_id' = next_id /\ pc' = "endless" /\ packet'.ret = "endless"
    BY <1>4 DEF ParserLoops
  <2> QED BY <1>0, <2>1, <2>2 DEF PeekInv
<1>5. CASE Exit
  <2>1. /\ flows' = <<>> /\ pc' = "exit" /\ next_id' = next_id /\ trace' = trace
        /\ drops' = drops /\ packet' = packet /\ frame' = frame
    BY <1>5 DEF Exit
  <2>2. Table(flows', next_id')
    <3>1. <<>> \in Seq({}) /\ Len(<<>>) = 0
      OBVIOUS
    <3> QED BY <2>1, <3>1 DEF Table
  <2> QED BY <2>1, <2>2 DEF PeekInv
<1>6. CASE UNCHANGED vars
  BY <1>6 DEF PeekInv, vars
<1> QED BY <1>1, <1>2, <1>3, <1>4, <1>5, <1>6 DEF Next
-----------------------------------------------------------------------------
\* What the invariant says of a packet that the loop works on.
LEMMA UsablePacket ==
  ASSUME PeekInv, Usable
  PROVE  /\ IsFrame(frame[1]) /\ FrameParsed(frame[1], packet)
         /\ PacketOf(frame[1], packet.packet) /\ Payload(frame[1].app)
<1>1. packet # NoPacket
  BY DEF Usable, NoPacket
<1>2. IsFrame(frame[1]) /\ FrameParsed(frame[1], packet)
  BY <1>1, ParseIs DEF PeekInv
<1> QED BY <1>2 DEF FrameParsed, Usable, IsFrame

(***************************************************************************)
(* peak_packet_parse() hands over layers that fit into each other, no      *)
(* length wrapped around, and comes back from every frame without an       *)
(* extension header of length 0 in front of another variable one.          *)
(***************************************************************************)
THEOREM ParserCorrect == Spec => []ParserSound
<1>1. PeekInv => TypeOK
  <2> SUFFICES ASSUME PeekInv PROVE TypeOK
    OBVIOUS
  <2>1. Table(flows, next_id) /\ next_id \in Nat
    BY DEF PeekInv
  <2>2. DOMAIN flows = 1 .. Len(flows)
    BY <2>1 DEF Table
  <2>3. \A n \in DOMAIN flows : flows[n].id \in 0 .. next_id - 1 /\ flows[n].li \in Pairs
    BY <2>1, <2>2 DEF Table
  <2>4. Pairs = (0 .. Len(Labels)) \X (0 .. Len(Labels))
    BY TableSizes DEF Pairs
  <2> QED BY <2>3, <2>4 DEF TypeOK, PeekInv
<1>2. PeekInv => LayersNest
  <2> DEFINE p == packet.packet
  <2> SUFFICES ASSUME PeekInv, Usable,
                      p.net_type \in {IPPROTO_TCP, IPPROTO_UDP, IPPROTO_ICMP},
                      p.mac_type = ETHERTYPE_IPV6 => p.net_hlen <= p.net_len
               PROVE  p.net_hlen + p.flow_hlen + p.app_len = p.net_len
    BY DEF LayersNest
  <2>1. FrameParsed(frame[1], packet)
    BY UsablePacket
  <2>2. p.net_type = 6 \/ p.net_type = 17 \/ p.net_type = 1
    BY DEF IPPROTO_TCP, IPPROTO_UDP, IPPROTO_ICMP
  <2>3. Nested(p)
    BY <2>1, <2>2 DEF FrameParsed, Usable
  <2> QED BY <2>3 DEF Nested
<1>3. PeekInv => ParserReturns
  <2> SUFFICES ASSUME PeekInv, pc = "endless"
               PROVE  \E hdr \in Range(frame[1].net.ext) :
                        hdr.len = 0 /\ hdr.nxt \in VariableHeaders
    BY DEF ParserReturns
  <2>1. packet.ret = "endless" /\ packet # NoPacket
    BY DEF PeekInv, NoPacket
  <2>2. FrameParsed(frame[1], packet)
    BY <2>1, ParseIs DEF PeekInv
  <2>3. PICK off \in DOMAIN frame[1].net.ext :
          /\ frame[1].net.ext[off].len = 0
          /\ frame[1].net.ext[off].nxt \in VariableHeaders
    BY <2>1, <2>2 DEF FrameParsed
  <2>4. frame[1].net.ext[off] \in Range(frame[1].net.ext)
    BY DEF Range
  <2> QED BY <2>3, <2>4
<1> QED BY <1>1, <1>2, <1>3, PeekInvInit, PeekInvStep, PTL DEF Spec, ParserSound

(***************************************************************************)
(* No signature of peak_li_get() tells the directions apart, and none but  *)
(* LDAP and SNMP reads a byte that is not part of the payload.             *)
(***************************************************************************)
THEOREM PayloadAlone == Spec => []PayloadDecides
<1>1. ASSUME PeekInv, Usable
      PROVE  Below(packet.packet.net_type, 256)
  BY <1>1, UsablePacket DEF PacketOf
<1>2. PeekInv => DirectionBlind
  <2> SUFFICES ASSUME PeekInv, Usable
               PROVE  peak_li_get(packet.packet) = peak_li_get(Reversed(packet.packet))
    BY DEF DirectionBlind
  <2>1. Alike(packet.packet, Reversed(packet.packet))
    BY UsablePacket, AlikeReversed
  <2> QED BY <1>1, <2>1, AlikeGet
<1>3. PeekInv => LooksInside
  <2> SUFFICES ASSUME PeekInv, Usable, ~EndsAtLastByte(packet.packet), NEW b
               PROVE  peak_li_get([packet.packet EXCEPT !.app.behind = b])
                        = peak_li_get(packet.packet)
    BY DEF LooksInside
  <2>1. Alike(packet.packet, [packet.packet EXCEPT !.app.behind = b])
    BY UsablePacket, AlikeBehind
  <2> QED BY <1>1, <2>1, AlikeGet
<1> QED BY <1>2, <1>3, PeekInvInit, PeekInvStep, PTL DEF Spec, PayloadDecides

(***************************************************************************)
(* peak_li_get() and peak_li_test(), peak_li_name() and peak_li_number()   *)
(* agree on every packet and label, and the excluded ports decide between  *)
(* FTP, POP3 and SMTP, and IRC.                                            *)
(***************************************************************************)
THEOREM LabelsMeanOneThing == Spec => []LabelsAgree
<1>1. PeekInv => GetPassesTest
  <2> SUFFICES ASSUME PeekInv, Usable
               PROVE  LET p == packet.packet
                          label == peak_li_get(p)
                      IN /\ label > LI_UNDEFINED => peak_li_test(p, label)
                         /\ label = LI_UNDEFINED =>
                              \A l \in DOMAIN Labels : ~peak_li_test(p, l)
    BY DEF GetPassesTest
  <2> DEFINE p == packet.packet
  <2>1. Below(p.net_type, 256)
    BY UsablePacket DEF PacketOf
  <2>2. /\ peak_li_get(p) > 1 => peak_li_test(p, peak_li_get(p))
        /\ peak_li_get(p) = 1 => \A l : ~peak_li_test(p, l)
    BY <2>1, GetPasses
  <2> QED BY <2>2 DEF LI_UNDEFINED
<1>2. PeekInv => NamesRoundTrip
  <2> SUFFICES ASSUME PeekInv, NEW n \in DOMAIN flows
               PROVE  peak_li_number(peak_li_name(peak_li_merge(flows[n].li)))
                        = peak_li_merge(flows[n].li)
    BY DEF NamesRoundTrip
  <2>1. flows[n].li \in Pairs
    BY DEF PeekInv, Table
  <2>2. peak_li_merge(flows[n].li) \in 0 .. 40
    BY <2>1, MergeType
  <2> QED BY <2>2, NumberOfName
<1>3. PeekInv => PortsSeparate
  <2> DEFINE p == packet.packet
  <2>1. LI("ftp") = 13 /\ LI("pop3") = 4 /\ LI("smtp") = 6 /\ LI("irc") = 12
    <3>1. Labels[13] = "ftp" /\ Labels[4] = "pop3" /\ Labels[6] = "smtp" /\ Labels[12] = "irc"
      BY DEF Labels
    <3> QED BY <3>1, LabelFound
  <2>2. ASSUME PeekInv, Usable, p.net_type = IPPROTO_TCP, User(p) \/ Greeting(p),
               p.app_len >= 4, NEW port, Wellknown(p) = {port}
        PROVE  \/ port = 21 /\ peak_li_get(p) = 13
               \/ port \in {25, 110, 465, 587} /\ peak_li_get(p) \in {4, 6}
               \/ port \in {194, 6667} /\ peak_li_get(p) \in {12, 6}
    <3>1. p.net_type = 6
      BY <2>2 DEF IPPROTO_TCP
    <3>2. PacketOf(frame[1], p) /\ Payload(frame[1].app)
      BY <2>2, UsablePacket
    <3> QED BY <2>2, <3>1, <3>2, PortDecides
  <2> DEFINE Says(port) ==
        \/ port = 21 /\ peak_li_get(p) = LI("ftp")
        \/ port \in {25, 110, 465, 587} /\ peak_li_get(p) \in {LI("pop3"), LI("smtp")}
        \/ port \in {194, 6667} /\ peak_li_get(p) \in {LI("irc"), LI("smtp")}
  <2>3. ASSUME PeekInv, Usable, p.net_type = IPPROTO_TCP, User(p) \/ Greeting(p),
               p.app_len >= 4
        PROVE  \A port \in Wellknown(p) : Wellknown(p) = {port} => Says(port)
    BY <2>1, <2>2, <2>3
  <2> HIDE DEF Says
  <2>4. PortsSeparate <=>
          (/\ Usable /\ p.net_type = IPPROTO_TCP
           /\ (User(p) \/ Greeting(p)) /\ p.app_len >= 4
           => \A port \in Wellknown(p) : Wellknown(p) = {port} => Says(port))
    BY Zenon DEF PortsSeparate, User, Greeting, Says
  <2> QED BY <2>3, <2>4
<1> QED BY <1>1, <1>2, <1>3, PeekInvInit, PeekInvStep, PTL DEF Spec, LabelsAgree

(***************************************************************************)
(* peek never takes back the label of a flow: ids are not used twice, the  *)
(* table keeps its flows, and peak_li_merge() grows with each direction.   *)
(***************************************************************************)
THEOREM LabelsKept == Spec => LabelRemembered
<1> DEFINE Kept == \A n \in DOMAIN flows :
             pc' # "exit" =>
               LET old == peak_li_merge(flows[n].li)
                   new == LabelIn(flows', flows[n].id) IN
               /\ new >= old
               /\ old = LI_UNDEFINED => new = old
<1>1. ASSUME PeekInv, Next PROVE Kept
  <2>1. Table(flows, next_id) /\ next_id \in Nat /\ DOMAIN flows = 1 .. Len(flows)
    BY <1>1 DEF PeekInv, Table
  <2>2. CASE flows' = flows
    <3> SUFFICES ASSUME NEW n \in 1 .. Len(flows)
                 PROVE  /\ LabelIn(flows, flows[n].id) >= peak_li_merge(flows[n].li)
                        /\ LabelIn(flows, flows[n].id) = peak_li_merge(flows[n].li)
      BY <2>1, <2>2
    <3>1. LabelIn(flows, flows[n].id) = peak_li_merge(flows[n].li)
      BY <2>1, LabelInTable
    <3>2. flows[n].li \in Pairs
      BY <2>1 DEF Table
    <3>3. peak_li_merge(flows[n].li) >= peak_li_merge(flows[n].li)
      BY <3>2, MergeSame
    <3> QED BY <3>1, <3>3
  <2>3. CASE peek_packet
    <3>1. PICK p, k :
            /\ flows' = Append(Front(Acquired(k)), Inspect(p, Last(Acquired(k))))
            /\ next_id' = IF Known(k) THEN next_id ELSE next_id + 1
      BY <2>3 DEF peek_packet
    <3>2. \A n \in 1 .. Len(flows) :
            /\ LabelIn(flows', flows[n].id) >= peak_li_merge(flows[n].li)
            /\ peak_li_merge(flows[n].li) = 1 => LabelIn(flows', flows[n].id) = 1
      BY <2>1, <3>1, TableStep
    <3> QED BY <2>1, <3>2 DEF LI_UNDEFINED
  <2>4. CASE Exit
    BY <2>4 DEF Exit
  <2>5. CASE SkipPacket \/ TrackerFull \/ ParserLoops
    <3>1. flows' = flows
      BY <2>5 DEF SkipPacket, TrackerFull, ParserLoops
    <3> QED BY <2>2, <3>1
  <2> QED BY <1>1, <2>3, <2>4, <2>5 DEF Next
<1>2. PeekInv /\ [Next]_vars => [Kept]_vars
  BY <1>1
<1> QED BY <1>2, PeekInvInit, PeekInvStep, PTL DEF Spec, LabelRemembered
=============================================================================
