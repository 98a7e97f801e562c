----------------------------- MODULE MCPeakPeek ------------------------------
(* Frames for PeakPeek: a sample of every signature at the length it asks  *)
(* for and one byte less and more, the words of the text protocols on the  *)
(* ports that matter, headers around every check of the parser, and traces *)
(* of several packets of three conversations.                              *)
EXTENDS PeakPeek

\* Words, and the bytes they stand for.
Words ==
  "220 " :> <<50, 50, 48, 32>> @@ "USER" :> <<85, 83, 69, 82>> @@
  "+OK " :> <<43, 79, 75, 32>> @@ "NICK" :> <<78, 73, 67, 75>> @@
  "HELO" :> <<72, 69, 76, 79>> @@ "GET " :> <<71, 69, 84, 32>> @@
  "SIP/" :> <<83, 73, 80, 47>> @@ "* OK" :> <<42, 32, 79, 75>> @@
  "SSH-" :> <<83, 83, 72, 45>> @@ "BEGI" :> <<66, 69, 71, 73>> @@
  "OPTI" :> <<79, 80, 84, 73>> @@ "19Bit" :> <<19, 66, 105, 116>> @@
  "GNUT" :> <<71, 78, 85, 84>> @@ "<?xm" :> <<60, 63, 120, 109>> @@
  "RSP/" :> <<82, 83, 80, 47>> @@ "RTSP" :> <<82, 84, 83, 80>> @@
  "WXYZ" :> <<87, 88, 89, 90>>

Text(word) ==
  [text |-> word, at |-> [i \in 0 .. 3 |-> Words[word][i + 1]], behind |-> 255]
Binary(at) == [text |-> "", at |-> at, behind |-> 255]

Header(sport, dport) ==
  [sport |-> sport, dport |-> dport, off |-> 5, flags |-> {"ACK"}, ulen |-> 8,
   at |-> <<>>]
IPv4(src, dst, p, len) ==
  [v |-> 4, hl |-> 5, len |-> len, p |-> p, src |-> src, dst |-> dst]
Frame(net, flow, app) ==
  [type |-> LINKTYPE_ETHERNET, ether |-> ETHERTYPE_IP, tag |-> 0, net |-> net,
   flow |-> flow, flow_at |-> 20, stray |-> Header(1, 1), app |-> app]
Tcp(src, dst, sport, dport, app, len) ==
  Frame(IPv4(src, dst, IPPROTO_TCP, 40 + len), Header(sport, dport), app)
Udp(src, dst, sport, dport, app, len) ==
  Frame(IPv4(src, dst, IPPROTO_UDP, 28 + len), Header(sport, dport), app)

\* Samples: the length a signature asks for, and the bytes it looks at.
Samples ==
  {<<12, 2 :> 1 @@ 5 :> 1>>, <<14, 1 :> 12 @@ 4 :> 133>>, <<14, 1 :> 1 @@ 7 :> 1>>,
   <<236, 0 :> 1 @@ 1 :> 1 @@ 2 :> 6>>,
   <<20, 4 :> 33 @@ 5 :> 18 @@ 6 :> 164 @@ 7 :> 66>>,
   <<4, 0 :> 128 @@ 1 :> 200>>, <<12, 0 :> 128 @@ 1 :> 127>>,
   <<12, 0 :> 128 @@ 1 :> 8 @@ 4 :> 1>>, <<12, 0 :> 128 @@ 1 :> 127 @@ 4 :> 1>>,
   <<2, 0 :> 255 @@ 1 :> 240>>, <<4, 0 :> 255 @@ 1 :> 251 @@ 3 :> 255>>,
   <<5, 0 :> 255 @@ 1 :> 250 @@ 3 :> 255 @@ 4 :> 255>>,
   <<24, 0 :> 2 @@ 1 :> 2>>, <<13, 1 :> 254 @@ 2 :> 255 @@ 12 :> 1>>,
   <<5, 0 :> 22 @@ 1 :> 3 @@ 2 :> 1 @@ 4 :> 1>>, <<5, 0 :> 22 @@ 1 :> 3 @@ 3 :> 64>>,
   <<28, 0 :> 1 @@ 16 :> 33 @@ 17 :> 32 @@ 18 :> 34 @@ 27 :> 28>>,
   <<28, 0 :> 1 @@ 16 :> 1 @@ 17 :> 16 @@ 18 :> 5 @@ 27 :> 28>>,
   <<19, [i \in 0 .. 15 |-> 255] @@ 17 :> 19 @@ 18 :> 4>>,
   <<64, 1 :> 1 @@ 3 :> 1 @@ 16 :> 1 @@ 20 :> 1>>,
   <<72, 1 :> 5 @@ 3 :> 1 @@ 24 :> 1 @@ 28 :> 1>>,
   <<20, 0 :> 11 @@ 3 :> 20>>,
   <<6, 1 :> 1 @@ 2 :> 97 @@ 4 :> 111>>, <<4, 1 :> 3 @@ 3 :> 1>>, <<4, 1 :> 4>>,
   <<4, 1 :> 5 @@ 3 :> 8>>, <<516, 1 :> 3 @@ 3 :> 1>>,
   <<14, 0 :> 16 @@ 4 :> 1 @@ 8 :> 1>>, <<4, 0 :> 129>>, <<12, 2 :> 40>>,
   <<14, 4 :> 40>>,
   <<8, 1 :> 8 @@ 3 :> 1 @@ 4 :> 26 @@ 5 :> 43 @@ 6 :> 60 @@ 7 :> 77>>,
   <<12, 0 :> 200 @@ 1 :> 2 @@ 3 :> 12>>,
   <<48, 0 :> 35>>, <<48, 0 :> 8>>, <<60, 0 :> 25>>, <<68, 0 :> 33>>,
   <<10, 0 :> 48 @@ 1 :> 132 @@ 6 :> 2 @@ 7 :> 1 @@ 8 :> 1 @@ 9 :> 96>>,
   <<10, 0 :> 48 @@ 2 :> 2 @@ 3 :> 1 @@ 5 :> 4>>,
   <<4, 0 :> 111 @@ 1 :> 1 @@ 3 :> 6>>,
   <<9, 0 :> 56>>, <<11, 1 :> 9 @@ 2 :> 56>>, <<3, 0 :> 60 @@ 1 :> 49 @@ 2 :> 62>>}

SampleFrames ==
  UNION {{Tcp(1, 2, 5000, 6000, Binary(s[2]), s[1] + d),
          Udp(1, 2, 5000, 6000, Binary(s[2]), s[1] + d)} :
           s \in Samples, d \in {-1, 0, 1}}

WordFrames ==
  {Tcp(1, 2, ports[1], ports[2], Text(w), len) :
     w \in DOMAIN Words, len \in {3, 4},
     ports \in {<<21, 5000>>, <<5000, 21>>, <<110, 5000>>, <<5000, 194>>,
                <<25, 5000>>, <<5000, 587>>, <<6667, 5000>>, <<5000, 6000>>,
                <<21, 21>>, <<21, 110>>, <<25, 21>>}}
  \cup {Udp(1, 2, 5000, 6000, Text(w), 4) : w \in DOMAIN Words}

\* GRE: the header is at flow.raw, and there is no payload.
GreFrames ==
  {Frame(IPv4(1, 2, IPPROTO_GRE, 20 + len),
         [Header(0, 0) EXCEPT !.at = 0 :> 32 @@ 1 :> version @@ 2 :> 136 @@ 3 :> 11],
         Binary(<<>>)) : version \in {0, 1}, len \in {7, 8}}

\* Headers around the checks of the parser.
HeaderFrames ==
  {[Frame([IPv4(1, 2, p, len) EXCEPT !.hl = hl, !.v = v],
          [Header(sport, 80) EXCEPT !.off = off, !.ulen = ulen], Text("GET "))
      EXCEPT !.flow_at = 4 * hl] :
     v \in {4, 6}, hl \in {4, 5, 6}, len \in {19, 24, 27, 28, 39, 40, 44},
     p \in {IPPROTO_ICMP, IPPROTO_TCP, IPPROTO_UDP, IPPROTO_OSPFIGP},
     sport \in {0, 90}, off \in {4, 5, 6}, ulen \in {0, 7, 8}}

FlagFrames ==
  {Frame(IPv4(1, 2, IPPROTO_TCP, 44), [Header(90, 80) EXCEPT !.flags = flags],
         Text("GET ")) : flags \in SUBSET {"SYN", "ACK", "RST", "FIN"}}

LinkFrames ==
  {[Tcp(1, 2, 90, 80, Text("GET "), 4)
      EXCEPT !.type = type, !.ether = ether, !.tag = tag] :
     type \in {LINKTYPE_NULL, LINKTYPE_ETHERNET, LINKTYPE_LINUX_SLL, 7},
     ether \in {ETHERTYPE_IP, ETHERTYPE_VLAN, 2054}, tag \in {ETHERTYPE_IP, 2054}}

\* IPv6 with up to two extension headers.
IPv6Frames ==
  {[Tcp(1, 2, 90, 80, Text("GET "), 4)
      EXCEPT !.ether = ETHERTYPE_IPV6, !.flow_at = 48,
             !.net = [plen |-> plen, nxt |-> nxt, src |-> 1, dst |-> 2,
                      ext |-> 40 :> [nxt |-> ext, len |-> len] @@
                              48 :> [nxt |-> IPPROTO_UDP, len |-> 8]]] :
     plen \in {0, 8, 20, 28}, len \in {0, 4, 8, 216},
     nxt \in {IPPROTO_TCP, IPPROTO_UDP, IPPROTO_ICMPV6, 0, IPPROTO_FRAGMENT},
     ext \in {IPPROTO_TCP, IPPROTO_UDP, IPPROTO_FRAGMENT, 60, IPPROTO_NONE}}

\* Packets of a TCP conversation both ways, of two others, and of none.
TraceFrames ==
  {Tcp(1, 2, 2121, 5000, Text(w), len) : w \in {"220 ", "WXYZ"}, len \in {0, 4}}
  \cup {Tcp(2, 1, 5000, 2121, Text(w), len) : w \in {"USER", "WXYZ"}, len \in {0, 4}}
  \cup {Udp(1, 2, 53, 53, Binary(2 :> 1 @@ 5 :> 1), 12),
        Tcp(3, 1, 7, 9, Text("SSH-"), 4),
        [Tcp(1, 2, 90, 80, Text("GET "), 4) EXCEPT !.ether = 2054],
        Tcp(1, 2, 0, 80, Text("GET "), 4)}

MCTraces ==
  {<<f>> : f \in SampleFrames \cup WordFrames \cup GreFrames \cup HeaderFrames
                   \cup FlagFrames \cup LinkFrames \cup IPv6Frames}
  \cup [1 .. 3 -> TraceFrames]
=============================================================================
