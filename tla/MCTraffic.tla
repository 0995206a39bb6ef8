----------------------------- MODULE MCTraffic -----------------------------
(***************************************************************************)
(* The traffic that the pipelines are model checked with: the empty        *)
(* capture and every one of Length packets of the kinds in Kinds.  A       *)
(* conversation has both directions and may name itself in several ways,   *)
(* another one has the blocked source 3, and some packets have no ports,   *)
(* no addresses, or do not survive the parser.                             *)
(***************************************************************************)
EXTENDS Naturals, Sequences

CONSTANTS Length, Kinds

\* Names: google.com, facebook.com, malicious.com and a subdomain, cut down to
\* letters.
MCChar    == {"f", "g", "m", "w", "c", "W", ".", " "}
MCLower   == [c \in {"W"} |-> "w"]
Facebook  == <<"f", ".", "c">>
Google    == <<"g", ".", "c">>
Malicious == <<"m", ".", "c">>
Www(name) == <<"W", ".">> \o name

MCDomainRules    == <<[domain |-> Google,   app |-> "GOOGLE"],
                      [domain |-> Facebook, app |-> "FACEBOOK"]>>
MCAppType        == {"UNKNOWN", "GOOGLE", "FACEBOOK"}
MCDefaultDomains == {Malicious}
LabelGoogle      == {<<"g">>}      \* --block-domain g

Packet(src, sport, dst, dport, protocol, sni, host) ==
  [src_ip |-> src, src_port |-> sport, dst_ip |-> dst, dst_port |-> dport,
   protocol |-> protocol, sni |-> sni, http_host |-> host, malformed |-> FALSE]

Client(sni, host) == Packet(1, 5, 2, 4, "TCP", sni, host)

MCPacket ==
  [syn       |-> Client(<<>>, <<>>),
   hello     |-> Client(Www(Facebook), <<>>),
   search    |-> Client(Google, <<>>),
   malicious |-> Client(Www(Malicious), <<>>),
   request   |-> Client(<<>>, Google),
   other     |-> Client(<<>>, Malicious),
   reply     |-> Packet(2, 4, 1, 5, "TCP", <<>>, <<>>),
   blocked   |-> Packet(3, 4, 2, 4, "UDP", <<>>, <<>>),
   ping      |-> Packet(3, 0, 2, 0, "ICMP", <<>>, <<>>),
   arp       |-> Packet(0, 0, 0, 0, "", <<>>, <<>>),
   garbage   |-> [Client(<<>>, <<>>) EXCEPT !.malformed = TRUE]]

MCCaptures == UNION {[1 .. n -> {MCPacket[kind] : kind \in Kinds}] : n \in {0, Length}}
=============================================================================
