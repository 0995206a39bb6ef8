----------------------------- MODULE MCV1Engine -----------------------------
(***************************************************************************)
(* Model checking of V1Engine on the captures of MCTraffic and of texts    *)
(* with and without a second word and with Host lines that are empty,      *)
(* repeated, spelled in small letters or with the name twice, by both      *)
(* entries.                                                                *)
(***************************************************************************)
EXTENDS V1Engine, MCTraffic

CONSTANTS word, agent, Texts

\* The rest of a line that has the name once.
Header(name, rest) == [name |-> name, rest |-> <<rest>>]

\* "Host: gHost:c"
HostTwice == [name |-> "Host:", rest |-> <<<<Space, "g">>, <<"c">>>>]

Payload(start, second, headers) ==
  [tls |-> FALSE, start |-> start, second |-> second, headers |-> headers]

MCPayload ==
  [request |-> Payload("GET", word, <<Header("Host:", <<Space>> \o Google),
                                      Header("User-Agent:", <<Space, agent>>)>>),
   short   |-> Payload("GET", None, <<Header("Host:", <<Space>>), Header("Host:", Google)>>),
   twice   |-> Payload("PUT", None, <<HostTwice>>),
   post    |-> Payload("POST", word, <<Header("host:", Google)>>),
   put     |-> Payload("PUT", None, <<>>),
   status  |-> Payload("HTTP/", word, <<>>),
   torn    |-> Payload("HTTP/", None, <<>>),
   tls     |-> [tls |-> TRUE, start |-> "other", second |-> None, headers |-> <<>>],
   nothing |-> Payload("other", None, <<>>)]

\* A packet of MCTraffic with the payload that its names come from, and one for
\* each text, to a port with a service.
Filled(kind) ==
  MCPacket[kind] @@
    [length  |-> 60,
     payload |-> MCPayload[CASE kind = "request" -> "request"
                             [] MCPacket[kind].sni # <<>> -> "tls"
                             [] OTHER -> "nothing"]]

Web(text) ==
  Packet(1, 5, 2, IF text = "put" THEN 443 ELSE 80, "TCP", <<>>,
         Statistics!Extract(MCPayload[text]))
    @@ [length |-> 80, payload |-> MCPayload[text]]

MCV1Captures ==
  UNION {[1 .. n -> {Filled(kind) : kind \in Kinds} \cup {Web(text) : text \in Texts}] :
           n \in {0, Length}}
=============================================================================
