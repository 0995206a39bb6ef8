-------------------------- MODULE PacketStatistics --------------------------
(***************************************************************************)
(* The statistics that src/src/analyzer.py keeps of a capture, with the    *)
(* block that looks at the text of a payload and swallows its exceptions,  *)
(* and src/src/http_host_extractor.py, which V2 looks for a host with.     *)
(* V1Engine has the loop that this is a part of, and what analyze does to  *)
(* flows, names and protocols.                                             *)
(*                                                                         *)
(* Besides the fields of ConnectionTracker's, a packet has a length and a  *)
(* payload, which is what the code can tell of it:                         *)
(*   tls      its first byte is 0x16;                                      *)
(*   start    what its text starts with;                                   *)
(*   second   the second word of its text, None if there is no blank;      *)
(*   headers  the lines with a name that is looked for, each with the rest *)
(*            of it, cut wherever the name "Host:" (or "User-Agent:") stands *)
(*            in it again.                                                   *)
(* A dictionary of counters is a bag.                                      *)
(***************************************************************************)
EXTENDS BagsExt, SequencesExt

CONSTANTS None,
          strip(_)       \* str.strip

VARIABLES
  packets, next,      \* the capture and the packet that the loop has reached
  total_bytes, https_packet_count, tls_handshake_count, http_packet_count,
  http_response_count,
  source_ip_count, destination_port_count, service_count,
  http_hosts, http_host_count, user_agents, user_agent_count,
  http_status_codes, http_paths, http_method_count

ports     == <<destination_port_count, service_count, https_packet_count,
               tls_handshake_count>>
headers   == <<http_hosts, http_host_count, user_agents, user_agent_count>>
messages  == <<http_response_count, http_status_codes, http_paths,
               http_packet_count, http_method_count>>

ServiceOf == [port \in {80, 443, 53, 22, 21, 25} |->
                CASE port = 80 -> "HTTP" [] port = 443 -> "HTTPS" [] port = 53 -> "DNS"
                  [] port = 22 -> "SSH"  [] port = 21 -> "FTP"    [] port = 25 -> "SMTP"]

Init ==
  /\ total_bytes = 0 /\ https_packet_count = 0 /\ tls_handshake_count = 0
  /\ http_packet_count = 0 /\ http_response_count = 0
  /\ source_ip_count = EmptyBag /\ destination_port_count = EmptyBag
  /\ service_count = EmptyBag
  /\ http_hosts = <<>> /\ http_host_count = EmptyBag
  /\ user_agents = <<>> /\ user_agent_count = EmptyBag
  /\ http_status_codes = EmptyBag /\ http_paths = <<>>
  /\ http_method_count = [method \in {"GET", "POST"} |-> 0]

Packet == packets[next]
Text   == Packet.payload

OneIf(condition) == IF condition THEN 1 ELSE 0

CountAddresses ==
  /\ total_bytes' = total_bytes + Packet.length
  /\ source_ip_count' = IF Packet.src_ip = 0 THEN source_ip_count
                        ELSE BagAdd(source_ip_count, Packet.src_ip)

\* Mutant: a port without a service counts as HTTPS.
CountPortsAsHTTPS ==
  LET port == Packet.dst_port
  IN  /\ destination_port_count' = BagAdd(destination_port_count, port)
      /\ service_count' = BagAdd(service_count, IF port \in DOMAIN ServiceOf
                                                THEN ServiceOf[port] ELSE "HTTPS")
      /\ https_packet_count' = https_packet_count + OneIf(port = 443)
      /\ tls_handshake_count' = tls_handshake_count + OneIf(Text.tls)

CountPorts ==
  LET port == Packet.dst_port
  IN  /\ destination_port_count' = BagAdd(destination_port_count, port)
      /\ service_count' = IF port \in DOMAIN ServiceOf
                          THEN BagAdd(service_count, ServiceOf[port]) ELSE service_count
      /\ https_packet_count' = https_packet_count + OneIf(port = 443)
      /\ tls_handshake_count' = tls_handshake_count + OneIf(Text.tls)

-----------------------------------------------------------------------------
(* The try block.  Its statements run in order, and text.split(" ")[1]     *)
(* raises if the text has no blank: what comes after it is not counted.    *)

LinesOf(payload, names) == {k \in DOMAIN payload.headers : payload.headers[k].name \in names}

\* line.replace("Host:", "").strip(): what is left of a line without any of them.
AnalyzerHost(rest) == strip(FlattenSeq(rest))

HostsIn(payload) ==
  FlattenSeq([k \in DOMAIN payload.headers |->
                IF k \in LinesOf(payload, {"Host:"})
                THEN <<AnalyzerHost(payload.headers[k].rest)>> ELSE <<>>])

Raises == Text.start \in {"HTTP/", "GET", "POST"} /\ Text.second = None

\* Every Host line, and what is between the first User-Agent and the next; before
\* anything can raise.
CountHeaders ==
  LET hosts  == HostsIn(Text)
      named  == LinesOf(Text, {"User-Agent:"})
      agents == IF named = {} THEN <<>> ELSE <<strip(Text.headers[Min(named)].rest[1])>>
  IN  /\ http_hosts' = http_hosts \o hosts
      /\ http_host_count' = http_host_count (+) ToBag(hosts)
      /\ user_agents' = user_agents \o agents
      /\ user_agent_count' = user_agent_count (+) ToBag(agents)

\* Mutant: the methods are counted first.
CountMessagesMethodsFirst ==
  /\ http_method_count' = [method \in {"GET", "POST"} |->
                             http_method_count[method] + OneIf(Text.start = method)]
  /\ http_response_count' = http_response_count + OneIf(Text.start = "HTTP/")
  /\ http_status_codes' = IF Text.start = "HTTP/" /\ ~Raises
                          THEN BagAdd(http_status_codes, Text.second)
                          ELSE http_status_codes
  /\ http_paths' = IF Text.start \in {"GET", "POST"} /\ ~Raises
                   THEN Append(http_paths, Text.second) ELSE http_paths
  /\ http_packet_count' = http_packet_count +
       OneIf(Text.start \in {"GET", "POST", "PUT", "DELETE"} /\ ~Raises)

\* A response is counted before its code is read, a request after its path.
CountMessages ==
  /\ http_response_count' = http_response_count + OneIf(Text.start = "HTTP/")
  /\ http_status_codes' = IF Text.start = "HTTP/" /\ ~Raises
                          THEN BagAdd(http_status_codes, Text.second)
                          ELSE http_status_codes
  /\ http_paths' = IF Text.start \in {"GET", "POST"} /\ ~Raises
                   THEN Append(http_paths, Text.second) ELSE http_paths
  /\ http_packet_count' = http_packet_count +
       OneIf(Text.start \in {"GET", "POST", "PUT", "DELETE"} /\ ~Raises)
  /\ http_method_count' = [method \in {"GET", "POST"} |->
       http_method_count[method] + OneIf(Text.start = method /\ ~Raises)]

-----------------------------------------------------------------------------
\* What the body of the loop counts, without and with a destination port.
CountWithoutPort ==
  /\ Packet.dst_port = 0
  /\ CountAddresses
  /\ UNCHANGED <<ports, headers, messages>>

CountWithPort ==
  /\ Packet.dst_port # 0
  /\ CountAddresses /\ CountPorts /\ CountHeaders /\ CountMessages

Count == CountWithoutPort \/ CountWithPort
-----------------------------------------------------------------------------
(* HTTPHostExtractor.extract: the first Host line, however it is spelled,  *)
(* with anything on it.  Blank stands for the result None too.             *)

Blank == <<>>

\* line[5:].strip(): a further "Host:" is a part of the host.
ExtractorHost(rest) ==
  strip(FlattenSeq([k \in DOMAIN rest |->
                      IF k = 1 THEN rest[1] ELSE <<"Host:">> \o rest[k]]))

\* Mutant: the first Host line must have a value.
ExtractFirstOnly(payload) ==
  LET hosts == LinesOf(payload, {"Host:", "host:"})
  IN  IF hosts = {} THEN Blank ELSE ExtractorHost(payload.headers[Min(hosts)].rest)

Extract(payload) ==
  LET hosts == {k \in LinesOf(payload, {"Host:", "host:"}) :
                  ExtractorHost(payload.headers[k].rest) # Blank}
  IN  IF hosts = {} THEN Blank ELSE ExtractorHost(payload.headers[Min(hosts)].rest)
-----------------------------------------------------------------------------
(* What the statistics promise.                                            *)

\* The packets seen so far whose text was looked at.
Seen == {k \in 1 .. next - 1 : packets[k].dst_port # 0}

Starting(starts) == {k \in Seen : packets[k].payload.start \in starts}

\* The responses whose second word is this one.
Responses(code) == {k \in Starting({"HTTP/"}) : packets[k].payload.second = code}

\* A text that makes the block raise loses none of what was counted for it half:
\* every path has its method and every method its path, no request is counted
\* without either, every response is counted, and each status code as often as a
\* response has it; a response without a code is in no other count
\* (analyzer.py:171-232).
MessagesAddUp ==
  /\ Len(http_paths) = http_method_count["GET"] + http_method_count["POST"]
  /\ http_packet_count = Len(http_paths) + Cardinality(Starting({"PUT", "DELETE"}))
  /\ http_response_count = Cardinality(Starting({"HTTP/"}))
  /\ http_status_codes =
       [code \in {packets[k].payload.second : k \in Starting({"HTTP/"})} \ {None} |->
          Cardinality(Responses(code))]

\* dict.get(key, 0)
Times(key, count) == IF key \in DOMAIN count THEN count[key] ELSE 0

\* The three counts of HTTPS traffic are one number, and no service is counted
\* for a port that is not its own (analyzer.py:120-147).
PortsAddUp ==
  /\ https_packet_count = Times(443, destination_port_count)
  /\ \A service \in DOMAIN service_count :
       \E port \in DOMAIN ServiceOf :
         /\ ServiceOf[port] = service
         /\ service_count[service] = Times(port, destination_port_count)

\* A text whose Host lines both engines read alike: none has the name in other
\* letters, which V1 overlooks, and none has it twice, where V1 removes what V2
\* keeps (analyzer.py:176-177, http_host_extractor.py:16-17).
NamesHostOnce(payload) ==
  /\ LinesOf(payload, {"host:"}) = {}
  /\ \A line \in LinesOf(payload, {"Host:"}) : Len(payload.headers[line].rest) = 1

\* On such texts the two engines agree: the host that V2 takes, the first that is
\* not blank, is in the list that V1 makes of the whole capture, and where V2
\* finds none all that V1 lists for the text is blank; V1's count per host is that
\* of its list.
EnginesAgreeOnHosts ==
  /\ http_host_count = ToBag(http_hosts)
  /\ \A k \in {seen \in Seen : NamesHostOnce(packets[seen].payload)} :
       LET payload == packets[k].payload
           host    == Extract(payload)
       IN  IF host = Blank
           THEN \A line \in LinesOf(payload, {"Host:"}) :
                  AnalyzerHost(payload.headers[line].rest) = Blank
           ELSE host \in Range(http_hosts)
=============================================================================
