------------------------------ MODULE V1Engine ------------------------------
(***************************************************************************)
(* The single-threaded engine, by its two entries:                         *)
(*   "main"       main.py: analyze the whole capture, then write the       *)
(*                packets whose flow is not blocked, and the events;       *)
(*   "DPIEngine"  src/src/dpi_engine.py: decide on each packet as it comes,*)
(*                then analyze the whole capture with the same tracker;    *)
(*                its result is what src/src/data_engineering/emitter.py   *)
(*                says it takes.                                           *)
(* A packet here is as in ConnectionTracker, with what PacketStatistics    *)
(* asks for; packets that the parser does not survive are left to          *)
(* V2Pipeline.                                                             *)
(***************************************************************************)
EXTENDS DPIProcessor

CONSTANTS Captures,
          blocked_ips, blocked_apps, blocked_domains,  \* main's arguments
          blacklist      \* PacketAnalyzer.blacklist

IsSequence(s) == s = [j \in 1 .. Len(s) |-> s[j]]

\* Of a packet, what the theorems need: its names are names, and the lines of its
\* text, and the pieces of a line's rest, are sequences.
ASSUME V1CaptureAssumption ==
  \A capture \in Captures :
    /\ Len(capture) \in Nat /\ DOMAIN capture = 1 .. Len(capture)
    /\ \A i \in DOMAIN capture :
         LET lines == capture[i].payload.headers
         IN  /\ capture[i].sni \in Seq(Char)
             /\ Len(lines) \in Nat /\ DOMAIN lines = 1 .. Len(lines)
             /\ \A k \in DOMAIN lines : IsSequence(lines[k].rest)

VARIABLES
  entry, packets,
  at, next,         \* the loop that runs and the packet it has reached
  flows,            \* connection_tracker.flows
  decisions, forwarded_packets,     \* of DPIEngine; forwarded: positions
  protocol_count, sni_domains, suspicious_domains, application_count,
  sni_application_report,           \* of the analyzer
  total_bytes, https_packet_count, tls_handshake_count, http_packet_count,
  http_response_count, source_ip_count, destination_port_count,
  service_count, http_hosts, http_host_count, user_agents, user_agent_count,
  http_status_codes, http_paths, http_method_count,   \* its statistics
  output,           \* positions of the packets main writes, in the capture's
                    \* order; None before
  events            \* None before the emitter runs

\* The packets that the analyzer has seen are those before this one.
analysed == CASE at = "decide"  -> 1
              [] at = "analyze" -> next
              [] OTHER          -> Len(packets) + 1

Statistics == INSTANCE PacketStatistics WITH next <- analysed

engine   == <<decisions, forwarded_packets>>
counters == <<total_bytes, https_packet_count, tls_handshake_count, http_packet_count,
              http_response_count, source_ip_count, destination_port_count,
              service_count, http_hosts, http_host_count, user_agents,
              user_agent_count, http_status_codes, http_paths, http_method_count>>
analyzer == <<protocol_count, sni_domains, suspicious_domains,
              application_count, sni_application_report, counters>>
vars     == <<entry, packets, at, next, flows, engine, analyzer, output, events>>

\* DPIEngine builds its tracker without arguments.
main_rules == New(blocked_ips, blocked_apps, blocked_domains)
rules == IF entry = "main" THEN main_rules ELSE New(None, None, None)

Init ==
  /\ entry \in {"main", "DPIEngine"}
  /\ packets \in Captures
  /\ at = (IF entry = "main" THEN "analyze" ELSE "decide") /\ next = 1
  /\ flows = <<>>
  /\ decisions = <<>> /\ forwarded_packets = <<>>
  /\ protocol_count = [p \in {"TCP", "UDP", "ICMP"} |-> 0]
  /\ sni_domains = <<>> /\ suspicious_domains = <<>>
  /\ application_count = None /\ sni_application_report = None
  /\ Statistics!Init
  /\ output = None /\ events = None

Reading(loop) == at = loop /\ next <= Len(packets)

\* Mutant: the next loop starts before the first packet.
EndOfFromZero(loop, following) ==
  at = loop /\ next > Len(packets) /\ at' = following /\ next' = 0

EndOf(loop, following) ==
  at = loop /\ next > Len(packets) /\ at' = following /\ next' = 1

-----------------------------------------------------------------------------
(* DPIEngine.process_packets: the loop over the packets.                   *)

\* five_tuple is None: continue
SkipPacket ==
  /\ Reading("decide")
  /\ create_five_tuple(packets[next]) = NoFlow
  /\ next' = next + 1
  /\ UNCHANGED <<entry, packets, at, flows, engine, analyzer, output, events>>

\* Mutant: the decision is taken before the packet is tracked.
DecideTooEarly ==
  LET packet == packets[next]
      five_tuple == create_five_tuple(packet)
      blocked == is_packet_blocked(flows, packet)
  IN  /\ Reading("decide")
      /\ five_tuple # NoFlow
      /\ flows' = get_or_create_flow(rules, flows, five_tuple, packet.sni)
      /\ decisions' = Append(decisions, IF blocked THEN "DROP" ELSE "FORWARD")
      /\ forwarded_packets' = IF blocked THEN forwarded_packets
                              ELSE Append(forwarded_packets, next)
      /\ next' = next + 1
      /\ UNCHANGED <<entry, packets, at, analyzer, output, events>>

Decide ==
  LET packet == packets[next]
      five_tuple == create_five_tuple(packet)
  IN  /\ Reading("decide")
      /\ five_tuple # NoFlow
      /\ flows' = get_or_create_flow(rules, flows, five_tuple, packet.sni)
      /\ decisions' = Append(decisions, decide(flows', packet))
      /\ forwarded_packets' = IF flows'[five_tuple].blocked THEN forwarded_packets
                              ELSE Append(forwarded_packets, next)
      /\ next' = next + 1
      /\ UNCHANGED <<entry, packets, at, analyzer, output, events>>

AllDecided ==
  /\ EndOf("decide", "analyze")
  /\ UNCHANGED <<entry, packets, flows, engine, analyzer, output, events>>

-----------------------------------------------------------------------------
(* PacketAnalyzer.analyze.                                                 *)

\* Mutant: the tracker is not told the name.
AnalyzeNameless ==
  LET packet == packets[next]
      five_tuple == create_five_tuple(packet)
  IN  /\ Reading("analyze")
      /\ flows' = IF packet.dst_port # 0 /\ five_tuple # NoFlow
                  THEN get_or_create_flow(rules, flows, five_tuple, <<>>)
                  ELSE flows
      /\ next' = next + 1
      /\ UNCHANGED <<entry, packets, at, engine, analyzer, output, events>>

\* The loop's body.  Names and flows are looked at only when the packet has a
\* destination port.
AnalyzePacket ==
  LET packet == packets[next]
      five_tuple == create_five_tuple(packet)
      named == packet.dst_port # 0 /\ packet.sni # <<>>
  IN  /\ Reading("analyze")
      /\ flows' = IF packet.dst_port # 0 /\ five_tuple # NoFlow
                  THEN get_or_create_flow(rules, flows, five_tuple, packet.sni)
                  ELSE flows
      /\ sni_domains' = IF named THEN Append(sni_domains, packet.sni) ELSE sni_domains
      /\ suspicious_domains' = IF named /\ lower(packet.sni) \in blacklist
                               THEN Append(suspicious_domains, packet.sni)
                               ELSE suspicious_domains
      /\ protocol_count' = [p \in DOMAIN protocol_count |->
                              protocol_count[p] + (IF p = packet.protocol THEN 1 ELSE 0)]
      /\ Statistics!Count
      /\ next' = next + 1
      /\ UNCHANGED <<entry, packets, at, engine, application_count,
                     sni_application_report, output, events>>

\* After the loop: flows per application, and a line for every named flow.
Summarise ==
  /\ EndOf("analyze", IF entry = "main" THEN "write" ELSE "emit")
  /\ application_count' = [app \in {flows[ft].app_type : ft \in DOMAIN flows} |->
                             Cardinality({ft \in DOMAIN flows : flows[ft].app_type = app})]
  /\ sni_application_report' =
       [ft \in {f \in DOMAIN flows : flows[f].sni # <<>>} |->
          [sni |-> flows[ft].sni, application |-> flows[ft].app_type,
           blocked |-> flows[ft].blocked]]
  /\ UNCHANGED <<entry, packets, flows, engine, protocol_count, sni_domains,
                 suspicious_domains, counters, output, events>>

-----------------------------------------------------------------------------
(* main.py after the analysis, and the emitter.                            *)

\* The percentages of an empty capture: a division by zero, and main is over.
NoPackets ==
  /\ at = "write" /\ packets = <<>> /\ at' = "raised"
  /\ UNCHANGED <<entry, packets, next, flows, engine, analyzer, output, events>>

\* Mutant: only the packets of tracked flows are written.
WriteTracked ==
  /\ at = "write" /\ packets # <<>> /\ at' = "emit"
  /\ output' = {i \in DOMAIN packets : /\ create_five_tuple(packets[i]) \in DOMAIN flows
                                       /\ ~is_packet_blocked(flows, packets[i])}
  /\ UNCHANGED <<entry, packets, next, flows, engine, analyzer, events>>

\* wrpcap(args.v1_output, ...): the packets whose flow is not blocked NOW.
WriteOutput ==
  /\ at = "write" /\ packets # <<>> /\ at' = "emit"
  /\ output' = {i \in DOMAIN packets : ~is_packet_blocked(flows, packets[i])}
  /\ UNCHANGED <<entry, packets, next, flows, engine, analyzer, events>>

\* Mutant: a packet is dropped only when it has a name itself.
decisions_by_name ==
  [i \in DOMAIN packets |-> IF /\ packets[i].sni # <<>>
                               /\ is_packet_blocked(flows, packets[i])
                            THEN "DROP" ELSE "FORWARD"]

\* The decisions that the emitter is given: one per packet by main, and the
\* engine's own by a caller that follows the emitter's description.
given_decisions ==
  IF entry = "main"
  THEN [i \in DOMAIN packets |-> IF is_packet_blocked(flows, packets[i]) THEN "DROP"
                                                                         ELSE "FORWARD"]
  ELSE decisions

\* _build_event, for what the flow tells about the packet.
Event(packet, decision) ==
  LET five_tuple == create_five_tuple(packet)
      flow == IF five_tuple \in DOMAIN flows THEN flows[five_tuple] ELSE NewFlow(<<>>)
  IN  [decision |-> decision, sni |-> flow.sni, application |-> flow.app_type,
       blocked |-> flow.blocked, flow_packet_count |-> flow.packet_count]

\* zip() ends with the shorter of its two lists.
Emit ==
  /\ at = "emit" /\ at' = "done"
  /\ events' = [j \in 1 .. Min({Len(packets), Len(given_decisions)}) |->
                  Event(packets[j], given_decisions[j])]
  /\ UNCHANGED <<entry, packets, next, flows, engine, analyzer, output>>

Finished == at \in {"done", "raised"} /\ UNCHANGED vars

Next == \/ SkipPacket \/ Decide \/ AllDecided \/ AnalyzePacket \/ Summarise
        \/ NoPackets \/ WriteOutput \/ Emit \/ Finished

Spec == Init /\ [][Next]_vars
-----------------------------------------------------------------------------
(* What the engine promises.                                               *)

Flow == [app_type : AppType, sni : Seq(Char), blocked : BOOLEAN, packet_count : Nat]

TypeOK ==
  /\ entry \in {"main", "DPIEngine"} /\ packets \in Captures
  /\ at \in {"decide", "analyze", "write", "emit", "done", "raised"}
  /\ next \in 1 .. Len(packets) + 1
  /\ \A ft \in DOMAIN flows : ft # NoFlow /\ flows[ft] \in Flow
  /\ decisions \in Seq({"FORWARD", "DROP"})
  /\ \A j \in DOMAIN forwarded_packets : forwarded_packets[j] \in DOMAIN packets
  /\ \A p \in DOMAIN protocol_count : protocol_count[p] \in 0 .. Len(packets)
  /\ sni_domains \in Seq(Seq(Char)) /\ suspicious_domains \in Seq(Seq(Char))

FiveTupleOf(i) == create_five_tuple(packets[i])

\* The packets that have a five-tuple, and the decision on one of them: the engine
\* decides on these alone, in their order.
TrackedTo(n) == {i \in DOMAIN packets : i <= n /\ FiveTupleOf(i) # NoFlow}
Tracked == TrackedTo(Len(packets))
Rank(i) == Cardinality(TrackedTo(i))
DecisionOn(i) == decisions[Rank(i)]

\* A decision, once made, is not taken back by the analysis that runs over the
\* same packets with the same tracker afterwards: it blocks no flow, unblocks
\* none, renames none and finds no new one.
AnalysisDecidesNothing ==
  [][entry = "DPIEngine" /\ at = "analyze" =>
       /\ DOMAIN flows' = DOMAIN flows
       /\ \A ft \in DOMAIN flows : /\ flows'[ft].blocked = flows[ft].blocked
                                   /\ flows'[ft].sni = flows[ft].sni
                                   /\ flows'[ft].app_type = flows[ft].app_type]_vars

\* The engine's k-th decision is that of the k-th packet with a five-tuple.  A
\* flow is forwarded up to some packet and dropped from there on, the flow ends
\* blocked exactly if its last packet was dropped, and the forwarded packets
\* are those with the decision FORWARD, each once and in order.
EngineDecisionsStick ==
  entry = "DPIEngine" /\ at = "done" =>
    /\ Len(decisions) = Cardinality(Tracked)
    /\ \A i, j \in Tracked :
         i < j /\ FiveTupleOf(i) = FiveTupleOf(j) /\ DecisionOn(i) = "DROP"
         => DecisionOn(j) = "DROP"
    /\ \A ft \in DOMAIN flows :
         LET of_flow == {i \in Tracked : FiveTupleOf(i) = ft}
         IN  flows[ft].blocked <=> DecisionOn(Max(of_flow)) = "DROP"
    /\ \A j, k \in DOMAIN forwarded_packets :
         j < k => forwarded_packets[j] < forwarded_packets[k]
    /\ Range(forwarded_packets) = {i \in Tracked : DecisionOn(i) = "FORWARD"}

\* main drops whole flows: a name seen late takes the flow's earlier packets
\* out of the file too.  Packets without a five-tuple are kept.
MainDropsWholeFlows ==
  output # None =>
    \A i, j \in DOMAIN packets :
      /\ FiveTupleOf(i) = NoFlow => i \in output
      /\ FiveTupleOf(i) = FiveTupleOf(j) => (i \in output <=> j \in output)

Processor == INSTANCE SequentialDPI WITH rules <- main_rules, verdict <- decisions

FlowOf(i) == {j \in DOMAIN packets : FiveTupleOf(j) = FiveTupleOf(i)}

\* A flow that both engines look at in the same way: it has a destination port,
\* no HTTP host (main looks for none) and no second name (main keeps the first,
\* a DPIProcessor takes the last); and if UNKNOWN is an application to block, it
\* starts without a name (a DPIProcessor asks the rules before it has looked for
\* one, main asks once and with the name).
Comparable(i) ==
  /\ FiveTupleOf(i) # NoFlow /\ packets[i].dst_port # 0
  /\ \A j \in FlowOf(i) : packets[j].http_host = <<>>
  /\ \A j, k \in FlowOf(i) : packets[j].sni # <<>> /\ packets[k].sni # <<>>
                             => packets[j].sni = packets[k].sni
  /\ is_app_blocked(main_rules, UNKNOWN) => packets[Min(FlowOf(i))].sni = <<>>

\* The two engines of the program agree on what is blocked: main writes a
\* packet exactly if the processor of V2 would not have blocked its flow by the
\* end of the capture.
MainAgreesWithV2 ==
  output # None =>
    \A i \in DOMAIN packets :
      Comparable(i) =>
        (i \in output
           <=> ~Processor!TableAfter[Len(packets)][FiveTupleOf(i)].blocked)

\* main's events are those of the packets, in order, and each agrees with the
\* file that main has written.
EventsAgreeWithFile ==
  entry = "main" /\ events # None =>
    /\ Len(events) = Len(packets)
    /\ \A i \in DOMAIN events :
         /\ events[i].decision = "FORWARD" <=> i \in output
         /\ events[i].blocked <=> events[i].decision = "DROP"

\* PacketStatistics: the counters of ports, services and HTTP messages add up, though
\* a text may make their block raise half way (analyzer.py:116-232) ...
CountersAddUp == Statistics!PortsAddUp /\ Statistics!MessagesAddUp

\* ... and of the texts whose Host lines both read alike, V2 finds a host that V1
\* lists (analyzer.py:174-185, http_host_extractor.py:15-20).
EnginesAgreeOnHosts == Statistics!EnginesAgreeOnHosts

\* emitter.py:4-6: "Takes the tuple returned by DPIEngine.process_packets() and
\* walks parsed_packets + decisions + connection_tracker.flows to produce one
\* event per packet."
OneEventPerPacket == events # None => Len(events) = Len(packets)
=============================================================================
