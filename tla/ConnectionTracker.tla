------------------------- MODULE ConnectionTracker -------------------------
(***************************************************************************)
(* src/src/connection_tracker.py: the flow table.  A table maps the        *)
(* five-tuples seen so far to their Flow (types.py); the five-tuple itself *)
(* is the key and is not repeated in the flow.  Each operator returns what *)
(* the method leaves behind.                                               *)
(*                                                                         *)
(* A packet here is what PacketParser.parse makes of it: addresses 0 and   *)
(* no protocol when it has no IP layer, ports 0 when it has no TCP or UDP  *)
(* layer, and in place of the payload bytes what the two extractors find   *)
(* in them: a server name, a Host header.                                  *)
(***************************************************************************)
EXTENDS RuleManager

NoFlow == [protocol |-> "none"]    \* the five-tuple None

create_five_tuple(packet) ==
  IF packet.src_ip = 0 \/ packet.dst_ip = 0 \/ packet.protocol = "" THEN NoFlow
  ELSE [src_ip |-> packet.src_ip, dst_ip |-> packet.dst_ip,
        src_port |-> packet.src_port, dst_port |-> packet.dst_port,
        protocol |-> packet.protocol]

NewFlow(sni) == [app_type |-> UNKNOWN, sni |-> sni, blocked |-> FALSE,
                 packet_count |-> 0]

\* Mutant: the rules are asked anew.
apply_rules_anew(rm, five_tuple, flow) ==
  [flow EXCEPT !.blocked = \/ is_ip_blocked(rm, five_tuple.src_ip)
                           \/ is_app_blocked(rm, flow.app_type)
                           \/ is_domain_blocked(rm, flow.sni)]

\* Sticky: a flow that is blocked stays so.
apply_blocking_rules(rm, five_tuple, flow) ==
  [flow EXCEPT !.blocked = \/ @
                           \/ is_ip_blocked(rm, five_tuple.src_ip)
                           \/ is_app_blocked(rm, flow.app_type)
                           \/ is_domain_blocked(rm, flow.sni)]

Lookup(flows, five_tuple, sni) ==
  IF five_tuple \in DOMAIN flows THEN flows[five_tuple] ELSE NewFlow(sni)

\* Mutant: the last name stays.
WithLastName(flow, sni) ==
  LET named == IF sni # <<>> THEN [flow EXCEPT !.sni = sni] ELSE flow
  IN  IF named.sni = <<>> THEN named
      ELSE [named EXCEPT !.app_type = classify_domain(named.sni)]

\* The first name stays; the application is what the name says.
WithName(flow, sni) ==
  LET named == IF sni # <<>> /\ flow.sni = <<>> THEN [flow EXCEPT !.sni = sni]
                                                ELSE flow
  IN  IF named.sni = <<>> THEN named
      ELSE [named EXCEPT !.app_type = classify_domain(named.sni)]

Store(flows, five_tuple, flow) ==
  [ft \in DOMAIN flows \cup {five_tuple} |-> IF ft = five_tuple THEN flow ELSE flows[ft]]

get_or_create_flow(rm, flows, five_tuple, sni) ==
  LET counted == [Lookup(flows, five_tuple, sni) EXCEPT !.packet_count = @ + 1]
  IN  Store(flows, five_tuple,
            apply_blocking_rules(rm, five_tuple, WithName(counted, sni)))

is_packet_blocked(flows, packet) ==
  LET five_tuple == create_five_tuple(packet)
  IN  five_tuple \in DOMAIN flows /\ flows[five_tuple].blocked

get_flow_count(flows) == Cardinality(DOMAIN flows)
=============================================================================
