---------------------------- MODULE DPIProcessor ----------------------------
(***************************************************************************)
(* src/src/v2/dpi_processor.py: what a worker does with one packet.  Each  *)
(* worker has a processor of its own, so the state here is one flow table. *)
(***************************************************************************)
EXTENDS ConnectionTracker

\* domain = sni or http_host
domain_of(packet) == IF packet.sni # <<>> THEN packet.sni ELSE packet.http_host

\* A later name replaces an earlier one, unlike in get_or_create_flow.
Rename(rm, five_tuple, flow, domain) ==
  apply_blocking_rules(rm, five_tuple,
    [flow EXCEPT !.sni = domain, !.app_type = classify_domain(domain)])

\* process(packet) leaves this table behind ...
process(rm, flows, packet) ==
  LET five_tuple == create_five_tuple(packet)
      tracked == get_or_create_flow(rm, flows, five_tuple, <<>>)
  IN  IF domain_of(packet) = <<>> THEN tracked
      ELSE [tracked EXCEPT ![five_tuple] =
              Rename(rm, five_tuple, @, domain_of(packet))]

\* ... and returns this decision in its result.
decide(flows_after, packet) ==
  IF flows_after[create_five_tuple(packet)].blocked THEN "DROP" ELSE "FORWARD"
=============================================================================
