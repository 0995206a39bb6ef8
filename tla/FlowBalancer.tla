---------------------------- MODULE FlowBalancer ----------------------------
(***************************************************************************)
(* src/src/v2/flow_balancer.py: which worker a flow belongs to.            *)
(*                                                                         *)
(* Addresses are positive numbers (the code compares address strings; only *)
(* the total order matters here), ports are numbers, 0 when there is none. *)
(***************************************************************************)
EXTENDS Naturals, Sequences

CONSTANTS Address,      \* the IP addresses in use
          Port,         \* the ports in use
          Protocol,     \* the protocol names in use
          worker_count, \* FlowBalancer(worker_count)
          crc32         \* canonical flow |-> the CRC-32 of its text

ASSUME BalancerAssumption ==
  /\ Address \subseteq Nat \ {0}
  /\ Port \subseteq Nat
  /\ worker_count \in Nat \ {0}

\* FlowKey, and FiveTuple of types.py: the same five fields.
FlowKey == [src_ip : Address, dst_ip : Address,
            src_port : Port, dst_port : Port, protocol : Protocol]

Endpoints == Address \X Address \X Port \X Port

ASSUME Crc32Assumption ==
  crc32 \in [Endpoints \X Protocol -> Nat]

forward(flow) == <<flow.src_ip, flow.dst_ip, flow.src_port, flow.dst_port>>
reverse(flow) == <<flow.dst_ip, flow.src_ip, flow.dst_port, flow.src_port>>

\* Python's < on tuples: the first field that differs decides.
Before(a, b) ==
  \E k \in 1 .. 4 : a[k] < b[k] /\ \A j \in 1 .. 4 : j < k => a[j] = b[j]

\* Mutant: the direction is part of the key.
canonical_directed(flow) == <<forward(flow), flow.protocol>>

\* min(forward, reverse): the first of two that are equal.
canonical(flow) ==
  LET endpoints == IF Before(reverse(flow), forward(flow)) THEN reverse(flow)
                                                           ELSE forward(flow)
  IN  <<endpoints, flow.protocol>>

get_worker(flow) == crc32[canonical(flow)] % worker_count

\* The same conversation seen from its other end.
Reply(flow) == [src_ip |-> flow.dst_ip, dst_ip |-> flow.src_ip,
                src_port |-> flow.dst_port, dst_port |-> flow.src_port,
                protocol |-> flow.protocol]

SameConversation(f, g) == g = f \/ g = Reply(f)
=============================================================================
