--------------------------- MODULE SequentialDPI ---------------------------
(***************************************************************************)
(* What the multi-threaded pipeline promises, without a thread, a queue or *)
(* a worker: every packet of the capture that has addresses gets the       *)
(* decision that ONE DPIProcessor fed with the whole capture in its order  *)
(* would give it, and the packets of a conversation get theirs in the      *)
(* order of the capture.  In which order different conversations are       *)
(* dealt with is left open.                                                *)
(***************************************************************************)
EXTENDS DPIProcessor

CONSTANTS Captures,  \* the captures considered
          rules      \* the rule manager's three sets

VARIABLES packets,   \* the capture
          verdict    \* position in it |-> what became of the packet

keyed(packet) == packet.src_ip # 0 /\ packet.dst_ip # 0

\* The same two endpoints, in either direction.
SameEndpoints(p, q) ==
  /\ p.protocol = q.protocol
  /\ \/ /\ <<p.src_ip, p.src_port>> = <<q.src_ip, q.src_port>>
        /\ <<p.dst_ip, p.dst_port>> = <<q.dst_ip, q.dst_port>>
     \/ /\ <<p.src_ip, p.src_port>> = <<q.dst_ip, q.dst_port>>
        /\ <<p.dst_ip, p.dst_port>> = <<q.src_ip, q.src_port>>

\* The flow table of the one processor after the packets 1..i.
TableAfter[i \in 0 .. Len(packets)] ==
  IF i = 0 THEN <<>>
  ELSE IF keyed(packets[i]) THEN process(rules, TableAfter[i - 1], packets[i])
  ELSE TableAfter[i - 1]

Init == /\ packets \in Captures
        /\ verdict = [i \in DOMAIN packets |-> "pending"]

Skip(i) ==
  /\ verdict[i] = "pending" /\ ~keyed(packets[i])
  /\ verdict' = [verdict EXCEPT ![i] = "SKIPPED"]
  /\ UNCHANGED packets

Decide(i) ==
  /\ verdict[i] = "pending" /\ keyed(packets[i])
  /\ \A j \in 1 .. i - 1 :
       SameEndpoints(packets[i], packets[j]) => verdict[j] # "pending"
  /\ verdict' = [verdict EXCEPT ![i] = decide(TableAfter[i], packets[i])]
  /\ UNCHANGED packets

Next == \E i \in DOMAIN packets : Skip(i) \/ Decide(i)

Spec == Init /\ [][Next]_<<packets, verdict>>
=============================================================================
