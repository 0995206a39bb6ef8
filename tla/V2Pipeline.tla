----------------------------- MODULE V2Pipeline -----------------------------
(***************************************************************************)
(* src/src/v2/pipeline.py: V2Pipeline.run.  The main thread is the client  *)
(* of a WorkerPool; it parses the packets of a capture, hands each to the  *)
(* worker its flow hashes to, waits, collects, stops the pool and writes   *)
(* what is left.  Each worker has a DPIProcessor with a flow table of its  *)
(* own.  The queues carry raw packets: here, positions in the capture.     *)
(*                                                                         *)
(* A step of the pool is the pool's own action, from WorkerPool, joined    *)
(* with what it does to the variables of this module.                      *)
(***************************************************************************)
EXTENDS FlowBalancer, DPIProcessor

CONSTANTS Captures,                               \* what the reader may return
          blocked_ips, blocked_apps, blocked_domains,  \* None or a set
          MaxPackets                              \* bound: the longest capture

\* What PacketParser.parse and the two extractors can make of a packet: it has
\* both addresses and a protocol, or none of them.
IsPacket(p) ==
  /\ p \in [src_ip : Address \cup {0}, dst_ip : Address \cup {0},
            src_port : Port, dst_port : Port, protocol : Protocol \cup {""},
            sni : Seq(Char), http_host : Seq(Char), malformed : BOOLEAN]
  /\ p.src_ip = 0 <=> p.dst_ip = 0
  /\ p.src_ip = 0 <=> p.protocol = ""

ASSUME CaptureAssumption ==
  /\ MaxPackets \in Nat
  /\ "" \notin Protocol
  /\ \A capture \in Captures :
       /\ Len(capture) \in 0 .. MaxPackets
       /\ DOMAIN capture = 1 .. Len(capture)
       /\ \A i \in DOMAIN capture : IsPacket(capture[i])

VARIABLES
  main, idx, route, queues, stop_event, at, hand, results, processed,
  failures, got_stats, got_results, got_errors,   \* the pool: see WorkerPool
  packets,          \* what reader.read_packets() returned
  next,             \* position of the next packet of main's loop
  skipped_packets,
  flows,            \* worker |-> the flow table of its processor
  decision,         \* position |-> the decision in its result
  output,           \* positions of the packets wrpcap wrote; None before
  report            \* None before _build_report

pool_vars == <<main, idx, route, got_stats, got_results, got_errors, queues, stop_event,
               at, hand, results, processed, failures>>
run_vars  == <<packets, next, skipped_packets, flows, decision, output, report>>
vars      == <<pool_vars, run_vars>>

Pool == INSTANCE WorkerPool WITH MaxItems <- MaxPackets

rules == New(blocked_ips, blocked_apps, blocked_domains)

Init ==
  /\ Pool!Init
  /\ packets \in Captures
  /\ next = 1
  /\ skipped_packets = 0
  /\ flows = [w \in Pool!Worker |-> <<>>]
  /\ decision = <<>>
  /\ output = None
  /\ report = None

-----------------------------------------------------------------------------
(* The main thread.                                                        *)

MoreToRead == main = "submit" /\ next <= Len(packets)

keyed(packet) == packet.src_ip # 0 /\ packet.dst_ip # 0

\* parsed.get("protocol", "UNKNOWN"): the parser names a protocol whenever it
\* finds addresses.
FlowKeyOf(packet) == [src_ip |-> packet.src_ip, dst_ip |-> packet.dst_ip,
                      src_port |-> packet.src_port, dst_port |-> packet.dst_port,
                      protocol |-> packet.protocol]

\* Mutant: packets dealt out in turn.
SubmitRoundRobin ==
  /\ MoreToRead
  /\ ~packets[next].malformed /\ keyed(packets[next])
  /\ Pool!Submit(next, next % worker_count)
  /\ next' = next + 1
  /\ UNCHANGED <<packets, skipped_packets, flows, decision, output, report>>

SubmitPacket ==
  /\ MoreToRead
  /\ ~packets[next].malformed /\ keyed(packets[next])
  /\ Pool!Submit(next, get_worker(FlowKeyOf(packets[next])))
  /\ next' = next + 1
  /\ UNCHANGED <<packets, skipped_packets, flows, decision, output, report>>

\* Mutants: the packet is not counted, or twice.
SkipUncounted ==
  /\ MoreToRead
  /\ ~packets[next].malformed /\ ~keyed(packets[next])
  /\ next' = next + 1
  /\ UNCHANGED <<pool_vars, packets, skipped_packets, flows, decision, output, report>>

SkipCountedTwice ==
  /\ MoreToRead
  /\ ~packets[next].malformed /\ ~keyed(packets[next])
  /\ next' = next + 1
  /\ skipped_packets' = skipped_packets + 2
  /\ UNCHANGED <<pool_vars, packets, flows, decision, output, report>>

\* A packet without addresses cannot be balanced and is not forwarded either.
SkipPacket ==
  /\ MoreToRead
  /\ ~packets[next].malformed /\ ~keyed(packets[next])
  /\ next' = next + 1
  /\ skipped_packets' = skipped_packets + 1
  /\ UNCHANGED <<pool_vars, packets, flows, decision, output, report>>

\* self.parser.parse(packet) raises in the main thread.
ParseRaises ==
  /\ MoreToRead /\ packets[next].malformed
  /\ Pool!Raise
  /\ UNCHANGED run_vars

AllSubmitted == next > Len(packets) /\ Pool!AllSubmitted /\ UNCHANGED run_vars

\* pool.start(), wait_until_empty(), the three reads, stop(), join()
PoolCall ==
  /\ \/ Pool!Start
     \/ Pool!WaitForQueue
     \/ Pool!GetWorkerStats
     \/ Pool!GetResults
     \/ Pool!GetErrorStats
     \/ Pool!Stop
     \/ Pool!Join
  /\ UNCHANGED run_vars

\* The list get_results() built: the workers' results one after the other.
all_results == FlattenSeq([k \in 1 .. worker_count |-> got_results[k - 1]])

\* result["flow"]: the flow object in the table of the worker that made it.
flow_of(i) == flows[route[i]][create_five_tuple(packets[i])]

\* Mutant: the packets are filtered by what their flow is now.
forwarded_by_flow ==
  FlattenSeq([k \in 1 .. Len(all_results) |->
                IF ~flow_of(all_results[k]).blocked THEN <<all_results[k]>> ELSE <<>>])

\* [result["raw_packet"] for result in results if result["decision"] == "FORWARD"]
forwarded_packets ==
  FlattenSeq([k \in 1 .. Len(all_results) |->
                IF decision[all_results[k]] = "FORWARD" THEN <<all_results[k]>> ELSE <<>>])

\* wrpcap(self.output_path, forwarded_packets)
WriteOutput ==
  /\ main = "done" /\ output = None
  /\ output' = forwarded_packets
  /\ UNCHANGED <<pool_vars, packets, next, skipped_packets, flows, decision, report>>

\* The results, by their positions in the list, with this decision; of this
\* application.
WithDecision(d) == {k \in DOMAIN all_results : decision[all_results[k]] = d}
OfApp(app) == {k \in DOMAIN all_results : flow_of(all_results[k]).app_type = app}

build_report ==
  [total_packets |-> Len(all_results),
   forwarded     |-> Cardinality(WithDecision("FORWARD")),
   dropped       |-> Cardinality(WithDecision("DROP")),
   skipped       |-> skipped_packets,
   applications  |-> [app \in AppType |-> Cardinality(OfApp(app))],
   workers       |-> got_stats,
   errors        |-> got_errors,
   total_flows   |-> SumFunction([w \in Pool!Worker |-> get_flow_count(flows[w])])]

BuildReport ==
  /\ output # None /\ report = None
  /\ report' = build_report
  /\ UNCHANGED <<pool_vars, packets, next, skipped_packets, flows, decision, output>>

-----------------------------------------------------------------------------
(* The workers.                                                            *)

\* result = processor.process(packet).  The main thread has parsed the same
\* packet with the same parser before, so this parse does not raise.
Process(w) ==
  LET packet == packets[hand[w]]
  IN  /\ Pool!ProcessorReturns(w)
      /\ flows' = [flows EXCEPT ![w] = process(rules, @, packet)]
      /\ decision' = [i \in DOMAIN decision \cup {hand[w]} |->
                        IF i = hand[w] THEN decide(flows'[w], packet) ELSE decision[i]]
      /\ UNCHANGED <<packets, next, skipped_packets, output, report>>

\* The rest of DPIWorker._run.
WorkerCall(w) ==
  /\ \/ Pool!CheckStop(w)
     \/ Pool!Pop(w)
     \/ Pool!PopTimeout(w)
     \/ Pool!AppendResult(w)
     \/ Pool!CountProcessed(w)
     \/ Pool!TaskDone(w)
  /\ UNCHANGED run_vars

-----------------------------------------------------------------------------
MainStep == \/ PoolCall \/ SubmitPacket \/ SkipPacket \/ ParseRaises
            \/ AllSubmitted \/ WriteOutput \/ BuildReport

WorkerStep(w) == Process(w) \/ WorkerCall(w)

Finished == report # None /\ UNCHANGED vars

Next == MainStep \/ (\E w \in Pool!Worker : WorkerStep(w)) \/ Finished

Spec == Init /\ [][Next]_vars

\* As in WorkerPool: no thread that can run is passed over forever.  A step of a
\* worker is one of the pool's, and what it does to the flows never holds it up.
Fairness == /\ WF_vars(MainStep)
            /\ \A w \in Pool!Worker : WF_pool_vars(Pool!WorkerStep(w))

FairSpec == Spec /\ Fairness
-----------------------------------------------------------------------------
(* What a run of the pipeline promises.                                    *)

Results == Pool!Elements(all_results)

Flow == [app_type : AppType, sni : Seq(Char), blocked : BOOLEAN, packet_count : Nat]

TypeOK ==
  /\ Pool!TypeOK
  /\ packets \in Captures
  /\ next \in 1 .. Len(packets) + 1
  /\ skipped_packets \in 0 .. next - 1
  /\ \A w \in Pool!Worker : \A five_tuple \in DOMAIN flows[w] :
       five_tuple \in FlowKey /\ flows[w][five_tuple] \in Flow
  /\ \A i \in DOMAIN decision : decision[i] \in {"FORWARD", "DROP"}

\* Affinity: both directions of a conversation go to one worker, so that its
\* packets are dealt with one at a time and its flows need no lock.
OneWorkerPerConversation ==
  \A i, j \in DOMAIN route :
    SameConversation(FlowKeyOf(packets[i]), FlowKeyOf(packets[j]))
      => route[i] = route[j]

\* A flow is in the table of one worker only: report["total_flows"], the sum of
\* the sizes of the tables, counts no flow twice.
TablesAreDisjoint ==
  \A v, w \in Pool!Worker :
    v # w => DOMAIN flows[v] \cap DOMAIN flows[w] = {}

\* No packet of a flow is forwarded after another one of it was dropped,
\* however harmless it looks.
BlockedStaysBlocked ==
  \A i, j \in DOMAIN decision :
    /\ i < j /\ FlowKeyOf(packets[i]) = FlowKeyOf(packets[j])
    /\ decision[i] = "DROP"
    => decision[j] = "DROP"

\* The file holds exactly the forwarded packets, and those of one conversation
\* in the order of the capture, though the workers' results are concatenated
\* and not merged.
OutputKeepsConversations ==
  output # None =>
    /\ Pool!Elements(output) = {i \in DOMAIN decision : decision[i] = "FORWARD"}
    /\ \A j, k \in DOMAIN output :
         /\ j < k
         /\ SameConversation(FlowKeyOf(packets[output[j]]), FlowKeyOf(packets[output[k]]))
         => output[j] < output[k]

\* Nothing is silently lost: forwarded, dropped and skipped packets add up to
\* the capture, the workers' counters and the applications add up to the
\* results, and the flows counted are those the capture has.
ReportAddsUp ==
  report # None =>
    /\ report.forwarded + report.dropped = report.total_packets
    /\ report.total_packets + report.skipped = Len(packets)
    /\ SumFunction(report.workers) = report.total_packets
    /\ SumFunction(report.applications) = report.total_packets
    /\ report.total_flows =
         Cardinality({FlowKeyOf(packets[i]) : i \in {j \in DOMAIN packets : keyed(packets[j])}})

\* What became of each packet, as SequentialDPI sees it.
Verdict ==
  [i \in DOMAIN packets |->
     IF i \in DOMAIN decision THEN decision[i]
     ELSE IF i < next /\ i \notin DOMAIN route THEN "SKIPPED"
     ELSE "pending"]

Sequential == INSTANCE SequentialDPI WITH verdict <- Verdict

\* Threads change no decision: under every interleaving and for every number
\* of workers, the decisions are those of one processor fed with the capture in
\* its order, and a conversation's packets are decided in that order.
DecidesLikeOneProcessor == Sequential!Spec

\* Liveness: on a capture that the parser copes with, the run ends with its
\* output and its report written and all threads ended.
RunEnds ==
  (\A i \in DOMAIN packets : ~packets[i].malformed)
    => <>(report # None /\ \A w \in Pool!Worker : at[w] = "exited")

\* README.md:716 of the worker's except branch: "a single bad packet costs one
\* error counter instead of deadlocking the whole pipeline".
BadPacketDoesNotStopThePipeline == <>(\A w \in Pool!Worker : at[w] = "exited")
=============================================================================
