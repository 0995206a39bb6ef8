-------------------------- MODULE V2PipelineProofs --------------------------
(***************************************************************************)
(* V2Pipeline uses the pool as WorkerPool says, so everything proved of    *)
(* the pool holds of the pipeline; flow affinity makes the workers' flow   *)
(* tables disjoint; and with the pool's order of items, blocking is sticky *)
(* and every decision is the one a single processor would make, for every  *)
(* capture, every set of rules and every number of workers.  In the end    *)
(* the file is in order within each conversation, and the report adds up.  *)
(***************************************************************************)
EXTENDS V2Pipeline, SequenceLemmas

PoolProofs == INSTANCE WorkerPoolProofs WITH MaxItems <- MaxPackets

-----------------------------------------------------------------------------
(* Flow affinity, for every number of workers and whatever CRC-32 yields.  *)

\* Before, field by field.
LEMMA BeforeByField ==
  ASSUME NEW a, NEW b
  PROVE  Before(a, b) <=>
           \/ a[1] < b[1]
           \/ a[1] = b[1] /\ a[2] < b[2]
           \/ a[1] = b[1] /\ a[2] = b[2] /\ a[3] < b[3]
           \/ a[1] = b[1] /\ a[2] = b[2] /\ a[3] = b[3] /\ a[4] < b[4]
<1>1. 1 .. 4 = {1, 2, 3, 4}
  OBVIOUS
<1>2. ASSUME NEW k \in {1, 2, 3, 4}
      PROVE  (\A j \in {1, 2, 3, 4} : j < k => a[j] = b[j]) <=>
               /\ k \in {2, 3, 4} => a[1] = b[1]
               /\ k \in {3, 4} => a[2] = b[2]
               /\ k = 4 => a[3] = b[3]
  OBVIOUS
<1>. QED BY <1>1, <1>2 DEF Before

LEMMA EndpointTypes ==
  ASSUME NEW flow \in FlowKey
  PROVE  /\ forward(flow) \in Endpoints /\ reverse(flow) \in Endpoints
         /\ Reply(flow) \in FlowKey
         /\ forward(Reply(flow)) = reverse(flow)
         /\ reverse(Reply(flow)) = forward(flow)
         /\ Reply(flow).protocol = flow.protocol
  BY DEF FlowKey, Endpoints, forward, reverse, Reply

\* Of two different endpoint pairs one is before the other, and only one.
LEMMA BeforeIsTotal ==
  ASSUME NEW a \in Endpoints, NEW b \in Endpoints
  PROVE  /\ ~(Before(a, b) /\ Before(b, a))
         /\ Before(a, b) \/ Before(b, a) \/ a = b
<1>1. /\ a[1] \in Nat /\ a[2] \in Nat /\ a[3] \in Nat /\ a[4] \in Nat
      /\ b[1] \in Nat /\ b[2] \in Nat /\ b[3] \in Nat /\ b[4] \in Nat
  BY BalancerAssumption DEF Endpoints
<1>2. ~(Before(a, b) /\ Before(b, a))
  BY <1>1, BeforeByField
<1>3. ASSUME ~Before(a, b), ~Before(b, a) PROVE a = b
  <2>1. a[1] = b[1] /\ a[2] = b[2] /\ a[3] = b[3] /\ a[4] = b[4]
    BY <1>1, <1>3, BeforeByField
  <2>. QED BY <2>1 DEF Endpoints
<1>. QED BY <1>2, <1>3

\* The canonical form does not depend on the direction
\* (flow_balancer.py: FlowKey.canonical).
LEMMA CanonicalIsSymmetric ==
  ASSUME NEW flow \in FlowKey
  PROVE  canonical(Reply(flow)) = canonical(flow)
<1>1. CASE Before(reverse(flow), forward(flow))
  <2>1. ~Before(forward(flow), reverse(flow))
    BY <1>1, EndpointTypes, BeforeIsTotal
  <2>. QED BY <1>1, <2>1, EndpointTypes DEF canonical
<1>2. CASE ~Before(reverse(flow), forward(flow))
  <2>1. Before(forward(flow), reverse(flow)) \/ forward(flow) = reverse(flow)
    BY <1>2, EndpointTypes, BeforeIsTotal
  <2>. QED BY <1>2, <2>1, EndpointTypes DEF canonical
<1>. QED BY <1>1, <1>2

\* Both directions of a conversation go to the same worker
\* (flow_balancer.py: FlowBalancer.get_worker).
THEOREM BothDirectionsOneWorker ==
  \A f, g \in FlowKey : SameConversation(f, g) => get_worker(f) = get_worker(g)
  BY CanonicalIsSymmetric DEF SameConversation, get_worker

\* get_worker returns the id of a worker that exists, for every flow.
THEOREM WorkerExists ==
  \A flow \in FlowKey : get_worker(flow) \in 0 .. worker_count - 1
<1>. SUFFICES ASSUME NEW flow \in FlowKey
              PROVE  get_worker(flow) \in 0 .. worker_count - 1
  OBVIOUS
<1>1. canonical(flow) \in Endpoints \X Protocol
  BY EndpointTypes DEF canonical, FlowKey
<1>2. crc32[canonical(flow)] \in Nat
  BY <1>1, Crc32Assumption
<1>. QED BY <1>2, BalancerAssumption DEF get_worker

-----------------------------------------------------------------------------
(* The main thread and the pool.                                           *)

\* Where the main thread is in the capture, and where the submitted packets went.
Routed ==
  /\ packets \in Captures
  /\ next \in 1 .. Len(packets) + 1
  /\ \A i \in DOMAIN route :
       /\ i \in 1 .. next - 1
       /\ FlowKeyOf(packets[i]) \in FlowKey
       /\ route[i] = get_worker(FlowKeyOf(packets[i]))

LEMMA CaptureFacts ==
  ASSUME packets \in Captures
  PROVE  /\ Len(packets) \in 0 .. MaxPackets
         /\ DOMAIN packets = 1 .. Len(packets)
         /\ \A i \in 1 .. Len(packets) :
              keyed(packets[i]) => FlowKeyOf(packets[i]) \in FlowKey
<1>1. /\ Len(packets) \in 0 .. MaxPackets
      /\ DOMAIN packets = 1 .. Len(packets)
      /\ \A i \in 1 .. Len(packets) : IsPacket(packets[i])
  BY CaptureAssumption
<1>2. ASSUME NEW i \in 1 .. Len(packets), keyed(packets[i])
      PROVE  FlowKeyOf(packets[i]) \in FlowKey
  BY <1>1, <1>2 DEF IsPacket, keyed, FlowKeyOf, FlowKey
<1>. QED BY <1>1, <1>2

LEMMA RoutedInit == Init => Routed
<1>. SUFFICES ASSUME Init PROVE Routed
  OBVIOUS
<1>1. packets \in Captures /\ next = 1 /\ DOMAIN route = {}
  BY DEF Init, Pool!Init
<1>. QED BY <1>1, CaptureFacts DEF Routed

LEMMA RoutedStep == Routed /\ [Next]_vars => Routed'
<1>. SUFFICES ASSUME Routed, [Next]_vars PROVE Routed'
  OBVIOUS
<1>1. CASE SubmitPacket
  <2>. DEFINE key == FlowKeyOf(packets[next])
  <2>1. /\ next \in 1 .. Len(packets) /\ keyed(packets[next]) /\ next' = next + 1
        /\ packets' = packets
        /\ route' = [j \in DOMAIN route \cup {next} |->
                       IF j = next THEN get_worker(key) ELSE route[j]]
    BY <1>1 DEF SubmitPacket, MoreToRead, Pool!Submit, Routed
  <2>2. key \in FlowKey
    BY <2>1, CaptureFacts DEF Routed
  <2>3. Len(packets) \in Nat
    BY CaptureFacts DEF Routed
  <2>. QED BY <2>1, <2>2, <2>3 DEF Routed, FlowKeyOf
<1>2. CASE SkipPacket
  <2>1. /\ next \in 1 .. Len(packets) /\ next' = next + 1
        /\ UNCHANGED <<packets, route>>
    BY <1>2 DEF SkipPacket, MoreToRead, pool_vars, Routed
  <2>2. Len(packets) \in Nat /\ next \in Nat
    BY CaptureFacts DEF Routed
  <2>3. next' \in 1 .. Len(packets') + 1
    BY <2>1, <2>2
  <2>4. \A i \in DOMAIN route' : i \in 1 .. next - 1
    BY <2>1 DEF Routed
  <2>5. \A i \in DOMAIN route' : i \in 1 .. next' - 1
    BY <2>1, <2>2, <2>4
  <2>. QED BY <2>1, <2>3, <2>5 DEF Routed, FlowKeyOf
<1>3. ASSUME UNCHANGED <<packets, next, route>> PROVE Routed'
  BY <1>3 DEF Routed, FlowKeyOf
<1>4. CASE PoolCall \/ ParseRaises \/ AllSubmitted \/ WriteOutput \/ BuildReport
           \/ (\E w \in Pool!Worker : WorkerStep(w)) \/ Finished \/ UNCHANGED vars
  <2>1. UNCHANGED <<packets, next, route>>
    BY <1>4 DEF PoolCall, ParseRaises, AllSubmitted, WriteOutput, BuildReport, WorkerStep,
                Process, WorkerCall, Finished, vars, pool_vars, run_vars, Pool!Start,
                Pool!Raise, Pool!AllSubmitted, Pool!WaitForQueue, Pool!GetWorkerStats,
                Pool!GetResults, Pool!GetErrorStats, Pool!Stop, Pool!Join,
                Pool!ProcessorReturns, Pool!CheckStop, Pool!Pop, Pool!PopTimeout,
                Pool!AppendResult, Pool!CountProcessed, Pool!TaskDone, Pool!client
  <2>. QED BY <1>3, <2>1
<1>. QED BY <1>1, <1>2, <1>4 DEF Next, MainStep

\* Both directions of a conversation go to one worker (pipeline.py builds the
\* FlowKey from the same fields as the tracker builds the five-tuple).
THEOREM Affinity == Spec => []OneWorkerPerConversation
<1>1. Routed => OneWorkerPerConversation
  BY BothDirectionsOneWorker DEF Routed, OneWorkerPerConversation
<1>. QED BY <1>1, RoutedInit, RoutedStep, PTL DEF Spec

\* The pipeline is a client of the pool: each of its steps is a step of
\* WorkerPool or leaves the pool alone.
THEOREM ImplementsPool == Spec => Pool!Spec
<1>1. Init => Pool!Init
  BY DEF Init
<1>2. Routed /\ [Next]_vars => [Pool!Next]_(Pool!vars)
  <2>. SUFFICES ASSUME Routed, [Next]_vars PROVE [Pool!Next]_(Pool!vars)
    OBVIOUS
  <2>1. CASE SubmitPacket
    <3>0. /\ next \in Nat /\ 1 <= next /\ next <= Len(packets)
          /\ Len(packets) \in 0 .. MaxPackets /\ MaxPackets \in Nat
          /\ keyed(packets[next])
      <4>1. next <= Len(packets) /\ keyed(packets[next])
        BY <2>1 DEF SubmitPacket, MoreToRead
      <4>2. Len(packets) \in 0 .. MaxPackets /\ next \in 1 .. Len(packets) + 1
        BY CaptureFacts DEF Routed
      <4>3. MaxPackets \in Nat
        BY CaptureAssumption
      <4>. QED BY <4>1, <4>2, <4>3
    <3>1. /\ next \in Pool!Item /\ FlowKeyOf(packets[next]) \in FlowKey
          /\ Pool!Submit(next, get_worker(FlowKeyOf(packets[next])))
      <4>1. next \in 1 .. Len(packets) /\ next \in Pool!Item
        BY <3>0 DEF Pool!Item
      <4>2. FlowKeyOf(packets[next]) \in FlowKey
        BY <3>0, <4>1, CaptureFacts DEF Routed
      <4>. QED BY <2>1, <4>1, <4>2 DEF SubmitPacket
    <3>2. get_worker(FlowKeyOf(packets[next])) \in Pool!Worker
      BY <3>1, WorkerExists DEF Pool!Worker
    <3>. QED BY <3>1, <3>2 DEF Pool!Next, Pool!ClientStep
  <2>2. CASE SkipPacket \/ WriteOutput \/ BuildReport \/ Finished \/ UNCHANGED vars
    BY <2>2 DEF SkipPacket, WriteOutput, BuildReport, Finished, vars, pool_vars, Pool!vars,
                Pool!client, Pool!threads, Pool!got
  <2>3. CASE PoolCall \/ ParseRaises \/ AllSubmitted
    BY <2>3 DEF PoolCall, ParseRaises, AllSubmitted, Pool!Next, Pool!ClientStep
  <2>4. CASE \E w \in Pool!Worker : WorkerStep(w)
    BY <2>4 DEF WorkerStep, Process, WorkerCall, Pool!Next, Pool!WorkerStep
  <2>. QED BY <2>1, <2>2, <2>3, <2>4 DEF Next, MainStep
<1>. QED BY <1>1, <1>2, RoutedInit, RoutedStep, PTL DEF Spec, Pool!Spec

\* So what is proved of the pool is true of the pool in the pipeline.
LEMMA SamePool == Pool!Spec <=> PoolProofs!Spec
<1>1. Pool!Init <=> PoolProofs!Init
  BY DEF Pool!Init, PoolProofs!Init, Pool!Worker, PoolProofs!Worker, Pool!Empty,
         PoolProofs!Empty
<1>2. Pool!ClientStep \/ Pool!Raise <=> PoolProofs!ClientStep \/ PoolProofs!Raise
  BY DEF Pool!ClientStep, PoolProofs!ClientStep, Pool!Start, PoolProofs!Start,
         Pool!Submit, PoolProofs!Submit, Pool!AllSubmitted, PoolProofs!AllSubmitted,
         Pool!WaitForQueue, PoolProofs!WaitForQueue, Pool!GetWorkerStats,
         PoolProofs!GetWorkerStats, Pool!GetResults, PoolProofs!GetResults,
         Pool!GetErrorStats, PoolProofs!GetErrorStats, Pool!Stop, PoolProofs!Stop,
         Pool!Join, PoolProofs!Join, Pool!Raise, PoolProofs!Raise, Pool!NextWorker,
         PoolProofs!NextWorker, Pool!push, PoolProofs!push, Pool!joined,
         PoolProofs!joined, Pool!client, PoolProofs!client, Pool!got, PoolProofs!got,
         Pool!threads, PoolProofs!threads, Pool!Worker, PoolProofs!Worker, Pool!Item,
         PoolProofs!Item
<1>3. ASSUME NEW w PROVE Pool!WorkerStep(w) <=> PoolProofs!WorkerStep(w)
  BY DEF Pool!WorkerStep, PoolProofs!WorkerStep, Pool!CheckStop, PoolProofs!CheckStop,
         Pool!Pop, PoolProofs!Pop, Pool!PopTimeout, PoolProofs!PopTimeout,
         Pool!ProcessorReturns, PoolProofs!ProcessorReturns, Pool!ProcessorRaises,
         PoolProofs!ProcessorRaises, Pool!AppendResult, PoolProofs!AppendResult,
         Pool!CountProcessed, PoolProofs!CountProcessed, Pool!CountError,
         PoolProofs!CountError, Pool!TaskDone, PoolProofs!TaskDone, Pool!Goto,
         PoolProofs!Goto, Pool!empty, PoolProofs!empty, Pool!oldest, PoolProofs!oldest,
         Pool!pop, PoolProofs!pop, Pool!task_done, PoolProofs!task_done, Pool!client,
         PoolProofs!client, Pool!got, PoolProofs!got, Pool!threads, PoolProofs!threads,
         Pool!Worker, PoolProofs!Worker, Pool!Item, PoolProofs!Item
<1>4. Pool!vars = PoolProofs!vars /\ (Pool!vars)' = (PoolProofs!vars)'
  BY DEF Pool!client, PoolProofs!client, Pool!got, PoolProofs!got, Pool!threads,
         PoolProofs!threads, Pool!vars, PoolProofs!vars
<1>5. [Pool!Next]_(Pool!vars) <=> [PoolProofs!Next]_(PoolProofs!vars)
  BY <1>2, <1>3, <1>4 DEF Pool!Next, PoolProofs!Next, Pool!Finished, PoolProofs!Finished,
                          Pool!Worker, PoolProofs!Worker
<1>. QED BY <1>1, <1>5, PTL DEF Pool!Spec, PoolProofs!Spec

\* The statistics, results and errors that V2Pipeline.run reads while the workers
\* still run are complete and final (pipeline.py reads them before pool.stop()).
THEOREM ReportIsOfFinalReads == Spec => []Pool!ReadsAreFinal
<1>1. Pool!ReadsAreFinal <=> PoolProofs!ReadsAreFinal
  BY DEF Pool!ReadsAreFinal, PoolProofs!ReadsAreFinal, Pool!Recorded,
         PoolProofs!Recorded, Pool!Worker, PoolProofs!Worker, Pool!Elements,
         PoolProofs!Elements, Pool!Drained, PoolProofs!Drained
<1>2. PoolProofs!PoolAssumption
  BY BalancerAssumption, CaptureAssumption DEF PoolProofs!PoolAssumption
<1>3. PoolProofs!Spec => []PoolProofs!ReadsAreFinal
  BY <1>2, PoolProofs!ReadsFinal, PTL
<1>4. Spec => Pool!Spec
  BY ImplementsPool
<1>5. Pool!Spec => PoolProofs!Spec
  BY SamePool
<1>. QED BY <1>1, <1>3, <1>4, <1>5, PTL

-----------------------------------------------------------------------------
(* What the pool tells of an item in the hand of a worker.                 *)

\* Results are older than what is in hand, and items stay on their route.
PoolFacts ==
  /\ results \in [Pool!Worker -> Seq(Pool!Item)]
  /\ DOMAIN at = Pool!Worker /\ DOMAIN hand = Pool!Worker
  /\ main = "start" => idx \in Pool!Worker /\ at[idx] = "new"
  /\ \A w \in Pool!Worker :
       /\ at[w] = "append" => hand[w] \in Pool!Item
       /\ at[w] = "process" =>
            /\ hand[w] \in DOMAIN route /\ route[hand[w]] = w
            /\ \A i \in Pool!Elements(results[w]) : i < hand[w]

LEMMA PoolFactsHold == Spec => [](PoolFacts /\ Pool!TypeOK)
<1>1. PoolProofs!PoolAssumption
  BY BalancerAssumption, CaptureAssumption DEF PoolProofs!PoolAssumption
<1>2. PoolProofs!Spec => [](PoolProofs!Core /\ PoolProofs!Places)
  BY <1>1, PoolProofs!PlacesInvariant, PTL
<1>3. PoolProofs!Core => Pool!TypeOK
  BY DEF PoolProofs!Core, PoolProofs!TypeOK, Pool!TypeOK, PoolProofs!Worker, Pool!Worker,
         PoolProofs!Item, Pool!Item, PoolProofs!ClientAt, Pool!ClientAt,
         PoolProofs!ThreadAt, Pool!ThreadAt, PoolProofs!Busy, Pool!Busy,
         PoolProofs!Queue, Pool!Queue
<1>4. PoolProofs!Core /\ PoolProofs!Places => PoolFacts
  <2>. SUFFICES ASSUME PoolProofs!Core, PoolProofs!Places PROVE PoolFacts
    OBVIOUS
  <2>1. /\ results \in [Pool!Worker -> Seq(Pool!Item)]
        /\ DOMAIN at = Pool!Worker /\ DOMAIN hand = Pool!Worker
        /\ main = "start" => idx \in Pool!Worker /\ at[idx] = "new"
        /\ \A w \in Pool!Worker : at[w] \in PoolProofs!Busy => hand[w] \in Pool!Item
    BY DEF PoolProofs!Core, PoolProofs!TypeOK, PoolProofs!PhasesAgree,
           PoolProofs!Worker, Pool!Worker, PoolProofs!Item, Pool!Item
  <2>2. ASSUME NEW w \in Pool!Worker, at[w] = "process"
        PROVE  /\ hand[w] \in DOMAIN route /\ route[hand[w]] = w
               /\ \A i \in Pool!Elements(results[w]) : i < hand[w]
    <3>1. hand[w] \in PoolProofs!Held(w) /\ w \in PoolProofs!Worker
      BY <2>1, <2>2 DEF PoolProofs!Busy, PoolProofs!Held, PoolProofs!InHand,
                        PoolProofs!Item, Pool!Item, PoolProofs!Worker, Pool!Worker
    <3>2. Pool!Elements(results[w]) \subseteq PoolProofs!Outcomes(w)
      BY DEF PoolProofs!Outcomes, PoolProofs!Elements, Pool!Elements
    <3>. QED BY <3>1, <3>2 DEF PoolProofs!Places, PoolProofs!OnRoute, PoolProofs!Ages
  <2>. QED BY <2>1, <2>2 DEF PoolFacts, PoolProofs!Busy
<1>. QED BY <1>2, <1>3, <1>4, SamePool, ImplementsPool, PTL

-----------------------------------------------------------------------------
(* The workers' flow tables.                                               *)

\* Every flow of a worker's table is a flow the balancer sends there.
OwnFlows ==
  /\ DOMAIN flows = Pool!Worker
  /\ \A w \in Pool!Worker : \A five_tuple \in DOMAIN flows[w] :
       five_tuple \in FlowKey /\ get_worker(five_tuple) = w

\* Processing a packet adds at most that packet's five-tuple to the table.
LEMMA FiveTupleIsFlowKey ==
  ASSUME NEW packet, FlowKeyOf(packet) \in FlowKey
  PROVE  create_five_tuple(packet) = FlowKeyOf(packet)
<1>1. packet.src_ip # 0 /\ packet.dst_ip # 0 /\ packet.protocol # ""
  BY BalancerAssumption, CaptureAssumption DEF FlowKey, FlowKeyOf
<1>. QED BY <1>1 DEF create_five_tuple, FlowKeyOf

LEMMA ProcessDomain ==
  ASSUME NEW table, NEW packet, FlowKeyOf(packet) \in FlowKey
  PROVE  DOMAIN process(rules, table, packet) = DOMAIN table \cup {FlowKeyOf(packet)}
<1>1. create_five_tuple(packet) = FlowKeyOf(packet)
  BY FiveTupleIsFlowKey
<1>2. DOMAIN get_or_create_flow(rules, table, FlowKeyOf(packet), <<>>)
        = DOMAIN table \cup {FlowKeyOf(packet)}
  BY DEF get_or_create_flow, Store
<1>. QED BY <1>1, <1>2 DEF process

LEMMA OwnFlowsStep ==
  OwnFlows /\ Routed /\ PoolFacts /\ [Next]_vars => OwnFlows'
<1>. SUFFICES ASSUME OwnFlows, Routed, PoolFacts, [Next]_vars PROVE OwnFlows'
  OBVIOUS
<1>1. ASSUME NEW w \in Pool!Worker, Process(w) PROVE OwnFlows'
  <2>. DEFINE packet == packets[hand[w]]
  <2>1. /\ at[w] = "process"
        /\ flows' = [flows EXCEPT ![w] = process(rules, flows[w], packet)]
    BY <1>1 DEF Process, Pool!ProcessorReturns, Pool!Goto
  <2>2. FlowKeyOf(packet) \in FlowKey /\ get_worker(FlowKeyOf(packet)) = w
    BY <2>1 DEF Routed, PoolFacts
  <2>3. DOMAIN process(rules, flows[w], packet) = DOMAIN flows[w] \cup {FlowKeyOf(packet)}
    BY <2>2, ProcessDomain
  <2>4. /\ DOMAIN flows' = Pool!Worker
        /\ DOMAIN (flows'[w]) = DOMAIN flows[w] \cup {FlowKeyOf(packet)}
        /\ \A v \in Pool!Worker : v # w => flows'[v] = flows[v]
    <3>. HIDE DEF packet
    <3>. QED BY <2>1, <2>3 DEF OwnFlows
  <2>. QED BY <2>2, <2>4 DEF OwnFlows
<1>2. ASSUME UNCHANGED flows PROVE OwnFlows'
  BY <1>2 DEF OwnFlows
<1>3. CASE MainStep \/ (\E w \in Pool!Worker : WorkerCall(w)) \/ Finished \/ UNCHANGED vars
  BY <1>2, <1>3 DEF MainStep, PoolCall, SubmitPacket, SkipPacket, ParseRaises, AllSubmitted,
               WriteOutput, BuildReport, WorkerCall, Finished, vars, run_vars
<1>. QED BY <1>1, <1>3 DEF Next, WorkerStep

LEMMA OwnFlowsHold == Spec => [](Routed /\ OwnFlows)
<1>1. Init => OwnFlows
  BY DEF Init, OwnFlows
<1>. QED BY <1>1, OwnFlowsStep, PoolFactsHold, RoutedInit, RoutedStep, PTL DEF Spec

\* No flow is in the tables of two workers (dpi_processor.py: each processor has
\* a ConnectionTracker of its own), so the sum of their sizes counts every flow
\* once.
THEOREM TablesDisjoint == Spec => []TablesAreDisjoint
<1>1. OwnFlows => TablesAreDisjoint
  BY DEF OwnFlows, TablesAreDisjoint
<1>. QED BY <1>1, OwnFlowsHold, PTL

-----------------------------------------------------------------------------
(* What the rule manager, the tracker and the processor do to one flow.    *)

\* Every name is classified as an application of AppType.
LEMMA EveryNameIsClassified ==
  ASSUME NEW domain
  PROVE  classify_domain(domain) \in AppType
<1>. DEFINE Matches(k) == IsOrIsUnder(normalise(domain), normalise(domain_rules[k].domain))
            hits == {k \in DOMAIN domain_rules : Matches(k)}
<1>1. classify_domain(domain) = IF domain = <<>> \/ hits = {} THEN UNKNOWN
                                ELSE domain_rules[Min(hits)].app
  BY DEF classify_domain
<1>. HIDE DEF Matches
<1>2. domain_rules \in Seq([domain : Seq(Char), app : AppType]) /\ UNKNOWN \in AppType
  BY RuleAssumption
<1>3. hits \subseteq Nat /\ hits \subseteq DOMAIN domain_rules
  BY <1>2
<1>4. hits # {} => Min(hits) \in DOMAIN domain_rules
  BY <1>3, Least
<1>5. \A k \in DOMAIN domain_rules : domain_rules[k].app \in AppType
  <2>. DEFINE Rule == [domain : Seq(Char), app : AppType]
  <2>1. \A k \in DOMAIN domain_rules : domain_rules[k] \in Rule
    <3>1. domain_rules \in Seq(Rule)
      BY <1>2
    <3>. HIDE DEF Rule
    <3>. QED BY <3>1
  <2>. QED BY <2>1
<1>. QED BY <1>1, <1>2, <1>4, <1>5

LEMMA RulesAreSticky ==
  ASSUME NEW rm, NEW five_tuple, NEW flow \in Flow
  PROVE  /\ apply_blocking_rules(rm, five_tuple, flow) \in Flow
         /\ flow.blocked => apply_blocking_rules(rm, five_tuple, flow).blocked
<1>. DEFINE named == apply_blocking_rules(rm, five_tuple, flow)
            verdict == \/ flow.blocked
                       \/ is_ip_blocked(rm, five_tuple.src_ip)
                       \/ is_app_blocked(rm, flow.app_type)
                       \/ is_domain_blocked(rm, flow.sni)
<1>1. verdict \in BOOLEAN /\ (flow.blocked => verdict)
  BY DEF Flow
<1>2. named = [flow EXCEPT !.blocked = verdict]
  BY DEF apply_blocking_rules
<1>3. named \in Flow /\ named.blocked = verdict
  <2>. HIDE DEF verdict, named
  <2>. QED BY <1>1, <1>2 DEF Flow
<1>. QED BY <1>1, <1>3

LEMMA NamesBlockNothing ==
  ASSUME NEW flow \in Flow, NEW sni \in Seq(Char)
  PROVE  WithName(flow, sni) \in Flow /\ WithName(flow, sni).blocked = flow.blocked
  BY EveryNameIsClassified DEF Flow, WithName

\* Of a table, what process keeps: its flows remain flows, and blocked.
Typed(table) == \A five_tuple \in DOMAIN table : table[five_tuple] \in Flow

LEMMA ProcessIsSticky ==
  ASSUME NEW table, Typed(table), NEW packet, IsPacket(packet),
         FlowKeyOf(packet) \in FlowKey
  PROVE  /\ Typed(process(rules, table, packet))
         /\ FlowKeyOf(packet) \in DOMAIN process(rules, table, packet)
         /\ \A five_tuple \in DOMAIN table :
              /\ five_tuple \in DOMAIN process(rules, table, packet)
              /\ table[five_tuple].blocked
                   => process(rules, table, packet)[five_tuple].blocked
<1>. DEFINE key == FlowKeyOf(packet)
            counted == [Lookup(table, key, <<>>) EXCEPT !.packet_count = @ + 1]
            flow == apply_blocking_rules(rules, key, WithName(counted, <<>>))
            tracked == get_or_create_flow(rules, table, key, <<>>)
            renamed == Rename(rules, key, flow, domain_of(packet))
            after == process(rules, table, packet)
<1>1. create_five_tuple(packet) = key
  BY FiveTupleIsFlowKey
<1>0. domain_of(packet) \in Seq(Char) /\ <<>> \in Seq(Char)
  <2>1. packet.sni \in Seq(Char) /\ packet.http_host \in Seq(Char)
    BY DEF IsPacket
  <2>. QED BY <2>1 DEF domain_of
<1>2. counted \in Flow /\ (key \in DOMAIN table => counted.blocked = table[key].blocked)
  <2>1. Lookup(table, key, <<>>) \in Flow
    BY <1>0, RuleAssumption DEF Typed, Lookup, NewFlow, Flow
  <2>2. key \in DOMAIN table => Lookup(table, key, <<>>) = table[key]
    BY DEF Lookup
  <2>3. counted \in Flow /\ counted.blocked = Lookup(table, key, <<>>).blocked
    BY <2>1 DEF Flow
  <2>. QED BY <2>2, <2>3
<1>3. flow \in Flow /\ (counted.blocked => flow.blocked)
  <2>. HIDE DEF counted
  <2>. QED BY <1>0, <1>2, RulesAreSticky, NamesBlockNothing
<1>4. renamed \in Flow /\ (flow.blocked => renamed.blocked)
  <2>. DEFINE named == [flow EXCEPT !.sni = domain_of(packet),
                                    !.app_type = classify_domain(domain_of(packet))]
  <2>1. named \in Flow /\ named.blocked = flow.blocked
    <3>. HIDE DEF flow
    <3>. QED BY <1>0, <1>3, EveryNameIsClassified DEF Flow
  <2>2. renamed = apply_blocking_rules(rules, key, named)
    BY DEF Rename
  <2>. HIDE DEF named, renamed, flow
  <2>. QED BY <2>1, <2>2, RulesAreSticky
<1>5. tracked = [ft \in DOMAIN table \cup {key} |-> IF ft = key THEN flow ELSE table[ft]]
  BY DEF get_or_create_flow, Store
<1>6. \/ after = tracked
      \/ after = [tracked EXCEPT ![key] = Rename(rules, key, tracked[key], domain_of(packet))]
  BY <1>1 DEF process
<1>7. tracked[key] = flow
  <2>. HIDE DEF flow, tracked, key
  <2>. QED BY <1>5
<1>8. \/ after = tracked
      \/ after = [tracked EXCEPT ![key] = renamed]
  BY <1>6, <1>7
<1>9. /\ DOMAIN after = DOMAIN table \cup {key}
      /\ after[key] \in {flow, renamed}
      /\ \A ft \in DOMAIN table : ft # key => after[ft] = table[ft]
  <2>. HIDE DEF flow, tracked, key, renamed, after
  <2>. QED BY <1>5, <1>8
<1>. HIDE DEF flow, tracked, key, renamed, after, counted
<1>10. after[key] \in Flow /\ (key \in DOMAIN table /\ table[key].blocked => after[key].blocked)
  BY <1>2, <1>3, <1>4, <1>9
<1>11. Typed(after)
  BY <1>9, <1>10 DEF Typed
<1>12. key \in DOMAIN after /\ \A ft \in DOMAIN table :
          ft \in DOMAIN after /\ (table[ft].blocked => after[ft].blocked)
  BY <1>9, <1>10
<1>. QED BY <1>11, <1>12 DEF key, after

-----------------------------------------------------------------------------
(* The decisions.                                                          *)

\* The flow of a submitted packet, in the table of the worker it went to.
FlowIsBlocked(i) ==
  LET table == flows[route[i]]
  IN  FlowKeyOf(packets[i]) \in DOMAIN table /\ table[FlowKeyOf(packets[i])].blocked

\* A decided packet has its result recorded, or about to be: so it is older than
\* what its worker processes next.
Past(i) == \/ i \in Pool!Elements(results[route[i]])
           \/ at[route[i]] = "append" /\ hand[route[i]] = i

\* A decision is made once, and what was dropped is seen in its flow.
Decided ==
  /\ \A w \in Pool!Worker : Typed(flows[w])
  /\ \A i \in DOMAIN decision :
       /\ i \in DOMAIN route /\ decision[i] \in {"FORWARD", "DROP"}
       /\ Past(i)
       /\ decision[i] = "DROP" => FlowIsBlocked(i)
  /\ BlockedStaysBlocked

\* A step that decides nothing and takes no result back.
LEMMA DecidedKept ==
  ASSUME Decided, Routed, UNCHANGED <<packets, flows, decision>>,
         \A i \in DOMAIN route : i \in DOMAIN route' /\ route'[i] = route[i],
         \A w \in Pool!Worker :
           /\ Pool!Elements(results[w]) \subseteq Pool!Elements(results[w])'
           /\ at[w] = "append" => \/ at'[w] = "append" /\ hand'[w] = hand[w]
                                  \/ hand[w] \in Pool!Elements(results[w])'
  PROVE  Decided'
<1>1. BlockedStaysBlocked' /\ \A w \in Pool!Worker : Typed(flows'[w])
  BY DEF Decided, BlockedStaysBlocked, FlowKeyOf
<1>2. ASSUME NEW i \in DOMAIN decision
      PROVE  /\ i \in DOMAIN route' /\ decision[i] \in {"FORWARD", "DROP"}
             /\ Past(i)'
             /\ decision[i] = "DROP" => FlowIsBlocked(i)'
  <2>1. i \in DOMAIN route /\ i \in DOMAIN route' /\ route'[i] = route[i]
    BY DEF Decided
  <2>2. PICK w \in Pool!Worker : w = route[i]
    BY <2>1, WorkerExists DEF Routed, Pool!Worker
  <2>3. Past(i)'
    <3>1. i \in Pool!Elements(results[w]) => i \in Pool!Elements(results'[w])
      BY DEF Pool!Elements
    <3>2. at[w] = "append" /\ hand[w] = i =>
            \/ at'[w] = "append" /\ hand'[w] = i
            \/ i \in Pool!Elements(results'[w])
      BY DEF Pool!Elements
    <3>. QED BY <2>1, <2>2, <3>1, <3>2 DEF Decided, Past, Pool!Elements
  <2>4. FlowIsBlocked(i)' <=> FlowIsBlocked(i)
    BY <2>1 DEF FlowIsBlocked, FlowKeyOf
  <2>. QED BY <2>1, <2>3, <2>4 DEF Decided
<1>. QED BY <1>1, <1>2 DEF Decided, Typed

LEMMA DecidedProcess ==
  ASSUME Decided, Routed, OwnFlows, PoolFacts, NEW w \in Pool!Worker, Process(w)
  PROVE  Decided'
<1>0. PICK j : j = hand[w]
  OBVIOUS
<1>. DEFINE packet == packets[j]
            key == FlowKeyOf(packet)
            after == process(rules, flows[w], packet)
<1>1. /\ at[w] = "process" /\ at' = [at EXCEPT ![w] = "append"]
      /\ flows' = [flows EXCEPT ![w] = after]
      /\ decision' = [i \in DOMAIN decision \cup {j} |->
                        IF i = j THEN decide(flows'[w], packet) ELSE decision[i]]
      /\ UNCHANGED <<packets, route, hand, results>>
  BY <1>0 DEF Process, Pool!ProcessorReturns, Pool!Goto, Pool!client
<1>2. /\ j \in DOMAIN route /\ route[j] = w
      /\ \A i \in Pool!Elements(results[w]) : i < j
  BY <1>0, <1>1 DEF PoolFacts
<1>3. key \in FlowKey /\ j \in Nat /\ get_worker(key) = w /\ IsPacket(packet)
  <2>1. key \in FlowKey /\ get_worker(key) = w /\ j \in 1 .. next - 1
    BY <1>2 DEF Routed
  <2>2. Len(packets) \in Nat /\ next \in 1 .. Len(packets) + 1
    BY CaptureFacts DEF Routed
  <2>3. j \in 1 .. Len(packets)
    BY <2>1, <2>2
  <2>4. IsPacket(packet)
    BY <2>3, CaptureAssumption DEF Routed
  <2>. QED BY <2>1, <2>3, <2>4
<1>4. create_five_tuple(packet) = key
  BY <1>3, FiveTupleIsFlowKey
<1>5. /\ Typed(after) /\ key \in DOMAIN after
      /\ \A k \in DOMAIN flows[w] :
           k \in DOMAIN after /\ (flows[w][k].blocked => after[k].blocked)
  BY <1>3, ProcessIsSticky DEF Decided
<1>6. decide(after, packet) = IF after[key].blocked THEN "DROP" ELSE "FORWARD"
  BY <1>4 DEF decide
<1>. HIDE DEF after, packet, key
<1>7. /\ flows'[w] = after
      /\ \A v \in Pool!Worker : v # w => flows'[v] = flows[v]
      /\ at'[w] = "append"
      /\ \A v \in Pool!Worker : v # w => at'[v] = at[v]
  BY <1>1 DEF OwnFlows, PoolFacts
<1>8. DOMAIN decision' = DOMAIN decision \cup {j} /\ decision'[j] = decide(after, packet)
      /\ \A i \in DOMAIN decision : i # j => decision'[i] = decision[i]
  BY <1>1, <1>7
\* What the worker has decided before is older.
<1>9. ASSUME NEW i \in DOMAIN decision, route[i] = w
      PROVE  i < j
  BY <1>0, <1>1, <1>2, <1>9 DEF Decided, Past
<1>10. j \notin DOMAIN decision
  BY <1>2, <1>3, <1>9
<1>11. ASSUME NEW i \in DOMAIN decision
       PROVE  /\ i \in DOMAIN route /\ route[i] \in Pool!Worker
              /\ Past(i)'
              /\ decision[i] = "DROP" => FlowIsBlocked(i)'
  <2>1. i \in DOMAIN route /\ Past(i) /\ (decision[i] = "DROP" => FlowIsBlocked(i))
    BY DEF Decided
  <2>2. route[i] \in Pool!Worker
    BY <2>1, WorkerExists DEF Routed, Pool!Worker
  <2>3. Past(i)'
    BY <1>1, <1>7, <2>1, <2>2 DEF Past, Pool!Elements
  <2>4. ASSUME FlowIsBlocked(i) PROVE FlowIsBlocked(i)'
    BY <1>1, <1>5, <1>7, <2>2, <2>4 DEF FlowIsBlocked, FlowKeyOf
  <2>. QED BY <2>1, <2>2, <2>3, <2>4
<1>12. Past(j)' /\ (decision'[j] = "DROP" => FlowIsBlocked(j)')
       /\ decision'[j] \in {"FORWARD", "DROP"}
  <2>1. FlowKeyOf(packets'[j]) = key /\ route'[j] = w /\ hand'[w] = j
    BY <1>0, <1>1, <1>2 DEF packet, key
  <2>2. Past(j)'
    BY <1>7, <2>1 DEF Past
  <2>3. after[key].blocked => FlowIsBlocked(j)'
    BY <1>5, <1>7, <2>1 DEF FlowIsBlocked
  <2>. QED BY <1>6, <1>8, <2>2, <2>3
\* A dropped packet of the same flow went to the same worker, which has its flow
\* blocked.
<1>13. ASSUME NEW i \in DOMAIN decision, FlowKeyOf(packets[i]) = key, decision[i] = "DROP"
       PROVE  decision'[j] = "DROP"
  <2>1. FlowIsBlocked(i) /\ i \in DOMAIN route
    BY <1>13 DEF Decided
  <2>2. route[i] = w
    BY <1>3, <1>13, <2>1 DEF Routed
  <2>3. after[key].blocked
    BY <1>5, <1>13, <2>1, <2>2 DEF FlowIsBlocked
  <2>. QED BY <1>6, <1>8, <2>3
<1>14. BlockedStaysBlocked'
  <2>. SUFFICES ASSUME NEW i \in DOMAIN decision', NEW k \in DOMAIN decision', i < k,
                       FlowKeyOf(packets[i]) = FlowKeyOf(packets[k]), decision'[i] = "DROP"
                PROVE  decision'[k] = "DROP"
    BY <1>1 DEF BlockedStaysBlocked, FlowKeyOf
  <2>1. CASE i \in DOMAIN decision /\ k \in DOMAIN decision
    BY <1>8, <1>10, <2>1 DEF Decided, BlockedStaysBlocked
  <2>2. CASE i \in DOMAIN decision /\ k = j
    BY <1>8, <1>10, <1>13, <2>2 DEF key, packet
  <2>3. CASE i = j /\ k = j
    BY <1>3, <2>3
  <2>4. CASE i = j /\ k \in DOMAIN decision
    <3>1. route[k] = w
      BY <1>3, <1>11, <2>4 DEF Routed, key, packet
    <3>2. k < j /\ k \in Nat
      BY <1>9, <1>11, <2>4, <3>1 DEF Routed
    <3>. QED BY <1>3, <2>4, <3>2
  <2>. QED BY <1>8, <2>1, <2>2, <2>3, <2>4
<1>15. \A v \in Pool!Worker : Typed(flows'[v])
  BY <1>5, <1>7 DEF Decided
<1>16. \A i \in DOMAIN decision' :
         /\ i \in DOMAIN route' /\ decision'[i] \in {"FORWARD", "DROP"}
         /\ Past(i)'
         /\ decision'[i] = "DROP" => FlowIsBlocked(i)'
  BY <1>1, <1>2, <1>8, <1>10, <1>11, <1>12 DEF Decided
<1>. QED BY <1>14, <1>15, <1>16 DEF Decided, Typed

LEMMA ElementsAppended ==
  ASSUME NEW S, NEW s \in Seq(S), NEW x \in S
  PROVE  Pool!Elements(Append(s, x)) = Pool!Elements(s) \cup {x}
<1>1. /\ Len(Append(s, x)) = Len(s) + 1 /\ Len(s) \in Nat
      /\ Append(s, x)[Len(s) + 1] = x
      /\ \A k \in 1 .. Len(s) : Append(s, x)[k] = s[k]
  OBVIOUS
<1>2. 1 .. Len(s) + 1 = 1 .. Len(s) \cup {Len(s) + 1}
  BY <1>1
<1>. QED BY <1>1, <1>2 DEF Pool!Elements

LEMMA DecidedInit == Init => Decided
<1>. SUFFICES ASSUME Init PROVE Decided
  OBVIOUS
<1>1. decision = <<>> /\ flows = [w \in Pool!Worker |-> <<>>]
  BY DEF Init
<1>2. DOMAIN decision = {} /\ \A w \in Pool!Worker : DOMAIN flows[w] = {}
  BY <1>1
<1>. QED BY <1>2 DEF Decided, BlockedStaysBlocked, Typed

LEMMA DecidedStep ==
  Decided /\ Routed /\ OwnFlows /\ PoolFacts /\ [Next]_vars => Decided'
<1>. SUFFICES ASSUME Decided, Routed, OwnFlows, PoolFacts, [Next]_vars PROVE Decided'
  OBVIOUS
<1>1. ASSUME NEW w \in Pool!Worker, Process(w) PROVE Decided'
  BY <1>1, DecidedProcess
<1>2. CASE \E w \in Pool!Worker : Pool!AppendResult(w) /\ UNCHANGED run_vars
  <2>. PICK w \in Pool!Worker : Pool!AppendResult(w) /\ UNCHANGED run_vars
    BY <1>2
  <2>1. /\ at[w] = "append" /\ at' = [at EXCEPT ![w] = "count"]
        /\ results' = [results EXCEPT ![w] = Append(results[w], hand[w])]
        /\ UNCHANGED <<route, hand, packets, flows, decision>>
    BY DEF Pool!AppendResult, Pool!Goto, Pool!client, run_vars
  <2>2. results[w] \in Seq(Pool!Item) /\ hand[w] \in Pool!Item
    BY <2>1 DEF PoolFacts
  <2>3. /\ Pool!Elements(results[w]) \subseteq Pool!Elements(Append(results[w], hand[w]))
        /\ hand[w] \in Pool!Elements(Append(results[w], hand[w]))
    BY <2>2, ElementsAppended
  <2>4. /\ results'[w] = Append(results[w], hand[w])
        /\ \A v \in Pool!Worker : v # w => results'[v] = results[v] /\ at'[v] = at[v]
    BY <2>1 DEF PoolFacts
  <2>5. ASSUME NEW v \in Pool!Worker
        PROVE  /\ Pool!Elements(results[v]) \subseteq Pool!Elements(results[v])'
               /\ at[v] = "append" => \/ at'[v] = "append" /\ hand'[v] = hand[v]
                                      \/ hand[v] \in Pool!Elements(results[v])'
    <3>1. CASE v = w
      BY <2>3, <2>4, <3>1 DEF Pool!Elements
    <3>2. CASE v # w
      BY <2>1, <2>4, <3>2 DEF Pool!Elements
    <3>. QED BY <3>1, <3>2
  <2>. QED BY <2>1, <2>5, DecidedKept
\* Every other step leaves the results, and the hand of a thread at its append.
<1>3. ASSUME UNCHANGED <<packets, flows, decision, results>>,
             \A i \in DOMAIN route : i \in DOMAIN route' /\ route'[i] = route[i],
             \A v \in Pool!Worker : at[v] = "append" => at'[v] = "append" /\ hand'[v] = hand[v]
      PROVE  Decided'
  <2>1. \A v \in Pool!Worker : Pool!Elements(results[v]) \subseteq Pool!Elements(results[v])'
    BY <1>3 DEF Pool!Elements
  <2>. QED BY <1>3, <2>1, DecidedKept
<1>4. CASE SubmitPacket
  <2>1. /\ UNCHANGED <<packets, flows, decision, results, at, hand>>
        /\ route' = [k \in DOMAIN route \cup {next} |->
                       IF k = next THEN get_worker(FlowKeyOf(packets[next])) ELSE route[k]]
        /\ \A k \in DOMAIN route : k < next
    BY <1>4 DEF SubmitPacket, Pool!Submit, Pool!threads
  <2>2. next \in Nat
    BY CaptureFacts DEF Routed
  <2>3. \A i \in DOMAIN route : i \in DOMAIN route' /\ route'[i] = route[i]
    BY <2>1, <2>2
  <2>. QED BY <1>3, <2>1, <2>3
<1>5. CASE Pool!Start /\ UNCHANGED run_vars
  <2>1. /\ UNCHANGED <<packets, flows, decision, results, hand, route>>
        /\ main = "start" /\ at' = [at EXCEPT ![idx] = "loop"]
    BY <1>5 DEF Pool!Start, run_vars
  <2>2. \A v \in Pool!Worker : at[v] = "append" => at'[v] = "append"
    BY <2>1 DEF PoolFacts
  <2>. QED BY <1>3, <2>1, <2>2
<1>6. CASE \/ PoolCall /\ ~Pool!Start
           \/ SkipPacket \/ ParseRaises \/ AllSubmitted \/ WriteOutput \/ BuildReport
           \/ Finished \/ UNCHANGED vars
  <2>1. UNCHANGED <<packets, flows, decision, results, at, hand, route>>
    BY <1>6 DEF PoolCall, SkipPacket, ParseRaises, AllSubmitted, WriteOutput, BuildReport,
                Finished, vars, pool_vars, run_vars, Pool!Raise, Pool!AllSubmitted,
                Pool!WaitForQueue, Pool!GetWorkerStats, Pool!GetResults,
                Pool!GetErrorStats, Pool!Stop, Pool!Join, Pool!threads
  <2>. QED BY <1>3, <2>1
<1>7. ASSUME NEW w \in Pool!Worker, WorkerCall(w), ~Pool!AppendResult(w) PROVE Decided'
  <2>1. /\ UNCHANGED <<packets, flows, decision, results, route>>
        /\ at[w] # "append" /\ \E place : at' = [at EXCEPT ![w] = place]
        /\ hand' = hand \/ \E item : hand' = [hand EXCEPT ![w] = item]
    BY <1>7 DEF WorkerCall, run_vars, Pool!client, Pool!Goto, Pool!CheckStop, Pool!Pop,
                Pool!PopTimeout, Pool!CountProcessed, Pool!TaskDone
  <2>2. \A v \in Pool!Worker : at[v] = "append" => at'[v] = "append" /\ hand'[v] = hand[v]
    BY <2>1 DEF PoolFacts
  <2>. QED BY <1>3, <2>1, <2>2
<1>8. ASSUME NEW w \in Pool!Worker, WorkerCall(w) PROVE Decided'
  BY <1>2, <1>7, <1>8 DEF WorkerCall
<1>9. CASE PoolCall
  BY <1>5, <1>6, <1>9 DEF PoolCall
<1>. QED BY <1>1, <1>4, <1>6, <1>8, <1>9 DEF Next, MainStep, WorkerStep

LEMMA DecidedInvariant == Spec => []Decided
  BY DecidedInit, DecidedStep, OwnFlowsHold, PoolFactsHold, PTL DEF Spec

\* Sticky blocking (connection_tracker.py: flow.blocked is never taken back) holds
\* of the decisions of the whole pipeline, though they are made by threads.
THEOREM BlockedForGood == Spec => []BlockedStaysBlocked
<1>1. Decided => BlockedStaysBlocked
  BY DEF Decided
<1>. QED BY <1>1, DecidedInvariant, PTL

-----------------------------------------------------------------------------
(* Types.                                                                  *)

Skips == skipped_packets \in 0 .. next - 1

LEMMA SkipsStep == Skips /\ Routed /\ Routed' /\ [Next]_vars => Skips'
<1>. SUFFICES ASSUME Skips, Routed, [Next]_vars PROVE Skips'
  OBVIOUS
<1>1. next \in Nat /\ skipped_packets \in Nat /\ skipped_packets <= next - 1
  BY CaptureFacts DEF Routed, Skips
<1>2. CASE SkipPacket
  BY <1>1, <1>2 DEF SkipPacket, Skips
<1>3. CASE SubmitPacket
  BY <1>1, <1>3 DEF SubmitPacket, Skips
<1>4. CASE PoolCall \/ ParseRaises \/ AllSubmitted \/ WriteOutput \/ BuildReport
           \/ (\E w \in Pool!Worker : WorkerStep(w)) \/ Finished \/ UNCHANGED vars
  <2>1. UNCHANGED <<next, skipped_packets>>
    BY <1>4 DEF PoolCall, ParseRaises, AllSubmitted, WriteOutput, BuildReport, WorkerStep,
                Process, WorkerCall, Finished, vars, run_vars
  <2>. QED BY <2>1 DEF Skips
<1>. QED BY <1>2, <1>3, <1>4 DEF Next, MainStep

\* The pipeline's state stays in its types: every flow in every table is a flow,
\* classified as an application, and every decision is one of the two.
THEOREM PipelineTyped == Spec => []TypeOK
<1>1. Init => Skips
  BY DEF Init, Skips
<1>2. Routed /\ OwnFlows /\ Decided /\ Skips /\ Pool!TypeOK => TypeOK
  BY DEF Routed, OwnFlows, Decided, Skips, Typed, TypeOK
<1>. QED BY <1>1, <1>2, SkipsStep, OwnFlowsHold, DecidedInvariant, PoolFactsHold, PTL DEF Spec
-----------------------------------------------------------------------------
(* The processor of SequentialDPI is the processor of the workers: the     *)
(* same text, in an instance of its own.                                   *)

LEMMA SameNames ==
  ASSUME NEW name
  PROVE  Sequential!normalise(name) = normalise(name)
<1>1. \A n : Sequential!lower(n) = lower(n)
  BY DEF Sequential!lower, lower
<1>2. \A S : Sequential!Min(S) = Min(S) /\ Sequential!Max(S) = Max(S)
  BY DEF Sequential!Min, Min, Sequential!Max, Max
<1>3. \A n, c : Sequential!Keeps(n, c) = Keeps(n, c)
  BY DEF Sequential!Keeps, Keeps
<1>4. \A n : Sequential!strip(n) = strip(n)
  BY <1>2, <1>3 DEF Sequential!strip, strip
<1>5. \A n : Sequential!rstrip(n) = rstrip(n)
  BY <1>2, <1>3 DEF Sequential!rstrip, rstrip
<1>. QED BY <1>1, <1>4, <1>5 DEF Sequential!normalise, normalise

LEMMA SameMatching ==
  ASSUME NEW a, NEW b
  PROVE  /\ Sequential!IsOrIsUnder(a, b) <=> IsOrIsUnder(a, b)
         /\ Sequential!MatchesRule(a, b) <=> MatchesRule(a, b)
<1>1. \A s, t : Sequential!endswith(s, t) <=> endswith(s, t)
  BY DEF Sequential!endswith, endswith, Sequential!IsSuffix, IsSuffix, Sequential!IsPrefix,
         IsPrefix, Sequential!Reverse, Reverse
<1>2. \A s, t : Sequential!IsOrIsUnder(s, t) <=> IsOrIsUnder(s, t)
  BY <1>1 DEF Sequential!IsOrIsUnder, IsOrIsUnder
<1>3. \A s, t : Sequential!IsLabelOf(s, t) <=> IsLabelOf(s, t)
  BY DEF Sequential!IsLabelOf, IsLabelOf
<1>4. \A s, c : Sequential!Contains(s, c) <=> Contains(s, c)
  BY DEF Sequential!Contains, Contains
<1>. QED BY <1>2, <1>3, <1>4 DEF Sequential!MatchesRule, MatchesRule

LEMMA SameRules ==
  ASSUME NEW rm, NEW five_tuple, NEW flow, NEW domain
  PROVE  /\ Sequential!classify_domain(domain) = classify_domain(domain)
         /\ Sequential!apply_blocking_rules(rm, five_tuple, flow)
              = apply_blocking_rules(rm, five_tuple, flow)
<1>1. Sequential!classify_domain(domain) = classify_domain(domain)
  <2>1. \A S : Sequential!Min(S) = Min(S)
    BY DEF Sequential!Min, Min
  <2>. QED BY <2>1, SameNames, SameMatching DEF Sequential!classify_domain, classify_domain
<1>2. Sequential!is_domain_blocked(rm, flow.sni) <=> is_domain_blocked(rm, flow.sni)
  BY SameNames, SameMatching DEF Sequential!is_domain_blocked, is_domain_blocked
<1>3. /\ Sequential!is_ip_blocked(rm, five_tuple.src_ip) <=> is_ip_blocked(rm, five_tuple.src_ip)
      /\ Sequential!is_app_blocked(rm, flow.app_type) <=> is_app_blocked(rm, flow.app_type)
  BY DEF Sequential!is_ip_blocked, is_ip_blocked, Sequential!is_app_blocked, is_app_blocked
<1>. QED BY <1>1, <1>2, <1>3 DEF Sequential!apply_blocking_rules, apply_blocking_rules

LEMMA SameProcessor ==
  ASSUME NEW rm, NEW table, NEW packet
  PROVE  /\ Sequential!process(rm, table, packet) = process(rm, table, packet)
         /\ Sequential!decide(table, packet) = decide(table, packet)
         /\ Sequential!keyed(packet) <=> keyed(packet)
<1>1. /\ Sequential!create_five_tuple(packet) = create_five_tuple(packet)
      /\ Sequential!domain_of(packet) = domain_of(packet)
  BY DEF Sequential!create_five_tuple, create_five_tuple, Sequential!NoFlow, NoFlow,
         Sequential!domain_of, domain_of
<1>2. \A flow, sni : Sequential!WithName(flow, sni) = WithName(flow, sni)
  BY SameRules DEF Sequential!WithName, WithName
<1>3. \A five_tuple, sni : Sequential!Lookup(table, five_tuple, sni) = Lookup(table, five_tuple, sni)
  BY DEF Sequential!Lookup, Lookup, Sequential!NewFlow, NewFlow
<1>4. \A five_tuple, flow : Sequential!Store(table, five_tuple, flow) = Store(table, five_tuple, flow)
  BY DEF Sequential!Store, Store
<1>5. \A five_tuple, sni : Sequential!get_or_create_flow(rm, table, five_tuple, sni)
                          = get_or_create_flow(rm, table, five_tuple, sni)
  BY <1>2, <1>3, <1>4, SameRules DEF Sequential!get_or_create_flow, get_or_create_flow
<1>6. \A five_tuple, flow, domain : Sequential!Rename(rm, five_tuple, flow, domain)
                                 = Rename(rm, five_tuple, flow, domain)
  BY SameRules DEF Sequential!Rename, Rename
<1>7. Sequential!process(rm, table, packet) = process(rm, table, packet)
  BY <1>1, <1>5, <1>6 DEF Sequential!process, process
<1>. QED BY <1>1, <1>7 DEF Sequential!decide, decide, Sequential!keyed, keyed

-----------------------------------------------------------------------------
(* The table of the one processor.                                         *)

\* What one packet of the capture does to the table of the one processor.
Advanced(table, packet) ==
  IF keyed(packet) THEN process(rules, table, packet) ELSE table

\* f is that table after each of the first n packets.
IsTables(f, n) ==
  f = [i \in 0 .. n |-> IF i = 0 THEN <<>> ELSE Advanced(f[i - 1], packets[i])]

LEMMA TablesExist == \A n \in Nat : \E f : IsTables(f, n)
<1>. DEFINE S == {n \in Nat : ~\E f : IsTables(f, n)}
<1>. SUFFICES ASSUME S # {} PROVE FALSE
  OBVIOUS
<1>1. PICK m \in Nat : m = Min(S)
  BY Least
<1>2. m \in S /\ \A n \in Nat : n < m => n \notin S
  <2>. HIDE DEF S
  <2>1. S \subseteq Nat
    BY DEF S
  <2>2. m \in S
    BY <1>1, <2>1, Least
  <2>3. \A n \in S : m <= n
    BY <1>1, <2>1, Least
  <2>. QED BY <2>2, <2>3
<1>3. m # 0
  <2>. DEFINE f == [i \in 0 .. 0 |-> <<>>]
  <2>1. f = [i \in 0 .. 0 |-> IF i = 0 THEN <<>> ELSE Advanced(f[i - 1], packets[i])]
    OBVIOUS
  <2>2. IsTables(f, 0)
    BY <2>1 DEF IsTables
  <2>. QED BY <1>2, <2>2
<1>4. PICK g : IsTables(g, m - 1)
  BY <1>2, <1>3
<1>. DEFINE f == [i \in 0 .. m |-> IF i = 0 THEN <<>> ELSE Advanced(g[i - 1], packets[i])]
<1>5. \A i \in 0 .. m - 1 : f[i] = g[i]
  <2>1. \A i \in 0 .. m - 1 : g[i] = IF i = 0 THEN <<>> ELSE Advanced(g[i - 1], packets[i])
    BY <1>4 DEF IsTables
  <2>. QED BY <2>1
<1>6. \A i \in 0 .. m : i # 0 => f[i - 1] = g[i - 1]
  <2>1. \A i \in 0 .. m : i # 0 => i - 1 \in 0 .. m - 1
    OBVIOUS
  <2>. HIDE DEF f
  <2>. QED BY <1>5, <2>1
<1>7. f = [i \in 0 .. m |-> IF i = 0 THEN <<>> ELSE Advanced(f[i - 1], packets[i])]
  <2>. HIDE DEF f
  <2>1. f = [i \in 0 .. m |-> IF i = 0 THEN <<>> ELSE Advanced(g[i - 1], packets[i])]
    BY DEF f
  <2>. QED BY <1>6, <2>1
<1>. QED BY <1>2, <1>7 DEF IsTables

LEMMA TableAfterUnfolds ==
  ASSUME Len(packets) \in Nat
  PROVE  /\ Sequential!TableAfter[0] = <<>>
         /\ \A i \in 1 .. Len(packets) :
              Sequential!TableAfter[i] = Advanced(Sequential!TableAfter[i - 1], packets[i])
<1>. DEFINE T == Sequential!TableAfter
<1>1. PICK f : IsTables(f, Len(packets))
  BY TablesExist
<1>2. T = CHOOSE g : IsTables(g, Len(packets))
  <2>1. \A g : [i \in 0 .. Len(packets) |->
                  IF i = 0 THEN <<>>
                  ELSE IF Sequential!keyed(packets[i])
                       THEN Sequential!process(rules, g[i - 1], packets[i])
                       ELSE g[i - 1]]
             = [i \in 0 .. Len(packets) |->
                  IF i = 0 THEN <<>> ELSE Advanced(g[i - 1], packets[i])]
    BY SameProcessor DEF Advanced
  <2>. QED BY <2>1 DEF Sequential!TableAfter, IsTables
<1>3. IsTables(T, Len(packets))
  BY <1>1, <1>2
<1>. HIDE DEF T
<1>4. /\ T[0] = <<>>
      /\ \A i \in 1 .. Len(packets) : T[i] = Advanced(T[i - 1], packets[i])
  BY <1>3 DEF IsTables
<1>. QED BY <1>4 DEF T

\* What a table says of one flow.
Of(table, key) == IF key \in DOMAIN table THEN {table[key]} ELSE {}

\* A packet changes the flow of its own five-tuple only, and what it makes of it
\* depends on nothing else in the table.
LEMMA ProcessIsLocal ==
  ASSUME NEW packet, FlowKeyOf(packet) \in FlowKey, NEW s, NEW t
  PROVE  /\ \A key : key # FlowKeyOf(packet) => Of(process(rules, t, packet), key) = Of(t, key)
         /\ Of(s, FlowKeyOf(packet)) = Of(t, FlowKeyOf(packet)) =>
              /\ Of(process(rules, s, packet), FlowKeyOf(packet))
                   = Of(process(rules, t, packet), FlowKeyOf(packet))
              /\ decide(process(rules, s, packet), packet)
                   = decide(process(rules, t, packet), packet)
<1>. DEFINE own == FlowKeyOf(packet)
            counted(u) == [Lookup(u, own, <<>>) EXCEPT !.packet_count = @ + 1]
            flow(u) == apply_blocking_rules(rules, own, WithName(counted(u), <<>>))
            made(u) == IF domain_of(packet) = <<>> THEN flow(u)
                       ELSE Rename(rules, own, flow(u), domain_of(packet))
<1>1. create_five_tuple(packet) = own
  BY FiveTupleIsFlowKey
<1>2. ASSUME NEW u
      PROVE  /\ DOMAIN process(rules, u, packet) = DOMAIN u \cup {own}
             /\ process(rules, u, packet)[own] = made(u)
             /\ \A key \in DOMAIN u : key # own => process(rules, u, packet)[key] = u[key]
  <2>. DEFINE tracked == get_or_create_flow(rules, u, own, <<>>)
  <2>1. tracked = [ft \in DOMAIN u \cup {own} |-> IF ft = own THEN flow(u) ELSE u[ft]]
    BY DEF get_or_create_flow, Store
  <2>2. process(rules, u, packet) =
          IF domain_of(packet) = <<>> THEN tracked
          ELSE [tracked EXCEPT ![own] = Rename(rules, own, tracked[own], domain_of(packet))]
    BY <1>1 DEF process
  <2>. HIDE DEF tracked, flow, own
  <2>3. tracked[own] = flow(u)
    BY <2>1
  <2>. QED BY <2>1, <2>2, <2>3
<1>3. Of(s, own) = Of(t, own) => made(s) = made(t)
  <2>1. Of(s, own) = Of(t, own) => Lookup(s, own, <<>>) = Lookup(t, own, <<>>)
    BY DEF Of, Lookup
  <2>. QED BY <2>1
<1>. HIDE DEF made, own
<1>4. \A u : Of(process(rules, u, packet), own) = {made(u)}
  BY <1>2 DEF Of
<1>5. \A u : decide(process(rules, u, packet), packet)
               = IF made(u).blocked THEN "DROP" ELSE "FORWARD"
  BY <1>1, <1>2 DEF decide
<1>6. \A key : key # own => Of(process(rules, t, packet), key) = Of(t, key)
  <2>. SUFFICES ASSUME NEW key, key # own
                PROVE  Of(process(rules, t, packet), key) = Of(t, key)
    OBVIOUS
  <2>1. DOMAIN process(rules, t, packet) = DOMAIN t \cup {own}
        /\ (key \in DOMAIN t => process(rules, t, packet)[key] = t[key])
    BY <1>2
  <2>. QED BY <2>1 DEF Of
<1>. QED BY <1>3, <1>4, <1>5, <1>6 DEF own

\* Packets without addresses and packets of other flows leave a flow alone.
LEMMA FlowRests ==
  ASSUME packets \in Captures, NEW key, NEW m \in 0 .. Len(packets),
         NEW n \in m .. Len(packets),
         \A i \in m + 1 .. n : keyed(packets[i]) => FlowKeyOf(packets[i]) # key
  PROVE  Of(Sequential!TableAfter[n], key) = Of(Sequential!TableAfter[m], key)
<1>0. PICK T : T = Sequential!TableAfter
  OBVIOUS
<1>. DEFINE S == {i \in m .. n : Of(T[i], key) # Of(T[m], key)}
<1>1. Len(packets) \in Nat /\ m \in Nat /\ n \in Nat
  BY CaptureFacts
<1>. SUFFICES ASSUME S # {} PROVE FALSE
  BY <1>0, <1>1
<1>2. S \subseteq Nat
  BY <1>1
<1>3. PICK k \in S : \A i \in S : k <= i
  <2>. HIDE DEF S
  <2>. QED BY <1>2, Least
<1>4. k \in m + 1 .. n /\ k - 1 \in m .. n /\ k \in 1 .. Len(packets)
  BY <1>1
<1>5. Of(T[k - 1], key) = Of(T[m], key)
  <2>1. k - 1 \notin S
    BY <1>3, <1>4
  <2>. QED BY <1>4, <2>1
<1>6. T[k] = Advanced(T[k - 1], packets[k])
  BY <1>0, <1>1, <1>4, TableAfterUnfolds
<1>7. Of(T[k], key) = Of(T[k - 1], key)
  <2>1. CASE keyed(packets[k])
    BY <1>4, <1>6, <2>1, ProcessIsLocal, CaptureFacts DEF Advanced
  <2>2. CASE ~keyed(packets[k])
    BY <1>6, <2>2 DEF Advanced
  <2>. QED BY <2>1, <2>2
<1>. QED BY <1>5, <1>7

-----------------------------------------------------------------------------
(* What the pool does for the order of the decisions.                      *)

\* Where a submitted packet is, when no processor raises.
Placed ==
  /\ \A i \in DOMAIN route :
       \/ i \in Pool!Elements(queues[route[i]].items)
       \/ at[route[i]] \in {"process", "append"} /\ hand[route[i]] = i
       \/ i \in Pool!Elements(results[route[i]])
  /\ \A w \in Pool!Worker : at[w] = "process" =>
       \A i \in Pool!Elements(queues[w].items) : hand[w] < i

\* V2Pipeline's processor never raises: the main thread has parsed the same
\* packet before.
NoFailures == \A w \in Pool!Worker : at[w] # "error" /\ failures[w] = <<>>

LEMMA NoFailuresStep ==
  ASSUME NoFailures, PoolFacts, Routed, [Next]_vars
  PROVE  NoFailures'
<1>1. CASE SubmitPacket \/ PoolCall \/ SkipPacket \/ ParseRaises \/ AllSubmitted
           \/ WriteOutput \/ BuildReport \/ Finished \/ UNCHANGED vars
  <2>1. /\ failures' = failures
        /\ at' = at \/ at' = [at EXCEPT ![idx] = "loop"]
    BY <1>1 DEF SubmitPacket, PoolCall, SkipPacket, ParseRaises, AllSubmitted, WriteOutput,
                BuildReport, Finished, vars, pool_vars, run_vars, Pool!Submit, Pool!Start,
                Pool!Raise, Pool!AllSubmitted, Pool!WaitForQueue, Pool!GetWorkerStats,
                Pool!GetResults, Pool!GetErrorStats, Pool!Stop, Pool!Join, Pool!threads
  <2>. QED BY <2>1 DEF NoFailures, PoolFacts
<1>2. ASSUME NEW w \in Pool!Worker, WorkerStep(w) PROVE NoFailures'
  <2>1. /\ failures' = failures
        /\ \E place : place # "error" /\ at' = [at EXCEPT ![w] = place]
    BY <1>2 DEF WorkerStep, Process, WorkerCall, Pool!ProcessorReturns, Pool!CheckStop,
                Pool!Pop, Pool!PopTimeout, Pool!AppendResult, Pool!CountProcessed,
                Pool!TaskDone, Pool!Goto
  <2>. QED BY <2>1 DEF NoFailures, PoolFacts
<1>. QED BY <1>1, <1>2 DEF Next, MainStep

LEMMA PlacedHolds == Spec => [](NoFailures /\ Placed)
<1>1. Init => NoFailures
  BY DEF Init, Pool!Init, NoFailures
<1>2. Spec => []NoFailures
  BY <1>1, NoFailuresStep, PoolFactsHold, RoutedInit, RoutedStep, PTL DEF Spec
<1>3. PoolProofs!PoolAssumption
  BY BalancerAssumption, CaptureAssumption DEF PoolProofs!PoolAssumption
<1>4. PoolProofs!Spec => [](PoolProofs!Core /\ PoolProofs!Places)
  BY <1>3, PoolProofs!PlacesInvariant, PTL
<1>5. PoolProofs!Core /\ PoolProofs!Places /\ NoFailures => Placed
  <2>. SUFFICES ASSUME PoolProofs!Core, PoolProofs!Places, NoFailures PROVE Placed
    OBVIOUS
  <2>0. Pool!Worker = PoolProofs!Worker /\ Pool!Item = PoolProofs!Item
        /\ \A s : Pool!Elements(s) = PoolProofs!Elements(s)
    BY DEF Pool!Worker, PoolProofs!Worker, Pool!Item, PoolProofs!Item, Pool!Elements,
           PoolProofs!Elements
  <2>1. ASSUME NEW i \in DOMAIN route
        PROVE  \/ i \in Pool!Elements(queues[route[i]].items)
               \/ at[route[i]] \in {"process", "append"} /\ hand[route[i]] = i
               \/ i \in Pool!Elements(results[route[i]])
    <3>1. PICK w \in Pool!Worker : w = route[i]
      BY <2>0 DEF PoolProofs!Core, PoolProofs!TypeOK
    <3>2. i \in PoolProofs!Waiting(w) \cup PoolProofs!Held(w) \cup PoolProofs!Outcomes(w)
      BY <2>0, <3>1 DEF PoolProofs!Places, PoolProofs!SomewhereOnRoute
    <3>3. failures[w] = <<>> /\ at[w] # "error"
      BY DEF NoFailures
    <3>4. PoolProofs!Elements(failures[w]) = {}
      BY <3>3 DEF PoolProofs!Elements
    <3>. QED BY <2>0, <3>1, <3>2, <3>3, <3>4
             DEF PoolProofs!Waiting, PoolProofs!Held, PoolProofs!Outcomes, PoolProofs!InHand
  <2>2. ASSUME NEW w \in Pool!Worker, at[w] = "process",
               NEW i \in Pool!Elements(queues[w].items)
        PROVE  hand[w] < i
    <3>1. hand[w] \in PoolProofs!Held(w)
      BY <2>0, <2>2 DEF PoolProofs!Core, PoolProofs!TypeOK, PoolProofs!Busy,
                        PoolProofs!Held, PoolProofs!InHand
    <3>2. i \in PoolProofs!Waiting(w)
      BY <2>0, <2>2 DEF PoolProofs!Waiting
    <3>. QED BY <2>0, <3>1, <3>2 DEF PoolProofs!Places, PoolProofs!Ages
  <2>. QED BY <2>1, <2>2 DEF Placed, NoFailures
<1>. QED BY <1>2, <1>4, <1>5, SamePool, ImplementsPool, PTL

-----------------------------------------------------------------------------
(* What the decisions have to do with the one processor's.                 *)

\* Every packet with addresses that the main thread has passed is submitted, and
\* what is past the processor is decided.
InTurn ==
  /\ \A i \in 1 .. next - 1 : i \in DOMAIN route <=> keyed(packets[i])
  /\ \A w \in Pool!Worker :
       /\ Pool!Elements(results[w]) \subseteq DOMAIN decision
       /\ at[w] = "append" => hand[w] \in DOMAIN decision

\* Once the packets of this flow that are decided are those among the first n, ...
Shown(n, key) ==
  \A i \in 1 .. Len(packets) :
    keyed(packets[i]) /\ FlowKeyOf(packets[i]) = key
      => (i <= n <=> i \in DOMAIN decision)

\* ... the worker's table says of the flow what the one processor's table says
\* after n packets.
FlowsFollow ==
  \A n \in 0 .. Len(packets), key \in FlowKey :
    Shown(n, key) =>
      Of(flows[get_worker(key)], key) = Of(Sequential!TableAfter[n], key)

\* When a worker processes a packet, all older ones that go to it are decided.
LEMMA OlderAreDecided ==
  ASSUME InTurn, Placed, Routed, PoolFacts, NEW w \in Pool!Worker, at[w] = "process",
         NEW i \in DOMAIN route, route[i] = w, i < hand[w]
  PROVE  i \in DOMAIN decision
<1>1. i \in Nat /\ hand[w] \in Nat
  BY CaptureFacts DEF Routed, PoolFacts
<1>2. i \notin Pool!Elements(queues[w].items)
  BY <1>1 DEF Placed
<1>3. i \in Pool!Elements(results[w])
  BY <1>1, <1>2 DEF Placed
<1>. QED BY <1>3 DEF InTurn

LEMMA InTurnStep ==
  ASSUME InTurn, Routed, PoolFacts, [Next]_vars
  PROVE  InTurn'
<1>0. next \in Nat
  BY CaptureFacts DEF Routed
<1>1. CASE SubmitPacket
  <2>1. /\ keyed(packets[next]) /\ next' = next + 1
        /\ DOMAIN route' = DOMAIN route \cup {next}
        /\ UNCHANGED <<packets, results, at, hand, decision>>
    BY <1>1 DEF SubmitPacket, Pool!Submit, Pool!threads
  <2>2. \A i \in 1 .. next' - 1 : i \in DOMAIN route' <=> keyed(packets'[i])
    BY <1>0, <2>1 DEF InTurn
  <2>. QED BY <2>1, <2>2 DEF InTurn, Pool!Elements
<1>2. CASE SkipPacket
  <2>1. /\ ~keyed(packets[next]) /\ next' = next + 1
        /\ UNCHANGED <<packets, route, results, at, hand, decision>>
    BY <1>2 DEF SkipPacket, pool_vars
  <2>2. next \notin DOMAIN route
    BY <1>0 DEF Routed
  <2>3. \A i \in 1 .. next' - 1 : i \in DOMAIN route' <=> keyed(packets'[i])
    BY <1>0, <2>1, <2>2 DEF InTurn
  <2>. QED BY <2>1, <2>3 DEF InTurn, Pool!Elements
\* No other step of the main thread moves it on in the capture.
<1>3. ASSUME UNCHANGED <<packets, next, route>>,
             \A i \in DOMAIN decision : i \in DOMAIN decision',
             \A w \in Pool!Worker :
               /\ \/ results'[w] = results[w]
                  \/ results'[w] = Append(results[w], hand[w]) /\ at[w] = "append"
               /\ at'[w] = "append" => \/ at[w] = "append" /\ hand'[w] = hand[w]
                                       \/ hand'[w] \in DOMAIN decision'
      PROVE  InTurn'
  <2>1. ASSUME NEW w \in Pool!Worker
        PROVE  Pool!Elements(results'[w]) \subseteq DOMAIN decision'
    <3>1. CASE results'[w] = results[w]
      BY <1>3, <3>1 DEF InTurn, Pool!Elements
    <3>2. CASE results'[w] = Append(results[w], hand[w]) /\ at[w] = "append"
      <4>1. results[w] \in Seq(Pool!Item) /\ hand[w] \in Pool!Item
        BY <3>2 DEF PoolFacts
      <4>2. Pool!Elements(Append(results[w], hand[w])) = Pool!Elements(results[w]) \cup {hand[w]}
        BY <4>1, ElementsAppended
      <4>. QED BY <1>3, <3>2, <4>2 DEF InTurn
    <3>. QED BY <1>3, <3>1, <3>2
  <2>. QED BY <1>3, <2>1 DEF InTurn, Pool!Elements
<1>4. CASE \/ PoolCall /\ ~Pool!Start
           \/ ParseRaises \/ AllSubmitted \/ WriteOutput \/ BuildReport
           \/ Finished \/ UNCHANGED vars
  <2>1. UNCHANGED <<packets, next, route, results, at, hand, decision>>
    BY <1>4 DEF PoolCall, ParseRaises, AllSubmitted, WriteOutput, BuildReport,
                Finished, vars, pool_vars, run_vars, Pool!Raise, Pool!AllSubmitted,
                Pool!WaitForQueue, Pool!GetWorkerStats, Pool!GetResults,
                Pool!GetErrorStats, Pool!Stop, Pool!Join, Pool!threads
  <2>. QED BY <1>3, <2>1
<1>5. CASE Pool!Start /\ UNCHANGED run_vars
  <2>1. /\ UNCHANGED <<packets, next, route, results, hand, decision>>
        /\ at' = [at EXCEPT ![idx] = "loop"]
    BY <1>5 DEF Pool!Start, run_vars
  <2>2. \A w \in Pool!Worker : at'[w] = "append" => at[w] = "append"
    BY <2>1 DEF PoolFacts
  <2>. QED BY <1>3, <2>1, <2>2
<1>6. ASSUME NEW w \in Pool!Worker, WorkerCall(w) PROVE InTurn'
  <2>1. /\ UNCHANGED <<packets, next, route, decision>>
        /\ \E place : place # "append" /\ at' = [at EXCEPT ![w] = place]
        /\ hand' = hand \/ \E item : hand' = [hand EXCEPT ![w] = item]
        /\ \/ results' = results
           \/ at[w] = "append" /\ results' = [results EXCEPT ![w] = Append(results[w], hand[w])]
    BY <1>6 DEF WorkerCall, run_vars, Pool!client, Pool!Goto, Pool!CheckStop, Pool!Pop,
                Pool!PopTimeout, Pool!AppendResult, Pool!CountProcessed, Pool!TaskDone
  <2>2. \A v \in Pool!Worker : at'[v] = "append" => at[v] = "append" /\ hand'[v] = hand[v]
    BY <2>1 DEF PoolFacts
  <2>3. \A v \in Pool!Worker :
          \/ results'[v] = results[v]
          \/ results'[v] = Append(results[v], hand[v]) /\ at[v] = "append"
    BY <2>1 DEF PoolFacts
  <2>. QED BY <1>3, <2>1, <2>2, <2>3
<1>7. ASSUME NEW w \in Pool!Worker, Process(w) PROVE InTurn'
  <2>1. /\ UNCHANGED <<packets, next, route, results, hand>>
        /\ DOMAIN decision' = DOMAIN decision \cup {hand[w]}
        /\ at' = [at EXCEPT ![w] = "append"]
    BY <1>7 DEF Process, Pool!ProcessorReturns, Pool!Goto, Pool!client
  <2>2. \A v \in Pool!Worker : at'[v] = "append" => at[v] = "append" \/ v = w
    BY <2>1 DEF PoolFacts
  <2>. QED BY <1>3, <2>1, <2>2 DEF InTurn
<1>8. CASE PoolCall
  BY <1>4, <1>5, <1>8 DEF PoolCall
<1>. QED BY <1>1, <1>2, <1>4, <1>6, <1>7, <1>8 DEF Next, MainStep, WorkerStep

LEMMA InTurnInit == Init => InTurn
<1>. SUFFICES ASSUME Init PROVE InTurn
  OBVIOUS
<1>1. /\ next = 1 /\ \A w \in Pool!Worker : results[w] = <<>> /\ at[w] = "new"
  BY DEF Init, Pool!Init
<1>. QED BY <1>1 DEF InTurn, Pool!Elements

-----------------------------------------------------------------------------
(* The step that decides.                                                  *)

\* What is true when worker w is about to process a packet: it is the next one
\* of the flow for the one processor too.
LEMMA NextOfItsFlow ==
  ASSUME Routed, PoolFacts, Placed, InTurn, Decided, FlowsFollow,
         NEW w \in Pool!Worker, at[w] = "process",
         NEW m, m = hand[w], NEW key, key = FlowKeyOf(packets[m])
  PROVE  /\ m \in 1 .. next - 1 /\ m \in 1 .. Len(packets) /\ keyed(packets[m])
         /\ m \in DOMAIN route /\ m \notin DOMAIN decision
         /\ key \in FlowKey /\ get_worker(key) = w
         /\ Shown(m - 1, key)
         /\ Of(flows[w], key) = Of(Sequential!TableAfter[m - 1], key)
<1>1. /\ m \in DOMAIN route /\ route[m] = w /\ m \in 1 .. next - 1
      /\ key \in FlowKey /\ get_worker(key) = w
  BY DEF PoolFacts, Routed
<1>2. Len(packets) \in Nat /\ next \in 1 .. Len(packets) + 1
  BY CaptureFacts DEF Routed
<1>3. m \in 1 .. Len(packets) /\ keyed(packets[m])
  BY <1>1, <1>2 DEF InTurn
\* What w has decided is older than what it has in hand.
<1>4. ASSUME NEW i \in DOMAIN decision, route[i] = w PROVE i < m
  BY <1>4 DEF Decided, Past, PoolFacts
<1>5. m \notin DOMAIN decision
  BY <1>1, <1>4
<1>6. Shown(m - 1, key)
  <2>. SUFFICES ASSUME NEW i \in 1 .. Len(packets), keyed(packets[i]),
                       FlowKeyOf(packets[i]) = key
                PROVE  i <= m - 1 <=> i \in DOMAIN decision
    BY DEF Shown
  <2>1. ASSUME i \in DOMAIN decision PROVE i <= m - 1
    <3>1. i \in DOMAIN route
      BY <2>1 DEF Decided
    <3>2. route[i] = w
      BY <1>1, <3>1 DEF Routed
    <3>. QED BY <1>3, <1>4, <2>1, <3>2
  <2>2. ASSUME i <= m - 1 PROVE i \in DOMAIN decision
    <3>1. i \in 1 .. next - 1 /\ i < m
      BY <1>1, <1>2, <2>2
    <3>2. i \in DOMAIN route
      BY <3>1 DEF InTurn
    <3>3. route[i] = w
      BY <1>1, <3>2 DEF Routed
    <3>. QED BY <3>1, <3>2, <3>3, OlderAreDecided
  <2>. QED BY <2>1, <2>2
<1>7. m - 1 \in 0 .. Len(packets)
  BY <1>2, <1>3
<1>8. Of(flows[w], key) = Of(Sequential!TableAfter[m - 1], key)
  BY <1>1, <1>6, <1>7 DEF FlowsFollow
<1>. QED BY <1>1, <1>3, <1>5, <1>6, <1>8

LEMMA FlowsFollowProcess ==
  ASSUME Routed, OwnFlows, PoolFacts, Placed, InTurn, Decided, FlowsFollow,
         NEW w \in Pool!Worker, Process(w)
  PROVE  /\ FlowsFollow'
         /\ decision' = [i \in DOMAIN decision \cup {hand[w]} |->
                           IF i = hand[w]
                           THEN decide(Sequential!TableAfter[i], packets[i])
                           ELSE decision[i]]
<1>. DEFINE T == Sequential!TableAfter
<1>0. PICK m, key : m = hand[w] /\ key = FlowKeyOf(packets[m])
  OBVIOUS
<1>1. /\ at[w] = "process" /\ packets' = packets
      /\ flows' = [flows EXCEPT ![w] = process(rules, flows[w], packets[m])]
      /\ decision' = [i \in DOMAIN decision \cup {m} |->
                        IF i = m THEN decide(flows'[w], packets[m]) ELSE decision[i]]
  BY <1>0 DEF Process, Pool!ProcessorReturns, Pool!Goto
<1>2. /\ m \in 1 .. Len(packets) /\ keyed(packets[m]) /\ m \notin DOMAIN decision
      /\ key \in FlowKey /\ get_worker(key) = w
      /\ Of(flows[w], key) = Of(T[m - 1], key)
  BY <1>0, <1>1, NextOfItsFlow
<1>3. Len(packets) \in Nat
  BY CaptureFacts DEF Routed
<1>4. T[m] = process(rules, T[m - 1], packets[m])
  BY <1>2, <1>3, TableAfterUnfolds DEF Advanced
<1>5. /\ Of(flows'[w], key) = Of(T[m], key)
      /\ decide(flows'[w], packets[m]) = decide(T[m], packets[m])
      /\ \A k : k # key => Of(flows'[w], k) = Of(flows[w], k)
      /\ \A v \in Pool!Worker : v # w => flows'[v] = flows[v]
  <2>1. /\ flows'[w] = process(rules, flows[w], packets[m])
        /\ \A v \in Pool!Worker : v # w => flows'[v] = flows[v]
    BY <1>1 DEF OwnFlows
  <2>. QED BY <1>0, <1>2, <1>4, <2>1, ProcessIsLocal
<1>6. T' = T
  BY <1>1 DEF Sequential!TableAfter
<1>. HIDE DEF T
<1>7. ASSUME NEW n \in 0 .. Len(packets), NEW k \in FlowKey, Shown(n, k)'
      PROVE  Of(flows'[get_worker(k)], k) = Of(T[n], k)
  <2>0. get_worker(k) \in Pool!Worker
    BY WorkerExists DEF Pool!Worker
  <2>1. \A i \in 1 .. Len(packets) :
          keyed(packets[i]) /\ FlowKeyOf(packets[i]) = k
            => (i <= n <=> i \in DOMAIN decision \/ i = m)
    BY <1>1, <1>7 DEF Shown, FlowKeyOf, keyed
  <2>2. CASE k # key
    <3>1. Shown(n, k)
      BY <1>0, <2>1, <2>2 DEF Shown
    <3>2. Of(flows[get_worker(k)], k) = Of(T[n], k)
      BY <3>1 DEF FlowsFollow, T
    <3>3. Of(flows'[get_worker(k)], k) = Of(flows[get_worker(k)], k)
      BY <1>5, <2>0, <2>2
    <3>. QED BY <3>2, <3>3
  <2>3. CASE k = key
    <3>1. m <= n
      BY <1>0, <1>2, <2>1, <2>3
    \* After m, no packet of the flow until n: it would be decided, and older.
    <3>2. ASSUME NEW i \in m + 1 .. n, keyed(packets[i]) PROVE FlowKeyOf(packets[i]) # key
      <4>. SUFFICES ASSUME FlowKeyOf(packets[i]) = key PROVE FALSE
        OBVIOUS
      <4>1. i \in 1 .. Len(packets) /\ i <= n /\ i # m /\ ~(i <= m - 1)
        BY <1>2, <1>3
      <4>2. i \in DOMAIN decision
        BY <2>1, <2>3, <3>2, <4>1
      <4>3. Shown(m - 1, key)
        BY <1>0, <1>1, NextOfItsFlow
      <4>. QED BY <3>2, <4>1, <4>2, <4>3 DEF Shown
    <3>3. m \in 0 .. Len(packets) /\ n \in m .. Len(packets)
      BY <1>2, <1>3, <3>1
    <3>4. Of(T[n], key) = Of(T[m], key)
      BY <3>2, <3>3, FlowRests DEF Routed, T
    <3>. QED BY <1>2, <1>5, <2>3, <3>4
  <2>. QED BY <2>2, <2>3
<1>8. FlowsFollow'
  BY <1>1, <1>6, <1>7 DEF FlowsFollow, T
<1>. QED BY <1>0, <1>1, <1>5, <1>8 DEF T

LEMMA FlowsFollowInit == Init => FlowsFollow
<1>. SUFFICES ASSUME Init, NEW n \in 0 .. Len(packets), NEW key \in FlowKey, Shown(n, key)
              PROVE  Of(flows[get_worker(key)], key) = Of(Sequential!TableAfter[n], key)
  BY DEF FlowsFollow
<1>1. packets \in Captures /\ Len(packets) \in Nat
  BY CaptureFacts DEF Init
<1>2. DOMAIN decision = {} /\ flows[get_worker(key)] = <<>>
  BY WorkerExists DEF Init, Pool!Worker
<1>3. \A i \in 0 + 1 .. n : keyed(packets[i]) => FlowKeyOf(packets[i]) # key
  BY <1>1, <1>2 DEF Shown
<1>4. Of(Sequential!TableAfter[n], key) = Of(Sequential!TableAfter[0], key)
  <2>1. 0 \in 0 .. Len(packets)
    BY <1>1
  <2>. QED BY <1>1, <1>3, <2>1, FlowRests
<1>5. Sequential!TableAfter[0] = <<>>
  BY <1>1, TableAfterUnfolds
<1>. QED BY <1>2, <1>4, <1>5

LEMMA FlowsFollowStep ==
  ASSUME Routed, OwnFlows, PoolFacts, Placed, InTurn, Decided, FlowsFollow, [Next]_vars
  PROVE  FlowsFollow'
<1>1. CASE UNCHANGED <<packets, flows, decision>>
  <2>1. (Sequential!TableAfter)' = Sequential!TableAfter
    BY <1>1 DEF Sequential!TableAfter
  <2>. QED BY <1>1, <2>1 DEF FlowsFollow, Shown, FlowKeyOf, keyed
<1>2. CASE \/ MainStep \/ Finished \/ UNCHANGED vars
           \/ \E w \in Pool!Worker : WorkerCall(w)
  BY <1>1, <1>2 DEF MainStep, SubmitPacket, PoolCall, SkipPacket, ParseRaises, AllSubmitted,
                    WriteOutput, BuildReport, Finished, WorkerCall, vars, run_vars
<1>. QED BY <1>2, FlowsFollowProcess DEF Next, WorkerStep

\* All that the refinement rests on.
InOrder == InTurn /\ FlowsFollow

LEMMA InOrderInvariant == Spec => []InOrder
<1>1. Init => InOrder
  BY InTurnInit, FlowsFollowInit DEF InOrder
<1>2. InOrder /\ Routed /\ OwnFlows /\ PoolFacts /\ Placed /\ Decided /\ [Next]_vars => InOrder'
  BY InTurnStep, FlowsFollowStep DEF InOrder
<1>. QED BY <1>1, <1>2, OwnFlowsHold, PoolFactsHold, PlacedHolds, DecidedInvariant, PTL DEF Spec

-----------------------------------------------------------------------------
(* The refinement.                                                         *)

LEMMA SameEndpointsSameWorker ==
  ASSUME NEW p, NEW q, FlowKeyOf(p) \in FlowKey, FlowKeyOf(q) \in FlowKey,
         Sequential!SameEndpoints(p, q)
  PROVE  get_worker(FlowKeyOf(q)) = get_worker(FlowKeyOf(p))
<1>1. SameConversation(FlowKeyOf(p), FlowKeyOf(q))
  BY DEF Sequential!SameEndpoints, SameConversation, Reply, FlowKeyOf
<1>. QED BY <1>1, BothDirectionsOneWorker

LEMMA SequentialInit == Init => Sequential!Init
<1>. SUFFICES ASSUME Init PROVE Sequential!Init
  OBVIOUS
<1>1. packets \in Captures /\ next = 1 /\ DOMAIN decision = {}
  BY DEF Init
<1>2. \A i \in DOMAIN packets : ~(i < next)
  BY <1>1, CaptureFacts
<1>3. Verdict = [i \in DOMAIN packets |-> "pending"]
  BY <1>1, <1>2 DEF Verdict
<1>. QED BY <1>1, <1>3 DEF Sequential!Init

LEMMA ProcessDecides ==
  ASSUME Routed, OwnFlows, PoolFacts, Placed, Decided, InOrder,
         NEW w \in Pool!Worker, Process(w)
  PROVE  Sequential!Decide(hand[w])
<1>. DEFINE T == Sequential!TableAfter
<1>0. PICK m, key : m = hand[w] /\ key = FlowKeyOf(packets[m])
  OBVIOUS
<1>1. at[w] = "process" /\ UNCHANGED <<packets, next, route>>
  BY DEF Process, Pool!ProcessorReturns, Pool!Goto, Pool!client
<1>2. /\ m \in 1 .. next - 1 /\ m \in 1 .. Len(packets) /\ keyed(packets[m])
      /\ m \in DOMAIN route /\ m \notin DOMAIN decision
      /\ key \in FlowKey /\ get_worker(key) = w
  BY <1>0, <1>1, NextOfItsFlow DEF InOrder
<1>3. /\ Len(packets) \in Nat /\ next \in 1 .. Len(packets) + 1
      /\ DOMAIN packets = 1 .. Len(packets)
  BY CaptureFacts DEF Routed
<1>4. Verdict[m] = "pending"
  BY <1>2, <1>3 DEF Verdict
<1>5. ASSUME NEW j \in 1 .. m - 1, Sequential!SameEndpoints(packets[m], packets[j])
      PROVE  Verdict[j] # "pending"
  <2>1. j \in 1 .. next - 1 /\ j < m /\ j \in DOMAIN packets /\ j \in 1 .. Len(packets)
    BY <1>2, <1>3
  <2>2. CASE j \in DOMAIN decision
    BY <2>1, <2>2 DEF Verdict, Decided
  <2>3. CASE j \notin DOMAIN route
    BY <2>1, <2>3, <1>3 DEF Verdict, Decided
  <2>4. CASE j \in DOMAIN route
    <3>1. FlowKeyOf(packets[j]) \in FlowKey /\ route[j] = get_worker(FlowKeyOf(packets[j]))
      BY <2>4 DEF Routed
    <3>2. route[j] = w
      BY <1>0, <1>2, <1>5, <3>1, SameEndpointsSameWorker
    <3>3. j \in DOMAIN decision
      BY <1>0, <1>1, <2>1, <2>4, <3>2, OlderAreDecided DEF InOrder
    <3>. QED BY <2>2, <3>3
  <2>. QED BY <2>3, <2>4
<1>6. decision' = [i \in DOMAIN decision \cup {m} |->
                     IF i = m THEN decide(T[m], packets[m]) ELSE decision[i]]
  BY <1>0, FlowsFollowProcess DEF InOrder
<1>7. Sequential!decide(T[m], packets[m]) = decide(T[m], packets[m])
      /\ Sequential!keyed(packets[m])
  BY <1>2, SameProcessor
<1>. HIDE DEF T
<1>8. Verdict' = [Verdict EXCEPT ![m] = decide(T[m], packets[m])]
  <2>1. DOMAIN Verdict = DOMAIN packets
    BY DEF Verdict
  <2>2. Verdict' = [i \in DOMAIN packets |->
                      IF i = m THEN decide(T[m], packets[m])
                      ELSE IF i \in DOMAIN decision THEN decision[i]
                      ELSE IF i < next /\ i \notin DOMAIN route THEN "SKIPPED"
                      ELSE "pending"]
    BY <1>1, <1>6 DEF Verdict
  <2>3. \A i \in DOMAIN packets : i # m =>
          Verdict[i] = IF i \in DOMAIN decision THEN decision[i]
                       ELSE IF i < next /\ i \notin DOMAIN route THEN "SKIPPED"
                       ELSE "pending"
    BY DEF Verdict
  <2>. HIDE DEF Verdict
  <2>. QED BY <2>1, <2>2, <2>3
<1>9. /\ Verdict[m] = "pending" /\ Sequential!keyed(packets[m])
      /\ \A j \in 1 .. m - 1 :
           Sequential!SameEndpoints(packets[m], packets[j]) => Verdict[j] # "pending"
      /\ Verdict' = [Verdict EXCEPT ![m] = Sequential!decide(Sequential!TableAfter[m], packets[m])]
      /\ UNCHANGED packets
  BY <1>1, <1>4, <1>5, <1>7, <1>8 DEF T
<1>10. Sequential!Decide(m)
  BY <1>9 DEF Sequential!Decide
<1>. QED BY <1>0, <1>10

\* Threads change no decision (pipeline.py, worker.py, flow_balancer.py): under
\* every interleaving, for every number of workers, every capture and all rules,
\* each packet is decided as the one processor decides it that sees the whole
\* capture in order.
THEOREM DecidesAsOne == Spec => DecidesLikeOneProcessor
<1>1. Routed /\ Routed' /\ OwnFlows /\ PoolFacts /\ Placed /\ Decided /\ InOrder /\ [Next]_vars
        => [Sequential!Next]_<<packets, Verdict>>
  <2>. SUFFICES ASSUME Routed, Routed', OwnFlows, PoolFacts, Placed, Decided, InOrder, [Next]_vars
                PROVE  [Sequential!Next]_<<packets, Verdict>>
    OBVIOUS
  <2>0. /\ Len(packets) \in Nat /\ next \in 1 .. Len(packets) + 1 /\ next \in Nat
        /\ DOMAIN packets = 1 .. Len(packets)
        /\ \A i \in DOMAIN route : i < next
        /\ next \notin DOMAIN decision
    <3>1. /\ Len(packets) \in Nat /\ next \in 1 .. Len(packets) + 1 /\ next \in Nat
          /\ DOMAIN packets = 1 .. Len(packets)
      BY CaptureFacts DEF Routed
    <3>2. \A i \in DOMAIN route : i < next
      BY <3>1 DEF Routed
    <3>. QED BY <3>1, <3>2 DEF Decided
  <2>1. ASSUME NEW w \in Pool!Worker, Process(w) PROVE Sequential!Next
    <3>1. Sequential!Decide(hand[w])
      BY <2>1, ProcessDecides
    <3>2. at[w] = "process"
      BY <2>1 DEF Process, Pool!ProcessorReturns, Pool!Goto
    <3>3. hand[w] \in DOMAIN packets
      BY <2>0, <3>2, NextOfItsFlow DEF InOrder
    <3>. QED BY <3>1, <3>3 DEF Sequential!Next
  <2>2. CASE SkipPacket
    <3>1. /\ next \in DOMAIN packets /\ ~Sequential!keyed(packets[next])
          /\ next' = next + 1 /\ UNCHANGED <<packets, route, decision>>
      BY <2>0, <2>2, SameProcessor DEF SkipPacket, MoreToRead, pool_vars
    <3>2. next \notin DOMAIN decision /\ next \notin DOMAIN route
      BY <2>0
    <3>3. Verdict[next] = "pending"
      BY <2>0, <3>1, <3>2 DEF Verdict
    <3>4. Verdict' = [Verdict EXCEPT ![next] = "SKIPPED"]
      <4>1. \A i \in DOMAIN packets : i < next + 1 <=> (i < next \/ i = next)
        BY <2>0
      <4>2. Verdict' = [i \in DOMAIN packets |->
                          IF i \in DOMAIN decision THEN decision[i]
                          ELSE IF i < next + 1 /\ i \notin DOMAIN route THEN "SKIPPED"
                          ELSE "pending"]
        BY <3>1 DEF Verdict
      <4>. QED BY <3>2, <4>1, <4>2 DEF Verdict
    <3>5. Sequential!Skip(next)
      BY <3>1, <3>3, <3>4 DEF Sequential!Skip
    <3>. QED BY <3>1, <3>5 DEF Sequential!Next
  <2>3. CASE SubmitPacket
    <3>1. /\ next' = next + 1 /\ DOMAIN route' = DOMAIN route \cup {next}
          /\ UNCHANGED <<packets, decision>>
      BY <2>3 DEF SubmitPacket, Pool!Submit
    <3>2. \A i \in DOMAIN packets :
            i < next /\ i \notin DOMAIN route <=> i < next' /\ i \notin DOMAIN route'
      BY <2>0, <3>1
    <3>3. Verdict' = Verdict
      BY <3>1, <3>2 DEF Verdict
    <3>. QED BY <3>1, <3>3
  <2>4. ASSUME UNCHANGED <<packets, next, route, decision>>
        PROVE  UNCHANGED <<packets, Verdict>>
    BY <2>4 DEF Verdict
  <2>5. CASE \/ PoolCall \/ ParseRaises \/ AllSubmitted \/ WriteOutput \/ BuildReport
             \/ Finished \/ UNCHANGED vars \/ \E w \in Pool!Worker : WorkerCall(w)
    <3>1. UNCHANGED <<packets, next, route, decision>>
      BY <2>5 DEF PoolCall, ParseRaises, AllSubmitted, WriteOutput, BuildReport, Finished,
                  WorkerCall, vars, pool_vars, run_vars, Pool!Start, Pool!Raise,
                  Pool!AllSubmitted, Pool!WaitForQueue, Pool!GetWorkerStats,
                  Pool!GetResults, Pool!GetErrorStats, Pool!Stop, Pool!Join,
                  Pool!CheckStop, Pool!Pop, Pool!PopTimeout, Pool!AppendResult,
                  Pool!CountProcessed, Pool!TaskDone, Pool!client
    <3>. QED BY <2>4, <3>1
  <2>. QED BY <2>1, <2>2, <2>3, <2>5 DEF Next, MainStep, WorkerStep
<1>2. Init => Sequential!Init
  BY SequentialInit
<1>3. Sequential!Spec <=> Sequential!Init /\ [][Sequential!Next]_<<packets, Verdict>>
  BY DEF Sequential!Spec
<1>. QED BY <1>1, <1>2, <1>3, RoutedInit, RoutedStep, OwnFlowsHold, PoolFactsHold, PlacedHolds,
            DecidedInvariant, InOrderInvariant, PTL DEF Spec, DecidesLikeOneProcessor

-----------------------------------------------------------------------------
(* The end of a run.                                                       *)

\* All that was routed to a worker.
RoutedTo(w) == {i \in DOMAIN route : route[i] = w}

\* Once wait_until_empty() has returned: the results of a worker are the packets
\* that were routed to it, in the order of the capture; the counters agree.
AtEnd ==
  /\ processed \in [Pool!Worker -> Nat]
  /\ main \in Pool!Drained =>
       \A w \in Pool!Worker :
         /\ at[w] # "process"
         /\ Pool!Increasing(results[w])
         /\ Pool!Elements(results[w]) = RoutedTo(w)
         /\ processed[w] = Len(results[w])
  /\ main = "done" => got_results = results /\ got_stats = processed

LEMMA AtEndHolds == Spec => []AtEnd
<1>1. PoolProofs!PoolAssumption
  BY BalancerAssumption, CaptureAssumption DEF PoolProofs!PoolAssumption
<1>2. PoolProofs!Spec => [](PoolProofs!Core /\ PoolProofs!Places /\ PoolProofs!ReadsAreFinal)
  BY <1>1, PoolProofs!PlacesInvariant, PoolProofs!ReadsFinal, PTL
<1>3. PoolProofs!Core /\ PoolProofs!Places /\ PoolProofs!ReadsAreFinal /\ NoFailures => AtEnd
  <2>. SUFFICES ASSUME PoolProofs!Core, PoolProofs!Places, PoolProofs!ReadsAreFinal, NoFailures
                PROVE  AtEnd
    OBVIOUS
  <2>1. Pool!Worker = PoolProofs!Worker /\ Pool!Drained = PoolProofs!Drained
    BY DEF Pool!Worker, PoolProofs!Worker, Pool!Drained, PoolProofs!Drained
  <2>5. \A s : Pool!Elements(s) = PoolProofs!Elements(s)
    BY DEF Pool!Elements, PoolProofs!Elements
  <2>6. \A s : Pool!Increasing(s) <=> PoolProofs!Increasing(s)
    BY DEF Pool!Increasing, PoolProofs!Increasing
  <2>2. processed \in [Pool!Worker -> Nat]
    BY <2>1 DEF PoolProofs!Core, PoolProofs!TypeOK
  <2>3. ASSUME main \in Pool!Drained, NEW w \in Pool!Worker
        PROVE  /\ at[w] # "process"
               /\ Pool!Increasing(results[w])
               /\ Pool!Elements(results[w]) = RoutedTo(w)
               /\ processed[w] = Len(results[w])
    <3>1. at[w] \notin PoolProofs!Busy
      BY <1>1, <2>1, <2>3, PoolProofs!DrainedIsIdle
    <3>2. Pool!Increasing(results[w])
      BY <2>1, <2>6 DEF PoolProofs!Places, PoolProofs!ListsInOrder
    <3>3. PoolProofs!Elements(failures[w]) = {}
      BY DEF NoFailures, PoolProofs!Elements
    <3>4. ASSUME NEW i \in DOMAIN route, route[i] = w PROVE i \in Pool!Elements(results[w])
      <4>1. i \in PoolProofs!Elements(results[w]) \cup PoolProofs!Elements(failures[w])
        BY <2>1, <2>3, <3>4 DEF PoolProofs!ReadsAreFinal, PoolProofs!Recorded
      <4>. QED BY <2>5, <3>3, <4>1
    <3>5. ASSUME NEW i \in Pool!Elements(results[w]) PROVE i \in DOMAIN route /\ route[i] = w
      <4>1. i \in PoolProofs!Outcomes(w)
        BY <2>5 DEF PoolProofs!Outcomes
      <4>. QED BY <2>1, <4>1 DEF PoolProofs!Places, PoolProofs!OnRoute
    <3>6. processed[w] = Len(results[w])
      BY <2>1, <2>3 DEF PoolProofs!ReadsAreFinal
    <3>. QED BY <3>1, <3>2, <3>4, <3>5, <3>6 DEF PoolProofs!Busy, RoutedTo
  <2>4. main = "done" => got_results = results /\ got_stats = processed
    BY DEF PoolProofs!ReadsAreFinal, PoolProofs!Drained
  <2>. QED BY <2>2, <2>3, <2>4 DEF AtEnd
<1>4. Spec => []NoFailures
  BY PlacedHolds, PTL
<1>. QED BY <1>2, <1>3, <1>4, SamePool, ImplementsPool, PTL

\* The main thread stops submitting at the end of the capture only, and counts
\* every packet it does not submit.
ReadOn ==
  /\ main \notin {"start", "submit", "raised"} => next = Len(packets) + 1
  /\ skipped_packets = Cardinality({i \in 1 .. next - 1 : ~keyed(packets[i])})

LEMMA ReadOnStep ==
  ASSUME ReadOn, Routed, [Next]_vars
  PROVE  ReadOn'
<1>. DEFINE Skipped(n) == {i \in 1 .. n - 1 : ~keyed(packets[i])}
<1>0. next \in Nat /\ next \in 1 .. Len(packets) + 1 /\ Len(packets) \in Nat
  BY CaptureFacts DEF Routed
<1>1. CASE SkipPacket
  <2>1. /\ main = "submit" /\ ~keyed(packets[next]) /\ next' = next + 1
        /\ skipped_packets' = skipped_packets + 1
        /\ UNCHANGED <<main, packets>>
    BY <1>1 DEF SkipPacket, MoreToRead, pool_vars
  <2>2. Skipped(next + 1) = Skipped(next) \cup {next}
    BY <1>0, <2>1
  <2>3. Cardinality(Skipped(next) \cup {next}) = Cardinality(Skipped(next)) + 1
    <3>1. Skipped(next) \subseteq 1 .. next - 1
      OBVIOUS
    <3>. HIDE DEF Skipped
    <3>. QED BY <1>0, <3>1, OneMorePosition
  <2>4. skipped_packets' = Cardinality({i \in 1 .. next' - 1 : ~keyed(packets'[i])})
    BY <2>1, <2>2, <2>3 DEF ReadOn, keyed
  <2>. QED BY <2>1, <2>4 DEF ReadOn
<1>2. CASE SubmitPacket
  <2>1. /\ main = "submit" /\ keyed(packets[next]) /\ next' = next + 1
        /\ UNCHANGED <<main, packets, skipped_packets>>
    BY <1>2 DEF SubmitPacket, MoreToRead, Pool!Submit
  <2>2. Skipped(next + 1) = Skipped(next)
    BY <1>0, <2>1
  <2>3. skipped_packets' = Cardinality({i \in 1 .. next' - 1 : ~keyed(packets'[i])})
    BY <2>1, <2>2 DEF ReadOn, keyed
  <2>. QED BY <2>1, <2>3 DEF ReadOn
<1>3. CASE AllSubmitted
  <2>1. next > Len(packets) /\ UNCHANGED <<next, packets, skipped_packets>>
    BY <1>3 DEF AllSubmitted, run_vars
  <2>. QED BY <1>0, <2>1 DEF ReadOn, keyed
<1>4. ASSUME UNCHANGED <<next, packets, skipped_packets>>,
             main' \in {"start", "submit", "raised"} \/ main \notin {"start", "submit", "raised"}
      PROVE  ReadOn'
  BY <1>4 DEF ReadOn, keyed
<1>5. CASE PoolCall \/ ParseRaises \/ WriteOutput \/ BuildReport
           \/ (\E w \in Pool!Worker : WorkerStep(w)) \/ Finished \/ UNCHANGED vars
  <2>1. UNCHANGED <<next, packets, skipped_packets>>
    BY <1>5 DEF PoolCall, ParseRaises, WriteOutput, BuildReport, WorkerStep, Process,
                WorkerCall, Finished, vars, run_vars
  <2>2. main' \in {"start", "submit", "raised"} \/ main \notin {"start", "submit", "raised"}
    BY <1>5 DEF PoolCall, ParseRaises, WriteOutput, BuildReport, WorkerStep, Process,
                WorkerCall, Finished, vars, pool_vars, Pool!Start, Pool!Raise,
                Pool!WaitForQueue, Pool!GetWorkerStats, Pool!GetResults,
                Pool!GetErrorStats, Pool!Stop, Pool!Join, Pool!NextWorker,
                Pool!ProcessorReturns, Pool!CheckStop, Pool!Pop, Pool!PopTimeout,
                Pool!AppendResult, Pool!CountProcessed, Pool!TaskDone, Pool!client
  <2>. QED BY <1>4, <2>1, <2>2
<1>. QED BY <1>1, <1>2, <1>3, <1>5 DEF Next, MainStep

LEMMA ReadOnInit == Init => ReadOn
<1>. SUFFICES ASSUME Init PROVE ReadOn
  OBVIOUS
<1>1. main = "start" /\ next = 1 /\ skipped_packets = 0
  BY DEF Init, Pool!Init
<1>2. {i \in 1 .. next - 1 : ~keyed(packets[i])} = {}
  BY <1>1
<1>. QED BY <1>1, <1>2, FS_EmptySet DEF ReadOn

\* The flows in the tables are those of the packets that are decided.
FlowsSeen ==
  /\ \A i \in DOMAIN decision : FlowKeyOf(packets[i]) \in DOMAIN flows[route[i]]
  /\ \A w \in Pool!Worker : \A five_tuple \in DOMAIN flows[w] :
       \E i \in DOMAIN decision : FlowKeyOf(packets[i]) = five_tuple

LEMMA FlowsSeenStep ==
  ASSUME FlowsSeen, Routed, OwnFlows, PoolFacts, Decided, [Next]_vars
  PROVE  FlowsSeen'
<1>1. ASSUME UNCHANGED <<packets, flows, decision>>,
             \A i \in DOMAIN decision : route'[i] = route[i]
      PROVE  FlowsSeen'
  BY <1>1 DEF FlowsSeen, FlowKeyOf
<1>2. ASSUME NEW w \in Pool!Worker, Process(w) PROVE FlowsSeen'
  <2>0. PICK j, packet : j = hand[w] /\ packet = packets[j]
    OBVIOUS
  <2>1. /\ at[w] = "process"
        /\ flows' = [flows EXCEPT ![w] = process(rules, flows[w], packet)]
        /\ DOMAIN decision' = DOMAIN decision \cup {j}
        /\ UNCHANGED <<packets, route>>
    BY <1>2, <2>0 DEF Process, Pool!ProcessorReturns, Pool!Goto, Pool!client
  <2>2. j \in DOMAIN route /\ route[j] = w /\ FlowKeyOf(packet) \in FlowKey
    BY <2>0, <2>1 DEF Routed, PoolFacts
  <2>3. DOMAIN process(rules, flows[w], packet) = DOMAIN flows[w] \cup {FlowKeyOf(packet)}
    BY <2>2, ProcessDomain
  <2>4. /\ DOMAIN (flows'[w]) = DOMAIN flows[w] \cup {FlowKeyOf(packet)}
        /\ \A v \in Pool!Worker : v # w => flows'[v] = flows[v]
    BY <2>1, <2>3 DEF OwnFlows
  <2>5. \A i : FlowKeyOf(packets'[i]) = FlowKeyOf(packets[i])
    BY <2>1 DEF FlowKeyOf
  <2>6. ASSUME NEW i \in DOMAIN decision'
        PROVE  FlowKeyOf(packets[i]) \in DOMAIN flows'[route[i]]
    <3>1. CASE i = j
      BY <2>0, <2>2, <2>4, <3>1
    <3>2. CASE i \in DOMAIN decision
      <4>1. route[i] \in Pool!Worker
        BY <3>2, WorkerExists DEF Decided, Routed, Pool!Worker
      <4>2. FlowKeyOf(packets[i]) \in DOMAIN flows[route[i]]
        BY <3>2 DEF FlowsSeen
      <4>. QED BY <2>4, <4>1, <4>2
    <3>. QED BY <2>1, <3>1, <3>2
  <2>7. ASSUME NEW v \in Pool!Worker, NEW five_tuple \in DOMAIN flows'[v]
        PROVE  \E i \in DOMAIN decision' : FlowKeyOf(packets[i]) = five_tuple
    <3>1. CASE five_tuple \in DOMAIN flows[v]
      BY <2>1, <3>1 DEF FlowsSeen
    <3>2. CASE five_tuple = FlowKeyOf(packet)
      BY <2>0, <2>1, <3>2
    <3>. QED BY <2>4, <3>1, <3>2
  <2>. QED BY <2>1, <2>5, <2>6, <2>7 DEF FlowsSeen
<1>3. CASE SubmitPacket
  <2>1. /\ UNCHANGED <<packets, flows, decision>>
        /\ \A k \in DOMAIN route : k < next
        /\ route' = [k \in DOMAIN route \cup {next} |->
                       IF k = next THEN get_worker(FlowKeyOf(packets[next])) ELSE route[k]]
    BY <1>3 DEF SubmitPacket, Pool!Submit
  <2>2. next \in Nat
    BY CaptureFacts DEF Routed
  <2>3. \A i \in DOMAIN decision : i \in DOMAIN route /\ i # next
    BY <2>1, <2>2 DEF Decided
  <2>. QED BY <1>1, <2>1, <2>3
<1>4. CASE \/ PoolCall \/ SkipPacket \/ ParseRaises \/ AllSubmitted \/ WriteOutput
           \/ BuildReport \/ Finished \/ UNCHANGED vars \/ \E w \in Pool!Worker : WorkerCall(w)
  <2>1. UNCHANGED <<packets, flows, decision, route>>
    BY <1>4 DEF PoolCall, SkipPacket, ParseRaises, AllSubmitted, WriteOutput, BuildReport,
                Finished, WorkerCall, vars, pool_vars, run_vars, Pool!Start, Pool!Raise,
                Pool!AllSubmitted, Pool!WaitForQueue, Pool!GetWorkerStats,
                Pool!GetResults, Pool!GetErrorStats, Pool!Stop, Pool!Join,
                Pool!CheckStop, Pool!Pop, Pool!PopTimeout, Pool!AppendResult,
                Pool!CountProcessed, Pool!TaskDone, Pool!client
  <2>. QED BY <1>1, <2>1
<1>. QED BY <1>2, <1>3, <1>4 DEF Next, MainStep, WorkerStep

LEMMA FlowsSeenInit == Init => FlowsSeen
<1>. SUFFICES ASSUME Init PROVE FlowsSeen
  OBVIOUS
<1>1. DOMAIN decision = {} /\ \A w \in Pool!Worker : DOMAIN flows[w] = {}
  BY DEF Init
<1>. QED BY <1>1 DEF FlowsSeen

\* The file and the report are what they were when they were written: of what
\* they were made from, nothing changes any more.
Final ==
  /\ output # None => main = "done" /\ output = forwarded_packets
  /\ report # None => output # None /\ report = build_report

LEMMA FinalStep ==
  ASSUME Final, AtEnd, [Next]_vars
  PROVE  Final'
<1>1. ASSUME main = "done"
      PROVE  UNCHANGED <<main, packets, skipped_packets, flows, decision, route,
                         got_stats, got_results, got_errors>>
  <2>1. "done" \in Pool!Drained
    BY DEF Pool!Drained
  <2>2. \A w \in Pool!Worker : ~Process(w)
    BY <1>1, <2>1 DEF AtEnd, Process, Pool!ProcessorReturns, Pool!Goto
  <2>3. CASE MainStep \/ Finished \/ UNCHANGED vars
    BY <1>1, <2>3 DEF MainStep, PoolCall, SubmitPacket, SkipPacket, ParseRaises,
                AllSubmitted, WriteOutput, BuildReport, MoreToRead, Finished, vars,
                pool_vars, run_vars, Pool!Start, Pool!Raise, Pool!AllSubmitted,
                Pool!WaitForQueue, Pool!GetWorkerStats, Pool!GetResults,
                Pool!GetErrorStats, Pool!Stop, Pool!Join
  <2>4. ASSUME NEW w \in Pool!Worker, WorkerCall(w)
        PROVE  UNCHANGED <<main, packets, skipped_packets, flows, decision, route,
                           got_stats, got_results, got_errors>>
    BY <2>4 DEF WorkerCall, run_vars, Pool!CheckStop, Pool!Pop, Pool!PopTimeout,
                Pool!AppendResult, Pool!CountProcessed, Pool!TaskDone, Pool!client, Pool!got
  <2>. QED BY <2>2, <2>3, <2>4 DEF Next, WorkerStep
<1>2. ASSUME main = "done"
      PROVE  forwarded_packets' = forwarded_packets /\ build_report' = build_report
  <2>1. UNCHANGED <<packets, skipped_packets, flows, decision, route,
                    got_stats, got_results, got_errors>>
    BY <1>1, <1>2
  <2>. QED BY <2>1 DEF forwarded_packets, build_report, all_results, WithDecision, OfApp, flow_of
<1>3. CASE WriteOutput
  <2>1. main = "done" /\ output = None /\ output' = forwarded_packets /\ UNCHANGED <<main, report>>
    BY <1>3 DEF WriteOutput, pool_vars
  <2>. QED BY <1>2, <2>1 DEF Final
<1>4. CASE BuildReport
  <2>1. output # None /\ report' = build_report /\ UNCHANGED <<main, output>>
    BY <1>4 DEF BuildReport, pool_vars
  <2>. QED BY <1>2, <2>1 DEF Final
<1>5. CASE UNCHANGED <<output, report>>
  BY <1>1, <1>2, <1>5 DEF Final
<1>6. CASE ~WriteOutput /\ ~BuildReport
  <2>1. UNCHANGED <<output, report>>
    BY <1>6 DEF Next, MainStep, WorkerStep, PoolCall, SubmitPacket, SkipPacket, ParseRaises,
                AllSubmitted, Process, WorkerCall, Finished, vars, run_vars
  <2>. QED BY <1>5, <2>1
<1>. QED BY <1>3, <1>4, <1>6

Closing == AtEnd /\ ReadOn /\ FlowsSeen /\ Final

LEMMA ClosingHolds == Spec => []Closing
<1>1. Init => Final
  BY DEF Init, Final
<1>. QED BY <1>1, AtEndHolds, ReadOnInit, ReadOnStep, FlowsSeenInit, FlowsSeenStep, FinalStep,
            OwnFlowsHold, PoolFactsHold, DecidedInvariant, RoutedInit, RoutedStep,
            PTL DEF Spec, Closing

\* What is true of the results once all threads are joined.
LEMMA ResultsAtEnd ==
  ASSUME main = "done", Routed, PoolFacts, Decided, InTurn, AtEnd, ReadOn
  PROVE  /\ all_results \in Seq(Pool!Item)
         /\ Range(all_results) = DOMAIN route
         /\ \A j, k \in DOMAIN all_results :
              j < k => /\ all_results[j] # all_results[k]
                       /\ SameConversation(FlowKeyOf(packets[all_results[j]]),
                                           FlowKeyOf(packets[all_results[k]]))
                            => all_results[j] < all_results[k]
         /\ DOMAIN decision = DOMAIN route
         /\ DOMAIN route = {i \in 1 .. Len(packets) : keyed(packets[i])}
<1>. DEFINE N == worker_count
            seqs == [k \in 1 .. N |-> got_results[k - 1]]
            R == {p \in Nat \X Nat :
                    /\ p[1] # p[2]
                    /\ SameConversation(FlowKeyOf(packets[p[1]]), FlowKeyOf(packets[p[2]]))
                         => p[1] < p[2]}
<1>1. \A w \in Pool!Worker :
        /\ results[w] \in Seq(Pool!Item)
        /\ Pool!Increasing(results[w])
        /\ Pool!Elements(results[w]) = RoutedTo(w)
        /\ got_results[w] = results[w]
        /\ got_stats[w] = Len(results[w])
  BY DEF AtEnd, PoolFacts, Pool!Drained, RoutedTo
<1>2. N \in Nat /\ \A k \in 1 .. N : k - 1 \in Pool!Worker
  BY BalancerAssumption DEF Pool!Worker
<1>3. seqs \in Seq(Seq(Pool!Item)) /\ DOMAIN seqs = 1 .. N
  BY <1>1, <1>2
<1>4. ASSUME NEW k \in DOMAIN seqs
      PROVE  /\ Range(seqs[k]) = RoutedTo(k - 1)
             /\ Ordered(R, seqs[k])
  <2>1. PICK w \in Pool!Worker : w = k - 1
    BY <1>2, <1>3
  <2>2. /\ seqs[k] = results[w] /\ results[w] \in Seq(Pool!Item)
        /\ Pool!Increasing(results[w])
        /\ Pool!Elements(results[w]) = RoutedTo(w)
    BY <1>1, <1>3, <2>1
  <2>. HIDE DEF seqs
  <2>3. Range(results[w]) = Pool!Elements(results[w])
    BY <2>2 DEF Range, Pool!Elements
  <2>4. ASSUME NEW a \in DOMAIN results[w], NEW b \in DOMAIN results[w], a < b
        PROVE  <<results[w][a], results[w][b]>> \in R
    <3>0. a \in 1 .. Len(results[w]) /\ b \in 1 .. Len(results[w])
      BY <2>2
    <3>1. results[w][a] < results[w][b]
      BY <2>2, <2>4, <3>0 DEF Pool!Increasing
    <3>2. results[w][a] \in Pool!Item /\ results[w][b] \in Pool!Item
      BY <2>2, <3>0
    <3>3. PICK x, y : x = results[w][a] /\ y = results[w][b]
      OBVIOUS
    <3>4. x \in Nat /\ y \in Nat /\ x < y /\ x # y
      BY <3>1, <3>2, <3>3 DEF Pool!Item
    <3>. QED BY <3>3, <3>4
  <2>. QED BY <2>1, <2>2, <2>3, <2>4 DEF Ordered
<1>5. ASSUME NEW i \in DOMAIN seqs, NEW j \in DOMAIN seqs, i < j,
             NEW x \in Range(seqs[i]), NEW y \in Range(seqs[j])
      PROVE  <<x, y>> \in R
  <2>1. /\ x \in DOMAIN route /\ route[x] = i - 1
        /\ y \in DOMAIN route /\ route[y] = j - 1
    BY <1>4 DEF RoutedTo
  <2>2. /\ x \in Nat /\ y \in Nat
        /\ FlowKeyOf(packets[x]) \in FlowKey /\ route[x] = get_worker(FlowKeyOf(packets[x]))
        /\ FlowKeyOf(packets[y]) \in FlowKey /\ route[y] = get_worker(FlowKeyOf(packets[y]))
    BY <2>1 DEF Routed
  <2>3. route[x] # route[y]
    BY <1>2, <1>3, <1>5, <2>1
  <2>4. ~SameConversation(FlowKeyOf(packets[x]), FlowKeyOf(packets[y]))
    BY <2>2, <2>3, BothDirectionsOneWorker
  <2>. QED BY <2>2, <2>3, <2>4
<1>. HIDE DEF R
<1>6. all_results = FlattenSeq(seqs)
  BY DEF all_results
<1>. HIDE DEF seqs
<1>7. /\ all_results \in Seq(Pool!Item)
      /\ Range(all_results) = UNION {Range(seqs[j]) : j \in DOMAIN seqs}
      /\ Ordered(R, all_results)
  BY <1>3, <1>4, <1>5, <1>6, Flattened
<1>8. Range(all_results) = DOMAIN route
  <2>1. ASSUME NEW i \in DOMAIN route PROVE \E k \in DOMAIN seqs : i \in Range(seqs[k])
    <3>1. route[i] \in 0 .. N - 1
      BY WorkerExists DEF Routed
    <3>2. PICK k \in 1 .. N : route[i] = k - 1
      <4>1. route[i] + 1 \in 1 .. N /\ route[i] = (route[i] + 1) - 1
        BY <1>2, <3>1
      <4>. QED BY <4>1
    <3>. QED BY <1>3, <1>4, <3>2 DEF RoutedTo
  <2>2. \A k \in DOMAIN seqs : Range(seqs[k]) \subseteq DOMAIN route
    BY <1>4 DEF RoutedTo
  <2>. QED BY <1>7, <2>1, <2>2
<1>9. ASSUME NEW j \in DOMAIN all_results, NEW k \in DOMAIN all_results, j < k
      PROVE  /\ all_results[j] # all_results[k]
             /\ SameConversation(FlowKeyOf(packets[all_results[j]]),
                                 FlowKeyOf(packets[all_results[k]]))
                  => all_results[j] < all_results[k]
  BY <1>7, <1>9 DEF Ordered, R
<1>10. DOMAIN decision = DOMAIN route
  <2>1. ASSUME NEW i \in DOMAIN route PROVE i \in DOMAIN decision
    <3>1. PICK w \in Pool!Worker : w = route[i]
      BY WorkerExists DEF Routed, Pool!Worker
    <3>2. i \in Pool!Elements(results[w])
      BY <1>1, <3>1 DEF RoutedTo
    <3>. QED BY <3>2 DEF InTurn
  <2>. QED BY <2>1 DEF Decided
<1>11. DOMAIN route = {i \in 1 .. Len(packets) : keyed(packets[i])}
  <2>1. next - 1 = Len(packets) /\ Len(packets) \in Nat
    BY CaptureFacts DEF ReadOn, Routed
  <2>. QED BY <2>1 DEF InTurn, Routed
<1>. QED BY <1>7, <1>8, <1>9, <1>10, <1>11

\* The file is in order within each conversation, and complete
\* (worker_pool.py: get_results concatenates the workers' lists; pipeline.py
\* filters them).
LEMMA OutputFromFinal ==
  ASSUME Routed, PoolFacts, Decided, InTurn, Closing
  PROVE  OutputKeepsConversations
<1>. SUFFICES ASSUME output # None PROVE OutputKeepsConversations
  BY DEF OutputKeepsConversations
<1>1. main = "done" /\ output = forwarded_packets
  BY DEF Closing, Final
<1>2. PICK s : s = all_results
  OBVIOUS
<1>3. /\ s \in Seq(Pool!Item) /\ Range(s) = DOMAIN route
      /\ \A j, k \in DOMAIN s :
           j < k /\ SameConversation(FlowKeyOf(packets[s[j]]), FlowKeyOf(packets[s[k]]))
             => s[j] < s[k]
      /\ DOMAIN decision = DOMAIN route
  BY <1>1, <1>2, ResultsAtEnd DEF Closing
<1>. DEFINE part(k) == IF decision[s[k]] = "FORWARD" THEN <<s[k]>> ELSE <<>>
            parts == [k \in 1 .. Len(s) |-> part(k)]
            R == {p \in Nat \X Nat :
                    SameConversation(FlowKeyOf(packets[p[1]]), FlowKeyOf(packets[p[2]]))
                      => p[1] < p[2]}
<1>4. DOMAIN parts = 1 .. Len(s) /\ 1 .. Len(s) = DOMAIN s /\ parts \in Seq(Seq(Pool!Item))
  <2>1. \A k \in 1 .. Len(s) : part(k) \in Seq(Pool!Item)
    BY <1>3
  <2>. QED BY <1>3, <2>1
<1>5. ASSUME NEW k \in DOMAIN parts
      PROVE  /\ Range(parts[k]) = IF decision[s[k]] = "FORWARD" THEN {s[k]} ELSE {}
             /\ Ordered(R, parts[k])
  <2>1. parts[k] = part(k)
    BY <1>4
  <2>2. CASE decision[s[k]] = "FORWARD"
    <3>1. parts[k] = <<s[k]>> /\ DOMAIN <<s[k]>> = {1}
      BY <2>1, <2>2
    <3>. HIDE DEF parts
    <3>. QED BY <2>2, <3>1 DEF Range, Ordered
  <2>3. CASE decision[s[k]] # "FORWARD"
    <3>1. parts[k] = <<>>
      BY <2>1, <2>3
    <3>. HIDE DEF parts
    <3>. QED BY <2>3, <3>1 DEF Range, Ordered
  <2>. QED BY <2>2, <2>3
<1>6. ASSUME NEW j \in DOMAIN parts, NEW k \in DOMAIN parts, j < k,
             NEW x \in Range(parts[j]), NEW y \in Range(parts[k])
      PROVE  <<x, y>> \in R
  <2>1. x = s[j] /\ y = s[k]
    BY <1>5
  <2>2. j \in DOMAIN s /\ k \in DOMAIN s
    BY <1>4
  <2>. HIDE DEF parts
  <2>3. x \in Pool!Item /\ y \in Pool!Item
    BY <1>3, <2>1, <2>2
  <2>4. x \in Nat /\ y \in Nat
    BY <2>3 DEF Pool!Item
  <2>. QED BY <1>3, <1>6, <2>1, <2>2, <2>4
<1>7. output = FlattenSeq(parts)
  BY <1>1, <1>2 DEF forwarded_packets
<1>. HIDE DEF parts, R
<1>8. /\ output \in Seq(Pool!Item)
      /\ Range(output) = UNION {Range(parts[j]) : j \in DOMAIN parts}
      /\ Ordered(R, output)
  BY <1>4, <1>5, <1>6, <1>7, Flattened
<1>9. Pool!Elements(output) = Range(output)
  BY <1>8 DEF Pool!Elements, Range
<1>10. Range(output) = {i \in DOMAIN decision : decision[i] = "FORWARD"}
  <2>1. ASSUME NEW i \in DOMAIN decision, decision[i] = "FORWARD"
        PROVE  \E k \in DOMAIN parts : i \in Range(parts[k])
    <3>1. PICK k \in DOMAIN s : s[k] = i
      BY <1>3 DEF Range
    <3>. QED BY <1>4, <1>5, <2>1, <3>1
  <2>2. ASSUME NEW k \in DOMAIN parts, NEW i \in Range(parts[k])
        PROVE  i \in DOMAIN decision /\ decision[i] = "FORWARD"
    <3>1. i = s[k] /\ decision[s[k]] = "FORWARD"
      BY <1>5
    <3>2. s[k] \in DOMAIN route
      BY <1>3, <1>4 DEF Range
    <3>. QED BY <1>3, <3>1, <3>2
  <2>. QED BY <1>8, <2>1, <2>2
<1>11. ASSUME NEW j \in DOMAIN output, NEW k \in DOMAIN output, j < k,
              SameConversation(FlowKeyOf(packets[output[j]]), FlowKeyOf(packets[output[k]]))
       PROVE  output[j] < output[k]
  BY <1>8, <1>11 DEF Ordered, R
<1>. QED BY <1>9, <1>10, <1>11 DEF OutputKeepsConversations

\* Two parts of a finite set that leave nothing out and have nothing in common.
LEMMA TwoParts ==
  ASSUME NEW S, IsFiniteSet(S), NEW A, NEW B, A \cup B = S, A \cap B = {}
  PROVE  Cardinality(A) + Cardinality(B) = Cardinality(S)
<1>1. IsFiniteSet(A) /\ IsFiniteSet(B)
  BY FS_Subset
<1>2. Cardinality(A) \in Nat /\ Cardinality(B) \in Nat
  BY <1>1, FS_CardinalityType
<1>3. Cardinality(A \cup B) = Cardinality(A) + Cardinality(B) - Cardinality(A \cap B)
  BY <1>1, FS_Union
<1>4. Cardinality(A \cap B) = 0
  BY FS_EmptySet
<1>. QED BY <1>2, <1>3, <1>4

\* The flow of a result is a flow, in the table of the worker that made it.
LEMMA FlowOfResult ==
  ASSUME Routed, OwnFlows, Decided, FlowsSeen, NEW i \in DOMAIN decision
  PROVE  /\ FlowKeyOf(packets[i]) \in FlowKey
         /\ flow_of(i).app_type \in AppType
<1>1. i \in DOMAIN route /\ FlowKeyOf(packets[i]) \in FlowKey /\ route[i] \in Pool!Worker
  BY WorkerExists DEF Decided, Routed, Pool!Worker
<1>2. FlowKeyOf(packets[i]) \in DOMAIN flows[route[i]] /\ Typed(flows[route[i]])
  BY <1>1 DEF FlowsSeen, Decided
<1>3. create_five_tuple(packets[i]) = FlowKeyOf(packets[i])
  BY <1>1, FiveTupleIsFlowKey
<1>. QED BY <1>1, <1>2, <1>3 DEF flow_of, Typed, Flow

\* The totals of the report, one by one.
LEMMA ReportFromFinal ==
  ASSUME Routed, OwnFlows, PoolFacts, Decided, InTurn, Closing
  PROVE  ReportAddsUp
<1>. SUFFICES ASSUME report # None PROVE ReportAddsUp
  BY DEF ReportAddsUp
<1>1. main = "done" /\ report = build_report
  BY DEF Closing, Final
<1>2. PICK s : s = all_results
  OBVIOUS
<1>. DEFINE L == Len(packets)
            Keyed == {i \in 1 .. L : keyed(packets[i])}
            Unkeyed == {i \in 1 .. L : ~keyed(packets[i])}
<1>3. /\ s \in Seq(Pool!Item) /\ Range(s) = DOMAIN route
      /\ \A j, k \in DOMAIN s : j < k => s[j] # s[k]
      /\ DOMAIN decision = DOMAIN route
      /\ DOMAIN route = Keyed
  BY <1>1, <1>2, ResultsAtEnd DEF Closing
<1>4. /\ IsFiniteSet(DOMAIN route) /\ Cardinality(DOMAIN route) = Len(s)
      /\ IsFiniteSet(DOMAIN s) /\ Cardinality(DOMAIN s) = Len(s)
  BY <1>3, LengthOfDistinct
<1>5. \A k \in DOMAIN s : s[k] \in DOMAIN decision
  BY <1>3 DEF Range
<1>6. /\ report.total_packets = Len(s)
      /\ report.forwarded = Cardinality({k \in DOMAIN s : decision[s[k]] = "FORWARD"})
      /\ report.dropped = Cardinality({k \in DOMAIN s : decision[s[k]] = "DROP"})
      /\ report.skipped = skipped_packets
      /\ report.applications =
           [app \in AppType |-> Cardinality({k \in DOMAIN s : flow_of(s[k]).app_type = app})]
      /\ report.workers = got_stats
      /\ report.total_flows = SumFunction([w \in Pool!Worker |-> Cardinality(DOMAIN flows[w])])
  BY <1>1, <1>2 DEF build_report, WithDecision, OfApp, get_flow_count
<1>7. Routed /\ L \in Nat /\ DOMAIN packets = 1 .. L
  BY CaptureFacts DEF Routed
\* Forwarded or dropped.
<1>8. report.forwarded + report.dropped = report.total_packets
  <2>. DEFINE A == {k \in DOMAIN s : decision[s[k]] = "FORWARD"}
              B == {k \in DOMAIN s : decision[s[k]] = "DROP"}
  <2>1. A \cup B = DOMAIN s /\ A \cap B = {}
    BY <1>5 DEF Decided
  <2>2. Cardinality(A) + Cardinality(B) = Len(s)
    <3>. HIDE DEF A, B
    <3>. QED BY <1>4, <2>1, TwoParts
  <2>. QED BY <1>6, <2>2
\* With or without addresses.
<1>9. report.total_packets + report.skipped = L
  <2>1. skipped_packets = Cardinality(Unkeyed)
    <3>1. next - 1 = L
      BY <1>1, <1>7 DEF Closing, ReadOn
    <3>. QED BY <3>1 DEF Closing, ReadOn
  <2>2. Keyed \cup Unkeyed = 1 .. L /\ Keyed \cap Unkeyed = {}
    OBVIOUS
  <2>3. IsFiniteSet(1 .. L) /\ Cardinality(1 .. L) = L
    <3>1. PICK n \in Nat : n = L
      BY <1>7
    <3>2. 1 \in Int /\ n \in Int
      OBVIOUS
    <3>3. IsFiniteSet(1 .. n) /\ Cardinality(1 .. n) = IF 1 > n THEN 0 ELSE n - 1 + 1
      BY <3>2, FS_Interval
    <3>. QED BY <3>1, <3>3
  <2>4. Cardinality(Keyed) + Cardinality(Unkeyed) = L
    <3>. HIDE DEF Keyed, Unkeyed
    <3>. QED BY <2>2, <2>3, TwoParts
  <2>. QED BY <1>3, <1>4, <1>6, <2>1, <2>4
\* By worker.
<1>10. SumFunction(report.workers) = report.total_packets
  <2>. DEFINE A == [w \in Pool!Worker |-> RoutedTo(w)]
  <2>1. IsFiniteSet(Pool!Worker)
    <3>1. 0 \in Int /\ worker_count - 1 \in Int
      BY BalancerAssumption
    <3>. QED BY <3>1, FS_Interval DEF Pool!Worker
  <2>2. got_stats = processed /\ DOMAIN got_stats = Pool!Worker
    BY <1>1 DEF Closing, AtEnd
  <2>3. ASSUME NEW w \in Pool!Worker
        PROVE  IsFiniteSet(A[w]) /\ got_stats[w] = Cardinality(A[w])
    <3>1. /\ results[w] \in Seq(Pool!Item) /\ Pool!Increasing(results[w])
          /\ Pool!Elements(results[w]) = RoutedTo(w)
          /\ got_stats[w] = Len(results[w])
      BY <1>1, <2>2 DEF Closing, AtEnd, PoolFacts, Pool!Drained, RoutedTo
    <3>2. \A j, k \in DOMAIN results[w] : j < k => results[w][j] # results[w][k]
      <4>. SUFFICES ASSUME NEW j \in 1 .. Len(results[w]), NEW k \in 1 .. Len(results[w]), j < k
                    PROVE  results[w][j] # results[w][k]
        BY <3>1
      <4>1. results[w][j] < results[w][k]
        BY <3>1 DEF Pool!Increasing
      <4>2. results[w][j] \in Pool!Item
        BY <3>1
      <4>3. results[w][j] \in Nat
        BY <4>2 DEF Pool!Item
      <4>. QED BY <4>1, <4>3
    <3>3. Range(results[w]) = RoutedTo(w)
      BY <3>1 DEF Range, Pool!Elements
    <3>. QED BY <3>1, <3>2, <3>3, LengthOfDistinct
  <2>4. \A v, w \in Pool!Worker : v # w => A[v] \cap A[w] = {}
    BY DEF RoutedTo
  <2>5. UNION {A[w] : w \in Pool!Worker} = DOMAIN route
    <3>1. \A i \in DOMAIN route : route[i] \in Pool!Worker
      BY WorkerExists DEF Routed, Pool!Worker
    <3>. QED BY <3>1 DEF RoutedTo
  <2>. HIDE DEF A
  <2>6. SumFunction(got_stats) = Cardinality(UNION {A[w] : w \in Pool!Worker})
    BY <2>1, <2>2, <2>3, <2>4, SumOfParts
  <2>. QED BY <1>4, <1>6, <2>5, <2>6
\* By application.
<1>11. SumFunction(report.applications) = report.total_packets
  <2>. DEFINE A == [app \in AppType |-> {k \in DOMAIN s : flow_of(s[k]).app_type = app}]
              f == [app \in AppType |-> Cardinality(A[app])]
  <2>1. IsFiniteSet(AppType)
    BY RuleAssumption
  <2>2. \A k \in DOMAIN s : flow_of(s[k]).app_type \in AppType
    BY <1>5, FlowOfResult DEF Closing
  <2>3. UNION {A[app] : app \in AppType} = DOMAIN s
    BY <2>2
  <2>4. \A a, b \in AppType : a # b => A[a] \cap A[b] = {}
    OBVIOUS
  <2>5. \A app \in AppType : A[app] \in SUBSET DOMAIN s
    OBVIOUS
  <2>6. report.applications = f
    BY <1>6
  <2>. HIDE DEF A
  <2>7. \A app \in AppType : IsFiniteSet(A[app])
    BY <1>4, <2>5, FS_Subset
  <2>8. DOMAIN f = AppType /\ \A app \in AppType : f[app] = Cardinality(A[app])
    OBVIOUS
  <2>. HIDE DEF f
  <2>9. SumFunction(f) = Cardinality(UNION {A[app] : app \in AppType})
    BY <2>1, <2>4, <2>7, <2>8, SumOfParts
  <2>. QED BY <1>4, <1>6, <2>3, <2>6, <2>9
\* Every flow once.
<1>12. report.total_flows =
         Cardinality({FlowKeyOf(packets[i]) : i \in {j \in DOMAIN packets : keyed(packets[j])}})
  <2>. DEFINE A == [w \in Pool!Worker |-> DOMAIN flows[w]]
              f == [w \in Pool!Worker |-> Cardinality(DOMAIN flows[w])]
              Keys == {FlowKeyOf(packets[i]) : i \in DOMAIN route}
  <2>1. IsFiniteSet(Pool!Worker)
    <3>1. 0 \in Int /\ worker_count - 1 \in Int
      BY BalancerAssumption
    <3>. QED BY <3>1, FS_Interval DEF Pool!Worker
  <2>2. IsFiniteSet(Keys)
    <3>. DEFINE key == [i \in DOMAIN route |-> FlowKeyOf(packets[i])]
    <3>1. key \in Surjection(DOMAIN route, Keys)
      BY DEF Surjection
    <3>. HIDE DEF key, Keys
    <3>. QED BY <1>4, <3>1, FS_Surjection
  <2>3. UNION {A[w] : w \in Pool!Worker} = Keys
    <3>1. ASSUME NEW i \in DOMAIN route
          PROVE  \E w \in Pool!Worker : FlowKeyOf(packets[i]) \in A[w]
      BY <1>3, WorkerExists DEF Closing, FlowsSeen, Routed, Pool!Worker
    <3>2. ASSUME NEW w \in Pool!Worker, NEW five_tuple \in A[w]
          PROVE  five_tuple \in Keys
      BY <1>3 DEF Closing, FlowsSeen
    <3>. QED BY <3>1, <3>2
  <2>4. \A v, w \in Pool!Worker : v # w => A[v] \cap A[w] = {}
    BY DEF OwnFlows
  <2>5. DOMAIN f = Pool!Worker /\ \A w \in Pool!Worker : f[w] = Cardinality(A[w])
    OBVIOUS
  <2>6. \A w \in Pool!Worker : A[w] \in SUBSET Keys
    BY <2>3
  <2>7. report.total_flows = SumFunction(f)
    BY <1>6
  <2>8. {FlowKeyOf(packets[i]) : i \in {j \in DOMAIN packets : keyed(packets[j])}} = Keys
    BY <1>3, <1>7
  <2>. HIDE DEF A, f, Keys
  <2>9. \A w \in Pool!Worker : IsFiniteSet(A[w])
    BY <2>2, <2>6, FS_Subset
  <2>10. SumFunction(f) = Cardinality(UNION {A[w] : w \in Pool!Worker})
    BY <2>1, <2>4, <2>5, <2>9, SumOfParts
  <2>. QED BY <2>3, <2>7, <2>8, <2>10
<1>. QED BY <1>8, <1>9, <1>10, <1>11, <1>12 DEF ReportAddsUp

\* The file wrpcap writes holds exactly the forwarded packets, those of one
\* conversation in the order of the capture, for every interleaving and every
\* number of workers (worker_pool.py: get_results puts the workers' lists one after
\* the other and merges nothing; pipeline.py filters what it got).
THEOREM FileInOrder == Spec => []OutputKeepsConversations
<1>1. InOrder => InTurn
  BY DEF InOrder
<1>. QED BY <1>1, OutputFromFinal, ClosingHolds, OwnFlowsHold, PoolFactsHold, DecidedInvariant,
            InOrderInvariant, PTL

\* The report adds up (pipeline.py: _build_report): no packet is lost or counted
\* twice between the capture, the workers' counters, the decisions, the applications
\* and the flow tables, though the main thread reads all of them while the workers
\* still run.
THEOREM ReportCorrect == Spec => []ReportAddsUp
<1>1. InOrder => InTurn
  BY DEF InOrder
<1>. QED BY <1>1, ReportFromFinal, ClosingHolds, OwnFlowsHold, PoolFactsHold, DecidedInvariant,
            InOrderInvariant, PTL
=============================================================================
