# DPI-Engine-Python in TLA+

A verification development of the DPI engine of this repository: a program that
reads a packet capture or captures live traffic, tracks flows, classifies them
by the names they reveal, blocks some, and writes the packets that are left,
once single-threaded (V1) and once with a pool of worker threads (V2); between
the two it hands events to a Parquet file, Spark, a database and a message
broker. Paths below are those of the repository's root.

## 1. The system

| Component | State | Operations | Called by |
|---|---|---|---|
| `ThreadSafeQueue` (`src/v2/thread_safe_queue.py`) | waiting items, count of unfinished tasks | push, pop(timeout), task_done, join, empty | pool, workers |
| `DPIWorker` (`src/v2/worker.py`) | stop event, results, processed and error counters, thread | start, stop, join, the loop `_run` | pool; own thread |
| `WorkerPool` (`src/v2/worker_pool.py`) | queues, workers, balancer | start, submit, wait_until_empty, get_worker_stats, get_results, get_error_stats, stop, join | `V2Pipeline` |
| `FlowBalancer` (`src/v2/flow_balancer.py`) | none | canonical, get_worker | pool |
| `V2Pipeline` (`src/v2/pipeline.py`) | skipped packets, report | run, _build_report | `main` |
| `DPIProcessor` (`src/v2/dpi_processor.py`) | a tracker of its own per worker | process | worker thread |
| `ConnectionTracker`, `Flow` (`src/connection_tracker.py`, `src/types.py`) | five-tuple -> flow | get_or_create_flow, apply_blocking_rules, is_packet_blocked | processor, V1 |
| `RuleManager` (`src/rule_manager.py`) | three sets of rules | classify_domain, is_ip/app/domain_blocked | tracker, processor |
| `DPIEngine` (`src/dpi_engine.py`) | tracker, analyzer | process_packets | tests, the emitter's description |
| `PacketAnalyzer` (`src/analyzer.py`) | statistics, tracker | analyze | `DPIEngine`, `main` |
| `NetworkEventEmitter` (`src/data_engineering/emitter.py`) | none | emit_all | `main` |
| `SNIExtractor` (`src/sni_extractor.py`) | offsets into a payload | extract | parser of V1 and V2 |
| `HTTPHostExtractor`, `PacketParser`, `PcapReader` | none | pure functions of a packet or a file | all of the above |
| `LivePacketCapture` (`src/live_capture.py`) | stop flag, captured packets, the saved file | sniff, start_streaming, stop_streaming | `main --live` |
| `main.py` | the files of a run | input, V1, the sinks, V2, in this order | user, `run_dpi` of the DAG |
| Sinks and ETL (`src/data_engineering/*_sink.py`, `pyspark_etl.py`) | Parquet file, summaries, table, topic | write, publish, run | `main`, the DAG |
| Airflow DAG (`src/data_engineering/airflow_dag.py`) | tasks of its runs | run_dpi >> run_pyspark_etl >> load_postgres >> publish_kafka | Airflow |

Threads exist in two places only: the worker pool, and the streaming threads of
`LivePacketCapture`. In the pool the main thread and each worker share that
worker's queue (a locked `queue.Queue`), and, without any lock, the worker's
lists and counters; the flow tables are shared by nobody, provided that flow
affinity holds. Streaming threads share one stop flag per object. Runs of the
DAG are processes that share files of fixed names.

What is hard, and where it bites, is listed under "hazards" in `PROJECT.json`.
What makes each component correct:

* queue, worker, pool: no item is lost, handled twice or out of order, whether
  processing succeeds or raises; `wait_until_empty` returns neither early nor
  never; unlocked reads are final; every thread ends.
* balancer: both directions of a conversation reach one worker.
* pipeline: threads change no decision; the file and the report account for the
  whole capture.
* tracker, processor: blocking is sticky.
* rule manager: matching strings means matching labels.
* V1: a decision is not revised by the analysis that follows it; the V1 file and
  the events agree, and with them, at the end of the capture, V2's flows; the
  counters add up though exceptions are swallowed.
* SNI extractor: on any payload no read is out of bounds, the walk ends, and a
  name is the whole name or none.
* live capture: what is captured, saved and returned fits together, whatever
  fails; streams end when they are stopped and not before.
* `main` and sinks: wherever a run ends, its outputs are those of a prefix of
  its phases and tell one story.
* DAG: what a run has read reaches the table and is sent to the topic, or
  something that can be named got in the way; nothing is inserted more often than
  it was executed.

## 2. Modules

| Module | Models |
|---|---|
| `ThreadSafeQueue` | a queue as a record [items, unfinished]; operators |
| `WorkerPool` | pool, workers and one client, with every statement that touches shared state as an action |
| `FlowBalancer` | `canonical`, `get_worker`; CRC-32 is a constant function |
| `RuleManager`, `ConnectionTracker`, `DPIProcessor` | operators on rules, flow tables and packets |
| `SequentialDPI` | the abstract specification of V2: one processor, no threads |
| `V2Pipeline` | `V2Pipeline.run`: instantiates `WorkerPool` and gives every worker a flow table |
| `DomainMatching` | questions to the rule manager, and what the answers mean label by label |
| `PacketStatistics` | the analyzer's counters with the try block that may raise half way; `HTTPHostExtractor` |
| `V1Engine` | `DPIEngine.process_packets`, `PacketAnalyzer.analyze`, `main`'s V1 part, the emitter; instantiates `PacketStatistics` with its own loop |
| `SNIExtractor` | `extract` as a walk over bytes, one step per field |
| `ClientHello` | what `extract` has to find: ClientHellos as `generate_test_pcap.py` builds them |
| `LivePacketCapture` | `sniff`: the interface it resolves, the capture, the save, the fallback to a replay |
| `LiveStreaming` | `start_streaming`, `stop_streaming` and the threads |
| `MainProgram` | `main`: extends `LivePacketCapture`; every phase, sink and failure |
| `NetworkEventsDAG` | overlapping runs of the four tasks, failures and clearing |
| `MCTraffic`, `MC*` | captures and constants for TLC |
| `SequenceLemmas` | facts about the operators on sequences and sets that several proofs need |
| `*Proofs` | theorems |

`V2Pipeline` does not repeat the pool: its actions are the actions of
`Pool == INSTANCE WorkerPool`, joined with what they do to the pipeline's own
variables. The queues carry positions in the capture, as the code's carry raw
packets. `MainProgram` in turn does not repeat V1 and V2: there a file stands for
the packets it was made from, and `V1Engine` and `V2Pipeline` say which of them
each engine lets through.

**Control.** `main` (client) and `at[w]` (worker) are program counters. The
loops of start, wait_until_empty, stop and join over the workers take one step
per worker (`idx`). `_run` has steps for the test of the stop event, the pop or
its timeout, the processor's return or exception, the append, the count, the
except branch and `task_done`. A pop that blocks is a step that is not enabled
yet, or a timeout. `V1Engine` has one step per packet of each of its loops,
because nothing else runs. `SNIExtractor` has one step per length field and one
per extension, with its early returns. `MainProgram` has one step per phase
(`phase`), and `disk`, `table` and `topic` hold what each has left: a file is
what it was before (`Earlier`), whole, or `Torn`. In `NetworkEventsDAG` a task
reads and writes in steps of their own, since other runs act in between; so does
each job of the ETL, which empties its directory and reads the file
(`OpenSummary`) and moves its own files there later (`CommitSummary`). A summary,
the table and the topic are sets of batches there: a directory may hold the files
of two jobs, and a batch in the topic means some of its messages.

**Data.** Addresses are numbers (only equality and order matter), 0 and the
empty protocol stand for a field the parser does not set. Outside of
`SNIExtractor`, payload bytes are replaced by what the code finds in them:
names, the start of the text, its second word, its header lines (the rest of a
Host line in pieces, cut where `Host:` stands in it again: V1 drops what is
between the pieces, V2 keeps it). Names are
sequences of characters, since `endswith` is decided by characters. In
`WorkerPool` the error counter and the last error of a worker are one sequence,
`failures`: the items that raised. In `V1Engine` the V1 file is the set of the
positions of its packets, which stay in the capture's order. In `MainProgram` an
event stands for its packet, and in `NetworkEventsDAG` a batch of events for the
version of the capture it was made from. Some variables are not in the code and
only remember: `told` (`LiveStreaming`: streams that a stop came after), `own` and
`sent` with `undisturbed` (`NetworkEventsDAG`: what a run has written and handed to
its producer, and whether anybody has written since).

**Left open.** What the processor does with an item in `WorkerPool` (it returns
or raises); the routing there (any worker); CRC-32; which packets the parser
does not survive (`malformed`, `Bad`); what scapy, Spark, the database, the
broker, the file system and Airflow's scheduler do, within what their interfaces
allow: each may fail wherever it is called. A new capture file and a cleared run,
which come from outside the code altogether, are marked as external in "map".

**Mutants.** A definition that a comment calls a mutant is a plausible bug. No
specification uses it; it exists to show which property would notice.

## 3. Runs

| Run | Question | Bounds |
|---|---|---|
| `pool` | is the pool right under every interleaving, with any item failing and the client failing? | 2 workers, 3 items |
| `v2` | are affinity, stickiness, file and report right, does V2 implement `SequentialDPI`, and does it end? | 2 workers, the empty capture and every capture of 3 packets of 8 kinds, one of which the parser does not survive |
| `v2_bad_packet` | finding | 2 packets |
| `matching` | does string matching mean label matching? | 4 labels that begin or end with one another, names and rules of up to 3, 4 spellings of each |
| `label_rule` | finding | the same |
| `v1` | do both V1 entries decide consistently, as V2 and as their counters say? | the empty capture and every capture of 3 packets of 15 kinds |
| `v1_events` | finding | 2 packets |
| `sni` | what does the walk make of a damaged ClientHello? | up to two extensions, cut off at any byte or with any one byte wrong |
| `streaming` | do streaming threads end when, and only when, they are told to? | 2 streams of 2 threads, with and without a limit, 2 stops |
| `main` | what is left behind, wherever `main` ends? | captures of packets that the parser copes with or not, a live capture of up to 2, every list of interfaces, any dependency missing, any phase failing |
| `main_missing` | finding | dependencies missing, nothing else failing |
| `dag` | what reaches the summaries and the table, and what is sent to the topic? | 2 runs, 2 captures, any failure, 2 clearances |

Why the bounds are enough. Workers share nothing with one another, only with the
main thread, so that two show every interference (of two workers, and of one
worker that is done while another is not). Three items let a worker have one
recorded, one in hand and one waiting, which is what the order properties
relate; three packets let a flow be seen before, at and after the packet that
names it, or two packets of one conversation surround one of another. Two
streams are needed for one to take back the other's stop; two runs of the DAG
for one to overwrite the other's file. A second extension puts the name behind
something the walk has to skip. The theorems of section 5 hold for all sizes.

The kinds of packets (`MCTraffic`): a conversation's opening, its reply, a
ClientHello with an allowed and a blocked name in capitals, an HTTP request with
a name blocked by a label rule and one with a name that no rule mentions, a
datagram and a ping of the blocked source, a packet without addresses, and
one that the parser does not survive. In `v2` the domain rule is given and the
other two are the defaults. `MCV1Engine` adds texts with and without a second
word and with Host lines that are empty, repeated, spelled in small letters or
with the name twice.

`CHECK_DEADLOCK FALSE` is said of runs only where the program may stop for good:
`streaming` (all threads have ended and all calls have been made).

The properties worth knowing:

* `UnfinishedIsExact`, `NoItemIsLost`, `InSubmissionOrder`, `ReadsAreFinal`,
  `NothingIsStranded` (pool): see the comments there. `ReadsAreFinal` is why the
  missing locks are harmless: every write happens before the `task_done` that
  lets `join` return.
* `DecidesLikeOneProcessor` (v2): refinement. A packet's decision is that of one
  processor fed with the capture in order, under every interleaving. It is the
  point of flow affinity, and it needs the FIFO queues as well.
* `OutputKeepsConversations`, `ReportAddsUp` (v2): the file is not in the order
  of the capture, but each conversation in it is; the counters add up although
  the report reads flow objects that changed after the decision.
* `EngineDecisionsStick`, `AnalysisDecidesNothing`, `MainAgreesWithV2` (v1): the
  engine's decisions, though they are kept by position among the packets with a
  five-tuple only, are those of its packets, and agree with its file and, at a
  flow's last packet, with the flow; the second pass over the packets changes no
  flow; and `main`'s filter, which looks
  at flows at the end of the capture, drops exactly what a V2 processor has
  blocked by then, for flows that both look at in the same way.
* `CountersAddUp`, `EnginesAgreeOnHosts` (v1): the analyzer's try block may raise
  between two counters; those that belong together still agree, and the host
  that V2 takes is in V1's list, except where the header's name is not spelled
  `Host:` or stands twice in the line: V1 overlooks the former, and of the latter
  it removes every `Host:` (`analyzer.py:177`) where V2 removes the first
  (`http_host_extractor.py:17`).
* `NameIsWhole`, `TruncationNeverLies`, `Ends` (sni): a length field may lie; the
  name is whole or missing, a ClientHello that is cut off yields its own name or
  none, and the walk always advances.
* `UnlimitedRunsOn`, `StopForGoodEnds` (streaming): the stop flag belongs to the
  object, so that a second start takes a stop back. A stream without a limit
  loses no thread before a stop that comes after its own start, whatever was
  started and stopped before it or is started beside it; threads end if the flag
  stays set.
* `LiveOrReplay` (main): which packets a live capture returns, from which
  interface, what is in the file it saves, wherever it failed, and for which two
  reasons it raises.
* `OutputsInOrder` (main): see section 5. `SinksAgree`: an ETL that fails half way
  does leave summaries of several runs side by side; what holds is that its
  exception has ended `main`, so that no later sink tells another story.
  `SameTrafficForBoth`: the two engines are given the same packets, which a live
  run has to hand over by a temporary file. That their two output files are equal
  is not claimed, and not true: V1 filters by the flow's state at the end of the
  capture (`main.py:254`), V2 by its decision on the packet, worker by worker
  (`MainAgreesWithV2` and `OutputKeepsConversations` say what each file is).
* `UndisturbedRunIsLoaded`, `SummariesOfOneBatch`, `InsertionsAreExecutions`
  (dag): a run is disturbed when another one writes the Parquet file between its
  first and its last task. Undisturbed, its batch is in the table and was handed
  to the producer; disturbed, it may succeed and leave no trace. Its summaries
  may still be spoilt: a job of an overlapping run may have read the older file
  before and commit after, and two jobs may leave their files in one directory.
  But the job of the next summary reads the file anew, so that each of the other
  runs spoils one summary at most; the bound is reached. The table may have a
  batch as often as runs and clearances account for, since nothing is deleted
  before it is inserted again.

Findings (violation runs), with the text each contradicts in `PROJECT.json`:
an exception of the parser in V2's main thread leaves the workers running for
ever (`v2_bad_packet`); a one-label rule matches names the README says it does
not (`label_rule`); the engine's decisions do not line up with its packets as
the emitter expects (`v1_events`); without pyarrow, but with Spark, the ETL ends
`main` before V2, where the README promises that the reports complete
(`main_missing`).

Other behaviour that a reader of the code may not expect. The models have all of
it, and the properties above are stated so as to be true with it:

* V1 writes a blocked source's packets if they have no destination port
  (`analyzer.py:138`), which V2 drops; `Comparable` leaves them out.
* With `--block-app UNKNOWN`, V2 drops a flow whose first packet names it: its
  processor asks the rules before it has looked for a name
  (`dpi_processor.py:40`), `main` asks once and with the name. `Comparable`
  leaves these flows out too, and the other flows agree under this rule as well.
* Streaming never delivers a packet: `sniff` has no parameter `timeout`
  (`live_capture.py:261`), the TypeError is swallowed, and with a limit each
  thread dies of an unbound name (`live_capture.py:266`).
* A second `start_streaming` takes back a stop that threads have not seen
  (`live_capture.py:254`).
* A save that fails replaces a capture that succeeded by a replay
  (`live_capture.py:213-219`), and a Parquet file as a fallback is handed to a
  pcap reader (`live_capture.py:236`).
* If the temporary capture of a live run cannot be written, V2 filters another
  file than V1 did (`main.py:84-86`).
* `main` prints that rows were written and events published when the sinks
  returned `False` (`main.py:305`, `main.py:316`), and announces a replay as a
  live capture (`main.py:69-70`).
* Kafka messages that are given up count as published (`kafka_sink.py:79`), and
  the DAG's last task succeeds when none was delivered (`airflow_dag.py:124`).
* If the temporary file of a live run cannot even be made, `main` ends before the
  analysis (`main.py:78`, outside of the try block).
* An interface that was chosen by itself and has no readable address ends the
  live capture with an exception, though a replay was meant to help
  (`live_capture.py:129`).

## 4. Fairness

`V2Pipeline` and `WorkerPool`: `WF` on the client's steps and on each worker's
steps: the interpreter hands its lock round, `queue.Queue` wakes waiters,
timeouts expire, and the processor returns or raises. No strong fairness is
needed, since a thread's step, once enabled, is disabled by no other thread (a
pop that would time out may instead find an item, which is a step too). Nothing
forces the client to raise, and `RunEnds` is about the runs where it does not;
`EveryItemIsHandled` holds even when it does.

`LiveStreaming`: `WF` on each thread's steps; nobody has to start or to stop.
`SNIExtractor`: `WF` on its step, since nothing can hold up a loop of its own.
The other specifications are about safety only and state no fairness: `main` may
be ended from outside, and Airflow owes a run nothing.

## 5. Theorems

All are proved for every value of the constants: every number of workers, runs
or threads, every bound, every capture and payload. They assume what the modules
name: `PoolAssumption` (at least one worker, which the code checks),
`BalancerAssumption`, `Crc32Assumption` (a function into the naturals),
`RuleAssumption`, `CaptureAssumption` and `V1CaptureAssumption` (what
`PacketParser.parse` can return), `PayloadAssumption` (payloads are byte
strings), `HelloAssumption` (a ClientHello's extensions are typed and counted,
and those of type server_name have one name in them, as `build_client_hello`
writes them), `StreamingAssumption`, `CaptureAssumption` of `LivePacketCapture`
(the test capture is a list of packets, a list of interfaces is a list) and
`MainAssumption` (the marks for missing, torn and older files are not
captures), `DAGAssumption`, `MatchingAssumption` (labels are not empty and have
no dot, blank or capital in them before they are spelled; the domains of the
table are lists of labels). TLC evaluates each of them in a run.

`SequenceLemmas`. The provers cannot use an induction theorem that takes a
predicate as a parameter, and what is recursive here (`FlattenSeq`, sums, the
table of the one processor) is unfolded by a least counterexample: of the
numbers at which a statement fails one is the least (`Least`), and the
definition unfolded there once leads back to a smaller one. In this way the
lists of the workers keep their order when they are put one after another
(`OrderOfConcat`, `Flattened`), a list without duplicates is as long as its set
is large (`LengthOfDistinct`), the parts of a sum add up (`SumOfParts`), and
what is in front of an extension, the extension, and what is behind it make the
whole list (`FlattenAt`).

`WorkerPoolProofs`. The exact count needs that threads start only once, this
needs the client's phase, and the phase needs that a drained queue stays
drained, so `TypeOK`, `UnfinishedIsExact` and `PhasesAgree` are one induction
(`Core`). On top of it `Places` says where items are, per worker, as three sets
(waiting, held, outcomes): lemma `Effects` reduces the 19 actions to four
effects on these sets (an item joins, is taken, leaves, or nothing moves), and
order, routing and completeness are proved once per effect. `Reads` adds the
lag of the counter behind the list and that what was read is current; with
`Core` and `Places` it gives `ReadsFinal`.

`V2PipelineProofs`. Python's order on tuples is total and antisymmetric on
endpoints, so the minimum of a pair and of its reverse is the same endpoint;
hence `BothDirectionsOneWorker`. `Routed` (a submitted packet went where `get_worker` says)
gives `Affinity`; `ImplementsPool` shows that each step of the pipeline is a
step of the pool or a stutter, which brings over the pool's theorems
(`ReportIsOfFinalReads`); with the pool's routing invariant, the flow tables are
disjoint (`TablesDisjoint`). `BlockedForGood` puts these together: a packet that
is decided has its result recorded or about to be (`Past`), so it is older than
what its worker has in hand, by the pool's order; a drop is seen in the packet's
flow (`FlowIsBlocked`), which is in the table of one worker and which `process`
never unblocks (`ProcessIsSticky`); hence a later packet of the flow, decided by
the same worker, is dropped too. `PipelineTyped` follows from the same
invariants.

`DecidesAsOne` is the refinement. A flow's state is a function of the packets of
that flow alone (`ProcessIsLocal`, `FlowRests`), and its worker gets them in the
order of the capture: when it is about to process a packet, all older packets
that go to it are decided (`OlderAreDecided`), which needs the pool's order, that
every packet passed is submitted (`InTurn`), and that no item raises
(`NoFailures`). So `FlowsFollow` is inductive: once a flow's decided packets are
those among the first `n`, its worker's table says of it what the one
processor's table says after `n` packets; and the step that decides a packet
decides it as that processor does (`ProcessDecides`).

`FileInOrder` and `ReportCorrect` need what is true of the workers' lists and
counters at the end (`Closing`): once `wait_until_empty` has returned, a worker's
results are the packets routed to it, in the order of the capture, and its
counter is their number (`AtEnd`); the packets not submitted are counted as
skipped (`ReadOn`); the tables hold the flows of the decided packets and no
others (`FlowsSeen`); and nothing that the file and the report were made from
changes after them (`Final`). The workers' lists one after another are then a
list without duplicates of all submitted positions, ordered within each worker
and so within each conversation; and every total of the report is the size of a
set of positions, which the workers divide up.

`V1EngineProofs`. `Settled` is the reason why the analysis changes nothing: a
named flow has the application of its name, and a flow that the rules speak of
is blocked. It holds of every flow after `get_or_create_flow` (`TrackedFlow`),
and with it another call with a name that the flow has does nothing but count.
`Known` adds that, when the analysis begins, every packet's flow is there and has
a name if the packet has one; this gives `AnalysisIsHarmless`. `Written` says that
the file and the events are those of the flows as they are, from which
`WholeFlowsDropped` and `EventsAreOfTheFile` follow.

`DecisionsStick` is about decisions and packets whose positions differ. The
invariant `Decided` takes the k-th decision to the packet of rank k among those
with a five-tuple (`Ranks`), and says that the last decision on a flow is what
the flow is now; `Forwarded` says the same of the engine's output.
`EnginesAgree` runs two tables side by side: `Agreeing` says that a flow that
both engines look at in the same way is, after the same packets, in both tables or
in neither, and if so blocked, named and classified alike, with nothing that the
rules would still add (`Alike`); the next packet keeps this so in both
(`AgreeOnOneMore`). `StatisticsAddUp` and `HostsAgree` follow from `Tallies`, one
invariant for each part of the analyzer's try block that may raise between two
counters (`PortTallies`, `MessageTallies`, `HostTallies`): by port, so that a
service counts as often as its port does; by packets seen, as sizes of sets of
positions; and by the list of hosts, of which the count per host is the bag. On a
line with the name once, the rest of it is one piece, and the two conversions do
the same with it.

`SNIExtractorProofs`. The offset at every step is related to the bounds that
have been tested so far; every read is then in bounds, whatever the length fields
say (`ReadsStayInBounds`), the loop stays within the clamped end
(`WalkInside`), and a name is as long as it declares (`NamesAreWhole`).

For `TruncationIsHarmless` the fields of a ClientHello are located first: each
length and each extension is at an offset that is the sum of what is in front of
it (`Layout`, `ExtensionAt`, `NameAt`), and a slice of a capture that ends before
the capture does is the slice of the hello (`SliceOfPart`). The invariant `Walk`
then says of every hello that the payload may be the beginning of that the walk
is where it takes itself to be: at that field, at the beginning of an extension
with no server_name before it, at the first server_name, or done with the right
answer. It is stated for all such hellos at once, since a payload that is cut off
early is the beginning of many. Each return of `None` needs that the name was
not all there, that is that what was read last is before the name's end
(`NotYet`).

`MainProgramProofs`. The invariant is stated over `stage`, the phase that main
is in or has failed in: a phase that has not begun has left no trace
(`NotBegun`), and one that is over has left its work (`Done`). The three
properties are read off it; that summaries of several runs are never beside a
later output is that `failed_in` is the ETL, whose later phases have not begun.
`CaptureIsLiveOrReplay` follows one call of `sniff`
from the interface through the capture and the save to what it returns or raises
(`Captured`). The module also proves `UnlimitedRunsOn` of `LiveStreaming`
(`RunsOn`): while there is a stream that no stop came after, the flag is there
and not set, whatever came before (`FlagAgrees`), so that no thread sees it. Its names begin with `Streaming`
where those of `MainProgram` would clash.

`DomainMatchingProofs`. The code compares characters, and the two properties
speak of labels; there is one question and one answer, so the work is in the
operators. A name is written label by label, each behind a dot (`Dotted`), and
what holds of the empty list and of one more label holds of every list
(`AppendInduction`, from the length of a shortest counterexample, with a set in
the place of the predicate). The last dot of a text is where its last label
begins, since labels have no dot in them (`LastDot`). So a text that ends with
another text and a dot before it has that text's labels at its end
(`EndsByLabels`), which is what `endswith` asks (`UnderByLabels`); what stands
between the dots of a text are its labels (`LabelsStand`), which is what `split`
asks (`LabelOfText`); and a rule has a dot in it just when it has more than one
label (`DotInText`). `SpelledIsRead` says that lower, strip and rstrip undo each
spelling: they leave a plain text alone and take away no more than was added.
`Blocked` and `Classified` put these together.

`NetworkEventsDAGProofs`. The invariant follows the batch that an undisturbed
run has read through the file (`FileIsOwn`), its task's hands (`ReadIsOwn`), the
table and the producer, and counts insertions against executions. The summaries
are counted (`FewWrong`): of an undisturbed run, the wrong summaries that it is
past and the other runs that still hold an older batch are together fewer than
the runs. A late commit makes a summary wrong and lets go of the batch; the run
that commits reads the file again and then holds the right one; nobody gets hold
of a wrong one, since the file is the run's own.

Every safety property that a passing run checks, the refinement included, is
stated by one of these theorems. Only model-checked is all liveness
(`EveryItemIsHandled`, `RunEnds`, `Ends`, `StopForGoodEnds`): fairness needs
ENABLED, which the prover does not reason about.

## 6. Not modelled

Left out, each for the reason given:

* printing, the JSON report, wording, and the columns of events;
* the aggregations inside Spark: which file a summary is made from and what a
  failure leaves is modelled, the sums are Spark's;
* the callback of `sniff`: `main` passes none, and the streaming threads, which
  do, never get as far (section 3);
* the Npcap set-up and `list_interfaces`, which change nothing the program looks
  at; `produce_network_events`, which nothing calls;
* `PcapReader` and the field extraction of `PacketParser`: scapy's, represented
  by the captures that are allowed (`IsPacket`);
* the packet list of the traffic generator, and deployment.
