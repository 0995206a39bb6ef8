---------------------------- MODULE MainProgram ----------------------------
(***************************************************************************)
(* src/main.py as a sequence of phases: the input (a file, or a live       *)
(* capture by LivePacketCapture), V1, the five data engineering phases,    *)
(* each with the sink that it calls, and V2.  Any phase may fail, and what *)
(* an earlier run has left on the disk is still there.                     *)
(*                                                                         *)
(* What V1 and V2 decide about a packet is V1Engine's and V2Pipeline's     *)
(* subject.  Here a file stands for the packets that it was made from:     *)
(* disk.v1 for those that V1 filtered, disk.v2 for those that V2 read.     *)
(* The filters, and so the two files of the same packets, differ.  One     *)
(* event is emitted per packet (emitter.py): the events stand for their    *)
(* packets.                                                                *)
(***************************************************************************)
EXTENDS LivePacketCapture

CONSTANTS
  Bad,           \* the packets that PacketParser.parse raises on
  Captures,      \* what the file args.input may hold; None: no such file
  Earlier,       \* what earlier runs have left
  Environments,  \* sets of Dependencies
  Torn,          \* a file whose writer failed: nobody can read it
  Failures       \* the phases that may fail for a reason of their own

Dependencies == {"pyarrow", "pyspark", "java", "psycopg2", "postgres",
                 "kafka-python", "broker"}

Phases == {"temp_pcap", "apps", "report", "v1", "parquet", "etl", "postgres",
           "kafka", "v2"}

Summaries == <<"app_summary", "top_talkers", "protocol_dist", "blocked_apps">>

ASSUME MainAssumption ==
  /\ Bad \subseteq Packet
  /\ Captures \subseteq Seq(Packet) \cup {None}
  /\ \A env \in Environments : env \subseteq Dependencies
  /\ Failures \subseteq Phases
  /\ {None, Torn, Earlier} \cap Seq(Packet) = {}
  /\ None # Torn /\ Torn # Earlier /\ Earlier # None
  /\ None \notin Phases \cup {"load", "parse"}

VARIABLES
  phase,     \* where main is; it has raised in failed_in if that is not None
  failed_in,
  args,      \* [live, skip_external]
  env,       \* what is installed and running
  input,     \* the packets of this run, in packets of main()
  v2_input,  \* v2_input_path
  disk,      \* the files, by their role: the packets that each was made from
  table,     \* the rows of network_events, one batch per commit
  topic      \* which of this run's events are in network_events

main_vars == <<phase, failed_in, args, env, input, v2_input, disk, table, topic>>

vars == <<capture_vars, main_vars>>

\* What no phase after the input changes.
given == <<args, env, input, v2_input, capture_vars>>

InitialDisk == [input : Captures, temp : {None}, report : {Earlier}, v1 : {Earlier},
                v2 : {Earlier}, parquet : {None, Torn, Earlier},
                etl : {[s \in Range(Summaries) |-> Earlier]}]

Init ==
  /\ CaptureInit
  /\ phase = "load" /\ failed_in = None
  /\ args \in [live : BOOLEAN, skip_external : BOOLEAN]
  /\ env \in Environments
  /\ input = <<>> /\ v2_input = "input"
  /\ disk \in InitialDisk
  /\ table = <<>> /\ topic = {}

Go(next) == phase' = next /\ UNCHANGED failed_in

Raise == phase' = "raised" /\ failed_in' = phase

\* LivePacketCapture(...).sniff().
CaptureLive ==
  /\ phase = "load" /\ args.live
  /\ CaptureStep
  /\ UNCHANGED main_vars

\* What main does with the result, be it captured or replayed.
Loaded ==
  /\ phase = "load" /\ args.live /\ where \in {"returned", "raised"}
  /\ IF where = "raised" THEN Raise /\ UNCHANGED input
                         ELSE Go("temp_pcap") /\ input' = returned
  /\ UNCHANGED <<args, env, v2_input, disk, table, topic, capture_vars>>

\* Mutant: a file that is missing is read as nothing.
LoadFileUnchecked ==
  /\ phase = "load" /\ ~args.live
  /\ Go("parse") /\ input' = disk.input
  /\ UNCHANGED <<args, env, v2_input, disk, table, topic, capture_vars>>

LoadFile ==
  /\ phase = "load" /\ ~args.live
  /\ IF disk.input = None THEN Raise /\ UNCHANGED input
                          ELSE Go("parse") /\ input' = disk.input
  /\ UNCHANGED <<args, env, v2_input, disk, table, topic, capture_vars>>

\* Mutant: V2 is given args.input in live mode too.
WriteTempPcapUnused ==
  /\ phase = "temp_pcap"
  /\ Go("parse")
  /\ disk' = [disk EXCEPT !.temp = input]
  /\ UNCHANGED <<given, table, topic>>

\* The captured packets as a file for V2; if wrpcap fails, V2 gets args.input.  The
\* file is made before the try block: a failure of mkstemp ends main.
WriteTempPcap ==
  /\ phase = "temp_pcap"
  /\ \/ Go("parse") /\ disk' = [disk EXCEPT !.temp = input] /\ v2_input' = "temp"
     \/ /\ "temp_pcap" \in Failures /\ Go("parse")
        /\ disk' = [disk EXCEPT !.temp = Torn] /\ UNCHANGED v2_input
     \/ "temp_pcap" \in Failures /\ Raise /\ UNCHANGED <<disk, v2_input>>
  /\ UNCHANGED <<args, env, input, capture_vars, table, topic>>

\* Every packet is parsed, then the names of --block-app are converted.
Parse ==
  /\ phase = "parse"
  /\ IF Range(input) \cap Bad # {} THEN Raise ELSE Go("apps")
  /\ UNCHANGED <<given, disk, table, topic>>

ConvertApps ==
  /\ phase = "apps"
  /\ \/ Go("report")
     \/ "apps" \in Failures /\ Raise
  /\ UNCHANGED <<given, disk, table, topic>>

\* A phase writes its file whole, or the file is torn and main is over.
Write(file, contents, next) ==
  /\ \/ Go(next) /\ disk' = [disk EXCEPT ![file] = contents]
     \/ phase \in Failures /\ Raise /\ disk' = [disk EXCEPT ![file] = Torn]
  /\ UNCHANGED <<given, table, topic>>

\* Analysis, the printed report, whose percentages divide by the number of packets
\* (main.py:142), and security_report.json.
Report ==
  /\ phase = "report"
  /\ \/ input # <<>> /\ Write("report", input, "v1")
     \/ input = <<>> /\ Raise /\ UNCHANGED <<given, disk, table, topic>>

\* Mutant: a failure of wrpcap is passed over, as those of the sinks are.
WriteV1Try ==
  /\ phase = "v1" /\ Go("parquet")
  /\ \/ disk' = [disk EXCEPT !.v1 = input]
     \/ "v1" \in Failures /\ disk' = [disk EXCEPT !.v1 = Torn]
  /\ UNCHANGED <<given, table, topic>>

\* The packets of flows that are not blocked, in the end.
WriteV1 == phase = "v1" /\ Write("v1", input, "parquet")

\* Mutant: a file that is there is not written again.
WriteParquetOnce ==
  /\ phase = "parquet"
  /\ IF "pyarrow" \notin env \/ disk.parquet # None
     THEN Go("etl") /\ UNCHANGED <<given, disk, table, topic>>
     ELSE Write("parquet", input, "etl")

\* Without pyarrow the ImportError is caught and the old file stays.
WriteParquet ==
  /\ phase = "parquet"
  /\ IF "pyarrow" \notin env
     THEN Go("etl") /\ UNCHANGED <<given, disk, table, topic>>
     ELSE Write("parquet", input, "etl")

\* Mutant: a failing job of the ETL is passed over, as a missing library is.
SummarisesUpToTry(n) ==
  /\ disk' = [disk EXCEPT !.etl = [s \in Range(Summaries) |->
                IF s \in Range(SubSeq(Summaries, 1, n)) THEN disk.parquet
                ELSE IF n < Len(Summaries) /\ s = Summaries[n + 1] THEN Torn
                ELSE @[s]]]
  /\ n < Len(Summaries) => "etl" \in Failures
  /\ Go("postgres")

\* NetworkEventETL.run writes the summaries of the first n kinds: all of them, or
\* an exception, which is no ImportError, ends main.
SummarisesUpTo(n) ==
  /\ disk' = [disk EXCEPT !.etl = [s \in Range(Summaries) |->
                IF s \in Range(SubSeq(Summaries, 1, n)) THEN disk.parquet
                ELSE IF n < Len(Summaries) /\ s = Summaries[n + 1] THEN Torn
                ELSE @[s]]]
  /\ IF n = Len(Summaries) THEN Go("postgres") ELSE "etl" \in Failures /\ Raise

TransformEvents ==
  /\ phase = "etl"
  /\ \/ ~({"pyspark", "java"} \subseteq env) /\ Go("postgres") /\ UNCHANGED disk
     \/ /\ {"pyspark", "java"} \subseteq env /\ disk.parquet \in {None, Torn}
        /\ Raise /\ UNCHANGED disk
     \/ /\ {"pyspark", "java"} \subseteq env /\ disk.parquet \notin {None, Torn}
        /\ \E n \in 0 .. Len(Summaries) : SummarisesUpTo(n)
  /\ UNCHANGED <<given, table, topic>>

\* Mutant: every row is committed.
InsertRowByRow ==
  \/ table' = Append(table, input) /\ Go("kafka")
  \/ /\ "postgres" \in Failures
     /\ \E n \in 1 .. Len(input) : table' = Append(table, SubSeq(input, 1, n))
     /\ Raise

\* One commit for all rows; what fails before it is rolled back by close, and if
\* the commit itself fails, the server may have done it.
InsertRows ==
  \/ table' = Append(table, input) /\ Go("kafka")
  \/ "postgres" \in Failures /\ Raise /\ table' \in {table, Append(table, input)}

\* PostgresSink.write returns False without its driver or a server; main does not
\* look at the result.
LoadPostgres ==
  /\ phase = "postgres"
  /\ \/ args.skip_external /\ Go("kafka") /\ UNCHANGED table
     \/ ~args.skip_external /\ ~({"psycopg2", "postgres"} \subseteq env)
        /\ Go("kafka") /\ UNCHANGED table
     \/ ~args.skip_external /\ {"psycopg2", "postgres"} \subseteq env /\ InsertRows
  /\ UNCHANGED <<given, disk, topic>>

\* The producer sends in the background.  flush waits until every message is
\* sent or given up; what became of it is in futures that nobody looks at.
SendEvents ==
  \/ topic' = DOMAIN input /\ Go("v2")
  \/ /\ "kafka" \in Failures
     /\ topic' \in SUBSET DOMAIN input
     /\ Go("v2") \/ Raise

\* KafkaSink.publish returns False without its library or a broker; main does not
\* look at the result here either.  The import of the DAG changes nothing.
PublishKafka ==
  /\ phase = "kafka"
  /\ \/ args.skip_external /\ Go("v2") /\ UNCHANGED topic
     \/ /\ ~args.skip_external /\ ~({"kafka-python", "broker"} \subseteq env)
        /\ Go("v2") /\ UNCHANGED topic
     \/ ~args.skip_external /\ {"kafka-python", "broker"} \subseteq env /\ SendEvents
  /\ UNCHANGED <<given, disk, table>>

\* V2Pipeline.run reads its file again, and writes what its workers forwarded.
RunV2 ==
  /\ phase = "v2"
  /\ LET capture == disk[v2_input]
     IN  IF capture \in {None, Torn} \/ Range(capture) \cap Bad # {}
         THEN Raise /\ UNCHANGED <<given, disk, table, topic>>
         ELSE Write("v2", capture, "done")

Step == \/ CaptureLive \/ Loaded \/ LoadFile \/ WriteTempPcap \/ Parse \/ ConvertApps
        \/ Report \/ WriteV1 \/ WriteParquet \/ TransformEvents
        \/ LoadPostgres \/ PublishKafka \/ RunV2

Over == phase \in {"done", "raised"} /\ UNCHANGED vars

Next == Step \/ Over

Spec == Init /\ [][Next]_vars
-----------------------------------------------------------------------------
(* What main promises.                                                     *)

MainTypeOK ==
  /\ CaptureTypeOK
  /\ phase \in Phases \cup {"load", "parse", "done", "raised"}
  /\ failed_in # None <=> phase = "raised"
  /\ input \in Seq(Packet) /\ topic \subseteq DOMAIN input
  /\ v2_input \in {"input", "temp"}

\* Something of this run is in a file.
Fresh(contents) == contents \notin {None, Torn, Earlier}

\* Wherever main ends, and for an empty capture too (main.py:142), what is on the
\* disk is the work of a prefix of its phases: no sink and no V2 file has
\* anything of a run whose V1 file or report is missing or torn, and V2 writes
\* nothing unless every phase before it came to an end.
OutputsInOrder ==
  /\ \/ Fresh(disk.parquet) \/ table # <<>> \/ topic # {} \/ Fresh(disk.v2)
     \/ \E s \in Range(Summaries) : disk.etl[s] = input
     => disk.report = input /\ disk.v1 = input
  /\ Fresh(disk.v2) => phase = "done" /\ Torn \notin Range(disk.etl)

\* The sinks tell the same story: the database has all the rows of a run or none,
\* wherever main ends (postgres_sink.py:49-75); after the ETL phase and with pyarrow,
\* the Parquet file and every summary made from it are of the same packets.  An ETL
\* that fails on its way leaves new, torn and older summaries side by side, and
\* nothing repairs them: but its exception has ended main (main.py:291-292 catch an
\* ImportError only), and nothing of the run has reached the database, the topic or
\* V2's file, where it would stand beside such a mixture.
SinksAgree ==
  /\ table \in {<<>>, <<input>>}
  /\ phase \in {"postgres", "kafka", "v2", "done"} /\ "pyarrow" \in env =>
       /\ disk.parquet = input
       /\ \E contents \in {Earlier, input} :
            /\ disk.etl = [s \in Range(Summaries) |-> contents]
            /\ {"pyspark", "java"} \subseteq env => contents = input
  /\ (\E s, r \in Range(Summaries) : disk.etl[s] # disk.etl[r]) =>
       failed_in = "etl" /\ table = <<>> /\ topic = {} /\ disk.v2 = Earlier

\* Whatever a run that ends was given, V2 has filtered the packets that V1 filtered,
\* those of a live capture too, which only a temporary file hands to V2; unless that
\* file could not be written (main.py:76-92, main.py:335-348).  What the two filters
\* let through differs.
SameTrafficForBoth ==
  phase = "done" /\ disk.temp # Torn => disk.v2 = disk.v1

\* README.md:1512: the reports always complete even when a downstream dependency
\* is missing, if nothing else is wrong.
MissingDependencyEndsNothing ==
  phase = "raised" /\ disk.parquet # Torn => failed_in \notin {"parquet", "etl", "postgres", "kafka"}
=============================================================================
