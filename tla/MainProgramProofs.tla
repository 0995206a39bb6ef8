------------------------- MODULE MainProgramProofs -------------------------
(***************************************************************************)
(* Proofs about MainProgram, for every input, every capture, every set of  *)
(* dependencies and every phase failing, and about the live capture that   *)
(* may be its input; and about streaming, for every number of streams and  *)
(* of threads.                                                             *)
(***************************************************************************)
EXTENDS MainProgram, LiveStreaming, SequenceLemmas

-----------------------------------------------------------------------------
(* The input.                                                              *)

LEMMA PartsAreSequences ==
  ASSUME NEW list \in Seq(Packet), NEW part \in PartsOf(list)
  PROVE  part \in Seq(Packet)
<1>1. PICK k \in 0 .. Len(list) : part = SubSeq(list, 1, k)
  BY DEF PartsOf
<1>. QED BY <1>1

LEMMA SeqUpToAreSequences ==
  ASSUME NEW n \in Nat PROVE SeqUpTo(Packet, n) \subseteq Seq(Packet)
  BY DEF SeqUpTo

\* One call of sniff keeps to its types (live_capture.py:197-222).
LEMMA CaptureStepType == CaptureTypeOK /\ CaptureStep => CaptureTypeOK'
<1>. SUFFICES ASSUME CaptureTypeOK, CaptureStep PROVE CaptureTypeOK'
  OBVIOUS
<1>. USE DEF CaptureTypeOK
<1>1. CASE ResolveInterface
  BY <1>1 DEF ResolveInterface
<1>2. CASE Sniff
  BY <1>2, CaptureAssumption, SeqUpToAreSequences DEF Sniff
<1>3. CASE Save
  BY <1>3, PartsAreSequences DEF Save
<1>4. CASE CountPackets
  BY <1>4 DEF CountPackets
<1>5. CASE Simulate
  BY <1>5, CaptureAssumption DEF Simulate
<1>. QED BY <1>1, <1>2, <1>3, <1>4, <1>5 DEF CaptureStep

\* What was returned is a sequence of packets.
Returns == where = "returned" => returned # None

LEMMA ReturnsStep == CaptureTypeOK /\ Returns /\ CaptureStep => Returns'
<1>. SUFFICES ASSUME CaptureTypeOK, Returns, CaptureStep PROVE Returns'
  OBVIOUS
<1>1. None \notin Seq(Packet)
  BY MainAssumption
<1>. QED BY <1>1, CaptureAssumption
         DEF CaptureTypeOK, Returns, CaptureStep, ResolveInterface, Sniff, Save,
             CountPackets, Simulate

-----------------------------------------------------------------------------
(* The phases.                                                             *)

\* The phase that main is in, or was in when it raised: all before it are over.
stage == IF phase = "raised" THEN failed_in ELSE phase

\* The phases from each of these on.
FromV2       == {"v2", "done"}
FromKafka    == {"kafka"} \cup FromV2
FromPostgres == {"postgres"} \cup FromKafka
FromETL      == {"etl"} \cup FromPostgres
FromParquet  == {"parquet"} \cup FromETL
FromV1       == {"v1"} \cup FromParquet
FromReport   == {"report"} \cup FromV1
FromParse    == {"parse", "apps"} \cup FromReport

Untouched == [s \in Range(Summaries) |-> Earlier]

MainTypes ==
  /\ phase \in FromParse \cup {"load", "temp_pcap", "raised"}
  /\ failed_in \in (FromParse \ {"done"}) \cup {"load", "temp_pcap", None}
  /\ failed_in # None <=> phase = "raised"
  /\ input \in Seq(Packet) /\ topic \subseteq DOMAIN input
  /\ v2_input \in {"input", "temp"}
  /\ DOMAIN disk = {"input", "temp", "report", "v1", "v2", "parquet", "etl"}
  /\ disk.input \in Seq(Packet) \cup {None}
  /\ DOMAIN disk.etl = Range(Summaries)

Types == CaptureTypeOK /\ Returns /\ MainTypes

\* What has not begun has left no trace of this run.
NotBegun ==
  /\ stage = "load" => v2_input = "input" /\ input = <<>>
  /\ stage = "temp_pcap" => v2_input = "input"
  /\ stage \in {"load", "temp_pcap"} => disk.temp = None
  /\ stage \notin FromParquet => disk.parquet \in {None, Torn, Earlier}
  /\ stage \notin FromETL \/ phase = "etl" => disk.etl = Untouched
  /\ stage \notin FromPostgres \/ phase = "postgres" => table = <<>>
  /\ stage \notin FromKafka \/ phase = "kafka" => topic = {}
  /\ stage \notin FromV2 \/ phase = "v2" => disk.v2 = Earlier
  /\ phase # "done" => disk.v2 \in {Earlier, Torn}

\* What is over has left its work.
Done ==
  /\ stage \in FromParse =>
       \/ v2_input = "temp" /\ disk.temp = input
       \/ v2_input = "input" /\ disk.temp = Torn
       \/ v2_input = "input" /\ disk.input = input
  /\ stage \in FromV1 => disk.report = input
  /\ stage \in FromParquet => disk.v1 = input
  /\ stage \in FromETL /\ "pyarrow" \in env => disk.parquet = input
  /\ stage \in FromPostgres =>
       /\ \/ disk.etl = Untouched
          \/ /\ disk.parquet \notin {None, Torn}
             /\ disk.etl = [s \in Range(Summaries) |-> disk.parquet]
       /\ {"pyspark", "java"} \subseteq env =>
            disk.etl = [s \in Range(Summaries) |-> disk.parquet]
  /\ table \in {<<>>, <<input>>}
  /\ phase = "done" => disk.v2 = disk[v2_input]

Inv == Types /\ NotBegun /\ Done

LEMMA InvInit == Init => Inv
<1>. SUFFICES ASSUME Init PROVE Inv
  OBVIOUS
<1>1. CaptureTypeOK /\ Returns
  BY DEF Init, CaptureInit, CaptureTypeOK, Returns
<1>2. /\ phase = "load" /\ failed_in = None /\ stage = "load"
      /\ input = <<>> /\ v2_input = "input" /\ table = <<>> /\ topic = {}
      /\ DOMAIN disk = {"input", "temp", "report", "v1", "v2", "parquet", "etl"}
      /\ disk.input \in Seq(Packet) \cup {None} /\ disk.temp = None
      /\ disk.parquet \in {None, Torn, Earlier} /\ disk.v2 = Earlier
      /\ disk.etl = Untouched
  BY MainAssumption DEF Init, InitialDisk, Untouched, stage
<1>. USE DEF FromParse, FromReport, FromV1, FromParquet, FromETL, FromPostgres, FromKafka,
             FromV2
<1>3. Types
  BY <1>1, <1>2, MainAssumption DEF Types, MainTypes, Untouched
<1>4. NotBegun
  BY <1>2 DEF NotBegun
<1>5. Done
  BY <1>2 DEF Done
<1>. QED BY <1>3, <1>4, <1>5 DEF Inv

LEMMA CaptureKept ==
  ASSUME CaptureTypeOK, Returns, UNCHANGED capture_vars PROVE CaptureTypeOK' /\ Returns'
  BY DEF CaptureTypeOK, Returns, capture_vars

LEMMA InvStep == Inv /\ [Next]_vars => Inv'
<1>. SUFFICES ASSUME Inv, [Next]_vars PROVE Inv'
  OBVIOUS
<1>. USE DEF FromParse, FromReport, FromV1, FromParquet, FromETL, FromPostgres, FromKafka,
             FromV2
<1>1. CASE CaptureLive
  <2>1. Types'
    BY <1>1, CaptureStepType, ReturnsStep DEF Inv, Types, MainTypes, CaptureLive, main_vars
  <2>2. NotBegun' /\ Done'
    BY <1>1 DEF Inv, NotBegun, Done, CaptureLive, main_vars, stage, Untouched
  <2>. QED BY <2>1, <2>2 DEF Inv
<1>2. CASE Loaded
  <2>1. Types'
    <3>1. UNCHANGED capture_vars
      BY <1>2 DEF NotBegun, Loaded, Go, Raise
    <3>2. MainTypes'
      BY <1>2, MainAssumption DEF Inv, Types, NotBegun, MainTypes, Phases, Loaded, Go, Raise,
                                    stage, CaptureTypeOK, Returns
    <3>. QED BY <3>1, <3>2, CaptureKept DEF Inv, Types
  <2>2. NotBegun'
    BY <1>2, MainAssumption DEF Inv, Types, MainTypes, NotBegun, Loaded, Go, Raise, stage, Untouched
  <2>3. Done'
    BY <1>2, MainAssumption DEF Inv, Types, MainTypes, NotBegun, Done, Loaded, Go, Raise, stage, Untouched
  <2>. QED BY <2>1, <2>2, <2>3 DEF Inv
<1>3. CASE LoadFile
  <2>1. Types'
    <3>1. UNCHANGED capture_vars
      BY <1>3 DEF NotBegun, LoadFile, Go, Raise
    <3>2. MainTypes'
      BY <1>3, MainAssumption DEF Inv, Types, NotBegun, MainTypes, Phases, LoadFile, Go, Raise,
                                    stage
    <3>. QED BY <3>1, <3>2, CaptureKept DEF Inv, Types
  <2>2. NotBegun'
    BY <1>3, MainAssumption DEF Inv, Types, MainTypes, NotBegun, LoadFile, Go, Raise, stage, Untouched
  <2>3. Done'
    BY <1>3, MainAssumption DEF Inv, Types, MainTypes, NotBegun, Done, LoadFile, Go, Raise, stage, Untouched
  <2>. QED BY <2>1, <2>2, <2>3 DEF Inv
<1>4. CASE WriteTempPcap
  <2>1. Types'
    <3>1. UNCHANGED capture_vars
      BY <1>4 DEF WriteTempPcap, Go, Raise
    <3>2. MainTypes'
      BY <1>4, MainAssumption DEF Inv, Types, NotBegun, MainTypes, Phases, WriteTempPcap, Go, Raise
    <3>. QED BY <3>1, <3>2, CaptureKept DEF Inv, Types
  <2>2. NotBegun'
    BY <1>4, MainAssumption DEF Inv, Types, MainTypes, NotBegun, WriteTempPcap, Go, Raise, stage, Untouched
  <2>3. Done'
    BY <1>4, MainAssumption DEF Inv, Types, MainTypes, NotBegun, Done, WriteTempPcap, Go, Raise, stage, Untouched
  <2>. QED BY <2>1, <2>2, <2>3 DEF Inv
<1>5. CASE Parse \/ ConvertApps
  <2>1. Types'
    <3>1. UNCHANGED capture_vars
      BY <1>5 DEF Parse, ConvertApps, Go, Raise, given
    <3>2. MainTypes'
      BY <1>5, MainAssumption DEF Inv, Types, NotBegun, MainTypes, Phases, Parse, ConvertApps, Go, Raise, given
    <3>. QED BY <3>1, <3>2, CaptureKept DEF Inv, Types
  <2>2. NotBegun'
    BY <1>5, MainAssumption DEF Inv, Types, MainTypes, NotBegun, Parse, ConvertApps, Go, Raise, given, stage, Untouched
  <2>3. Done'
    BY <1>5, MainAssumption DEF Inv, Types, MainTypes, Done, Parse, ConvertApps, Go, Raise, given, stage, Untouched
  <2>. QED BY <2>1, <2>2, <2>3 DEF Inv
<1>6. CASE Report
  <2>1. Types'
    <3>1. UNCHANGED capture_vars
      BY <1>6 DEF Report, Write, Go, Raise, given
    <3>2. MainTypes'
      BY <1>6, MainAssumption DEF Inv, Types, NotBegun, MainTypes, Phases, Report, Write, Go, Raise, given
    <3>. QED BY <3>1, <3>2, CaptureKept DEF Inv, Types
  <2>2. NotBegun'
    BY <1>6, MainAssumption DEF Inv, Types, MainTypes, NotBegun, Report, Write, Go, Raise, given, stage, Untouched
  <2>3. Done'
    BY <1>6, MainAssumption DEF Inv, Types, MainTypes, NotBegun, Done, Report, Write, Go, Raise, given,
                stage, Untouched
  <2>. QED BY <2>1, <2>2, <2>3 DEF Inv
<1>7. CASE WriteV1
  <2>1. Types'
    <3>1. UNCHANGED capture_vars
      BY <1>7 DEF WriteV1, Write, Go, Raise, given
    <3>2. MainTypes'
      BY <1>7, MainAssumption DEF Inv, Types, NotBegun, MainTypes, Phases, WriteV1, Write, Go, Raise, given
    <3>. QED BY <3>1, <3>2, CaptureKept DEF Inv, Types
  <2>2. NotBegun'
    BY <1>7, MainAssumption DEF Inv, Types, MainTypes, NotBegun, WriteV1, Write, Go, Raise, given, stage, Untouched
  <2>3. Done'
    BY <1>7, MainAssumption DEF Inv, Types, MainTypes, NotBegun, Done, WriteV1, Write, Go, Raise, given,
                stage, Untouched
  <2>. QED BY <2>1, <2>2, <2>3 DEF Inv
<1>8. CASE WriteParquet
  <2>1. Types'
    <3>1. UNCHANGED capture_vars
      BY <1>8 DEF WriteParquet, Write, Go, Raise, given
    <3>2. MainTypes'
      BY <1>8, MainAssumption DEF Inv, Types, NotBegun, MainTypes, Phases, WriteParquet, Write, Go, Raise, given
    <3>. QED BY <3>1, <3>2, CaptureKept DEF Inv, Types
  <2>2. NotBegun'
    BY <1>8, MainAssumption DEF Inv, Types, MainTypes, NotBegun, WriteParquet, Write, Go, Raise, given, stage, Untouched
  <2>3. Done'
    BY <1>8, MainAssumption DEF Inv, Types, MainTypes, NotBegun, Done, WriteParquet, Write, Go, Raise, given,
                stage, Untouched
  <2>. QED BY <2>1, <2>2, <2>3 DEF Inv
<1>9. CASE TransformEvents
  <2>1. Types'
    <3>1. UNCHANGED capture_vars
      BY <1>9 DEF TransformEvents, SummarisesUpTo, Go, Raise, given
    <3>2. MainTypes'
      BY <1>9, MainAssumption DEF Inv, Types, NotBegun, MainTypes, Phases, TransformEvents, SummarisesUpTo, Go, Raise, given
    <3>. QED BY <3>1, <3>2, CaptureKept DEF Inv, Types
  <2>2. NotBegun'
    BY <1>9, MainAssumption DEF Inv, Types, MainTypes, NotBegun, TransformEvents, SummarisesUpTo, Go, Raise, given, stage, Untouched
  <2>3. Done'
    <3>1. /\ phase = "etl" /\ stage = "etl" /\ disk.etl = Untouched
          /\ UNCHANGED <<args, env, input, v2_input, table, topic>>
          /\ \A file \in DOMAIN disk \ {"etl"} : disk'[file] = disk[file]
          /\ phase' \in {"postgres", "raised"} /\ stage' \in {"etl", "postgres"}
          /\ phase' = "raised" => stage' = "etl"
      BY <1>9, MainAssumption
         DEF Inv, Types, MainTypes, NotBegun, TransformEvents, SummarisesUpTo, Go, Raise,
             given, stage
    <3>2. phase' = "postgres" =>
            \/ disk' = disk /\ ~({"pyspark", "java"} \subseteq env)
            \/ /\ disk.parquet \notin {None, Torn}
               /\ disk'.etl = [s \in Range(Summaries) |-> disk.parquet]
      <4>1. SubSeq(Summaries, 1, Len(Summaries)) = Summaries
        <5>1. \A S \in Seq(Range(Summaries)) : SubSeq(S, 1, Len(S)) = S
          OBVIOUS
        <5>2. Summaries \in Seq(Range(Summaries))
          BY DEF Summaries, Range
        <5>. QED BY <5>1, <5>2
      <4>2. ASSUME SummarisesUpTo(Len(Summaries))
            PROVE  disk'.etl = [s \in Range(Summaries) |-> disk.parquet]
        <5>. DEFINE Whole == [s \in Range(Summaries) |-> disk.parquet]
        <5>1. disk' = [disk EXCEPT !.etl = Whole]
          BY <4>1, <4>2 DEF SummarisesUpTo
        <5>. HIDE DEF Whole
        <5>2. disk'.etl = Whole
          BY <5>1 DEF Inv, Types, MainTypes
        <5>. QED BY <5>2 DEF Whole
      <4>3. ASSUME NEW n \in 0 .. Len(Summaries), SummarisesUpTo(n), phase' = "postgres"
            PROVE  n = Len(Summaries)
        BY <4>3 DEF SummarisesUpTo, Raise
      <4>. QED BY <1>9, <4>2, <4>3 DEF TransformEvents, Raise
    <3>. QED BY <3>1, <3>2 DEF Inv, Types, MainTypes, Done, Untouched
  <2>. QED BY <2>1, <2>2, <2>3 DEF Inv
<1>10. CASE LoadPostgres
  <2>1. Types'
    <3>1. UNCHANGED capture_vars
      BY <1>10 DEF LoadPostgres, InsertRows, Go, Raise, given
    <3>2. MainTypes'
      BY <1>10, MainAssumption DEF Inv, Types, NotBegun, MainTypes, Phases, LoadPostgres, InsertRows, Go, Raise, given
    <3>. QED BY <3>1, <3>2, CaptureKept DEF Inv, Types
  <2>2. NotBegun'
    BY <1>10, MainAssumption DEF Inv, Types, MainTypes, NotBegun, LoadPostgres, InsertRows, Go, Raise, given, stage, Untouched
  <2>3. Done'
    BY <1>10, MainAssumption DEF Inv, Types, MainTypes, NotBegun, Done, LoadPostgres, InsertRows, Go, Raise, given,
                stage, Untouched
  <2>. QED BY <2>1, <2>2, <2>3 DEF Inv
<1>11. CASE PublishKafka
  <2>1. Types'
    <3>1. UNCHANGED capture_vars
      BY <1>11 DEF PublishKafka, SendEvents, Go, Raise, given
    <3>2. MainTypes'
      BY <1>11, MainAssumption DEF Inv, Types, NotBegun, MainTypes, Phases, PublishKafka, SendEvents, Go, Raise, given
    <3>. QED BY <3>1, <3>2, CaptureKept DEF Inv, Types
  <2>2. NotBegun'
    BY <1>11, MainAssumption DEF Inv, Types, MainTypes, NotBegun, PublishKafka, SendEvents, Go, Raise, given, stage, Untouched
  <2>3. Done'
    BY <1>11, MainAssumption DEF Inv, Types, MainTypes, NotBegun, Done, PublishKafka, SendEvents, Go, Raise, given,
                stage, Untouched
  <2>. QED BY <2>1, <2>2, <2>3 DEF Inv
<1>12. CASE RunV2
  <2>1. Types'
    <3>1. UNCHANGED capture_vars
      BY <1>12 DEF RunV2, Write, Go, Raise, given
    <3>2. MainTypes'
      BY <1>12, MainAssumption DEF Inv, Types, NotBegun, MainTypes, Phases, RunV2, Write, Go, Raise, given
    <3>. QED BY <3>1, <3>2, CaptureKept DEF Inv, Types
  <2>2. NotBegun'
    BY <1>12, MainAssumption DEF Inv, Types, MainTypes, NotBegun, RunV2, Write, Go, Raise, given, stage, Untouched
  <2>3. Done'
    BY <1>12, MainAssumption DEF Inv, Types, MainTypes, NotBegun, Done, RunV2, Write, Go, Raise, given,
                stage, Untouched
  <2>. QED BY <2>1, <2>2, <2>3 DEF Inv
<1>13. CASE UNCHANGED vars
  <2>1. UNCHANGED capture_vars /\ UNCHANGED main_vars
    BY <1>13 DEF vars
  <2>2. Types'
    BY <2>1, CaptureKept DEF Inv, Types, MainTypes, main_vars
  <2>3. NotBegun' /\ Done'
    BY <2>1 DEF Inv, NotBegun, Done, main_vars, stage, Untouched
  <2>. QED BY <2>2, <2>3 DEF Inv
<1>. QED BY <1>1, <1>2, <1>3, <1>4, <1>5, <1>6, <1>7, <1>8, <1>9, <1>10, <1>11, <1>12,
            <1>13 DEF Next, Step, Over

LEMMA Invariance == Spec => []Inv
  BY InvInit, InvStep, PTL DEF Spec

-----------------------------------------------------------------------------
(* What follows.                                                           *)

\* main's state stays in its types, with any input and whatever fails (main.py).
THEOREM TypeCorrect == Spec => []MainTypeOK
<1>1. Inv => MainTypeOK
  BY MainAssumption
     DEF Inv, Types, MainTypes, MainTypeOK, Phases, FromParse, FromReport, FromV1,
         FromParquet, FromETL, FromPostgres, FromKafka, FromV2
<1>. QED BY <1>1, Invariance, PTL

\* Wherever main ends, no sink and no V2 file has anything of a run whose report or
\* V1 file is missing or torn (main.py:142-348, in this order).
THEOREM OutputsAreInOrder == Spec => []OutputsInOrder
<1>1. Inv => OutputsInOrder
  <2>. SUFFICES ASSUME Inv PROVE OutputsInOrder
    OBVIOUS
  <2>. USE DEF Inv, Types, MainTypes, NotBegun, Done, FromParquet, FromETL, FromPostgres,
               FromKafka, FromV2, FromV1, Untouched
  <2>1. ASSUME \/ Fresh(disk.parquet) \/ table # <<>> \/ topic # {} \/ Fresh(disk.v2)
               \/ \E s \in Range(Summaries) : disk.etl[s] = input
        PROVE  stage \in FromParquet
    <3>1. Earlier # input
      BY MainAssumption
    <3>. QED BY <2>1, <3>1 DEF Fresh, stage
  <2>2. ASSUME Fresh(disk.v2) PROVE phase = "done" /\ Torn \notin Range(disk.etl)
    <3>1. phase = "done" /\ stage = "done"
      BY <2>2 DEF Fresh, stage
    <3>2. Torn \notin Range(disk.etl)
      BY <3>1, MainAssumption DEF Range
    <3>. QED BY <3>1, <3>2
  <2>. QED BY <2>1, <2>2 DEF OutputsInOrder
<1>. QED BY <1>1, Invariance, PTL

\* The database has all the rows of a run or none; after the ETL, with pyarrow, the
\* Parquet file and the summaries are of the same packets; and summaries that are not
\* of the same packets are left by an ETL that ended main, with nothing of the run in
\* the later sinks (main.py:254-317).
THEOREM SinksAreOfOneRun == Spec => []SinksAgree
<1>1. Inv => SinksAgree
  <2>. SUFFICES ASSUME Inv PROVE SinksAgree
    OBVIOUS
  <2>. USE DEF FromETL, FromPostgres, FromKafka, FromV2
  <2>1. ASSUME phase \in FromPostgres, "pyarrow" \in env
        PROVE  /\ disk.parquet = input
               /\ \E contents \in {Earlier, input} :
                    /\ disk.etl = [s \in Range(Summaries) |-> contents]
                    /\ {"pyspark", "java"} \subseteq env => contents = input
    <3>1. stage \in FromPostgres /\ stage \in FromETL
      BY <2>1 DEF stage
    <3>2. disk.parquet = input
      BY <2>1, <3>1 DEF Inv, Done
    <3>. QED BY <2>1, <3>1, <3>2 DEF Inv, Done, Untouched
  <2>2. ASSUME NEW s \in Range(Summaries), NEW r \in Range(Summaries),
               disk.etl[s] # disk.etl[r]
        PROVE  failed_in = "etl" /\ table = <<>> /\ topic = {} /\ disk.v2 = Earlier
    <3>1. stage \notin FromPostgres
      BY <2>2 DEF Inv, Done, Untouched
    <3>2. disk.etl # Untouched
      BY <2>2 DEF Untouched
    <3>3. stage = "etl" /\ phase # "etl"
      BY <3>1, <3>2 DEF Inv, NotBegun
    <3>4. failed_in = "etl"
      BY <3>3 DEF stage
    <3>. QED BY <3>3, <3>4 DEF Inv, NotBegun
  <2>. QED BY <2>1, <2>2 DEF Inv, Done, SinksAgree
<1>. QED BY <1>1, Invariance, PTL

\* V2 of a run that ends has filtered the packets that V1 filtered (main.py:76-92,
\* main.py:335-348), unless the temporary capture could not be written.
THEOREM BothSeeTheSameTraffic == Spec => []SameTrafficForBoth
<1>1. Inv => SameTrafficForBoth
  BY DEF Inv, Done, SameTrafficForBoth, stage, FromParse, FromReport, FromV1, FromParquet,
         FromETL, FromPostgres, FromKafka, FromV2
<1>. QED BY <1>1, Invariance, PTL

-----------------------------------------------------------------------------
(* What a capture leaves.                                                  *)

\* How far the call has come: what it listens to, and what it has in its hands.
Captured ==
  /\ world.ifaces \in IfaceLists
  /\ where \in {"resolve", "sniff", "save", "count"} => reason = None
  /\ where \in {"sniff", "save", "count"} => ListensWhereAsked
  /\ where \in {"resolve", "sniff", "save"} => saved = None
  /\ where = "resolve" => live = <<>>
  /\ where \in {"save", "count"} => packets = live
  /\ where = "count" => saved = IF request.pcap_save THEN packets ELSE None
  /\ where = "simulate" =>
       /\ reason # None
       /\ request.pcap_save =>
            IF reason = "timeout" THEN saved = <<>> ELSE saved \in PartsOf(packets) \cup {None}
  /\ LiveOrReplay

\* The interface is resolved to one that was meant (live_capture.py:113-144).
LEMMA ResolvesAsAsked ==
  ASSUME world.ifaces \in IfaceLists, NEW chosen, chosen # None,
         chosen = IF request.interface = None THEN AutoSelected ELSE Named(request.interface),
         resolved' = chosen, UNCHANGED <<request, world>>
  PROVE  ListensWhereAsked'
<1>. PICK ifaces : ifaces = world.ifaces
  OBVIOUS
<1>1. /\ DOMAIN ifaces = 1 .. Len(ifaces) /\ Len(ifaces) \in Nat
      /\ \A k \in DOMAIN ifaces : ifaces[k] \in Range(ifaces)
  <2>1. ifaces \in Seq(Range(ifaces))
    BY CaptureAssumption
  <2>. QED BY <2>1
<1>2. Names = [k \in DOMAIN ifaces |-> ifaces[k].name] /\ Names' = Names
  BY DEF Names
<1>3. CASE request.interface = None
  <2>1. Candidates # {} /\ chosen = Names[Min(Candidates)]
    BY <1>3 DEF AutoSelected
  <2>2. Candidates \subseteq Nat /\ Candidates \subseteq DOMAIN ifaces
    BY <1>1 DEF Candidates
  <2>3. Min(Candidates) \in Candidates
    BY <2>1, <2>2, Least
  <2>4. PICK k \in Candidates : k = Min(Candidates)
    BY <2>3
  <2>5. /\ k \in DOMAIN ifaces /\ ifaces[k] \in Range(ifaces)
        /\ ~ifaces[k].loopback /\ ifaces[k].hwaddr /\ chosen = ifaces[k].name
    BY <1>1, <1>2, <2>1, <2>2, <2>4 DEF Candidates
  <2>. QED BY <1>3, <2>5 DEF ListensWhereAsked
<1>4. CASE request.interface # None
  <2>. DEFINE ending == {k \in DOMAIN Names : <<Names[k], request.interface>> \in EndsWith}
  <2>1. CASE request.interface \in Range(Names) \/ ending = {}
    BY <1>2, <1>4, <2>1 DEF Named, ListensWhereAsked
  <2>2. CASE request.interface \notin Range(Names) /\ ending # {}
    <3>1. chosen = Names[Min(ending)]
      BY <1>4, <2>2 DEF Named
    <3>2. ending \subseteq Nat /\ ending \subseteq DOMAIN Names
      BY <1>1, <1>2
    <3>3. Min(ending) \in ending
      <4>. HIDE DEF ending
      <4>. QED BY <2>2, <3>2, Least
    <3>4. PICK k \in ending : k = Min(ending)
      BY <3>3
    <3>5. Names[k] \in Range(Names) /\ <<Names[k], request.interface>> \in EndsWith
      BY <3>2, <3>4 DEF Range
    <3>6. chosen = Names[k]
      BY <3>1, <3>4
    <3>. HIDE DEF ending
    <3>. QED BY <1>2, <1>4, <2>2, <3>5, <3>6 DEF ListensWhereAsked
  <2>. QED BY <2>1, <2>2
<1>. QED BY <1>3, <1>4

LEMMA CapturedStep == CaptureTypeOK /\ Captured /\ CaptureStep => Captured'
<1>. SUFFICES ASSUME CaptureTypeOK, Captured, CaptureStep PROVE Captured'
  OBVIOUS
<1>0. None \notin {"no interface", "timeout", "failed"}
  BY CaptureAssumption
<1>1. CASE ResolveInterface
  <2>. PICK chosen : chosen = IF request.interface = None THEN AutoSelected
                                                         ELSE Named(request.interface)
    OBVIOUS
  <2>1. /\ where = "resolve" /\ UNCHANGED <<request, world, live, packets, saved, returned>>
        /\ \/ chosen = None /\ where' = "simulate" /\ reason' = "no interface"
           \/ chosen # None /\ where' = "sniff" /\ resolved' = chosen /\ UNCHANGED reason
           \/ /\ where' = "raised" /\ request.interface = None
              /\ UNCHANGED <<resolved, reason>>
    BY <1>1 DEF ResolveInterface
  <2>2. where' = "sniff" => ListensWhereAsked'
    BY <2>1, ResolvesAsAsked DEF Captured
  <2>. QED BY <1>0, <2>1, <2>2 DEF Captured, LiveOrReplay
<1>2. CASE Sniff
  <2>1. /\ where = "sniff" /\ UNCHANGED <<request, world, resolved, saved, returned>>
        /\ \/ packets' = live' /\ where' = "save" /\ UNCHANGED reason
           \/ where' = "simulate" /\ reason' = "failed" /\ UNCHANGED <<live, packets>>
    BY <1>2 DEF Sniff
  <2>2. ListensWhereAsked'
    BY <2>1 DEF Captured, ListensWhereAsked, Names
  <2>. QED BY <1>0, <2>1, <2>2 DEF Captured, LiveOrReplay
<1>3. CASE Save
  <2>1. /\ where = "save" /\ UNCHANGED <<request, world, resolved, live, packets, returned>>
        /\ \/ /\ saved' = IF request.pcap_save THEN packets ELSE None
              /\ where' = "count" /\ UNCHANGED reason
           \/ /\ saved' \in PartsOf(packets) \cup {None}
              /\ where' = "simulate" /\ reason' = "failed"
    BY <1>3 DEF Save
  <2>2. ListensWhereAsked' /\ PartsOf(packets') = PartsOf(packets)
    BY <2>1 DEF Captured, ListensWhereAsked, Names
  <2>. QED BY <1>0, <2>1, <2>2 DEF Captured, LiveOrReplay
<1>4. CASE CountPackets
  <2>1. /\ where = "count" /\ UNCHANGED <<request, world, resolved, live, packets, saved>>
        /\ \/ packets = <<>> /\ where' = "simulate" /\ reason' = "timeout" /\ UNCHANGED returned
           \/ /\ packets # <<>> /\ where' = "returned" /\ returned' = packets
              /\ UNCHANGED reason
    BY <1>4 DEF CountPackets
  <2>2. ListensWhereAsked'
    BY <2>1 DEF Captured, ListensWhereAsked, Names
  <2>. QED BY <1>0, <2>1, <2>2 DEF Captured, LiveOrReplay, SavedIsReturned
<1>5. CASE Simulate
  <2>1. /\ where = "simulate"
        /\ UNCHANGED <<request, world, resolved, live, packets, saved, reason>>
        /\ \/ where' = "returned" /\ returned' = TestPcap
           \/ ~world.test_pcap /\ where' = "raised" /\ UNCHANGED returned
    BY <1>5 DEF Simulate
  <2>2. PartsOf(packets') = PartsOf(packets)
    BY <2>1
  <2>3. reason \in {"no interface", "timeout", "failed"}
    BY <2>1 DEF Captured, CaptureTypeOK
  <2>. QED BY <1>0, <2>1, <2>2, <2>3 DEF Captured, LiveOrReplay, SavedIsReturned
<1>. QED BY <1>1, <1>2, <1>3, <1>4, <1>5 DEF CaptureStep

LEMMA CapturedKept == Captured /\ UNCHANGED capture_vars => Captured'
BY DEF Captured, capture_vars, ListensWhereAsked, Names, LiveOrReplay, SavedIsReturned

\* The result of a capture is whole, of the interface that was meant, and fits to the
\* saved file, or it is the whole test capture, and the call raises for two reasons
\* only (live_capture.py:113-222), whatever fails, for every list of interfaces.
THEOREM CaptureIsLiveOrReplay == Spec => []LiveOrReplay
<1>1. Init => Captured
  BY CaptureAssumption DEF Init, CaptureInit, Captured, LiveOrReplay
<1>2. CaptureTypeOK /\ Captured /\ [Next]_vars => Captured'
  <2>. SUFFICES ASSUME CaptureTypeOK, Captured, [Next]_vars PROVE Captured'
    OBVIOUS
  <2>1. CASE CaptureLive
    BY <2>1, CapturedStep DEF CaptureLive
  <2>2. CASE UNCHANGED capture_vars
    BY <2>2, CapturedKept
  <2>3. CaptureLive \/ UNCHANGED capture_vars
    BY DEF Next, Step, Over, vars, Loaded, LoadFile, WriteTempPcap, Parse, ConvertApps, Report,
           WriteV1, WriteParquet, TransformEvents, LoadPostgres, PublishKafka, RunV2, Write, given
  <2>. QED BY <2>1, <2>2, <2>3
<1>3. Spec => []CaptureTypeOK
  <2>1. Inv => CaptureTypeOK
    BY DEF Inv, Types
  <2>. QED BY <2>1, Invariance, PTL
<1>4. Captured => LiveOrReplay
  BY DEF Captured
<1>. QED BY <1>1, <1>2, <1>3, <1>4, PTL DEF Spec

-----------------------------------------------------------------------------
(* LiveStreaming, for every number of streams, threads and stops.          *)

\* While a stream has not been told to stop, the flag is down, so that none of its
\* threads has found it up.
FlagAgrees ==
  \A s \in Stream : Started(s) /\ ~told[s] =>
    stop = FALSE /\ \A t \in Thread : at[s][t] # "ended"

\* The threads of a stream are born together, and one without a limit never gets
\* to the statement that ends it.
ThreadsAgree ==
  \A s \in Stream :
    /\ Started(s) => \A t \in Thread : at[s][t] # "unborn"
    /\ max_packets[s] = Absent => \A t \in Thread : at[s][t] \notin {"count", "died"}

StreamingInv == StreamingTypeOK /\ FlagAgrees /\ ThreadsAgree

\* Without an object's flag there is nothing that could be set.
LEMMA AbsentIsNoFlag == Absent # TRUE /\ Absent # FALSE
BY StreamingAssumption, Zenon

LEMMA StreamingInvInit == StreamingInit => StreamingInv
<1>. SUFFICES ASSUME StreamingInit PROVE StreamingInv
  OBVIOUS
<1>1. stop = Absent /\ \A s \in Stream : ~Started(s)
  BY DEF StreamingInit, Started
<1>2. /\ max_packets \in [Stream -> Limits] /\ at \in [Stream -> [Thread -> Places]]
      /\ stops \in 0 .. MaxStops /\ told \in [Stream -> BOOLEAN]
  BY StreamingAssumption DEF StreamingInit, Places
<1>3. StreamingTypeOK
  BY <1>1, <1>2, Zenon DEF StreamingTypeOK
<1>4. FlagAgrees /\ ThreadsAgree
  BY <1>1 DEF StreamingInit, FlagAgrees, ThreadsAgree
<1>. QED BY <1>3, <1>4 DEF StreamingInv

LEMMA StopPreserves ==
  ASSUME StreamingInv, stop_streaming
  PROVE  StreamingInv'
<1>1. UNCHANGED <<max_packets, at>> /\ \A s \in Stream : Started(s)' <=> Started(s)
  BY DEF stop_streaming, Started
<1>2. StreamingTypeOK'
  <2>1. stop' \in BOOLEAN \cup {Absent} /\ (stop' = Absent <=> stop = Absent)
    BY AbsentIsNoFlag, Zenon DEF StreamingInv, StreamingTypeOK, stop_streaming
  <2>2. stops' \in 0 .. MaxStops
    BY StreamingAssumption DEF StreamingInv, StreamingTypeOK, stop_streaming
  <2>3. told' \in [Stream -> BOOLEAN]
    BY DEF StreamingInv, StreamingTypeOK, stop_streaming
  <2>. QED BY <1>1, <2>1, <2>2, <2>3, Zenon DEF StreamingInv, StreamingTypeOK
\* Every stream that is started has been told now.
<1>3. FlagAgrees'
  <2>1. \A s \in Stream : Started(s) => told'[s]
    BY Zenon DEF stop_streaming
  <2>. QED BY <1>1, <2>1 DEF FlagAgrees
<1>4. ThreadsAgree'
  BY <1>1 DEF StreamingInv, ThreadsAgree
<1>. QED BY <1>2, <1>3, <1>4 DEF StreamingInv

LEMMA StartPreserves ==
  ASSUME StreamingInv, NEW s \in Stream, start_streaming(s)
  PROVE  StreamingInv'
<1>1. /\ stop' = FALSE /\ UNCHANGED <<max_packets, stops, told>>
      /\ at'[s] = [t \in Thread |-> "check"]
      /\ \A u \in Stream \ {s} : at'[u] = at[u]
  BY DEF StreamingInv, StreamingTypeOK, start_streaming
<1>2. StreamingTypeOK'
  BY StreamingAssumption DEF StreamingInv, StreamingTypeOK, start_streaming, Started, Places
\* The flag is down, and the threads of s have just been born.
<1>3. FlagAgrees'
  <2>. SUFFICES ASSUME NEW u \in Stream, Started(u)', ~told[u]
                PROVE  \A t \in Thread : at'[u][t] # "ended"
    BY <1>1 DEF FlagAgrees
  <2>1. CASE u = s
    BY <1>1, <2>1
  <2>2. CASE u # s
    BY <1>1, <2>2 DEF StreamingInv, FlagAgrees, Started
  <2>. QED BY <2>1, <2>2
<1>4. ThreadsAgree'
  BY DEF StreamingInv, StreamingTypeOK, ThreadsAgree, start_streaming, Started
<1>. QED BY <1>2, <1>3, <1>4 DEF StreamingInv

LEMMA WorkerPreserves ==
  ASSUME StreamingInv, NEW s \in Stream, NEW t \in Thread, Worker(s, t)
  PROVE  StreamingInv'
<1>1. PICK place \in {"check", "sniff", "count", "ended", "died"} :
        /\ at[s][t] \in {"check", "sniff", "count"}
        /\ at' = [at EXCEPT ![s][t] = place]
        /\ UNCHANGED <<stop, max_packets, stops, told>>
        /\ place = "ended" => stop = TRUE
        /\ max_packets[s] = Absent => at[s][t] = "count" \/ place \notin {"count", "died"}
  BY DEF Worker, CheckStop, TrySniff, Count, GoTo
<1>2. \A u \in Stream : Started(u)' <=> Started(u)
  BY <1>1 DEF StreamingInv, StreamingTypeOK, Started
<1>3. StreamingTypeOK'
  BY <1>1, <1>2 DEF StreamingInv, StreamingTypeOK, Places
\* A thread ends with the flag up: its stream has been told.
<1>4. FlagAgrees'
  <2>. SUFFICES ASSUME NEW u \in Stream, Started(u), ~told[u]
                PROVE  stop = FALSE /\ \A v \in Thread : at'[u][v] # "ended"
    BY <1>1, <1>2 DEF FlagAgrees
  <2>1. stop = FALSE /\ \A v \in Thread : at[u][v] # "ended"
    BY DEF StreamingInv, FlagAgrees
  <2>. QED BY <1>1, <2>1 DEF StreamingInv, StreamingTypeOK
<1>5. ThreadsAgree'
  BY <1>1, <1>2 DEF StreamingInv, StreamingTypeOK, ThreadsAgree
<1>. QED BY <1>3, <1>4, <1>5 DEF StreamingInv

LEMMA StreamingInvStep == StreamingInv /\ [StreamingNext]_streaming_vars => StreamingInv'
<1>. SUFFICES ASSUME StreamingInv, [StreamingNext]_streaming_vars PROVE StreamingInv'
  OBVIOUS
<1>1. CASE UNCHANGED streaming_vars
  BY <1>1 DEF streaming_vars, StreamingInv, StreamingTypeOK, FlagAgrees, ThreadsAgree, Started
<1>2. CASE StreamingNext
  BY <1>2, StopPreserves, StartPreserves, WorkerPreserves DEF StreamingNext
<1>. QED BY <1>1, <1>2

\* The flag is there exactly when a stream has been started.
THEOREM StreamingTypeCorrect == StreamingSpec => []StreamingTypeOK
<1>1. StreamingInv => StreamingTypeOK
  BY DEF StreamingInv
<1>. QED BY <1>1, StreamingInvInit, StreamingInvStep, PTL DEF StreamingSpec

\* Until somebody stops it after its own start, a stream without a limit keeps all
\* its threads, though their sniff raises in every iteration, whatever is started
\* and stopped before and around it (live_capture.py:254-263).
THEOREM RunsOn == StreamingSpec => []UnlimitedRunsOn
<1>1. StreamingInv => UnlimitedRunsOn
  BY DEF StreamingInv, StreamingTypeOK, Places, FlagAgrees, ThreadsAgree, UnlimitedRunsOn, Alive
<1>. QED BY <1>1, StreamingInvInit, StreamingInvStep, PTL DEF StreamingSpec
=============================================================================
