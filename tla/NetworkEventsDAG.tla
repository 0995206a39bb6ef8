-------------------------- MODULE NetworkEventsDAG --------------------------
(***************************************************************************)
(* src/src/data_engineering/airflow_dag.py: runs of the DAG                *)
(*                                                                         *)
(*     run_dpi >> run_pyspark_etl >> load_postgres >> publish_kafka        *)
(*                                                                         *)
(* which hand one Parquet file of a fixed name from task to task.  Runs    *)
(* may overlap, any task may fail before, after or in the middle of what   *)
(* it does, and a run may be cleared and executed again from any task on.  *)
(*                                                                         *)
(* A batch, the events of one capture, is the version of the capture file  *)
(* that main.py has read.  MainProgram has the details of run_dpi, with    *)
(* DPI_SKIP_EXTERNAL_SINKS set.                                            *)
(***************************************************************************)
EXTENDS Naturals, Sequences, FiniteSets, SequencesExt

CONSTANTS Run,         \* runs of the DAG
          MaxVersion,  \* bound on the versions of input/test_dpi.pcap
          MaxClears,   \* bound on the runs that are cleared
          None, Torn

ASSUME DAGAssumption ==
  /\ IsFiniteSet(Run)
  /\ MaxVersion \in Nat \ {0} /\ MaxClears \in Nat
  /\ None \notin Nat /\ Torn \notin Nat /\ None # Torn

Tasks == <<"run_dpi", "run_pyspark_etl", "load_postgres", "publish_kafka">>

\* What a task writes in turn into output/pyspark_etl_output.
Summaries == <<"app_summary", "top_talkers", "protocol_dist", "blocked_apps">>

Batch == 1 .. MaxVersion

VARIABLES
  spark,        \* whether pyspark and Java are there
  version,      \* of input/test_dpi.pcap
  parquet,      \* output/network_events.parquet: a batch, None or Torn
  etl,          \* the batches that each directory of output/pyspark_etl_output is of
  table,        \* network_events in PostgreSQL: the batches whose rows are there ...
  inserted,     \* ... and how often rows were inserted
  topic,        \* network_events in Kafka: the batches of which messages are there
  state,        \* of each run: where its task is
  task,         \* the task it is at
  read,         \* what this task has read
  clears,
  own,          \* not in the code: the batch that each run has written
  sent,         \* not in the code: the batch that it has handed to its producer
  undisturbed   \* not in the code: nobody else has written since

vars == <<spark, version, parquet, etl, table, inserted, topic, state, task, read, clears, own,
          sent, undisturbed>>

Init ==
  /\ spark \in BOOLEAN
  /\ version = 1 /\ parquet = None /\ etl = [s \in Range(Summaries) |-> {}]
  /\ table = {} /\ inserted = 0 /\ topic = {} /\ clears = 0
  /\ state = [r \in Run |-> "idle"] /\ task = [r \in Run |-> 1]
  /\ read = [r \in Run |-> None] /\ own = [r \in Run |-> None]
  /\ sent = [r \in Run |-> None]
  /\ undisturbed = [r \in Run |-> FALSE]

\* Somebody puts another capture in place.
NewCapture ==
  /\ version < MaxVersion /\ version' = version + 1
  /\ UNCHANGED <<spark, parquet, etl, table, inserted, topic, state, task, read, clears, own,
                 sent, undisturbed>>

At(r, name, where) == Tasks[task[r]] = name /\ state[r] = where

Become(r, where) == state' = [state EXCEPT ![r] = where]

\* The scheduler triggers a run, whatever the other runs do.
Trigger(r) ==
  /\ state[r] = "idle" /\ task[r] = 1
  /\ Become(r, "start")
  /\ UNCHANGED <<spark, version, parquet, etl, table, inserted, topic, task, read, clears, own,
                 sent, undisturbed>>

\* Mutant: a task that failed does not hold up the next one.
SucceedAlways(r) ==
  /\ state[r] \in {"finish", "failed"}
  /\ IF task[r] = Len(Tasks) THEN Become(r, "success") /\ UNCHANGED task
     ELSE Become(r, "start") /\ task' = [task EXCEPT ![r] = @ + 1]
  /\ read' = [read EXCEPT ![r] = None]
  /\ UNCHANGED <<spark, version, parquet, etl, table, inserted, topic, clears, own,
                 sent, undisturbed>>

\* The task returned: the next one starts.
Succeed(r) ==
  /\ state[r] = "finish"
  /\ IF task[r] = Len(Tasks) THEN Become(r, "success") /\ UNCHANGED task
     ELSE Become(r, "start") /\ task' = [task EXCEPT ![r] = @ + 1]
  /\ read' = [read EXCEPT ![r] = None]
  /\ UNCHANGED <<spark, version, parquet, etl, table, inserted, topic, clears, own,
                 sent, undisturbed>>

\* The task raises, or its process is gone, maybe after its work is done and
\* before the scheduler knows.  A summary may be gone then, or there in part.
Fail(r) ==
  /\ state[r] \notin {"idle", "success", "failed"}
  /\ Become(r, "failed") /\ read' = [read EXCEPT ![r] = None]
  /\ \/ UNCHANGED etl
     \/ /\ state[r] \in Range(Summaries)
        /\ etl' = [etl EXCEPT ![state[r]] = IF read[r] = None THEN {} ELSE @ \cup {read[r]}]
  /\ UNCHANGED <<spark, version, parquet, table, inserted, topic, task, clears, own,
                 sent, undisturbed>>

\* A run that is over is cleared from one of its tasks on.
Clear(r, k) ==
  /\ clears < MaxClears /\ clears' = clears + 1
  /\ state[r] \in {"failed", "success"} /\ k \in 1 .. task[r]
  /\ task' = [task EXCEPT ![r] = k] /\ Become(r, "start")
  /\ UNCHANGED <<spark, version, parquet, etl, table, inserted, topic, read, own,
                 sent, undisturbed>>
-----------------------------------------------------------------------------
\* run_dpi: main.py reads the capture ...
ReadCapture(r) ==
  /\ At(r, "run_dpi", "start")
  /\ Become(r, "reading") /\ read' = [read EXCEPT ![r] = version]
  /\ UNCHANGED <<spark, version, parquet, etl, table, inserted, topic, task, clears, own,
                 sent, undisturbed>>

\* ... opens the Parquet file, which truncates it ...
OpenParquet(r) ==
  /\ At(r, "run_dpi", "reading")
  /\ Become(r, "writing") /\ parquet' = Torn
  /\ own' = [own EXCEPT ![r] = None]
  /\ undisturbed' = [s \in Run |-> s = r]
  /\ UNCHANGED <<spark, version, etl, table, inserted, topic, task, read, clears, sent>>

\* ... and writes it.  If another run has opened it since, both write to the same
\* places of it, and no run can rely on what comes of that.
WriteParquet(r) ==
  /\ At(r, "run_dpi", "writing")
  /\ Become(r, "written")
  /\ \/ undisturbed[r] /\ parquet' = read[r]
     \/ ~undisturbed[r] /\ parquet' \in {read[r], Torn}
  /\ own' = [own EXCEPT ![r] = read[r]]
  /\ undisturbed' = [s \in Run |-> s = r /\ undisturbed[r]]
  /\ UNCHANGED <<spark, version, etl, table, inserted, topic, task, read, clears, sent>>

\* NetworkEventETL.run, which main.py calls and then a task of its own again:
\* nothing without Spark; otherwise the file must be there.
OpenSpark(r) ==
  /\ At(r, "run_dpi", "written") \/ At(r, "run_pyspark_etl", "start")
  /\ \/ ~spark /\ Become(r, "finish")
     \/ spark /\ parquet \in Batch /\ Become(r, Summaries[1])
  /\ read' = [read EXCEPT ![r] = None]
  /\ UNCHANGED <<spark, version, parquet, etl, table, inserted, topic, task, clears, own,
                 sent, undisturbed>>

After(summary) == LET k == CHOOSE k \in DOMAIN Summaries : Summaries[k] = summary
                  IN  IF k = Len(Summaries) THEN "finish" ELSE Summaries[k + 1]

\* Mutant: a summary that is there is kept.
OpenSummaryOnce(r) ==
  /\ state[r] \in Range(Summaries) /\ read[r] = None /\ parquet \in Batch
  /\ IF etl[state[r]] = {} THEN read' = [read EXCEPT ![r] = parquet] /\ UNCHANGED state
                           ELSE Become(r, After(state[r])) /\ UNCHANGED read
  /\ UNCHANGED <<spark, version, parquet, etl, table, inserted, topic, task, clears, own,
                 sent, undisturbed>>

\* The job of a summary, in mode overwrite, empties its directory and reads the file:
\* for every summary anew, as a data frame is evaluated when it is written ...
OpenSummary(r) ==
  /\ state[r] \in Range(Summaries) /\ read[r] = None /\ parquet \in Batch
  /\ etl' = [etl EXCEPT ![state[r]] = {}]
  /\ read' = [read EXCEPT ![r] = parquet]
  /\ UNCHANGED <<spark, version, parquet, table, inserted, topic, state, task, clears, own,
                 sent, undisturbed>>

\* Mutant: the data frame is cached, and the file not read again.
CommitSummaryCached(r) ==
  /\ state[r] \in Range(Summaries) /\ read[r] # None
  /\ etl' = [etl EXCEPT ![state[r]] = @ \cup {read[r]}]
  /\ Become(r, After(state[r]))
  /\ UNCHANGED <<spark, version, parquet, table, inserted, topic, task, read, clears, own,
                 sent, undisturbed>>

\* ... and moves its own files there in the end, beside those that a job of another
\* run may have put there meanwhile.
CommitSummary(r) ==
  /\ state[r] \in Range(Summaries) /\ read[r] # None
  /\ etl' = [etl EXCEPT ![state[r]] = @ \cup {read[r]}]
  /\ Become(r, After(state[r])) /\ read' = [read EXCEPT ![r] = None]
  /\ UNCHANGED <<spark, version, parquet, table, inserted, topic, task, clears, own,
                 sent, undisturbed>>

\* load_postgres and publish_kafka: pq.read_table, which raises on a torn file
\* (then there is only Fail).
ReadParquet(r) ==
  /\ At(r, "load_postgres", "start") \/ At(r, "publish_kafka", "start")
  /\ parquet \in Batch
  /\ Become(r, "loaded") /\ read' = [read EXCEPT ![r] = parquet]
  /\ UNCHANGED <<spark, version, parquet, etl, table, inserted, topic, task, clears, own,
                 sent, undisturbed>>

\* Mutant: the insertion is repeated in the task when the connection fails, though
\* it may have been committed.
InsertRowsRetried(r) ==
  /\ At(r, "load_postgres", "loaded")
  /\ table' = table \cup {read[r]} /\ inserted' = inserted + 1
  /\ \/ Become(r, "finish")
     \/ inserted < 4 /\ UNCHANGED state
  /\ UNCHANGED <<spark, version, parquet, etl, topic, task, read, clears, own,
                 sent, undisturbed>>

\* One INSERT per row and one commit.
InsertRows(r) ==
  /\ At(r, "load_postgres", "loaded")
  /\ Become(r, "finish")
  /\ table' = table \cup {read[r]} /\ inserted' = inserted + 1
  /\ UNCHANGED <<spark, version, parquet, etl, topic, task, read, clears, own,
                 sent, undisturbed>>

\* One message per row is handed to the producer, then flush, which returns when each
\* of them is delivered or given up: what was delivered nobody looks at.
ProduceRows(r) ==
  /\ At(r, "publish_kafka", "loaded")
  /\ Become(r, "finish") /\ sent' = [sent EXCEPT ![r] = read[r]]
  /\ topic' \in {topic, topic \cup {read[r]}}
  /\ UNCHANGED <<spark, version, parquet, etl, table, inserted, task, read, clears, own, undisturbed>>

Execute(r) == \/ ReadCapture(r) \/ OpenParquet(r) \/ WriteParquet(r)
              \/ OpenSpark(r) \/ OpenSummary(r) \/ CommitSummary(r)
              \/ ReadParquet(r) \/ InsertRows(r) \/ ProduceRows(r)

Over == (\A r \in Run : state[r] \in {"success", "failed"}) /\ UNCHANGED vars

Next == \/ NewCapture \/ Over
        \/ \E r \in Run : \/ Trigger(r) \/ Execute(r) \/ Succeed(r) \/ Fail(r)
                         \/ \E k \in DOMAIN Tasks : Clear(r, k)

Spec == Init /\ [][Next]_vars
-----------------------------------------------------------------------------
(* What the DAG promises.                                                  *)

States == {"idle", "start", "reading", "writing", "written", "loaded", "finish",
           "success", "failed"} \cup Range(Summaries)

DAGTypeOK ==
  /\ spark \in BOOLEAN /\ version \in Batch
  /\ parquet \in Batch \cup {None, Torn}
  /\ etl \in [Range(Summaries) -> SUBSET Batch]
  /\ table \subseteq Batch /\ inserted \in Nat /\ topic \subseteq Batch
  /\ state \in [Run -> States] /\ task \in [Run -> DOMAIN Tasks]
  /\ read \in [Run -> Batch \cup {None}] /\ own \in [Run -> Batch \cup {None}]
  /\ sent \in [Run -> Batch \cup {None}]
  /\ undisturbed \in [Run -> BOOLEAN] /\ clears \in 0 .. MaxClears

\* A run whose Parquet file nobody has overwritten has its own batch in the
\* database when it comes to publishing it, and has handed this batch to its producer
\* when it succeeds: whatever failed, was cleared and was executed again in between.
\* Without the condition a run can succeed and leave no trace of what it has read.
\* That the messages arrive is not promised: the task succeeds when all of them were
\* given up, too (airflow_dag.py:116-125 have no delivery callback).
UndisturbedRunIsLoaded ==
  \A r \in Run : undisturbed[r] =>
    /\ Tasks[task[r]] = "publish_kafka" => own[r] \in table
    /\ state[r] = "success" => sent[r] = own[r]

\* Past the ETL with Spark, a run whose file nobody has overwritten finds no more
\* summaries with anything of another batch in them than there are other runs: one
\* that overlaps may have read the older file before and move its files to a summary
\* after this run has replaced it, but to one summary only, as it reads the file anew
\* for the next (pyspark_etl.py:110-121).  A run that is alone has none.
SummariesOfOneBatch ==
  \A r \in Run : spark /\ undisturbed[r] /\ task[r] >= 3 =>
    Cardinality({s \in Range(Summaries) : ~(etl[s] \subseteq {own[r]})}) < Cardinality(Run)

\* Rows are inserted again only if a run was cleared: there is no more than one
\* insertion per run and per clearance (airflow_dag.py:86).
InsertionsAreExecutions ==
  inserted <= clears + Cardinality({r \in Run : task[r] >= 3})
=============================================================================
