------------------------ MODULE NetworkEventsDAGProofs ------------------------
(***************************************************************************)
(* NetworkEventsDAG for every number of runs, captures and clearances: what *)
(* a run can rely on while nobody else writes the Parquet file, and how    *)
(* often rows are inserted.                                                *)
(*                                                                         *)
(* The three invariants say what is true of a run that is past a task.  By *)
(* themselves they are not inductive: Inv follows the run's batch from the *)
(* file (FileIsOwn) through the task's hands (ReadIsOwn) to the table and  *)
(* the producer, with what the state tells of the task (Control).  For the *)
(* summaries it counts those that hold something of another batch together *)
(* with the runs that still have such a batch in their hands (FewWrong):   *)
(* when such a run moves its files to a summary, it gives one for the      *)
(* other.                                                                  *)
(***************************************************************************)
EXTENDS NetworkEventsDAG, FiniteSetTheorems, TLAPS

\* The tasks and the summaries by their places.
LEMMA Names ==
  /\ DOMAIN Tasks = 1 .. 4 /\ Len(Tasks) = 4
  /\ DOMAIN Summaries = 1 .. 4 /\ Len(Summaries) = 4
  /\ Tasks[1] = "run_dpi" /\ Tasks[2] = "run_pyspark_etl"
  /\ Tasks[3] = "load_postgres" /\ Tasks[4] = "publish_kafka"
  /\ Summaries[1] = "app_summary" /\ Summaries[2] = "top_talkers"
  /\ Summaries[3] = "protocol_dist" /\ Summaries[4] = "blocked_apps"
  /\ Range(Summaries) = {"app_summary", "top_talkers", "protocol_dist", "blocked_apps"}
<1>1. /\ DOMAIN Tasks = 1 .. 4 /\ Len(Tasks) = 4
      /\ Tasks[1] = "run_dpi" /\ Tasks[2] = "run_pyspark_etl"
      /\ Tasks[3] = "load_postgres" /\ Tasks[4] = "publish_kafka"
  BY DEF Tasks
<1>2. /\ DOMAIN Summaries = 1 .. 4 /\ Len(Summaries) = 4
      /\ Summaries[1] = "app_summary" /\ Summaries[2] = "top_talkers"
      /\ Summaries[3] = "protocol_dist" /\ Summaries[4] = "blocked_apps"
  BY DEF Summaries
<1>3. DOMAIN Summaries = {1, 2, 3, 4}
  BY <1>2
<1>4. Range(Summaries) = {Summaries[k] : k \in {1, 2, 3, 4}}
  BY <1>3 DEF Range
<1>. QED BY <1>1, <1>2, <1>4

\* The order of the summaries.
LEMMA AfterEach ==
  /\ After("app_summary") = "top_talkers"
  /\ After("top_talkers") = "protocol_dist"
  /\ After("protocol_dist") = "blocked_apps"
  /\ After("blocked_apps") = "finish"
<1>1. DOMAIN Summaries = 1 .. 4 
  BY DEF Summaries
<1>2. /\ (CHOOSE k \in DOMAIN Summaries : Summaries[k] = "app_summary") = 1
      /\ (CHOOSE k \in DOMAIN Summaries : Summaries[k] = "top_talkers") = 2
      /\ (CHOOSE k \in DOMAIN Summaries : Summaries[k] = "protocol_dist") = 3
      /\ (CHOOSE k \in DOMAIN Summaries : Summaries[k] = "blocked_apps") = 4
  BY <1>1 DEF Summaries
<1>. QED BY <1>2, Names DEF After

-----------------------------------------------------------------------------
(* The inductive invariant.                                                *)

\* What a task does tells which task it is, and whether it has read something.
Control == \A r \in Run :
  /\ state[r] \in {"reading", "writing", "written"} => task[r] = 1
  /\ state[r] \in Range(Summaries) => task[r] <= 2
  /\ state[r] = "loaded" => task[r] >= 3
  /\ state[r] = "success" => task[r] = 4
  /\ state[r] \in {"reading", "writing", "loaded"} => read[r] \in Batch

\* While nobody else has written it, the file is what the run has made of it.
FileIsOwn == \A r \in Run :
  undisturbed[r] => parquet = IF own[r] = None THEN Torn ELSE own[r]

\* A run that is past the file has a batch of its own.
WrittenIsOwn == \A r \in Run :
  task[r] >= 2 \/ state[r] \in {"written", "finish"} \cup Range(Summaries) => own[r] # None

\* It reads its own batch, ...
ReadIsOwn == \A r \in Run :
  /\ undisturbed[r]
  /\ state[r] = "loaded" \/ (state[r] \in Range(Summaries) /\ read[r] # None)
  => read[r] = own[r]

\* ... and then this batch is in the table, ...
RowsInserted == \A r \in Run :
  undisturbed[r] /\ (task[r] = 4 \/ (task[r] = 3 /\ state[r] = "finish")) => own[r] \in table

\* ... and with the producer.
MessageSent == \A r \in Run :
  undisturbed[r] /\ task[r] = 4 /\ state[r] \in {"finish", "success"} => sent[r] = own[r]

\* The run has emptied the summary since it has written its batch.
Begun(r, s) == \/ task[r] >= 2 \/ state[r] = "finish"
               \/ \E i, j \in 1 .. 4 : i < j /\ s = Summaries[i] /\ state[r] = Summaries[j]
               \/ state[r] = s /\ read[r] # None

\* The summaries in which there is something else now, and the runs that have something
\* else in their hands.
Wrong(r) == {s \in Range(Summaries) : Begun(r, s) /\ ~(etl[s] \subseteq {own[r]})}

Late(r) == {q \in Run \ {r} : state[q] \in Range(Summaries) /\ read[q] \notin {None, own[r]}}

FewWrong == \A r \in Run : spark /\ undisturbed[r] =>
  Cardinality(Wrong(r)) + Cardinality(Late(r)) < Cardinality(Run)

\* The runs past their insertion: rows are inserted once for each of them and for
\* each clearance.
Past == {r \in Run : task[r] = 4 \/ (task[r] = 3 /\ state[r] \notin {"start", "loaded"})}

Counted == inserted <= clears + Cardinality(Past)

Inv == /\ DAGTypeOK /\ Control /\ FileIsOwn /\ WrittenIsOwn /\ ReadIsOwn
       /\ RowsInserted /\ MessageSent /\ FewWrong /\ Counted

-----------------------------------------------------------------------------
LEMMA PastFinite == IsFiniteSet(Past) /\ Cardinality(Past) \in Nat
<1>1. Past \subseteq Run
  BY DEF Past
<1>. QED BY <1>1, DAGAssumption, FS_Subset, FS_CardinalityType

\* Counted survives a step that gets a run past its insertion for nothing.
LEMMA CountedKept ==
  ASSUME DAGTypeOK, Counted, Past \subseteq Past', IsFiniteSet(Past'),
         clears' = clears, inserted' = inserted
  PROVE  Counted'
<1>1. Cardinality(Past) <= Cardinality(Past') /\ Cardinality(Past') \in Nat
  BY FS_Subset, FS_CardinalityType
<1>. QED BY <1>1, PastFinite DEF Counted, DAGTypeOK

\* The summaries and the other runs are finitely many.
LEMMA SummariesFinite ==
  ASSUME NEW W, W \subseteq Range(Summaries)
  PROVE  IsFiniteSet(W) /\ Cardinality(W) \in Nat
<1>1. IsFiniteSet({"app_summary", "top_talkers", "protocol_dist", "blocked_apps"})
  <2>1. /\ IsFiniteSet({"app_summary"}) /\ IsFiniteSet({"top_talkers"})
        /\ IsFiniteSet({"protocol_dist"}) /\ IsFiniteSet({"blocked_apps"})
    BY FS_Singleton
  <2>2. /\ IsFiniteSet({"app_summary"} \cup {"top_talkers"})
        /\ IsFiniteSet({"protocol_dist"} \cup {"blocked_apps"})
    BY <2>1, FS_Union
  <2>3. IsFiniteSet(({"app_summary"} \cup {"top_talkers"})
                      \cup ({"protocol_dist"} \cup {"blocked_apps"}))
    BY <2>2, FS_Union
  <2>4. ({"app_summary"} \cup {"top_talkers"}) \cup ({"protocol_dist"} \cup {"blocked_apps"})
          = {"app_summary", "top_talkers", "protocol_dist", "blocked_apps"}
    OBVIOUS
  <2>. QED BY <2>3, <2>4
<1>. QED BY <1>1, Names, FS_Subset, FS_CardinalityType

LEMMA OthersFinite ==
  ASSUME NEW r \in Run, NEW L, L \subseteq Run \ {r}
  PROVE  /\ IsFiniteSet(L) /\ Cardinality(L) \in Nat /\ Cardinality(Run) \in Nat
         /\ Cardinality(L) < Cardinality(Run)
<1>1. /\ IsFiniteSet(Run \ {r}) /\ Cardinality(Run \ {r}) = Cardinality(Run) - 1
      /\ Cardinality(Run) \in Nat
  BY DAGAssumption, FS_RemoveElement, FS_CardinalityType
<1>2. IsFiniteSet(L) /\ Cardinality(L) <= Cardinality(Run \ {r})
  BY <1>1, FS_Subset
<1>3. Cardinality(L) \in Nat
  BY <1>2, FS_CardinalityType
<1>. QED BY <1>1, <1>2, <1>3

\* FewWrong survives a step that gives a run no wrong summary more, and no other run a
\* batch that is not its own; and one that gives it one, by a run that is late no
\* longer.  A run that has emptied no summary yet has nothing to lose.
LEMMA FewWrongKept ==
  ASSUME FewWrong, spark' = spark,
         \A r \in Run : spark /\ undisturbed'[r] =>
           \/ Wrong(r)' = {}
           \/ undisturbed[r] /\ Wrong(r)' \subseteq Wrong(r) /\ Late(r)' \subseteq Late(r)
           \/ /\ undisturbed[r]
              /\ \E s \in Range(Summaries), q \in Late(r) :
                   Wrong(r)' \subseteq Wrong(r) \cup {s} /\ Late(r)' \subseteq Late(r) \ {q}
  PROVE  FewWrong'
<1>. SUFFICES ASSUME NEW r \in Run, spark, undisturbed'[r]
              PROVE  Cardinality(Wrong(r)') + Cardinality(Late(r)') < Cardinality(Run)
  BY DEF FewWrong
<1>1. /\ Wrong(r) \subseteq Range(Summaries) /\ Wrong(r)' \subseteq Range(Summaries)
      /\ Late(r) \subseteq Run \ {r} /\ Late(r)' \subseteq Run \ {r}
  BY DEF Wrong, Late
<1>2. /\ IsFiniteSet(Wrong(r)) /\ Cardinality(Wrong(r)) \in Nat
      /\ IsFiniteSet(Late(r)) /\ Cardinality(Late(r)) \in Nat
      /\ Cardinality(Wrong(r)') \in Nat /\ Cardinality(Late(r)') \in Nat
      /\ Cardinality(Late(r)') < Cardinality(Run) /\ Cardinality(Run) \in Nat
  BY <1>1, SummariesFinite, OthersFinite
<1>3. CASE Wrong(r)' = {}
  BY <1>2, <1>3, FS_EmptySet
<1>4. CASE undisturbed[r] /\ Wrong(r)' \subseteq Wrong(r) /\ Late(r)' \subseteq Late(r)
  <2>1. /\ Cardinality(Wrong(r)') <= Cardinality(Wrong(r))
        /\ Cardinality(Late(r)') <= Cardinality(Late(r))
    BY <1>2, <1>4, FS_Subset
  <2>2. Cardinality(Wrong(r)) + Cardinality(Late(r)) < Cardinality(Run)
    BY <1>4 DEF FewWrong
  <2>. QED BY <1>2, <2>1, <2>2
<1>5. ASSUME undisturbed[r], NEW s \in Range(Summaries), NEW q \in Late(r),
             Wrong(r)' \subseteq Wrong(r) \cup {s}, Late(r)' \subseteq Late(r) \ {q}
      PROVE  Cardinality(Wrong(r)') + Cardinality(Late(r)') < Cardinality(Run)
  <2>1. /\ IsFiniteSet(Wrong(r) \cup {s})
        /\ Cardinality(Wrong(r) \cup {s}) \in {Cardinality(Wrong(r)), Cardinality(Wrong(r)) + 1}
    <3>1. CASE s \in Wrong(r)
      <4>1. Wrong(r) \cup {s} = Wrong(r)
        BY <3>1
      <4>. QED BY <1>2, <4>1
    <3>2. CASE s \notin Wrong(r)
      BY <1>2, <3>2, FS_AddElement
    <3>. QED BY <3>1, <3>2
  <2>2. IsFiniteSet(Late(r) \ {q}) /\ Cardinality(Late(r) \ {q}) = Cardinality(Late(r)) - 1
    BY <1>2, <1>5, FS_RemoveElement
  <2>3. /\ Cardinality(Wrong(r)') <= Cardinality(Wrong(r) \cup {s})
        /\ Cardinality(Late(r)') <= Cardinality(Late(r) \ {q})
    BY <1>5, <2>1, <2>2, FS_Subset
  <2>4. Cardinality(Wrong(r)) + Cardinality(Late(r)) < Cardinality(Run)
    BY <1>5 DEF FewWrong
  <2>. QED BY <1>2, <2>1, <2>2, <2>3, <2>4
<1>. QED BY <1>3, <1>4, <1>5

\* That is so in a step that does not touch the summaries, if the run that takes it
\* has neither emptied one nor a batch in its hands for one.
LEMMA SummariesKept ==
  ASSUME FewWrong, NEW r \in Run, UNCHANGED <<spark, etl, own, undisturbed>>,
         \A q \in Run \ {r} : state'[q] = state[q] /\ task'[q] = task[q] /\ read'[q] = read[q],
         state'[r] \notin Range(Summaries) \/ read'[r] = None,
         spark => \A s \in Range(Summaries) : Begun(r, s)' => Begun(r, s)
  PROVE  FewWrong'
<1>1. ASSUME NEW q \in Run, spark PROVE Wrong(q)' \subseteq Wrong(q)
  <2>1. \A s \in Range(Summaries) : Begun(q, s)' => Begun(q, s)
    BY <1>1 DEF Begun
  <2>. QED BY <2>1 DEF Wrong
<1>2. ASSUME NEW q \in Run PROVE Late(q)' \subseteq Late(q)
  BY <1>2 DEF Late
<1>. QED BY <1>1, <1>2, FewWrongKept

-----------------------------------------------------------------------------
(* Every step keeps the invariant.                                         *)

LEMMA NewCapturePreserves ==
  ASSUME Inv, NewCapture
  PROVE  Inv'
<1>1. DAGTypeOK'
  BY DAGAssumption DEF Inv, DAGTypeOK, Batch, NewCapture
<1>. QED BY <1>1 DEF Inv, NewCapture, Control, FileIsOwn, WrittenIsOwn, ReadIsOwn,
                      RowsInserted, MessageSent, FewWrong, Wrong, Late, Begun, Counted, Past

LEMMA StutterPreserves ==
  ASSUME Inv, UNCHANGED vars
  PROVE  Inv'
<1>1. DAGTypeOK' /\ Control'
  BY DEF Inv, vars, DAGTypeOK, Control
<1>2. FileIsOwn' /\ WrittenIsOwn' /\ ReadIsOwn'
  BY DEF Inv, vars, FileIsOwn, WrittenIsOwn, ReadIsOwn
<1>3. RowsInserted' /\ MessageSent' /\ Counted'
  BY DEF Inv, vars, RowsInserted, MessageSent, Counted, Past
<1>4. FewWrong'
  BY DEF Inv, vars, FewWrong, Wrong, Late, Begun
<1>. QED BY <1>1, <1>2, <1>3, <1>4 DEF Inv

LEMMA TriggerPreserves ==
  ASSUME Inv, NEW r \in Run, Trigger(r)
  PROVE  Inv'
<1>1. DAGTypeOK'
  BY Names DEF Inv, DAGTypeOK, States, Batch, Trigger, Become
<1>2. Control'
  BY Names DEF Inv, Control, DAGTypeOK, Trigger, Become
<1>3. FileIsOwn'
  BY DEF Inv, FileIsOwn, DAGTypeOK, Trigger, Become
<1>4. WrittenIsOwn'
  BY Names DEF Inv, WrittenIsOwn, DAGTypeOK, Trigger, Become
<1>5. ReadIsOwn'
  BY Names DEF Inv, ReadIsOwn, DAGTypeOK, Trigger, Become
<1>6. RowsInserted'
  BY DEF Inv, RowsInserted, DAGTypeOK, Trigger, Become
<1>7. MessageSent'
  BY DEF Inv, MessageSent, DAGTypeOK, Trigger, Become
<1>8. FewWrong'
  <2>1. /\ UNCHANGED <<spark, etl, own, undisturbed, task>>
        /\ task[r] = 1 /\ state'[r] = "start"
        /\ \A q \in Run \ {r} : state'[q] = state[q] /\ read'[q] = read[q]
    BY Names DEF Inv, DAGTypeOK, Trigger, Become
  <2>2. spark => \A s \in Range(Summaries) : Begun(r, s)' => Begun(r, s)
    BY <2>1, Names DEF Begun
  <2>. QED BY <2>1, <2>2, SummariesKept, Names DEF Inv
<1>9. Counted'
  <2>1. Past' = Past
    BY Names DEF Inv, DAGTypeOK, Trigger, Become, Past
  <2>. QED BY <2>1 DEF Inv, Counted, Trigger
<1>. QED BY <1>1, <1>2, <1>3, <1>4, <1>5, <1>6, <1>7, <1>8, <1>9 DEF Inv

LEMMA SucceedPreserves ==
  ASSUME Inv, NEW r \in Run, Succeed(r)
  PROVE  Inv'
<1>1. /\ state[r] = "finish" /\ task[r] \in 1 .. 4
      /\ \/ task[r] = 4 /\ task'[r] = 4 /\ state'[r] = "success"
         \/ task[r] < 4 /\ task'[r] = task[r] + 1 /\ state'[r] = "start"
      /\ \A s \in Run \ {r} : state'[s] = state[s] /\ task'[s] = task[s] /\ read'[s] = read[s]
      /\ UNCHANGED <<spark, parquet, etl, table, inserted, topic, clears, own, sent, undisturbed>>
  <2>1. task[r] \in 1 .. 4 /\ Len(Tasks) = 4
    BY Names DEF Inv, DAGTypeOK
  <2>. QED BY <2>1 DEF Inv, DAGTypeOK, Succeed, Become
<1>2. DAGTypeOK'
  <2>1. state' \in [Run -> States]
    <3>1. Become(r, "success") \/ Become(r, "start")
      BY DEF Succeed
    <3>. QED BY <3>1 DEF Inv, DAGTypeOK, Become, States
  <2>2. task' \in [Run -> 1 .. 4]
    <3>1. task \in [Run -> 1 .. 4]
      BY Names DEF Inv, DAGTypeOK
    <3>2. task' = task \/ (task[r] < 4 /\ task' = [task EXCEPT ![r] = task[r] + 1])
      BY <1>1, <3>1, Names DEF Succeed
    <3>. QED BY <3>1, <3>2
  <2>3. read' \in [Run -> Batch \cup {None}]
    BY DEF Inv, DAGTypeOK, Succeed
  <2>. QED BY <2>1, <2>2, <2>3, Names DEF Inv, DAGTypeOK, Succeed
<1>3. Control'
  BY <1>1, Names DEF Inv, Control
<1>4. FileIsOwn'
  BY <1>1 DEF Inv, FileIsOwn
<1>5. WrittenIsOwn'
  BY <1>1, Names DEF Inv, WrittenIsOwn
<1>6. ReadIsOwn'
  BY <1>1, Names DEF Inv, ReadIsOwn
<1>7. RowsInserted'
  BY <1>1 DEF Inv, RowsInserted, DAGTypeOK
<1>8. MessageSent'
  BY <1>1 DEF Inv, MessageSent
<1>9. FewWrong'
  <2>1. \A s \in Range(Summaries) : Begun(r, s)' => Begun(r, s)
    BY <1>1, Names DEF Begun
  <2>. QED BY <1>1, <2>1, SummariesKept, Names DEF Inv
<1>10. Counted'
  <2>1. Past' = Past
    BY <1>1 DEF Past
  <2>. QED BY <1>1, <2>1 DEF Inv, Counted
<1>. QED BY <1>2, <1>3, <1>4, <1>5, <1>6, <1>7, <1>8, <1>9, <1>10 DEF Inv

LEMMA FailPreserves ==
  ASSUME Inv, NEW r \in Run, Fail(r)
  PROVE  Inv'
<1>1. DAGTypeOK'
  BY Names DEF Inv, DAGTypeOK, States, Batch, Fail, Become
<1>2. Control'
  BY Names DEF Inv, Control, DAGTypeOK, Fail, Become
<1>3. FileIsOwn'
  BY DEF Inv, FileIsOwn, DAGTypeOK, Fail, Become
<1>4. WrittenIsOwn'
  BY Names DEF Inv, WrittenIsOwn, DAGTypeOK, Fail, Become
<1>5. ReadIsOwn'
  BY DEF Inv, ReadIsOwn, DAGTypeOK, Fail, Become
<1>6. RowsInserted'
  BY DEF Inv, RowsInserted, DAGTypeOK, Fail, Become
<1>7. MessageSent'
  BY DEF Inv, MessageSent, DAGTypeOK, Fail, Become
<1>8. FewWrong'
\* Only a run that was in the middle of a summary leaves something in it.
  <2>1. ASSUME NEW q \in Run, spark, undisturbed'[q], q # r, r \in Late(q)
        PROVE  /\ state[r] \in Range(Summaries)
               /\ Wrong(q)' \subseteq Wrong(q) \cup {state[r]} /\ Late(q)' \subseteq Late(q) \ {r}
    BY <2>1, Names DEF Inv, DAGTypeOK, Fail, Become, Wrong, Late, Begun
  <2>2. ASSUME NEW q \in Run, spark, undisturbed'[q], q = r \/ r \notin Late(q)
        PROVE  Wrong(q)' \subseteq Wrong(q) /\ Late(q)' \subseteq Late(q)
    <3>1. state[r] \in Range(Summaries) /\ read[r] # None => read[r] = own[q]
      BY <2>2 DEF Inv, ReadIsOwn, Late, Fail
    <3>. QED BY <2>2, <3>1, Names DEF Inv, DAGTypeOK, Fail, Become, Wrong, Late, Begun
  <2>3. FewWrong /\ spark' = spark /\ undisturbed' = undisturbed
    BY DEF Inv, Fail
  <2>. QED BY <2>1, <2>2, <2>3, FewWrongKept
<1>9. Counted'
  <2>1. Past \subseteq Past' /\ Past' \subseteq Run
    BY DEF Inv, DAGTypeOK, Fail, Become, Past
  <2>2. clears' = clears /\ inserted' = inserted /\ IsFiniteSet(Past')
    BY <2>1, DAGAssumption, FS_Subset DEF Fail
  <2>. QED BY <2>1, <2>2, CountedKept DEF Inv
<1>. QED BY <1>1, <1>2, <1>3, <1>4, <1>5, <1>6, <1>7, <1>8, <1>9 DEF Inv

LEMMA ClearPreserves ==
  ASSUME Inv, NEW r \in Run, NEW k \in DOMAIN Tasks, Clear(r, k)
  PROVE  Inv'
<1>1. /\ state[r] \in {"failed", "success"} /\ state'[r] = "start"
      /\ task[r] \in 1 .. 4 /\ task'[r] = k /\ k \in 1 .. task[r]
      /\ \A s \in Run \ {r} : state'[s] = state[s] /\ task'[s] = task[s]
      /\ clears' = clears + 1 /\ clears \in Nat
      /\ UNCHANGED <<spark, parquet, etl, table, inserted, topic, read, own, sent, undisturbed>>
  BY Names DEF Inv, DAGTypeOK, Clear, Become
<1>2. DAGTypeOK'
  <2>1. state' \in [Run -> States] /\ task' \in [Run -> 1 .. 4] /\ clears' \in 0 .. MaxClears
    BY <1>1, Names, DAGAssumption DEF Inv, DAGTypeOK, States, Clear, Become
  <2>. QED BY <1>1, <2>1, Names DEF Inv, DAGTypeOK, Clear
<1>3. Control'
  BY <1>1, Names DEF Inv, Control
<1>4. FileIsOwn'
  BY <1>1 DEF Inv, FileIsOwn
<1>5. WrittenIsOwn'
  BY <1>1, Names DEF Inv, WrittenIsOwn
<1>6. ReadIsOwn'
  BY <1>1, Names DEF Inv, ReadIsOwn
<1>7. RowsInserted'
  BY <1>1 DEF Inv, RowsInserted
<1>8. MessageSent'
  BY <1>1 DEF Inv, MessageSent
<1>9. FewWrong'
  <2>1. \A s \in Range(Summaries) : Begun(r, s)' => Begun(r, s)
    BY <1>1, Names DEF Begun
  <2>. QED BY <1>1, <2>1, SummariesKept, Names DEF Inv
<1>10. Counted'
  <2>1. Past \ {r} \subseteq Past' /\ Past' \subseteq Run
    BY <1>1 DEF Past
  <2>2. /\ IsFiniteSet(Past \ {r}) /\ IsFiniteSet(Past')
        /\ Cardinality(Past) - 1 <= Cardinality(Past \ {r})
        /\ Cardinality(Past \ {r}) \in Nat
    BY <2>1, PastFinite, DAGAssumption, FS_RemoveElement, FS_Subset, FS_CardinalityType
  <2>3. /\ Cardinality(Past \ {r}) <= Cardinality(Past')
        /\ Cardinality(Past') \in Nat
    BY <2>1, <2>2, FS_Subset, FS_CardinalityType
  <2>. QED BY <1>1, <2>2, <2>3, PastFinite DEF Inv, DAGTypeOK, Counted
<1>. QED BY <1>2, <1>3, <1>4, <1>5, <1>6, <1>7, <1>8, <1>9, <1>10 DEF Inv

LEMMA ReadCapturePreserves ==
  ASSUME Inv, NEW r \in Run, ReadCapture(r)
  PROVE  Inv'
<1>1. DAGTypeOK'
  BY Names DEF Inv, DAGTypeOK, States, Batch, ReadCapture, Become, At
<1>2. Control'
  BY Names DEF Inv, Control, DAGTypeOK, ReadCapture, Become, At
<1>3. FileIsOwn'
  BY Names DEF Inv, FileIsOwn, DAGTypeOK, ReadCapture, Become, At
<1>4. WrittenIsOwn'
  BY Names DEF Inv, WrittenIsOwn, DAGTypeOK, ReadCapture, Become, At
<1>5. ReadIsOwn'
  BY Names DEF Inv, ReadIsOwn, DAGTypeOK, ReadCapture, Become, At
<1>6. RowsInserted'
  BY Names DEF Inv, RowsInserted, DAGTypeOK, ReadCapture, Become, At
<1>7. MessageSent'
  BY Names DEF Inv, MessageSent, DAGTypeOK, ReadCapture, Become, At
<1>8. FewWrong'
  <2>1. /\ UNCHANGED <<spark, etl, own, undisturbed, task>>
        /\ task[r] = 1 /\ state'[r] = "reading"
        /\ \A q \in Run \ {r} : state'[q] = state[q] /\ read'[q] = read[q]
    BY Names DEF Inv, DAGTypeOK, ReadCapture, Become, At
  <2>2. spark => \A s \in Range(Summaries) : Begun(r, s)' => Begun(r, s)
    BY <2>1, Names DEF Begun
  <2>. QED BY <2>1, <2>2, SummariesKept, Names DEF Inv
<1>9. Counted'
  <2>1. Past' = Past
    BY Names DEF Inv, DAGTypeOK, ReadCapture, Become, Past, At
  <2>. QED BY <2>1 DEF Inv, Counted, ReadCapture
<1>. QED BY <1>1, <1>2, <1>3, <1>4, <1>5, <1>6, <1>7, <1>8, <1>9 DEF Inv

LEMMA OpenParquetPreserves ==
  ASSUME Inv, NEW r \in Run, OpenParquet(r)
  PROVE  Inv'
<1>1. DAGTypeOK'
  BY Names DEF Inv, DAGTypeOK, States, Batch, OpenParquet, Become, At
<1>2. Control'
  BY Names DEF Inv, Control, DAGTypeOK, OpenParquet, Become, At
<1>3. FileIsOwn'
  BY Names DEF Inv, FileIsOwn, DAGTypeOK, OpenParquet, Become, At
<1>4. WrittenIsOwn'
  BY Names DEF Inv, WrittenIsOwn, DAGTypeOK, OpenParquet, Become, At
<1>5. ReadIsOwn'
  BY Names DEF Inv, ReadIsOwn, DAGTypeOK, OpenParquet, Become, At
<1>6. RowsInserted'
  BY Names DEF Inv, RowsInserted, DAGTypeOK, OpenParquet, Become, At
<1>7. MessageSent'
  BY Names DEF Inv, MessageSent, DAGTypeOK, OpenParquet, Become, At
\* Whose file it is from now on has not begun with its summaries.
<1>8. FewWrong'
  <2>1. task'[r] = 1 /\ state'[r] = "writing"
    BY Names DEF Inv, DAGTypeOK, OpenParquet, Become, At
  <2>2. Wrong(r)' = {}
    BY <2>1, Names DEF Wrong, Begun
  <2>3. \A q \in Run : undisturbed'[q] => q = r
    BY Zenon DEF OpenParquet
  <2>4. FewWrong /\ spark' = spark
    BY DEF Inv, OpenParquet
  <2>. QED BY <2>2, <2>3, <2>4, FewWrongKept
<1>9. Counted'
  <2>1. Past' = Past
    BY Names DEF Inv, DAGTypeOK, OpenParquet, Become, Past, At
  <2>. QED BY <2>1 DEF Inv, Counted, OpenParquet
<1>. QED BY <1>1, <1>2, <1>3, <1>4, <1>5, <1>6, <1>7, <1>8, <1>9 DEF Inv

LEMMA WriteParquetPreserves ==
  ASSUME Inv, NEW r \in Run, WriteParquet(r)
  PROVE  Inv'
<1>1. DAGTypeOK'
  BY Names DEF Inv, DAGTypeOK, States, Batch, WriteParquet, Become, At, Control
<1>2. Control'
  BY Names DEF Inv, Control, DAGTypeOK, WriteParquet, Become, At
<1>3. FileIsOwn'
  <2>1. \A q \in Run : undisturbed'[q] => q = r /\ undisturbed[r]
    BY Zenon DEF WriteParquet
  <2>2. own'[r] = read[r] /\ read[r] \in Batch /\ (undisturbed[r] => parquet' = read[r])
    BY DEF Inv, DAGTypeOK, Control, WriteParquet, At
  <2>. QED BY <2>1, <2>2, DAGAssumption DEF FileIsOwn, Batch
<1>4. WrittenIsOwn'
  BY Names, DAGAssumption DEF Inv, WrittenIsOwn, DAGTypeOK, WriteParquet, Become, At,
     Control, Batch
<1>5. ReadIsOwn'
  BY Names DEF Inv, ReadIsOwn, DAGTypeOK, WriteParquet, Become, At
<1>6. RowsInserted'
  BY Names DEF Inv, RowsInserted, DAGTypeOK, WriteParquet, Become, At
<1>7. MessageSent'
  BY Names DEF Inv, MessageSent, DAGTypeOK, WriteParquet, Become, At
\* Whose file it is from now on has not begun with its summaries.
<1>8. FewWrong'
  <2>1. task'[r] = 1 /\ state'[r] = "written"
    BY Names DEF Inv, DAGTypeOK, WriteParquet, Become, At
  <2>2. Wrong(r)' = {}
    BY <2>1, Names DEF Wrong, Begun
  <2>3. \A q \in Run : undisturbed'[q] => q = r
    BY Zenon DEF WriteParquet
  <2>4. FewWrong /\ spark' = spark
    BY DEF Inv, WriteParquet
  <2>. QED BY <2>2, <2>3, <2>4, FewWrongKept
<1>9. Counted'
  <2>1. Past' = Past
    BY Names DEF Inv, DAGTypeOK, WriteParquet, Become, Past, At
  <2>. QED BY <2>1 DEF Inv, Counted, WriteParquet
<1>. QED BY <1>1, <1>2, <1>3, <1>4, <1>5, <1>6, <1>7, <1>8, <1>9 DEF Inv

LEMMA OpenSparkPreserves ==
  ASSUME Inv, NEW r \in Run, OpenSpark(r)
  PROVE  Inv'
<1>1. DAGTypeOK'
  BY Names DEF Inv, DAGTypeOK, States, Batch, OpenSpark, Become, At
<1>2. Control'
  BY Names DEF Inv, Control, DAGTypeOK, OpenSpark, Become, At
<1>3. FileIsOwn'
  BY Names DEF Inv, FileIsOwn, DAGTypeOK, OpenSpark, Become, At
<1>4. WrittenIsOwn'
  BY Names DEF Inv, WrittenIsOwn, DAGTypeOK, OpenSpark, Become, At
<1>5. ReadIsOwn'
  BY Names DEF Inv, ReadIsOwn, DAGTypeOK, OpenSpark, Become, At
<1>6. RowsInserted'
  BY Names DEF Inv, RowsInserted, DAGTypeOK, OpenSpark, Become, At
<1>7. MessageSent'
  BY Names DEF Inv, MessageSent, DAGTypeOK, OpenSpark, Become, At
<1>8. FewWrong'
  <2>1. /\ UNCHANGED <<spark, etl, own, undisturbed, task>>
        /\ \/ ~spark /\ state'[r] = "finish"
           \/ state'[r] = Summaries[1] /\ read'[r] = None
        /\ \A q \in Run \ {r} : state'[q] = state[q] /\ read'[q] = read[q]
    BY Names DEF Inv, DAGTypeOK, OpenSpark, Become, At
  <2>2. spark => \A s \in Range(Summaries) : Begun(r, s)' => Begun(r, s)
    BY <2>1, Names DEF Begun
  <2>. QED BY <2>1, <2>2, SummariesKept, Names DEF Inv
<1>9. Counted'
  <2>1. Past' = Past
    BY Names DEF Inv, DAGTypeOK, OpenSpark, Become, Past, At
  <2>. QED BY <2>1 DEF Inv, Counted, OpenSpark
<1>. QED BY <1>1, <1>2, <1>3, <1>4, <1>5, <1>6, <1>7, <1>8, <1>9 DEF Inv

LEMMA OpenSummaryPreserves ==
  ASSUME Inv, NEW r \in Run, OpenSummary(r)
  PROVE  Inv'
<1>1. DAGTypeOK'
  BY Names, AfterEach DEF Inv, DAGTypeOK, States, Batch, OpenSummary, Become, Control
<1>2. Control'
  BY Names, AfterEach DEF Inv, Control, DAGTypeOK, OpenSummary, Become
<1>3. FileIsOwn'
  BY DEF Inv, FileIsOwn, OpenSummary
<1>4. WrittenIsOwn'
  BY Names, AfterEach DEF Inv, WrittenIsOwn, DAGTypeOK, OpenSummary, Become, Control
<1>5. ReadIsOwn'
  BY Names, AfterEach DEF Inv, ReadIsOwn, DAGTypeOK, OpenSummary, Become, Control, FileIsOwn,
     WrittenIsOwn
<1>6. RowsInserted'
  BY Names, AfterEach DEF Inv, RowsInserted, DAGTypeOK, OpenSummary, Become, Control
<1>7. MessageSent'
  BY Names, AfterEach DEF Inv, MessageSent, DAGTypeOK, OpenSummary, Become, Control
\* The summary is empty, and the file that is read is that of the undisturbed run.
<1>8. FewWrong'
  <2>1. ASSUME NEW q \in Run, spark, undisturbed[q]
        PROVE  Wrong(q)' \subseteq Wrong(q) /\ Late(q)' \subseteq Late(q)
    <3>1. parquet = own[q]
      BY <2>1, DAGAssumption DEF Inv, FileIsOwn, OpenSummary, Batch
    <3>2. /\ state[r] \in Range(Summaries) /\ UNCHANGED <<state, task, own>>
          /\ etl'[state[r]] = {} /\ \A s \in Range(Summaries) \ {state[r]} : etl'[s] = etl[s]
          /\ read'[r] = own[q] /\ \A t \in Run \ {r} : read'[t] = read[t]
      BY <3>1 DEF Inv, DAGTypeOK, OpenSummary
    <3>3. Wrong(q)' \subseteq Wrong(q)
      BY <3>2, Names DEF Wrong, Begun
    <3>4. Late(q)' \subseteq Late(q)
      BY <3>2 DEF Late
    <3>. QED BY <3>3, <3>4
  <2>2. FewWrong /\ spark' = spark /\ undisturbed' = undisturbed
    BY DEF Inv, OpenSummary
  <2>. QED BY <2>1, <2>2, FewWrongKept
<1>9. Counted'
  <2>1. Past' = Past
    BY AfterEach, Names DEF Inv, DAGTypeOK, OpenSummary, Become, Past, Control
  <2>. QED BY <2>1 DEF Inv, Counted, OpenSummary
<1>. QED BY <1>1, <1>2, <1>3, <1>4, <1>5, <1>6, <1>7, <1>8, <1>9 DEF Inv

LEMMA CommitSummaryPreserves ==
  ASSUME Inv, NEW r \in Run, CommitSummary(r)
  PROVE  Inv'
<1>1. DAGTypeOK'
  BY Names, AfterEach DEF Inv, DAGTypeOK, States, Batch, CommitSummary, Become, Control
<1>2. Control'
  BY Names, AfterEach DEF Inv, Control, DAGTypeOK, CommitSummary, Become
<1>3. FileIsOwn'
  BY DEF Inv, FileIsOwn, CommitSummary
<1>4. WrittenIsOwn'
  BY Names, AfterEach DEF Inv, WrittenIsOwn, DAGTypeOK, CommitSummary, Become, Control
<1>5. ReadIsOwn'
  BY Names, AfterEach DEF Inv, ReadIsOwn, DAGTypeOK, CommitSummary, Become, Control, FileIsOwn,
     WrittenIsOwn
<1>6. RowsInserted'
  BY Names, AfterEach DEF Inv, RowsInserted, DAGTypeOK, CommitSummary, Become, Control
<1>7. MessageSent'
  BY Names, AfterEach DEF Inv, MessageSent, DAGTypeOK, CommitSummary, Become, Control
\* A run that was late for another one spoils one summary, and reads anew.
<1>8. FewWrong'
  <2>0. /\ state[r] \in Range(Summaries) /\ UNCHANGED <<task, own>> /\ read[r] # None
        /\ etl'[state[r]] = etl[state[r]] \cup {read[r]}
        /\ \A s \in Range(Summaries) \ {state[r]} : etl'[s] = etl[s]
        /\ state'[r] = After(state[r]) /\ \A t \in Run \ {r} : state'[t] = state[t]
        /\ read'[r] = None /\ \A t \in Run \ {r} : read'[t] = read[t]
    BY DEF Inv, DAGTypeOK, CommitSummary, Become
  <2>1. ASSUME NEW q \in Run, spark, undisturbed[q], q # r, r \in Late(q)
        PROVE  Wrong(q)' \subseteq Wrong(q) \cup {state[r]} /\ Late(q)' \subseteq Late(q) \ {r}
    <3>1. Wrong(q)' \subseteq Wrong(q) \cup {state[r]}
      BY <2>0, <2>1, Names DEF Wrong, Begun
    <3>2. Late(q)' \subseteq Late(q) \ {r}
      BY <2>0, <2>1 DEF Late
    <3>. QED BY <3>1, <3>2
  <2>2. ASSUME NEW q \in Run, spark, undisturbed[q], q = r \/ r \notin Late(q)
        PROVE  Wrong(q)' \subseteq Wrong(q) /\ Late(q)' \subseteq Late(q)
    <3>1. read[r] = own[q]
      BY <2>0, <2>2 DEF Inv, ReadIsOwn, Late
    <3>2. \A s \in Range(Summaries) : etl'[s] \subseteq {own[q]} <=> etl[s] \subseteq {own[q]}
      BY <2>0, <3>1
    <3>3. \A s \in Range(Summaries) : Begun(q, s)' => Begun(q, s)
      BY <2>0, Names, AfterEach DEF Begun
    <3>4. Wrong(q)' \subseteq Wrong(q)
      BY <2>0, <3>2, <3>3 DEF Wrong
    <3>5. Late(q)' \subseteq Late(q)
      BY <2>0, <3>1 DEF Late
    <3>. QED BY <3>4, <3>5
  <2>3. FewWrong /\ spark' = spark /\ undisturbed' = undisturbed
    BY DEF Inv, CommitSummary
  <2>. QED BY <2>0, <2>1, <2>2, <2>3, FewWrongKept
<1>9. Counted'
  <2>1. Past' = Past
    BY AfterEach, Names DEF Inv, DAGTypeOK, CommitSummary, Become, Past, Control
  <2>. QED BY <2>1 DEF Inv, Counted, CommitSummary
<1>. QED BY <1>1, <1>2, <1>3, <1>4, <1>5, <1>6, <1>7, <1>8, <1>9 DEF Inv

LEMMA ReadParquetPreserves ==
  ASSUME Inv, NEW r \in Run, ReadParquet(r)
  PROVE  Inv'
<1>1. DAGTypeOK'
  BY Names DEF Inv, DAGTypeOK, States, Batch, ReadParquet, Become, At
<1>2. Control'
  BY Names DEF Inv, Control, DAGTypeOK, ReadParquet, Become, At
<1>3. FileIsOwn'
  BY Names DEF Inv, FileIsOwn, DAGTypeOK, ReadParquet, Become, At
<1>4. WrittenIsOwn'
  BY Names DEF Inv, WrittenIsOwn, DAGTypeOK, ReadParquet, Become, At
<1>5. ReadIsOwn'
  BY Names DEF Inv, ReadIsOwn, DAGTypeOK, ReadParquet, Become, At, FileIsOwn, WrittenIsOwn
<1>6. RowsInserted'
  BY Names DEF Inv, RowsInserted, DAGTypeOK, ReadParquet, Become, At
<1>7. MessageSent'
  BY Names DEF Inv, MessageSent, DAGTypeOK, ReadParquet, Become, At
<1>8. FewWrong'
  <2>1. /\ UNCHANGED <<spark, etl, own, undisturbed, task>>
        /\ task[r] \in {3, 4} /\ state'[r] = "loaded"
        /\ \A q \in Run \ {r} : state'[q] = state[q] /\ read'[q] = read[q]
    BY Names DEF Inv, DAGTypeOK, ReadParquet, Become, At
  <2>2. spark => \A s \in Range(Summaries) : Begun(r, s)' => Begun(r, s)
    BY <2>1, Names DEF Begun
  <2>. QED BY <2>1, <2>2, SummariesKept, Names DEF Inv
<1>9. Counted'
  <2>1. Past' = Past
    BY Names DEF Inv, DAGTypeOK, ReadParquet, Become, Past, At
  <2>. QED BY <2>1 DEF Inv, Counted, ReadParquet
<1>. QED BY <1>1, <1>2, <1>3, <1>4, <1>5, <1>6, <1>7, <1>8, <1>9 DEF Inv

LEMMA InsertRowsPreserves ==
  ASSUME Inv, NEW r \in Run, InsertRows(r)
  PROVE  Inv'
<1>1. DAGTypeOK'
  <2>1. read[r] \in Batch
    BY DEF Inv, InsertRows, Control, At
  <2>. QED BY <2>1 DEF Inv, DAGTypeOK, States, InsertRows, Become
<1>2. Control'
  BY Names DEF Inv, Control, DAGTypeOK, InsertRows, Become, At
<1>3. FileIsOwn'
  BY Names DEF Inv, FileIsOwn, DAGTypeOK, InsertRows, Become, At
<1>4. WrittenIsOwn'
  BY Names DEF Inv, WrittenIsOwn, DAGTypeOK, InsertRows, Become, At
<1>5. ReadIsOwn'
  BY Names DEF Inv, ReadIsOwn, DAGTypeOK, InsertRows, Become, At
<1>6. RowsInserted'
  BY Names DEF Inv, RowsInserted, DAGTypeOK, InsertRows, Become, At,
     Control, ReadIsOwn
<1>7. MessageSent'
  BY Names DEF Inv, MessageSent, DAGTypeOK, InsertRows, Become, At
<1>8. FewWrong'
  <2>1. /\ UNCHANGED <<spark, etl, own, undisturbed, task>>
        /\ task[r] \in {3, 4} /\ state'[r] = "finish"
        /\ \A q \in Run \ {r} : state'[q] = state[q] /\ read'[q] = read[q]
    BY Names DEF Inv, DAGTypeOK, InsertRows, Become, At
  <2>2. spark => \A s \in Range(Summaries) : Begun(r, s)' => Begun(r, s)
    BY <2>1, Names DEF Begun
  <2>. QED BY <2>1, <2>2, SummariesKept, Names DEF Inv
<1>9. Counted'
  <2>1. r \notin Past /\ Past' = Past \cup {r}
    BY Names DEF Inv, DAGTypeOK, InsertRows, Become, At, Past
  <2>2. inserted' = inserted + 1 /\ clears' = clears
    BY DEF InsertRows
  <2>3. Cardinality(Past') = Cardinality(Past) + 1
    BY <2>1, PastFinite, FS_AddElement
  <2>. QED BY <2>2, <2>3, PastFinite DEF Inv, DAGTypeOK, Counted
<1>. QED BY <1>1, <1>2, <1>3, <1>4, <1>5, <1>6, <1>7, <1>8, <1>9 DEF Inv

LEMMA ProduceRowsPreserves ==
  ASSUME Inv, NEW r \in Run, ProduceRows(r)
  PROVE  Inv'
<1>1. DAGTypeOK'
  <2>1. read[r] \in Batch
    BY DEF Inv, ProduceRows, Control, At
  <2>. QED BY <2>1 DEF Inv, DAGTypeOK, States, ProduceRows, Become
<1>2. Control'
  BY Names DEF Inv, Control, DAGTypeOK, ProduceRows, Become, At
<1>3. FileIsOwn'
  BY Names DEF Inv, FileIsOwn, DAGTypeOK, ProduceRows, Become, At
<1>4. WrittenIsOwn'
  BY Names DEF Inv, WrittenIsOwn, DAGTypeOK, ProduceRows, Become, At
<1>5. ReadIsOwn'
  BY Names DEF Inv, ReadIsOwn, DAGTypeOK, ProduceRows, Become, At
<1>6. RowsInserted'
  BY Names DEF Inv, RowsInserted, DAGTypeOK, ProduceRows, Become, At
<1>7. MessageSent'
  BY DEF Inv, DAGTypeOK, MessageSent, ReadIsOwn, ProduceRows, Become, At
<1>8. FewWrong'
  <2>1. /\ UNCHANGED <<spark, etl, own, undisturbed, task>>
        /\ task[r] \in {3, 4} /\ state'[r] = "finish"
        /\ \A q \in Run \ {r} : state'[q] = state[q] /\ read'[q] = read[q]
    BY Names DEF Inv, DAGTypeOK, ProduceRows, Become, At
  <2>2. spark => \A s \in Range(Summaries) : Begun(r, s)' => Begun(r, s)
    BY <2>1, Names DEF Begun
  <2>. QED BY <2>1, <2>2, SummariesKept, Names DEF Inv
<1>9. Counted'
  <2>1. Past' = Past
    BY Names DEF Inv, DAGTypeOK, ProduceRows, Become, Past, At
  <2>. QED BY <2>1 DEF Inv, Counted, ProduceRows
<1>. QED BY <1>1, <1>2, <1>3, <1>4, <1>5, <1>6, <1>7, <1>8, <1>9 DEF Inv

-----------------------------------------------------------------------------
LEMMA InitEstablishes == Init => Inv
<1>. SUFFICES ASSUME Init PROVE Inv
  OBVIOUS
<1>1. DAGTypeOK
  BY DAGAssumption, Names DEF Init, DAGTypeOK, Batch, States
<1>2. Control /\ FileIsOwn /\ WrittenIsOwn /\ ReadIsOwn
  BY Names DEF Init, Control, FileIsOwn, WrittenIsOwn, ReadIsOwn
<1>3. RowsInserted /\ MessageSent /\ FewWrong
  BY Names DEF Init, RowsInserted, MessageSent, FewWrong
<1>4. Counted
  BY PastFinite DEF Init, Counted
<1>. QED BY <1>1, <1>2, <1>3, <1>4 DEF Inv

LEMMA Inductive == Inv /\ [Next]_vars => Inv'
<1>. SUFFICES ASSUME Inv, [Next]_vars PROVE Inv'
  OBVIOUS
<1>1. CASE NewCapture
  BY <1>1, NewCapturePreserves
<1>2. CASE \E r \in Run : \/ Trigger(r) \/ Execute(r) \/ Succeed(r) \/ Fail(r)
                         \/ \E k \in DOMAIN Tasks : Clear(r, k)
  BY <1>2, TriggerPreserves, SucceedPreserves, FailPreserves, ClearPreserves,
     ReadCapturePreserves, OpenParquetPreserves, WriteParquetPreserves, OpenSparkPreserves,
     OpenSummaryPreserves, CommitSummaryPreserves, ReadParquetPreserves, InsertRowsPreserves, ProduceRowsPreserves
     DEF Execute
<1>3. CASE Over \/ UNCHANGED vars
  BY <1>3, StutterPreserves DEF Over
<1>. QED BY <1>1, <1>2, <1>3 DEF Next

\* The invariant, of which the theorems below are consequences.
THEOREM Invariance == Spec => []Inv
BY InitEstablishes, Inductive, PTL DEF Spec

\* The files, the table and the topic hold batches, and each task is at a place it
\* knows, however runs overlap and fail.
THEOREM TypeCorrect == Spec => []DAGTypeOK
<1>1. Inv => DAGTypeOK
  BY DEF Inv
<1>. QED BY <1>1, Invariance, PTL

\* A run that nobody overwrites has its batch in the table when it is published, and
\* has handed it to its producer when it succeeds (airflow_dag.py:23-125).
THEOREM RunsAreLoaded == Spec => []UndisturbedRunIsLoaded
<1>1. Inv => UndisturbedRunIsLoaded
  <2>. SUFFICES ASSUME Inv, NEW r \in Run, undisturbed[r]
                PROVE  /\ Tasks[task[r]] = "publish_kafka" => own[r] \in table
                       /\ state[r] = "success" => sent[r] = own[r]
    BY DEF UndisturbedRunIsLoaded
  <2>1. Tasks[task[r]] = "publish_kafka" => own[r] \in table
    BY Names DEF Inv, DAGTypeOK, RowsInserted
  <2>2. state[r] = "success" => sent[r] = own[r]
    BY DEF Inv, Control, MessageSent
  <2>. QED BY <2>1, <2>2
<1>. QED BY <1>1, Invariance, PTL

\* In fewer of its summaries than there are runs is anything of another batch, however
\* many runs overlap: each of the others is late once at most (pyspark_etl.py:110-121).
THEOREM SummariesAreOfOneBatch == Spec => []SummariesOfOneBatch
<1>1. Inv => SummariesOfOneBatch
  <2>. SUFFICES ASSUME Inv, NEW r \in Run, spark, undisturbed[r], task[r] >= 3
                PROVE  Cardinality({s \in Range(Summaries) : ~(etl[s] \subseteq {own[r]})})
                         < Cardinality(Run)
    BY DEF SummariesOfOneBatch
  <2>1. Wrong(r) = {s \in Range(Summaries) : ~(etl[s] \subseteq {own[r]})}
    <3>1. task[r] >= 2
      BY Names DEF Inv, DAGTypeOK
    <3>. QED BY <3>1 DEF Wrong, Begun
  <2>2. Cardinality(Wrong(r)) + Cardinality(Late(r)) < Cardinality(Run)
    BY DEF Inv, FewWrong
  <2>3. /\ Cardinality(Wrong(r)) \in Nat /\ Cardinality(Late(r)) \in Nat
        /\ Cardinality(Run) \in Nat
    <3>1. Wrong(r) \subseteq Range(Summaries) /\ Late(r) \subseteq Run \ {r}
      BY DEF Wrong, Late
    <3>. QED BY <3>1, SummariesFinite, OthersFinite
  <2>4. Cardinality(Wrong(r)) < Cardinality(Run)
    BY <2>2, <2>3
  <2>. QED BY <2>1, <2>4
<1>. QED BY <1>1, Invariance, PTL

\* Rows are inserted once per run and per clearance at most (airflow_dag.py:86).
THEOREM InsertionsAreCounted == Spec => []InsertionsAreExecutions
<1>1. Inv => InsertionsAreExecutions
  <2>. SUFFICES ASSUME Inv PROVE InsertionsAreExecutions
    OBVIOUS
  <2>1. Past \subseteq {r \in Run : task[r] >= 3} /\ {r \in Run : task[r] >= 3} \subseteq Run
    BY DEF Past
  <2>2. /\ IsFiniteSet({r \in Run : task[r] >= 3})
        /\ Cardinality({r \in Run : task[r] >= 3}) \in Nat
    BY <2>1, DAGAssumption, FS_Subset, FS_CardinalityType
  <2>3. Cardinality(Past) <= Cardinality({r \in Run : task[r] >= 3})
    BY <2>1, <2>2, FS_Subset
  <2>. QED BY <2>2, <2>3, PastFinite DEF Inv, DAGTypeOK, Counted,
     InsertionsAreExecutions
<1>. QED BY <1>1, Invariance, PTL
=============================================================================
