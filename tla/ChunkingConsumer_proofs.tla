----------------------- MODULE ChunkingConsumer_proofs -----------------------
(***************************************************************************)
(* Theorems about the chunking consumer, for any number of sources and     *)
(* jobs, any faults but those that a theorem excludes, and any number of   *)
(* restarts and rebalances.                                                *)
(***************************************************************************)
EXTENDS ChunkingConsumer, FiniteSetTheorems, TLAPS

USE DEF Topics

-----------------------------------------------------------------------------
(***************************************************************************)
(* Types.                                                                  *)
(***************************************************************************)
LEMMA LogType ==
    ASSUME TypeOK, NEW t \in Topics
    PROVE  /\ log[t] \in Seq(Records(t))
           /\ Len(log[t]) \in Nat
           /\ DOMAIN log[t] = 1 .. Len(log[t])
BY DEF TypeOK, Records

\* The same of the next state.
LEMMA NextLogType ==
    ASSUME TypeOK', NEW t \in Topics
    PROVE  /\ Len(log'[t]) \in Nat
           /\ DOMAIN log'[t] = 1 .. Len(log'[t])
<1>1. log'["chunking"] \in Seq(Record) /\ log'["cancel"] \in Seq(CancelRecord)
    BY DEF TypeOK
<1> QED
    BY <1>1

\* What the task handles is a record of its topic.
LEMMA CurrentType ==
    ASSUME TypeOK, phase # "idle"
    PROVE  CurrentRecord \in Records(current.topic)
<1>1. /\ current.topic \in Topics
      /\ current.offset \in 1 .. Len(log[current.topic])
    BY DEF TypeOK
<1>2. log[current.topic] \in Seq(Records(current.topic))
    BY <1>1, LogType
<1> QED
    BY <1>1, <1>2 DEF CurrentRecord

\* A topic only grows: what was published stays where it is.
Grows ==
    \A t \in Topics :
        /\ Len(log'[t]) \in Nat
        /\ Len(log'[t]) >= Len(log[t])
        /\ \A i \in 1 .. Len(log[t]) : log'[t][i] = log[t][i]

LEMMA ProduceGrows ==
    ASSUME TypeOK, NEW t \in Topics, NEW e \in Records(t), Produce(t, e)
    PROVE  /\ Grows
           /\ Len(log'[t]) = Len(log[t]) + 1
           /\ log'[t][Len(log[t]) + 1] = e
           /\ \A u \in Topics \ {t} : log'[u] = log[u]
<1>1. /\ log'[t] = Append(log[t], e)
      /\ \A u \in Topics \ {t} : log'[u] = log[u]
    BY DEF Produce, TypeOK
<1>2. /\ log[t] \in Seq(Records(t))
      /\ \A u \in Topics : Len(log[u]) \in Nat
    BY LogType
<1>3. /\ Len(log'[t]) = Len(log[t]) + 1
      /\ log'[t][Len(log[t]) + 1] = e
      /\ \A i \in 1 .. Len(log[t]) : log'[t][i] = log[t][i]
    BY <1>1, <1>2
<1>4. \A u \in Topics \ {t} : log'[u] = log[u]
    BY <1>1
<1>5. ASSUME NEW u \in Topics
      PROVE  /\ Len(log'[u]) \in Nat
             /\ Len(log'[u]) >= Len(log[u])
             /\ \A i \in 1 .. Len(log[u]) : log'[u][i] = log[u][i]
  <2>1. CASE u = t
      BY <1>2, <1>3, <2>1
  <2>2. CASE u # t
      BY <1>2, <1>4, <2>2
  <2> QED
      BY <2>1, <2>2
<1> QED
    BY <1>3, <1>4, <1>5 DEF Grows

LEMMA LogMoves ==
    ASSUME TypeOK, [Next]_vars
    PROVE  /\ Grows
           /\ \/ log' = log
              \/ \E t \in Topics : \E e \in Records(t) : Produce(t, e)
<1>1. \/ log' = log
      \/ \E t \in Topics : \E e \in Records(t) : Produce(t, e)
    BY DEF Next, vars, TaskStep, ProcessStep, Environment, Poll, Read, Save,
           PublishDone, PublishFailed, ProcessCancel, Commit, BeginStop,
           FinishStop, Crash, Start, Rebalance, RemoveDocuments, world
<1>2. CASE log' = log
    BY <1>2, LogType DEF Grows
<1>3. ASSUME NEW t \in Topics, NEW e \in Records(t), Produce(t, e)
      PROVE  Grows
    BY <1>3, ProduceGrows
<1> QED
    BY <1>1, <1>2, <1>3

LEMMA InitType == Init => TypeOK
BY DocumentsAssumption, MaxResetsAssumption
   DEF Init, TaskInit, TypeOK, Phases, NoRecord

\* The fields of the task after an attempt has failed.
LEMMA FailAttemptType ==
    ASSUME TypeOK, phase \in {"read", "save", "done"}, FailAttempt
    PROVE  /\ phase' \in {"read", "failed"}
           /\ current' = current
           /\ attempt' \in Nat
BY DEF FailAttempt, TypeOK

LEMMA NextType == TypeOK /\ [Next]_vars => TypeOK'
<1> SUFFICES ASSUME TypeOK, [Next]_vars PROVE TypeOK'
    OBVIOUS
<1> USE DEF TypeOK, Phases, world, task
<1>1. ASSUME NEW t \in Topics, Poll(t) PROVE TypeOK'
    BY <1>1, LogType, SMTT(30) DEF Poll
<1>2. CASE Read
    BY <1>2, FailAttemptType DEF Read, AfterRead
<1>3. CASE Save
  <2>1. CurrentRecord.source \in Sources
      BY <1>3, CurrentType DEF Save, Records, Record
  <2>2. chunks' \in [Sources -> Nat]
      BY <1>3, <2>1, SMTT(30) DEF Save
  <2> QED
      BY <1>3, <2>2, FailAttemptType DEF Save
<1>4. ASSUME NEW o, NEW st \in {"done", "failed"}, phase \in {"done", "failed"}
      PROVE  Published(o, st) \subseteq Status
    BY <1>4, CurrentType, SMTT(30) DEF Published, Status, Records, Record
<1>5. CASE PublishDone
  <2>1. statuses' \subseteq Status
      BY <1>4, <1>5 DEF PublishDone
  <2> QED
      BY <1>5, <2>1, FailAttemptType DEF PublishDone
<1>6. CASE PublishFailed
  <2>1. statuses' \subseteq Status
      BY <1>4, <1>6 DEF PublishFailed
  <2>2. CurrentRecord.job \in Jobs
      BY <1>6, CurrentType DEF PublishFailed, Records, Record
  <2>3. unreported' \subseteq Jobs
      BY <1>6, <2>2 DEF PublishFailed
  <2> QED
      BY <1>6, <2>1, <2>3 DEF PublishFailed, Return, NoRecord
<1>7. CASE ProcessCancel
  <2>1. ASSUME NEW s PROVE [chunks EXCEPT ![s] = 0] \in [Sources -> Nat]
      OBVIOUS
  <2>2. chunks' \in [Sources -> Nat]
      BY <1>7, <2>1 DEF ProcessCancel
  <2>3. /\ phase' \in {"commit", "idle"}
        /\ phase' = "commit" => current' = current /\ attempt' = attempt
        /\ phase' = "idle" => current' = NoRecord /\ attempt' = 1
      BY <1>7 DEF ProcessCancel, Return
  <2> QED
      BY <1>7, <2>2, <2>3 DEF ProcessCancel, NoRecord
<1>8. CASE Commit
    BY <1>8 DEF Commit, Return, NoRecord
<1>9. CASE ProcessStep
    BY <1>9, MaxResetsAssumption, SMTT(30)
    DEF ProcessStep, BeginStop, FinishStop, Crash, Start, Rebalance, Abandon,
        Return, NoRecord
<1>10. ASSUME NEW t \in Topics, NEW e \in Records(t), Produce(t, e)
       PROVE  TypeOK'
  <2>1. /\ log'["chunking"] \in Seq(Record)
        /\ log'["cancel"] \in Seq(CancelRecord)
        /\ DOMAIN log' = Topics
      BY <1>10 DEF Produce, Records
  <2>2. Grows
      BY <1>10, ProduceGrows
  <2>3. phase # "idle" =>
            current.offset \in 1 .. Len(log'[current.topic])
      BY <2>2, LogType DEF Grows
  <2> QED
      BY <1>10, <2>1, <2>3 DEF Produce
<1>11. ASSUME NEW gone, RemoveDocuments(gone) PROVE TypeOK'
    BY <1>11 DEF RemoveDocuments
<1>12. CASE UNCHANGED vars
    BY <1>12 DEF vars
<1> QED
    BY <1>1, <1>2, <1>3, <1>5, <1>6, <1>7, <1>8, <1>9, <1>10, <1>11, <1>12
    DEF Next, TaskStep, Environment

\* Every variable of the consumer keeps its type: the task only ever works on a
\* record that is there and on the handler of its topic.
THEOREM ConsumerTypeCorrect == Spec => []TypeOK
BY InitType, NextType, PTL DEF Spec

-----------------------------------------------------------------------------
(***************************************************************************)
(* Offsets: what is committed has been read, and what is read is there.    *)
(* A restart and a rebalance take the position back, never further than    *)
(* to the committed offset.                                                *)
(***************************************************************************)
OffsetsOK ==
    \A t \in Topics :
        committed[t] <= position[t] /\ position[t] <= Len(log[t])

LEMMA NextOffsets ==
    ASSUME TypeOK, OffsetsOK, [Next]_vars
    PROVE  /\ OffsetsOK'
           /\ \A t \in Topics : committed'[t] >= committed[t]
<1>1. /\ \A t \in Topics : Len(log[t]) \in Nat
      /\ position \in [Topics -> Nat] /\ position' \in [Topics -> Nat]
      /\ committed \in [Topics -> Nat]
    BY LogType, NextType DEF TypeOK
<1>2. Grows
    BY LogMoves
<1>3. ASSUME NEW u \in Topics, Poll(u)
      PROVE  \A t \in Topics : /\ position'[t] >= position[t]
                               /\ position'[t] <= Len(log'[t])
                               /\ committed'[t] = committed[t]
    BY <1>1, <1>3 DEF Poll, OffsetsOK, world
<1>4. \/ \E u \in Topics : Poll(u)
      \/ position' = position /\ committed' \in {position, committed}
      \/ position' = committed /\ committed' = committed
  <2>1. CASE TaskStep
    <3>1. CASE Commit
        BY <3>1 DEF Commit
    <3>2. CASE Read \/ Save \/ PublishDone \/ PublishFailed \/ ProcessCancel
        BY <3>2 DEF Read, Save, PublishDone, PublishFailed, ProcessCancel
    <3> QED
        BY <2>1, <3>1, <3>2 DEF TaskStep
  <2>2. CASE ProcessStep
      BY <2>2 DEF ProcessStep, BeginStop, FinishStop, Crash, Start, Rebalance,
                  task
  <2>3. CASE Environment \/ UNCHANGED vars
      BY <2>3 DEF Environment, Produce, RemoveDocuments, task, vars
  <2> QED
      BY <2>1, <2>2, <2>3 DEF Next
<1>5. CASE \E u \in Topics : Poll(u)
    BY <1>1, <1>3, <1>5 DEF OffsetsOK
<1>6. CASE position' = position /\ committed' \in {position, committed}
    BY <1>1, <1>2, <1>6 DEF OffsetsOK, Grows
<1>7. CASE position' = committed /\ committed' = committed
    BY <1>1, <1>2, <1>7 DEF OffsetsOK, Grows
<1> QED
    BY <1>4, <1>5, <1>6, <1>7

LEMMA OffsetsStay == Spec => []OffsetsOK
<1>1. Init => OffsetsOK
    BY DEF Init, TaskInit, OffsetsOK
<1>2. TypeOK /\ OffsetsOK /\ [Next]_vars => OffsetsOK'
    BY NextOffsets
<1> QED
    BY <1>1, <1>2, ConsumerTypeCorrect, PTL DEF Spec

\* The committed offsets never go back, over restarts, rebalances, and commits
\* that were applied but raised, and never pass the end of a topic.
THEOREM OffsetsAdvance == Spec => OffsetsNeverRegress
<1>1. Init => OffsetsOK
    BY DEF Init, TaskInit, OffsetsOK
<1>2. TypeOK /\ OffsetsOK /\ [Next]_vars => OffsetsOK'
    BY NextOffsets
<1>3. TypeOK /\ OffsetsOK /\ [Next]_vars
          => [\A t \in Topics : committed'[t] >= committed[t]]_vars
    BY NextOffsets
<1> QED
    BY <1>1, <1>2, <1>3, ConsumerTypeCorrect, PTL
    DEF Spec, OffsetsNeverRegress

-----------------------------------------------------------------------------
(***************************************************************************)
(* "done" tells the truth.                                                 *)
(***************************************************************************)
Indexed(s) == chunks[s] > 0 \/ content[s] = "empty" \/ Cancelled(s)

\* The chunks of a source go away only with a cancellation.
LEMMA ChunksMove ==
    ASSUME TypeOK, [Next]_vars, NEW s \in Sources
    PROVE  chunks'[s] >= chunks[s] \/ Cancelled(s)
<1>1. chunks \in [Sources -> Nat]
    BY DEF TypeOK
<1>2. CASE Save
  <2>1. CurrentRecord.source \in Sources
      BY <1>2, CurrentType DEF Save, Records, Record, TypeOK
  <2>2. \/ chunks' = chunks
        \/ chunks' = [chunks EXCEPT ![CurrentRecord.source] = @ + 1]
      BY <1>2 DEF Save
  <2> QED
      BY <1>1, <2>1, <2>2
<1>3. CASE ProcessCancel
  <2>1. /\ current.topic = "cancel"
        /\ current.offset \in DOMAIN log["cancel"]
      BY <1>3, LogType DEF ProcessCancel, TypeOK
  <2>2. Cancelled(CurrentRecord.source)
      BY <2>1 DEF Cancelled, CurrentRecord
  <2>3. chunks'[s] = chunks[s] \/ s = CurrentRecord.source
    <3>1. \/ chunks' = chunks
          \/ chunks' = [chunks EXCEPT ![CurrentRecord.source] = 0]
        BY <1>3 DEF ProcessCancel
    <3> QED
        BY <1>1, <3>1
  <2> QED
      BY <1>1, <2>2, <2>3
<1>4. CASE chunks' = chunks
    BY <1>1, <1>4
<1> QED
    BY <1>2, <1>3, <1>4
    DEF Next, vars, TaskStep, ProcessStep, Environment, Poll, Read,
        PublishDone, PublishFailed, Commit, BeginStop, FinishStop, Crash,
        Start, Rebalance, Produce, RemoveDocuments

LEMMA IndexedStays ==
    ASSUME TypeOK, [Next]_vars, NEW s \in Sources, Indexed(s)
    PROVE  Indexed(s)'
<1>1. content' = content
    BY DEF Next, vars, TaskStep, ProcessStep, Environment, Poll, Read, Save,
           PublishDone, PublishFailed, ProcessCancel, Commit, BeginStop,
           FinishStop, Crash, Start, Rebalance, Produce, RemoveDocuments, world
<1>2. Cancelled(s) => Cancelled(s)'
  <2>1. /\ DOMAIN log["cancel"] = 1 .. Len(log["cancel"])
        /\ DOMAIN log'["cancel"] = 1 .. Len(log'["cancel"])
      BY LogType, NextType, NextLogType
  <2> QED
      BY <2>1, LogMoves, LogType DEF Cancelled, Grows
<1>3. chunks \in [Sources -> Nat] /\ chunks' \in [Sources -> Nat]
    BY NextType DEF TypeOK
<1> QED
    BY <1>1, <1>2, <1>3, ChunksMove DEF Indexed

\* A job is published once, and what is reported has been published.
JobsOK ==
    /\ \A i, k \in DOMAIN log["chunking"] :
           log["chunking"][i].job = log["chunking"][k].job => i = k
    /\ \A x \in statuses :
           \E i \in DOMAIN log["chunking"] : log["chunking"][i].job = x.job

\* What the task knows at the point where it reports success.
DoneOK == phase = "done" => Indexed(CurrentRecord.source)

\* What a step does to the reports.
LEMMA StatusesMove ==
    ASSUME TypeOK, [Next]_vars
    PROVE  \/ statuses' = statuses
           \/ /\ PublishDone
              /\ statuses' = statuses \cup
                     {[job |-> CurrentRecord.job, status |-> "done"]}
           \/ /\ PublishFailed
              /\ statuses' = statuses \cup
                     {[job |-> CurrentRecord.job, status |-> "failed"]}
<1>1. CASE PublishDone
    BY <1>1 DEF PublishDone, Published
<1>2. CASE PublishFailed
    BY <1>2 DEF PublishFailed, Published
<1>3. CASE statuses' = statuses
    BY <1>3
<1> QED
    BY <1>1, <1>2, <1>3
    DEF Next, vars, TaskStep, ProcessStep, Environment, Poll, Read, Save,
        ProcessCancel, Commit, BeginStop, FinishStop, Crash, Start, Rebalance,
        Produce, RemoveDocuments

\* The record that a chunking handler works on is in its topic.
LEMMA CurrentJob ==
    ASSUME TypeOK, phase \in {"read", "save", "done", "failed"}
    PROVE  /\ current.offset \in DOMAIN log["chunking"]
           /\ CurrentRecord = log["chunking"][current.offset]
           /\ CurrentRecord \in Record
BY LogType, CurrentType DEF TypeOK, CurrentRecord, Records

LEMMA NextJobs == TypeOK /\ JobsOK /\ [Next]_vars => JobsOK'
<1> SUFFICES ASSUME TypeOK, JobsOK, [Next]_vars PROVE JobsOK'
    OBVIOUS
<1>1. CASE log' = log
  <2>1. \/ statuses' = statuses
        \/ \E st : /\ phase \in {"done", "failed"}
                   /\ statuses' = statuses \cup
                          {[job |-> CurrentRecord.job, status |-> st]}
      BY StatusesMove DEF PublishDone, PublishFailed
  <2>2. \A x \in statuses' : \/ x \in statuses
                             \/ /\ phase \in {"done", "failed"}
                                /\ x.job = CurrentRecord.job
      BY <2>1
  <2> QED
      BY <1>1, <2>2, CurrentJob DEF JobsOK
<1>2. ASSUME NEW t \in Topics, NEW e \in Records(t), Produce(t, e)
      PROVE  JobsOK'
  <2>1. /\ DOMAIN log["chunking"] = 1 .. Len(log["chunking"])
        /\ DOMAIN log'["chunking"] = 1 .. Len(log'["chunking"])
        /\ Len(log["chunking"]) \in Nat
        /\ Len(log'["chunking"]) \in Nat
      BY LogType, NextType, NextLogType
  <2>2. statuses' = statuses
      BY <1>2 DEF Produce
  <2>3. CASE t = "cancel"
    <3>1. log'["chunking"] = log["chunking"]
        BY <1>2, <2>3, ProduceGrows
    <3> QED
        BY <2>2, <3>1 DEF JobsOK
  <2>4. CASE t = "chunking"
    <3>1. /\ Len(log'["chunking"]) = Len(log["chunking"]) + 1
          /\ log'["chunking"][Len(log["chunking"]) + 1] = e
          /\ \A i \in DOMAIN log["chunking"] :
                 log'["chunking"][i] = log["chunking"][i]
        BY <1>2, <2>1, <2>4, ProduceGrows DEF Grows
    <3>2. \A i \in DOMAIN log["chunking"] : log["chunking"][i].job # e.job
        BY <1>2, <2>4 DEF Produce, Fresh
    <3>3. \A i \in DOMAIN log'["chunking"] :
              i \in DOMAIN log["chunking"] \/ i = Len(log["chunking"]) + 1
        BY <2>1, <3>1
    <3>4. ASSUME NEW i \in DOMAIN log'["chunking"],
                 NEW k \in DOMAIN log'["chunking"],
                 log'["chunking"][i].job = log'["chunking"][k].job
          PROVE  i = k
        BY <3>1, <3>2, <3>3, <3>4 DEF JobsOK
    <3>5. DOMAIN log["chunking"] \subseteq DOMAIN log'["chunking"]
        BY <2>1, <3>1
    <3> QED
        BY <2>2, <3>1, <3>4, <3>5 DEF JobsOK
  <2> QED
      BY <2>3, <2>4
<1> QED
    BY <1>1, <1>2, LogMoves

LEMMA NextDone == TypeOK /\ DoneOK /\ [Next]_vars => DoneOK'
<1> SUFFICES ASSUME TypeOK, DoneOK, [Next]_vars, phase' = "done"
             PROVE  Indexed(CurrentRecord.source)'
    BY DEF DoneOK
<1>1. /\ phase \in {"read", "save", "done"}
      /\ current' = current
      /\ \/ Read \/ Save
         \/ phase = "done"
    BY DEF Next, vars, TaskStep, ProcessStep, Environment, Poll, Read, Save,
           PublishDone, PublishFailed, ProcessCancel, Commit, FailAttempt,
           BeginStop, FinishStop, Crash, Abandon, Return, Start, Rebalance,
           Produce, RemoveDocuments, task
<1>2. CurrentRecord' = CurrentRecord
  <2>1. log'["chunking"][current.offset] = log["chunking"][current.offset]
      BY <1>1, CurrentJob, LogMoves, LogType DEF Grows
  <2> QED
      BY <1>1, <2>1, CurrentJob DEF CurrentRecord, TypeOK
<1>3. CurrentRecord.source \in Sources
    BY <1>1, CurrentJob DEF Record
<1>4. CASE phase = "done"
    BY <1>2, <1>3, <1>4, IndexedStays DEF DoneOK
<1>5. CASE Read
    BY <1>2, <1>5 DEF Read, AfterRead, FailAttempt, Indexed, world
<1>6. CASE Save
  <2>1. chunks' = [chunks EXCEPT ![CurrentRecord.source] = @ + 1]
      BY <1>6 DEF Save, FailAttempt, Applied
  <2> QED
      BY <1>2, <1>3, <2>1 DEF Indexed, TypeOK
<1> QED
    BY <1>1, <1>4, <1>5, <1>6

\* The job of a record has been reported as done.
DoneJob(i) ==
    [job |-> log["chunking"][i].job, status |-> "done"] \in statuses

LEMMA LogPrefix ==
    ASSUME TypeOK, [Next]_vars, NEW k \in DOMAIN log["chunking"]
    PROVE  /\ k \in DOMAIN log'["chunking"]
           /\ log'["chunking"][k] = log["chunking"][k]
           /\ log["chunking"][k].source \in Sources
<1>1. /\ DOMAIN log["chunking"] = 1 .. Len(log["chunking"])
      /\ Len(log["chunking"]) \in Nat
    BY LogType
<1>2. DOMAIN log'["chunking"] = 1 .. Len(log'["chunking"])
    BY NextType, NextLogType
<1>3. log["chunking"][k] \in Record
    BY DEF TypeOK
<1> QED
    BY <1>1, <1>2, <1>3, LogMoves DEF Grows, Record

LEMMA JobsArePublishedOnce == Spec => []JobsOK
<1>1. Init => JobsOK
    BY DEF Init, TaskInit, JobsOK
<1> QED
    BY <1>1, NextJobs, ConsumerTypeCorrect, PTL DEF Spec

\* Whatever fails, is retried, redelivered or restarted: when a job is reported
\* as done, its source is in the vector store, unless its document had no text
\* or a cancellation of it was published.
THEOREM DoneTellsTheTruth == Spec => []DoneMeansIndexed
<1>1. Init => JobsOK /\ DoneOK /\ DoneMeansIndexed
    BY DEF Init, TaskInit, JobsOK, DoneOK, DoneMeansIndexed
<1>2. ASSUME TypeOK, JobsOK, DoneOK, DoneMeansIndexed, [Next]_vars
      PROVE  DoneMeansIndexed'
  <2> SUFFICES ASSUME NEW i \in (DOMAIN log["chunking"])', DoneJob(i)'
               PROVE  Indexed(log["chunking"][i].source)'
      BY DEF DoneMeansIndexed, DoneJob, Indexed
  <2>1. JobsOK'
      BY <1>2, NextJobs
  <2>2. \A k \in DOMAIN log["chunking"] :
            /\ k \in DOMAIN log'["chunking"]
            /\ log'["chunking"][k] = log["chunking"][k]
            /\ log["chunking"][k].source \in Sources
      BY <1>2, LogPrefix
  <2>3. CASE i \in DOMAIN log["chunking"] /\ DoneJob(i)
    <3>1. Indexed(log["chunking"][i].source)
        BY <1>2, <2>3 DEF DoneMeansIndexed, DoneJob, Indexed
    <3> QED
        BY <1>2, <2>2, <2>3, <3>1, IndexedStays
  <2>4. CASE ~(i \in DOMAIN log["chunking"] /\ DoneJob(i))
    <3>1. [job |-> log'["chunking"][i].job, status |-> "done"] \notin statuses
      <4> SUFFICES ASSUME [job |-> log'["chunking"][i].job,
                           status |-> "done"] \in statuses
                   PROVE  FALSE
          OBVIOUS
      <4>1. PICK k \in DOMAIN log["chunking"] :
                log["chunking"][k].job = log'["chunking"][i].job
          BY <1>2 DEF JobsOK
      <4>2. i = k
          BY <2>1, <2>2, <4>1 DEF JobsOK
      <4> QED
          BY <2>4, <4>1, <4>2 DEF DoneJob
    <3>2. /\ phase = "done"
          /\ log' = log
          /\ CurrentRecord.job = log["chunking"][i].job
        BY <1>2, <3>1, StatusesMove
        DEF DoneJob, PublishDone, PublishFailed, world
    <3>3. /\ current.offset \in DOMAIN log["chunking"]
          /\ CurrentRecord = log["chunking"][current.offset]
        BY <1>2, <3>2, CurrentJob
    <3>4. i = current.offset
        BY <1>2, <3>2, <3>3 DEF JobsOK
    <3>5. Indexed(log["chunking"][i].source)
        BY <1>2, <3>2, <3>3, <3>4 DEF DoneOK
    <3> QED
        BY <1>2, <2>2, <3>3, <3>4, <3>5, IndexedStays
  <2> QED
      BY <2>3, <2>4
<1> QED
    BY <1>1, <1>2, NextJobs, NextDone, ConsumerTypeCorrect, PTL DEF Spec

-----------------------------------------------------------------------------
(***************************************************************************)
(* No job is passed over in silence.  The position of a process that is    *)
(* down says nothing: it is forgotten.                                     *)
(***************************************************************************)
InChunking == phase \in {"read", "save", "done", "failed"}

\* The job of a record has been heard of.
JobHeard(i) == Heard(log["chunking"][i].job)

ReportsOK ==
    /\ \A i \in 1 .. committed["chunking"] : JobHeard(i)
    /\ mode # "down" =>
           \A i \in 1 .. position["chunking"] :
               JobHeard(i) \/ (InChunking /\ i = current.offset)

LEMMA HeardStays ==
    ASSUME TypeOK, [Next]_vars, NEW i \in DOMAIN log["chunking"],
           JobHeard(i)
    PROVE  JobHeard(i)'
<1>1. statuses \subseteq statuses'
    BY StatusesMove
<1>2. unreported \subseteq unreported'
    BY DEF Next, vars, TaskStep, ProcessStep, Environment, Poll, Read, Save,
           PublishDone, PublishFailed, ProcessCancel, Commit, BeginStop,
           FinishStop, Crash, Start, Rebalance, Produce, RemoveDocuments
<1> QED
    BY <1>1, <1>2, LogPrefix DEF JobHeard, Heard, Reported

LEMMA NextReports ==
    ASSUME TypeOK, OffsetsOK, ReportsOK, [Next]_vars
    PROVE  ReportsOK'
<1>1. /\ position["chunking"] \in Nat /\ committed["chunking"] \in Nat
      /\ committed["chunking"] <= position["chunking"]
      /\ 1 .. position["chunking"] \subseteq DOMAIN log["chunking"]
    BY LogType DEF TypeOK, OffsetsOK
<1>2. \A i \in 1 .. position["chunking"] : JobHeard(i) => JobHeard(i)'
    BY <1>1, HeardStays
<1>3. \A i \in 1 .. committed["chunking"] : JobHeard(i)'
    BY <1>1, <1>2 DEF ReportsOK
<1>5. CASE \E t \in Topics : Poll(t)
  <2>1. PICK t \in Topics : Poll(t)
      BY <1>5
  <2>2. \A i \in 1 .. position'["chunking"] :
            \/ i \in 1 .. position["chunking"]
            \/ t = "chunking" /\ i = position["chunking"] + 1
      BY <1>1, <2>1 DEF Poll, TypeOK
  <2>3. /\ phase = "idle" /\ mode = "running"
        /\ t = "chunking" => /\ InChunking'
                             /\ current'.offset = position["chunking"] + 1
        /\ committed' = committed
      BY <2>1 DEF Poll, InChunking
  <2> QED
      BY <1>2, <1>3, <2>2, <2>3 DEF ReportsOK, InChunking
<1>6. CASE Read \/ Save \/ ProcessCancel
  <2>1. /\ committed' = committed /\ position' = position /\ mode' = mode
        /\ InChunking => InChunking' /\ current' = current
      BY <1>6 DEF Read, Save, ProcessCancel, FailAttempt, AfterRead, InChunking
  <2> QED
      BY <1>1, <1>2, <1>3, <2>1 DEF ReportsOK, InChunking
<1>7. CASE PublishDone \/ PublishFailed
  <2>1. /\ committed' = committed /\ position' = position /\ mode' = mode
        /\ phase \in {"done", "failed"}
        /\ log' = log
      BY <1>7 DEF PublishDone, PublishFailed, world
  <2>2. \/ InChunking' /\ current' = current
        \/ \E st : [job |-> CurrentRecord.job, status |-> st] \in statuses'
        \/ CurrentRecord.job \in unreported'
    <3>1. CASE PublishDone
      <4>1. PICK o \in Outcome("status") :
                /\ statuses' = Published(o, "done")
                /\ o # "ok" => FailAttempt
          BY <3>1 DEF PublishDone
      <4>2. CASE o = "ok"
          BY <4>1, <4>2 DEF Published, Applied
      <4>3. CASE o # "ok"
          BY <4>1, <4>3 DEF FailAttempt, InChunking
      <4> QED
          BY <4>2, <4>3
    <3>2. CASE PublishFailed
        BY <3>2 DEF PublishFailed, Published, Applied
    <3> QED
        BY <1>7, <3>1, <3>2
  <2>3. CASE InChunking' /\ current' = current
      BY <1>1, <1>2, <1>3, <2>1, <2>3 DEF ReportsOK, InChunking
  <2>4. CASE \/ \E st : [job |-> CurrentRecord.job, status |-> st] \in statuses'
             \/ CurrentRecord.job \in unreported'
    <3>1. CurrentRecord = log'["chunking"][current.offset]
        BY <2>1, CurrentJob
    <3>2. ASSUME NEW i, i = current.offset PROVE JobHeard(i)'
      <4>1. CASE \E st : [job |-> CurrentRecord.job, status |-> st] \in statuses'
        <5>1. \E x \in statuses' : x.job = log'["chunking"][i].job
            BY <3>1, <3>2, <4>1
        <5> QED
            BY <5>1 DEF JobHeard, Heard, Reported
      <4>2. CASE CurrentRecord.job \in unreported'
          BY <3>1, <3>2, <4>2 DEF JobHeard, Heard
      <4> QED
          BY <2>4, <4>1, <4>2
    <3>3. ASSUME mode' # "down", NEW i \in 1 .. position'["chunking"]
          PROVE  JobHeard(i)'
        BY <1>2, <2>1, <3>2, <3>3 DEF ReportsOK
    <3> QED
        BY <1>3, <2>1, <3>3 DEF ReportsOK
  <2> QED
      BY <2>2, <2>3, <2>4
<1>8. CASE Commit
  <2>1. /\ committed' \in {position, committed}
        /\ position' = position /\ mode' = mode /\ mode # "down"
        /\ phase = "commit"
      BY <1>8 DEF Commit
  <2> QED
      BY <1>1, <1>2, <1>3, <2>1 DEF ReportsOK, InChunking
<1>9. CASE ProcessStep
  <2>1. committed' = committed
      BY <1>9 DEF ProcessStep, BeginStop, FinishStop, Crash, Start, Rebalance
  <2>2. \/ mode' = "down"
        \/ position' = committed
        \/ BeginStop
      BY <1>9 DEF ProcessStep, FinishStop, Crash, Abandon, Start, Rebalance
  <2>3. CASE BeginStop
    <3>1. /\ mode # "down" /\ position' = position
          /\ phase' = phase /\ current' = current
        BY <2>3 DEF BeginStop, task
    <3> QED
        BY <1>1, <1>2, <1>3, <2>1, <3>1 DEF ReportsOK, InChunking
  <2> QED
      BY <1>3, <2>1, <2>2, <2>3 DEF ReportsOK
<1>10. CASE Environment \/ UNCHANGED vars
  <2>1. /\ committed' = committed /\ position' = position /\ mode' = mode
        /\ phase' = phase /\ current' = current
      BY <1>10 DEF Environment, Produce, RemoveDocuments, task, vars
  <2> QED
      BY <1>1, <1>2, <1>3, <2>1 DEF ReportsOK, InChunking
<1> QED
    BY <1>5, <1>6, <1>7, <1>8, <1>9, <1>10 DEF Next, TaskStep

LEMMA ReportsStay == Spec => []ReportsOK
<1>1. Init => OffsetsOK /\ ReportsOK
    BY DEF Init, TaskInit, OffsetsOK, ReportsOK
<1>2. TypeOK /\ OffsetsOK /\ [Next]_vars => OffsetsOK'
    BY NextOffsets
<1>3. TypeOK /\ OffsetsOK /\ ReportsOK /\ [Next]_vars => ReportsOK'
    BY NextReports
<1> QED
    BY <1>1, <1>2, <1>3, ConsumerTypeCorrect, PTL DEF Spec

\* A committed offset passes over no job in silence, the ones that failed
\* included: each has been reported as done or as failed, unless jobs.status
\* refused the report of its failure.
THEOREM NoSilentCommit == Spec => []CommittedIsReported
<1>1. ReportsOK => CommittedIsReported
    BY DEF ReportsOK, JobHeard, CommittedIsReported
<1> QED
    BY <1>1, ReportsStay, PTL

-----------------------------------------------------------------------------
(***************************************************************************)
(* Copies are bounded.  A record that is read may be saved once in each of *)
(* its attempts: what it may still add is bounded by what the records read *)
(* so far, in this and in every earlier reading of the topic, allow.       *)
(***************************************************************************)
JobsUpTo(s, n) == {i \in JobsOf(s) : i <= n}

\* The saves that the record being handled may still make.
Budget(s) ==
    IF phase \in {"read", "save", "done"} /\ CurrentRecord.source = s
    THEN MaxRetries - attempt + (IF phase = "done" THEN 0 ELSE 1)
    ELSE 0

\* The records of the source that have been read, over all readings.
Quota(s) ==
    Cardinality(JobsOf(s)) * resets
        + Cardinality(JobsUpTo(s, position["chunking"]))

AttemptOK == attempt \in 1 .. MaxRetries

CopiesOK == \A s \in Sources : chunks[s] + Budget(s) <= MaxRetries * Quota(s)

LEMMA Products ==
    ASSUME NEW a \in Nat, NEW b \in Nat, NEW c \in Nat, a <= b
    PROVE  /\ a * c \in Nat /\ b * c \in Nat /\ c * a \in Nat /\ c * b \in Nat
           /\ a * c <= b * c /\ c * a <= c * b
           /\ a * (c + 1) = a * c + a
           /\ c * (a + 1) = c * a + c
<1>1. /\ a * c \in Nat /\ b * c \in Nat /\ c * a \in Nat /\ c * b \in Nat
      /\ a * c = c * a /\ b * c = c * b
    OBVIOUS
<1>2. /\ a * (c + 1) = a * c + a
      /\ c * (a + 1) = c * a + c
    OBVIOUS
<1>3. PICK d \in Nat : b = a + d
    OBVIOUS
<1>4. b * c = a * c + d * c /\ d * c \in Nat
    BY <1>3
<1> QED
    BY <1>1, <1>2, <1>4

LEMMA JobsFinite ==
    ASSUME TypeOK, NEW s, NEW n
    PROVE  /\ Cardinality(JobsOf(s)) \in Nat
           /\ IsFiniteSet(JobsUpTo(s, n))
           /\ Cardinality(JobsUpTo(s, n)) \in Nat
           /\ Cardinality(JobsUpTo(s, n)) <= Cardinality(JobsOf(s))
<1>1. IsFiniteSet(DOMAIN log["chunking"])
  <2>1. /\ Len(log["chunking"]) \in Int
        /\ DOMAIN log["chunking"] = 1 .. Len(log["chunking"])
      BY LogType
  <2>2. IsFiniteSet(1 .. Len(log["chunking"]))
      BY <2>1, FS_Interval
  <2> QED
      BY <2>1, <2>2
<1>2. IsFiniteSet(JobsOf(s)) /\ Cardinality(JobsOf(s)) \in Nat
  <2>1. JobsOf(s) \in SUBSET DOMAIN log["chunking"]
      BY DEF JobsOf
  <2> QED
      BY <1>1, <2>1, FS_Subset, FS_CardinalityType
<1>3. JobsUpTo(s, n) \in SUBSET JobsOf(s)
    BY DEF JobsUpTo
<1> QED
    BY <1>2, <1>3, FS_Subset, FS_CardinalityType

\* What another reading of the topic leaves of the position.
LEMMA PositionMoves ==
    ASSUME TypeOK, [Next]_vars
    PROVE  \/ /\ resets' = resets
              /\ position'["chunking"] >= position["chunking"]
           \/ resets' = resets + 1
<1> USE DEF TypeOK
<1>1. CASE \E t \in Topics : Poll(t)
    BY <1>1 DEF Poll
<1>2. CASE UNCHANGED <<position, resets>>
    BY <1>2
<1>3. CASE Start \/ Rebalance
    BY <1>3 DEF Start, Rebalance
<1> QED
    BY <1>1, <1>2, <1>3
    DEF Next, vars, TaskStep, ProcessStep, Environment, Read, Save, PublishDone,
        PublishFailed, ProcessCancel, Commit, BeginStop, FinishStop, Crash,
        Produce, RemoveDocuments, task

LEMMA QuotaGrows ==
    ASSUME TypeOK, OffsetsOK, [Next]_vars, NEW s \in Sources
    PROVE  /\ Quota(s) \in Nat /\ Quota(s)' \in Nat
           /\ Quota(s)' >= Quota(s)
<1> DEFINE n == Cardinality(JobsOf(s))
           p == Cardinality(JobsUpTo(s, position["chunking"]))
<1>1. TypeOK'
    BY NextType
<1>2. n \in Nat /\ p \in Nat /\ p <= n
    BY JobsFinite
<1>3. /\ n' \in Nat /\ p' \in Nat
      /\ IsFiniteSet(JobsOf(s)') /\ IsFiniteSet(JobsUpTo(s, position["chunking"])')
  <2>1. IsFiniteSet(DOMAIN log'["chunking"])
      BY <1>1, NextLogType, FS_Interval
  <2>2. /\ JobsOf(s)' \in SUBSET DOMAIN log'["chunking"]
        /\ JobsUpTo(s, position["chunking"])' \in SUBSET DOMAIN log'["chunking"]
      BY DEF JobsOf, JobsUpTo
  <2> QED
      BY <2>1, <2>2, FS_Subset, FS_CardinalityType
<1>4. JobsOf(s) \in SUBSET JobsOf(s)'
    BY LogPrefix DEF JobsOf
<1>5. n <= n'
    BY <1>3, <1>4, FS_Subset
<1>6. resets \in Nat
    BY MaxResetsAssumption DEF TypeOK
<1>7. CASE resets' = resets /\ position'["chunking"] >= position["chunking"]
  <2>1. JobsUpTo(s, position["chunking"]) \in SUBSET JobsUpTo(s, position["chunking"])'
    <3>1. /\ position["chunking"] \in Nat /\ position'["chunking"] \in Nat
          /\ JobsOf(s) \subseteq Nat
      <4>1. position["chunking"] \in Nat /\ position'["chunking"] \in Nat
          BY <1>1 DEF TypeOK
      <4>2. JobsOf(s) \subseteq Nat
          BY LogType DEF JobsOf
      <4> QED
          BY <4>1, <4>2
    <3>2. ASSUME NEW i \in JobsOf(s), i <= position["chunking"]
          PROVE  i \in JobsOf(s)' /\ i <= position'["chunking"]
      <4>1. i \in JobsOf(s)'
          BY <1>4, <3>2
      <4>2. i <= position'["chunking"]
          BY <1>7, <3>1, <3>2
      <4> QED
          BY <4>1, <4>2
    <3> QED
        BY <3>2 DEF JobsUpTo
  <2>2. p <= p'
      BY <1>3, <2>1, FS_Subset
  <2>3. n * resets <= n' * resets /\ n * resets \in Nat /\ n' * resets \in Nat
      BY <1>2, <1>3, <1>5, <1>6, Products
  <2> HIDE DEF n, p
  <2> QED
      BY <1>2, <1>3, <1>7, <2>2, <2>3 DEF Quota, n, p
<1>8. CASE resets' = resets + 1
  <2>1. /\ n * (resets + 1) <= n' * (resets + 1)
        /\ n' * (resets + 1) \in Nat
      BY <1>2, <1>3, <1>5, <1>6, Products
  <2>2. n * (resets + 1) = n * resets + n /\ n * resets \in Nat
      BY <1>2, <1>6, Products
  <2> QED
      BY <1>2, <1>3, <1>8, <2>1, <2>2 DEF Quota
<1> QED
    BY <1>7, <1>8, PositionMoves

\* A record that is read adds to the quota of its source.
LEMMA PollAdds ==
    ASSUME TypeOK, OffsetsOK, Poll("chunking"), NEW s \in Sources,
           log["chunking"][position["chunking"] + 1].source = s
    PROVE  Quota(s)' = Quota(s) + 1
<1> DEFINE q == position["chunking"]
<1>1. /\ q \in Nat /\ q < Len(log["chunking"])
      /\ position'["chunking"] = q + 1
      /\ log' = log /\ resets' = resets
    BY DEF Poll, TypeOK, world
<1>2. JobsOf(s)' = JobsOf(s)
    BY <1>1 DEF JobsOf
<1>3. q + 1 \in JobsOf(s)
    BY <1>1, LogType DEF JobsOf
<1>4. JobsUpTo(s, position["chunking"])' = JobsUpTo(s, q) \cup {q + 1}
  <2>1. JobsUpTo(s, position["chunking"])' = {i \in JobsOf(s) : i <= q + 1}
      BY <1>1, <1>2 DEF JobsUpTo
  <2>2. JobsOf(s) \subseteq Nat
      BY LogType DEF JobsOf
  <2> QED
      BY <1>1, <1>3, <2>1, <2>2 DEF JobsUpTo
<1>5. q + 1 \notin JobsUpTo(s, q)
    BY <1>1 DEF JobsUpTo
<1>6. Cardinality(JobsUpTo(s, q) \cup {q + 1}) = Cardinality(JobsUpTo(s, q)) + 1
    BY <1>5, JobsFinite, FS_AddElement
<1>7. Cardinality(JobsOf(s)) * resets \in Nat
  <2>1. Cardinality(JobsOf(s)) \in Nat
      BY JobsFinite
  <2>2. resets \in Nat
      BY MaxResetsAssumption DEF TypeOK
  <2> QED
      BY <2>1, <2>2, Products
<1>8. Cardinality(JobsUpTo(s, q)) \in Nat
    BY JobsFinite
<1>9. Quota(s)' = Cardinality(JobsOf(s)) * resets + (Cardinality(JobsUpTo(s, q)) + 1)
    BY <1>1, <1>2, <1>4, <1>6 DEF Quota
<1> QED
    BY <1>7, <1>8, <1>9 DEF Quota

LEMMA ChunksAreNat == TypeOK => \A s \in Sources : chunks[s] \in Nat
BY DEF TypeOK

\* Except for a record that is read, no step makes a source have more copies
\* together with those that the record being handled may still make.
LEMMA BudgetIsSpent ==
    ASSUME TypeOK, AttemptOK, [Next]_vars, ~Poll("chunking"), NEW s \in Sources
    PROVE  /\ chunks'[s] + Budget(s)' <= chunks[s] + Budget(s)
<1> DEFINE here == CurrentRecord.source = s
<1> USE MaxRetriesAssumption DEF AttemptOK
<1>1. chunks[s] \in Nat /\ attempt \in 1 .. MaxRetries
    BY ChunksAreNat
<1>2. Budget(s) \in Nat
    BY <1>1 DEF Budget
<1>3. ASSUME phase' \notin {"read", "save", "done"}, chunks' = chunks
      PROVE  chunks'[s] + Budget(s)' <= chunks[s] + Budget(s)
    BY <1>1, <1>2, <1>3 DEF Budget
<1>4. ASSUME current' = current, log' = log
      PROVE  Budget(s)' = IF phase' \in {"read", "save", "done"} /\ here
                          THEN MaxRetries - attempt' + (IF phase' = "done" THEN 0 ELSE 1)
                          ELSE 0
    BY <1>4 DEF Budget, CurrentRecord
<1>5. ASSUME FailAttempt, log' = log, chunks' = chunks,
             phase \in {"read", "save", "done"}
      PROVE  chunks'[s] + Budget(s)' <= chunks[s] + Budget(s)
    BY <1>1, <1>4, <1>5 DEF FailAttempt, Budget
<1>6. CASE Read
  <2>1. log' = log /\ chunks' = chunks /\ phase = "read"
      BY <1>6 DEF Read, world
  <2>2. \/ FailAttempt
        \/ phase' \in {"save", "done"} /\ attempt' = attempt /\ current' = current
      BY <1>6 DEF Read, AfterRead
  <2> QED
      BY <1>1, <1>4, <1>5, <2>1, <2>2 DEF Budget
<1>7. CASE Save
  <2>1. /\ log' = log /\ phase = "save"
        /\ chunks'[s] \in Nat
        /\ chunks'[s] <= chunks[s] + (IF here THEN 1 ELSE 0)
      BY <1>1, <1>7, CurrentType DEF Save, world, TypeOK
  <2>2. \/ FailAttempt
        \/ phase' = "done" /\ attempt' = attempt /\ current' = current
      BY <1>7 DEF Save
  <2>3. CASE FailAttempt
      BY <1>1, <1>4, <2>1, <2>3 DEF FailAttempt, Budget
  <2>4. CASE phase' = "done" /\ attempt' = attempt /\ current' = current
      BY <1>1, <1>4, <2>1, <2>4 DEF Budget
  <2> QED
      BY <2>2, <2>3, <2>4
<1>8. CASE PublishDone
  <2>1. log' = log /\ chunks' = chunks /\ phase = "done"
      BY <1>8 DEF PublishDone, world
  <2>2. FailAttempt \/ phase' = "commit"
      BY <1>8 DEF PublishDone
  <2> QED
      BY <1>3, <1>5, <2>1, <2>2
<1>9. CASE ProcessCancel
  <2>1. /\ phase' \in {"commit", "idle"}
        /\ chunks'[s] \in {0, chunks[s]}
      BY <1>9 DEF ProcessCancel, Return, TypeOK
  <2>2. Budget(s)' = 0
      BY <2>1 DEF Budget
  <2> QED
      BY <1>1, <1>2, <2>1, <2>2
<1>10. CASE PublishFailed \/ Commit \/ FinishStop \/ Crash \/ Poll("cancel")
  <2>1. phase' \notin {"read", "save", "done"} /\ chunks' = chunks
      BY <1>10 DEF PublishFailed, Commit, FinishStop, Crash, Abandon, Return, Poll
  <2> QED
      BY <1>3, <2>1
<1>11. CASE BeginStop \/ Start \/ Rebalance \/ UNCHANGED vars
            \/ Environment
  <2>1. chunks' = chunks /\ UNCHANGED <<phase, current, attempt>>
      BY <1>11 DEF BeginStop, Start, Rebalance, RemoveDocuments, vars, task,
                   Environment, Produce
  <2>2. phase \in {"read", "save", "done"} => CurrentRecord' = CurrentRecord
      BY <2>1, CurrentJob, LogPrefix DEF CurrentRecord, TypeOK
  <2>3. Budget(s)' = Budget(s)
      BY <2>1, <2>2 DEF Budget
  <2> QED
      BY <1>1, <1>2, <2>1, <2>3
<1> QED
    BY <1>6, <1>7, <1>8, <1>9, <1>10, <1>11
    DEF Next, TaskStep, ProcessStep

LEMMA NextAttempt == TypeOK /\ AttemptOK /\ [Next]_vars => AttemptOK'
<1> SUFFICES ASSUME TypeOK, AttemptOK, [Next]_vars PROVE AttemptOK'
    OBVIOUS
<1>1. \/ attempt' = attempt \/ attempt' = 1
      \/ attempt < MaxRetries /\ attempt' = attempt + 1
    BY DEF Next, vars, TaskStep, ProcessStep, Environment, Poll, Read, Save,
           PublishDone, PublishFailed, ProcessCancel, Commit, BeginStop,
           FinishStop, Crash, Start, Rebalance, Produce, RemoveDocuments, task,
           FailAttempt, Return, Abandon
<1> QED
    BY <1>1, MaxRetriesAssumption DEF AttemptOK

LEMMA NextCopies ==
    ASSUME TypeOK, OffsetsOK, AttemptOK, CopiesOK, [Next]_vars
    PROVE  CopiesOK'
<1> SUFFICES ASSUME NEW s \in Sources
             PROVE  chunks'[s] + Budget(s)' <= MaxRetries * Quota(s)'
    BY DEF CopiesOK
<1>1. /\ Quota(s) \in Nat /\ Quota(s)' \in Nat /\ Quota(s)' >= Quota(s)
      /\ chunks[s] \in Nat /\ chunks'[s] \in Nat
    BY QuotaGrows, ChunksAreNat, NextType DEF TypeOK
<1>2. chunks[s] + Budget(s) <= MaxRetries * Quota(s) /\ Budget(s) \in Nat
    BY MaxRetriesAssumption DEF CopiesOK, Budget, AttemptOK
<1>3. Budget(s)' \in Nat
    BY NextAttempt, MaxRetriesAssumption DEF Budget, AttemptOK
<1>4. MaxRetries \in Nat
    BY MaxRetriesAssumption
<1>5. /\ MaxRetries * Quota(s) <= MaxRetries * Quota(s)'
      /\ MaxRetries * Quota(s) \in Nat /\ MaxRetries * Quota(s)' \in Nat
    BY <1>1, <1>4, Products
<1>6. CASE ~Poll("chunking")
  <2>1. chunks'[s] + Budget(s)' <= chunks[s] + Budget(s)
      BY <1>6, BudgetIsSpent
  <2> QED
      BY <1>1, <1>2, <1>3, <1>5, <2>1
<1>7. CASE Poll("chunking")
  <2>1. /\ chunks' = chunks /\ phase = "idle" /\ Budget(s) = 0
        /\ attempt' = 1 /\ phase' = "read"
        /\ CurrentRecord' = log["chunking"][position["chunking"] + 1]
      BY <1>7 DEF Poll, Budget, CurrentRecord, world
  <2>2. CASE log["chunking"][position["chunking"] + 1].source = s
    <3>1. Quota(s)' = Quota(s) + 1
        BY <1>7, <2>2, PollAdds
    <3>2. MaxRetries * Quota(s)' = MaxRetries * Quota(s) + MaxRetries
        BY <1>1, <1>4, <3>1, Products
    <3>3. Budget(s)' = MaxRetries
        BY <1>4, <2>1, <2>2 DEF Budget
    <3> QED
        BY <1>1, <1>2, <1>4, <1>5, <2>1, <3>2, <3>3
  <2>3. CASE log["chunking"][position["chunking"] + 1].source # s
    <3>1. Budget(s)' = 0
        BY <2>1, <2>3 DEF Budget
    <3> QED
        BY <1>1, <1>2, <1>5, <2>1, <3>1
  <2> QED
      BY <2>2, <2>3
<1> QED
    BY <1>6, <1>7

LEMMA CopiesBound ==
    ASSUME TypeOK, AttemptOK, CopiesOK
    PROVE  CopiesAreBounded
<1> SUFFICES ASSUME NEW s \in Sources
             PROVE  chunks[s] <= Cardinality(JobsOf(s)) * MaxRetries * (resets + 1)
    BY DEF CopiesAreBounded
<1> DEFINE n == Cardinality(JobsOf(s))
           p == Cardinality(JobsUpTo(s, position["chunking"]))
<1>1. n \in Nat /\ p \in Nat /\ p <= n
    BY JobsFinite
<1>2. MaxRetries \in Nat /\ resets \in Nat /\ chunks[s] \in Nat
    BY MaxRetriesAssumption, MaxResetsAssumption, ChunksAreNat DEF TypeOK
<1>3. chunks[s] <= MaxRetries * (n * resets + p)
  <2>1. Budget(s) \in Nat
      BY MaxRetriesAssumption DEF Budget, AttemptOK
  <2>2. chunks[s] + Budget(s) <= MaxRetries * (n * resets + p)
      BY DEF CopiesOK, Quota
  <2>3. MaxRetries * (n * resets + p) \in Nat
    <3>1. n * resets \in Nat
        BY <1>1, <1>2, Products
    <3> QED
        BY <1>1, <1>2, <3>1, Products
  <2> HIDE DEF n, p
  <2> QED
      BY <1>2, <2>1, <2>2, <2>3
<1> HIDE DEF n, p
<1>4. /\ n * (resets + 1) = n * resets + n
      /\ n * resets \in Nat /\ n * (resets + 1) \in Nat
    BY <1>1, <1>2, Products
<1>5. MaxRetries * (n * resets + p) <= MaxRetries * (n * (resets + 1))
  <2>1. n * resets + p \in Nat /\ n * resets + p <= n * (resets + 1)
      BY <1>1, <1>4
  <2> QED
      BY <1>2, <1>4, <2>1, Products
<1>6. MaxRetries * (n * (resets + 1)) = n * MaxRetries * (resets + 1)
    BY <1>1, <1>2
<1>7. /\ MaxRetries * (n * resets + p) \in Int
      /\ MaxRetries * (n * (resets + 1)) \in Int
    BY <1>1, <1>2, <1>4
<1> QED
    BY <1>2, <1>3, <1>5, <1>6, <1>7 DEF n

\* Retries, redeliveries and rebalances multiply a source, but only so far.
THEOREM CopiesBounded == Spec => []CopiesAreBounded
<1>1. Init => OffsetsOK /\ AttemptOK /\ CopiesOK
  <2> SUFFICES ASSUME Init PROVE OffsetsOK /\ AttemptOK /\ CopiesOK
      OBVIOUS
  <2>1. OffsetsOK /\ AttemptOK
      BY MaxRetriesAssumption DEF Init, TaskInit, OffsetsOK, AttemptOK
  <2>2. ASSUME NEW s \in Sources
        PROVE  chunks[s] + Budget(s) <= MaxRetries * Quota(s)
    <3>1. chunks[s] = 0 /\ Budget(s) = 0
        BY <2>2 DEF Init, TaskInit, Budget
    <3>2. JobsOf(s) = {} /\ JobsUpTo(s, position["chunking"]) = {}
      <4>1. log["chunking"] = << >>
          BY DEF Init
      <4>2. DOMAIN log["chunking"] = {}
          BY <4>1
      <4> QED
          BY <4>2 DEF JobsOf, JobsUpTo
    <3>3. Quota(s) = 0
      <4>1. Cardinality(JobsOf(s)) = 0 /\ Cardinality(JobsUpTo(s, position["chunking"])) = 0
          BY <3>2, FS_EmptySet
      <4>2. resets = 0
          BY DEF Init, TaskInit
      <4> QED
          BY <4>1, <4>2 DEF Quota
    <3> QED
        BY <3>1, <3>3, MaxRetriesAssumption
  <2> QED
      BY <2>1, <2>2 DEF CopiesOK
<1>2. TypeOK /\ OffsetsOK /\ [Next]_vars => OffsetsOK'
    BY NextOffsets
<1>3. TypeOK /\ OffsetsOK /\ AttemptOK /\ CopiesOK /\ [Next]_vars => CopiesOK'
    BY NextCopies
<1>4. TypeOK /\ AttemptOK /\ CopiesOK => CopiesAreBounded
    BY CopiesBound
<1> QED
    BY <1>1, <1>2, <1>3, <1>4, NextAttempt, ConsumerTypeCorrect, PTL DEF Spec

-----------------------------------------------------------------------------
(***************************************************************************)
(* What the liveness of the consumer rests on, besides its fairness.       *)
(***************************************************************************)
\* The calls that the task may still have to make for its record.
Stage == [read |-> 5, save |-> 4, done |-> 3, failed |-> 2, cancel |-> 2, commit |-> 1]

CallsLeft ==
    IF phase = "idle" THEN 0 ELSE 3 * (MaxRetries - attempt) + Stage[phase]

LEMMA CallsLeftNow ==
    /\ Stage["read"] = 5 /\ Stage["save"] = 4 /\ Stage["done"] = 3
    /\ Stage["failed"] = 2 /\ Stage["cancel"] = 2 /\ Stage["commit"] = 1
BY DEF Stage

LEMMA AttemptCosts ==
    ASSUME AttemptOK, phase \in {"read", "save", "done"}, FailAttempt
    PROVE  CallsLeft' < CallsLeft
<1> USE MaxRetriesAssumption, CallsLeftNow DEF AttemptOK, CallsLeft
<1>1. CASE attempt < MaxRetries
    BY <1>1 DEF FailAttempt
<1>2. CASE ~(attempt < MaxRetries)
    BY <1>2 DEF FailAttempt
<1> QED
    BY <1>1, <1>2

LEMMA TaskAdvances ==
    ASSUME AttemptOK, phase # "idle", TaskStep
    PROVE  CallsLeft' < CallsLeft
<1>1. \/ phase \in {"read", "save", "done"} /\ FailAttempt
      \/ /\ \/ phase = "read" /\ phase' \in {"save", "done"}
            \/ phase = "save" /\ phase' = "done"
            \/ phase \in {"done", "cancel"} /\ phase' = "commit"
         /\ attempt' = attempt
      \/ phase \in {"failed", "commit", "cancel"} /\ phase' = "idle"
    BY DEF TaskStep, Poll, Read, AfterRead, Save, PublishDone, PublishFailed,
           ProcessCancel, Commit, Return
<1>2. CASE phase \in {"read", "save", "done"} /\ FailAttempt
    BY <1>2, AttemptCosts
<1>3. CASE /\ \/ phase = "read" /\ phase' \in {"save", "done"}
              \/ phase = "save" /\ phase' = "done"
              \/ phase \in {"done", "cancel"} /\ phase' = "commit"
           /\ attempt' = attempt
    BY <1>3, MaxRetriesAssumption, CallsLeftNow DEF AttemptOK, CallsLeft
<1>4. CASE phase \in {"failed", "commit", "cancel"} /\ phase' = "idle"
    BY <1>4, MaxRetriesAssumption, CallsLeftNow DEF AttemptOK, CallsLeft
<1> QED
    BY <1>1, <1>2, <1>3, <1>4

\* The handling of a record comes to an end, whatever fails: every call that the
\* task makes for it, a retry included, leaves it fewer to make, and nothing else
\* (a rebalance, a shutdown, new records) ever adds to them.  A record that always
\* fails therefore holds up those behind it for 3 * MaxRetries + 2 calls at most.
THEOREM RecordsAreFinished ==
    Spec => [][phase # "idle" => /\ CallsLeft' <= CallsLeft
                                 /\ TaskStep => CallsLeft' < CallsLeft
                                 /\ CallsLeft \in 1 .. 3 * MaxRetries + 2]_vars
<1>1. TypeOK /\ AttemptOK /\ [Next]_vars
        => [phase # "idle" => /\ CallsLeft' <= CallsLeft
                              /\ TaskStep => CallsLeft' < CallsLeft
                              /\ CallsLeft \in 1 .. 3 * MaxRetries + 2]_vars
    <2> SUFFICES ASSUME TypeOK, AttemptOK, Next, phase # "idle"
                 PROVE  /\ CallsLeft' <= CallsLeft
                        /\ TaskStep => CallsLeft' < CallsLeft
                        /\ CallsLeft \in 1 .. 3 * MaxRetries + 2
        OBVIOUS
    <2>1. CallsLeft \in 1 .. 3 * MaxRetries + 2
        <3>1. phase \in Phases \ {"idle"}
            BY DEF TypeOK
        <3> QED
            BY <3>1, MaxRetriesAssumption, CallsLeftNow DEF Phases, AttemptOK, CallsLeft
    <2>2. CallsLeft' \in Int
        <3>1. AttemptOK' /\ phase' \in Phases
            BY NextAttempt, NextType DEF TypeOK
        <3> QED
            BY <3>1, MaxRetriesAssumption, CallsLeftNow DEF Phases, AttemptOK, CallsLeft
    <2>3. ASSUME ProcessStep \/ Environment PROVE CallsLeft' <= CallsLeft
        <3>1. \/ phase' = phase /\ attempt' = attempt
              \/ phase' = "idle"
            BY <2>3 DEF ProcessStep, Environment, BeginStop, FinishStop, Crash, Start,
                        Rebalance, Produce, RemoveDocuments, Abandon, Return, task
        <3> QED
            BY <2>1, <3>1 DEF CallsLeft
    <2> QED
        BY <2>1, <2>2, <2>3, TaskAdvances DEF Next
<1>2. Init => AttemptOK
    BY MaxRetriesAssumption DEF Init, TaskInit, AttemptOK
<1> QED
    BY <1>1, <1>2, NextAttempt, ConsumerTypeCorrect, PTL DEF Spec
=============================================================================
