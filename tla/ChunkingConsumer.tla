-------------------------- MODULE ChunkingConsumer --------------------------
(***************************************************************************)
(* The Kafka consumer of the knowledge service: one asyncio task that reads *)
(* jobs.chunking and jobs.cancel, indexes or deletes a source for each     *)
(* record, reports on jobs.status and commits offsets by hand.             *)
(*                                                                         *)
(* One action is one awaited call with the local code up to the next one,  *)
(* so that a crash or a shutdown can fall between any two.  A topic is the *)
(* sequence of its records (one partition), read through a position that a *)
(* restart or a rebalance sets back to the committed offset.               *)
(***************************************************************************)
EXTENDS Naturals, Sequences, FiniteSets

CONSTANTS
    Sources,
    Jobs,
    MaxRetries,   \* settings.max_retries
    Documents,    \* the kinds of document there are
    Deletable,    \* the sources whose document may disappear
    Faults,       \* pairs <<dependency, fault>> that can happen
    MaxResets     \* bound on the times the topics are read again

Topics == {"chunking", "cancel"}

\* "content" is the download, the parse and the embedding of a document.
Dependencies == {"content", "store", "status", "commit"}

\* refused: no effect and an exception; lostReply: the effect and an exception.
FaultKinds == {"refused", "lostReply"}

\* text: parses into sections; empty: parses into none; broken: fails to parse.
DocumentKinds == {"text", "empty", "broken"}

ASSUME DocumentsAssumption ==
    Documents \subseteq DocumentKinds /\ Deletable \subseteq Sources
ASSUME MaxRetriesAssumption == MaxRetries \in Nat \ {0}
ASSUME FaultsAssumption == Faults \subseteq Dependencies \X FaultKinds
ASSUME MaxResetsAssumption == MaxResets \in Nat

VARIABLES
    log,        \* the records of each topic
    content,    \* the kind of each source's document
    present,    \* the sources whose document can be downloaded
    mode,       \* the process: "running", "stopping" or "down"
    phase,      \* the next call of the task
    current,    \* the record being handled: its topic and offset
    attempt,    \* the attempt of the chunking job being handled
    position,   \* the next offset to read in each topic
    committed,  \* the committed offset of each topic
    chunks,     \* the copies of each source in the vector store
    statuses,   \* what was published on jobs.status
    unreported, \* the jobs whose last report was refused (for the properties)
    resets      \* how often the task went back to the committed offsets

task == <<phase, current, attempt, position>>
world == <<log, content, present>>
vars == <<log, content, present, mode, phase, current, attempt, position, committed,
          chunks, statuses, unreported, resets>>

Record == [job : Jobs, source : Sources]
CancelRecord == [source : Sources]
Records(t) == IF t = "chunking" THEN Record ELSE CancelRecord
Phases == {"idle", "read", "save", "done", "failed", "cancel", "commit"}
Status == [job : Jobs, status : {"done", "failed"}]

Outcome(d) == {"ok"} \cup {f \in FaultKinds : <<d, f>> \in Faults}
Applied(o) == o # "refused"

NoRecord == [topic |-> "chunking", offset |-> 0]

\* The handler has returned, and its local variables are gone.
Return == phase' = "idle" /\ current' = NoRecord /\ attempt' = 1

CurrentRecord == log[current.topic][current.offset]

-----------------------------------------------------------------------------
(***************************************************************************)
(* The loop.                                                               *)
(***************************************************************************)
\* Mutant: the offset is committed as the record is handed over.
PollAutoCommit(t) ==
    /\ mode = "running" /\ phase = "idle"
    /\ position[t] < Len(log[t])
    /\ position' = [position EXCEPT ![t] = @ + 1]
    /\ committed' = position'
    /\ current' = [topic |-> t, offset |-> position[t] + 1]
    /\ attempt' = 1
    /\ phase' = IF t = "chunking" THEN "read" ELSE "cancel"
    /\ UNCHANGED <<world, mode, chunks, statuses, unreported, resets>>

\* Mutant: every record is taken for a chunking job.
PollAnyAsChunking(t) ==
    /\ mode = "running" /\ phase = "idle"
    /\ position[t] < Len(log[t])
    /\ position' = [position EXCEPT ![t] = @ + 1]
    /\ current' = [topic |-> t, offset |-> position[t] + 1]
    /\ attempt' = 1
    /\ phase' = "read"
    /\ UNCHANGED <<world, mode, committed, chunks, statuses, unreported, resets>>

\* The next record of either topic.
Poll(t) ==
    /\ mode = "running" /\ phase = "idle"
    /\ position[t] < Len(log[t])
    /\ position' = [position EXCEPT ![t] = @ + 1]
    /\ current' = [topic |-> t, offset |-> position[t] + 1]
    /\ attempt' = 1
    /\ phase' = IF t = "chunking" THEN "read" ELSE "cancel"
    /\ UNCHANGED <<world, mode, committed, chunks, statuses, unreported, resets>>

\* commit() without arguments commits the position of every partition.  It
\* raises once the consumer is stopping; an exception is logged.
Commit ==
    /\ mode # "down" /\ phase = "commit"
    /\ \E o \in Outcome("commit") :
         committed' = IF Applied(o) /\ mode = "running" THEN position
                                                        ELSE committed
    /\ Return
    /\ UNCHANGED <<world, mode, position, chunks, statuses, unreported, resets>>

-----------------------------------------------------------------------------
(***************************************************************************)
(* _process_chunking and _do_chunking.                                     *)
(***************************************************************************)
\* Mutants: one attempt too many; the attempts are not counted.
FailAttemptInclusive ==
    IF attempt <= MaxRetries
    THEN phase' = "read" /\ attempt' = attempt + 1 /\ UNCHANGED current
    ELSE phase' = "failed" /\ UNCHANGED <<attempt, current>>
FailAttemptUncounted ==
    IF attempt < MaxRetries
    THEN phase' = "read" /\ UNCHANGED <<attempt, current>>
    ELSE phase' = "failed" /\ UNCHANGED <<attempt, current>>

\* An exception in an attempt: back off and try again, or give up.
FailAttempt ==
    IF attempt < MaxRetries
    THEN phase' = "read" /\ attempt' = attempt + 1 /\ UNCHANGED current
    ELSE phase' = "failed" /\ UNCHANGED <<attempt, current>>

\* Mutant: reports before it saves.
AfterReadReportFirst(c) == "done"

\* A document without sections is done with nothing saved.
AfterRead(c) == IF c = "empty" THEN "done" ELSE "save"

\* Download, parse, split and embed.
Read ==
    LET s == CurrentRecord.source IN
    /\ mode # "down" /\ phase = "read"
    /\ \E o \in Outcome("content") :
         IF o = "ok" /\ s \in present /\ content[s] # "broken"
         THEN phase' = AfterRead(content[s]) /\ UNCHANGED <<attempt, current>>
         ELSE FailAttempt
    /\ UNCHANGED <<world, mode, position, committed, chunks, statuses,
                   unreported, resets>>

\* save_source_chunks: one transaction, which adds to what is there.
Save ==
    /\ mode # "down" /\ phase = "save"
    /\ \E o \in Outcome("store") :
         /\ chunks' = IF Applied(o)
                      THEN [chunks EXCEPT ![CurrentRecord.source] = @ + 1]
                      ELSE chunks
         /\ IF o = "ok" THEN phase' = "done" /\ UNCHANGED <<attempt, current>>
                        ELSE FailAttempt
    /\ UNCHANGED <<world, mode, position, committed, statuses, unreported, resets>>

Published(o, st) ==
    IF Applied(o)
    THEN statuses \cup {[job |-> CurrentRecord.job, status |-> st]}
    ELSE statuses

\* The report of success is part of the attempt: if it fails, the whole job is
\* done again.
PublishDone ==
    /\ mode # "down" /\ phase = "done"
    /\ \E o \in Outcome("status") :
         /\ statuses' = Published(o, "done")
         /\ IF o = "ok" THEN phase' = "commit" /\ UNCHANGED <<attempt, current>>
                        ELSE FailAttempt
    /\ UNCHANGED <<world, mode, position, committed, chunks, unreported, resets>>

\* The job is reported as failed and its record is left uncommitted; so it is
\* when the report itself fails.
PublishFailed ==
    /\ mode # "down" /\ phase = "failed"
    /\ \E o \in Outcome("status") :
         /\ statuses' = Published(o, "failed")
         /\ unreported' = IF Applied(o) THEN unreported
                                        ELSE unreported \cup {CurrentRecord.job}
    /\ Return
    /\ UNCHANGED <<world, mode, position, committed, chunks, resets>>

\* _process_cancel: delete_by_source, one statement.
ProcessCancel ==
    /\ mode # "down" /\ phase = "cancel"
    /\ \E o \in Outcome("store") :
         /\ chunks' = IF Applied(o)
                      THEN [chunks EXCEPT ![CurrentRecord.source] = 0]
                      ELSE chunks
         /\ IF o = "ok" THEN phase' = "commit" /\ UNCHANGED <<attempt, current>>
                        ELSE Return
    /\ UNCHANGED <<world, mode, position, committed, statuses, unreported, resets>>

-----------------------------------------------------------------------------
(***************************************************************************)
(* The process.                                                            *)
(***************************************************************************)
\* The task is gone, whatever it was doing.
Abandon == mode' = "down" /\ Return

\* main awaits consumer.stop(), and the task goes on meanwhile...
BeginStop ==
    /\ mode = "running" /\ resets < MaxResets
    /\ mode' = "stopping"
    /\ UNCHANGED <<world, task, committed, chunks, statuses, unreported, resets>>

\* ...then cancels the task at whichever call it has reached.
FinishStop ==
    /\ mode = "stopping"
    /\ Abandon
    /\ UNCHANGED <<world, position, committed, chunks, statuses, unreported, resets>>

\* A crash while stopping would do what FinishStop does.
Crash ==
    /\ mode = "running" /\ resets < MaxResets
    /\ Abandon
    /\ UNCHANGED <<world, position, committed, chunks, statuses, unreported, resets>>

\* Mutant: reads the topics from their beginning.
StartFromEarliest ==
    /\ mode = "down"
    /\ mode' = "running"
    /\ position' = [t \in Topics |-> 0]
    /\ resets' = resets + 1
    /\ UNCHANGED <<world, phase, current, attempt, committed, chunks,
                   statuses, unreported>>

\* The group resumes from its committed offsets.
Start ==
    /\ mode = "down"
    /\ mode' = "running"
    /\ position' = committed
    /\ resets' = resets + 1
    /\ UNCHANGED <<world, phase, current, attempt, committed, chunks,
                   statuses, unreported>>

\* A record that takes longer than the group allows between two polls makes the
\* group rebalance: the task goes on with the record, and the only member of the
\* group reads on from the committed offsets.
Rebalance ==
    /\ mode = "running" /\ phase # "idle" /\ resets < MaxResets
    /\ position' = committed
    /\ resets' = resets + 1
    /\ UNCHANGED <<world, mode, phase, current, attempt, committed, chunks,
                   statuses, unreported>>

-----------------------------------------------------------------------------
(***************************************************************************)
(* The environment: records arrive, and documents disappear.               *)
(***************************************************************************)
\* Each job is published once, and each source is cancelled at most once.
Fresh(t, e) ==
    \A i \in DOMAIN log[t] :
        IF t = "chunking" THEN log[t][i].job # e.job ELSE log[t][i] # e

Produce(t, e) ==
    /\ Fresh(t, e)
    /\ log' = [log EXCEPT ![t] = Append(@, e)]
    /\ UNCHANGED <<content, present, mode, task, committed, chunks, statuses,
                   unreported, resets>>

\* A delete removes one document; a crash of the sources service takes those away
\* that its requests in flight were about to put.
RemoveDocuments(gone) ==
    /\ gone # {}
    /\ present' = present \ gone
    /\ UNCHANGED <<log, content, mode, task, committed, chunks, statuses,
                   unreported, resets>>

-----------------------------------------------------------------------------
TaskInit ==
    /\ mode = "running"
    /\ phase = "idle"
    /\ current = NoRecord
    /\ attempt = 1
    /\ position = [t \in Topics |-> 0]
    /\ committed = [t \in Topics |-> 0]
    /\ chunks = [s \in Sources |-> 0]
    /\ statuses = {}
    /\ unreported = {}
    /\ resets = 0

Init ==
    /\ log = [t \in Topics |-> << >>]
    /\ content \in [Sources -> Documents]
    /\ present = Sources
    /\ TaskInit

TaskStep ==
    \/ \E t \in Topics : Poll(t)
    \/ Read \/ Save \/ PublishDone \/ PublishFailed \/ ProcessCancel \/ Commit

ProcessStep == BeginStop \/ FinishStop \/ Crash \/ Start \/ Rebalance

Environment ==
    \/ \E t \in Topics : \E e \in Records(t) : Produce(t, e)
    \/ \E gone \in SUBSET (present \cap Deletable) : RemoveDocuments(gone)

Next == TaskStep \/ ProcessStep \/ Environment

Spec == Init /\ [][Next]_vars

\* Awaited calls return, the task is scheduled, and the container is restarted
\* (restart: unless-stopped) once it is down.
FairSpec == Spec /\ WF_vars(TaskStep) /\ WF_vars(FinishStop) /\ WF_vars(Start)

-----------------------------------------------------------------------------
(***************************************************************************)
(* Properties.                                                             *)
(***************************************************************************)
TypeOK ==
    /\ log["chunking"] \in Seq(Record) /\ log["cancel"] \in Seq(CancelRecord)
    /\ DOMAIN log = Topics
    /\ content \in [Sources -> DocumentKinds]
    /\ present \subseteq Sources
    /\ mode \in {"running", "stopping", "down"}
    /\ phase \in Phases
    /\ current \in [topic : Topics, offset : Nat]
    /\ phase # "idle" => current.offset \in 1 .. Len(log[current.topic])
    /\ phase \in {"read", "save", "done", "failed"} =>
           current.topic = "chunking"
    /\ phase = "cancel" => current.topic = "cancel"
    /\ attempt \in Nat
    /\ position \in [Topics -> Nat]
    /\ committed \in [Topics -> Nat]
    /\ chunks \in [Sources -> Nat]
    /\ statuses \subseteq Status
    /\ unreported \subseteq Jobs
    /\ resets \in 0 .. MaxResets
    /\ mode # "running" => resets < MaxResets

JobsOf(s) == {i \in DOMAIN log["chunking"] : log["chunking"][i].source = s}

Cancelled(s) == \E i \in DOMAIN log["cancel"] : log["cancel"][i].source = s

Reported(j) == \E x \in statuses : x.job = j

\* The committed offsets never go back, over restarts, rebalances, failures and
\* commits that were applied but raised: no record is skipped and then unskipped.
OffsetsNeverRegress ==
    [][\A t \in Topics : committed'[t] >= committed[t]]_vars

\* "done" on jobs.status tells the truth: the source is in the vector store,
\* unless its document was blank or it has been cancelled.
DoneMeansIndexed ==
    \A i \in DOMAIN log["chunking"] :
        LET e == log["chunking"][i] IN
        [job |-> e.job, status |-> "done"] \in statuses =>
            \/ chunks[e.source] > 0
            \/ content[e.source] = "empty"
            \/ Cancelled(e.source)

\* A save adds to what is there, so that retries and redeliveries multiply a
\* source; they do so at most once per attempt, and as often again each time the
\* records are read again.
CopiesAreBounded ==
    \A s \in Sources :
        chunks[s] <= Cardinality(JobsOf(s)) * MaxRetries * (resets + 1)

\* The job has been reported, or its report as failed was tried and refused.
Heard(j) == Reported(j) \/ j \in unreported

\* No job is passed over in silence: once the offset of its record is committed
\* (which a failed record's is, by the commit of a later one), the job has been
\* reported as done or as failed, unless jobs.status refused that very report.
CommittedIsReported ==
    \A i \in 1 .. committed["chunking"] : Heard(log["chunking"][i].job)

\* "Only commit after successful processing": a crash or a shutdown at any point,
\* and commits that fail, lose no job.
CommittedIsDone ==
    \A i \in 1 .. committed["chunking"] :
        [job |-> log["chunking"][i].job, status |-> "done"] \in statuses

\* A job that always fails does not block those behind it: of every job published
\* there is a report in the end, unless jobs.status refused the last one.
EveryJobIsReported ==
    \A j \in Jobs :
        (\E i \in DOMAIN log["chunking"] : log["chunking"][i].job = j)
            ~> Heard(j)
=============================================================================
