-------------------------- MODULE IndexingPipeline --------------------------
(***************************************************************************)
(* The sources service and the chunking consumer of the knowledge service  *)
(* together, over the topics jobs.chunking and jobs.cancel and the object  *)
(* store that they share.  The two topics are two sequences: nothing       *)
(* orders a cancellation after the job that it cancels.                    *)
(***************************************************************************)
EXTENDS SourceService

CONSTANTS
    Documents,       \* the kinds of document there are
    MaxRetries,      \* settings.max_retries
    ConsumerFaults,  \* faults of the consumer's calls
    MaxResets        \* bound on the times the consumer reads the topics again

VARIABLES
    topics,   \* the records of the two topics, in the order of their publication
    content,  \* the kind of the document that an upload brings
    mode, phase, current, attempt, position, committed, chunks, statuses,
    unreported, resets

consumer == <<mode, phase, current, attempt, position, committed, chunks,
              statuses, unreported, resets>>

pipelineVars == <<vars, topics, content, consumer>>

\* A URL can always be fetched; a file as long as its object is there.  A file
\* that is not put yet counts as there, since no job can ask for it.
Present == {s \in Requests : \/ ~req[s].file
                             \/ s \in objects
                             \/ pc[s] \in {"idle", "limits", "save", "put"}}

Consumer ==
    INSTANCE ChunkingConsumer
    WITH Sources <- Requests, Jobs <- Requests, Faults <- ConsumerFaults,
         Deletable <- Requests, log <- topics, present <- Present

ASSUME ConsumerAssumption ==
    /\ Documents \subseteq Consumer!DocumentKinds
    /\ MaxRetries \in Nat \ {0} /\ MaxResets \in Nat
    /\ ConsumerFaults \subseteq Consumer!Dependencies \X Consumer!FaultKinds

-----------------------------------------------------------------------------
\* The records that a step of the service appends.
NewJobs == {[job |-> e.job, source |-> e.source] :
            e \in jobsChunking' \ jobsChunking}
NewCancels == {[source |-> e.source] : e \in jobsCancel' \ jobsCancel}

\* A step publishes at most one record on a topic.
Extended(log, new) ==
    IF new = {} THEN log ELSE Append(log, CHOOSE e \in new : TRUE)

\* Kafka appends what a step of the service publishes.
Appends ==
    /\ topics' = [t \in Consumer!Topics |->
                      Extended(topics[t], IF t = "chunking" THEN NewJobs
                                                            ELSE NewCancels)]
    /\ UNCHANGED <<content, consumer>>

ServiceNext == Next /\ Appends

ConsumerNext ==
    /\ UNCHANGED <<vars, topics, content>>
    /\ Consumer!TaskStep \/ Consumer!ProcessStep

PipelineInit ==
    /\ Init
    /\ topics = [t \in Consumer!Topics |-> << >>]
    /\ content \in [Requests -> Documents]
    /\ Consumer!TaskInit

PipelineNext == ServiceNext \/ ConsumerNext

PipelineSpec == PipelineInit /\ [][PipelineNext]_pipelineVars

\* The fairness of the two parts.
Fairness ==
    /\ \A r \in Requests : WF_pipelineVars(Step(r) /\ Appends)
    /\ WF_pipelineVars(UNCHANGED <<vars, topics, content>> /\ Consumer!TaskStep)
    /\ WF_pipelineVars(UNCHANGED <<vars, topics, content>> /\ Consumer!FinishStop)
    /\ WF_pipelineVars(UNCHANGED <<vars, topics, content>> /\ Consumer!Start)

FairPipelineSpec == PipelineSpec /\ Fairness

-----------------------------------------------------------------------------
(***************************************************************************)
(* Properties.                                                             *)
(***************************************************************************)
\* The service is an environment that ChunkingConsumer allows: every job is
\* published once, every source is cancelled at most once, and a document that
\* a job asks for was there unless it has been deleted.  What is checked of the
\* consumer alone therefore holds of it here.
ConsumerIsImplemented == Consumer!Spec

\* When the consumer's own calls do not fail, a job is reported as failed only
\* if its source was deleted or its document does not parse: no upload, retry or
\* compensation ever sends the consumer to a file that is not there.
FailedMeansDeleted ==
    \A e \in jobsChunking :
        [job |-> e.job, status |-> "failed"] \in statuses
            => ~Exists(e.source) \/ content[e.source] = "broken"

\* How a job ends, by its document: its source can be found; or the document is
\* blank, and the job is reported as done with nothing that could be found; or it
\* does not parse, and the job is reported as failed.
Concluded(e) ==
    \/ chunks[e.source] > 0
    \/ content[e.source] = "empty" /\ [job |-> e.job, status |-> "done"] \in statuses
    \/ content[e.source] = "broken" /\ [job |-> e.job, status |-> "failed"] \in statuses

\* What has been consumed can be found: once the offset of a job is committed, its
\* source is in the vector store for as long as it is not deleted, whichever other
\* jobs, deletes and restarts come between.  A document without any text never is,
\* but then its job has been reported.
CommittedIsSearchable ==
    \A i \in 1 .. committed["chunking"] :
        LET e == topics["chunking"][i] IN Exists(e.source) => Concluded(e)

\* A job that a pending source shows comes to its end, unless the source is
\* deleted, over deletes and retries at the same time and a consumer that is
\* stopped or dies half way through a job: a text is in the vector store, and of a
\* document without any there is a report.
PendingIsIndexed ==
    \A r \in Requests :
        LET s == req[r].target IN
        (rows[s].status = "pending" /\ rows[s].job = r)
            ~> (~Exists(s) \/ Concluded([job |-> r, source |-> s]))

\* "cancel job if still active": once everything has been consumed, nothing of
\* a deleted source is left in the vector store.
Settled ==
    /\ InFlight = {}
    /\ phase = "idle"
    /\ \A t \in Consumer!Topics : position[t] = Len(topics[t])

DeletedIsUnindexed ==
    Settled => \A s \in Requests : ~Exists(s) => chunks[s] = 0
=============================================================================
