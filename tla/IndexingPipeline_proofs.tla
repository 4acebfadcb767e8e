----------------------- MODULE IndexingPipeline_proofs -----------------------
(***************************************************************************)
(* The pipeline implements the consumer's specification: whatever the      *)
(* sources service does, its topics and its object store are an            *)
(* environment that ChunkingConsumer allows.  The proof rests on Proto,    *)
(* the inductive invariant of the service, and on what it does not say:    *)
(* that the topics hold the events, and that a source is cancelled once.   *)
(***************************************************************************)
EXTENDS IndexingPipeline, SourceRaces_proofs

BeforePut == {"idle", "limits", "save", "put"}

CancelRecords == {[source |-> e.source] : e \in jobsCancel}

\* The topics hold records of the events that were published.
TopicsMatch ==
    /\ topics = [t \in Consumer!Topics |-> topics[t]]
    /\ topics["chunking"] \in Seq(Submitted)
    /\ topics["cancel"] \in Seq(CancelRecords)

\* A delete that is about to cancel a source is the only one that ever does.
CancelsOnce ==
    \A r \in Requests :
        pc[r] = "cancel" =>
            /\ \A e \in jobsCancel : e.source # req[r].target
            /\ \A q \in Requests \ {r} :
                   pc[q] = "cancel" => req[q].target # req[r].target

PipelineInv == Proto /\ TopicsMatch /\ CancelsOnce

-----------------------------------------------------------------------------
(***************************************************************************)
(* What a step of the service publishes, and what it does to the files.    *)
(***************************************************************************)
LEMMA Publications ==
    ASSUME Proto, NEW r \in Requests, Accept(r) \/ Step(r)
    PROVE  \/ jobsChunking' = jobsChunking /\ jobsCancel' = jobsCancel
           \/ /\ pc[r] = "publish" /\ pc'[r] \notin BeforePut
              /\ jobsChunking' = jobsChunking \cup {CreateJobEvent(r)}
              /\ jobsCancel' = jobsCancel /\ objects' = objects
           \/ /\ pc[r] = "cancel" /\ pc'[r] \notin BeforePut
              /\ jobsCancel' = jobsCancel \cup {[job |-> seen[r].job,
                                                 source |-> req[r].target]}
              /\ jobsChunking' = jobsChunking /\ objects' = objects
<1> USE DEF Proto, TypeOK, Goto, Reply, GotoOrFail, BeforePut
<1>1. CASE Accept(r) BY <1>1 DEF Accept, stores
<1>2. CASE UploadStep(r)
    BY <1>2 DEF UploadStep, CheckLimits, Save, PutObject, SetPath,
                MarkUploaded, UndoObject, UndoRow, stores
<1>3. CASE JobStep(r) BY <1>3 DEF JobStep, Publish, MarkPending
<1>4. CASE Find(r) BY <1>4 DEF Find, stores
<1>5. CASE DeleteStep(r)
    BY <1>5 DEF DeleteStep, DeleteRow, CancelJob, DeleteObject
<1> QED
    BY <1>1, <1>2, <1>3, <1>4, <1>5 DEF Step

\* No request comes back to the labels before its file is put.
LEMMA PutEdges ==
    ASSUME Proto, NEW r \in Requests, Accept(r) \/ Step(r)
    PROVE  pc'[r] \in BeforePut => pc[r] \in BeforePut
<1> USE DEF Proto, TypeOK, Goto, Reply, GotoOrFail, BeforePut
<1>1. CASE Accept(r) BY <1>1 DEF Accept
<1>2. CASE UploadStep(r)
    BY <1>2 DEF UploadStep, CheckLimits, Save, PutObject, SetPath,
                MarkUploaded, UndoObject, UndoRow, Compensate
<1>3. CASE JobStep(r) BY <1>3 DEF JobStep, Publish, MarkPending
<1>4. CASE Find(r) BY <1>4 DEF Find
<1>5. CASE DeleteStep(r)
    BY <1>5 DEF DeleteStep, DeleteRow, CancelJob, DeleteObject, AfterDelete
<1> QED
    BY <1>1, <1>2, <1>3, <1>4, <1>5 DEF Step

\* No document comes back.
LEMMA PresentMoves ==
    ASSUME Proto, [Next]_vars
    PROVE  Present' \subseteq Present
<1>1. ASSUME NEW r \in Requests, Accept(r) \/ Step(r)
      PROVE  Present' \subseteq Present
    <2>1. /\ pc' = [pc EXCEPT ![r] = pc'[r]] /\ req' = req
          /\ pc \in [Requests -> Labels]
        BY <1>1, PcMoves DEF Proto, TypeOK
    <2>2. ASSUME NEW s \in Requests, pc'[s] \in BeforePut
          PROVE  pc[s] \in BeforePut
        BY <1>1, <2>1, <2>2, PutEdges
    <2>3. ASSUME NEW s \in Requests, s \in objects'
          PROVE  s \in objects \/ pc[s] \in BeforePut
        BY <1>1, <2>3, ObjectMoves DEF BeforePut
    <2> QED
        BY <2>1, <2>2, <2>3 DEF Present, BeforePut
<1>2. CASE Crash
    BY <1>2 DEF Crash, Present, stores, InFlight
<1>3. CASE (\E p \in Projects : DeleteProject(p)) \/ UNCHANGED vars
    BY <1>3 DEF DeleteProject, Present, stores, vars
<1> QED
    BY <1>1, <1>2, <1>3 DEF Next

\* Only a step of a request publishes.
LEMMA QuietTopics ==
    ASSUME Crash \/ (\E p \in Projects : DeleteProject(p)) \/ UNCHANGED vars
    PROVE  /\ jobsChunking' = jobsChunking /\ jobsCancel' = jobsCancel
           /\ req' = req
           /\ \A r \in Requests : pc'[r] = pc[r] \/ pc'[r] = "lost"
BY DEF Crash, DeleteProject, stores, vars

\* None goes while an event is published.
LEMMA PresentStays ==
    ASSUME Proto, NEW r \in Requests, Accept(r) \/ Step(r),
           objects' = objects, pc[r] \notin BeforePut, pc'[r] \notin BeforePut
    PROVE  Present' = Present
<1>1. /\ pc' = [pc EXCEPT ![r] = pc'[r]] /\ req' = req
      /\ pc \in [Requests -> Labels]
    BY PcMoves DEF Proto, TypeOK
<1>2. \A s \in Requests : pc'[s] \in BeforePut <=> pc[s] \in BeforePut
    BY <1>1
<1> QED
    BY <1>1, <1>2 DEF Present, BeforePut

-----------------------------------------------------------------------------
(***************************************************************************)
(* A source is cancelled once.                                             *)
(***************************************************************************)
LEMMA NextCancelsOnce ==
    ASSUME Proto, CancelsOnce, [Next]_vars PROVE CancelsOnce'
<1>1. ASSUME NEW r \in Requests, Accept(r) \/ Step(r) PROVE CancelsOnce'
    <2>1. /\ pc' = [pc EXCEPT ![r] = pc'[r]] /\ req' = req
          /\ pc \in [Requests -> Labels]
          /\ pc[r] # pc'[r]
        BY <1>1, PcMoves DEF Proto, TypeOK
    <2>2. \A q \in Requests \ {r} : pc'[q] = pc[q]
        BY <2>1
    <2>3. ASSUME pc'[r] = "cancel"
          PROVE  /\ jobsCancel' = jobsCancel
                 /\ \A e \in jobsCancel : e.source # req[r].target
                 /\ \A q \in Requests : pc[q] = "cancel" => req[q].target # req[r].target
        <3>1. Exists(req[r].target) /\ pc[r] = "deleteRow"
            BY <1>1, <2>3, PcEdges, Learnt
        <3>2. Life(req[r].target) # "gone"
            BY <3>1 DEF Life, Exists, Proto, RowsOK, TypeOK, Call
        <3>3. jobsCancel' = jobsCancel
            BY <1>1, <3>1, Publications
        <3> QED
            BY <3>2, <3>3 DEF Proto, ControlOK, TopicsOK, CancelMeansGone
    <2>4. ASSUME NEW e \in jobsCancel', e \notin jobsCancel
          PROVE  pc[r] = "cancel" /\ e.source = req[r].target
        BY <1>1, <2>4, Publications
    <2> SUFFICES ASSUME NEW q \in Requests, pc'[q] = "cancel"
                 PROVE  /\ \A e \in jobsCancel' : e.source # req[q].target
                        /\ \A p \in Requests \ {q} :
                               pc'[p] = "cancel" => req[p].target # req[q].target
        BY <2>1 DEF CancelsOnce
    <2>5. CASE q = r
        BY <2>2, <2>3, <2>5
    <2>6. CASE q # r
        <3>1. pc[q] = "cancel"
            BY <2>2, <2>6
        <3>2. ASSUME NEW e \in jobsCancel' PROVE e.source # req[q].target
            BY <2>4, <2>6, <3>1 DEF CancelsOnce
        <3>3. ASSUME NEW p \in Requests \ {q}, pc'[p] = "cancel"
              PROVE  req[p].target # req[q].target
            BY <2>2, <2>3, <2>6, <3>1, <3>3 DEF CancelsOnce
        <3> QED
            BY <3>2, <3>3
    <2> QED
        BY <2>5, <2>6
<1>2. CASE Crash \/ (\E p \in Projects : DeleteProject(p)) \/ UNCHANGED vars
    BY <1>2, QuietTopics DEF CancelsOnce
<1> QED
    BY <1>1, <1>2 DEF Next

-----------------------------------------------------------------------------
(***************************************************************************)
(* The steps.                                                              *)
(***************************************************************************)
LEMMA AppendTyped ==
    ASSUME NEW S, NEW T, S \subseteq T, NEW s \in Seq(S), NEW e \in T
    PROVE  Append(s, e) \in Seq(T) /\ s \in Seq(T)
<1>1. s \in Seq(T)
    <2>1. Len(s) \in Nat /\ s \in [1..Len(s) -> S]
        OBVIOUS
    <2>2. s \in [1..Len(s) -> T]
        BY <2>1
    <2> QED
        BY <2>1, <2>2
<1> QED
    BY <1>1

LEMMA ExtendedByOne ==
    ASSUME NEW log, NEW e PROVE Extended(log, {e}) = Append(log, e)
BY DEF Extended

\* A step of the service publishes nothing, one job, or one cancellation.
LEMMA TopicMoves ==
    ASSUME PipelineInv, ServiceNext
    PROVE  \/ /\ topics' = topics
              /\ jobsChunking' = jobsChunking /\ jobsCancel' = jobsCancel
           \/ \E r \in Requests :
                  LET e == [job |-> r, source |-> req[r].target] IN
                  /\ topics' = [topics EXCEPT !["chunking"] = Append(@, e)]
                  /\ e \in Submitted' /\ Submitted \subseteq Submitted'
                  /\ Submitted' \subseteq Submitted \cup {e}
                  /\ jobsCancel' = jobsCancel
                  /\ Present' = Present
                  /\ \A f \in Submitted : f.job # r
           \/ \E r \in Requests :
                  LET e == [source |-> req[r].target] IN
                  /\ topics' = [topics EXCEPT !["cancel"] = Append(@, e)]
                  /\ e \in CancelRecords' /\ CancelRecords \subseteq CancelRecords'
                  /\ jobsChunking' = jobsChunking
                  /\ Present' = Present
                  /\ e \notin CancelRecords
<1> USE DEF PipelineInv
<1>1. topics' = [t \in {"chunking", "cancel"} |->
                    Extended(topics[t], IF t = "chunking" THEN NewJobs ELSE NewCancels)]
    BY DEF ServiceNext, Appends, Consumer!Topics
<1>2. topics = [t \in {"chunking", "cancel"} |-> topics[t]]
    BY DEF TopicsMatch, Consumer!Topics
<1>3. CASE jobsChunking' = jobsChunking /\ jobsCancel' = jobsCancel
    <2>1. NewJobs = {} /\ NewCancels = {}
        BY <1>3 DEF NewJobs, NewCancels
    <2>2. topics' = [t \in {"chunking", "cancel"} |-> topics[t]]
        BY <1>1, <2>1 DEF Extended
    <2> QED
        BY <1>2, <1>3, <2>2
<1>4. ASSUME NEW r \in Requests, Accept(r) \/ Step(r), pc[r] = "publish",
             pc'[r] \notin BeforePut,
             jobsChunking' = jobsChunking \cup {CreateJobEvent(r)},
             jobsCancel' = jobsCancel, objects' = objects
      PROVE  LET e == [job |-> r, source |-> req[r].target] IN
             /\ topics' = [topics EXCEPT !["chunking"] = Append(@, e)]
             /\ e \in Submitted' /\ Submitted \subseteq Submitted'
             /\ Submitted' \subseteq Submitted \cup {e}
             /\ jobsCancel' = jobsCancel
             /\ Present' = Present
             /\ \A f \in Submitted : f.job # r
    <2> DEFINE e == [job |-> r, source |-> req[r].target]
    <2>1. CreateJobEvent(r).job = r /\ CreateJobEvent(r).source = req[r].target
        BY DEF CreateJobEvent
    <2>2. \A f \in jobsChunking : f.job # r
        BY <1>4 DEF Proto, TopicsOK
    <2>3. jobsChunking' \ jobsChunking = {CreateJobEvent(r)}
        BY <1>4, <2>1, <2>2
    <2>4. NewJobs = {e} /\ NewCancels = {}
        BY <1>4, <2>1, <2>3 DEF NewJobs, NewCancels
    <2>5. /\ Extended(topics["chunking"], NewJobs) = Append(topics["chunking"], e)
          /\ Extended(topics["cancel"], NewCancels) = topics["cancel"]
        BY <2>4, ExtendedByOne DEF Extended
    <2>6. topics' = [topics EXCEPT !["chunking"] = Append(@, e)]
        BY <1>1, <1>2, <2>5
    <2>7. /\ e \in Submitted' /\ Submitted \subseteq Submitted'
          /\ Submitted' \subseteq Submitted \cup {e}
        BY <1>4, <2>1 DEF Submitted
    <2>8. Present' = Present
        BY <1>4, PresentStays DEF BeforePut
    <2>9. \A f \in Submitted : f.job # r
        BY <2>2 DEF Submitted
    <2> QED
        BY <1>4, <2>6, <2>7, <2>8, <2>9
<1>5. ASSUME NEW r \in Requests, Accept(r) \/ Step(r), pc[r] = "cancel",
             pc'[r] \notin BeforePut,
             jobsCancel' = jobsCancel \cup {[job |-> seen[r].job,
                                             source |-> req[r].target]},
             jobsChunking' = jobsChunking, objects' = objects
      PROVE  LET e == [source |-> req[r].target] IN
             /\ topics' = [topics EXCEPT !["cancel"] = Append(@, e)]
             /\ e \in CancelRecords' /\ CancelRecords \subseteq CancelRecords'
             /\ jobsChunking' = jobsChunking
             /\ Present' = Present
             /\ e \notin CancelRecords
    <2> DEFINE e == [source |-> req[r].target]
               c == [job |-> seen[r].job, source |-> req[r].target]
    <2>1. c.source = req[r].target
        OBVIOUS
    <2>2. \A f \in jobsCancel : f.source # req[r].target
        BY <1>5 DEF CancelsOnce
    <2>3. jobsCancel' \ jobsCancel = {c}
        BY <1>5, <2>1, <2>2
    <2>4. NewCancels = {e} /\ NewJobs = {}
        BY <1>5, <2>1, <2>3 DEF NewJobs, NewCancels
    <2>5. /\ Extended(topics["cancel"], NewCancels) = Append(topics["cancel"], e)
          /\ Extended(topics["chunking"], NewJobs) = topics["chunking"]
        BY <2>4, ExtendedByOne DEF Extended
    <2>6. topics' = [topics EXCEPT !["cancel"] = Append(@, e)]
        BY <1>1, <1>2, <2>5
    <2>7. e \in CancelRecords' /\ CancelRecords \subseteq CancelRecords'
        BY <1>5, <2>1 DEF CancelRecords
    <2>8. Present' = Present
        BY <1>5, PresentStays DEF BeforePut
    <2>9. e \notin CancelRecords
        BY <2>2 DEF CancelRecords
    <2> QED
        BY <1>5, <2>6, <2>7, <2>8, <2>9
<1>6. Next
    BY DEF ServiceNext, Appends
<1> QED
    BY <1>3, <1>4, <1>5, <1>6, Publications, QuietTopics DEF Next

LEMMA NextTopics ==
    ASSUME PipelineInv, [PipelineNext]_pipelineVars PROVE TopicsMatch'
<1> USE DEF PipelineInv
<1>1. CASE ServiceNext
    <2>1. topics' = [t \in Consumer!Topics |-> topics'[t]]
        BY <1>1 DEF ServiceNext, Appends
    <2>2. CASE /\ topics' = topics
               /\ jobsChunking' = jobsChunking /\ jobsCancel' = jobsCancel
        BY <2>1, <2>2 DEF TopicsMatch, Submitted, CancelRecords
    <2>3. ASSUME NEW e, topics' = [topics EXCEPT !["chunking"] = Append(@, e)],
                 e \in Submitted', Submitted \subseteq Submitted',
                 jobsCancel' = jobsCancel
          PROVE  TopicsMatch'
        <3>1. /\ topics'["chunking"] = Append(topics["chunking"], e)
              /\ topics'["cancel"] = topics["cancel"]
            BY <2>3 DEF TopicsMatch, Consumer!Topics
        <3>2. CancelRecords' = CancelRecords
            BY <2>3 DEF CancelRecords
        <3>3. topics'["chunking"] \in Seq(Submitted')
            BY <2>3, <3>1, AppendTyped DEF TopicsMatch
        <3> QED
            BY <2>1, <3>1, <3>2, <3>3 DEF TopicsMatch
    <2>4. ASSUME NEW e, topics' = [topics EXCEPT !["cancel"] = Append(@, e)],
                 e \in CancelRecords', CancelRecords \subseteq CancelRecords',
                 jobsChunking' = jobsChunking
          PROVE  TopicsMatch'
        <3>1. /\ topics'["cancel"] = Append(topics["cancel"], e)
              /\ topics'["chunking"] = topics["chunking"]
            BY <2>4 DEF TopicsMatch, Consumer!Topics
        <3>2. Submitted' = Submitted
            BY <2>4 DEF Submitted
        <3>3. topics'["cancel"] \in Seq(CancelRecords')
            BY <2>4, <3>1, AppendTyped DEF TopicsMatch
        <3> QED
            BY <2>1, <3>1, <3>2, <3>3 DEF TopicsMatch
    <2> QED
        BY <1>1, <2>2, <2>3, <2>4, TopicMoves
<1>2. CASE ConsumerNext \/ UNCHANGED pipelineVars
    BY <1>2 DEF ConsumerNext, pipelineVars, vars, TopicsMatch, Submitted, CancelRecords
<1> QED
    BY <1>1, <1>2 DEF PipelineNext

LEMMA NextPipelineInv == PipelineInv /\ [PipelineNext]_pipelineVars => PipelineInv'
<1> SUFFICES ASSUME PipelineInv, [PipelineNext]_pipelineVars PROVE PipelineInv'
    OBVIOUS
<1>1. [Next]_vars
    BY DEF PipelineNext, ServiceNext, Appends, ConsumerNext, pipelineVars, vars
<1>2. Proto'
    BY <1>1, NextProto DEF PipelineInv
<1>3. CancelsOnce'
    BY <1>1, NextCancelsOnce DEF PipelineInv
<1> QED
    BY <1>2, <1>3, NextTopics DEF PipelineInv

LEMMA InitPipelineInv == PipelineInit => PipelineInv
<1> SUFFICES ASSUME PipelineInit PROVE PipelineInv
    OBVIOUS
<1>1. Proto
    BY InitProto DEF PipelineInit
<1>2. CancelsOnce
    BY DEF PipelineInit, Init, CancelsOnce
<1>3. TopicsMatch
    BY DEF PipelineInit, TopicsMatch, Consumer!Topics
<1> QED
    BY <1>1, <1>2, <1>3 DEF PipelineInv

\* At first every document counts as there.
LEMMA InitConsumer == PipelineInit => Consumer!Init
<1> SUFFICES ASSUME PipelineInit PROVE Consumer!Init
    OBVIOUS
<1>1. Present = Requests
    BY DEF PipelineInit, Init, Present
<1> QED
    BY <1>1 DEF PipelineInit, Consumer!Init

\* A step of the service is a step of the environment.
LEMMA ServiceIsEnvironment ==
    ASSUME PipelineInv, ServiceNext PROVE [Consumer!Next]_(Consumer!vars)
<1> USE DEF PipelineInv
<1>1. Present' \subseteq Present /\ Present \subseteq Requests
    BY PresentMoves DEF ServiceNext, Appends, Present
<1>2. UNCHANGED <<content, consumer>>
    BY DEF ServiceNext, Appends
<1>3. CASE topics' = topics
    <2>1. CASE Present' = Present
        BY <1>2, <1>3, <2>1 DEF Consumer!vars, consumer
    <2>2. CASE Present' # Present
        <3>1. Consumer!RemoveDocuments(Present \ Present')
            BY <1>1, <1>2, <1>3, <2>2
            DEF Consumer!RemoveDocuments, Consumer!task, consumer
        <3>2. Present \ Present' \in SUBSET (Present \cap Requests)
            BY <1>1
        <3> QED
            BY <3>1, <3>2 DEF Consumer!Next, Consumer!Environment
    <2> QED
        BY <2>1, <2>2
<1>4. ASSUME NEW r \in Requests,
             topics' = [topics EXCEPT !["chunking"] =
                            Append(@, [job |-> r, source |-> req[r].target])],
             Present' = Present,
             \A f \in Submitted : f.job # r
      PROVE  Consumer!Next
    <2> DEFINE e == [job |-> r, source |-> req[r].target]
    <2>1. e \in Consumer!Records("chunking")
        BY DEF Consumer!Records, Consumer!Record, Proto, TypeOK, Call
    <2>2. \A i \in DOMAIN topics["chunking"] : topics["chunking"][i] \in Submitted
        BY DEF TopicsMatch
    <2>3. Consumer!Fresh("chunking", e)
        BY <1>4, <2>2 DEF Consumer!Fresh
    <2>4. Consumer!Produce("chunking", e)
        BY <1>2, <1>4, <2>3 DEF Consumer!Produce, Consumer!task, consumer
    <2> QED
        BY <2>1, <2>4 DEF Consumer!Next, Consumer!Environment, Consumer!Topics
<1>5. ASSUME NEW r \in Requests,
             topics' = [topics EXCEPT !["cancel"] =
                            Append(@, [source |-> req[r].target])],
             Present' = Present,
             [source |-> req[r].target] \notin CancelRecords
      PROVE  Consumer!Next
    <2> DEFINE e == [source |-> req[r].target]
    <2>1. e \in Consumer!Records("cancel")
        BY DEF Consumer!Records, Consumer!CancelRecord, Proto, TypeOK, Call
    <2>2. \A i \in DOMAIN topics["cancel"] : topics["cancel"][i] \in CancelRecords
        BY DEF TopicsMatch
    <2>3. Consumer!Fresh("cancel", e)
        BY <1>5, <2>2 DEF Consumer!Fresh
    <2>4. Consumer!Produce("cancel", e)
        BY <1>2, <1>5, <2>3 DEF Consumer!Produce, Consumer!task, consumer
    <2> QED
        BY <2>1, <2>4 DEF Consumer!Next, Consumer!Environment, Consumer!Topics
<1> QED
    BY <1>3, <1>4, <1>5, TopicMoves

LEMMA PipelineStep ==
    PipelineInv /\ [PipelineNext]_pipelineVars => [Consumer!Next]_(Consumer!vars)
<1>1. PipelineInv /\ ServiceNext => [Consumer!Next]_(Consumer!vars)
    BY ServiceIsEnvironment
<1>2. ConsumerNext => Consumer!Next
    BY DEF ConsumerNext, Consumer!Next
<1>3. UNCHANGED pipelineVars => UNCHANGED Consumer!vars
    BY DEF pipelineVars, vars, consumer, Consumer!vars, Present
<1> QED
    BY <1>1, <1>2, <1>3 DEF PipelineNext

\* Whatever requests interleave, fail or die with the service, the consumer finds
\* its topics and documents as its own specification says: each job is published
\* once, each source cancelled once, and no document comes back.
THEOREM PipelineImplementsConsumer == PipelineSpec => ConsumerIsImplemented
<1>1. PipelineInit => PipelineInv /\ Consumer!Init
    BY InitPipelineInv, InitConsumer
<1> QED
    BY <1>1, NextPipelineInv, PipelineStep, PTL
    DEF PipelineSpec, ConsumerIsImplemented, Consumer!Spec

-----------------------------------------------------------------------------
(***************************************************************************)
(* A job is reported as failed for one reason only.                        *)
(***************************************************************************)
\* The consumer's own calls do not fail, but for its commits.
OnlyCommitsFail ==
    \A d \in {"content", "store", "status"}, f \in {"refused", "lostReply"} :
        <<d, f>> \notin ConsumerFaults

Handling == {"read", "save", "done", "failed"}

\* The record that a chunking handler works on is in its topic.
HandOK ==
    /\ position \in [Consumer!Topics -> Nat] /\ committed \in [Consumer!Topics -> Nat]
    /\ phase \in Handling =>
           /\ current.topic = "chunking"
           /\ current.offset \in 1 .. Len(topics["chunking"])

\* A request only publishes a job about its own target.
OwnJobs == \A e \in Submitted : e.job \in Requests /\ e.source = req[e.job].target

Gone(j) ==
    /\ [job |-> j, source |-> req[j].target] \in Submitted
    /\ Life(req[j].target) = "gone"

\* There is nothing to read: the source is gone, or its document does not parse.
Hopeless(j) == j \in Requests /\ (Gone(j) \/ content[req[j].target] = "broken")

\* What is given up, or was, is a job that is hopeless.
FailuresOK ==
    /\ phase = "failed" => Hopeless(Consumer!CurrentRecord.job)
    /\ \A x \in statuses : x.status = "failed" => Hopeless(x.job)

ReportInv ==
    PipelineInv /\ FilesOK /\ EventsOK /\ HandOK /\ OwnJobs /\ FailuresOK

LEMMA InitReport == PipelineInit => ReportInv
<1> SUFFICES ASSUME PipelineInit PROVE ReportInv
    OBVIOUS
<1>1. PipelineInv
    BY InitPipelineInv
<1>2. FilesOK /\ EventsOK /\ OwnJobs
    BY DEF PipelineInit, Init, FilesOK, UploadedHasFile, Exists, Absent,
           EventsOK, OwnJobs, Submitted
<1>3. HandOK /\ FailuresOK
    BY DEF PipelineInit, Consumer!TaskInit, Consumer!Topics, HandOK,
           FailuresOK, Handling
<1> QED
    BY <1>1, <1>2, <1>3 DEF ReportInv

\* Steps of the service leave the consumer's hands alone.
LEMMA ServiceKeepsReports ==
    ASSUME ReportInv, ServiceNext PROVE HandOK' /\ OwnJobs' /\ FailuresOK'
<1> USE DEF ReportInv, PipelineInv
<1>1. /\ UNCHANGED <<phase, current, position, committed, statuses, content>>
      /\ req' = req
      /\ \A s \in Requests : Life(s) = "gone" => Life(s)' = "gone"
      /\ \A r \in Requests : req[r].target \in Requests
    <2>1. req' = req
        BY PcMoves DEF ServiceNext, Appends, Next, Proto, Crash, DeleteProject
    <2>2. \A s \in Requests : Life(s) = "gone" => Life(s)' = "gone"
        BY LifeForward DEF ServiceNext, Appends, Forward
    <2> QED
        BY <2>1, <2>2 DEF ServiceNext, Appends, consumer, Proto, TypeOK, Call
<1>2. /\ Submitted \subseteq Submitted' /\ OwnJobs'
      /\ Len(topics["chunking"]) <= Len(topics'["chunking"])
      /\ \A i \in 1 .. Len(topics["chunking"]) :
             topics'["chunking"][i] = topics["chunking"][i]
    <2>1. topics["chunking"] \in Seq(Submitted)
        BY DEF TopicsMatch
    <2>2. CASE topics' = topics /\ jobsChunking' = jobsChunking
        BY <1>1, <2>1, <2>2 DEF OwnJobs, Submitted
    <2>3. ASSUME NEW r \in Requests,
                 topics' = [topics EXCEPT !["chunking"] =
                                Append(@, [job |-> r, source |-> req[r].target])],
                 Submitted \subseteq Submitted'
          PROVE  /\ Len(topics["chunking"]) <= Len(topics'["chunking"])
                 /\ \A i \in 1 .. Len(topics["chunking"]) :
                        topics'["chunking"][i] = topics["chunking"][i]
        <3>1. topics'["chunking"] =
                  Append(topics["chunking"], [job |-> r, source |-> req[r].target])
            BY <2>3 DEF TopicsMatch, Consumer!Topics
        <3> QED
            BY <2>1, <3>1
    <2>4. ASSUME NEW e, topics' = [topics EXCEPT !["cancel"] = Append(@, e)]
          PROVE  topics'["chunking"] = topics["chunking"]
        BY <2>4 DEF TopicsMatch, Consumer!Topics
    <2>5. OwnJobs'
        <3>1. ASSUME NEW r \in Requests,
                     jobsChunking' = jobsChunking \cup {CreateJobEvent(r)}
              PROVE  OwnJobs'
            BY <1>1, <3>1 DEF OwnJobs, Submitted, CreateJobEvent
        <3>2. ASSUME jobsChunking' = jobsChunking PROVE OwnJobs'
            BY <1>1, <3>2 DEF OwnJobs, Submitted
        <3> QED
            BY <3>1, <3>2, Publications, QuietTopics DEF ServiceNext, Appends, Next
    <2>6. Len(topics["chunking"]) \in Nat
        BY <2>1
    <2>7. jobsChunking' = jobsChunking => Submitted' = Submitted
        BY DEF Submitted
    <2>8. \/ topics' = topics /\ jobsChunking' = jobsChunking
          \/ \E r \in Requests :
                 /\ topics' = [topics EXCEPT !["chunking"] =
                                  Append(@, [job |-> r, source |-> req[r].target])]
                 /\ Submitted \subseteq Submitted'
          \/ \E e : /\ topics' = [topics EXCEPT !["cancel"] = Append(@, e)]
                    /\ jobsChunking' = jobsChunking
        BY TopicMoves
    <2>9. CASE \E e : /\ topics' = [topics EXCEPT !["cancel"] = Append(@, e)]
                      /\ jobsChunking' = jobsChunking
        <3>1. topics'["chunking"] = topics["chunking"] /\ Submitted' = Submitted
            BY <2>4, <2>7, <2>9
        <3> QED
            BY <2>5, <2>6, <3>1
    <2> QED
        BY <2>2, <2>3, <2>5, <2>8, <2>9
<1>3. HandOK'
    <2>1. Len(topics["chunking"]) \in Nat /\ Len(topics'["chunking"]) \in Nat
        BY NextTopics DEF TopicsMatch, PipelineNext
    <2> QED
        BY <1>1, <1>2, <2>1 DEF HandOK
<1>4. \A j \in Requests : Hopeless(j) => Hopeless(j)'
    BY <1>1, <1>2 DEF Hopeless, Gone
<1>5. \A j : Hopeless(j) => j \in Requests
    BY DEF Hopeless, Gone, OwnJobs
<1>6. phase = "failed" => Consumer!CurrentRecord' = Consumer!CurrentRecord
    BY <1>1, <1>2 DEF HandOK, Handling, Consumer!CurrentRecord
<1> QED
    BY <1>1, <1>2, <1>3, <1>4, <1>5, <1>6 DEF FailuresOK

\* A document that a job asks for and that is not there was deleted.
LEMMA MissingIsGone ==
    ASSUME ReportInv, NEW e \in Submitted, e.source \notin Present
    PROVE  Gone(e.job)
<1> USE DEF ReportInv, PipelineInv
<1>1. PICK f \in jobsChunking : e = [job |-> f.job, source |-> f.source]
    BY DEF Submitted
<1>2. /\ e.source \in Requests /\ e.source = req[e.job].target
      /\ e = [job |-> e.job, source |-> req[e.job].target]
    BY <1>1 DEF Proto, TypeOK, JobEvent, OwnJobs
<1>3. req[e.source].file /\ e.source \notin objects
    BY <1>2 DEF Present
<1>4. Life(e.source) \in Complete
    BY <1>1 DEF EventsOK
<1>5. ~Exists(e.source)
    BY <1>2, <1>3, <1>4 DEF FilesOK, UploadedHasFile, Life, Complete
<1>6. Life(e.source) = "gone"
    BY <1>5, <1>4 DEF Life, Complete
<1> QED
    BY <1>2, <1>6 DEF Gone

LEMMA ConsumerKeepsReports ==
    ASSUME OnlyCommitsFail, ReportInv, ConsumerNext
    PROVE  HandOK' /\ OwnJobs' /\ FailuresOK'
<1> USE DEF ReportInv, PipelineInv
<1>1. /\ UNCHANGED <<topics, content, rows, pc, req, jobsChunking>>
      /\ topics["chunking"] \in Seq(Submitted)
    BY DEF ConsumerNext, vars, TopicsMatch
<1>2. /\ OwnJobs'
      /\ \A j : Hopeless(j) <=> Hopeless(j)'
    BY <1>1 DEF OwnJobs, Submitted, Hopeless, Gone, Life, Exists
<1>3. \A d \in {"content", "store", "status"} : Consumer!Outcome(d) = {"ok"}
    BY DEF OnlyCommitsFail, Consumer!Outcome, Consumer!FaultKinds
<1>4. phase \in Handling => Consumer!CurrentRecord \in Submitted
    BY <1>1 DEF HandOK, Consumer!CurrentRecord
<1>5. CASE Consumer!Read
    <2> DEFINE s == Consumer!CurrentRecord.source
    <2>0. phase = "read" /\ s \in Requests
        BY <1>4, <1>5 DEF Consumer!Read, Handling, Submitted, Proto, TypeOK, JobEvent
    <2>1. /\ phase = "read"
          /\ UNCHANGED <<position, committed, statuses>> /\ current' = current
          /\ \/ phase' \in {"save", "done", "read"}
             \/ /\ phase' = "failed"
                /\ s \notin Present \/ content[s] = "broken"
        BY <1>3, <1>5, <2>0 DEF Consumer!Read, Consumer!AfterRead, Consumer!FailAttempt
    <2>2. Consumer!CurrentRecord' = Consumer!CurrentRecord
        BY <1>1, <2>1 DEF Consumer!CurrentRecord
    <2>3. phase' = "failed" => Hopeless(Consumer!CurrentRecord.job)
        <3>1. Consumer!CurrentRecord \in Submitted
            BY <1>4, <2>1 DEF Handling
        <3> QED
            BY <2>1, <3>1, MissingIsGone DEF Hopeless, OwnJobs
    <2> QED
        BY <1>1, <1>2, <2>1, <2>2, <2>3 DEF HandOK, FailuresOK, Handling
<1>6. CASE Consumer!Save \/ Consumer!PublishDone
    <2>1. /\ phase \in Handling /\ phase' \in {"done", "commit"}
          /\ UNCHANGED <<position, committed>> /\ current' = current
          /\ \A x \in statuses' : x \in statuses \/ x.status # "failed"
        BY <1>3, <1>6 DEF Consumer!Save, Consumer!PublishDone,
                          Consumer!Published, Consumer!Applied, Handling
    <2> QED
        BY <1>1, <1>2, <2>1 DEF HandOK, FailuresOK, Handling
<1>7. CASE Consumer!PublishFailed
    <2>1. /\ phase = "failed" /\ phase' = "idle"
          /\ UNCHANGED <<position, committed>>
          /\ \A x \in statuses' : \/ x \in statuses
                                  \/ x.job = Consumer!CurrentRecord.job
        BY <1>7 DEF Consumer!PublishFailed, Consumer!Published, Consumer!Return
    <2> QED
        BY <1>1, <1>2, <2>1 DEF HandOK, FailuresOK, Handling
<1>8. ASSUME NEW t \in Consumer!Topics, Consumer!Poll(t)
      PROVE  HandOK' /\ FailuresOK'
    <2>1. /\ position[t] < Len(topics[t])
          /\ position' = [position EXCEPT ![t] = @ + 1]
          /\ current' = [topic |-> t, offset |-> position[t] + 1]
          /\ phase' = IF t = "chunking" THEN "read" ELSE "cancel"
          /\ UNCHANGED <<committed, statuses>>
        BY <1>8 DEF Consumer!Poll
    <2>2. position' \in [Consumer!Topics -> Nat]
        BY <2>1 DEF HandOK
    <2>3. t = "chunking" => current'.offset \in 1 .. Len(topics["chunking"])
        <3>1. Len(topics["chunking"]) \in Nat /\ position[t] \in Nat
            BY <1>1 DEF HandOK
        <3> QED
            BY <2>1, <3>1
    <2> QED
        BY <1>1, <1>2, <2>1, <2>2, <2>3 DEF HandOK, FailuresOK, Handling
<1>9. CASE Consumer!ProcessCancel \/ Consumer!Commit
    <2>1. /\ phase' \in {"idle", "commit"} /\ statuses' = statuses
          /\ position' = position /\ committed' \in {position, committed}
        BY <1>9 DEF Consumer!ProcessCancel, Consumer!Commit, Consumer!Return
    <2> QED
        BY <1>1, <1>2, <2>1 DEF HandOK, FailuresOK, Handling
<1>10. CASE Consumer!ProcessStep
    <2>1. /\ phase' = "idle" \/ (phase' = phase /\ current' = current)
          /\ statuses' = statuses /\ committed' = committed
          /\ position' \in {position, committed}
        BY <1>10 DEF Consumer!ProcessStep, Consumer!BeginStop, Consumer!FinishStop,
               Consumer!Crash, Consumer!Start, Consumer!Rebalance,
               Consumer!Abandon, Consumer!Return, Consumer!task
    <2>2. phase' = "failed" => Consumer!CurrentRecord' = Consumer!CurrentRecord
        BY <1>1, <2>1 DEF Consumer!CurrentRecord
    <2> QED
        BY <1>1, <1>2, <2>1, <2>2 DEF HandOK, FailuresOK, Handling
<1> QED
    BY <1>2, <1>5, <1>6, <1>7, <1>8, <1>9, <1>10
    DEF ConsumerNext, Consumer!TaskStep

LEMMA NextReport ==
    ASSUME NoLostReplies, OnlyCommitsFail, ReportInv, [PipelineNext]_pipelineVars
    PROVE  ReportInv'
<1> USE DEF ReportInv
<1>1. PipelineInv'
    BY NextPipelineInv
<1>2. [Next]_vars
    BY DEF PipelineNext, ServiceNext, Appends, ConsumerNext, pipelineVars, vars
<1>3. FilesOK' /\ EventsOK'
    BY <1>2, NextFiles, NextEvents DEF PipelineInv
<1>4. CASE UNCHANGED pipelineVars
    <2>1. HandOK'
        BY <1>4 DEF pipelineVars, consumer, HandOK
    <2>2. OwnJobs'
        BY <1>4 DEF pipelineVars, vars, OwnJobs, Submitted
    <2>3. \A j : Hopeless(j) <=> Hopeless(j)'
        BY <1>4 DEF pipelineVars, vars, Hopeless, Gone, Submitted, Life, Exists
    <2>4. FailuresOK'
        BY <1>4, <2>3 DEF pipelineVars, consumer, FailuresOK, Consumer!CurrentRecord
    <2> QED
        BY <1>1, <1>3, <2>1, <2>2, <2>4
<1> QED
    BY <1>1, <1>3, <1>4, ServiceKeepsReports, ConsumerKeepsReports DEF PipelineNext

\* When database calls that fail have had no effect and the consumer's own calls
\* but its commits do not fail, the only job that is ever reported as failed is
\* that of a source that was deleted or whose document does not parse: no upload,
\* retry, compensation or crash sends the consumer to a file that is not there.
THEOREM FailedJobsAreDeleted ==
    ASSUME NoLostReplies, OnlyCommitsFail
    PROVE  PipelineSpec => []FailedMeansDeleted
<1>1. ReportInv => FailedMeansDeleted
    <2> SUFFICES ASSUME ReportInv, NEW e \in jobsChunking,
                        [job |-> e.job, status |-> "failed"] \in statuses
                 PROVE  ~Exists(e.source) \/ content[e.source] = "broken"
        BY DEF FailedMeansDeleted
    <2>1. Hopeless(e.job)
        BY DEF ReportInv, FailuresOK
    <2>2. e.source = req[e.job].target
        <3>1. [job |-> e.job, source |-> e.source] \in Submitted
            BY DEF Submitted
        <3> QED
            BY <3>1 DEF ReportInv, OwnJobs
    <2>3. rows[e.source].status # "gone"
        BY DEF ReportInv, PipelineInv, Proto, TypeOK, RowsOK, JobEvent
    <2> QED
        BY <2>1, <2>2, <2>3 DEF Hopeless, Gone, Life, Exists
<1> QED
    BY <1>1, InitReport, NextReport, PTL DEF PipelineSpec

-----------------------------------------------------------------------------
(***************************************************************************)
(* What is proved of each part alone holds of the two together: the        *)
(* pipeline implements both specifications.                                *)
(***************************************************************************)
\* The topics and the consumer restrict the service in nothing that it sees, so
\* that every theorem about the sources service holds in the pipeline.
THEOREM PipelineImplementsService == PipelineSpec => Spec
<1>1. PipelineInit => Init
    BY DEF PipelineInit
<1>2. [PipelineNext]_pipelineVars => [Next]_vars
    BY DEF PipelineNext, ServiceNext, Appends, ConsumerNext, pipelineVars, vars
<1> QED
    BY <1>1, <1>2, PTL DEF PipelineSpec, Spec

\* The theorems about the consumer, as this module instantiates it.
Proved ==
    INSTANCE ChunkingConsumer_proofs
    WITH Sources <- Requests, Jobs <- Requests, Faults <- ConsumerFaults,
         Deletable <- Requests, log <- topics, present <- Present

LEMMA ProvedAssumptions ==
    /\ Proved!DocumentsAssumption /\ Proved!MaxRetriesAssumption
    /\ Proved!FaultsAssumption /\ Proved!MaxResetsAssumption
BY ConsumerAssumption
DEF Consumer!DocumentKinds, Proved!DocumentKinds, Proved!Dependencies, Proved!FaultKinds,
    Consumer!Dependencies, Consumer!FaultKinds

LEMMA SameConsumer == Consumer!Spec => Proved!Spec
<1>1. Consumer!Init => Proved!Init
    BY DEF Consumer!Init, Proved!Init, Consumer!TaskInit, Proved!TaskInit,
           Consumer!NoRecord, Proved!NoRecord, Consumer!Topics, Proved!Topics
<1>2. Consumer!Next => Proved!Next
    BY DEF Consumer!Next, Proved!Next, Consumer!TaskStep, Proved!TaskStep,
           Consumer!ProcessStep, Proved!ProcessStep, Consumer!Environment,
           Proved!Environment, Consumer!Poll, Proved!Poll, Consumer!Read,
           Proved!Read, Consumer!Save, Proved!Save, Consumer!PublishDone,
           Proved!PublishDone, Consumer!PublishFailed, Proved!PublishFailed,
           Consumer!ProcessCancel, Proved!ProcessCancel, Consumer!Commit,
           Proved!Commit, Consumer!BeginStop, Proved!BeginStop,
           Consumer!FinishStop, Proved!FinishStop, Consumer!Crash,
           Proved!Crash, Consumer!Start, Proved!Start, Consumer!Rebalance,
           Proved!Rebalance, Consumer!Produce, Proved!Produce,
           Consumer!RemoveDocuments, Proved!RemoveDocuments, Consumer!Fresh,
           Proved!Fresh, Consumer!Abandon, Proved!Abandon, Consumer!Return,
           Proved!Return, Consumer!Published, Proved!Published,
           Consumer!FailAttempt, Proved!FailAttempt, Consumer!AfterRead,
           Proved!AfterRead, Consumer!CurrentRecord, Proved!CurrentRecord,
           Consumer!NoRecord, Proved!NoRecord, Consumer!Outcome,
           Proved!Outcome, Consumer!Applied, Proved!Applied,
           Consumer!FaultKinds, Proved!FaultKinds, Consumer!Records,
           Proved!Records, Consumer!Record, Proved!Record,
           Consumer!CancelRecord, Proved!CancelRecord, Consumer!Topics,
           Proved!Topics, Consumer!task, Proved!task, Consumer!world,
           Proved!world
<1>3. [Consumer!Next]_(Consumer!vars) => [Proved!Next]_(Proved!vars)
    BY <1>2 DEF Consumer!vars, Proved!vars
<1> QED
    BY <1>1, <1>3, PTL DEF Consumer!Spec, Proved!Spec

LEMMA SameCardinality ==
    ASSUME NEW S
    PROVE  /\ Consumer!Cardinality(S) = Cardinality(S)
           /\ Proved!Cardinality(S) = Cardinality(S)
BY Zenon DEF Consumer!Cardinality, Proved!Cardinality, Cardinality

\* In the pipeline, whatever the service does: what is reported as done is in the
\* vector store or cancelled, no job is committed in silence, a source has at most
\* one copy per attempt of its jobs, and no committed offset goes back.
THEOREM ConsumerKeepsItsPromises ==
    PipelineSpec => /\ []Consumer!DoneMeansIndexed
                    /\ []Consumer!CommittedIsReported
                    /\ []Consumer!CopiesAreBounded
                    /\ Consumer!OffsetsNeverRegress
<1>1. Consumer!DoneMeansIndexed <=> Proved!DoneMeansIndexed
    BY DEF Consumer!DoneMeansIndexed, Proved!DoneMeansIndexed,
           Consumer!Cancelled, Proved!Cancelled
<1>2. Consumer!CommittedIsReported <=> Proved!CommittedIsReported
    BY DEF Consumer!CommittedIsReported, Proved!CommittedIsReported,
           Consumer!Heard, Proved!Heard, Consumer!Reported, Proved!Reported
<1>3. Consumer!CopiesAreBounded <=> Proved!CopiesAreBounded
    BY SameCardinality DEF Consumer!CopiesAreBounded, Proved!CopiesAreBounded,
           Consumer!JobsOf, Proved!JobsOf
<1>4. [\A t \in Proved!Topics : committed'[t] >= committed[t]]_(Proved!vars)
          => [\A t \in Consumer!Topics : committed'[t] >= committed[t]]_(Consumer!vars)
    BY DEF Consumer!Topics, Proved!Topics, Consumer!vars, Proved!vars
<1>5. PipelineSpec => Proved!Spec
    BY PipelineImplementsConsumer, SameConsumer DEF ConsumerIsImplemented
<1>6. Proved!Spec => /\ []Proved!DoneMeansIndexed
                     /\ []Proved!CommittedIsReported
                     /\ []Proved!CopiesAreBounded
                     /\ Proved!OffsetsNeverRegress
    BY ProvedAssumptions, Proved!DoneTellsTheTruth, Proved!NoSilentCommit,
       Proved!CopiesBounded, Proved!OffsetsAdvance
<1> QED
    BY <1>1, <1>2, <1>3, <1>4, <1>5, <1>6, PTL
    DEF Consumer!OffsetsNeverRegress, Proved!OffsetsNeverRegress

\* The copies of a source in the vector store, by the requests and the crashes of
\* both services and nothing else: how many requests were served at once or died,
\* how often a job is attempted and how often the topics were read again.
CopiesAreLimited ==
    \A s \in Requests :
        chunks[s] <= (MaxInFlight + Cardinality(LostOf(s))) * MaxRetries * (resets + 1)

\* The records of the jobs of a source are no more than the events.
LEMMA RecordsAreEvents ==
    ASSUME Proto, WorkOK, TopicsMatch, Proved!JobsOK, NEW s \in Requests
    PROVE  /\ Cardinality(Consumer!JobsOf(s)) \in Nat
           /\ Cardinality(LostOf(s)) \in Nat
           /\ Cardinality(Consumer!JobsOf(s)) <= MaxInFlight + Cardinality(LostOf(s))
<1> DEFINE records == Consumer!JobsOf(s)
<1> DEFINE owner == [i \in records |-> topics["chunking"][i].job]
<1>1. FewWorkers(s)
    BY DEF WorkOK
<1>2. \A i \in records : /\ topics["chunking"][i] \in Submitted
                         /\ topics["chunking"][i].source = s
    BY DEF Consumer!JobsOf, TopicsMatch
<1>3. \A x \in Submitted : x.source = s => x.job \in WorkersOf(s)
    BY DEF Submitted, WorkOK, WorkersOf, PublishedJobs, Proto, TypeOK, JobEvent
<1>4. \A i, k \in records : owner[i] = owner[k] => i = k
    BY DEF Proved!JobsOK, Consumer!JobsOf
<1>5. owner \in Injection(records, WorkersOf(s))
    <2>1. owner \in [records -> WorkersOf(s)]
        BY <1>2, <1>3
    <2> HIDE DEF owner, records
    <2> QED
        BY <1>4, <2>1, Fun_IsInj
<1>6. IsFiniteSet(records) /\ Cardinality(records) <= Cardinality(WorkersOf(s))
    <2> HIDE DEF owner, records
    <2> QED
        BY <1>1, <1>5, FS_Injection DEF FewWorkers
<1>7. /\ Cardinality(records) \in Nat /\ Cardinality(WorkersOf(s)) \in Nat
      /\ Cardinality(LostOf(s)) \in Nat /\ MaxInFlight \in Nat
    <2> HIDE DEF records
    <2> QED
        BY <1>1, <1>6, FS_CardinalityType, BoundsAssumption DEF FewWorkers
<1> QED
    BY <1>1, <1>6, <1>7 DEF FewWorkers

LEMMA ProductsGrow ==
    ASSUME NEW a \in Nat, NEW b \in Nat, a <= b, NEW k \in Nat, NEW l \in Nat
    PROVE  a * k * l <= b * k * l
<1>1. a * k <= b * k /\ a * k \in Nat /\ b * k \in Nat
    OBVIOUS
<1> QED
    BY <1>1

\* From the requests to the vector store: retries that race, deletes, redeliveries,
\* attempts that fail half way and crashes of both services multiply a source, but
\* never beyond what the two services admit between them.
THEOREM SourcesHaveFewCopies ==
    ASSUME JobsAreShown PROVE PipelineSpec => []CopiesAreLimited
<1>1. ASSUME Proto, WorkOK, TopicsMatch, Proved!JobsOK, Proved!TypeOK,
             Consumer!CopiesAreBounded
      PROVE  CopiesAreLimited
    <2> SUFFICES ASSUME NEW s \in Requests
                 PROVE  chunks[s] <= (MaxInFlight + Cardinality(LostOf(s)))
                                         * MaxRetries * (resets + 1)
        BY DEF CopiesAreLimited
    <2> DEFINE records == Cardinality(Consumer!JobsOf(s))
    <2> DEFINE workers == MaxInFlight + Cardinality(LostOf(s))
    <2>1. /\ records \in Nat /\ workers \in Nat /\ records <= workers
        BY <1>1, RecordsAreEvents, BoundsAssumption
    <2>2. /\ MaxRetries \in Nat /\ resets + 1 \in Nat /\ chunks[s] \in Nat
        BY <1>1, ConsumerAssumption DEF Proved!TypeOK
    <2>3. chunks[s] <= records * MaxRetries * (resets + 1)
        BY <1>1, SameCardinality DEF Consumer!CopiesAreBounded
    <2> HIDE DEF records, workers
    <2>4. records * MaxRetries * (resets + 1) <= workers * MaxRetries * (resets + 1)
        BY <2>1, <2>2, ProductsGrow
    <2>5. /\ records * MaxRetries * (resets + 1) \in Nat
          /\ workers * MaxRetries * (resets + 1) \in Nat
        BY <2>1, <2>2
    <2>6. chunks[s] <= workers * MaxRetries * (resets + 1)
        BY <2>2, <2>3, <2>4, <2>5
    <2> QED
        BY <2>6 DEF workers
<1>2. PipelineSpec => [](Proto /\ FewInFlight /\ WorkOK)
    BY PipelineImplementsService, JobsHold
<1>3. PipelineSpec => []TopicsMatch
    <2>1. PipelineInv => TopicsMatch
        BY DEF PipelineInv
    <2> QED
        BY <2>1, InitPipelineInv, NextPipelineInv, PTL DEF PipelineSpec
<1>4. PipelineSpec => []Proved!JobsOK /\ []Proved!TypeOK
    BY PipelineImplementsConsumer, SameConsumer, ProvedAssumptions,
       Proved!JobsArePublishedOnce, Proved!ConsumerTypeCorrect
    DEF ConsumerIsImplemented
<1> QED
    BY <1>1, <1>2, <1>3, <1>4, ConsumerKeepsItsPromises, PTL

-----------------------------------------------------------------------------
(***************************************************************************)
(* What a client can rely on when it searches.                             *)
(***************************************************************************)
\* A source that was reported as done and has not been deleted can be found, unless
\* its document is blank.
DoneIsSearchable ==
    \A i \in DOMAIN topics["chunking"] :
        LET e == topics["chunking"][i] IN
        [job |-> e.job, status |-> "done"] \in statuses /\ Exists(e.source) =>
            chunks[e.source] > 0 \/ content[e.source] = "empty"

LEMMA CancelledIsAbsent ==
    ASSUME PipelineInv, NEW s \in Requests, Consumer!Cancelled(s)
    PROVE  ~Exists(s)
<1>1. PICK i \in DOMAIN topics["cancel"] : topics["cancel"][i].source = s
    BY DEF Consumer!Cancelled
<1>2. topics["cancel"][i] \in CancelRecords
    BY DEF PipelineInv, TopicsMatch
<1>3. PICK e \in jobsCancel : e.source = s
    BY <1>1, <1>2 DEF CancelRecords
<1>4. Life(s) = "gone"
    BY <1>3 DEF PipelineInv, Proto, TopicsOK, CancelMeansGone
<1> QED
    BY <1>4 DEF Life, PipelineInv, Proto, RowsOK

\* Whatever fails in either service, and however often records are read again and
\* jobs are started twice: a job that is reported as done leaves its source in the
\* vector store until the source is deleted.  A blank document is the one exception,
\* for which done is all there ever is.
THEOREM DoneCanBeFound == PipelineSpec => []DoneIsSearchable
<1>1. ASSUME PipelineInv, Consumer!DoneMeansIndexed PROVE DoneIsSearchable
    <2> SUFFICES ASSUME NEW i \in DOMAIN topics["chunking"],
                        [job |-> topics["chunking"][i].job, status |-> "done"]
                            \in statuses,
                        Exists(topics["chunking"][i].source)
                 PROVE  \/ chunks[topics["chunking"][i].source] > 0
                        \/ content[topics["chunking"][i].source] = "empty"
        BY DEF DoneIsSearchable
    <2> DEFINE s == topics["chunking"][i].source
    <2>1. s \in Requests
        BY <1>1 DEF PipelineInv, TopicsMatch, Submitted, Proto, TypeOK, JobEvent
    <2>2. \/ chunks[s] > 0
          \/ content[s] = "empty"
          \/ Consumer!Cancelled(s)
        BY <1>1 DEF Consumer!DoneMeansIndexed
    <2> QED
        BY <1>1, <2>1, <2>2, CancelledIsAbsent
<1> QED
    BY <1>1, InitPipelineInv, NextPipelineInv, ConsumerKeepsItsPromises, PTL
    DEF PipelineSpec

\* No report is refused when only commits fail.
AllReported == unreported = {}

LEMMA NothingUnreported ==
    ASSUME OnlyCommitsFail PROVE PipelineSpec => []AllReported
<1>1. PipelineInit => AllReported
    BY DEF PipelineInit, Consumer!TaskInit, AllReported
<1>2. AllReported /\ [PipelineNext]_pipelineVars => AllReported'
    <2> SUFFICES ASSUME unreported = {}, [PipelineNext]_pipelineVars
                 PROVE  unreported' = {}
        BY DEF AllReported
    <2>1. CASE Consumer!PublishFailed
        <3>1. \A o \in Consumer!Outcome("status") : Consumer!Applied(o)
            BY DEF OnlyCommitsFail, Consumer!Outcome, Consumer!Applied,
                   Consumer!FaultKinds
        <3> QED
            BY <2>1, <3>1 DEF Consumer!PublishFailed
    <2>2. CASE ConsumerNext /\ ~Consumer!PublishFailed
        BY <2>2 DEF ConsumerNext, Consumer!TaskStep, Consumer!ProcessStep,
            Consumer!Poll, Consumer!Read, Consumer!Save, Consumer!PublishDone,
            Consumer!ProcessCancel, Consumer!Commit, Consumer!BeginStop,
            Consumer!FinishStop, Consumer!Crash, Consumer!Start,
            Consumer!Rebalance
    <2>3. CASE ServiceNext \/ UNCHANGED pipelineVars
        BY <2>3 DEF ServiceNext, Appends, consumer, pipelineVars
    <2> QED
        BY <2>1, <2>2, <2>3 DEF PipelineNext, ConsumerNext
<1> QED
    BY <1>1, <1>2, PTL DEF PipelineSpec

\* Once a job is committed its source can be found until it is deleted, whatever
\* requests race, fail or die, when errors of the database are true and nothing
\* but the consumer's commits fails: a failure only ever means that the source is
\* gone or its document does not parse, and nothing is committed in silence.  Of a
\* document that has no text there is the report.
THEOREM CommittedCanBeFound ==
    ASSUME NoLostReplies, OnlyCommitsFail
    PROVE  PipelineSpec => []CommittedIsSearchable
<1>1. ASSUME PipelineInv, DoneIsSearchable, FailedMeansDeleted, AllReported,
             Consumer!CommittedIsReported, Proved!TypeOK, Proved!OffsetsOK
      PROVE  CommittedIsSearchable
    <2> SUFFICES ASSUME NEW i \in 1 .. committed["chunking"],
                        Exists(topics["chunking"][i].source)
                 PROVE  Concluded(topics["chunking"][i])
        BY DEF CommittedIsSearchable
    <2> DEFINE e == topics["chunking"][i]
    <2>1. i \in DOMAIN topics["chunking"]
        <3>1. /\ committed["chunking"] \in Nat /\ position["chunking"] \in Nat
              /\ Len(topics["chunking"]) \in Nat
              /\ DOMAIN topics["chunking"] = 1 .. Len(topics["chunking"])
            BY <1>1 DEF Proved!TypeOK, Proved!Topics, PipelineInv, TopicsMatch
        <3>2. /\ committed["chunking"] <= position["chunking"]
              /\ position["chunking"] <= Len(topics["chunking"])
            BY <1>1 DEF Proved!OffsetsOK, Proved!Topics
        <3> QED
            BY <3>1, <3>2
    <2>2. e \in Submitted
        BY <1>1, <2>1 DEF PipelineInv, TopicsMatch
    <2>3. PICK x \in statuses : x.job = e.job
        BY <1>1 DEF Consumer!CommittedIsReported, Consumer!Heard, Consumer!Reported,
                    AllReported
    <2>4. x = [job |-> e.job, status |-> x.status] /\ x.status \in {"done", "failed"}
        BY <1>1, <2>3 DEF Proved!TypeOK, Proved!Status
    <2>5. x.status = "failed" => content[e.source] = "broken"
        BY <1>1, <2>2, <2>4 DEF FailedMeansDeleted, Submitted
    <2> QED
        BY <1>1, <2>1, <2>3, <2>4, <2>5 DEF DoneIsSearchable, Concluded
<1>2. PipelineSpec => []Proved!TypeOK /\ []Proved!OffsetsOK
    BY PipelineImplementsConsumer, SameConsumer, ProvedAssumptions,
       Proved!OffsetsStay, Proved!ConsumerTypeCorrect
    DEF ConsumerIsImplemented
<1> QED
    BY <1>1, <1>2, InitPipelineInv, NextPipelineInv, DoneCanBeFound,
       FailedJobsAreDeleted, NothingUnreported, ConsumerKeepsItsPromises, PTL
    DEF PipelineSpec

-----------------------------------------------------------------------------
(***************************************************************************)
(* What PendingIsIndexed rests on, besides its fairness.                   *)
(***************************************************************************)
\* What the service has published is on the topic.
EventsAreRecords ==
    \A e \in Submitted : \E i \in DOMAIN topics["chunking"] : topics["chunking"][i] = e

LEMMA AppendKeeps ==
    ASSUME NEW S, NEW log \in Seq(S), NEW e
    PROVE  /\ DOMAIN log \subseteq DOMAIN Append(log, e)
           /\ \A i \in DOMAIN log : Append(log, e)[i] = log[i]
           /\ Len(log) + 1 \in DOMAIN Append(log, e)
           /\ Append(log, e)[Len(log) + 1] = e
<1>1. log \in Seq(S \cup {e}) /\ Append(log, e) \in Seq(S \cup {e})
    BY AppendTyped
<1>2. /\ Len(log) \in Nat /\ DOMAIN log = 1 .. Len(log)
      /\ Len(Append(log, e)) = Len(log) + 1
      /\ DOMAIN Append(log, e) = 1 .. Len(Append(log, e))
      /\ Append(log, e)[Len(log) + 1] = e
      /\ \A i \in 1 .. Len(log) : Append(log, e)[i] = log[i]
    BY <1>1
<1> QED
    BY <1>2

LEMMA TopicIsComplete == PipelineSpec => []EventsAreRecords
<1>1. PipelineInit => EventsAreRecords
    BY DEF PipelineInit, Init, EventsAreRecords, Submitted
<1>2. PipelineInv /\ EventsAreRecords /\ [PipelineNext]_pipelineVars => EventsAreRecords'
    <2> SUFFICES ASSUME PipelineInv, EventsAreRecords, [PipelineNext]_pipelineVars
                 PROVE  EventsAreRecords'
        OBVIOUS
    <2>1. CASE topics' = topics /\ jobsChunking' = jobsChunking
        BY <2>1 DEF EventsAreRecords, Submitted
    <2>2. ASSUME NEW e, Submitted' \subseteq Submitted \cup {e},
                 topics' = [topics EXCEPT !["chunking"] = Append(@, e)]
          PROVE  EventsAreRecords'
        <3> DEFINE log == topics["chunking"]
        <3>1. log \in Seq(Submitted) /\ "chunking" \in DOMAIN topics
            BY DEF PipelineInv, TopicsMatch, Consumer!Topics
        <3>2. topics'["chunking"] = Append(log, e)
            BY <2>2, <3>1
        <3>3. /\ DOMAIN log \subseteq DOMAIN Append(log, e)
              /\ \A i \in DOMAIN log : Append(log, e)[i] = log[i]
              /\ Len(log) + 1 \in DOMAIN Append(log, e)
              /\ Append(log, e)[Len(log) + 1] = e
            BY <3>1, AppendKeeps
        <3>4. \A f \in Submitted : \E i \in DOMAIN log : log[i] = f
            BY DEF EventsAreRecords
        <3> HIDE DEF log
        <3> QED
            BY <2>2, <3>2, <3>3, <3>4 DEF EventsAreRecords
    <2>3. CASE ServiceNext /\ jobsChunking' # jobsChunking
        BY <2>2, <2>3, TopicMoves
    <2>4. CASE ServiceNext /\ jobsChunking' = jobsChunking
        <3>1. Submitted' = Submitted
            BY <2>4 DEF Submitted
        <3>2. \/ topics' = topics
              \/ topics'["chunking"] = topics["chunking"]
              \/ \E e : topics' = [topics EXCEPT !["chunking"] = Append(@, e)]
            BY <2>4, TopicMoves DEF PipelineInv, TopicsMatch, Consumer!Topics
        <3>3. CASE topics'["chunking"] = topics["chunking"]
            BY <3>1, <3>3 DEF EventsAreRecords
        <3> QED
            BY <2>1, <2>2, <2>4, <3>1, <3>2, <3>3
    <2>5. CASE ConsumerNext \/ UNCHANGED pipelineVars
        BY <2>1, <2>5 DEF ConsumerNext, pipelineVars, vars
    <2> QED
        BY <2>3, <2>4, <2>5 DEF PipelineNext
<1> QED
    BY <1>1, <1>2, InitPipelineInv, NextPipelineInv, PTL DEF PipelineSpec

\* How far the consumer has come: a process that is down starts again from the
\* committed offset.
Progress == IF mode = "down" THEN committed["chunking"] ELSE position["chunking"]

\* The record of the job that a pending source shows is ahead of the consumer, or in
\* its hand, or the job has come to the end that its document gives it.
PendingIsOnItsWay ==
    \A s \in Requests :
        LET e == [job |-> rows[s].job, source |-> s] IN
        rows[s].status = "pending" =>
            \/ Concluded(e)
            \/ \E i \in DOMAIN topics["chunking"] :
                   /\ topics["chunking"][i] = e
                   /\ \/ i > Progress
                      \/ phase \in Handling /\ current.offset = i

\* The job of a pending source is never left behind, whatever retries, deletes,
\* crashes of either service, rebalances and commits come between: until a text can be
\* found, and a document without any has been reported, the consumer still has the
\* job to read or is at work on it.
THEOREM PendingIsNeverLost ==
    ASSUME NoLostReplies, NoLostJobs, OnlyCommitsFail
    PROVE  PipelineSpec => []PendingIsOnItsWay
<1>1. ASSUME PipelineInv, PendingIsSubmitted, EventsAreRecords, DoneIsSearchable,
             FailedMeansDeleted, AllReported, Proved!TypeOK, Proved!OffsetsOK,
             Proved!ReportsOK
      PROVE  PendingIsOnItsWay
    <2> SUFFICES ASSUME NEW s \in Requests, rows[s].status = "pending",
                        ~Concluded([job |-> rows[s].job, source |-> s])
                 PROVE  \E i \in DOMAIN topics["chunking"] :
                            /\ topics["chunking"][i] = [job |-> rows[s].job, source |-> s]
                            /\ \/ i > Progress
                               \/ phase \in Handling /\ current.offset = i
        BY DEF PendingIsOnItsWay
    <2> DEFINE e == [job |-> rows[s].job, source |-> s]
    <2>1. e \in Submitted
        BY <1>1 DEF PendingIsSubmitted
    <2>2. PICK i \in DOMAIN topics["chunking"] : topics["chunking"][i] = e
        BY <1>1, <2>1 DEF EventsAreRecords
    <2>3. /\ Progress \in Nat /\ i \in Nat \ {0}
        BY <1>1 DEF Proved!TypeOK, Proved!Topics, Progress, PipelineInv, TopicsMatch
    <2>4. ~Consumer!Heard(e.job)
        <3> SUFFICES ASSUME Consumer!Heard(e.job) PROVE FALSE
            OBVIOUS
        <3>1. PICK x \in statuses : x.job = e.job
            BY <1>1 DEF Consumer!Heard, Consumer!Reported, AllReported
        <3>2. x = [job |-> e.job, status |-> x.status] /\ x.status \in {"done", "failed"}
            BY <1>1, <3>1 DEF Proved!TypeOK, Proved!Status
        <3>3. x.status = "failed" => content[s] = "broken"
            BY <1>1, <2>1, <3>2 DEF FailedMeansDeleted, Submitted, Exists
        <3> QED
            BY <1>1, <2>2, <3>1, <3>2, <3>3 DEF DoneIsSearchable, Concluded, Exists
    <2>5. i \in 1 .. Progress => Proved!InChunking /\ i = current.offset
        BY <1>1, <2>2, <2>4 DEF Progress, Proved!ReportsOK, Proved!JobHeard,
            Proved!Heard, Proved!Reported, Consumer!Heard, Consumer!Reported
    <2> QED
        BY <2>2, <2>3, <2>5 DEF Proved!InChunking, Handling
<1>2. PipelineSpec => []Proved!TypeOK /\ []Proved!OffsetsOK /\ []Proved!ReportsOK
    BY PipelineImplementsConsumer, SameConsumer, ProvedAssumptions,
       Proved!OffsetsStay, Proved!ReportsStay, Proved!ConsumerTypeCorrect
    DEF ConsumerIsImplemented
<1>3. PipelineSpec => []PendingIsSubmitted
    BY PipelineImplementsService, PendingWasSubmitted
<1> QED
    BY <1>1, <1>2, <1>3, InitPipelineInv, NextPipelineInv, TopicIsComplete,
       DoneCanBeFound, FailedJobsAreDeleted, NothingUnreported, PTL
    DEF PipelineSpec
=============================================================================
