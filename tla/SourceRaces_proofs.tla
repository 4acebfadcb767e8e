------------------------ MODULE SourceRaces_proofs ------------------------
(***************************************************************************)
(* What requests about one source that overlap, or die, can do to each     *)
(* other: second jobs, jobs that nobody cancels and files that nobody      *)
(* removes, for any number of requests at the same time and any crashes.   *)
(***************************************************************************)
EXTENDS SourceService_proofs, FunctionTheorems

-----------------------------------------------------------------------------
(***************************************************************************)
(* The jobs of a source.  A request works on a source from the moment that *)
(* it has decided to start a job until the job is published, and counts    *)
(* from then on.                                                           *)
(***************************************************************************)
JobsAreShown ==
    /\ <<"db", "refused">> \notin Faults
    /\ <<"jobsChunking", "lostReply">> \notin Faults

WorkersOf(s) ==
    {r \in Requests : /\ req[r].target = s
                      /\ pc[r] \in {"publish", "markPending"} \/ r \in PublishedJobs}

\* The upload has not yet shown the source to anybody as uploaded.
Early == Before \cup {"put", "setPath", "markUploaded"}

\* Whoever has started a job of a source that looks as if it had none is still
\* about to show it, or has died.
WorkIsUnderWay(s) ==
    /\ pc[s] \in Early => WorkersOf(s) = {}
    /\ rows[s].status = "uploaded" => WorkersOf(s) \subseteq InFlight \cup LostOf(s)

FewWorkers(s) ==
    /\ IsFiniteSet(WorkersOf(s)) /\ IsFiniteSet(LostOf(s))
    /\ Cardinality(WorkersOf(s)) <= MaxInFlight + Cardinality(LostOf(s))

\* As few as two sets together.
Few(S, A, B) == IsFiniteSet(S) /\ Cardinality(S) <= Cardinality(A) + Cardinality(B)

WorkOK ==
    /\ \A e \in jobsChunking : e.source = req[e.job].target
    /\ \A e, f \in jobsChunking : e.job = f.job => e = f
    /\ \A s \in Requests : WorkIsUnderWay(s) /\ FewWorkers(s)

LEMMA FewOfTwo ==
    ASSUME NEW A, NEW B, IsFiniteSet(A), IsFiniteSet(B), NEW S \in SUBSET (A \cup B)
    PROVE  Few(S, A, B)
<1>1. /\ IsFiniteSet(A \cup B)
      /\ Cardinality(A \cup B)
             = Cardinality(A) + Cardinality(B) - Cardinality(A \cap B)
    BY FS_Union
<1>2. IsFiniteSet(A \cap B)
    BY FS_Subset
<1>3. /\ Cardinality(A) \in Nat /\ Cardinality(B) \in Nat
      /\ Cardinality(A \cap B) \in Nat
    BY <1>2, FS_CardinalityType
<1>4. IsFiniteSet(S) /\ Cardinality(S) <= Cardinality(A \cup B)
    BY <1>1, FS_Subset
<1>5. Cardinality(S) \in Nat
    BY <1>4, FS_CardinalityType
<1> QED
    BY <1>1, <1>3, <1>4, <1>5 DEF Few

LEMMA JobEdges ==
    ASSUME JobsAreShown, Proto, NEW r \in Requests, Accept(r) \/ Step(r)
    PROVE  /\ pc[r] = "markPending" =>
                 rows' = WithStatus(req[r].target, "pending", r)
           /\ pc[r] = "publish" /\ pc'[r] = "done" => jobsChunking' = jobsChunking
<1>1. CASE pc[r] = "markPending"
    <2>1. MarkPending(r)
        BY <1>1 DEF Accept, Step, UploadStep, CheckLimits, Save, PutObject,
            SetPath, MarkUploaded, UndoObject, UndoRow, JobStep, Publish, Find,
            DeleteStep, DeleteRow, CancelJob, DeleteObject
    <2>2. \A o \in Outcome("db") : Applied(o)
        BY FaultsAssumption DEF JobsAreShown, Outcome, Applied, FaultKinds
    <2> QED
        BY <1>1, <2>1, <2>2 DEF MarkPending
<1>2. CASE pc[r] = "publish"
    <2>1. Publish(r)
        BY <1>2 DEF Accept, Step, UploadStep, CheckLimits, Save, PutObject,
            SetPath, MarkUploaded, UndoObject, UndoRow, JobStep, MarkPending,
            Find, DeleteStep, DeleteRow, CancelJob, DeleteObject
    <2> PICK o \in Outcome("jobsChunking") :
            /\ jobsChunking' = IF Applied(o)
                               THEN jobsChunking \cup {CreateJobEvent(r)}
                               ELSE jobsChunking
            /\ IF Succeeds(o) THEN Goto(r, "markPending")
               ELSE Reply(r, IF req[r].op = "upload" THEN "OK"
                                                     ELSE "Unavailable", NoJob)
        BY <2>1 DEF Publish
    <2>2. CASE Succeeds(o)
        BY <1>2, <2>2 DEF Goto, Proto, TypeOK
    <2>3. CASE ~Succeeds(o)
        <3>1. ~Applied(o)
            BY <2>3 DEF JobsAreShown, Outcome, Applied, Succeeds, FaultKinds
        <3> QED
            BY <1>2, <3>1
    <2> QED
        BY <2>2, <2>3
<1> QED
    BY <1>1, <1>2

\* A source that is uploaded after a step was so before, or has become so by it.
LEMMA UploadedBefore ==
    ASSUME Proto, NEW r \in Requests, Accept(r) \/ Step(r),
           NEW s \in Requests, rows'[s].status = "uploaded"
    PROVE  \/ rows[s].status = "uploaded"
           \/ s = r /\ pc[r] = "markUploaded"
<1>1. rows \in [Requests -> Row] /\ req[r].target \in Requests /\ rows[s] \in Row
    BY DEF Proto, TypeOK, Call
<1>2. CASE rows' = rows BY <1>2
<1>3. CASE rows' = [rows EXCEPT ![r] = FreshRow]
    BY <1>1, <1>3 DEF FreshRow
<1>4. CASE rows' = WithPath(r)
    <2>1. rows'[s] = rows[s] \/ rows'[s] = [rows[s] EXCEPT !.path = TRUE]
        BY <1>1, <1>4 DEF WithPath
    <2> QED
        BY <1>1, <2>1 DEF Row
<1>5. CASE pc[r] = "markUploaded" /\ rows' = WithStatus(r, "uploaded", NoJob)
    BY <1>1, <1>5 DEF WithStatus
<1>6. CASE \E q \in Requests : rows' = Without(q)
    BY <1>1, <1>6 DEF Without, Absent
<1>7. CASE rows' = WithStatus(req[r].target, "pending", r)
    <2>1. \/ rows'[s] = rows[s]
          \/ rows'[s] = [rows[s] EXCEPT !.status = "pending", !.job = r]
        BY <1>1, <1>7 DEF WithStatus
    <2> QED
        BY <1>1, <2>1 DEF Row
<1> QED
    BY <1>1, RowMoves, <1>2, <1>3, <1>4, <1>5, <1>6, <1>7 DEF Proto

\* Another request comes to work on a source when its upload has just shown it,
\* or when it has read that it is uploaded.
LEMMA WorkerMoves ==
    ASSUME Proto, NEW r \in Requests, Accept(r) \/ Step(r), NEW s \in Requests
    PROVE  \/ WorkersOf(s)' \subseteq WorkersOf(s)
           \/ /\ WorkersOf(s)' \subseteq WorkersOf(s) \cup {r}
              /\ pc'[r] = "publish"
              /\ req[r].target = s
              /\ \/ s = r /\ pc[r] = "markUploaded"
                 \/ pc[r] = "find" /\ rows[s].status = "uploaded" /\ rows' = rows
<1>1. /\ pc' = [pc EXCEPT ![r] = pc'[r]] /\ req' = req
      /\ pc \in [Requests -> Labels]
    BY PcMoves DEF Proto, TypeOK
<1>2. PublishedJobs' = PublishedJobs
      \/ (pc[r] = "publish" /\ PublishedJobs' = PublishedJobs \cup {r})
    <2>1. \/ jobsChunking' = jobsChunking
          \/ pc[r] = "publish" /\ jobsChunking' = jobsChunking \cup {CreateJobEvent(r)}
        BY EventMoves
    <2>2. CreateJobEvent(r).job = r
        BY DEF CreateJobEvent
    <2> QED
        BY <2>1, <2>2 DEF PublishedJobs
<1>3. ASSUME NEW q \in WorkersOf(s)', q \notin WorkersOf(s)
      PROVE  q = r /\ pc'[r] = "publish" /\ req[r].target = s
    <2>1. q \in Requests /\ req[q].target = s
        BY <1>1, <1>3 DEF WorkersOf
    <2>2. pc'[q] \in {"publish", "markPending"} \/ q \in PublishedJobs'
        BY <1>3 DEF WorkersOf
    <2>3. pc[q] \notin {"publish", "markPending"} /\ q \notin PublishedJobs
        BY <1>3, <2>1 DEF WorkersOf
    <2>4. q = r
        BY <1>1, <1>2, <2>1, <2>2, <2>3
    <2>5. pc'[r] \in {"publish", "markPending"}
        BY <1>2, <2>2, <2>3, <2>4
    <2>6. pc'[r] # "markPending"
        BY <2>3, <2>4, PcEdges
    <2> QED
        BY <2>1, <2>4, <2>5, <2>6
<1>4. ASSUME pc'[r] = "publish", req[r].target = s
      PROVE  \/ s = r /\ pc[r] = "markUploaded"
             \/ pc[r] = "find" /\ rows[s].status = "uploaded" /\ rows' = rows
    <2>1. pc[r] \in {"markUploaded", "find"}
        BY <1>4, PcEdges
    <2>2. CASE pc[r] = "markUploaded"
        BY <1>4, <2>2 DEF Proto, ControlOK, UploadLabels, WellFormed
    <2>3. CASE pc[r] = "find"
        BY <1>4, <2>3, Learnt DEF Life
    <2> QED
        BY <2>1, <2>2, <2>3
<1> QED
    BY <1>3, <1>4

\* Only a crash loses a request, and no request starts again.
LEMMA StaysAlive ==
    ASSUME TypeOK, NEW r \in Requests, Accept(r) \/ Step(r)
    PROVE  pc'[r] \notin {"idle", "lost"}
<1> USE DEF TypeOK, Goto, Reply, GotoOrFail
<1>1. CASE Accept(r) BY <1>1 DEF Accept
<1>2. CASE UploadStep(r)
    BY <1>2 DEF UploadStep, CheckLimits, Save, PutObject, SetPath,
                MarkUploaded, UndoObject, UndoRow, Compensate
<1>3. CASE JobStep(r) BY <1>3 DEF JobStep, Publish, MarkPending
<1>4. CASE Find(r) BY <1>4 DEF Find
<1>5. CASE DeleteStep(r)
    BY <1>5 DEF DeleteStep, DeleteRow, CancelJob, DeleteObject, AfterDelete
<1> QED
    BY <1>1, <1>2, <1>3, <1>4, <1>5 DEF Step

\* A request that has published a job does not return before it has shown it.
LEMMA ShownWhenDone ==
    ASSUME JobsAreShown, Proto, NEW r \in Requests, Accept(r) \/ Step(r),
           r \in PublishedJobs', pc'[r] = "done"
    PROVE  rows'[req[r].target].status # "uploaded"
<1>1. CASE r \in PublishedJobs
    <2>1. pc[r] \in {"markPending", "done", "lost"}
        BY <1>1 DEF PublishedJobs, Proto, TopicsOK
    <2>2. rows' = WithStatus(req[r].target, "pending", r)
        BY <2>1, PcMoves, JobEdges DEF Proto
    <2>3. req[r].target \in Requests /\ rows \in [Requests -> Row]
        BY DEF Proto, TypeOK, Call
    <2> QED
        BY <2>2, <2>3 DEF WithStatus, Exists, Row
<1>2. CASE r \notin PublishedJobs
    <2>1. jobsChunking' # jobsChunking
        BY <1>2 DEF PublishedJobs
    <2> QED
        BY <2>1, EventMoves, JobEdges
<1> QED
    BY <1>1, <1>2

LEMMA StepWork ==
    ASSUME JobsAreShown, Proto, FewInFlight', WorkOK,
           NEW r \in Requests, Accept(r) \/ Step(r)
    PROVE  WorkOK'
<1>1. /\ pc' = [pc EXCEPT ![r] = pc'[r]]
      /\ req' = req
      /\ pc[r] \notin {"done", "lost"}
      /\ pc'[r] \in Before => pc[r] \in Before
      /\ pc'[r] \notin {"idle", "lost"}
      /\ pc \in [Requests -> Labels]
    BY PcMoves, StaysAlive DEF Proto, TypeOK
<1>2. /\ \A e \in jobsChunking' : e.source = req'[e.job].target
      /\ \A e, f \in jobsChunking' : e.job = f.job => e = f
    <2>1. /\ CreateJobEvent(r).job = r
          /\ CreateJobEvent(r).source = req[r].target
        BY DEF CreateJobEvent
    <2>2. pc[r] = "publish" => \A e \in jobsChunking : e.job # r
        BY DEF Proto, TopicsOK
    <2>3. \/ jobsChunking' = jobsChunking
          \/ pc[r] = "publish" /\ jobsChunking' = jobsChunking \cup {CreateJobEvent(r)}
        BY EventMoves
    <2> HIDE DEF CreateJobEvent
    <2> QED
        BY <1>1, <2>1, <2>2, <2>3 DEF WorkOK
<1>3. ASSUME NEW s \in Requests PROVE WorkIsUnderWay(s)' /\ FewWorkers(s)'
    <2> USE <1>3
    <2>1. /\ LostOf(s)' = LostOf(s)
          /\ \A q \in InFlight : q # r => q \in InFlight'
          /\ pc'[r] # "done" => r \in InFlight'
        BY <1>1 DEF LostOf, InFlight
    <2>2. WorkIsUnderWay(s) /\ FewWorkers(s)
        BY DEF WorkOK
    <2>3. ASSUME ~(WorkersOf(s)' \subseteq WorkersOf(s)), pc[s] \in Early
          PROVE  s = r /\ pc'[r] = "publish"
        <3>1. rows[s].status # "uploaded"
            BY <2>3 DEF Early, Proto, RowsOK, ControlOK, Exists
        <3> QED
            BY <2>3, <3>1, WorkerMoves
    <2>4. pc'[s] \in Early => WorkersOf(s)' = {}
        <3> SUFFICES ASSUME pc'[s] \in Early PROVE WorkersOf(s)' = {}
            OBVIOUS
        <3>1. pc[s] \in Early
            BY <1>1, PcEdges DEF Early, Before
        <3>2. WorkersOf(s) = {}
            BY <2>2, <3>1 DEF WorkIsUnderWay
        <3>3. WorkersOf(s)' \subseteq WorkersOf(s)
            BY <2>3, <3>1 DEF Early, Before
        <3> QED
            BY <3>2, <3>3
    <2>5. rows'[s].status = "uploaded" => WorkersOf(s)' \subseteq InFlight' \cup LostOf(s)'
        <3> SUFFICES ASSUME rows'[s].status = "uploaded", NEW q \in WorkersOf(s)'
                     PROVE  q \in InFlight' \cup LostOf(s)'
            OBVIOUS
        <3>1. CASE q \notin WorkersOf(s)
            <4>1. q = r /\ pc'[r] = "publish"
                BY <3>1, WorkerMoves
            <4> QED
                BY <2>1, <4>1
        <3>2. CASE q \in WorkersOf(s)
            <4>1. rows[s].status = "uploaded"
                BY <2>2, <3>2, UploadedBefore DEF WorkIsUnderWay, Early
            <4>2. q \in InFlight \cup LostOf(s)
                BY <2>2, <3>2, <4>1 DEF WorkIsUnderWay
            <4>3. ASSUME q = r, pc'[r] = "done" PROVE FALSE
                <5>1. q \in PublishedJobs' /\ req[r].target = s
                    BY <1>1, <4>3 DEF WorkersOf
                <5> QED
                    BY <4>3, <5>1, ShownWhenDone
            <4> QED
                BY <1>1, <2>1, <4>2, <4>3 DEF LostOf
        <3> QED
            BY <3>1, <3>2
    <2>6. \/ WorkersOf(s)' \subseteq WorkersOf(s)
          \/ WorkersOf(s)' \subseteq InFlight' \cup LostOf(s)'
        <3> SUFFICES ASSUME ~(WorkersOf(s)' \subseteq WorkersOf(s))
                     PROVE  WorkersOf(s)' \subseteq InFlight' \cup LostOf(s)'
            OBVIOUS
        <3>1. WorkersOf(s)' \subseteq WorkersOf(s) \cup {r} /\ pc'[r] = "publish"
            BY WorkerMoves
        <3>2. CASE s = r /\ pc[r] = "markUploaded"
            <4>1. WorkersOf(s) = {}
                BY <2>2, <3>2 DEF WorkIsUnderWay, Early
            <4> QED
                BY <2>1, <3>1, <4>1
        <3>3. CASE rows[s].status = "uploaded" /\ rows' = rows
            BY <2>5, <3>3
        <3> QED
            BY <3>2, <3>3, WorkerMoves
    <2>7. FewWorkers(s)'
        <3>1. IsFiniteSet(LostOf(s)) /\ MaxInFlight \in Nat
            BY <2>2, BoundsAssumption DEF FewWorkers
        <3>2. CASE WorkersOf(s)' \subseteq WorkersOf(s)
            BY <2>1, <2>2, <3>1, <3>2, FS_Subset, FS_CardinalityType DEF FewWorkers
        <3>3. CASE WorkersOf(s)' \subseteq InFlight' \cup LostOf(s)'
            <4>1. /\ IsFiniteSet(InFlight') /\ IsFiniteSet(LostOf(s)')
                  /\ Cardinality(InFlight') <= MaxInFlight
                BY <2>1, <3>1 DEF FewInFlight
            <4>2. Few(WorkersOf(s)', InFlight', LostOf(s)')
                BY <3>3, <4>1, FewOfTwo DEF Few
            <4> QED
                BY <3>1, <4>1, <4>2, FS_CardinalityType DEF FewWorkers, Few
        <3> QED
            BY <2>6, <3>2, <3>3
    <2> QED
        BY <2>4, <2>5, <2>7 DEF WorkIsUnderWay
<1> QED
    BY <1>1, <1>2, <1>3 DEF WorkOK

LEMMA QuietWork ==
    ASSUME Proto, FewInFlight, WorkOK,
           Crash \/ (\E p \in Projects : DeleteProject(p)) \/ UNCHANGED vars
    PROVE  WorkOK'
<1>1. /\ rows' = rows /\ req' = req /\ jobsChunking' = jobsChunking
      /\ PublishedJobs' = PublishedJobs
    BY DEF Crash, DeleteProject, vars, stores, PublishedJobs
<1>2. CASE pc' = pc
    BY <1>1, <1>2 DEF WorkOK, WorkIsUnderWay, FewWorkers, WorkersOf, LostOf, InFlight
<1>3. CASE Crash
    <2>1. \A q \in Requests : /\ q \in InFlight => pc'[q] = "lost"
                              /\ q \notin InFlight => pc'[q] = pc[q]
        BY <1>3 DEF Crash
    <2>2. ASSUME NEW s \in Requests PROVE WorkIsUnderWay(s)' /\ FewWorkers(s)'
        <3> USE <2>2
        <3>1. /\ WorkersOf(s)' \subseteq WorkersOf(s)
              /\ LostOf(s) \subseteq LostOf(s)'
              /\ LostOf(s)' \subseteq LostOf(s) \cup InFlight
              /\ \A q \in InFlight : req[q].target = s => q \in LostOf(s)'
            BY <1>1, <2>1 DEF WorkersOf, LostOf, InFlight
        <3>2. WorkIsUnderWay(s) /\ FewWorkers(s)
            BY DEF WorkOK
        <3>3. pc'[s] \in Early => pc[s] \in Early
            BY <2>1 DEF Early, Before, InFlight
        <3>4. WorkIsUnderWay(s)'
            BY <1>1, <3>1, <3>2, <3>3 DEF WorkIsUnderWay, WorkersOf
        <3>5. IsFiniteSet(LostOf(s)') /\ IsFiniteSet(WorkersOf(s)')
            BY <3>1, <3>2, FS_Union, FS_Subset DEF FewWorkers, FewInFlight
        <3>6. /\ Cardinality(LostOf(s)) <= Cardinality(LostOf(s)')
              /\ Cardinality(WorkersOf(s)') <= Cardinality(WorkersOf(s))
            BY <3>1, <3>2, <3>5, FS_Subset DEF FewWorkers
        <3> QED
            BY <3>2, <3>4, <3>5, <3>6, FS_CardinalityType, BoundsAssumption DEF FewWorkers
    <2> QED
        BY <1>1, <2>2 DEF WorkOK
<1> QED
    BY <1>2, <1>3 DEF DeleteProject, vars


LEMMA InitWork == Init => WorkOK
<1> SUFFICES ASSUME Init PROVE WorkOK
    OBVIOUS
<1>1. \A s \in Requests : WorkersOf(s) = {} /\ LostOf(s) = {} /\ rows[s].status = "absent"
    BY DEF Init, WorkersOf, LostOf, PublishedJobs, Absent
<1>2. IsFiniteSet({}) /\ Cardinality({}) = 0 /\ MaxInFlight \in Nat
    BY FS_EmptySet, BoundsAssumption
<1>3. \A s \in Requests : WorkIsUnderWay(s) /\ FewWorkers(s)
    BY <1>1, <1>2 DEF WorkIsUnderWay, FewWorkers
<1> QED
    BY <1>3 DEF Init, WorkOK

\* The jobs of a source are as many as the requests that have published them.
LEMMA WorkBoundsJobs ==
    ASSUME WorkOK, TypeOK PROVE JobsAreBounded
<1> SUFFICES ASSUME NEW s \in Requests
             PROVE  Cardinality({e \in jobsChunking : e.source = s})
                        <= MaxInFlight + Cardinality(LostOf(s))
    BY DEF JobsAreBounded
<1> DEFINE jobs == {e \in jobsChunking : e.source = s}
<1> DEFINE owner == [e \in jobs |-> e.job]
<1>1. owner \in Injection(jobs, WorkersOf(s))
    <2>1. \A e \in jobs : e.job \in WorkersOf(s)
        BY DEF WorkOK, WorkersOf, PublishedJobs, TypeOK, JobEvent
    <2>2. \A e, f \in jobs : owner[e] = owner[f] => e = f
        BY DEF WorkOK
    <2> QED
        BY <2>1, <2>2, Fun_IsInj
<1>2. FewWorkers(s)
    BY DEF WorkOK
<1>3. IsFiniteSet(jobs) /\ Cardinality(jobs) <= Cardinality(WorkersOf(s))
    <2> HIDE DEF owner, jobs
    <2> QED
        BY <1>1, <1>2, FS_Injection DEF FewWorkers
<1>4. /\ Cardinality(jobs) \in Nat /\ Cardinality(WorkersOf(s)) \in Nat
      /\ Cardinality(LostOf(s)) \in Nat /\ MaxInFlight \in Nat
    BY <1>2, <1>3, FS_CardinalityType, BoundsAssumption DEF FewWorkers
<1> QED
    BY <1>2, <1>3, <1>4 DEF FewWorkers

LEMMA JobsHold ==
    ASSUME JobsAreShown PROVE Spec => [](Proto /\ FewInFlight /\ WorkOK)
<1> DEFINE Inv == Proto /\ FewInFlight /\ WorkOK
<1>1. Init => Inv
    BY InitProto, InitLimit, InitWork
<1>2. Inv /\ [Next]_vars => Inv'
    <2> SUFFICES ASSUME Inv, [Next]_vars PROVE Inv'
        OBVIOUS
    <2>1. Proto' /\ FewInFlight'
        BY NextProto, NextInFlight DEF Proto
    <2>2. WorkOK'
        <3>1. CASE \E r \in Requests : Accept(r) \/ Step(r)
            BY <2>1, <3>1, StepWork
        <3> QED
            BY <3>1, QuietWork DEF Next
    <2> QED
        BY <2>1, <2>2
<1> QED
    BY <1>1, <1>2, PTL DEF Spec

\* However many requests work on a source at the same time, it gets no more jobs
\* than can be served at once and one for each that died before it had shown
\* its job, as long as a job that is published is shown: neither the update that
\* follows an event is refused nor is an event delivered and reported as failed.
THEOREM JobsStayBounded ==
    ASSUME JobsAreShown PROVE Spec => []JobsAreBounded
<1>1. Proto /\ FewInFlight /\ WorkOK => JobsAreBounded
    BY WorkBoundsJobs DEF Proto
<1> QED
    BY <1>1, JobsHold, PTL

-----------------------------------------------------------------------------
(***************************************************************************)
(* What a delete leaves behind.  A source that is gone although its upload *)
(* went on, or still has a file or a job, was removed by a delete that is  *)
(* under way, has answered or has died; and what that delete cleans up is  *)
(* settled by the row that it read, which is a row the source once had.    *)
(***************************************************************************)
CancelsArrive == \A f \in FaultKinds : <<"jobsCancel", f>> \notin Faults

Cancelled == {c.source : c \in jobsCancel}

Fileless == Before \cup {"put"}

Wanted(s) ==
    \/ \E e \in jobsChunking : e.source = s
    \/ \E q \in Requests : pc[q] \in {"publish", "markPending"} /\ req[q].target = s

\* The upload has inserted its row and not returned with an error.
Born(s) ==
    \/ pc[s] \in {"put", "setPath", "markUploaded", "undoObject"}
    \/ s \in objects
    \/ Wanted(s)

Removing(d, s) ==
    /\ req[d].op = "delete" /\ req[d].target = s
    /\ \/ pc[d] \in {"cancel", "deleteObject"}
       \/ resp[d].code = "OK"
       \/ pc[d] = "lost" /\ seen[d] # Absent

BornOK ==
    \A s \in Requests :
        Born(s) /\ ~Exists(s) => \E d \in Requests : Removing(d, s)

\* What the requests have read and answered.
SeenOK ==
    \A d \in Requests :
        /\ pc[d] \in {"deleteRow", "cancel", "deleteObject"} =>
               req[d].op = "delete" /\ seen[d] # Absent
        /\ pc[d] \in {"publish", "markPending"} => req[d].op # "delete"
        /\ pc[d] # "done" => resp[d].code = "none"
        /\ rows[d].path => pc[d] \notin Fileless
        /\ seen[d].path => pc[req[d].target] \notin Fileless
        /\ rows[d].status = "pending" => rows[d].job # NoJob
        /\ seen[d].status = "pending" => seen[d].job # NoJob

\* A delete that has come to the file has cancelled the job that it read.
CancelOK ==
    \A d \in Requests :
        /\ req[d].op = "delete"
        /\ pc[d] = "deleteObject" \/ resp[d].code = "OK"
        /\ Active(seen[d])
        => req[d].target \in Cancelled

\* A delete that has answered has removed the file that it read of.
GoneOK ==
    \A d \in Requests :
        req[d].op = "delete" /\ resp[d].code = "OK" /\ seen[d].path =>
            req[d].target \notin objects

\* A step does the call that its label names.
LEMMA AtLabel ==
    ASSUME NEW r \in Requests, Accept(r) \/ Step(r)
    PROVE  /\ pc[r] = "save" => Save(r)
           /\ pc[r] = "undoRow" => UndoRow(r)
           /\ pc[r] = "find" => Find(r)
           /\ pc[r] = "deleteRow" => DeleteRow(r)
           /\ pc[r] = "cancel" => CancelJob(r)
           /\ pc[r] = "deleteObject" => DeleteObject(r)
BY DEF Accept, Step, UploadStep, CheckLimits, Save, PutObject, SetPath,
       MarkUploaded, UndoObject, UndoRow, JobStep, Publish, MarkPending, Find,
       DeleteStep, DeleteRow, CancelJob, DeleteObject

\* What a request has read and what it has answered, after a step.
LEMMA SeenMoves ==
    ASSUME Proto, NEW r \in Requests, Accept(r) \/ Step(r)
    PROVE  /\ \/ seen' = seen
              \/ /\ pc[r] = "find" /\ rows' = rows /\ Exists(req[r].target)
                 /\ seen' = [seen EXCEPT ![r] = rows[req[r].target]]
           /\ resp' = resp \/ (pc'[r] = "done" /\ resp' = [resp EXCEPT ![r] = resp'[r]])
           /\ pc'[r] = "deleteRow" =>
                 /\ pc[r] = "find" /\ req[r].op = "delete"
                 /\ seen'[r] = rows[req[r].target]
           /\ pc[r] = "find" /\ pc'[r] = "publish" => req[r].op # "delete"
           /\ jobsCancel \subseteq jobsCancel'
<1> USE DEF Proto, TypeOK, Goto, Reply, GotoOrFail, stores
<1>1. CASE Accept(r) BY <1>1 DEF Accept
<1>2. CASE UploadStep(r)
    BY <1>2 DEF UploadStep, CheckLimits, Save, PutObject, SetPath,
                MarkUploaded, UndoObject, UndoRow, Compensate
<1>3. CASE JobStep(r) BY <1>3 DEF JobStep, Publish, MarkPending
<1>4. CASE Find(r) BY <1>4 DEF Find, Visible
<1>5. CASE DeleteStep(r)
    BY <1>5 DEF DeleteStep, DeleteRow, CancelJob, DeleteObject, AfterDelete
<1> QED
    BY <1>1, <1>2, <1>3, <1>4, <1>5 DEF Step

\* How a delete goes on when calls that fail have no effect.
LEMMA DeleteEdges ==
    ASSUME ErrorsAreTrue, CleanupWorks, Proto, SeenOK, NEW r \in Requests,
           Accept(r) \/ Step(r)
    PROVE  /\ pc[r] = "deleteRow" =>
                 rows' = rows \/ pc'[r] \in {"cancel", "deleteObject"}
           /\ pc[r] = "deleteRow" /\ pc'[r] = "deleteObject" => ~Active(seen[r])
           /\ pc[r] = "cancel" =>
                 /\ pc'[r] = "deleteObject"
                 /\ CancelsArrive => req[r].target \in Cancelled'
           /\ pc[r] = "deleteObject" =>
                 /\ resp'[r].code = "OK"
                 /\ seen[r].path => req[r].target \notin objects'
           /\ req[r].op = "delete" /\ resp'[r].code = "OK" =>
                 pc[r] = "deleteObject" \/ resp'[r] = resp[r]
           /\ pc[r] = "undoRow" => pc'[r] = "done"
           /\ pc[r] = "save" /\ pc'[r] \in {"put", "markUploaded"} => Exists(r)'
<1> USE DEF Proto, TypeOK, Goto, Reply, GotoOrFail
<1>1. ASSUME pc[r] = "deleteRow"
      PROVE  /\ rows' = rows \/ pc'[r] \in {"cancel", "deleteObject"}
             /\ pc'[r] = "deleteObject" => ~Active(seen[r])
             /\ resp'[r].code # "OK" \/ resp'[r] = resp[r]
    <2> DEFINE s == req[r].target
    <2>1. PICK o \in Outcome("db") :
              /\ rows' = IF Applied(o) /\ Visible(r, s) THEN Without(s) ELSE rows
              /\ IF ~Succeeds(o) THEN Reply(r, "Internal", NoJob)
                 ELSE GotoOrFail(r, Visible(r, s), AfterDelete(r), "NotFound")
        BY <1>1, AtLabel DEF DeleteRow
    <2>2. Applied(o) => Succeeds(o)
        BY DEF ErrorsAreTrue, NoLostReplies, Outcome, Applied, Succeeds, FaultKinds
    <2> QED
        BY <1>1, <2>1, <2>2 DEF AfterDelete
<1>2. ASSUME pc[r] = "cancel"
      PROVE  /\ pc'[r] = "deleteObject" /\ resp' = resp
             /\ CancelsArrive => req[r].target \in Cancelled'
    <2>1. CancelJob(r)
        BY <1>2, AtLabel
    <2>2. ASSUME CancelsArrive PROVE req[r].target \in Cancelled'
        <3>1. \A o \in Outcome("jobsCancel") : Applied(o)
            BY <2>2 DEF CancelsArrive, Outcome, Applied
        <3>2. [job |-> seen[r].job, source |-> req[r].target] \in jobsCancel'
            BY <2>1, <3>1 DEF CancelJob
        <3> QED
            BY <3>2 DEF Cancelled
    <2> QED
        BY <1>2, <2>1, <2>2 DEF CancelJob
<1>3. ASSUME pc[r] = "deleteObject"
      PROVE  /\ resp'[r].code = "OK"
             /\ seen[r].path => req[r].target \notin objects'
    <2>1. DeleteObject(r)
        BY <1>3, AtLabel
    <2>2. \A o \in Outcome("cleanup") : Applied(o)
        BY DEF CleanupWorks, Outcome, Applied
    <2> QED
        BY <2>1, <2>2 DEF DeleteObject
<1>4. req[r].op = "delete" /\ resp'[r].code = "OK" =>
          pc[r] = "deleteObject" \/ resp'[r] = resp[r]
    <2>1. CASE Accept(r) BY <2>1 DEF Accept
    <2>2. CASE UploadStep(r)
        BY <2>2 DEF UploadStep, CheckLimits, Save, PutObject, SetPath,
                    MarkUploaded, UndoObject, UndoRow, ControlOK, UploadLabels
    <2>3. CASE JobStep(r)
        BY <2>3 DEF JobStep, Publish, MarkPending, SeenOK
    <2>4. CASE Find(r) BY <2>4 DEF Find
    <2>5. CASE DeleteStep(r)
        BY <1>1, <1>2, <2>5 DEF DeleteStep, DeleteRow, CancelJob, DeleteObject
    <2> QED
        BY <2>1, <2>2, <2>3, <2>4, <2>5 DEF Step
<1>5. pc[r] = "undoRow" => pc'[r] = "done"
    BY AtLabel DEF UndoRow
<1>6. pc[r] = "save" /\ pc'[r] \in {"put", "markUploaded"} => Exists(r)'
    <2> SUFFICES ASSUME pc[r] = "save", pc'[r] \in {"put", "markUploaded"}
                 PROVE  Exists(r)'
        OBVIOUS
    <2>1. PICK o \in Outcome("db") :
              /\ rows' = IF Applied(o) THEN [rows EXCEPT ![r] = FreshRow] ELSE rows
              /\ GotoOrFail(r, Succeeds(o),
                            IF req[r].file THEN "put" ELSE "markUploaded",
                            "Unavailable")
        BY AtLabel DEF Save
    <2>2. Succeeds(o)
        BY <2>1
    <2>3. rows' = [rows EXCEPT ![r] = FreshRow]
        BY <2>1, <2>2, NoDrops
    <2> QED
        BY <2>3 DEF Exists, FreshRow
<1> QED
    BY <1>1, <1>2, <1>3, <1>4, <1>5, <1>6


LEMMA StepSeen ==
    ASSUME ErrorsAreTrue, CleanupWorks, Proto, SeenOK,
           NEW r \in Requests, Accept(r) \/ Step(r)
    PROVE  SeenOK'
<1>1. /\ pc' = [pc EXCEPT ![r] = pc'[r]]
      /\ req' = req
      /\ pc'[r] \in Before => pc[r] \in Before
      /\ pc \in [Requests -> Labels] /\ rows \in [Requests -> Row]
      /\ seen \in [Requests -> Row] /\ resp \in [Requests -> Response]
      /\ \A q \in Requests : req[q].target \in Requests
    BY PcMoves DEF Proto, TypeOK, Call
<1>2. ASSUME NEW d \in Requests
      PROVE  /\ pc'[d] \in {"deleteRow", "cancel", "deleteObject"} =>
                    req[d].op = "delete" /\ seen'[d] # Absent
             /\ pc'[d] \in {"publish", "markPending"} => req[d].op # "delete"
             /\ pc'[d] # "done" => resp'[d].code = "none"
    <2> USE DEF SeenOK
    <2>1. CASE d # r
        BY <1>1, <1>2, <2>1, SeenMoves
    <2>2. CASE d = r
        <3>1. resp'[r] = resp[r] \/ pc'[r] = "done"
            BY SeenMoves
        <3>2. pc[r] \notin {"done"}
            BY PcMoves DEF Proto
        <3>3. pc[r] = "markUploaded" => req[r].op # "delete"
            BY DEF Proto, ControlOK, UploadLabels
        <3>4. pc'[r] \in {"publish", "markPending"} => req[r].op # "delete"
            BY <3>3, PcEdges, SeenMoves
        <3>5. CASE pc'[r] = "deleteRow"
            <4>1. pc[r] = "find" /\ req[r].op = "delete"
                  /\ seen'[r] = rows[req[r].target]
                BY <3>5, SeenMoves
            <4>2. Exists(req[r].target)
                BY <1>1, <3>5, <4>1, AtLabel DEF Find, Visible, Reply
            <4> QED
                BY <2>2, <3>1, <3>2, <3>5, <4>1, <4>2 DEF Exists, Absent
        <3>6. CASE pc'[r] \in {"cancel", "deleteObject"}
            <4>1. pc[r] \in {"deleteRow", "cancel"}
                BY <3>6, PcEdges
            <4>2. seen' = seen
                BY <4>1, SeenMoves
            <4> QED
                BY <2>2, <3>1, <3>2, <3>6, <4>1, <4>2
        <3> QED
            BY <2>2, <3>1, <3>2, <3>4, <3>5, <3>6
    <2> QED
        BY <2>1, <2>2
<1>3. \A d \in Requests : pc'[d] \in Fileless => pc[d] \in Fileless
    <2> SUFFICES ASSUME pc'[r] \in Fileless, pc'[r] \notin Before
                 PROVE  pc[r] \in Fileless
        BY <1>1 DEF Fileless
    <2>1. pc'[r] = "put"
        BY DEF Fileless
    <2>2. r \in Uploads
        BY <2>1, PcEdges DEF Uploads, UploadLabels
    <2> QED
        BY <2>1, <2>2, TidyEdges DEF Fileless, Before
<1>4. ASSUME NEW d \in Requests
      PROVE  /\ rows'[d].path => rows[d].path \/ (d = r /\ pc[r] = "setPath")
             /\ rows'[d].status = "pending" =>
                    \/ rows[d].status = "pending" /\ rows'[d].job = rows[d].job
                    \/ rows'[d].job = r
    <2>1. rows'[d].path => rows[d].path \/ (d = r /\ pc[r] = "setPath")
        <3>1. /\ [rows EXCEPT ![r] = FreshRow][d].path => rows[d].path
              /\ d # r => WithPath(r)[d].path = rows[d].path
              /\ \A q \in Requests : Without(q)[d].path => rows[d].path
            BY <1>1, <1>4 DEF FreshRow, WithPath, Without, Absent
        <3>2. ASSUME NEW q \in Requests, NEW st, NEW j
              PROVE  WithStatus(q, st, j)[d].path = rows[d].path
            BY <1>1, <1>4, <3>2 DEF WithStatus, Row
        <3> QED
            BY <1>1, <3>1, <3>2, RowMoves DEF Proto
    <2> QED
        BY <1>4, <2>1, PendingMoves
<1>5. ASSUME NEW d \in Requests
      PROVE  /\ rows'[d].path => pc'[d] \notin Fileless
             /\ rows'[d].status = "pending" => rows'[d].job # NoJob
    <2>1. pc[r] = "setPath" => pc'[r] \notin Fileless
        <3>1. pc[r] = "setPath" => r \in Uploads
            BY DEF Proto, ControlOK, UploadLabels, Uploads
        <3> QED
            BY <1>1, <3>1, TidyEdges DEF Fileless, Before
    <2> QED
        BY <1>3, <1>4, <1>5, <2>1, NoJobAssumption DEF SeenOK
<1>6. ASSUME NEW d \in Requests
      PROVE  /\ seen'[d].path => pc'[req[d].target] \notin Fileless
             /\ seen'[d].status = "pending" => seen'[d].job # NoJob
    <2>1. CASE seen'[d] = seen[d]
        BY <1>1, <1>3, <2>1 DEF SeenOK
    <2>2. CASE seen'[d] = rows[req[d].target]
        BY <1>1, <1>3, <2>2 DEF SeenOK
    <2> QED
        BY <1>1, <2>1, <2>2, SeenMoves
<1> QED
    BY <1>1, <1>2, <1>5, <1>6 DEF SeenOK

\* A delete keeps being one that removed its source.
LEMMA StepRemoving ==
    ASSUME ErrorsAreTrue, CleanupWorks, Proto, SeenOK,
           NEW r \in Requests, Accept(r) \/ Step(r),
           NEW d \in Requests, NEW s \in Requests, Removing(d, s)
    PROVE  Removing(d, s)'
<1>1. pc' = [pc EXCEPT ![r] = pc'[r]] /\ req' = req
      /\ pc[r] \notin {"done", "lost"} /\ pc \in [Requests -> Labels]
    BY PcMoves DEF Proto, TypeOK
<1>2. CASE d # r
    BY <1>1, <1>2, SeenMoves, AnswerMoves DEF Removing, Proto, TypeOK
<1>3. CASE d = r
    <2>1. pc[r] \in {"cancel", "deleteObject"}
        BY <1>1, <1>3 DEF Removing, SeenOK
    <2> QED
        BY <1>1, <1>3, <2>1, DeleteEdges DEF Removing
<1> QED
    BY <1>2, <1>3


\* A step that makes a source of a gone row matter, when it did not before, is
\* the step that removes the row.
LEMMA StepBorn ==
    ASSUME ErrorsAreTrue, CleanupWorks, Proto, TidyOK, SeenOK, BornOK,
           NEW r \in Requests, Accept(r) \/ Step(r)
    PROVE  BornOK'
<1>1. /\ pc' = [pc EXCEPT ![r] = pc'[r]]
      /\ req' = req
      /\ pc[r] \notin {"done", "lost"}
      /\ pc \in [Requests -> Labels] /\ rows \in [Requests -> Row]
      /\ \A q \in Requests : req[q].target \in Requests
      /\ \A e \in jobsChunking : e.job \in Requests /\ e.source \in Requests
    BY PcMoves DEF Proto, TypeOK, Call, JobEvent
<1>2. SUFFICES ASSUME NEW s \in Requests, Born(s)', ~Exists(s)'
               PROVE  \E d \in Requests : Removing(d, s)'
    BY DEF BornOK
<1> USE <1>2
<1>3. ASSUME pc[r] # "publish" PROVE jobsChunking' = jobsChunking
    BY <1>3, EventMoves
<1>4. CASE Exists(s)
    <2>1. rows'[s] # rows[s]
        BY <1>4 DEF Exists
    <2>2. \/ pc[r] = "undoRow" /\ s = r
          \/ pc[r] = "deleteRow" /\ s = req[r].target
        <3>1. /\ [rows EXCEPT ![r] = FreshRow][s] # Absent
              /\ \A q \in Requests : q # s => Without(q)[s] = rows[s]
            BY <1>1, <1>4 DEF FreshRow, Without, Absent, Exists
        <3>2. WithPath(r)[s].status # "absent"
            BY <1>1, <1>4 DEF WithPath, Exists, Row
        <3>3. ASSUME NEW q \in Requests, NEW j
              PROVE  /\ WithStatus(q, "uploaded", j)[s].status # "absent"
                     /\ WithStatus(q, "pending", j)[s].status # "absent"
            BY <1>1, <1>4, <3>3 DEF WithStatus, Exists, Row
        <3>4. [rows EXCEPT ![r] = FreshRow][s].status # "absent"
            BY <1>1, <1>4 DEF FreshRow, Exists
        <3> QED
            BY <1>1, <2>1, <3>1, <3>2, <3>3, <3>4, RowMoves DEF Exists, Proto
    <2>3. CASE pc[r] = "deleteRow" /\ s = req[r].target
        <3>1. pc'[r] \in {"cancel", "deleteObject"}
            BY <2>1, <2>3, DeleteEdges
        <3>2. req[r].op = "delete"
            BY <2>3 DEF SeenOK
        <3> QED
            BY <1>1, <2>3, <3>1, <3>2 DEF Removing
    <2>4. CASE pc[r] = "undoRow" /\ s = r
        <3>1. r \in Uploads /\ pc'[r] = "done"
            BY <2>4, DeleteEdges DEF Proto, ControlOK, UploadLabels, Uploads
        <3>2. s \notin objects'
            BY <2>4, <3>1, ObjectMoves DEF TidyOK, FilelessLabels
        <3>3. ~Finished(s)
            BY <2>4 DEF Finished
        <3>4. ~Wanted(s)'
            <4>1. \A e \in jobsChunking' : e.source # s
                BY <1>3, <2>4, <3>3 DEF TidyOK
            <4>2. \A q \in Requests :
                      pc'[q] \in {"publish", "markPending"} => req[q].target # s
                BY <1>1, <3>1, <3>3 DEF TidyOK
            <4> QED
                BY <1>1, <4>1, <4>2 DEF Wanted
        <3> QED
            BY <2>4, <3>1, <3>2, <3>4 DEF Born
    <2> QED
        BY <2>2, <2>3, <2>4
<1>5. CASE ~Exists(s)
    <2>1. pc'[s] \in {"put", "setPath", "markUploaded", "undoObject"} => Born(s)
        <3> SUFFICES ASSUME pc'[s] \in {"put", "setPath", "markUploaded", "undoObject"},
                            s = r
                     PROVE  Born(s)
            BY <1>1 DEF Born
        <3>1. r \in Uploads
            BY PcEdges DEF Uploads, UploadLabels
        <3>2. pc[r] \in {"save", "put", "setPath", "markUploaded"}
            BY <3>1, PcEdges, TidyEdges
        <3>3. CASE pc[r] = "save"
            BY <3>1, <3>3, DeleteEdges, TidyEdges
        <3> QED
            BY <3>2, <3>3 DEF Born
    <2>2. s \in objects' => Born(s)
        BY ObjectMoves DEF Born
    <2>3. Wanted(s)' => Born(s)
        <3>1. ASSUME NEW e \in jobsChunking', e.source = s PROVE Born(s)
            <4>1. CASE e \in jobsChunking
                BY <3>1, <4>1 DEF Born, Wanted
            <4>2. CASE e \notin jobsChunking
                <5>1. pc[r] = "publish" /\ e = CreateJobEvent(r)
                    BY <4>2, EventMoves
                <5>2. req[r].target = s
                    BY <3>1, <5>1 DEF CreateJobEvent
                <5> QED
                    BY <5>1, <5>2 DEF Born, Wanted
            <4> QED
                BY <4>1, <4>2
        <3>2. ASSUME NEW q \in Requests, pc'[q] \in {"publish", "markPending"},
                     req[q].target = s
              PROVE  Born(s)
            <4>1. CASE pc[q] \in {"publish", "markPending"}
                BY <3>2, <4>1 DEF Born, Wanted
            <4>2. CASE pc[q] \notin {"publish", "markPending"}
                <5>1. q = r /\ pc'[r] = "publish" /\ pc[r] \in {"markUploaded", "find"}
                    BY <1>1, <3>2, <4>2, PcEdges
                <5>2. CASE pc[r] = "markUploaded"
                    <6>1. s = r
                        BY <3>2, <5>1, <5>2
                        DEF Proto, ControlOK, UploadLabels, WellFormed
                    <6> QED
                        BY <5>2, <6>1 DEF Born
                <5>3. CASE pc[r] = "find"
                    <6>1. Life(s) = "uploaded"
                        BY <3>2, <5>1, <5>3, Learnt
                    <6> QED
                        BY <1>5, <6>1 DEF Life
                <5> QED
                    BY <5>1, <5>2, <5>3
            <4> QED
                BY <4>1, <4>2
        <3> QED
            BY <1>1, <3>1, <3>2 DEF Wanted
    <2>4. Born(s)
        BY <2>1, <2>2, <2>3 DEF Born
    <2>5. PICK d \in Requests : Removing(d, s)
        BY <1>5, <2>4 DEF BornOK
    <2> QED
        BY <2>5, StepRemoving
<1> QED
    BY <1>4, <1>5

LEMMA StepGone ==
    ASSUME ErrorsAreTrue, CleanupWorks, Proto, SeenOK, GoneOK,
           NEW r \in Requests, Accept(r) \/ Step(r)
    PROVE  GoneOK'
<1>1. /\ req' = req
      /\ \A q \in Requests : req[q].target \in Requests
    BY PcMoves DEF Proto, TypeOK, Call
<1> SUFFICES ASSUME NEW d \in Requests,
                    req[d].op = "delete", resp'[d].code = "OK", seen'[d].path
             PROVE  req[d].target \notin objects'
    BY <1>1 DEF GoneOK
<1>2. CASE d = r /\ pc[r] = "deleteObject"
    BY <1>2, DeleteEdges, SeenMoves
<1>3. CASE ~(d = r /\ pc[r] = "deleteObject")
    <2>1. resp[d].code = "OK"
        BY <1>3, DeleteEdges, AnswerMoves
    <2>2. pc[d] = "done"
        BY <2>1 DEF SeenOK
    <2>3. d # r
        BY <2>2, PcMoves DEF Proto
    <2>4. seen[d].path
        BY <2>3, SeenMoves DEF Proto, TypeOK
    <2>5. pc[req[d].target] # "put" /\ req[d].target \notin objects
        BY <2>1, <2>4 DEF SeenOK, GoneOK, Fileless
    <2> QED
        BY <1>1, <2>5, ObjectMoves
<1> QED
    BY <1>2, <1>3

LEMMA StepCancel ==
    ASSUME ErrorsAreTrue, CleanupWorks, CancelsArrive, Proto, SeenOK, CancelOK,
           NEW r \in Requests, Accept(r) \/ Step(r)
    PROVE  CancelOK'
<1>1. /\ pc' = [pc EXCEPT ![r] = pc'[r]] /\ req' = req
      /\ pc[r] \notin {"done", "lost"} /\ pc \in [Requests -> Labels]
      /\ Cancelled \subseteq Cancelled'
    BY PcMoves, SeenMoves DEF Proto, TypeOK, Cancelled
<1> SUFFICES ASSUME NEW d \in Requests, req[d].op = "delete",
                    pc'[d] = "deleteObject" \/ resp'[d].code = "OK",
                    Active(seen[d])'
             PROVE  req[d].target \in Cancelled'
    BY <1>1 DEF CancelOK, Active
<1>2. CASE d # r
    <2>1. seen'[d] = seen[d] /\ resp'[d] = resp[d] /\ pc'[d] = pc[d]
        BY <1>1, <1>2, SeenMoves, AnswerMoves DEF Proto, TypeOK
    <2> QED
        BY <1>1, <2>1 DEF CancelOK, Active
<1>3. CASE d = r
    <2>1. resp[r].code # "OK"
        BY <1>1 DEF SeenOK
    <2>2. pc[r] \in {"deleteRow", "cancel", "deleteObject"}
        BY <1>3, <2>1, PcEdges, DeleteEdges
    <2>3. seen' = seen
        BY <2>2, SeenMoves
    <2>4. CASE pc[r] = "deleteRow"
        BY <1>3, <2>1, <2>3, <2>4, DeleteEdges DEF Active
    <2>5. CASE pc[r] = "cancel"
        BY <1>3, <2>5, DeleteEdges
    <2>6. CASE pc[r] = "deleteObject"
        BY <1>1, <1>3, <2>3, <2>6 DEF CancelOK, Active
    <2> QED
        BY <2>2, <2>4, <2>5, <2>6
<1> QED
    BY <1>2, <1>3

\* A crash leaves what has been read and answered.
LEMMA QuietRaces ==
    ASSUME Proto, SeenOK, BornOK,
           Crash \/ (\E p \in Projects : DeleteProject(p)) \/ UNCHANGED vars
    PROVE  /\ SeenOK' /\ BornOK'
           /\ GoneOK => GoneOK'
           /\ CancelOK => CancelOK'
<1>1. /\ rows' = rows /\ req' = req /\ jobsChunking' = jobsChunking
      /\ objects' = objects /\ jobsCancel' = jobsCancel
      /\ seen' = seen /\ resp' = resp
    BY DEF Crash, DeleteProject, vars, stores
<1>2. \A q \in Requests :
          \/ pc'[q] = pc[q]
          \/ pc'[q] = "lost" /\ pc[q] \notin {"idle", "done", "lost"}
    BY DEF Crash, DeleteProject, vars, InFlight
<1>3. \A q \in Requests : req[q].target \in Requests
    BY DEF Proto, TypeOK, Call
<1>4. SeenOK'
    BY <1>1, <1>2, <1>3 DEF SeenOK, Fileless, Before
<1>5. BornOK'
    <2>1. \A s \in Requests : Born(s)' => Born(s)
        BY <1>1, <1>2 DEF Born, Wanted
    <2>2. \A d, s \in Requests : Removing(d, s) => Removing(d, s)'
        BY <1>1, <1>2 DEF Removing, SeenOK
    <2> QED
        BY <1>1, <2>1, <2>2 DEF BornOK, Exists
<1>6. GoneOK => GoneOK'
    BY <1>1 DEF GoneOK
<1>7. CancelOK => CancelOK'
    BY <1>1, <1>2 DEF CancelOK, Cancelled
<1> QED
    BY <1>4, <1>5, <1>6, <1>7


LEMMA InitRaces == Init => SeenOK /\ BornOK /\ GoneOK /\ CancelOK
<1> SUFFICES ASSUME Init PROVE SeenOK /\ BornOK /\ GoneOK /\ CancelOK
    OBVIOUS
<1>1. SeenOK
    BY DEF Init, SeenOK, Absent, NoResponse
<1>2. BornOK
    BY DEF Init, BornOK, Born, Wanted
<1>3. GoneOK /\ CancelOK
    BY DEF Init, GoneOK, CancelOK, Absent, NoResponse
<1> QED
    BY <1>1, <1>2, <1>3

LEMMA InitTidy == Init => TidyOK
<1> SUFFICES ASSUME Init PROVE TidyOK
    OBVIOUS
<1>1. \A s \in Requests : rows[s].status = "absent" /\ pc[s] = "idle" /\ s \notin objects
    BY DEF Init, Absent
<1> QED
    BY <1>1 DEF Init, TidyOK, Uploads

LEMMA RacesHold ==
    ASSUME ErrorsAreTrue, CleanupWorks
    PROVE  Spec => [](Proto /\ TidyOK /\ SeenOK /\ BornOK /\ GoneOK)
<1> DEFINE Inv == Proto /\ TidyOK /\ SeenOK /\ BornOK /\ GoneOK
<1>1. Init => Inv
    BY InitProto, InitTidy, InitRaces
<1>2. Inv /\ [Next]_vars => Inv'
    <2> SUFFICES ASSUME Inv, [Next]_vars PROVE Inv'
        OBVIOUS
    <2>1. Proto' /\ TidyOK'
        BY NextProto, NextTidy
    <2>2. SeenOK' /\ BornOK' /\ GoneOK'
        <3>1. CASE \E r \in Requests : Accept(r) \/ Step(r)
            BY <3>1, StepSeen, StepBorn, StepGone
        <3> QED
            BY <3>1, QuietRaces DEF Next
    <2> QED
        BY <2>1, <2>2
<1> QED
    BY <1>1, <1>2, PTL DEF Spec

\* When everything has returned, a file of a source that is gone was missed by a
\* delete that died or that had read the row before it had the path: when errors
\* have no effect and clean-ups work, no other order of the calls of uploads,
\* retries, deletes and crashes leaves one behind.
THEOREM OrphansWereUnseen ==
    ASSUME ErrorsAreTrue, CleanupWorks PROVE Spec => []OrphanWasUnseen
<1>1. ASSUME Proto, SeenOK, BornOK, GoneOK PROVE OrphanWasUnseen
    <2> SUFFICES ASSUME InFlight = {}, NEW s \in objects, ~Exists(s)
                 PROVE  \E d \in Requests :
                            Removed(d, s) /\ (pc[d] = "lost" \/ ~seen[d].path)
        BY DEF OrphanWasUnseen
    <2>1. PICK d \in Requests : Removing(d, s)
        BY <1>1 DEF Proto, TypeOK, BornOK, Born
    <2>2. pc[d] \notin {"cancel", "deleteObject"}
        BY DEF InFlight
    <2> QED
        BY <1>1, <2>1, <2>2 DEF Removing, Removed, GoneOK
<1> QED
    BY <1>1, RacesHold, PTL

\* When everything has returned, a job of a source that is gone was cancelled, or
\* missed by a delete that died or that had read the row before the job was shown.
THEOREM UncancelledWereUnseen ==
    ASSUME ErrorsAreTrue, CleanupWorks, CancelsArrive
    PROVE  Spec => []UncancelledWasUnseen
<1>1. Init => CancelOK
    BY InitRaces
<1>2. Proto /\ SeenOK /\ BornOK /\ CancelOK /\ [Next]_vars => CancelOK'
    <2> SUFFICES ASSUME Proto, SeenOK, BornOK, CancelOK, [Next]_vars PROVE CancelOK'
        OBVIOUS
    <2>1. CASE \E r \in Requests : Accept(r) \/ Step(r)
        BY <2>1, StepCancel
    <2> QED
        BY <2>1, QuietRaces DEF Next
<1>3. ASSUME Proto, SeenOK, BornOK, CancelOK PROVE UncancelledWasUnseen
    <2> SUFFICES ASSUME InFlight = {}, NEW e \in jobsChunking,
                        ~Exists(e.source), e.source \notin Cancelled
                 PROVE  \E d \in Requests :
                            /\ Removed(d, e.source)
                            /\ pc[d] = "lost" \/ seen[d].status # "pending"
        BY DEF UncancelledWasUnseen, Cancelled
    <2>1. e.source \in Requests /\ Born(e.source)
        BY <1>3 DEF Proto, TypeOK, JobEvent, Born, Wanted
    <2>2. PICK d \in Requests : Removing(d, e.source)
        BY <1>3, <2>1 DEF BornOK
    <2>3. pc[d] \notin {"cancel", "deleteObject"}
        BY DEF InFlight
    <2>4. resp[d].code = "OK" => seen[d].status # "pending"
        BY <1>3, <2>2 DEF CancelOK, SeenOK, Active, Removing
    <2> QED
        BY <2>2, <2>3, <2>4 DEF Removing, Removed
<1> QED
    BY <1>1, <1>2, <1>3, RacesHold, PTL DEF Spec

=============================================================================
