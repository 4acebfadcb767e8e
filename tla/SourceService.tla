--------------------------- MODULE SourceService ---------------------------
(***************************************************************************)
(* The sources microservice: the operations of SourceService that change   *)
(* state (UploadSource, DeleteSource, RetryJob), as the gRPC server runs   *)
(* them, each in a goroutine of its own, over four dependencies it shares  *)
(* with everybody else: the sources table, the object store, the Kafka     *)
(* topics jobs.chunking and jobs.cancel, and the projects service.         *)
(*                                                                         *)
(* One action is one call to a dependency together with the local code     *)
(* that follows it up to the next call.  Every interleaving of the calls   *)
(* of different requests is therefore explored.                            *)
(*                                                                         *)
(* Names.  A request inserts at most one row and mints at most one job id, *)
(* and neither a BIGSERIAL id nor a UUID is ever issued twice.  A source   *)
(* and a job are therefore named by the request that created them.         *)
(***************************************************************************)
EXTENDS Integers, Sequences, FiniteSets

CONSTANTS
    Requests,              \* the RPCs that clients issue
    Users,                 \* the JWT subjects
    Projects,              \* project ids
    NoUser,                \* owner of a project that is not there
    NoJob,                 \* the empty job_id
    Ops,                   \* the operations that the clients use
    MaxSourcesPerProject,  \* the constant of the same name
    Faults,                \* pairs <<dependency, fault>> that can happen
    MaxInFlight,           \* requests served at the same time
    MaxCrashes             \* bound on process crashes

AllOps == {"upload", "delete", "retry"}

\* The calls that may fail, by what they reach.  "cleanup" stands for those made
\* with context.Background(): the compensations of an upload and the file
\* removal of a delete, which a cancelled request does not interrupt.
Dependencies == {"projects", "db", "storage", "jobsChunking", "jobsCancel",
                 "cleanup"}

\* refused:   the call has no effect and returns an error;
\* lostReply: the call takes effect and returns an error all the same;
\* dropped:   the call returns success and has no effect.
FaultKinds == {"refused", "lostReply", "dropped"}

ASSUME NoJobAssumption == NoJob \notin Requests
ASSUME NoUserAssumption == NoUser \notin Users
ASSUME OpsAssumption == Ops \subseteq AllOps
ASSUME LimitAssumption == MaxSourcesPerProject \in Nat
\* Only Kafka drops: its writer asks for no acknowledgement.
ASSUME FaultsAssumption ==
    Faults \subseteq Dependencies \X {"refused", "lostReply"}
                  \cup {"jobsChunking", "jobsCancel"} \X {"dropped"}
ASSUME BoundsAssumption == MaxInFlight \in Nat \ {0} /\ MaxCrashes \in Nat

VARIABLES
    projects,      \* projects table: the owner of each project
    rows,          \* sources table
    objects,       \* sources whose file is in the object store
    jobsChunking,  \* events published on the topic jobs.chunking
    jobsCancel,    \* events published on the topic jobs.cancel
    req,           \* the call that each request makes
    pc,            \* the next call of each request
    seen,          \* the row that a delete or a retry has read
    resp,          \* the answer of each request
    crashes        \* process crashes so far

stores == <<rows, objects, jobsChunking, jobsCancel>>
vars == <<projects, rows, objects, jobsChunking, jobsCancel,
          req, pc, seen, resp, crashes>>

-----------------------------------------------------------------------------
(***************************************************************************)
(* Data.  The columns project_id, owner_id and type of a row are never     *)
(* updated: they are those of the upload that inserted it, found in req.   *)
(* Column minio_path is either empty or the object name of the source.     *)
(***************************************************************************)
Statuses == {"uploading", "uploaded", "pending", "processing", "ready",
             "failed"}

Row == [status : Statuses \cup {"absent"}, path : BOOLEAN,
        job : Requests \cup {NoJob}]

Absent == [status |-> "absent", path |-> FALSE, job |-> NoJob]

\* A call: target is the source it is about; file is FALSE for TypeURL.
Call == [op : AllOps, user : Users, project : Projects,
         target : Requests, file : BOOLEAN]

Codes == {"none", "OK", "PermissionDenied", "Unavailable", "LimitExceeded",
          "NotFound", "InvalidArgument", "Internal"}

Response == [code : Codes, job : Requests \cup {NoJob}]
NoResponse == [code |-> "none", job |-> NoJob]

JobEvent == [job : Requests, source : Requests, url : BOOLEAN,
             path : BOOLEAN]
CancelEvent == [job : Requests \cup {NoJob}, source : Requests]

Labels == {"idle", "limits", "save", "put", "setPath", "markUploaded",
           "publish", "markPending", "undoObject", "undoRow",
           "find", "deleteRow", "cancel", "deleteObject", "done", "lost"}

InFlight == {r \in Requests : pc[r] \notin {"idle", "done", "lost"}}

-----------------------------------------------------------------------------
(***************************************************************************)
(* What a call to a dependency can do.                                     *)
(***************************************************************************)
Outcome(d) == {"ok"} \cup {f \in FaultKinds : <<d, f>> \in Faults}
Applied(o) == o \in {"ok", "lostReply"}
Succeeds(o) == o \in {"ok", "dropped"}

(***************************************************************************)
(* The repository.                                                         *)
(***************************************************************************)
Exists(s) == rows[s].status # "absent"

SameScope(r, s) == /\ req[s].user = req[r].user
                   /\ req[s].project = req[r].project

\* Mutant: the lookup goes by id alone.
VisibleById(r, s) == Exists(s)

\* FindByProjectIDAndOwnerID finds the row.
Visible(r, s) == Exists(s) /\ SameScope(r, s)

\* CountByProjectIDAndOwnerID.
Count(r) == Cardinality({s \in Requests : Visible(r, s)})

\* Mutant: the status is not set.
FreshRowWithoutStatus == [status |-> "", path |-> FALSE, job |-> NoJob]

\* The row that Save inserts.
FreshRow == [status |-> "uploading", path |-> FALSE, job |-> NoJob]

\* Mutant: an upsert.
WithStatusUpsert(s, st, j) ==
    [rows EXCEPT ![s].status = st, ![s].job = j]

\* UpdateStatusBySourceID: no error when there is no such row.
WithStatus(s, st, j) ==
    IF Exists(s) THEN [rows EXCEPT ![s].status = st, ![s].job = j] ELSE rows

\* UpdateMinioPath.
WithPath(s) == IF Exists(s) THEN [rows EXCEPT ![s].path = TRUE] ELSE rows

\* DeleteByProjectIDAndOwnerID.
Without(s) == [rows EXCEPT ![s] = Absent]

-----------------------------------------------------------------------------
(***************************************************************************)
(* Control.                                                                *)
(***************************************************************************)
Goto(r, l) == pc' = [pc EXCEPT ![r] = l] /\ UNCHANGED resp

Reply(r, code, job) ==
    /\ pc' = [pc EXCEPT ![r] = "done"]
    /\ resp' = [resp EXCEPT ![r] = [code |-> code, job |-> job]]

\* Continue at label l, or fail the request with an error code.
GotoOrFail(r, ok, l, code) ==
    IF ok THEN Goto(r, l) ELSE Reply(r, code, NoJob)

\* The projects service finds a project with this id and owner.
HasAccess(r) == projects[req[r].project] = req[r].user

\* checkProjectAccess, the first call of every operation.
Accept(r) ==
    /\ pc[r] = "idle"
    /\ Cardinality(InFlight) < MaxInFlight
    /\ \E o \in Outcome("projects") :
         \/ o # "ok" /\ Reply(r, "Unavailable", NoJob)
         \/ o = "ok" /\ ~HasAccess(r) /\ Reply(r, "PermissionDenied", NoJob)
         \/ /\ o = "ok" /\ HasAccess(r)
            /\ Goto(r, IF req[r].op = "upload" THEN "limits" ELSE "find")
    /\ UNCHANGED <<projects, stores, req, seen, crashes>>

-----------------------------------------------------------------------------
(***************************************************************************)
(* UploadSource.                                                           *)
(***************************************************************************)
\* Mutant: off by one.
WithinLimitInclusive(r) == Count(r) <= MaxSourcesPerProject

WithinLimit(r) == Count(r) < MaxSourcesPerProject

\* checkLimits.
CheckLimits(r) ==
    /\ pc[r] = "limits"
    /\ \E o \in Outcome("db") :
         \/ o # "ok" /\ Reply(r, "Unavailable", NoJob)
         \/ /\ o = "ok"
            /\ GotoOrFail(r, WithinLimit(r), "save", "LimitExceeded")
    /\ UNCHANGED <<projects, stores, req, seen, crashes>>

\* A source of type URL has no file to upload.
Save(r) ==
    /\ pc[r] = "save"
    /\ \E o \in Outcome("db") :
         /\ rows' = IF Applied(o) THEN [rows EXCEPT ![r] = FreshRow] ELSE rows
         /\ GotoOrFail(r, Succeeds(o),
                       IF req[r].file THEN "put" ELSE "markUploaded",
                       "Unavailable")
    /\ UNCHANGED <<projects, objects, jobsChunking, jobsCancel,
                   req, seen, crashes>>

\* Mutant: no deferred function removes the object.
CompensateRowOnly(r) == "undoRow"

\* Where an upload goes when a call after Save fails: its deferred functions
\* run last registered first, the one that removes the object being registered
\* once the object is there.
Compensate(r) == IF pc[r] = "put" \/ ~req[r].file THEN "undoRow"
                                                  ELSE "undoObject"

\* Mutant: the error is only logged.
PutObjectIgnoringErrors(r) ==
    /\ pc[r] = "put"
    /\ \E o \in Outcome("storage") :
         objects' = IF Applied(o) THEN objects \cup {r} ELSE objects
    /\ Goto(r, "setPath")
    /\ UNCHANGED <<projects, rows, jobsChunking, jobsCancel,
                   req, seen, crashes>>

PutObject(r) ==
    /\ pc[r] = "put"
    /\ \E o \in Outcome("storage") :
         /\ objects' = IF Applied(o) THEN objects \cup {r} ELSE objects
         /\ Goto(r, IF Succeeds(o) THEN "setPath" ELSE Compensate(r))
    /\ UNCHANGED <<projects, rows, jobsChunking, jobsCancel,
                   req, seen, crashes>>

\* Mutant: the error is only logged.
SetPathIgnoringErrors(r) ==
    /\ pc[r] = "setPath"
    /\ \E o \in Outcome("db") : rows' = IF Applied(o) THEN WithPath(r) ELSE rows
    /\ Goto(r, "markUploaded")
    /\ UNCHANGED <<projects, objects, jobsChunking, jobsCancel,
                   req, seen, crashes>>

SetPath(r) ==
    /\ pc[r] = "setPath"
    /\ \E o \in Outcome("db") :
         /\ rows' = IF Applied(o) THEN WithPath(r) ELSE rows
         /\ Goto(r, IF Succeeds(o) THEN "markUploaded" ELSE Compensate(r))
    /\ UNCHANGED <<projects, objects, jobsChunking, jobsCancel,
                   req, seen, crashes>>

MarkUploaded(r) ==
    /\ pc[r] = "markUploaded"
    /\ \E o \in Outcome("db") :
         /\ rows' = IF Applied(o) THEN WithStatus(r, "uploaded", NoJob)
                                  ELSE rows
         /\ Goto(r, IF Succeeds(o) THEN "publish" ELSE Compensate(r))
    /\ UNCHANGED <<projects, objects, jobsChunking, jobsCancel,
                   req, seen, crashes>>

UndoObject(r) ==
    /\ pc[r] = "undoObject"
    /\ \E o \in Outcome("cleanup") :
         objects' = IF Applied(o) THEN objects \ {r} ELSE objects
    /\ Goto(r, "undoRow")
    /\ UNCHANGED <<projects, rows, jobsChunking, jobsCancel,
                   req, seen, crashes>>

\* Mutant: the deferred removal of the row is missing.
UndoRowForgotten(r) ==
    /\ pc[r] = "undoRow"
    /\ Reply(r, "Unavailable", NoJob)
    /\ UNCHANGED <<projects, stores, req, seen, crashes>>

UndoRow(r) ==
    /\ pc[r] = "undoRow"
    /\ \E o \in Outcome("cleanup") :
         rows' = IF Applied(o) THEN Without(r) ELSE rows
    /\ Reply(r, "Unavailable", NoJob)
    /\ UNCHANGED <<projects, objects, jobsChunking, jobsCancel,
                   req, seen, crashes>>

-----------------------------------------------------------------------------
(***************************************************************************)
(* publishCreateJob and the update that follows it, in UploadSource and in *)
(* RetryJob.  An upload whose event is refused succeeds without a job; the *)
(* same failure of a retry is an error.                                    *)
(***************************************************************************)
\* Mutant: the upload does not keep the object name in its own copy of the row.
CreateJobEventFromRead(r) ==
    LET s == req[r].target
    IN  [job |-> r, source |-> s, url |-> ~req[s].file, path |-> seen[r].path]

\* Mutant: a retry goes on under the job id that it has read.
CreateJobEventOldJob(r) ==
    LET s == req[r].target
    IN  [job |-> IF req[r].op = "upload" THEN r ELSE seen[r].job,
         source |-> s, url |-> ~req[s].file,
         path |-> IF req[r].op = "upload" THEN req[r].file ELSE seen[r].path]

\* The event: url tells a source of type URL, path whether minio_path is set,
\* as the upload itself knows it or as the retry read it.
CreateJobEvent(r) ==
    LET s == req[r].target
    IN  [job |-> r, source |-> s, url |-> ~req[s].file,
         path |-> IF req[r].op = "upload" THEN req[r].file ELSE seen[r].path]

Publish(r) ==
    /\ pc[r] = "publish"
    /\ \E o \in Outcome("jobsChunking") :
         /\ jobsChunking' = IF Applied(o)
                            THEN jobsChunking \cup {CreateJobEvent(r)}
                            ELSE jobsChunking
         /\ IF Succeeds(o) THEN Goto(r, "markPending")
            ELSE Reply(r, IF req[r].op = "upload" THEN "OK" ELSE "Unavailable",
                       NoJob)
    /\ UNCHANGED <<projects, rows, objects, jobsCancel, req, seen, crashes>>

\* A failure of the update is only logged.
MarkPending(r) ==
    /\ pc[r] = "markPending"
    /\ \E o \in Outcome("db") :
         rows' = IF Applied(o) THEN WithStatus(req[r].target, "pending", r)
                               ELSE rows
    /\ Reply(r, "OK", r)
    /\ UNCHANGED <<projects, objects, jobsChunking, jobsCancel,
                   req, seen, crashes>>

-----------------------------------------------------------------------------
(***************************************************************************)
(* RetryJob and DeleteSource: both start by reading the row, and go on     *)
(* with what they read.                                                    *)
(***************************************************************************)
\* Mutants: only failed sources; everything that is uploaded.
RetryableFailedOnly(row) == row.status = "failed"
RetryableAlways(row) == row.status # "uploading"

Retryable(row) == row.status \in {"uploaded", "failed"}

\* Mutant: a pending job is forgotten.
ActiveProcessingOnly(row) == row.job # NoJob /\ row.status = "processing"

Active(row) == row.job # NoJob /\ row.status \in {"pending", "processing"}

Find(r) ==
    LET s == req[r].target IN
    /\ pc[r] = "find"
    /\ \E o \in Outcome("db") :
         \/ o # "ok" /\ Reply(r, "Internal", NoJob) /\ UNCHANGED seen
         \/ /\ o = "ok" /\ ~Visible(r, s)
            /\ Reply(r, "NotFound", NoJob) /\ UNCHANGED seen
         \/ /\ o = "ok" /\ Visible(r, s)
            /\ seen' = [seen EXCEPT ![r] = rows[s]]
            /\ IF req[r].op = "delete" THEN Goto(r, "deleteRow")
               ELSE GotoOrFail(r, Retryable(rows[s]), "publish",
                               "InvalidArgument")
    /\ UNCHANGED <<projects, stores, req, crashes>>

\* Where a delete goes once the row is gone, from the row that it has read.
AfterDelete(r) == IF Active(seen[r]) THEN "cancel" ELSE "deleteObject"

\* Mutant: the error is only logged.
DeleteRowIgnoringErrors(r) ==
    LET s == req[r].target IN
    /\ pc[r] = "deleteRow"
    /\ \E o \in Outcome("db") :
         rows' = IF Applied(o) /\ Visible(r, s) THEN Without(s) ELSE rows
    /\ Goto(r, AfterDelete(r))
    /\ UNCHANGED <<projects, objects, jobsChunking, jobsCancel,
                   req, seen, crashes>>

\* One DELETE statement, with the scope in its WHERE clause.
DeleteRow(r) ==
    LET s == req[r].target IN
    /\ pc[r] = "deleteRow"
    /\ \E o \in Outcome("db") :
         /\ rows' = IF Applied(o) /\ Visible(r, s) THEN Without(s) ELSE rows
         /\ IF ~Succeeds(o) THEN Reply(r, "Internal", NoJob)
            ELSE GotoOrFail(r, Visible(r, s), AfterDelete(r), "NotFound")
    /\ UNCHANGED <<projects, objects, jobsChunking, jobsCancel,
                   req, seen, crashes>>

\* Mutant: returns once the job is cancelled.
CancelJobAndReturn(r) ==
    /\ pc[r] = "cancel"
    /\ jobsCancel' = jobsCancel \cup {[job |-> seen[r].job,
                                       source |-> req[r].target]}
    /\ Reply(r, "OK", NoJob)
    /\ UNCHANGED <<projects, rows, objects, jobsChunking, req, seen, crashes>>

\* Best effort: an error is only logged.
CancelJob(r) ==
    /\ pc[r] = "cancel"
    /\ \E o \in Outcome("jobsCancel") :
         jobsCancel' = IF Applied(o)
                       THEN jobsCancel \cup {[job |-> seen[r].job,
                                              source |-> req[r].target]}
                       ELSE jobsCancel
    /\ Goto(r, "deleteObject")
    /\ UNCHANGED <<projects, rows, objects, jobsChunking, req, seen, crashes>>

\* Best effort; nothing is called when the row that was read had no path.
DeleteObject(r) ==
    /\ pc[r] = "deleteObject"
    /\ \E o \in Outcome("cleanup") :
         objects' = IF Applied(o) /\ seen[r].path
                    THEN objects \ {req[r].target} ELSE objects
    /\ Reply(r, "OK", NoJob)
    /\ UNCHANGED <<projects, rows, jobsChunking, jobsCancel,
                   req, seen, crashes>>

-----------------------------------------------------------------------------
(***************************************************************************)
(* The process dies: every request in flight is lost where it stands, its  *)
(* deferred functions included.  The stores survive.                       *)
(***************************************************************************)
Crash ==
    /\ crashes < MaxCrashes
    /\ InFlight # {}
    /\ crashes' = crashes + 1
    /\ pc' = [r \in Requests |-> IF r \in InFlight THEN "lost" ELSE pc[r]]
    /\ UNCHANGED <<projects, stores, req, seen, resp>>

\* DeleteProject in the projects service: the sources are not told.
DeleteProject(p) ==
    /\ projects[p] # NoUser
    /\ projects' = [projects EXCEPT ![p] = NoUser]
    /\ UNCHANGED <<stores, req, pc, seen, resp, crashes>>

-----------------------------------------------------------------------------
\* The calls that clients make: an upload is about the source it creates, the
\* others about the source of any request, which may not exist.
WellFormed(r, c) ==
    /\ c.op \in Ops
    /\ c.op = "upload" => c.target = r
    /\ c.op # "upload" => ~c.file

Init ==
    /\ projects \in [Projects -> Users \cup {NoUser}]
    /\ rows = [s \in Requests |-> Absent]
    /\ objects = {}
    /\ jobsChunking = {}
    /\ jobsCancel = {}
    /\ req \in {q \in [Requests -> Call] :
                    \A r \in Requests : WellFormed(r, q[r])}
    /\ pc = [r \in Requests |-> "idle"]
    /\ seen = [r \in Requests |-> Absent]
    /\ resp = [r \in Requests |-> NoResponse]
    /\ crashes = 0

UploadStep(r) ==
    \/ CheckLimits(r) \/ Save(r) \/ PutObject(r) \/ SetPath(r)
    \/ MarkUploaded(r) \/ UndoObject(r) \/ UndoRow(r)

JobStep(r) == Publish(r) \/ MarkPending(r)

DeleteStep(r) == DeleteRow(r) \/ CancelJob(r) \/ DeleteObject(r)

\* The next call of a request in flight.
Step(r) == UploadStep(r) \/ JobStep(r) \/ Find(r) \/ DeleteStep(r)

Next ==
    \/ \E r \in Requests : Accept(r) \/ Step(r)
    \/ \E p \in Projects : DeleteProject(p)
    \/ Crash

Spec == Init /\ [][Next]_vars

\* Every call returns, and the scheduler runs the goroutine that made it.
FairSpec == Spec /\ \A r \in Requests : WF_vars(Step(r))

-----------------------------------------------------------------------------
(***************************************************************************)
(* Properties.                                                             *)
(***************************************************************************)
Uploads == {r \in Requests : req[r].op = "upload"}

\* Every variable keeps its type.
TypeOK ==
    /\ projects \in [Projects -> Users \cup {NoUser}]
    /\ rows \in [Requests -> Row]
    /\ objects \subseteq Requests
    /\ jobsChunking \subseteq JobEvent
    /\ jobsCancel \subseteq CancelEvent
    /\ req \in [Requests -> Call]
    /\ pc \in [Requests -> Labels]
    /\ seen \in [Requests -> Row]
    /\ resp \in [Requests -> Response]
    /\ crashes \in 0 .. MaxCrashes

\* Abstraction: a source is unborn until its upload has tried to insert it.
Life(s) ==
    IF Exists(s) THEN rows[s].status
    ELSE IF pc[s] \in {"idle", "limits", "save"} THEN "unborn" ELSE "gone"

Lifecycle ==
    INSTANCE SourceLifecycle
    WITH Sources <- Requests, Jobs <- Requests,
         life <- [s \in Requests |-> Life(s)],
         job <- [s \in Requests |-> rows[s].job],
         submitted <- {[job |-> e.job, source |-> e.source] :
                       e \in jobsChunking}

\* Whatever uploads, deletes and retries of one source do at the same time and
\* whichever of their calls fail, and even if the process dies between two of
\* them, each source only goes forward through the life cycle: a job is never
\* published for a source that is still uploading, "pending" is never shown
\* without a published job, and no late update brings a deleted row back.
ImplementsLifecycle == Lifecycle!Spec

\* A cancellation is only ever published for a source whose row is gone for
\* good (DeleteSource deletes the row before it publishes).
CancelMeansGone == \A e \in jobsCancel : Life(e.source) = "gone"

\* A row that is past "uploading" has its file: minio_path is set and the object
\* is there, whichever compensations and deletes are under way.  This is what
\* makes a presigned URL, a retry and a chunking job of the source work.
UploadedHasFile ==
    \A s \in Requests :
        /\ Exists(s)
        /\ rows[s].status # "uploading"
        /\ req[s].file
        => rows[s].path /\ s \in objects

\* An event on jobs.chunking tells the consumer where the content is: a file
\* event carries a path, and as long as the row is there so is the object.
JobHasContent ==
    \A e \in jobsChunking :
        \/ e.url
        \/ e.path /\ (Exists(e.source) => e.source \in objects)

\* An upload that answered OK without a job left a source that a later RetryJob
\* can start, unless it was deleted or another retry has started it since.
UnpublishedIsRetryable ==
    \A r \in Uploads :
        /\ resp[r] = [code |-> "OK", job |-> NoJob]
        /\ Exists(r)
        => \/ Retryable(rows[r])
           \/ rows[r].job \in {e.job : e \in jobsChunking}

\* An upload that answered with an error leaves nothing behind: no row that
\* counts against the limit, no object and no job.
FailedUploadLeavesNothing ==
    \A r \in Uploads :
        pc[r] = "done" /\ resp[r].code # "OK" =>
            /\ ~Exists(r)
            /\ r \notin objects
            /\ \A e \in jobsChunking : e.source # r

\* A row is inserted, updated or deleted only by a request of the user and the
\* project that it belongs to, although the updates go by row id alone.
OnlyOwnerWrites ==
    [][\A s \in Requests :
         rows'[s] # rows[s] =>
             \E r \in Requests : pc'[r] # pc[r] /\ SameScope(r, s)]_vars

\* No row stays in "uploading": its upload either completes it or removes it,
\* unless the process dies under it.
UploadingIsTransient ==
    \A s \in Requests :
        rows[s].status = "uploading" ~>
            rows[s].status # "uploading" \/ pc[s] = "lost"

\* "max sources per project": requests that count the rows of one project at the
\* same time overrun the limit by one each, the first excepted, and by no more,
\* whatever fails, is compensated or crashes; one request at a time keeps it.
LimitRespected ==
    \A r \in Requests : Count(r) <= MaxSourcesPerProject + (MaxInFlight - 1)

LostOf(s) == {r \in Requests : pc[r] = "lost" /\ req[r].target = s}

\* "Retry job if not started": requests that read a source at the same time may
\* each start a job of it, and so may one that died before it had shown its job;
\* as soon as a job is shown, no request starts another.
JobsAreBounded ==
    \A s \in Requests :
        Cardinality({e \in jobsChunking : e.source = s})
            <= MaxInFlight + Cardinality(LostOf(s))

\* The delete d has removed the row of s, or has died with what it had read of it.
Removed(d, s) ==
    /\ req[d].op = "delete" /\ req[d].target = s
    /\ resp[d].code = "OK" \/ (pc[d] = "lost" /\ seen[d] # Absent)

\* "cancel job if still active": when everything has returned, the job of a
\* deleted source has been cancelled, unless the delete died or had read the row
\* before it showed the job.
UncancelledWasUnseen ==
    InFlight = {} =>
        \A e \in jobsChunking :
            \/ Exists(e.source)
            \/ e.source \in {c.source : c \in jobsCancel}
            \/ \E d \in Requests :
                   /\ Removed(d, e.source)
                   /\ pc[d] = "lost" \/ seen[d].status # "pending"

\* "delete file from storage": when everything has returned, the object store
\* holds no file of a source that is gone, unless the delete died or had read the
\* row before it had the path of the file.
OrphanWasUnseen ==
    InFlight = {} =>
        \A s \in objects :
            \/ Exists(s)
            \/ \E d \in Requests :
                   /\ Removed(d, s)
                   /\ pc[d] = "lost" \/ ~seen[d].path
=============================================================================
