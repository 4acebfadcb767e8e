----------------------- MODULE SourceService_proofs -----------------------
(***************************************************************************)
(* Theorems about SourceService, for any number of requests, users and     *)
(* projects, any bound and any faults but those a theorem excludes.        *)
(***************************************************************************)
EXTENDS SourceService, FiniteSetTheorems, TLAPS

-----------------------------------------------------------------------------
(***************************************************************************)
(* Types.                                                                  *)
(***************************************************************************)
LEMMA InitType == Init => TypeOK
<1> SUFFICES ASSUME Init PROVE TypeOK
    OBVIOUS
<1> USE DEF Init
<1>1. Absent \in Row /\ NoResponse \in Response
    BY DEF Absent, Row, Statuses, NoResponse, Response, Codes
<1>2. projects \in [Projects -> Users \cup {NoUser}]
    OBVIOUS
<1>3. rows \in [Requests -> Row] /\ seen \in [Requests -> Row]
    BY <1>1
<1>4. req \in [Requests -> Call]
    OBVIOUS
<1>5. pc \in [Requests -> Labels] /\ resp \in [Requests -> Response]
    BY <1>1 DEF Labels
<1>6. crashes \in 0 .. MaxCrashes
    BY BoundsAssumption
<1> QED
    BY <1>2, <1>3, <1>4, <1>5, <1>6 DEF TypeOK

\* Goto and Reply keep pc and resp in their types.
LEMMA GotoType ==
    ASSUME pc \in [Requests -> Labels], resp \in [Requests -> Response],
           NEW r, NEW l \in Labels, Goto(r, l)
    PROVE  pc' \in [Requests -> Labels] /\ resp' \in [Requests -> Response]
BY DEF Goto

LEMMA ReplyType ==
    ASSUME pc \in [Requests -> Labels], resp \in [Requests -> Response],
           NEW r, NEW c \in Codes, NEW j \in Requests \cup {NoJob},
           Reply(r, c, j)
    PROVE  pc' \in [Requests -> Labels] /\ resp' \in [Requests -> Response]
BY DEF Reply, Response, Labels

LEMMA GotoOrFailType ==
    ASSUME pc \in [Requests -> Labels], resp \in [Requests -> Response],
           NEW r, NEW ok, NEW l \in Labels, NEW c \in Codes,
           GotoOrFail(r, ok, l, c)
    PROVE  pc' \in [Requests -> Labels] /\ resp' \in [Requests -> Response]
BY GotoType, ReplyType DEF GotoOrFail

\* What the repository writes are rows.
LEMMA RowTypes ==
    ASSUME rows \in [Requests -> Row], NEW s \in Requests
    PROVE  /\ Absent \in Row
           /\ FreshRow \in Row
           /\ [rows EXCEPT ![s] = FreshRow] \in [Requests -> Row]
           /\ WithPath(s) \in [Requests -> Row]
           /\ Without(s) \in [Requests -> Row]
           /\ \A st \in Statuses, j \in Requests \cup {NoJob} :
                 WithStatus(s, st, j) \in [Requests -> Row]
BY DEF Row, Absent, FreshRow, WithPath, Without, WithStatus, Statuses

LEMMA AcceptType ==
    ASSUME TypeOK, NEW r \in Requests, Accept(r) PROVE TypeOK'
<1>1. /\ pc' \in [Requests -> Labels]
      /\ resp' \in [Requests -> Response]
    BY GotoType, ReplyType DEF Accept, TypeOK, Labels, Codes
<1> QED
    BY <1>1 DEF Accept, TypeOK, stores

LEMMA UploadType ==
    ASSUME TypeOK, NEW r \in Requests, UploadStep(r) PROVE TypeOK'
<1> USE DEF TypeOK
<1>1. CASE CheckLimits(r)
    <2>1. pc' \in [Requests -> Labels] /\ resp' \in [Requests -> Response]
        BY <1>1, GotoOrFailType, ReplyType DEF CheckLimits, Labels, Codes
    <2> QED BY <1>1, <2>1 DEF CheckLimits, stores
<1>2. CASE Save(r)
    <2>1. pc' \in [Requests -> Labels] /\ resp' \in [Requests -> Response]
        BY <1>2, GotoOrFailType DEF Save, Labels, Codes
    <2>2. rows' \in [Requests -> Row]
        BY <1>2, RowTypes DEF Save
    <2> QED BY <1>2, <2>1, <2>2 DEF Save
<1>3. CASE PutObject(r)
    <2>1. pc' \in [Requests -> Labels] /\ resp' \in [Requests -> Response]
        BY <1>3, GotoType DEF PutObject, Compensate, Labels
    <2>2. objects' \subseteq Requests
        BY <1>3 DEF PutObject
    <2> QED BY <1>3, <2>1, <2>2 DEF PutObject
<1>4. CASE SetPath(r)
    <2>1. pc' \in [Requests -> Labels] /\ resp' \in [Requests -> Response]
        BY <1>4, GotoType DEF SetPath, Compensate, Labels
    <2>2. rows' \in [Requests -> Row]
        BY <1>4, RowTypes DEF SetPath
    <2> QED BY <1>4, <2>1, <2>2 DEF SetPath
<1>5. CASE MarkUploaded(r)
    <2>1. pc' \in [Requests -> Labels] /\ resp' \in [Requests -> Response]
        BY <1>5, GotoType DEF MarkUploaded, Compensate, Labels
    <2>2. rows' \in [Requests -> Row]
        BY <1>5, RowTypes DEF MarkUploaded, Statuses
    <2> QED BY <1>5, <2>1, <2>2 DEF MarkUploaded
<1>6. CASE UndoObject(r)
    <2>1. pc' \in [Requests -> Labels] /\ resp' \in [Requests -> Response]
        BY <1>6, GotoType DEF UndoObject, Labels
    <2>2. objects' \subseteq Requests
        BY <1>6 DEF UndoObject
    <2> QED BY <1>6, <2>1, <2>2 DEF UndoObject
<1>7. CASE UndoRow(r)
    <2>1. pc' \in [Requests -> Labels] /\ resp' \in [Requests -> Response]
        BY <1>7, ReplyType DEF UndoRow, Codes
    <2>2. rows' \in [Requests -> Row]
        BY <1>7, RowTypes DEF UndoRow
    <2> QED BY <1>7, <2>1, <2>2 DEF UndoRow
<1> QED
    BY <1>1, <1>2, <1>3, <1>4, <1>5, <1>6, <1>7 DEF UploadStep

LEMMA JobType ==
    ASSUME TypeOK, NEW r \in Requests, JobStep(r) PROVE TypeOK'
<1> USE DEF TypeOK
<1>1. CASE Publish(r)
    <2>1. pc' \in [Requests -> Labels] /\ resp' \in [Requests -> Response]
        BY <1>1, GotoType, ReplyType DEF Publish, Labels, Codes
    <2>2. CreateJobEvent(r) \in JobEvent
        BY DEF CreateJobEvent, JobEvent, Call, Row
    <2>3. jobsChunking' \subseteq JobEvent
        BY <1>1, <2>2 DEF Publish
    <2> QED BY <1>1, <2>1, <2>3 DEF Publish
<1>2. CASE MarkPending(r)
    <2>1. pc' \in [Requests -> Labels] /\ resp' \in [Requests -> Response]
        BY <1>2, ReplyType DEF MarkPending, Codes
    <2>2. req[r].target \in Requests
        BY DEF Call
    <2>3. rows' \in [Requests -> Row]
        BY <1>2, <2>2, RowTypes DEF MarkPending, Statuses
    <2> QED BY <1>2, <2>1, <2>3 DEF MarkPending
<1> QED
    BY <1>1, <1>2 DEF JobStep

LEMMA FindType ==
    ASSUME TypeOK, NEW r \in Requests, Find(r) PROVE TypeOK'
<1> USE DEF TypeOK
<1>1. req[r].target \in Requests
    BY DEF Call
<1>2. pc' \in [Requests -> Labels] /\ resp' \in [Requests -> Response]
    BY GotoType, GotoOrFailType, ReplyType DEF Find, Labels, Codes
<1>3. seen' \in [Requests -> Row]
    BY <1>1 DEF Find
<1> QED
    BY <1>2, <1>3 DEF Find, stores

LEMMA DeleteType ==
    ASSUME TypeOK, NEW r \in Requests, DeleteStep(r) PROVE TypeOK'
<1> USE DEF TypeOK
<1>0. req[r].target \in Requests
    BY DEF Call
<1>1. CASE DeleteRow(r)
    <2>1. pc' \in [Requests -> Labels] /\ resp' \in [Requests -> Response]
        BY <1>1, GotoOrFailType, ReplyType
        DEF DeleteRow, AfterDelete, Labels, Codes
    <2>2. rows' \in [Requests -> Row]
        BY <1>0, <1>1, RowTypes DEF DeleteRow
    <2> QED BY <1>1, <2>1, <2>2 DEF DeleteRow
<1>2. CASE CancelJob(r)
    <2>1. pc' \in [Requests -> Labels] /\ resp' \in [Requests -> Response]
        BY <1>2, GotoType DEF CancelJob, Labels
    <2>2. [job |-> seen[r].job, source |-> req[r].target] \in CancelEvent
        BY <1>0 DEF CancelEvent, Row
    <2>3. jobsCancel' \subseteq CancelEvent
        BY <1>2, <2>2 DEF CancelJob
    <2> QED BY <1>2, <2>1, <2>3 DEF CancelJob
<1>3. CASE DeleteObject(r)
    <2>1. pc' \in [Requests -> Labels] /\ resp' \in [Requests -> Response]
        BY <1>3, ReplyType DEF DeleteObject, Codes
    <2>2. objects' \subseteq Requests
        BY <1>3 DEF DeleteObject
    <2> QED BY <1>3, <2>1, <2>2 DEF DeleteObject
<1> QED
    BY <1>1, <1>2, <1>3 DEF DeleteStep

LEMMA CrashType ==
    ASSUME TypeOK, Crash PROVE TypeOK'
<1>1. pc' \in [Requests -> Labels]
    BY DEF Crash, TypeOK, Labels
<1>2. crashes' \in 0 .. MaxCrashes
    BY BoundsAssumption DEF Crash, TypeOK
<1> QED
    BY <1>1, <1>2 DEF Crash, TypeOK, stores

LEMMA DeleteProjectType ==
    ASSUME TypeOK, NEW p \in Projects, DeleteProject(p) PROVE TypeOK'
BY DEF TypeOK, DeleteProject, stores

LEMMA NextType == TypeOK /\ [Next]_vars => TypeOK'
<1> SUFFICES ASSUME TypeOK, [Next]_vars PROVE TypeOK'
    OBVIOUS
<1>1. ASSUME NEW r \in Requests, Accept(r) PROVE TypeOK'
    BY <1>1, AcceptType
<1>2. ASSUME NEW r \in Requests, Step(r) PROVE TypeOK'
    BY <1>2, UploadType, JobType, FindType, DeleteType DEF Step
<1>3. ASSUME NEW p \in Projects, DeleteProject(p) PROVE TypeOK'
    BY <1>3, DeleteProjectType
<1>4. CASE Crash
    BY <1>4, CrashType
<1>5. CASE UNCHANGED vars
    BY <1>5 DEF vars, TypeOK
<1> QED
    BY <1>1, <1>2, <1>3, <1>4, <1>5 DEF Next

\* Every variable keeps its type, whatever requests run, fail and crash.
THEOREM TypeCorrect == Spec => []TypeOK
BY InitType, NextType, PTL DEF Spec

-----------------------------------------------------------------------------
(***************************************************************************)
(* The life of a source.  Proto says, for each label, what a request that  *)
(* stands there knows of its source, whatever the others have done since   *)
(* it found out.                                                           *)
(***************************************************************************)
Before == {"idle", "limits", "save"}
UploadLabels == {"limits", "save", "put", "setPath", "markUploaded",
                 "undoObject", "undoRow"}
ReadLabels == {"find", "deleteRow", "cancel", "deleteObject"}
Complete == {"uploaded", "pending", "gone"}

\* The rows that there can be.  Nothing writes the other statuses.
RowsOK ==
    \A s \in Requests :
        /\ rows[s].status \in {"absent", "uploading", "uploaded", "pending"}
        /\ rows[s].status # "pending" => rows[s].job = NoJob
        /\ Exists(s) => req[s].op = "upload" /\ pc[s] \notin Before

\* Requests are at labels of their own operation.
ControlOK ==
    \A r \in Requests :
        /\ WellFormed(r, req[r])
        /\ pc[r] \in UploadLabels => req[r].op = "upload"
        /\ pc[r] \in ReadLabels => req[r].op # "upload"
        /\ pc[r] \in {"put", "setPath", "markUploaded"} =>
               rows[r].status \in {"absent", "uploading"}
        /\ pc[r] \in {"publish", "markPending"} =>
               Life(req[r].target) \in Complete
        /\ pc[r] \in {"cancel", "deleteObject"} => Life(req[r].target) = "gone"

\* A job is published by the request that minted it, once.
TopicsOK ==
    /\ \A e \in jobsChunking : pc[e.job] \in {"markPending", "done", "lost"}
    /\ CancelMeansGone

Proto == TypeOK /\ RowsOK /\ ControlOK /\ TopicsOK

Forward(a, b) ==
    \/ a = b
    \/ a = "unborn" /\ b \in {"uploading", "gone"}
    \/ a = "uploading" /\ b \in {"uploaded", "gone"}
    \/ a = "uploaded" /\ b \in {"pending", "gone"}
    \/ a = "pending" /\ b = "gone"

LEMMA InitProto == Init => Proto
<1> SUFFICES ASSUME Init PROVE Proto
    OBVIOUS
<1>1. TypeOK
    BY InitType
<1>2. RowsOK
    BY DEF Init, RowsOK, Exists, Absent
<1>3. ControlOK
    BY DEF Init, ControlOK, UploadLabels, ReadLabels
<1>4. TopicsOK
    BY DEF Init, TopicsOK, CancelMeansGone
<1> QED
    BY <1>1, <1>2, <1>3, <1>4 DEF Proto

\* The label of r moves, and no other does.
LEMMA PcMoves ==
    ASSUME TypeOK, NEW r \in Requests, Accept(r) \/ Step(r)
    PROVE  /\ pc' = [pc EXCEPT ![r] = pc'[r]]
           /\ req' = req
           /\ pc[r] \notin {"done", "lost"}
           /\ pc[r] # pc'[r]
           /\ pc'[r] \in Before => pc[r] \in Before \ {"save"}
<1> USE DEF TypeOK, Goto, Reply, GotoOrFail, Before
<1>1. CASE Accept(r) BY <1>1 DEF Accept
<1>2. CASE UploadStep(r)
    BY <1>2 DEF UploadStep, CheckLimits, Save, PutObject, SetPath,
                MarkUploaded, UndoObject, UndoRow, Compensate
<1>3. CASE JobStep(r) BY <1>3 DEF JobStep, Publish, MarkPending
<1>4. CASE Find(r) BY <1>4 DEF Find
<1>5. CASE DeleteStep(r)
    BY <1>5 DEF DeleteStep, DeleteRow, CancelJob, DeleteObject, AfterDelete
<1> QED
    BY <1>1, <1>2, <1>3, <1>4, <1>5 DEF Step

\* What a step of r does to the rows, by where r stands.
LEMMA RowMoves ==
    ASSUME TypeOK, NEW r \in Requests, Accept(r) \/ Step(r)
    PROVE  \/ rows' = rows
           \/ /\ pc[r] = "save"
              /\ rows' = [rows EXCEPT ![r] = FreshRow]
           \/ pc[r] = "setPath" /\ rows' = WithPath(r)
           \/ /\ pc[r] = "markUploaded"
              /\ rows' = WithStatus(r, "uploaded", NoJob)
           \/ pc[r] = "undoRow" /\ rows' = Without(r)
           \/ /\ pc[r] = "markPending"
              /\ rows' = WithStatus(req[r].target, "pending", r)
           \/ /\ pc[r] = "deleteRow"
              /\ Exists(req[r].target)
              /\ rows' = Without(req[r].target)
<1>1. CASE Accept(r) BY <1>1 DEF Accept, stores
<1>2. CASE UploadStep(r)
    BY <1>2 DEF UploadStep, CheckLimits, Save, PutObject, SetPath,
                MarkUploaded, UndoObject, UndoRow, stores
<1>3. CASE JobStep(r) BY <1>3 DEF JobStep, Publish, MarkPending
<1>4. CASE Find(r) BY <1>4 DEF Find, stores
<1>5. CASE DeleteStep(r)
    BY <1>5 DEF DeleteStep, DeleteRow, CancelJob, DeleteObject, Visible
<1> QED
    BY <1>1, <1>2, <1>3, <1>4, <1>5 DEF Step

\* No source ever goes back.
LEMMA LifeForward ==
    ASSUME Proto, Next
    PROVE  \A s \in Requests : Forward(Life(s), Life(s)')
<1> USE DEF Proto
<1>1. ASSUME NEW r \in Requests, Accept(r) \/ Step(r),
             NEW s \in Requests
      PROVE  Forward(Life(s), Life(s)')
    <2>1. /\ pc' = [pc EXCEPT ![r] = pc'[r]]
          /\ pc'[r] \in Before => pc[r] \in Before \ {"save"}
          /\ req[r].target \in Requests
          /\ pc \in [Requests -> Labels]
          /\ rows \in [Requests -> Row]
        BY <1>1, PcMoves DEF TypeOK, Call
    <2>2. CASE rows' = rows
        BY <2>1, <2>2 DEF Life, Forward, Exists, Before
    <2>3. CASE pc[r] = "save" /\ rows' = [rows EXCEPT ![r] = FreshRow]
        BY <2>1, <2>3 DEF Life, Forward, Exists, FreshRow, RowsOK, Before
    <2>4. CASE pc[r] = "setPath" /\ rows' = WithPath(r)
        BY <2>1, <2>4 DEF Life, Forward, Exists, WithPath, Row, Before
    <2>5. CASE /\ pc[r] = "markUploaded"
               /\ rows' = WithStatus(r, "uploaded", NoJob)
        BY <2>1, <2>5 DEF Life, Forward, Exists, WithStatus, ControlOK, Row, Before
    <2>6. CASE pc[r] = "undoRow" /\ rows' = Without(r)
        BY <2>1, <2>6 DEF Life, Forward, Exists, Without, RowsOK, Absent, Before
    <2>7. CASE /\ pc[r] = "markPending"
               /\ rows' = WithStatus(req[r].target, "pending", r)
        <3>1. Life(req[r].target) \in Complete
            BY <2>7 DEF ControlOK
        <3>2. CASE ~Exists(req[r].target)
            BY <2>1, <2>7, <3>2 DEF Life, Forward, Exists, WithStatus, Before
        <3>3. CASE Exists(req[r].target)
            <4>1. /\ rows'[s] = IF s = req[r].target
                               THEN [rows[s] EXCEPT !.status = "pending",
                                                    !.job = r]
                               ELSE rows[s]
                  /\ rows[s] \in Row
                BY <2>1, <2>7, <3>3 DEF WithStatus
            <4>2. rows'[s].status = IF s = req[r].target THEN "pending"
                                                         ELSE rows[s].status
                BY <4>1 DEF Row
            <4> QED
                BY <2>1, <2>7, <3>1, <3>3, <4>2
                DEF Life, Forward, Exists, Complete, Before, RowsOK
        <3> QED
            BY <3>2, <3>3
    <2>8. CASE /\ pc[r] = "deleteRow"
               /\ Exists(req[r].target)
               /\ rows' = Without(req[r].target)
        BY <2>1, <2>8 DEF Life, Forward, Exists, Without, RowsOK, Absent, Before
    <2> QED
        BY <1>1, RowMoves, <2>2, <2>3, <2>4, <2>5, <2>6, <2>7, <2>8
<1>2. ASSUME NEW p \in Projects, DeleteProject(p), NEW s \in Requests
      PROVE  Forward(Life(s), Life(s)')
    BY <1>2 DEF DeleteProject, stores, Life, Forward, Exists
<1>3. ASSUME Crash, NEW s \in Requests
      PROVE  Forward(Life(s), Life(s)')
    BY <1>3 DEF Crash, stores, Life, Forward, Exists, InFlight
<1> QED
    BY <1>1, <1>2, <1>3 DEF Next

\* Only the topics lose what they accept.
LEMMA NoDrops ==
    ASSUME NEW d \in {"projects", "db", "storage", "cleanup"},
           NEW o \in Outcome(d)
    PROVE  Succeeds(o) => o = "ok" /\ Applied(o)
BY FaultsAssumption DEF Outcome, Succeeds, Applied, FaultKinds

\* Where a request that moves to a label comes from.
LEMMA PcEdges ==
    ASSUME Proto, NEW r \in Requests, Accept(r) \/ Step(r)
    PROVE  /\ pc'[r] \in UploadLabels => req[r].op = "upload"
           /\ pc'[r] \in ReadLabels => req[r].op # "upload"
           /\ pc'[r] \in {"put", "setPath", "markUploaded"} =>
                 pc[r] \in {"save", "put", "setPath"}
           /\ pc'[r] = "publish" => pc[r] \in {"markUploaded", "find"}
           /\ pc'[r] = "markPending" => pc[r] = "publish"
           /\ pc'[r] = "cancel" => pc[r] = "deleteRow"
           /\ pc'[r] = "deleteObject" => pc[r] \in {"deleteRow", "cancel"}
           /\ pc[r] = "markPending" => pc'[r] = "done"
<1> USE DEF Proto, TypeOK, ControlOK, Goto, Reply, GotoOrFail,
            UploadLabels, ReadLabels
<1>1. CASE Accept(r) BY <1>1 DEF Accept
<1>2. CASE UploadStep(r)
    BY <1>2 DEF UploadStep, CheckLimits, Save, PutObject, SetPath,
                MarkUploaded, UndoObject, UndoRow, Compensate
<1>3. CASE JobStep(r) BY <1>3 DEF JobStep, Publish, MarkPending
<1>4. CASE Find(r) BY <1>4 DEF Find
<1>5. CASE DeleteStep(r)
    BY <1>5 DEF DeleteStep, DeleteRow, CancelJob, DeleteObject, AfterDelete
<1> QED
    BY <1>1, <1>2, <1>3, <1>4, <1>5 DEF Step

\* What a step has learnt, or made true, when it reaches a label.
LEMMA Learnt ==
    ASSUME Proto, NEW r \in Requests, Accept(r) \/ Step(r)
    PROVE  /\ pc[r] = "markUploaded" /\ pc'[r] = "publish" =>
                 rows' = WithStatus(r, "uploaded", NoJob)
           /\ pc[r] = "find" /\ pc'[r] = "publish" =>
                 Life(req[r].target) = "uploaded" /\ rows' = rows
           /\ pc[r] = "deleteRow" /\ pc'[r] \in {"cancel", "deleteObject"} =>
                 /\ Exists(req[r].target)
                 /\ rows' = Without(req[r].target)
<1> USE DEF Proto, TypeOK, Goto, Reply, GotoOrFail
<1>1. CASE Accept(r) BY <1>1 DEF Accept
<1>2. CASE UploadStep(r)
    <2>1. CASE MarkUploaded(r)
        <3> PICK o \in Outcome("db") :
                /\ rows' = IF Applied(o) THEN WithStatus(r, "uploaded", NoJob)
                                         ELSE rows
                /\ Goto(r, IF Succeeds(o) THEN "publish" ELSE Compensate(r))
            BY <2>1 DEF MarkUploaded
        <3>1. pc'[r] = "publish" => Succeeds(o)
            BY <2>1 DEF MarkUploaded, Compensate
        <3> QED
            BY <2>1, <3>1, NoDrops DEF MarkUploaded
    <2> QED
        BY <1>2, <2>1 DEF UploadStep, CheckLimits, Save, PutObject, SetPath,
                          UndoObject, UndoRow
<1>3. CASE JobStep(r) BY <1>3 DEF JobStep, Publish, MarkPending
<1>4. CASE Find(r)
    <2>1. req[r].target \in Requests
        BY DEF Call
    <2> QED
        BY <1>4, <2>1 DEF Find, Visible, Retryable, Life, RowsOK, stores
<1>5. CASE DeleteStep(r)
    <2>1. CASE DeleteRow(r)
        <3> DEFINE s == req[r].target
        <3> PICK o \in Outcome("db") :
                /\ rows' = IF Applied(o) /\ Visible(r, s) THEN Without(s)
                                                          ELSE rows
                /\ IF ~Succeeds(o) THEN Reply(r, "Internal", NoJob)
                   ELSE GotoOrFail(r, Visible(r, s), AfterDelete(r), "NotFound")
            BY <2>1 DEF DeleteRow
        <3>1. pc'[r] # "done" => Succeeds(o) /\ Visible(r, s)
            OBVIOUS
        <3> QED
            BY <2>1, <3>1, NoDrops DEF DeleteRow, Visible
    <2> QED
        BY <1>5, <2>1 DEF DeleteStep, CancelJob, DeleteObject
<1> QED
    BY <1>1, <1>2, <1>3, <1>4, <1>5 DEF Step

\* Only the upload itself ends the uploading of a source, but for its removal.
LEMMA StaysUploading ==
    ASSUME Proto, NEW r \in Requests, Accept(r) \/ Step(r),
           NEW q \in Requests, rows[q].status \in {"absent", "uploading"},
           ~(q = r /\ pc[r] = "markUploaded")
    PROVE  rows'[q].status \in {"absent", "uploading"}
<1>1. /\ rows \in [Requests -> Row]
      /\ req[r].target \in Requests
    BY DEF Proto, TypeOK, Call
<1>2. /\ [rows EXCEPT ![r] = FreshRow][q].status = IF q = r THEN "uploading"
                                                    ELSE rows[q].status
      /\ WithPath(r)[q].status = rows[q].status
      /\ q # r => WithStatus(r, "uploaded", NoJob)[q].status = rows[q].status
      /\ \A s \in Requests : Without(s)[q].status \in {"absent", rows[q].status}
    BY <1>1 DEF FreshRow, WithPath, WithStatus, Without, Absent, Row
<1>3. pc[r] = "markPending" =>
          WithStatus(req[r].target, "pending", r)[q].status = rows[q].status
    <2>1. pc[r] = "markPending" /\ Exists(req[r].target) => q # req[r].target
        BY DEF Proto, ControlOK, Life, Exists, Complete
    <2> QED
        BY <1>1, <2>1 DEF WithStatus, Row
<1> QED
    BY <1>1, <1>2, <1>3, RowMoves DEF Proto

\* Steps that leave the rows and the labels alone, and crashes.
LEMMA ProtoQuiet ==
    ASSUME Proto, TypeOK',
           Crash \/ (\E p \in Projects : DeleteProject(p)) \/ UNCHANGED vars
    PROVE  RowsOK' /\ ControlOK' /\ TopicsOK'
<1>1. /\ rows' = rows /\ req' = req
      /\ jobsChunking' = jobsChunking /\ jobsCancel' = jobsCancel
    BY DEF Crash, DeleteProject, vars, stores
<1>2. CASE pc' = pc
    BY <1>1, <1>2 DEF Proto, RowsOK, ControlOK, TopicsOK, CancelMeansGone,
                      Exists, Life, WellFormed
<1>3. CASE Crash
    <2>1. \A r \in Requests :
              \/ pc'[r] = pc[r]
              \/ pc'[r] = "lost" /\ pc[r] # "idle"
        BY <1>3 DEF Crash, InFlight
    <2>2. \A r \in Requests : Exists(r)' <=> Exists(r)
        BY <1>1 DEF Exists
    <2>3. \A s \in Requests : Life(s)' = Life(s) \/ Life(s)' = "gone"
        BY <1>1, <2>1 DEF Life, Exists
    <2>4. RowsOK'
        BY <1>1, <2>1, <2>2 DEF Proto, RowsOK, Before
    <2>5. \A r \in Requests : req[r].target \in Requests
        BY DEF Proto, TypeOK, Call
    <2>6. ControlOK'
        BY <1>1, <2>1, <2>3, <2>5
        DEF Proto, ControlOK, Complete, UploadLabels, ReadLabels, WellFormed
    <2>7. TopicsOK'
        BY <1>1, <2>1, <2>3
        DEF Proto, TypeOK, TopicsOK, CancelMeansGone, JobEvent, CancelEvent
    <2> QED
        BY <2>4, <2>6, <2>7
<1> QED
    BY <1>2, <1>3 DEF DeleteProject, vars

LEMMA ProtoStep ==
    ASSUME Proto, TypeOK', NEW r \in Requests, Accept(r) \/ Step(r)
    PROVE  RowsOK' /\ ControlOK' /\ TopicsOK'
<1>1. /\ pc' = [pc EXCEPT ![r] = pc'[r]]
      /\ req' = req
      /\ pc[r] # pc'[r]
      /\ pc[r] \notin {"done", "lost"}
      /\ pc'[r] \in Before => pc[r] \in Before \ {"save"}
      /\ pc \in [Requests -> Labels]
      /\ rows \in [Requests -> Row]
      /\ \A q \in Requests : req[q].target \in Requests
    BY PcMoves DEF Proto, TypeOK, Call
<1>2. \A s \in Requests : Forward(Life(s), Life(s)')
    BY LifeForward DEF Next
<1>3. RowsOK'
    <2> SUFFICES ASSUME NEW s \in Requests
                 PROVE  /\ rows'[s].status \in {"absent", "uploading",
                                                "uploaded", "pending"}
                        /\ rows'[s].status # "pending" => rows'[s].job = NoJob
                        /\ rows'[s].status # "absent" =>
                               req[s].op = "upload" /\ pc'[s] \notin Before
        BY <1>1 DEF RowsOK, Exists
    <2> USE DEF Proto, RowsOK, Exists
    <2>1. CASE rows' = rows
        BY <1>1, <2>1
    <2>2. CASE pc[r] = "save" /\ rows' = [rows EXCEPT ![r] = FreshRow]
        BY <1>1, <2>2 DEF FreshRow, ControlOK, UploadLabels, Before
    <2>3. CASE pc[r] = "setPath" /\ rows' = WithPath(r)
        BY <1>1, <2>3 DEF WithPath, Row, Before
    <2>4. CASE pc[r] = "markUploaded" /\ rows' = WithStatus(r, "uploaded", NoJob)
        BY <1>1, <2>4 DEF WithStatus, Row, Before
    <2>5. CASE pc[r] = "undoRow" /\ rows' = Without(r)
        BY <1>1, <2>5 DEF Without, Absent, Before
    <2>6. CASE /\ pc[r] = "markPending"
               /\ rows' = WithStatus(req[r].target, "pending", r)
        BY <1>1, <2>6 DEF WithStatus, Row, Before
    <2>7. CASE /\ pc[r] = "deleteRow"
               /\ Exists(req[r].target)
               /\ rows' = Without(req[r].target)
        BY <1>1, <2>7 DEF Without, Absent, Before
    <2> QED
        BY RowMoves, <2>1, <2>2, <2>3, <2>4, <2>5, <2>6, <2>7
<1>4. ControlOK'
    <2> SUFFICES ASSUME NEW q \in Requests
                 PROVE  /\ WellFormed(q, req[q])
                        /\ pc'[q] \in UploadLabels => req[q].op = "upload"
                        /\ pc'[q] \in ReadLabels => req[q].op # "upload"
                        /\ pc'[q] \in {"put", "setPath", "markUploaded"} =>
                              rows'[q].status \in {"absent", "uploading"}
                        /\ pc'[q] \in {"publish", "markPending"} =>
                              Life(req[q].target)' \in Complete
                        /\ pc'[q] \in {"cancel", "deleteObject"} =>
                              Life(req[q].target)' = "gone"
        BY <1>1 DEF ControlOK, WellFormed
    <2> USE DEF Proto
    <2>1. WellFormed(q, req[q])
        BY DEF ControlOK
    <2>2. /\ pc'[q] \in UploadLabels => req[q].op = "upload"
          /\ pc'[q] \in ReadLabels => req[q].op # "upload"
        BY <1>1, PcEdges DEF ControlOK
    <2>3. pc'[q] \in {"put", "setPath", "markUploaded"} =>
              rows'[q].status \in {"absent", "uploading"}
        <3> SUFFICES ASSUME pc'[q] \in {"put", "setPath", "markUploaded"}
                     PROVE  rows'[q].status \in {"absent", "uploading"}
            OBVIOUS
        <3>1. rows[q].status \in {"absent", "uploading"}
            BY <1>1, PcEdges DEF ControlOK, RowsOK, Exists, Before
        <3>2. ~(q = r /\ pc[r] = "markUploaded")
            BY PcEdges
        <3> QED
            BY <3>1, <3>2, StaysUploading
    <2>4. pc'[q] \in {"publish", "markPending"} =>
              Life(req[q].target)' \in Complete
        <3> SUFFICES ASSUME pc'[q] \in {"publish", "markPending"}
                     PROVE  Life(req[q].target)' \in Complete
            OBVIOUS
        <3>1. CASE q # r \/ pc[q] = "publish"
            <4>1. Life(req[q].target) \in Complete
                BY <1>1, <3>1 DEF ControlOK
            <4> QED
                BY <1>1, <1>2, <4>1 DEF Forward, Complete
        <3>2. CASE q = r /\ pc[q] = "markUploaded"
            <4>1. req[r].target = r
                BY <3>2 DEF ControlOK, WellFormed, UploadLabels
            <4>2. rows' = WithStatus(r, "uploaded", NoJob)
                BY <1>1, <3>2, PcEdges, Learnt
            <4>3. Life(r)' = "uploaded" \/ (~Exists(r) /\ rows' = rows)
                BY <1>1, <4>2 DEF Life, Exists, WithStatus, Row
            <4>4. pc'[r] \notin Before
                BY <3>2 DEF Before
            <4> QED
                BY <1>1, <3>2, <4>1, <4>3, <4>4
                DEF Life, Exists, Complete, Before
        <3>3. CASE q = r /\ pc[q] = "find"
            <4>1. Life(req[q].target) \in Complete
                BY <1>1, <3>3, PcEdges, Learnt DEF Complete
            <4> QED
                BY <1>1, <1>2, <4>1 DEF Forward, Complete
        <3> QED
            BY <3>1, <3>2, <3>3, PcEdges
    <2>5. pc'[q] \in {"cancel", "deleteObject"} => Life(req[q].target)' = "gone"
        <3> SUFFICES ASSUME pc'[q] \in {"cancel", "deleteObject"}
                     PROVE  Life(req[q].target)' = "gone"
            OBVIOUS
        <3>1. CASE q # r \/ pc[q] = "cancel"
            <4>1. Life(req[q].target) = "gone"
                BY <1>1, <3>1 DEF ControlOK
            <4> QED
                BY <1>1, <1>2, <4>1 DEF Forward
        <3>2. CASE q = r /\ pc[q] = "deleteRow"
            <4>1. /\ Exists(req[q].target)
                  /\ rows' = Without(req[q].target)
                BY <3>2, Learnt
            <4>2. pc[req[q].target] \notin Before
                BY <1>1, <4>1 DEF RowsOK
            <4> QED
                BY <1>1, <4>1, <4>2 DEF Life, Exists, Without, Absent, Before
        <3> QED
            BY <3>1, <3>2, PcEdges
    <2> QED
        BY <2>1, <2>2, <2>3, <2>4, <2>5
<1>5. TopicsOK'
    <2>1. /\ jobsChunking' \in {jobsChunking,
                                jobsChunking \cup {CreateJobEvent(r)}}
          /\ jobsChunking' # jobsChunking =>
                 pc[r] = "publish" /\ pc'[r] \in {"markPending", "done"}
        <3>1. CASE Publish(r)
            BY <1>1, <3>1 DEF Publish, Goto, Reply
        <3> QED
            BY <3>1 DEF Accept, Step, UploadStep, CheckLimits, Save, PutObject,
                SetPath, MarkUploaded, UndoObject, UndoRow, JobStep,
                MarkPending, Find, DeleteStep, DeleteRow, CancelJob,
                DeleteObject, stores
    <2>2. /\ jobsCancel' \in {jobsCancel,
                              jobsCancel \cup {[job |-> seen[r].job,
                                                source |-> req[r].target]}}
          /\ jobsCancel' # jobsCancel => pc[r] = "cancel"
        BY DEF Accept, Step, UploadStep, CheckLimits, Save, PutObject,
               SetPath, MarkUploaded, UndoObject, UndoRow, JobStep, Publish,
               MarkPending, Find, DeleteStep, DeleteRow, CancelJob,
               DeleteObject, stores
    <2>3. \A e \in jobsChunking' : pc'[e.job] \in {"markPending", "done", "lost"}
        BY <1>1, <2>1, PcEdges
        DEF Proto, TypeOK, TopicsOK, JobEvent, CreateJobEvent
    <2>4. \A e \in jobsCancel' : Life(e.source)' = "gone"
        <3> SUFFICES ASSUME NEW e \in jobsCancel' PROVE Life(e.source)' = "gone"
            OBVIOUS
        <3>1. e.source \in Requests /\ Life(e.source) = "gone"
            <4>1. CASE e \in jobsCancel
                BY <4>1 DEF Proto, TypeOK, TopicsOK, CancelMeansGone, CancelEvent
            <4>2. CASE e \notin jobsCancel
                BY <1>1, <2>2, <4>2 DEF Proto, ControlOK
            <4> QED
                BY <4>1, <4>2
        <3> QED
            BY <1>2, <3>1 DEF Forward
    <2> QED
        BY <2>3, <2>4 DEF TopicsOK, CancelMeansGone
<1> QED
    BY <1>3, <1>4, <1>5

LEMMA NextProto == Proto /\ [Next]_vars => Proto'
<1> SUFFICES ASSUME Proto, [Next]_vars PROVE Proto'
    OBVIOUS
<1>1. TypeOK'
    BY NextType DEF Proto
<1>2. RowsOK' /\ ControlOK' /\ TopicsOK'
    BY <1>1, ProtoQuiet, ProtoStep DEF Next
<1> QED
    BY <1>1, <1>2 DEF Proto

\* The inductive invariant behind the theorems below.
THEOREM ProtoHolds == Spec => []Proto
BY InitProto, NextProto, PTL DEF Spec

\* A cancellation is only ever published for a source that is gone for good:
\* DeleteSource deletes the row first, and no row comes back.
THEOREM CancelledIsGone == Spec => []CancelMeansGone
<1>1. Proto => CancelMeansGone
    BY DEF Proto, TopicsOK
<1> QED
    BY <1>1, ProtoHolds, PTL

-----------------------------------------------------------------------------
(***************************************************************************)
(* SourceService implements SourceLifecycle when the broker keeps what it  *)
(* has accepted.                                                           *)
(***************************************************************************)
NoLostJobs == <<"jobsChunking", "dropped">> \notin Faults

Submitted == {[job |-> e.job, source |-> e.source] : e \in jobsChunking}

\* A request that is about to show its job has published it.
Queued ==
    \A r \in Requests :
        pc[r] = "markPending" => [job |-> r, source |-> req[r].target] \in Submitted

LEMMA InitLifecycle == Init => Lifecycle!Init
<1> SUFFICES ASSUME Init PROVE Lifecycle!Init
    OBVIOUS
<1>1. \A s \in Requests : Life(s) = "unborn" /\ rows[s].job = NoJob
    BY DEF Init, Life, Exists, Absent
<1> QED
    BY <1>1 DEF Lifecycle!Init, Init

\* A publication is one new event of the request's own job.
LEMMA PublishMoves ==
    ASSUME Proto, NEW r \in Requests, Accept(r) \/ Step(r)
    PROVE  \/ jobsChunking' = jobsChunking /\ pc'[r] # "markPending"
           \/ jobsChunking' = jobsChunking /\ ~NoLostJobs
           \/ /\ pc[r] = "publish"
              /\ rows' = rows
              /\ jobsChunking' = jobsChunking \cup {CreateJobEvent(r)}
<1> USE DEF Proto, TypeOK, Goto, Reply, GotoOrFail
<1>1. CASE Publish(r)
    <2> PICK o \in Outcome("jobsChunking") :
            /\ jobsChunking' = IF Applied(o)
                               THEN jobsChunking \cup {CreateJobEvent(r)}
                               ELSE jobsChunking
            /\ IF Succeeds(o) THEN Goto(r, "markPending")
               ELSE Reply(r, IF req[r].op = "upload" THEN "OK"
                                                     ELSE "Unavailable", NoJob)
        BY <1>1 DEF Publish
    <2>1. CASE Applied(o)
        BY <1>1, <2>1 DEF Publish
    <2>2. CASE ~Applied(o) /\ Succeeds(o)
        BY <2>2 DEF Applied, Succeeds, Outcome, NoLostJobs
    <2>3. CASE ~Applied(o) /\ ~Succeeds(o)
        BY <2>3
    <2> QED
        BY <2>1, <2>2, <2>3
<1>2. CASE ~Publish(r)
    <2>1. jobsChunking' = jobsChunking
        BY <1>2 DEF Accept, Step, UploadStep, CheckLimits, Save, PutObject,
            SetPath, MarkUploaded, UndoObject, UndoRow, JobStep, MarkPending,
            Find, DeleteStep, DeleteRow, CancelJob, DeleteObject, stores
    <2>2. pc'[r] # "markPending"
        BY <1>2 DEF Accept, Step, UploadStep, CheckLimits, Save, PutObject,
            SetPath, MarkUploaded, UndoObject, UndoRow, JobStep, MarkPending,
            Find, DeleteStep, DeleteRow, CancelJob, DeleteObject, Compensate,
            AfterDelete
    <2> QED
        BY <2>1, <2>2
<1> QED
    BY <1>1, <1>2

LEMMA NextQueued ==
    ASSUME NoLostJobs, Proto, Queued, [Next]_vars PROVE Queued'
<1>1. ASSUME NEW r \in Requests, Accept(r) \/ Step(r) PROVE Queued'
    <2> SUFFICES ASSUME NEW q \in Requests, pc'[q] = "markPending"
                 PROVE  [job |-> q, source |-> req'[q].target] \in Submitted'
        BY DEF Queued
    <2>1. pc' = [pc EXCEPT ![r] = pc'[r]] /\ req' = req /\ pc \in [Requests -> Labels]
        BY <1>1, PcMoves DEF Proto, TypeOK
    <2>2. jobsChunking \subseteq jobsChunking'
        BY <1>1, PublishMoves
    <2>3. CASE q # r
        BY <2>1, <2>2, <2>3 DEF Queued, Submitted
    <2>4. CASE q = r
        <3>1. CreateJobEvent(r) \in jobsChunking'
            BY <1>1, <2>4, PublishMoves
        <3>2. CreateJobEvent(r).job = r /\ CreateJobEvent(r).source = req[r].target
            BY DEF CreateJobEvent
        <3> QED
            BY <2>1, <2>4, <3>1, <3>2 DEF Submitted
    <2> QED
        BY <2>3, <2>4
<1>2. CASE Crash \/ (\E p \in Projects : DeleteProject(p)) \/ UNCHANGED vars
    <2>1. jobsChunking' = jobsChunking /\ req' = req
        BY <1>2 DEF Crash, DeleteProject, vars, stores
    <2>2. \A r \in Requests : pc'[r] = "markPending" => pc[r] = "markPending"
        BY <1>2 DEF Crash, DeleteProject, vars
    <2> QED
        BY <2>1, <2>2 DEF Queued, Submitted
<1> QED
    BY <1>1, <1>2 DEF Next

\* The abstract variables.
life == [s \in Requests |-> Life(s)]
shown == [s \in Requests |-> rows[s].job]

LEMMA StepLifecycle ==
    ASSUME NoLostJobs, Proto, Queued, NEW r \in Requests, Accept(r) \/ Step(r)
    PROVE  [Lifecycle!Next]_(Lifecycle!vars)
<1> DEFINE s == req[r].target
<1>1. /\ pc' = [pc EXCEPT ![r] = pc'[r]]
      /\ pc[r] # pc'[r]
      /\ pc'[r] \in Before => pc[r] \in Before \ {"save"}
      /\ pc \in [Requests -> Labels]
      /\ rows \in [Requests -> Row]
      /\ s \in Requests
      /\ req' = req
    BY PcMoves DEF Proto, TypeOK, Call
<1>2. CASE rows' = rows /\ jobsChunking' = jobsChunking
    <2>1. shown' = shown /\ Submitted' = Submitted
        BY <1>2 DEF shown, Submitted
    <2>2. CASE life' = life
        BY <2>1, <2>2 DEF Lifecycle!vars, life, shown, Submitted
    <2>3. CASE life' # life
        <3>1. /\ Life(r) = "unborn"
              /\ life' = [q \in Requests |-> IF q \in {r} THEN "gone" ELSE life[q]]
            BY <1>1, <1>2, <2>3 DEF life, Life, Exists, Before
        <3>2. Lifecycle!Abandon({r})
            BY <2>1, <3>1 DEF Lifecycle!Abandon, life, shown, Submitted
        <3> QED
            BY <3>2 DEF Lifecycle!Next
    <2> QED
        BY <2>2, <2>3
<1>3. CASE rows' # rows
    <2>0. jobsChunking' = jobsChunking
        BY <1>3, PublishMoves
    <2>1. Submitted' = Submitted
        BY <2>0 DEF Submitted
    <2>2. CASE pc[r] = "save" /\ rows' = [rows EXCEPT ![r] = FreshRow]
        <3>1. /\ Life(r) = "unborn"
              /\ rows[r].job = NoJob
            BY <1>1, <2>2 DEF Life, Exists, Proto, RowsOK, Before
        <3>2. /\ life' = [life EXCEPT ![r] = "uploading"]
              /\ shown' = shown
            BY <1>1, <2>2, <3>1 DEF life, shown, Life, Exists, FreshRow
        <3>3. Lifecycle!Begin(r)
            BY <2>1, <3>1, <3>2 DEF Lifecycle!Begin, life, shown, Submitted
        <3> QED
            BY <3>3 DEF Lifecycle!Next
    <2>3. CASE pc[r] = "setPath" /\ rows' = WithPath(r)
        <3>1. life' = life /\ shown' = shown
            BY <1>1, <2>3 DEF life, shown, Life, Exists, WithPath, Row, Before
        <3> QED
            BY <2>1, <3>1 DEF Lifecycle!vars, life, shown, Submitted
    <2>4. CASE pc[r] = "markUploaded" /\ rows' = WithStatus(r, "uploaded", NoJob)
        <3>1. Exists(r) /\ rows[r].status = "uploading" /\ rows[r].job = NoJob
            BY <1>3, <2>4 DEF WithStatus, Proto, ControlOK, RowsOK, Exists
        <3>2. /\ life' = [life EXCEPT ![r] = "uploaded"]
              /\ shown' = shown
            BY <1>1, <2>4, <3>1 DEF life, shown, Life, Exists, WithStatus, Row
        <3>3. Life(r) = "uploading"
            BY <3>1 DEF Life
        <3>4. Lifecycle!Finish(r)
            BY <2>1, <3>2, <3>3 DEF Lifecycle!Finish, life, shown, Submitted
        <3> QED
            BY <3>4 DEF Lifecycle!Next
    <2>5. ASSUME NEW q \in Requests, Exists(q), rows' = Without(q),
                 pc[r] \notin Before
          PROVE  Lifecycle!Next
        <3>1. Life(q) \in {"uploading", "uploaded", "pending"}
            BY <2>5 DEF Life, Exists, Proto, RowsOK
        <3>2. pc'[q] \notin Before
            BY <1>1, <2>5 DEF Proto, RowsOK
        <3>3. /\ life' = [life EXCEPT ![q] = "gone"]
              /\ shown' = [shown EXCEPT ![q] = NoJob]
            <4>1. \A x \in Requests :
                      rows'[x] = IF x = q THEN Absent ELSE rows[x]
                BY <1>1, <2>5 DEF Without
            <4>2. \A x \in Requests :
                      /\ Life(x)' = IF x = q THEN "gone" ELSE Life(x)
                      /\ rows'[x].job = IF x = q THEN NoJob ELSE rows[x].job
                BY <1>1, <2>5, <3>2, <4>1 DEF Life, Exists, Absent, Before
            <4> QED
                BY <4>2 DEF life, shown
        <3>4. Lifecycle!Vanish(q)
            BY <2>1, <3>1, <3>3 DEF Lifecycle!Vanish, life, shown, Submitted
        <3> QED
            BY <3>4 DEF Lifecycle!Next
    <2>6. CASE pc[r] = "markPending" /\ rows' = WithStatus(s, "pending", r)
        <3>1. Exists(s) /\ Life(s) \in {"uploaded", "pending"}
            <4>1. Life(s) \in Complete
                BY <2>6 DEF Proto, ControlOK
            <4> QED
                BY <1>1, <1>3, <2>6, <4>1
                DEF WithStatus, Life, Exists, Complete, Proto, RowsOK
        <3>2. /\ life' = [life EXCEPT ![s] = "pending"]
              /\ shown' = [shown EXCEPT ![s] = r]
            <4>1. \A q \in Requests :
                      /\ rows'[q].status = IF q = s THEN "pending"
                                                    ELSE rows[q].status
                      /\ rows'[q].job = IF q = s THEN r ELSE rows[q].job
                BY <1>1, <2>6, <3>1 DEF WithStatus, Row
            <4>2. \A q \in Requests :
                      Life(q)' = IF q = s THEN "pending" ELSE Life(q)
                BY <1>1, <2>6, <4>1 DEF Life, Exists, Before
            <4> QED
                BY <1>1, <4>1, <4>2 DEF life, shown
        <3>3. [job |-> r, source |-> s] \in Submitted
            BY <2>6 DEF Queued
        <3>4. Lifecycle!Queue(s, r)
            <4>1. life[s] \in {"uploaded", "pending"}
                BY <1>1, <3>1 DEF life
            <4> QED
                BY <2>1, <3>2, <3>3, <4>1
                DEF Lifecycle!Queue, life, shown, Submitted
        <3> QED
            BY <1>1, <3>4 DEF Lifecycle!Next
    <2>7. CASE pc[r] = "undoRow" /\ rows' = Without(r)
        <3>1. CASE Exists(r)
            BY <2>5, <2>7, <3>1 DEF Before
        <3>2. CASE ~Exists(r)
            <4>1. life' = life /\ shown' = shown
                BY <1>1, <2>7, <3>2 DEF life, shown, Life, Exists, Without,
                                        Absent, Before, Proto, RowsOK
            <4> QED
                BY <2>1, <4>1 DEF Lifecycle!vars, life, shown, Submitted
        <3> QED
            BY <3>1, <3>2
    <2>8. CASE pc[r] = "deleteRow" /\ Exists(s) /\ rows' = Without(s)
        BY <1>1, <2>5, <2>8 DEF Before
    <2> QED
        BY <1>3, RowMoves, <2>2, <2>3, <2>4, <2>6, <2>7, <2>8 DEF Proto
<1>4. CASE rows' = rows /\ jobsChunking' # jobsChunking
    <2>1. /\ pc[r] = "publish"
          /\ jobsChunking' = jobsChunking \cup {CreateJobEvent(r)}
        BY <1>4, PublishMoves
    <2>2. Submitted' = Submitted \cup {[job |-> r, source |-> s]}
        <3>1. /\ CreateJobEvent(r).job = r
              /\ CreateJobEvent(r).source = s
            BY DEF CreateJobEvent
        <3>2. \A e : e \in jobsChunking' <=>
                        e \in jobsChunking \/ e = CreateJobEvent(r)
            BY <2>1
        <3>3. \A x : x \in Submitted' <=>
                        \/ x \in Submitted
                        \/ x = [job |-> CreateJobEvent(r).job,
                                source |-> CreateJobEvent(r).source]
            BY <3>2, Zenon DEF Submitted
        <3> QED
            BY <3>1, <3>3
    <2>3. /\ Life(s) \in Complete
          /\ \A e \in jobsChunking : e.job # r
        BY <2>1 DEF Proto, ControlOK, TopicsOK
    <2>4. life' = life /\ shown' = shown
        BY <1>1, <1>4, <2>1 DEF life, shown, Life, Exists, Before
    <2>5. \A e \in Submitted : e.job # r
        BY <2>3 DEF Submitted
    <2>6. Lifecycle!Submit(s, r)
        BY <1>1, <2>2, <2>3, <2>4, <2>5
        DEF Lifecycle!Submit, life, shown, Submitted, Complete
    <2> QED
        BY <1>1, <2>6 DEF Lifecycle!Next
<1> QED
    BY <1>2, <1>3, <1>4

LEMMA CrashLifecycle ==
    ASSUME Proto, Crash PROVE [Lifecycle!Next]_(Lifecycle!vars)
<1> DEFINE S == {q \in Requests : life'[q] # life[q]}
<1>1. shown' = shown /\ Submitted' = Submitted
    BY DEF Crash, stores, shown, Submitted
<1>2. \A q \in S : Life(q) = "unborn" /\ Life(q)' = "gone"
    BY DEF Crash, stores, life, Life, Exists
<1>3. life' = [q \in Requests |-> IF q \in S THEN "gone" ELSE life[q]]
    BY <1>2 DEF life
<1>4. CASE S = {}
    <2>1. life' = life
        BY <1>3, <1>4 DEF life
    <2> QED
        BY <1>1, <2>1 DEF Lifecycle!vars, life, shown, Submitted
<1>5. CASE S # {}
    <2>1. Lifecycle!Abandon(S)
        BY <1>1, <1>2, <1>3, <1>5 DEF Lifecycle!Abandon, life, shown, Submitted
    <2> QED
        BY <2>1 DEF Lifecycle!Next
<1> QED
    BY <1>4, <1>5

LEMMA NextLifecycle ==
    ASSUME NoLostJobs, Proto, Queued, [Next]_vars
    PROVE  [Lifecycle!Next]_(Lifecycle!vars)
<1>1. CASE \E r \in Requests : Accept(r) \/ Step(r)
    BY <1>1, StepLifecycle
<1>2. CASE Crash
    BY <1>2, CrashLifecycle
<1>3. CASE (\E p \in Projects : DeleteProject(p)) \/ UNCHANGED vars
    <2>1. rows' = rows /\ pc' = pc /\ jobsChunking' = jobsChunking
        BY <1>3 DEF DeleteProject, vars, stores
    <2> QED
        BY <2>1 DEF Lifecycle!vars, Life, Exists
<1> QED
    BY <1>1, <1>2, <1>3 DEF Next

\* Any number of uploads, deletes and retries, with calls that fail with or
\* without effect and with crashes, implement the life cycle, as long as the
\* broker keeps the jobs that it has accepted.
THEOREM ServiceImplementsLifecycle ==
    ASSUME NoLostJobs PROVE Spec => ImplementsLifecycle
<1>1. Init => Proto /\ Queued
    BY InitProto DEF Init, Queued
<1>2. Proto /\ Queued /\ [Next]_vars => (Proto /\ Queued)'
    BY NextProto, NextQueued
<1>3. Proto /\ Queued /\ [Next]_vars => [Lifecycle!Next]_(Lifecycle!vars)
    BY NextLifecycle
<1> QED
    BY <1>1, <1>2, <1>3, InitLifecycle, PTL
    DEF Spec, ImplementsLifecycle, Lifecycle!Spec

-----------------------------------------------------------------------------
(***************************************************************************)
(* Files and jobs, when a database call that fails has had no effect.      *)
(***************************************************************************)
NoLostReplies == <<"db", "lostReply">> \notin Faults

\* What the requests know about the file on their way.
FilesOK ==
    /\ UploadedHasFile
    /\ \A r \in Requests :
         /\ pc[r] \in {"setPath", "markUploaded"} /\ req[r].file /\ Exists(r)
                => r \in objects
         /\ pc[r] = "markUploaded" /\ req[r].file /\ Exists(r) => rows[r].path
         /\ pc[r] \in {"undoObject", "undoRow"} =>
                rows[r].status \in {"absent", "uploading"}

LEMMA ObjectMoves ==
    ASSUME NEW r \in Requests, Accept(r) \/ Step(r)
    PROVE  \/ objects' = objects
           \/ pc[r] = "put" /\ objects' = objects \cup {r}
           \/ pc[r] = "undoObject" /\ objects' = objects \ {r}
           \/ pc[r] = "deleteObject" /\ objects' = objects \ {req[r].target}
<1>1. CASE Accept(r) BY <1>1 DEF Accept, stores
<1>2. CASE UploadStep(r)
    BY <1>2 DEF UploadStep, CheckLimits, Save, PutObject, SetPath,
                MarkUploaded, UndoObject, UndoRow, stores
<1>3. CASE JobStep(r) BY <1>3 DEF JobStep, Publish, MarkPending
<1>4. CASE Find(r) BY <1>4 DEF Find, stores
<1>5. CASE DeleteStep(r)
    BY <1>5 DEF DeleteStep, DeleteRow, CancelJob, DeleteObject
<1> QED
    BY <1>1, <1>2, <1>3, <1>4, <1>5 DEF Step

\* How an upload reaches the labels that FilesOK is about.
LEMMA FileEdges ==
    ASSUME NoLostReplies, Proto, NEW r \in Requests, Accept(r) \/ Step(r)
    PROVE  /\ pc'[r] = "setPath" => r \in objects' /\ pc[r] = "put"
           /\ pc'[r] = "markUploaded" =>
                 \/ ~req[r].file
                 \/ pc[r] = "setPath" /\ rows' = WithPath(r)
           /\ pc'[r] \in {"undoObject", "undoRow"} =>
                 /\ rows' = rows
                 /\ pc[r] \in {"put", "setPath", "markUploaded", "undoObject"}
<1> USE DEF Proto, TypeOK, Goto, Reply, GotoOrFail
<1>0. \A o \in Outcome("db") : ~Succeeds(o) => ~Applied(o)
    BY DEF Outcome, Succeeds, Applied, FaultKinds, NoLostReplies
<1>1. CASE Accept(r) BY <1>1 DEF Accept
<1>2. CASE UploadStep(r)
    <2>1. CASE PutObject(r)
        <3> PICK o \in Outcome("storage") :
                /\ objects' = IF Applied(o) THEN objects \cup {r} ELSE objects
                /\ Goto(r, IF Succeeds(o) THEN "setPath" ELSE Compensate(r))
            BY <2>1 DEF PutObject
        <3>1. pc'[r] = "setPath" => Succeeds(o)
            BY <2>1 DEF PutObject, Compensate
        <3>2. pc'[r] = "setPath" => r \in objects'
            BY <3>1, NoDrops
        <3> QED
            BY <2>1, <3>2 DEF PutObject, Compensate
    <2>2. CASE SetPath(r)
        <3> PICK o \in Outcome("db") :
                /\ rows' = IF Applied(o) THEN WithPath(r) ELSE rows
                /\ Goto(r, IF Succeeds(o) THEN "markUploaded"
                                          ELSE Compensate(r))
            BY <2>2 DEF SetPath
        <3>1. pc'[r] = IF Succeeds(o) THEN "markUploaded" ELSE Compensate(r)
            BY <2>2 DEF SetPath
        <3>2. Compensate(r) \in {"undoRow", "undoObject"}
            BY DEF Compensate
        <3> QED
            BY <1>0, <2>2, <3>1, <3>2, NoDrops DEF SetPath
    <2>3. CASE MarkUploaded(r)
        <3> PICK o \in Outcome("db") :
                /\ rows' = IF Applied(o) THEN WithStatus(r, "uploaded", NoJob)
                                         ELSE rows
                /\ Goto(r, IF Succeeds(o) THEN "publish" ELSE Compensate(r))
            BY <2>3 DEF MarkUploaded
        <3>1. pc'[r] = IF Succeeds(o) THEN "publish" ELSE Compensate(r)
            BY <2>3 DEF MarkUploaded
        <3>2. Compensate(r) \in {"undoRow", "undoObject"}
            BY DEF Compensate
        <3> QED
            BY <1>0, <2>3, <3>1, <3>2 DEF MarkUploaded
    <2>4. CASE Save(r) BY <2>4 DEF Save
    <2> QED
        BY <1>2, <2>1, <2>2, <2>3, <2>4
        DEF UploadStep, CheckLimits, UndoObject, UndoRow
<1>3. CASE JobStep(r) BY <1>3 DEF JobStep, Publish, MarkPending
<1>4. CASE Find(r) BY <1>4 DEF Find
<1>5. CASE DeleteStep(r)
    BY <1>5 DEF DeleteStep, DeleteRow, CancelJob, DeleteObject, AfterDelete
<1> QED
    BY <1>1, <1>2, <1>3, <1>4, <1>5 DEF Step

\* An object that a row needs is not removed: a removal is for a row that is
\* gone, or is the upload's own.
LEMMA ObjectStays ==
    ASSUME Proto, NEW r \in Requests, Accept(r) \/ Step(r),
           NEW s \in Requests, s \in objects, Exists(s),
           s = r => pc[r] # "undoObject"
    PROVE  s \in objects'
<1>1. pc[r] = "deleteObject" => s # req[r].target
    BY DEF Proto, ControlOK, Life, Exists, RowsOK
<1> QED
    BY <1>1, ObjectMoves

\* A row that exists after a step other than its insertion existed before.
LEMMA RowPersists ==
    ASSUME Proto, NEW r \in Requests, Accept(r) \/ Step(r),
           NEW s \in Requests, Exists(s)', ~(s = r /\ pc[r] = "save")
    PROVE  /\ Exists(s)
           /\ rows[s].path => rows'[s].path
<1>1. rows \in [Requests -> Row] /\ req[r].target \in Requests
    BY DEF Proto, TypeOK, Call
<1>2. /\ s # r => [rows EXCEPT ![r] = FreshRow][s] = rows[s]
      /\ \A q \in Requests, st \in Statuses, j \in Requests \cup {NoJob} :
             /\ (WithStatus(q, st, j)[s].status # "absent") => Exists(s)
             /\ WithStatus(q, st, j)[s].path = rows[s].path
    BY <1>1 DEF WithStatus, Exists, Row
<1>3. /\ WithPath(r)[s].status = rows[s].status
      /\ rows[s].path => WithPath(r)[s].path
      /\ \A q \in Requests :
             Without(q)[s].status # "absent" => Without(q)[s] = rows[s]
    BY <1>1 DEF WithPath, Without, Exists, Absent, Row
<1>4. "uploaded" \in Statuses /\ "pending" \in Statuses
    BY DEF Statuses
<1> QED
    BY <1>1, <1>2, <1>3, <1>4, RowMoves DEF Exists, Proto

LEMMA NextFiles ==
    ASSUME NoLostReplies, Proto, FilesOK, [Next]_vars PROVE FilesOK'
<1>1. ASSUME NEW r \in Requests, Accept(r) \/ Step(r) PROVE FilesOK'
    <2>1. /\ pc' = [pc EXCEPT ![r] = pc'[r]]
          /\ req' = req
          /\ pc[r] # pc'[r]
          /\ pc \in [Requests -> Labels]
          /\ rows \in [Requests -> Row]
        BY <1>1, PcMoves DEF Proto, TypeOK
    <2>2. ASSUME NEW s \in Requests, Exists(s)',
                 rows'[s].status # "uploading", req[s].file
          PROVE  rows'[s].path /\ s \in objects'
        <3>1. pc[r] = "save" => rows' = [rows EXCEPT ![r] = FreshRow]
                                \/ rows' = rows
            BY <1>1, RowMoves DEF Proto
        <3>2. ~(s = r /\ pc[r] = "save")
            BY <2>1, <2>2, <3>1 DEF FreshRow, Exists, Proto, RowsOK, Before
        <3>3. Exists(s) /\ (rows[s].path => rows'[s].path)
            BY <1>1, <2>2, <3>2, RowPersists
        <3>4. CASE rows[s].status # "uploading"
            <4>1. rows[s].path /\ s \in objects
                BY <2>2, <3>3, <3>4 DEF FilesOK, UploadedHasFile
            <4>2. s = r => pc[r] # "undoObject"
                BY <3>3, <3>4 DEF FilesOK, Exists
            <4> QED
                BY <1>1, <3>3, <4>1, <4>2, ObjectStays
        <3>5. CASE rows[s].status = "uploading"
            <4>1. s = r /\ pc[r] = "markUploaded"
                BY <1>1, <2>2, <3>5, StaysUploading DEF Exists
            <4>2. rows[s].path /\ s \in objects
                BY <2>2, <3>3, <4>1 DEF FilesOK
            <4> QED
                BY <1>1, <3>3, <4>1, <4>2, ObjectStays
        <3> QED
            BY <3>4, <3>5
    <2>3. ASSUME NEW q \in Requests, Exists(q)', req[q].file,
                 pc'[q] \in {"setPath", "markUploaded"}
          PROVE  q \in objects'
        <3>1. CASE q # r
            <4>1. q \in objects /\ Exists(q)
                BY <1>1, <2>1, <2>3, <3>1, RowPersists DEF FilesOK
            <4> QED
                BY <1>1, <3>1, <4>1, ObjectStays
        <3>2. CASE q = r /\ pc'[r] = "setPath"
            BY <1>1, <3>2, FileEdges
        <3>3. CASE q = r /\ pc'[r] = "markUploaded"
            <4>1. pc[r] = "setPath"
                BY <1>1, <2>3, <3>3, FileEdges
            <4>2. q \in objects /\ Exists(q)
                BY <1>1, <2>3, <3>3, <4>1, RowPersists DEF FilesOK
            <4> QED
                BY <1>1, <3>3, <4>1, <4>2, ObjectStays
        <3> QED
            BY <2>3, <3>1, <3>2, <3>3
    <2>4. ASSUME NEW q \in Requests, Exists(q)', req[q].file,
                 pc'[q] = "markUploaded"
          PROVE  rows'[q].path
        <3>1. CASE q # r
            BY <1>1, <2>1, <2>4, <3>1, RowPersists DEF FilesOK
        <3>2. CASE q = r
            <4>1. rows' = WithPath(r)
                BY <1>1, <2>4, <3>2, FileEdges
            <4>2. Exists(r)
                BY <1>1, <2>4, <3>2, <4>1, FileEdges, RowPersists
            <4> QED
                BY <2>1, <3>2, <4>1, <4>2 DEF WithPath, Row
        <3> QED
            BY <3>1, <3>2
    <2>5. ASSUME NEW q \in Requests, pc'[q] \in {"undoObject", "undoRow"}
          PROVE  rows'[q].status \in {"absent", "uploading"}
        <3>1. CASE q # r
            BY <1>1, <2>1, <2>5, <3>1, StaysUploading DEF FilesOK
        <3>2. CASE q = r
            BY <1>1, <2>5, <3>2, FileEdges DEF FilesOK, Proto, ControlOK
        <3> QED
            BY <3>1, <3>2
    <2> QED
        BY <2>1, <2>2, <2>3, <2>4, <2>5
        DEF FilesOK, UploadedHasFile, Exists
<1>2. CASE Crash \/ (\E p \in Projects : DeleteProject(p)) \/ UNCHANGED vars
    <2>1. rows' = rows /\ objects' = objects /\ req' = req
        BY <1>2 DEF Crash, DeleteProject, vars, stores
    <2>2. \A r \in Requests : pc'[r] = pc[r] \/ pc'[r] = "lost"
        BY <1>2 DEF Crash, DeleteProject, vars
    <2> QED
        BY <2>1, <2>2 DEF FilesOK, UploadedHasFile, Exists
<1> QED
    BY <1>1, <1>2 DEF Next

\* When a database call that fails has had no effect, a row that is past
\* "uploading" has its path and its object, over all races of uploads, deletes
\* and retries, all failed compensations and all crashes.
THEOREM UploadedSourcesHaveFiles ==
    ASSUME NoLostReplies PROVE Spec => []UploadedHasFile
<1>1. Init => FilesOK
    BY DEF Init, FilesOK, UploadedHasFile, Exists, Absent
<1>2. Proto /\ FilesOK /\ [Next]_vars => FilesOK'
    BY NextFiles
<1>3. FilesOK => UploadedHasFile
    BY DEF FilesOK
<1> QED
    BY <1>1, <1>2, <1>3, ProtoHolds, PTL DEF Spec
-----------------------------------------------------------------------------
(***************************************************************************)
(* Jobs.  An event keeps what it says of its content over everything that  *)
(* happens to the source later.                                            *)
(***************************************************************************)
\* What is on the topic, and what a retry that will publish has read.
EventsOK ==
    /\ \A e \in jobsChunking :
         /\ Life(e.source) \in Complete
         /\ e.url <=> ~req[e.source].file
         /\ ~e.url => e.path
    /\ \A r \in Requests :
         /\ pc[r] = "publish"
         /\ req[r].op # "upload"
         /\ req[req[r].target].file
         => seen[r].path

\* What a step does to the topic and to what its request has read.
LEMMA EventMoves ==
    ASSUME Proto, NEW r \in Requests, Accept(r) \/ Step(r)
    PROVE  /\ \/ jobsChunking' = jobsChunking
              \/ /\ pc[r] = "publish"
                 /\ rows' = rows
                 /\ jobsChunking' = jobsChunking \cup {CreateJobEvent(r)}
           /\ \A q \in Requests \ {r} : seen'[q] = seen[q]
           /\ pc[r] = "find" /\ pc'[r] = "publish" =>
                 seen'[r] = rows[req[r].target]
<1> USE DEF Proto, TypeOK, Goto, Reply, GotoOrFail
<1>1. CASE Accept(r) BY <1>1 DEF Accept, stores
<1>2. CASE UploadStep(r)
    BY <1>2 DEF UploadStep, CheckLimits, Save, PutObject, SetPath,
                MarkUploaded, UndoObject, UndoRow, stores
<1>3. CASE JobStep(r) BY <1>3 DEF JobStep, Publish, MarkPending
<1>4. CASE Find(r) BY <1>4 DEF Find, stores
<1>5. CASE DeleteStep(r)
    BY <1>5 DEF DeleteStep, DeleteRow, CancelJob, DeleteObject
<1> QED
    BY <1>1, <1>2, <1>3, <1>4, <1>5 DEF Step

LEMMA NextEvents ==
    ASSUME Proto, FilesOK, EventsOK, [Next]_vars PROVE EventsOK'
<1>1. ASSUME NEW r \in Requests, Accept(r) \/ Step(r) PROVE EventsOK'
    <2>1. /\ pc' = [pc EXCEPT ![r] = pc'[r]]
          /\ req' = req
          /\ pc \in [Requests -> Labels]
          /\ \A q \in Requests : req[q].target \in Requests
          /\ \A q \in Requests : req[q].file \in BOOLEAN
          /\ \A e \in jobsChunking : e.source \in Requests
        BY <1>1, PcMoves DEF Proto, TypeOK, Call, JobEvent
    <2>2. \A s \in Requests : Life(s) \in Complete => Life(s)' \in Complete
        BY <1>1, LifeForward DEF Next, Forward, Complete
    <2>3. ASSUME NEW e \in jobsChunking'
          PROVE  /\ Life(e.source)' \in Complete
                 /\ e.url <=> ~req'[e.source].file
                 /\ ~e.url => e.path
        <3>1. CASE e \in jobsChunking
            BY <2>1, <2>2, <3>1 DEF EventsOK
        <3>2. CASE e \notin jobsChunking
            <4>1. pc[r] = "publish" /\ e = CreateJobEvent(r)
                BY <1>1, <2>3, <3>2, EventMoves
            <4>2. /\ e.source = req[r].target
                  /\ e.url = ~req[req[r].target].file
                  /\ e.path = IF req[r].op = "upload" THEN req[r].file
                                                      ELSE seen[r].path
                BY <4>1 DEF CreateJobEvent
            <4>3. Life(req[r].target) \in Complete
                BY <4>1 DEF Proto, ControlOK
            <4>4. req[r].op = "upload" => req[r].target = r
                BY DEF Proto, ControlOK, WellFormed
            <4> QED
                BY <2>1, <2>2, <4>1, <4>2, <4>3, <4>4 DEF EventsOK
        <3> QED
            BY <3>1, <3>2
    <2>4. ASSUME NEW q \in Requests, pc'[q] = "publish",
                 req[q].op # "upload", req[req[q].target].file
          PROVE  seen'[q].path
        <3>1. CASE q # r
            BY <1>1, <2>1, <2>4, <3>1, EventMoves DEF EventsOK
        <3>2. CASE q = r
            <4>1. pc[r] \in {"markUploaded", "find"}
                BY <1>1, <2>4, <3>2, PcEdges
            <4>2. pc[r] = "find"
                BY <2>4, <3>2, <4>1 DEF Proto, ControlOK, UploadLabels
            <4>3. seen'[r] = rows[req[r].target]
                BY <1>1, <2>4, <3>2, <4>2, EventMoves
            <4>4. Life(req[r].target) = "uploaded"
                BY <1>1, <2>4, <3>2, <4>2, Learnt
            <4>5. /\ Exists(req[r].target)
                  /\ rows[req[r].target].status # "uploading"
                BY <4>4 DEF Life
            <4> QED
                BY <2>1, <2>4, <3>2, <4>3, <4>5 DEF FilesOK, UploadedHasFile
        <3> QED
            BY <3>1, <3>2
    <2> QED
        BY <2>1, <2>3, <2>4 DEF EventsOK
<1>2. CASE Crash \/ (\E p \in Projects : DeleteProject(p)) \/ UNCHANGED vars
    <2>1. /\ rows' = rows /\ req' = req /\ seen' = seen
          /\ jobsChunking' = jobsChunking
        BY <1>2 DEF Crash, DeleteProject, vars, stores
    <2>2. \A r \in Requests : pc'[r] = pc[r] \/ pc'[r] = "lost"
        BY <1>2 DEF Crash, DeleteProject, vars
    <2>3. \A e \in jobsChunking : e.source \in Requests
        BY DEF Proto, TypeOK, JobEvent
    <2>4. \A s \in Requests : Life(s) \in Complete => Life(s)' \in Complete
        BY <2>1, <2>2 DEF Life, Exists, Complete
    <2> QED
        BY <2>1, <2>2, <2>3, <2>4 DEF EventsOK
<1> QED
    BY <1>1, <1>2 DEF Next

\* When a database call that fails has had no effect, every job that is ever
\* published tells the consumer where its content is, and a file is there as
\* long as the row of its source is.
THEOREM JobsHaveContent ==
    ASSUME NoLostReplies PROVE Spec => []JobHasContent
<1>1. Init => FilesOK
    BY DEF Init, FilesOK, UploadedHasFile, Exists, Absent
<1>2. Proto /\ FilesOK /\ [Next]_vars => FilesOK'
    BY NextFiles
<1>3. Init => EventsOK
    BY DEF Init, EventsOK
<1>4. Proto /\ FilesOK /\ EventsOK /\ [Next]_vars => EventsOK'
    BY NextEvents
<1>5. Proto /\ FilesOK /\ EventsOK => JobHasContent
    <2> SUFFICES ASSUME Proto, FilesOK, EventsOK,
                        NEW e \in jobsChunking, ~e.url
                 PROVE  e.path /\ (Exists(e.source) => e.source \in objects)
        BY DEF JobHasContent
    <2>1. /\ e.source \in Requests
          /\ e.path
          /\ req[e.source].file
          /\ Life(e.source) \in Complete
        BY DEF Proto, TypeOK, JobEvent, EventsOK
    <2>2. Exists(e.source) => rows[e.source].status # "uploading"
        BY <2>1 DEF Life, Complete
    <2> QED
        BY <2>1, <2>2 DEF FilesOK, UploadedHasFile
<1> QED
    BY <1>1, <1>2, <1>3, <1>4, <1>5, ProtoHolds, PTL DEF Spec

-----------------------------------------------------------------------------
(***************************************************************************)
(* What an answer of OK is worth.                                          *)
(***************************************************************************)
PublishedJobs == {e.job : e \in jobsChunking}

\* A job that is shown as pending has been published, and an upload that has
\* answered OK is complete.
AnswersOK ==
    /\ \A s \in Requests : rows[s].status = "pending" => rows[s].job \in PublishedJobs
    /\ \A r \in Uploads : resp[r].code = "OK" => Life(r) \in Complete

\* An upload answers OK at the end of its work, and only about itself.
LEMMA AnswerMoves ==
    ASSUME Proto, NEW r \in Requests, Accept(r) \/ Step(r)
    PROVE  /\ \A q \in Requests \ {r} : resp'[q] = resp[q]
           /\ \/ resp'[r] = resp[r]
              \/ resp'[r].code # "OK"
              \/ req[r].op # "upload"
              \/ pc[r] \in {"publish", "markPending"}
<1> USE DEF Proto, TypeOK, ControlOK, Goto, Reply, GotoOrFail, ReadLabels
<1>1. CASE Accept(r) BY <1>1 DEF Accept
<1>2. CASE UploadStep(r)
    BY <1>2 DEF UploadStep, CheckLimits, Save, PutObject, SetPath,
                MarkUploaded, UndoObject, UndoRow
<1>3. CASE JobStep(r) BY <1>3 DEF JobStep, Publish, MarkPending
<1>4. CASE Find(r) BY <1>4 DEF Find
<1>5. CASE DeleteStep(r)
    BY <1>5 DEF DeleteStep, DeleteRow, CancelJob, DeleteObject
<1> QED
    BY <1>1, <1>2, <1>3, <1>4, <1>5 DEF Step

\* A row that is pending after a step was so before, or the step has shown it.
LEMMA PendingMoves ==
    ASSUME Proto, NEW r \in Requests, Accept(r) \/ Step(r),
           NEW s \in Requests, rows'[s].status = "pending"
    PROVE  \/ rows[s].status = "pending" /\ rows'[s].job = rows[s].job
           \/ pc[r] = "markPending" /\ req[r].target = s /\ rows'[s].job = r
<1>1. rows \in [Requests -> Row] /\ req[r].target \in Requests /\ rows[s] \in Row
    BY DEF Proto, TypeOK, Call
<1>2. CASE rows' = rows BY <1>2
<1>3. CASE rows' = [rows EXCEPT ![r] = FreshRow]
    BY <1>1, <1>3 DEF FreshRow
<1>4. CASE rows' = WithPath(r)
    <2>1. rows'[s] = rows[s] \/ rows'[s] = [rows[s] EXCEPT !.path = TRUE]
        BY <1>1, <1>4 DEF WithPath
    <2> QED
        BY <1>1, <2>1 DEF Row
<1>5. CASE rows' = WithStatus(r, "uploaded", NoJob)
    <2>1. \/ rows'[s] = rows[s]
          \/ rows'[s] = [rows[s] EXCEPT !.status = "uploaded", !.job = NoJob]
        BY <1>1, <1>5 DEF WithStatus
    <2> QED
        BY <1>1, <2>1 DEF Row
<1>6. CASE \E q \in Requests : rows' = Without(q)
    BY <1>1, <1>6 DEF Without, Absent
<1>7. CASE pc[r] = "markPending" /\ rows' = WithStatus(req[r].target, "pending", r)
    <2>1. \/ rows'[s] = rows[s]
          \/ /\ req[r].target = s
             /\ rows'[s] = [rows[s] EXCEPT !.status = "pending", !.job = r]
        BY <1>1, <1>7 DEF WithStatus
    <2> QED
        BY <1>1, <1>7, <2>1 DEF Row
<1> QED
    BY <1>1, RowMoves, <1>2, <1>3, <1>4, <1>5, <1>6, <1>7 DEF Proto

LEMMA NextAnswers ==
    ASSUME NoLostJobs, Proto, Queued, AnswersOK, [Next]_vars PROVE AnswersOK'
<1>1. ASSUME NEW r \in Requests, Accept(r) \/ Step(r) PROVE AnswersOK'
    <2>1. jobsChunking \subseteq jobsChunking' /\ req' = req
        BY <1>1, PublishMoves, PcMoves DEF Proto
    <2>2. ASSUME NEW s \in Requests, rows'[s].status = "pending"
          PROVE  rows'[s].job \in PublishedJobs'
        <3>1. CASE rows[s].status = "pending" /\ rows'[s].job = rows[s].job
            BY <2>1, <3>1 DEF AnswersOK, PublishedJobs
        <3>2. CASE pc[r] = "markPending" /\ rows'[s].job = r
            <4>1. [job |-> r, source |-> req[r].target] \in Submitted
                BY <3>2 DEF Queued
            <4>2. PICK e \in jobsChunking : e.job = r
                BY <4>1 DEF Submitted
            <4> QED
                BY <2>1, <3>2, <4>2 DEF PublishedJobs
        <3> QED
            BY <1>1, <2>2, <3>1, <3>2, PendingMoves
    <2>3. ASSUME NEW q \in Uploads', resp'[q].code = "OK"
          PROVE  Life(q)' \in Complete
        <3>1. q \in Uploads /\ q \in Requests
            BY <2>1 DEF Uploads
        <3>2. Life(q) \in Complete
            <4>1. CASE resp[q].code = "OK"
                BY <3>1, <4>1 DEF AnswersOK
            <4>2. CASE q = r /\ pc[q] \in {"publish", "markPending"}
                BY <3>1, <4>2 DEF Proto, ControlOK, WellFormed, Uploads
            <4> QED
                BY <1>1, <2>3, <3>1, <4>1, <4>2, AnswerMoves DEF Uploads
        <3>3. Forward(Life(q), Life(q)')
            BY <1>1, <3>1, LifeForward DEF Next
        <3> QED
            BY <3>2, <3>3 DEF Forward, Complete
    <2> QED
        BY <2>2, <2>3 DEF AnswersOK
<1>2. CASE Crash \/ (\E p \in Projects : DeleteProject(p)) \/ UNCHANGED vars
    <2>1. /\ rows' = rows /\ req' = req /\ resp' = resp
          /\ jobsChunking' = jobsChunking
        BY <1>2 DEF Crash, DeleteProject, vars, stores
    <2>2. \A r \in Requests : pc'[r] = pc[r] \/ pc'[r] = "lost"
        BY <1>2 DEF Crash, DeleteProject, vars
    <2>3. \A s \in Requests : Life(s) \in Complete => Life(s)' \in Complete
        BY <2>1, <2>2 DEF Life, Exists, Complete
    <2> QED
        BY <2>1, <2>3 DEF AnswersOK, PublishedJobs, Uploads
<1> QED
    BY <1>1, <1>2 DEF Next

\* As long as the broker keeps the jobs it has accepted, an upload that answered
\* OK without a job has left a source that RetryJob can start, that another
\* retry has started, or that is gone, whatever fails or crashes meanwhile.
THEOREM UnpublishedUploadsCanBeRetried ==
    ASSUME NoLostJobs PROVE Spec => []UnpublishedIsRetryable
<1>1. Init => Queued
    BY DEF Init, Queued
<1>2. Proto /\ Queued /\ [Next]_vars => Queued'
    BY NextQueued
<1>3. Init => AnswersOK
    <2> SUFFICES ASSUME Init PROVE AnswersOK
        OBVIOUS
    <2>1. \A s \in Requests : rows[s].status # "pending"
        BY DEF Init, Absent
    <2>2. \A r \in Uploads : resp[r].code # "OK"
        BY DEF Init, NoResponse, Uploads
    <2> QED
        BY <2>1, <2>2 DEF AnswersOK
<1>4. Proto /\ Queued /\ AnswersOK /\ [Next]_vars => AnswersOK'
    BY NextAnswers
<1>5. Proto /\ AnswersOK => UnpublishedIsRetryable
    <2> SUFFICES ASSUME Proto, AnswersOK, NEW r \in Uploads,
                        resp[r] = [code |-> "OK", job |-> NoJob], Exists(r)
                 PROVE  \/ Retryable(rows[r])
                        \/ rows[r].job \in {e.job : e \in jobsChunking}
        BY DEF UnpublishedIsRetryable
    <2>1. r \in Requests /\ resp[r].code = "OK"
        BY DEF Uploads
    <2>2. Life(r) \in Complete
        BY <2>1 DEF AnswersOK
    <2>3. rows[r].status \in {"uploaded", "pending"}
        BY <2>1, <2>2 DEF Proto, RowsOK, Life, Exists, Complete
    <2> QED
        BY <2>1, <2>3 DEF AnswersOK, PublishedJobs, Retryable
<1> QED
    BY <1>1, <1>2, <1>3, <1>4, <1>5, ProtoHolds, PTL DEF Spec

-----------------------------------------------------------------------------
(***************************************************************************)
(* Uploads that fail tidy up, when an error means that nothing was done    *)
(* and the compensations get through.                                      *)
(***************************************************************************)
ErrorsAreTrue == NoLostReplies /\ <<"storage", "lostReply">> \notin Faults
CleanupWorks == \A f \in FaultKinds : <<"cleanup", f>> \notin Faults

\* The upload is past the point where it can fail, or died with the process.
Finished(s) ==
    /\ s \in Uploads
    /\ \/ pc[s] \in {"publish", "markPending", "lost"}
       \/ pc[s] = "done" /\ resp[s].code = "OK"

FilelessLabels == {"idle", "limits", "save", "put", "undoRow"}

\* Jobs are about uploads that cannot fail any more, and what an upload leaves at
\* each label is what its compensations remove.
TidyOK ==
    /\ \A s \in Requests : rows[s].status \in {"uploaded", "pending"} => Finished(s)
    /\ \A q \in Requests :
           pc[q] \in {"publish", "markPending"} => Finished(req[q].target)
    /\ \A e \in jobsChunking : Finished(e.source)
    /\ \A r \in Uploads :
           /\ pc[r] \in FilelessLabels \/ ~req[r].file => r \notin objects
           /\ pc[r] \in {"put", "setPath", "undoObject"} => req[r].file
           /\ pc[r] = "done" /\ resp[r].code # "OK" => ~Exists(r) /\ r \notin objects

LEMMA FinishedStays ==
    ASSUME Proto, NEW r \in Requests, Accept(r) \/ Step(r), NEW s, Finished(s)
    PROVE  Finished(s)'
<1>1. /\ pc' = [pc EXCEPT ![r] = pc'[r]] /\ req' = req
      /\ pc \in [Requests -> Labels]
      /\ pc[r] \notin {"done", "lost"}
      /\ \A q \in Requests \ {r} : resp'[q] = resp[q]
    BY PcMoves, AnswerMoves DEF Proto, TypeOK
<1>2. CASE s # r
    BY <1>1, <1>2 DEF Finished, Uploads
<1>3. CASE s = r
    <2>1. pc[r] \in {"publish", "markPending"} /\ req[r].op = "upload"
        BY <1>1, <1>3 DEF Finished, Uploads
    <2>2. Publish(r) \/ MarkPending(r)
        BY <2>1 DEF Accept, Step, UploadStep, CheckLimits, Save, PutObject,
            SetPath, MarkUploaded, UndoObject, UndoRow, JobStep, Find,
            DeleteStep, DeleteRow, CancelJob, DeleteObject
    <2>3. \/ pc'[r] = "markPending"
          \/ pc'[r] = "done" /\ resp'[r].code = "OK"
        BY <2>1, <2>2 DEF Publish, MarkPending, Goto, Reply, Proto, TypeOK
    <2> QED
        BY <1>1, <1>3, <2>3 DEF Finished, Uploads
<1> QED
    BY <1>2, <1>3

\* How an upload comes to the labels that TidyOK is about.
LEMMA TidyEdges ==
    ASSUME ErrorsAreTrue, CleanupWorks, Proto, NEW r \in Uploads,
           Accept(r) \/ Step(r)
    PROVE  /\ pc'[r] = "put" => pc[r] = "save" /\ req[r].file /\ objects' = objects
           /\ pc'[r] = "setPath" => pc[r] = "put"
           /\ pc'[r] = "undoObject" =>
                 req[r].file /\ pc[r] \in {"setPath", "markUploaded"}
           /\ pc'[r] = "undoRow" =>
                 \/ pc[r] = "put" /\ objects' = objects
                 \/ pc[r] = "undoObject" /\ objects' = objects \ {r}
                 \/ ~req[r].file /\ objects' = objects
           /\ pc'[r] = "done" /\ resp'[r].code # "OK" =>
                 /\ pc[r] \in FilelessLabels /\ objects' = objects
                 /\ \/ pc[r] \in Before /\ rows' = rows
                    \/ rows' = Without(r)
<1>1. /\ r \in Requests /\ req[r].op = "upload"
      /\ pc \in [Requests -> Labels] /\ resp \in [Requests -> Response]
    BY DEF Uploads, Proto, TypeOK
<1> USE DEF Goto, Reply, GotoOrFail
<1>2. CASE Accept(r)
    BY <1>1, <1>2 DEF Accept, stores, FilelessLabels, Before
<1>3. CASE CheckLimits(r)
    BY <1>1, <1>3 DEF CheckLimits, stores, FilelessLabels, Before
<1>4. CASE Save(r)
    <2> PICK o \in Outcome("db") :
            /\ rows' = IF Applied(o) THEN [rows EXCEPT ![r] = FreshRow] ELSE rows
            /\ GotoOrFail(r, Succeeds(o),
                          IF req[r].file THEN "put" ELSE "markUploaded", "Unavailable")
        BY <1>4 DEF Save
    <2>1. Succeeds(o) \/ ~Applied(o)
        BY DEF ErrorsAreTrue, NoLostReplies, Outcome, Succeeds, Applied, FaultKinds
    <2>2. pc[r] = "save" /\ objects' = objects
        BY <1>4 DEF Save
    <2>3. CASE Succeeds(o)
        BY <1>1, <2>2, <2>3
    <2>4. CASE ~Succeeds(o)
        BY <1>1, <2>1, <2>2, <2>4 DEF FilelessLabels, Before
    <2> QED
        BY <2>3, <2>4
<1>5. CASE PutObject(r)
    <2> PICK o \in Outcome("storage") :
            /\ objects' = IF Applied(o) THEN objects \cup {r} ELSE objects
            /\ Goto(r, IF Succeeds(o) THEN "setPath" ELSE Compensate(r))
        BY <1>5 DEF PutObject
    <2>1. Succeeds(o) \/ ~Applied(o)
        BY DEF ErrorsAreTrue, Outcome, Succeeds, Applied, FaultKinds
    <2>2. pc[r] = "put"
        BY <1>5 DEF PutObject
    <2> QED
        BY <1>1, <2>1, <2>2 DEF Compensate
<1>6. CASE SetPath(r) \/ MarkUploaded(r)
    <2>1. /\ pc[r] \in {"setPath", "markUploaded"} /\ objects' = objects
          /\ pc'[r] \in {"markUploaded", "publish", Compensate(r)}
        BY <1>1, <1>6 DEF SetPath, MarkUploaded
    <2> QED
        BY <1>1, <2>1 DEF Compensate
<1>7. CASE UndoObject(r)
    <2>1. Outcome("cleanup") = {"ok"}
        BY DEF CleanupWorks, Outcome
    <2>2. /\ pc[r] = "undoObject" /\ pc'[r] = "undoRow"
          /\ objects' = objects \ {r}
        BY <1>1, <1>7, <2>1 DEF UndoObject, Applied
    <2> QED
        BY <2>2
<1>8. CASE UndoRow(r)
    <2>1. Outcome("cleanup") = {"ok"}
        BY DEF CleanupWorks, Outcome
    <2>2. /\ pc[r] = "undoRow" /\ pc'[r] = "done"
          /\ rows' = Without(r) /\ objects' = objects
        BY <1>1, <1>8, <2>1 DEF UndoRow, Applied
    <2> QED
        BY <2>2 DEF FilelessLabels
<1>9. CASE JobStep(r)
    BY <1>1, <1>9 DEF JobStep, Publish, MarkPending
<1>10. CASE Find(r) \/ DeleteStep(r)
    BY <1>1, <1>10 DEF Find, DeleteStep, DeleteRow, CancelJob, DeleteObject,
                       Proto, ControlOK, ReadLabels
<1> QED
    BY <1>2, <1>3, <1>4, <1>5, <1>6, <1>7, <1>8, <1>9, <1>10 DEF Step, UploadStep

\* A row that is uploaded or pending after a step was so before, or its upload
\* has just finished, or its job has just been published.
LEMMA UploadedMoves ==
    ASSUME Proto, NEW r \in Requests, Accept(r) \/ Step(r),
           NEW s \in Requests, rows'[s].status \in {"uploaded", "pending"}
    PROVE  \/ rows[s].status \in {"uploaded", "pending"}
           \/ s = r /\ pc[r] = "markUploaded" /\ rows' = WithStatus(r, "uploaded", NoJob)
           \/ pc[r] = "markPending" /\ s = req[r].target
<1>1. rows \in [Requests -> Row] /\ req[r].target \in Requests /\ rows[s] \in Row
    BY DEF Proto, TypeOK, Call
<1>2. CASE rows' = rows BY <1>2
<1>3. CASE rows' = [rows EXCEPT ![r] = FreshRow]
    BY <1>1, <1>3 DEF FreshRow
<1>4. CASE rows' = WithPath(r)
    <2>1. rows'[s] = rows[s] \/ rows'[s] = [rows[s] EXCEPT !.path = TRUE]
        BY <1>1, <1>4 DEF WithPath
    <2> QED
        BY <1>1, <2>1 DEF Row
<1>5. CASE pc[r] = "markUploaded" /\ rows' = WithStatus(r, "uploaded", NoJob)
    BY <1>1, <1>5 DEF WithStatus
<1>6. CASE \E q \in Requests : rows' = Without(q)
    BY <1>1, <1>6 DEF Without, Absent
<1>7. CASE pc[r] = "markPending" /\ rows' = WithStatus(req[r].target, "pending", r)
    BY <1>1, <1>7 DEF WithStatus
<1> QED
    BY <1>1, RowMoves, <1>2, <1>3, <1>4, <1>5, <1>6, <1>7 DEF Proto

\* An upload only goes on to publish once its row says so.
LEMMA MarkedIsFinished ==
    ASSUME NoLostReplies, Proto, NEW r \in Requests, Accept(r) \/ Step(r),
           pc[r] = "markUploaded", rows'[r].status \in {"uploaded", "pending"}
    PROVE  pc'[r] = "publish"
<1>1. MarkUploaded(r)
    BY DEF Accept, Step, UploadStep, CheckLimits, Save, PutObject, SetPath,
        UndoObject, UndoRow, JobStep, Publish, MarkPending, Find, DeleteStep,
        DeleteRow, CancelJob, DeleteObject
<1> PICK o \in Outcome("db") :
        /\ rows' = IF Applied(o) THEN WithStatus(r, "uploaded", NoJob) ELSE rows
        /\ Goto(r, IF Succeeds(o) THEN "publish" ELSE Compensate(r))
    BY <1>1 DEF MarkUploaded
<1>2. Succeeds(o) \/ ~Applied(o)
    BY DEF NoLostReplies, Outcome, Succeeds, Applied, FaultKinds
<1>3. ~Applied(o) => FALSE
    BY DEF Proto, ControlOK
<1> QED
    BY <1>2, <1>3 DEF Goto, Proto, TypeOK

LEMMA NextTidy ==
    ASSUME ErrorsAreTrue, CleanupWorks, Proto, TidyOK, [Next]_vars PROVE TidyOK'
<1>1. ASSUME NEW r \in Requests, Accept(r) \/ Step(r) PROVE TidyOK'
    <2>1. /\ pc' = [pc EXCEPT ![r] = pc'[r]] /\ req' = req
          /\ pc \in [Requests -> Labels]
          /\ rows \in [Requests -> Row]
          /\ pc[r] \notin {"done", "lost"}
          /\ \A q \in Requests : req[q].target \in Requests
          /\ \A q \in Requests \ {r} : resp'[q] = resp[q] /\ pc'[q] = pc[q]
        BY <1>1, PcMoves, AnswerMoves DEF Proto, TypeOK, Call
    <2>2. \A s : Finished(s) => Finished(s)'
        BY <1>1, FinishedStays
    <2>3. ASSUME NEW s \in Requests, rows'[s].status \in {"uploaded", "pending"}
          PROVE  Finished(s)'
        <3>1. CASE rows[s].status \in {"uploaded", "pending"}
            BY <2>2, <3>1 DEF TidyOK
        <3>2. CASE s = r /\ pc[r] = "markUploaded"
            <4>1. pc'[r] = "publish" /\ req[r].op = "upload"
                BY <1>1, <2>3, <3>2, MarkedIsFinished
                DEF ErrorsAreTrue, Proto, ControlOK, UploadLabels
            <4> QED
                BY <2>1, <3>2, <4>1 DEF Finished, Uploads
        <3>3. CASE pc[r] = "markPending" /\ s = req[r].target
            BY <2>2, <3>3 DEF TidyOK
        <3> QED
            BY <1>1, <2>3, <3>1, <3>2, <3>3, UploadedMoves
    <2>4. ASSUME NEW q \in Requests, pc'[q] \in {"publish", "markPending"}
          PROVE  Finished(req[q].target)'
        <3>1. CASE pc[q] \in {"publish", "markPending"}
            <4>1. PICK s : s = req[q].target /\ s = req'[q].target
                BY <2>1
            <4>2. Finished(s)'
                BY <2>2, <3>1, <4>1 DEF TidyOK
            <4> QED
                BY <4>1, <4>2 DEF Finished, Uploads
        <3>2. CASE q = r /\ pc[r] = "markUploaded" /\ pc'[r] = "publish"
            <4>1. req[r].op = "upload" /\ req[r].target = r
                BY <3>2 DEF Proto, ControlOK, UploadLabels, WellFormed
            <4> QED
                BY <2>1, <3>2, <4>1 DEF Finished, Uploads
        <3>3. CASE q = r /\ pc[r] = "find" /\ pc'[r] = "publish"
            <4>1. Life(req[r].target) = "uploaded"
                BY <1>1, <3>3, Learnt
            <4>2. rows[req[r].target].status = "uploaded"
                BY <4>1 DEF Life
            <4> QED
                BY <2>1, <2>2, <3>3, <4>2 DEF TidyOK
        <3> QED
            BY <1>1, <2>1, <2>4, <3>1, <3>2, <3>3, PcEdges
    <2>5. ASSUME NEW e \in jobsChunking' PROVE Finished(e.source)'
        <3>1. CASE e \in jobsChunking
            BY <2>2, <3>1 DEF TidyOK
        <3>2. CASE pc[r] = "publish" /\ e = CreateJobEvent(r)
            <4>1. e.source = req[r].target
                BY <3>2 DEF CreateJobEvent
            <4> QED
                BY <2>2, <3>2, <4>1 DEF TidyOK
        <3> QED
            BY <1>1, <3>1, <3>2, EventMoves
    <2>6. ASSUME NEW q \in Uploads, q # r
          PROVE  /\ q \in objects' => q \in objects
                 /\ Exists(q)' => Exists(q)
        <3>1. q \in Requests
            BY DEF Uploads
        <3>2. q \in objects' => q \in objects
            BY <1>1, <2>6, ObjectMoves
        <3>3. Exists(q)' => Exists(q)
            BY <1>1, <2>1, <2>6, <3>1, RowMoves
            DEF Proto, Exists, WithPath, WithStatus, Without, Absent
        <3> QED
            BY <3>2, <3>3
    <2>7. ASSUME NEW q \in Uploads, q # r
          PROVE  /\ pc'[q] \in FilelessLabels \/ ~req[q].file => q \notin objects'
                 /\ pc'[q] \in {"put", "setPath", "undoObject"} => req[q].file
                 /\ pc'[q] = "done" /\ resp'[q].code # "OK" =>
                        ~Exists(q)' /\ q \notin objects'
        BY <2>1, <2>6, <2>7 DEF TidyOK, Uploads
    <2>8. ASSUME r \in Uploads
          PROVE  /\ pc'[r] \in FilelessLabels \/ ~req[r].file => r \notin objects'
                 /\ pc'[r] \in {"put", "setPath", "undoObject"} => req[r].file
                 /\ pc'[r] = "done" /\ resp'[r].code # "OK" =>
                        ~Exists(r)' /\ r \notin objects'
        <3>1. /\ pc[r] \in FilelessLabels \/ ~req[r].file => r \notin objects
              /\ pc[r] \in {"put", "setPath", "undoObject"} => req[r].file
            BY <2>8 DEF TidyOK
        <3>2. r \in objects' => r \in objects \/ pc[r] = "put"
            BY <1>1, ObjectMoves
        <3>3. pc'[r] \in {"put", "setPath", "undoObject"} => req[r].file
            BY <1>1, <2>8, <3>1, TidyEdges
        <3>4. pc'[r] \in Before => pc[r] \in Before \ {"save"}
            BY <1>1, PcMoves DEF Proto
        <3>5. ~req[r].file => r \notin objects'
            BY <3>1, <3>2
        <3>6. pc'[r] \in Before => r \notin objects'
            BY <3>1, <3>2, <3>4 DEF Before, FilelessLabels
        <3>7. pc'[r] \in {"put", "undoRow"} => r \notin objects'
            BY <1>1, <2>8, <3>1, TidyEdges DEF FilelessLabels
        <3>8. pc'[r] = "done" /\ resp'[r].code # "OK" => r \notin objects'
            BY <1>1, <2>8, <3>1, TidyEdges
        <3>9. pc'[r] = "done" /\ resp'[r].code # "OK" => ~Exists(r)'
            <4>1. pc[r] \in Before => ~Exists(r)
                BY DEF Proto, RowsOK
            <4>2. rows' = Without(r) => ~Exists(r)'
                BY <2>1 DEF Without, Exists, Absent
            <4>3. rows' = rows /\ ~Exists(r) => ~Exists(r)'
                BY DEF Exists
            <4> QED
                BY <1>1, <2>8, <4>1, <4>2, <4>3, TidyEdges
        <3> QED
            BY <3>3, <3>5, <3>6, <3>7, <3>8, <3>9 DEF FilelessLabels, Before
    <2>9. Uploads' = Uploads
        BY <2>1 DEF Uploads
    <2> QED
        BY <2>1, <2>3, <2>4, <2>5, <2>7, <2>8, <2>9 DEF TidyOK
<1>2. CASE Crash \/ (\E p \in Projects : DeleteProject(p)) \/ UNCHANGED vars
    <2>1. /\ rows' = rows /\ req' = req /\ resp' = resp /\ objects' = objects
          /\ jobsChunking' = jobsChunking
        BY <1>2 DEF Crash, DeleteProject, vars, stores
    <2>2. \A r \in Requests :
              \/ pc'[r] = pc[r]
              \/ pc[r] # "done" /\ pc'[r] = "lost"
        BY <1>2 DEF Crash, DeleteProject, vars, InFlight
    <2>3. \A s : Finished(s) => Finished(s)'
        BY <2>1, <2>2 DEF Finished, Uploads
    <2> QED
        BY <2>1, <2>2, <2>3 DEF TidyOK, Uploads, Exists, FilelessLabels
<1> QED
    BY <1>1, <1>2 DEF Next

\* When an error means that the call has had no effect, and the compensations get
\* through, an upload that answered with an error has left no row, no object and
\* no job behind, whatever deletes and retries of it run at the same time.
THEOREM FailedUploadsLeaveNothing ==
    ASSUME ErrorsAreTrue, CleanupWorks PROVE Spec => []FailedUploadLeavesNothing
<1>1. Init => TidyOK
    BY DEF Init, TidyOK, Absent, NoResponse, Uploads
<1>2. Proto /\ TidyOK /\ [Next]_vars => TidyOK'
    BY NextTidy
<1>3. Proto /\ TidyOK => FailedUploadLeavesNothing
    BY DEF FailedUploadLeavesNothing, TidyOK, Finished, Uploads
<1> QED
    BY <1>1, <1>2, <1>3, ProtoHolds, PTL DEF Spec

-----------------------------------------------------------------------------
(***************************************************************************)
(* Scope.  The updates go by row id alone; they are safe because the       *)
(* request has found the row within its scope, or has inserted it.         *)
(***************************************************************************)
ScopeOK ==
    \A r \in Requests :
        pc[r] \in {"deleteRow", "publish", "markPending"} =>
            SameScope(r, req[r].target)

LEMMA ScopeEdges ==
    ASSUME Proto, ScopeOK, NEW r \in Requests, Accept(r) \/ Step(r),
           pc'[r] \in {"deleteRow", "publish", "markPending"}
    PROVE  SameScope(r, req[r].target)
<1> USE DEF Proto, TypeOK, Goto, Reply, GotoOrFail
<1>1. CASE Accept(r) BY <1>1 DEF Accept
<1>2. CASE UploadStep(r)
    <2>1. req[r].target = r
        <3>1. pc[r] \in UploadLabels
            BY <1>2 DEF UploadStep, CheckLimits, Save, PutObject, SetPath,
                        MarkUploaded, UndoObject, UndoRow, UploadLabels
        <3> QED
            BY <3>1 DEF ControlOK, WellFormed
    <2> QED
        BY <2>1 DEF SameScope
<1>3. CASE JobStep(r)
    BY <1>3 DEF JobStep, Publish, MarkPending, ScopeOK
<1>4. CASE Find(r) BY <1>4 DEF Find, Visible
<1>5. CASE DeleteStep(r)
    BY <1>5 DEF DeleteStep, DeleteRow, CancelJob, DeleteObject, AfterDelete
<1> QED
    BY <1>1, <1>2, <1>3, <1>4, <1>5 DEF Step

LEMMA NextScope ==
    ASSUME Proto, ScopeOK, [Next]_vars PROVE ScopeOK'
<1>1. ASSUME NEW r \in Requests, Accept(r) \/ Step(r) PROVE ScopeOK'
    <2>1. /\ pc' = [pc EXCEPT ![r] = pc'[r]]
          /\ req' = req
          /\ pc \in [Requests -> Labels]
        BY <1>1, PcMoves DEF Proto, TypeOK
    <2>2. pc'[r] \in {"deleteRow", "publish", "markPending"} =>
              SameScope(r, req[r].target)
        BY <1>1, ScopeEdges
    <2> QED
        BY <2>1, <2>2 DEF ScopeOK, SameScope
<1>2. CASE Crash \/ (\E p \in Projects : DeleteProject(p)) \/ UNCHANGED vars
    <2>1. req' = req
        BY <1>2 DEF Crash, DeleteProject, vars
    <2>2. \A r \in Requests : pc'[r] = pc[r] \/ pc'[r] = "lost"
        BY <1>2 DEF Crash, DeleteProject, vars
    <2> QED
        BY <2>1, <2>2 DEF ScopeOK, SameScope
<1> QED
    BY <1>1, <1>2 DEF Next

\* Whatever fails, a row is written only by a request of its own user and
\* project.
THEOREM OwnersWriteTheirRows == Spec => OnlyOwnerWrites
<1>1. Init => ScopeOK
    BY DEF Init, ScopeOK
<1>2. Proto /\ ScopeOK /\ [Next]_vars => ScopeOK'
    BY NextScope
<1>3. ASSUME Proto, ScopeOK, [Next]_vars
      PROVE  [\A s \in Requests :
                  rows'[s] # rows[s] =>
                      \E r \in Requests : pc'[r] # pc[r] /\ SameScope(r, s)]_vars
    <2> SUFFICES ASSUME NEW s \in Requests, rows'[s] # rows[s]
                 PROVE  \E r \in Requests : pc'[r] # pc[r] /\ SameScope(r, s)
        OBVIOUS
    <2>1. PICK r \in Requests : Accept(r) \/ Step(r)
        BY <1>3 DEF Next, Crash, DeleteProject, vars, stores
    <2>2. /\ pc'[r] # pc[r]
          /\ rows \in [Requests -> Row]
          /\ req[r].target \in Requests
        BY <1>3, <2>1, PcMoves DEF Proto, TypeOK, Call
    <2>3. s = r \/ (s = req[r].target /\ pc[r] \in {"markPending", "deleteRow"})
        BY <1>3, <2>1, <2>2, RowMoves DEF Proto, WithPath, WithStatus, Without
    <2>4. SameScope(r, s)
        BY <1>3, <2>3 DEF ScopeOK, SameScope
    <2> QED
        BY <2>2, <2>4
<1> QED
    BY <1>1, <1>2, <1>3, ProtoHolds, PTL DEF Spec, OnlyOwnerWrites

-----------------------------------------------------------------------------
(***************************************************************************)
(* The limit.  A request that has counted the rows and is about to insert  *)
(* its own has claimed a place: rows and claims together stay in bounds.   *)
(***************************************************************************)
Places(q) ==
    {s \in Requests : SameScope(q, s) /\ (Exists(s) \/ pc[s] = "save")}

FewInFlight ==
    IsFiniteSet(InFlight) /\ Cardinality(InFlight) <= MaxInFlight

FewPlaces ==
    \A q \in Requests :
        /\ IsFiniteSet(Places(q))
        /\ Cardinality(Places(q)) <= MaxSourcesPerProject + (MaxInFlight - 1)

LEMMA InitLimit == Init => FewInFlight /\ FewPlaces
<1> SUFFICES ASSUME Init PROVE FewInFlight /\ FewPlaces
    OBVIOUS
<1>1. InFlight = {}
    BY DEF Init, InFlight
<1>2. ASSUME NEW q \in Requests PROVE Places(q) = {}
    BY DEF Init, Places, Exists, Absent
<1>3. IsFiniteSet({}) /\ Cardinality({}) = 0
    BY FS_EmptySet
<1>4. 0 <= MaxInFlight /\ 0 <= MaxSourcesPerProject + (MaxInFlight - 1)
    BY BoundsAssumption, LimitAssumption
<1>5. FewInFlight
    BY <1>1, <1>3, <1>4 DEF FewInFlight
<1>6. FewPlaces
    BY <1>2, <1>3, <1>4 DEF FewPlaces
<1> QED
    BY <1>5, <1>6

\* Only Accept lets another request in.
LEMMA NextInFlight ==
    ASSUME TypeOK, FewInFlight, [Next]_vars PROVE FewInFlight'
<1>1. ASSUME NEW r \in Requests, Accept(r)
      PROVE  FewInFlight'
    <2>1. InFlight' \subseteq InFlight \cup {r}
        BY <1>1, PcMoves DEF InFlight, TypeOK
    <2>2. Cardinality(InFlight) < MaxInFlight
        BY <1>1 DEF Accept
    <2>3. /\ IsFiniteSet(InFlight \cup {r})
          /\ Cardinality(InFlight \cup {r}) <= Cardinality(InFlight) + 1
          /\ Cardinality(InFlight) \in Nat
        BY FS_AddElement, FS_CardinalityType DEF FewInFlight
    <2>4. /\ IsFiniteSet(InFlight')
          /\ Cardinality(InFlight') <= Cardinality(InFlight \cup {r})
        BY <2>1, <2>3, FS_Subset
    <2>5. Cardinality(InFlight') \in Nat
          /\ Cardinality(InFlight \cup {r}) \in Nat
        BY <2>3, <2>4, FS_CardinalityType
    <2> QED
        BY <2>2, <2>3, <2>4, <2>5, BoundsAssumption DEF FewInFlight
<1>2. ASSUME InFlight' \subseteq InFlight
      PROVE  FewInFlight'
    <2>1. /\ IsFiniteSet(InFlight')
          /\ Cardinality(InFlight') <= Cardinality(InFlight)
        BY <1>2, FS_Subset DEF FewInFlight
    <2>2. Cardinality(InFlight') \in Nat /\ Cardinality(InFlight) \in Nat
        BY <2>1, FS_CardinalityType DEF FewInFlight
    <2> QED
        BY <2>1, <2>2, BoundsAssumption DEF FewInFlight
<1>3. ASSUME NEW r \in Requests, Step(r)
      PROVE  InFlight' \subseteq InFlight
    <2>1. pc[r] # "idle"
        BY <1>3 DEF Step, UploadStep, JobStep, DeleteStep, CheckLimits, Save,
                    PutObject, SetPath, MarkUploaded, UndoObject, UndoRow,
                    Publish, MarkPending, Find, DeleteRow, CancelJob,
                    DeleteObject
    <2> QED
        BY <1>3, <2>1, PcMoves DEF InFlight, TypeOK
<1>4. CASE Crash \/ (\E p \in Projects : DeleteProject(p)) \/ UNCHANGED vars
    BY <1>2, <1>4 DEF Crash, DeleteProject, vars, InFlight
<1> QED
    BY <1>1, <1>2, <1>3, <1>4 DEF Next

\* A place is taken by a request that has found one free.
LEMMA PlaceMoves ==
    ASSUME TypeOK, NEW r \in Requests, Accept(r) \/ Step(r),
           NEW q \in Requests
    PROVE  \/ Places(q)' \subseteq Places(q)
           \/ /\ SameScope(q, r)
              /\ WithinLimit(r)
              /\ r \in InFlight
              /\ Places(q)' \subseteq {s \in Requests : Visible(q, s)}
                                      \cup InFlight
<1>1. /\ pc' = [pc EXCEPT ![r] = pc'[r]]
      /\ req' = req
      /\ pc \in [Requests -> Labels] /\ rows \in [Requests -> Row]
    BY PcMoves DEF TypeOK
<1>2. CASE pc'[r] = "save"
    <2>1. CheckLimits(r) /\ WithinLimit(r) /\ rows' = rows /\ pc[r] = "limits"
        <3> USE <1>2 DEF Goto, Reply, GotoOrFail, TypeOK
        <3>1. CASE Accept(r) BY <3>1 DEF Accept
        <3>2. CASE UploadStep(r)
            BY <3>2 DEF UploadStep, CheckLimits, Save, PutObject, SetPath,
                        MarkUploaded, UndoObject, UndoRow, Compensate, stores
        <3>3. CASE JobStep(r) BY <3>3 DEF JobStep, Publish, MarkPending
        <3>4. CASE Find(r) BY <3>4 DEF Find
        <3>5. CASE DeleteStep(r)
            BY <3>5 DEF DeleteStep, DeleteRow, CancelJob, DeleteObject,
                        AfterDelete
        <3> QED
            BY <3>1, <3>2, <3>3, <3>4, <3>5 DEF Step
    <2>2. r \in InFlight
        BY <2>1 DEF InFlight
    <2>3. CASE SameScope(q, r)
        <3>1. ASSUME NEW s \in Requests, pc'[s] = "save"
              PROVE  s \in InFlight
            BY <3>1, <1>1, <2>2 DEF InFlight
        <3>2. Places(q)' \subseteq {s \in Requests : Visible(q, s)}
                                   \cup InFlight
            BY <1>1, <2>1, <3>1 DEF Places, SameScope, Visible, Exists
        <3> QED
            BY <2>1, <2>2, <2>3, <3>2
    <2>4. CASE ~SameScope(q, r)
        BY <1>1, <2>1, <2>4 DEF Places, SameScope, Exists
    <2> QED
        BY <2>3, <2>4
<1>3. CASE pc'[r] # "save"
    <2>1. ASSUME NEW s \in Requests, Exists(s)'
          PROVE  Exists(s) \/ pc[s] = "save"
        <3>1. req[r].target \in Requests
            BY DEF TypeOK, Call
        <3>2. \/ rows'[s] = rows[s]
              \/ s = r /\ pc[r] = "save"
              \/ Exists(s)
              \/ rows'[s] = Absent
            BY <1>1, <3>1, RowMoves DEF WithPath, WithStatus, Without
        <3> QED
            BY <2>1, <3>2 DEF Exists, Absent
    <2>2. ASSUME NEW s \in Requests, pc'[s] = "save" PROVE pc[s] = "save"
        BY <1>1, <1>3, <2>2
    <2> QED
        BY <1>1, <2>1, <2>2 DEF Places, SameScope
<1> QED
    BY <1>2, <1>3

LEMMA NextPlaces ==
    ASSUME TypeOK, FewInFlight, FewPlaces, [Next]_vars PROVE FewPlaces'
<1>1. ASSUME NEW q \in Requests, Places(q)' \subseteq Places(q)
      PROVE  /\ IsFiniteSet(Places(q)')
             /\ Cardinality(Places(q)')
                    <= MaxSourcesPerProject + (MaxInFlight - 1)
    <2>1. /\ IsFiniteSet(Places(q)) /\ IsFiniteSet(Places(q)')
          /\ Cardinality(Places(q)') <= Cardinality(Places(q))
        BY <1>1, FS_Subset DEF FewPlaces
    <2>2. Cardinality(Places(q)') \in Nat /\ Cardinality(Places(q)) \in Nat
        BY <2>1, FS_CardinalityType
    <2>3. Cardinality(Places(q)) <= MaxSourcesPerProject + (MaxInFlight - 1)
        BY DEF FewPlaces
    <2> QED
        BY <2>1, <2>2, <2>3, BoundsAssumption, LimitAssumption
<1>2. ASSUME NEW q \in Requests, NEW r \in Requests,
             SameScope(q, r), WithinLimit(r),
             Places(q)' \subseteq {s \in Requests : Visible(q, s)}
                                  \cup InFlight
      PROVE  /\ IsFiniteSet(Places(q)')
             /\ Cardinality(Places(q)')
                    <= MaxSourcesPerProject + (MaxInFlight - 1)
    <2> DEFINE counted == {s \in Requests : Visible(q, s)}
    <2>1. counted = {s \in Requests : Visible(r, s)}
        BY <1>2 DEF Visible, SameScope
    <2>2. counted \subseteq Places(q)
        BY DEF Visible, Places
    <2>3. IsFiniteSet(counted) /\ IsFiniteSet(InFlight)
        BY <2>2, FS_Subset DEF FewPlaces, FewInFlight
    <2>4. Cardinality(counted) < MaxSourcesPerProject
        BY <1>2, <2>1 DEF WithinLimit, Count
    <2> HIDE DEF counted
    <2>5. /\ IsFiniteSet(counted \cup InFlight)
          /\ Cardinality(counted \cup InFlight)
                 = Cardinality(counted) + Cardinality(InFlight)
                       - Cardinality(counted \cap InFlight)
          /\ IsFiniteSet(counted \cap InFlight)
        BY <2>3, FS_Union, FS_Intersection
    <2>6. /\ IsFiniteSet(Places(q)')
          /\ Cardinality(Places(q)') <= Cardinality(counted \cup InFlight)
        BY <1>2, <2>5, FS_Subset DEF counted
    <2>7. /\ Cardinality(counted) \in Nat
          /\ Cardinality(InFlight) \in Nat
          /\ Cardinality(counted \cap InFlight) \in Nat
          /\ Cardinality(Places(q)') \in Nat
        BY <2>3, <2>5, <2>6, FS_CardinalityType
    <2>8. Cardinality(InFlight) <= MaxInFlight
        BY DEF FewInFlight
    <2> QED
        BY <2>4, <2>5, <2>6, <2>7, <2>8, BoundsAssumption, LimitAssumption
<1>3. ASSUME NEW r \in Requests, Accept(r) \/ Step(r)
      PROVE  FewPlaces'
    BY <1>1, <1>2, <1>3, PlaceMoves DEF FewPlaces
<1>4. CASE Crash \/ (\E p \in Projects : DeleteProject(p)) \/ UNCHANGED vars
    <2>1. /\ req' = req /\ rows' = rows
          /\ \A s \in Requests : pc'[s] = "save" => pc[s] = "save"
        BY <1>4 DEF Crash, DeleteProject, vars, stores
    <2>2. ASSUME NEW q \in Requests PROVE Places(q)' \subseteq Places(q)
        BY <2>1 DEF Places, SameScope, Exists
    <2> QED
        BY <1>1, <2>2 DEF FewPlaces
<1> QED
    BY <1>3, <1>4 DEF Next

\* Whatever fails or crashes, requests at the same time overrun the limit of a
\* project by one each at most, the first excepted.
THEOREM LimitOverrunIsBounded == Spec => []LimitRespected
<1>1. ASSUME FewPlaces, NEW r \in Requests
      PROVE  Count(r) <= MaxSourcesPerProject + (MaxInFlight - 1)
    <2> DEFINE counted == {s \in Requests : Visible(r, s)}
    <2>1. counted \subseteq Places(r)
        BY DEF Visible, Places
    <2>2. /\ IsFiniteSet(Places(r)) /\ IsFiniteSet(counted)
          /\ Cardinality(counted) <= Cardinality(Places(r))
        BY <1>1, <2>1, FS_Subset DEF FewPlaces
    <2>3. Cardinality(counted) \in Nat /\ Cardinality(Places(r)) \in Nat
        BY <2>2, FS_CardinalityType
    <2>4. Cardinality(Places(r)) <= MaxSourcesPerProject + (MaxInFlight - 1)
        BY <1>1 DEF FewPlaces
    <2> QED
        BY <2>2, <2>3, <2>4, BoundsAssumption, LimitAssumption DEF Count
<1>2. FewPlaces => LimitRespected
    BY <1>1 DEF LimitRespected
<1> QED
    BY <1>2, InitLimit, NextInFlight, NextPlaces, TypeCorrect, PTL DEF Spec

-----------------------------------------------------------------------------
(***************************************************************************)
(* What the liveness of the service rests on, besides its fairness.        *)
(***************************************************************************)
\* The calls that a request may still have to make.
CallsLeft(l) ==
    CASE l = "idle" -> 8
      [] l \in {"limits", "find"} -> 7
      [] l \in {"save", "deleteRow"} -> 6
      [] l \in {"put", "cancel"} -> 5
      [] l = "setPath" -> 4
      [] l = "markUploaded" -> 3
      [] l \in {"undoObject", "publish"} -> 2
      [] l \in {"undoRow", "markPending", "deleteObject"} -> 1
      [] OTHER -> 0

\* Every call that returns, whatever it returns and whatever the others do, brings
\* its request nearer to its answer: no request goes in circles, and eight calls
\* are enough for any.  With a scheduler that is fair, every request returns.
THEOREM RequestsAdvance ==
    Spec => [][\A r \in Requests :
                 pc'[r] = pc[r] \/ CallsLeft(pc'[r]) < CallsLeft(pc[r])]_vars
<1>1. ASSUME TypeOK, [Next]_vars, NEW r \in Requests
      PROVE  pc'[r] = pc[r] \/ CallsLeft(pc'[r]) < CallsLeft(pc[r])
    <2> USE <1>1
    <2>1. ASSUME NEW q \in Requests, Accept(q) \/ Step(q), q # r
          PROVE  pc'[r] = pc[r]
        BY <2>1, PcMoves DEF TypeOK
    <2>2. ASSUME Accept(r) \/ Step(r)
          PROVE  CallsLeft(pc'[r]) < CallsLeft(pc[r])
        <3> USE DEF TypeOK, Goto, Reply, GotoOrFail, CallsLeft
        <3>1. CASE Accept(r) BY <3>1 DEF Accept
        <3>2. CASE UploadStep(r)
            BY <3>2 DEF UploadStep, CheckLimits, Save, PutObject, SetPath,
                        MarkUploaded, UndoObject, UndoRow, Compensate
        <3>3. CASE JobStep(r) BY <3>3 DEF JobStep, Publish, MarkPending
        <3>4. CASE Find(r) BY <3>4 DEF Find
        <3>5. CASE DeleteStep(r)
            BY <3>5 DEF DeleteStep, DeleteRow, CancelJob, DeleteObject, AfterDelete
        <3> QED
            BY <2>2, <3>1, <3>2, <3>3, <3>4, <3>5 DEF Step
    <2>3. CASE Crash
        BY <2>3 DEF Crash, InFlight, CallsLeft, TypeOK, Labels
    <2> QED
        BY <2>1, <2>2, <2>3 DEF Next, DeleteProject, vars
<1>2. TypeOK /\ [Next]_vars
        => [\A r \in Requests :
              pc'[r] = pc[r] \/ CallsLeft(pc'[r]) < CallsLeft(pc[r])]_vars
    BY <1>1
<1> QED
    BY <1>2, TypeCorrect, PTL DEF Spec

\* No step takes a source back, whatever fails: not an update that comes late, a
\* compensation that races a retry, or a call that takes effect and reports an
\* error.  What is gone is gone for good.
THEOREM SourcesGoForward ==
    Spec => [][\A s \in Requests : Forward(Life(s), Life(s)')]_vars
<1>1. ASSUME Proto, [Next]_vars
      PROVE  [\A s \in Requests : Forward(Life(s), Life(s)')]_vars
    BY <1>1, LifeForward
<1> QED
    BY <1>1, ProtoHolds, PTL DEF Spec

\* A row that says "uploading" has its upload behind it.
UploadingIsUnderWay ==
    \A s \in Requests :
        rows[s].status = "uploading" =>
            pc[s] \in {"put", "setPath", "markUploaded", "undoObject", "undoRow", "lost"}

LEMMA UploadingMoves ==
    ASSUME NoLostReplies, <<"cleanup", "refused">> \notin Faults, Proto,
           NEW r \in Requests, Accept(r) \/ Step(r), rows'[r].status = "uploading"
    PROVE  \/ pc[r] \notin {"save", "put", "setPath", "markUploaded", "undoObject",
                            "undoRow"}
           \/ pc'[r] \in {"put", "setPath", "markUploaded", "undoObject", "undoRow"}
<1> USE DEF Proto, TypeOK, Goto, Reply, GotoOrFail
<1>1. CASE Save(r)
    <2>1. PICK o \in Outcome("db") :
              /\ rows' = IF Applied(o) THEN [rows EXCEPT ![r] = FreshRow] ELSE rows
              /\ GotoOrFail(r, Succeeds(o),
                            IF req[r].file THEN "put" ELSE "markUploaded",
                            "Unavailable")
        BY <1>1 DEF Save
    <2>2. Applied(o) => Succeeds(o)
        BY DEF NoLostReplies, Outcome, Applied, Succeeds, FaultKinds
    <2>3. rows[r].status # "uploading"
        BY <1>1 DEF Save, RowsOK, Exists, Before
    <2> QED
        BY <2>1, <2>2, <2>3
<1>2. CASE PutObject(r) \/ SetPath(r) \/ UndoObject(r)
    BY <1>2 DEF PutObject, SetPath, UndoObject, Compensate
<1>3. CASE MarkUploaded(r)
    <2>1. PICK o \in Outcome("db") :
              /\ rows' = IF Applied(o) THEN WithStatus(r, "uploaded", NoJob) ELSE rows
              /\ Goto(r, IF Succeeds(o) THEN "publish" ELSE Compensate(r))
        BY <1>3 DEF MarkUploaded
    <2>2. Succeeds(o) => rows'[r].status # "uploading"
        BY <2>1, NoDrops DEF WithStatus, Exists, Row
    <2> QED
        BY <2>1, <2>2 DEF Compensate
<1>4. CASE UndoRow(r)
    <2>1. \A o \in Outcome("cleanup") : Applied(o)
        BY FaultsAssumption DEF Outcome, Applied, FaultKinds, Dependencies
    <2> QED
        BY <1>4, <2>1 DEF UndoRow, Without, Absent
<1> QED
    BY <1>1, <1>2, <1>3, <1>4
    DEF Accept, Step, UploadStep, CheckLimits, JobStep, Publish, MarkPending,
        Find, DeleteStep, DeleteRow, CancelJob, DeleteObject

\* A row stays in "uploading" only while its upload is under way, or when that died
\* with the process: every way out of an upload completes the row or removes it,
\* as long as errors of the database are true and the removal is not refused.
THEOREM UploadingEndsWithItsUpload ==
    ASSUME NoLostReplies, <<"cleanup", "refused">> \notin Faults
    PROVE  Spec => []UploadingIsUnderWay
<1>1. Init => UploadingIsUnderWay
    BY DEF Init, UploadingIsUnderWay, Absent
<1>2. ASSUME Proto, UploadingIsUnderWay, [Next]_vars PROVE UploadingIsUnderWay'
    <2> USE <1>2
    <2> SUFFICES ASSUME NEW s \in Requests, rows'[s].status = "uploading"
                 PROVE  pc'[s] \in {"put", "setPath", "markUploaded", "undoObject",
                                    "undoRow", "lost"}
        BY DEF UploadingIsUnderWay
    <2>1. ASSUME NEW r \in Requests, Accept(r) \/ Step(r)
          PROVE  pc'[s] \in {"put", "setPath", "markUploaded", "undoObject",
                             "undoRow", "lost"}
        <3>1. /\ pc' = [pc EXCEPT ![r] = pc'[r]] /\ pc[r] # "lost"
              /\ rows \in [Requests -> Row] /\ pc \in [Requests -> Labels]
            BY <2>1, PcMoves DEF Proto, TypeOK
        <3>2. rows[s].status = "uploading" \/ (s = r /\ pc[r] = "save")
            <4>1. /\ WithPath(r)[s].status = rows[s].status
                  /\ \A q \in Requests : Without(q)[s].status # "uploading"
                                            \/ Without(q)[s] = rows[s]
                BY <3>1 DEF WithPath, Without, Absent, Row
            <4>2. ASSUME NEW q \in Requests, NEW j
                  PROVE  /\ \/ WithStatus(q, "uploaded", j)[s].status = "uploaded"
                            \/ WithStatus(q, "uploaded", j)[s] = rows[s]
                         /\ \/ WithStatus(q, "pending", j)[s].status = "pending"
                            \/ WithStatus(q, "pending", j)[s] = rows[s]
                BY <3>1, <4>2 DEF WithStatus, Row
            <4>3. s # r => [rows EXCEPT ![r] = FreshRow][s] = rows[s]
                BY <3>1
            <4>4. req[r].target \in Requests
                BY DEF Proto, TypeOK, Call
            <4>5. \/ rows' = rows
                  \/ pc[r] = "save" /\ rows' = [rows EXCEPT ![r] = FreshRow]
                  \/ rows' = WithPath(r)
                  \/ rows' = WithStatus(r, "uploaded", NoJob)
                  \/ \E q \in Requests : rows' = Without(q)
                  \/ rows' = WithStatus(req[r].target, "pending", r)
                BY <2>1, <4>4, RowMoves DEF Proto
            <4>6. CASE rows' = rows BY <4>6
            <4>7. CASE pc[r] = "save" /\ rows' = [rows EXCEPT ![r] = FreshRow]
                BY <4>3, <4>7
            <4>8. CASE rows' = WithPath(r) BY <4>1, <4>8
            <4>9. CASE rows' = WithStatus(r, "uploaded", NoJob) BY <4>2, <4>9
            <4>10. CASE \E q \in Requests : rows' = Without(q) BY <4>1, <4>10
            <4>11. CASE rows' = WithStatus(req[r].target, "pending", r)
                BY <4>2, <4>4, <4>11
            <4> QED
                BY <4>5, <4>6, <4>7, <4>8, <4>9, <4>10, <4>11
        <3>3. CASE s # r
            BY <3>1, <3>2, <3>3 DEF UploadingIsUnderWay
        <3>4. CASE s = r
            <4>1. pc[r] \in {"save", "put", "setPath", "markUploaded", "undoObject",
                             "undoRow"}
                BY <3>1, <3>2, <3>4 DEF UploadingIsUnderWay
            <4> QED
                BY <2>1, <3>4, <4>1, UploadingMoves
        <3> QED
            BY <3>3, <3>4
    <2>2. CASE Crash \/ (\E p \in Projects : DeleteProject(p)) \/ UNCHANGED vars
        <3>1. rows' = rows /\ \A r \in Requests : pc'[r] = pc[r] \/ pc'[r] = "lost"
            BY <2>2 DEF Crash, DeleteProject, vars, stores
        <3> QED
            BY <3>1 DEF UploadingIsUnderWay
    <2> QED
        BY <2>1, <2>2 DEF Next
<1> QED
    BY <1>1, <1>2, ProtoHolds, PTL DEF Spec


\* A source that is pending shows a job that was published for it.
PendingIsSubmitted ==
    \A s \in Requests :
        rows[s].status = "pending" =>
            [job |-> rows[s].job, source |-> s] \in Submitted

\* As long as the broker keeps what it has accepted, "pending" is never an empty
\* promise: neither a failed update nor a retry that comes between shows a job
\* that is not on its way, or that of another source.
THEOREM PendingWasSubmitted ==
    ASSUME NoLostJobs PROVE Spec => []PendingIsSubmitted
<1>1. Init => Queued /\ PendingIsSubmitted
    BY DEF Init, Queued, PendingIsSubmitted, Absent
<1>2. Proto /\ Queued /\ [Next]_vars => Queued'
    BY NextQueued
<1>3. Proto /\ Queued /\ PendingIsSubmitted /\ [Next]_vars => PendingIsSubmitted'
    <2> SUFFICES ASSUME Proto, Queued, PendingIsSubmitted, [Next]_vars,
                        NEW s \in Requests, rows'[s].status = "pending"
                 PROVE  [job |-> rows'[s].job, source |-> s] \in Submitted'
        BY DEF PendingIsSubmitted
    <2>1. ASSUME NEW r \in Requests, Accept(r) \/ Step(r)
          PROVE  [job |-> rows'[s].job, source |-> s] \in Submitted'
        <3>1. Submitted \subseteq Submitted'
            BY <2>1, PublishMoves DEF Submitted
        <3> QED
            BY <2>1, <3>1, PendingMoves DEF PendingIsSubmitted, Queued
    <2>2. CASE Crash \/ (\E p \in Projects : DeleteProject(p)) \/ UNCHANGED vars
        <3>1. rows' = rows /\ jobsChunking' = jobsChunking
            BY <2>2 DEF Crash, DeleteProject, vars, stores
        <3> QED
            BY <3>1 DEF PendingIsSubmitted, Submitted
    <2> QED
        BY <2>1, <2>2 DEF Next
<1> QED
    BY <1>1, <1>2, <1>3, ProtoHolds, PTL DEF Spec
=============================================================================
