-------------------------- MODULE Tenancy_proofs --------------------------
(***************************************************************************)
(* Theorems about Tenancy, for any number of users, projects, requests and *)
(* reads, any pages and any faults and crashes.                            *)
(***************************************************************************)
EXTENDS Tenancy, SourceService_proofs

-----------------------------------------------------------------------------
(***************************************************************************)
(* What reads and projects leave alone.                                    *)
(***************************************************************************)
\* All variables of SourceService but the projects.
others == <<rows, objects, jobsChunking, jobsCancel, req, pc, seen, resp, crashes>>

\* A step is one of SourceService, or leaves all of that but the projects alone.
LEMMA TenancySteps ==
    ASSUME [TenancyNext]_tenancyVars
    PROVE  \/ Next /\ UNCHANGED <<owner, reads>>
           \/ (\E u \in Users, p \in Projects : CreateProject(u, p)) /\ UNCHANGED others
           \/ \E c \in Readers : ReadStep(c) /\ UNCHANGED <<vars, owner>>
           \/ UNCHANGED <<vars, owner, reads>>
<1>1. CASE OperationStep
    BY <1>1 DEF OperationStep
<1>2. CASE \E u \in Users, p \in Projects : CreateProject(u, p)
    BY <1>2 DEF CreateProject, stores, others
<1>3. ASSUME NEW c \in Readers, ReadStep(c)
      PROVE  UNCHANGED <<vars, owner>>
    BY <1>3 DEF ReadStep, Arrive, TurnAway, CountProjects, ReadPage,
                CheckAccess, ListSources, GetSource
<1>4. CASE UNCHANGED tenancyVars
    BY <1>4 DEF tenancyVars
<1> QED
    BY <1>1, <1>2, <1>3, <1>4 DEF TenancyNext

\* The projects may change under the invariant of the operations.
LEMMA ProtoIgnoresProjects ==
    ASSUME Proto, UNCHANGED others,
           projects' \in [Projects -> Users \cup {NoUser}]
    PROVE  Proto'
BY DEF Proto, TypeOK, RowsOK, ControlOK, TopicsOK, WellFormed, CancelMeansGone,
       Life, Exists, others

LEMMA CreateType ==
    ASSUME TypeOK, NEW u \in Users, NEW p \in Projects, CreateProject(u, p)
    PROVE  projects' \in [Projects -> Users \cup {NoUser}]
BY DEF TypeOK, CreateProject

LEMMA TenancyProto ==
    ASSUME Proto, [TenancyNext]_tenancyVars PROVE Proto'
<1>1. CASE Next
    BY <1>1, NextProto
<1>2. ASSUME NEW u \in Users, NEW p \in Projects, CreateProject(u, p),
             UNCHANGED others
      PROVE  Proto'
    BY <1>2, CreateType, ProtoIgnoresProjects DEF Proto
<1>3. CASE UNCHANGED vars
    BY <1>3, NextProto
<1> QED
    BY <1>1, <1>2, <1>3, TenancySteps

-----------------------------------------------------------------------------
(***************************************************************************)
(* Types.                                                                  *)
(***************************************************************************)
LEMMA EmptyType ==
    ASSUME NEW code \in Codes \cup {"Unauthenticated"}
    PROVE  Empty(code) \in Answer
BY DEF Empty, Answer

LEMMA AnsweredType ==
    ASSUME ReadsTypeOK, NEW c \in Readers, NEW a \in Answer, Answered(c, a)
    PROVE  /\ answer' \in [Readers -> Answer]
           /\ at' \in [Readers -> {"idle", "count", "page", "check", "read",
                                   "done"}]
BY DEF ReadsTypeOK, Answered, Goes

LEMMA ReadsType ==
    ASSUME TypeOK, ReadsTypeOK, [TenancyNext]_tenancyVars PROVE ReadsTypeOK'
<1> USE DEF ReadsTypeOK
<1>1. CASE UNCHANGED <<owner, reads>>
    BY <1>1 DEF reads
<1>2. ASSUME NEW u \in Users, NEW p \in Projects, CreateProject(u, p)
      PROVE  ReadsTypeOK'
    BY <1>2 DEF CreateProject, reads
<1>3. ASSUME NEW c \in Readers, ReadStep(c) PROVE ReadsTypeOK'
    <2>0. Codes = Codes \cup {"none", "OK", "InvalidArgument", "Unavailable",
                              "PermissionDenied", "NotFound", "Internal"}
        BY DEF Codes
    <2>1. CASE Arrive(c)
        BY <2>1 DEF Arrive, Goes
    <2>2. CASE TurnAway(c)
        BY <2>2, EmptyType, AnsweredType DEF TurnAway
    <2>3. CASE CountProjects(c)
        <3>1. CASE Answered(c, Empty("InvalidArgument"))
            BY <2>0, <2>3, <3>1, EmptyType, AnsweredType
            DEF CountProjects, Own, Issued
        <3>2. CASE Goes(c, "page") /\ UNCHANGED answer
            BY <2>3, <3>2 DEF CountProjects, Own, Issued, Goes
        <3> QED
            BY <2>3, <3>1, <3>2 DEF CountProjects
    <2>4. CASE ReadPage(c)
        <3>1. \A page \in SUBSET Match(call[c].user) :
                  [Empty("OK") EXCEPT !.projects = page] \in Answer
            BY <2>0 DEF Match, Own, Empty, Answer
        <3> QED
            BY <2>0, <2>4, <3>1, EmptyType, AnsweredType DEF ReadPage
    <2>5. CASE CheckAccess(c)
        BY <2>0, <2>5, EmptyType, AnsweredType DEF CheckAccess, Goes
    <2>6. \A found \in SUBSET Requests : \A signed \in SUBSET Signable(found) :
              Details(found, signed) \in Answer
        BY <2>0 DEF Signable, Details, Empty, Answer
    <2>7. CASE ListSources(c)
        BY <2>0, <2>6, <2>7, EmptyType, AnsweredType DEF ListSources, InScope
    <2>8. CASE GetSource(c)
        BY <2>0, <2>6, <2>8, EmptyType, AnsweredType DEF GetSource, InScope
    <2> QED
        BY <1>3, <2>1, <2>2, <2>3, <2>4, <2>5, <2>7, <2>8 DEF ReadStep
<1> QED
    BY <1>1, <1>2, <1>3, TenancySteps

LEMMA InitReadsType == TenancyInit => ReadsTypeOK
BY DEF TenancyInit, ReadsTypeOK, Init, Empty, Answer, Codes

\* Every variable of the reads keeps its type, for any calls, pages and sizes.
THEOREM TenancyTypeCorrect == TenancySpec => [](TypeOK /\ ReadsTypeOK)
<1>1. TenancyInit => Proto /\ ReadsTypeOK
    BY InitProto, InitReadsType DEF TenancyInit
<1>2. Proto /\ ReadsTypeOK /\ [TenancyNext]_tenancyVars => Proto' /\ ReadsTypeOK'
    BY TenancyProto, ReadsType DEF Proto
<1>3. Proto => TypeOK
    BY DEF Proto
<1> QED
    BY <1>1, <1>2, <1>3, PTL DEF TenancySpec

-----------------------------------------------------------------------------
(***************************************************************************)
(* Whose projects and sources an answer holds.                             *)
(***************************************************************************)
\* A project has one owner, until it is gone for good.
OwnersOK == \A p \in Projects : projects[p] \in {owner[p], NoUser}

\* A project of the user that was there before the count, and is there at the
\* page, was there when it was counted.
CallsOK ==
    \A c \in Readers :
        /\ at[c] \in {"count", "page"} => call[c] \in ListProjectsCall
        /\ at[c] \in {"check", "read"} =>
               call[c] \in ListSourcesCall \cup GetSourceCall
        /\ at[c] \in {"idle", "count", "page", "check", "read"} =>
               answer[c].projects = {} /\ answer[c].sources = {}
        /\ known[c] \subseteq Issued /\ answer[c].projects \subseteq Issued
        /\ at[c] = "page" =>
               \A p \in known[c] \ counted[c] :
                   owner[p] = call[c].user => projects[p] = NoUser

\* What a step does to the projects.
LEMMA ProjectMoves ==
    ASSUME TypeOK, ReadsTypeOK, OwnersOK, [TenancyNext]_tenancyVars
    PROVE  /\ OwnersOK'
           /\ \A p \in Projects :
                  owner[p] # NoUser => /\ owner'[p] = owner[p]
                                       /\ projects'[p] \in {projects[p], NoUser}
<1> USE DEF TypeOK, ReadsTypeOK, OwnersOK
<1>1. CASE Next /\ UNCHANGED <<owner, reads>>
    <2>1. UNCHANGED projects \/ \E p \in Projects : DeleteProject(p)
        BY <1>1 DEF Next, Accept, Step, UploadStep, CheckLimits, Save, PutObject,
            SetPath, MarkUploaded, UndoObject, UndoRow, JobStep, Publish,
            MarkPending, Find, DeleteStep, DeleteRow, CancelJob, DeleteObject,
            Crash
    <2> QED
        BY <1>1, <2>1 DEF DeleteProject
<1>2. ASSUME NEW u \in Users, NEW q \in Projects, CreateProject(u, q)
      PROVE  /\ OwnersOK'
             /\ \A p \in Projects :
                    owner[p] # NoUser => /\ owner'[p] = owner[p]
                                         /\ projects'[p] = projects[p]
    BY <1>2 DEF CreateProject, Issued
<1>3. CASE UNCHANGED <<vars, owner>>
    BY <1>3 DEF vars
<1> QED
    BY <1>1, <1>2, <1>3, TenancySteps

TenancyInv ==
    /\ Proto /\ ReadsTypeOK /\ OwnersOK /\ CallsOK
    /\ PageIsCounted /\ ReadsAreOwn

\* A reader that does not move keeps all that it knows.
LEMMA QuietReads ==
    ASSUME TenancyInv, [TenancyNext]_tenancyVars, UNCHANGED reads
    PROVE  CallsOK' /\ PageIsCounted' /\ ReadsAreOwn'
<1>1. /\ \A p \in Projects :
            owner[p] # NoUser => /\ owner'[p] = owner[p]
                                 /\ projects'[p] \in {projects[p], NoUser}
      /\ Issued \subseteq Issued'
    BY ProjectMoves DEF TenancyInv, Proto, Issued
<1>2. req' = req
    BY PcMoves, TenancySteps
    DEF TenancyInv, Proto, Next, Crash, DeleteProject, others, vars
<1>3. NoUser \notin Users /\ \A c \in Readers : known[c] \subseteq Issued
    BY NoUserAssumption DEF TenancyInv, CallsOK
<1>4. CallsOK'
    <2> SUFFICES ASSUME NEW c \in Readers, at[c] = "page",
                        NEW p \in known[c] \ counted[c],
                        owner'[p] = call[c].user
                 PROVE  projects'[p] = NoUser
        BY <1>1, <1>3 DEF TenancyInv, CallsOK, reads
    <2>1. owner[p] # NoUser /\ p \in Projects
        BY <1>3 DEF Issued
    <2> QED
        BY <1>1, <2>1 DEF TenancyInv, CallsOK
<1>5. ReadsAreOwn'
    <2> SUFFICES ASSUME NEW c \in Readers, NEW p \in answer[c].projects
                 PROVE  owner'[p] = call[c].user
        BY <1>2 DEF TenancyInv, ReadsAreOwn, reads
    <2>1. p \in Projects /\ owner[p] = call[c].user /\ owner[p] # NoUser
        BY DEF TenancyInv, ReadsAreOwn, CallsOK, Issued
    <2> QED
        BY <1>1, <2>1
<1> QED
    BY <1>4, <1>5 DEF TenancyInv, PageIsCounted, reads

\* A step of one reader leaves the others alone.
LEMMA OneReader ==
    ASSUME ReadsTypeOK, NEW c \in Readers, ReadStep(c)
    PROVE  \A d \in Readers \ {c} :
               /\ call'[d] = call[d] /\ at'[d] = at[d]
               /\ counted'[d] = counted[d] /\ known'[d] = known[d]
               /\ answer'[d] = answer[d]
BY DEF ReadsTypeOK, ReadStep, Arrive, TurnAway, CountProjects, ReadPage,
       CheckAccess, ListSources, GetSource, Answered, Goes

\* What is asked of one reader after its step.
ReaderOK(c) ==
    /\ at[c] \in {"count", "page"} => call[c] \in ListProjectsCall
    /\ at[c] \in {"check", "read"} =>
           call[c] \in ListSourcesCall \cup GetSourceCall
    /\ at[c] \in {"idle", "count", "page", "check", "read"} =>
           answer[c].projects = {} /\ answer[c].sources = {}
    /\ known[c] \subseteq Issued /\ answer[c].projects \subseteq Issued
    /\ at[c] = "page" =>
           \A p \in known[c] \ counted[c] :
               owner[p] = call[c].user => projects[p] = NoUser
    /\ answer[c].projects \cap known[c] \subseteq counted[c]
    /\ \A p \in answer[c].projects : owner[p] = call[c].user
    /\ \A s \in answer[c].sources : /\ req[s].user = call[c].user
                                    /\ req[s].project = call[c].project

LEMMA ReaderIsInv ==
    (\A c \in Readers : ReaderOK(c)) <=> CallsOK /\ PageIsCounted /\ ReadsAreOwn
BY DEF ReaderOK, CallsOK, PageIsCounted, ReadsAreOwn

LEMMA EmptyIsOK ==
    ASSUME TenancyInv, NEW c \in Readers, NEW code, Answered(c, Empty(code)),
           UNCHANGED <<call, counted, known, owner, projects, req>>
    PROVE  ReaderOK(c)'
<1>1. at'[c] = "done" /\ answer'[c] = Empty(code)
    BY DEF Answered, Goes, TenancyInv, ReadsTypeOK
<1> QED
    BY <1>1 DEF Empty, TenancyInv, CallsOK, ReaderOK, Issued

LEMMA ReadingIsOK ==
    ASSUME TenancyInv, NEW c \in Readers, ReadStep(c), UNCHANGED <<vars, owner>>
    PROVE  ReaderOK(c)'
<1> USE DEF TenancyInv, ReadsTypeOK
<1>0. UNCHANGED <<projects, req, rows>> /\ Issued' = Issued
    BY DEF vars, Issued
<1>1. ReaderOK(c)
    BY ReaderIsInv
<1>2. CASE Arrive(c)
    BY <1>0, <1>1, <1>2 DEF Arrive, Goes, ReaderOK, ListProjectsCall,
        ListSourcesCall, GetSourceCall
<1>3. CASE TurnAway(c)
    BY <1>0, <1>3, EmptyIsOK DEF TurnAway
<1>4. CASE CountProjects(c)
    <2>1. CASE Answered(c, Empty("InvalidArgument")) /\ UNCHANGED <<counted, known>>
        BY <1>0, <1>4, <2>1, EmptyIsOK DEF CountProjects
    <2>2. CASE /\ counted' = [counted EXCEPT ![c] = Own(call[c].user)]
               /\ known' = [known EXCEPT ![c] = Issued]
               /\ Goes(c, "page") /\ UNCHANGED answer
        <3>1. /\ at'[c] = "page" /\ counted'[c] = Own(call[c].user)
              /\ known'[c] = Issued /\ answer' = answer /\ call' = call
            BY <1>4, <2>2 DEF CountProjects, Goes
        <3>2. \A p \in Issued \ Own(call[c].user) :
                  owner[p] = call[c].user => projects[p] = NoUser
            BY DEF Issued, Own, OwnersOK
        <3>3. at[c] = "count"
            BY <1>4 DEF CountProjects
        <3> QED
            BY <1>0, <1>1, <3>1, <3>2, <3>3 DEF ReaderOK
    <2> QED
        BY <1>4, <2>1, <2>2 DEF CountProjects
<1>5. CASE ReadPage(c)
    <2>1. CASE Answered(c, Empty("InvalidArgument"))
        BY <1>0, <1>5, <2>1, EmptyIsOK DEF ReadPage
    <2>2. ASSUME NEW page \in SUBSET Match(call[c].user),
                 Answered(c, [Empty("OK") EXCEPT !.projects = page])
          PROVE  ReaderOK(c)'
        <3>1. /\ at[c] = "page" /\ call[c] \in ListProjectsCall
              /\ UNCHANGED <<call, counted, known>>
            BY <1>1, <1>5 DEF ReadPage, ReaderOK
        <3>2. /\ at'[c] = "done" /\ answer'[c].projects = page
              /\ answer'[c].sources = {}
            BY <2>2 DEF Answered, Goes, Empty
        <3>3. call[c].user \in Users /\ NoUser \notin Users
            BY <3>1, NoUserAssumption DEF ListProjectsCall
        <3>4. \A p \in page : /\ p \in Projects /\ projects[p] = call[c].user
                              /\ owner[p] = call[c].user
            BY <3>3 DEF Match, Own, OwnersOK
        <3>5. page \subseteq Issued /\ page \cap known[c] \subseteq counted[c]
            BY <1>1, <3>1, <3>3, <3>4 DEF Issued, ReaderOK
        <3> QED
            BY <1>0, <1>1, <3>1, <3>2, <3>4, <3>5 DEF ReaderOK
    <2> QED
        BY <1>5, <2>1, <2>2 DEF ReadPage
<1>6. CASE CheckAccess(c)
    <2>1. CASE Goes(c, "read") /\ UNCHANGED answer
        BY <1>0, <1>1, <1>6, <2>1 DEF CheckAccess, Goes, ReaderOK
    <2> QED
        BY <1>0, <1>6, <2>1, EmptyIsOK DEF CheckAccess
<1>7. ASSUME NEW found \in SUBSET InScope(call[c]),
             NEW signed \in SUBSET Signable(found),
             Answered(c, Details(found, signed)),
             UNCHANGED <<call, counted, known>>
      PROVE  ReaderOK(c)'
    <2>1. /\ at'[c] = "done" /\ answer'[c].projects = {}
          /\ answer'[c].sources = found
        BY <1>7 DEF Answered, Goes, Details, Empty
    <2> QED
        BY <1>0, <1>1, <1>7, <2>1 DEF ReaderOK, InScope
<1>8. CASE ListSources(c)
    <2>1. CASE Answered(c, Empty("Internal"))
        BY <1>0, <1>8, <2>1, EmptyIsOK DEF ListSources
    <2> QED
        BY <1>7, <1>8, <2>1 DEF ListSources
<1>9. CASE GetSource(c)
    <2>1. CASE Answered(c, Empty("Internal")) \/ Answered(c, Empty("NotFound"))
        BY <1>0, <1>9, <2>1, EmptyIsOK DEF GetSource
    <2> QED
        BY <1>7, <1>9, <2>1 DEF GetSource
<1> QED
    BY <1>2, <1>3, <1>4, <1>5, <1>6, <1>8, <1>9 DEF ReadStep

LEMMA NextTenancy ==
    ASSUME TenancyInv, [TenancyNext]_tenancyVars PROVE TenancyInv'
<1>1. Proto' /\ ReadsTypeOK' /\ OwnersOK'
    BY TenancyProto, ReadsType, ProjectMoves DEF TenancyInv, Proto
<1>2. CASE UNCHANGED reads
    BY <1>1, <1>2, QuietReads DEF TenancyInv
<1>3. ASSUME NEW c \in Readers, ReadStep(c), UNCHANGED <<vars, owner>>
      PROVE  CallsOK' /\ PageIsCounted' /\ ReadsAreOwn'
    <2>1. ReaderOK(c)'
        BY <1>3, ReadingIsOK
    <2>2. ASSUME NEW d \in Readers \ {c} PROVE ReaderOK(d)'
        BY <1>3, OneReader, ReaderIsInv DEF TenancyInv, ReaderOK, vars, Issued
    <2>3. \A d \in Readers : ReaderOK(d)'
        BY <2>1, <2>2
    <2> QED
        BY <2>3 DEF ReaderOK, CallsOK, PageIsCounted, ReadsAreOwn
<1> QED
    BY <1>1, <1>2, <1>3, TenancySteps DEF TenancyInv, CreateProject

LEMMA InitTenancyInv == TenancyInit => TenancyInv
BY InitProto, InitReadsType
   DEF TenancyInit, TenancyInv, OwnersOK, CallsOK, PageIsCounted, ReadsAreOwn,
       Empty, Issued

\* Users are shown their own projects and sources only, the sources from the
\* project that they name, whatever is created, written and deleted meanwhile.
THEOREM AnswersStayWithTheirUser == TenancySpec => []ReadsAreOwn
<1>1. TenancyInv => ReadsAreOwn
    BY DEF TenancyInv
<1> QED
    BY <1>1, InitTenancyInv, NextTenancy, PTL DEF TenancySpec

\* The page of a list of projects shows nothing that the total has not counted
\* but what was created after the count.
THEOREM PagesWereCounted == TenancySpec => []PageIsCounted
<1>1. TenancyInv => PageIsCounted
    BY DEF TenancyInv
<1> QED
    BY <1>1, InitTenancyInv, NextTenancy, PTL DEF TenancySpec

-----------------------------------------------------------------------------
(***************************************************************************)
(* Files behind the URLs, whichever calls fail and wherever the process    *)
(* dies.                                                                   *)
(***************************************************************************)
\* A row has a path only if its file is there, unless its upload failed.
PathsOK ==
    \A s \in Requests :
        /\ Exists(s) /\ rows[s].path => s \in objects \/ Failed(s)
        /\ Exists(s) /\ pc[s] = "setPath" => s \in objects

\* A step of one operation, a crash, or neither.
LEMMA OperationSteps ==
    ASSUME [TenancyNext]_tenancyVars
    PROVE  \/ (\E r \in Requests : Accept(r) \/ Step(r)) /\ UNCHANGED reads
           \/ Crash /\ UNCHANGED reads
           \/ UNCHANGED <<others, reads>>
           \/ UNCHANGED others /\ \E c \in Readers : ReadStep(c) /\ UNCHANGED vars
<1>1. \A p \in Projects : DeleteProject(p) => UNCHANGED others
    BY DEF DeleteProject, stores, others
<1>2. CASE Next /\ UNCHANGED reads
    BY <1>1, <1>2 DEF Next, others, reads
<1>3. ASSUME NEW u \in Users, NEW p \in Projects, CreateProject(u, p)
      PROVE  UNCHANGED reads
    BY <1>3 DEF CreateProject
<1>4. UNCHANGED vars => UNCHANGED others
    BY DEF vars, others
<1> QED
    BY <1>2, <1>3, <1>4, TenancySteps DEF others, reads, vars

LEMMA FailedStays ==
    ASSUME Proto, NEW r \in Requests, Accept(r) \/ Step(r),
           NEW s \in Requests, Failed(s)
    PROVE  Failed(s)'
<1>1. /\ pc' = [pc EXCEPT ![r] = pc'[r]] /\ pc \in [Requests -> Labels]
      /\ pc[r] \notin {"done", "lost"}
      /\ \A q \in Requests \ {r} : resp'[q] = resp[q]
    BY PcMoves, AnswerMoves DEF Proto, TypeOK
<1>2. CASE s # r
    BY <1>1, <1>2 DEF Failed
<1>3. CASE s = r
    <2>1. pc[r] = "undoRow"
        BY <1>1, <1>3 DEF Failed
    <2>2. UndoRow(r)
        BY <2>1 DEF Accept, Step, UploadStep, CheckLimits, Save, PutObject,
            SetPath, MarkUploaded, UndoObject, JobStep, Publish, MarkPending,
            Find, DeleteStep, DeleteRow, CancelJob, DeleteObject
    <2>3. pc'[r] = "done" /\ resp'[r].code = "Unavailable"
        BY <2>2 DEF UndoRow, Reply, Proto, TypeOK
    <2> QED
        BY <1>3, <2>3 DEF Failed
<1> QED
    BY <1>2, <1>3

\* How the labels of PathsOK are reached.
LEMMA PathEdges ==
    ASSUME Proto, NEW r \in Requests, Accept(r) \/ Step(r)
    PROVE  /\ pc'[r] = "setPath" => r \in objects'
           /\ pc[r] = "undoObject" => pc'[r] = "undoRow"
           /\ pc[r] = "setPath" => objects' = objects
<1> USE DEF Proto, TypeOK, Goto, Reply, GotoOrFail
<1>1. CASE Accept(r) BY <1>1 DEF Accept
<1>2. CASE PutObject(r)
    <2> PICK o \in Outcome("storage") :
            /\ objects' = IF Applied(o) THEN objects \cup {r} ELSE objects
            /\ Goto(r, IF Succeeds(o) THEN "setPath" ELSE Compensate(r))
        BY <1>2 DEF PutObject
    <2>1. pc'[r] = "setPath" => Succeeds(o)
        BY DEF Compensate
    <2> QED
        BY <1>2, <2>1, NoDrops DEF PutObject
<1>3. CASE UploadStep(r) /\ ~PutObject(r)
    BY <1>3 DEF UploadStep, CheckLimits, Save, SetPath, MarkUploaded,
                UndoObject, UndoRow, Compensate
<1>4. CASE JobStep(r) BY <1>4 DEF JobStep, Publish, MarkPending
<1>5. CASE Find(r) BY <1>5 DEF Find
<1>6. CASE DeleteStep(r)
    BY <1>6 DEF DeleteStep, DeleteRow, CancelJob, DeleteObject, AfterDelete
<1> QED
    BY <1>1, <1>2, <1>3, <1>4, <1>5, <1>6 DEF Step

\* A path is set by the upload of the row only.
LEMMA PathMoves ==
    ASSUME Proto, NEW r \in Requests, Accept(r) \/ Step(r),
           NEW s \in Requests, Exists(s)', rows'[s].path
    PROVE  /\ Exists(s)
           /\ rows[s].path \/ (s = r /\ pc[r] = "setPath")
<1>1. rows \in [Requests -> Row] /\ req[r].target \in Requests
    BY DEF Proto, TypeOK, Call
<1>2. ~(s = r /\ pc[r] = "save")
    <2>1. pc[r] = "save" => rows' = [rows EXCEPT ![r] = FreshRow]
                            \/ rows' = rows
        BY RowMoves DEF Proto
    <2> QED
        BY <1>1, <2>1 DEF FreshRow, Exists, Proto, RowsOK, Before
<1>3. Exists(s)
    BY <1>2, RowPersists
<1>4. CASE rows' = rows BY <1>3, <1>4
<1>5. CASE pc[r] = "save" /\ rows' = [rows EXCEPT ![r] = FreshRow]
    <2>1. rows'[s] = rows[s]
        BY <1>1, <1>2, <1>5
    <2> QED
        BY <1>3, <2>1
<1>6. CASE pc[r] = "setPath" /\ rows' = WithPath(r)
    <2>1. s # r => rows'[s] = rows[s]
        BY <1>1, <1>6 DEF WithPath
    <2> QED
        BY <1>3, <1>6, <2>1
<1>7. ASSUME NEW q \in Requests, rows' = Without(q)
      PROVE  rows[s].path
    BY <1>1, <1>7 DEF Without, Absent
<1>8. ASSUME NEW q \in Requests, NEW st \in Statuses,
             NEW j \in Requests \cup {NoJob}, rows' = WithStatus(q, st, j)
      PROVE  rows[s].path
    <2>1. CASE ~Exists(q)
        BY <1>8, <2>1 DEF WithStatus
    <2>2. CASE Exists(q)
        <3>1. rows' = [rows EXCEPT ![q].status = st, ![q].job = j]
            BY <1>8, <2>2 DEF WithStatus
        <3>2. rows'[s].path = rows[s].path
            BY <1>1, <3>1 DEF Row
        <3> QED
            BY <3>2
    <2> QED
        BY <2>1, <2>2
<1>9. \/ rows' = rows
      \/ pc[r] = "save" /\ rows' = [rows EXCEPT ![r] = FreshRow]
      \/ pc[r] = "setPath" /\ rows' = WithPath(r)
      \/ \E q \in Requests : rows' = Without(q)
      \/ \E q \in Requests, st \in Statuses, j \in Requests \cup {NoJob} :
             rows' = WithStatus(q, st, j)
    BY <1>1, RowMoves DEF Proto, Statuses
<1> QED
    BY <1>3, <1>4, <1>5, <1>6, <1>7, <1>8, <1>9

LEMMA NextPaths ==
    ASSUME Proto, PathsOK, [TenancyNext]_tenancyVars PROVE PathsOK'
<1>1. ASSUME NEW r \in Requests, Accept(r) \/ Step(r) PROVE PathsOK'
    <2>1. /\ pc' = [pc EXCEPT ![r] = pc'[r]] /\ pc \in [Requests -> Labels]
          /\ pc[r] # pc'[r]
        BY <1>1, PcMoves DEF Proto, TypeOK
    <2>2. ASSUME NEW s \in Requests, Exists(s)', rows'[s].path
          PROVE  s \in objects' \/ Failed(s)'
        <3>1. Exists(s) /\ (rows[s].path \/ (s = r /\ pc[r] = "setPath"))
            BY <1>1, <2>2, PathMoves
        <3>2. s \in objects \/ Failed(s)
            BY <3>1 DEF PathsOK
        <3>3. CASE Failed(s)
            BY <1>1, <3>3, FailedStays
        <3>4. CASE s \in objects /\ ~(s = r /\ pc[r] = "undoObject")
            BY <1>1, <3>1, <3>4, ObjectStays
        <3>5. CASE s = r /\ pc[r] = "undoObject"
            BY <1>1, <3>5, PathEdges DEF Failed
        <3> QED
            BY <3>2, <3>3, <3>4, <3>5
    <2>3. ASSUME NEW s \in Requests, Exists(s)', pc'[s] = "setPath"
          PROVE  s \in objects'
        <3>1. CASE s = r
            BY <1>1, <2>3, <3>1, PathEdges
        <3>2. CASE s # r
            <4>1. pc[s] = "setPath" /\ Exists(s)
                BY <1>1, <2>1, <2>3, <3>2, RowPersists
            <4> QED
                BY <1>1, <3>2, <4>1, ObjectStays DEF PathsOK
        <3> QED
            BY <3>1, <3>2
    <2> QED
        BY <2>2, <2>3 DEF PathsOK
<1>2. CASE Crash
    <2>1. /\ rows' = rows /\ objects' = objects /\ resp' = resp
          /\ \A r \in Requests : pc'[r] = pc[r] \/ pc'[r] = "lost"
        BY <1>2 DEF Crash, stores
    <2> QED
        BY <2>1 DEF PathsOK, Exists, Failed
<1>3. CASE UNCHANGED others
    BY <1>3 DEF PathsOK, Exists, Failed, others
<1> QED
    BY <1>1, <1>2, <1>3, OperationSteps

\* A source whose URL was signed has its path for as long as it is there.
UrlsOK ==
    \A c \in Readers : \A s \in answer[c].urls :
        /\ s \in Requests /\ pc[s] \notin Before
        /\ Exists(s) => rows[s].path

LEMMA NextUrls ==
    ASSUME TypeOK, Proto, ReadsTypeOK, UrlsOK, [TenancyNext]_tenancyVars
    PROVE  UrlsOK'
<1>1. ASSUME NEW r \in Requests, Accept(r) \/ Step(r), UNCHANGED reads
      PROVE  UrlsOK'
    <2> SUFFICES ASSUME NEW c \in Readers, NEW s \in answer[c].urls
                 PROVE  pc'[s] \notin Before /\ (Exists(s)' => rows'[s].path)
        BY <1>1 DEF UrlsOK, reads
    <2>1. s \in Requests /\ pc[s] \notin Before /\ (Exists(s) => rows[s].path)
        BY DEF UrlsOK
    <2>2. /\ pc' = [pc EXCEPT ![r] = pc'[r]] /\ pc \in [Requests -> Labels]
          /\ pc'[r] \in Before => pc[r] \in Before
        BY <1>1, PcMoves DEF TypeOK
    <2>3. ~(s = r /\ pc[r] = "save")
        BY <2>1 DEF Before
    <2>4. Exists(s)' => rows'[s].path
        BY <1>1, <2>1, <2>3, RowPersists
    <2> QED
        BY <2>1, <2>2, <2>4
<1>2. CASE Crash /\ UNCHANGED reads
    <2>1. /\ rows' = rows
          /\ \A r \in Requests : pc'[r] = pc[r] \/ pc'[r] = "lost"
        BY <1>2 DEF Crash, stores
    <2> QED
        BY <1>2, <2>1 DEF UrlsOK, Exists, Before, reads
<1>3. CASE UNCHANGED <<others, reads>>
    BY <1>3 DEF UrlsOK, Exists, others, reads
<1>4. ASSUME NEW c \in Readers, ReadStep(c), UNCHANGED vars PROVE UrlsOK'
    <2>1. \A s \in answer'[c].urls : s \in answer[c].urls \/
              (s \in Requests /\ Exists(s) /\ rows[s].path)
        <3>1. \A code : Empty(code).urls = {}
            BY DEF Empty
        <3>2. \A page : [Empty("OK") EXCEPT !.projects = page].urls = {}
            BY DEF Empty
        <3>3. \A found, signed : Details(found, signed).urls = signed
            BY DEF Details, Empty
        <3>4. \A a : Answered(c, a) => answer'[c] = a
            BY DEF Answered, ReadsTypeOK
        <3>5. CASE UNCHANGED answer BY <3>5
        <3>6. CASE TurnAway(c) \/ CountProjects(c) \/ CheckAccess(c)
            BY <3>1, <3>4, <3>6 DEF TurnAway, CountProjects, CheckAccess
        <3>7. CASE ReadPage(c)
            BY <3>1, <3>2, <3>4, <3>7 DEF ReadPage
        <3>8. ASSUME NEW found \in SUBSET InScope(call[c]),
                     NEW signed \in SUBSET Signable(found),
                     Answered(c, Details(found, signed))
              PROVE  answer'[c].urls \subseteq
                         {s \in Requests : Exists(s) /\ rows[s].path}
            <4>1. answer'[c].urls = signed
                BY <3>3, <3>4, <3>8
            <4> QED
                BY <4>1 DEF Signable, InScope
        <3>9. CASE ListSources(c)
            <4>1. CASE Answered(c, Empty("Internal"))
                BY <3>1, <3>4, <4>1
            <4> QED
                BY <3>8, <3>9, <4>1 DEF ListSources
        <3>10. CASE GetSource(c)
            <4>1. CASE Answered(c, Empty("Internal")) \/ Answered(c, Empty("NotFound"))
                BY <3>1, <3>4, <4>1
            <4> QED
                BY <3>8, <3>10, <4>1 DEF GetSource
        <3> QED
            BY <1>4, <3>5, <3>6, <3>7, <3>9, <3>10 DEF ReadStep, Arrive
    <2>2. \A d \in Readers \ {c} : answer'[d] = answer[d]
        BY <1>4, OneReader
    <2>3. \A s \in Requests : Exists(s) => pc[s] \notin Before
        BY DEF Proto, RowsOK
    <2>4. rows' = rows /\ pc' = pc
        BY <1>4 DEF vars
    <2> QED
        BY <2>1, <2>2, <2>3, <2>4 DEF UrlsOK, Exists
<1> QED
    BY <1>1, <1>2, <1>3, <1>4, OperationSteps

\* A signed URL leads to the file for as long as its source is there and its
\* upload has not failed, whichever calls fail and wherever the process dies.
THEOREM UrlsLeadToFiles == TenancySpec => []UrlLeadsToFile
<1>1. TenancyInit => Proto /\ ReadsTypeOK /\ PathsOK /\ UrlsOK
    BY InitProto, InitReadsType
    DEF TenancyInit, Init, PathsOK, UrlsOK, Exists, Absent, Empty
<1>2. Proto /\ ReadsTypeOK /\ PathsOK /\ UrlsOK /\ [TenancyNext]_tenancyVars
          => Proto' /\ ReadsTypeOK' /\ PathsOK' /\ UrlsOK'
    BY TenancyProto, ReadsType, NextPaths, NextUrls DEF Proto
<1>3. PathsOK /\ UrlsOK => UrlLeadsToFile
    BY DEF PathsOK, UrlsOK, UrlLeadsToFile
<1> QED
    BY <1>1, <1>2, <1>3, PTL DEF TenancySpec
=============================================================================
