------------------------------ MODULE Tenancy ------------------------------
(***************************************************************************)
(* What users see of their projects and sources while the operations of    *)
(* SourceService go on: ListProjects of the projects service, ListSources  *)
(* and GetSource of the sources service, and the creation and deletion of  *)
(* projects under all of them.                                             *)
(*                                                                         *)
(* The reads hold nothing between their statements: a list of projects     *)
(* counts in one statement and reads the page in another, a read of        *)
(* sources asks the projects service for access first.  Creating and       *)
(* deleting a project are one statement each, and so is GetProject, which  *)
(* sees what a check of access sees.                                       *)
(***************************************************************************)
EXTENDS SourceService

CONSTANTS
    Readers,  \* the calls that read
    Pages,    \* the pages that they ask for
    Sizes     \* the page sizes that they ask for

ASSUME PagesAssumption == Pages \subseteq Int /\ Sizes \subseteq Int

VARIABLES
    owner,   \* the owner of each project id that was issued, for good
    call,    \* what each of them asks for
    at,      \* its next statement
    counted, \* the projects that its count has counted
    known,   \* the project ids that were issued by then
    answer   \* what it was answered

reads == <<call, at, counted, known, answer>>
tenancyVars == <<vars, owner, reads>>

-----------------------------------------------------------------------------
ListProjectsCall == [op : {"listProjects"}, user : Users,
                     page : Pages, size : Sizes]
ListSourcesCall == [op : {"listSources"}, user : Users, project : Projects]
GetSourceCall == [op : {"getSource"}, user : Users, project : Projects,
                  source : Requests]

NoCall == [op |-> "none"]

\* urls are the sources whose download URL the answer holds.
Answer == [code : Codes \cup {"Unauthenticated"}, projects : SUBSET Projects,
           sources : SUBSET Requests, urls : SUBSET Requests]

Empty(code) == [code |-> code, projects |-> {}, sources |-> {}, urls |-> {}]

Issued == {p \in Projects : owner[p] # NoUser}

\* WHERE owner_id = ?
Own(u) == {p \in Projects : projects[p] = u}

\* Mutant: the sources of the user in any project.
InScopeOfOwner(q) == {s \in Requests : Exists(s) /\ req[s].user = q.user}

\* WHERE project_id = ? AND owner_id = ?
InScope(q) == {s \in Requests : /\ Exists(s)
                                /\ req[s].user = q.user
                                /\ req[s].project = q.project}

-----------------------------------------------------------------------------
Goes(c, l) == at' = [at EXCEPT ![c] = l]

Answered(c, a) == Goes(c, "done") /\ answer' = [answer EXCEPT ![c] = a]

\* The token verifies and names a user: the interceptor puts the user into the
\* context, and the handler takes it from there.
Arrive(c) ==
    /\ at[c] = "idle"
    /\ \E q \in ListProjectsCall \cup ListSourcesCall \cup GetSourceCall :
         /\ call' = [call EXCEPT ![c] = q]
         /\ Goes(c, IF q.op = "listProjects" THEN "count" ELSE "check")
    /\ UNCHANGED <<vars, owner, counted, known, answer>>

\* Mutant: the handler goes on without a user.
TurnAwayNobody(c) ==
    /\ at[c] = "idle"
    /\ \E q \in ListProjectsCall :
         call' = [call EXCEPT ![c] = [q EXCEPT !.user = NoUser]]
    /\ Goes(c, "count")
    /\ UNCHANGED <<vars, owner, counted, known, answer>>

\* The token does not verify; or it does and names no user, and the panic of
\* MustUserIDFromCtx carries the status that the recovery interceptor answers.
TurnAway(c) ==
    /\ at[c] = "idle"
    /\ Answered(c, Empty("Unauthenticated"))
    /\ UNCHANGED <<vars, owner, call, counted, known>>

-----------------------------------------------------------------------------
(***************************************************************************)
(* The projects service.                                                   *)
(***************************************************************************)
\* An id is never issued twice.
CreateProject(u, p) ==
    /\ p \notin Issued
    /\ owner' = [owner EXCEPT ![p] = u]
    /\ projects' = [projects EXCEPT ![p] = u]
    /\ UNCHANGED <<stores, req, pc, seen, resp, crashes, reads>>

\* The total of the answer is the size of counted.
CountProjects(c) ==
    /\ at[c] = "count"
    /\ \E o \in Outcome("projects") :
         \/ /\ o # "ok"
            /\ Answered(c, Empty("InvalidArgument"))
            /\ UNCHANGED <<counted, known>>
         \/ /\ o = "ok"
            /\ counted' = [counted EXCEPT ![c] = Own(call[c].user)]
            /\ known' = [known EXCEPT ![c] = Issued]
            /\ Goes(c, "page") /\ UNCHANGED answer
    /\ UNCHANGED <<vars, owner, call>>

\* The rows on a page, out of n that match.  The statement has no OFFSET unless
\* the offset is positive, and no LIMIT if the size is negative.
RowsOnPage(n, page, size) ==
    LET offset == (page - 1) * size
        rest == IF offset <= 0 THEN n ELSE IF offset < n THEN n - offset ELSE 0
    IN  IF size < 0 \/ rest < size THEN rest ELSE size

\* Mutant: the page is not restricted to the owner.
MatchAll(u) == {p \in Projects : projects[p] # NoUser}

Match(u) == Own(u)

\* The statement has no ORDER BY: any of the rows may be on any page.
ReadPage(c) ==
    LET q == call[c]
        match == Match(q.user)
    IN
    /\ at[c] = "page"
    /\ \E o \in Outcome("projects") :
         \/ o # "ok" /\ Answered(c, Empty("InvalidArgument"))
         \/ /\ o = "ok"
            /\ \E page \in SUBSET match :
                 /\ Cardinality(page) =
                        RowsOnPage(Cardinality(match), q.page, q.size)
                 /\ Answered(c, [Empty("OK") EXCEPT !.projects = page])
    /\ UNCHANGED <<vars, owner, call, counted, known>>

-----------------------------------------------------------------------------
(***************************************************************************)
(* The reads of the sources service.                                       *)
(***************************************************************************)
\* CheckAccess at the projects service finds a project of this id and owner.
Manages(q) == projects[q.project] = q.user

CheckAccess(c) ==
    LET q == call[c] IN
    /\ at[c] = "check"
    /\ \E o \in Outcome("projects") :
         \/ o # "ok" /\ Answered(c, Empty("Unavailable"))
         \/ o = "ok" /\ ~Manages(q) /\ Answered(c, Empty("PermissionDenied"))
         \/ o = "ok" /\ Manages(q) /\ Goes(c, "read") /\ UNCHANGED answer
    /\ UNCHANGED <<vars, owner, call, counted, known>>

\* Mutant: a URL for every source that has a file to upload.
SignableFiles(found) == {s \in found : req[s].file}

\* The rows whose file can be downloaded: those with a path.
Signable(found) == {s \in found : rows[s].path}

\* The rows that the statement has read, each with a URL unless the signing
\* fails, which is only logged.
Details(found, signed) ==
    [Empty("OK") EXCEPT !.sources = found, !.urls = signed]

ListSources(c) ==
    LET found == InScope(call[c]) IN
    /\ at[c] = "read" /\ call[c].op = "listSources"
    /\ \E o \in Outcome("db") :
         \/ o # "ok" /\ Answered(c, Empty("Internal"))
         \/ /\ o = "ok"
            /\ \E signed \in SUBSET Signable(found) :
                 Answered(c, Details(found, signed))
    /\ UNCHANGED <<vars, owner, call, counted, known>>

GetSource(c) ==
    LET found == InScope(call[c]) \cap {call[c].source} IN
    /\ at[c] = "read" /\ call[c].op = "getSource"
    /\ \E o \in Outcome("db") :
         \/ o # "ok" /\ Answered(c, Empty("Internal"))
         \/ o = "ok" /\ found = {} /\ Answered(c, Empty("NotFound"))
         \/ /\ o = "ok" /\ found # {}
            /\ \E signed \in SUBSET Signable(found) :
                 Answered(c, Details(found, signed))
    /\ UNCHANGED <<vars, owner, call, counted, known>>

-----------------------------------------------------------------------------
TenancyInit ==
    /\ Init
    /\ owner = projects
    /\ call = [c \in Readers |-> NoCall]
    /\ at = [c \in Readers |-> "idle"]
    /\ counted = [c \in Readers |-> {}]
    /\ known = [c \in Readers |-> {}]
    /\ answer = [c \in Readers |-> Empty("none")]

\* A step of an operation of SourceService, or of a project's deletion.
OperationStep == Next /\ UNCHANGED <<owner, reads>>

ReadStep(c) ==
    \/ Arrive(c) \/ TurnAway(c) \/ CountProjects(c) \/ ReadPage(c)
    \/ CheckAccess(c) \/ ListSources(c) \/ GetSource(c)

TenancyNext ==
    \/ OperationStep
    \/ \E u \in Users, p \in Projects : CreateProject(u, p)
    \/ \E c \in Readers : ReadStep(c)

TenancySpec == TenancyInit /\ [][TenancyNext]_tenancyVars

-----------------------------------------------------------------------------
(***************************************************************************)
(* Properties.                                                             *)
(***************************************************************************)
\* The variables of the reads keep their types.
ReadsTypeOK ==
    /\ owner \in [Projects -> Users \cup {NoUser}]
    /\ call \in [Readers -> ListProjectsCall \cup ListSourcesCall
                            \cup GetSourceCall \cup {NoCall}]
    /\ at \in [Readers -> {"idle", "count", "page", "check", "read", "done"}]
    /\ counted \in [Readers -> SUBSET Projects]
    /\ known \in [Readers -> SUBSET Projects]
    /\ answer \in [Readers -> Answer]

\* The upload of a source is taken back, was, or died with the process.
Failed(s) == \/ pc[s] \in {"undoRow", "lost"}
             \/ pc[s] = "done" /\ resp[s].code # "OK"

\* A download URL of an answer leads to the file for as long as the source is
\* there, unless its upload failed, although reads sign the paths of rows that
\* uploads are still writing or taking back and deletes are about to remove.
UrlLeadsToFile ==
    \A c \in Readers : \A s \in answer[c].urls :
        s \in objects \/ ~Exists(s) \/ Failed(s)

\* The total and the page of an answer come from two statements.  They disagree
\* by no more than what happened in between: every project on the page was
\* counted unless it was created after the count.
PageIsCounted ==
    \A c \in Readers : answer[c].projects \cap known[c] \subseteq counted[c]

\* Users read their own projects and sources only, and sources only from the
\* project that they ask for, whoever writes and deletes meanwhile.
ReadsAreOwn ==
    \A c \in Readers :
        /\ \A p \in answer[c].projects : owner[p] = call[c].user
        /\ \A s \in answer[c].sources : /\ req[s].user = call[c].user
                                        /\ req[s].project = call[c].project
=============================================================================
