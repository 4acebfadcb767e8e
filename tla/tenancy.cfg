\* Two users with two projects, who read while they upload and delete and while
\* projects come and go.
SPECIFICATION SomeFile
SYMMETRY Symmetry
CONSTANTS
    u1 = u1
    u2 = u2
    p1 = p1
    p2 = p2
    Requests = {r1, r2}
    Users <- TwoUsers
    Projects <- TwoProjects
    NoUser = NoUser
    NoJob = NoJob
    Ops = {"upload", "delete"}
    MaxSourcesPerProject = 2
    Faults <- RefusalsAndLosses
    MaxInFlight = 2
    MaxCrashes = 0
    Readers = {c1}
    Pages = {2}
    Sizes = {1}
INVARIANTS
    ReadsTypeOK
    UrlLeadsToFile
    PageIsCounted
    ReadsAreOwn
    FailedUploadLeavesNothing
PROPERTIES
    OnlyOwnerWrites
CHECK_DEADLOCK FALSE
