\* Every error of every call but lost replies of the database, and a crash, all
\* requests at once.
SPECIFICATION Spec
SYMMETRY Symmetry
CONSTANTS
    u1 = u1
    p1 = p1
    Requests = {r1, r2, r3}
    Users <- OneUser
    Projects <- OneProject
    NoUser = NoUser
    NoJob = NoJob
    Ops = {"upload", "delete", "retry"}
    MaxSourcesPerProject = 2
    Faults <- AllErrors
    MaxInFlight = 3
    MaxCrashes = 1
INVARIANTS
    TypeOK
    CancelMeansGone
    UploadedHasFile
    JobHasContent
    UnpublishedIsRetryable
PROPERTIES
    ImplementsLifecycle
CHECK_DEADLOCK FALSE
