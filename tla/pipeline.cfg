\* The whole pipeline: the service's calls and the consumer's commits fail, the
\* service dies once, the consumer ends or rebalances once, and the first file
\* may be blank or broken.  No symmetry.
SPECIFICATION FirstUploads
CONSTANTS
    u1 = u1
    p1 = p1
    r1 = r1
    Requests = {r1, r2}
    Users <- OneUser
    Projects <- OneProject
    NoUser = NoUser
    NoJob = NoJob
    Ops = {"upload", "delete", "retry"}
    MaxSourcesPerProject = 2
    Faults <- ServiceRefusals
    MaxInFlight = 2
    MaxCrashes = 1
    Documents = {"text", "empty", "broken"}
    MaxRetries = 2
    ConsumerFaults <- CommitFaults
    MaxResets = 1
INVARIANTS
    FailedMeansDeleted
    CommittedIsSearchable
PROPERTIES
    ConsumerIsImplemented
    PendingIsIndexed
    UploadingIsTransient
CHECK_DEADLOCK FALSE
