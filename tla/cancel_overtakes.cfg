\* The consumer reads the cancellation before the job that it cancels.
SPECIFICATION PipelineSpec
SYMMETRY Symmetry
CONSTANTS
    u1 = u1
    p1 = p1
    r1 = r1
    Requests = {r1, r2}
    Users <- OneUser
    Projects <- OneProject
    NoUser = NoUser
    NoJob = NoJob
    Ops = {"upload", "delete", "retry"}
    MaxSourcesPerProject = 2
    Faults <- NoFaults
    MaxInFlight = 1
    MaxCrashes = 0
    Documents = {"text"}
    MaxRetries = 2
    ConsumerFaults <- NoFaults
    MaxResets = 0
INVARIANTS
    DeletedIsUnindexed
CHECK_DEADLOCK FALSE
