\* Two requests at a time and a crash, with the errors that excuse nothing.
SPECIFICATION Spec
SYMMETRY Symmetry
CONSTANTS
    u1 = u1
    p1 = p1
    Requests = {r1, r2, r3}
    Users <- OneUser
    Projects <- OneProject
    NoUser = NoUser
    NoJob = NoJob
    Ops = {"upload", "delete", "retry"}
    MaxSourcesPerProject = 1
    Faults <- RaceFaults
    MaxInFlight = 2
    MaxCrashes = 1
INVARIANTS
    LimitRespected
    JobsAreBounded
    UncancelledWasUnseen
    OrphanWasUnseen
CHECK_DEADLOCK FALSE
