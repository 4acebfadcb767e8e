\* Every error of every call, crashes, shutdowns and rebalances, under fairness; no
\* symmetry.
SPECIFICATION FairSpec
CONSTANTS
    Sources = {s1}
    Jobs = {j1, j2}
    MaxRetries = 2
    Documents = {"text", "empty", "broken"}
    Deletable = {s1}
    Faults <- AllFaults
    MaxResets = 2
INVARIANTS
    TypeOK
    DoneMeansIndexed
    CopiesAreBounded
    CommittedIsReported
PROPERTIES
    OffsetsNeverRegress
    EveryJobIsReported
CHECK_DEADLOCK FALSE
