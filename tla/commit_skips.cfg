\* A failed record is committed by the commit of the next one.
SPECIFICATION Spec
SYMMETRY Symmetry
CONSTANTS
    Sources = {s1, s2}
    Jobs = {j1, j2}
    MaxRetries = 2
    Documents = {"text", "empty", "broken"}
    Deletable = {s1, s2}
    Faults <- NoFaults
    MaxResets = 0
INVARIANTS
    CommittedIsDone
CHECK_DEADLOCK FALSE
