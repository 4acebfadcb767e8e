\* As retrieval.cfg, with one question after one save.
CONSTANTS
    Sources = {1, 2}
    Documents <- const_Documents
    Owner <- const_Owner
    IsFile <- const_IsFile
    BatchSize = 2
    MaxSaves = 1
    Callers = {"ann", "bob"}
    Projects = {0, 1}
    ProjectOf <- const_ProjectOf
    AnnK = 3
    TopKs = {0, 1}
    DefaultTopK = 3
    RerankK = 2
    MaxScore = 0
    MaxPieces = 1
SPECIFICATION Spec
INVARIANT AnsweredInProject
CHECK_DEADLOCK FALSE
