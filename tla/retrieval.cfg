\* Two saves, of three rows each at most; any of the rows may be found, in any order.
CONSTANTS
    Sources = {1, 2}
    Documents <- const_Documents
    Owner <- const_Owner
    IsFile <- const_IsFile
    BatchSize = 2
    MaxSaves = 2
    Callers = {"ann", "bob"}
    Projects = {0, 1}
    ProjectOf <- const_ProjectOf
    AnnK = 3
    TopKs = {0, 1}
    DefaultTopK = 3
    RerankK = 2
    MaxScore = 1
    MaxPieces = 2
SPECIFICATION Spec
INVARIANTS
    EmbeddingIsOfItsText
    WholeDocuments
    AnswerIsOwn
    BestOfEachParent
    DoneEndsTheStream
CHECK_DEADLOCK FALSE
