\* One stream with any four messages, ends and breaks, and a shutdown.
SPECIFICATION FairSpec
CONSTANTS
    Streams = {s1}
    Kinds = {"pdf", "png"}
    Sizes = {0, 1, 2, 3}
    MinFirst = 2
    MaxFileSize = 3
    MaxMessages = 4
INVARIANTS
    TypeOK
    StoredWasConfirmed
    CorrectIsServed
    ServiceHasProducer
PROPERTIES
    StreamsEnd
    ShutdownEnds
CHECK_DEADLOCK FALSE
