\* A text file: its content type is on the list, what is detected is not.
SPECIFICATION Spec
CONSTANTS
    Streams = {s1}
    Kinds = {"txt"}
    Sizes = {1, 2}
    MinFirst = 1
    MaxFileSize = 2
    MaxMessages = 3
INVARIANTS
    AllowedIsServed
CHECK_DEADLOCK FALSE
