SPECIFICATION Spec
CONSTANTS
    stdout = stdout
    stderr = stderr
    x = x
    nl = nl
    NoOne = NoOne
    Newline = nl
    Streams <- BothStreams
    Chunks <- SomeChunks
    MaxBytes = 3
INVARIANTS FramesWhole NothingLost
PROPERTY QuietAfterReturn
CHECK_DEADLOCK FALSE
