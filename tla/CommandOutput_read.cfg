\* Any command of up to four bytes on a stream, read three bytes at a time.
SPECIFICATION FairSpec
CONSTANTS
    BufferSize = 3
    MaxBytes = 4
    None = None
    Status <- MCStatus
INVARIANTS
    TypeOK
    ResponseComplete
    FailsAtCut
PROPERTIES
    Answered
