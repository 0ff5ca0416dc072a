\* One host, whose line is stored as it is; the lock file, every I/O and the processes may fail.
SPECIFICATION HostFairSpec
CONSTANTS
    p1 = p1
    p2 = p2
    host = host
    example = example
    hostLine = hostLine
    exampleLine = exampleLine
    hashedLine = hashedLine
    None = None
    Proc <- MCProc
    Line <- MCOneLine
    Content <- MCOneContent
    Mentions <- MCOneMentions
    HostLines <- MCOneHostLines
    Faults = {"lockfile", "io", "crash"}
    MaxCopies = 2
    MaxMissed = 0
PROPERTIES
    CallEnds
