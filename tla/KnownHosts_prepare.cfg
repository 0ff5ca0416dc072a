\* Two processes that prepare and clean up two hosts.
SPECIFICATION HostSpec
CONSTANTS
    p1 = p1
    p2 = p2
    host = host
    example = example
    hostLine = hostLine
    exampleLine = exampleLine
    hashedLine = hashedLine
    None = None
    Proc <- MCProc
    Line <- MCLine
    Content <- MCContent
    Mentions <- MCMentions
    HostLines <- MCHostLines
    Faults = {"lockfile"}
    MaxCopies = 4
    MaxMissed = 2
INVARIANTS
    HostTypeOK
    SeenStays
    BoundedDuplicates
    NoOpenFileLeft
    PreparedIsKnown
