\* Two processes make the directory at the same time.
SPECIFICATION HostSpec
CONSTANTS
    p1 = p1
    p2 = p2
    host = host
    example = example
    hostLine = hostLine
    exampleLine = exampleLine
    hashedLine = hashedLine
    None = None
    Proc <- MCProc
    Line <- MCSaltedLine
    Content <- MCSaltedContent
    Mentions <- MCSaltedMentions
    HostLines <- MCSaltedHostLines
    Faults = {}
    MaxCopies = 2
    MaxMissed = 1
PROPERTIES
    DirErrorOnlyIfMissing
