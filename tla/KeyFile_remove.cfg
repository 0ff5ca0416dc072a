\* A removal reports success for an I/O error that it swallowed.
SPECIFICATION Spec
CONSTANTS
    p1 = p1
    p2 = p2
    short = short
    long = long
    hostShort = hostShort
    hostLong = hostLong
    None = None
    Proc <- MCProc
    Line <- MCLine
    Content <- MCContent
    Mentions <- MCMentions
    Faults = {"io"}
    MaxCopies = 1
INVARIANTS
    RemoveReportsTruth
