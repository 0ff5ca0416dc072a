\* Two processes; the lock file, flock(), every I/O and the processes may fail.
SPECIFICATION FairSpec
CONSTANTS
    p1 = p1
    p2 = p2
    short = short
    long = long
    hostShort = hostShort
    hostLong = hostLong
    None = None
    Proc <- MCProc
    Line <- MCLine
    Content <- MCContent
    Mentions <- MCMentions
    Faults = {"lockfile", "flock", "io", "crash"}
    MaxCopies = 2
INVARIANTS
    TypeOK
    MutualExclusion
    LoadedIsCurrent
    NothingOverwritten
    AckedAddIsThere
    RemovedIsGone
PROPERTIES
    RegistrySpec
    CallReturns
    UnlockedNeverReturns
