\* Two stores, any calls and failures, on a tree of three names.
SPECIFICATION FileSpec
CONSTANTS
    Store = {s1, s2}
    File = {1, 2, 3}
    MaxData = 2
    MaxBlocks = 3
    Dir = Dir
    None = None
    Path <- MCPath
    Workloads <- MCWorkloads
    Seeks <- MCSeeks
SYMMETRY Symmetry
INVARIANTS
    FileTypeOK
    WriteIsThere
    AppendsKept
    ReadsPrefix
    MkdirMakes
    RmdirRemoves
    PiecesTile
    EndWriteKeeps
