\* A write over a file that is longer.
SPECIFICATION FileSpec
CONSTANTS
    Store = {s1, s2}
    File = {1, 2, 3}
    MaxData = 2
    MaxBlocks = 3
    Dir = Dir
    None = None
    Path <- MCPath
    Workloads <- MCWorkloads
    Seeks <- MCSeeks
SYMMETRY Symmetry
INVARIANTS
    WriteReplaces
