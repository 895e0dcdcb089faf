\* The scan of /proc against a changing process table: what it finds, and that it ends.
SPECIFICATION FairSpec
CONSTANTS
    g1 = g1
    a1 = a1
    zygote = zygote
    none = none
    Pids <- MCPids
    Packages = {g1, a1}
    Filtered = {zygote}
    Zygote = zygote
    NoApp = none
    Adjs <- MCTwoAdjs
INVARIANTS
    TypeOK
    FoundWasForeground
    SteadyIsFound
PROPERTIES
    ScanEnds
