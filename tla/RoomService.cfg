\* Every graph over three dependencies, syncs that fail, and a second run.
SPECIFICATION Spec
CONSTANTS
    device = device
    kernel = kernel
    common = common
    vendor = vendor
    Repos <- MCRepos
    Device = device
    Graphs <- MCGraphs
    Branchless <- MCBranchless
    Pins <- MCPins
    ShippedSets <- MCShippedSets
    OnDisk <- MCOnDisk
    MaxDepth = 6
    MaxRuns = 3
INVARIANTS
    TypeOK
    NeededIsFetched
    ManifestIsUsable
    RecursionIffCyclic
\* The user need not run it again.
CHECK_DEADLOCK FALSE
