\* Two threads, two projects, three changes and one: order, failures, termination.
SPECIFICATION FairSpec
CONSTANTS
    kernel = kernel
    device = device
    NoProject = NoProject
    Projects = {kernel, device}
    Place <- MCPlace
    Count <- MCCount
    Jobs = 2
    PickedSets <- MCPickedSets
INVARIANTS
    TypeOK
    LikeOneAfterAnother
    UnfinishedOnlyAfterConflict
PROPERTIES
    Finishes
\* The program ends.
CHECK_DEADLOCK FALSE
