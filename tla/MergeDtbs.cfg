SPECIFICATION Spec
CONSTANTS
    Extras = 2
    Values = {1, 2}
    Absent = Absent
    Bases <- MCBases
    Techpacks <- MCTechpacks
    MaxTechpacks = 3
INVARIANTS
    TypeOK
    DevicesGetTheirTechpacks
    OneDimensionIsComplete
\* The merge ends with the last techpack.
CHECK_DEADLOCK FALSE
