\* The daemon, init and the world: safety, and the modes it implements.
SPECIFICATION Spec
CONSTANTS
    g1 = g1
    g2 = g2
    a1 = a1
    none = none
    Games = {g1, g2}
    OtherApps = {a1}
    NoApp = none
    Temps <- MCTemps
    MaxSettings = 1
    MaxFaults = 1
INVARIANTS
    TypeOK
    GameConsistent
    BaseIsActive
    DefaultHardware
    GamingHardware
    SustainedHardware
    PublishedWhileGaming
PROPERTIES
    ImplementsPerfModes
SYMMETRY GameSymmetry
