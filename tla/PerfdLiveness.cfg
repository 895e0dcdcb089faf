\* The daemon, init and the world: what must come about under Fairness.
SPECIFICATION FairSpec
CONSTANTS
    g1 = g1
    g2 = g2
    a1 = a1
    none = none
    Games = {g1}
    OtherApps = {a1}
    NoApp = none
    Temps <- MCLivenessTemps
    MaxSettings = 1
    MaxFaults = 1
PROPERTIES
    ShutdownCompletes
    Converges
