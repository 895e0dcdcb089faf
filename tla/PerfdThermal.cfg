\* The daemon, init and the world: no flapping, and throttling of hot games.
SPECIFICATION FairSpec
CONSTANTS
    g1 = g1
    g2 = g2
    a1 = a1
    none = none
    Games = {g1}
    OtherApps = {a1}
    NoApp = none
    Temps <- MCThermalTemps
    MaxSettings = 1
    MaxFaults = 0
PROPERTIES
    ModeSettles
    ThermalProtection
