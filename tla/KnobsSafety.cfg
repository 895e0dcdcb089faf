\* The daemon and what it makes of the device.
SPECIFICATION KnobSpec
CONSTANTS
    g1 = g1
    a1 = a1
    none = none
    boot = boot
    Games = {g1}
    OtherApps = {a1}
    NoApp = none
    Temps <- MCKnobTemps
    MaxSettings = 1
    MaxFaults = 1
    Boot = boot
    Nodes <- MCNodes
INVARIANTS
    BaseRestoresDevice
    GamingDevice
    SustainedDevice
