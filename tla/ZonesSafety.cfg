\* The readings of the thermal zones while sensors change and fail.
SPECIFICATION Spec
CONSTANTS
    unreadable = unreadable
    garbage = garbage
    Count = 2
    Limit = 20
    Kinds = {"cpu", "gpu", "battery"}
    Milli <- MCMilli
    Tenths <- MCTenths
    Unreadable = unreadable
    Garbage = garbage
INVARIANTS
    TypeOK
    ReadingWasHeld
    UsableZoneIsRead
