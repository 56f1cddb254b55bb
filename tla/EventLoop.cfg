SPECIFICATION FairSpec
CONSTANTS
    Tasks = {a, b}
    FDs = {3, 4}
    Sides = {"read"}
    Limits <- MCLimits
    Timers = {bandwidth}
    NoFd = NoFd
    None = None
INVARIANTS
    TypeOK
    FdsOwned
PROPERTIES
    ReportsOnce
    NoStarvation
    SilenceTimesOut
