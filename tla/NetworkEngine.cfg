SPECIFICATION EngineSpec
CONSTANTS
    ENIs <- MCENIs
    Spaces <- MCSpaces
    Of <- MCOf
    Foreign = Foreign
    e1 = e1
    e2 = e2
    s1 = s1
    s2 = s2
    s3 = s3
    Gateways = {g1, g2}
    Runtimes = {r1, r2}
    Appliance = Appliance
    MaxBirths = 4
INVARIANTS
    CheckedBeforeActive
    
    ServedStaysConnected
    EnsuredIsExact
    StartedIsPlumbed
PROPERTIES ForeignKept StrangeKept
CHECK_DEADLOCK FALSE
