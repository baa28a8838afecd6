SPECIFICATION FairSpec
CONSTANTS
    CAs = {g1, g2, g3}
    ServerKeys = {k1, k2}
    Listeners = {agent, enroll}
    Absent = Absent
    Torn = Torn
    MaxFaults = 3
    MaxStops = 2
    MaxInterrupts = 2
CHECK_DEADLOCK FALSE
INVARIANTS TypeOK ServedMaterialMatches CaIsKept
PROPERTY ServesUnlessWedged
