SPECIFICATION FairSpec
CONSTANTS
    CAs = {g1, g2, g3}
    ServerKeys = {k1, k2}
    Listeners = {agent, enroll}
    Absent = Absent
    Torn = Torn
    MaxFaults = 0
    MaxStops = 1
    MaxInterrupts = 0
CHECK_DEADLOCK FALSE
PROPERTY StopIsClean
