SPECIFICATION FairSpec
CONSTANTS
    None = None
    Agents = {a1, a2}
    Timeout = 4
    Hashes = {hash1}
INVARIANTS TypeOK
PROPERTIES PunctualNeverOffline SilentGoesOffline ShutdownStopsMonitor
