SPECIFICATION FairSpec
CONSTANTS
    None = None
    Evaluations = {e1, e2}
    Batches <- MCBatches
    Threats <- MCThreats
    MaxFailing = 3
    MaxDecisions = 1
    MaxFaults = 1
INVARIANTS TypeOK OpenBounded
PROPERTIES DecisionsStand RisksClear
