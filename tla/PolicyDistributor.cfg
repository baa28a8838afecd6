SPECIFICATION FairSpec
CONSTANTS
    None = None
    Unchanged = Unchanged
    p1 = p1
    p2 = p2
    Policies <- MCPolicies
    Groups = {g1}
    Parts <- MCParts
    Unordered <- MCUnordered
    MaxEdits = 2
    MaxFaults = 1
INVARIANTS TypeOK HeldPoliciesDelivered
PROPERTY AgentCatchesUp
