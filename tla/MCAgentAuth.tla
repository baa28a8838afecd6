----------------------------- MODULE MCAgentAuth -----------------------------
(* Two Enroll RPCs with a token each, one call, and a CSR whose subject is *)
(* not the hostname of its request.                                        *)
EXTENDS AgentAuth, TLC

CONSTANTS t1, t2, h1, h2, ip0, ip1

Message(t, h, cn) == [token |-> t, host |-> h, cn |-> cn, peer |-> ip1, csrOk |-> TRUE]

MCEnrollRequests ==
    {Message(t1, h1, h1), Message(t2, h1, h1), Message(t2, h2, h2), Message(t2, h2, h1)}

Symmetry == Permutations(Requests) \cup Permutations(AgentIds) \cup Permutations(Calls)
=============================================================================
