---------------------------- MODULE MCEnrollment ----------------------------
(* Two tokens, three Enroll RPCs of two endpoints, one of them with a CSR  *)
(* that does not parse.                                                    *)
EXTENDS Enrollment, TLC

CONSTANTS t1, t2, h1, h2, ip0, ip1, ip2

Message(t, h, p, ok) == [token |-> t, host |-> h, cn |-> h, peer |-> p, csrOk |-> ok]

MCEnrollRequests ==
    {Message(t1, h1, ip1, TRUE), Message(t1, h2, ip2, TRUE),
     Message(t2, h2, ip2, TRUE), Message(t2, h1, ip1, FALSE)}

Symmetry == Permutations(Requests) \cup Permutations(AgentIds)
=============================================================================
