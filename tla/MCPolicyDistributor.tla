------------------------- MODULE MCPolicyDistributor -------------------------
(* Two policies; the sections of the first may come in either order.       *)
EXTENDS PolicyDistributor

CONSTANTS p1, p2

MCPolicies == {p1, p2}
MCParts == {"sections"}
MCUnordered == {<<p1, "sections">>}
=============================================================================
