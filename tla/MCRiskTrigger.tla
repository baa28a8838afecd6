---------------------------- MODULE MCRiskTrigger ----------------------------
(* Three threats, the second of another category; the batches mix checks   *)
(* that fail with either severity and checks that pass.                    *)
EXTENDS RiskTrigger

Checked(passed, severity) == [passed |-> passed, severity |-> severity]

MCThreats ==
    <<[compliance |-> TRUE, score |-> None],
      [compliance |-> FALSE, score |-> "critical"],
      [compliance |-> TRUE, score |-> "critical"]>>

MCBatches ==
    {<<Checked(TRUE, "high")>>,
     <<Checked(FALSE, "low"), Checked(FALSE, "critical")>>,
     <<Checked(FALSE, "high"), Checked(TRUE, "critical")>>}
=============================================================================
