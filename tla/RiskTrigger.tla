----------------------------- MODULE RiskTrigger -----------------------------
(***************************************************************************)
(* The risk trigger (crates/result-ingester/risk_trigger.rs) over the risk *)
(* table of one agent (crates/db/risks.rs).  Each submission of the agent  *)
(* runs an evaluation of its batch after the results are stored; several   *)
(* run at once, every statement commits by itself, and an administrator    *)
(* decides on risks meanwhile.                                             *)
(*                                                                         *)
(* The severities of the checks are an argument of the trigger; a result   *)
(* carries here the one its check has.                                     *)
(***************************************************************************)
EXTENDS Integers, FiniteSets, Sequences

CONSTANTS
    Evaluations,    \* evaluations that can run at once
    Batches,        \* sequences of results
    Threats,        \* the threats table in the order of its names
    MaxFailing,     \* bound: evaluations of batches that may create a risk
    MaxDecisions,   \* bound: administrator's steps
    MaxFaults,      \* bound: evaluations that fail
    None

Severities == {"critical", "high", "medium", "low"}
Critical == {"critical", "high"}        \* CRITICAL_SEVERITIES
Result == [passed : BOOLEAN, severity : Severities]

(* score: the severity whose range severity_score is in, None for NULL.    *)
Threat == [compliance : BOOLEAN, score : Severities \cup {None}]

ASSUME EvaluationsAssumption == IsFiniteSet(Evaluations)
ASSUME BatchAssumption == Batches \subseteq Seq(Result)
ASSUME ThreatAssumption == Threats \in Seq(Threat)
ASSUME BoundsAssumption == MaxFailing \in Nat /\ MaxDecisions \in Nat /\ MaxFaults \in Nat
ASSUME NoneAssumption == None \notin Nat

VARIABLES
    risks,          \* the agent's rows, in order of insertion
    pc,             \* where each evaluation is
    batch,          \* its results that are still to be evaluated
    target,         \* index of the threat it looks at
    found,          \* id of the open risk it is about to close
    failing, decisions, faults,
    settled         \* history: risks that were not open when it began

countVars == <<failing, decisions, faults>>
evaluationVars == <<pc, batch, target, found>>
vars == <<risks, evaluationVars, countVars, settled>>

Statuses == {"open", "accepted", "transferred", "closed"}
Risk == [threat : DOMAIN Threats, status : Statuses]

OpenRisks(t) == {id \in DOMAIN risks : risks[id].threat = t /\ risks[id].status = "open"}
NotOpen == {id \in DOMAIN risks : risks[id].status # "open"}

Compliance == {t \in DOMAIN Threats : Threats[t].compliance}
FirstOf(S) == {t \in S : \A other \in S : t <= other}   \* empty, or one

(* A compliance threat of the same severity, or else any.                  *)
ThreatFor(severity) ==
    LET matching == {t \in Compliance : Threats[t].score = severity}
    IN  FirstOf(IF matching = {} THEN Compliance ELSE matching)

MayCreate(results) ==
    \E i \in DOMAIN results : ~results[i].passed /\ results[i].severity \in Critical

TypeOK ==
    /\ risks \in Seq(Risk)
    /\ pc \in [Evaluations -> {"idle", "next", "finding", "inserting", "seeking", "closing"}]
    /\ batch \in [Evaluations -> Seq(Result)]
    /\ target \in [Evaluations -> DOMAIN Threats \cup {None}]
    /\ found \in [Evaluations -> DOMAIN risks \cup {None}]
    /\ failing \in 0..MaxFailing /\ decisions \in 0..MaxDecisions /\ faults \in 0..MaxFaults
    /\ settled \in [Evaluations -> SUBSET DOMAIN risks]
    /\ \A e \in Evaluations :
         /\ pc[e] \notin {"idle", "next"} <=> target[e] # None
         /\ pc[e] \notin {"idle", "next"} => target[e] \in Compliance /\ batch[e] # <<>>
         /\ pc[e] = "closing" <=> found[e] # None
         /\ found[e] # None => risks[found[e]].threat = target[e]

Init ==
    /\ risks = <<>>
    /\ pc = [e \in Evaluations |-> "idle"]
    /\ batch = [e \in Evaluations |-> <<>>]
    /\ target = [e \in Evaluations |-> None]
    /\ found = [e \in Evaluations |-> None]
    /\ failing = 0 /\ decisions = 0 /\ faults = 0
    /\ settled = [e \in Evaluations |-> {}]

-----------------------------------------------------------------------------
(* evaluate                                                                *)

Begin(e, results) ==
    /\ pc[e] = "idle"
    /\ MayCreate(results) => failing < MaxFailing
    /\ failing' = IF MayCreate(results) THEN failing + 1 ELSE failing
    /\ pc' = [pc EXCEPT ![e] = "next"]
    /\ batch' = [batch EXCEPT ![e] = results]
    /\ settled' = [settled EXCEPT ![e] = NotOpen]
    /\ UNCHANGED <<risks, target, found, decisions, faults>>

(* Done with the first result of the batch.                                *)
NextResult(e) ==
    /\ pc' = [pc EXCEPT ![e] = "next"]
    /\ batch' = [batch EXCEPT ![e] = Tail(@)]
    /\ target' = [target EXCEPT ![e] = None]
    /\ found' = [found EXCEPT ![e] = None]

Look(e, step, t) ==
    /\ pc' = [pc EXCEPT ![e] = step]
    /\ target' = [target EXCEPT ![e] = t]
    /\ UNCHANGED <<batch, found>>

(* list_threats, and what it is for: a failed critical result looks for a  *)
(* risk to create, one that passed for a risk to close.                    *)
Consider(e) ==
    /\ pc[e] = "next" /\ batch[e] # <<>>
    /\ LET result == Head(batch[e])
           creates == ~result.passed /\ result.severity \in Critical
           threat == IF creates THEN ThreatFor(result.severity)
                     ELSE IF result.passed THEN FirstOf(Compliance)
                     ELSE {}
       IN  \/ \E t \in threat : Look(e, IF creates THEN "finding" ELSE "seeking", t)
           \/ threat = {} /\ NextResult(e)
    /\ UNCHANGED <<risks, countVars, settled>>

Return(e) ==
    /\ pc[e] = "next" /\ batch[e] = <<>>
    /\ pc' = [pc EXCEPT ![e] = "idle"]
    /\ UNCHANGED <<risks, batch, target, found, countVars, settled>>

-----------------------------------------------------------------------------
(* maybe_create_risk: the read and the insert are two statements.          *)

(* Fault: a risk that exists is not looked for.                            *)
FindOpenNever(e) ==
    /\ pc[e] = "finding"
    /\ pc' = [pc EXCEPT ![e] = "inserting"]
    /\ UNCHANGED <<risks, batch, target, found, countVars, settled>>

FindOpen(e) ==
    /\ pc[e] = "finding"
    /\ IF OpenRisks(target[e]) # {}
       THEN NextResult(e)
       ELSE pc' = [pc EXCEPT ![e] = "inserting"] /\ UNCHANGED <<batch, target, found>>
    /\ UNCHANGED <<risks, countVars, settled>>

(* Fault: the insert does not end the evaluation of the result.            *)
InsertRiskStays(e) ==
    /\ pc[e] = "inserting"
    /\ risks' = Append(risks, [threat |-> target[e], status |-> "open"])
    /\ pc' = [pc EXCEPT ![e] = "next"]
    /\ batch' = [batch EXCEPT ![e] = Tail(@)]
    /\ UNCHANGED <<target, found, countVars, settled>>

InsertRisk(e) ==
    /\ pc[e] = "inserting"
    /\ risks' = Append(risks, [threat |-> target[e], status |-> "open"])
    /\ NextResult(e)
    /\ UNCHANGED <<countVars, settled>>

-----------------------------------------------------------------------------
(* maybe_close_risk: the first open risk of the compliance threats, in the *)
(* order of the threats, is closed whichever check it was created for.     *)

(* Fault: only the first compliance threat is looked at.                   *)
SeekOpenFirst(e) ==
    /\ pc[e] = "seeking"
    /\ \/ \E id \in OpenRisks(target[e]) :
            /\ found' = [found EXCEPT ![e] = id]
            /\ pc' = [pc EXCEPT ![e] = "closing"]
            /\ UNCHANGED <<batch, target>>
       \/ OpenRisks(target[e]) = {} /\ NextResult(e)
    /\ UNCHANGED <<risks, countVars, settled>>

(* Fault: any risk that is not closed is taken for an open one.            *)
SeekUnclosed(e) ==
    LET unclosed == {id \in DOMAIN risks : risks[id].threat = target[e] /\ risks[id].status # "closed"}
        after == {t \in Compliance : t > target[e]}
    IN
    /\ pc[e] = "seeking"
    /\ \/ \E id \in unclosed :
            /\ found' = [found EXCEPT ![e] = id]
            /\ pc' = [pc EXCEPT ![e] = "closing"]
            /\ UNCHANGED <<batch, target>>
       \/ unclosed = {} /\ \E t \in FirstOf(after) : Look(e, "seeking", t)
       \/ unclosed = {} /\ after = {} /\ NextResult(e)
    /\ UNCHANGED <<risks, countVars, settled>>

SeekOpen(e) ==
    LET after == {t \in Compliance : t > target[e]}
    IN
    /\ pc[e] = "seeking"
    /\ \/ \E id \in OpenRisks(target[e]) :     \* LIMIT 1
            /\ found' = [found EXCEPT ![e] = id]
            /\ pc' = [pc EXCEPT ![e] = "closing"]
            /\ UNCHANGED <<batch, target>>
       \/ OpenRisks(target[e]) = {} /\ \E t \in FirstOf(after) : Look(e, "seeking", t)
       \/ OpenRisks(target[e]) = {} /\ after = {} /\ NextResult(e)
    /\ UNCHANGED <<risks, countVars, settled>>

(* The UPDATE does not look at the status it overwrites.                   *)
CloseRisk(e) ==
    /\ pc[e] = "closing"
    /\ risks' = [risks EXCEPT ![found[e]].status = "closed"]
    /\ NextResult(e)
    /\ UNCHANGED <<countVars, settled>>

(* A statement fails or the handler is dropped; what was written stays.    *)
Fail(e) ==
    /\ pc[e] # "idle" /\ faults < MaxFaults
    /\ faults' = faults + 1
    /\ pc' = [pc EXCEPT ![e] = "idle"]
    /\ batch' = [batch EXCEPT ![e] = <<>>]
    /\ target' = [target EXCEPT ![e] = None]
    /\ found' = [found EXCEPT ![e] = None]
    /\ UNCHANGED <<risks, failing, decisions, settled>>

(* The administrator accepts, transfers or closes an open risk.            *)
Decide(id, status) ==
    /\ decisions < MaxDecisions
    /\ risks[id].status = "open" /\ status # "open"
    /\ decisions' = decisions + 1
    /\ risks' = [risks EXCEPT ![id].status = status]
    /\ UNCHANGED <<evaluationVars, failing, faults, settled>>

Step(e) ==
    \/ Consider(e) \/ Return(e) \/ FindOpen(e) \/ InsertRisk(e)
    \/ SeekOpen(e) \/ CloseRisk(e)

Next ==
    \/ \E e \in Evaluations :
         \/ \E results \in Batches : Begin(e, results)
         \/ Step(e) \/ Fail(e)
    \/ \E id \in DOMAIN risks, status \in Statuses : Decide(id, status)

Spec == Init /\ [][Next]_vars

AllPassed(results) == results # <<>> /\ \A i \in DOMAIN results : results[i].passed

(* The runtime runs every evaluation on; and the agent goes on sending     *)
(* batches, in the end with everything passed.                             *)
FairSpec ==
    /\ Spec
    /\ \A e \in Evaluations : WF_vars(Step(e))
    /\ \A e \in Evaluations, results \in {b \in Batches : AllPassed(b)} : WF_vars(Begin(e, results))

-----------------------------------------------------------------------------
(* Not more open risks of a threat than evaluations run at once: with one  *)
(* there is no duplicate, "no se debe duplicar" (risk_trigger.rs:136-138). *)
OpenBounded == \A t \in DOMAIN Threats : Cardinality(OpenRisks(t)) <= Cardinality(Evaluations)

(* What the administrator decided before an evaluation began is not undone *)
(* by it; a decision taken between its read and its UPDATE is              *)
(* (risk_trigger.rs:183-189).                                              *)
DecisionsStand ==
    [][\A id \in NotOpen : risks'[id] # risks[id] =>
         \E e \in Evaluations : found[e] = id /\ id \notin settled[e]]_vars

(* When the results pass for good, every open risk is closed in the end,   *)
(* on whichever compliance threat it was opened (risk_trigger.rs:178-202). *)
RisksClear == <>[](\A id \in DOMAIN risks : risks[id].status # "open")
=============================================================================
