-------------------------- MODULE RiskTriggerProofs --------------------------
(***************************************************************************)
(* Proofs about module RiskTrigger, for any finite number of evaluations   *)
(* at once, any batches and any threats.                                   *)
(***************************************************************************)
EXTENDS RiskTrigger, FiniteSetTheorems, SequenceTheorems, TLAPS

(* The threats an evaluation goes to are compliance threats.               *)
LEMMA ThreatChoice ==
    /\ \A S \in SUBSET Compliance : FirstOf(S) \subseteq Compliance
    /\ \A severity \in Severities : ThreatFor(severity) \subseteq Compliance
    /\ Compliance \subseteq DOMAIN Threats
  BY DEF FirstOf, ThreatFor, Compliance

(* Threats and risks are numbered, and None is no number.                  *)
LEMMA ThreatIndices == DOMAIN Threats \subseteq Nat /\ None \notin DOMAIN Threats
<1>1. DOMAIN Threats = 1..Len(Threats) /\ Len(Threats) \in Nat
  BY ThreatAssumption, LenProperties
<1> QED
  BY <1>1, NoneAssumption

(* The rows of the table have the ids from 1 on.                           *)
LEMMA RiskIndices ==
  ASSUME risks \in Seq(Risk)
  PROVE  /\ DOMAIN risks = 1..Len(risks) /\ Len(risks) \in Nat
         /\ DOMAIN risks \subseteq Nat /\ None \notin DOMAIN risks
         /\ \A id \in DOMAIN risks : risks[id] \in Risk
<1>1. DOMAIN risks = 1..Len(risks) /\ Len(risks) \in Nat /\ risks \in [1..Len(risks) -> Risk]
  BY LenProperties
<1> QED
  BY <1>1, NoneAssumption

(* A status overwritten in place leaves the rows and their threats alone.  *)
LEMMA StatusUpdate ==
  ASSUME risks \in Seq(Risk), NEW id \in DOMAIN risks, NEW status \in Statuses,
         risks' = [risks EXCEPT ![id].status = status]
  PROVE  /\ risks' \in Seq(Risk) /\ DOMAIN risks' = DOMAIN risks
         /\ \A other \in DOMAIN risks : risks'[other].threat = risks[other].threat
         /\ \A other \in DOMAIN risks : other # id => risks'[other] = risks[other]
         /\ risks'[id].status = status
<1>1. DOMAIN risks = 1..Len(risks) /\ Len(risks) \in Nat /\ risks \in [1..Len(risks) -> Risk]
  BY LenProperties
<1>2. [risks[id] EXCEPT !.status = status] \in Risk
  BY <1>1 DEF Risk
<1>3. risks' \in [1..Len(risks) -> Risk]
  BY <1>1, <1>2
<1>4. risks' \in Seq(Risk)
  BY <1>1, <1>3
<1>5. \A other \in DOMAIN risks : risks'[other].threat = risks[other].threat
  BY <1>1 DEF Risk
<1>6. risks'[id].status = status
  BY <1>1 DEF Risk
<1> QED
  BY <1>1, <1>3, <1>4, <1>5, <1>6

(* An INSERT adds one open row and leaves the others alone.                *)
LEMMA NewRisk ==
  ASSUME risks \in Seq(Risk), NEW t \in DOMAIN Threats,
         risks' = Append(risks, [threat |-> t, status |-> "open"])
  PROVE  /\ risks' \in Seq(Risk)
         /\ DOMAIN risks' = DOMAIN risks \cup {Len(risks) + 1}
         /\ Len(risks) + 1 \notin DOMAIN risks
         /\ \A id \in DOMAIN risks : risks'[id] = risks[id]
         /\ risks'[Len(risks) + 1] = [threat |-> t, status |-> "open"]
<1> DEFINE new == [threat |-> t, status |-> "open"]
<1>1. new \in Risk
  BY DEF Risk, Statuses
<1> HIDE DEF new
<1>2. risks' = Append(risks, new)
  BY DEF new
<1>3. /\ risks' \in Seq(Risk) /\ Len(risks') = Len(risks) + 1
      /\ \A i \in 1..Len(risks) : risks'[i] = risks[i]
      /\ risks'[Len(risks) + 1] = new
  BY <1>1, <1>2, AppendProperties
<1>4. DOMAIN risks = 1..Len(risks) /\ Len(risks) \in Nat
  BY LenProperties
<1>5. DOMAIN risks' = 1..Len(risks')
  BY <1>3, LenProperties
<1> QED
  BY <1>3, <1>4, <1>5 DEF new

-----------------------------------------------------------------------------
(* The program points of an evaluation, as in TypeOK.                      *)
Steps == {"idle", "next", "finding", "inserting", "seeking", "closing"}

(* The evaluation e is done with its first result.                         *)
LEMMA NextResultTypes ==
  ASSUME TypeOK, NEW e \in Evaluations, pc[e] \notin {"idle"}, batch[e] # <<>>,
         NextResult(e), risks' \in Seq(Risk), DOMAIN risks \subseteq DOMAIN risks',
         \A id \in DOMAIN risks : risks'[id].threat = risks[id].threat,
         UNCHANGED <<countVars, settled>>
  PROVE  TypeOK'
<1> USE DEF TypeOK, NextResult, countVars
<1>1. Tail(batch[e]) \in Seq(Result)
  BY HeadTailProperties
<1>2. batch' \in [Evaluations -> Seq(Result)]
  BY <1>1
<1>3. None \notin DOMAIN Threats /\ None \notin DOMAIN risks
  BY ThreatIndices, RiskIndices
<1>4. /\ pc' \in [Evaluations -> Steps] /\ target' \in [Evaluations -> DOMAIN Threats \cup {None}]
      /\ found' \in [Evaluations -> DOMAIN risks' \cup {None}]
  BY DEF Steps
<1>5. settled' \in [Evaluations -> SUBSET DOMAIN risks']
  OBVIOUS
<1>6. ASSUME NEW q \in Evaluations
      PROVE  /\ pc'[q] \notin {"idle", "next"} <=> target'[q] # None
             /\ pc'[q] \notin {"idle", "next"} => target'[q] \in Compliance /\ batch'[q] # <<>>
             /\ pc'[q] = "closing" <=> found'[q] # None
             /\ found'[q] # None => risks'[found'[q]].threat = target'[q]
  <2>1. CASE q = e
    BY <2>1
  <2>2. CASE q # e
    <3>1. pc'[q] = pc[q] /\ target'[q] = target[q] /\ batch'[q] = batch[q] /\ found'[q] = found[q]
      BY <2>2
    <3> QED
      BY <3>1
  <2> QED
    BY <2>1, <2>2
<1> QED
  BY <1>2, <1>4, <1>5, <1>6 DEF Steps, Compliance

(* The evaluation e goes to the threat t.                                  *)
LEMMA LookTypes ==
  ASSUME TypeOK, NEW e \in Evaluations, NEW step \in {"finding", "seeking"}, NEW t \in Compliance,
         batch[e] # <<>>, found[e] = None, Look(e, step, t), UNCHANGED <<risks, countVars, settled>>
  PROVE  TypeOK'
<1> USE DEF TypeOK, Look, countVars
<1>1. None \notin DOMAIN Threats /\ t \in DOMAIN Threats
  BY ThreatIndices, ThreatChoice
<1>2. ASSUME NEW q \in Evaluations
      PROVE  /\ pc'[q] \notin {"idle", "next"} <=> target'[q] # None
             /\ pc'[q] \notin {"idle", "next"} => target'[q] \in Compliance /\ batch'[q] # <<>>
             /\ pc'[q] = "closing" <=> found'[q] # None
             /\ found'[q] # None => risks'[found'[q]].threat = target'[q]
  <2>1. CASE q = e
    BY <1>1, <2>1
  <2>2. CASE q # e
    <3>1. pc'[q] = pc[q] /\ target'[q] = target[q] /\ batch'[q] = batch[q] /\ found'[q] = found[q]
      BY <2>2
    <3> QED
      BY <3>1
  <2> QED
    BY <2>1, <2>2
<1> QED
  BY <1>1, <1>2 DEF Compliance

(* An evaluation changes its step only, from one step at a threat to       *)
(* another one of the same threat.                                         *)
LEMMA StepTypes ==
  ASSUME TypeOK, NEW e \in Evaluations, pc[e] = "finding",
         pc' = [pc EXCEPT ![e] = "inserting"],
         UNCHANGED <<risks, batch, target, found, countVars, settled>>
  PROVE  TypeOK'
<1> USE DEF TypeOK, countVars
<1>1. ASSUME NEW q \in Evaluations
      PROVE  /\ pc'[q] \notin {"idle", "next"} <=> target'[q] # None
             /\ pc'[q] \notin {"idle", "next"} => target'[q] \in Compliance /\ batch'[q] # <<>>
             /\ pc'[q] = "closing" <=> found'[q] # None
             /\ found'[q] # None => risks'[found'[q]].threat = target'[q]
  <2>1. CASE q = e
    BY <2>1
  <2>2. CASE q # e
    BY <2>2
  <2> QED
    BY <2>1, <2>2
<1> QED
  BY <1>1

(* The search for an open risk, with its three outcomes.                   *)
LEMMA SeekTypes ==
  ASSUME TypeOK, NEW e \in Evaluations, SeekOpen(e)
  PROVE  TypeOK'
<1> USE DEF TypeOK, countVars
<1>1. CASE \E id \in OpenRisks(target[e]) :
             /\ found' = [found EXCEPT ![e] = id]
             /\ pc' = [pc EXCEPT ![e] = "closing"]
             /\ UNCHANGED <<batch, target>>
  <2>1. PICK id \in OpenRisks(target[e]) :
          /\ found' = [found EXCEPT ![e] = id]
          /\ pc' = [pc EXCEPT ![e] = "closing"]
          /\ UNCHANGED <<batch, target>>
    BY <1>1
  <2>2. id \in DOMAIN risks /\ risks[id].threat = target[e] /\ id # None
    BY RiskIndices DEF OpenRisks
  <2>3. pc[e] = "seeking" /\ UNCHANGED <<risks, countVars, settled>>
    BY DEF SeekOpen
  <2>4. ASSUME NEW q \in Evaluations
        PROVE  /\ pc'[q] \notin {"idle", "next"} <=> target'[q] # None
               /\ pc'[q] \notin {"idle", "next"} => target'[q] \in Compliance /\ batch'[q] # <<>>
               /\ pc'[q] = "closing" <=> found'[q] # None
               /\ found'[q] # None => risks'[found'[q]].threat = target'[q]
    <3>1. CASE q = e
      BY <2>1, <2>2, <2>3, <3>1
    <3>2. CASE q # e
      BY <2>1, <2>3, <3>2
    <3> QED
      BY <3>1, <3>2
  <2> QED
    BY <2>1, <2>2, <2>3, <2>4
<1>2. CASE \E t \in FirstOf({u \in Compliance : u > target[e]}) : Look(e, "seeking", t)
  <2>1. PICK t \in FirstOf({u \in Compliance : u > target[e]}) : Look(e, "seeking", t)
    BY <1>2
  <2>2. t \in Compliance
    BY DEF FirstOf
  <2>3. batch[e] # <<>> /\ found[e] = None /\ UNCHANGED <<risks, countVars, settled>>
    BY DEF SeekOpen
  <2> QED
    BY <2>1, <2>2, <2>3, LookTypes
<1>3. CASE NextResult(e)
  <2>1. pc[e] = "seeking" /\ batch[e] # <<>> /\ UNCHANGED <<risks, countVars, settled>>
    BY DEF SeekOpen
  <2> QED
    BY <1>3, <2>1, NextResultTypes
<1> QED
  BY <1>1, <1>2, <1>3 DEF SeekOpen

(* Type correctness.  An evaluation at a threat has a result in hand and a *)
(* compliance threat as its target, and the risk it is about to close is   *)
(* one of that threat (risk_trigger.rs:104-203).                           *)
THEOREM TypeCorrect == Spec => []TypeOK
<1>1. Init => TypeOK
  <2> SUFFICES ASSUME Init PROVE TypeOK
    OBVIOUS
  <2>1. risks \in Seq(Risk) /\ DOMAIN risks = {}
    BY DEF Init
  <2> QED
    BY <2>1, BoundsAssumption DEF Init, TypeOK
<1>2. TypeOK /\ [Next]_vars => TypeOK'
  <2> SUFFICES ASSUME TypeOK, [Next]_vars PROVE TypeOK'
    OBVIOUS
  <2>1. ASSUME NEW e \in Evaluations, NEW results \in Batches, Begin(e, results) PROVE TypeOK'
    <3>1. results \in Seq(Result)
      BY BatchAssumption
    <3>2. failing' \in 0..MaxFailing
      BY <2>1, BoundsAssumption DEF Begin, TypeOK
    <3>3. NotOpen \subseteq DOMAIN risks
      BY DEF NotOpen
    <3>4. ASSUME NEW q \in Evaluations
          PROVE  /\ pc'[q] \notin {"idle", "next"} <=> target'[q] # None
                 /\ pc'[q] \notin {"idle", "next"} => target'[q] \in Compliance /\ batch'[q] # <<>>
                 /\ pc'[q] = "closing" <=> found'[q] # None
                 /\ found'[q] # None => risks'[found'[q]].threat = target'[q]
      <4>1. CASE q = e
        BY <2>1, <4>1 DEF Begin, TypeOK
      <4>2. CASE q # e
        BY <2>1, <4>2 DEF Begin, TypeOK
      <4> QED
        BY <4>1, <4>2
    <3> QED
      BY <2>1, <3>1, <3>2, <3>3, <3>4 DEF Begin, TypeOK
  <2>2. ASSUME NEW e \in Evaluations, Consider(e) PROVE TypeOK'
    <3>1. /\ pc[e] = "next" /\ batch[e] # <<>> /\ found[e] = None
          /\ UNCHANGED <<risks, countVars, settled>>
      BY <2>2 DEF Consider, TypeOK
    <3>2. Head(batch[e]).severity \in Severities
      <4>1. Head(batch[e]) \in Result
        BY <3>1, HeadTailProperties DEF TypeOK
      <4> QED
        BY <4>1 DEF Result
    <3>3. \/ NextResult(e)
          \/ \E step \in {"finding", "seeking"}, t \in Compliance : Look(e, step, t)
      BY <2>2, <3>2, ThreatChoice DEF Consider
    <3>4. CASE NextResult(e)
      <4>1. risks' \in Seq(Risk) /\ DOMAIN risks \subseteq DOMAIN risks'
        BY <3>1 DEF TypeOK
      <4>2. \A id \in DOMAIN risks : risks'[id].threat = risks[id].threat
        BY <3>1
      <4> QED
        BY <3>1, <3>4, <4>1, <4>2, NextResultTypes
    <3>5. CASE \E step \in {"finding", "seeking"}, t \in Compliance : Look(e, step, t)
      BY <3>1, <3>5, LookTypes
    <3> QED
      BY <3>3, <3>4, <3>5
  <2>3. ASSUME NEW e \in Evaluations, Return(e) PROVE TypeOK'
    <3>1. ASSUME NEW q \in Evaluations
          PROVE  /\ pc'[q] \notin {"idle", "next"} <=> target'[q] # None
                 /\ pc'[q] \notin {"idle", "next"} => target'[q] \in Compliance /\ batch'[q] # <<>>
                 /\ pc'[q] = "closing" <=> found'[q] # None
                 /\ found'[q] # None => risks'[found'[q]].threat = target'[q]
      <4>1. CASE q = e
        BY <2>3, <4>1 DEF Return, TypeOK
      <4>2. CASE q # e
        BY <2>3, <4>2 DEF Return, TypeOK
      <4> QED
        BY <4>1, <4>2
    <3> QED
      BY <2>3, <3>1 DEF Return, TypeOK, countVars
  <2>4. ASSUME NEW e \in Evaluations, FindOpen(e) PROVE TypeOK'
    <3>1. pc[e] = "finding" /\ batch[e] # <<>> /\ UNCHANGED <<risks, countVars, settled>>
      BY <2>4 DEF FindOpen, TypeOK
    <3>2. NextResult(e) \/ (pc' = [pc EXCEPT ![e] = "inserting"] /\ UNCHANGED <<batch, target, found>>)
      BY <2>4 DEF FindOpen
    <3>3. CASE NextResult(e)
      <4>1. risks' \in Seq(Risk) /\ DOMAIN risks \subseteq DOMAIN risks'
        BY <3>1 DEF TypeOK
      <4>2. \A id \in DOMAIN risks : risks'[id].threat = risks[id].threat
        BY <3>1
      <4> QED
        BY <3>1, <3>3, <4>1, <4>2, NextResultTypes
    <3>4. CASE pc' = [pc EXCEPT ![e] = "inserting"] /\ UNCHANGED <<batch, target, found>>
      BY <3>1, <3>4, StepTypes
    <3> QED
      BY <3>2, <3>3, <3>4
  <2>5. ASSUME NEW e \in Evaluations, InsertRisk(e) PROVE TypeOK'
    <3>1. /\ pc[e] = "inserting" /\ batch[e] # <<>> /\ target[e] \in DOMAIN Threats
          /\ NextResult(e) /\ UNCHANGED <<countVars, settled>>
      BY <2>5, ThreatChoice DEF InsertRisk, TypeOK
    <3>2. /\ risks' \in Seq(Risk) /\ DOMAIN risks \subseteq DOMAIN risks'
          /\ \A id \in DOMAIN risks : risks'[id] = risks[id]
      BY <2>5, <3>1, NewRisk DEF InsertRisk, TypeOK
    <3> QED
      BY <3>1, <3>2, NextResultTypes
  <2>6. ASSUME NEW e \in Evaluations, SeekOpen(e) PROVE TypeOK'
    BY <2>6, SeekTypes
  <2>7. ASSUME NEW e \in Evaluations, CloseRisk(e) PROVE TypeOK'
    <3>1. /\ pc[e] = "closing" /\ batch[e] # <<>> /\ found[e] \in DOMAIN risks
          /\ NextResult(e) /\ UNCHANGED <<countVars, settled>>
      BY <2>7 DEF CloseRisk, TypeOK
    <3>2. /\ risks' \in Seq(Risk) /\ DOMAIN risks' = DOMAIN risks
          /\ \A id \in DOMAIN risks : risks'[id].threat = risks[id].threat
      BY <2>7, <3>1, StatusUpdate DEF CloseRisk, TypeOK, Statuses
    <3> QED
      BY <3>1, <3>2, NextResultTypes
  <2>8. ASSUME NEW e \in Evaluations, Fail(e) PROVE TypeOK'
    <3>1. faults' \in 0..MaxFaults
      BY <2>8, BoundsAssumption DEF Fail, TypeOK
    <3>2. ASSUME NEW q \in Evaluations
          PROVE  /\ pc'[q] \notin {"idle", "next"} <=> target'[q] # None
                 /\ pc'[q] \notin {"idle", "next"} => target'[q] \in Compliance /\ batch'[q] # <<>>
                 /\ pc'[q] = "closing" <=> found'[q] # None
                 /\ found'[q] # None => risks'[found'[q]].threat = target'[q]
      <4>1. CASE q = e
        BY <2>8, <4>1 DEF Fail, TypeOK
      <4>2. CASE q # e
        BY <2>8, <4>2 DEF Fail, TypeOK
      <4> QED
        BY <4>1, <4>2
    <3> QED
      BY <2>8, <3>1, <3>2 DEF Fail, TypeOK
  <2>9. ASSUME NEW id \in DOMAIN risks, NEW status \in Statuses, Decide(id, status) PROVE TypeOK'
    <3>1. decisions' \in 0..MaxDecisions
      BY <2>9, BoundsAssumption DEF Decide, TypeOK
    <3>2. /\ risks' \in Seq(Risk) /\ DOMAIN risks' = DOMAIN risks
          /\ \A other \in DOMAIN risks : risks'[other].threat = risks[other].threat
      BY <2>9, StatusUpdate DEF Decide, TypeOK
    <3>3. UNCHANGED <<evaluationVars, failing, faults, settled>>
      BY <2>9 DEF Decide
    <3>4. None \notin DOMAIN risks
      BY RiskIndices DEF TypeOK
    <3> QED
      BY <3>1, <3>2, <3>3, <3>4 DEF TypeOK, evaluationVars
  <2>10. CASE UNCHANGED vars
    BY <2>10 DEF vars, evaluationVars, countVars, TypeOK
  <2> QED
    BY <2>1, <2>2, <2>3, <2>4, <2>5, <2>6, <2>7, <2>8, <2>9, <2>10 DEF Next, Step
<1> QED
  BY <1>1, <1>2, PTL DEF Spec

-----------------------------------------------------------------------------
(* The bound on the open risks of a threat is not inductive by itself: an  *)
(* evaluation that found none open may insert one much later.  The         *)
(* evaluations on their way to an INSERT have to be counted in.            *)
Pending(t) == {e \in Evaluations : pc[e] = "inserting" /\ target[e] = t}

BoundInv ==
    \A t \in DOMAIN Threats :
        Cardinality(OpenRisks(t)) + Cardinality(Pending(t)) <= Cardinality(Evaluations)

(* What BoundInv counts is finite.                                         *)
LEMMA FiniteCounts ==
  ASSUME TypeOK, NEW t
  PROVE  /\ IsFiniteSet(OpenRisks(t)) /\ Cardinality(OpenRisks(t)) \in Nat
         /\ IsFiniteSet(Pending(t)) /\ Cardinality(Pending(t)) \in Nat
         /\ Cardinality(Evaluations) \in Nat
         /\ Cardinality(Pending(t)) <= Cardinality(Evaluations)
<1>1. IsFiniteSet(DOMAIN risks)
  BY RiskIndices, FS_Interval DEF TypeOK
<1>2. OpenRisks(t) \in SUBSET DOMAIN risks /\ Pending(t) \in SUBSET Evaluations
  BY DEF OpenRisks, Pending
<1>3. IsFiniteSet(OpenRisks(t)) /\ IsFiniteSet(Pending(t))
  BY <1>1, <1>2, EvaluationsAssumption, FS_Subset
<1>4. Cardinality(Pending(t)) <= Cardinality(Evaluations)
  BY <1>2, EvaluationsAssumption, FS_Subset
<1> QED
  BY <1>3, <1>4, EvaluationsAssumption, FS_CardinalityType

(* A step that opens no risk and sends no evaluation to an INSERT.         *)
LEMMA NothingOpened ==
  ASSUME TypeOK, BoundInv, NEW t \in DOMAIN Threats,
         OpenRisks(t)' \subseteq OpenRisks(t), Pending(t)' \subseteq Pending(t)
  PROVE  (Cardinality(OpenRisks(t)) + Cardinality(Pending(t)) <= Cardinality(Evaluations))'
<1>1. /\ Cardinality(OpenRisks(t)') <= Cardinality(OpenRisks(t))
      /\ Cardinality(Pending(t)') <= Cardinality(Pending(t))
      /\ IsFiniteSet(OpenRisks(t)') /\ IsFiniteSet(Pending(t)')
  BY FiniteCounts, FS_Subset
<1>2. Cardinality(OpenRisks(t)') \in Nat /\ Cardinality(Pending(t)') \in Nat
  BY <1>1, FS_CardinalityType
<1>3. Cardinality(OpenRisks(t)) + Cardinality(Pending(t)) <= Cardinality(Evaluations)
  BY DEF BoundInv
<1> HIDE DEF OpenRisks, Pending
<1>4. Cardinality(OpenRisks(t)') + Cardinality(Pending(t)') <= Cardinality(Evaluations)
  BY <1>1, <1>2, <1>3, FiniteCounts
<1> QED
  BY <1>4

(* The INSERT turns a pending evaluation into an open risk.                *)
LEMMA PendingOpened ==
  ASSUME TypeOK, BoundInv, NEW e \in Evaluations, InsertRisk(e)
  PROVE  BoundInv'
<1>1. /\ pc[e] = "inserting" /\ target[e] \in DOMAIN Threats /\ NextResult(e)
      /\ risks' = Append(risks, [threat |-> target[e], status |-> "open"])
  BY ThreatChoice DEF InsertRisk, TypeOK
<1>2. /\ DOMAIN risks' = DOMAIN risks \cup {Len(risks) + 1}
      /\ Len(risks) + 1 \notin DOMAIN risks
      /\ \A id \in DOMAIN risks : risks'[id] = risks[id]
      /\ risks'[Len(risks) + 1] = [threat |-> target[e], status |-> "open"]
  BY <1>1, NewRisk DEF TypeOK
<1> SUFFICES ASSUME NEW t \in DOMAIN Threats
             PROVE  (Cardinality(OpenRisks(t)) + Cardinality(Pending(t))
                       <= Cardinality(Evaluations))'
  BY DEF BoundInv
<1>3. CASE t # target[e]
  <2>1. OpenRisks(t)' \subseteq OpenRisks(t)
    BY <1>2, <1>3 DEF OpenRisks
  <2>2. Pending(t)' \subseteq Pending(t)
    BY <1>1, <1>3 DEF NextResult, Pending, TypeOK
  <2> QED
    BY <2>1, <2>2, NothingOpened
<1>4. CASE t = target[e]
  <2>1. Pending(t)' = Pending(t) \ {e} /\ e \in Pending(t)
    BY <1>1, <1>4 DEF NextResult, Pending, TypeOK
  <2>2. OpenRisks(t)' = OpenRisks(t) \cup {Len(risks) + 1}
    BY <1>2, <1>4 DEF OpenRisks
  <2>3. Len(risks) + 1 \notin OpenRisks(t)
    BY <1>2 DEF OpenRisks
  <2>4. Cardinality(OpenRisks(t)) + Cardinality(Pending(t)) <= Cardinality(Evaluations)
    BY DEF BoundInv
  <2>5. Cardinality(OpenRisks(t) \cup {Len(risks) + 1}) = Cardinality(OpenRisks(t)) + 1
    BY <2>3, FiniteCounts, FS_AddElement
  <2>6. Cardinality(Pending(t) \ {e}) = Cardinality(Pending(t)) - 1
    BY <2>1, FiniteCounts, FS_RemoveElement
  <2> HIDE DEF OpenRisks, Pending
  <2>7. Cardinality(OpenRisks(t)') + Cardinality(Pending(t)') <= Cardinality(Evaluations)
    BY <2>1, <2>2, <2>4, <2>5, <2>6, FiniteCounts
  <2> QED
    BY <2>7
<1> QED
  BY <1>3, <1>4

(* An update of a status that does not make the risk open opens none.      *)
LEMMA UpdateOpensNone ==
  ASSUME risks \in Seq(Risk), NEW id \in DOMAIN risks, NEW status \in Statuses,
         status # "open", risks' = [risks EXCEPT ![id].status = status], NEW t
  PROVE  OpenRisks(t)' \subseteq OpenRisks(t)
<1>1. /\ DOMAIN risks' = DOMAIN risks
      /\ \A other \in DOMAIN risks : other # id => risks'[other] = risks[other]
      /\ risks'[id].status = status
  BY StatusUpdate
<1> QED
  BY <1>1 DEF OpenRisks

(* BoundInv is inductive: only the read and the INSERT disturb it.         *)
LEMMA BoundPreserved == TypeOK /\ BoundInv /\ [Next]_vars => BoundInv'
<1> SUFFICES ASSUME TypeOK, BoundInv, [Next]_vars PROVE BoundInv'
  OBVIOUS
<1>1. SUFFICES ASSUME \A t \in DOMAIN Threats :
                        OpenRisks(t)' \subseteq OpenRisks(t) /\ Pending(t)' \subseteq Pending(t)
                        => (Cardinality(OpenRisks(t)) + Cardinality(Pending(t))
                              <= Cardinality(Evaluations))'
               PROVE  BoundInv'
  BY NothingOpened
<1>2. ASSUME NEW e \in Evaluations, NEW results \in Batches, Begin(e, results) PROVE BoundInv'
  BY <1>1, <1>2 DEF Begin, OpenRisks, Pending, BoundInv, TypeOK
<1>3. ASSUME NEW e \in Evaluations, Consider(e) PROVE BoundInv'
  <2>1. risks' = risks /\ \A q \in Evaluations : pc'[q] = "inserting" => q # e
    BY <1>3 DEF Consider, Look, NextResult, TypeOK
  <2>2. \A q \in Evaluations \ {e} : pc'[q] = pc[q] /\ target'[q] = target[q]
    BY <1>3 DEF Consider, Look, NextResult, TypeOK
  <2> QED
    BY <1>1, <2>1, <2>2 DEF OpenRisks, Pending, BoundInv
<1>4. ASSUME NEW e \in Evaluations, Return(e) PROVE BoundInv'
  BY <1>1, <1>4 DEF Return, OpenRisks, Pending, BoundInv, TypeOK
<1>5. ASSUME NEW e \in Evaluations, FindOpen(e) PROVE BoundInv'
  <2>1. CASE OpenRisks(target[e]) # {}
    BY <1>1, <1>5, <2>1 DEF FindOpen, NextResult, OpenRisks, Pending, BoundInv, TypeOK
  <2>2. CASE OpenRisks(target[e]) = {}
    <3>1. UNCHANGED <<risks, target>> /\ pc' = [pc EXCEPT ![e] = "inserting"]
      BY <1>5, <2>2 DEF FindOpen
    <3> SUFFICES ASSUME NEW t \in DOMAIN Threats
                 PROVE  (Cardinality(OpenRisks(t)) + Cardinality(Pending(t))
                           <= Cardinality(Evaluations))'
      BY DEF BoundInv
    <3>2. CASE t = target[e]
      <4>1. OpenRisks(t)' = {}
        BY <2>2, <3>1, <3>2 DEF OpenRisks
      <4>2. Pending(t)' \in SUBSET Evaluations
        BY DEF Pending
      <4>3. /\ Cardinality(Pending(t)') <= Cardinality(Evaluations)
            /\ Cardinality(Pending(t)') \in Nat
        BY <4>2, EvaluationsAssumption, FS_Subset, FS_CardinalityType
      <4>4. Cardinality(OpenRisks(t)') = 0
        BY <4>1, FS_EmptySet
      <4>5. Cardinality(OpenRisks(t)') + Cardinality(Pending(t)') <= Cardinality(Evaluations)
        BY <4>3, <4>4, FiniteCounts
      <4> QED
        BY <4>5
    <3>3. CASE t # target[e]
      BY <1>1, <3>1, <3>3 DEF OpenRisks, Pending, TypeOK
    <3> QED
      BY <3>2, <3>3
  <2> QED
    BY <2>1, <2>2
<1>6. ASSUME NEW e \in Evaluations, InsertRisk(e) PROVE BoundInv'
  BY <1>6, PendingOpened
<1>7. ASSUME NEW e \in Evaluations, SeekOpen(e) PROVE BoundInv'
  <2>1. risks' = risks /\ \A q \in Evaluations : pc'[q] = "inserting" => q # e
    BY <1>7 DEF SeekOpen, Look, NextResult, TypeOK
  <2>2. \A q \in Evaluations \ {e} : pc'[q] = pc[q] /\ target'[q] = target[q]
    BY <1>7 DEF SeekOpen, Look, NextResult, TypeOK
  <2> QED
    BY <1>1, <2>1, <2>2 DEF OpenRisks, Pending, BoundInv
<1>8. ASSUME NEW e \in Evaluations, CloseRisk(e) PROVE BoundInv'
  <2>1. found[e] \in DOMAIN risks
    BY <1>8 DEF CloseRisk, TypeOK
  <2>2. \A t : OpenRisks(t)' \subseteq OpenRisks(t)
    BY <1>8, <2>1, UpdateOpensNone DEF CloseRisk, TypeOK, Statuses
  <2>3. \A t : Pending(t)' \subseteq Pending(t)
    BY <1>8 DEF CloseRisk, NextResult, Pending, TypeOK
  <2> QED
    BY <1>1, <2>2, <2>3 DEF BoundInv
<1>9. ASSUME NEW e \in Evaluations, Fail(e) PROVE BoundInv'
  BY <1>1, <1>9 DEF Fail, OpenRisks, Pending, BoundInv, TypeOK
<1>10. ASSUME NEW id \in DOMAIN risks, NEW status \in Statuses, Decide(id, status) PROVE BoundInv'
  <2>1. \A t : OpenRisks(t)' \subseteq OpenRisks(t)
    BY <1>10, UpdateOpensNone DEF Decide, TypeOK
  <2>2. \A t : Pending(t)' \subseteq Pending(t)
    BY <1>10 DEF Decide, evaluationVars, Pending
  <2> QED
    BY <1>1, <2>1, <2>2 DEF BoundInv
<1>11. CASE UNCHANGED vars
  BY <1>1, <1>11 DEF vars, evaluationVars, OpenRisks, Pending, BoundInv
<1> QED
  BY <1>2, <1>3, <1>4, <1>5, <1>6, <1>7, <1>8, <1>9, <1>10, <1>11 DEF Next, Step

(* No threat has more open risks than evaluations run at once, although    *)
(* the read and the INSERT of maybe_create_risk are two statements         *)
(* (risk_trigger.rs:132-154).                                              *)
THEOREM OpenBoundedHolds == Spec => []OpenBounded
<1>1. Init => BoundInv
  <2> SUFFICES ASSUME Init, NEW t \in DOMAIN Threats
               PROVE  Cardinality(OpenRisks(t)) + Cardinality(Pending(t)) <= Cardinality(Evaluations)
    BY DEF BoundInv
  <2>1. OpenRisks(t) = {} /\ Pending(t) = {}
    BY DEF Init, OpenRisks, Pending
  <2>2. Cardinality(OpenRisks(t)) = 0 /\ Cardinality(Pending(t)) = 0
    BY <2>1, FS_EmptySet
  <2> QED
    BY <2>2, EvaluationsAssumption, FS_CardinalityType
<1>2. TypeOK /\ BoundInv => OpenBounded
  <2> SUFFICES ASSUME TypeOK, BoundInv, NEW t \in DOMAIN Threats
               PROVE  Cardinality(OpenRisks(t)) <= Cardinality(Evaluations)
    BY DEF OpenBounded
  <2>1. Cardinality(OpenRisks(t)) + Cardinality(Pending(t)) <= Cardinality(Evaluations)
    BY DEF BoundInv
  <2> QED
    BY <2>1, FiniteCounts
<1> QED
  BY <1>1, <1>2, TypeCorrect, BoundPreserved, PTL DEF Spec

-----------------------------------------------------------------------------
(* What was decided when an evaluation began is still decided, and is not  *)
(* what the evaluation has found.                                          *)
SettledInv ==
    \A e \in Evaluations :
        settled[e] \subseteq NotOpen /\ (found[e] # None => found[e] \notin settled[e])

(* No step opens a risk again.                                             *)
LEMMA DecidedStays ==
  ASSUME TypeOK, [Next]_vars
  PROVE  NotOpen \subseteq NotOpen'
<1>1. ASSUME NEW e \in Evaluations, InsertRisk(e) PROVE NotOpen \subseteq NotOpen'
  <2>1. target[e] \in DOMAIN Threats
    BY <1>1, ThreatChoice DEF InsertRisk, TypeOK
  <2> QED
    BY <1>1, <2>1, NewRisk DEF InsertRisk, TypeOK, NotOpen
<1>2. ASSUME NEW e \in Evaluations, CloseRisk(e) PROVE NotOpen \subseteq NotOpen'
  <2>1. found[e] \in DOMAIN risks
    BY <1>2 DEF CloseRisk, TypeOK
  <2>2. /\ DOMAIN risks' = DOMAIN risks
        /\ \A other \in DOMAIN risks : other # found[e] => risks'[other] = risks[other]
        /\ risks'[found[e]].status = "closed"
    BY <1>2, <2>1, StatusUpdate DEF CloseRisk, TypeOK, Statuses
  <2> QED
    BY <2>2 DEF NotOpen
<1>3. ASSUME NEW id \in DOMAIN risks, NEW status \in Statuses, Decide(id, status)
      PROVE  NotOpen \subseteq NotOpen'
  <2>1. /\ DOMAIN risks' = DOMAIN risks
        /\ \A other \in DOMAIN risks : other # id => risks'[other] = risks[other]
        /\ risks'[id].status = status /\ status # "open"
    BY <1>3, StatusUpdate DEF Decide, TypeOK
  <2> QED
    BY <2>1 DEF NotOpen
<1>4. CASE UNCHANGED risks
  BY <1>4 DEF NotOpen
<1> QED
  BY <1>1, <1>2, <1>3, <1>4
     DEF Next, Step, vars, Begin, Consider, Return, FindOpen, SeekOpen, Fail

(* SettledInv is inductive.                                                *)
LEMMA SettledPreserved == TypeOK /\ SettledInv /\ [Next]_vars => SettledInv'
<1> SUFFICES ASSUME TypeOK, SettledInv, [Next]_vars, NEW q \in Evaluations
             PROVE  (settled[q] \subseteq NotOpen /\ (found[q] # None => found[q] \notin settled[q]))'
  BY DEF SettledInv
<1>1. NotOpen \subseteq NotOpen'
  BY DecidedStays
<1>2. settled[q] \subseteq NotOpen /\ (found[q] # None => found[q] \notin settled[q])
  BY DEF SettledInv
<1> SUFFICES settled'[q] \subseteq NotOpen' /\ (found'[q] # None => found'[q] \notin settled'[q])
  OBVIOUS
<1>3. ASSUME NEW e \in Evaluations, NEW results \in Batches, Begin(e, results)
      PROVE  settled'[q] \subseteq NotOpen' /\ (found'[q] # None => found'[q] \notin settled'[q])
  <2>1. found[e] = None /\ found' = found /\ settled' = [settled EXCEPT ![e] = NotOpen]
    BY <1>3 DEF Begin, TypeOK
  <2>2. CASE q = e
    BY <1>1, <2>1, <2>2 DEF TypeOK
  <2>3. CASE q # e
    BY <1>1, <1>2, <2>1, <2>3 DEF TypeOK
  <2> QED
    BY <2>2, <2>3
<1>4. ASSUME NEW e \in Evaluations, SeekOpen(e)
      PROVE  settled'[q] \subseteq NotOpen' /\ (found'[q] # None => found'[q] \notin settled'[q])
  <2>1. settled' = settled
    BY <1>4 DEF SeekOpen
  <2>2. found'[q] = found[q] \/ found'[q] = None \/ found'[q] \in OpenRisks(target[e])
    BY <1>4 DEF SeekOpen, Look, NextResult, TypeOK
  <2>3. OpenRisks(target[e]) \cap settled[q] = {}
    BY <1>2 DEF OpenRisks, NotOpen
  <2> QED
    BY <1>1, <1>2, <2>1, <2>2, <2>3
<1>5. CASE settled' = settled /\ (found'[q] = found[q] \/ found'[q] = None)
  BY <1>1, <1>2, <1>5
<1>6. ASSUME NEW e \in Evaluations, Consider(e) \/ FindOpen(e) \/ InsertRisk(e) \/ CloseRisk(e)
                                    \/ Return(e) \/ Fail(e)
      PROVE  settled' = settled /\ (found'[q] = found[q] \/ found'[q] = None)
  BY <1>6 DEF Consider, Look, FindOpen, InsertRisk, CloseRisk, Return, Fail, NextResult, TypeOK
<1>7. ASSUME NEW id \in DOMAIN risks, NEW status \in Statuses, Decide(id, status)
      PROVE  settled' = settled /\ found' = found
  BY <1>7 DEF Decide, evaluationVars
<1>8. CASE UNCHANGED vars
  BY <1>5, <1>8 DEF vars, evaluationVars
<1> QED
  BY <1>3, <1>4, <1>5, <1>6, <1>7, <1>8 DEF Next, Step

(* A decision of the administrator is overwritten only by an evaluation    *)
(* that had begun before it: the UPDATE of maybe_close_risk does not look  *)
(* at the status, and what it closes was open when it was read.            *)
THEOREM DecisionsStandHolds == Spec => DecisionsStand
<1>1. Init => SettledInv
  BY DEF Init, SettledInv
<1>2. TypeOK /\ SettledInv /\ [Next]_vars
      => [\A id \in NotOpen : risks'[id] # risks[id] =>
            \E e \in Evaluations : found[e] = id /\ id \notin settled[e]]_vars
  <2> SUFFICES ASSUME TypeOK, SettledInv, Next, NEW id \in NotOpen, risks'[id] # risks[id]
               PROVE  \E e \in Evaluations : found[e] = id /\ id \notin settled[e]
    OBVIOUS
  <2>1. id \in DOMAIN risks /\ risks[id].status # "open"
    BY DEF NotOpen
  <2>2. ASSUME NEW e \in Evaluations, CloseRisk(e)
        PROVE  found[e] = id /\ id \notin settled[e]
    <3>1. found[e] \in DOMAIN risks /\ found[e] # None
      BY <2>2, RiskIndices DEF CloseRisk, TypeOK
    <3>2. found[e] = id
      BY <2>1, <2>2, <3>1, StatusUpdate DEF CloseRisk, TypeOK, Statuses
    <3> QED
      BY <3>1, <3>2 DEF SettledInv
  <2>3. ASSUME NEW e \in Evaluations, InsertRisk(e) PROVE FALSE
    <3>1. target[e] \in DOMAIN Threats
      BY <2>3, ThreatChoice DEF InsertRisk, TypeOK
    <3> QED
      BY <2>1, <2>3, <3>1, NewRisk DEF InsertRisk, TypeOK
  <2>4. ASSUME NEW other \in DOMAIN risks, NEW status \in Statuses, Decide(other, status)
        PROVE  FALSE
    BY <2>1, <2>4, StatusUpdate DEF Decide, TypeOK
  <2>5. risks' # risks
    OBVIOUS
  <2> QED
    BY <2>2, <2>3, <2>4, <2>5
       DEF Next, Step, Begin, Consider, Return, FindOpen, SeekOpen, Fail
<1>3. Spec => [](TypeOK /\ SettledInv)
  BY <1>1, TypeCorrect, SettledPreserved, PTL DEF Spec
<1> QED
  BY <1>2, <1>3, PTL DEF Spec, DecisionsStand
=============================================================================
