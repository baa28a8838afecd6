--------------------------- MODULE AgentAuthProofs ---------------------------
(***************************************************************************)
(* Proofs about module AgentAuth, for any number of calls and whatever     *)
(* enrolments and administration commands run between their SELECTs.       *)
(***************************************************************************)
EXTENDS AgentAuth, EnrollmentProofs

(* The interceptor only reads the tables of the enrolment: what was proved *)
(* of Enrollment holds with calls under way.                               *)
THEOREM CallsOnlyRead == AuthSpec => Spec
<1>1. AuthInit => Init
  BY DEF AuthInit
<1>2. [AuthNext]_authVars => [Next]_vars
  BY DEF AuthNext, CallStep, StartCall, CheckRevoked, LookupAgent, CallError, authVars
<1> QED
  BY <1>1, <1>2, PTL DEF AuthSpec, Spec

(* What was recorded of an enrolment is not changed afterwards.            *)
LEMMA EnrolmentStays ==
  ASSUME TypeOK, AgentInv, [Next]_vars, NEW r \in Requests
  PROVE  /\ agent[r] # None => agent'[r] = agent[r] /\ arg'[r] = arg[r]
         /\ pc[r] = "done" => pc'[r] = "done" /\ arg'[r] = arg[r]
         /\ consumed \subseteq consumed'
<1> USE DEF TypeOK, Stages, Registered, Goto, tokenVars
<1>1. ASSUME NEW q \in Requests, UpsertAgent(q)
      PROVE  /\ agent[r] # None => agent'[r] = agent[r]
             /\ pc[r] = "done" => pc'[r] = "done"
             /\ UNCHANGED <<arg, consumed>>
  <2>1. PICK a \in AgentIds : agent' = [agent EXCEPT ![q] = a]
    BY <1>1, UpsertOutcome
  <2>2. pc[q] = "consumed" /\ agent[q] = None /\ pc' = [pc EXCEPT ![q] = "registered"]
    BY <1>1 DEF UpsertAgent, AgentInv
  <2> QED
    BY <1>1, <2>1, <2>2 DEF UpsertAgent
<1>2. ASSUME NEW q \in Requests, Arrive(q)
      PROVE  /\ agent[r] # None => arg'[r] = arg[r]
             /\ pc[r] = "done" => pc'[r] = "done" /\ arg'[r] = arg[r]
             /\ UNCHANGED <<agent, consumed>>
  <2>1. pc[q] = "idle" /\ agent[q] = None
    BY <1>2 DEF Arrive, AgentInv
  <2> QED
    BY <1>2, <2>1 DEF Arrive
<1>3. ASSUME NEW q \in Requests,
             FindEnrollToken(q) \/ ConsumeEnrollToken(q) \/ SignCsr(q) \/ StoreCert(q)
             \/ Reply(q) \/ Abort(q)
      PROVE  /\ pc[r] = "done" => pc'[r] = "done"
             /\ UNCHANGED <<agent, arg>> /\ consumed \subseteq consumed'
  <2>1. pc[q] # "done" /\ \E s \in Stages : pc' = [pc EXCEPT ![q] = s]
    BY <1>3 DEF FindEnrollToken, ConsumeEnrollToken, SignCsr, StoreCert, Reply, Abort, InFlight
  <2>2. UNCHANGED <<agent, arg>> /\ consumed \subseteq consumed'
    BY <1>3 DEF FindEnrollToken, ConsumeEnrollToken, SignCsr, StoreCert, Reply, Abort
  <2> QED
    BY <2>1, <2>2
<1>4. CASE UNCHANGED <<pc, agent, arg, consumed>>
  BY <1>4
<1> QED
  BY <1>1, <1>2, <1>3, <1>4
     DEF Next, vars, TokenStep, GenerateToken, ExpireToken, EnrollStep,
         AdminStep, RevokeRead, RevokeWrite, RevokeAbort, DeleteAgent, SetEnabled

-----------------------------------------------------------------------------
(* Type correctness: a call under way has a certificate, an accepted one   *)
(* the id of an agent (interceptor.rs:74-122).                             *)
THEOREM AuthTypeCorrect == AuthSpec => []AuthTypeOK
<1>1. AuthInit /\ TypeOK => AuthTypeOK
  BY DEF AuthInit, AuthTypeOK
<1>2. AuthTypeOK /\ TypeOK' /\ [AuthNext]_authVars => AuthTypeOK'
  <2> SUFFICES ASSUME AuthTypeOK, TypeOK', [AuthNext]_authVars PROVE AuthTypeOK'
    OBVIOUS
  <2>1. CASE UNCHANGED callVars
    BY <2>1 DEF callVars, AuthTypeOK
  <2>2. ASSUME NEW c \in Calls, StartCall(c) PROVE AuthTypeOK'
    BY <2>2 DEF StartCall, AuthTypeOK
  <2>3. ASSUME NEW c \in Calls, CheckRevoked(c) \/ CallError(c) PROVE AuthTypeOK'
    BY <2>3 DEF CheckRevoked, CallError, AuthTypeOK
  <2>4. ASSUME NEW c \in Calls, LookupAgent(c) PROVE AuthTypeOK'
    <3>1. NamedByHost(CertCn(callCert[c])) \subseteq AgentIds
      BY DEF NamedByHost
    <3> QED
      BY <2>4, <3>1 DEF LookupAgent, AuthTypeOK
  <2> QED
    BY <2>1, <2>2, <2>3, <2>4 DEF AuthNext, CallStep, authVars, callVars
<1> QED
  BY <1>1, <1>2, CallsOnlyRead, TypeCorrect, PTL DEF AuthSpec

-----------------------------------------------------------------------------
(* A call presents the certificate of an enrolment that was answered, and  *)
(* such an enrolment does not change any more: this makes the property     *)
(* inductive while other enrolments rename and delete the agent's row.     *)
CallInv ==
    /\ \A c \in Calls : callPc[c] # "idle" => pc[callCert[c]] = "done"
    /\ AcceptedIsEnrolled

LEMMA CallStepKeepsInv ==
  AuthTypeOK /\ SpendingInv /\ AgentInv /\ CallInv /\ [AuthNext]_authVars => CallInv'
<1> SUFFICES ASSUME AuthTypeOK, SpendingInv, AgentInv, CallInv, [AuthNext]_authVars PROVE CallInv'
  OBVIOUS
<1>0. TypeOK
  BY DEF AuthTypeOK
<1>1. CASE [Next]_vars /\ UNCHANGED callVars
  <2>1. ASSUME NEW c \in Calls, callPc[c] # "idle" PROVE pc'[callCert[c]] = "done"
    BY <1>0, <1>1, <2>1, EnrolmentStays DEF CallInv, AuthTypeOK
  <2>2. ASSUME NEW c \in Calls, callPc[c] = "accepted"
        PROVE  \E r \in consumed' : agent'[r] = callId[c] /\ arg'[r].host = arg'[callCert[c]].cn
    <3>1. PICK r \in consumed : agent[r] = callId[c] /\ arg[r].host = arg[callCert[c]].cn
      BY <2>2 DEF CallInv, AcceptedIsEnrolled, CertCn
    <3>2. r \in Requests /\ agent[r] # None
      BY <2>2, <3>1, NoneAssumption DEF AuthTypeOK, TypeOK
    <3>3. callCert[c] \in Requests /\ pc[callCert[c]] = "done"
      BY <2>2 DEF CallInv, AuthTypeOK
    <3> QED
      BY <1>0, <1>1, <3>1, <3>2, <3>3, EnrolmentStays
  <2> QED
    BY <1>1, <2>1, <2>2 DEF CallInv, AcceptedIsEnrolled, CertCn, callVars
<1>2. ASSUME NEW c \in Calls, StartCall(c) PROVE CallInv'
  BY <1>2 DEF StartCall, CallInv, AcceptedIsEnrolled, CertCn, AuthTypeOK, vars
<1>3. ASSUME NEW c \in Calls, CheckRevoked(c) \/ CallError(c) PROVE CallInv'
  BY <1>3 DEF CheckRevoked, CallError, CallInv, AcceptedIsEnrolled, CertCn, AuthTypeOK, vars
<1>4. ASSUME NEW c \in Calls, LookupAgent(c) PROVE CallInv'
  <2>1. UNCHANGED <<pc, agent, arg, consumed, callCert>> /\ callPc[c] = "notRevoked"
    BY <1>4 DEF LookupAgent, vars
  <2>2. \A d \in Calls \ {c} : callPc'[d] = callPc[d] /\ callId'[d] = callId[d]
    BY <1>4 DEF LookupAgent, AuthTypeOK
  <2>3. ASSUME callPc'[c] = "accepted"
        PROVE  \E r \in consumed : agent[r] = callId'[c] /\ arg[r].host = arg[callCert[c]].cn
    <3>1. PICK a \in NamedByHost(CertCn(callCert[c])) : callId'[c] = a
      BY <1>4, <2>3 DEF LookupAgent, AuthTypeOK
    <3>2. a \in AgentIds /\ agents[a] # None /\ agents[a].host = arg[callCert[c]].cn
      BY DEF NamedByHost, CertCn
    <3>3. PICK r \in Requests : agent[r] = a /\ arg[r].host = agents[a].host
      BY <3>2 DEF AgentInv
    <3>4. r \in consumed
      BY <3>2, <3>3, NoneAssumption DEF SpendingInv
    <3> QED
      BY <3>1, <3>2, <3>3, <3>4
  <2> QED
    BY <2>1, <2>2, <2>3 DEF CallInv, AcceptedIsEnrolled, CertCn
<1> QED
  BY <1>1, <1>2, <1>3, <1>4 DEF AuthNext, CallStep, authVars, callVars, vars

(* Whatever happened between the two SELECTs and the enrolment, the id a   *)
(* call is given is that of an agent some enrolment paid for with a token, *)
(* under the name in the certificate (interceptor.rs:74-122).              *)
THEOREM AcceptedIsEnrolledHolds == AuthSpec => []AcceptedIsEnrolled
<1>1. AuthInit => CallInv
  BY DEF AuthInit, CallInv, AcceptedIsEnrolled
<1>2. CallInv => AcceptedIsEnrolled
  BY DEF CallInv
<1> QED
  BY <1>1, <1>2, AuthTypeCorrect, CallsOnlyRead, AgentInvariant, CallStepKeepsInv, PTL DEF AuthSpec
=============================================================================
