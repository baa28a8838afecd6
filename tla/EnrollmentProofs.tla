-------------------------- MODULE EnrollmentProofs --------------------------
(***************************************************************************)
(* Proofs about module Enrollment, for any number of tokens, requests,     *)
(* hosts, addresses and agents.                                            *)
(***************************************************************************)
EXTENDS Enrollment, TLAPS

-----------------------------------------------------------------------------
(* Type correctness: also that a request has a message once it arrived and *)
(* an agent once it is registered (enroll.rs:68-108).                      *)
THEOREM TypeCorrect == Spec => []TypeOK
<1>1. Init => TypeOK
  BY DEF Init, TypeOK, Stages, Registered
<1>2. TypeOK /\ [Next]_vars => TypeOK'
  <2> SUFFICES ASSUME TypeOK, [Next]_vars PROVE TypeOK'
    OBVIOUS
  <2> USE DEF TypeOK, Stages, Registered, Goto, tokenVars
  <2>1. ASSUME NEW t \in Tokens, TokenStep(t) PROVE TypeOK'
    BY <2>1 DEF TokenStep, GenerateToken, ExpireToken
  <2>2. ASSUME NEW r \in Requests, EnrollStep(r) PROVE TypeOK'
    <3>1. CASE Arrive(r)
      BY <3>1, NoneAssumption DEF Arrive
    <3>2. CASE FindEnrollToken(r)
      BY <3>2 DEF FindEnrollToken
    <3>3. CASE ConsumeEnrollToken(r)
      <4>1. Token(r) \in Tokens
        BY <3>3, MessagesAssumption DEF ConsumeEnrollToken, Token
      <4> QED
        BY <3>3, <4>1 DEF ConsumeEnrollToken
    <3>4. CASE UpsertAgent(r)
      <4>1. arg[r].host \in Hosts
        BY <3>4, MessagesAssumption DEF UpsertAgent
      <4>2. CASE \E a \in RowsAt(RemoteIp(r)) :
              /\ agent' = [agent EXCEPT ![r] = a]
              /\ agents' = [agents EXCEPT ![a].host = arg[r].host]
        <5>1. PICK a \in AgentIds :
                /\ agents[a] \in AgentRows
                /\ agent' = [agent EXCEPT ![r] = a]
                /\ agents' = [agents EXCEPT ![a].host = arg[r].host]
          BY <4>2 DEF RowsAt
        <5>2. [agents[a] EXCEPT !.host = arg[r].host] \in AgentRows
          BY <4>1, <5>1 DEF AgentRows
        <5>3. agents' \in [AgentIds -> AgentRows \cup {None}]
          BY <5>1, <5>2
        <5> QED
          BY <3>4, <5>1, <5>3, NoneAssumption DEF UpsertAgent
      <4>3. CASE \E a \in FreshIds :
              /\ agent' = [agent EXCEPT ![r] = a]
              /\ agents' = [agents EXCEPT ![a] =
                   [ip |-> RemoteIp(r), host |-> arg[r].host, enabled |-> TRUE]]
        BY <3>4, <4>1, <4>3, IpAssumption, NoneAssumption
           DEF UpsertAgent, FreshIds, RemoteIp, AgentRows
      <4> QED
        BY <3>4, <4>2, <4>3 DEF UpsertAgent
    <3>5. CASE SignCsr(r)
      BY <3>5 DEF SignCsr
    <3>6. CASE StoreCert(r)
      <4> DEFINE row == [owner |-> r, revoked |-> FALSE]
      <4>0. row \in CertRows
        BY DEF CertRows
      <4>1. certs' \in [AgentIds -> CertRows \cup {None}]
        <5>1. certs' = [certs EXCEPT ![agent[r]] = row] \/ certs' = certs
          BY <3>6 DEF StoreCert
        <5> HIDE DEF row
        <5> QED
          BY <4>0, <5>1
      <4>2. PICK s \in {"stored", "failed"} :
              pc[r] = "signed" /\ pc' = [pc EXCEPT ![r] = s]
        BY <3>6 DEF StoreCert
      <4>3. UNCHANGED <<tokens, expired, agents, arg, agent, revoking, consumed>>
        BY <3>6 DEF StoreCert
      <4> QED
        BY <4>1, <4>2, <4>3
    <3>7. CASE Reply(r)
      BY <3>7 DEF Reply
    <3>8. CASE Abort(r)
      BY <3>8 DEF Abort, InFlight
    <3> QED
      BY <2>2, <3>1, <3>2, <3>3, <3>4, <3>5, <3>6, <3>7, <3>8 DEF EnrollStep
  <2>3. ASSUME NEW a \in AgentIds, AdminStep(a) PROVE TypeOK'
    <3>1. CASE RevokeRead(a) \/ RevokeAbort(a)
      BY <3>1 DEF RevokeRead, RevokeAbort
    <3>2. CASE RevokeWrite(a)
      BY <3>2 DEF RevokeWrite, CertRows
    <3>3. CASE DeleteAgent(a)
      BY <3>3 DEF DeleteAgent
    <3>4. CASE \E flag \in BOOLEAN : SetEnabled(a, flag)
      BY <3>4 DEF SetEnabled, AgentRows
    <3> QED
      BY <2>3, <3>1, <3>2, <3>3, <3>4 DEF AdminStep
  <2>4. CASE UNCHANGED vars
    BY <2>4 DEF vars
  <2> QED
    BY <2>1, <2>2, <2>3, <2>4 DEF Next
<1> QED
  BY <1>1, <1>2, PTL DEF Spec

-----------------------------------------------------------------------------
(* The inductive invariant behind EffectsNeedToken and CertProvenance.     *)

(* A request that passed its UPDATE is in the history, and so is any that  *)
(* got an agent id; the token of such a request is and remains used.       *)
SpendingInv ==
    \A r \in Requests :
        /\ pc[r] \in Registered \cup {"consumed"} => r \in consumed
        /\ agent[r] # None => r \in consumed
        /\ r \in consumed => arg[r] # None /\ tokens[Token(r)] = "used"

(* A row was stored by a request that is past its store and registered the *)
(* agent of the row, which exists.                                         *)
RowInv ==
    \A a \in AgentIds : certs[a] # None =>
        /\ agents[a] # None
        /\ agent[certs[a].owner] = a
        /\ pc[certs[a].owner] \in {"stored", "done", "failed"}

LEMMA AgentRowsUpdate ==
    /\ None \notin AgentRows /\ None \notin CertRows
    /\ \A row \in AgentRows, h \in Hosts : [row EXCEPT !.host = h] \in AgentRows
    /\ \A row \in AgentRows, e \in BOOLEAN : [row EXCEPT !.enabled = e] \in AgentRows
  BY NoneAssumption DEF AgentRows, CertRows

LEMMA SpendingInit == Init => SpendingInv /\ RowInv
  BY DEF Init, SpendingInv, RowInv, Registered

LEMMA SpendingStep == TypeOK /\ SpendingInv /\ [Next]_vars => SpendingInv'
<1> SUFFICES ASSUME TypeOK, SpendingInv, [Next]_vars PROVE SpendingInv'
  OBVIOUS
<1> USE DEF TypeOK, SpendingInv, Stages, Registered, Goto, tokenVars, Token
<1>0. \A r \in Requests : arg[r] # None => Token(r) \in Tokens
  BY MessagesAssumption
<1>1. ASSUME NEW t \in Tokens, TokenStep(t) PROVE SpendingInv'
  BY <1>0, <1>1 DEF TokenStep, GenerateToken, ExpireToken
<1>2. ASSUME NEW r \in Requests, EnrollStep(r) PROVE SpendingInv'
  <2>1. CASE Arrive(r)
    BY <2>1 DEF Arrive
  <2>2. CASE FindEnrollToken(r)
    BY <2>2 DEF FindEnrollToken
  <2>3. CASE ConsumeEnrollToken(r)
    <3>1. arg[r] # None /\ Token(r) \in Tokens
      BY <2>3, MessagesAssumption DEF ConsumeEnrollToken
    <3> QED
      BY <2>3, <3>1 DEF ConsumeEnrollToken
  <2>4. CASE UpsertAgent(r)
    <3>1. /\ Goto(r, "consumed", "registered")
          /\ UNCHANGED <<tokens, arg, consumed>>
          /\ \A q \in Requests \ {r} : agent'[q] = agent[q]
      BY <2>4 DEF UpsertAgent
    <3> QED
      BY <3>1
  <2>5. CASE SignCsr(r) \/ StoreCert(r) \/ Reply(r) \/ Abort(r)
    <3>1. /\ UNCHANGED <<tokens, arg, consumed, agent>>
          /\ \A q \in Requests \ {r} : pc'[q] = pc[q]
          /\ pc'[r] \in Registered => pc[r] \in Registered
          /\ pc'[r] # "consumed"
      BY <2>5 DEF SignCsr, StoreCert, Reply, Abort
    <3> QED
      BY <3>1
  <2> QED
    BY <1>2, <2>1, <2>2, <2>3, <2>4, <2>5 DEF EnrollStep
<1>3. ASSUME NEW a \in AgentIds, AdminStep(a) PROVE SpendingInv'
  BY <1>3 DEF AdminStep, RevokeRead, RevokeWrite, RevokeAbort, DeleteAgent, SetEnabled
<1>4. CASE UNCHANGED vars
  BY <1>4 DEF vars
<1> QED
  BY <1>1, <1>2, <1>3, <1>4 DEF Next

LEMMA RowStep == TypeOK /\ RowInv /\ [Next]_vars => RowInv'
<1> SUFFICES ASSUME TypeOK, RowInv, [Next]_vars PROVE RowInv'
  OBVIOUS
<1> USE DEF TypeOK, RowInv, Stages, Registered, Goto, tokenVars
<1>0. \A a \in AgentIds : certs[a] # None => certs[a].owner \in Requests
  BY DEF CertRows
<1>1. ASSUME NEW t \in Tokens, TokenStep(t) PROVE RowInv'
  BY <1>1 DEF TokenStep, GenerateToken, ExpireToken
<1>2. ASSUME NEW r \in Requests, EnrollStep(r) PROVE RowInv'
  <2>1. CASE UpsertAgent(r)
    <3>1. pc[r] = "consumed" /\ pc'[r] = "registered" /\ UNCHANGED certs
      BY <2>1 DEF UpsertAgent
    <3>2. \A q \in Requests \ {r} : agent'[q] = agent[q] /\ pc'[q] = pc[q]
      BY <2>1 DEF UpsertAgent
    <3>3. \A a \in AgentIds : agents[a] # None => agents'[a] # None
      <4>1. arg[r].host \in Hosts /\ RemoteIp(r) \in Ips
        BY <2>1, MessagesAssumption, IpAssumption DEF UpsertAgent, RemoteIp
      <4> DEFINE row == [ip |-> RemoteIp(r), host |-> arg[r].host, enabled |-> TRUE]
      <4>2. row \in AgentRows
        BY <4>1 DEF AgentRows
      <4>3. \A a \in RowsAt(RemoteIp(r)) : [agents[a] EXCEPT !.host = arg[r].host] # None
        BY <4>1, AgentRowsUpdate DEF RowsAt
      <4>4. CASE \E a \in RowsAt(RemoteIp(r)) :
                   agents' = [agents EXCEPT ![a].host = arg[r].host]
        BY <4>3, <4>4 DEF RowsAt
      <4>5. CASE \E a \in FreshIds : agents' = [agents EXCEPT ![a] = row]
        <5> HIDE DEF row
        <5> QED
          BY <4>2, <4>5, AgentRowsUpdate DEF FreshIds
      <4> QED
        BY <2>1, <4>4, <4>5 DEF UpsertAgent
    <3> QED
      BY <1>0, <3>1, <3>2, <3>3
  <2>2. CASE StoreCert(r)
    <3>1. UNCHANGED <<agents, agent>> /\ pc[r] = "signed"
      BY <2>2 DEF StoreCert
    <3>2. \A q \in Requests \ {r} : pc'[q] = pc[q]
      BY <2>2 DEF StoreCert
    <3>3. CASE UNCHANGED certs
      BY <1>0, <3>1, <3>2, <3>3
    <3>4. CASE /\ certs' = [certs EXCEPT ![agent[r]] = [owner |-> r, revoked |-> FALSE]]
               /\ pc'[r] = "stored" /\ agents[agent[r]] # None
      BY <1>0, <3>1, <3>2, <3>4
    <3> QED
      BY <2>2, <3>3, <3>4 DEF StoreCert
  <2>3. CASE Arrive(r) \/ FindEnrollToken(r) \/ ConsumeEnrollToken(r)
             \/ SignCsr(r) \/ Reply(r) \/ Abort(r)
    <3>1. UNCHANGED <<agents, certs, agent>>
      BY <2>3 DEF Arrive, FindEnrollToken, ConsumeEnrollToken, SignCsr, Reply, Abort
    <3>2. \A q \in Requests \ {r} : pc'[q] = pc[q]
      BY <2>3 DEF Arrive, FindEnrollToken, ConsumeEnrollToken, SignCsr, Reply, Abort
    <3>3. pc[r] \in {"stored", "done", "failed"} => pc'[r] \in {"stored", "done", "failed"}
      BY <2>3 DEF Arrive, FindEnrollToken, ConsumeEnrollToken, SignCsr, Reply, Abort, InFlight
    <3> QED
      BY <1>0, <3>1, <3>2, <3>3
  <2> QED
    BY <1>2, <2>1, <2>2, <2>3 DEF EnrollStep
<1>3. ASSUME NEW a \in AgentIds, AdminStep(a) PROVE RowInv'
  <2>1. CASE RevokeRead(a) \/ RevokeAbort(a)
    BY <2>1 DEF RevokeRead, RevokeAbort
  <2>2. CASE RevokeWrite(a)
    <3>1. \A b \in AgentIds : certs'[b] # None =>
            certs[b] # None /\ certs'[b].owner = certs[b].owner
      BY <2>2 DEF RevokeWrite, CertRows
    <3> QED
      BY <2>2, <3>1 DEF RevokeWrite
  <2>3. CASE DeleteAgent(a)
    BY <2>3 DEF DeleteAgent
  <2>4. CASE \E flag \in BOOLEAN : SetEnabled(a, flag)
    <3>1. agents[a] \in AgentRows /\ UNCHANGED <<certs, pc, agent>>
      BY <2>4 DEF SetEnabled
    <3>2. agents'[a] # None /\ \A b \in AgentIds \ {a} : agents'[b] = agents[b]
      BY <2>4, <3>1, AgentRowsUpdate DEF SetEnabled
    <3> QED
      BY <1>0, <3>1, <3>2
  <2> QED
    BY <1>3, <2>1, <2>2, <2>3, <2>4 DEF AdminStep
<1>4. CASE UNCHANGED vars
  BY <1>4 DEF vars
<1> QED
  BY <1>1, <1>2, <1>3, <1>4 DEF Next

(* No Enroll RPC touches agents or agent_certs before its token is spent.  *)
THEOREM EffectsNeedTokenHolds == Spec => []EffectsNeedToken
<1>1. TypeOK /\ SpendingInv /\ RowInv => EffectsNeedToken
  BY NoneAssumption DEF TypeOK, SpendingInv, RowInv, EffectsNeedToken
<1> QED
  BY TypeCorrect, SpendingInit, SpendingStep, RowStep, <1>1, PTL DEF Spec

(* Every stored certificate belongs to an existing agent, registered by the*)
(* enrolment that stored it.                                               *)
THEOREM CertProvenanceHolds == Spec => []CertProvenance
<1>1. RowInv => CertProvenance
  BY DEF RowInv, CertProvenance
<1> QED
  BY TypeCorrect, SpendingInit, RowStep, <1>1, PTL DEF Spec

-----------------------------------------------------------------------------
(* Whoever validates a token after it was used or expired is refused, so a *)
(* token can be used twice only from within the window between the check   *)
(* and the UPDATE.                                                         *)
THEOREM SpentTokenStaysSpentHolds == Spec => SpentTokenStaysSpent
<1>1. TypeOK /\ [Next]_vars =>
        [\A t \in Tokens : Spent(t) =>
           /\ Spent(t)'
           /\ \A r \in consumed' \ consumed : Token(r) # t]_vars
  <2> SUFFICES ASSUME TypeOK, [Next]_vars, NEW t \in Tokens, Spent(t)
               PROVE  Spent(t)' /\ \A r \in consumed' \ consumed : Token(r) # t
    OBVIOUS
  <2> USE DEF TypeOK, Spent, TokenValid, Validated, Token, Stages, Goto, tokenVars
  <2>1. ASSUME NEW s \in Tokens, TokenStep(s)
        PROVE  Spent(t)' /\ consumed' = consumed
    BY <2>1 DEF TokenStep, GenerateToken, ExpireToken
  <2>2. ASSUME NEW r \in Requests, EnrollStep(r)
        PROVE  Spent(t)' /\ \A q \in consumed' \ consumed : Token(q) # t
    <3>1. CASE Arrive(r)
      BY <3>1 DEF Arrive
    <3>2. CASE FindEnrollToken(r)
      BY <3>2 DEF FindEnrollToken
    <3>3. CASE ConsumeEnrollToken(r)
      <4>1. Token(r) # t
        BY <3>3 DEF ConsumeEnrollToken
      <4> QED
        BY <3>3, <4>1 DEF ConsumeEnrollToken
    <3>4. CASE UpsertAgent(r) \/ SignCsr(r) \/ StoreCert(r) \/ Reply(r) \/ Abort(r)
      <4>1. UNCHANGED <<tokens, expired, arg, consumed>>
        BY <3>4 DEF UpsertAgent, SignCsr, StoreCert, Reply, Abort
      <4>2. \A q \in Requests : pc'[q] = "found" => pc[q] = "found"
        BY <3>4 DEF UpsertAgent, SignCsr, StoreCert, Reply, Abort
      <4> QED
        BY <4>1, <4>2
    <3> QED
      BY <2>2, <3>1, <3>2, <3>3, <3>4 DEF EnrollStep
  <2>3. ASSUME NEW a \in AgentIds, AdminStep(a)
        PROVE  Spent(t)' /\ consumed' = consumed
    BY <2>3 DEF AdminStep, RevokeRead, RevokeWrite, RevokeAbort, DeleteAgent, SetEnabled
  <2>4. CASE UNCHANGED vars
    BY <2>4 DEF vars
  <2> QED
    BY <2>1, <2>2, <2>3, <2>4 DEF Next
<1> QED
  BY TypeCorrect, <1>1, PTL DEF Spec, SpentTokenStaysSpent

-----------------------------------------------------------------------------
(* What a revocation is lost to: the invariants say that the row of the    *)
(* certificate is that of its request's agent, and that whoever stores     *)
(* another one there has spent a token and is not the request itself.      *)
THEOREM RevocationClearedByEnrolmentHolds == Spec => RevocationClearedByEnrolment
<1>1. TypeOK /\ SpendingInv /\ RowInv /\ [Next]_vars =>
        [\A r \in Requests : IsRevoked(r) /\ ~IsRevoked(r)' =>
           \/ agents'[agent[r]] = None
           \/ \E q \in consumed \ {r} :
                /\ agent[q] = agent[r] /\ pc[q] = "signed"
                /\ certs'[agent[r]].owner = q]_vars
  <2> SUFFICES ASSUME TypeOK, SpendingInv, RowInv, [Next]_vars,
                      NEW r \in Requests, IsRevoked(r), ~IsRevoked(r)'
               PROVE  \/ agents'[agent[r]] = None
                      \/ \E q \in consumed \ {r} :
                           /\ agent[q] = agent[r] /\ pc[q] = "signed"
                           /\ certs'[agent[r]].owner = q
    OBVIOUS
  <2>1. PICK a \in AgentIds : certs[a] # None /\ certs[a].owner = r /\ certs[a].revoked
    BY DEF IsRevoked
  <2>2. agent[r] = a /\ pc[r] # "signed"
    BY <2>1 DEF RowInv
  <2>3. certs'[a] # certs[a]
    BY <2>1 DEF IsRevoked
  <2>4. ASSUME NEW q \in Requests, StoreCert(q)
        PROVE  q \in consumed \ {r} /\ agent[q] = a /\ pc[q] = "signed" /\ certs'[a].owner = q
    <3>1. /\ pc[q] = "signed"
          /\ certs' = [certs EXCEPT ![agent[q]] = [owner |-> q, revoked |-> FALSE]]
      BY <2>3, <2>4 DEF StoreCert, Goto
    <3>2. agent[q] = a /\ certs'[a].owner = q
      BY <2>3, <3>1 DEF TypeOK
    <3>3. q \in consumed
      BY <3>1 DEF SpendingInv, Registered
    <3> QED
      BY <2>2, <3>1, <3>2, <3>3
  <2>5. ASSUME NEW b \in AgentIds, RevokeWrite(b) PROVE FALSE
    <3>1. certs[a] \in CertRows
      BY <2>1 DEF TypeOK
    <3>2. certs'[a] = [certs[a] EXCEPT !.revoked = TRUE]
      BY <2>3, <2>5 DEF RevokeWrite, TypeOK
    <3> QED
      BY <2>1, <2>3, <3>1, <3>2 DEF CertRows
  <2>6. ASSUME NEW b \in AgentIds, DeleteAgent(b) PROVE agents'[a] = None
    BY <2>3, <2>6 DEF DeleteAgent, TypeOK
  <2>7. ~UNCHANGED certs
    BY <2>3
  <2> QED
    BY <2>2, <2>4, <2>5, <2>6, <2>7
       DEF Next, vars, TokenStep, GenerateToken, ExpireToken, EnrollStep, Arrive,
           FindEnrollToken, ConsumeEnrollToken, UpsertAgent, SignCsr, Reply, Abort,
           AdminStep, RevokeRead, RevokeAbort, SetEnabled
<1> QED
  BY TypeCorrect, SpendingInit, SpendingStep, RowStep, <1>1, PTL
     DEF Spec, RevocationClearedByEnrolment

-----------------------------------------------------------------------------
(* What the agents table owes to the enrolments: an agent has an id only   *)
(* from its upsert on, and a row bears the name that some enrolment, which *)
(* spent a token, registered it under.                                     *)
AgentInv ==
    /\ \A r \in Requests : agent[r] # None => pc[r] \in Registered \cup {"failed"}
    /\ \A a \in AgentIds : agents[a] # None =>
         \E r \in Requests : agent[r] = a /\ arg[r].host = agents[a].host

(* Both branches of the upsert write one row, for the id they return.  The *)
(* row of another enrolment keeps its `enabled`.                           *)
LEMMA UpsertOutcome ==
  ASSUME TypeOK, NEW r \in Requests, UpsertAgent(r)
  PROVE  \E a \in AgentIds, row \in AgentRows :
           /\ agent' = [agent EXCEPT ![r] = a] /\ agents' = [agents EXCEPT ![a] = row]
           /\ row.host = arg[r].host
           /\ \/ agents[a] # None /\ row.enabled = agents[a].enabled
              \/ a \in FreshIds
<1>1. arg[r].host \in Hosts /\ RemoteIp(r) \in Ips
  BY MessagesAssumption, IpAssumption DEF TypeOK, UpsertAgent, Goto, RemoteIp
<1>2. CASE \E a \in RowsAt(RemoteIp(r)) :
             /\ agent' = [agent EXCEPT ![r] = a]
             /\ agents' = [agents EXCEPT ![a].host = arg[r].host]
  <2>1. PICK a \in RowsAt(RemoteIp(r)) :
          /\ agent' = [agent EXCEPT ![r] = a]
          /\ agents' = [agents EXCEPT ![a].host = arg[r].host]
    BY <1>2
  <2> DEFINE row == [agents[a] EXCEPT !.host = arg[r].host]
  <2>2. a \in AgentIds /\ agents[a] # None /\ agents[a] \in AgentRows
    BY DEF RowsAt, TypeOK
  <2>3. row \in AgentRows
    BY <1>1, <2>2, AgentRowsUpdate
  <2>4. row.host = arg[r].host /\ row.enabled = agents[a].enabled
    BY <2>2 DEF AgentRows
  <2>5. agents' = [agents EXCEPT ![a] = row]
    BY <2>1
  <2> HIDE DEF row
  <2> QED
    BY <2>1, <2>2, <2>3, <2>4, <2>5
<1>3. CASE \E a \in FreshIds :
             /\ agent' = [agent EXCEPT ![r] = a]
             /\ agents' = [agents EXCEPT ![a] =
                  [ip |-> RemoteIp(r), host |-> arg[r].host, enabled |-> TRUE]]
  <2> DEFINE row == [ip |-> RemoteIp(r), host |-> arg[r].host, enabled |-> TRUE]
  <2>1. row \in AgentRows /\ row.host = arg[r].host
    BY <1>1 DEF AgentRows
  <2>2. PICK a \in FreshIds :
          agent' = [agent EXCEPT ![r] = a] /\ agents' = [agents EXCEPT ![a] = row]
    BY <1>3
  <2>3. a \in AgentIds
    BY DEF FreshIds
  <2> HIDE DEF row
  <2> QED
    BY <2>1, <2>2, <2>3
<1> QED
  BY <1>2, <1>3 DEF UpsertAgent

LEMMA AgentStep == TypeOK /\ AgentInv /\ [Next]_vars => AgentInv'
<1> SUFFICES ASSUME TypeOK, AgentInv, [Next]_vars PROVE AgentInv'
  OBVIOUS
<1> USE DEF AgentInv, Stages, Registered, Goto, tokenVars
<1>1. ASSUME NEW t \in Tokens, TokenStep(t) PROVE AgentInv'
  BY <1>1 DEF TokenStep, GenerateToken, ExpireToken
<1>2. ASSUME NEW r \in Requests, EnrollStep(r) PROVE AgentInv'
  <2>1. CASE UpsertAgent(r)
    <3>1. PICK a \in AgentIds, row \in AgentRows :
            /\ agent' = [agent EXCEPT ![r] = a] /\ agents' = [agents EXCEPT ![a] = row]
            /\ row.host = arg[r].host
      BY <2>1, UpsertOutcome
    <3>2. /\ pc[r] = "consumed" /\ arg' = arg
          /\ pc' = [pc EXCEPT ![r] = "registered"]
      BY <2>1 DEF UpsertAgent
    <3>3. agent[r] = None
      BY <3>2
    <3>4. \A q \in Requests : agent'[q] # None => pc'[q] \in Registered \cup {"failed"}
      BY <3>1, <3>2 DEF TypeOK
    <3>5. ASSUME NEW b \in AgentIds, agents'[b] # None
          PROVE  \E q \in Requests : agent'[q] = b /\ arg'[q].host = agents'[b].host
      <4>1. CASE b = a
        BY <3>1, <3>2, <4>1 DEF TypeOK
      <4>2. CASE b # a
        <5>1. PICK q \in Requests : agent[q] = b /\ arg[q].host = agents[b].host
          BY <3>1, <3>5, <4>2 DEF TypeOK
        <5>2. q # r
          BY <3>3, <5>1, NoneAssumption
        <5> QED
          BY <3>1, <3>2, <4>2, <5>1, <5>2 DEF TypeOK
      <4> QED
        BY <4>1, <4>2
    <3> QED
      BY <3>4, <3>5
  <2>2. CASE Arrive(r)
    <3>1. pc[r] = "idle" /\ agent[r] = None /\ UNCHANGED <<agents, agent>>
      BY <2>2 DEF Arrive
    <3>2. \A q \in Requests \ {r} : pc'[q] = pc[q] /\ arg'[q] = arg[q]
      BY <2>2 DEF Arrive, TypeOK
    <3> QED
      BY <3>1, <3>2, NoneAssumption
  <2>3. CASE FindEnrollToken(r) \/ ConsumeEnrollToken(r) \/ SignCsr(r) \/ StoreCert(r)
             \/ Reply(r) \/ Abort(r)
    <3>1. UNCHANGED <<agents, agent, arg>>
      BY <2>3 DEF FindEnrollToken, ConsumeEnrollToken, SignCsr, StoreCert, Reply, Abort
    <3>2. \A q \in Requests \ {r} : pc'[q] = pc[q]
      BY <2>3 DEF TypeOK, FindEnrollToken, ConsumeEnrollToken, SignCsr, StoreCert, Reply, Abort
    <3>3. pc[r] \in Registered \cup {"failed"} => pc'[r] \in Registered \cup {"failed"}
      BY <2>3 DEF TypeOK, FindEnrollToken, ConsumeEnrollToken, SignCsr, StoreCert, Reply, Abort
    <3> QED
      BY <3>1, <3>2, <3>3
  <2> QED
    BY <1>2, <2>1, <2>2, <2>3 DEF EnrollStep
<1>3. ASSUME NEW a \in AgentIds, AdminStep(a) PROVE AgentInv'
  <2>1. UNCHANGED <<pc, arg, agent>>
    BY <1>3 DEF AdminStep, RevokeRead, RevokeWrite, RevokeAbort, DeleteAgent, SetEnabled
  <2>2. \A b \in AgentIds : agents'[b] # None =>
          agents[b] # None /\ agents'[b].host = agents[b].host
    <3>1. CASE \E flag \in BOOLEAN : SetEnabled(a, flag)
      <4>1. agents[a] \in AgentRows /\ agents[a] # None
        BY <3>1 DEF SetEnabled, TypeOK
      <4> QED
        BY <3>1, <4>1 DEF SetEnabled, TypeOK, AgentRows
    <3>2. CASE DeleteAgent(a)
      BY <3>2 DEF DeleteAgent, TypeOK
    <3>3. CASE RevokeRead(a) \/ RevokeWrite(a) \/ RevokeAbort(a)
      BY <3>3 DEF RevokeRead, RevokeWrite, RevokeAbort
    <3> QED
      BY <1>3, <3>1, <3>2, <3>3 DEF AdminStep
  <2> QED
    BY <2>1, <2>2
<1>4. CASE UNCHANGED vars
  BY <1>4 DEF vars
<1> QED
  BY <1>1, <1>2, <1>3, <1>4 DEF Next

LEMMA AgentInvariant == Spec => [](TypeOK /\ SpendingInv /\ AgentInv)
<1>1. Init => AgentInv
  BY DEF Init, AgentInv
<1> QED
  BY <1>1, TypeCorrect, SpendingInit, SpendingStep, AgentStep, PTL DEF Spec

(* No enrolment enables an agent the administrator disabled: the upsert of *)
(* an existing row leaves `enabled` alone, and the id of such a row is not *)
(* drawn for a new one (agents.rs:92-96).                                  *)
THEOREM DisabledUntilEnabledHolds == Spec => DisabledUntilEnabled
<1>1. TypeOK /\ AgentInv /\ [Next]_vars =>
        [\A a \in AgentIds :
           agents[a] # None /\ ~agents[a].enabled
           /\ agents'[a] # None /\ agents'[a].enabled => UNCHANGED pc]_vars
  <2> SUFFICES ASSUME TypeOK, AgentInv, Next, NEW a \in AgentIds,
                      agents[a] # None, ~agents[a].enabled, agents'[a].enabled
               PROVE  UNCHANGED pc
    OBVIOUS
  <2>1. ASSUME NEW r \in Requests, UpsertAgent(r) PROVE FALSE
    <3>1. PICK b \in AgentIds, row \in AgentRows :
            /\ agents' = [agents EXCEPT ![b] = row]
            /\ \/ agents[b] # None /\ row.enabled = agents[b].enabled
               \/ b \in FreshIds
      BY <2>1, UpsertOutcome
    <3>2. a \notin FreshIds
      BY DEF AgentInv, FreshIds
    <3> QED
      BY <3>1, <3>2 DEF TypeOK
  <2>2. CASE UNCHANGED agents
    BY <2>2
  <2> QED
    BY <2>1, <2>2 DEF Next, TokenStep, GenerateToken, ExpireToken, EnrollStep, Arrive,
         FindEnrollToken, ConsumeEnrollToken, SignCsr, StoreCert, Reply, Abort, tokenVars,
         AdminStep, RevokeRead, RevokeWrite, RevokeAbort, DeleteAgent, SetEnabled
<1> QED
  BY AgentInvariant, <1>1, PTL DEF Spec, DisabledUntilEnabled
=============================================================================
