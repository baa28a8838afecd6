------------------------- MODULE OrchestratorProofs -------------------------
(***************************************************************************)
(* Proofs about module Orchestrator, for any set of agents and any timeout,*)
(* even one for which the monitor cannot start.                            *)
(***************************************************************************)
EXTENDS Orchestrator, TLAPS

LEMMA EntryUpdates ==
    /\ None \notin Entries
    /\ \A h \in Hashes \cup {None} :
         [age |-> 0, hash |-> h, status |-> "online"] \in Entries
    /\ \A e \in Entries :
         /\ \A h \in Hashes : [e EXCEPT !.hash = h] \in Entries
         /\ [e EXCEPT !.status = "offline"] \in Entries
         /\ Older(e) \in Entries
  BY TimeoutAssumption, NoneAssumption DEF Entries, Older, MaxAge

-----------------------------------------------------------------------------
(* Type correctness, with the monitor's bookkeeping: it visits entries only*)
(* while scanning and holds stale ids only during a check                  *)
(* (heartbeat.rs:74-96).                                                   *)
THEOREM TypeCorrect == Spec => []TypeOK
<1>0. CheckInterval \in Nat
  BY TimeoutAssumption DEF CheckInterval
<1>1. Init => TypeOK
  <2> SUFFICES ASSUME Init PROVE TypeOK
    OBVIOUS
  <2>1. agents \in [Agents -> Entries \cup {None}]
    BY DEF Init, Started
  <2>2. monitor \in {"waiting", "panicked"}
    BY DEF Init, Started
  <2> QED
    BY <1>0, <2>1, <2>2 DEF Init, TypeOK
<1>2. TypeOK /\ [Next]_vars => TypeOK'
  <2> SUFFICES ASSUME TypeOK, [Next]_vars PROVE TypeOK'
    OBVIOUS
  <2> USE DEF TypeOK, Known, monitorVars, clockVars
  <2>1. ASSUME NEW a \in Agents, Handler(a) PROVE TypeOK'
    <3>1. CASE UpdateHeartbeat(a)
      <4> DEFINE entry == [age |-> 0, hash |-> IF Known(a) THEN agents[a].hash ELSE None,
                           status |-> "online"]
      <4>1. (IF Known(a) THEN agents[a].hash ELSE None) \in Hashes \cup {None}
        BY DEF Entries
      <4>2. entry \in Entries
        BY <4>1, EntryUpdates
      <4>3. agents' = [agents EXCEPT ![a] = entry]
        BY <3>1 DEF UpdateHeartbeat
      <4>4. UNCHANGED <<monitor, left, stale, phase, due, shutdown>>
        BY <3>1 DEF UpdateHeartbeat
      <4> HIDE DEF entry
      <4> QED
        BY <4>2, <4>3, <4>4
    <3>2. CASE \E h \in Hashes : UpdatePolicyHash(a, h)
      <4>1. PICK h \in Hashes : UpdatePolicyHash(a, h)
        BY <3>2
      <4>2. [agents[a] EXCEPT !.hash = h] \in Entries
        BY <4>1, EntryUpdates DEF UpdatePolicyHash
      <4>3. agents' \in [Agents -> Entries \cup {None}]
        BY <4>1, <4>2 DEF UpdatePolicyHash
      <4> QED
        BY <4>1, <4>3 DEF UpdatePolicyHash
    <3>3. CASE RemoveAgent(a)
      BY <3>3 DEF RemoveAgent
    <3> QED
      BY <2>1, <3>1, <3>2, <3>3 DEF Handler
  <2>2. CASE MonitorStep
    <3>1. CASE StartCheck
      BY <3>1 DEF StartCheck
    <3>2. CASE EndScan
      BY <3>2 DEF EndScan
    <3>3. CASE EndCheck
      BY <3>3 DEF EndCheck
    <3>4. ASSUME NEW a \in Agents, ScanEntry(a) PROVE TypeOK'
      BY <3>4 DEF ScanEntry
    <3>5. ASSUME NEW a \in Agents, MarkOffline(a) PROVE TypeOK'
      BY <3>5, EntryUpdates DEF MarkOffline
    <3> QED
      BY <2>2, <3>1, <3>2, <3>3, <3>4, <3>5 DEF MonitorStep
  <2>3. CASE StopMonitor
    BY <2>3 DEF StopMonitor
  <2>4. CASE Tick
    <3>1. agents' \in [Agents -> Entries \cup {None}]
      BY <2>4, EntryUpdates DEF Tick
    <3>2. phase' \in Nat /\ (CheckInterval > 0 => phase' < CheckInterval)
      BY <2>4, <1>0 DEF Tick
    <3> QED
      BY <2>4, <3>1, <3>2 DEF Tick
  <2>5. CASE Shutdown
    BY <2>5 DEF Shutdown
  <2>6. CASE Restart
    BY <2>6, <1>0 DEF Restart, Started
  <2>7. CASE UNCHANGED vars
    BY <2>7 DEF vars
  <2> QED
    BY <2>1, <2>2, <2>3, <2>4, <2>5, <2>6, <2>7 DEF Next
<1> QED
  BY <1>1, <1>2, PTL DEF Spec

-----------------------------------------------------------------------------
(* A punctual agent is neither offline nor on the monitor's list: the list *)
(* is what makes the fact inductive, for marking does not look at the age. *)
Presumed(a) == ~Offline(a) /\ a \notin stale

LEMMA PresumedStep ==
    ASSUME NEW a \in Agents, TypeOK, ~Overdue(a), Presumed(a), [Next]_vars
    PROVE  Presumed(a)'
<1> USE DEF TypeOK, Presumed, Known, Offline, monitorVars, clockVars
<1>1. ASSUME NEW b \in Agents, Handler(b) PROVE Presumed(a)'
  <2>1. CASE UpdateHeartbeat(b)
    BY <2>1 DEF UpdateHeartbeat
  <2>2. CASE \E h \in Hashes : UpdatePolicyHash(b, h)
    <3>1. PICK h \in Hashes : agents[b] # None /\ agents' = [agents EXCEPT ![b].hash = h]
      BY <2>2 DEF UpdatePolicyHash
    <3>2. agents[b] \in Entries
      BY <3>1
    <3>3. agents'[b].status = agents[b].status /\ agents'[b] # None
      BY <3>1, <3>2, EntryUpdates DEF Entries
    <3> QED
      BY <2>2, <3>1, <3>3 DEF UpdatePolicyHash
  <2>3. CASE RemoveAgent(b)
    BY <2>3 DEF RemoveAgent
  <2> QED
    BY <1>1, <2>1, <2>2, <2>3 DEF Handler
<1>2. CASE MonitorStep
  <2>1. CASE StartCheck \/ EndScan \/ EndCheck
    BY <2>1 DEF StartCheck, EndScan, EndCheck
  <2>2. ASSUME NEW b \in Agents, ScanEntry(b) PROVE Presumed(a)'
    BY <2>2 DEF ScanEntry
  <2>3. ASSUME NEW b \in Agents, MarkOffline(b) PROVE Presumed(a)'
    BY <2>3 DEF MarkOffline
  <2> QED
    BY <1>2, <2>1, <2>2, <2>3 DEF MonitorStep
<1>3. CASE Tick
  <2>1. Known(a) => agents'[a].status = agents[a].status
    BY <1>3 DEF Tick, Older, Entries
  <2>2. ~Known(a) => agents'[a] = None
    BY <1>3 DEF Tick
  <2> QED
    BY <1>3, <2>1, <2>2 DEF Tick
<1>4. CASE StopMonitor \/ Shutdown
  BY <1>4 DEF StopMonitor, Shutdown
<1>5. CASE Restart
  BY <1>5 DEF Restart, Started
<1>6. CASE UNCHANGED vars
  BY <1>6 DEF vars
<1> QED
  BY <1>1, <1>2, <1>3, <1>4, <1>5, <1>6 DEF Next

(* An agent off the monitor's list goes offline only after a silence longer*)
(* than the timeout, from whatever moment on one looks at it.              *)
THEOREM PunctualNeverOfflineHolds == Spec => PunctualNeverOffline
<1> SUFFICES ASSUME NEW a \in Agents
             PROVE  Spec => [](~Offline(a) /\ a \notin stale /\ []~Overdue(a) => []~Offline(a))
  BY DEF PunctualNeverOffline
<1>1. ~Offline(a) /\ a \notin stale => Presumed(a)
  BY DEF Presumed
<1>2. TypeOK /\ ~Overdue(a) /\ Presumed(a) /\ [Next]_vars => Presumed(a)'
  BY PresumedStep
<1>3. Presumed(a) => ~Offline(a)
  BY DEF Presumed
<1> QED
  BY <1>1, <1>2, <1>3, TypeCorrect, PTL DEF Spec
=============================================================================
