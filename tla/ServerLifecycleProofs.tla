------------------------ MODULE ServerLifecycleProofs ------------------------
(***************************************************************************)
(* Proofs about module ServerLifecycle, for any number of crashes, failed  *)
(* starts, stops and signals, any listeners and any supply of keys, with   *)
(* and without the container.                                              *)
(***************************************************************************)
EXTENDS ServerLifecycle, FiniteSetTheorems, TLAPS

(* How the script and the server came where they are: the entry point runs *)
(* in the container only, and the server generates a CA only without it.   *)
RouteInv ==
    /\ pc \in {"check", "ca.key", "ca.crt"} => container
    /\ pc \in {"gen.crt", "gen.key"} => ~container
    /\ container /\ pc \in {"boot", "load", "tls", "serving"} => caCrt # Absent

(* The order in which the two files of a CA are written: the script writes *)
(* the key first, the server the certificate.                              *)
OrderInv ==
    /\ container /\ caCrt # Absent => caKey \in CAs
    /\ ~container /\ caKey # Absent => caCrt \in CAs
    /\ caKey \in CAs /\ caCrt \in CAs => caCrt = caKey

(* What a step that writes knows of the files it needs or replaces.        *)
WriteInv ==
    /\ pc = "ca.key" => caCrt = Absent
    /\ pc = "ca.crt" => caKey \in CAs /\ caCrt \notin CAs
    /\ pc \in {"gen.crt", "gen.key"} => caKey \notin CAs /\ ca[1] = ca[2] /\ ca \in CAs \X CAs
    /\ pc = "gen.crt" => caKey = Absent
    /\ pc = "gen.key" => caCrt = ca[1]
    /\ pc = "server.crt" => serverKey \in ServerKeys
    /\ pc \in {"server.key", "server.crt"} => caKey \in CAs /\ caCrt # Absent

(* The server's certificate is the last file written, and while it is not  *)
(* there or torn the others may change.                                    *)
CertInv ==
    /\ serverCrt # Absent \/ (pc = "server.crt" /\ writing) => caKey \in CAs /\ caCrt = caKey
    /\ serverCrt \notin {Absent, Torn} => serverCrt = <<caCrt, serverKey>>
    /\ pc \in {"ca.key", "ca.crt", "gen.crt", "gen.key"} => serverCrt = Absent
    /\ pc \in {"server.key", "server.crt"} => serverCrt \in {Absent, Torn}

(* What was loaded is what is on the disk; what served is still there.     *)
LoadInv ==
    /\ pc \in {"tls", "serving"} => ca = <<caCrt, caKey>> /\ caCrt \in CAs /\ caKey \in CAs
    /\ pc = "serving" => serverCrt = <<caCrt, serverKey>>
    /\ \A c \in served : caKey = c /\ serverCrt # Absent

FileInv == RouteInv /\ OrderInv /\ WriteInv /\ CertInv /\ LoadInv

(* The marks of a missing and of a torn file are no contents of one.       *)
LEMMA Marks ==
    /\ Absent # Torn
    /\ Absent \notin CAs /\ Torn \notin CAs
    /\ Absent \notin ServerKeys /\ Torn \notin ServerKeys
    /\ Absent \notin CAs \X ServerKeys /\ Torn \notin CAs \X ServerKeys
    /\ NoCA \notin CAs \X CAs
    /\ NewCAs \subseteq CAs /\ NewServerKeys \subseteq ServerKeys
  BY IdentityAssumption DEF NoCA, NewCAs, NewServerKeys

-----------------------------------------------------------------------------
(* One lemma for each kind of step: the ends of a process, the script and  *)
(* the operator, the server's start, and the listeners.                    *)

(* However a process ends, what is on the disk is as it was.               *)
LEMMA EndSteps ==
  ASSUME TypeOK, FileInv, NEW how \in {"clean", "error", "killed"}, End(how), faults' \in 0..MaxFaults
  PROVE  TypeOK' /\ FileInv'
<1>1. TypeOK'
  BY DEF TypeOK, End, fileVars, Writes
<1>2. FileInv'
  BY DEF FileInv, RouteInv, OrderInv, WriteInv, CertInv, LoadInv, End, fileVars
<1> QED
  BY <1>1, <1>2

(* A step without effect on the files, to another point of the way.        *)
LEMMA GotoSteps ==
  ASSUME TypeOK, FileInv, Start \/ IssueByHand \/ Check \/ Boot
  PROVE  TypeOK' /\ FileInv'
<1> USE DEF Start, IssueByHand, Check, Boot, Goto, fileVars
<1>1. TypeOK'
  BY DEF TypeOK, Script, Server, Writes, signalVars, countVars
<1>2. /\ UNCHANGED <<container, caKey, caCrt, serverKey, serverCrt, ca, writing, served>>
      /\ pc' \in {"check", "boot", "load", "ca.key", "server.key"} /\ ~writing
  BY DEF TypeOK, Writes
<1>3. RouteInv' /\ OrderInv'
  BY <1>2 DEF FileInv, RouteInv, OrderInv
<1>4. WriteInv'
  BY <1>2, Marks DEF FileInv, RouteInv, OrderInv, CertInv, WriteInv
<1>5. Check /\ pc' = "server.key" => serverCrt \in {Absent, Torn}
  <2> SUFFICES ASSUME Check, pc' = "server.key", serverCrt \in CAs \X ServerKeys PROVE FALSE
    BY DEF TypeOK
  <2>1. serverCrt = <<caCrt, serverKey>> /\ serverKey \in ServerKeys
    BY Marks DEF FileInv, CertInv
  <2> QED
    BY <2>1, Marks
<1>6. CertInv'
  BY <1>2, <1>5, Marks DEF FileInv, RouteInv, OrderInv, CertInv
<1>7. LoadInv'
  BY <1>2 DEF FileInv, LoadInv
<1> QED
  BY <1>1, <1>3, <1>4, <1>6, <1>7 DEF FileInv

(* A write begins.                                                         *)
LEMMA OpenSteps ==
  ASSUME TypeOK, FileInv, Open
  PROVE  TypeOK' /\ FileInv'
<1> USE DEF Open
<1>1. TypeOK'
  BY DEF TypeOK, signalVars, countVars
<1>2. RouteInv' /\ OrderInv'
  BY Marks DEF FileInv, RouteInv, OrderInv, WriteInv, CertInv, Writes
<1>3. WriteInv'
  BY Marks DEF FileInv, WriteInv, Writes
<1>4. CertInv' /\ LoadInv'
  BY Marks DEF FileInv, WriteInv, CertInv, LoadInv, Writes
<1> QED
  BY <1>1, <1>2, <1>3, <1>4 DEF FileInv

(* A write of the script, or of the operator, ends.                        *)
LEMMA ScriptFills ==
  ASSUME TypeOK, FileInv, FillCaKey \/ FillCaCrt \/ FillServerKey \/ FillServerCrt
  PROVE  TypeOK' /\ FileInv'
<1> USE DEF Filled
<1>1. CASE FillCaKey
  <2>1. caKey' \in CAs
    BY <1>1, Marks DEF FillCaKey
  <2>2. TypeOK'
    BY <1>1, <2>1 DEF FillCaKey, TypeOK, Script, signalVars, countVars
  <2>3. FileInv'
    BY <1>1, <2>1, Marks DEF FillCaKey, FileInv, RouteInv, OrderInv, WriteInv, CertInv, LoadInv
  <2> QED
    BY <2>2, <2>3
<1>2. CASE FillCaCrt
  <2>1. TypeOK'
    BY <1>2 DEF FillCaCrt, TypeOK, Script, signalVars, countVars
  <2>2. FileInv'
    BY <1>2, Marks DEF FillCaCrt, FileInv, RouteInv, OrderInv, WriteInv, CertInv, LoadInv
  <2> QED
    BY <2>1, <2>2
<1>3. CASE FillServerKey
  <2>1. serverKey' \in ServerKeys
    BY <1>3, Marks DEF FillServerKey
  <2>2. TypeOK'
    BY <1>3, <2>1 DEF FillServerKey, TypeOK, Script, signalVars, countVars
  <2>3. FileInv'
    BY <1>3, <2>1, Marks DEF FillServerKey, FileInv, RouteInv, OrderInv, WriteInv, CertInv, LoadInv
  <2> QED
    BY <2>2, <2>3
<1>4. CASE FillServerCrt
  <2>1. caCrt \in CAs /\ caCrt = caKey /\ serverKey \in ServerKeys
    BY <1>4 DEF FillServerCrt, FileInv, WriteInv, CertInv
  <2>2. TypeOK'
    BY <1>4, <2>1 DEF FillServerCrt, TypeOK, Server, signalVars, countVars
  <2>3. FileInv'
    BY <1>4, <2>1, Marks DEF FillServerCrt, FileInv, RouteInv, OrderInv, WriteInv, CertInv, LoadInv
  <2> QED
    BY <2>2, <2>3
<1> QED
  BY <1>1, <1>2, <1>3, <1>4

(* The CA is loaded, or generated in memory: only where no key was.        *)
LEMMA LoadSteps ==
  ASSUME TypeOK, FileInv, LoadOrCreate
  PROVE  TypeOK' /\ FileInv'
<1> USE DEF Goto, fileVars
<1>1. CASE caCrt \in CAs /\ caKey \in CAs /\ Goto("tls") /\ ca' = <<caCrt, caKey>> /\ UNCHANGED fileVars
  <2>1. pc = "load"
    BY DEF LoadOrCreate
  <2>2. TypeOK'
    BY <1>1, <2>1 DEF TypeOK, Server, Writes, signalVars, countVars
  <2>3. FileInv'
    BY <1>1, <2>1, Marks DEF FileInv, RouteInv, OrderInv, WriteInv, CertInv, LoadInv
  <2> QED
    BY <2>2, <2>3
<1>2. CASE /\ Absent \in {caCrt, caKey} /\ Goto("gen.crt")
           /\ \E new \in NewCAs : ca' = <<new, new>>
           /\ UNCHANGED fileVars
  <2>1. pc = "load" /\ ca' \in CAs \X CAs /\ ca'[1] = ca'[2]
    BY <1>2, Marks DEF LoadOrCreate
  <2>2. ~container /\ caKey = Absent /\ serverCrt = Absent
    BY <1>2, <2>1, Marks DEF FileInv, RouteInv, OrderInv, CertInv
  <2>3. TypeOK'
    BY <1>2, <2>1 DEF TypeOK, Server, Writes, signalVars, countVars
  <2>4. FileInv'
    BY <1>2, <2>1, <2>2, Marks DEF FileInv, RouteInv, OrderInv, WriteInv, CertInv, LoadInv, TypeOK, Writes
  <2> QED
    BY <2>3, <2>4
<1>3. CASE End("error") /\ UNCHANGED faults
  <2>1. faults' \in 0..MaxFaults
    BY <1>3 DEF TypeOK
  <2> QED
    BY <1>3, <2>1, EndSteps
<1> QED
  BY <1>1, <1>2, <1>3 DEF LoadOrCreate

(* A write of the server's own CA ends.                                    *)
LEMMA GeneratedFills ==
  ASSUME TypeOK, FileInv, FillGenerated
  PROVE  TypeOK' /\ FileInv'
<1> USE DEF FillGenerated, Filled
<1>1. ca \in CAs \X CAs /\ ca[1] \in CAs /\ ca[2] = ca[1] /\ pc \in {"gen.crt", "gen.key"}
  BY DEF FileInv, WriteInv
<1>2. TypeOK'
  BY <1>1 DEF TypeOK, Server, Writes, signalVars, countVars
<1>3. FileInv'
  BY <1>1, Marks DEF FileInv, RouteInv, OrderInv, WriteInv, CertInv, LoadInv
<1> QED
  BY <1>2, <1>3

(* The material is read: from here on the server serves with it.           *)
LEMMA TlsSteps ==
  ASSUME TypeOK, FileInv, BuildTls
  PROVE  TypeOK' /\ FileInv'
<1>1. CASE /\ {caCrt, serverKey, serverCrt} \cap {Absent, Torn} = {}
           /\ pc' = "serving" /\ served' = served \cup {ca[2]}
           /\ UNCHANGED <<container, fileVars, writing, ca, signalVars, countVars, ended>>
  <2>1. pc = "tls" /\ ca = <<caCrt, caKey>> /\ caCrt \in CAs /\ caKey \in CAs
    BY DEF BuildTls, FileInv, LoadInv
  <2>2. serverCrt = <<caCrt, serverKey>> /\ serverCrt # Absent
    BY <1>1 DEF FileInv, CertInv
  <2>3. TypeOK'
    BY <1>1, <2>1, Marks DEF TypeOK, Server, Writes, fileVars, signalVars, countVars
  <2>4. FileInv'
    BY <1>1, <2>1, <2>2, Marks
       DEF FileInv, RouteInv, OrderInv, WriteInv, CertInv, LoadInv, fileVars
  <2> QED
    BY <2>3, <2>4
<1>2. CASE End("error") /\ UNCHANGED faults
  <2>1. faults' \in 0..MaxFaults
    BY <1>2 DEF TypeOK
  <2> QED
    BY <1>2, <2>1, EndSteps
<1> QED
  BY <1>1, <1>2 DEF BuildTls

(* Binding, signals and requests to stop: the files and the CA stay.       *)
LEMMA ServingSteps ==
  ASSUME TypeOK, FileInv,
         \/ \E l \in Listeners : Bind(l) \/ BindFails(l) \/ HandleSignal(l)
         \/ RequestStop \/ Interrupt
  PROVE  TypeOK' /\ FileInv'
<1>1. UNCHANGED <<container, caKey, caCrt, serverKey, serverCrt, pc, writing, ca, served, ended>>
  BY DEF Bind, BindFails, HandleSignal, ListenerStep, RequestStop, Interrupt, fileVars
<1>2. FileInv'
  BY <1>1 DEF FileInv, RouteInv, OrderInv, WriteInv, CertInv, LoadInv
<1>3. ASSUME NEW l \in Listeners, Bind(l) \/ BindFails(l) \/ HandleSignal(l) PROVE TypeOK'
  <2>1. /\ faults' \in 0..MaxFaults /\ UNCHANGED <<stopping, stops, interrupts>>
        /\ pc = "serving" /\ pending' = pending \ {l}
    BY <1>3, BoundsAssumption DEF Bind, BindFails, HandleSignal, ListenerStep, TypeOK
  <2>2. \E to \in {"accepting", "failed", "warned", "down"} : listener' = [listener EXCEPT ![l] = to]
    BY <1>3 DEF Bind, BindFails, HandleSignal, ListenerStep
  <2> QED
    BY <1>1, <2>1, <2>2 DEF TypeOK, Up
<1>4. ASSUME RequestStop PROVE TypeOK'
  <2>1. stops' \in 0..MaxStops
    BY <1>4, BoundsAssumption DEF RequestStop, TypeOK
  <2>2. pending' \subseteq {l \in Listeners : listener[l] \in Up}
    BY <1>4 DEF RequestStop, TypeOK, Up
  <2> QED
    BY <1>1, <1>4, <2>1, <2>2 DEF RequestStop, TypeOK
<1>5. ASSUME Interrupt PROVE TypeOK'
  <2>1. interrupts' \in 0..MaxInterrupts
    BY <1>5, BoundsAssumption DEF Interrupt, TypeOK
  <2>2. pending' \subseteq {l \in Listeners : listener[l] \in Up}
    BY <1>5 DEF Interrupt, TypeOK
  <2> QED
    BY <1>1, <1>5, <2>1, <2>2 DEF Interrupt, TypeOK
<1> QED
  BY <1>2, <1>3, <1>4, <1>5

(* The files' invariant is inductive, for every step there is.             *)
LEMMA FileStep == TypeOK /\ FileInv /\ [Next]_vars => TypeOK' /\ FileInv'
<1> SUFFICES ASSUME TypeOK, FileInv, [Next]_vars PROVE TypeOK' /\ FileInv'
  OBVIOUS
<1>1. ASSUME NEW how \in {"clean", "error", "killed"}, End(how),
             UNCHANGED faults \/ (faults < MaxFaults /\ faults' = faults + 1)
      PROVE  TypeOK' /\ FileInv'
  <2>1. faults' \in 0..MaxFaults
    BY <1>1, BoundsAssumption DEF TypeOK
  <2> QED
    BY <1>1, <2>1, EndSteps
<1>2. CASE SigningFails \/ BootFails \/ Crash \/ Kill \/ Join
  BY <1>1, <1>2 DEF SigningFails, BootFails, Crash, Kill, Join
<1>3. CASE UNCHANGED vars
  BY <1>3 DEF vars, fileVars, signalVars, countVars, TypeOK,
              FileInv, RouteInv, OrderInv, WriteInv, CertInv, LoadInv
<1> QED
  BY <1>2, <1>3, GotoSteps, OpenSteps, ScriptFills, LoadSteps, GeneratedFills, TlsSteps, ServingSteps
     DEF Next, Step

(* In every state of every life.                                          *)
LEMMA FileInvariant == Spec => [](TypeOK /\ FileInv)
<1>1. Init => TypeOK /\ FileInv
  <2> SUFFICES ASSUME Init PROVE TypeOK /\ FileInv
    OBVIOUS
  <2>1. TypeOK
    <3>1. listener \in [Listeners -> Up \cup {"unbound", "down", "failed"}]
      BY DEF Init
    <3>2. 0 \in 0..MaxFaults /\ 0 \in 0..MaxStops /\ 0 \in 0..MaxInterrupts
      BY BoundsAssumption
    <3>3. pending \subseteq {l \in Listeners : listener[l] \in Up} /\ served \subseteq CAs
      BY DEF Init
    <3> QED
      BY <3>1, <3>2, <3>3 DEF Init, TypeOK
  <2>2. FileInv
    BY Marks DEF Init, FileInv, RouteInv, OrderInv, WriteInv, CertInv, LoadInv
  <2> QED
    BY <2>1, <2>2
<1> QED
  BY <1>1, FileStep, PTL DEF Spec

-----------------------------------------------------------------------------
(* Type correctness: also that a file is open only at a step that writes,  *)
(* and that nothing listens unless the server serves (main.rs:39-111).     *)
THEOREM TypeCorrect == Spec => []TypeOK
  BY FileInvariant, PTL

(* Wherever earlier processes died, a server that serves holds the key of  *)
(* the CA it verifies its agents against, and a certificate of that CA for *)
(* the key it holds, although nothing compares them (ca.rs:99-111).        *)
THEOREM ServedMaterialMatchesHolds == Spec => []ServedMaterialMatches
<1>1. FileInv => ServedMaterialMatches
  BY DEF FileInv, OrderInv, LoadInv, ServedMaterialMatches
<1> QED
  BY <1>1, FileInvariant, PTL

(* All the lives of the server that served had one and the same CA         *)
(* (docker-entrypoint.sh:20-21).                                           *)
THEOREM CaIsKeptHolds == Spec => []CaIsKept
<1>1. FileInv => CaIsKept
  <2> SUFFICES ASSUME FileInv PROVE Cardinality(served) <= 1
    BY DEF CaIsKept
  <2>1. served \in SUBSET {caKey}
    BY DEF FileInv, LoadInv
  <2>2. Cardinality(served) <= Cardinality({caKey})
    BY <2>1, FS_Singleton, FS_Subset
  <2>3. Cardinality({caKey}) = 1
    BY FS_Singleton
  <2> QED
    BY <2>2, <2>3
<1> QED
  BY <1>1, FileInvariant, PTL
=============================================================================
