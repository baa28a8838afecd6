--------------------------- MODULE ServerLifecycle ---------------------------
(***************************************************************************)
(* The life of a server process and of the four PKI files it needs: the    *)
(* container's entry point (docker-entrypoint.sh) or, without a container, *)
(* the operator's commands of the README; the start (server-core/main.rs,  *)
(* di.rs, config.rs); the CA (pki/ca.rs); the TLS material                 *)
(* (grpc-pki/lib.rs); and the two listeners with their stop signals.       *)
(*                                                                         *)
(* A write first creates or empties its file and then fills it; the        *)
(* process can die between the two, and at any other step.                 *)
(***************************************************************************)
EXTENDS Integers, FiniteSets

CONSTANTS
    CAs,            \* identities of CA key pairs
    ServerKeys,     \* identities of server key pairs
    Listeners,      \* the agents' port and the enrolment port
    MaxFaults,      \* bound: crashes, failed starts and failed binds
    MaxStops,       \* bound: stops requested by the supervisor (SIGTERM, then SIGKILL)
    MaxInterrupts,  \* bound: SIGINTs
    Absent, Torn    \* no file; a file that is not complete

ASSUME IdentityAssumption ==
    /\ {Absent, Torn} \cap (CAs \cup ServerKeys \cup (CAs \X ServerKeys)) = {}
    /\ Absent # Torn
ASSUME BoundsAssumption == MaxFaults \in Nat /\ MaxStops \in Nat /\ MaxInterrupts \in Nat

VARIABLES
    container,      \* whether the entry point starts the server
    caKey, caCrt,   \* the CA that ca.key and ca.crt belong to
    serverKey,      \* the key pair of server.key
    serverCrt,      \* <<the CA that signed it, the key pair it certifies>>
    pc,             \* the step the script, the operator or the server is at
    writing,        \* whether the file of the step is open
    ca,             \* the CA in the server's memory: <<certificate, key>>
    listener,       \* listener -> its state
    pending,        \* listeners that have a signal to handle
    stopping,       \* the supervisor has asked for a stop
    faults, stops, interrupts,
    served,         \* history: CAs the server has served with
    ended           \* history: how the last process ended

fileVars == <<caKey, caCrt, serverKey, serverCrt>>
signalVars == <<listener, pending, stopping>>
countVars == <<faults, stops, interrupts>>
vars == <<container, fileVars, pc, writing, ca, signalVars, countVars, served, ended>>

Script == {"check", "ca.key", "ca.crt", "server.key", "server.crt"}
Server == {"boot", "load", "gen.crt", "gen.key", "tls", "serving"}
Writes == {"ca.key", "ca.crt", "server.key", "server.crt", "gen.crt", "gen.key"}
NoCA == <<Absent, Absent>>

(* Neither finished nor failed: bound, and waiting for a first signal or   *)
(* for the second one.                                                     *)
Up == {"accepting", "warned"}

TypeOK ==
    /\ container \in BOOLEAN
    /\ caKey \in CAs \cup {Absent, Torn} /\ caCrt \in CAs \cup {Absent, Torn}
    /\ serverKey \in ServerKeys \cup {Absent, Torn}
    /\ serverCrt \in (CAs \X ServerKeys) \cup {Absent, Torn}
    /\ pc \in Script \cup Server \cup {"off"}
    /\ writing => pc \in Writes
    /\ ca \in (CAs \X CAs) \cup {NoCA}
    /\ listener \in [Listeners -> Up \cup {"unbound", "down", "failed"}]
    /\ pending \subseteq {l \in Listeners : listener[l] \in Up}
    /\ stopping \in BOOLEAN
    /\ pc # "serving" => ~stopping /\ \A l \in Listeners : listener[l] = "unbound"
    /\ pc = "serving" => ca # NoCA
    /\ faults \in 0..MaxFaults /\ stops \in 0..MaxStops /\ interrupts \in 0..MaxInterrupts
    /\ served \subseteq CAs
    /\ ended \in {"never", "clean", "error", "killed"}

Init ==
    /\ container \in BOOLEAN
    /\ caKey = Absent /\ caCrt = Absent /\ serverKey = Absent /\ serverCrt = Absent
    /\ pc = "off" /\ writing = FALSE
    /\ ca = NoCA
    /\ listener = [l \in Listeners |-> "unbound"]
    /\ pending = {} /\ stopping = FALSE
    /\ faults = 0 /\ stops = 0 /\ interrupts = 0
    /\ served = {} /\ ended = "never"

-----------------------------------------------------------------------------
Goto(step) ==
    /\ pc' = step
    /\ UNCHANGED <<container, writing, signalVars, countVars, served, ended>>

(* The process ends; the files stay as they are.                           *)
End(how) ==
    /\ pc' = "off" /\ writing' = FALSE
    /\ ca' = NoCA
    /\ listener' = [l \in Listeners |-> "unbound"]
    /\ pending' = {} /\ stopping' = FALSE
    /\ ended' = how
    /\ UNCHANGED <<container, fileVars, stops, interrupts, served>>

(* The supervisor, or the operator, starts the server.                     *)
Start ==
    /\ pc = "off"
    /\ Goto(IF container THEN "check" ELSE "boot")
    /\ UNCHANGED <<fileVars, ca>>

(* Without a container the operator issues the server's certificate, once  *)
(* there is a CA to sign it (README.md:119-146).                           *)
IssueByHand ==
    /\ pc = "off" /\ ~container
    /\ caKey \in CAs /\ caCrt = caKey
    /\ serverCrt \in {Absent, Torn}
    /\ Goto("server.key")
    /\ UNCHANGED <<fileVars, ca>>

-----------------------------------------------------------------------------
(* docker-entrypoint.sh                                                    *)

(* Fault: the server is started as soon as there is a CA.                  *)
CheckForCA ==
    /\ pc = "check"
    /\ Goto(IF caCrt = Absent \/ caKey = Absent THEN "ca.key" ELSE "boot")
    /\ UNCHANGED <<fileVars, ca>>

(* Fault: everything is generated at every start.                          *)
CheckNothing ==
    /\ pc = "check"
    /\ Goto("ca.key")
    /\ UNCHANGED <<fileVars, ca>>

(* ca.key is not among the files that let the server start at once.        *)
Check ==
    /\ pc = "check"
    /\ Goto(IF Absent \notin {serverCrt, serverKey, caCrt} THEN "boot"
            ELSE IF Absent \in {caCrt, caKey} THEN "ca.key" ELSE "server.key")
    /\ UNCHANGED <<fileVars, ca>>

(* A command that writes a file opens it, and fills it later.              *)
Open ==
    /\ pc \in Writes /\ ~writing
    /\ pc = "server.crt" => caCrt \in CAs /\ caKey = caCrt
    /\ writing' = TRUE
    /\ caKey' = IF pc \in {"ca.key", "gen.key"} THEN Torn ELSE caKey
    /\ caCrt' = IF pc \in {"ca.crt", "gen.crt"} THEN Torn ELSE caCrt
    /\ serverKey' = IF pc = "server.key" THEN Torn ELSE serverKey
    /\ serverCrt' = IF pc = "server.crt" THEN Torn ELSE serverCrt
    /\ UNCHANGED <<container, pc, ca, signalVars, countVars, served, ended>>

Filled(step) ==
    /\ writing /\ writing' = FALSE
    /\ pc' = step
    /\ UNCHANGED <<container, signalVars, countVars, served, ended>>

(* Keys are never drawn twice.                                             *)
NewCAs == CAs \ (served \cup {caKey, caCrt} \cup {c \in CAs : \E k \in ServerKeys : serverCrt = <<c, k>>})
NewServerKeys == {k \in ServerKeys : \A c \in CAs : serverCrt # <<c, k>>}

FillCaKey ==
    /\ pc = "ca.key" /\ Filled("ca.crt")
    /\ caKey' \in NewCAs
    /\ UNCHANGED <<caCrt, serverKey, serverCrt, ca>>

FillCaCrt ==
    /\ pc = "ca.crt" /\ Filled("server.key")
    /\ caCrt' = caKey
    /\ UNCHANGED <<caKey, serverKey, serverCrt, ca>>

FillServerKey ==
    /\ pc = "server.key" /\ Filled("server.crt")
    /\ serverKey' \in NewServerKeys
    /\ UNCHANGED <<caKey, caCrt, serverCrt, ca>>

FillServerCrt ==
    /\ pc = "server.crt" /\ Filled(IF container THEN "boot" ELSE "off")
    /\ serverCrt' = <<caCrt, serverKey>>
    /\ UNCHANGED <<caKey, caCrt, serverKey, ca>>

(* openssl cannot sign with this CA: "set -e" ends the script.             *)
SigningFails ==
    /\ pc = "server.crt" /\ ~writing
    /\ caCrt \notin CAs \/ caKey # caCrt
    /\ End("error")
    /\ UNCHANGED faults

-----------------------------------------------------------------------------
(* The server's start: configuration, database and migrations, CA, TLS.    *)

Boot ==
    /\ pc = "boot"
    /\ Goto("load")
    /\ UNCHANGED <<fileVars, ca>>

(* No valid configuration, no database, or a failed migration.             *)
BootFails ==
    /\ pc = "boot" /\ faults < MaxFaults
    /\ faults' = faults + 1
    /\ End("error")

(* Fault: the server generates its CA at every start.                      *)
CreateAlways ==
    /\ pc = "load"
    /\ Goto("gen.crt")
    /\ \E new \in NewCAs : ca' = <<new, new>>
    /\ UNCHANGED fileVars

(* load_or_create: whether the key is the certificate's is not looked at.  *)
LoadOrCreate ==
    /\ pc = "load"
    /\ \/ /\ caCrt \in CAs /\ caKey \in CAs
          /\ Goto("tls") /\ ca' = <<caCrt, caKey>> /\ UNCHANGED fileVars
       \/ /\ Absent \in {caCrt, caKey}
          /\ Goto("gen.crt")
          /\ \E new \in NewCAs : ca' = <<new, new>>
          /\ UNCHANGED fileVars
       \/ /\ Absent \notin {caCrt, caKey} /\ Torn \in {caCrt, caKey}
          /\ End("error") /\ UNCHANGED faults

FillGenerated ==
    /\ \/ pc = "gen.crt" /\ Filled("gen.key") /\ caCrt' = ca[1] /\ UNCHANGED caKey
       \/ pc = "gen.key" /\ Filled("tls") /\ caKey' = ca[2] /\ UNCHANGED caCrt
    /\ UNCHANGED <<serverKey, serverCrt, ca>>

(* build_mtls_config and build_tls_config read and parse the three files.  *)
BuildTls ==
    /\ pc = "tls"
    /\ IF {caCrt, serverKey, serverCrt} \cap {Absent, Torn} = {}
       THEN /\ pc' = "serving" /\ served' = served \cup {ca[2]}
            /\ UNCHANGED <<container, fileVars, writing, ca, signalVars, countVars, ended>>
       ELSE End("error") /\ UNCHANGED faults

-----------------------------------------------------------------------------
(* The two listeners run until both have ended (tokio::join!).             *)

ListenerStep(l, from, to) ==
    /\ pc = "serving" /\ listener[l] = from
    /\ listener' = [listener EXCEPT ![l] = to]
    /\ pending' = pending \ {l}
    /\ UNCHANGED <<container, fileVars, pc, writing, ca, stopping, stops, interrupts, served, ended>>

Bind(l) == ListenerStep(l, "unbound", "accepting") /\ UNCHANGED faults

(* The address is in use.  The other listener goes on.                     *)
BindFails(l) ==
    /\ ListenerStep(l, "unbound", "failed")
    /\ faults < MaxFaults
    /\ faults' = faults + 1

(* shutdown_signal waits for SIGTERM or SIGINT, and then, under the second *)
(* cfg(unix), for a SIGINT that comes after that.                          *)
HandleSignal(l) ==
    /\ l \in pending
    /\ UNCHANGED faults
    /\ ListenerStep(l, "accepting", "warned") \/ ListenerStep(l, "warned", "down")

(* Fault: the process ends and leaves its listeners as they are.           *)
JoinForgets ==
    /\ pc = "serving" /\ \A l \in Listeners : listener[l] \in {"down", "failed"}
    /\ pc' = "off" /\ ended' = "clean"
    /\ UNCHANGED <<container, fileVars, writing, ca, signalVars, countVars, served>>

Join ==
    /\ pc = "serving" /\ \A l \in Listeners : listener[l] \in {"down", "failed"}
    /\ End(IF \E l \in Listeners : listener[l] = "failed" THEN "error" ELSE "clean")
    /\ UNCHANGED faults

(* SIGTERM reaches the listeners that wait for their first signal.         *)
RequestStop ==
    /\ pc = "serving" /\ stops < MaxStops /\ ~stopping
    /\ stops' = stops + 1
    /\ stopping' = TRUE
    /\ pending' = pending \cup {l \in Listeners : listener[l] = "accepting"}
    /\ UNCHANGED <<container, fileVars, pc, writing, ca, listener, faults, interrupts, served, ended>>

Interrupt ==
    /\ pc = "serving" /\ interrupts < MaxInterrupts
    /\ \E l \in Listeners : listener[l] \in Up      \* a handler is installed
    /\ interrupts' = interrupts + 1
    /\ pending' = pending \cup {l \in Listeners : listener[l] \in Up}
    /\ UNCHANGED <<container, fileVars, pc, writing, ca, listener, stopping, faults, stops, served, ended>>

(* SIGKILL, when the grace period of the stop is over: more than enough to *)
(* handle the signal.                                                      *)
Kill ==
    /\ stopping /\ pending = {}
    /\ End("killed")
    /\ UNCHANGED faults

Crash ==
    /\ pc # "off" /\ faults < MaxFaults
    /\ faults' = faults + 1
    /\ End("error")

Step ==
    \/ Check \/ Open \/ FillCaKey \/ FillCaCrt \/ FillServerKey \/ FillServerCrt \/ SigningFails
    \/ Boot \/ LoadOrCreate \/ FillGenerated \/ BuildTls
    \/ \E l \in Listeners : Bind(l) \/ HandleSignal(l)
    \/ Join

Next ==
    \/ Start \/ IssueByHand \/ Step
    \/ BootFails \/ Crash \/ \E l \in Listeners : BindFails(l)
    \/ RequestStop \/ Interrupt \/ Kill

Spec == Init /\ [][Next]_vars

(* What runs goes on; the supervisor restarts what ended and kills what    *)
(* does not stop; without a container the operator issues the certificate. *)
FairSpec ==
    /\ Spec
    /\ WF_vars(Step) /\ WF_vars(Start) /\ SF_vars(IssueByHand) /\ WF_vars(Kill)
    /\ \A l \in Listeners : WF_vars(Bind(l)) /\ WF_vars(HandleSignal(l))

-----------------------------------------------------------------------------
(* Whatever crashed on the way, a server that serves signs with the key of *)
(* the CA it verifies its agents against, and shows a certificate that the *)
(* same CA signed for the key it holds (ca.rs:99-111, lib.rs:57-90).       *)
ServedMaterialMatches ==
    pc = "serving" =>
        /\ ca = <<caCrt, caCrt>> /\ caKey = caCrt
        /\ serverCrt = <<caCrt, serverKey>>

(* The CA is generated once: every start after the first that served uses  *)
(* the same one, "asi la CA es la misma" (docker-entrypoint.sh:20-21).     *)
CaIsKept == Cardinality(served) <= 1

(* The states no restart leads out of: a file that a crash left torn is    *)
(* taken for a good one by the tests for existence.                        *)
Wedged ==
    \/ container /\ caCrt = Torn /\ caKey # Absent
    \/ container /\ serverCrt = Torn /\ Absent \notin {serverKey, caCrt}
    \/ ~container /\ caKey = Torn /\ caCrt # Absent

(* When the crashes, failed starts and stops are over, the server serves   *)
(* for good, unless a crash hit one of three writes                        *)
(* (docker-entrypoint.sh:31-36, 81-88; ca.rs:211).                         *)
ServesUnlessWedged == <>[](pc = "serving" \/ Wedged)

(* main.rs:107: "Shutdown limpio".  A stop requested of a server whose two *)
(* listeners accept lets the process end by itself, with state.shutdown(). *)
StopIsClean == (stopping /\ pending = Listeners) ~> (pc = "off" /\ ended = "clean")
=============================================================================
