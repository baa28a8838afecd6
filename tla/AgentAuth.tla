------------------------------ MODULE AgentAuth ------------------------------
(***************************************************************************)
(* The interceptor of the main gRPC port                                   *)
(* (crates/grpc-service/interceptor.rs), running against the tables that   *)
(* enrolments and administration commands keep changing: a call is checked *)
(* by two SELECTs with other statements in between.                        *)
(*                                                                         *)
(* The certificate of a call is the one an enrolment returned.  Its subject*)
(* is the CSR's and its serial number is derived from the CSR's key by the *)
(* signing library: sign_csr builds a CertificateParams with the hostname  *)
(* and a random serial but signs the CSR without it (ca.rs:124-153), and   *)
(* only the stored row gets the random serial.                             *)
(***************************************************************************)
EXTENDS Enrollment

CONSTANTS Calls     \* the calls agents make, each once

VARIABLES
    callPc,     \* where the interceptor is with each call
    callCert,   \* the enrolment whose certificate the call presents
    callId      \* the AgentId it injected

callVars == <<callPc, callCert, callId>>
authVars == <<vars, callVars>>

StoredSerial(r) == <<"random", r>>
CertSerial(r) == <<"key", r>>
CertCn(r) == arg[r].cn

AuthTypeOK ==
    /\ TypeOK
    /\ callPc \in [Calls -> {"idle", "started", "notRevoked", "accepted", "refused"}]
    /\ callCert \in [Calls -> Requests \cup {None}]
    /\ callId \in [Calls -> AgentIds \cup {None}]
    /\ \A c \in Calls :
         /\ callPc[c] # "idle" => callCert[c] \in Requests
         /\ callPc[c] = "accepted" => callId[c] \in AgentIds

AuthInit ==
    /\ Init
    /\ callPc = [c \in Calls |-> "idle"]
    /\ callCert = [c \in Calls |-> None]
    /\ callId = [c \in Calls |-> None]

(* Only an agent whose enrolment was answered holds a certificate.         *)
StartCall(c) ==
    /\ callPc[c] = "idle"
    /\ callPc' = [callPc EXCEPT ![c] = "started"]
    /\ \E r \in Requests :
         /\ pc[r] = "done"
         /\ callCert' = [callCert EXCEPT ![c] = r]
    /\ UNCHANGED <<vars, callId>>

(* SELECT revoked_at ... WHERE serial = $1: no row means not revoked.      *)
IsCertRevoked(serial) == \E r \in Requests : StoredSerial(r) = serial /\ IsRevoked(r)

CheckRevoked(c) ==
    /\ callPc[c] = "started"
    /\ callPc' = [callPc EXCEPT ![c] =
         IF IsCertRevoked(CertSerial(callCert[c])) THEN "refused" ELSE "notRevoked"]
    /\ UNCHANGED <<vars, callCert, callId>>

(* SELECT ... WHERE hostname = $1 LIMIT 1: any of these rows.              *)
NamedByHost(h) == {a \in AgentIds : agents[a] # None /\ agents[a].host = h}

(* Fault: the call is given the id of its enrolment, without the lookup.    *)
LookupAgentByEnrolment(c) ==
    /\ callPc[c] = "notRevoked"
    /\ callPc' = [callPc EXCEPT ![c] = "accepted"]
    /\ callId' = [callId EXCEPT ![c] = agent[callCert[c]]]
    /\ UNCHANGED <<vars, callCert>>

(* Fault: the AgentId is not inserted into the extensions.                  *)
LookupAgentNoId(c) ==
    /\ callPc[c] = "notRevoked"
    /\ callPc' = [callPc EXCEPT ![c] =
         IF NamedByHost(CertCn(callCert[c])) # {} THEN "accepted" ELSE "refused"]
    /\ UNCHANGED <<vars, callCert, callId>>

LookupAgent(c) ==
    /\ callPc[c] = "notRevoked"
    /\ LET found == NamedByHost(CertCn(callCert[c]))
       IN  \/ \E a \in found :
                /\ agents[a].enabled
                /\ callPc' = [callPc EXCEPT ![c] = "accepted"]
                /\ callId' = [callId EXCEPT ![c] = a]
           \/ /\ found = {} \/ \E a \in found : ~agents[a].enabled
              /\ callPc' = [callPc EXCEPT ![c] = "refused"]
              /\ UNCHANGED callId
    /\ UNCHANGED <<vars, callCert>>

(* A database error refuses the call (Status::internal).                   *)
CallError(c) ==
    /\ callPc[c] \in {"started", "notRevoked"}
    /\ callPc' = [callPc EXCEPT ![c] = "refused"]
    /\ UNCHANGED <<vars, callCert, callId>>

CallStep(c) == StartCall(c) \/ CheckRevoked(c) \/ LookupAgent(c) \/ CallError(c)

AuthNext ==
    \/ Next /\ UNCHANGED callVars
    \/ \E c \in Calls : CallStep(c)

AuthSpec == AuthInit /\ [][AuthNext]_authVars

-----------------------------------------------------------------------------
(* The identity given to a call is that of an agent registered by an       *)
(* enrolment that spent a token, under the very name the certificate bears:*)
(* true even of an identity that a later enrolment took over, and of an    *)
(* agent deleted since (interceptor.rs:74-122, enroll.rs:64-81).           *)
AcceptedIsEnrolled ==
    \A c \in Calls : callPc[c] = "accepted" =>
        \E r \in consumed : agent[r] = callId[c] /\ arg[r].host = CertCn(callCert[c])

(* README.md:311-312 and revoke.rs:26-27: after the revocation the next    *)
(* call of the agent is refused.                                           *)
RevokedCertRefused ==
    [][\A c \in Calls : callPc[c] = "started" /\ callPc'[c] = "notRevoked" =>
         ~IsRevoked(callCert[c])]_authVars
=============================================================================
