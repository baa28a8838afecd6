----------------------------- MODULE Enrollment -----------------------------
(***************************************************************************)
(* Agent enrolment (crates/pki, crates/grpc-service/enroll_service.rs) and *)
(* the three tables it shares with the administration commands:            *)
(* enroll_tokens, agents and agent_certs.                                  *)
(*                                                                         *)
(* Every SQL statement of the code runs on its own connection of the pool, *)
(* outside any transaction, so a handler is a chain of atomic statements   *)
(* with every other handler free to run between two of them.  Each `await` *)
(* of process_enroll is the boundary of one action below.                  *)
(*                                                                         *)
(* A stored serial (a timestamp and a UUID, ca.rs:288-300) is fresh for    *)
(* every issued certificate: the row names the request that produced it    *)
(* (owner) and its serial is StoredSerial(owner), see module AgentAuth.    *)
(***************************************************************************)
EXTENDS Naturals, FiniteSets

CONSTANTS
    Tokens,          \* the enrolment tokens an administrator may generate
    Requests,        \* Enroll RPCs, each made once (a retry is another one)
    EnrollRequests,  \* the messages they may carry
    AgentIds,        \* the UUIDs gen_random_uuid() may return
    Hosts, Ips,      \* hostnames and network addresses
    UnspecifiedIp,   \* "0.0.0.0"
    None             \* no row, no value

ASSUME MessagesAssumption ==
    EnrollRequests \subseteq
        [token : Tokens, host : Hosts, cn : Hosts, peer : Ips, csrOk : BOOLEAN]
ASSUME IpAssumption == UnspecifiedIp \in Ips
ASSUME NoneAssumption ==
    /\ None \notin AgentIds
    /\ None \notin EnrollRequests
    /\ None \notin [ip : Ips, host : Hosts, enabled : BOOLEAN]
    /\ None \notin [owner : Requests, revoked : BOOLEAN]

VARIABLES
    tokens,     \* enroll_tokens: "none", or a row with used_at "unused" / "used"
    expired,    \* the tokens whose expires_at has passed
    agents,     \* agents: id -> row
    certs,      \* agent_certs: agent id -> row
    pc,         \* where each Enroll RPC is
    arg,        \* its message
    agent,      \* the id its upsert returned
    revoking,   \* agents whose revoke-agent command is past its check
    consumed    \* history: the requests whose UPDATE of used_at ran

tokenVars == <<tokens, expired, consumed>>
vars == <<tokens, expired, agents, certs, pc, arg, agent, revoking, consumed>>

AgentRows == [ip : Ips, host : Hosts, enabled : BOOLEAN]
CertRows == [owner : Requests, revoked : BOOLEAN]
Stages == {"idle", "arrived", "found", "consumed", "registered", "signed",
           "stored", "done", "failed"}
Registered == {"registered", "signed", "stored", "done"}
InFlight == Stages \ {"idle", "done", "failed"}

Token(r) == arg[r].token

(* The address the service registers for every peer (enroll_service.rs:42). *)
RemoteIp(r) == UnspecifiedIp

TypeOK ==
    /\ tokens \in [Tokens -> {"none", "unused", "used"}]
    /\ expired \subseteq Tokens
    /\ agents \in [AgentIds -> AgentRows \cup {None}]
    /\ certs \in [AgentIds -> CertRows \cup {None}]
    /\ pc \in [Requests -> Stages]
    /\ arg \in [Requests -> EnrollRequests \cup {None}]
    /\ agent \in [Requests -> AgentIds \cup {None}]
    /\ revoking \subseteq AgentIds
    /\ consumed \subseteq Requests
    /\ \A r \in Requests :
         /\ arg[r] = None <=> pc[r] = "idle"
         /\ pc[r] \in Registered => agent[r] \in AgentIds

Init ==
    /\ tokens = [t \in Tokens |-> "none"]
    /\ expired = {}
    /\ agents = [a \in AgentIds |-> None]
    /\ certs = [a \in AgentIds |-> None]
    /\ pc = [r \in Requests |-> "idle"]
    /\ arg = [r \in Requests |-> None]
    /\ agent = [r \in Requests |-> None]
    /\ revoking = {}
    /\ consumed = {}

-----------------------------------------------------------------------------
(* Tokens: `complyx-server enroll-token` and the passing of time.          *)

GenerateToken(t) ==
    /\ tokens[t] = "none"
    /\ tokens' = [tokens EXCEPT ![t] = "unused"]
    /\ UNCHANGED <<expired, agents, certs, pc, arg, agent, revoking, consumed>>

ExpireToken(t) ==
    /\ tokens[t] # "none"
    /\ t \notin expired
    /\ expired' = expired \cup {t}
    /\ UNCHANGED <<tokens, agents, certs, pc, arg, agent, revoking, consumed>>

-----------------------------------------------------------------------------
(* The Enroll RPC.                                                         *)

Goto(r, from, to) == pc[r] = from /\ pc' = [pc EXCEPT ![r] = to]

Arrive(r) ==
    /\ Goto(r, "idle", "arrived")
    /\ \E m \in EnrollRequests : arg' = [arg EXCEPT ![r] = m]
    /\ UNCHANGED <<tokenVars, agents, certs, agent, revoking>>

TokenValid(t) == tokens[t] = "unused" /\ t \notin expired

(* Fault: the used_at column is not looked at.                              *)
FindEnrollTokenReused(r) ==
    /\ Goto(r, "arrived",
         IF tokens[Token(r)] # "none" /\ Token(r) \notin expired THEN "found" ELSE "failed")
    /\ UNCHANGED <<tokenVars, agents, certs, arg, agent, revoking>>

(* Fault: the token is validated and never marked as used.                  *)
FindEnrollTokenOnly(r) ==
    /\ Goto(r, "arrived", IF TokenValid(Token(r)) THEN "consumed" ELSE "failed")
    /\ UNCHANGED <<tokenVars, agents, certs, arg, agent, revoking>>

(* The SELECT and the checks on the row it returned: no await in between.  *)
FindEnrollToken(r) ==
    /\ Goto(r, "arrived", IF TokenValid(Token(r)) THEN "found" ELSE "failed")
    /\ UNCHANGED <<tokenVars, agents, certs, arg, agent, revoking>>

(* UPDATE ... SET used_at = now() WHERE id = $1: the row is not checked again. *)
ConsumeEnrollToken(r) ==
    /\ Goto(r, "found", "consumed")
    /\ tokens' = [tokens EXCEPT ![Token(r)] = "used"]
    /\ consumed' = consumed \cup {r}
    /\ UNCHANGED <<expired, agents, certs, arg, agent, revoking>>

RowsAt(ip) == {a \in AgentIds : agents[a] # None /\ agents[a].ip = ip}

(* gen_random_uuid(): never an id that was given out before, even if deleted. *)
FreshIds == {a \in AgentIds : \A q \in Requests : agent[q] # a}

(* Fault: the conflict branch resets the row to the column defaults.        *)
UpsertAgentDefaults(r) ==
    /\ Goto(r, "consumed", "registered")
    /\ \E a \in IF RowsAt(RemoteIp(r)) = {} THEN FreshIds ELSE RowsAt(RemoteIp(r)) :
          /\ agent' = [agent EXCEPT ![r] = a]
          /\ agents' = [agents EXCEPT ![a] =
               [ip |-> RemoteIp(r), host |-> arg[r].host, enabled |-> TRUE]]
    /\ UNCHANGED <<tokenVars, certs, arg, revoking>>

(* Fault: ON CONFLICT DO NOTHING, which returns no id.                      *)
UpsertAgentNoId(r) ==
    /\ Goto(r, "consumed", "registered")
    /\ \/ RowsAt(RemoteIp(r)) # {} /\ UNCHANGED <<agents, agent>>
       \/ /\ RowsAt(RemoteIp(r)) = {}
          /\ \E a \in FreshIds :
                /\ agent' = [agent EXCEPT ![r] = a]
                /\ agents' = [agents EXCEPT ![a] =
                     [ip |-> RemoteIp(r), host |-> arg[r].host, enabled |-> TRUE]]
    /\ UNCHANGED <<tokenVars, certs, arg, revoking>>

(* INSERT ... ON CONFLICT (ip) DO UPDATE ... RETURNING id.  The conflict   *)
(* branch overwrites the hostname and leaves `enabled` as it is.           *)
UpsertAgent(r) ==
    /\ Goto(r, "consumed", "registered")
    /\ \/ \E a \in RowsAt(RemoteIp(r)) :
            /\ agent' = [agent EXCEPT ![r] = a]
            /\ agents' = [agents EXCEPT ![a].host = arg[r].host]
       \/ /\ RowsAt(RemoteIp(r)) = {}
          /\ \E a \in FreshIds :
                /\ agent' = [agent EXCEPT ![r] = a]
                /\ agents' = [agents EXCEPT ![a] =
                     [ip |-> RemoteIp(r), host |-> arg[r].host, enabled |-> TRUE]]
    /\ UNCHANGED <<tokenVars, certs, arg, revoking>>

SignCsr(r) ==
    /\ Goto(r, "registered", IF arg[r].csrOk THEN "signed" ELSE "failed")
    /\ UNCHANGED <<tokenVars, agents, certs, arg, agent, revoking>>

(* Fault: a store that succeeded may be tried again.                        *)
StoreCertRetried(r) ==
    /\ pc[r] \in {"signed", "stored"} /\ agents[agent[r]] # None
    /\ pc' = [pc EXCEPT ![r] = "stored"]
    /\ certs' = [certs EXCEPT ![agent[r]] = [owner |-> r, revoked |-> FALSE]]
    /\ UNCHANGED <<tokenVars, agents, arg, agent, revoking>>

(* INSERT ... ON CONFLICT (agent_id) DO UPDATE ..., revoked_at = NULL.  The *)
(* foreign key makes it an error when the agent was deleted meanwhile.     *)
StoreCert(r) ==
    /\ \/ /\ Goto(r, "signed", "stored")
          /\ agents[agent[r]] # None
          /\ certs' = [certs EXCEPT ![agent[r]] = [owner |-> r, revoked |-> FALSE]]
       \/ /\ Goto(r, "signed", "failed")
          /\ agents[agent[r]] = None
          /\ UNCHANGED certs
    /\ UNCHANGED <<tokenVars, agents, arg, agent, revoking>>

Reply(r) ==
    /\ Goto(r, "stored", "done")
    /\ UNCHANGED <<tokenVars, agents, certs, arg, agent, revoking>>

(* A database error, a cancelled RPC, a lost reply or a server crash: the  *)
(* handler stops where it is and nothing it wrote is undone.               *)
Abort(r) ==
    /\ pc[r] \in InFlight
    /\ pc' = [pc EXCEPT ![r] = "failed"]
    /\ UNCHANGED <<tokenVars, agents, certs, arg, agent, revoking>>

-----------------------------------------------------------------------------
(* Administration: revoke_agent_cert (a SELECT, then an UPDATE) and the    *)
(* agent operations of the db crate.                                       *)

(* SELECT revoked_at ... WHERE serial = the one stored by r: the serial of *)
(* a row that was overwritten or deleted is not revoked (certs.rs:84).     *)
IsRevoked(r) ==
    \E a \in AgentIds : certs[a] # None /\ certs[a].owner = r /\ certs[a].revoked

RevokeRead(a) ==
    /\ a \notin revoking
    /\ certs[a] # None /\ ~certs[a].revoked
    /\ revoking' = revoking \cup {a}
    /\ UNCHANGED <<tokenVars, agents, certs, pc, arg, agent>>

(* The UPDATE is by agent id: it revokes whatever row is there now, if any. *)
RevokeWrite(a) ==
    /\ a \in revoking
    /\ revoking' = revoking \ {a}
    /\ certs' = IF certs[a] = None THEN certs
                                   ELSE [certs EXCEPT ![a].revoked = TRUE]
    /\ UNCHANGED <<tokenVars, agents, pc, arg, agent>>

RevokeAbort(a) ==
    /\ a \in revoking
    /\ revoking' = revoking \ {a}
    /\ UNCHANGED <<tokenVars, agents, certs, pc, arg, agent>>

SetEnabled(a, flag) ==
    /\ agents[a] # None
    /\ agents' = [agents EXCEPT ![a].enabled = flag]
    /\ UNCHANGED <<tokenVars, certs, pc, arg, agent, revoking>>

(* Fault: no ON DELETE CASCADE.                                             *)
DeleteAgentOnly(a) ==
    /\ agents[a] # None
    /\ agents' = [agents EXCEPT ![a] = None]
    /\ UNCHANGED <<tokenVars, certs, pc, arg, agent, revoking>>

(* DELETE FROM agents: agent_certs goes with it, ON DELETE CASCADE.        *)
DeleteAgent(a) ==
    /\ agents[a] # None
    /\ agents' = [agents EXCEPT ![a] = None]
    /\ certs' = [certs EXCEPT ![a] = None]
    /\ UNCHANGED <<tokenVars, pc, arg, agent, revoking>>

-----------------------------------------------------------------------------
TokenStep(t) == GenerateToken(t) \/ ExpireToken(t)

EnrollStep(r) ==
    \/ Arrive(r) \/ FindEnrollToken(r) \/ ConsumeEnrollToken(r)
    \/ UpsertAgent(r) \/ SignCsr(r) \/ StoreCert(r) \/ Reply(r) \/ Abort(r)

AdminStep(a) ==
    \/ RevokeRead(a) \/ RevokeWrite(a) \/ RevokeAbort(a) \/ DeleteAgent(a)
    \/ \E flag \in BOOLEAN : SetEnabled(a, flag)

Next ==
    \/ \E t \in Tokens : TokenStep(t)
    \/ \E r \in Requests : EnrollStep(r)
    \/ \E a \in AgentIds : AdminStep(a)

Spec == Init /\ [][Next]_vars

-----------------------------------------------------------------------------
(* What the module promises.                                               *)

(* Nothing is written for an Enroll RPC before its token is consumed: a    *)
(* request that touched agents or agent_certs has spent its token, whatever*)
(* happened to it later (enroll.rs:62-64).                                 *)
EffectsNeedToken ==
    \A r \in Requests :
        (agent[r] # None \/ \E a \in AgentIds : certs[a] # None /\ certs[a].owner = r)
        => r \in consumed /\ tokens[Token(r)] = "used"

(* Every agent_certs row was produced by an enrolment that registered that *)
(* very agent, and its agent still exists, even when the agent is deleted  *)
(* while an enrolment is between its upsert and its store (enroll.rs:68-94).*)
CertProvenance ==
    \A a \in AgentIds : certs[a] # None =>
        /\ agents[a] # None
        /\ agent[certs[a].owner] = a

(* The requests past the check of a token and not yet at its UPDATE.       *)
Validated(t) == {r \in Requests : pc[r] = "found" /\ Token(r) = t}

Spent(t) == tokens[t] # "none" /\ ~TokenValid(t) /\ Validated(t) = {}

(* Once a token is used or expired and no request is between its check and *)
(* its UPDATE, no request ever consumes it again: the only way to use a    *)
(* token twice is inside the window of token.rs:86-110.                    *)
SpentTokenStaysSpent ==
    [][\A t \in Tokens : Spent(t) =>
         /\ Spent(t)'
         /\ \A r \in consumed' \ consumed : Token(r) # t]_vars

(* A revocation is lost only with the row that records it: the agent is    *)
(* deleted, or another enrolment that registered the same agent and spent  *)
(* a token stores its certificate there, for the first time (certs.rs:41-45*)
(* clears revoked_at, which revoke.rs:35-50 writes after a separate read). *)
RevocationClearedByEnrolment ==
    [][\A r \in Requests : IsRevoked(r) /\ ~IsRevoked(r)' =>
         \/ agents'[agent[r]] = None
         \/ \E q \in consumed \ {r} :
              /\ agent[q] = agent[r] /\ pc[q] = "signed"
              /\ certs'[agent[r]].owner = q]_vars

(* An agent the administrator disabled is enabled again only by the        *)
(* administrator: re-enrolling does not do it (agents.rs:92-96).           *)
DisabledUntilEnabled ==
    [][\A a \in AgentIds :
         agents[a] # None /\ ~agents[a].enabled
         /\ agents'[a] # None /\ agents'[a].enabled => UNCHANGED pc]_vars

-----------------------------------------------------------------------------
(* What the documentation says and the code does not do.                   *)

(* README.md:299-300: a token is for a single use.                         *)
TokenSingleUse ==
    \A r, q \in consumed : Token(r) = Token(q) => r = q

(* enroll.rs:34: the agent id is new, or the existing one for a            *)
(* re-enrolment; enrolments of different peers are not re-enrolments.      *)
AgentIdPerPeer ==
    \A r, q \in Requests :
        pc[r] = "done" /\ pc[q] = "done" /\ agent[r] = agent[q]
        => arg[r].peer = arg[q].peer
=============================================================================
