-------------------------- MODULE PolicyDistributor --------------------------
(***************************************************************************)
(* Delivery of policy bundles: the PollPolicies RPC                        *)
(* (crates/grpc-service/agent_service.rs), the resolution of an agent's    *)
(* policies (crates/policy-distributor) and the tables it reads            *)
(* (crates/db/policies.rs), while the administrator edits them.            *)
(*                                                                         *)
(* One agent is enough: polls of different agents share only the tables,   *)
(* which they only read.  No read of a poll shares a transaction with      *)
(* another one, so each is an action of its own.  A bundle stands for its  *)
(* SHA-256: equal hashes are equal bundles, policy order included.         *)
(***************************************************************************)
EXTENDS Integers, FiniteSets, SequencesExt

CONSTANTS
    Policies, Groups,
    Parts,          \* what is read of a policy after its own row (policies.rs:79-84)
    Unordered,      \* <<policy, part>>: several rows, read without ORDER BY
    MaxEdits,       \* bound: administrator's steps
    MaxFaults,      \* bound: abandoned polls, lost replies and restarts
    None,           \* nothing read, no hash, the direct route
    Unchanged       \* the reply with policies_changed = false

Deleted == -1
Header == "policy"
Pieces == Parts \cup {Header}

(* What is read of one piece: the rows of a version, in one of two orders. *)
Read == [version : Deleted..MaxEdits, order : {1, 2}]

(* A bundle: what was read of each of its policies, and which policy comes *)
(* before which.                                                           *)
Bundle == [parts : UNION {[S -> [Pieces -> Read]] : S \in SUBSET Policies},
           before : SUBSET (Policies \X Policies)]

ASSUME BoundsAssumption == MaxEdits \in Nat /\ MaxFaults \in Nat
ASSUME FiniteAssumption == IsFiniteSet(Policies)
ASSUME PartsAssumption == Unordered \subseteq Policies \X Parts
ASSUME NoneAssumption ==
    None # Unchanged /\ None \notin Groups /\ None \notin Bundle /\ Unchanged \notin Bundle

VARIABLES
    version,    \* policies: id -> how often it was edited, Deleted when it is gone
    direct,     \* agent_policies of the agent
    member,     \* agent_group_membership of the agent
    grouped,    \* group_policies
    edits, faults,
    pc,         \* where the poll is
    asked,      \* the hash in the PollRequest
    directIds, groupIds,    \* what the first two reads returned
    ids,        \* the ids to load, in order
    loaded,     \* policy -> what was read of it
    reply,      \* the PollResponse under way
    recorded,   \* the orchestrator's last_policy_hash of the agent
    cache,      \* the bundle the agent holds
    held,       \* history: routes that stood since the poll began
    since       \* history: version when the poll began

tableVars == <<version, direct, member, grouped>>
readVars == <<directIds, groupIds, ids, loaded>>
historyVars == <<held, since>>
vars == <<tableVars, edits, faults, pc, asked, readVars, reply, recorded, cache, historyVars>>

Exists(p) == version[p] # Deleted

(* How a policy reaches the agent: directly, or through one of its groups. *)
Routes == ({None} \X direct) \cup {gp \in grouped : gp[1] \in member}
Assigned == {route[2] : route \in Routes}

Orders(S) == {s \in [1..Cardinality(S) -> S] : \A i, j \in DOMAIN s : i # j => s[i] # s[j]}

NothingLoaded == [p \in Policies |-> [part \in Pieces |-> None]]

(* What reading a part returns now: the rows of the version, in either of  *)
(* two orders when the query leaves the order open.                        *)
Rows(p, part) ==
    [version : {version[p]}, order : IF <<p, part>> \in Unordered /\ Exists(p) THEN {1, 2} ELSE {1}]

TypeOK ==
    /\ version \in [Policies -> Deleted..MaxEdits]
    /\ direct \subseteq Policies /\ member \subseteq Groups
    /\ grouped \subseteq Groups \X Policies
    /\ edits \in 0..MaxEdits /\ faults \in 0..MaxFaults
    /\ pc \in {"idle", "resolving", "loading", "replying"}
    /\ directIds # None => directIds \in Seq(Policies) /\ IsInjective(directIds)
    /\ groupIds # None => groupIds \subseteq Groups
    /\ ids \in Seq(Policies) /\ IsInjective(ids)
    /\ loaded \in [Policies -> [Pieces -> Read \cup {None}]]
    /\ pc = "replying" <=> reply # None
    /\ {asked, recorded, cache, reply} \subseteq Bundle \cup {None, Unchanged}
    /\ held \subseteq (Groups \cup {None}) \X Policies
    /\ since \in [Policies -> Deleted..MaxEdits]

Init ==
    /\ version = [p \in Policies |-> 0]
    /\ direct \in SUBSET Policies
    /\ member = {} /\ grouped \in SUBSET (Groups \X Policies)
    /\ edits = 0 /\ faults = 0
    /\ pc = "idle"
    /\ asked = None /\ directIds = None /\ groupIds = None
    /\ ids = <<>> /\ loaded = NothingLoaded
    /\ reply = None /\ recorded = None /\ cache = None
    /\ held = {} /\ since = version

-----------------------------------------------------------------------------
(* The administrator.  Each step is one statement; the edit of a policy    *)
(* changes all its tables at once.                                         *)

Edit ==
    /\ edits < MaxEdits
    /\ edits' = edits + 1
    /\ held' = held \cap Routes'
    /\ UNCHANGED <<faults, pc, asked, readVars, reply, recorded, cache, since>>

Assign(p) ==
    /\ Exists(p) /\ p \notin direct
    /\ direct' = direct \cup {p}
    /\ UNCHANGED <<version, member, grouped>>

Unassign(p) ==
    /\ p \in direct
    /\ direct' = direct \ {p}
    /\ UNCHANGED <<version, member, grouped>>

AssignToGroup(g, p) ==
    /\ Exists(p) /\ <<g, p>> \notin grouped
    /\ grouped' = grouped \cup {<<g, p>>}
    /\ UNCHANGED <<version, direct, member>>

JoinGroup(g) ==
    /\ g \notin member
    /\ member' = member \cup {g}
    /\ UNCHANGED <<version, direct, grouped>>

LeaveGroup(g) ==
    /\ g \in member
    /\ member' = member \ {g}
    /\ UNCHANGED <<version, direct, grouped>>

EditPolicy(p) ==
    /\ Exists(p)
    /\ version' = [version EXCEPT ![p] = @ + 1]
    /\ UNCHANGED <<direct, member, grouped>>

(* The assignments go with it, ON DELETE CASCADE.                          *)
DeletePolicy(p) ==
    /\ Exists(p)
    /\ version' = [version EXCEPT ![p] = Deleted]
    /\ direct' = direct \ {p}
    /\ grouped' = {gp \in grouped : gp[2] # p}
    /\ UNCHANGED member

AdminStep ==
    /\ \/ \E p \in Policies :
            \/ Assign(p) \/ Unassign(p) \/ EditPolicy(p) \/ DeletePolicy(p)
            \/ \E g \in Groups : AssignToGroup(g, p)
       \/ \E g \in Groups : JoinGroup(g) \/ LeaveGroup(g)
    /\ Edit

-----------------------------------------------------------------------------
(* The PollPolicies RPC.                                                   *)

StartPoll ==
    /\ pc = "idle"
    /\ pc' = "resolving"
    /\ asked' = cache
    /\ held' = Routes /\ since' = version
    /\ UNCHANGED <<tableVars, edits, faults, readVars, reply, recorded, cache>>

(* The first two reads run in parallel.  Rows come in any order.           *)
ReadDirect ==
    /\ pc = "resolving" /\ directIds = None
    /\ directIds' \in Orders(direct)
    /\ UNCHANGED <<tableVars, edits, faults, pc, asked, groupIds, ids, loaded,
                   reply, recorded, cache, historyVars>>

ReadGroups ==
    /\ pc = "resolving" /\ groupIds = None
    /\ groupIds' = member
    /\ UNCHANGED <<tableVars, edits, faults, pc, asked, directIds, ids, loaded,
                   reply, recorded, cache, historyVars>>

(* Fault: chained without the filter.                                      *)
ChainAll(first, S) == {first \o rest : rest \in Orders(S)}

ChainUnique(first, S) == {first \o rest : rest \in Orders(S \ ToSet(first))}

(* The policies of the groups, then the union without repetitions.         *)
ReadGroupPolicies ==
    /\ pc = "resolving" /\ directIds # None /\ groupIds # None
    /\ pc' = "loading"
    /\ ids' \in ChainUnique(directIds, {gp[2] : gp \in {q \in grouped : q[1] \in groupIds}})
    /\ UNCHANGED <<tableVars, edits, faults, asked, directIds, groupIds, loaded,
                   reply, recorded, cache, historyVars>>

Found(p) == loaded[p][Header] # None /\ loaded[p][Header].version # Deleted

(* get_policy_bundle: the row of the policy, and then its parts in parallel;*)
(* of a policy that is gone nothing more is read.                          *)
LoadPart(p, part) ==
    /\ pc = "loading" /\ p \in ToSet(ids)
    /\ loaded[p][part] = None
    /\ part # Header => Found(p)
    /\ \E rows \in Rows(p, part) : loaded' = [loaded EXCEPT ![p][part] = rows]
    /\ UNCHANGED <<tableVars, edits, faults, pc, asked, directIds, groupIds, ids,
                   reply, recorded, cache, historyVars>>

Complete(p) ==
    /\ loaded[p][Header] # None
    /\ Found(p) => \A part \in Parts : loaded[p][part] # None
AllLoaded == pc = "loading" /\ \A p \in ToSet(ids) : Complete(p)

(* The bundle read: policies whose row was there, in the order of the ids. *)
BundleOf(order) ==
    LET present == {p \in ToSet(order) : Found(p)}
        Ordered(pair) == \E i, j \in DOMAIN order : i < j /\ pair = <<order[i], order[j]>>
    IN  [parts |-> [p \in present |-> loaded[p]],
         before |-> {pair \in present \X present : Ordered(pair)}]

(* Fault: the rows read by one poll are kept for the next.                 *)
KeepRows ==
    /\ directIds' = None /\ groupIds' = None
    /\ ids' = <<>> /\ UNCHANGED loaded

ForgetReads ==
    /\ directIds' = None /\ groupIds' = None
    /\ ids' = <<>> /\ loaded' = NothingLoaded

(* Fault: the bundle is compared with the hash the server remembers.       *)
AnswerFromRecord ==
    /\ AllLoaded
    /\ pc' = "replying"
    /\ IF BundleOf(ids) = recorded
         THEN reply' = Unchanged /\ UNCHANGED recorded
         ELSE reply' = BundleOf(ids) /\ recorded' = BundleOf(ids)
    /\ ForgetReads
    /\ UNCHANGED <<tableVars, edits, faults, asked, cache, historyVars>>

(* The comparison with the agent's hash and the record of the new one run  *)
(* without an await after the last read.                                   *)
Answer ==
    /\ AllLoaded
    /\ pc' = "replying"
    /\ LET bundle == BundleOf(ids)
       IN  IF bundle = asked
             THEN reply' = Unchanged /\ UNCHANGED recorded
             ELSE reply' = bundle /\ recorded' = bundle
    /\ ForgetReads
    /\ UNCHANGED <<tableVars, edits, faults, asked, cache, historyVars>>

EndPoll ==
    /\ pc' = "idle" /\ asked' = None /\ reply' = None
    /\ held' = {} /\ since' = [p \in Policies |-> 0]

(* The agent keeps the bundle it is sent.                                  *)
Deliver ==
    /\ pc = "replying"
    /\ cache' = IF reply = Unchanged THEN cache ELSE reply
    /\ EndPoll
    /\ UNCHANGED <<tableVars, edits, faults, readVars, recorded>>

(* A database error, a broken connection or a lost reply: the poll is over.*)
Fail ==
    /\ faults < MaxFaults
    /\ faults' = faults + 1
    /\ pc # "idle"
    /\ EndPoll /\ ForgetReads
    /\ UNCHANGED <<tableVars, edits, recorded, cache>>

(* The server loses the orchestrator's map with everything in memory.      *)
Restart ==
    /\ faults < MaxFaults
    /\ faults' = faults + 1
    /\ recorded' = None
    /\ EndPoll /\ ForgetReads
    /\ UNCHANGED <<tableVars, edits, cache>>

PollStep ==
    \/ StartPoll \/ ReadDirect \/ ReadGroups \/ ReadGroupPolicies
    \/ \E p \in Policies, part \in Pieces : LoadPart(p, part)
    \/ Answer \/ Deliver

Next == AdminStep \/ PollStep \/ Fail \/ Restart

Spec == Init /\ [][Next]_vars

(* The agent polls for ever and its polls go on; edits and faults are not  *)
(* owed anything, and the bounds make them finitely many.                  *)
FairSpec == Spec /\ WF_vars(PollStep)

-----------------------------------------------------------------------------
(* What the module promises.                                               *)

(* What a bundle says, whatever the order of its rows.                     *)
Content(bundle) ==
    [p \in DOMAIN bundle.parts |-> [part \in Pieces |-> bundle.parts[p][part].version]]

CacheIsCurrent ==
    /\ cache # None
    /\ Content(cache) = [p \in Assigned |-> [part \in Pieces |-> version[p]]]

(* The agent ends up holding exactly the policies assigned to it, each read*)
(* whole, in spite of torn reads, lost replies, errors and restarts: what a*)
(* poll got wrong, a later one puts right (agent_service.rs:71-104).       *)
AgentCatchesUp == <>[]CacheIsCurrent

(* A policy assigned by one and the same route during the whole of a poll  *)
(* is in the bundle the poll computes, and no part of a policy is older    *)
(* than the poll, although the reads are not of one instant                *)
(* (resolver.rs:60-117, policies.rs:67-93).                                *)
HeldPoliciesDelivered ==
    AllLoaded =>
        LET parts == BundleOf(ids).parts
        IN  /\ {route[2] : route \in held} \subseteq DOMAIN parts
            /\ \A p \in DOMAIN parts, piece \in Pieces :
                 parts[p][piece].version \notin Deleted + 1 .. since[p] - 1
=============================================================================
