----------------------- MODULE PolicyDistributorProofs -----------------------
(***************************************************************************)
(* Proofs about module PolicyDistributor, for any number of policies,      *)
(* groups, parts, edits and faults.                                        *)
(***************************************************************************)
EXTENDS PolicyDistributor, FiniteSetTheorems, SequenceTheorems, TLAPS

(* An edit is counted, whatever it edits.                                  *)
EditInv == \A p \in Policies : version[p] <= edits

(* What is assigned exists: ON DELETE CASCADE.                             *)
AssignedInv == direct \cup {gp[2] : gp \in grouped} \subseteq {p \in Policies : Exists(p)}

(* Nothing is kept from one poll for the next.                             *)
FreshInv ==
    pc \in {"idle", "replying"} =>
        directIds = None /\ groupIds = None /\ loaded = NothingLoaded

(* A route that stands since the poll began is in what the poll has read.  *)
RouteInv ==
    /\ held \subseteq Routes
    /\ \A route \in held :
         /\ route[1] = None /\ directIds # None => route[2] \in ToSet(directIds)
         /\ route[1] # None /\ groupIds # None => route[1] \in groupIds
         /\ pc = "loading" => route[2] \in ToSet(ids)
         /\ loaded[route[2]][Header] # None => Found(route[2])

(* No version is older than the poll.                                      *)
NotOlder(v, p) == v = Deleted \/ v >= since[p]
AgeInv ==
    \A p \in Policies :
        /\ NotOlder(version[p], p)
        /\ \A piece \in Pieces :
             loaded[p][piece] # None => NotOlder(loaded[p][piece].version, p)

PollInv == TypeOK /\ EditInv /\ AssignedInv /\ FreshInv /\ RouteInv /\ AgeInv

-----------------------------------------------------------------------------
(* An order of a finite set lists its members, each once.                  *)
LEMMA OrdersProperties ==
  ASSUME NEW S \in SUBSET Policies, NEW s \in Orders(S)
  PROVE  s \in Seq(Policies) /\ IsInjective(s) /\ ToSet(s) = S
<1>1. IsFiniteSet(S) /\ Cardinality(S) \in Nat
  BY FiniteAssumption, FS_Subset, FS_CardinalityType
<1> DEFINE n == Cardinality(S)
<1>2. s \in [1..n -> S] /\ \A i, j \in DOMAIN s : i # j => s[i] # s[j]
  BY DEF Orders
<1>3. s \in Seq(Policies) /\ IsInjective(s)
  BY <1>1, <1>2 DEF IsInjective
<1>4. s \in Injection(1..n, S)
  BY <1>2, <1>3 DEF Injection
<1>5. Cardinality(1..n) = n
  BY <1>1, FS_Interval
<1>6. s \in Surjection(1..n, S)
  BY <1>1, <1>4, <1>5, FS_Injection
<1>7. ToSet(s) = S
  BY <1>2, <1>6 DEF Surjection, ToSet
<1> QED
  BY <1>3, <1>7

(* The union without repetitions lists each policy once.                   *)
LEMMA ChainProperties ==
  ASSUME NEW first \in Seq(Policies), IsInjective(first), NEW S \in SUBSET Policies,
         NEW s \in ChainUnique(first, S)
  PROVE  s \in Seq(Policies) /\ IsInjective(s) /\ ToSet(s) = ToSet(first) \cup S
<1>1. PICK rest \in Orders(S \ ToSet(first)) : s = first \o rest
  BY DEF ChainUnique
<1>2. rest \in Seq(Policies) /\ IsInjective(rest) /\ ToSet(rest) = S \ ToSet(first)
  BY OrdersProperties
<1>3. /\ s \in Seq(Policies) /\ Len(s) = Len(first) + Len(rest)
      /\ \A i \in 1..Len(s) : s[i] = IF i <= Len(first) THEN first[i] ELSE rest[i - Len(first)]
  BY <1>1, <1>2, ConcatProperties
<1>4. /\ Len(first) \in Nat /\ DOMAIN first = 1..Len(first)
      /\ Len(rest) \in Nat /\ DOMAIN rest = 1..Len(rest) /\ DOMAIN s = 1..Len(s)
  BY <1>2, <1>3, LenProperties
<1>5. \A i \in DOMAIN first, j \in DOMAIN rest : first[i] # rest[j]
  BY <1>2 DEF ToSet
<1>6. IsInjective(s)
  <2> SUFFICES ASSUME NEW i \in 1..Len(s), NEW j \in 1..Len(s), s[i] = s[j] PROVE i = j
    BY <1>4 DEF IsInjective
  <2>1. CASE i <= Len(first) /\ j <= Len(first)
    BY <1>3, <1>4, <2>1 DEF IsInjective
  <2>2. CASE ~(i <= Len(first)) /\ ~(j <= Len(first))
    <3>1. i - Len(first) \in DOMAIN rest /\ j - Len(first) \in DOMAIN rest
      BY <1>3, <1>4, <2>2
    <3>2. rest[i - Len(first)] = rest[j - Len(first)]
      BY <1>3, <2>2
    <3> QED
      BY <1>2, <1>4, <3>1, <3>2 DEF IsInjective
  <2>3. ASSUME NEW k \in 1..Len(s), NEW l \in 1..Len(s), k <= Len(first), ~(l <= Len(first))
        PROVE  s[k] # s[l]
    <3>1. k \in DOMAIN first /\ l - Len(first) \in DOMAIN rest
      BY <1>3, <1>4, <2>3
    <3>2. s[k] = first[k] /\ s[l] = rest[l - Len(first)]
      BY <1>3, <2>3
    <3> QED
      BY <1>5, <3>1, <3>2
  <2> QED
    BY <2>1, <2>2, <2>3
<1>7. ToSet(s) = ToSet(first) \cup S
  <2>1. \A i \in DOMAIN s : s[i] \in ToSet(first) \/ s[i] \in ToSet(rest)
    <3> SUFFICES ASSUME NEW i \in 1..Len(s) PROVE s[i] \in ToSet(first) \/ s[i] \in ToSet(rest)
      BY <1>4
    <3>1. i <= Len(first) => i \in DOMAIN first
      BY <1>4
    <3>2. ~(i <= Len(first)) => i - Len(first) \in DOMAIN rest
      BY <1>3, <1>4
    <3> QED
      BY <1>3, <3>1, <3>2 DEF ToSet
  <2>2. \A i \in DOMAIN first : i \in DOMAIN s /\ s[i] = first[i]
    BY <1>3, <1>4
  <2>3. \A i \in DOMAIN rest : i + Len(first) \in DOMAIN s /\ s[i + Len(first)] = rest[i]
    BY <1>3, <1>4
  <2>4. ToSet(s) \subseteq ToSet(first) \cup ToSet(rest)
    BY <2>1 DEF ToSet
  <2>5. ToSet(first) \subseteq ToSet(s) /\ ToSet(rest) \subseteq ToSet(s)
    BY <2>2, <2>3 DEF ToSet
  <2> QED
    BY <1>2, <2>4, <2>5
<1> QED
  BY <1>3, <1>6, <1>7

(* What is read is well-formed, and a bundle of it is.                     *)
LEMMA RowsType ==
  ASSUME TypeOK, NEW p \in Policies, NEW part \in Pieces, NEW rows \in Rows(p, part)
  PROVE  rows \in Read /\ rows.version = version[p]
BY DEF TypeOK, Rows, Read

LEMMA BundleType ==
  ASSUME TypeOK, AllLoaded
  PROVE  BundleOf(ids) \in Bundle
<1> DEFINE present == {p \in ToSet(ids) : Found(p)}
<1>1. present \in SUBSET Policies
  BY DEF TypeOK, ToSet
<1>2. ASSUME NEW p \in present
      PROVE  loaded[p] \in [Pieces -> Read]
  <2>1. \A piece \in Pieces : loaded[p][piece] # None
    BY <1>2 DEF AllLoaded, Complete, Pieces
  <2> QED
    BY <1>1, <1>2, <2>1 DEF TypeOK
<1>3. [p \in present |-> loaded[p]] \in [present -> [Pieces -> Read]]
  BY <1>2
<1>4. [p \in present |-> loaded[p]] \in UNION {[S -> [Pieces -> Read]] : S \in SUBSET Policies}
  BY <1>1, <1>3
<1> QED
  BY <1>1, <1>4 DEF BundleOf, Bundle

-----------------------------------------------------------------------------
(* The administrator's steps.                                              *)
LEMMA AdminSteps ==
  ASSUME PollInv, AdminStep
  PROVE  PollInv'
<1> USE DEF PollInv
<1>1. /\ edits < MaxEdits /\ edits' = edits + 1 /\ held' = held \cap Routes'
      /\ UNCHANGED <<faults, pc, asked, directIds, groupIds, ids, loaded, reply, recorded, cache,
                     since>>
  BY DEF AdminStep, Edit, readVars
<1>2. edits \in Nat /\ edits' \in 0..MaxEdits /\ MaxEdits \in Nat
  BY <1>1, BoundsAssumption DEF TypeOK
<1> DEFINE VersionsOK == /\ version' \in [Policies -> Deleted..MaxEdits]
                        /\ \A p \in Policies : version'[p] <= edits' /\ NotOlder(version'[p], p)
           TablesOK == /\ \A p \in direct' : p \in Policies /\ version'[p] # Deleted
                       /\ \A gp \in grouped' : gp[2] \in Policies /\ version'[gp[2]] # Deleted
                       /\ member' \subseteq Groups /\ grouped' \subseteq Groups \X Policies
<1>3. UNCHANGED version => VersionsOK
  BY <1>1, <1>2 DEF TypeOK, EditInv, AgeInv, Deleted
<1>4. ASSUME NEW p \in Policies,
             Assign(p) \/ Unassign(p) \/ \E g \in Groups : AssignToGroup(g, p)
      PROVE  VersionsOK /\ TablesOK
  <2>1. UNCHANGED <<version, member>>
    BY <1>4 DEF Assign, Unassign, AssignToGroup
  <2>2. ASSUME Assign(p) \/ Unassign(p) PROVE TablesOK
    BY <2>1, <2>2 DEF Assign, Unassign, TypeOK, AssignedInv, Exists
  <2>3. ASSUME \E g \in Groups : AssignToGroup(g, p) PROVE TablesOK
    <3>1. PICK g \in Groups : Exists(p) /\ grouped' = grouped \cup {<<g, p>>} /\ UNCHANGED direct
      BY <2>3 DEF AssignToGroup
    <3>2. \A gp \in grouped' : gp[2] \in Policies /\ version[gp[2]] # Deleted
      BY <3>1 DEF TypeOK, AssignedInv, Exists
    <3>3. grouped' \subseteq Groups \X Policies
      BY <3>1 DEF TypeOK
    <3> QED
      BY <2>1, <3>1, <3>2, <3>3 DEF TypeOK, AssignedInv, Exists
  <2> QED
    BY <1>3, <1>4, <2>1, <2>2, <2>3
<1>5. ASSUME NEW g \in Groups, JoinGroup(g) \/ LeaveGroup(g) PROVE VersionsOK /\ TablesOK
  <2>1. UNCHANGED <<version, direct, grouped>>
    BY <1>5 DEF JoinGroup, LeaveGroup
  <2>2. TablesOK
    BY <1>5, <2>1 DEF JoinGroup, LeaveGroup, TypeOK, AssignedInv, Exists
  <2> QED
    BY <1>3, <2>1, <2>2
<1>6. ASSUME NEW p \in Policies, EditPolicy(p) PROVE VersionsOK /\ TablesOK
  <2>1. /\ version[p] \in 0..edits /\ version' = [version EXCEPT ![p] = version[p] + 1]
        /\ UNCHANGED <<direct, member, grouped>> /\ NotOlder(version[p], p) /\ version[p] # Deleted
    BY <1>2, <1>6 DEF EditPolicy, Exists, TypeOK, EditInv, Deleted, AgeInv
  <2>2. version[p] + 1 \in 0..edits' /\ version[p] + 1 \in 0..MaxEdits
    BY <1>1, <1>2, <2>1
  <2>3. NotOlder(version[p] + 1, p)
    <3>1. since[p] \in Int /\ version[p] >= since[p]
      BY <2>1 DEF NotOlder, TypeOK, Deleted
    <3> QED
      BY <2>1, <3>1 DEF NotOlder
  <2>4. VersionsOK
    <3>1. version' \in [Policies -> Deleted..MaxEdits] /\ version'[p] = version[p] + 1
      BY <1>2, <2>1, <2>2 DEF TypeOK, Deleted
    <3>2. \A q \in Policies \ {p} : version'[q] = version[q]
      BY <2>1 DEF TypeOK
    <3>3. \A q \in Policies : version[q] \in Int /\ version[q] <= edits /\ NotOlder(version[q], q)
      BY DEF TypeOK, EditInv, AgeInv, Deleted
    <3> QED
      BY <1>1, <1>2, <2>2, <2>3, <3>1, <3>2, <3>3
  <2>5. \A q \in Policies : version[q] # Deleted => version'[q] # Deleted
    BY <2>1 DEF TypeOK, Deleted
  <2>6. TablesOK
    BY <2>1, <2>5 DEF AssignedInv, Exists, TypeOK
  <2> QED
    BY <2>4, <2>6
<1>7. ASSUME NEW p \in Policies, DeletePolicy(p) PROVE VersionsOK /\ TablesOK
  <2>1. /\ version' = [version EXCEPT ![p] = Deleted] /\ direct' = direct \ {p}
        /\ grouped' = {gp \in grouped : gp[2] # p} /\ UNCHANGED member
    BY <1>7 DEF DeletePolicy
  <2>2. version' \in [Policies -> Deleted..MaxEdits] /\ version'[p] = Deleted
    BY <1>2, <2>1 DEF TypeOK, Deleted
  <2>3. \A q \in Policies \ {p} : version'[q] = version[q]
    BY <2>1 DEF TypeOK
  <2>4. VersionsOK
    <3>1. \A q \in Policies : version[q] \in Int /\ version[q] <= edits /\ NotOlder(version[q], q)
      BY DEF TypeOK, EditInv, AgeInv, Deleted
    <3>2. NotOlder(Deleted, p) /\ Deleted <= edits'
      BY <1>2 DEF NotOlder, Deleted
    <3> QED
      BY <1>1, <1>2, <2>2, <2>3, <3>1, <3>2
  <2>5. TablesOK
    BY <2>1, <2>3 DEF AssignedInv, Exists, TypeOK
  <2> QED
    BY <2>4, <2>5
<1>8. VersionsOK /\ TablesOK
  BY <1>4, <1>5, <1>6, <1>7 DEF AdminStep
<1> HIDE DEF VersionsOK, TablesOK
<1>9. TypeOK'
  <2>1. /\ version' \in [Policies -> Deleted..MaxEdits] /\ direct' \subseteq Policies
        /\ member' \subseteq Groups /\ grouped' \subseteq Groups \X Policies
    BY <1>8 DEF VersionsOK, TablesOK
  <2> QED
    BY <1>1, <1>2, <2>1 DEF TypeOK
<1>10. EditInv' /\ AssignedInv' /\ FreshInv'
  BY <1>1, <1>8 DEF EditInv, AssignedInv, FreshInv, Exists, VersionsOK, TablesOK
<1>11. RouteInv'
  BY <1>1 DEF RouteInv, Found
<1>12. AgeInv'
  BY <1>1, <1>8 DEF AgeInv, NotOlder, VersionsOK
<1> QED
  BY <1>9, <1>10, <1>11, <1>12

(* The beginning of a poll.                                                *)
LEMMA StartSteps ==
  ASSUME PollInv, StartPoll
  PROVE  PollInv'
<1> USE DEF PollInv
<1>1. /\ pc = "idle" /\ pc' = "resolving" /\ asked' = cache /\ held' = Routes /\ since' = version
      /\ UNCHANGED <<version, direct, member, grouped, edits, faults, directIds, groupIds, ids,
                     loaded, reply, recorded, cache>>
  BY DEF StartPoll, tableVars, readVars
<1>2. directIds = None /\ groupIds = None /\ loaded = NothingLoaded
  BY <1>1 DEF FreshInv
<1>3. TypeOK'
  <2>1. Routes \subseteq (Groups \cup {None}) \X Policies
    BY DEF Routes, TypeOK
  <2>2. /\ pc' \in {"idle", "resolving", "loading", "replying"}
        /\ (pc' = "replying" <=> reply' # None)
    BY <1>1 DEF TypeOK
  <2>3. {asked', recorded', cache', reply'} \subseteq Bundle \cup {None, Unchanged}
    BY <1>1 DEF TypeOK
  <2> QED
    BY <1>1, <2>1, <2>2, <2>3 DEF TypeOK
<1>4. EditInv' /\ AssignedInv' /\ FreshInv'
  BY <1>1 DEF EditInv, AssignedInv, FreshInv, Exists
<1>5. \A p \in Policies, piece \in Pieces : loaded[p][piece] = None
  BY <1>2 DEF NothingLoaded
<1>6. RouteInv'
  <2>1. Routes' = Routes
    BY <1>1 DEF Routes
  <2>2. \A route \in Routes : route[2] \in Policies
    BY DEF Routes, TypeOK
  <2> QED
    BY <1>1, <1>2, <1>5, <2>1, <2>2 DEF RouteInv, Pieces
<1>7. AgeInv'
  BY <1>1, <1>5 DEF AgeInv, NotOlder, TypeOK, Deleted
<1> QED
  BY <1>3, <1>4, <1>6, <1>7

(* The reads of the assignments.                                           *)
LEMMA ReadSteps ==
  ASSUME PollInv, ReadDirect \/ ReadGroups \/ ReadGroupPolicies
  PROVE  PollInv'
<1> USE DEF PollInv
<1>1. /\ pc = "resolving" /\ pc' \in {"resolving", "loading"}
      /\ UNCHANGED <<version, direct, member, grouped, edits, faults, asked, loaded, reply,
                     recorded, cache, held, since>>
  BY DEF ReadDirect, ReadGroups, ReadGroupPolicies, tableVars, historyVars
<1>2. Routes' = Routes /\ held' \subseteq Routes
  BY <1>1 DEF Routes, RouteInv
<1>3. \A route \in held :
        /\ route[1] = None => route[2] \in direct
        /\ route[1] # None => route \in grouped /\ route[1] \in member
        /\ route = <<route[1], route[2]>>
  BY <1>2, NoneAssumption DEF Routes, TypeOK, RouteInv
<1>4. CASE ReadDirect
  <2>1. directIds' \in Seq(Policies) /\ IsInjective(directIds') /\ ToSet(directIds') = direct
    BY <1>4, OrdersProperties DEF ReadDirect, TypeOK
  <2>2. UNCHANGED <<groupIds, ids, pc>>
    BY <1>4 DEF ReadDirect
  <2> QED
    BY <1>1, <1>2, <1>3, <2>1, <2>2
       DEF TypeOK, EditInv, AssignedInv, FreshInv, Exists, RouteInv, Found, AgeInv, NotOlder
<1>5. CASE ReadGroups
  <2>1. groupIds' = member /\ UNCHANGED <<directIds, ids, pc>>
    BY <1>5 DEF ReadGroups
  <2> QED
    BY <1>1, <1>2, <1>3, <2>1
       DEF TypeOK, EditInv, AssignedInv, FreshInv, Exists, RouteInv, Found, AgeInv, NotOlder
<1>6. CASE ReadGroupPolicies
  <2> DEFINE fromGroups == {gp[2] : gp \in {q \in grouped : q[1] \in groupIds}}
  <2>1. /\ directIds # None /\ groupIds # None /\ pc' = "loading"
        /\ ids' \in ChainUnique(directIds, fromGroups) /\ UNCHANGED <<directIds, groupIds>>
    BY <1>6 DEF ReadGroupPolicies
  <2>2. directIds \in Seq(Policies) /\ IsInjective(directIds) /\ fromGroups \in SUBSET Policies
    BY <2>1 DEF TypeOK
  <2>3. ids' \in Seq(Policies) /\ IsInjective(ids') /\ ToSet(ids') = ToSet(directIds) \cup fromGroups
    BY <2>1, <2>2, ChainProperties
  <2>4. \A route \in held : route[2] \in ToSet(ids')
    BY <1>3, <2>1, <2>3 DEF RouteInv
  <2> HIDE DEF fromGroups
  <2>5. TypeOK'
    BY <1>1, <2>1, <2>3 DEF TypeOK
  <2>6. EditInv' /\ AssignedInv' /\ FreshInv' /\ AgeInv'
    BY <1>1, <2>1 DEF EditInv, AssignedInv, FreshInv, Exists, AgeInv, NotOlder
  <2>7. RouteInv'
    BY <1>1, <1>2, <2>1, <2>4 DEF RouteInv, Found
  <2> QED
    BY <2>5, <2>6, <2>7
<1> QED
  BY <1>4, <1>5, <1>6

(* The read of one piece of a policy.                                      *)
LEMMA LoadSteps ==
  ASSUME PollInv, NEW p \in Policies, NEW part \in Pieces, LoadPart(p, part)
  PROVE  PollInv'
<1> USE DEF PollInv
<1>1. PICK rows \in Rows(p, part) : loaded' = [loaded EXCEPT ![p][part] = rows]
  BY DEF LoadPart
<1>2. /\ pc = "loading" /\ loaded[p][part] = None
      /\ UNCHANGED <<version, direct, member, grouped, edits, faults, pc, asked, directIds, groupIds,
                     ids, reply, recorded, cache, held, since>>
  BY DEF LoadPart, tableVars, historyVars
<1>3. rows \in Read /\ rows.version = version[p]
  BY RowsType
<1>4. /\ loaded' \in [Policies -> [Pieces -> Read \cup {None}]]
      /\ loaded'[p][part] = rows
      /\ \A q \in Policies, piece \in Pieces :
           q # p \/ piece # part => loaded'[q][piece] = loaded[q][piece]
  BY <1>1, <1>3 DEF TypeOK
<1>5. TypeOK' /\ EditInv' /\ AssignedInv' /\ FreshInv'
  BY <1>2, <1>4 DEF TypeOK, EditInv, AssignedInv, FreshInv, Exists
<1>6. Routes' = Routes
  BY <1>2 DEF Routes
<1>7. \A route \in held : route[2] \in Policies /\ version[route[2]] # Deleted
  BY DEF RouteInv, Routes, AssignedInv, Exists, TypeOK
<1>8. RouteInv'
  <2>1. ASSUME NEW route \in held, loaded'[route[2]][Header] # None PROVE Found(route[2])'
    <3>1. Header \in Pieces
      BY DEF Pieces
    <3>2. CASE route[2] = p /\ part = Header
      BY <1>3, <1>4, <1>7, <2>1, <3>1, <3>2 DEF Found
    <3>3. CASE route[2] # p \/ part # Header
      <4>1. loaded'[route[2]][Header] = loaded[route[2]][Header]
        BY <1>4, <1>7, <3>1, <3>3
      <4> QED
        BY <2>1, <4>1 DEF RouteInv, Found
    <3> QED
      BY <3>2, <3>3
  <2> QED
    BY <1>2, <1>6, <2>1 DEF RouteInv
<1>9. AgeInv'
  <2>1. ASSUME NEW q \in Policies, NEW piece \in Pieces, loaded'[q][piece] # None
        PROVE  NotOlder(loaded'[q][piece].version, q)
    <3>1. CASE q = p /\ piece = part
      BY <1>3, <1>4, <3>1 DEF AgeInv
    <3>2. CASE q # p \/ piece # part
      BY <1>4, <2>1, <3>2 DEF AgeInv
    <3> QED
      BY <3>1, <3>2
  <2> QED
    BY <1>2, <2>1 DEF AgeInv, NotOlder
<1> QED
  BY <1>5, <1>8, <1>9

(* The comparison of the hashes.                                           *)
LEMMA AnswerSteps ==
  ASSUME PollInv, Answer
  PROVE  PollInv'
<1> USE DEF PollInv
<1>1. /\ AllLoaded /\ pc' = "replying"
      /\ directIds' = None /\ groupIds' = None /\ ids' = <<>> /\ loaded' = NothingLoaded
      /\ UNCHANGED <<version, direct, member, grouped, edits, faults, asked, cache, held, since>>
  BY DEF Answer, ForgetReads, tableVars, historyVars
<1>2. /\ reply' \in Bundle \cup {Unchanged} /\ reply' # None
      /\ recorded' \in Bundle \cup {None, Unchanged}
  <2>1. BundleOf(ids) \in Bundle
    BY <1>1, BundleType
  <2> QED
    BY <2>1, NoneAssumption DEF Answer, TypeOK
<1>3. /\ loaded' \in [Policies -> [Pieces -> Read \cup {None}]]
      /\ \A p \in Policies, piece \in Pieces : loaded'[p][piece] = None
  BY <1>1 DEF NothingLoaded
<1>4. TypeOK'
  <2>1. ids' \in Seq(Policies) /\ IsInjective(ids')
    BY <1>1 DEF IsInjective
  <2>2. {asked', recorded', cache', reply'} \subseteq Bundle \cup {None, Unchanged}
    BY <1>1, <1>2 DEF TypeOK
  <2> QED
    BY <1>1, <1>2, <1>3, <2>1, <2>2 DEF TypeOK
<1>5. EditInv' /\ AssignedInv' /\ FreshInv'
  BY <1>1 DEF EditInv, AssignedInv, FreshInv, Exists, NothingLoaded
<1>6. RouteInv'
  <2>1. Routes' = Routes
    BY <1>1 DEF Routes
  <2>2. \A route \in held : route[2] \in Policies
    BY DEF TypeOK
  <2> QED
    BY <1>1, <1>3, <2>1, <2>2 DEF RouteInv, Pieces
<1>7. AgeInv'
  BY <1>1, <1>3 DEF AgeInv, NotOlder
<1> QED
  BY <1>4, <1>5, <1>6, <1>7

(* The end of a poll, answered or not.                                     *)
LEMMA EndSteps ==
  ASSUME PollInv, Deliver \/ Fail \/ Restart
  PROVE  PollInv'
<1> USE DEF PollInv
<1>1. /\ pc' = "idle" /\ asked' = None /\ reply' = None
      /\ held' = {} /\ since' = [p \in Policies |-> 0]
      /\ UNCHANGED <<version, direct, member, grouped, edits>>
  BY DEF Deliver, Fail, Restart, EndPoll, tableVars
<1>2. /\ directIds' = None /\ groupIds' = None /\ loaded' = NothingLoaded
      /\ ids' \in Seq(Policies) /\ IsInjective(ids')
  <2>1. CASE Deliver
    BY <2>1 DEF Deliver, FreshInv, TypeOK, readVars
  <2>2. CASE Fail \/ Restart
    <3>1. /\ directIds' = None /\ groupIds' = None /\ loaded' = NothingLoaded /\ ids' = <<>>
      BY <2>2 DEF Fail, Restart, ForgetReads
    <3>2. ids' \in Seq(Policies) /\ IsInjective(ids')
      BY <3>1 DEF IsInjective
    <3> QED
      BY <3>1, <3>2
  <2> QED
    BY <2>1, <2>2
<1>3. faults' \in 0..MaxFaults
  BY BoundsAssumption DEF Deliver, Fail, Restart, TypeOK
<1>4. {asked', recorded', cache', reply'} \subseteq Bundle \cup {None, Unchanged}
  BY <1>1 DEF Deliver, Fail, Restart, TypeOK
<1>5. /\ loaded' \in [Policies -> [Pieces -> Read \cup {None}]]
      /\ \A p \in Policies, piece \in Pieces : loaded'[p][piece] = None
  BY <1>2 DEF NothingLoaded
<1>6. TypeOK'
  <2>1. since' \in [Policies -> Deleted..MaxEdits]
    BY <1>1, BoundsAssumption DEF Deleted
  <2> QED
    BY <1>1, <1>2, <1>3, <1>4, <1>5, <2>1 DEF TypeOK
<1>7. EditInv' /\ AssignedInv' /\ FreshInv' /\ RouteInv'
  BY <1>1, <1>2 DEF EditInv, AssignedInv, FreshInv, Exists, RouteInv, NothingLoaded
<1>8. AgeInv'
  BY <1>1, <1>5 DEF AgeInv, NotOlder, TypeOK, Deleted
<1> QED
  BY <1>6, <1>7, <1>8

-----------------------------------------------------------------------------
(* The inductive invariant.                                                *)
LEMMA PollInvariant == Spec => []PollInv
<1>1. Init => PollInv
  <2> SUFFICES ASSUME Init PROVE PollInv
    OBVIOUS
  <2> USE DEF Init
  <2>1. /\ version = [p \in Policies |-> 0] /\ 0 # Deleted
        /\ loaded \in [Policies -> [Pieces -> Read \cup {None}]]
        /\ \A p \in Policies, piece \in Pieces : loaded[p][piece] = None
    BY DEF NothingLoaded, Deleted
  <2>2. TypeOK
    <3>1. version \in [Policies -> Deleted..MaxEdits]
      BY <2>1, BoundsAssumption DEF Deleted
    <3>2. ids \in Seq(Policies) /\ IsInjective(ids)
      BY DEF IsInjective
    <3> QED
      BY <2>1, <3>1, <3>2, BoundsAssumption DEF TypeOK
  <2>3. EditInv /\ AssignedInv /\ FreshInv /\ RouteInv
    BY <2>1 DEF EditInv, AssignedInv, FreshInv, RouteInv, Exists
  <2>4. AgeInv
    BY <2>1 DEF AgeInv, NotOlder
  <2> QED
    BY <2>2, <2>3, <2>4 DEF PollInv
<1>2. PollInv /\ UNCHANGED vars => PollInv'
  BY DEF PollInv, vars, tableVars, readVars, historyVars, TypeOK, EditInv, AssignedInv, FreshInv,
         RouteInv, Routes, AgeInv, NotOlder, Exists, Found
<1>3. PollInv /\ [Next]_vars => PollInv'
  BY <1>2, AdminSteps, StartSteps, ReadSteps, LoadSteps, AnswerSteps, EndSteps DEF Next, PollStep
<1> QED
  BY <1>1, <1>3, PTL DEF Spec

(* Type correctness: no policy is listed twice in a bundle, no read is     *)
(* left over for the next poll's bundle.                                   *)
THEOREM TypeCorrect == Spec => []TypeOK
<1>1. PollInv => TypeOK
  BY DEF PollInv
<1> QED
  BY <1>1, PollInvariant, PTL

(* A policy assigned by one and the same route during the whole of a poll  *)
(* is in the bundle the poll computes, and no part of it is older than the *)
(* poll, although the reads are not of one instant (resolver.rs:60-117,    *)
(* policies.rs:67-93).                                                     *)
THEOREM HeldPoliciesDeliveredHolds == Spec => []HeldPoliciesDelivered
<1>1. ASSUME PollInv, AllLoaded
      PROVE  LET parts == BundleOf(ids).parts
             IN  /\ {route[2] : route \in held} \subseteq DOMAIN parts
                 /\ \A p \in DOMAIN parts, piece \in Pieces :
                      parts[p][piece].version \notin Deleted + 1 .. since[p] - 1
  <2> DEFINE present == {p \in ToSet(ids) : Found(p)}
             parts == [p \in present |-> loaded[p]]
  <2>1. BundleOf(ids).parts = parts
    BY DEF BundleOf
  <2>2. present \subseteq Policies
    BY <1>1 DEF PollInv, TypeOK, ToSet
  <2>3. \A p \in ToSet(ids) : Complete(p)
    BY <1>1 DEF AllLoaded
  <2>4. {route[2] : route \in held} \subseteq present
    BY <1>1, <2>3 DEF PollInv, RouteInv, AllLoaded, Complete
  <2>5. ASSUME NEW p \in present, NEW piece \in Pieces
        PROVE  loaded[p][piece].version \notin Deleted + 1 .. since[p] - 1
    <3>1. loaded[p][piece] # None
      BY <2>3 DEF Complete, Pieces
    <3>2. NotOlder(loaded[p][piece].version, p)
      BY <2>2, <3>1, <1>1 DEF PollInv, AgeInv
    <3>3. loaded[p][piece].version \in Deleted..MaxEdits /\ since[p] \in Deleted..MaxEdits
      BY <2>2, <3>1, <1>1 DEF PollInv, TypeOK, Read
    <3> QED
      BY <3>2, <3>3, BoundsAssumption DEF NotOlder, Deleted
  <2> HIDE DEF present
  <2> QED
    BY <2>1, <2>4, <2>5
<1>2. PollInv => HeldPoliciesDelivered
  BY <1>1 DEF HeldPoliciesDelivered
<1> QED
  BY <1>2, PollInvariant, PTL
=============================================================================
