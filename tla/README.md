# complyx-server: specifications and proofs

TLA+ models of the complyx server (a Rust gRPC server that enrols agents,
hands them compliance policies and ingests the results of their checks), the
TLC configurations that check them, and TLAPS proofs of the properties that
matter most. References such as `token.rs:110` are to the files under
`src/crates/`, `README.md:299` to the repository's own README.

## 1. The system

```
 administrator ──enroll-token──► enroll_tokens ◄──┐
               ──revoke-agent──► agent_certs  ◄───┤   (PostgreSQL, shared)
                                 agents       ◄───┤
 agent ──Enroll (TLS)──► enroll_service ─ process_enroll
 agent ──Poll/Submit/Heartbeat (mTLS)──► interceptor ─► agent_service
                                                         │    │      │
                                    Orchestrator (memory)┘    │      └ ResultIngester ─► results,
                                       ▲                 PolicyDistributor              scores, risks
                                heartbeat monitor
```

Every SQL statement runs on a connection taken from a pool of ten, and outside
any transaction except the insertion of a batch of results. A gRPC handler is
therefore a chain of atomic statements, and any other handler, command or the
monitor may run between two of them. The only state in memory is the
`Orchestrator`'s map and the heartbeat monitor; a restart forgets both.

### Inventory

| Component | State | Operations | What is hard | What makes it correct |
|---|---|---|---|---|
| Enrolment tokens (`pki/token.rs`, `db/certs.rs`) | `enroll_tokens` | generate; check; mark as used | check and mark are two statements | a token enrols once; an expired or used one never again |
| Enrol RPC (`pki/enroll.rs`, `grpc-service/enroll_service.rs`, `db/agents.rs`) | `agents`, `agent_certs` | consume, upsert, sign, store, reply | failure between any two steps; deletion of the agent meanwhile; two enrolments of one address | nothing without a token; each certificate has its agent |
| Revocation (`pki/revoke.rs`) | `agent_certs.revoked_at` | read, then write; read by serial | a re-enrolment between the two; the serial must be the certificate's | a revocation lasts until the agent is enrolled again or deleted, and the calls of a revoked certificate are refused |
| CA and TLS material (`pki/ca.rs`, `grpc-pki/lib.rs`, `docker-entrypoint.sh`) | four files: `ca.crt`, `ca.key`, `server.crt`, `server.key` | create, load, sign | a crash between two writes or in the middle of one | what is served matches; the CA stays the same |
| Interceptor (`grpc-service/interceptor.rs`) | none | two reads per call | rows change between them | a call gets an enrolled, enabled identity or none |
| Orchestrator (`orchestrator/state.rs`) | a `DashMap` id → last contact, status, hash | contact, hash, removal, marking | concurrent handlers, shard by shard | punctual agents are online |
| Heartbeat monitor (`orchestrator/heartbeat.rs`, `server-core/di.rs`) | an interval, a snapshot of stale ids | check, stop | the snapshot ages; skipped ticks; a zero period | silent agents go offline; the monitor stops |
| Agent RPCs (`grpc-service/agent_service.rs`) | none | poll, submit, heartbeat | hash recorded before the reply is delivered; an error after the batch is stored | the agent gets a changed bundle; a batch is never lost |
| Policy distributor (`policy-distributor`, `db/policies.rs`) | policies and assignments | resolve, hash | reads of one bundle at different instants, in any row order; lost replies | what stays assigned is delivered; the agent ends with the assigned bundle |
| Result ingester (`result-ingester/ingest.rs`, `validator.rs`, `scorer.rs`, `db/results.rs`) | `check_results`, `compliance_scores` | validate, insert, recalculate | retries, overlapping batches, late recalculations | each result once; the score is that of the latest results |
| Risk trigger (`result-ingester/risk_trigger.rs`, `db/risks.rs`) | `risks` | open, close | find-then-insert, find-then-close; late batches | few duplicates; an administrator's decision stands |
| Process (`server-core`) | two listeners, pending signals | start, signals, commands | second signal; one of two listeners failing | the server comes back; a signal stops it |
| Wire protocol, telemetry, pool set-up | – | – | – | not modelled: generated code and I/O |

`PROJECT.json` lists every hazard at its line with the properties that watch it.

## 2. The modules

| Module | Models | Extended by |
|---|---|---|
| `Enrollment` | tokens, the Enroll RPC, agents, certificates, revocation, deletion | `MCEnrollment`, `EnrollmentProofs`, `AgentAuth` |
| `AgentAuth` | the interceptor, over the tables of `Enrollment` | `MCAgentAuth`, `AgentAuthProofs` (with `EnrollmentProofs`) |
| `Orchestrator` | the presence table, the monitor, the clock, shutdown and restart | `MCOrchestrator`, `OrchestratorProofs` |
| `PolicyDistributor` | the PollPolicies RPC, the resolution of a bundle, the assignments, the agent's cached bundle and its recorded hash | `MCPolicyDistributor`, `PolicyDistributorProofs` |
| `ResultStore` | abstract: what the ingester promises about the stored results | `ResultStoreProofs`; instantiated by `ResultIngester` |
| `ResultIngester` | the SubmitResults RPC, validation, the transaction, the scores | `MCResultIngester`, `ResultIngesterProofs` |
| `RiskTrigger` | the evaluations of batches and the administrator, over one agent's risks | `MCRiskTrigger`, `RiskTriggerProofs` |
| `ServerLifecycle` | entry point, start, CA and TLS files, listeners, signals | `ServerLifecycleProofs` |

The components meet in few places, and each module takes the other side as an
environment that may do anything the tables allow. `AgentAuth` is composed with
`Enrollment` (it extends it), because the rows the interceptor reads are those
an enrolment writes. The ingester calls the trigger after its own tables are
written, and the trigger touches none of them: `ResultIngester!Evaluate` is one
step, and `RiskTrigger` starts evaluations at any time. A handler cut short by
a stop or a crash of the process is `Abort` or `Fail` in every module, so
`ServerLifecycle` needs no handlers.

### Enrollment

*State.* `tokens[t]` is the row of a token (`"none"`, `"unused"`, `"used"` for
`used_at`), `expired` the tokens past `expires_at`. `agents[a]` is a row of
`agents` (address, hostname, enabled) and `certs[a]` the row of `agent_certs`
of that agent: the request whose certificate it holds and whether `revoked_at`
is set. `pc`, `arg`, `agent` are the progress, the message and the local
`agent_id` of every Enroll RPC; `revoking` are the revoke commands between
their SELECT and their UPDATE. `consumed` is a history variable.

*Steps.* One action per statement of `process_enroll`: `FindEnrollToken` (the
SELECT and the checks on what it returned), `ConsumeEnrollToken` (the UPDATE by
id, which looks at nothing), `UpsertAgent`, `SignCsr`, `StoreCert`, `Reply`.
`Abort` may end a request before or after any of them: it stands for a database
error, a cancelled RPC, a lost reply and the crash of the server (which aborts
every request in flight; here one after the other). `RevokeRead`/`RevokeWrite`
are the two statements of `revoke_agent_cert`. `SetEnabled` and `DeleteAgent`
are operations of the `db` crate that nothing in this repository calls; they
are included because they are its public interface to the same tables.

*Abstractions.* A token stands for its SHA-256. A request is made once; an
agent that retries makes another. `gen_random_uuid` and `generate_serial`
never repeat. The message's `peer` is the address the connection really came
from, which the code does not use.

### AgentAuth

Adds the calls of agents (`callPc`, `callCert`, `callId`). A call presents the
certificate of an enrolment that was answered. `CheckRevoked` looks for the
certificate's serial among the stored ones; `LookupAgent` then reads the row
named by the certificate's subject and gives the verdict. The stored serial
(`StoredSerial`) and the certificate's (`CertSerial`) are different values
because `sign_csr` prepares parameters with the serial but signs the CSR
without them (`ca.rs:125-153`); the subject is the CSR's for the same reason,
so `cn` is a field of its own.

### Orchestrator

*State.* `agents[a]` is an entry of the map with its age in seconds, saturated
one above the timeout (the code only asks whether it exceeds it). `monitor`,
`left`, `stale` are the monitor task: the iteration over the map visits entries
one at a time, because `DashMap` locks one shard at a time, and the marking
takes one entry at a time too. `phase` and `due` are the interval: `due` is the
single pending tick that `MissedTickBehavior::Skip` allows. `shutdown` is the
value in the watch channel.

*Steps.* The handlers' operations, `StartCheck` / `ScanEntry` / `EndScan` /
`MarkOffline` / `EndCheck` for one run of `run_check`, `StopMonitor`, `Tick`,
`Shutdown`, and `Restart`, which forgets everything and may happen at any time.
A check interval of zero (a timeout below two seconds) makes the task panic
when it starts.

### PolicyDistributor

*State.* `version[p]` counts the edits of a policy (`Deleted` when its row is
gone); `direct`, `member` and `grouped` are `agent_policies`,
`agent_group_membership` and `group_policies` as they concern one agent. A poll
is `pc` and its locals: `asked` (the hash in the request), `directIds` and
`groupIds` (the two parallel reads), `ids` (the union without repetitions),
`loaded` (what was read of each policy, table by table), `reply`. `recorded` is
the agent's `last_policy_hash` in the orchestrator and `cache` the bundle the
agent holds. `held` and `since` are history variables: the assignments that
stood during the whole of the poll, and the versions when it began.

*Steps.* `StartPoll`, `ReadDirect` and `ReadGroups` (in either order),
`ReadGroupPolicies`, one `LoadPart` per query of `get_policy_bundle` (the row of
the policy first, the rest in any order, nothing of a policy that is gone),
`Answer` (comparison, record and response, with no await between), `Deliver`.
`Fail` ends a poll at any point with an error or a lost reply; `Restart` also
forgets `recorded`. Between any two of them the administrator assigns,
unassigns, edits or deletes.

*Abstractions.* A bundle stands for its SHA-256: what was read of each of its
policies, and which policy comes before which. A version stands for the content
of a policy. The rows of a query without ORDER BY come in any order: policy ids
in any permutation, the rows inside an unordered table in one of two. The edits
of policies come from the web application, whose code is elsewhere; an edit is
taken to be one transaction. The agent, also elsewhere, keeps the bundle it is
sent and asks with its hash, as `complyx.proto` says. One agent is modelled:
polls of different agents only read the tables they share. A second poll of the
same agent that overlaps with the first is left out; the agent's first one is
taken to have been dropped.

### ResultIngester and ResultStore

*State.* `checks` and `assigned` are the policy checks that exist and the
elements the agent has; `results` its committed rows and `score` its row of
`compliance_scores` per element. A submission is `pc` and its locals: `sent`
(the batch), `valid` (the indices of the results that passed the validation so
far; the others are rejected), `todo` (those still to be inserted, the lowest
first), `mine` (the rows its transaction inserted), `computed` (what its UPSERT
computed). `crossed` is a history variable: the submissions that
overlapped with another one or with the deletion of a check.

*Steps.* `Submit` is the request up to its first read: the agent's id (`Deny`),
the time window and the syntax of every `check_id`. `Authorize` reads the
assigned checks; the ids it rejects come back in canonical spelling and are
compared as text (`validator.rs:116-122`), so a check written in another
spelling is kept although it is not assigned. `InsertRow` is one INSERT of the
transaction, `Commit` its end, `Snapshot` and `WriteScores` the one UPSERT
statement, `Evaluate` the risk trigger and the answer. `Fail` ends a submission
anywhere; an open transaction is rolled back, a committed one stays.

*PostgreSQL.* At READ COMMITTED a statement sees what was committed when it
began. An INSERT whose key an open transaction holds waits for its end
(`Waits`), a circle of waits is broken by failing one of its members
(`DeadlockVictim`), a row whose check is gone fails its transaction
(`ForeignKeyFails`), and a check with uncommitted rows cannot be deleted. An
UPSERT computes from its first snapshot even when it had to wait for the row it
overwrites: hence two actions.

*Refinement.* `ResultStore` is what the ingester promises: a batch appears as a
whole; one row per check and time, never changed; a stored row is counted by at
most one answer. `ResultIngester!StoreRefined` maps its `stored` to `results`
and its `unsettled` to the rows of the committed transactions not yet answered.

*Abstractions.* One agent: every row, key and score carries its id. The detail
and the values of a result are left out. The deletion of the agent is left out.
A check's policy is the assignment of its element.

### RiskTrigger

*State.* `risks` are the agent's rows in order of insertion. An evaluation is
`pc`, what is left of its `batch`, the `target` threat it looks at and the risk
it `found`. `settled` is a history variable: the risks that were not open when
the evaluation began.

*Steps.* `Consider` takes the next result and chooses the threat: a compliance
threat of the severity, or else the first compliance threat. `FindOpen` and
`InsertRisk` are the two statements of `maybe_create_risk`, `SeekOpen` and
`CloseRisk` those of `maybe_close_risk`, which goes through the compliance
threats until it finds an open risk. `Decide` is an administrator's change of a
status, through the `db` crate's own function.

*Abstractions.* A result carries the severity its check has in the map that the
trigger is given. The deployed `submit_results` gives it an empty map
(`agent_service.rs:135-137`), so there risks are only ever closed; the model
covers every caller of the trigger. The threats do not change.

### ServerLifecycle

*State.* The four files, each absent, torn, or with the identity of what it
holds: a CA, a server key, or for `server.crt` the pair of both. `pc` is the step
of the entry point, the operator or the server, `writing` whether the step's
file is open; `ca` the CA in memory; `listener`, `pending` and `stopping` the
two listeners and the signals on their way. `served` and `ended` are history.

*Steps.* A write is `Open`, which creates or empties the file, and a `Fill`
action; `Crash` may come between them. The entry point tests three files and
then two (`Check`), and generates what it believes is missing. `LoadOrCreate` and
`FillGenerated` are `ca.rs`, `BuildTls` is `grpc-pki`, which parses three of the
files and compares none. `HandleSignal` takes a listener from waiting for a
first signal to waiting for the second one. Without a container the operator
issues the server's certificate with the commands of the README
(`IssueByHand`), after a first start that generated the CA and failed.

*Abstractions.* File modes, the serial file and the CSR's temporary file are
left out, and so are signals before a listener has installed its handlers.
Keys are never drawn twice. A grace period before SIGKILL is long enough to
handle a pending signal, not to wait for another one.

## 3. Runs

| Run | Question | Result |
|---|---|---|
| `enrolment` | do the tables stay consistent under every interleaving and failure? | holds |
| `token_reuse` | is a token for a single use (README.md:299)? | violated: check and UPDATE are separate statements |
| `agent_per_peer` | is an id new unless it is a re-enrolment (`enroll.rs:34`)? | violated: every peer has the address 0.0.0.0 |
| `authentication` | does a call only get an enrolled identity, under its own name? | holds |
| `revoked_call` | is a revoked agent refused (README.md:311)? | violated: the stored serial is not the certificate's |
| `presence` | are punctual agents online, silent ones offline, does the monitor stop? | holds |
| `policies` | do torn reads, deletions and lost replies lose a policy or leave a stale one? | holds |
| `results` | does the ingester implement the store, and answer truthfully? | holds |
| `stale_scores` | are the scores those of the latest results (`scorer.rs:6-7`)? | violated: an older recalculation overwrites a newer one |
| `risks` | what do concurrent evaluations and administrators do to the risks? | holds |
| `lifecycle` | does the server come back from any crash, with the same CA and matching files? | holds, except for three torn writes |
| `unclean_stop` | does a requested stop end cleanly (`main.rs:107`)? | violated: both listeners wait for a second signal |

*Properties of the passing runs.*

- `EffectsNeedToken`: an enrolment that touched `agents` or `agent_certs` has
  spent its token, whatever happened to it since.
- `CertProvenance`: every certificate row belongs to an existing agent that its
  own enrolment registered, in spite of deletions between upsert and store.
- `SpentTokenStaysSpent`: the exact extent of single use. Once a token is used
  or expired *and* no request is between its check and its UPDATE, it is never
  consumed again; `token_reuse` shows that the second condition is needed.
- `RevocationClearedByEnrolment`: what can undo a revocation. The server takes a
  certificate for revoked only while its serial has a row that says so
  (`certs.rs:75-85`): a missing row counts as not revoked. The row is lost with
  the agent, or to the first store of another enrolment that registered the
  same agent and spent a token, and to nothing else; in particular not to the
  enrolment of the revoked certificate itself. It does not say that a revocation
  lasts: after the second case the earlier certificate is good again.
- `DisabledUntilEnabled`: re-enrolling does not re-enable a disabled agent.
- `AcceptedIsEnrolled`: the identity of an accepted call was registered by an
  enrolment that spent a token, under the name in the certificate.
- `PunctualNeverOffline`: from any moment at which an agent is not offline and
  not in the monitor's snapshot, it is not marked as long as its age does not
  exceed the timeout. The snapshot cannot be left out: `mark_offline` does not
  look at `last_seen` again, so an agent that was late at the scan is marked
  although it has made contact since.
- `HeldPoliciesDelivered`: a policy that one and the same assignment gives the
  agent during the whole of a poll is in the bundle, and nothing in the bundle
  is older than the poll. A policy that moves from one route to another during
  the poll may be missed, and the tables of one policy may be of different
  versions: this is the most that holds of a single poll.
- `AgentCatchesUp`: once the edits stop, the agent ends up with exactly the
  assigned policies, whole and current, in whatever order, whatever its earlier polls got wrong.
  It holds because the agent's own hash is compared, not `recorded`: with the
  comparison against `recorded` (a mutant) a lost reply is never made good.
- `SilentGoesOffline`, `ShutdownStopsMonitor`: liveness, see below. The first
  one needs a timeout of two seconds or more: below that the check interval is
  zero and the monitor panics at start (`di.rs:79`), although the configuration
  accepts it.
- `StoreRefined`: the refinement above. The hard part is a row of two
  overlapping transactions: exactly one of them counts it.
- `AnsweredIsStored`: what an answer without error acknowledged is in the
  store, even if another transaction held its key and might have rolled back.
- `LoneSubmissionScores`: a submission alone in time leaves the scores up to
  date even if it stores nothing, as the retry of one that failed between its
  commit and its scores. With company it may not: `stale_scores`.
- `EverySubmissionAnswered`: waits and deadlocks end.
- `OpenBounded`: a threat never has more open risks than evaluations run at
  once. With one there are no duplicates; with two there can be two, since
  nothing but the read before the insert prevents them.
- `DecisionsStand`: what an administrator decided before an evaluation began is
  never overwritten by it. A decision in the middle of one can be, since the
  UPDATE that closes does not look at the status.
- `RisksClear`: if the agent goes on sending batches in which all passes and
  stops sending failures, every open risk is closed, duplicates and risks of any compliance
  threat included.
- `ServedMaterialMatches`: a server that serves signs with the key of the CA it
  verifies against, and its own certificate is of that CA and of the key it
  holds, although nobody compares them.
- `CaIsKept`: all the server's lives that served had the same CA, so that the
  agents' certificates stay valid.
- `ServesUnlessWedged`: when faults and stops are over the server serves, unless
  a crash tore one of three writes whose file passes for a good one at the next
  start (`Wedged`); from those no restart leads out. To serve means here that
  the process has come as far as its listeners: a server of which one listener
  failed to bind or is down counts too, since `join!` waits for the other one
  (`main.rs:103`) and nothing starts the first again.

Some further sentences of the documents were found not to hold and are not runs
of their own; the properties above say what holds instead.

- An enrolment that fails after its first step leaves its token spent, while
  `enroll.rs:3-4` speaks of one logical transaction. What it did was paid for
  (`EffectsNeedToken`).
- A revoked certificate is good again once another enrolment under the same
  agent id has replaced its row (`certs.rs:41-45`, `84`), while README.md:304-305
  revokes it so that it cannot connect. And a revocation between its two
  statements revokes whatever certificate is there at the second.
- An agent that was late at the scan and makes contact before the marking is
  offline although it is not late, which `heartbeat.rs:150` says it must not be.
- Policies, and the sections of a check, are read without ORDER BY, so an
  unchanged bundle can hash differently and be sent again (`complyx.proto:5-6`).
  The agent still ends with the assigned policies (`AgentCatchesUp`).
- The orchestrator records the hash of a bundle before it is delivered, so it
  need not be the agent's (`state.rs:133`); nothing reads it.

*Bounds.* `Enrollment` has two tokens and three requests: two to race on a
token and a third that comes later, with another token or the same. Two agent
ids are enough for one row to be deleted and inserted again. Four messages: the
same token from two endpoints, another token, and a CSR that does not parse.
Requests and ids are symmetric. `AgentAuth` has two requests and one call
(calls only read, so they do not interact), and a CSR whose subject differs
from its request's hostname. `Orchestrator` has two agents, so that one is read
while the other makes contact, and a timeout of four seconds, so that the
interval has a phase of its own. `PolicyDistributor.cfg` has two policies (for
their order, and one to miss while the other is read), a direct route and a
group, two edits, enough to move a policy from one route to the other in the
middle of a poll, and one fault. One of the policies has two rows that come in
either order.
`ResultIngester` has two submissions, of four batches: two that hold the same
two keys in opposite orders and disagree on a value (to wait, to deadlock and
to conflict), one that is newer and partly malformed, one in another spelling;
two checks in two elements; a window of one tick around a clock of three values,
so that a batch can be late, early and in time; one edit and one fault.
`RiskTrigger` has two evaluations, three threats (two of compliance, one of them
with a score of its own), three batches that mix failing and passing results,
at most three evaluations of batches that can create a risk, one decision and
one fault. `ServerLifecycle` has three faults, enough to tear one file, fail a
restart and tear another; two stops and two interrupts; three CAs, so that
one is always left to draw. Its second run has no fault at all.
Deadlock checking is off for `Enrollment`, `AgentAuth` and `ResultIngester`,
whose requests are made once each, so that when all have ended the system
really has nothing to do, and for `ServerLifecycle`, where a server that
listens waits for signals. The other modules never stop.

*Fairness.* Safety is checked without any. `Orchestrator` assumes weak fairness
of `Tick` (time passes) and of the monitor's own steps (the runtime runs a ready
task), and strong fairness of `StopMonitor`: `select!` polls its two branches in
random order, so the stop notification, ready at every iteration once sent,
cannot lose to the tick for ever. Nothing is assumed of handlers: agents may be
silent. `PolicyDistributor` assumes weak fairness of `PollStep`: the agent polls
for ever, as its heartbeat interval makes it do, and each query returns. Edits
and faults are owed nothing and are finitely many by their bounds, which is the
hypothesis "once the edits stop" of `AgentCatchesUp`. `ResultIngester` assumes
weak fairness of a submission's statements: the runtime polls the handler, and
PostgreSQL ends every statement and breaks every deadlock. `RiskTrigger` assumes
the same of its evaluations and, for `RisksClear`, that the agent keeps sending
batches that pass. `ServerLifecycle` assumes that what runs goes on, that
the supervisor or an operator starts a server that ended (the code leaves this to
Docker or systemd) and kills one that does not stop, and that without a container the
operator, who can act only while the server is down between two attempts to
start, issues the certificate some time: strong fairness.

*Mutants.* The definitions marked `Fault:` are forms of an action with a
plausible mistake; every property of a passing run is violated when one of them
replaces the action.

## 4. Proofs

Every safety property of a passing run is a theorem of its module's
specification, for any number of tokens, requests, agents, policies, groups,
submissions, batches, threats and faults, any timeout and any window of time.
The named assumptions on the constants say that messages, batches and threats
are well-formed, that `None`, `Unchanged` and `Malformed` are nothing else, that
bounds and timeouts are natural, and that three sets are finite: the evaluations
at once (`OpenBounded` counts them), the checks (a score counts them) and the
policies (a query lists them).

| Theorem | Argument |
|---|---|
| `EnrollmentProofs!TypeCorrect` | inductive as it stands, with the facts that a request has a message once it arrived and an agent once registered |
| `EffectsNeedTokenHolds`, `CertProvenanceHolds` | inductive invariant `TypeOK /\ SpendingInv /\ RowInv`. The properties alone are not inductive: a request past its UPDATE must be known to be in the history (`SpendingInv`), and the owner of a row must be past its store (`RowInv`), or its next upsert could change the agent under the row |
| `SpentTokenStaysSpentHolds` | action property, step by step from `TypeOK` |
| `RevocationClearedByEnrolmentHolds` | action property, from `TypeOK`, `SpendingInv` (who stores a certificate has spent a token) and `RowInv` (the row is that of its owner's agent, and its owner is past its store, so that it is not the one who stores) |
| `DisabledUntilEnabledHolds` | `UpsertOutcome`: the conflict branch of the upsert keeps `enabled`, and the insert branch takes an id that has no row, so that no enrolment turns a disabled agent on. With it, `AgentInv`: a request holds an agent id only from its upsert on, and every row of `agents` bears the host name of a request that registered it |
| `AgentAuthProofs!CallsOnlyRead` | `AuthSpec => Spec`: a call changes none of the tables, so the theorems of `EnrollmentProofs` hold under calls |
| `AuthTypeCorrect`, `AcceptedIsEnrolledHolds` | `CallInv`: the certificate of a call belongs to an enrolment that was answered, which stays so; that one spent a token by `SpendingInv`, and the rows the verdict reads are those `AgentInv` describes |
| `OrchestratorProofs!TypeCorrect` | inductive, with what the monitor's two lists may contain in each of its states |
| `PunctualNeverOfflineHolds` | `Presumed(a)`: the agent is not offline *and not in the snapshot*. The second half is what makes it inductive, since `MarkOffline` looks at no age; it is preserved by every step from a state in which the agent is not overdue |
| `RiskTriggerProofs!TypeCorrect` | inductive: an evaluation at a threat has a result in hand, and what it is about to close is a risk of that threat |
| `PolicyDistributorProofs!TypeCorrect` | needs `EditInv` (no policy was edited more often than there were edits), and that the union without repetitions lists each policy once (`OrdersProperties`, `ChainProperties`) |
| `HeldPoliciesDeliveredHolds` | `RouteInv`: a route that has stood since the poll began stands now, and is in each of the reads made so far. It needs `AssignedInv` (what is assigned exists, so the row of a held policy is found) and `FreshInv` (nothing read is left from an earlier poll). `AgeInv`: no version read is below the one at the start, since only a deletion takes a version back |
| `ResultIngesterProofs!TypeCorrect` | inductive together with `ProgressInv`, by which nothing is listed or held for a submission before its transaction |
| `AnsweredIsStoredHolds` | `StoredInv`: what a submission is done with is in the store *or in its own transaction*, and after the commit in the store. `HeldInv` says why an INSERT that does not wait is right to skip or to insert: the keys of an open transaction are neither stored nor held by another one, and their checks exist |
| `StoreRefinedHolds` | every step is a step of `ResultStore` or a stutter: `Commit` is `Store` (by `HeldInv` its keys are new), the end of a committed submission is `Settle`, `DeleteCheck` is `Forget` |
| `ResultStoreProofs` (`UniqueRowsHolds`, `RowsStayHolds`, `CountedOnceHolds`) | what the abstract store promises, from its three actions |
| `RowsAreKept` | the same promises of `check_results`, carried over by the refinement: one row per check and time, never changed, counted by its own submission only |
| `LoneSubmissionScoresHolds` | `LoneInv`: a submission outside `crossed` is the only one running, so what it computed from its snapshot is still the score when it writes |
| `ServerLifecycleProofs!TypeCorrect` | inductive, with the file and the step that belong to each `pc` |
| `ServedMaterialMatchesHolds`, `CaIsKeptHolds` | `FileInv`, in five parts: which way of starting the server is on (`RouteInv`), in which order the files come to exist (`OrderInv`), which file is torn (`WriteInv`), whose certificate `server.crt` is (`CertInv`), and what was loaded of the files so far (`LoadInv`). The code compares none of the files it loads; they match because each is written only when the one it depends on is whole |
| `OpenBoundedHolds` | `BoundInv`: the open risks of a threat *and the evaluations about to insert one* are together at most the evaluations. The bound alone is not inductive, since the INSERT looks at nothing. The read sends an evaluation to the INSERT only when no risk is open, so that all there is to count is evaluations; the INSERT turns one into a risk |
| `DecisionsStandHolds` | `SettledInv`: what was decided when an evaluation began is still decided, and is not what the evaluation has found; it needs that no step opens a risk again |

Only model-checked: liveness under fairness, which is out of the prover's reach
(`SilentGoesOffline`, `ShutdownStopsMonitor`, `AgentCatchesUp`,
`EverySubmissionAnswered`, `RisksClear`, `ServesUnlessWedged`). Lists are modelled
in a way that can be reasoned about: a filtered batch is the set of the indices
that are left, a bundle the set of its policies with their order, since what a
recursive filter of sequences returns needs induction over data.

## 5. Plan

1. *(done)* `Enrollment`, `AgentAuth`, `Orchestrator`, and the proofs above.
2. *(done)* `PolicyDistributor`.
3. *(done)* `ResultStore`, `ResultIngester`, `RiskTrigger`, `ServerLifecycle`.
4. *(done)* The proofs about `RiskTrigger`.
5. *(done)* The proofs about `ResultIngester` and its refinement, `ServerLifecycle`,
   `AgentAuth` and `PolicyDistributor`: all safety properties are theorems.
6. Stronger statements about what the documents promise and the code keeps only
   in part: how many enrolments one token can let through, what a bundle can mix
   when policies are edited during a poll.

## 6. Not modelled

- TLS handshakes and certificate parsing (libraries), hashing, message
  encoding, logging, the pool's set-up.
- The pool of ten connections: no handler holds one while it asks for another,
  so it only delays.
- `latest_connection` (written, never read, its failure ignored) and the groups'
  own rows.
- The choice of a command by its name. It has no interleavings, but one thing
  to know: the documents and the usage text say `revoke-agent`
  (README.md:308), the code knows `revoke-token` (`main.rs:30`), and any
  unknown word starts the server.
- A second server on the same database, and polls of one agent that overlap.
- The web application and the agent, whose code is elsewhere: they appear as
  environment actions (marked external in `PROJECT.json`).
