--------------------------- MODULE ResultIngester ---------------------------
(***************************************************************************)
(* The SubmitResults RPC (crates/grpc-service/agent_service.rs) and the    *)
(* ingestion behind it: validation, one transaction that inserts the batch *)
(* and the recalculation of the scores (crates/result-ingester,            *)
(* crates/db/results.rs).                                                  *)
(*                                                                         *)
(* One agent is enough: every row, unique key and score carries the        *)
(* agent's id.  PostgreSQL runs at READ COMMITTED: a statement sees what   *)
(* was committed when it began, and an INSERT waits for an open            *)
(* transaction that holds the same key.                                    *)
(***************************************************************************)
EXTENDS Integers, FiniteSets, Sequences

CONSTANTS
    Requests,       \* submissions, repeated ones included
    Checks,
    Elements,       \* policy elements
    ElementOf,      \* the element of each check
    Batches,        \* sequences of results an agent may send
    MaxPast, MaxFuture,     \* TimestampBounds: 24 h and 60 s in the code
    MaxNow,         \* bound: clock
    MaxEdits,       \* bound: administrator's steps
    MaxFaults,      \* bound: failed or abandoned requests
    Malformed,      \* a check_id that is not a UUID
    None

Message == [check : Checks \cup {Malformed}, canonical : BOOLEAN, at : Int, passed : BOOLEAN]

Answer == [code : {"ok", "internal", "permission_denied"}, accepted : BOOLEAN,
           counted : Nat, rejected : Nat]

ASSUME ElementAssumption == ElementOf \in [Checks -> Elements]
ASSUME BatchAssumption == Batches \subseteq Seq(Message)
ASSUME BoundsAssumption ==
    /\ MaxPast \in Nat /\ MaxFuture \in Nat
    /\ MaxNow \in Nat /\ MaxEdits \in Nat /\ MaxFaults \in Nat
ASSUME SentinelAssumption == Malformed \notin Checks /\ None \notin Answer
ASSUME FiniteAssumption == IsFiniteSet(Checks)

VARIABLES
    checks,         \* policy_checks that exist
    assigned,       \* elements of the policies the agent has, directly or by group
    results,        \* check_results of the agent, committed
    score,          \* compliance_scores of the agent
    now, edits, faults,
    pc,             \* how far each request is
    sent,           \* its batch
    valid,          \* indices of the results that passed the validation so far
    todo,           \* those of them that are still to be inserted
    mine,           \* the rows its transaction inserted, until the answer
    computed,       \* the scores its recalculation computed from its snapshot
    reply,
    crossed         \* history: requests that were not alone from start to end

tableVars == <<checks, assigned, results, score>>
clockVars == <<now, edits, faults>>
requestVars == <<pc, sent, valid, todo, mine, computed, reply>>
vars == <<tableVars, clockVars, requestVars, crossed>>

Key(row) == <<row.check, row.at>>
Keys(rows) == {Key(row) : row \in rows}

Open == {"inserting"}                           \* its transaction is open
Stored == {"scoring", "writing", "evaluating"}  \* its transaction committed
Active == {"authorizing"} \cup Open \cup Stored
Running == {r \in Requests : pc[r] \in Active}

RowOf(m) == [check |-> m.check, at |-> m.at, passed |-> m.passed]
Rows(r, indices) == {RowOf(sent[r][i]) : i \in indices}
Rejected(r) == Len(sent[r]) - Cardinality(valid[r])

(* What the UPSERT computes for an element: its checks, and those of which *)
(* the result executed last passed.  Nothing for an element with no checks.*)
LatestPassed(c) ==
    \E row \in results :
        /\ row.check = c /\ row.passed
        /\ \A other \in results : other.check = c => other.at <= row.at

ScoreOf(e) ==
    LET own == {c \in checks : ElementOf[c] = e}
    IN  IF own = {} THEN None
        ELSE [total |-> Cardinality(own), passed |-> Cardinality({c \in own : LatestPassed(c)})]

NoScores == [e \in Elements |-> None]
ScoreRow == [total : 1..Cardinality(Checks), passed : 0..Cardinality(Checks)] \cup {None}
Error(code) == [code |-> code, accepted |-> FALSE, counted |-> 0, rejected |-> 0]

RequestOK(r) ==
    /\ todo[r] \subseteq valid[r] /\ valid[r] \subseteq DOMAIN sent[r]
    /\ mine[r] # {} => pc[r] \in Open \cup Stored
    /\ mine[r] \subseteq Rows(r, valid[r] \ todo[r])
    /\ reply[r] # None <=> pc[r] = "answered"

TypeOK ==
    /\ checks \subseteq Checks /\ assigned \subseteq Elements
    /\ results \subseteq [check : checks, at : Int, passed : BOOLEAN]
    /\ score \in [Elements -> ScoreRow]
    /\ now \in 0..MaxNow /\ edits \in 0..MaxEdits /\ faults \in 0..MaxFaults
    /\ pc \in [Requests -> Active \cup {"idle", "answered"}]
    /\ sent \in [Requests -> Seq(Message)]
    /\ computed \in [Requests -> [Elements -> ScoreRow]]
    /\ valid \in [Requests -> SUBSET Nat] /\ todo \in [Requests -> SUBSET Nat]
    /\ mine \in [Requests -> SUBSET [check : Checks, at : Int, passed : BOOLEAN]]
    /\ reply \in [Requests -> Answer \cup {None}]
    /\ \A r \in Requests : RequestOK(r)
    /\ crossed \subseteq Requests

Init ==
    /\ checks = Checks /\ assigned \in SUBSET Elements
    /\ results = {} /\ score = NoScores
    /\ now = 0 /\ edits = 0 /\ faults = 0
    /\ pc = [r \in Requests |-> "idle"]
    /\ sent = [r \in Requests |-> <<>>]
    /\ valid = [r \in Requests |-> {}] /\ todo = [r \in Requests |-> {}]
    /\ mine = [r \in Requests |-> {}]
    /\ computed = [r \in Requests |-> NoScores]
    /\ reply = [r \in Requests |-> None]
    /\ crossed = {}

-----------------------------------------------------------------------------
(* The request as far as its first read: no await lies between these steps.*)

(* Fault: the transaction of a request that failed stays open.             *)
FinishOpen(r, answer) ==
    /\ pc' = [pc EXCEPT ![r] = "answered"]
    /\ reply' = [reply EXCEPT ![r] = answer]
    /\ UNCHANGED mine
    /\ computed' = [computed EXCEPT ![r] = NoScores]

(* The end of a request.  Its transaction, if still open, is rolled back.  *)
Finish(r, answer) ==
    /\ pc' = [pc EXCEPT ![r] = "answered"]
    /\ reply' = [reply EXCEPT ![r] = answer]
    /\ mine' = [mine EXCEPT ![r] = {}]
    /\ computed' = [computed EXCEPT ![r] = NoScores]

(* submit_results: accepted = summary.accepted > 0 || summary.rejected == 0*)
Summary(r, refused) ==
    [code |-> "ok", accepted |-> mine[r] # {} \/ refused = 0,
     counted |-> Cardinality(mine[r]), rejected |-> refused]

Meet(r) ==
    crossed' = IF Running = {} THEN crossed ELSE crossed \cup Running \cup {r}

InTime(m) == now - MaxPast <= m.at /\ m.at <= now + MaxFuture

Submit(r, batch) ==
    LET candidates == {i \in DOMAIN batch : InTime(batch[i]) /\ batch[i].check # Malformed}
    IN
    /\ pc[r] = "idle"
    /\ sent' = [sent EXCEPT ![r] = batch]
    /\ valid' = [valid EXCEPT ![r] = candidates]
    /\ Meet(r)
    /\ IF candidates = {}
       THEN Finish(r, Summary(r, Len(batch)))
       ELSE pc' = [pc EXCEPT ![r] = "authorizing"] /\ UNCHANGED <<mine, computed, reply>>
    /\ UNCHANGED <<tableVars, clockVars, todo>>

(* The agent_id of the message is another agent's.                         *)
Deny(r) ==
    /\ pc[r] = "idle"
    /\ Finish(r, Error("permission_denied"))
    /\ UNCHANGED <<tableVars, clockVars, sent, valid, todo, crossed>>

-----------------------------------------------------------------------------
(* One action per statement of the database.                               *)

(* The ids that are not assigned come back in canonical spelling and are   *)
(* compared with the text of each result.                                  *)
Authorize(r) ==
    LET allowed == {c \in checks : ElementOf[c] \in assigned}
        kept == {i \in valid[r] : sent[r][i].check \in allowed \/ ~sent[r][i].canonical}
    IN
    /\ pc[r] = "authorizing"
    /\ valid' = [valid EXCEPT ![r] = kept]
    /\ IF kept = {}
       THEN Finish(r, Summary(r, Len(sent[r]))) /\ UNCHANGED todo
       ELSE /\ pc' = [pc EXCEPT ![r] = "inserting"] /\ todo' = [todo EXCEPT ![r] = kept]
            /\ UNCHANGED <<mine, computed, reply>>
    /\ UNCHANGED <<tableVars, clockVars, sent, crossed>>

(* The rows are inserted in the order of the batch.                        *)
IsNext(r, i) == pc[r] = "inserting" /\ i \in todo[r] /\ \A j \in todo[r] : i <= j

(* r waits for the transaction of q, which inserted the key r is about to. *)
WaitsFor(r, q) ==
    /\ q # r /\ pc[q] \in Open
    /\ \E i \in valid[r] : IsNext(r, i) /\ Key(RowOf(sent[r][i])) \in Keys(mine[q])
Waits(r) == \E q \in Requests : WaitsFor(r, q)

InsertTo(r, i, stored) ==
    LET row == RowOf(sent[r][i])
    IN
    /\ row.check \in checks
    /\ mine' = [mine EXCEPT ![r] = IF Key(row) \in Keys(stored) THEN @ ELSE @ \cup {row}]
    /\ todo' = [todo EXCEPT ![r] = @ \ {i}]
    /\ UNCHANGED <<tableVars, clockVars, pc, sent, valid, computed, reply, crossed>>

(* Fault: a row that another open transaction holds is skipped as if it    *)
(* were stored.                                                            *)
InsertRowSkipsHeld(r) ==
    \E i \in valid[r] :
        /\ IsNext(r, i)
        /\ InsertTo(r, i, results \cup UNION {mine[q] : q \in {p \in Requests : pc[p] \in Open}})

(* ON CONFLICT DO NOTHING keeps the row that is there, the agent's own     *)
(* uncommitted one included.                                               *)
InsertRow(r) ==
    \E i \in valid[r] :
        /\ IsNext(r, i) /\ ~Waits(r)
        /\ InsertTo(r, i, results \cup mine[r])

(* The check is gone: the foreign key refuses the row and the transaction  *)
(* is rolled back.                                                         *)
ForeignKeyFails(r) ==
    /\ \E i \in valid[r] : IsNext(r, i) /\ sent[r][i].check \notin checks
    /\ Finish(r, Error("internal"))
    /\ UNCHANGED <<tableVars, clockVars, sent, valid, todo, crossed>>

(* Requests that wait for each other in a circle: PostgreSQL fails one.    *)
Deadlocked(r) ==
    \E circle \in SUBSET Requests :
        /\ r \in circle
        /\ \A q \in circle :
             /\ \E p \in circle : WaitsFor(q, p)
             /\ \E p \in circle : WaitsFor(p, q)

(* Fault: the victim's handler starts its transaction again, at once.      *)
DeadlockVictimRetries(r) ==
    /\ Deadlocked(r)
    /\ mine' = [mine EXCEPT ![r] = {}]
    /\ todo' = [todo EXCEPT ![r] = valid[r]]
    /\ UNCHANGED <<tableVars, clockVars, pc, sent, valid, computed, reply, crossed>>

DeadlockVictim(r) ==
    /\ Deadlocked(r)
    /\ Finish(r, Error("internal"))
    /\ UNCHANGED <<tableVars, clockVars, sent, valid, todo, crossed>>

(* Fault: nothing new was stored, so the scores are taken to be current.   *)
CommitSkipsScores(r) ==
    /\ pc[r] = "inserting" /\ todo[r] = {}
    /\ results' = results \cup mine[r]
    /\ pc' = [pc EXCEPT ![r] = IF mine[r] = {} THEN "evaluating" ELSE "scoring"]
    /\ UNCHANGED <<checks, assigned, score, clockVars, sent, valid, todo, mine,
                   computed, reply, crossed>>

(* Fault: the answer counts the whole batch, rows already stored included. *)
CommitCountsAll(r) ==
    /\ pc[r] = "inserting" /\ todo[r] = {}
    /\ results' = results \cup mine[r]
    /\ mine' = [mine EXCEPT ![r] = Rows(r, valid[r])]
    /\ pc' = [pc EXCEPT ![r] = "scoring"]
    /\ UNCHANGED <<checks, assigned, score, clockVars, sent, valid, todo, computed,
                   reply, crossed>>

Commit(r) ==
    /\ pc[r] = "inserting" /\ todo[r] = {}
    /\ results' = results \cup mine[r]
    /\ pc' = [pc EXCEPT ![r] = "scoring"]
    /\ UNCHANGED <<checks, assigned, score, clockVars, sent, valid, todo, mine,
                   computed, reply, crossed>>

(* The UPSERT of the scores takes its snapshot when it starts ...          *)
Snapshot(r) ==
    /\ pc[r] = "scoring"
    /\ computed' = [computed EXCEPT ![r] = [e \in Elements |-> ScoreOf(e)]]
    /\ pc' = [pc EXCEPT ![r] = "writing"]
    /\ UNCHANGED <<tableVars, clockVars, sent, valid, todo, mine, reply, crossed>>

(* ... and overwrites whatever it finds when it gets to write.             *)
WriteScores(r) ==
    /\ pc[r] = "writing"
    /\ score' = [e \in Elements |-> IF computed[r][e] = None THEN score[e] ELSE computed[r][e]]
    /\ pc' = [pc EXCEPT ![r] = "evaluating"]
    /\ UNCHANGED <<checks, assigned, results, clockVars, sent, valid, todo, mine,
                   computed, reply, crossed>>

(* The risk trigger (module RiskTrigger) touches none of these tables.     *)
Evaluate(r) ==
    /\ pc[r] = "evaluating"
    /\ Finish(r, Summary(r, Rejected(r)))
    /\ UNCHANGED <<tableVars, clockVars, sent, valid, todo, crossed>>

(* A statement fails, the connection to the database or to the agent is    *)
(* lost, or the server stops: the handler is dropped where it is.          *)
Fail(r) ==
    /\ pc[r] \in Active /\ faults < MaxFaults
    /\ faults' = faults + 1
    /\ Finish(r, Error("internal"))
    /\ UNCHANGED <<tableVars, now, edits, sent, valid, todo, crossed>>

-----------------------------------------------------------------------------
Tick ==
    /\ now < MaxNow
    /\ now' = now + 1
    /\ UNCHANGED <<tableVars, edits, faults, requestVars, crossed>>

(* The policy of the element is assigned to the agent or taken from it.    *)
Reassign(e) ==
    /\ edits < MaxEdits
    /\ edits' = edits + 1
    /\ assigned' = IF e \in assigned THEN assigned \ {e} ELSE assigned \cup {e}
    /\ UNCHANGED <<checks, results, score, now, faults, requestVars, crossed>>

(* A check is deleted, its results with it (ON DELETE CASCADE), once no    *)
(* open transaction holds a row of it.                                     *)
DeleteCheck(c) ==
    /\ edits < MaxEdits /\ c \in checks
    /\ \A r \in Requests : pc[r] \in Open => \A row \in mine[r] : row.check # c
    /\ edits' = edits + 1
    /\ checks' = checks \ {c}
    /\ results' = {row \in results : row.check # c}
    /\ crossed' = crossed \cup Running
    /\ UNCHANGED <<assigned, score, now, faults, requestVars>>

Statement(r) ==
    \/ Authorize(r) \/ InsertRow(r) \/ ForeignKeyFails(r) \/ DeadlockVictim(r)
    \/ Commit(r) \/ Snapshot(r) \/ WriteScores(r) \/ Evaluate(r)

Next ==
    \/ \E r \in Requests :
         \/ \E batch \in Batches : Submit(r, batch)
         \/ Deny(r) \/ Statement(r) \/ Fail(r)
    \/ Tick
    \/ \E e \in Elements : Reassign(e)
    \/ \E c \in Checks : DeleteCheck(c)

Spec == Init /\ [][Next]_vars

(* A handler runs until it returns: the runtime polls it and PostgreSQL    *)
(* ends every statement and breaks every deadlock.                         *)
FairSpec == Spec /\ \A r \in Requests : WF_vars(Statement(r))

-----------------------------------------------------------------------------
(* The ingester implements the abstract store (results.rs:50-110): the     *)
(* rows of a committed transaction wait for the answer that counts them.   *)
AbstractStore ==
    INSTANCE ResultStore WITH
        Times <- Int,
        stored <- results,
        unsettled <- UNION {mine[r] : r \in {q \in Requests : pc[q] \in Stored}}

StoreRefined == AbstractStore!Spec

Done(r) == pc[r] = "answered" /\ reply[r].code = "ok"

(* An answer other than an error means that every result that passed the   *)
(* validation has its row in the store, stored by this request or by       *)
(* another one, unless its check was deleted (ingest.rs:107-126).          *)
AnsweredIsStored ==
    \A r \in Requests : Done(r) =>
        \A i \in valid[r] :
            sent[r][i].check \in checks => Key(sent[r][i]) \in Keys(results)

(* A submission that stores nothing new, a retry after a failure between   *)
(* the commit and the scores for one, still brings the scores up to date   *)
(* if no other one ran meanwhile (ingest.rs:134-136).                      *)
LoneSubmissionScores ==
    [][\A r \in Requests \ crossed :
         Evaluate(r) => \A e \in Elements : ScoreOf(e) \in {score[e], None}]_vars

(* Every submission is answered, those that deadlock included              *)
(* (results.rs:63-100).                                                    *)
EverySubmissionAnswered ==
    \A r \in Requests : pc[r] \in Active ~> pc[r] = "answered"

(* scorer.rs:6-7: the score uses "siempre el resultado mas reciente de     *)
(* cada check".  When no submission is under way and none has failed, the  *)
(* scores are those of the stored results.                                 *)
ScoresOfLatestResults ==
    (Running = {} /\ checks = Checks /\ \A r \in Requests : pc[r] = "answered" => Done(r))
        => results = {} \/ \A e \in Elements : score[e] = ScoreOf(e)
=============================================================================
