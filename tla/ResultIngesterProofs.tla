------------------------ MODULE ResultIngesterProofs ------------------------
(***************************************************************************)
(* Proofs about module ResultIngester, for any number of submissions, any  *)
(* batches, checks and times: it implements module ResultStore, and what   *)
(* it acknowledges is stored.                                              *)
(***************************************************************************)
EXTENDS ResultIngester, FiniteSetTheorems, SequenceTheorems, TLAPS

(* A request's own progress: nothing is listed or held for it before its   *)
(* transaction.                                                            *)
ProgressInv ==
    \A r \in Requests :
        /\ IsFiniteSet(mine[r])
        /\ pc[r] \in {"idle", "authorizing"} => todo[r] = {} /\ mine[r] = {}
        /\ pc[r] \in Stored => todo[r] = {}

(* The rows of an open transaction: their checks exist, as the foreign key *)
(* locks them, and their keys are neither stored nor held by another one.  *)
HeldInv ==
    \A r \in Requests : pc[r] \in Open =>
        /\ \A row \in mine[r] : row.check \in checks
        /\ Keys(mine[r]) \cap Keys(results) = {}
        /\ \A x, y \in mine[r] : Key(x) = Key(y) => x = y
        /\ \A q \in Requests \ {r} : pc[q] \in Open => Keys(mine[r]) \cap Keys(mine[q]) = {}

(* What a request is done with is in the store or in its own transaction.  *)
DoneWith(r, indices, rows) ==
    \A i \in indices : sent[r][i].check \in checks => Key(sent[r][i]) \in Keys(rows)

StoredOK(r) ==
    /\ pc[r] \in Open => DoneWith(r, valid[r] \ todo[r], results \cup mine[r])
    /\ pc[r] \in Stored \/ Done(r) => DoneWith(r, valid[r], results)

StoredInv == \A r \in Requests : StoredOK(r)

(* A submission alone since it started works on scores nobody else moves.  *)
LoneInv ==
    \A r \in Requests \ crossed : pc[r] \in Active =>
        /\ Running = {r}
        /\ pc[r] = "writing" => \A e \in Elements : computed[r][e] = ScoreOf(e)
        /\ pc[r] = "evaluating" => \A e \in Elements : ScoreOf(e) \in {score[e], None}

IngestInv == TypeOK /\ ProgressInv /\ HeldInv /\ StoredInv

(* A result of a batch becomes a row with its own key.                     *)
LEMMA RowsOfResults ==
  ASSUME TypeOK, NEW r \in Requests, NEW i \in DOMAIN sent[r]
  PROVE  /\ sent[r][i] \in Message
         /\ RowOf(sent[r][i]).check = sent[r][i].check
         /\ Key(RowOf(sent[r][i])) = Key(sent[r][i])
         /\ RowOf(sent[r][i]) \in [check : Checks \cup {Malformed}, at : Int, passed : BOOLEAN]
<1>1. sent[r] \in Seq(Message)
  BY DEF TypeOK
<1>2. sent[r][i] \in Message
  BY <1>1, LenProperties
<1> QED
  BY <1>2 DEF Message, RowOf, Key

(* Scores are well-formed whatever is stored.                              *)
LEMMA ScoreType ==
  ASSUME checks \subseteq Checks, NEW e \in Elements
  PROVE  ScoreOf(e) \in ScoreRow
<1> DEFINE own == {c \in checks : ElementOf[c] = e}
           good == {c \in own : LatestPassed(c)}
<1>1. own \in SUBSET Checks /\ good \in SUBSET Checks
  OBVIOUS
<1>2. /\ IsFiniteSet(own) /\ Cardinality(own) \in Nat /\ Cardinality(own) <= Cardinality(Checks)
      /\ Cardinality(good) \in Nat /\ Cardinality(good) <= Cardinality(Checks)
      /\ Cardinality(Checks) \in Nat
  BY <1>1, FiniteAssumption, FS_Subset, FS_CardinalityType
<1>3. own # {} => Cardinality(own) # 0
  BY <1>2, FS_EmptySet
<1>4. ScoreOf(e) = IF own = {} THEN None
                   ELSE [total |-> Cardinality(own), passed |-> Cardinality(good)]
  BY DEF ScoreOf
<1> HIDE DEF own, good
<1>5. CASE own = {}
  BY <1>4, <1>5 DEF ScoreRow
<1>6. CASE own # {}
  <2>1. Cardinality(own) \in 1..Cardinality(Checks) /\ Cardinality(good) \in 0..Cardinality(Checks)
    BY <1>2, <1>3, <1>6
  <2> QED
    BY <1>4, <1>6, <2>1 DEF ScoreRow
<1> QED
  BY <1>5, <1>6

(* Answers are well-formed: no more results are kept than were sent.       *)
LEMMA AnswerTypes ==
  ASSUME TypeOK, ProgressInv, NEW r \in Requests
  PROVE  /\ \A refused \in Nat : Summary(r, refused) \in Answer
         /\ Rejected(r) \in Nat
         /\ \A code \in {"internal", "permission_denied"} : Error(code) \in Answer
<1>1. Cardinality(mine[r]) \in Nat
  BY FS_CardinalityType DEF ProgressInv
<1>2. sent[r] \in Seq(Message) /\ valid[r] \in SUBSET DOMAIN sent[r]
  BY DEF TypeOK, RequestOK
<1>3. DOMAIN sent[r] = 1..Len(sent[r]) /\ Len(sent[r]) \in Nat
  BY <1>2, LenProperties
<1>4. IsFiniteSet(1..Len(sent[r])) /\ Cardinality(1..Len(sent[r])) = Len(sent[r])
  BY <1>3, FS_Interval
<1>5. Cardinality(valid[r]) \in Nat /\ Cardinality(valid[r]) <= Len(sent[r])
  BY <1>2, <1>3, <1>4, FS_Subset, FS_CardinalityType
<1> QED
  BY <1>1, <1>3, <1>5 DEF Summary, Answer, Rejected, Error

(* The steps of the others, of the database's owner included, leave a      *)
(* request as it is, and what it is done with stored.                      *)
LEMMA StoredStays ==
  ASSUME NEW q \in Requests, StoredOK(q), checks' \subseteq checks,
         \A row \in results : row.check \in checks' => row \in results',
         pc'[q] = pc[q], sent'[q] = sent[q], valid'[q] = valid[q],
         todo'[q] = todo[q], mine'[q] = mine[q], reply'[q] = reply[q]
  PROVE  StoredOK(q)'
<1>1. ASSUME NEW indices, NEW rows, DoneWith(q, indices, rows)
      PROVE  \A i \in indices : sent'[q][i].check \in checks' =>
               \E row \in rows : row.check \in checks' /\ Key(row) = Key(sent'[q][i])
  BY <1>1 DEF DoneWith, Keys, Key
<1>2. ASSUME pc[q] \in Open
      PROVE  \A i \in valid[q] \ todo[q] :
               sent'[q][i].check \in checks' => Key(sent'[q][i]) \in Keys(results' \cup mine[q])
  BY <1>1, <1>2 DEF StoredOK, Keys
<1>3. ASSUME pc[q] \in Stored \/ Done(q)
      PROVE  \A i \in valid[q] :
               sent'[q][i].check \in checks' => Key(sent'[q][i]) \in Keys(results')
  BY <1>1, <1>3 DEF StoredOK, Keys
<1> QED
  BY <1>2, <1>3 DEF StoredOK, DoneWith, Done, Keys, Key

-----------------------------------------------------------------------------
(* The end of a request, with a rollback or without, keeps the invariant.  *)
LEMMA FinishSteps ==
  ASSUME IngestInv, NEW r \in Requests, NEW answer \in Answer, NEW kept, NEW batch \in Seq(Message),
         Finish(r, answer), UNCHANGED <<tableVars, now, edits, todo>>,
         sent' = [sent EXCEPT ![r] = batch], valid' = [valid EXCEPT ![r] = kept],
         todo[r] \subseteq kept, kept \subseteq DOMAIN batch,
         faults' \in 0..MaxFaults, crossed' \subseteq Requests,
         answer.code = "ok" =>
           \A i \in kept : batch[i].check \in checks => Key(batch[i]) \in Keys(results)
  PROVE  IngestInv'
<1> USE DEF IngestInv
<1>1. /\ pc' = [pc EXCEPT ![r] = "answered"] /\ reply' = [reply EXCEPT ![r] = answer]
      /\ mine' = [mine EXCEPT ![r] = {}] /\ computed' = [computed EXCEPT ![r] = NoScores]
  BY DEF Finish
<1>2. NoScores \in [Elements -> ScoreRow]
  BY DEF NoScores, ScoreRow
<1>3. \A q \in Requests \ {r} :
        /\ pc'[q] = pc[q] /\ sent'[q] = sent[q] /\ valid'[q] = valid[q] /\ todo'[q] = todo[q]
        /\ mine'[q] = mine[q] /\ reply'[q] = reply[q]
  BY <1>1 DEF TypeOK
<1>4. /\ pc'[r] = "answered" /\ sent'[r] = batch /\ valid'[r] = kept /\ todo'[r] = todo[r]
      /\ mine'[r] = {} /\ reply'[r] = answer
  BY <1>1 DEF TypeOK
<1>5. TypeOK'
  <2>1. \A q \in Requests \ {r} : RequestOK(q)'
    BY <1>3 DEF TypeOK, RequestOK, Rows
  <2>2. RequestOK(r)'
    BY <1>4, SentinelAssumption DEF RequestOK
  <2> QED
    BY <1>1, <1>2, <2>1, <2>2 DEF TypeOK, tableVars
<1>6. ProgressInv'
  BY <1>3, <1>4, FS_EmptySet DEF ProgressInv, Stored
<1>7. HeldInv'
  BY <1>3, <1>4 DEF HeldInv, tableVars, Open
<1>8. StoredInv'
  <2>1. ASSUME NEW q \in Requests \ {r}
        PROVE  StoredOK(q)'
    BY <1>3, StoredStays DEF StoredInv, tableVars
  <2>2. StoredOK(r)'
    BY <1>4 DEF StoredOK, DoneWith, Done, tableVars, Open, Stored
  <2> QED
    BY <2>1, <2>2 DEF StoredInv
<1> QED
  BY <1>5, <1>6, <1>7, <1>8

(* A request that fails is answered with an error and stores nothing.      *)
LEMMA ErrorSteps ==
  ASSUME IngestInv, NEW r \in Requests, NEW code \in {"internal", "permission_denied"},
         Finish(r, Error(code)), UNCHANGED <<tableVars, now, edits, sent, valid, todo>>,
         faults' \in 0..MaxFaults, crossed' \subseteq Requests
  PROVE  IngestInv'
<1> DEFINE answer == Error(code)
<1>1. answer \in Answer /\ answer.code # "ok"
  BY AnswerTypes DEF IngestInv, Error
<1>2. /\ sent[r] \in Seq(Message) /\ sent' = [sent EXCEPT ![r] = sent[r]]
      /\ valid' = [valid EXCEPT ![r] = valid[r]]
      /\ todo[r] \subseteq valid[r] /\ valid[r] \subseteq DOMAIN sent[r]
  BY DEF IngestInv, TypeOK, RequestOK
<1> HIDE DEF answer
<1>3. Finish(r, answer)
  BY DEF answer
<1> QED
  BY <1>1, <1>2, <1>3, FinishSteps

(* The arrival of a batch.                                                 *)
LEMMA SubmitSteps ==
  ASSUME IngestInv, NEW r \in Requests, NEW batch \in Batches, Submit(r, batch)
  PROVE  IngestInv'
<1> DEFINE candidates == {i \in DOMAIN batch : InTime(batch[i]) /\ batch[i].check # Malformed}
<1>1. /\ pc[r] = "idle" /\ sent' = [sent EXCEPT ![r] = batch]
      /\ valid' = [valid EXCEPT ![r] = candidates]
      /\ UNCHANGED <<tableVars, clockVars, todo>>
  BY DEF Submit
<1>2. batch \in Seq(Message) /\ Len(batch) \in Nat
  BY BatchAssumption, LenProperties
<1>3. crossed' \subseteq Requests
  BY DEF Submit, Meet, Running, IngestInv, TypeOK
<1>4. todo[r] = {} /\ mine[r] = {}
  BY <1>1 DEF IngestInv, ProgressInv
<1>5. candidates \subseteq DOMAIN batch /\ candidates \in SUBSET Nat
  BY <1>2, LenProperties
<1>6. CASE candidates = {} /\ Finish(r, Summary(r, Len(batch)))
  <2>1. Summary(r, Len(batch)) \in Answer /\ faults' \in 0..MaxFaults
    BY <1>1, <1>2, AnswerTypes DEF IngestInv, TypeOK, clockVars
  <2> HIDE DEF candidates
  <2> QED
    BY <1>1, <1>2, <1>3, <1>4, <1>6, <2>1, FinishSteps DEF clockVars
<1>7. CASE pc' = [pc EXCEPT ![r] = "authorizing"] /\ UNCHANGED <<mine, computed, reply>>
  <2> HIDE DEF candidates
  <2> USE DEF IngestInv
  <2>1. \A q \in Requests \ {r} :
          pc'[q] = pc[q] /\ sent'[q] = sent[q] /\ valid'[q] = valid[q]
    BY <1>1, <1>7 DEF TypeOK
  <2>2. pc'[r] = "authorizing" /\ sent'[r] = batch /\ valid'[r] = candidates
    BY <1>1, <1>7 DEF TypeOK
  <2>3. \A q \in Requests : RequestOK(q)'
    <3>1. \A q \in Requests \ {r} : RequestOK(q)'
      BY <1>1, <1>7, <2>1 DEF TypeOK, RequestOK, Rows
    <3>2. RequestOK(r)'
      BY <1>1, <1>4, <1>5, <1>7, <2>2 DEF TypeOK, RequestOK
    <3> QED
      BY <3>1, <3>2
  <2>4. TypeOK'
    BY <1>1, <1>2, <1>3, <1>5, <1>7, <2>3 DEF TypeOK, tableVars, clockVars, Active
  <2>5. ProgressInv' /\ HeldInv'
    BY <1>1, <1>4, <1>7, <2>1, <2>2 DEF ProgressInv, HeldInv, Open, Stored, tableVars
  <2>6. StoredInv'
    <3>1. \A q \in Requests \ {r} : StoredOK(q)'
      BY <1>1, <1>7, <2>1, StoredStays DEF StoredInv, tableVars
    <3>2. StoredOK(r)'
      BY <2>2 DEF StoredOK, Open, Stored, Done
    <3> QED
      BY <3>1, <3>2 DEF StoredInv
  <2> QED
    BY <2>4, <2>5, <2>6
<1> QED
  BY <1>6, <1>7 DEF Submit

(* The check of the policies.                                              *)
LEMMA AuthorizeSteps ==
  ASSUME IngestInv, NEW r \in Requests, Authorize(r)
  PROVE  IngestInv'
<1> DEFINE allowed == {c \in checks : ElementOf[c] \in assigned}
           kept == {i \in valid[r] : sent[r][i].check \in allowed \/ ~sent[r][i].canonical}
<1>1. /\ pc[r] = "authorizing" /\ valid' = [valid EXCEPT ![r] = kept]
      /\ UNCHANGED <<tableVars, clockVars, sent, crossed>>
      /\ sent[r] \in Seq(Message) /\ sent' = [sent EXCEPT ![r] = sent[r]]
  BY DEF Authorize, IngestInv, TypeOK
<1>2. todo[r] = {} /\ mine[r] = {}
  BY <1>1 DEF IngestInv, ProgressInv
<1>3. kept \subseteq DOMAIN sent[r] /\ kept \in SUBSET Nat
  BY DEF IngestInv, TypeOK, RequestOK
<1>4. CASE kept = {} /\ Finish(r, Summary(r, Len(sent[r]))) /\ UNCHANGED todo
  <2>1. Len(sent[r]) \in Nat
    BY <1>1, LenProperties
  <2>2. /\ Summary(r, Len(sent[r])) \in Answer
        /\ faults' \in 0..MaxFaults /\ crossed' \subseteq Requests
    BY <1>1, <2>1, AnswerTypes DEF IngestInv, TypeOK, clockVars
  <2> HIDE DEF kept
  <2> QED
    BY <1>1, <1>2, <1>3, <1>4, <2>2, FinishSteps DEF clockVars
<1>5. CASE /\ pc' = [pc EXCEPT ![r] = "inserting"] /\ todo' = [todo EXCEPT ![r] = kept]
           /\ UNCHANGED <<mine, computed, reply>>
  <2> HIDE DEF kept
  <2> USE DEF IngestInv
  <2>1. \A q \in Requests \ {r} :
          /\ pc'[q] = pc[q] /\ sent'[q] = sent[q] /\ valid'[q] = valid[q]
          /\ todo'[q] = todo[q] /\ mine'[q] = mine[q] /\ reply'[q] = reply[q]
    BY <1>1, <1>5 DEF TypeOK
  <2>2. /\ pc'[r] = "inserting" /\ sent'[r] = sent[r] /\ valid'[r] = kept /\ todo'[r] = kept
        /\ mine'[r] = {} /\ reply'[r] = None
    BY <1>1, <1>2, <1>5 DEF TypeOK, RequestOK
  <2>3. \A q \in Requests : RequestOK(q)'
    <3>1. \A q \in Requests \ {r} : RequestOK(q)'
      BY <2>1 DEF TypeOK, RequestOK, Rows
    <3>2. RequestOK(r)'
      BY <1>3, <2>2 DEF RequestOK
    <3> QED
      BY <3>1, <3>2
  <2>4. TypeOK'
    BY <1>1, <1>3, <1>5, <2>3 DEF TypeOK, tableVars, clockVars, Active, Open
  <2>5. ProgressInv'
    BY <1>1, <1>5, <2>1, <2>2 DEF ProgressInv, Stored
  <2>6. HeldInv'
    <3>1. UNCHANGED <<checks, results, mine>>
      BY <1>1, <1>5 DEF tableVars
    <3>2. Keys({}) = {}
      BY DEF Keys
    <3> QED
      BY <1>2, <2>1, <2>2, <3>1, <3>2 DEF HeldInv, Keys, Key
  <2>7. StoredInv'
    <3>1. \A q \in Requests \ {r} : StoredOK(q)'
      BY <1>1, <2>1, StoredStays DEF StoredInv, tableVars
    <3>2. StoredOK(r)'
      BY <2>2 DEF StoredOK, DoneWith, Open, Stored, Done
    <3> QED
      BY <3>1, <3>2 DEF StoredInv
  <2> QED
    BY <2>4, <2>5, <2>6, <2>7
<1> QED
  BY <1>4, <1>5 DEF Authorize

(* The insertion of a row: nobody holds its key, or it is stored already.  *)
LEMMA InsertSteps ==
  ASSUME IngestInv, NEW r \in Requests, InsertRow(r)
  PROVE  IngestInv'
<1> USE DEF IngestInv
<1>1. PICK i \in valid[r] : IsNext(r, i) /\ InsertTo(r, i, results \cup mine[r])
  BY DEF InsertRow
<1> DEFINE row == RowOf(sent[r][i])
           rows == IF Key(row) \in Keys(results \cup mine[r]) THEN mine[r] ELSE mine[r] \cup {row}
<1>2. /\ pc[r] = "inserting" /\ i \in todo[r] /\ row.check \in checks
      /\ mine' = [mine EXCEPT ![r] = rows]
      /\ todo' = [todo EXCEPT ![r] = todo[r] \ {i}]
      /\ UNCHANGED <<tableVars, clockVars, pc, sent, valid, computed, reply, crossed>>
  BY <1>1 DEF IsNext, InsertTo
<1>3. i \in DOMAIN sent[r]
  BY DEF TypeOK, RequestOK
<1>4. /\ row \in [check : Checks, at : Int, passed : BOOLEAN]
      /\ Key(row) = Key(sent[r][i])
  BY <1>2, <1>3, RowsOfResults DEF TypeOK, RowOf
<1>5. /\ row.check = sent[r][i].check
      /\ row \in {RowOf(sent[r][j]) : j \in valid[r] \ (todo[r] \ {i})}
  BY <1>2 DEF RowOf
<1>6. \A q \in Requests \ {r} : pc[q] \in Open => Key(row) \notin Keys(mine[q])
  BY <1>1 DEF InsertRow, Waits, WaitsFor
<1> HIDE DEF row
<1>7. /\ \A q \in Requests \ {r} : todo'[q] = todo[q] /\ mine'[q] = mine[q]
      /\ todo'[r] = todo[r] \ {i} /\ mine'[r] = rows
  BY <1>2 DEF TypeOK
<1>8. \A x \in rows : x \in mine[r] \/ x = row
  OBVIOUS
<1>9. UNCHANGED <<checks, assigned, results, score, now, edits, faults, pc, sent, valid, computed, reply, crossed>>
  BY <1>2 DEF tableVars, clockVars
<1>10. TypeOK'
  <2>1. \A q \in Requests \ {r} : RequestOK(q)'
    BY <1>7, <1>9 DEF TypeOK, RequestOK, Rows
  <2>2. RequestOK(r)'
    <3>1. rows \subseteq {RowOf(sent[r][j]) : j \in valid[r] \ (todo[r] \ {i})}
      BY <1>5, <1>8 DEF TypeOK, RequestOK, Rows
    <3>2. Rows(r, valid[r] \ todo[r])' = {RowOf(sent[r][j]) : j \in valid[r] \ (todo[r] \ {i})}
      BY <1>7, <1>9 DEF Rows, RowOf
    <3>3. /\ pc'[r] = "inserting" /\ reply'[r] = None
          /\ todo[r] \ {i} \subseteq valid[r] /\ valid[r] \subseteq DOMAIN sent[r]
      BY <1>2, <1>9 DEF TypeOK, RequestOK
    <3> HIDE DEF rows
    <3> QED
      BY <1>7, <1>9, <3>1, <3>2, <3>3 DEF RequestOK, Open
  <2>3. /\ rows \in SUBSET [check : Checks, at : Int, passed : BOOLEAN]
        /\ todo[r] \ {i} \in SUBSET Nat
    BY <1>4, <1>8 DEF TypeOK
  <2> HIDE DEF rows
  <2> QED
    BY <1>2, <1>9, <2>1, <2>2, <2>3 DEF TypeOK
<1>11. ProgressInv'
  <2>1. IsFiniteSet(rows)
    BY FS_AddElement DEF ProgressInv
  <2> QED
    BY <1>2, <1>7, <1>9, <2>1 DEF ProgressInv, Stored
<1>12. HeldInv'
  <2>1. \A x \in rows : x.check \in checks
    BY <1>2, <1>8 DEF HeldInv, Open
  <2>2. Keys(rows) \cap Keys(results) = {}
    BY <1>2 DEF HeldInv, Open, Keys
  <2>3. \A x, y \in rows : Key(x) = Key(y) => x = y
    BY <1>2 DEF HeldInv, Open, Keys
  <2>4. \A q \in Requests \ {r} : pc[q] \in Open => Keys(rows) \cap Keys(mine[q]) = {}
    BY <1>2, <1>6 DEF HeldInv, Open, Keys
  <2>5. \A q \in Requests \ {r} : pc[q] \in Open => Keys(mine[q]) \cap Keys(rows) = {}
    BY <2>4
  <2> HIDE DEF rows
  <2> QED
    BY <1>7, <1>9, <2>1, <2>2, <2>3, <2>4, <2>5 DEF HeldInv, Keys, Key
<1>13. StoredInv'
  <2>1. \A q \in Requests \ {r} : StoredOK(q)'
    BY <1>7, <1>9, StoredStays DEF StoredInv
  <2>2. Keys(results \cup mine[r]) \subseteq Keys(results \cup rows) /\ Key(row) \in Keys(results \cup rows)
    BY DEF Keys
  <2>3. DoneWith(r, valid[r] \ todo[r], results \cup mine[r])
    BY <1>2 DEF StoredInv, StoredOK, Open
  <2>4. \A j \in valid[r] \ (todo[r] \ {i}) :
          sent[r][j].check \in checks => Key(sent[r][j]) \in Keys(results \cup rows)
    BY <1>4, <2>2, <2>3 DEF DoneWith
  <2>5. pc[r] \notin Stored /\ ~Done(r)
    BY <1>2 DEF Stored, Done
  <2> HIDE DEF rows
  <2>6. StoredOK(r)'
    BY <1>7, <1>9, <2>4, <2>5 DEF StoredOK, DoneWith, Stored, Done, Keys, Key
  <2> QED
    BY <2>1, <2>6 DEF StoredInv
<1> QED
  BY <1>10, <1>11, <1>12, <1>13

(* The commit: the rows of the transaction are everyone's.                 *)
LEMMA CommitSteps ==
  ASSUME IngestInv, NEW r \in Requests, Commit(r)
  PROVE  IngestInv'
<1> USE DEF IngestInv
<1>1. /\ pc[r] = "inserting" /\ todo[r] = {}
      /\ results' = results \cup mine[r]
      /\ pc' = [pc EXCEPT ![r] = "scoring"]
      /\ UNCHANGED <<checks, assigned, score, now, edits, faults, sent, valid, todo, mine,
                     computed, reply, crossed>>
  BY DEF Commit, clockVars
<1>2. /\ \A q \in Requests \ {r} : pc'[q] = pc[q]
      /\ pc'[r] = "scoring"
  BY <1>1 DEF TypeOK
<1>3. /\ \A row \in mine[r] : row.check \in checks
      /\ mine[r] \in SUBSET [check : Checks, at : Int, passed : BOOLEAN]
  BY <1>1 DEF HeldInv, Open, TypeOK
<1>4. TypeOK'
  <2>1. results' \subseteq [check : checks, at : Int, passed : BOOLEAN]
    BY <1>1, <1>3 DEF TypeOK
  <2>2. \A q \in Requests : RequestOK(q)'
    BY <1>1, <1>2 DEF TypeOK, RequestOK, Rows, Open, Stored
  <2> QED
    BY <1>1, <2>1, <2>2 DEF TypeOK, Active, Stored
<1>5. ProgressInv'
  BY <1>1, <1>2 DEF ProgressInv, Stored
<1>6. HeldInv'
  <2>1. \A q \in Requests \ {r} : pc[q] \in Open => Keys(mine[q]) \cap Keys(results \cup mine[r]) = {}
    BY <1>1 DEF HeldInv, Open, Keys
  <2> QED
    BY <1>1, <1>2, <2>1 DEF HeldInv, Open, Keys, Key
<1>7. StoredInv'
  <2>1. \A q \in Requests \ {r} : StoredOK(q)'
    BY <1>1, <1>2, StoredStays DEF StoredInv
  <2>2. DoneWith(r, valid[r], results \cup mine[r])
    BY <1>1 DEF StoredInv, StoredOK, Open, DoneWith
  <2>3. StoredOK(r)'
    BY <1>1, <1>2, <2>2 DEF StoredOK, DoneWith, Open, Keys, Key
  <2> QED
    BY <2>1, <2>3 DEF StoredInv
<1> QED
  BY <1>4, <1>5, <1>6, <1>7

(* The snapshot of the scores and their writing touch no row.              *)
LEMMA ScoreSteps ==
  ASSUME IngestInv, NEW r \in Requests, Snapshot(r) \/ WriteScores(r)
  PROVE  IngestInv'
<1> USE DEF IngestInv
<1>1. UNCHANGED <<checks, assigned, results, now, edits, faults, sent, valid, todo, mine,
                  reply, crossed>>
  BY DEF Snapshot, WriteScores, tableVars, clockVars
<1>2. PICK stage \in Stored : pc[r] \in Stored /\ pc' = [pc EXCEPT ![r] = stage]
  BY DEF Snapshot, WriteScores, Stored
<1>3. /\ \A q \in Requests \ {r} : pc'[q] = pc[q]
      /\ pc'[r] \in Stored /\ pc[r] \notin Open /\ pc'[r] \notin Open
  BY <1>2 DEF TypeOK, Open, Stored
<1>4. TypeOK'
  <2>1. \A q \in Requests : RequestOK(q)'
    BY <1>1, <1>2, <1>3 DEF TypeOK, RequestOK, Rows, Stored
  <2>2. /\ score' \in [Elements -> ScoreRow]
        /\ computed' \in [Requests -> [Elements -> ScoreRow]]
    <3>1. CASE Snapshot(r)
      <4>1. [e \in Elements |-> ScoreOf(e)] \in [Elements -> ScoreRow]
        BY ScoreType DEF TypeOK
      <4> QED
        BY <3>1, <4>1 DEF Snapshot, TypeOK, tableVars
    <3>2. CASE WriteScores(r)
      BY <3>2 DEF WriteScores, TypeOK
    <3> QED
      BY <3>1, <3>2
  <2> QED
    BY <1>1, <1>2, <2>1, <2>2 DEF TypeOK, Active
<1>5. ProgressInv'
  BY <1>1, <1>2, <1>3 DEF ProgressInv, Stored
<1>6. HeldInv'
  BY <1>1, <1>3 DEF HeldInv, Keys, Key
<1>7. StoredInv'
  <2>1. \A q \in Requests \ {r} : StoredOK(q)'
    BY <1>1, <1>3, StoredStays DEF StoredInv
  <2>2. StoredOK(r)'
    BY <1>1, <1>2, <1>3 DEF StoredInv, StoredOK, DoneWith, Keys, Key
  <2> QED
    BY <2>1, <2>2 DEF StoredInv
<1> QED
  BY <1>4, <1>5, <1>6, <1>7

(* The success: what is answered is stored.                                *)
LEMMA EvaluateSteps ==
  ASSUME IngestInv, NEW r \in Requests, Evaluate(r)
  PROVE  IngestInv'
<1>1. /\ pc[r] \in Stored
      /\ Finish(r, Summary(r, Rejected(r)))
      /\ UNCHANGED <<tableVars, now, edits, faults, sent, valid, todo, crossed>>
  BY DEF Evaluate, Stored, clockVars
<1>2. /\ sent[r] \in Seq(Message) /\ sent' = [sent EXCEPT ![r] = sent[r]]
      /\ valid' = [valid EXCEPT ![r] = valid[r]]
      /\ todo[r] \subseteq valid[r] /\ valid[r] \subseteq DOMAIN sent[r]
      /\ faults' \in 0..MaxFaults /\ crossed' \subseteq Requests
  BY <1>1 DEF IngestInv, TypeOK, RequestOK
<1>3. Summary(r, Rejected(r)) \in Answer
  BY AnswerTypes DEF IngestInv
<1>4. \A i \in valid[r] : sent[r][i].check \in checks => Key(sent[r][i]) \in Keys(results)
  BY <1>1 DEF IngestInv, StoredInv, StoredOK, DoneWith
<1> QED
  BY <1>1, <1>2, <1>3, <1>4, FinishSteps

(* The deletion of a check takes its rows; no open transaction has one.    *)
LEMMA DeleteSteps ==
  ASSUME IngestInv, NEW c \in Checks, DeleteCheck(c)
  PROVE  IngestInv'
<1> USE DEF IngestInv
<1>1. /\ edits < MaxEdits /\ edits' = edits + 1
      /\ \A r \in Requests : pc[r] \in Open => \A row \in mine[r] : row.check # c
      /\ checks' = checks \ {c} /\ results' = {row \in results : row.check # c}
      /\ crossed' = crossed \cup Running
      /\ UNCHANGED <<assigned, score, now, faults, pc, sent, valid, todo, mine, computed, reply>>
  BY DEF DeleteCheck, requestVars
<1>2. TypeOK'
  <2>1. results' \subseteq [check : checks', at : Int, passed : BOOLEAN]
    BY <1>1 DEF TypeOK
  <2>2. \A q \in Requests : RequestOK(q)'
    BY <1>1 DEF TypeOK, RequestOK, Rows
  <2>3. edits' \in 0..MaxEdits /\ crossed' \subseteq Requests
    BY <1>1, BoundsAssumption DEF TypeOK, Running
  <2> QED
    BY <1>1, <2>1, <2>2, <2>3 DEF TypeOK
<1>3. ProgressInv'
  BY <1>1 DEF ProgressInv
<1>4. HeldInv'
  BY <1>1 DEF HeldInv, Keys, Key
<1>5. StoredInv'
  <2>1. \A row \in results : row.check \in checks' => row \in results'
    BY <1>1
  <2> QED
    BY <1>1, <2>1, StoredStays DEF StoredInv
<1> QED
  BY <1>2, <1>3, <1>4, <1>5

(* The clock and the assignments concern nothing the invariant is about.   *)
LEMMA OtherSteps ==
  ASSUME IngestInv, Tick \/ (\E e \in Elements : Reassign(e)) \/ UNCHANGED vars
  PROVE  IngestInv'
<1> USE DEF IngestInv
<1>1. UNCHANGED <<checks, results, score, pc, sent, valid, todo, mine, computed, reply, faults,
                  crossed>>
  BY DEF Tick, Reassign, vars, tableVars, clockVars, requestVars
<1>2. assigned' \subseteq Elements /\ now' \in 0..MaxNow /\ edits' \in 0..MaxEdits
  BY BoundsAssumption DEF Tick, Reassign, TypeOK, vars, tableVars, clockVars
<1>3. TypeOK'
  <2>1. \A q \in Requests : RequestOK(q)'
    BY <1>1 DEF TypeOK, RequestOK, Rows
  <2> QED
    BY <1>1, <1>2, <2>1 DEF TypeOK
<1>4. ProgressInv' /\ HeldInv'
  BY <1>1 DEF ProgressInv, HeldInv, Keys, Key
<1>5. StoredInv'
  BY <1>1, StoredStays DEF StoredInv
<1> QED
  BY <1>3, <1>4, <1>5

-----------------------------------------------------------------------------
(* The inductive invariant.                                                *)
LEMMA IngestInvariant == Spec => []IngestInv
<1>1. Init => IngestInv
  <2> SUFFICES ASSUME Init PROVE IngestInv
    OBVIOUS
  <2> USE DEF Init
  <2>1. \A r \in Requests : RequestOK(r)
    BY DEF RequestOK, Rows
  <2>2. NoScores \in [Elements -> ScoreRow]
    BY DEF NoScores, ScoreRow
  <2>3. TypeOK
    BY <2>1, <2>2, BoundsAssumption DEF TypeOK, Active
  <2>4. ProgressInv /\ HeldInv
    BY FS_EmptySet DEF ProgressInv, HeldInv, Open, Stored
  <2>5. StoredInv
    BY DEF StoredInv, StoredOK, Done, Open, Stored
  <2> QED
    BY <2>3, <2>4, <2>5 DEF IngestInv
<1>2. IngestInv /\ [Next]_vars => IngestInv'
  <2> SUFFICES ASSUME IngestInv, [Next]_vars PROVE IngestInv'
    OBVIOUS
  <2>1. ASSUME NEW r \in Requests, NEW batch \in Batches, Submit(r, batch) PROVE IngestInv'
    BY <2>1, SubmitSteps
  <2>2. ASSUME NEW r \in Requests,
               Deny(r) \/ ForeignKeyFails(r) \/ DeadlockVictim(r) \/ Fail(r)
        PROVE  IngestInv'
    <3>1. PICK code \in {"internal", "permission_denied"} : Finish(r, Error(code))
      BY <2>2 DEF Deny, ForeignKeyFails, DeadlockVictim, Fail
    <3>2. /\ UNCHANGED <<tableVars, now, edits, sent, valid, todo>>
          /\ faults' \in 0..MaxFaults /\ crossed' \subseteq Requests
      BY <2>2, BoundsAssumption
         DEF Deny, ForeignKeyFails, DeadlockVictim, Fail, clockVars, IngestInv, TypeOK
    <3> QED
      BY <3>1, <3>2, ErrorSteps
  <2>3. ASSUME NEW r \in Requests, Authorize(r) PROVE IngestInv'
    BY <2>3, AuthorizeSteps
  <2>4. ASSUME NEW r \in Requests, InsertRow(r) PROVE IngestInv'
    BY <2>4, InsertSteps
  <2>5. ASSUME NEW r \in Requests, Commit(r) PROVE IngestInv'
    BY <2>5, CommitSteps
  <2>6. ASSUME NEW r \in Requests, Snapshot(r) \/ WriteScores(r) PROVE IngestInv'
    BY <2>6, ScoreSteps
  <2>7. ASSUME NEW r \in Requests, Evaluate(r) PROVE IngestInv'
    BY <2>7, EvaluateSteps
  <2>8. ASSUME NEW c \in Checks, DeleteCheck(c) PROVE IngestInv'
    BY <2>8, DeleteSteps
  <2>9. CASE Tick \/ (\E e \in Elements : Reassign(e)) \/ UNCHANGED vars
    BY <2>9, OtherSteps
  <2> QED
    BY <2>1, <2>2, <2>3, <2>4, <2>5, <2>6, <2>7, <2>8, <2>9 DEF Next, Statement
<1> QED
  BY <1>1, <1>2, PTL DEF Spec

(* Type correctness.                                                       *)
THEOREM TypeCorrect == Spec => []TypeOK
<1>1. IngestInv => TypeOK
  BY DEF IngestInv
<1> QED
  BY <1>1, IngestInvariant, PTL

(* Every result a success acknowledges has its row, stored by this request *)
(* or by another one, unless its check was deleted: ON CONFLICT DO NOTHING *)
(* and the rollback of a failed batch lose nothing that was acknowledged   *)
(* (ingest.rs:107-126).                                                    *)
THEOREM AnsweredIsStoredHolds == Spec => []AnsweredIsStored
<1>1. IngestInv => AnsweredIsStored
  BY DEF IngestInv, StoredInv, StoredOK, DoneWith, AnsweredIsStored
<1> QED
  BY <1>1, IngestInvariant, PTL

-----------------------------------------------------------------------------
(* The rows of the committed requests that were not answered yet.          *)
Unsettled == UNION {mine[r] : r \in {q \in Requests : pc[q] \in Stored}}

(* A step that commits nothing and deletes no check settles rows, if any.  *)
LEMMA QuietSteps ==
  ASSUME UNCHANGED <<checks, results>>,
         \A q \in Requests : pc'[q] \in Stored => pc[q] \in Stored /\ mine'[q] = mine[q]
  PROVE  AbstractStore!Next
<1>1. Unsettled' \subseteq Unsettled
  BY DEF Unsettled, Stored
<1>2. Unsettled' = Unsettled \ (Unsettled \ Unsettled')
  BY <1>1
<1>3. AbstractStore!Settle(Unsettled \ Unsettled')
  BY <1>2 DEF AbstractStore!Settle, Unsettled
<1> QED
  BY <1>3 DEF AbstractStore!Next, Unsettled

(* A commit stores the batch as a whole, under keys nobody had.            *)
LEMMA CommitStores ==
  ASSUME IngestInv, NEW r \in Requests, Commit(r)
  PROVE  AbstractStore!Next
<1>1. /\ pc[r] = "inserting" /\ results' = results \cup mine[r]
      /\ pc' = [pc EXCEPT ![r] = "scoring"] /\ UNCHANGED <<checks, mine>>
  BY DEF Commit
<1>2. /\ \A row \in mine[r] : row.check \in checks
      /\ Keys(mine[r]) \cap Keys(results) = {}
      /\ \A x, y \in mine[r] : Key(x) = Key(y) => x = y
      /\ mine[r] \in SUBSET [check : Checks, at : Int, passed : BOOLEAN]
  BY <1>1 DEF IngestInv, HeldInv, TypeOK, Open
<1>3. results' \ results = mine[r]
  BY <1>1, <1>2 DEF Keys
<1>4. Unsettled' = Unsettled \cup mine[r]
  <2>1. \A q \in Requests : pc'[q] \in Stored <=> pc[q] \in Stored \/ q = r
    BY <1>1 DEF IngestInv, TypeOK, Stored
  <2> QED
    BY <1>1, <2>1 DEF Unsettled, Stored
<1>5. AbstractStore!Store(results' \ results)
  BY <1>1, <1>2, <1>3, <1>4
     DEF AbstractStore!Store, AbstractStore!Row, AbstractStore!Keys, AbstractStore!Key, Keys, Key,
         Unsettled
<1> QED
  BY <1>5 DEF AbstractStore!Next

(* The ingester implements the abstract store, step by step.               *)
LEMMA StepsStore ==
  ASSUME IngestInv, [Next]_vars
  PROVE  AbstractStore!Next \/ UNCHANGED AbstractStore!storeVars
<1> USE DEF IngestInv
<1>1. ASSUME NEW r \in Requests, NEW answer, Finish(r, answer), UNCHANGED <<checks, results>>
      PROVE  AbstractStore!Next
  <2>1. \A q \in Requests : pc'[q] \in Stored => pc[q] \in Stored /\ mine'[q] = mine[q]
    BY <1>1 DEF Finish, TypeOK, Stored
  <2> QED
    BY <1>1, <2>1, QuietSteps
<1>2. ASSUME NEW r \in Requests, NEW stage \in {"authorizing", "inserting"},
             pc' = [pc EXCEPT ![r] = stage], UNCHANGED <<checks, results, mine>>
      PROVE  AbstractStore!Next
  <2>1. \A q \in Requests : pc'[q] \in Stored => pc[q] \in Stored /\ mine'[q] = mine[q]
    BY <1>2 DEF TypeOK, Stored
  <2> QED
    BY <1>2, <2>1, QuietSteps
<1>3. ASSUME NEW r \in Requests, NEW batch \in Batches, Submit(r, batch)
      PROVE  AbstractStore!Next
  BY <1>1, <1>2, <1>3 DEF Submit, tableVars
<1>4. ASSUME NEW r \in Requests,
             Deny(r) \/ ForeignKeyFails(r) \/ DeadlockVictim(r) \/ Fail(r) \/ Evaluate(r)
      PROVE  AbstractStore!Next
  BY <1>1, <1>4 DEF Deny, ForeignKeyFails, DeadlockVictim, Fail, Evaluate, tableVars
<1>5. ASSUME NEW r \in Requests, Authorize(r) PROVE AbstractStore!Next
  BY <1>1, <1>2, <1>5 DEF Authorize, tableVars
<1>6. ASSUME NEW r \in Requests, InsertRow(r) PROVE AbstractStore!Next
  <2>1. PICK i \in valid[r] : IsNext(r, i) /\ InsertTo(r, i, results \cup mine[r])
    BY <1>6 DEF InsertRow
  <2>2. /\ pc[r] \notin Stored /\ UNCHANGED <<checks, results, pc>>
        /\ \A q \in Requests \ {r} : mine'[q] = mine[q]
    BY <2>1 DEF IsNext, InsertTo, tableVars, Stored, TypeOK
  <2> QED
    BY <2>2, QuietSteps DEF Stored
<1>7. ASSUME NEW r \in Requests, Commit(r) PROVE AbstractStore!Next
  BY <1>7, CommitStores
<1>8. ASSUME NEW r \in Requests, Snapshot(r) \/ WriteScores(r) PROVE AbstractStore!Next
  <2>1. UNCHANGED <<checks, results, mine>>
    BY <1>8 DEF Snapshot, WriteScores, tableVars
  <2>2. \A q \in Requests : pc'[q] \in Stored => pc[q] \in Stored
    BY <1>8 DEF Snapshot, WriteScores, TypeOK, Stored
  <2> QED
    BY <2>1, <2>2, QuietSteps
<1>9. ASSUME NEW c \in Checks, DeleteCheck(c) PROVE AbstractStore!Next
  <2>1. /\ c \in checks /\ checks' = checks \ {c}
        /\ results' = {row \in results : row.check # c} /\ UNCHANGED <<pc, mine>>
    BY <1>9 DEF DeleteCheck, requestVars
  <2>2. AbstractStore!Forget(c)
    BY <2>1 DEF AbstractStore!Forget, Stored
  <2> QED
    BY <2>2 DEF AbstractStore!Next
<1>10. CASE Tick \/ (\E e \in Elements : Reassign(e)) \/ UNCHANGED vars
  <2>1. UNCHANGED <<checks, results, pc, mine>>
    BY <1>10 DEF Tick, Reassign, vars, tableVars, requestVars
  <2> QED
    BY <2>1 DEF AbstractStore!storeVars, Stored
<1> QED
  BY <1>3, <1>4, <1>5, <1>6, <1>7, <1>8, <1>9, <1>10 DEF Next, Statement

(* The ingester implements module ResultStore: whatever the interleaving   *)
(* of the submissions and of the failures, a batch is stored as a whole or *)
(* not at all, under keys that nobody had (results.rs:50-110).             *)
THEOREM StoreRefinedHolds == Spec => StoreRefined
<1>1. Init => AbstractStore!Init
  BY DEF Init, AbstractStore!Init, Stored
<1>2. IngestInv /\ [Next]_vars => [AbstractStore!Next]_AbstractStore!storeVars
  BY StepsStore
<1> QED
  BY <1>1, <1>2, IngestInvariant, PTL DEF Spec, StoreRefined, AbstractStore!Spec

(* What the abstract store promises of its rows holds of check_results.    *)
Promises ==
    INSTANCE ResultStoreProofs WITH
        Times <- Int,
        stored <- results,
        unsettled <- UNION {mine[r] : r \in {q \in Requests : pc[q] \in Stored}}

(* Whatever the submissions that overlap, fail or are repeated, the agent  *)
(* has one row per check and time (migrations/001:180), a row is neither   *)
(* changed nor lost while its check exists, and only the submission that   *)
(* stored it counts it in its answer (results.rs:50-110).                  *)
THEOREM RowsAreKept ==
  Spec => /\ []Promises!StoreInv
          /\ [][Promises!RowsStay /\ Promises!CountedOnce]_<<checks, results, Unsettled>>
<1>1. Init => Promises!Init
  BY DEF Init, Promises!Init, Stored
<1>2. IngestInv /\ [Next]_vars => [Promises!Next]_Promises!storeVars
  BY StepsStore
     DEF AbstractStore!Next, AbstractStore!Store, AbstractStore!Settle, AbstractStore!Forget,
         AbstractStore!storeVars, AbstractStore!Row, AbstractStore!Keys, AbstractStore!Key,
         Promises!Next, Promises!Store, Promises!Settle, Promises!Forget,
         Promises!storeVars, Promises!Row, Promises!Keys, Promises!Key
<1>3. Spec => Promises!Spec
  BY <1>1, <1>2, IngestInvariant, PTL DEF Spec, Promises!Spec
<1>4. [Promises!RowsStay]_Promises!storeVars /\ [Promises!CountedOnce]_Promises!storeVars
        => [Promises!RowsStay /\ Promises!CountedOnce]_<<checks, results, Unsettled>>
  BY DEF Promises!storeVars, Unsettled
<1> QED
  BY <1>3, <1>4, Promises!UniqueRowsHolds, Promises!RowsStayHolds, Promises!CountedOnceHolds, PTL

-----------------------------------------------------------------------------
(* Scores are a function of the checks and of the results.                 *)
LEMMA SameScores ==
  ASSUME UNCHANGED <<checks, results>>
  PROVE  \A e \in Elements : ScoreOf(e)' = ScoreOf(e)
BY DEF ScoreOf, LatestPassed

(* A submission that is alone sees its own scores only.                    *)
LEMMA LoneSteps ==
  ASSUME TypeOK, LoneInv, [Next]_vars
  PROVE  LoneInv'
<1> SUFFICES ASSUME NEW r \in Requests \ crossed', pc'[r] \in Active
             PROVE  /\ Running' = {r}
                    /\ pc'[r] = "writing" => \A e \in Elements : computed'[r][e] = ScoreOf(e)'
                    /\ pc'[r] = "evaluating" => \A e \in Elements : ScoreOf(e)' \in {score'[e], None}
  BY DEF LoneInv, Active, Open, Stored
<1>1. ASSUME NEW q \in Requests, NEW batch \in Batches, Submit(q, batch)
      PROVE  Running' = {r} /\ pc'[r] = "authorizing"
  <2>1. /\ pc[q] = "idle" /\ Meet(q)
        /\ \E stage \in {"answered", "authorizing"} : pc' = [pc EXCEPT ![q] = stage]
    BY <1>1 DEF Submit, Finish
  <2>2. Running = {}
    BY <2>1 DEF Meet, Running, TypeOK, Active, Open, Stored
  <2>3. q = r /\ pc'[r] = "authorizing"
    BY <2>1, <2>2 DEF Running, TypeOK, Active, Open, Stored
  <2> QED
    BY <2>1, <2>2, <2>3 DEF Running, TypeOK, Active, Open, Stored
<1>2. ASSUME NEW q \in Requests, pc[q] \in Active, NEW stage, pc' = [pc EXCEPT ![q] = stage],
             UNCHANGED crossed
      PROVE  q = r /\ pc'[r] = stage /\ stage \in Active /\ Running' = {r}
  <2>1. r \notin crossed /\ (q # r => pc[r] \in Active)
    BY <1>2 DEF TypeOK
  <2>2. q = r /\ Running = {r}
    BY <1>2, <2>1 DEF LoneInv, Running
  <2> QED
    BY <1>2, <2>2 DEF Running, TypeOK
<1>3. ASSUME NEW q \in Requests,
             ForeignKeyFails(q) \/ DeadlockVictim(q) \/ Fail(q) \/ Evaluate(q)
      PROVE  FALSE
  <2>1. pc[q] \in Active
    BY <1>3 DEF ForeignKeyFails, DeadlockVictim, Fail, Evaluate, IsNext, Deadlocked, WaitsFor,
                Active, Open, Stored
  <2>2. pc' = [pc EXCEPT ![q] = "answered"] /\ UNCHANGED crossed
    BY <1>3 DEF ForeignKeyFails, DeadlockVictim, Fail, Evaluate, Finish
  <2> QED
    BY <1>2, <2>1, <2>2 DEF Active, Open, Stored
<1>4. ASSUME NEW q \in Requests, Authorize(q) \/ InsertRow(q) \/ Commit(q)
      PROVE  Running' = {r} /\ pc'[r] \in {"inserting", "scoring"}
  <2>1. pc[q] \in Active /\ UNCHANGED crossed
    BY <1>4 DEF Authorize, InsertRow, InsertTo, IsNext, Commit, Active, Open, Stored
  <2>2. \E stage \in {"answered", "inserting", "scoring"} : pc' = [pc EXCEPT ![q] = stage]
    <3>1. CASE Authorize(q)
      BY <3>1 DEF Authorize, Finish
    <3>2. CASE InsertRow(q)
      <4>1. pc[q] = "inserting" /\ UNCHANGED pc
        BY <3>2 DEF InsertRow, InsertTo, IsNext
      <4> QED
        BY <4>1 DEF TypeOK
    <3>3. CASE Commit(q)
      BY <3>3 DEF Commit
    <3> QED
      BY <1>4, <3>1, <3>2, <3>3
  <2> QED
    BY <1>2, <2>1, <2>2 DEF Active, Open, Stored
<1>5. ASSUME NEW q \in Requests, Snapshot(q)
      PROVE  /\ Running' = {r} /\ pc'[r] = "writing"
             /\ \A e \in Elements : computed'[r][e] = ScoreOf(e)'
  <2>1. q = r /\ pc'[r] = "writing" /\ Running' = {r}
    BY <1>2, <1>5 DEF Snapshot, Active, Stored
  <2>2. \A e \in Elements : computed'[r][e] = ScoreOf(e)
    BY <1>5, <2>1 DEF Snapshot, TypeOK
  <2> QED
    BY <1>5, <2>1, <2>2, SameScores DEF Snapshot, tableVars
<1>6. ASSUME NEW q \in Requests, WriteScores(q)
      PROVE  /\ Running' = {r} /\ pc'[r] = "evaluating"
             /\ \A e \in Elements : ScoreOf(e)' \in {score'[e], None}
  <2>1. q = r /\ pc'[r] = "evaluating" /\ Running' = {r}
    BY <1>2, <1>6 DEF WriteScores, Active, Stored
  <2>2. /\ pc[r] = "writing" /\ r \notin crossed /\ UNCHANGED <<checks, results>>
        /\ score' = [e \in Elements |-> IF computed[r][e] = None THEN score[e] ELSE computed[r][e]]
    BY <1>6, <2>1 DEF WriteScores
  <2>3. \A e \in Elements : computed[r][e] = ScoreOf(e)
    BY <2>2 DEF LoneInv, Active, Stored
  <2> QED
    BY <2>1, <2>2, <2>3, SameScores
<1>7. ASSUME NEW c \in Checks, DeleteCheck(c) PROVE FALSE
  BY <1>7 DEF DeleteCheck, Running, requestVars
<1>8. ASSUME UNCHANGED <<checks, results, score, crossed>>,
             pc'[r] = pc[r], computed'[r] = computed[r], Running' = Running
      PROVE  /\ Running' = {r}
             /\ pc'[r] = "writing" => \A e \in Elements : computed'[r][e] = ScoreOf(e)'
             /\ pc'[r] = "evaluating" => \A e \in Elements : ScoreOf(e)' \in {score'[e], None}
  <2>1. r \in Requests \ crossed /\ pc[r] \in Active
    BY <1>8
  <2>2. /\ Running = {r}
        /\ pc[r] = "writing" => \A e \in Elements : computed[r][e] = ScoreOf(e)
        /\ pc[r] = "evaluating" => \A e \in Elements : ScoreOf(e) \in {score[e], None}
    BY <2>1 DEF LoneInv
  <2> QED
    BY <1>8, <2>2, SameScores
<1>9. ASSUME NEW q \in Requests, Deny(q)
      PROVE  /\ UNCHANGED <<checks, results, score, crossed>>
             /\ pc'[r] = pc[r] /\ computed'[r] = computed[r] /\ Running' = Running
  BY <1>9 DEF Deny, Finish, Running, tableVars, TypeOK, Active, Open, Stored
<1>10. ASSUME Tick \/ (\E e \in Elements : Reassign(e)) \/ UNCHANGED vars
       PROVE  /\ UNCHANGED <<checks, results, score, crossed>>
              /\ pc'[r] = pc[r] /\ computed'[r] = computed[r] /\ Running' = Running
  BY <1>10 DEF Tick, Reassign, vars, tableVars, requestVars, Running
<1>11. CASE \E q \in Requests : Statement(q)
  BY <1>3, <1>4, <1>5, <1>6, <1>11 DEF Statement
<1> QED
  BY <1>1, <1>3, <1>7, <1>8, <1>9, <1>10, <1>11 DEF Next

(* A submission that nobody else's met ends with the scores of the stored  *)
(* results, whatever it stored itself: the recalculation is not skipped    *)
(* for rows that were there before (ingest.rs:134-136).                    *)
THEOREM LoneSubmissionScoresHolds == Spec => LoneSubmissionScores
<1>1. Init => LoneInv
  BY DEF Init, LoneInv, Active, Open, Stored
<1>2. IngestInv /\ LoneInv /\ [Next]_vars => LoneInv'
  BY LoneSteps DEF IngestInv
<1>3. LoneInv => [\A r \in Requests \ crossed :
                    Evaluate(r) => \A e \in Elements : ScoreOf(e) \in {score[e], None}]_vars
  BY DEF LoneInv, Evaluate, Active, Stored
<1> QED
  BY <1>1, <1>2, <1>3, IngestInvariant, PTL DEF Spec, LoneSubmissionScores
=============================================================================
