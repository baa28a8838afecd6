-------------------------- MODULE ResultStoreProofs --------------------------
(***************************************************************************)
(* What module ResultStore says of the stored rows, whatever is stored.    *)
(***************************************************************************)
EXTENDS ResultStore, TLAPS

(* One row per check and time (migrations/001:180).                        *)
UniqueRows == \A x, y \in stored : Key(x) = Key(y) => x = y

(* Rows are of checks that exist.                                          *)
RowsOfChecks == stored \subseteq Row /\ \A row \in stored : row.check \in checks

(* A stored row stays as it is until its check is deleted.                 *)
RowsStay == \A row \in stored : row \in stored' \/ row.check \in checks \ checks'

(* A row waits for the answer that counts it from its insertion on, not    *)
(* from any later moment: what was counted is never counted again.         *)
CountedOnce == \A row \in unsettled' \ unsettled : row \in stored' \ stored /\ row.check \in checks

StoreInv == UniqueRows /\ RowsOfChecks

(* One row per check and time, of a check that exists.                     *)
THEOREM UniqueRowsHolds == Spec => []StoreInv
<1>1. Init => StoreInv
  BY DEF Init, StoreInv, UniqueRows, RowsOfChecks
<1>2. ASSUME StoreInv, [Next]_storeVars
      PROVE  StoreInv'
  <2>1. CASE Store(stored' \ stored)
    <3> DEFINE new == stored' \ stored
    <3>1. /\ new \subseteq Row /\ \A row \in new : row.check \in checks
          /\ \A row \in new : Key(row) \notin Keys(stored)
          /\ \A x, y \in new : Key(x) = Key(y) => x = y
          /\ stored' = stored \cup new /\ checks' = checks
      BY <2>1 DEF Store, Keys
    <3> HIDE DEF new
    <3>2. RowsOfChecks'
      BY <1>2, <3>1 DEF StoreInv, RowsOfChecks, Row
    <3>3. \A x \in new, y \in stored : Key(x) # Key(y)
      BY <3>1 DEF Keys
    <3>4. UniqueRows'
      BY <1>2, <3>1, <3>3 DEF StoreInv, UniqueRows, Key
    <3> QED
      BY <3>2, <3>4 DEF StoreInv
  <2>2. CASE Settle(unsettled \ unsettled') \/ UNCHANGED storeVars
    BY <1>2, <2>2 DEF Settle, storeVars, StoreInv, UniqueRows, RowsOfChecks, Key, Row
  <2>3. CASE \E check \in Checks : Forget(check)
    BY <1>2, <2>3 DEF Forget, StoreInv, UniqueRows, RowsOfChecks, Key, Row
  <2> QED
    BY <1>2, <2>1, <2>2, <2>3 DEF Next
<1> QED
  BY <1>1, <1>2, PTL DEF Spec

(* A row is never changed nor lost while its check exists.                 *)
THEOREM RowsStayHolds == Spec => [][RowsStay]_storeVars
<1>1. [Next]_storeVars => [RowsStay]_storeVars
  BY DEF Next, Store, Settle, Forget, RowsStay, storeVars
<1> QED
  BY <1>1, PTL DEF Spec

(* No row is counted by two answers.                                       *)
THEOREM CountedOnceHolds == Spec => [][CountedOnce]_storeVars
<1>1. [Next]_storeVars => [CountedOnce]_storeVars
  <2>1. Store(stored' \ stored) => CountedOnce
    BY DEF Store, CountedOnce
  <2>2. Settle(unsettled \ unsettled') \/ (\E check \in Checks : Forget(check)) => CountedOnce
    BY DEF Settle, Forget, CountedOnce
  <2> QED
    BY <2>1, <2>2 DEF Next
<1> QED
  BY <1>1, PTL DEF Spec
=============================================================================
