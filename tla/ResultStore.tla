----------------------------- MODULE ResultStore -----------------------------
(***************************************************************************)
(* What the result ingester promises about one agent's check results,      *)
(* however many submissions run at once, fail halfway or are repeated: a   *)
(* batch appears in the store as a whole or not at all; one row per check  *)
(* and time, whose value never changes and which leaves the store only     *)
(* with its check; and a stored row is accounted for at most once.         *)
(***************************************************************************)
CONSTANTS Checks, Times

VARIABLES
    checks,         \* the checks that exist
    stored,         \* the agent's rows
    unsettled       \* stored, and not yet counted in an answer

storeVars == <<checks, stored, unsettled>>

Row == [check : Checks, at : Times, passed : BOOLEAN]
Key(row) == <<row.check, row.at>>
Keys(rows) == {Key(row) : row \in rows}

Init == checks = Checks /\ stored = {} /\ unsettled = {}

(* The new rows of a batch, all at once.                                   *)
Store(new) ==
    /\ new \subseteq Row /\ \A row \in new : row.check \in checks
    /\ Keys(new) \cap Keys(stored) = {}
    /\ \A x, y \in new : Key(x) = Key(y) => x = y
    /\ stored' = stored \cup new
    /\ unsettled' = unsettled \cup new
    /\ UNCHANGED checks

(* An answer counts the rows, or nobody ever will.                         *)
Settle(rows) ==
    /\ rows \subseteq unsettled
    /\ unsettled' = unsettled \ rows
    /\ UNCHANGED <<checks, stored>>

Forget(check) ==
    /\ check \in checks
    /\ checks' = checks \ {check}
    /\ stored' = {row \in stored : row.check # check}
    /\ UNCHANGED unsettled

Next ==
    \/ Store(stored' \ stored)
    \/ Settle(unsettled \ unsettled')
    \/ \E check \in Checks : Forget(check)

Spec == Init /\ [][Next]_storeVars
=============================================================================
