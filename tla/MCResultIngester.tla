-------------------------- MODULE MCResultIngester --------------------------
(* Two checks of two elements.  The first two batches hold the same keys   *)
(* in opposite orders and disagree on a value; the third is newer, late at *)
(* first, and has a result with a malformed id; the fourth names its check *)
(* in another spelling.                                                    *)
EXTENDS ResultIngester, TLC

CONSTANTS c1, c2

MCElements == {1, 2}
MCElementOf == (c1 :> 1) @@ (c2 :> 2)

Result(check, canonical, at, passed) ==
    [check |-> check, canonical |-> canonical, at |-> at, passed |-> passed]

MCBatches ==
    {<<Result(c1, TRUE, 0, TRUE), Result(c2, TRUE, 0, TRUE)>>,
     <<Result(c2, TRUE, 0, TRUE), Result(c1, TRUE, 0, FALSE)>>,
     <<Result(c1, TRUE, 2, FALSE), Result(Malformed, TRUE, 1, TRUE)>>,
     <<Result(c2, FALSE, 1, FALSE)>>}
=============================================================================
