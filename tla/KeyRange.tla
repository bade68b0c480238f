------------------------------ MODULE KeyRange ------------------------------
(***************************************************************************)
(* Limited range reads of FoundationDB.  A key is a pair: a page index and *)
(* a version for the page index, a hash and 0 for the indexes by hash.     *)
(***************************************************************************)
EXTENDS Naturals, FiniteSets

\* The order of the keys.
Before(a, b) == a[1] < b[1] \/ (a[1] = b[1] /\ a[2] < b[2])

\* At most n keys of S that come after the cursor.
NextKeys(S, cursor, n) ==
    LET rest == {k \in S : Before(cursor, k)}
    IN  {k \in rest : Cardinality({j \in rest : Before(j, k)}) < n}

\* The key a scan goes on from.
LastKey(S) == CHOOSE k \in S : \A j \in S : ~Before(k, j)
=============================================================================
