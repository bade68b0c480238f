----------------------------- MODULE MCTruncate -----------------------------
(* Small instances of Truncate for TLC. *)
EXTENDS Truncate, TLC

CONSTANTS o1, h1, h2

\* Commits to one page and to both, with and without the lock.
MCPlan ==
    {[useReadSet |-> TRUE, reads |-> {1}, writes |-> w, fast |-> DOMAIN w, owner |-> o] :
        w \in {(1 :> h1), (1 :> h2 @@ 2 :> h2)}, o \in {o1, NoOwner}}

Symmetry == Permutations(Tx)
=============================================================================
