------------------------------ MODULE MCNsLock ------------------------------
(* Small instances of NsLock for TLC. *)
EXTENDS NsLock, TLC

CONSTANTS o1, h1, h2, h3

MakePlan(rs, r, w, o) ==
    [useReadSet |-> rs, reads |-> r, writes |-> w, fast |-> DOMAIN w, owner |-> o]

\* Commits of the owners and of nobody, page-checked, checked against the last
\* write version, and in two phases.
MCPlan ==
    { MakePlan(TRUE, {1}, (1 :> h1 @@ 2 :> h1), o1),
      MakePlan(FALSE, {2}, (2 :> h2), o1),
      MakePlan(TRUE, {1}, (1 :> h3), NoOwner),
      MakePlan(FALSE, {1}, (2 :> h2), NoOwner) }

Symmetry == Permutations(Tx) \cup Permutations(Handler)
=============================================================================
