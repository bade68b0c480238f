------------------------------ MODULE MCCommit ------------------------------
(* Small instances of Commit for TLC. *)
EXTENDS Commit, TLC

CONSTANTS p1, p2, h1, h2, h3

\* One plan per kind of commit: blind, read-modify-write of one page, a read
\* of one page and a write of the other, with and without a read set, fast and
\* uploaded, and a large one (two pages) that runs in two phases.
MakePlan(rs, r, w, f) ==
    [useReadSet |-> rs, reads |-> r, writes |-> w, fast |-> f, owner |-> NoOwner]

MCPlan ==
    { MakePlan(TRUE, {}, (p1 :> h1), {p1}),
      MakePlan(TRUE, {p1}, (p1 :> h2), {p1}),
      MakePlan(TRUE, {p2}, (p1 :> h2), {}),
      MakePlan(TRUE, {p1}, (p2 :> h1), {p2}),
      MakePlan(FALSE, {p1}, (p2 :> h3), {}),
      MakePlan(FALSE, {p2}, (p1 :> h3), {p1}),
      MakePlan(TRUE, {p1}, (p1 :> h1 @@ p2 :> h2), {p1}) }

Symmetry == Permutations(Tx)
=============================================================================
