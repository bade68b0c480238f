------------------------------ MODULE MCContent ------------------------------
(* Small instances of ContentStore for TLC. *)
EXTENDS ContentStore, TLC

VARIABLE scene

\* Two writers with two contents and two commits; one writer at a time with all
\* of the contents and commits, which bring their pages along.
Scenes == {"pair", "single"}
\* Versions a single writer has in the page index at a time (bound): a third
\* commit follows a truncation.
MaxLive == 2

MCInit == scene \in Scenes /\ Init

Pair ==
    /\ scene = "pair"
    /\ \E w \in Writer : Write(w, {1, 2})
    /\ ver' < MaxCommits
    /\ UNCHANGED scene
Single ==
    /\ scene = "single"
    /\ \E w \in Writer : /\ Write(w, Hash) /\ wr'[w].pc # "writing"
                         /\ \A x \in Writer \ {w} : wr[x].pc = "idle"
    /\ Cardinality(idx') <= MaxLive
    /\ UNCHANGED scene
Background ==
    /\ \/ \E g \in Collector : Collect(g)
       \/ \E e \in idx : DeletePageVersion(e)
    /\ UNCHANGED scene

Symmetry == Permutations(Writer)

MCSpec == MCInit /\ [][Pair \/ Single \/ Background]_<<scene, vars>>
=============================================================================
