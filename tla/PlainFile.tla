----------------------------- MODULE PlainFile -----------------------------
(***************************************************************************)
(* What a VFS promises its caller about one database file: the pages that  *)
(* were written are the pages there are, whatever processes come and go.   *)
(* A call that makes the file longer or shorter takes two steps, so that   *)
(* it can fail or be cut short by a crash half way; between calls nothing  *)
(* changes.  A file whose truncation did not complete is `ragged': the     *)
(* pages beyond the new end may show again when it is next opened.         *)
(***************************************************************************)
EXTENDS Integers, Sequences

CONSTANTS
    Cells,      \* what a page can hold
    Limit       \* bound: pages in a file

VARIABLES
    content,    \* the pages of the file
    pend,       \* the call in progress
    ragged      \* a truncation did not complete

pvars == <<content, pend, ragged>>

Nothing == [op |-> "none", i |-> 0, v |-> <<>>]

Starts(s, t) == Len(s) <= Len(t) /\ \A i \in 1 .. Len(s) : s[i] = t[i]

PInit == pend = Nothing /\ ragged = FALSE

Store(i, v) ==
    /\ pend = Nothing /\ i <= Len(content)
    /\ content' = IF i < Len(content) THEN [content EXCEPT ![i + 1] = v] ELSE Append(content, v)
    /\ UNCHANGED <<pend, ragged>>

\* The new pages hold anything until the write is finished.
Grow(i, v) ==
    /\ pend = Nothing /\ i >= Len(content)
    /\ Len(content') = i + 1 /\ Starts(content, content')
    /\ pend' = [op |-> "write", i |-> i, v |-> v]
    /\ ragged' => ragged

Finish ==
    /\ pend.op = "write"
    /\ content' = [content EXCEPT ![pend.i + 1] = pend.v]
    /\ pend' = Nothing
    /\ UNCHANGED ragged

Cut(n) ==
    /\ pend = Nothing /\ n <= Len(content)
    /\ content' = SubSeq(content, 1, n)
    /\ pend' = [op |-> "cut", i |-> n, v |-> <<>>]
    /\ ragged' = TRUE

FinishCut ==
    /\ pend.op = "cut"
    /\ pend' = Nothing /\ ragged' = FALSE
    /\ UNCHANGED content

\* The call in progress fails, or its process dies.
Abandon == pend' = Nothing /\ ragged' \in BOOLEAN /\ (ragged' => ragged) /\ UNCHANGED content

\* A ragged file is opened again.
Reappear ==
    /\ ragged
    /\ Starts(content, content')
    /\ pend' = Nothing /\ ragged' = FALSE

PNext ==
    /\ pvars' # pvars
    /\ \/ \E i \in 0 .. Limit, v \in Cells : Store(i, v) \/ Grow(i, v)
       \/ \E n \in 0 .. Limit : Cut(n)
       \/ Finish \/ FinishCut \/ Abandon \/ Reappear

PSpec == PInit /\ [][PNext]_pvars
=============================================================================
