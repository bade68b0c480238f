---------------------------- MODULE ContentStore ----------------------------
(***************************************************************************)
(* The content store of one namespace: pages stored under their hash,      *)
(* whole or as a delta against another page (write.rs, delta/), commits    *)
(* that refer to them, and the garbage collector that deletes content      *)
(* nobody refers to (gc.rs) while all of this goes on.                     *)
(*                                                                         *)
(* The collector works on an inconsistent picture: it scans the page index *)
(* and the delta referrers in many transactions, at many versions.         *)
(*                                                                         *)
(* Versions are compared in two ways only, and kept as the outcome of the  *)
(* comparison: whether a key changed since an open transaction's read      *)
(* version (stale), and whether a hash was bumped since the collector's    *)
(* RAW-RV (fresh).                                                         *)
(***************************************************************************)
EXTENDS KeyRange

CONSTANTS
    Writer,            \* clients that upload and commit pages
    Collector,         \* runs of the garbage collector
    Page, Hash,        \* page indexes and content hashes, as numbers
    GcScanBatchSize,   \* GC_SCAN_BATCH_SIZE
    MaxCommits         \* commits to the page index (bound)

VARIABLES
    ver,      \* version of the last commit to the page index
    idx,      \* page index
    content,  \* hash -> how its page is stored
    referrer, \* delta referrer: hash of a delta page -> hash of its base
    ci,       \* hashes in the content index
    wr,       \* state of each writer
    gc        \* state of each collector

store == <<ver, idx, content, referrer, ci>>
vars == <<ver, idx, content, referrer, ci, wr, gc>>

NoHash == 0
ASSUME StoreAssumption == /\ Page \subseteq Nat
                          /\ Hash \subseteq Nat \ {NoHash} /\ IsFiniteSet(Hash)
                          /\ MaxCommits \in Nat
                          /\ GcScanBatchSize \in Nat \ {0}

IndexEntry == [page : Page, ver : Nat, hash : Hash]
Absent == [kind |-> "none", base |-> NoHash]
Whole == [kind |-> "whole", base |-> NoHash]
Delta(b) == [kind |-> "delta", base |-> b]
Stored == {Absent, Whole} \cup {Delta(b) : b \in Hash}

\* What a writer is doing: pc, the page and content it writes, and of its open
\* transaction what it will store (Absent: nothing, it is there), the page
\* index entries read for the base and whether the content index changed.
WriterType == [pc : {"idle", "writing", "uploaded", "committing", "fast"},
               page : Page \cup {0}, hash : Hash \cup {NoHash}, put : Stored,
               read : SUBSET IndexEntry, stale : BOOLEAN]
IdleWriter == [pc |-> "idle", page |-> 0, hash |-> NoHash, put |-> Absent, read |-> {},
               stale |-> FALSE]

\* A collector: the cursor of its scan, the hashes it saw referred to, those
\* bumped since RAW-RV, and those it is about to delete.
CollectorType == [pc : {"idle", "index", "referrers", "content", "delete"},
                  cursor : Nat \X Nat, refs : SUBSET Hash, fresh : SUBSET Hash,
                  queue : SUBSET Hash, stale : BOOLEAN]
IdleCollector == [pc |-> "idle", cursor |-> <<0, 0>>, refs |-> {}, fresh |-> {}, queue |-> {},
                  stale |-> FALSE]

\* The types of the store, its writers and collectors.
StoreTypeOK ==
    /\ ver \in 0..MaxCommits
    /\ idx \subseteq IndexEntry
    /\ content \in [Hash -> Stored]
    /\ referrer \in [Hash -> Hash \cup {NoHash}]
    /\ ci \subseteq Hash
    /\ wr \in [Writer -> WriterType]
    /\ gc \in [Collector -> CollectorType]

Init ==
    /\ ver = 0
    /\ idx = {}
    /\ content = [h \in Hash |-> Absent]
    /\ referrer = [h \in Hash |-> NoHash]
    /\ ci = {}
    /\ wr = [w \in Writer |-> IdleWriter]
    /\ gc = [g \in Collector |-> IdleCollector]

\* A write of the content index entries of H conflicts with the transactions
\* that read them.
WritersAfter(H) ==
    [w \in Writer |-> IF wr[w].pc \in {"writing", "committing", "fast"} /\ wr[w].hash \in H
                      THEN [wr[w] EXCEPT !.stale = TRUE] ELSE wr[w]]
CollectorsAfter(H, bumped) ==
    [g \in Collector |-> IF gc[g].pc = "idle" THEN gc[g]
                         ELSE [gc[g] EXCEPT !.fresh = (@ \ H) \cup bumped,
                                            !.stale = @ \/ gc[g].queue \cap H # {}]]

-----------------------------------------------------------------------------
(* Storing pages                                                            *)

\* delta/reader.rs 36-106: the latest entry of a page, as a set.
Latest(p) == {e \in idx : e.page = p /\ \A f \in idx : f.page = p => f.ver <= e.ver}

\* Mutant: a delta is encoded against the latest version as it is stored.
DeltaBaseUnflattened(p) == {e.hash : e \in {f \in Latest(p) : content[f.hash].kind # "none"}}

\* Mutant: the base of the latest version is taken without looking whether
\* that version is a delta.
DeltaBaseAlwaysFlattened(p) == {content[e.hash].base : e \in Latest(p)}

\* delta/writer.rs 33-73: the base of a delta, of which there is at most one.
\* When the latest version of the page is itself a delta, its base is taken.
DeltaBase(p) ==
    {IF content[e.hash].kind = "delta" THEN content[e.hash].base ELSE e.hash :
        e \in {f \in Latest(p) : content[f.hash].kind # "none"}}

\* Mutant: content that is stored already is encoded again.
EncodingsAgain(p, h) == {Whole} \cup {Delta(b) : b \in DeltaBase(p)}

\* write.rs 119-232: how the page is going to be stored.  Whether a delta is
\* worth it depends on the bytes (delta/writer.rs 74-95).
Encodings(p, h) ==
    IF h \in ci THEN {Absent} ELSE {Whole} \cup {Delta(b) : b \in DeltaBase(p)}

\* The transaction reads the content index of h and, unless h is stored, the
\* page index for the base.
ApplyWrite(w, p, h, pc) ==
    \E s \in Encodings(p, h) :
        wr' = [wr EXCEPT ![w] = [pc |-> pc, page |-> p, hash |-> h, put |-> s,
                                 read |-> IF s = Absent THEN {} ELSE Latest(p),
                                 stale |-> FALSE]]

\* server.rs 1354-1409: batch/write, up to its commit.
BatchWrite(w, p, h) ==
    /\ wr[w].pc = "idle"
    /\ ApplyWrite(w, p, h, "writing")
    /\ UNCHANGED <<store, gc>>

\* commit.rs 98-150: a commit that brings its page along.
FastWrite(w, p, h) ==
    /\ wr[w].pc = "idle"
    /\ ApplyWrite(w, p, h, "fast")
    /\ UNCHANGED <<store, gc>>

\* lib.rs 491-494, 580-583: content that was seen when reading is not uploaded.
SkipUpload(w, p, h) ==
    /\ wr[w].pc = "idle"
    /\ \E e \in idx : e.hash = h
    /\ wr' = [wr EXCEPT ![w] = [IdleWriter EXCEPT !.pc = "uploaded", !.page = p, !.hash = h]]
    /\ UNCHANGED <<store, gc>>

\* The resolver's check: the content index of h is as it was read, and so are
\* the page index entries that were read, which can only have been deleted.
NoConflict(w) == ~wr[w].stale /\ wr[w].read \subseteq idx

\* write.rs 173-180, 226-230: the content index entries written.
Bumped(w) ==
    {wr[w].hash} \cup (IF wr[w].put.kind = "delta" THEN {wr[w].put.base} ELSE {})

\* write.rs 171-180, 219-232: the writes of the transaction.
StorePage(w) ==
    LET h == wr[w].hash
        s == wr[w].put
    IN  /\ content' = IF s = Absent THEN content ELSE [content EXCEPT ![h] = s]
        /\ referrer' = IF s.kind = "delta" THEN [referrer EXCEPT ![h] = s.base] ELSE referrer
        /\ ci' = ci \cup Bumped(w)
        /\ gc' = CollectorsAfter(Bumped(w), Bumped(w))

\* commit.rs 288-310: the page index gets a new version of the page.
AddPageVersion(w) ==
    /\ ver < MaxCommits
    /\ ver' = ver + 1
    /\ idx' = idx \cup {[page |-> wr[w].page, ver |-> ver + 1, hash |-> wr[w].hash]}

\* server.rs 1419-1431: the upload commits; its reply may get lost, then the
\* client uploads again.
CommitBatchWrite(w) ==
    /\ wr[w].pc = "writing"
    /\ NoConflict(w)
    /\ StorePage(w)
    /\ \E next \in {IdleWriter, [IdleWriter EXCEPT !.pc = "uploaded", !.page = wr[w].page,
                                                    !.hash = wr[w].hash]} :
          wr' = [WritersAfter(Bumped(w)) EXCEPT ![w] = next]
    /\ UNCHANGED <<ver, idx>>

\* commit.rs 135-150: the commit of an uploaded page looks at its content index.
CommitReads(w) ==
    /\ wr[w].pc = "uploaded"
    /\ wr' = [wr EXCEPT ![w] = IF wr[w].hash \notin ci THEN IdleWriter
                               ELSE [wr[w] EXCEPT !.pc = "committing"]]
    /\ UNCHANGED <<store, gc>>

\* commit.rs 288-355: the commit goes through; that of a fast write stores the
\* page and refers to it at once.
CommitPage(w) ==
    /\ wr[w].pc \in {"committing", "fast"}
    /\ NoConflict(w)
    /\ AddPageVersion(w)
    /\ StorePage(w)
    /\ wr' = [WritersAfter(Bumped(w)) EXCEPT ![w] = IdleWriter]

\* A conflict, another FoundationDB error, or the client gives up.
WriterFails(w) ==
    /\ wr[w].pc # "idle"
    /\ wr' = [wr EXCEPT ![w] = IdleWriter]
    /\ UNCHANGED <<store, gc>>

\* gc.rs 143-156 and nslock.rs 211-239: truncation and rollback delete page
\* versions.  Which ones does not matter here.
DeletePageVersion(e) ==
    /\ e \in idx
    /\ idx' = idx \ {e}
    /\ UNCHANGED <<ver, content, referrer, ci, wr, gc>>

-----------------------------------------------------------------------------
(* The garbage collector                                                    *)

IndexKeys == {<<e.page, e.ver>> : e \in idx}
HashKeys(H) == {<<h, 0>> : h \in H}

Step(g, r) == gc' = [gc EXCEPT ![g] = r]

\* gc.rs 276-326: the read version RAW-RV, and a first pass that only counts;
\* when it finds nothing the collector stops.
GcStart(g) ==
    /\ gc[g].pc = "idle"
    /\ Step(g, [IdleCollector EXCEPT !.pc = "index"])
    /\ UNCHANGED <<store, wr>>

\* gc.rs 189-254, 329-332: one batch of the page index.
GcScanPageIndex(g) ==
    /\ gc[g].pc = "index"
    /\ LET batch == NextKeys(IndexKeys, gc[g].cursor, GcScanBatchSize)
       IN  Step(g, IF batch = {} THEN [gc[g] EXCEPT !.pc = "referrers", !.cursor = <<0, 0>>]
                   ELSE [gc[g] EXCEPT !.cursor = LastKey(batch),
                            !.refs = @ \cup {e.hash : e \in {f \in idx : <<f.page, f.ver>> \in batch}}])
    /\ UNCHANGED <<store, wr>>

\* gc.rs 189-236, 256-274, 333-336: one batch of the delta referrers.
GcScanDeltaReferrer(g) ==
    /\ gc[g].pc = "referrers"
    /\ LET keys == HashKeys({h \in Hash : referrer[h] # NoHash})
           batch == NextKeys(keys, gc[g].cursor, GcScanBatchSize)
       IN  Step(g, IF batch = {} THEN [gc[g] EXCEPT !.pc = "content", !.cursor = <<0, 0>>]
                   ELSE [gc[g] EXCEPT !.cursor = LastKey(batch),
                                      !.refs = @ \cup {referrer[k[1]] : k \in batch}])
    /\ UNCHANGED <<store, wr>>

\* Mutant: content that was written or bumped after RAW-RV is not spared.
DeletableFresh(g, H) == H \ gc[g].refs

\* gc.rs 398-418: neither seen in a scan nor bumped since RAW-RV.
Deletable(g, H) == H \ (gc[g].refs \cup gc[g].fresh)

\* gc.rs 347-427: TXN1 scans a batch of the content index.  The Bloom filter
\* and the age limit (gc.rs 403-411) may spare any of it.
GcScanContentIndex(g) ==
    /\ gc[g].pc = "content"
    /\ LET batch == NextKeys(HashKeys(ci), gc[g].cursor, GcScanBatchSize)
       IN  IF batch = {} THEN Step(g, IdleCollector)
           ELSE \E queue \in SUBSET Deletable(g, {k[1] : k \in batch}) :
                  Step(g, [gc[g] EXCEPT !.cursor = LastKey(batch), !.queue = queue,
                                        !.stale = FALSE,
                                        !.pc = IF queue = {} THEN "content" ELSE "delete"])
    /\ UNCHANGED <<store, wr>>

\* Mutant: the deletion does not conflict with bumps since TXN1.
UntouchedSinceScanAlways(g) == TRUE

\* gc.rs 429-440: TXN2 has the read version of TXN1 and conflicts with every
\* bump since.
UntouchedSinceScan(g) == ~gc[g].stale

\* gc.rs 433-462: TXN2 deletes the content and its index entries.
GcDelete(g) ==
    /\ gc[g].pc = "delete"
    /\ UntouchedSinceScan(g)
    /\ LET Q == gc[g].queue
       IN  /\ content' = [h \in Hash |-> IF h \in Q THEN Absent ELSE content[h]]
           /\ referrer' = [h \in Hash |-> IF h \in Q THEN NoHash ELSE referrer[h]]
           /\ ci' = ci \ Q
           /\ wr' = WritersAfter(Q)
           /\ gc' = [CollectorsAfter(Q, {}) EXCEPT ![g].pc = "content", ![g].queue = {},
                                                   ![g].stale = FALSE]
    /\ UNCHANGED <<ver, idx>>

\* gc.rs 451-462: a dry run, or a commit that failed and is not repeated.
GcSkip(g) ==
    /\ gc[g].pc = "delete"
    /\ Step(g, [gc[g] EXCEPT !.pc = "content", !.queue = {}, !.stale = FALSE])
    /\ UNCHANGED <<store, wr>>

\* lock.rs 63-76: the collector has lost its lock or its server stops.
GcStops(g) ==
    /\ gc[g].pc # "idle"
    /\ Step(g, IdleCollector)
    /\ UNCHANGED <<store, wr>>

Write(w, H) ==
    \/ \E p \in Page, h \in H : BatchWrite(w, p, h) \/ FastWrite(w, p, h) \/ SkipUpload(w, p, h)
    \/ CommitBatchWrite(w) \/ CommitReads(w) \/ CommitPage(w) \/ WriterFails(w)
Collect(g) ==
    \/ GcStart(g) \/ GcScanPageIndex(g) \/ GcScanDeltaReferrer(g)
    \/ GcScanContentIndex(g) \/ GcDelete(g) \/ GcSkip(g) \/ GcStops(g)

Next ==
    \/ \E w \in Writer : Write(w, Hash)
    \/ \E g \in Collector : Collect(g)
    \/ \E e \in idx : DeletePageVersion(e)

Spec == Init /\ [][Next]_vars

-----------------------------------------------------------------------------
(* Properties                                                               *)

\* Every version of every page has its content: nothing that the collector
\* does on its inconsistent picture of the store takes it away, nor does a
\* commit refer to content that a collector is deleting (gc.rs 347-462,
\* commit.rs 135-150).
PagesReadable == \A e \in idx : content[e.hash].kind # "none"

\* Stored deltas are one level deep and never lose their base, which is all
\* that the reader can decode (delta/reader.rs 207-245), also those that no
\* commit refers to yet (delta/writer.rs 51-69, write.rs 119-145, gc.rs 333).
DeltasDecodable ==
    \A h \in Hash : content[h].kind = "delta" => content[content[h].base] = Whole
=============================================================================
