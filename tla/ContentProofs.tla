---------------------------- MODULE ContentProofs ----------------------------
(***************************************************************************)
(* Proofs about ContentStore, for any number of writers and collectors and *)
(* any batch size: every page version stays readable and every stored      *)
(* delta keeps its base, whatever the collectors delete.                   *)
(***************************************************************************)
EXTENDS ContentStore, KeyRangeProofs

\* Leaves are given to Zenon unless they name another prover.
USE ZenonT(30)

-----------------------------------------------------------------------------
(* The inductive invariant                                                  *)

\* What is in the content index is stored, and nothing else is; the delta
\* referrers say what the stored deltas say (write.rs 171-232, gc.rs 433-447).
IndexMatches ==
    /\ ci = {h \in Hash : content[h].kind # "none"}
    /\ \A h \in Hash : referrer[h] = content[h].base

\* The versions in the page index have been given out, and there are only so
\* many of them.
VersionsGiven ==
    /\ IsFiniteSet(idx)
    /\ \A e \in idx : 0 < e.ver /\ e.ver <= ver

\* What the open transaction of a writer still knows of the store.
Active == {"writing", "committing", "fast"}
WriterKnows(w) ==
    /\ wr[w].pc # "idle" => wr[w].page \in Page /\ wr[w].hash \in Hash
    /\ wr[w].pc \in {"idle", "uploaded", "committing"} => wr[w].put = Absent
    /\ wr[w].pc \in Active /\ ~wr[w].stale => (wr[w].put = Absent <=> wr[w].hash \in ci)
    /\ \A e \in wr[w].read : e.ver <= ver
    /\ wr[w].put.kind = "delta" /\ wr[w].read \subseteq idx =>
          \E e \in wr[w].read : \/ e.hash = wr[w].put.base /\ content[e.hash] = Whole
                                \/ content[e.hash] = wr[w].put

\* What a collector will not delete: what it saw referred to, and what was
\* bumped since RAW-RV.
Spared(g) == gc[g].refs \cup gc[g].fresh

\* A scan has seen all that is behind its cursor, except what was added since,
\* which is spared as well.
CollectorKnows(g) ==
    /\ gc[g].pc = "index" =>
          \A e \in idx : e.hash \in Spared(g) \/ Before(gc[g].cursor, <<e.page, e.ver>>)
    /\ gc[g].pc \in {"referrers", "content", "delete"} => \A e \in idx : e.hash \in Spared(g)
    /\ gc[g].pc = "referrers" =>
          \A h \in Hash : \/ referrer[h] \in Spared(g) \cup {NoHash}
                          \/ Before(gc[g].cursor, <<h, 0>>)
    /\ gc[g].pc \in {"content", "delete"} => \A h \in Hash : referrer[h] \in Spared(g) \cup {NoHash}
    /\ gc[g].pc = "delete" /\ ~gc[g].stale => gc[g].queue \cap Spared(g) = {}

IInv ==
    /\ StoreTypeOK
    /\ PagesReadable
    /\ DeltasDecodable
    /\ IndexMatches
    /\ VersionsGiven
    /\ \A w \in Writer : WriterKnows(w)
    /\ \A g \in Collector : CollectorKnows(g)

-----------------------------------------------------------------------------
(* Types                                                                    *)

\* The three forms of a page in the store.
LEMMA StoredForms ==
    ASSUME NEW s \in Stored
    PROVE  /\ s.kind \in {"none", "whole", "delta"}
           /\ s.kind = "none" <=> s = Absent
           /\ s.kind = "whole" <=> s = Whole
           /\ s.kind = "delta" => s.base \in Hash /\ s = Delta(s.base)
           /\ s.kind # "delta" => s.base = NoHash
<1>1. CASE s = Absent
  BY <1>1 DEF Absent, Whole
<1>2. CASE s = Whole
  BY <1>2 DEF Absent, Whole
<1>3. CASE \E b \in Hash : s = Delta(b)
  BY SMTT(30), <1>3 DEF Absent, Whole, Delta
<1> QED
  BY <1>1, <1>2, <1>3 DEF Stored

\* The encodings of a page are stored forms, as its base is a hash.
LEMMA EncodingsType ==
    ASSUME StoreTypeOK, DeltasDecodable, NEW p \in Page, NEW h \in Hash
    PROVE  Encodings(p, h) \subseteq Stored /\ Latest(p) \subseteq IndexEntry
<1>1. Latest(p) \subseteq IndexEntry
  BY DEF Latest, StoreTypeOK
<1>2. ASSUME NEW e \in Latest(p), content[e.hash].kind = "delta"
      PROVE  content[e.hash].base \in Hash
  <2>1. e.hash \in Hash
    BY <1>1 DEF IndexEntry
  <2>2. content[e.hash] \in Stored
    BY <2>1 DEF StoreTypeOK
  <2> QED
    BY <2>2, <1>2, StoredForms
<1>3. DeltaBase(p) \subseteq Hash
  BY <1>1, <1>2 DEF DeltaBase, IndexEntry
<1> QED
  BY <1>1, <1>3 DEF Encodings, Stored

\* The transactions that a write of the content index conflicts with keep their
\* types.
LEMMA AfterType ==
    ASSUME StoreTypeOK, NEW H \in SUBSET Hash, NEW B \in SUBSET Hash
    PROVE  /\ WritersAfter(H) \in [Writer -> WriterType]
           /\ CollectorsAfter(H, B) \in [Collector -> CollectorType]
<1>1. ASSUME NEW w \in Writer
      PROVE  wr[w] \in WriterType /\ [wr[w] EXCEPT !.stale = TRUE] \in WriterType
  BY DEF StoreTypeOK, WriterType
<1>2. ASSUME NEW g \in Collector
      PROVE  /\ gc[g] \in CollectorType
             /\ [gc[g] EXCEPT !.fresh = (@ \ H) \cup B,
                              !.stale = @ \/ gc[g].queue \cap H # {}] \in CollectorType
  <2>1. gc[g] \in CollectorType
    BY DEF StoreTypeOK
  <2>2. (gc[g].stale \/ gc[g].queue \cap H # {}) \in BOOLEAN
    OBVIOUS
  <2> QED
    BY <2>1, <2>2 DEF CollectorType
<1> QED
  BY <1>1, <1>2 DEF WritersAfter, CollectorsAfter

\* So do the writes of an upload or of a commit.
LEMMA StorePageType ==
    ASSUME StoreTypeOK, NEW w \in Writer, wr[w].hash \in Hash, StorePage(w)
    PROVE  /\ Bumped(w) \subseteq Hash
           /\ content' \in [Hash -> Stored]
           /\ referrer' \in [Hash -> Hash \cup {NoHash}]
           /\ ci' \subseteq Hash
           /\ gc' \in [Collector -> CollectorType]
           /\ WritersAfter(Bumped(w)) \in [Writer -> WriterType]
<1>1. wr[w].put \in Stored
  BY DEF StoreTypeOK, WriterType
<1>2. wr[w].put.kind = "delta" => wr[w].put.base \in Hash
  BY <1>1, StoredForms
<1>3. Bumped(w) \subseteq Hash
  BY <1>2 DEF Bumped
<1>4. content' \in [Hash -> Stored]
  BY <1>1 DEF StoreTypeOK, StorePage
<1>5. referrer' \in [Hash -> Hash \cup {NoHash}] /\ ci' \subseteq Hash
  BY <1>2, <1>3 DEF StoreTypeOK, StorePage
<1> QED
  BY <1>3, <1>4, <1>5, AfterType DEF StorePage

\* The forms of a page in the store, and the records of idle processes.
LEMMA IdleTypes ==
    /\ Absent \in Stored /\ Whole \in Stored
    /\ IdleWriter \in WriterType /\ IdleCollector \in CollectorType
BY DEF Stored, Absent, Whole, IdleWriter, WriterType, IdleCollector, CollectorType

\* The keys that scans go through are finite sets of pairs of numbers.
LEMMA KeysType ==
    ASSUME StoreTypeOK, IsFiniteSet(idx)
    PROVE  /\ IndexKeys \in SUBSET (Nat \X Nat) /\ IsFiniteSet(IndexKeys)
           /\ \A H \in SUBSET Hash : HashKeys(H) \in SUBSET (Nat \X Nat) /\ IsFiniteSet(HashKeys(H))
<1>1. IndexKeys \in SUBSET (Nat \X Nat)
  <2>1. \A e \in idx : e.page \in Nat /\ e.ver \in Nat
    BY StoreAssumption DEF StoreTypeOK, IndexEntry
  <2> QED
    BY SMTT(30), <2>1 DEF IndexKeys
<1>2. IsFiniteSet(IndexKeys)
  <2> DEFINE f == [e \in idx |-> <<e.page, e.ver>>]
  <2>1. f \in Surjection(idx, IndexKeys)
    BY DEF Surjection, IndexKeys
  <2> QED
    BY <2>1, FS_Surjection
<1>3. ASSUME NEW H \in SUBSET Hash
      PROVE  HashKeys(H) \in SUBSET (Nat \X Nat) /\ IsFiniteSet(HashKeys(H))
  <2> DEFINE f == [h \in H |-> <<h, 0>>]
  <2>1. IsFiniteSet(H)
    BY StoreAssumption, FS_Subset
  <2>2. f \in Surjection(H, HashKeys(H))
    BY DEF Surjection, HashKeys
  <2> QED
    BY SMTT(30), <2>1, <2>2, FS_Surjection, StoreAssumption DEF HashKeys
<1> QED
  BY <1>1, <1>2, <1>3

-----------------------------------------------------------------------------
(* Steps of a single process                                                *)

\* A step that changes only the state of one writer keeps the invariant if the
\* writer's new state does.
LEMMA WriterMoves ==
    ASSUME IInv, NEW w \in Writer, NEW r \in WriterType, wr' = [wr EXCEPT ![w] = r],
           UNCHANGED <<store, gc>>, WriterKnows(w)'
    PROVE  IInv'
<1> USE DEF store
<1>1. StoreTypeOK'
  BY DEF IInv, StoreTypeOK
<1>2. PagesReadable' /\ DeltasDecodable' /\ IndexMatches' /\ VersionsGiven'
  BY DEF IInv, PagesReadable, DeltasDecodable, IndexMatches, VersionsGiven
<1>3. ASSUME NEW x \in Writer, x # w PROVE WriterKnows(x)'
  <2>1. wr'[x] = wr[x]
    BY <1>3 DEF IInv, StoreTypeOK
  <2> QED
    BY SMTT(30), <2>1, <1>3 DEF IInv, WriterKnows
<1>4. ASSUME NEW g \in Collector PROVE CollectorKnows(g)'
  BY <1>4 DEF IInv, CollectorKnows, Spared
<1> QED
  BY <1>1, <1>2, <1>3, <1>4 DEF IInv

\* Likewise for a collector.
LEMMA CollectorMoves ==
    ASSUME IInv, NEW g \in Collector, NEW r \in CollectorType, gc' = [gc EXCEPT ![g] = r],
           UNCHANGED <<store, wr>>, CollectorKnows(g)'
    PROVE  IInv'
<1> USE DEF store
<1>1. StoreTypeOK'
  BY DEF IInv, StoreTypeOK
<1>2. PagesReadable' /\ DeltasDecodable' /\ IndexMatches' /\ VersionsGiven'
  BY DEF IInv, PagesReadable, DeltasDecodable, IndexMatches, VersionsGiven
<1>3. ASSUME NEW x \in Collector, x # g PROVE CollectorKnows(x)'
  <2>1. gc'[x] = gc[x]
    BY <1>3 DEF IInv, StoreTypeOK
  <2> QED
    BY <2>1, <1>3 DEF IInv, CollectorKnows, Spared
<1>4. ASSUME NEW w \in Writer PROVE WriterKnows(w)'
  BY <1>4 DEF IInv, WriterKnows
<1> QED
  BY <1>1, <1>2, <1>3, <1>4 DEF IInv

\* Opening the transaction of an upload or of a commit with its page (write.rs
\* 74-170): the writer knows whether the content is there, and what the base of
\* its delta is.
LEMMA ApplyWriteStep ==
    ASSUME IInv, NEW w \in Writer, NEW p \in Page, NEW h \in Hash, NEW pc \in {"writing", "fast"},
           ApplyWrite(w, p, h, pc), UNCHANGED <<store, gc>>
    PROVE  IInv'
<1>1. PICK s \in Encodings(p, h) :
         wr' = [wr EXCEPT ![w] = [pc |-> pc, page |-> p, hash |-> h, put |-> s,
                                  read |-> IF s = Absent THEN {} ELSE Latest(p),
                                  stale |-> FALSE]]
  BY DEF ApplyWrite
<1> DEFINE r == [pc |-> pc, page |-> p, hash |-> h, put |-> s,
                 read |-> IF s = Absent THEN {} ELSE Latest(p), stale |-> FALSE]
<1>2. s \in Stored /\ Latest(p) \subseteq IndexEntry
  BY EncodingsType DEF IInv
<1>3. r \in WriterType
  BY <1>2 DEF WriterType
<1>4. s = Absent <=> h \in ci
  BY SMTT(30) DEF Encodings, Absent, Whole, Delta
<1>5. Latest(p) \subseteq idx
  BY DEF Latest
<1>6. ASSUME s.kind = "delta"
      PROVE  \E e \in Latest(p) : \/ e.hash = s.base /\ content[e.hash] = Whole
                                  \/ content[e.hash] = s
  <2>1. PICK b \in DeltaBase(p) : s = Delta(b)
    BY SMTT(30), <1>6 DEF Encodings, Absent, Whole
  <2>2. PICK e \in Latest(p) :
           /\ content[e.hash].kind # "none"
           /\ b = IF content[e.hash].kind = "delta" THEN content[e.hash].base ELSE e.hash
    BY <2>1 DEF DeltaBase
  <2>3. content[e.hash] \in Stored
    BY <1>2 DEF IInv, StoreTypeOK, IndexEntry
  <2>4. CASE content[e.hash].kind = "delta"
    BY <2>1, <2>2, <2>3, <2>4, StoredForms
  <2>5. CASE content[e.hash].kind = "whole"
    BY <2>1, <2>2, <2>3, <2>5, StoredForms DEF Delta
  <2> QED
    BY <2>2, <2>3, <2>4, <2>5, StoredForms
<1>7. WriterKnows(w)'
  <2>1. wr'[w] = r
    BY <1>1 DEF IInv, StoreTypeOK
  <2>2. \A e \in r.read : e.ver <= ver
    BY <1>5 DEF IInv, VersionsGiven
  <2>3. s.kind = "delta" => r.read = Latest(p)
    BY SMTT(30) DEF Absent
  <2> QED
    BY SMTT(30), <2>1, <2>2, <2>3, <1>4, <1>5, <1>6 DEF WriterKnows, store
<1> HIDE DEF r
<1> QED
  BY <1>1, <1>3, <1>7, WriterMoves DEF r

-----------------------------------------------------------------------------
(* Steps that change the store                                              *)

\* When a transaction commits without a conflict, what it found out about the
\* content index is still so: new content is not there, content that is not
\* stored is, and the base of a delta is a whole page.
LEMMA CommitKnows ==
    ASSUME IInv, NEW w \in Writer, wr[w].pc \in Active, NoConflict(w)
    PROVE  /\ wr[w].page \in Page /\ wr[w].hash \in Hash /\ wr[w].put \in Stored
           /\ wr[w].put # Absent => wr[w].hash \notin ci /\ content[wr[w].hash] = Absent
           /\ wr[w].put = Absent => wr[w].hash \in ci
           /\ wr[w].put.kind = "delta" => /\ wr[w].put.base \in ci
                                          /\ content[wr[w].put.base] = Whole
<1>1. WriterKnows(w) /\ wr[w].put \in Stored
  BY DEF IInv, StoreTypeOK, WriterType
<1>2. /\ wr[w].page \in Page /\ wr[w].hash \in Hash
      /\ wr[w].put = Absent <=> wr[w].hash \in ci
  BY <1>1 DEF WriterKnows, Active, NoConflict
<1>3. wr[w].hash \notin ci => content[wr[w].hash] = Absent
  BY <1>2, StoredForms DEF IInv, IndexMatches, StoreTypeOK
<1>4. ASSUME wr[w].put.kind = "delta"
      PROVE  wr[w].put.base \in ci /\ content[wr[w].put.base] = Whole
  <2>1. PICK e \in wr[w].read : \/ e.hash = wr[w].put.base /\ content[e.hash] = Whole
                                \/ content[e.hash] = wr[w].put
    BY <1>1, <1>4 DEF WriterKnows, NoConflict
  <2>2. e.hash \in Hash /\ wr[w].put.base \in Hash
    BY <1>1, <1>4, StoredForms DEF IInv, StoreTypeOK, NoConflict, IndexEntry
  <2>3. content[wr[w].put.base] = Whole
    BY <2>1, <2>2, <1>4 DEF IInv, DeltasDecodable
  <2> QED
    BY SMTT(30), <2>2, <2>3 DEF IInv, IndexMatches, Whole
<1> QED
  BY <1>1, <1>2, <1>3, <1>4

\* The writes of a transaction that commits (write.rs 171-232), with or without
\* a new version of the page in the page index (commit.rs 288-310).
LEMMA StorePageStep ==
    ASSUME IInv, NEW w \in Writer, wr[w].pc \in Active, NoConflict(w), StorePage(w),
           \/ UNCHANGED <<ver, idx>>
           \/ AddPageVersion(w),
           NEW r \in WriterType, wr' = [WritersAfter(Bumped(w)) EXCEPT ![w] = r],
           r.pc \in {"idle", "uploaded"}, r.put = Absent, r.read = {},
           r.pc = "uploaded" => r.page \in Page /\ r.hash \in Hash
    PROVE  IInv'
<1> DEFINE h == wr[w].hash
           s == wr[w].put
           new == [page |-> wr[w].page, ver |-> ver + 1, hash |-> h]
<1>1. /\ h \in Hash /\ s \in Stored /\ wr[w].page \in Page
      /\ s # Absent => h \notin ci /\ content[h] = Absent
      /\ s = Absent => h \in ci
      /\ s.kind = "delta" => s.base \in ci /\ content[s.base] = Whole
  BY CommitKnows
<1>2. ver \in Nat /\ ver' \in Nat /\ ver <= ver' /\ ver' \in 0..MaxCommits
  BY SMTT(30), StoreAssumption DEF AddPageVersion, IInv, StoreTypeOK
<1>3. /\ idx' \subseteq idx \cup {new}
      /\ idx \subseteq idx'
      /\ new \in idx' => ver' = ver + 1 \/ new \in idx
  BY DEF AddPageVersion
<1>4. new \in IndexEntry
  BY SMTT(30), <1>1, <1>2 DEF IndexEntry
<1>5. StoreTypeOK'
  <2>1. idx' \subseteq IndexEntry
    BY <1>3, <1>4 DEF IInv, StoreTypeOK
  <2>2. wr' \in [Writer -> WriterType]
    BY <1>1, StorePageType DEF IInv
  <2> QED
    BY <2>1, <2>2, <1>1, <1>2, StorePageType DEF IInv, StoreTypeOK
<1>6. VersionsGiven'
  <2>1. IsFiniteSet(idx)
    BY DEF IInv, VersionsGiven
  <2>2. IsFiniteSet(idx')
    <3>1. CASE UNCHANGED <<ver, idx>>
      BY <3>1, <2>1
    <3>2. CASE AddPageVersion(w)
      <4>1. IsFiniteSet(idx \cup {new})
        BY <2>1, FS_AddElement
      <4>2. idx' = idx \cup {new}
        BY <3>2 DEF AddPageVersion
      <4> QED
        BY <4>1, <4>2
    <3> QED
      BY <3>1, <3>2
  <2>3. ASSUME NEW e \in idx' PROVE 0 < e.ver /\ e.ver <= ver'
    <3>1. CASE e \in idx
      BY SMTT(30), <3>1, <1>2, <2>3 DEF IInv, VersionsGiven, StoreTypeOK, IndexEntry
    <3>2. CASE e = new /\ ver' = ver + 1
      BY SMTT(30), <3>2, <1>2
    <3> QED
      BY <3>1, <3>2, <2>3, <1>3
  <2> QED
    BY <2>2, <2>3 DEF VersionsGiven
\* The content that was stored before is as it was; that of h is stored now.
<1>7. \A x \in Hash : x # h \/ s = Absent => content'[x] = content[x] /\ referrer'[x] = referrer[x]
  BY SMTT(30), <1>1 DEF StorePage, IInv, StoreTypeOK, Absent
<1>8. s # Absent => content'[h] = s /\ referrer'[h] = s.base
  <2>1. ASSUME s # Absent PROVE content'[h] = s
    BY <2>1, <1>1 DEF StorePage, IInv, StoreTypeOK
  <2>2. ASSUME s # Absent PROVE referrer'[h] = s.base
    <3>1. CASE s.kind = "delta"
      BY <3>1, <1>1 DEF StorePage, IInv, StoreTypeOK
    <3>2. CASE s.kind # "delta"
      <4>1. s.base = NoHash /\ content[h].base = NoHash
        BY SMTT(30), <3>2, <2>2, <1>1, StoredForms DEF Absent
      <4> QED
        BY <3>2, <4>1, <1>1 DEF StorePage, IInv, IndexMatches
    <3> QED
      BY <3>1, <3>2
  <2> QED
    BY <2>1, <2>2
<1>9. ci' = ci \cup {h} /\ h \in Bumped(w) /\ (s.kind = "delta" => s.base \in Bumped(w))
  BY <1>1 DEF StorePage, Bumped
<1>10. \A x \in ci : content'[x] = content[x]
  BY <1>1, <1>7 DEF IInv, StoreTypeOK
<1>11. content'[h].kind # "none"
  <2>1. CASE s = Absent
    BY <2>1, <1>1, <1>10 DEF IInv, IndexMatches
  <2>2. CASE s # Absent
    BY <2>2, <1>1, <1>8, StoredForms
  <2> QED
    BY <2>1, <2>2
<1>12. IndexMatches'
  <2>1. ci' = {x \in Hash : content'[x].kind # "none"}
    BY <1>1, <1>7, <1>9, <1>10, <1>11 DEF IInv, IndexMatches
  <2>2. \A x \in Hash : referrer'[x] = content'[x].base
    BY <1>7, <1>8 DEF IInv, IndexMatches
  <2> QED
    BY <2>1, <2>2 DEF IndexMatches
<1>13. PagesReadable'
  <2>1. ASSUME NEW e \in idx PROVE content'[e.hash].kind # "none"
    BY <2>1, <1>10 DEF IInv, PagesReadable, IndexMatches, StoreTypeOK, IndexEntry
  <2> QED
    BY SMTT(30), <2>1, <1>3, <1>11 DEF PagesReadable
<1>14. DeltasDecodable'
  <2>1. ASSUME NEW x \in Hash, content'[x].kind = "delta"
        PROVE  content'[content'[x].base] = Whole
    <3>1. CASE x = h /\ s # Absent
      BY <3>1, <2>1, <1>1, <1>8, <1>10
    <3>2. CASE ~(x = h /\ s # Absent)
      <4>1. content'[x] = content[x]
        BY <3>2, <1>7
      <4>2. content[content[x].base] = Whole /\ content[x].base \in Hash
        BY <4>1, <2>1, StoredForms DEF IInv, DeltasDecodable, StoreTypeOK
      <4>3. content[x].base \in ci
        BY SMTT(30), <4>2 DEF IInv, IndexMatches, Whole
      <4> QED
        BY <4>1, <4>2, <4>3, <1>10
    <3> QED
      BY <3>1, <3>2
  <2> QED
    BY <2>1 DEF DeltasDecodable
<1>15. ASSUME NEW x \in Writer PROVE WriterKnows(x)'
  <2>1. CASE x = w
    <3>1. wr'[x] = r
      BY <2>1, <1>1, StorePageType DEF IInv
    <3> QED
      BY SMTT(30), <3>1 DEF WriterKnows, Active, Absent
  <2>2. CASE x # w
    <3>1. wr'[x] = WritersAfter(Bumped(w))[x]
      BY <2>2, <1>1, StorePageType DEF IInv
    <3>2. /\ wr'[x] = wr[x] \/ wr'[x] = [wr[x] EXCEPT !.stale = TRUE]
          /\ wr[x].pc \in Active /\ wr[x].hash \in Bumped(w) => wr'[x] = [wr[x] EXCEPT !.stale = TRUE]
      BY <3>1 DEF WritersAfter, Active
    <3>3. wr[x] \in WriterType
      BY DEF IInv, StoreTypeOK
    <3>4. /\ wr'[x].pc = wr[x].pc /\ wr'[x].page = wr[x].page /\ wr'[x].hash = wr[x].hash
          /\ wr'[x].put = wr[x].put /\ wr'[x].read = wr[x].read
          /\ ~wr'[x].stale => ~wr[x].stale
          /\ ~wr'[x].stale /\ wr[x].pc \in Active => wr[x].hash \notin Bumped(w)
      BY SMTT(30), <3>2, <3>3 DEF WriterType
    <3>5. WriterKnows(x)
      BY DEF IInv
    <3>6. wr'[x].pc \in Active /\ ~wr'[x].stale => (wr'[x].put = Absent <=> wr'[x].hash \in ci')
      BY SMTT(30), <3>4, <3>5, <1>9 DEF WriterKnows
    <3>7. \A e \in wr'[x].read : e.ver <= ver'
      BY SMTT(30), <3>3, <3>4, <3>5, <1>2 DEF WriterKnows, WriterType, IndexEntry
    \* An entry that was read is not the new one, so it is an old one.
    <3>8. wr'[x].read \subseteq idx' => wr[x].read \subseteq idx
      <4>1. ASSUME NEW e \in wr[x].read, e = new, ver' = ver + 1 PROVE FALSE
        BY SMTT(30), <4>1, <3>5, <1>2 DEF WriterKnows
      <4> QED
        BY <4>1, <3>4, <1>3
    <3>9. ASSUME wr'[x].put.kind = "delta", wr'[x].read \subseteq idx'
          PROVE  \E e \in wr'[x].read : \/ e.hash = wr'[x].put.base /\ content'[e.hash] = Whole
                                        \/ content'[e.hash] = wr'[x].put
      <4>1. PICK e \in wr[x].read : \/ e.hash = wr[x].put.base /\ content[e.hash] = Whole
                                    \/ content[e.hash] = wr[x].put
        BY <3>4, <3>5, <3>8, <3>9 DEF WriterKnows
      <4>2. e \in idx
        BY <4>1, <3>8, <3>9
      <4>3. e.hash \in ci
        BY <4>2 DEF IInv, PagesReadable, IndexMatches, StoreTypeOK, IndexEntry
      <4> QED
        BY <4>1, <4>3, <3>4, <1>10
    <3> QED
      BY <3>4, <3>5, <3>6, <3>7, <3>9 DEF WriterKnows
  <2> QED
    BY <2>1, <2>2
<1>16. ASSUME NEW g \in Collector PROVE CollectorKnows(g)'
  <2>1. gc[g] \in CollectorType /\ CollectorKnows(g)
    BY DEF IInv, StoreTypeOK
  <2>2. CASE gc[g].pc = "idle"
    BY <2>2 DEF StorePage, CollectorsAfter, CollectorKnows
  <2>3. CASE gc[g].pc # "idle"
    <3>1. gc'[g] = [gc[g] EXCEPT !.fresh = (@ \ Bumped(w)) \cup Bumped(w),
                                 !.stale = @ \/ gc[g].queue \cap Bumped(w) # {}]
      BY <2>3 DEF StorePage, CollectorsAfter
    <3>2. /\ gc'[g].pc = gc[g].pc /\ gc'[g].cursor = gc[g].cursor /\ gc'[g].queue = gc[g].queue
          /\ Spared(g)' = Spared(g) \cup Bumped(w)
          /\ ~gc'[g].stale => ~gc[g].stale /\ gc[g].queue \cap Bumped(w) = {}
      BY <3>1, <2>1 DEF CollectorType, Spared
    <3>3. ASSUME NEW e \in idx' PROVE e \in idx \/ e.hash \in Bumped(w)
      <4>1. e \in idx \/ e = new
        BY <1>3
      <4>2. new.hash = h
        OBVIOUS
      <4> QED
        BY <4>1, <4>2, <1>9
    <3>4. ASSUME NEW x \in Hash PROVE referrer'[x] = referrer[x] \/ referrer'[x] \in Bumped(w) \cup {NoHash}
      BY <1>1, <1>7, <1>8, <1>9, StoredForms
    <3> QED
      BY <2>1, <3>2, <3>3, <3>4 DEF CollectorKnows
  <2> QED
    BY <2>2, <2>3
<1> QED
  BY <1>5, <1>6, <1>12, <1>13, <1>14, <1>15, <1>16 DEF IInv

\* The other steps of a writer: content that is known is not uploaded
\* (lib.rs 580-583), the commit looks at the content index (commit.rs 135-150),
\* and any transaction may fail.
LEMMA OtherWriterSteps ==
    ASSUME IInv, NEW w \in Writer, NEW p \in Page, NEW h \in Hash,
           SkipUpload(w, p, h) \/ CommitReads(w) \/ WriterFails(w)
    PROVE  IInv'
<1> DEFINE up == [IdleWriter EXCEPT !.pc = "uploaded", !.page = p, !.hash = h]
           com == [wr[w] EXCEPT !.pc = "committing"]
<1>1. wr[w] \in WriterType /\ WriterKnows(w) /\ wr \in [Writer -> WriterType]
  BY DEF IInv, StoreTypeOK
<1>2. ASSUME UNCHANGED <<store, gc>>, wr' = [wr EXCEPT ![w] = IdleWriter] PROVE IInv'
  <2>1. wr'[w] = IdleWriter
    BY <1>1, <1>2
  <2>2. WriterKnows(w)'
    BY SMTT(30), <2>1 DEF WriterKnows, IdleWriter, Active, Absent
  <2> QED
    BY <1>2, <2>2, IdleTypes, WriterMoves
<1>3. CASE SkipUpload(w, p, h)
  <2>1. up \in WriterType
    BY IdleTypes DEF IdleWriter, WriterType
  <2>2. wr' = [wr EXCEPT ![w] = up] /\ UNCHANGED <<store, gc>>
    BY <1>3 DEF SkipUpload
  <2>3. wr'[w] = up
    BY <1>1, <2>2
  <2>4. WriterKnows(w)'
    BY SMTT(30), <2>3 DEF WriterKnows, IdleWriter, Active, Absent
  <2> QED
    BY <2>1, <2>2, <2>4, WriterMoves
<1>4. CASE CommitReads(w) /\ wr[w].hash \in ci
  <2>1. com \in WriterType
    BY <1>1 DEF WriterType
  <2>2. wr' = [wr EXCEPT ![w] = com] /\ UNCHANGED <<store, gc>> /\ wr[w].pc = "uploaded"
    BY <1>4 DEF CommitReads
  <2>3. /\ wr'[w].pc = "committing" /\ wr'[w].page = wr[w].page /\ wr'[w].hash = wr[w].hash
        /\ wr'[w].put = wr[w].put /\ wr'[w].read = wr[w].read
    BY <1>1, <2>2 DEF WriterType
  <2>4. wr[w].put = Absent
    BY <1>1, <2>2 DEF WriterKnows
  <2>5. WriterKnows(w)'
    BY SMTT(30), <2>2, <2>3, <2>4, <1>1, <1>4 DEF WriterKnows, Absent, store
  <2> QED
    BY <2>1, <2>2, <2>5, WriterMoves
<1>5. CASE CommitReads(w) /\ wr[w].hash \notin ci
  BY <1>5, <1>2 DEF CommitReads
<1>6. CASE WriterFails(w)
  BY <1>6, <1>2 DEF WriterFails
<1> QED
  BY <1>3, <1>4, <1>5, <1>6

\* The two commits: of an upload (server.rs 1419-1431) and of a page version
\* (commit.rs 288-355).
LEMMA CommitSteps ==
    ASSUME IInv, NEW w \in Writer, CommitBatchWrite(w) \/ CommitPage(w)
    PROVE  IInv'
<1> DEFINE up == [IdleWriter EXCEPT !.pc = "uploaded", !.page = wr[w].page, !.hash = wr[w].hash]
<1>1. wr[w].pc \in Active /\ NoConflict(w) /\ StorePage(w)
  BY DEF CommitBatchWrite, CommitPage, Active
<1>2. UNCHANGED <<ver, idx>> \/ AddPageVersion(w)
  BY DEF CommitBatchWrite, CommitPage
<1>3. wr[w].page \in Page /\ wr[w].hash \in Hash
  BY <1>1, CommitKnows
<1>4. CASE wr' = [WritersAfter(Bumped(w)) EXCEPT ![w] = IdleWriter]
  <2>1. /\ IdleWriter \in WriterType /\ IdleWriter.pc = "idle" /\ IdleWriter.put = Absent
        /\ IdleWriter.read = {}
    BY IdleTypes DEF IdleWriter
  <2> QED
    BY <1>1, <1>2, <1>4, <2>1, StorePageStep
<1>5. CASE wr' = [WritersAfter(Bumped(w)) EXCEPT ![w] = up]
  <2>1. /\ up \in WriterType /\ up.pc = "uploaded" /\ up.put = Absent /\ up.read = {}
        /\ up.page = wr[w].page /\ up.hash = wr[w].hash
    BY <1>3, IdleTypes DEF IdleWriter, WriterType
  <2> HIDE DEF up
  <2> QED
    BY <1>1, <1>2, <1>3, <1>5, <2>1, StorePageStep
<1> QED
  BY <1>4, <1>5 DEF CommitBatchWrite, CommitPage

\* Truncation and rollback delete page versions (gc.rs 143-156, nslock.rs
\* 211-239); a writer that read a deleted entry will not commit.
LEMMA DeletePageVersionStep ==
    ASSUME IInv, NEW e \in idx, DeletePageVersion(e)
    PROVE  IInv'
<1>1. idx' \subseteq idx /\ UNCHANGED <<ver, content, referrer, ci, wr, gc>>
  BY DEF DeletePageVersion
<1>2. StoreTypeOK' /\ PagesReadable' /\ DeltasDecodable' /\ IndexMatches'
  BY <1>1 DEF IInv, StoreTypeOK, PagesReadable, DeltasDecodable, IndexMatches
<1>3. IsFiniteSet(idx')
  BY <1>1, FS_Subset DEF IInv, VersionsGiven
<1>4. VersionsGiven'
  BY <1>1, <1>3 DEF IInv, VersionsGiven
<1>5. ASSUME NEW w \in Writer PROVE WriterKnows(w)'
  <2>1. wr[w].read \subseteq idx' => wr[w].read \subseteq idx
    BY <1>1
  <2> QED
    BY <1>1, <2>1 DEF IInv, WriterKnows
<1>6. ASSUME NEW g \in Collector PROVE CollectorKnows(g)'
  BY <1>1, <1>6 DEF IInv, CollectorKnows, Spared
<1> QED
  BY <1>2, <1>4, <1>5, <1>6 DEF IInv

-----------------------------------------------------------------------------
(* Steps of a collector                                                     *)

\* A collector starts, stops, or gives a deletion up (gc.rs 276-326, 451-462).
LEMMA GcControlSteps ==
    ASSUME IInv, NEW g \in Collector, GcStart(g) \/ GcSkip(g) \/ GcStops(g)
    PROVE  IInv'
<1> DEFINE start == [IdleCollector EXCEPT !.pc = "index"]
           skip == [gc[g] EXCEPT !.pc = "content", !.queue = {}, !.stale = FALSE]
<1>1. gc[g] \in CollectorType /\ CollectorKnows(g) /\ gc \in [Collector -> CollectorType]
  BY DEF IInv, StoreTypeOK
<1>2. CASE GcStart(g)
  <2>1. start \in CollectorType
    BY IdleTypes DEF IdleCollector, CollectorType
  <2>2. gc' = [gc EXCEPT ![g] = start] /\ UNCHANGED <<store, wr>>
    BY <1>2 DEF GcStart, Step
  <2>3. gc'[g].pc = "index" /\ gc'[g].cursor = <<0, 0>>
    BY <1>1, <2>2 DEF IdleCollector
  <2>4. \A e \in idx : Before(<<0, 0>>, <<e.page, e.ver>>)
    <3>1. \A e \in idx : e.page \in Nat /\ e.ver \in Nat /\ 0 < e.ver
      BY StoreAssumption DEF IInv, VersionsGiven, StoreTypeOK, IndexEntry
    <3> QED
      BY SMTT(30), <3>1 DEF Before
  <2>5. CollectorKnows(g)'
    BY <2>2, <2>3, <2>4 DEF CollectorKnows, store
  <2> QED
    BY <2>1, <2>2, <2>5, CollectorMoves
<1>3. CASE GcSkip(g)
  <2>1. skip \in CollectorType
    BY <1>1 DEF CollectorType
  <2>2. gc' = [gc EXCEPT ![g] = skip] /\ UNCHANGED <<store, wr>> /\ gc[g].pc = "delete"
    BY <1>3 DEF GcSkip, Step
  <2>3. gc'[g].pc = "content" /\ gc'[g].refs = gc[g].refs /\ gc'[g].fresh = gc[g].fresh
    BY <1>1, <2>2 DEF CollectorType
  <2>4. CollectorKnows(g)'
    BY <1>1, <2>2, <2>3 DEF CollectorKnows, Spared, store
  <2> QED
    BY <2>1, <2>2, <2>4, CollectorMoves
<1>4. CASE GcStops(g)
  <2>1. gc' = [gc EXCEPT ![g] = IdleCollector] /\ UNCHANGED <<store, wr>>
    BY <1>4 DEF GcStops, Step
  <2>2. gc'[g].pc = "idle"
    BY <1>1, <2>1 DEF IdleCollector
  <2>3. CollectorKnows(g)'
    BY <2>2 DEF CollectorKnows
  <2> QED
    BY <2>1, <2>3, IdleTypes, CollectorMoves
<1> QED
  BY <1>2, <1>3, <1>4

\* One batch of the page index (gc.rs 189-254): what is behind the new cursor
\* has been seen.
LEMMA GcScanPageIndexStep ==
    ASSUME IInv, NEW g \in Collector, GcScanPageIndex(g)
    PROVE  IInv'
<1> DEFINE cursor == gc[g].cursor
           batch == NextKeys(IndexKeys, cursor, GcScanBatchSize)
           seen == {e.hash : e \in {f \in idx : <<f.page, f.ver>> \in batch}}
           done == [gc[g] EXCEPT !.pc = "referrers", !.cursor = <<0, 0>>]
           more == [gc[g] EXCEPT !.cursor = LastKey(batch), !.refs = @ \cup seen]
<1>1. gc[g] \in CollectorType /\ CollectorKnows(g) /\ gc \in [Collector -> CollectorType]
  BY DEF IInv, StoreTypeOK
<1>2. cursor \in Nat \X Nat /\ gc[g].pc = "index" /\ UNCHANGED <<store, wr>>
  BY <1>1 DEF CollectorType, GcScanPageIndex
<1>3. IndexKeys \in SUBSET (Nat \X Nat) /\ IsFiniteSet(IndexKeys)
  BY KeysType DEF IInv, VersionsGiven
<1>4. GcScanBatchSize \in Nat \ {0}
  BY StoreAssumption
<1>5. /\ batch \subseteq IndexKeys
      /\ batch = {} => \A k \in IndexKeys : ~Before(cursor, k)
      /\ batch # {} => /\ LastKey(batch) \in batch
                       /\ \A k \in IndexKeys : Before(cursor, k) => k \in batch \/ Before(LastKey(batch), k)
  BY <1>2, <1>3, <1>4, BatchCovers
<1>6. gc' = [gc EXCEPT ![g] = IF batch = {} THEN done ELSE more]
  BY DEF GcScanPageIndex, Step
<1> HIDE DEF batch, cursor
<1>7. \A e \in idx : <<e.page, e.ver>> \in IndexKeys
  BY DEF IndexKeys
<1>8. \A e \in idx : e.hash \in Spared(g) \/ Before(cursor, <<e.page, e.ver>>)
  BY <1>1, <1>2 DEF CollectorKnows, cursor
<1>9. CASE batch = {}
  <2>1. done \in CollectorType
    BY <1>1 DEF CollectorType
  <2>2. /\ gc'[g].pc = "referrers" /\ gc'[g].cursor = <<0, 0>> /\ gc'[g].refs = gc[g].refs
        /\ gc'[g].fresh = gc[g].fresh
    BY <1>1, <1>6, <1>9 DEF CollectorType
  <2>3. \A h \in Hash : Before(<<0, 0>>, <<h, 0>>)
    BY SMTT(30), StoreAssumption DEF Before, NoHash
  <2>4. \A e \in idx : e.hash \in Spared(g)
    BY <1>5, <1>7, <1>8, <1>9
  <2>5. CollectorKnows(g)'
    BY <1>2, <2>2, <2>3, <2>4 DEF CollectorKnows, Spared, store
  <2> QED
    BY <1>2, <1>6, <1>9, <2>1, <2>5, CollectorMoves
<1>10. CASE batch # {}
  <2>1. seen \subseteq Hash /\ LastKey(batch) \in Nat \X Nat
    BY <1>3, <1>5, <1>10 DEF IInv, StoreTypeOK, IndexEntry
  <2>2. more \in CollectorType
    BY <1>1, <2>1 DEF CollectorType
  <2>3. /\ gc'[g].pc = "index" /\ gc'[g].cursor = LastKey(batch)
        /\ gc'[g].refs = gc[g].refs \cup seen /\ gc'[g].fresh = gc[g].fresh
    BY <1>1, <1>2, <1>6, <1>10 DEF CollectorType
  <2>4. \A e \in idx : \/ e.hash \in Spared(g) \cup seen
                       \/ Before(LastKey(batch), <<e.page, e.ver>>)
    BY <1>5, <1>7, <1>8, <1>10
  <2>5. CollectorKnows(g)'
    BY <1>2, <2>3, <2>4 DEF CollectorKnows, Spared, store
  <2> QED
    BY <1>2, <1>6, <1>10, <2>2, <2>5, CollectorMoves
<1> QED
  BY <1>9, <1>10

\* One batch of the delta referrers (gc.rs 256-274).
LEMMA GcScanDeltaReferrerStep ==
    ASSUME IInv, NEW g \in Collector, GcScanDeltaReferrer(g)
    PROVE  IInv'
<1> DEFINE cursor == gc[g].cursor
           deltas == {h \in Hash : referrer[h] # NoHash}
           batch == NextKeys(HashKeys(deltas), cursor, GcScanBatchSize)
           seen == {referrer[k[1]] : k \in batch}
           done == [gc[g] EXCEPT !.pc = "content", !.cursor = <<0, 0>>]
           more == [gc[g] EXCEPT !.cursor = LastKey(batch), !.refs = @ \cup seen]
<1>1. gc[g] \in CollectorType /\ CollectorKnows(g) /\ gc \in [Collector -> CollectorType]
  BY DEF IInv, StoreTypeOK
<1>2. cursor \in Nat \X Nat /\ gc[g].pc = "referrers" /\ UNCHANGED <<store, wr>>
  BY <1>1 DEF CollectorType, GcScanDeltaReferrer
<1>3. HashKeys(deltas) \in SUBSET (Nat \X Nat) /\ IsFiniteSet(HashKeys(deltas))
  BY KeysType DEF IInv, VersionsGiven
<1>4. GcScanBatchSize \in Nat \ {0}
  BY StoreAssumption
<1>5. /\ batch \subseteq HashKeys(deltas)
      /\ batch = {} => \A k \in HashKeys(deltas) : ~Before(cursor, k)
      /\ batch # {} => /\ LastKey(batch) \in batch
                       /\ \A k \in HashKeys(deltas) :
                             Before(cursor, k) => k \in batch \/ Before(LastKey(batch), k)
  BY <1>2, <1>3, <1>4, BatchCovers
<1>6. gc' = [gc EXCEPT ![g] = IF batch = {} THEN done ELSE more]
  BY DEF GcScanDeltaReferrer, Step
<1> HIDE DEF batch, cursor
<1>7. \A h \in deltas : <<h, 0>> \in HashKeys(deltas)
  BY DEF HashKeys
<1>8. /\ \A h \in Hash : referrer[h] \in Spared(g) \cup {NoHash} \/ Before(cursor, <<h, 0>>)
      /\ \A e \in idx : e.hash \in Spared(g)
  BY <1>1, <1>2 DEF CollectorKnows, cursor
<1>9. CASE batch = {}
  <2>1. done \in CollectorType
    BY <1>1 DEF CollectorType
  <2>2. gc'[g].pc = "content" /\ gc'[g].refs = gc[g].refs /\ gc'[g].fresh = gc[g].fresh
    BY <1>1, <1>6, <1>9 DEF CollectorType
  <2>3. \A h \in Hash : referrer[h] \in Spared(g) \cup {NoHash}
    BY <1>5, <1>7, <1>8, <1>9
  <2>4. CollectorKnows(g)'
    BY <1>2, <1>8, <2>2, <2>3 DEF CollectorKnows, Spared, store
  <2> QED
    BY <1>2, <1>6, <1>9, <2>1, <2>4, CollectorMoves
<1>10. CASE batch # {}
  <2>1. ASSUME NEW k \in batch PROVE k[1] \in deltas
    BY SMTT(30), <1>5 DEF HashKeys
  <2>2. seen \subseteq Hash /\ LastKey(batch) \in Nat \X Nat
    BY <1>3, <1>5, <1>10, <2>1 DEF IInv, StoreTypeOK
  <2>3. more \in CollectorType
    BY <1>1, <2>2 DEF CollectorType
  <2>4. /\ gc'[g].pc = "referrers" /\ gc'[g].cursor = LastKey(batch)
        /\ gc'[g].refs = gc[g].refs \cup seen /\ gc'[g].fresh = gc[g].fresh
    BY <1>1, <1>2, <1>6, <1>10 DEF CollectorType
  <2>5. ASSUME NEW h \in Hash
        PROVE  \/ referrer[h] \in Spared(g) \cup seen \cup {NoHash}
               \/ Before(LastKey(batch), <<h, 0>>)
    <3>1. CASE <<h, 0>> \in batch
      <4>1. <<h, 0>>[1] = h
        OBVIOUS
      <4>2. referrer[<<h, 0>>[1]] \in seen
        BY <3>1
      <4> QED
        BY <4>1, <4>2
    <3>2. CASE <<h, 0>> \notin batch
      BY <3>2, <1>5, <1>7, <1>8, <1>10
    <3> QED
      BY <3>1, <3>2
  <2>6. CollectorKnows(g)'
    <3> HIDE DEF seen
    <3> QED
      BY <1>2, <1>8, <2>4, <2>5 DEF CollectorKnows, Spared, store
  <2> QED
    BY <1>2, <1>6, <1>10, <2>3, <2>6, CollectorMoves
<1> QED
  BY <1>9, <1>10

\* One batch of the content index (gc.rs 347-427): the queue has nothing that
\* is spared.
LEMMA GcScanContentIndexStep ==
    ASSUME IInv, NEW g \in Collector, GcScanContentIndex(g)
    PROVE  IInv'
<1> DEFINE batch == NextKeys(HashKeys(ci), gc[g].cursor, GcScanBatchSize)
           del(q) == [gc[g] EXCEPT !.cursor = LastKey(batch), !.queue = q, !.stale = FALSE,
                                   !.pc = IF q = {} THEN "content" ELSE "delete"]
<1>1. gc[g] \in CollectorType /\ CollectorKnows(g) /\ gc \in [Collector -> CollectorType]
  BY DEF IInv, StoreTypeOK
<1>2. gc[g].cursor \in Nat \X Nat /\ gc[g].pc = "content" /\ UNCHANGED <<store, wr>>
  BY <1>1 DEF CollectorType, GcScanContentIndex
<1>3. HashKeys(ci) \in SUBSET (Nat \X Nat) /\ IsFiniteSet(HashKeys(ci))
  BY KeysType DEF IInv, VersionsGiven, StoreTypeOK
<1>4. GcScanBatchSize \in Nat \ {0}
  BY StoreAssumption
<1>5. batch \subseteq HashKeys(ci) /\ (batch # {} => LastKey(batch) \in batch)
  BY <1>2, <1>3, <1>4, BatchCovers
<1>6. CASE batch = {}
  <2>1. gc' = [gc EXCEPT ![g] = IdleCollector]
    BY <1>6 DEF GcScanContentIndex, Step
  <2>2. gc'[g].pc = "idle"
    BY <1>1, <2>1 DEF IdleCollector
  <2>3. CollectorKnows(g)'
    BY <2>2 DEF CollectorKnows
  <2> QED
    BY <1>2, <2>1, <2>3, IdleTypes, CollectorMoves
<1>7. CASE batch # {}
  <2>1. PICK q \in SUBSET Deletable(g, {k[1] : k \in batch}) : gc' = [gc EXCEPT ![g] = del(q)]
    BY <1>7 DEF GcScanContentIndex, Step
  <2> HIDE DEF batch
  <2>2. \A k \in batch : k[1] \in Hash
    BY SMTT(30), <1>5 DEF HashKeys, IInv, StoreTypeOK
  <2>3. q \subseteq Hash /\ q \cap Spared(g) = {}
    BY <2>1, <2>2 DEF Deletable, Spared
  <2>4. LastKey(batch) \in Nat \X Nat
    BY <1>3, <1>5, <1>7
  <2>5. del(q) \in CollectorType
    BY <1>1, <2>3, <2>4 DEF CollectorType
  <2>6. /\ gc'[g].pc \in {"content", "delete"} /\ gc'[g].queue = q
        /\ gc'[g].refs = gc[g].refs /\ gc'[g].fresh = gc[g].fresh
    BY <1>1, <2>1 DEF CollectorType
  <2>7. CollectorKnows(g)'
    BY <1>1, <1>2, <2>3, <2>6 DEF CollectorKnows, Spared, store
  <2> HIDE DEF del
  <2> QED
    BY <1>2, <2>1, <2>5, <2>7, CollectorMoves
<1> QED
  BY <1>6, <1>7

\* TXN2 (gc.rs 433-462) deletes nothing that a page version or a delta needs,
\* and no transaction that counts on deleted content will commit.
LEMMA GcDeleteStep ==
    ASSUME IInv, NEW g \in Collector, GcDelete(g)
    PROVE  IInv'
<1> DEFINE Q == gc[g].queue
<1>1. gc[g] \in CollectorType /\ CollectorKnows(g) /\ gc \in [Collector -> CollectorType]
  BY DEF IInv, StoreTypeOK
<1>2. gc[g].pc = "delete" /\ ~gc[g].stale /\ Q \subseteq Hash
  BY <1>1 DEF GcDelete, UntouchedSinceScan, CollectorType
<1>3. /\ Q \cap Spared(g) = {}
      /\ \A e \in idx : e.hash \notin Q
      /\ \A h \in Hash : referrer[h] \notin Q
  <2>1. NoHash \notin Q
    BY <1>2, StoreAssumption
  <2> QED
    BY <1>1, <1>2, <2>1 DEF CollectorKnows
<1>4. /\ content' = [h \in Hash |-> IF h \in Q THEN Absent ELSE content[h]]
      /\ referrer' = [h \in Hash |-> IF h \in Q THEN NoHash ELSE referrer[h]]
      /\ ci' = ci \ Q
      /\ wr' = WritersAfter(Q)
      /\ gc' = [CollectorsAfter(Q, {}) EXCEPT ![g].pc = "content", ![g].queue = {},
                                              ![g].stale = FALSE]
      /\ UNCHANGED <<ver, idx>>
  BY DEF GcDelete
<1>5. WritersAfter(Q) \in [Writer -> WriterType] /\ CollectorsAfter(Q, {}) \in [Collector -> CollectorType]
  BY <1>2, AfterType DEF IInv
<1>6. \A h \in Hash \ Q : content'[h] = content[h] /\ referrer'[h] = referrer[h]
  BY <1>4
<1>7. \A h \in Q : content'[h] = Absent /\ referrer'[h] = NoHash
  BY <1>2, <1>4
<1>8. StoreTypeOK'
  <2>1. content' \in [Hash -> Stored]
    BY <1>4, IdleTypes DEF IInv, StoreTypeOK
  <2>2. referrer' \in [Hash -> Hash \cup {NoHash}]
    BY <1>4 DEF IInv, StoreTypeOK
  <2>3. gc' \in [Collector -> CollectorType]
    <3> DEFINE G == CollectorsAfter(Q, {})
    <3>1. G[g] \in CollectorType
      BY <1>5
    <3>2. [G[g] EXCEPT !.pc = "content", !.queue = {}, !.stale = FALSE] \in CollectorType
      BY <3>1 DEF CollectorType
    <3>3. gc' = [G EXCEPT ![g] = [G[g] EXCEPT !.pc = "content", !.queue = {}, !.stale = FALSE]]
      BY <1>4, <1>5
    <3> QED
      BY <1>5, <3>2, <3>3
  <2> QED
    BY <1>4, <1>5, <2>1, <2>2, <2>3 DEF IInv, StoreTypeOK
<1>9. IndexMatches'
  <2>1. ci' = {h \in Hash : content'[h].kind # "none"}
    BY <1>2, <1>4, <1>6, <1>7 DEF IInv, IndexMatches, Absent
  <2>2. \A h \in Hash : referrer'[h] = content'[h].base
    BY SMTT(30), <1>6, <1>7 DEF IInv, IndexMatches, Absent
  <2> QED
    BY <2>1, <2>2 DEF IndexMatches
<1>10. PagesReadable'
  BY <1>3, <1>4, <1>6 DEF IInv, PagesReadable, StoreTypeOK, IndexEntry
<1>11. DeltasDecodable'
  <2>1. ASSUME NEW h \in Hash, content'[h].kind = "delta"
        PROVE  content'[content'[h].base] = Whole
    <3>1. h \notin Q
      BY SMTT(30), <2>1, <1>7 DEF Absent
    <3>2. content'[h] = content[h]
      BY <3>1, <1>6
    <3>3. content[h].base \in Hash \ Q
      BY <2>1, <3>2, <1>3, StoredForms DEF IInv, IndexMatches, StoreTypeOK
    <3> QED
      BY <2>1, <3>2, <3>3, <1>6 DEF IInv, DeltasDecodable
  <2> QED
    BY <2>1 DEF DeltasDecodable
<1>12. VersionsGiven'
  BY <1>4 DEF IInv, VersionsGiven
<1>13. ASSUME NEW w \in Writer PROVE WriterKnows(w)'
  <2>1. wr[w] \in WriterType /\ WriterKnows(w)
    BY DEF IInv, StoreTypeOK
  <2>2. /\ wr'[w] = wr[w] \/ wr'[w] = [wr[w] EXCEPT !.stale = TRUE]
        /\ wr[w].pc \in Active /\ wr[w].hash \in Q => wr'[w] = [wr[w] EXCEPT !.stale = TRUE]
    BY <1>4 DEF WritersAfter, Active
  <2>3. /\ wr'[w].pc = wr[w].pc /\ wr'[w].page = wr[w].page /\ wr'[w].hash = wr[w].hash
        /\ wr'[w].put = wr[w].put /\ wr'[w].read = wr[w].read
        /\ ~wr'[w].stale => ~wr[w].stale
        /\ ~wr'[w].stale /\ wr[w].pc \in Active => wr[w].hash \notin Q
    BY <2>1, <2>2 DEF WriterType
  <2>4. wr'[w].pc \in Active /\ ~wr'[w].stale => (wr'[w].put = Absent <=> wr'[w].hash \in ci')
    BY <2>1, <2>3, <1>4 DEF WriterKnows
  <2>5. ASSUME wr[w].put.kind = "delta", wr[w].read \subseteq idx
        PROVE  \E e \in wr[w].read : \/ e.hash = wr[w].put.base /\ content'[e.hash] = Whole
                                     \/ content'[e.hash] = wr[w].put
    <3>1. PICK e \in wr[w].read : \/ e.hash = wr[w].put.base /\ content[e.hash] = Whole
                                  \/ content[e.hash] = wr[w].put
      BY <2>1, <2>5 DEF WriterKnows
    <3>2. e.hash \in Hash \ Q
      BY <3>1, <2>5, <1>3 DEF IInv, StoreTypeOK, IndexEntry
    <3> QED
      BY <3>1, <3>2, <1>6
  <2> QED
    BY <2>1, <2>3, <2>4, <2>5, <1>4 DEF WriterKnows
<1>14. ASSUME NEW x \in Collector PROVE CollectorKnows(x)'
  <2>1. gc[x] \in CollectorType /\ CollectorKnows(x)
    BY DEF IInv, StoreTypeOK
  <2>2. /\ x # g => gc'[x] = CollectorsAfter(Q, {})[x]
        /\ x = g => gc'[x] = [CollectorsAfter(Q, {})[x] EXCEPT !.pc = "content", !.queue = {},
                                                               !.stale = FALSE]
    BY <1>4, <1>5
  <2>3. CASE gc[x].pc = "idle"
    BY <2>2, <2>3, <1>2 DEF CollectorsAfter, CollectorKnows
  <2>4. CASE gc[x].pc # "idle"
    <3>1. CollectorsAfter(Q, {})[x] = [gc[x] EXCEPT !.fresh = (@ \ Q) \cup {},
                                                    !.stale = @ \/ gc[x].queue \cap Q # {}]
      BY <2>4 DEF CollectorsAfter
    <3>2. /\ gc'[x].cursor = gc[x].cursor /\ gc'[x].refs = gc[x].refs
          /\ gc'[x].fresh = gc[x].fresh \ Q
      <4> HIDE DEF Q
      <4>1. x \in Collector /\ CollectorsAfter(Q, {})[x] \in CollectorType
        BY <1>5
      <4>2. /\ gc'[x].cursor = CollectorsAfter(Q, {})[x].cursor
            /\ gc'[x].refs = CollectorsAfter(Q, {})[x].refs
            /\ gc'[x].fresh = CollectorsAfter(Q, {})[x].fresh
        BY <2>2, <4>1 DEF CollectorType
      <4>3. /\ CollectorsAfter(Q, {})[x].cursor = gc[x].cursor
            /\ CollectorsAfter(Q, {})[x].refs = gc[x].refs
            /\ CollectorsAfter(Q, {})[x].fresh = (gc[x].fresh \ Q) \cup {}
        BY <2>1, <3>1 DEF CollectorType
      <4> QED
        BY <4>2, <4>3
    <3>3. x # g => /\ gc'[x].pc = gc[x].pc /\ gc'[x].queue = gc[x].queue
                   /\ ~gc'[x].stale => ~gc[x].stale
      BY <2>1, <2>2, <3>1 DEF CollectorType
    <3>4. x = g => gc'[x].pc = "content"
      BY <2>1, <2>2, <3>1 DEF CollectorType
    <3>5. \A e \in idx' : e.hash \in Spared(x) => e.hash \in Spared(x)'
      BY <3>2, <1>3, <1>4 DEF Spared
    <3>6. ASSUME NEW h \in Hash, referrer[h] \in Spared(x) \cup {NoHash}
          PROVE  referrer'[h] \in Spared(x)' \cup {NoHash}
      BY <3>2, <3>6, <1>3, <1>6, <1>7 DEF Spared
    <3>7. Spared(x)' \subseteq Spared(x)
      BY <3>2 DEF Spared
    <3>8. CASE x = g
      BY <3>4, <3>5, <3>6, <3>8, <2>1, <1>2, <1>4 DEF CollectorKnows
    <3>9. CASE x # g
      BY <3>2, <3>3, <3>5, <3>6, <3>7, <3>9, <2>1, <1>4 DEF CollectorKnows
    <3> QED
      BY <3>8, <3>9
  <2> QED
    BY <2>3, <2>4
<1> QED
  BY <1>8, <1>9, <1>10, <1>11, <1>12, <1>13, <1>14 DEF IInv

-----------------------------------------------------------------------------
(* The theorems                                                             *)

\* An empty store satisfies the inductive invariant.
LEMMA InitIInv ==
    ASSUME Init
    PROVE  IInv
<1>1. StoreTypeOK
  BY SMTT(30), IdleTypes, StoreAssumption DEF Init, StoreTypeOK
<1>2. PagesReadable /\ DeltasDecodable /\ IndexMatches
  BY DEF Init, PagesReadable, DeltasDecodable, IndexMatches, Absent
<1>3. VersionsGiven
  BY FS_EmptySet DEF Init, VersionsGiven
<1>4. \A w \in Writer : WriterKnows(w)
  BY DEF Init, WriterKnows, IdleWriter, Active, Absent
<1>5. \A g \in Collector : CollectorKnows(g)
  BY DEF Init, CollectorKnows, IdleCollector
<1> QED
  BY <1>1, <1>2, <1>3, <1>4, <1>5 DEF IInv

\* Every step of a writer, of a collector, and of truncation preserves it.
LEMMA NextIInv ==
    ASSUME IInv, [Next]_vars
    PROVE  IInv'
<1>1. ASSUME NEW w \in Writer, Write(w, Hash) PROVE IInv'
  <2>1. ASSUME NEW p \in Page, NEW h \in Hash, BatchWrite(w, p, h) PROVE IInv'
    BY <2>1, ApplyWriteStep DEF BatchWrite
  <2>2. ASSUME NEW p \in Page, NEW h \in Hash, FastWrite(w, p, h) PROVE IInv'
    BY <2>2, ApplyWriteStep DEF FastWrite
  <2>3. ASSUME NEW p \in Page, NEW h \in Hash, SkipUpload(w, p, h) PROVE IInv'
    BY <2>3, OtherWriterSteps
  <2>4. CASE CommitBatchWrite(w) \/ CommitPage(w)
    BY <2>4, CommitSteps
  <2>5. CASE CommitReads(w) \/ WriterFails(w)
    <3>1. wr[w].pc # "idle"
      BY <2>5 DEF CommitReads, WriterFails
    <3>2. wr[w].page \in Page /\ wr[w].hash \in Hash
      BY <3>1 DEF IInv, WriterKnows
    <3> QED
      BY <2>5, <3>2, OtherWriterSteps
  <2> QED
    BY <1>1, <2>1, <2>2, <2>3, <2>4, <2>5 DEF Write
<1>2. ASSUME NEW g \in Collector, Collect(g) PROVE IInv'
  <2>1. CASE GcStart(g) \/ GcSkip(g) \/ GcStops(g)
    BY <2>1, GcControlSteps
  <2>2. CASE GcScanPageIndex(g)
    BY <2>2, GcScanPageIndexStep
  <2>3. CASE GcScanDeltaReferrer(g)
    BY <2>3, GcScanDeltaReferrerStep
  <2>4. CASE GcScanContentIndex(g)
    BY <2>4, GcScanContentIndexStep
  <2>5. CASE GcDelete(g)
    BY <2>5, GcDeleteStep
  <2> QED
    BY <1>2, <2>1, <2>2, <2>3, <2>4, <2>5 DEF Collect
<1>3. ASSUME NEW e \in idx, DeletePageVersion(e) PROVE IInv'
  BY <1>3, DeletePageVersionStep
<1>4. CASE UNCHANGED vars
  BY <1>4 DEF vars, IInv, StoreTypeOK, PagesReadable, DeltasDecodable, IndexMatches,
     VersionsGiven, WriterKnows, CollectorKnows, Spared
<1> QED
  BY <1>1, <1>2, <1>3, <1>4 DEF Next

\* The store keeps the inductive invariant: the index entries, the writers' open
\* transactions and the collectors' scans fit together.
THEOREM Spec_IInv == Spec => []IInv
<1>1. Init => IInv
  BY InitIInv
<1>2. IInv /\ [Next]_vars => IInv'
  BY NextIInv
<1> QED
  BY <1>1, <1>2, PTL DEF Spec

\* Whatever the collectors delete, the content of every version in the page
\* index is stored (gc.rs 276-462 against write.rs and commit.rs).
THEOREM Spec_PagesReadable == Spec => []PagesReadable
<1>1. IInv => PagesReadable
  BY DEF IInv
<1> QED
  BY <1>1, Spec_IInv, PTL

\* Every stored delta can be decoded in one step: its base is stored, whole
\* (delta/reader.rs 108-160).
THEOREM Spec_DeltasDecodable == Spec => []DeltasDecodable
<1>1. IInv => DeltasDecodable
  BY DEF IInv
<1> QED
  BY <1>1, Spec_IInv, PTL

\* The store, its writers and its collectors keep their types.
THEOREM Spec_StoreTypeOK == Spec => []StoreTypeOK
<1>1. IInv => StoreTypeOK
  BY DEF IInv
<1> QED
  BY <1>1, Spec_IInv, PTL
=============================================================================
