--------------------------- MODULE TruncateProofs ---------------------------
(***************************************************************************)
(* Proofs about Truncate: truncation beside commits, locks and rollbacks.  *)
(* The lock's invariant survives it, the changelog stays complete from its *)
(* first entry on, and, when locks are taken at the last write version,    *)
(* a truncation only deletes what is superseded by a version that no       *)
(* rollback will delete.                                                   *)
(***************************************************************************)
EXTENDS NsLockProofs, Truncate

\* Leaves are given to Zenon unless they name another prover.
USE ZenonT(30)

-----------------------------------------------------------------------------
(* The inductive invariants                                                *)

\* A lock that is held has a nonce.
HeldHasNonce == nslock.owner # NoOwner => nslock.nonce # 0

\* The changelog is complete from its first entry on: truncation cuts off its
\* beginning, a rollback its end.
LoggedAbove ==
    \A e \in idx, g \in clog : g.ver <= e.ver =>
        \E h \in clog : h.ver = e.ver /\ (h.infinite = TRUE \/ e.page \in h.pages)

TruncInv == NsInv /\ tr \in TruncType /\ HeldHasNonce /\ LoggedAbove

\* What a truncation knows: its range ends at the snapshot of the lock, if there
\* is one, and what it is about to delete is superseded in its range.
TruncKnows ==
    /\ tr.pc # "idle" => tr.before <= ver
    /\ tr.pc # "idle" /\ nslock.owner # NoOwner =>
          \A e \in idx : e.ver <= tr.before => e.ver <= nslock.snapshot
    /\ tr.pc = "delete" =>
          \A e \in tr.dels : \E f \in idx \ tr.dels :
              f.page = e.page /\ e.ver < f.ver /\ f.ver <= tr.before

-----------------------------------------------------------------------------
(* What the steps of commits and locks do to the index and to the lock     *)

\* The lock is kept, deleted, or taken when it was free.
LEMMA LockChange ==
    ASSUME NsInv, [NsNext]_nsVars
    PROVE  \/ /\ nslock'.owner = nslock.owner /\ nslock'.snapshot = nslock.snapshot
              /\ nslock'.nonce = nslock.nonce
           \/ nslock' = NoLock
           \/ /\ nslock.owner = NoOwner /\ idx' = idx /\ nslock'.nonce = ver + 1
              /\ ~ExplicitVersion => nslock'.snapshot = lwv.ver
<1>0. TypeOK /\ nslock \in LockType
  BY DEF NsInv, NsTypeOK, TypeOK
<1>1. CASE CommitPath
  BY <1>0, <1>1, LockFrame DEF CommitPath
<1>2. ASSUME NEW o \in Owner, AcquireNslock(o)
      PROVE  /\ nslock.owner = NoOwner /\ idx' = idx /\ nslock'.nonce = ver + 1
             /\ ~ExplicitVersion => nslock'.snapshot = lwv.ver
  <2>1. PICK v \in IF ExplicitVersion THEN 0..lwv.ver ELSE {lwv.ver} :
           nslock' = [owner |-> o, snapshot |-> v, rolling |-> FALSE, nonce |-> ver + 1]
    BY <1>2 DEF AcquireNslock
  <2>2. nslock'.snapshot = v /\ nslock'.nonce = ver + 1
    BY <2>1
  <2> QED
    BY <1>2, <2>1, <2>2 DEF AcquireNslock
<1>3. ASSUME NEW o \in Owner, ReleaseCommit(o) PROVE nslock' = NoLock
  BY <1>3 DEF ReleaseCommit
<1>4. ASSUME NEW r \in Handler, Release(r) \/ Crash(r)
      PROVE  \/ nslock' = NoLock
             \/ /\ nslock'.owner = nslock.owner /\ nslock'.snapshot = nslock.snapshot
                /\ nslock'.nonce = nslock.nonce
  <2>1. ASSUME NEW o \in Owner, BeginRollback(r, o)
        PROVE  /\ nslock'.owner = nslock.owner /\ nslock'.snapshot = nslock.snapshot
               /\ nslock'.nonce = nslock.nonce
    <3>1. nslock' = [nslock EXCEPT !.rolling = TRUE]
      BY <2>1 DEF BeginRollback
    <3> QED
      BY <1>0, <3>1 DEF LockType
  <2>2. ASSUME NEW o \in Owner, RetryBegin(r, o) \/ SpinRollback(r, o) PROVE nslock' = nslock
    BY <2>2 DEF RetryBegin, SpinRollback, vars
  <2>3. CASE EndSpin(r) \/ RefuseRelease(r) \/ ReadCursor(r) \/ ScanBatch(r) \/ CheckFinal(r) \/ Crash(r)
    BY <2>3 DEF EndSpin, RefuseRelease, ReadCursor, ScanBatch, CheckFinal, Crash, vars
  <2>4. CASE CommitBatch(r)
    BY <2>4 DEF CommitBatch, TryAgain, vars
  <2>5. CASE CommitFinal(r)
    BY <2>5 DEF CommitFinal, TryAgain, vars
  <2> QED
    BY <1>4, <2>1, <2>2, <2>3, <2>4, <2>5 DEF Release
<1>5. CASE UNCHANGED nsVars
  BY <1>5 DEF nsVars, vars
<1> QED
  BY <1>1, <1>2, <1>3, <1>4, <1>5 DEF NsNext

\* Versions only grow, and what is added to the page index is newer than all of it.
LEMMA Added ==
    ASSUME NsInv, [NsNext]_nsVars
    PROVE  /\ ver \in Nat /\ ver' \in Nat /\ ver <= ver'
           /\ \A e \in idx' \ idx : e.ver = ver + 1
<1>0. TypeOK /\ ver \in Nat
  BY DEF NsInv, NsTypeOK, TypeOK
<1>1. CASE CommitPath
  <2>1. [Next]_vars
    BY <1>1 DEF CommitPath
  <2>2. ver \in Nat /\ ver' \in Nat /\ ver <= ver'
    BY <1>0, <2>1, NextType, NextStoreStep DEF TypeOK, StoreStep
  <2>3. ASSUME NEW t \in Tx, NEW k \in Attempt, CommitPhase2(t, k), NEW e \in idx' \ idx
        PROVE  e.ver = ver + 1
    BY <2>3, CommitIndex
  <2> QED
    BY <1>0, <2>1, <2>2, <2>3, LockFrame
<1>2. ASSUME ver' = ver \/ ver' = ver + 1 PROVE ver' \in Nat /\ ver <= ver'
  BY SMTT(30), <1>0, <1>2
<1>3. ASSUME NEW o \in Owner, AcquireNslock(o) \/ ReleaseCommit(o)
      PROVE  idx' = idx /\ ver' = ver + 1
  BY <1>3 DEF AcquireNslock, ReleaseCommit
<1>4. ASSUME NEW r \in Handler, Release(r) \/ Crash(r)
      PROVE  idx' \subseteq idx /\ (ver' = ver \/ ver' = ver + 1)
  <2>1. CASE CommitBatch(r)
    BY <2>1 DEF CommitBatch, TryAgain, vars
  <2>2. CASE ~CommitBatch(r)
    BY <1>4, <2>2 DEF Release, BeginRollback, RetryBegin, SpinRollback, EndSpin, RefuseRelease,
                ReadCursor, ScanBatch, CheckFinal, CommitFinal, TryAgain, Crash, vars
  <2> QED
    BY <2>1, <2>2
<1>5. CASE UNCHANGED nsVars
  BY <1>0, <1>2, <1>5 DEF nsVars, vars
<1> QED
  BY <1>0, <1>1, <1>2, <1>3, <1>4, <1>5 DEF NsNext

\* A lock is taken with a nonce of its own.
LEMMA NonceStep ==
    ASSUME NsInv, HeldHasNonce, [NsNext]_nsVars
    PROVE  HeldHasNonce'
<1>1. ver \in Nat
  BY DEF NsInv, NsTypeOK, TypeOK
<1>2. NoLock.owner = NoOwner
  BY DEF NoLock
<1>3. ver + 1 # 0
  BY SMTT(30), <1>1
<1> QED
  BY <1>2, <1>3, LockChange DEF HeldHasNonce


\* Commits log what they write, and a rollback ends with nothing to log after the
\* end of the changelog (commit.rs 332-342, nslock.rs 264-270).
LEMMA LoggedAboveStep ==
    ASSUME NsInv, LoggedAbove, [NsNext]_nsVars
    PROVE  LoggedAbove'
<1>0. /\ TypeOK /\ ver \in Nat /\ VersionsGiven /\ nslock.snapshot \in Nat
      /\ \A e \in idx : e.ver \in Nat
      /\ \A g \in clog : g.ver \in Nat
  BY DEF NsInv, NsTypeOK, TypeOK, LockType, IndexEntry, LogEntry
<1>1. ASSUME idx' \subseteq idx, clog' = clog PROVE LoggedAbove'
  BY <1>1 DEF LoggedAbove
<1>2. ASSUME NEW t \in Tx, NEW k \in Attempt, CommitPhase2(t, k) PROVE LoggedAbove'
  <2>1. PICK n : n = ChangelogEntry(t, ver + 1)
    OBVIOUS
  <2>2. /\ idx' = idx \cup {EntryOf(t, p, ver + 1) : p \in Written(t)}
        /\ clog' = clog \cup {n} /\ n.ver = ver + 1
        /\ \A p \in Written(t) : EntryOf(t, p, ver + 1).ver = ver + 1
    BY <1>2, <2>1, CommitIndex
  <2>3. n.infinite = TRUE \/ n.pages = Written(t)
    BY <2>1 DEF ChangelogEntry
  <2>4. ASSUME NEW e \in idx', NEW g \in clog', g.ver <= e.ver
        PROVE  \E h \in clog' : h.ver = e.ver /\ (h.infinite = TRUE \/ e.page \in h.pages)
    <3>1. CASE e \in idx
      <4>1. e.ver \in Nat /\ e.ver <= ver
        BY <1>0, <3>1 DEF VersionsGiven
      <4>2. g \in clog
        BY SMTT(30), <1>0, <2>2, <2>4, <4>1
      <4> QED
        BY <2>2, <2>4, <3>1, <4>2 DEF LoggedAbove
    <3>2. CASE e \notin idx
      <4>1. PICK p \in Written(t) : e = EntryOf(t, p, ver + 1)
        BY <2>2, <3>2
      <4>2. e.ver = n.ver /\ e.page = p
        BY <2>2, <4>1 DEF EntryOf
      <4> QED
        BY <2>2, <2>3, <4>1, <4>2
    <3> QED
      BY <3>1, <3>2
  <2> QED
    BY <2>4 DEF LoggedAbove
<1>3. CASE CommitPath
  <2>1. [Next]_vars
    BY <1>3 DEF CommitPath
  <2> QED
    BY <1>0, <1>1, <1>2, <2>1, LockFrame
<1>4. ASSUME NEW r \in Handler, CommitFinal(r), ~TryAgain(r, "final") PROVE LoggedAbove'
  <2>1. PICK x : x = rel[r]
    OBVIOUS
  <2>2. x.pc = "unlock" /\ ~Conflicts(r) /\ idx' = idx /\ clog' = KeptChangelog(r)
    BY <1>4, <2>1 DEF CommitFinal
  <2>3. Valid(x) /\ Knows(x)
    BY <2>1, <2>2, NoConflict DEF NsInv
  <2>4. \A e \in idx : e.ver <= x.snapshot
    BY <2>2, <2>3 DEF Knows
  <2>5. clog' = {g \in clog : g.ver <= x.snapshot}
    BY <2>1, <2>2 DEF KeptChangelog
  <2>6. ASSUME NEW e \in idx', NEW g \in clog', g.ver <= e.ver
        PROVE  \E h \in clog' : h.ver = e.ver /\ (h.infinite = TRUE \/ e.page \in h.pages)
    <3>1. PICK h \in clog : h.ver = e.ver /\ (h.infinite = TRUE \/ e.page \in h.pages)
      BY <2>2, <2>5, <2>6 DEF LoggedAbove
    <3>2. h.ver <= x.snapshot
      BY <2>2, <2>4, <2>6, <3>1
    <3> QED
      BY <2>5, <3>1, <3>2
  <2> QED
    BY <2>6 DEF LoggedAbove
<1>5. ASSUME NEW o \in Owner, AcquireNslock(o) \/ ReleaseCommit(o) PROVE LoggedAbove'
  BY <1>1, <1>5 DEF AcquireNslock, ReleaseCommit
<1>6. ASSUME NEW r \in Handler, Release(r) \/ Crash(r), ~CommitFinal(r)
      PROVE  idx' \subseteq idx /\ clog' = clog
  <2>1. CASE CommitBatch(r)
    BY <2>1 DEF CommitBatch, TryAgain, vars
  <2>2. CASE ~CommitBatch(r)
    BY <1>6, <2>2 DEF Release, BeginRollback, RetryBegin, SpinRollback, EndSpin, RefuseRelease,
                      ReadCursor, ScanBatch, CheckFinal, Crash, vars
  <2> QED
    BY <2>1, <2>2
<1>7. ASSUME NEW r \in Handler, TryAgain(r, "final") PROVE LoggedAbove'
  BY <1>1, <1>7 DEF TryAgain, vars
<1>8. CASE UNCHANGED nsVars
  BY <1>1, <1>8 DEF nsVars, vars
<1> QED
  BY <1>1, <1>3, <1>4, <1>5, <1>6, <1>7, <1>8 DEF NsNext

-----------------------------------------------------------------------------
(* Truncation and the lock                                                 *)

\* Deleting page versions and changelog entries leaves what commits and locks
\* rely on as it is.
LEMMA TruncFrame ==
    ASSUME NsInv, ver' = ver + 1, idx' \subseteq idx, clog' \subseteq clog,
           UNCHANGED <<content, ci, lwv, nslock, mod, tx, att, applied, lockVars, base>>
    PROVE  NsInv'
<1>0. /\ NsTypeOK /\ TypeOK /\ VersionsGiven /\ ver \in Nat /\ IsFiniteSet(idx)
      /\ att \in [Tx -> [Attempt -> AttemptType]] /\ rel \in [Handler -> RelType]
  BY DEF NsInv, NsTypeOK, TypeOK, VersionsGiven
<1>1. ver' \in Nat /\ ver <= ver'
  BY SMTT(30), <1>0
<1>2. UNCHANGED <<cursor, rel, faults>> /\ mod'.nsmd = mod.nsmd /\ nslock' = nslock
  BY DEF lockVars
<1>3. IsFiniteSet(idx')
  BY <1>0, FS_Subset
<1>4. TypeOK'
  BY <1>0, <1>1 DEF TypeOK
<1>5. NsTypeOK'
  BY <1>0, <1>2, <1>4 DEF NsTypeOK
<1>6. VersionsGiven'
  BY <1>0, <1>1, <1>3, GivenFrame
<1>7. ASSUME NEW t \in Tx, NEW k \in Attempt PROVE LetIn(att[t][k], tx[t].plan.owner)'
  <2>1. PICK a, o : a = att[t][k] /\ o = tx[t].plan.owner
    OBVIOUS
  <2>2. a \in AttemptType /\ LetIn(a, o)
    BY <1>0, <2>1 DEF NsInv
  <2>3. LetIn(a, o)'
    BY <1>0, <1>1, <1>2, <2>2, LetInFrame
  <2> QED
    BY <2>1, <2>3, LetInNext
<1>8. RollingIsHeld' /\ NothingNewerThanLwv' /\ CursorKnows'
  BY <1>2 DEF NsInv, RollingIsHeld, NothingNewerThanLwv, CursorKnows
<1>9. \A h \in RelType : Knows(h) => Knows(h)'
  BY <1>0, <1>1, <1>2, KnowsFrame
<1>10. \A r \in Handler : Knows(rel[r])'
  BY <1>2, <1>9, StillKnow
<1> QED
  BY <1>5, <1>6, <1>7, <1>8, <1>10 DEF NsInv

\* A superseded version has a successor in the batch that is not superseded: the
\* latest in the range of the truncation (gc.rs 119-136).
LEMMA SupersededCovered ==
    ASSUME NEW B \in SUBSET IndexEntry, IsFiniteSet(B), tr.before \in Nat, NEW e \in Superseded(B)
    PROVE  \E f \in B \ Superseded(B) : f.page = e.page /\ e.ver < f.ver /\ f.ver <= tr.before
<1> DEFINE C == {f \in B : f.page = e.page /\ e.ver < f.ver /\ f.ver <= tr.before}
<1>1. C # {} /\ C \in SUBSET IndexEntry /\ \A f \in C : f.page = e.page
  BY DEF Superseded
<1>2. IsFiniteSet(C)
  <2>1. C \in SUBSET B
    OBVIOUS
  <2> HIDE DEF C
  <2> QED
    BY <2>1, FS_Subset
<1>3. PICK m \in C : \A f \in C : f.ver <= m.ver
  <2> HIDE DEF C
  <2> QED
    BY <1>1, <1>2, LatestExists
<1>4. ASSUME NEW g \in B, g.page = m.page, m.ver < g.ver, g.ver <= tr.before PROVE FALSE
  <2>1. e.ver \in Nat /\ m.ver \in Nat /\ g.ver \in Nat /\ e \in B
    BY KeyOfEntry DEF Superseded
  <2>2. e.ver < g.ver
    BY SMTT(30), <1>3, <1>4, <2>1
  <2>3. g \in C
    BY <1>3, <1>4, <2>2
  <2>4. g.ver <= m.ver
    BY <1>3, <2>3
  <2> QED
    BY SMTT(30), <1>4, <2>1, <2>4
<1>5. m \notin Superseded(B)
  BY <1>4 DEF Superseded
<1> QED
  BY <1>3, <1>5

\* A version that has a successor up to v does not count in the pages at v.
LEMMA SameLatest ==
    ASSUME NEW I \in SUBSET IndexEntry, NEW D, NEW v,
           \A e \in I \cap D : e.ver <= v =>
               \E f \in I \ D : f.page = e.page /\ e.ver < f.ver /\ f.ver <= v
    PROVE  ViewOf(I \ D, v) = ViewOf(I, v)
<1> SUFFICES ASSUME NEW p \in Page
             PROVE  Latest(Older(I \ D, p, v)) = Latest(Older(I, p, v))
  BY DEF ViewOf
<1>1. PICK S, T : S = Older(I, p, v) /\ T = Older(I \ D, p, v)
  OBVIOUS
<1>2. T \subseteq S /\ S \subseteq IndexEntry
  BY <1>1 DEF Older
<1>3. \A e \in S : e.ver \in Nat
  BY <1>2, KeyOfEntry
<1>4. ASSUME NEW e \in S, e \notin T PROVE \E f \in T : e.ver < f.ver
  <2>1. e \in I \cap D /\ e.ver <= v /\ e.page = p
    BY <1>1, <1>4 DEF Older
  <2>2. PICK f \in I \ D : f.page = e.page /\ e.ver < f.ver /\ f.ver <= v
    BY <2>1
  <2>3. f \in T
    BY <1>1, <2>1, <2>2 DEF Older
  <2> QED
    BY <2>2, <2>3
<1>5. S = {} <=> T = {}
  BY <1>2, <1>4
<1>6. ASSUME NEW e \in S, \A f \in S : f.ver <= e.ver PROVE e \in T /\ \A f \in T : f.ver <= e.ver
  <2>1. ASSUME NEW f \in T, e.ver < f.ver PROVE FALSE
    BY SMTT(30), <1>2, <1>3, <1>6, <2>1
  <2> QED
    BY <1>2, <1>4, <1>6, <2>1
<1>7. ASSUME NEW e \in T, \A f \in T : f.ver <= e.ver, NEW f \in S PROVE f.ver <= e.ver
  <2>1. CASE f \in T
    BY <1>7, <2>1
  <2>2. CASE f \notin T
    <3>1. PICK g \in T : f.ver < g.ver
      BY <1>4, <2>2
    <3>2. g.ver <= e.ver /\ e.ver \in Nat /\ f.ver \in Nat /\ g.ver \in Nat
      BY <1>2, <1>3, <1>7, <3>1
    <3> QED
      BY SMTT(30), <3>1, <3>2
  <2> QED
    BY <2>1, <2>2
<1>8. \A e : (e \in S /\ \A f \in S : f.ver <= e.ver) <=> (e \in T /\ \A f \in T : f.ver <= e.ver)
  BY <1>2, <1>6, <1>7
<1>9. (CHOOSE e \in S : \A f \in S : f.ver <= e.ver) = (CHOOSE e \in T : \A f \in T : f.ver <= e.ver)
  BY <1>8
<1>10. CASE S = {}
  BY <1>1, <1>5, <1>10 DEF Latest
<1>11. CASE S # {}
  <2>1. Latest(S) = (CHOOSE e \in S : \A f \in S : f.ver <= e.ver).hash
    BY <1>11 DEF Latest
  <2>2. Latest(T) = (CHOOSE e \in T : \A f \in T : f.ver <= e.ver).hash
    BY <1>5, <1>11 DEF Latest
  <2> QED
    BY <1>1, <1>9, <2>1, <2>2
<1> QED
  BY <1>10, <1>11

\* One batch of the scan: where the next one starts, and what is deleted (gc.rs
\* 86-142).
LEMMA ScanEffect ==
    ASSUME NsInv, tr \in TruncType, ScanVersions
    PROVE  /\ tr' \in TruncType /\ tr'.before = tr.before
           /\ tr'.pc \in {"scan", "delete", "changelog"}
           /\ tr'.pc = "delete" =>
                \E B \in SUBSET idx : IsFiniteSet(B) /\ tr'.dels = Superseded(B)
<1>1. PICK keys, B, dels, last :
        /\ keys = NextKeys(PageKeys, tr.cursor, GcScanBatchSize)
        /\ B = EntriesAt(keys) /\ dels = Superseded(B) /\ last = LastKey(keys)
  OBVIOUS
<1>2. tr' = IF Cardinality(keys) <= 1 THEN [tr EXCEPT !.pc = "changelog"]
            ELSE [tr EXCEPT !.cursor = <<last[1], last[2] - 1>>,
                            !.dels = IF tr.dry THEN {} ELSE dels,
                            !.pc = IF dels = {} \/ tr.dry THEN "scan" ELSE "delete"]
  BY <1>1 DEF ScanVersions
<1>3. /\ idx \in SUBSET IndexEntry /\ IsFiniteSet(idx) /\ tr.cursor \in Nat \X Nat
      /\ \A e \in idx : 0 < e.ver
  BY DEF NsInv, NsTypeOK, TypeOK, VersionsGiven, TruncType
<1>4. B \in SUBSET idx /\ IsFiniteSet(B) /\ dels \in SUBSET IndexEntry
  <2>1. B \in SUBSET idx
    BY <1>1 DEF EntriesAt
  <2> QED
    BY <1>1, <1>3, <2>1, FS_Subset DEF Superseded
<1>5. CASE Cardinality(keys) <= 1
  <2>1. tr' = [tr EXCEPT !.pc = "changelog"]
    BY <1>2, <1>5
  <2>2. tr' \in TruncType /\ tr'.before = tr.before /\ tr'.pc = "changelog"
    BY <2>1 DEF TruncType
  <2> QED
    BY <2>2
<1>6. CASE ~(Cardinality(keys) <= 1)
  <2>1. PICK c, d, q : /\ c = <<last[1], last[2] - 1>> /\ d = IF tr.dry THEN {} ELSE dels
                       /\ q = IF dels = {} \/ tr.dry THEN "scan" ELSE "delete"
    OBVIOUS
  <2>2. tr' = [tr EXCEPT !.cursor = c, !.dels = d, !.pc = q]
    BY <1>2, <1>6, <2>1
  <2>3. keys # {}
    <3>1. Cardinality({}) <= 1
      BY SMTT(30), FS_EmptySet
    <3> QED
      BY <1>6, <3>1
  <2>4. PageKeys \in SUBSET (Nat \X Nat) /\ IsFiniteSet(PageKeys)
    BY <1>3, KeysFinite DEF PageKeys
  <2>5. GcScanBatchSize \in Nat \ {0}
    BY TruncateAssumption
  <2>6. keys \subseteq PageKeys /\ last \in keys
    BY <1>1, <1>3, <2>3, <2>4, <2>5, BatchCovers
  <2>7. PICK e \in idx : last = Key(e)
    BY <2>6 DEF PageKeys
  <2>8. last[1] \in Nat /\ last[2] \in Nat /\ 0 < last[2]
    BY <1>3, <2>7, KeyOfEntry
  <2>9. last[2] - 1 \in Nat
    BY SMTT(30), <2>8
  <2>10. c \in Nat \X Nat /\ d \in SUBSET IndexEntry /\ q \in {"scan", "delete"}
    BY <1>4, <2>1, <2>8, <2>9
  <2>11. tr' \in TruncType /\ tr'.before = tr.before /\ tr'.pc = q /\ tr'.dels = d
    BY <2>2, <2>10 DEF TruncType
  <2>12. q = "delete" => d = dels
    BY <2>1
  <2> QED
    BY <1>1, <1>4, <2>10, <2>11, <2>12
<1> QED
  BY <1>5, <1>6

\* The steps of a truncation keep the types, the lock's invariant and the
\* changelog (gc.rs 28-186).
LEMMA TruncateInvStep ==
    ASSUME TruncInv, TruncateStep
    PROVE  TruncInv'
<1>0. NsInv /\ tr \in TruncType /\ HeldHasNonce /\ LoggedAbove
  BY DEF TruncInv
<1>1. NoTruncate \in TruncType
  BY DEF NoTruncate, TruncType
<1>2. ASSUME UNCHANGED nsVars PROVE NsInv' /\ HeldHasNonce' /\ LoggedAbove'
  <2>1. NsInv'
    BY <1>0, <1>2, NsNextInv
  <2>2. nslock' = nslock /\ idx' = idx /\ clog' = clog
    BY <1>2 DEF nsVars, vars
  <2> QED
    BY <1>0, <2>1, <2>2 DEF HeldHasNonce, LoggedAbove
<1>3. ASSUME NEW v \in 1..ver, NEW dry \in BOOLEAN, StartTruncate(v, dry) PROVE TruncInv'
  <2>1. PICK b : b = BeforeVersion(v)
    OBVIOUS
  <2>2. nslock.snapshot \in Nat /\ v \in Nat
    BY SMTT(30), <1>0 DEF NsInv, NsTypeOK, TypeOK, LockType
  <2>3. b \in Nat
    BY <2>1, <2>2 DEF BeforeVersion
  <2>4. tr' = [NoTruncate EXCEPT !.pc = "scan", !.dry = dry, !.before = b]
    BY <1>3, <2>1 DEF StartTruncate
  <2>5. tr' \in TruncType
    BY <1>1, <2>3, <2>4 DEF TruncType
  <2> QED
    BY <1>2, <1>3, <2>5 DEF TruncInv, StartTruncate
<1>4. CASE ScanVersions
  BY <1>0, <1>2, <1>4, ScanEffect DEF TruncInv, ScanVersions
<1>5. CASE StopTruncate
  BY <1>1, <1>2, <1>5 DEF TruncInv, StopTruncate
<1>6. CASE DeleteVersions
  <2>1. tr' = [tr EXCEPT !.pc = "scan", !.dels = {}] /\ idx' \subseteq idx
    BY <1>6 DEF DeleteVersions
  <2>2. tr' \in TruncType
    BY <1>0, <2>1 DEF TruncType
  <2>3. NsInv'
    BY <1>0, <1>6, <2>1, TruncFrame DEF DeleteVersions
  <2>4. HeldHasNonce' /\ LoggedAbove'
    BY <1>0, <1>6, <2>1 DEF DeleteVersions, HeldHasNonce, LoggedAbove
  <2> QED
    BY <2>2, <2>3, <2>4 DEF TruncInv
<1>7. CASE TruncateChangelog
  <2>1. tr' = NoTruncate /\ idx' = idx /\ clog' = {g \in clog : g.ver >= tr.before}
    BY <1>7 DEF TruncateChangelog, ChangelogFrom
  <2>2. NsInv'
    BY <1>0, <1>7, <2>1, TruncFrame DEF TruncateChangelog
  <2>3. /\ tr.before \in Nat /\ \A e \in idx : e.ver \in Nat
        /\ \A g \in clog : g.ver \in Nat
    BY <1>0 DEF NsInv, NsTypeOK, TypeOK, IndexEntry, LogEntry, TruncType
  <2>4. ASSUME NEW e \in idx', NEW g \in clog', g.ver <= e.ver
        PROVE  \E h \in clog' : h.ver = e.ver /\ (h.infinite = TRUE \/ e.page \in h.pages)
    <3>1. PICK h \in clog : h.ver = e.ver /\ (h.infinite = TRUE \/ e.page \in h.pages)
      BY <1>0, <2>1, <2>4 DEF LoggedAbove
    <3>2. h.ver >= tr.before
      BY SMTT(30), <2>1, <2>3, <2>4, <3>1
    <3> QED
      BY <2>1, <3>1, <3>2
  <2>5. HeldHasNonce' /\ LoggedAbove'
    BY <1>0, <1>7, <2>4 DEF TruncateChangelog, HeldHasNonce, LoggedAbove
  <2> QED
    BY <1>1, <2>1, <2>2, <2>5 DEF TruncInv
<1> QED
  BY <1>3, <1>4, <1>5, <1>6, <1>7 DEF TruncateStep

\* Every step of a truncation, a commit or a lock request keeps the invariant.
LEMMA TruncNextInv == TruncInv /\ [TruncNext]_truncVars => TruncInv'
<1> SUFFICES ASSUME TruncInv, [TruncNext]_truncVars PROVE TruncInv'
  OBVIOUS
<1>1. CASE TruncateStep
  BY <1>1, TruncateInvStep
<1>2. CASE [NsNext]_nsVars /\ UNCHANGED tr
  BY <1>2, NsNextInv, NonceStep, LoggedAboveStep DEF TruncInv
<1>3. CASE UNCHANGED truncVars
  BY <1>2, <1>3 DEF truncVars
<1> QED
  BY <1>1, <1>2, <1>3 DEF TruncNext

\* The lock and the changelog stay in order while old versions are truncated.
THEOREM TruncSpec_TruncInv == TruncSpec => []TruncInv
<1>1. TruncInit => TruncInv
  <2> SUFFICES ASSUME TruncInit PROVE TruncInv
    OBVIOUS
  <2>1. NsInv /\ tr = NoTruncate /\ nslock = NoLock /\ idx = {}
    BY NsInitInv DEF TruncInit, NsInit, Init
  <2>2. NoTruncate \in TruncType /\ NoLock.owner = NoOwner
    BY DEF NoTruncate, TruncType, NoLock
  <2> QED
    BY <2>1, <2>2 DEF TruncInv, HeldHasNonce, LoggedAbove
<1> QED
  BY <1>1, TruncNextInv, PTL DEF TruncSpec

\* The state stays well-typed: the key a scan goes on from (gc.rs 137-141) is
\* never before version 0.
THEOREM TruncSpec_TruncTypeOK == TruncSpec => []TruncTypeOK
<1>1. TruncInv => TruncTypeOK
  BY DEF TruncInv, NsInv, TruncTypeOK
<1> QED
  BY <1>1, TruncSpec_TruncInv, PTL

\* What stat tells a client to drop from its cache is complete, also when the
\* beginning of the changelog was truncated and its end rolled back (stat.rs
\* 100-202, gc.rs 168-186, nslock.rs 264-270).
THEOREM TruncSpec_StatIntervalComplete == TruncSpec => []StatIntervalComplete
<1>1. TruncInv => StatIntervalComplete
  <2> SUFFICES ASSUME TypeOK, LoggedAbove, NEW from \in 0..ver,
                      ReadInterval(from, StatVersion(NoOwner), TRUE).some,
                      NEW e \in idx, from < e.ver, e.ver <= StatVersion(NoOwner)
               PROVE  e.page \in ReadInterval(from, StatVersion(NoOwner), TRUE).pages
    BY DEF StatIntervalComplete, TruncInv, NsInv, NsTypeOK
  <2> DEFINE to == StatVersion(NoOwner)
             range == {f \in clog : from <= f.ver /\ f.ver <= to}
             counted == {f \in range : f.ver # from /\ (TRUE \/ f.ver # to)}
  <2>1. to \in Nat /\ e.ver \in Nat /\ from \in Nat
    BY SMTT(30) DEF StatVersion, TypeOK, LockType, IndexEntry
  <2>2. from # to
    BY SMTT(30), <2>1
  <2> HIDE DEF to
  <2>3. /\ from \in {f.ver : f \in range}
        /\ \A f \in counted : ~f.infinite
        /\ ReadInterval(from, to, TRUE).pages = UNION {f.pages : f \in counted}
    BY <2>2 DEF ReadInterval, Full, to
  <2>4. PICK g \in clog : g.ver = from
    BY <2>3
  <2>5. g.ver <= e.ver
    BY SMTT(30), <2>1, <2>4
  <2>6. PICK h \in clog : h.ver = e.ver /\ (h.infinite = TRUE \/ e.page \in h.pages)
    BY <2>4, <2>5 DEF LoggedAbove
  <2>7. h \in counted
    BY SMTT(30), <2>1, <2>6 DEF to
  <2> QED
    BY <2>3, <2>6, <2>7 DEF to
<1> QED
  BY <1>1, TruncSpec_TruncInv, PTL

-----------------------------------------------------------------------------
(* What truncation deletes, when locks are taken at the last write version *)

\* Commits and locks leave what a truncation knows: commits only add versions
\* after its range, a lock is taken at a snapshot that nothing is newer than, and
\* a rollback deletes nothing in the range.
LEMMA TruncKnowsFrame ==
    ASSUME TruncInv, TruncKnows, ~ExplicitVersion, [NsNext]_nsVars, UNCHANGED tr
    PROVE  TruncKnows'
<1>0. /\ NsInv /\ tr \in TruncType /\ NsInv' /\ TypeOK /\ VersionsGiven /\ NothingNewerThanLwv
      /\ RollingIsHeld
  BY NsNextInv DEF TruncInv, NsInv, NsTypeOK
<1>1. /\ tr.before \in Nat /\ nslock.snapshot \in Nat
      /\ \A e \in idx : e.ver \in Nat
  BY <1>0 DEF TypeOK, LockType, IndexEntry, TruncType
<1>2. /\ ver \in Nat /\ ver' \in Nat /\ ver <= ver'
      /\ \A e \in idx' \ idx : e.ver = ver + 1
  BY <1>0, Added
<1>3. tr'.pc # "idle" => tr'.before <= ver'
  BY SMTT(30), <1>1, <1>2 DEF TruncKnows
<1>4. ASSUME tr.pc # "idle", NEW e \in idx', e.ver <= tr.before PROVE e \in idx
  BY SMTT(30), <1>1, <1>2, <1>4 DEF TruncKnows
<1>5. ASSUME tr'.pc # "idle", nslock'.owner # NoOwner, NEW e \in idx', e.ver <= tr'.before
      PROVE  e.ver <= nslock'.snapshot
  <2>1. e \in idx
    BY <1>4, <1>5
  <2>2. CASE nslock'.owner = nslock.owner /\ nslock'.snapshot = nslock.snapshot
    BY <1>5, <2>1, <2>2 DEF TruncKnows
  <2>3. CASE nslock'.snapshot = lwv.ver
    BY <1>0, <2>1, <2>3 DEF NothingNewerThanLwv
  <2>4. nslock' # NoLock
    <3>1. NoLock.owner = NoOwner
      BY DEF NoLock
    <3> QED
      BY <1>5, <3>1
  <2> QED
    BY <1>0, <2>2, <2>3, <2>4, LockChange
<1>6. ASSUME tr'.pc = "delete", NEW e \in tr'.dels
      PROVE  \E f \in idx' \ tr'.dels : f.page = e.page /\ e.ver < f.ver /\ f.ver <= tr'.before
  <2>1. PICK f \in idx \ tr.dels : f.page = e.page /\ e.ver < f.ver /\ f.ver <= tr.before
    BY <1>6 DEF TruncKnows
  <2>2. ASSUME f \notin idx' PROVE FALSE
    <3>1. nslock.rolling /\ f.ver > nslock.snapshot
      BY <1>0, <2>1, <2>2, DeletedIsRolledBack
    <3>2. nslock.owner # NoOwner
      BY <1>0, <3>1 DEF RollingIsHeld
    <3>3. f.ver <= nslock.snapshot
      BY <1>6, <2>1, <3>2 DEF TruncKnows
    <3> QED
      BY SMTT(30), <1>1, <2>1, <3>1, <3>3
  <2> QED
    BY <2>1, <2>2
<1> QED
  BY <1>3, <1>5, <1>6 DEF TruncKnows

\* A truncation begins in the range the lock leaves it, and deletes what its scan
\* saw superseded (gc.rs 35-51, 119-156).
LEMMA TruncKnowsStep ==
    ASSUME TruncInv, TruncKnows, TruncateStep
    PROVE  TruncKnows'
<1>0. NsInv /\ tr \in TruncType /\ ver \in Nat /\ nslock.snapshot \in Nat /\ tr.before \in Nat
      /\ idx \in SUBSET IndexEntry
  BY DEF TruncInv, NsInv, NsTypeOK, TypeOK, LockType, TruncType
<1>1. \A e \in idx : e.ver \in Nat
  BY <1>0, KeyOfEntry
<1>2. NoTruncate.pc = "idle"
  BY DEF NoTruncate
<1>3. ASSUME tr' = NoTruncate PROVE TruncKnows'
  <2>1. tr'.pc = "idle" /\ "idle" # "delete"
    BY <1>2, <1>3
  <2> QED
    BY <2>1 DEF TruncKnows
<1>4. ASSUME NEW v \in 1..ver, NEW dry \in BOOLEAN, StartTruncate(v, dry) PROVE TruncKnows'
  <2>1. PICK b : b = BeforeVersion(v)
    OBVIOUS
  <2>2. tr' = [NoTruncate EXCEPT !.pc = "scan", !.dry = dry, !.before = b] /\ UNCHANGED nsVars
    BY <1>4, <2>1 DEF StartTruncate
  <2>3. tr'.pc = "scan" /\ tr'.before = b /\ "scan" # "delete"
    BY <2>2 DEF NoTruncate
  <2>4. UNCHANGED <<ver, idx, nslock>>
    BY <2>2 DEF nsVars, vars
  <2>5. v \in Nat /\ v <= ver
    BY SMTT(30), <1>0
  <2>6. b \in Nat /\ b <= ver /\ (nslock.owner # NoOwner => b <= nslock.snapshot)
    BY SMTT(30), <1>0, <2>1, <2>5 DEF BeforeVersion
  <2>7. ASSUME nslock.owner # NoOwner, NEW e \in idx, e.ver <= b PROVE e.ver <= nslock.snapshot
    BY SMTT(30), <1>0, <1>1, <2>6, <2>7
  <2> QED
    BY <2>3, <2>4, <2>6, <2>7 DEF TruncKnows
<1>5. CASE ScanVersions
  <2>1. /\ tr'.before = tr.before /\ tr.pc # "idle"
        /\ tr'.pc = "delete" => \E B \in SUBSET idx : IsFiniteSet(B) /\ tr'.dels = Superseded(B)
    BY <1>0, <1>5, ScanEffect DEF ScanVersions
  <2>2. UNCHANGED <<ver, idx, nslock>>
    BY <1>5 DEF ScanVersions, nsVars, vars
  <2>3. ASSUME tr'.pc = "delete", NEW e \in tr'.dels
        PROVE  \E f \in idx \ tr'.dels : f.page = e.page /\ e.ver < f.ver /\ f.ver <= tr.before
    <3>1. PICK B \in SUBSET idx : IsFiniteSet(B) /\ tr'.dels = Superseded(B)
      BY <2>1, <2>3
    <3>2. B \in SUBSET IndexEntry /\ e \in Superseded(B)
      BY <1>0, <2>3, <3>1
    <3>3. PICK f \in B \ Superseded(B) : f.page = e.page /\ e.ver < f.ver /\ f.ver <= tr.before
      BY <1>0, <3>1, <3>2, SupersededCovered
    <3> QED
      BY <3>1, <3>3
  <2> QED
    BY <2>1, <2>2, <2>3 DEF TruncKnows
<1>6. CASE DeleteVersions
  <2>1. /\ ver' = ver + 1 /\ idx' \subseteq idx /\ nslock' = nslock /\ tr.pc = "delete"
        /\ tr' = [tr EXCEPT !.pc = "scan", !.dels = {}]
    BY <1>6 DEF DeleteVersions
  <2>2. tr'.pc = "scan" /\ tr'.before = tr.before /\ "scan" # "delete" /\ tr.pc # "idle"
    BY <1>0, <2>1 DEF TruncType
  <2>3. tr'.before <= ver'
    BY SMTT(30), <1>0, <2>1, <2>2 DEF TruncKnows
  <2> QED
    BY <2>1, <2>2, <2>3 DEF TruncKnows
<1>7. CASE TruncateChangelog
  BY <1>3, <1>7 DEF TruncateChangelog
<1>8. CASE StopTruncate
  BY <1>3, <1>8 DEF StopTruncate
<1> QED
  BY <1>4, <1>5, <1>6, <1>7, <1>8 DEF TruncateStep

\* A truncation knows what it deletes, whatever runs beside it.
THEOREM TruncSpec_TruncKnows == ASSUME ~ExplicitVersion PROVE TruncSpec => []TruncKnows
<1>1. TruncInit => TruncKnows
  <2>1. NoTruncate.pc = "idle" /\ "idle" # "delete"
    BY DEF NoTruncate
  <2> QED
    BY <2>1 DEF TruncInit, TruncKnows
<1>2. TruncInv /\ TruncKnows /\ [TruncNext]_truncVars => TruncKnows'
  <2> SUFFICES ASSUME TruncInv, TruncKnows, [TruncNext]_truncVars PROVE TruncKnows'
    OBVIOUS
  <2>1. CASE TruncateStep
    BY <2>1, TruncKnowsStep
  <2>2. CASE [NsNext]_nsVars /\ UNCHANGED tr
    BY <2>2, TruncKnowsFrame
  <2>3. CASE UNCHANGED truncVars
    BY <2>2, <2>3 DEF truncVars
  <2> QED
    BY <2>1, <2>2, <2>3 DEF TruncNext
<1> QED
  BY <1>1, <1>2, TruncSpec_TruncInv, PTL DEF TruncSpec

\* Truncation never deletes the latest version of a page in its range, also when
\* the versions it scanned are rolled back before it deletes (gc.rs 128-136).
THEOREM TruncSpec_NeverTruncateLatest ==
    ASSUME ~ExplicitVersion PROVE TruncSpec => NeverTruncateLatest
<1>1. ASSUME TruncKnows, DeleteVersions, NEW e \in idx \ idx'
      PROVE  \E f \in idx' : f.page = e.page /\ e.ver < f.ver /\ f.ver <= tr.before
  <2>1. tr.pc = "delete" /\ idx' = idx \ tr.dels
    BY <1>1 DEF DeleteVersions
  <2> QED
    BY <1>1, <2>1 DEF TruncKnows
<1>2. TruncKnows =>
        [DeleteVersions => \A e \in idx \ idx' : \E f \in idx' :
            f.page = e.page /\ e.ver < f.ver /\ f.ver <= tr.before]_truncVars
  BY <1>1
<1> QED
  BY <1>2, TruncSpec_TruncKnows, PTL DEF NeverTruncateLatest

\* The pages at the snapshot of a lock do not change while it is held: what
\* readers get (stat.rs 52-54) and what a rollback goes back to.
THEOREM TruncSpec_LockedSnapshotStable ==
    ASSUME ~ExplicitVersion PROVE TruncSpec => LockedSnapshotStable
<1>1. ASSUME TruncInv, TruncKnows, [TruncNext]_truncVars,
             nslock.owner # NoOwner, nslock'.nonce = nslock.nonce
      PROVE  View(nslock.snapshot)' = View(nslock.snapshot)
  <2>1. PICK v : v = nslock.snapshot
    OBVIOUS
  <2>2. /\ NsInv /\ TypeOK /\ v \in Nat /\ ver \in Nat /\ nslock.nonce <= ver /\ v <= ver
        /\ nslock.nonce \in Nat /\ nslock.nonce # 0 /\ idx \in SUBSET IndexEntry
    BY <1>1, <2>1 DEF TruncInv, NsInv, NsTypeOK, TypeOK, LockType, VersionsGiven, HeldHasNonce
  <2>3. View(nslock.snapshot) = ViewOf(idx, v)
    BY <2>1, ViewIsViewOf
  <2>4. ASSUME nslock'.snapshot = v, ViewOf(idx', v) = ViewOf(idx, v)
        PROVE  View(nslock.snapshot)' = View(nslock.snapshot)
    <3>1. View(nslock.snapshot)' = ViewOf(idx', nslock'.snapshot)
      BY DEF View, ViewOf, Older, Latest
    <3> QED
      BY <2>3, <2>4, <3>1
  <2>5. CASE [NsNext]_nsVars
    <3>1. nslock'.snapshot = v
      <4>1. nslock' # NoLock
        <5>1. NoLock.nonce = 0
          BY DEF NoLock
        <5> QED
          BY <1>1, <2>2, <5>1
      <4> QED
        BY <1>1, <2>1, <2>2, <2>5, <4>1, LockChange
    <3>2. \A e \in idx' \ idx : e.ver = ver + 1
      BY <2>2, <2>5, Added
    <3>3. ASSUME NEW e, e.ver <= v PROVE e \in idx' <=> e \in idx
      <4>1. ASSUME e \in idx' \ idx PROVE FALSE
        BY SMTT(30), <2>2, <3>2, <3>3, <4>1
      <4>2. ASSUME e \in idx \ idx' PROVE FALSE
        <5>1. e.ver > v /\ e.ver \in Nat
          BY <2>1, <2>2, <2>5, <4>2, DeletedIsRolledBack, KeyOfEntry
        <5> QED
          BY SMTT(30), <2>2, <3>3, <5>1
      <4> QED
        BY <4>1, <4>2
    <3>4. ViewOf(idx', v) = ViewOf(idx, v)
      BY <3>3, SameView
    <3> QED
      BY <2>4, <3>1, <3>4
  <2>6. CASE DeleteVersions
    <3>1. tr.pc = "delete" /\ idx' = idx \ tr.dels /\ nslock' = nslock
      BY <2>6 DEF DeleteVersions
    <3>2. /\ tr.before \in Nat /\ "delete" # "idle"
          /\ \A e \in idx : e.ver \in Nat
      BY <1>1, <2>2, KeyOfEntry DEF TruncInv, TruncType
    <3>3. ASSUME NEW e \in idx \cap tr.dels, e.ver <= v
          PROVE  \E f \in idx \ tr.dels : f.page = e.page /\ e.ver < f.ver /\ f.ver <= v
      <4>1. PICK f \in idx \ tr.dels : f.page = e.page /\ e.ver < f.ver /\ f.ver <= tr.before
        BY <1>1, <3>1, <3>3 DEF TruncKnows
      <4>2. f.ver <= v
        BY <1>1, <2>1, <3>1, <3>2, <4>1 DEF TruncKnows
      <4> QED
        BY <4>1, <4>2
    <3>4. ViewOf(idx \ tr.dels, v) = ViewOf(idx, v)
      BY <2>2, <3>3, SameLatest
    <3> QED
      BY <2>1, <2>4, <3>1, <3>4
  <2>7. CASE UNCHANGED <<idx, nslock>>
    BY <2>1, <2>4, <2>7
  <2>8. CASE TruncateStep /\ ~DeleteVersions
    BY <2>7, <2>8 DEF TruncateStep, StartTruncate, ScanVersions, TruncateChangelog, StopTruncate,
                      nsVars, vars
  <2> QED
    BY <1>1, <2>5, <2>6, <2>8 DEF TruncNext, truncVars
<1>2. TruncInv /\ TruncKnows /\ [TruncNext]_truncVars =>
        [nslock.owner # NoOwner /\ nslock'.nonce = nslock.nonce
            => View(nslock.snapshot)' = View(nslock.snapshot)]_truncVars
  BY <1>1
<1> QED
  BY <1>2, TruncSpec_TruncInv, TruncSpec_TruncKnows, PTL DEF TruncSpec, LockedSnapshotStable

=============================================================================
