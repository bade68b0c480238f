---------------------------- MODULE NsLockProofs ----------------------------
(***************************************************************************)
(* Proofs about the namespace lock, for any number of transactions,        *)
(* release requests, pages and faults, and any size of the batches.        *)
(***************************************************************************)
EXTENDS NsRelProofs, KeyRangeProofs

\* Leaves are given to Zenon unless they name another prover.
USE ZenonT(30)

-----------------------------------------------------------------------------
(* Batches and views                                                       *)

\* Finitely many entries have finitely many keys.
LEMMA KeysFinite ==
    ASSUME NEW S \in SUBSET IndexEntry, IsFiniteSet(S)
    PROVE  /\ {Key(e) : e \in S} \in SUBSET (Nat \X Nat)
           /\ IsFiniteSet({Key(e) : e \in S})
<1> DEFINE K == {Key(e) : e \in S}
           f == [e \in S |-> Key(e)]
<1>1. f \in Surjection(S, K)
  BY DEF Surjection
<1>2. IsFiniteSet(K)
  BY <1>1, FS_Surjection
<1>3. K \in SUBSET (Nat \X Nat)
  BY KeyOfEntry
<1> QED
  BY <1>2, <1>3

\* The key a rollback goes on from is a key (nslock.rs 211-222).
LEMMA EndOfBatch ==
    ASSUME NEW S \in SUBSET IndexEntry, IsFiniteSet(S), S # {}
    PROVE  LastKey({Key(e) : e \in S}) \in Nat \X Nat
<1> DEFINE K == {Key(e) : e \in S}
<1>1. K \in SUBSET (Nat \X Nat) /\ IsFiniteSet(K) /\ K # {}
  BY KeysFinite
<1> HIDE DEF K
<1>2. \E k \in K : \A j \in K : ~Before(k, j)
  BY <1>1, FinalKey
<1>3. LastKey(K) \in K
  BY <1>2 DEF LastKey
<1> QED
  BY <1>1, <1>3 DEF K

\* A round of the scan sees the next entries and leaves none out (nslock.rs
\* 198-209).
LEMMA BatchSound ==
    ASSUME TypeOK, IsFiniteSet(idx)
    PROVE  ScanSound
<1> SUFFICES ASSUME NEW last \in Nat \X Nat
             PROVE  /\ Batch(last) \subseteq idx /\ IsFiniteSet(Batch(last))
                    /\ Batch(last) = {} => \A e \in idx : ~Before(last, Key(e))
                    /\ Batch(last) # {} =>
                          \A e \in idx : Before(last, Key(e)) =>
                              \/ e \in Batch(last)
                              \/ Before(LastKey({Key(f) : f \in Batch(last)}), Key(e))
  BY DEF ScanSound
<1> DEFINE K == NextKeys(PageKeys, last, RollbackScanBatchSize)
<1>1. idx \in SUBSET IndexEntry
  BY DEF TypeOK
<1>2. PageKeys \in SUBSET (Nat \X Nat) /\ IsFiniteSet(PageKeys)
  BY <1>1, KeysFinite DEF PageKeys
<1>3. /\ K \subseteq PageKeys
      /\ K = {} => \A k \in PageKeys : ~Before(last, k)
      /\ K # {} => \A k \in PageKeys : Before(last, k) => k \in K \/ Before(LastKey(K), k)
  BY <1>2, LockAssumption, BatchCovers
<1>4. Batch(last) = {e \in idx : Key(e) \in K}
  BY DEF Batch, EntriesAt
<1> HIDE DEF K
<1>5. \A e \in idx : Key(e) \in PageKeys
  BY DEF PageKeys
<1>6. {Key(f) : f \in Batch(last)} = K
  <2>1. ASSUME NEW k \in K PROVE k \in {Key(f) : f \in Batch(last)}
    <3>1. PICK e \in idx : k = Key(e)
      BY <1>3 DEF PageKeys
    <3>2. e \in Batch(last)
      BY <1>4, <3>1
    <3> QED
      BY <3>1, <3>2
  <2>2. ASSUME NEW f \in Batch(last) PROVE Key(f) \in K
    BY <1>4
  <2> QED
    BY <2>1, <2>2
<1>7. Batch(last) \subseteq idx /\ IsFiniteSet(Batch(last))
  BY <1>4, FS_Subset
<1>8. Batch(last) = {} <=> K = {}
  BY <1>6
<1>9. Batch(last) = {} => \A e \in idx : ~Before(last, Key(e))
  BY <1>3, <1>5, <1>8
<1>10. ASSUME Batch(last) # {}, NEW e \in idx, Before(last, Key(e))
       PROVE  e \in Batch(last) \/ Before(LastKey(K), Key(e))
  BY <1>3, <1>4, <1>5, <1>8, <1>10
<1> QED
  BY <1>6, <1>7, <1>9, <1>10

\* Of the versions of a page one is the latest.
LEMMA LatestExists ==
    ASSUME NEW S \in SUBSET IndexEntry, IsFiniteSet(S), S # {}, NEW p, \A e \in S : e.page = p
    PROVE  \E e \in S : \A f \in S : f.ver <= e.ver
<1> DEFINE K == {Key(e) : e \in S}
<1>1. K \in SUBSET (Nat \X Nat) /\ IsFiniteSet(K) /\ K # {}
  BY KeysFinite
<1>2. PICK k \in K : \A j \in K : ~Before(k, j)
  <2> HIDE DEF K
  <2> QED
    BY <1>1, FinalKey
<1>3. PICK e \in S : k = Key(e)
  BY <1>2
<1>4. ASSUME NEW f \in S PROVE f.ver <= e.ver
  <2>1. ~Before(Key(e), Key(f))
    BY <1>2, <1>3
  <2>2. e \in IndexEntry /\ f \in IndexEntry /\ e.page = f.page
    OBVIOUS
  <2>3. /\ Key(e)[1] = e.page /\ Key(e)[2] = e.ver /\ e.page \in Nat /\ e.ver \in Nat
        /\ Key(f)[1] = f.page /\ Key(f)[2] = f.ver /\ f.ver \in Nat
    BY <2>2, KeyOfEntry
  <2> QED
    BY SMTT(30), <2>1, <2>2, <2>3 DEF Before
<1> QED
  BY <1>4

\* A view has a hash, or none, for every page.
LEMMA ViewType ==
    ASSUME NEW I \in SUBSET IndexEntry, IsFiniteSet(I), NEW v
    PROVE  ViewOf(I, v) \in [Page -> Hash \cup {NoHash}]
<1> SUFFICES ASSUME NEW p \in Page PROVE ViewOf(I, v)[p] \in Hash \cup {NoHash}
  BY DEF ViewOf
<1>1. PICK older : older = Older(I, p, v)
  OBVIOUS
<1>2. older \in SUBSET IndexEntry /\ IsFiniteSet(older) /\ \A e \in older : e.page = p
  BY <1>1, FS_Subset DEF Older
<1>3. CASE older = {}
  BY <1>1, <1>3 DEF ViewOf, Latest
<1>4. CASE older # {}
  <2>1. PICK m : m = CHOOSE e \in older : \A f \in older : f.ver <= e.ver
    OBVIOUS
  <2>2. m \in older
    BY <1>2, <1>4, <2>1, LatestExists
  <2>3. ViewOf(I, v)[p] = m.hash
    BY <1>1, <1>4, <2>1 DEF ViewOf, Latest
  <2> QED
    BY <1>2, <2>2, <2>3, KeyOfEntry
<1> QED
  BY <1>3, <1>4

-----------------------------------------------------------------------------
(* The commit path                                                         *)

\* The commit path leaves the lock alone, and only the end of a commit writes to
\* the page index, the changelog and the last write version.
LEMMA LockFrame ==
    ASSUME TypeOK, [Next]_vars
    PROVE  /\ nslock' = nslock /\ mod'.nsmd = mod.nsmd
           /\ \/ UNCHANGED <<idx, lwv, clog, applied>>
              \/ \E t \in Tx, k \in Attempt : CommitPhase2(t, k)
<1> DEFINE Quiet == UNCHANGED <<idx, lwv, clog, applied>>
<1>1. ASSUME NEW P, NEW H, NEW keys, NEW v, "nsmd" \notin keys,
             mod' = WriteConflicts(P, H, keys, v)
      PROVE  mod'.nsmd = mod.nsmd
  BY <1>1 DEF WriteConflicts
<1>2. ASSUME NEW t \in Tx, Client(t) PROVE nslock' = nslock /\ mod'.nsmd = mod.nsmd /\ Quiet
  <2>1. CASE WriteMany(t)
    <3>1. PICK push : mod' = WriteConflicts({}, push, {}, ver + 1)
      BY <2>1 DEF WriteMany
    <3>2. mod'.nsmd = mod.nsmd
      BY <1>1, <3>1
    <3> QED
      BY <2>1, <3>2 DEF WriteMany
  <2>2. CASE CreateTransaction(t) \/ SendCommit(t) \/ Retry(t) \/ Receive(t)
    BY <2>2 DEF CreateTransaction, SendCommit, Retry, Receive, dbVars
  <2> QED
    BY <1>2, <2>1, <2>2 DEF Client
<1>3. ASSUME NEW t \in Tx, NEW k \in Attempt, CommitPhase2(t, k)
      PROVE  nslock' = nslock /\ mod'.nsmd = mod.nsmd
  <2>1. PICK P, H : mod' = WriteConflicts(P, H, {"lwv"}, ver + 1)
    BY <1>3 DEF CommitPhase2, ApplyWrites
  <2>2. mod'.nsmd = mod.nsmd
    BY <1>1, <2>1
  <2> QED
    BY <1>3, <2>2 DEF CommitPhase2, ApplyWrites
<1>4. ASSUME NEW t \in Tx, NEW k \in Attempt, Server(t, k), ~CommitPhase2(t, k)
      PROVE  nslock' = nslock /\ mod'.nsmd = mod.nsmd /\ Quiet
  <2>1. CASE CommitPhase1(t, k)
    <3>1. mod' = WriteConflicts({}, FastHashes(t), {"token"}, ver + 1)
      BY <2>1 DEF CommitPhase1
    <3>2. mod'.nsmd = mod.nsmd
      BY <1>1, <3>1
    <3> QED
      BY <2>1, <3>2 DEF CommitPhase1
  <2>2. CASE BehindClient(t, k) \/ BadPageReference(t, k) \/ SinglePhaseChecks(t, k)
             \/ MultiPhaseChecks(t, k) \/ CommitFails(t, k)
    BY <2>2 DEF BehindClient, BadPageReference, SinglePhaseChecks, MultiPhaseChecks,
                CommitFails, dbVars
  <2> QED
    BY <1>4, <2>1, <2>2 DEF Server
<1>5. ASSUME NEW h \in Hash, DeleteUnreferencedContent(h)
      PROVE  nslock' = nslock /\ mod'.nsmd = mod.nsmd /\ Quiet
  <2>1. mod' = WriteConflicts({}, {h}, {"token"}, ver + 1)
    BY <1>5 DEF DeleteUnreferencedContent
  <2>2. mod'.nsmd = mod.nsmd
    BY <1>1, <2>1
  <2> QED
    BY <1>5, <2>2 DEF DeleteUnreferencedContent
<1>6. CASE UNCHANGED vars
  BY <1>6 DEF vars
<1> QED
  BY <1>2, <1>3, <1>4, <1>5, <1>6 DEF Next

\* A transaction gets its version when it starts, and keeps it (lib.rs 180-247).
LEMMA Starts ==
    ASSUME TypeOK, [Next]_vars, NEW t \in Tx
    PROVE  \/ tx'[t].assumed = tx[t].assumed /\ (tx'[t].st = "new" <=> tx[t].st = "new")
           \/ /\ CreateTransaction(t) /\ tx[t].st = "new" /\ tx'[t].st = "open"
              /\ tx'[t].assumed = StatVersion(tx[t].plan.owner)
<1>0. tx[t] \in TxType
  BY DEF TypeOK
<1>1. ASSUME NEW u \in Tx, NEW x, tx' = [tx EXCEPT ![u] = x] PROVE tx'[t] = IF t = u THEN x ELSE tx[t]
  BY <1>1 DEF TypeOK
<1>2. CASE UNCHANGED tx
  BY <1>2
<1>3. ASSUME NEW u \in Tx, CreateTransaction(u) PROVE u # t => tx'[t] = tx[t]
  <2>1. \E x : tx' = [tx EXCEPT ![u] = x]
    BY <1>3 DEF CreateTransaction
  <2> QED
    BY <1>1, <2>1
<1>4. CASE CreateTransaction(t)
  <2> DEFINE v == StatVersion(tx[t].plan.owner)
  <2>1. tx' = [tx EXCEPT ![t] = [tx[t] EXCEPT !.st = "open", !.assumed = v]]
    BY <1>4 DEF CreateTransaction
  <2> HIDE DEF v
  <2>2. tx'[t] = [tx[t] EXCEPT !.st = "open", !.assumed = v]
    BY <1>1, <2>1
  <2>3. tx'[t].st = "open" /\ tx'[t].assumed = v
    BY <1>0, <2>2 DEF TxType
  <2> QED
    BY <1>4, <2>3 DEF v, CreateTransaction
<1>5. ASSUME NEW u \in Tx, WriteMany(u) \/ SendCommit(u) \/ Retry(u) \/ Receive(u)
      PROVE  tx'[t].assumed = tx[t].assumed /\ (tx'[t].st = "new" <=> tx[t].st = "new")
  <2>0. /\ \A q : [tx[t] EXCEPT !.st = q].st = q /\ [tx[t] EXCEPT !.st = q].assumed = tx[t].assumed
        /\ \A n : /\ [tx[t] EXCEPT !.n = n].st = tx[t].st
                  /\ [tx[t] EXCEPT !.n = n].assumed = tx[t].assumed
        /\ \A q, n : /\ [tx[t] EXCEPT !.st = q, !.n = n].st = q
                     /\ [tx[t] EXCEPT !.st = q, !.n = n].assumed = tx[t].assumed
    BY <1>0 DEF TxType
  <2>1. CASE WriteMany(u)
    <3>1. tx' = [tx EXCEPT ![u] = [tx[u] EXCEPT !.st = "flushed"]] /\ tx[u].st = "open"
      BY <2>1 DEF WriteMany
    <3> QED
      BY SMTT(30), <1>1, <2>0, <3>1
  <2>2. CASE SendCommit(u)
    <3>1. /\ tx' = [tx EXCEPT ![u] = [tx[u] EXCEPT !.st = "committing", !.n = 1]]
          /\ tx[u].st # "new"
      BY <2>2 DEF SendCommit
    <3> QED
      BY SMTT(30), <1>1, <2>0, <3>1
  <2>3. CASE Retry(u)
    <3>1. tx' = [tx EXCEPT ![u] = [tx[u] EXCEPT !.n = tx[u].n + 1]]
      BY <2>3 DEF Retry
    <3> QED
      BY SMTT(30), <1>1, <2>0, <3>1
  <2>4. CASE Receive(u)
    <3> DEFINE q == ClientOutcome(att[u][tx[u].n].res)
    <3>1. tx' = [tx EXCEPT ![u] = [tx[u] EXCEPT !.st = q]] /\ tx[u].st = "committing"
      BY <2>4 DEF Receive
    <3>2. q # "new"
      BY <2>4 DEF Receive, ClientOutcome
    <3> HIDE DEF q
    <3> QED
      BY SMTT(30), <1>1, <2>0, <3>1, <3>2
  <2> QED
    BY <1>5, <2>1, <2>2, <2>3, <2>4
<1>6. ASSUME NEW u \in Tx, NEW k \in Attempt, Server(u, k) PROVE UNCHANGED tx
  BY <1>6 DEF Server, BehindClient, BadPageReference, SinglePhaseChecks, MultiPhaseChecks,
              CommitPhase1, CommitPhase2, ApplyWrites, CommitFails
<1>7. ASSUME NEW h \in Hash, DeleteUnreferencedContent(h) PROVE UNCHANGED tx
  BY <1>7 DEF DeleteUnreferencedContent
<1>8. CASE UNCHANGED vars
  BY <1>2, <1>8 DEF vars
<1>9. ASSUME NEW u \in Tx, Client(u)
      PROVE  \/ tx'[t].assumed = tx[t].assumed /\ (tx'[t].st = "new" <=> tx[t].st = "new")
             \/ CreateTransaction(t)
  BY <1>3, <1>5, <1>9 DEF Client
<1> QED
  BY <1>2, <1>4, <1>6, <1>7, <1>8, <1>9 DEF Next

\* The lock lets a request in that names its owner, and none during a rollback
\* (commit.rs 180-205).
LEMMA LetInStep ==
    ASSUME TypeOK, TypeOK', RollingIsHeld, [Next]_vars, NEW t \in Tx, NEW k \in Attempt,
           LetIn(att[t][k], tx[t].plan.owner)
    PROVE  LetIn(att[t][k], tx[t].plan.owner)'
<1>0. /\ nslock' = nslock /\ mod'.nsmd = mod.nsmd /\ ver \in Nat /\ ver' \in Nat /\ ver <= ver'
      /\ tx'[t].plan = tx[t].plan
  BY NextStoreStep, LockFrame DEF TypeOK, StoreStep
<1>1. PICK o : o = tx[t].plan.owner
  OBVIOUS
<1>2. ASSUME NEW a, att'[t][k] = a, LetIn(a, o)' PROVE LetIn(att[t][k], tx[t].plan.owner)'
  <2>1. tx'[t].plan.owner = o
    BY <1>0, <1>1
  <2> QED
    BY <1>2, <2>1, LetInNext
<1>3. CASE att'[t][k] = att[t][k]
  <2>1. PICK a : a = att[t][k]
    OBVIOUS
  <2>2. a \in AttemptType /\ LetIn(a, o) /\ att'[t][k] = a
    BY <1>1, <1>3, <2>1 DEF TypeOK
  <2>3. LetIn(a, o)'
    BY <1>0, <2>2, LetInFrame
  <2> QED
    BY <1>2, <2>2, <2>3
<1>4. ASSUME NEW a, a.pc # "phase2", a.rv <= ver', att'[t][k] = a PROVE LetIn(att[t][k], tx[t].plan.owner)'
  <2>1. LetIn(a, o)'
    BY <1>4 DEF LetIn
  <2> QED
    BY <1>2, <1>4, <2>1
<1>5. ASSUME NEW r, NEW v, NEW i, att' = [att EXCEPT ![t][k] = Answer(r, v, i)] PROVE LetIn(att[t][k], tx[t].plan.owner)'
  <2>1. att'[t][k] = Answer(r, v, i)
    BY <1>5 DEF TypeOK
  <2>2. Answer(r, v, i).pc = "replied" /\ Answer(r, v, i).rv = 0
    BY DEF Answer
  <2> QED
    BY SMTT(30), <1>0, <1>4, <2>1, <2>2
<1>6. ASSUME NEW r, Reply(t, k, r) PROVE LetIn(att[t][k], tx[t].plan.owner)'
  <2> DEFINE v == IF r = "committed" THEN lwv.ver ELSE 0
  <2>1. att' = [att EXCEPT ![t][k] = Answer(r, v, Full)]
    BY <1>6 DEF Reply
  <2> HIDE DEF v
  <2> QED
    BY <1>5, <2>1
<1>7. ASSUME NEW pc, NEW rv, NEW rc, NEW put,
             att' = [att EXCEPT ![t][k] = Running(pc, rv, rc, put)]
      PROVE  \E a : att'[t][k] = a /\ a.pc = pc /\ a.rv = rv /\ a.rc = rc
  <2>1. PICK a : a = Running(pc, rv, rc, put)
    OBVIOUS
  <2>2. att'[t][k] = a
    BY <1>7, <2>1 DEF TypeOK
  <2>3. a.pc = pc /\ a.rv = rv /\ a.rc = rc
    BY <2>1 DEF Running
  <2> QED
    BY <2>2, <2>3
<1>8. ASSUME Phase2Verdict(t, k) = "none"
      PROVE  nslock.owner = tx[t].plan.owner /\ nslock.rolling = FALSE
  <2>1. LockVerdict(t) = "none"
    BY <1>8 DEF Phase2Verdict
  <2>2. nslock.rolling \in BOOLEAN
    BY DEF TypeOK, LockType
  <2> QED
    BY <2>1, <2>2 DEF LockVerdict, RollingIsHeld
<1>9. SinglePhaseReads(t).nsmd = TRUE /\ [Phase2Reads(t) EXCEPT !.token = TRUE].nsmd = TRUE
  BY DEF SinglePhaseReads, Phase2Reads, NoReads
<1>10. ASSUME NEW rv \in Nat, rv <= ver', NEW rc, NEW put, rc.nsmd = TRUE,
              att' = [att EXCEPT ![t][k] = Running("phase2", rv, rc, put)],
              Phase2Verdict(t, k) = "none"
       PROVE  LetIn(att[t][k], tx[t].plan.owner)'
  <2>1. PICK a : att'[t][k] = a /\ a.pc = "phase2" /\ a.rv = rv /\ a.rc = rc
    BY <1>7, <1>10
  <2>2. nslock'.owner = o /\ nslock'.rolling = FALSE
    BY <1>0, <1>1, <1>8, <1>10
  <2>3. LetIn(a, o)'
    BY <1>10, <2>1, <2>2 DEF LetIn
  <2> QED
    BY <1>2, <2>1, <2>3
<1>11. CASE att'[t][k] # att[t][k]
  <2>1. CASE att'[t][k] = Sent
    <3>1. Sent.pc # "phase2" /\ Sent.rv = 0
      BY DEF Sent, Running
    <3> QED
      BY SMTT(30), <1>0, <1>4, <2>1, <3>1
  <2>2. CASE BehindClient(t, k) \/ BadPageReference(t, k) \/ CommitFails(t, k)
    BY <1>6, <2>2 DEF BehindClient, BadPageReference, CommitFails
  <2>3. CASE MultiPhaseChecks(t, k)
    <3> DEFINE rc == Phase1Reads(t)
               put == Unstored(FastHashes(t))
    <3>1. att' = [att EXCEPT ![t][k] = Running("phase1", ver, rc, put)]
      BY <2>3 DEF MultiPhaseChecks
    <3> HIDE DEF rc, put
    <3>2. PICK a : att'[t][k] = a /\ a.pc = "phase1" /\ a.rv = ver
      BY <1>7, <3>1
    <3> QED
      BY <1>0, <1>4, <3>2
  <2>4. CASE SinglePhaseChecks(t, k)
    <3> DEFINE rc == SinglePhaseReads(t)
               put == Unstored(FastHashes(t))
    <3>1. /\ Phase2Verdict(t, k) # "none" => Reply(t, k, Phase2Verdict(t, k))
          /\ Phase2Verdict(t, k) = "none" =>
                att' = [att EXCEPT ![t][k] = Running("phase2", ver, rc, put)]
      BY <2>4 DEF SinglePhaseChecks
    <3>2. rc.nsmd = TRUE
      BY <1>9
    <3> HIDE DEF rc, put
    <3> QED
      BY <1>0, <1>6, <1>10, <3>1, <3>2
  <2>5. CASE CommitPhase1(t, k)
    <3> DEFINE rc == [Phase2Reads(t) EXCEPT !.token = TRUE]
    <3>1. /\ ver' = ver + 1
          /\ Phase2Verdict(t, k) # "none" => Reply(t, k, Phase2Verdict(t, k))
          /\ Phase2Verdict(t, k) = "none" =>
                att' = [att EXCEPT ![t][k] = Running("phase2", ver + 1, rc, {})]
      BY <2>5 DEF CommitPhase1
    <3>2. rc.nsmd = TRUE /\ ver + 1 \in Nat /\ ver + 1 <= ver'
      BY SMTT(30), <1>0, <1>9, <3>1
    <3> HIDE DEF rc
    <3> QED
      BY <1>6, <1>10, <3>1, <3>2
  <2>6. CASE CommitPhase2(t, k)
    <3> DEFINE i == ReadInterval(Assumed(t), ver, FALSE)'
    <3>1. \/ att' = [att EXCEPT ![t][k] = Answer("committed", ver', i)]
          \/ att' = [att EXCEPT ![t][k] = Answer("error", 0, Full)]
      BY <2>6 DEF CommitPhase2
    <3> HIDE DEF i
    <3> QED
      BY <1>5, <3>1
  <2> QED
    BY <1>11, <2>1, <2>2, <2>3, <2>4, <2>5, <2>6, RequestSteps
<1> QED
  BY <1>3, <1>11

\* The commit path: a commit that takes effect was let in by the lock as it is,
\* so that no rollback is going on.
LEMMA CommitUnderLock ==
    ASSUME NsInv, NEW t \in Tx, NEW k \in Attempt, CommitPhase2(t, k)
    PROVE  nslock.owner = tx[t].plan.owner /\ nslock.rolling = FALSE
<1>1. PICK a, o : a = att[t][k] /\ o = tx[t].plan.owner
  OBVIOUS
<1>2. TypeOK /\ LetIn(a, o)
  BY <1>1 DEF NsInv, NsTypeOK
<1>3. a.pc = "phase2" /\ NotModifiedSince(a.rc, a.rv)
  BY <1>1, <1>2, CommitEffect
<1>4. a.rc.nsmd = TRUE
  BY <1>2, <1>3 DEF LetIn
<1>5. mod.nsmd <= a.rv
  BY <1>3, <1>4 DEF NotModifiedSince
<1> QED
  BY <1>1, <1>2, <1>3, <1>5 DEF LetIn

\* What the end of a commit does to the index and the changelog.
LEMMA CommitIndex ==
    ASSUME NsInv, NEW t \in Tx, NEW k \in Attempt, CommitPhase2(t, k)
    PROVE  /\ ver' = ver + 1 /\ lwv'.ver = ver + 1 /\ tx' = tx
           /\ idx' = idx \cup {EntryOf(t, p, ver + 1) : p \in Written(t)}
           /\ clog' = clog \cup {ChangelogEntry(t, ver + 1)}
           /\ ChangelogEntry(t, ver + 1).ver = ver + 1
           /\ IsFiniteSet(idx')
           /\ \A p \in Written(t) : EntryOf(t, p, ver + 1).ver = ver + 1
<1> DEFINE E == {EntryOf(t, p, ver + 1) : p \in Written(t)}
<1>1. TypeOK /\ IsFiniteSet(idx)
  BY DEF NsInv, NsTypeOK, VersionsGiven
<1>2. /\ ver' = ver + 1 /\ lwv' = [key |-> t, ver |-> ver + 1] /\ tx' = tx
      /\ idx' = idx \cup {[page |-> p, ver |-> ver + 1, hash |-> HashOf(t, p)] : p \in Written(t)}
  BY <1>1, CommitEffect
<1>3. idx' = idx \cup E
  BY <1>2 DEF EntryOf
<1>4. clog' = clog \cup {ChangelogEntry(t, ver + 1)}
  BY DEF CommitPhase2, ApplyWrites
<1>5. ChangelogEntry(t, ver + 1).ver = ver + 1
  BY DEF ChangelogEntry
<1>6. IsFiniteSet(E)
  <2> DEFINE f == [p \in Written(t) |-> EntryOf(t, p, ver + 1)]
  <2>1. IsFiniteSet(Written(t))
    BY <1>1, PlanTypes, LockAssumption, FS_Subset
  <2>2. f \in Surjection(Written(t), E)
    BY DEF Surjection
  <2> QED
    BY <2>1, <2>2, FS_Surjection
<1>7. IsFiniteSet(idx')
  BY <1>1, <1>3, <1>6, FS_Union
<1>8. \A p \in Written(t) : EntryOf(t, p, ver + 1).ver = ver + 1
  BY DEF EntryOf
<1> QED
  BY <1>2, <1>3, <1>4, <1>5, <1>7, <1>8

\* A step of the commit path, beside a rollback or not.
LEMMA CommitPathStep ==
    ASSUME NsInv, CommitPath
    PROVE  NsInv'
<1>0. TypeOK /\ NsTypeOK /\ ver \in Nat /\ VersionsGiven /\ Next /\ RememberBase /\ UNCHANGED lockVars
  BY DEF NsInv, NsTypeOK, TypeOK, CommitPath
<1>1. TypeOK' /\ StoreStep
  BY <1>0, NextType, NextStoreStep
<1>2. ver' \in Nat /\ ver <= ver'
  BY <1>1 DEF TypeOK, StoreStep
<1>3. /\ nslock' = nslock /\ mod'.nsmd = mod.nsmd
      /\ UNCHANGED <<idx, lwv, clog, applied>> \/ \E t \in Tx, k \in Attempt : CommitPhase2(t, k)
  BY <1>0, LockFrame
<1>4. UNCHANGED <<cursor, rel, faults>>
  BY <1>0 DEF lockVars
<1>5. \A t \in Tx, k \in Attempt : LetIn(att[t][k], tx[t].plan.owner)'
  BY <1>0, <1>1, LetInStep DEF NsInv
<1>6. NsTypeOK'
  <2>1. \A v : View(v) \in [Page -> Hash \cup {NoHash}]
    BY <1>0, ViewIsViewOf, ViewType DEF TypeOK, VersionsGiven
  <2>2. base' \in [Tx -> [Page -> Hash \cup {NoHash}]]
    BY <1>0, <2>1 DEF RememberBase, NsTypeOK
  <2> QED
    BY <1>0, <1>1, <1>4, <2>2 DEF NsTypeOK
<1>7. /\ \A e \in idx : e.ver \in Nat
      /\ \A e \in clog : e.ver \in Nat
      /\ \A t \in Tx : applied[t] \subseteq Nat /\ Assumed(t) \in Nat
      /\ lwv.ver \in Nat /\ nslock.snapshot \in Nat /\ nslock.nonce \in Nat
  BY <1>0 DEF TypeOK, IndexEntry, LogEntry, Assumed, TxType, LockType
<1>8. \A t \in Tx : tx'[t].st # "new" => Assumed(t)' <= ver'
  <2> SUFFICES ASSUME NEW t \in Tx, tx'[t].st # "new" PROVE tx'[t].assumed <= ver'
    BY DEF Assumed
  <2>1. CASE tx'[t].assumed = tx[t].assumed /\ (tx'[t].st = "new" <=> tx[t].st = "new")
    <3>1. Assumed(t) <= ver /\ Assumed(t) \in Nat
      BY <1>0, <1>7, <2>1 DEF VersionsGiven
    <3> QED
      BY SMTT(30), <1>0, <1>2, <2>1, <3>1 DEF Assumed
  <2>2. CASE tx'[t].assumed = StatVersion(tx[t].plan.owner)
    <3>1. tx'[t].assumed = nslock.snapshot \/ tx'[t].assumed = lwv.ver
      BY <2>2 DEF StatVersion
    <3>2. nslock.snapshot <= ver /\ lwv.ver <= ver
      BY <1>0 DEF VersionsGiven
    <3> QED
      BY SMTT(30), <1>0, <1>2, <1>7, <3>1, <3>2
  <2> QED
    BY <1>0, <2>1, <2>2, Starts
<1>9. nslock'.snapshot <= ver' /\ nslock'.nonce <= ver'
  BY SMTT(30), <1>0, <1>2, <1>3, <1>7 DEF VersionsGiven
<1>10. RollingIsHeld'
  BY <1>3 DEF NsInv, RollingIsHeld
<1>11. CASE UNCHANGED <<idx, lwv, clog, applied>>
  <2>1. VersionsGiven'
    <3>1. /\ \A e \in idx' : 0 < e.ver /\ e.ver <= ver'
          /\ \A e \in clog' : e.ver <= ver'
          /\ IsFiniteSet(idx') /\ lwv'.ver <= ver'
      BY SMTT(30), <1>0, <1>2, <1>7, <1>11 DEF VersionsGiven
    <3>2. \A t \in Tx : \A d \in applied'[t] : d <= ver'
      BY SMTT(30), <1>0, <1>2, <1>7, <1>11 DEF VersionsGiven
    <3> QED
      BY <1>8, <1>9, <3>1, <3>2 DEF VersionsGiven
  <2>2. NothingNewerThanLwv' /\ CursorKnows'
    BY <1>3, <1>4, <1>11 DEF NsInv, NothingNewerThanLwv, CursorKnows
  <2>3. \A r \in Handler : Knows(rel[r])'
    <3>1. idx' \subseteq idx
      BY <1>11
    <3>2. \A h \in RelType : Knows(h) => Knows(h)'
      BY <1>0, <1>2, <1>3, <3>1, KnowsFrame
    <3> QED
      BY <1>4, <3>2, StillKnow
  <2> QED
    BY <1>5, <1>6, <1>10, <2>1, <2>2, <2>3 DEF NsInv
<1>12. ASSUME NEW t \in Tx, NEW k \in Attempt, CommitPhase2(t, k) PROVE NsInv'
  <2>1. /\ ver' = ver + 1 /\ lwv'.ver = ver + 1 /\ tx' = tx
        /\ idx' = idx \cup {EntryOf(t, p, ver + 1) : p \in Written(t)}
        /\ clog' = clog \cup {ChangelogEntry(t, ver + 1)}
        /\ ChangelogEntry(t, ver + 1).ver = ver + 1
        /\ IsFiniteSet(idx')
        /\ \A p \in Written(t) : EntryOf(t, p, ver + 1).ver = ver + 1
    BY <1>12, CommitIndex
  <2>2. nslock.rolling = FALSE
    BY <1>12, CommitUnderLock
  <2>3. \A e \in idx' : 0 < e.ver /\ e.ver <= ver + 1
    BY SMTT(30), <1>0, <1>7, <2>1 DEF VersionsGiven
  <2>4. \A e \in clog' : e.ver <= ver + 1
    BY SMTT(30), <1>0, <1>7, <2>1 DEF VersionsGiven
  <2>5. \A u \in Tx : \A d \in applied'[u] : d <= ver + 1
    <3>1. applied'[t] = applied[t] \cup {ver + 1} /\ \A u \in Tx \ {t} : applied'[u] = applied[u]
      BY <1>0, <1>12, CommitEffect
    <3>2. \A u \in Tx : \A d \in applied[u] : d \in Nat /\ d <= ver
      BY <1>0, <1>7 DEF VersionsGiven
    <3> QED
      BY SMTT(30), <1>0, <3>1, <3>2
  <2>6. VersionsGiven'
    BY <1>0, <1>8, <1>9, <2>1, <2>3, <2>4, <2>5 DEF VersionsGiven
  <2>7. NothingNewerThanLwv' /\ CursorKnows'
    BY <1>3, <2>1, <2>2, <2>3 DEF NothingNewerThanLwv, CursorKnows
  <2>8. \A r \in Handler : Knows(rel[r])'
    <3>1. \A h \in RelType : Knows(h) => ~(h.pc \in Begun /\ Valid(h))
      BY <2>2 DEF Knows
    <3>2. \A h \in RelType : Knows(h) => Knows(h)'
      BY <1>0, <1>2, <1>3, <3>1, KnowsFrame
    <3> QED
      BY <1>4, <3>2, StillKnow
  <2> QED
    BY <1>5, <1>6, <1>10, <2>6, <2>7, <2>8 DEF NsInv
<1> QED
  BY <1>3, <1>11, <1>12

-----------------------------------------------------------------------------
(* The theorems that hold in every mode                                    *)

\* The empty store with no lock (commit.rs, nslock.rs).
LEMMA NsInitInv == NsInit => NsInv
<1> SUFFICES ASSUME NsInit PROVE NsInv
  OBVIOUS
<1>1. /\ ver = 0 /\ idx = {} /\ clog = {} /\ lwv = [key |-> NoTx, ver |-> 0] /\ nslock = NoLock
      /\ applied = [t \in Tx |-> {}] /\ cursor = 0 /\ rel = [r \in Handler |-> Idle] /\ faults = 0
      /\ att = [t \in Tx |-> [k \in Attempt |-> IdleAttempt]]
      /\ base = [t \in Tx |-> [p \in Page |-> NoHash]]
      /\ tx \in [Tx -> [st : {"new"}, assumed : {0}, plan : Plan, n : {0}]]
  BY DEF NsInit, Init
<1>2. TypeOK
  BY InitType DEF NsInit
<1>3. Idle \in RelType /\ Idle.pc = "idle" /\ Idle.nonce = 0 /\ Idle.snapshot = 0 /\ Idle.rv = 0
  BY IdleFields
<1>4. NsTypeOK
  <2>1. faults \in 0..MaxFaults
    BY SMTT(30), <1>1, LockAssumption
  <2> QED
    BY <1>1, <1>2, <1>3, <2>1 DEF NsTypeOK
<1>5. nslock.rolling = FALSE /\ nslock.snapshot = 0 /\ nslock.nonce = 0
  BY <1>1 DEF NoLock
<1>6. VersionsGiven
  BY SMTT(30), <1>1, <1>5, FS_EmptySet DEF VersionsGiven
<1>7. ASSUME NEW t \in Tx, NEW k \in Attempt PROVE LetIn(att[t][k], tx[t].plan.owner)
  <2>1. PICK a : a = att[t][k]
    OBVIOUS
  <2>2. a.rv = 0 /\ a.pc = "idle"
    BY <1>1, <2>1 DEF IdleAttempt, Running
  <2> QED
    BY SMTT(30), <1>1, <2>1, <2>2 DEF LetIn
<1>8. ASSUME NEW r \in Handler PROVE Knows(rel[r])
  <2>1. PICK h : h = rel[r]
    OBVIOUS
  <2>2. h.pc = "idle" /\ h.nonce = 0 /\ h.snapshot = 0 /\ h.rv = 0
    BY <1>1, <1>3, <2>1
  <2>3. Knows(h)
    BY SMTT(30), <1>1, <2>2 DEF Knows, Begun
  <2> QED
    BY <2>1, <2>3
<1>9. RollingIsHeld /\ NothingNewerThanLwv /\ CursorKnows
  BY <1>1, <1>5 DEF RollingIsHeld, NothingNewerThanLwv, CursorKnows
<1> QED
  BY <1>4, <1>6, <1>7, <1>8, <1>9 DEF NsInv

\* Every step of a commit, a lock request or a release keeps the invariant.
LEMMA NsNextInv == NsInv /\ [NsNext]_nsVars => NsInv'
<1> SUFFICES ASSUME NsInv, [NsNext]_nsVars PROVE NsInv'
  OBVIOUS
<1>1. CASE CommitPath
  BY <1>1, CommitPathStep
<1>2. ASSUME NEW o \in Owner, AcquireNslock(o) \/ ReleaseCommit(o) PROVE NsInv'
  BY <1>2, AcquireStep, ReleaseCommitStep
<1>3. ASSUME NEW r \in Handler, Release(r) \/ Crash(r) PROVE NsInv'
  <2>1. CASE \E o \in Owner : BeginRollback(r, o)
    BY <2>1, BeginStep
  <2>2. CASE \/ \E o \in Owner : RetryBegin(r, o) \/ SpinRollback(r, o)
             \/ EndSpin(r) \/ RefuseRelease(r) \/ Crash(r)
    BY <2>2, RestStep
  <2>3. CASE ReadCursor(r) \/ ScanBatch(r)
    <3>1. ScanSound
      BY BatchSound DEF NsInv, NsTypeOK, VersionsGiven
    <3> QED
      BY <2>3, <3>1, ReadCursorStep, ScanStep
  <2>4. CASE CheckFinal(r) \/ CommitFinal(r)
    BY <2>4, CheckFinalStep, CommitFinalStep
  <2>5. CASE CommitBatch(r)
    <3>1. PICK h : h = rel[r]
      OBVIOUS
    <3>2. h.batch \in SUBSET IndexEntry /\ IsFiniteSet(h.batch) /\ h.batch # {}
      BY <2>5, <3>1 DEF CommitBatch, NsInv, NsTypeOK, RelType, Knows
    <3>3. BatchEnd(rel[r]) \in Nat \X Nat
      BY <3>1, <3>2, EndOfBatch DEF BatchEnd
    <3>4. idx' \subseteq idx
      <4>1. CASE TryAgain(r, "scan")
        BY <4>1 DEF TryAgain, vars
      <4>2. CASE ~TryAgain(r, "scan")
        BY <2>5, <3>1, <4>2, BatchEffect
      <4> QED
        BY <4>1, <4>2
    <3>5. IsFiniteSet(idx')
      BY <3>4, FS_Subset DEF NsInv, VersionsGiven
    <3> QED
      BY <2>5, <3>3, <3>5, CommitBatchStep
  <2> QED
    BY <1>3, <2>1, <2>2, <2>3, <2>4, <2>5 DEF Release
<1>4. CASE UNCHANGED nsVars
  <2>1. UNCHANGED <<vars, cursor, rel, faults, base>>
    BY <1>4 DEF nsVars, lockVars
  <2>2. UNCHANGED <<ver, idx, content, ci, lwv, clog, nslock, mod, tx, att, applied>>
    BY <2>1 DEF vars
  <2>3. TypeOK'
    BY <2>2 DEF NsInv, NsTypeOK, TypeOK
  <2>4. NsTypeOK'
    BY <2>1, <2>3 DEF NsInv, NsTypeOK
  <2>5. VersionsGiven' /\ RollingIsHeld' /\ NothingNewerThanLwv' /\ CursorKnows'
    BY <2>1, <2>2 DEF NsInv, VersionsGiven, RollingIsHeld, NothingNewerThanLwv, CursorKnows, Assumed
  <2>6. \A t \in Tx, k \in Attempt : LetIn(att[t][k], tx[t].plan.owner)'
    BY <2>2 DEF NsInv, LetIn
  <2>7. \A r \in Handler : Knows(rel[r])'
    <3>1. /\ ver \in Nat /\ ver' \in Nat /\ ver <= ver' /\ nslock' = nslock
          /\ mod'.nsmd = mod.nsmd /\ idx' \subseteq idx
      BY SMTT(30), <2>2 DEF NsInv, NsTypeOK, TypeOK
    <3>2. \A h \in RelType : Knows(h) => Knows(h)'
      BY <3>1, KnowsFrame
    <3> QED
      BY <2>1, <3>2, StillKnow
  <2> QED
    BY <2>4, <2>5, <2>6, <2>7 DEF NsInv
<1> QED
  BY <1>1, <1>2, <1>3, <1>4 DEF NsNext

\* What commits and rollbacks still know about the lock they have read holds
\* always (commit.rs 180-205, nslock.rs 176-303).
THEOREM NsSpec_NsInv == NsSpec => []NsInv
<1>1. NsInit => NsInv
  BY NsInitInv
<1>2. NsInv /\ [NsNext]_nsVars => NsInv'
  BY NsNextInv
<1> QED
  BY <1>1, <1>2, PTL DEF NsSpec

\* The lock's state is well-typed.
THEOREM NsSpec_NsTypeOK == NsSpec => []NsTypeOK
<1>1. NsInv => NsTypeOK
  BY DEF NsInv
<1> QED
  BY <1>1, NsSpec_NsInv, PTL

\* No page is newer than the last write version: a rollback sets it back only
\* after every later version is gone, however many servers run it, crash or
\* repeat a batch (nslock.rs 176-286).
THEOREM NsSpec_NothingNewerThanLwv == NsSpec => []NothingNewerThanLwv
<1>1. NsInv => NothingNewerThanLwv
  BY DEF NsInv
<1> QED
  BY <1>1, NsSpec_NsInv, PTL

\* Only the commit path applies commits.
LEMMA LockStepApplies ==
    ASSUME NsInv, [NsNext]_nsVars, applied' # applied
    PROVE  \E t \in Tx, k \in Attempt : CommitPhase2(t, k)
<1>1. CASE CommitPath
  <2>1. TypeOK /\ [Next]_vars
    BY <1>1 DEF NsInv, NsTypeOK, CommitPath
  <2> QED
    BY <2>1, LockFrame
<1>2. ASSUME NEW o \in Owner, AcquireNslock(o) \/ ReleaseCommit(o) PROVE FALSE
  BY <1>2 DEF AcquireNslock, ReleaseCommit
<1>3. ASSUME NEW r \in Handler, Release(r) \/ Crash(r) PROVE FALSE
  <2>1. CASE \E o \in Owner : BeginRollback(r, o) \/ RetryBegin(r, o) \/ SpinRollback(r, o)
    BY <2>1 DEF BeginRollback, RetryBegin, SpinRollback, vars
  <2>2. CASE EndSpin(r) \/ RefuseRelease(r) \/ ReadCursor(r) \/ ScanBatch(r) \/ CheckFinal(r) \/ Crash(r)
    BY <2>2 DEF EndSpin, RefuseRelease, ReadCursor, ScanBatch, CheckFinal, Crash, vars
  <2>3. CASE CommitBatch(r)
    <3>1. PICK h : h = rel[r]
      OBVIOUS
    <3> QED
      BY <2>3, <3>1, BatchEffect DEF TryAgain, vars
  <2>4. CASE CommitFinal(r)
    BY <2>4 DEF CommitFinal, TryAgain, vars
  <2> QED
    BY <1>3, <2>1, <2>2, <2>3, <2>4 DEF Release
<1>4. CASE UNCHANGED nsVars
  BY <1>4 DEF nsVars, vars
<1> QED
  BY <1>1, <1>2, <1>3, <1>4 DEF NsNext

\* While a namespace is locked only its owner's commits take effect, and none
\* during a rollback, though the lock is read long before (commit.rs 180-205).
THEOREM NsSpec_LockIsolation == NsSpec => LockIsolation
<1>1. ASSUME NsInv, [NsNext]_nsVars, NEW t \in Tx, applied'[t] # applied[t]
      PROVE  nslock.owner = tx[t].plan.owner /\ ~nslock.rolling
  <2>1. PICK u \in Tx, k \in Attempt : CommitPhase2(u, k)
    BY <1>1, LockStepApplies
  <2>2. u = t
    <3>1. \A w \in Tx \ {u} : applied'[w] = applied[w]
      BY <1>1, <2>1, CommitEffect DEF NsInv, NsTypeOK
    <3> QED
      BY <1>1, <3>1
  <2> QED
    BY <1>1, <2>1, <2>2, CommitUnderLock
<1>2. NsInv /\ [NsNext]_nsVars =>
        [\A t \in Tx : applied'[t] # applied[t] =>
            nslock.owner = tx[t].plan.owner /\ ~nslock.rolling]_nsVars
  BY <1>1
<1> QED
  BY <1>2, NsSpec_NsInv, PTL DEF NsSpec, LockIsolation

\* Page versions are only deleted by a rollback under way, and only those after
\* the snapshot of its lock (nslock.rs 211-243).
LEMMA DeletedIsRolledBack ==
    ASSUME NsInv, [NsNext]_nsVars, NEW e \in idx \ idx'
    PROVE  nslock.rolling /\ e.ver > nslock.snapshot
<1>1. CASE CommitPath
  <2>1. TypeOK /\ [Next]_vars
    BY <1>1 DEF NsInv, NsTypeOK, CommitPath
  <2>2. ASSUME NEW t \in Tx, NEW k \in Attempt, CommitPhase2(t, k) PROVE FALSE
    BY <2>2, CommitIndex
  <2> QED
    BY <2>1, <2>2, LockFrame
<1>2. ASSUME NEW o \in Owner, AcquireNslock(o) \/ ReleaseCommit(o) PROVE FALSE
  BY <1>2 DEF AcquireNslock, ReleaseCommit
<1>3. ASSUME NEW r \in Handler, Release(r) \/ Crash(r), ~CommitBatch(r) PROVE FALSE
  <2>1. idx' = idx
    BY <1>3 DEF Release, BeginRollback, RetryBegin, SpinRollback, EndSpin, RefuseRelease,
                ReadCursor, ScanBatch, CheckFinal, CommitFinal, TryAgain, Crash, vars
  <2> QED
    BY <2>1
<1>4. ASSUME NEW r \in Handler, CommitBatch(r) PROVE nslock.rolling /\ e.ver > nslock.snapshot
  <2>1. CASE TryAgain(r, "scan")
    BY <2>1 DEF TryAgain, vars
  <2>2. CASE ~TryAgain(r, "scan")
    <3>1. PICK h : h = rel[r]
      OBVIOUS
    <3>2. ~Conflicts(r) /\ e \in ToClear(r)
      BY <1>4, <2>2, <3>1, BatchEffect
    <3>3. h.pc = "clear"
      BY <1>4, <3>1 DEF CommitBatch
    <3>4. nslock.rolling = TRUE /\ nslock.snapshot = h.snapshot
      BY <3>1, <3>2, <3>3, NoConflict
    <3> QED
      BY <3>1, <3>2, <3>4 DEF ToClear
  <2> QED
    BY <2>1, <2>2
<1>5. CASE UNCHANGED nsVars
  BY <1>5 DEF nsVars, vars
<1> QED
  BY <1>1, <1>2, <1>3, <1>4, <1>5 DEF NsNext

\* Page versions are only deleted under a lock that is being rolled back, and
\* only those after its snapshot: a request that outlives its lock deletes
\* nothing (nslock.rs 190-195, 224-243).
THEOREM NsSpec_OnlyRolledBackIsDeleted == NsSpec => OnlyRolledBackIsDeleted
<1>1. ASSUME NsInv, [NsNext]_nsVars, NEW e \in idx \ idx'
      PROVE  nslock.rolling /\ e.ver > nslock.snapshot
  BY <1>1, DeletedIsRolledBack
<1>2. NsInv /\ [NsNext]_nsVars =>
        [\A e \in idx \ idx' : nslock.rolling /\ e.ver > nslock.snapshot]_nsVars
  BY <1>1
<1> QED
  BY <1>2, NsSpec_NsInv, PTL DEF NsSpec, OnlyRolledBackIsDeleted

-----------------------------------------------------------------------------
(* What clients rely on, when a lock that is being rolled back is not      *)
(* released in commit mode                                                 *)

\* Commits do too: they add whole, at a new version (commit.rs 415-460).
LEMMA ClientCommitStep ==
    ASSUME NsInv, ClientInv, CommitPath
    PROVE  ClientInv'
<1>0. TypeOK /\ ver \in Nat /\ VersionsGiven /\ Next /\ RememberBase /\ IndexLogged
  BY DEF NsInv, NsTypeOK, TypeOK, CommitPath, ClientInv
<1>1. /\ nslock' = nslock
      /\ UNCHANGED <<idx, lwv, clog, applied>> \/ \E t \in Tx, k \in Attempt : CommitPhase2(t, k)
  BY <1>0, LockFrame
<1>2. IndexLogged'
  BY <1>0, LoggedStep
<1>3. \A v : Safe(v)' <=> Safe(v)
  BY <1>1 DEF Safe
<1>4. /\ \A t \in Tx : applied[t] \subseteq Nat /\ Assumed(t) \in Nat
      /\ \A t \in Tx : Written(t)' = Written(t) /\ \A p : HashOf(t, p)' = HashOf(t, p)
  BY <1>0, NextStoreStep DEF TypeOK, TxType, Assumed, Written, HashOf, StoreStep
<1>5. /\ \A t \in Tx : \A p, c : EntryOf(t, p, c)' = EntryOf(t, p, c)
      /\ \A t, p, c : EntryOf(t, p, c).ver = c
  BY <1>4 DEF EntryOf
<1>6. /\ \A t \in Tx : base'[t] = IF tx[t].st = "new" /\ tx'[t].st # "new"
                                 THEN ViewOf(idx, tx'[t].assumed) ELSE base[t]
      /\ \A v : View(v) = ViewOf(idx, v)
      /\ \A t \in Tx : View(Assumed(t))' = ViewOf(idx', tx'[t].assumed)
  BY <1>0 DEF RememberBase, View, ViewOf, Older, Latest, Assumed
<1>7. CASE UNCHANGED <<idx, lwv, clog, applied>>
  <2>1. ASSUME NEW t \in Tx, NEW c \in applied'[t], Safe(c)' PROVE Whole(t, c)'
    <3>1. Whole(t, c)
      BY <1>3, <1>7, <2>1 DEF ClientInv
    <3> QED
      BY <1>4, <1>5, <1>7, <3>1 DEF Whole
  <2>2. ASSUME NEW t \in Tx, tx'[t].st # "new", KnownVersion(Assumed(t))', Safe(Assumed(t))'
        PROVE  View(Assumed(t))' = base'[t]
    <3>1. CASE tx'[t].assumed = tx[t].assumed /\ (tx'[t].st = "new" <=> tx[t].st = "new")
      <4>1. KnownVersion(Assumed(t)) /\ Safe(Assumed(t))
        BY <1>1, <1>7, <2>2, <3>1 DEF KnownVersion, Safe, Assumed
      <4>2. View(Assumed(t)) = base[t]
        BY <2>2, <3>1, <4>1 DEF ClientInv
      <4> QED
        BY <1>6, <1>7, <2>2, <3>1, <4>2 DEF Assumed
    <3>2. CASE tx[t].st = "new"
      BY <1>6, <1>7, <2>2, <3>2
    <3> QED
      BY <1>0, <3>1, <3>2, Starts
  <2> QED
    BY <1>2, <2>1, <2>2 DEF ClientInv
<1>8. ASSUME NEW t \in Tx, NEW k \in Attempt, CommitPhase2(t, k) PROVE ClientInv'
  <2>1. /\ tx' = tx
        /\ idx' = idx \cup {EntryOf(t, p, ver + 1) : p \in Written(t)}
        /\ clog' = clog \cup {ChangelogEntry(t, ver + 1)}
        /\ ChangelogEntry(t, ver + 1).ver = ver + 1
        /\ \A p \in Written(t) : EntryOf(t, p, ver + 1).ver = ver + 1
    BY <1>8, CommitIndex
  <2>2. applied'[t] = applied[t] \cup {ver + 1} /\ \A u \in Tx \ {t} : applied'[u] = applied[u]
    BY <1>0, <1>8, CommitEffect
  <2>3. ASSUME NEW v \in Nat, v <= ver, NEW e, e.ver <= v PROVE e \in idx' <=> e \in idx
    <3>1. \A p \in Written(t) : ~(EntryOf(t, p, ver + 1).ver <= v)
      BY SMTT(30), <1>0, <2>1, <2>3
    <3> QED
      BY <2>1, <2>3, <3>1
  <2>4. ASSUME NEW u \in Tx, NEW c \in applied'[u], Safe(c)' PROVE Whole(u, c)'
    <3>1. CASE c \in applied[u]
      <4>1. c \in Nat /\ c <= ver /\ c <= c
        BY SMTT(30), <1>0, <1>4, <3>1 DEF VersionsGiven
      <4>2. \A p : EntryOf(u, p, c) \in idx' <=> EntryOf(u, p, c) \in idx
        BY SMTT(30), <1>5, <2>3, <4>1
      <4>3. Whole(u, c)
        BY <1>3, <2>4, <3>1 DEF ClientInv
      <4> QED
        BY <1>4, <1>5, <4>2, <4>3 DEF Whole
    <3>2. CASE u = t /\ c = ver + 1
      <4>1. \A p \in Written(t) : EntryOf(t, p, ver + 1) \in idx'
        BY <2>1
      <4> QED
        BY SMTT(30), <1>4, <1>5, <3>2, <4>1 DEF Whole
    <3> QED
      BY <2>2, <3>1, <3>2
  <2>5. ASSUME NEW u \in Tx, tx'[u].st # "new", KnownVersion(Assumed(u))', Safe(Assumed(u))'
        PROVE  View(Assumed(u))' = base'[u]
    <3> DEFINE a == Assumed(u)
    <3>0. tx[u].st # "new" /\ a \in Nat /\ a <= ver /\ Assumed(u)' = a /\ tx'[u].assumed = a
      BY <1>0, <1>4, <2>1, <2>5 DEF VersionsGiven, Assumed
    <3>1. KnownVersion(a)
      <4>1. a = 0 \/ \E e \in clog' : e.ver = a
        BY <2>5, <3>0 DEF KnownVersion
      <4>2. a # ver + 1
        BY SMTT(30), <1>0, <3>0
      <4> QED
        BY <2>1, <4>1, <4>2 DEF KnownVersion
    <3>2. View(a) = base[u]
      BY <1>3, <2>5, <3>0, <3>1 DEF ClientInv
    <3> HIDE DEF a
    <3>3. ViewOf(idx', a) = ViewOf(idx, a)
      <4>1. \A e : e \in idx' /\ e.ver <= a <=> e \in idx /\ e.ver <= a
        BY <2>3, <3>0
      <4> QED
        BY <4>1, SameView
    <3> QED
      BY <1>6, <3>0, <3>2, <3>3
  <2> QED
    BY <1>2, <2>4, <2>5 DEF ClientInv
<1> QED
  BY <1>1, <1>7, <1>8

\* What clients rely on holds always, unless a lock is released in commit mode
\* during its rollback.
THEOREM NsSpec_ClientInv == ASSUME ~MixModes PROVE NsSpec => []ClientInv
<1>1. NsInit => ClientInv
  <2> SUFFICES ASSUME NsInit PROVE ClientInv
    OBVIOUS
  <2>1. idx = {} /\ \A t \in Tx : applied[t] = {} /\ tx[t].st = "new"
    BY DEF NsInit, Init
  <2> QED
    BY <2>1 DEF ClientInv, IndexLogged
<1>2. NsInv /\ ClientInv /\ [NsNext]_nsVars => ClientInv'
  BY ClientCommitStep, ClientLockStep DEF NsNext
<1> QED
  BY <1>1, <1>2, NsSpec_NsInv, PTL DEF NsSpec

\* A commit is in the page index as a whole or not at all whenever no rollback
\* is going on, though a rollback deletes in batches (nslock.rs 176-245).
THEOREM NsSpec_CommitsWhole == ASSUME ~MixModes PROVE NsSpec => []CommitsWhole
<1>1. ASSUME NsInv, ClientInv PROVE CommitsWhole
  <2> SUFFICES ASSUME ~nslock.rolling, NEW t \in Tx, NEW c \in applied[t]
               PROVE  LET there == {p \in Written(t) :
                                      [page |-> p, ver |-> c, hash |-> HashOf(t, p)] \in idx}
                      IN  there = {} \/ there = Written(t)
    BY DEF CommitsWhole
  <2>1. Whole(t, c)
    BY <1>1 DEF ClientInv, Safe
  <2> QED
    BY <2>1 DEF Whole, EntryOf
<1>2. NsInv /\ ClientInv => CommitsWhole
  BY <1>1
<1> QED
  BY <1>2, NsSpec_NsInv, NsSpec_ClientInv, PTL

\* A client that refreshes its page cache through stat keeps no page that has
\* changed since, by commits or by a rollback (stat.rs 51-88).
THEOREM NsSpec_CacheRefreshSound == ASSUME ~MixModes PROVE NsSpec => []CacheRefreshSound
<1>1. ASSUME NsInv, ClientInv PROVE CacheRefreshSound
  <2> SUFFICES ASSUME NEW t \in Tx, tx[t].st # "new", ~StatGone(tx[t].plan.owner),
                      ReadInterval(Assumed(t), StatVersion(tx[t].plan.owner), TRUE).some,
                      Assumed(t) = StatVersion(tx[t].plan.owner) =>
                          KnownVersion(StatVersion(tx[t].plan.owner)),
                      NEW p \in Page,
                      p \notin ReadInterval(Assumed(t), StatVersion(tx[t].plan.owner), TRUE).pages
               PROVE  View(StatVersion(tx[t].plan.owner))[p] = base[t][p]
    BY DEF CacheRefreshSound
  <2> DEFINE from == Assumed(t)
             to == StatVersion(tx[t].plan.owner)
             range == {e \in clog : from <= e.ver /\ e.ver <= to}
             counted == {e \in range : e.ver # from}
             out == UNION {e.pages : e \in counted}
  <2>0. /\ TypeOK /\ from \in Nat /\ to \in Nat /\ nslock.rolling \in BOOLEAN
        /\ idx \in SUBSET IndexEntry
    BY <1>1, PlanTypes DEF NsInv, NsTypeOK, TypeOK, LockType, StatVersion
  <2>1. \/ from = to
        \/ /\ from < to /\ {from, to} \subseteq {e.ver : e \in range}
           /\ (\A e \in counted : ~e.infinite) /\ p \notin out
    BY DEF ReadInterval, Full
  <2>2. Safe(to)
    <3> SUFFICES ASSUME nslock.rolling = TRUE PROVE to <= nslock.snapshot
      BY DEF Safe
    <3>1. tx[t].plan.owner = NoOwner /\ nslock.owner # NoOwner
      BY <1>1 DEF StatGone, NsInv, RollingIsHeld
    <3>2. to = nslock.snapshot
      BY <3>1 DEF StatVersion
    <3> QED
      BY SMTT(30), <2>0, <3>2
  <2>3. \A v : View(v) = ViewOf(idx, v)
    BY ViewIsViewOf
  <2>4. from <= to /\ KnownVersion(from) /\ Safe(from)
    <3>1. from <= to /\ KnownVersion(from)
      <4>1. CASE from = to
        BY SMTT(30), <2>0, <4>1
      <4>2. CASE from < to /\ {from, to} \subseteq {e.ver : e \in range}
        <5>1. \E e \in clog : e.ver = from
          BY <4>2
        <5> QED
          BY <2>0, <4>2, <5>1 DEF KnownVersion
      <4> QED
        BY <2>1, <4>1, <4>2
    <3>2. nslock.snapshot \in Nat
      BY <2>0 DEF TypeOK, LockType
    <3>3. Safe(from)
      BY SMTT(30), <2>0, <2>2, <3>1, <3>2 DEF Safe
    <3> QED
      BY <3>1, <3>3
  <2>5. View(from) = base[t]
    BY <1>1, <2>4 DEF ClientInv
  <2>6. ASSUME NEW e \in idx, from < e.ver, e.ver <= to PROVE e.page # p
    <3>1. PICK g \in clog : g.ver = e.ver /\ (g.infinite = TRUE \/ e.page \in g.pages)
      BY <1>1 DEF ClientInv, IndexLogged
    <3>2. e.ver \in Nat /\ from <= e.ver /\ e.ver # from /\ from # to
      <4>1. e.ver \in Nat
        BY <2>0, KeyOfEntry
      <4> QED
        BY SMTT(30), <2>0, <2>6, <4>1
    <3>3. g \in counted
      BY <2>6, <3>1, <3>2
    <3>4. ~g.infinite /\ p \notin g.pages
      BY <2>1, <3>2, <3>3
    <3> QED
      BY <3>1, <3>4
  <2>7. ViewOf(idx, to)[p] = ViewOf(idx, from)[p]
    <3> HIDE DEF from, to
    <3> QED
      BY SMTT(30), <2>0, <2>4, <2>6, LaterView
  <2> QED
    BY <2>3, <2>5, <2>7
<1>2. NsInv /\ ClientInv => CacheRefreshSound
  BY <1>1
<1> QED
  BY <1>2, NsSpec_NsInv, NsSpec_ClientInv, PTL
=============================================================================
