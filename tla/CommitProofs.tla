---------------------------- MODULE CommitProofs ----------------------------
(***************************************************************************)
(* Proofs about Commit, for any number of transactions, pages, requests:   *)
(* type correctness, what the steps do to the store, to the requests and   *)
(* to the changelog, the inductive invariant behind ReadsNotOverwritten,   *)
(* CommittedIsApplied and NoDanglingReference, whose largest part is about *)
(* the requests that the servers are running, and the one behind the       *)
(* replies.                                                                *)
(***************************************************************************)
EXTENDS Commit, TLAPS

\* Leaves are given to Zenon unless they name another prover.
USE ZenonT(30)

-----------------------------------------------------------------------------
(* Types, and what the steps do                                            *)

\* What a transaction of a well-typed state sends: the operators over its plan.
LEMMA PlanTypes ==
    ASSUME TypeOK, NEW t \in Tx
    PROVE  /\ Reads(t) \subseteq Page /\ Written(t) \subseteq Page
           /\ \A p \in Written(t) : HashOf(t, p) \in Hash
           /\ Hashes(t) \subseteq Hash /\ FastHashes(t) \subseteq Hash
           /\ UploadedHashes(t) \subseteq Hash
           /\ Hashes(t) = FastHashes(t) \cup UploadedHashes(t)
           /\ tx[t].plan.owner \in Owner \cup {NoOwner}
           /\ Assumed(t) \in Nat
<1>1. tx[t].plan \in PlanType
  BY PlanAssumption DEF TypeOK, TxType
<1>2. /\ Written(t) \subseteq Page
      /\ \A p \in Written(t) : HashOf(t, p) \in Hash
  BY SMTT(30), <1>1 DEF PlanType, Written, HashOf
<1>3. Reads(t) \subseteq Page /\ tx[t].plan.owner \in Owner \cup {NoOwner}
  BY <1>1 DEF PlanType, Reads
<1>4. Assumed(t) \in Nat
  BY DEF TypeOK, TxType, Assumed
<1> QED
  BY <1>2, <1>3, <1>4 DEF Hashes, FastHashes, UploadedHashes, FastPages

\* The answers of the checks are results, and versions are numbers.
LEMMA VerdictType ==
    ASSUME NEW t \in Tx, NEW k \in Attempt
    PROVE  Phase2Verdict(t, k) \in Result
BY DEF Phase2Verdict, LockVerdict, Result

\* An answer is a well-typed request state.
LEMMA AnswerType ==
    ASSUME NEW r \in Result, NEW v \in Nat, NEW i \in Interval
    PROVE  Answer(r, v, i) \in AttemptType
BY DEF Answer, AttemptType, NoReads, ConflictSet

\* So is a request that is running.
LEMMA RunningType ==
    ASSUME NEW pc \in {"idle", "sent", "phase1", "phase2"}, NEW rv \in Nat,
           NEW rc \in ConflictSet, NEW put \in SUBSET Hash
    PROVE  Running(pc, rv, rc, put) \in AttemptType
BY DEF Running, AttemptType, Full, Interval, Result

\* Stamping a function of versions with a version keeps its type.
LEMMA TouchType ==
    ASSUME NEW D, NEW f \in [D -> Nat], NEW S, NEW v \in Nat
    PROVE  Touch(f, S, v) \in [D -> Nat]
BY DEF Touch

\* "No interval" is an interval.
LEMMA FullType == Full \in Interval
BY DEF Full, Interval

\* An early answer of the checks keeps the types of all requests.
LEMMA ReplyType ==
    ASSUME TypeOK, NEW t \in Tx, NEW k \in Attempt, NEW r \in Result, Reply(t, k, r)
    PROVE  att' \in [Tx -> [Attempt -> AttemptType]]
<1>1. Answer(r, IF r = "committed" THEN lwv.ver ELSE 0, Full) \in AttemptType
  BY AnswerType, FullType DEF TypeOK
<1> QED
  BY <1>1 DEF Reply, TypeOK

\* A transaction's record after its client moved it on.
LEMMA TxTypes ==
    ASSUME NEW x \in TxType, NEW v \in Nat,
           NEW s \in {"new", "open", "flushed", "committing", "committed", "conflict", "failed"}
    PROVE  /\ [x EXCEPT !.st = s] \in TxType
           /\ [x EXCEPT !.st = s, !.assumed = v] \in TxType
           /\ [x EXCEPT !.st = s, !.n = v] \in TxType
           /\ [x EXCEPT !.n = v] \in TxType
BY DEF TxType

\* The resolver stays well typed when a commit adds its write conflicts.
LEMMA WriteConflictsType ==
    ASSUME TypeOK, NEW P, NEW H, NEW keys, NEW v \in Nat
    PROVE  WriteConflicts(P, H, keys, v) \in ModType
<1>1. /\ mod.pages \in [Page -> Nat] /\ mod.cis \in [Hash -> Nat]
      /\ mod.lwv \in Nat /\ mod.token \in Nat /\ mod.nsmd \in Nat
  BY DEF TypeOK, ModType
<1>2. /\ Touch(mod.pages, P, v) \in [Page -> Nat]
      /\ Touch(mod.cis, H, v) \in [Hash -> Nat]
  BY <1>1, TouchType
<1> QED
  BY <1>1, <1>2 DEF WriteConflicts, ModType

\* The read conflict sets of both phases are well typed.
LEMMA ConflictSetType ==
    ASSUME TypeOK, NEW t \in Tx
    PROVE  /\ Phase1Reads(t) \in ConflictSet
           /\ SinglePhaseReads(t) \in ConflictSet
           /\ [Phase2Reads(t) EXCEPT !.token = TRUE] \in ConflictSet
<1>1. Plcc(t) \in BOOLEAN
  BY DEF Plcc
<1>2. Phase2Reads(t) \in ConflictSet
  BY <1>1, PlanTypes DEF Phase2Reads, ConflictSet, NoReads
<1> QED
  BY <1>2, PlanTypes DEF Phase1Reads, SinglePhaseReads, ConflictSet, NoReads

\* What read_interval returns is an interval, in this state and the next.
LEMMA IntervalType ==
    ASSUME TypeOK, NEW v \in Nat, NEW w \in Nat
    PROVE  ReadInterval(v, w, FALSE) \in Interval
BY SMTT(30), FullType DEF ReadInterval, Interval, TypeOK, LogEntry

-----------------------------------------------------------------------------
\* The initial states are well typed.
LEMMA InitType == Init => TypeOK
<1> SUFFICES ASSUME Init PROVE TypeOK
  OBVIOUS
<1>1. IdleAttempt \in AttemptType
  BY RunningType DEF IdleAttempt, NoReads, ConflictSet
<1>2. tx \in [Tx -> TxType]
  BY SMTT(30) DEF Init, TxType
<1>3. nslock \in LockType
  BY DEF Init, NoLock, LockType
<1> QED
  BY <1>1, <1>2, <1>3 DEF Init, TypeOK, ModType, IndexEntry, LogEntry

\* The last transaction of a commit leaves a well-typed store behind.
LEMMA ApplyWritesType ==
    ASSUME TypeOK, NEW t \in Tx, NEW k \in Attempt, ApplyWrites(t, k, ver + 1)
    PROVE  /\ ver' \in Nat
           /\ idx' \subseteq IndexEntry
           /\ content' \subseteq Hash
           /\ ci' \in [Hash -> Nat]
           /\ lwv' \in [key : Tx \cup {NoTx}, ver : Nat]
           /\ clog' \subseteq LogEntry
           /\ mod' \in ModType
           /\ applied' \in [Tx -> SUBSET Nat]
<1> USE DEF ApplyWrites
<1>1. ver' \in Nat
  BY SMTT(30) DEF TypeOK
<1>2. idx' \subseteq IndexEntry
  BY SMTT(30), PlanTypes DEF TypeOK, IndexEntry
<1>3. content' \subseteq Hash
  BY SMTT(30) DEF TypeOK, AttemptType
<1>4. ci' \in [Hash -> Nat]
  <2>1. ci' = Touch(ci, Hashes(t), ver + 1) /\ ver + 1 \in Nat /\ ci \in [Hash -> Nat]
    BY SMTT(30) DEF TypeOK
  <2> QED
    BY SMTT(30), <2>1, TouchType
<1>5. lwv' \in [key : Tx \cup {NoTx}, ver : Nat]
  BY SMTT(30) DEF TypeOK
<1>6. clog' \subseteq LogEntry
  <2>1. ChangelogEntry(t, ver + 1) \in LogEntry
    <3>1. (Cardinality(Written(t)) >= IntervalEntryMaxSize) \in BOOLEAN
      BY SMTT(30)
    <3> QED
      BY SMTT(30), <3>1, PlanTypes DEF ChangelogEntry, TypeOK, LogEntry
  <2> QED
    BY <2>1 DEF TypeOK
<1>7. mod' \in ModType
  BY <1>1, WriteConflictsType
<1>8. applied' \in [Tx -> SUBSET Nat]
  BY SMTT(30) DEF TypeOK
<1> QED
  BY <1>1, <1>2, <1>3, <1>4, <1>5, <1>6, <1>7, <1>8

\* Every step of the client, the server and the collector keeps the types.
LEMMA NextType == TypeOK /\ [Next]_vars => TypeOK'
<1> SUFFICES ASSUME TypeOK, [Next]_vars PROVE TypeOK'
  OBVIOUS
<1>1. ASSUME NEW t \in Tx, CreateTransaction(t) PROVE TypeOK'
  <2>1. StatVersion(tx[t].plan.owner) \in Nat
    BY DEF StatVersion, TypeOK, LockType
  <2>2. tx' \in [Tx -> TxType]
    BY <1>1, <2>1, TxTypes DEF CreateTransaction, TypeOK
  <2> QED
    BY <1>1, <2>2 DEF CreateTransaction, TypeOK, dbVars
<1>2. ASSUME NEW t \in Tx, WriteMany(t) PROVE TypeOK'
  <2>1. ver' \in Nat /\ content' \subseteq Hash /\ ci' \in [Hash -> Nat]
    <3>1. PICK push \in SUBSET UploadedHashes(t) :
            /\ ver' = IF push = {} THEN ver ELSE ver + 1
            /\ content' = content \cup Unstored(push)
            /\ ci' = Touch(ci, push, ver + 1)
      BY <1>2 DEF WriteMany
    <3>2. ver + 1 \in Nat /\ ci \in [Hash -> Nat] /\ content \subseteq Hash /\ ver \in Nat
      BY SMTT(30) DEF TypeOK
    <3>3. Unstored(push) \subseteq Hash
      BY PlanTypes DEF Unstored
    <3> QED
      BY <3>1, <3>2, <3>3, TouchType
  <2>2. mod' \in ModType
    <3>1. PICK push : mod' = WriteConflicts({}, push, {}, ver + 1)
      BY <1>2 DEF WriteMany
    <3> QED
      BY SMTT(30), <3>1, WriteConflictsType DEF TypeOK
  <2>3. tx' \in [Tx -> TxType]
    BY <1>2, TxTypes DEF WriteMany, TypeOK
  <2> QED
    BY <1>2, <2>1, <2>2, <2>3 DEF WriteMany, TypeOK
<1>3. ASSUME NEW t \in Tx, SendCommit(t) PROVE TypeOK'
  <2>1. Sent \in AttemptType
    BY RunningType DEF Sent, NoReads, ConflictSet
  <2>2. tx' \in [Tx -> TxType]
    BY <1>3, TxTypes DEF SendCommit, TypeOK
  <2>3. att' \in [Tx -> [Attempt -> AttemptType]]
    BY <1>3, <2>1 DEF SendCommit, TypeOK
  <2> QED
    BY <1>3, <2>2, <2>3 DEF SendCommit, TypeOK, dbVars
<1>4. ASSUME NEW t \in Tx, Retry(t) PROVE TypeOK'
  <2>1. Sent \in AttemptType
    BY RunningType DEF Sent, NoReads, ConflictSet
  <2>2. tx' \in [Tx -> TxType]
    <3>1. tx[t].n + 1 \in Nat
      BY SMTT(30) DEF TypeOK, TxType
    <3> QED
      BY <1>4, <3>1, TxTypes DEF Retry, TypeOK
  <2>3. att' \in [Tx -> [Attempt -> AttemptType]]
    BY <1>4, <2>1 DEF Retry, TypeOK
  <2> QED
    BY <1>4, <2>2, <2>3 DEF Retry, TypeOK, dbVars
<1>5. ASSUME NEW t \in Tx, Receive(t) PROVE TypeOK'
  <2>1. tx' \in [Tx -> TxType]
    BY <1>5, TxTypes DEF Receive, ClientOutcome, TypeOK
  <2> QED
    BY <1>5, <2>1 DEF Receive, TypeOK, dbVars
<1>6. ASSUME NEW t \in Tx, NEW k \in Attempt, NEW r \in Result, Reply(t, k, r),
             UNCHANGED <<ver, dbVars, tx, applied>>
      PROVE  TypeOK'
  BY <1>6, ReplyType DEF TypeOK, dbVars
<1>7. ASSUME NEW t \in Tx, NEW k \in Attempt, BehindClient(t, k) PROVE TypeOK'
  BY <1>6, <1>7 DEF BehindClient, Result
<1>8. ASSUME NEW t \in Tx, NEW k \in Attempt, BadPageReference(t, k) PROVE TypeOK'
  BY <1>6, <1>8 DEF BadPageReference, Result
<1>9. ASSUME NEW t \in Tx, NEW k \in Attempt, SinglePhaseChecks(t, k) PROVE TypeOK'
  <2>1. CASE Phase2Verdict(t, k) # "none"
    BY <1>6, <1>9, <2>1, VerdictType DEF SinglePhaseChecks
  <2>2. CASE Phase2Verdict(t, k) = "none"
    <3>1. SinglePhaseReads(t) \in ConflictSet /\ Unstored(FastHashes(t)) \subseteq Hash
      BY ConflictSetType, PlanTypes DEF Unstored
    <3>2. att' \in [Tx -> [Attempt -> AttemptType]]
      <4>1. Running("phase2", ver, SinglePhaseReads(t), Unstored(FastHashes(t))) \in AttemptType
        BY <3>1, RunningType DEF TypeOK
      <4>2. att' = [att EXCEPT ![t][k] =
                      Running("phase2", ver, SinglePhaseReads(t), Unstored(FastHashes(t)))]
        BY <1>9, <2>2 DEF SinglePhaseChecks
      <4> QED
        BY <4>1, <4>2 DEF TypeOK
    <3> QED
      BY <1>9, <3>2 DEF SinglePhaseChecks, TypeOK, dbVars
  <2> QED
    BY <2>1, <2>2
<1>10. ASSUME NEW t \in Tx, NEW k \in Attempt, MultiPhaseChecks(t, k) PROVE TypeOK'
  <2>1. Phase1Reads(t) \in ConflictSet /\ Unstored(FastHashes(t)) \subseteq Hash
    BY ConflictSetType, PlanTypes DEF Unstored
  <2>2. att' \in [Tx -> [Attempt -> AttemptType]]
    BY <1>10, <2>1, RunningType DEF MultiPhaseChecks, TypeOK
  <2> QED
    BY <1>10, <2>2 DEF MultiPhaseChecks, TypeOK, dbVars
<1>11. ASSUME NEW t \in Tx, NEW k \in Attempt, CommitPhase1(t, k) PROVE TypeOK'
  <2>1. ver' \in Nat /\ content' \subseteq Hash /\ ci' \in [Hash -> Nat]
    BY SMTT(30), <1>11, TouchType DEF CommitPhase1, TypeOK, AttemptType
  <2>2. mod' \in ModType
    BY SMTT(30), <1>11, WriteConflictsType DEF CommitPhase1, TypeOK
  <2>3. att' \in [Tx -> [Attempt -> AttemptType]]
    <3>1. CASE Phase2Verdict(t, k) # "none"
      BY <1>11, <3>1, VerdictType, ReplyType DEF CommitPhase1
    <3>2. CASE Phase2Verdict(t, k) = "none"
      <4>1. PICK rc \in ConflictSet : att' = [att EXCEPT ![t][k] = Running("phase2", ver + 1, rc, {})]
        BY <1>11, <3>2, ConflictSetType DEF CommitPhase1
      <4>2. ver + 1 \in Nat
        BY SMTT(30) DEF TypeOK
      <4>3. Running("phase2", ver + 1, rc, {}) \in AttemptType
        BY <4>2, RunningType
      <4> QED
        BY <4>1, <4>3 DEF TypeOK
    <3> QED
      BY <3>1, <3>2
  <2> QED
    BY <1>11, <2>1, <2>2, <2>3 DEF CommitPhase1, TypeOK
<1>12. ASSUME NEW t \in Tx, NEW k \in Attempt, CommitPhase2(t, k) PROVE TypeOK'
  <2>1. ApplyWrites(t, k, ver + 1)
    BY <1>12 DEF CommitPhase2
  <2>2. PICK v \in Nat, r \in {"committed", "error"}, i \in {Full, ReadInterval(Assumed(t), ver, FALSE)'} :
          att' = [att EXCEPT ![t][k] = Answer(r, v, i)]
    BY <1>12, <2>1, ApplyWritesType DEF CommitPhase2
  <2>3. ReadInterval(Assumed(t), ver, FALSE)' \in Interval
    <3>1. clog' \subseteq LogEntry
      BY <2>1, ApplyWritesType
    <3> QED
      BY SMTT(30), <3>1, FullType DEF ReadInterval, Interval, Full, LogEntry
  <2>4. Answer(r, v, i) \in AttemptType
    BY <2>3, AnswerType, FullType DEF Result
  <2>5. att' \in [Tx -> [Attempt -> AttemptType]]
    BY <2>2, <2>4 DEF TypeOK
  <2>6. nslock' = nslock /\ tx' = tx
    BY <2>1 DEF ApplyWrites
  <2> QED
    BY <2>1, <2>5, <2>6, ApplyWritesType DEF TypeOK
<1>13. ASSUME NEW t \in Tx, NEW k \in Attempt, CommitFails(t, k) PROVE TypeOK'
  BY <1>6, <1>13 DEF CommitFails, Result
<1>14. ASSUME NEW h \in Hash, DeleteUnreferencedContent(h) PROVE TypeOK'
  <2>1. mod' \in ModType
    BY SMTT(30), <1>14, WriteConflictsType DEF DeleteUnreferencedContent, TypeOK
  <2> QED
    BY SMTT(30), <1>14, <2>1 DEF DeleteUnreferencedContent, TypeOK
<1>15. CASE UNCHANGED vars
  BY <1>15 DEF vars, TypeOK
<1> QED
  BY <1>1, <1>2, <1>3, <1>4, <1>5, <1>7, <1>8, <1>9, <1>10, <1>11, <1>12, <1>13, <1>14, <1>15
  DEF Next, Client, Server

\* Type correctness of the commit path, for every value of the constants.
THEOREM TypeCorrect == Spec => []TypeOK
BY InitType, NextType, PTL DEF Spec

-----------------------------------------------------------------------------
(* What steps do to the store                                              *)

\* What a transaction sends depends on its plan only.
LEMMA SamePlan ==
    ASSUME NEW t \in Tx, tx'[t].plan = tx[t].plan
    PROVE  /\ Reads(t)' = Reads(t) /\ Written(t)' = Written(t)
           /\ Hashes(t)' = Hashes(t) /\ FastHashes(t)' = FastHashes(t)
           /\ MultiPhase(t)' <=> MultiPhase(t)
           /\ Plcc(t)' <=> Plcc(t)
<1>1. Reads(t)' = Reads(t) /\ Written(t)' = Written(t)
  BY DEF Reads, Written
<1>2. Hashes(t)' = Hashes(t) /\ FastHashes(t)' = FastHashes(t)
  BY <1>1 DEF Hashes, HashOf, FastHashes, FastPages
<1>3. MultiPhase(t)' <=> MultiPhase(t)
  BY <1>1 DEF MultiPhase
<1> QED
  BY <1>1, <1>2, <1>3 DEF Plcc

\* What every step does to the store, in the terms a running commit cares
\* about: a key that is written is stamped with a version above the current
\* one, and content that leaves the index is stamped together with the token.
StoreStep ==
    /\ ver <= ver'
    /\ \A t \in Tx : tx'[t].plan = tx[t].plan
    /\ \A t \in Tx : tx'[t].assumed = tx[t].assumed \/ tx[t].st = "new"
    /\ \A u \in Tx : \A d \in applied'[u] : d \in applied[u] \/ ver < d
    /\ \A p \in Page : mod'.pages[p] = mod.pages[p] \/ ver < mod'.pages[p]
    /\ \A h \in Hash : mod'.cis[h] = mod.cis[h] \/ ver < mod'.cis[h]
    /\ mod'.lwv = mod.lwv \/ ver < mod'.lwv
    /\ mod'.token = mod.token \/ ver < mod'.token
    /\ \A h \in Hash : \/ ci'[h] # 0
                       \/ ci'[h] = ci[h]
                       \/ ver < mod'.cis[h] /\ ver < mod'.token

\* What Touch returns, key by key.
LEMMA TouchValue ==
    ASSUME NEW D, NEW f \in [D -> Nat], NEW S, NEW v \in Nat, NEW x \in D
    PROVE  Touch(f, S, v)[x] = IF x \in S THEN v ELSE f[x]
BY DEF Touch

\* The resolver after a write: stamped keys get v, the others keep theirs.
LEMMA ConflictsValue ==
    ASSUME TypeOK, NEW P, NEW H, NEW keys, mod' = WriteConflicts(P, H, keys, ver + 1)
    PROVE  /\ \A p \in Page : mod'.pages[p] = IF p \in P THEN ver + 1 ELSE mod.pages[p]
           /\ \A h \in Hash : mod'.cis[h] = IF h \in H THEN ver + 1 ELSE mod.cis[h]
           /\ mod'.lwv = IF "lwv" \in keys THEN ver + 1 ELSE mod.lwv
           /\ mod'.token = IF "token" \in keys THEN ver + 1 ELSE mod.token
<1>1. ver + 1 \in Nat /\ mod.pages \in [Page -> Nat] /\ mod.cis \in [Hash -> Nat]
  BY SMTT(30) DEF TypeOK, ModType
<1>2. mod'.pages = Touch(mod.pages, P, ver + 1) /\ mod'.cis = Touch(mod.cis, H, ver + 1)
  BY DEF WriteConflicts
<1>3. /\ \A p \in Page : mod'.pages[p] = IF p \in P THEN ver + 1 ELSE mod.pages[p]
      /\ \A h \in Hash : mod'.cis[h] = IF h \in H THEN ver + 1 ELSE mod.cis[h]
  BY SMTT(30), <1>1, <1>2, TouchValue
<1> QED
  BY <1>3 DEF WriteConflicts

\* The plan of a transaction never changes; its version only when it starts.
LEMMA TxFrame ==
    ASSUME TypeOK, NEW t \in Tx, NEW x,
           tx' = [tx EXCEPT ![t] = x], x.plan = tx[t].plan,
           x.assumed = tx[t].assumed \/ tx[t].st = "new"
    PROVE  \A u \in Tx : /\ tx'[u].plan = tx[u].plan
                         /\ tx'[u].assumed = tx[u].assumed \/ tx[u].st = "new"
BY DEF TypeOK

\* Every step of the commit path changes the store in one of the ways of StoreStep.
LEMMA NextStoreStep == TypeOK /\ [Next]_vars => StoreStep
<1> SUFFICES ASSUME TypeOK, [Next]_vars PROVE StoreStep
  OBVIOUS
<1> DEFINE txSame == \A u \in Tx : /\ tx'[u].plan = tx[u].plan
                                   /\ tx'[u].assumed = tx[u].assumed \/ tx[u].st = "new"
<1>0. ver \in Nat
  BY DEF TypeOK
<1>1. ASSUME txSame, UNCHANGED <<ver, dbVars, applied>> PROVE StoreStep
  <2>1. ver' = ver /\ ci' = ci /\ mod' = mod /\ applied' = applied
    BY <1>1 DEF dbVars
  <2> QED
    BY SMTT(30), <1>0, <1>1, <2>1 DEF StoreStep
<1>2. ASSUME NEW t \in Tx, CreateTransaction(t) PROVE StoreStep
  <2>1. txSame
    BY <1>2, TxFrame DEF CreateTransaction, TypeOK, TxType
  <2> QED
    BY <1>1, <1>2, <2>1 DEF CreateTransaction
<1>3. ASSUME NEW t \in Tx, SendCommit(t) \/ Retry(t) \/ Receive(t) PROVE StoreStep
  <2>1. txSame
    <3>1. CASE SendCommit(t)
      BY <3>1, TxFrame DEF SendCommit, TypeOK, TxType
    <3>2. CASE Retry(t)
      BY <3>2, TxFrame DEF Retry, TypeOK, TxType
    <3>3. CASE Receive(t)
      BY <3>3, TxFrame DEF Receive, TypeOK, TxType
    <3> QED
      BY <1>3, <3>1, <3>2, <3>3
  <2> QED
    BY <1>1, <1>3, <2>1 DEF SendCommit, Retry, Receive
<1>4. ASSUME NEW t \in Tx, WriteMany(t) PROVE StoreStep
  <2>1. PICK push : /\ ver' = IF push = {} THEN ver ELSE ver + 1
                    /\ ci' = Touch(ci, push, ver + 1)
                    /\ mod' = WriteConflicts({}, push, {}, ver + 1)
    BY <1>4 DEF WriteMany
  <2>2. txSame
    BY <1>4, TxFrame DEF WriteMany, TypeOK, TxType
  <2>3. \A h \in Hash : ci'[h] = IF h \in push THEN ver + 1 ELSE ci[h]
    BY SMTT(30), <2>1, <1>0, TouchValue DEF TypeOK
  <2>4. applied' = applied
    BY <1>4 DEF WriteMany
  <2>5. /\ \A p \in Page : mod'.pages[p] = mod.pages[p] \/ mod'.pages[p] = ver + 1
        /\ \A h \in Hash : mod'.cis[h] = mod.cis[h] \/ mod'.cis[h] = ver + 1
        /\ mod'.lwv = mod.lwv \/ mod'.lwv = ver + 1
        /\ mod'.token = mod.token \/ mod'.token = ver + 1
    BY <2>1, ConflictsValue
  <2> QED
    BY SMTT(30), <1>0, <2>1, <2>2, <2>3, <2>4, <2>5 DEF StoreStep
<1>5. ASSUME NEW t \in Tx, NEW k \in Attempt,
             \/ BehindClient(t, k) \/ BadPageReference(t, k) \/ SinglePhaseChecks(t, k)
             \/ MultiPhaseChecks(t, k) \/ CommitFails(t, k)
      PROVE  StoreStep
  <2>1. UNCHANGED <<ver, dbVars, tx, applied>>
    BY <1>5 DEF BehindClient, BadPageReference, SinglePhaseChecks, MultiPhaseChecks, CommitFails
  <2> QED
    BY <1>1, <2>1
<1>6. ASSUME NEW t \in Tx, NEW k \in Attempt, CommitPhase1(t, k) PROVE StoreStep
  <2>1. \A h \in Hash : ci'[h] = IF h \in FastHashes(t) THEN ver + 1 ELSE ci[h]
    <3>1. ci' = Touch(ci, FastHashes(t), ver + 1) /\ ver + 1 \in Nat /\ ci \in [Hash -> Nat]
      BY SMTT(30), <1>6 DEF CommitPhase1, TypeOK
    <3> QED
      BY SMTT(30), <3>1, TouchValue
  <2>2. mod' = WriteConflicts({}, FastHashes(t), {"token"}, ver + 1)
    BY <1>6 DEF CommitPhase1
  <2>3. ver' = ver + 1 /\ tx' = tx /\ applied' = applied
    BY <1>6 DEF CommitPhase1
  <2>4. /\ \A p \in Page : mod'.pages[p] = mod.pages[p] \/ mod'.pages[p] = ver + 1
        /\ \A h \in Hash : mod'.cis[h] = mod.cis[h] \/ mod'.cis[h] = ver + 1
        /\ mod'.lwv = mod.lwv \/ mod'.lwv = ver + 1
        /\ mod'.token = mod.token \/ mod'.token = ver + 1
    BY <2>2, ConflictsValue
  <2> QED
    BY SMTT(30), <1>0, <2>1, <2>3, <2>4 DEF StoreStep
<1>7. ASSUME NEW t \in Tx, NEW k \in Attempt, CommitPhase2(t, k) PROVE StoreStep
  <2>1. ApplyWrites(t, k, ver + 1)
    BY <1>7 DEF CommitPhase2
  <2>2. \A h \in Hash : ci'[h] = IF h \in Hashes(t) THEN ver + 1 ELSE ci[h]
    BY SMTT(30), <2>1, <1>0, TouchValue DEF ApplyWrites, TypeOK
  <2>3. PICK P, H : mod' = WriteConflicts(P, H, {"lwv"}, ver + 1)
    BY <2>1 DEF ApplyWrites
  <2>4. ver' = ver + 1 /\ tx' = tx /\ applied' = [applied EXCEPT ![t] = @ \cup {ver + 1}]
    BY <2>1 DEF ApplyWrites
  <2>5. \A u \in Tx : \A d \in applied'[u] : d \in applied[u] \/ ver < d
    BY SMTT(30), <1>0, <2>4 DEF TypeOK
  <2>6. /\ \A p \in Page : mod'.pages[p] = mod.pages[p] \/ mod'.pages[p] = ver + 1
        /\ \A h \in Hash : mod'.cis[h] = mod.cis[h] \/ mod'.cis[h] = ver + 1
        /\ mod'.lwv = mod.lwv \/ mod'.lwv = ver + 1
        /\ mod'.token = mod.token \/ mod'.token = ver + 1
    BY <2>3, ConflictsValue
  <2> QED
    BY SMTT(30), <1>0, <2>2, <2>4, <2>5, <2>6 DEF StoreStep
<1>8. ASSUME NEW h \in Hash, DeleteUnreferencedContent(h) PROVE StoreStep
  <2>1. mod' = WriteConflicts({}, {h}, {"token"}, ver + 1)
    BY <1>8 DEF DeleteUnreferencedContent
  <2>2. ver' = ver + 1 /\ tx' = tx /\ applied' = applied
    BY <1>8 DEF DeleteUnreferencedContent
  <2>3. \A g \in Hash : ci'[g] = ci[g] \/ g = h
    BY <1>8 DEF DeleteUnreferencedContent, TypeOK
  <2>4. /\ \A p \in Page : mod'.pages[p] = mod.pages[p] \/ mod'.pages[p] = ver + 1
        /\ \A g \in Hash : mod'.cis[g] = mod.cis[g] \/ mod'.cis[g] = ver + 1
        /\ mod'.lwv = mod.lwv \/ mod'.lwv = ver + 1
        /\ mod'.token = mod.token \/ mod'.token = ver + 1
    BY <2>1, ConflictsValue
  <2>5. mod'.cis[h] = ver + 1 /\ mod'.token = ver + 1
    BY <2>1, ConflictsValue
  <2> QED
    BY SMTT(30), <1>0, <2>2, <2>3, <2>4, <2>5 DEF StoreStep
<1>9. CASE UNCHANGED vars
  BY <1>1, <1>9 DEF vars, dbVars
<1> QED
  BY <1>2, <1>3, <1>4, <1>5, <1>6, <1>7, <1>8, <1>9 DEF Next, Client, Server

\* Only the last transaction of a commit writes the page index and the LWV.
LEMMA OnlyCommitWrites ==
    ASSUME [Next]_vars
    PROVE  \/ UNCHANGED <<idx, lwv, applied>>
           \/ \E t \in Tx, k \in Attempt : CommitPhase2(t, k)
<1>1. CASE UNCHANGED vars
  BY <1>1 DEF vars
<1>2. CASE \E t \in Tx : Client(t)
  BY <1>2 DEF Client, CreateTransaction, WriteMany, SendCommit, Retry, Receive, dbVars
<1>3. ASSUME NEW t \in Tx, NEW k \in Attempt, Server(t, k), ~CommitPhase2(t, k)
      PROVE  UNCHANGED <<idx, lwv, applied>>
  BY <1>3 DEF Server, BehindClient, BadPageReference, SinglePhaseChecks, MultiPhaseChecks,
              CommitPhase1, CommitFails, dbVars
<1>4. CASE \E h \in Hash : DeleteUnreferencedContent(h)
  BY <1>4 DEF DeleteUnreferencedContent
<1> QED
  BY <1>1, <1>2, <1>3, <1>4 DEF Next

\* What the last transaction of a commit writes, key by key.
LEMMA CommitEffect ==
    ASSUME TypeOK, NEW t \in Tx, NEW k \in Attempt, CommitPhase2(t, k)
    PROVE  /\ att[t][k].pc = "phase2" /\ NotModifiedSince(att[t][k].rc, att[t][k].rv)
           /\ ver' = ver + 1 /\ tx' = tx /\ lwv' = [key |-> t, ver |-> ver + 1]
           /\ applied'[t] = applied[t] \cup {ver + 1}
           /\ \A u \in Tx \ {t} : applied'[u] = applied[u]
           /\ idx' = idx \cup {[page |-> p, ver |-> ver + 1, hash |-> HashOf(t, p)] : p \in Written(t)}
           /\ \A p \in Written(t) : mod'.pages[p] = ver + 1
           /\ mod'.lwv = ver + 1
           /\ content' = content \cup att[t][k].put
           /\ \A h \in Hash : ci'[h] = IF h \in Hashes(t) THEN ver + 1 ELSE ci[h]
<1>1. /\ att[t][k].pc = "phase2" /\ NotModifiedSince(att[t][k].rc, att[t][k].rv)
      /\ ApplyWrites(t, k, ver + 1)
  BY DEF CommitPhase2
<1>2. /\ ver' = ver + 1 /\ tx' = tx /\ lwv' = [key |-> t, ver |-> ver + 1]
      /\ idx' = idx \cup {[page |-> p, ver |-> ver + 1, hash |-> HashOf(t, p)] : p \in Written(t)}
      /\ content' = content \cup att[t][k].put
      /\ applied' = [applied EXCEPT ![t] = @ \cup {ver + 1}]
      /\ ci' = Touch(ci, Hashes(t), ver + 1)
      /\ mod' = WriteConflicts(IF MultiPhase(t) THEN Page ELSE Written(t),
                               IF MultiPhase(t) THEN Hash ELSE Hashes(t), {"lwv"}, ver + 1)
  BY <1>1 DEF ApplyWrites
<1>3. applied'[t] = applied[t] \cup {ver + 1} /\ \A u \in Tx \ {t} : applied'[u] = applied[u]
  BY <1>2 DEF TypeOK
<1>4. \A p \in Written(t) : mod'.pages[p] = ver + 1
  BY SMTT(30), <1>2, ConflictsValue, PlanTypes
<1>5. mod'.lwv = ver + 1
  BY SMTT(30), <1>2, ConflictsValue
<1>6. \A h \in Hash : ci'[h] = IF h \in Hashes(t) THEN ver + 1 ELSE ci[h]
  <2>1. ver + 1 \in Nat /\ ci \in [Hash -> Nat]
    BY SMTT(30) DEF TypeOK
  <2> QED
    BY SMTT(30), <1>2, <2>1, TouchValue
<1> QED
  BY <1>1, <1>2, <1>3, <1>4, <1>5, <1>6

\* What a step does to one request: nothing, or one of these.
LEMMA RequestSteps ==
    ASSUME TypeOK, [Next]_vars, NEW t \in Tx, NEW k \in Attempt, att'[t][k] # att[t][k]
    PROVE  \/ /\ SendCommit(t) \/ Retry(t)
              /\ att'[t][k] = Sent
           \/ /\ \/ SinglePhaseChecks(t, k) \/ MultiPhaseChecks(t, k) \/ CommitPhase1(t, k)
                 \/ CommitPhase2(t, k) \/ BehindClient(t, k) \/ BadPageReference(t, k)
                 \/ CommitFails(t, k)
              /\ \E x : att' = [att EXCEPT ![t][k] = x]
<1>1. ASSUME NEW u \in Tx, NEW j \in Attempt, NEW x, att' = [att EXCEPT ![u][j] = x]
      PROVE  u = t /\ j = k /\ att'[t][k] = x
  BY <1>1 DEF TypeOK
<1>2. CASE UNCHANGED att
  BY <1>2
<1>3. ASSUME NEW u \in Tx, SendCommit(u) \/ Retry(u)
      PROVE  u = t /\ att'[t][k] = Sent
  <2>1. PICK j \in Attempt : att' = [att EXCEPT ![u][j] = Sent]
    BY <1>3 DEF SendCommit, Retry
  <2> QED
    BY <2>1, <1>1
<1>4. ASSUME NEW u \in Tx, NEW j \in Attempt, Server(u, j)
      PROVE  u = t /\ j = k /\ \E x : att' = [att EXCEPT ![t][k] = x]
  <2>1. PICK x : att' = [att EXCEPT ![u][j] = x]
    BY <1>4 DEF Server, BehindClient, BadPageReference, SinglePhaseChecks, MultiPhaseChecks,
                CommitPhase1, CommitPhase2, CommitFails, Reply
  <2> QED
    BY <2>1, <1>1
<1>5. ASSUME NEW u \in Tx, CreateTransaction(u) \/ WriteMany(u) \/ Receive(u)
      PROVE  UNCHANGED att
  BY <1>5 DEF CreateTransaction, WriteMany, Receive
<1>6. ASSUME NEW h \in Hash, DeleteUnreferencedContent(h) PROVE UNCHANGED att
  BY <1>6 DEF DeleteUnreferencedContent
<1>7. CASE UNCHANGED vars
  BY <1>2, <1>7 DEF vars
<1>8. CASE \E u \in Tx : Client(u)
  BY <1>2, <1>3, <1>5, <1>8 DEF Client
<1>9. CASE \E u \in Tx, j \in Attempt : Server(u, j)
  BY <1>4, <1>9 DEF Server
<1> QED
  BY <1>2, <1>6, <1>7, <1>8, <1>9 DEF Next

\* Every page version has an entry in the changelog that names its page, or
\* that stands for all pages.
IndexLogged ==
    \A e \in idx : \E g \in clog : g.ver = e.ver /\ (g.infinite = TRUE \/ e.page \in g.pages)

\* The commit that adds page versions adds the changelog entry for them
\* (commit.rs 288-342).
LEMMA LoggedStep ==
    ASSUME TypeOK, IndexLogged, [Next]_vars
    PROVE  IndexLogged'
<1>1. clog \subseteq clog'
  <2>1. CASE UNCHANGED clog
    BY <2>1
  <2>2. ASSUME NEW t \in Tx, NEW k \in Attempt, CommitPhase2(t, k) PROVE clog \subseteq clog'
    BY <2>2 DEF CommitPhase2, ApplyWrites
  <2>3. CASE \E t \in Tx : Client(t)
    BY <2>1, <2>3 DEF Client, CreateTransaction, WriteMany, SendCommit, Retry, Receive, dbVars
  <2>4. ASSUME NEW t \in Tx, NEW k \in Attempt, Server(t, k) PROVE clog \subseteq clog'
    <3>1. CASE CommitPhase2(t, k)
      BY <2>2, <3>1
    <3>2. CASE ~CommitPhase2(t, k)
      BY <2>1, <2>4, <3>2 DEF Server, BehindClient, BadPageReference, SinglePhaseChecks,
                              MultiPhaseChecks, CommitPhase1, CommitFails, dbVars
    <3> QED
      BY <3>1, <3>2
  <2>5. CASE \E h \in Hash : DeleteUnreferencedContent(h)
    BY <2>1, <2>5 DEF DeleteUnreferencedContent
  <2>6. CASE UNCHANGED vars
    BY <2>1, <2>6 DEF vars
  <2> QED
    BY <2>3, <2>4, <2>5, <2>6 DEF Next
<1>2. CASE UNCHANGED <<idx, lwv, applied>>
  BY <1>1, <1>2 DEF IndexLogged
<1>3. ASSUME NEW t \in Tx, NEW k \in Attempt, CommitPhase2(t, k) PROVE IndexLogged'
  <2> DEFINE g == ChangelogEntry(t, ver + 1)
  <2>1. g \in clog' /\ g.ver = ver + 1 /\ (g.infinite = TRUE \/ g.pages = Written(t))
    BY <1>3 DEF CommitPhase2, ApplyWrites, ChangelogEntry
  <2>2. idx' = idx \cup {[page |-> p, ver |-> ver + 1, hash |-> HashOf(t, p)] : p \in Written(t)}
    BY <1>3, CommitEffect
  <2> HIDE DEF g
  <2>3. ASSUME NEW e \in idx'
        PROVE  \E f \in clog' : f.ver = e.ver /\ (f.infinite = TRUE \/ e.page \in f.pages)
    <3>1. CASE e \in idx
      BY <1>1, <3>1 DEF IndexLogged
    <3>2. ASSUME NEW p \in Written(t), e = [page |-> p, ver |-> ver + 1, hash |-> HashOf(t, p)]
          PROVE  \E f \in clog' : f.ver = e.ver /\ (f.infinite = TRUE \/ e.page \in f.pages)
      <4>1. e.page = p /\ e.ver = ver + 1
        BY <3>2
      <4> QED
        BY <2>1, <4>1
    <3> QED
      BY <2>2, <3>1, <3>2
  <2> QED
    BY <2>3 DEF IndexLogged
<1> QED
  BY <1>2, <1>3, OnlyCommitWrites

-----------------------------------------------------------------------------
(* The inductive invariant                                                 *)

\* Nothing was sent for a transaction that has not started.
NewIsUntouched ==
    \A t \in Tx : tx[t].st = "new" =>
        applied[t] = {} /\ \A k \in Attempt : att[t][k].pc = "idle"

\* What a commit leaves for later ones to find: its version is in the LWV, in
\* the page index and, for transactions still running, in the resolver.
HistoryRecorded ==
    \A u \in Tx : \A d \in applied[u] :
        /\ d <= ver /\ d <= lwv.ver /\ d <= mod.lwv
        /\ \A p \in Written(u) :
             d <= mod.pages[p] /\ \E e \in idx : e.page = p /\ e.ver = d

\* The idempotency key in the LWV is the one of the commit at that version.
LwvIsApplied == lwv.key \in Tx => lwv.ver \in applied[lwv.key]

\* What a request that passed its checks knows about the state at its read
\* version, and which keys guard that knowledge until it commits.
ChecksHold(t, k) ==
    att[t][k].pc = "phase2" =>
        IF Plcc(t)
        THEN /\ Reads(t) \subseteq att[t][k].rc.pages
             /\ \A u \in Tx \ {t} : \A d \in applied[u] :
                  Assumed(t) < d /\ d <= att[t][k].rv => Reads(t) \cap Written(u) = {}
        ELSE /\ att[t][k].rc.lwv
             /\ \A u \in Tx : \A d \in applied[u] : d <= att[t][k].rv => d <= Assumed(t)

\* The pages of a running commit are stored, or written by its own
\* transaction, unless a key of its conflict set has been written since.
PagesAwaited(t, k) ==
    /\ att[t][k].pc = "phase1" => MultiPhase(t)
    /\ \/ att[t][k].pc = "phase1"
       \/ att[t][k].pc = "phase2" /\ ~MultiPhase(t)
       => /\ Hashes(t) \subseteq att[t][k].rc.cis
          /\ att[t][k].put \subseteq FastHashes(t)
          /\ \A h \in Hashes(t) :
               mod.cis[h] <= att[t][k].rv => ci[h] # 0 \/ h \in att[t][k].put
    /\ att[t][k].pc = "phase2" /\ MultiPhase(t)
       => /\ att[t][k].rc.token
          /\ mod.token <= att[t][k].rv => \A h \in Hashes(t) : ci[h] # 0

RunningInv ==
    \A t \in Tx, k \in Attempt :
        att[t][k].rv <= ver /\ ChecksHold(t, k) /\ PagesAwaited(t, k)

\* The content index never names content that is not stored.
IndexedIsStored == \A h \in Hash : ci[h] # 0 => h \in content

IInv ==
    /\ TypeOK
    /\ NewIsUntouched
    /\ HistoryRecorded
    /\ LwvIsApplied
    /\ RunningInv
    /\ IndexedIsStored
    /\ ReadsNotOverwritten
    /\ CommittedIsApplied
    /\ NoDanglingReference

\* A request that the step does not touch keeps what it knows.
LEMMA RunningFrame ==
    ASSUME TypeOK, TypeOK', NewIsUntouched, RunningInv, StoreStep,
           NEW t \in Tx, NEW k \in Attempt, att'[t][k] = att[t][k]
    PROVE  att'[t][k].rv <= ver' /\ ChecksHold(t, k)' /\ PagesAwaited(t, k)'
<1>1. /\ ver \in Nat /\ ver' \in Nat /\ ver <= ver'
      /\ att[t][k].rv \in Nat /\ att[t][k].rv <= ver
  BY SMTT(30) DEF TypeOK, AttemptType, StoreStep, RunningInv
<1>2. /\ Reads(t)' = Reads(t) /\ Hashes(t)' = Hashes(t) /\ FastHashes(t)' = FastHashes(t)
      /\ MultiPhase(t)' <=> MultiPhase(t)
      /\ Plcc(t)' <=> Plcc(t)
  BY SamePlan DEF StoreStep
<1>3. \A u \in Tx : Written(u)' = Written(u)
  BY SamePlan DEF StoreStep
<1>4. \A u \in Tx : \A d \in applied'[u] : d <= att[t][k].rv => d \in applied[u]
  <2>1. \A u \in Tx : \A d \in applied'[u] : d \in Nat /\ (d \in applied[u] \/ ver < d)
    BY DEF StoreStep, TypeOK
  <2> QED
    BY SMTT(30), <1>1, <2>1
<1>5. att[t][k].pc # "idle" => Assumed(t)' = Assumed(t)
  BY DEF StoreStep, NewIsUntouched, Assumed
<1>6. ChecksHold(t, k)'
  <2> SUFFICES ASSUME att'[t][k].pc = "phase2"
               PROVE  ChecksHold(t, k)'
    BY DEF ChecksHold
  <2>1. ChecksHold(t, k) /\ Assumed(t)' = Assumed(t) /\ att[t][k].pc = "phase2"
    BY <1>5 DEF RunningInv
  <2>2. CASE Plcc(t)
    BY <1>2, <1>3, <1>4, <2>1, <2>2 DEF ChecksHold
  <2>3. CASE ~Plcc(t)
    BY <1>2, <1>4, <2>1, <2>3 DEF ChecksHold
  <2> QED
    BY <2>2, <2>3
<1>7. PagesAwaited(t, k)'
  <2>1. PagesAwaited(t, k) /\ Hashes(t) \subseteq Hash
    BY PlanTypes DEF RunningInv
  <2>2. \A h \in Hash : /\ mod'.cis[h] <= att[t][k].rv => mod.cis[h] <= att[t][k].rv /\ (ci'[h] # 0 \/ ci'[h] = ci[h])
                        /\ mod'.token <= att[t][k].rv => ci'[h] # 0 \/ ci'[h] = ci[h]
    <3>1. mod'.token \in Nat /\ \A h \in Hash : mod'.cis[h] \in Nat
      BY DEF TypeOK, ModType
    <3> QED
      BY SMTT(30), <1>1, <3>1 DEF StoreStep
  <2>3. mod'.token <= att[t][k].rv => mod.token <= att[t][k].rv
    <3>1. mod'.token \in Nat
      BY DEF TypeOK, ModType
    <3> QED
      BY SMTT(30), <1>1, <3>1 DEF StoreStep
  <2>4. /\ att[t][k].pc = "phase1" => MultiPhase(t)
        /\ \/ att[t][k].pc = "phase1"
           \/ att[t][k].pc = "phase2" /\ ~MultiPhase(t)
           => /\ Hashes(t) \subseteq att[t][k].rc.cis
              /\ att[t][k].put \subseteq FastHashes(t)
              /\ \A h \in Hashes(t) :
                   mod'.cis[h] <= att[t][k].rv => ci'[h] # 0 \/ h \in att[t][k].put
    BY <2>1, <2>2 DEF PagesAwaited
  <2>5. att[t][k].pc = "phase2" /\ MultiPhase(t)
        => /\ att[t][k].rc.token
           /\ mod'.token <= att[t][k].rv => \A h \in Hashes(t) : ci'[h] # 0
    BY <2>1, <2>2, <2>3 DEF PagesAwaited
  <2> QED
    BY <1>2, <2>4, <2>5 DEF PagesAwaited
<1> QED
  BY SMTT(30), <1>1, <1>6, <1>7

\* A check that lets a commit through has compared its reads with everything
\* that was applied so far.
LEMMA CheckedReads ==
    ASSUME TypeOK, HistoryRecorded, NEW t \in Tx, NEW k \in Attempt,
           Phase2Verdict(t, k) = "none"
    PROVE  /\ Plcc(t) => \A u \in Tx : \A d \in applied[u] :
                            Assumed(t) < d => Reads(t) \cap Written(u) = {}
           /\ ~Plcc(t) => \A u \in Tx : \A d \in applied[u] : d <= Assumed(t)
<1>1. ~LwvConflict(t) /\ ~PlccConflict(t)
  BY DEF Phase2Verdict
<1>2. Assumed(t) \in Nat /\ lwv.ver \in Nat /\ \A u \in Tx : applied[u] \subseteq Nat
  BY PlanTypes DEF TypeOK
<1>3. Plcc(t) => \A u \in Tx : \A d \in applied[u] :
                   Assumed(t) < d => Reads(t) \cap Written(u) = {}
  <2> SUFFICES ASSUME Plcc(t), NEW u \in Tx, NEW d \in applied[u], Assumed(t) < d,
                      NEW p \in Reads(t) \cap Written(u)
               PROVE  FALSE
    OBVIOUS
  <2>1. PICK e \in idx : e.page = p /\ e.ver = d
    BY SMTT(30) DEF HistoryRecorded
  <2> QED
    BY <1>1, <1>2, <2>1 DEF PlccConflict
<1>4. ~Plcc(t) => \A u \in Tx : \A d \in applied[u] : d <= Assumed(t)
  BY SMTT(30), <1>1, <1>2 DEF LwvConflict, HistoryRecorded
<1> QED
  BY <1>3, <1>4

\* A large commit is never checked page by page.
LEMMA MultiPhaseNotPlcc == ASSUME NEW t, MultiPhase(t) PROVE ~Plcc(t)
BY DEF Plcc

\* The conflict sets of the two kinds of commit.
LEMMA ReadsOfChecks ==
    ASSUME NEW t
    PROVE  /\ SinglePhaseReads(t).cis = Hashes(t)
           /\ Plcc(t) => SinglePhaseReads(t).pages = Reads(t)
           /\ ~Plcc(t) => SinglePhaseReads(t).lwv /\ [Phase2Reads(t) EXCEPT !.token = TRUE].lwv
           /\ [Phase2Reads(t) EXCEPT !.token = TRUE].token
           /\ Phase1Reads(t).cis = Hashes(t)
BY DEF SinglePhaseReads, Phase2Reads, Phase1Reads, NoReads

\* Pages that exist when a commit reads the content index, or that it writes.
LEMMA CheckedPages ==
    ASSUME TypeOK, NEW t \in Tx, PagesExist(t)
    PROVE  /\ \A h \in Hashes(t) : ci[h] # 0 \/ h \in Unstored(FastHashes(t))
           /\ Unstored(FastHashes(t)) \subseteq FastHashes(t)
BY PlanTypes DEF PagesExist, Unstored

\* A step that starts no phase of a commit keeps the knowledge of all requests.
LEMMA QuietRunning ==
    ASSUME TypeOK, TypeOK', NewIsUntouched, RunningInv, StoreStep,
           \A t \in Tx, k \in Attempt :
              \/ att'[t][k] = att[t][k]
              \/ att'[t][k].pc \in {"sent", "replied"} /\ att'[t][k].rv = 0
    PROVE  RunningInv'
<1> SUFFICES ASSUME NEW t \in Tx, NEW k \in Attempt
             PROVE  att'[t][k].rv <= ver' /\ ChecksHold(t, k)' /\ PagesAwaited(t, k)'
  BY DEF RunningInv
<1>1. CASE att'[t][k] = att[t][k]
  BY <1>1, RunningFrame
<1>2. CASE att'[t][k].pc \in {"sent", "replied"} /\ att'[t][k].rv = 0
  BY SMTT(30), <1>2 DEF ChecksHold, PagesAwaited, TypeOK
<1> QED
  BY <1>1, <1>2

\* Every step keeps what the checks of the running requests have established.
LEMMA RunningStep ==
    ASSUME IInv, TypeOK', [Next]_vars
    PROVE  RunningInv'
<1> USE DEF IInv
<1>0. StoreStep
  BY NextStoreStep
<1>1. ASSUME UNCHANGED att PROVE RunningInv'
  BY <1>0, <1>1, QuietRunning
<1>2. ASSUME NEW t \in Tx, SendCommit(t) \/ Retry(t) PROVE RunningInv'
  <2>1. PICK k \in Attempt : att' = [att EXCEPT ![t][k] = Sent]
    BY <1>2 DEF SendCommit, Retry
  <2>2. Sent.pc = "sent" /\ Sent.rv = 0
    BY DEF Sent, Running
  <2> QED
    BY <1>0, <2>1, <2>2, QuietRunning DEF TypeOK
<1>3. ASSUME NEW t \in Tx, NEW k \in Attempt, NEW r, NEW v, NEW i,
             att' = [att EXCEPT ![t][k] = Answer(r, v, i)]
      PROVE  RunningInv'
  <2>1. Answer(r, v, i).pc = "replied" /\ Answer(r, v, i).rv = 0
    BY DEF Answer
  <2> QED
    BY <1>0, <1>3, <2>1, QuietRunning DEF TypeOK
<1>4. ASSUME NEW t \in Tx, NEW k \in Attempt, NEW r, Reply(t, k, r) PROVE RunningInv'
  BY <1>3, <1>4 DEF Reply
<1>5. ASSUME NEW t \in Tx, NEW k \in Attempt, NEW x,
             att' = [att EXCEPT ![t][k] = x], x.rv <= ver',
             ChecksHold(t, k)', PagesAwaited(t, k)'
      PROVE  RunningInv'
  <2> SUFFICES ASSUME NEW u \in Tx, NEW j \in Attempt
               PROVE  att'[u][j].rv <= ver' /\ ChecksHold(u, j)' /\ PagesAwaited(u, j)'
    BY DEF RunningInv
  <2>1. CASE u = t /\ j = k
    BY <1>5, <2>1 DEF TypeOK
  <2>2. CASE ~(u = t /\ j = k)
    <3>1. att'[u][j] = att[u][j]
      BY <1>5, <2>2 DEF TypeOK
    <3> QED
      BY <1>0, <3>1, RunningFrame
  <2> QED
    BY <2>1, <2>2
<1>6. ASSUME NEW t \in Tx, NEW k \in Attempt, SinglePhaseChecks(t, k) PROVE RunningInv'
  <2>1. CASE Phase2Verdict(t, k) # "none"
    BY <1>4, <1>6, <2>1 DEF SinglePhaseChecks
  <2>2. CASE Phase2Verdict(t, k) = "none"
    <3> DEFINE x == Running("phase2", ver, SinglePhaseReads(t), Unstored(FastHashes(t)))
    <3>1. /\ x.pc = "phase2" /\ x.rv = ver /\ x.rc = SinglePhaseReads(t)
          /\ x.put = Unstored(FastHashes(t))
      BY DEF Running
    <3>2. att' = [att EXCEPT ![t][k] = x]
      BY <1>6, <2>2 DEF SinglePhaseChecks
    <3>3. att'[t][k] = x
      BY <3>2 DEF TypeOK
    <3>4. /\ ver' = ver /\ tx' = tx /\ applied' = applied /\ ci' = ci /\ mod' = mod
          /\ ~MultiPhase(t) /\ PagesExist(t)
      BY <1>6 DEF SinglePhaseChecks, dbVars
    <3>5. /\ \A u \in Tx : Written(u)' = Written(u)
          /\ Reads(t)' = Reads(t) /\ Hashes(t)' = Hashes(t) /\ FastHashes(t)' = FastHashes(t)
          /\ ~MultiPhase(t)' /\ Assumed(t)' = Assumed(t)
          /\ Plcc(t)' <=> Plcc(t)
      BY <3>4, SamePlan DEF Assumed
    <3> HIDE DEF x
    <3>6. ChecksHold(t, k)'
      BY SMTT(30), <2>2, <3>1, <3>3, <3>4, <3>5, CheckedReads, ReadsOfChecks DEF ChecksHold
    <3>7. PagesAwaited(t, k)'
      BY <3>1, <3>3, <3>4, <3>5, CheckedPages, ReadsOfChecks DEF PagesAwaited
    <3>8. x.rv <= ver'
      BY SMTT(30), <3>1, <3>4 DEF TypeOK
    <3> QED
      BY <1>5, <3>2, <3>6, <3>7, <3>8
  <2> QED
    BY <2>1, <2>2
<1>7. ASSUME NEW t \in Tx, NEW k \in Attempt, MultiPhaseChecks(t, k) PROVE RunningInv'
  <2> DEFINE x == Running("phase1", ver, Phase1Reads(t), Unstored(FastHashes(t)))
  <2>1. /\ x.pc = "phase1" /\ x.rv = ver /\ x.rc = Phase1Reads(t)
        /\ x.put = Unstored(FastHashes(t))
    BY DEF Running
  <2>2. att' = [att EXCEPT ![t][k] = x]
    BY <1>7 DEF MultiPhaseChecks
  <2>3. att'[t][k] = x
    BY <2>2 DEF TypeOK
  <2>4. ver' = ver /\ tx' = tx /\ ci' = ci /\ mod' = mod /\ MultiPhase(t) /\ PagesExist(t)
    BY <1>7 DEF MultiPhaseChecks, dbVars
  <2>5. /\ Hashes(t)' = Hashes(t) /\ FastHashes(t)' = FastHashes(t)
        /\ MultiPhase(t)'
    BY <2>4, SamePlan
  <2> HIDE DEF x
  <2>6. ChecksHold(t, k)'
    BY <2>1, <2>3 DEF ChecksHold
  <2>7. PagesAwaited(t, k)'
    BY <2>1, <2>3, <2>4, <2>5, CheckedPages, ReadsOfChecks DEF PagesAwaited
  <2>8. x.rv <= ver'
    BY SMTT(30), <2>1, <2>4 DEF TypeOK
  <2> QED
    BY <1>5, <2>2, <2>6, <2>7, <2>8
<1>8. ASSUME NEW t \in Tx, NEW k \in Attempt, CommitPhase1(t, k) PROVE RunningInv'
  <2>1. CASE Phase2Verdict(t, k) # "none"
    BY <1>4, <1>8, <2>1 DEF CommitPhase1
  <2>2. CASE Phase2Verdict(t, k) = "none"
    <3> DEFINE rc == [Phase2Reads(t) EXCEPT !.token = TRUE]
    <3> DEFINE x == Running("phase2", ver + 1, rc, {})
    <3>1. x.pc = "phase2" /\ x.rv = ver + 1 /\ x.rc = rc
      BY DEF Running
    <3>2. att' = [att EXCEPT ![t][k] = x]
      BY <1>8, <2>2 DEF CommitPhase1
    <3>3. att'[t][k] = x
      BY <3>2 DEF TypeOK
    <3>4. PagesAwaited(t, k) /\ att[t][k].pc = "phase1"
      BY <1>8 DEF CommitPhase1, RunningInv
    <3>5. MultiPhase(t) /\ ~Plcc(t) /\ rc.lwv /\ rc.token
      BY <3>4, MultiPhaseNotPlcc, ReadsOfChecks DEF PagesAwaited
    <3>6. ver' = ver + 1 /\ tx' = tx /\ applied' = applied
      BY <1>8 DEF CommitPhase1
    <3>7. /\ Hashes(t)' = Hashes(t) /\ MultiPhase(t)' /\ Assumed(t)' = Assumed(t)
          /\ ~Plcc(t)'
      BY <3>5, <3>6, SamePlan DEF Assumed
    <3>8. \A h \in Hashes(t) : ci'[h] # 0
      <4>1. ci' = Touch(ci, FastHashes(t), ver + 1) /\ ver + 1 \in Nat /\ ci \in [Hash -> Nat]
        BY <1>8 DEF CommitPhase1, TypeOK
      <4>2. \A h \in Hash : ci'[h] = IF h \in FastHashes(t) THEN ver + 1 ELSE ci[h]
        BY SMTT(30), <4>1, TouchValue
      <4>3. \A h \in Hashes(t) : mod.cis[h] <= att[t][k].rv
        BY <1>8, <3>4 DEF CommitPhase1, NotModifiedSince, PagesAwaited
      <4>4. \A h \in Hashes(t) : ci[h] # 0 \/ h \in FastHashes(t)
        BY <3>4, <4>3 DEF PagesAwaited
      <4>5. ver + 1 # 0
        BY SMTT(30) DEF TypeOK
      <4> QED
        BY <4>2, <4>4, <4>5, PlanTypes
    <3> HIDE DEF x, rc
    <3>9. ChecksHold(t, k)'
      BY <2>2, <3>1, <3>3, <3>5, <3>6, <3>7, CheckedReads DEF ChecksHold
    <3>10. PagesAwaited(t, k)'
      BY <3>1, <3>3, <3>5, <3>7, <3>8 DEF PagesAwaited
    <3>11. x.rv <= ver'
      BY SMTT(30), <3>1, <3>6 DEF TypeOK
    <3> QED
      BY <1>5, <3>2, <3>9, <3>10, <3>11
  <2> QED
    BY <2>1, <2>2
<1>9. ASSUME NEW t \in Tx, NEW k \in Attempt, CommitPhase2(t, k) PROVE RunningInv'
  <2>1. PICK r, v, i : att' = [att EXCEPT ![t][k] = Answer(r, v, i)]
    BY <1>9 DEF CommitPhase2
  <2> QED
    BY <1>3, <2>1
<1>10. ASSUME NEW t \in Tx, NEW k \in Attempt,
              BehindClient(t, k) \/ BadPageReference(t, k) \/ CommitFails(t, k)
       PROVE  RunningInv'
  BY <1>4, <1>10 DEF BehindClient, BadPageReference, CommitFails
<1>11. ASSUME NEW t \in Tx, CreateTransaction(t) \/ WriteMany(t) \/ Receive(t) PROVE RunningInv'
  BY <1>1, <1>11 DEF CreateTransaction, WriteMany, Receive
<1>12. ASSUME NEW h \in Hash, DeleteUnreferencedContent(h) PROVE RunningInv'
  BY <1>1, <1>12 DEF DeleteUnreferencedContent
<1>13. CASE UNCHANGED vars
  BY <1>1, <1>13 DEF vars
<1> QED
  BY <1>2, <1>6, <1>7, <1>8, <1>9, <1>10, <1>11, <1>12, <1>13 DEF Next, Client, Server

-----------------------------------------------------------------------------

\* A transaction that has not started has sent and applied nothing, after any step.
LEMMA NewStep ==
    ASSUME TypeOK, NewIsUntouched, [Next]_vars
    PROVE  NewIsUntouched'
<1>1. ASSUME UNCHANGED <<att, applied>>, \A t \in Tx : tx'[t].st = "new" => tx[t].st = "new"
      PROVE  NewIsUntouched'
  BY <1>1 DEF NewIsUntouched
<1>2. ASSUME NEW t \in Tx, CreateTransaction(t) \/ WriteMany(t) \/ Receive(t)
      PROVE  NewIsUntouched'
  <2>1. PICK s \in {"open", "flushed", "committed", "conflict", "failed"}, v \in Nat :
          tx' = [tx EXCEPT ![t] = [tx[t] EXCEPT !.st = s]]
          \/ tx' = [tx EXCEPT ![t] = [tx[t] EXCEPT !.st = s, !.assumed = v]]
    <3>1. CASE CreateTransaction(t)
      BY <3>1 DEF CreateTransaction, StatVersion, TypeOK, LockType
    <3>2. CASE WriteMany(t)
      BY <3>2 DEF WriteMany
    <3>3. CASE Receive(t)
      BY <3>3 DEF Receive, ClientOutcome
    <3> QED
      BY <1>2, <3>1, <3>2, <3>3
  <2>2. ASSUME NEW u \in Tx, tx'[u].st = "new" PROVE tx[u].st = "new"
    <3>1. tx[t] \in TxType /\ tx \in [Tx -> TxType]
      BY DEF TypeOK
    <3>2. tx'[t].st = s
      BY <2>1, <3>1 DEF TxType
    <3>3. u # t => tx'[u] = tx[u]
      BY <2>1, <3>1
    <3> QED
      BY <2>2, <3>2, <3>3
  <2> QED
    BY <1>1, <1>2, <2>2 DEF CreateTransaction, WriteMany, Receive
<1>3. ASSUME NEW t \in Tx, SendCommit(t) \/ Retry(t) PROVE NewIsUntouched'
  <2>1. tx'[t].st = "committing" /\ \A u \in Tx \ {t} : tx'[u] = tx[u]
    <3>1. CASE SendCommit(t)
      BY <3>1 DEF SendCommit, TypeOK, TxType
    <3>2. CASE Retry(t)
      BY <3>2 DEF Retry, TypeOK, TxType
    <3> QED
      BY <1>3, <3>1, <3>2
  <2>2. PICK k \in Attempt : att' = [att EXCEPT ![t][k] = Sent]
    BY <1>3 DEF SendCommit, Retry
  <2>3. \A u \in Tx \ {t} : att'[u] = att[u]
    BY <2>2 DEF TypeOK
  <2>4. applied' = applied
    BY <1>3 DEF SendCommit, Retry
  <2> QED
    BY SMTT(30), <2>1, <2>3, <2>4 DEF NewIsUntouched
<1>4. ASSUME NEW t \in Tx, NEW k \in Attempt, att[t][k].pc # "idle", tx' = tx,
             NEW x, att' = [att EXCEPT ![t][k] = x], \A u \in Tx \ {t} : applied'[u] = applied[u]
      PROVE  NewIsUntouched'
  <2>1. tx[t].st # "new"
    BY <1>4 DEF NewIsUntouched
  <2>2. \A u \in Tx \ {t} : att'[u] = att[u]
    BY <1>4 DEF TypeOK
  <2> QED
    BY SMTT(30), <1>4, <2>1, <2>2 DEF NewIsUntouched
<1>5. ASSUME NEW t \in Tx, NEW k \in Attempt, Server(t, k) PROVE NewIsUntouched'
  <2>1. att[t][k].pc # "idle"
    BY <1>5 DEF Server, BehindClient, BadPageReference, SinglePhaseChecks, MultiPhaseChecks,
                CommitPhase1, CommitPhase2, CommitFails
  <2>2. tx' = tx
    BY <1>5 DEF Server, BehindClient, BadPageReference, SinglePhaseChecks, MultiPhaseChecks,
                CommitPhase1, CommitPhase2, ApplyWrites, CommitFails
  <2>3. PICK x : att' = [att EXCEPT ![t][k] = x]
    BY <1>5 DEF Server, BehindClient, BadPageReference, SinglePhaseChecks, MultiPhaseChecks,
                CommitPhase1, CommitPhase2, CommitFails, Reply
  <2>4. \A u \in Tx \ {t} : applied'[u] = applied[u]
    BY <1>5 DEF Server, BehindClient, BadPageReference, SinglePhaseChecks, MultiPhaseChecks,
                CommitPhase1, CommitPhase2, ApplyWrites, CommitFails, TypeOK
  <2> QED
    BY <1>4, <2>1, <2>2, <2>3, <2>4
<1>6. ASSUME NEW h \in Hash, DeleteUnreferencedContent(h) PROVE NewIsUntouched'
  BY <1>1, <1>6 DEF DeleteUnreferencedContent
<1>7. CASE UNCHANGED vars
  BY <1>1, <1>7 DEF vars
<1> QED
  BY <1>2, <1>3, <1>5, <1>6, <1>7 DEF Next, Client

\* Every application of a transaction stays recorded in the resolver, after any step.
LEMMA HistoryStep ==
    ASSUME IInv, TypeOK', [Next]_vars
    PROVE  HistoryRecorded'
<1> USE DEF IInv
<1>1. StoreStep
  BY NextStoreStep
<1>2. \A u \in Tx : Written(u)' = Written(u) /\ Written(u) \subseteq Page
  BY <1>1, SamePlan, PlanTypes DEF StoreStep
<1>3. /\ ver \in Nat /\ ver' \in Nat /\ ver <= ver'
      /\ lwv.ver \in Nat /\ mod.lwv \in Nat /\ mod'.lwv \in Nat
      /\ \A p \in Page : mod.pages[p] \in Nat /\ mod'.pages[p] \in Nat
      /\ \A u \in Tx : applied[u] \subseteq Nat
  BY <1>1 DEF TypeOK, ModType, StoreStep
<1>4. \A u \in Tx : \A d \in applied[u] :
        /\ d <= ver' /\ d <= mod'.lwv
        /\ \A p \in Written(u) : d <= mod'.pages[p]
  <2> SUFFICES ASSUME NEW u \in Tx, NEW d \in applied[u]
               PROVE  /\ d <= ver' /\ d <= mod'.lwv
                      /\ \A p \in Written(u) : d <= mod'.pages[p]
    OBVIOUS
  <2>1. d \in Nat /\ d <= ver /\ d <= mod.lwv /\ \A p \in Written(u) : d <= mod.pages[p]
    BY <1>3 DEF HistoryRecorded
  <2> QED
    BY SMTT(30), <1>1, <1>2, <1>3, <2>1 DEF StoreStep
<1>5. CASE UNCHANGED <<idx, lwv, applied>>
  BY SMTT(30), <1>2, <1>4, <1>5 DEF HistoryRecorded
<1>6. ASSUME NEW t \in Tx, NEW k \in Attempt, CommitPhase2(t, k) PROVE HistoryRecorded'
  <2> SUFFICES ASSUME NEW u \in Tx, NEW d \in applied'[u]
               PROVE  /\ d <= ver' /\ d <= lwv'.ver /\ d <= mod'.lwv
                      /\ \A p \in Written(u) :
                           d <= mod'.pages[p] /\ \E e \in idx' : e.page = p /\ e.ver = d
    BY SMTT(30), <1>2 DEF HistoryRecorded
  <2>1. CASE d \in applied[u]
    <3>1. d <= lwv'.ver
      BY SMTT(30), <1>3, <1>6, <2>1, CommitEffect DEF HistoryRecorded
    <3>2. \A p \in Written(u) : \E e \in idx' : e.page = p /\ e.ver = d
      BY SMTT(30), <1>6, <2>1, CommitEffect DEF HistoryRecorded
    <3> QED
      BY <1>4, <2>1, <3>1, <3>2
  <2>2. CASE d \notin applied[u]
    <3>1. u = t /\ d = ver + 1
      BY SMTT(30), <1>6, <2>2, CommitEffect
    <3>2. \A p \in Written(t) : \E e \in idx' : e.page = p /\ e.ver = ver + 1
      <4> SUFFICES ASSUME NEW p \in Written(t)
                   PROVE  \E e \in idx' : e.page = p /\ e.ver = ver + 1
        OBVIOUS
      <4>1. [page |-> p, ver |-> ver + 1, hash |-> HashOf(t, p)] \in idx'
        BY SMTT(30), <1>6, CommitEffect
      <4> QED
        BY <4>1
    <3>3. /\ ver' = ver + 1 /\ lwv'.ver = ver + 1 /\ mod'.lwv = ver + 1
          /\ \A p \in Written(t) : mod'.pages[p] = ver + 1
      BY SMTT(30), <1>6, CommitEffect
    <3> QED
      BY SMTT(30), <1>3, <3>1, <3>2, <3>3
  <2> QED
    BY <2>1, <2>2
<1> QED
  BY <1>5, <1>6, OnlyCommitWrites

\* The last write version stays that of an application, after any step.
LEMMA LwvStep ==
    ASSUME TypeOK, LwvIsApplied, [Next]_vars
    PROVE  LwvIsApplied'
<1>1. CASE UNCHANGED <<idx, lwv, applied>>
  BY <1>1 DEF LwvIsApplied
<1>2. ASSUME NEW t \in Tx, NEW k \in Attempt, CommitPhase2(t, k) PROVE LwvIsApplied'
  BY SMTT(30), <1>2, CommitEffect DEF LwvIsApplied
<1> QED
  BY <1>1, <1>2, OnlyCommitWrites

\* The heart of the argument: when a commit is applied, nothing it read was
\* overwritten up to its read version, because its checks said so, nor after
\* it, because the resolver lets it through.
LEMMA SerializableStep ==
    ASSUME IInv, TypeOK', [Next]_vars
    PROVE  ReadsNotOverwritten'
<1> USE DEF IInv
<1>1. \A u \in Tx : tx'[u].assumed = tx[u].assumed \/ applied[u] = {}
  BY NextStoreStep DEF StoreStep, NewIsUntouched
<1>2. \A u \in Tx : /\ Written(u)' = Written(u) /\ Reads(u)' = Reads(u)
                    /\ Plcc(u)' <=> Plcc(u)
  BY NextStoreStep, SamePlan DEF StoreStep
<1>3. CASE UNCHANGED <<idx, lwv, applied>>
  BY <1>1, <1>2, <1>3 DEF ReadsNotOverwritten, Assumed
<1>4. ASSUME NEW t \in Tx, NEW k \in Attempt, CommitPhase2(t, k) PROVE ReadsNotOverwritten'
  <2>0. /\ ver \in Nat /\ att[t][k].rv \in Nat /\ mod.lwv \in Nat
        /\ \A p \in Page : mod.pages[p] \in Nat
        /\ \A u \in Tx : applied[u] \subseteq Nat
        /\ Reads(t) \subseteq Page /\ Assumed(t) \in Nat
    BY SMTT(30), PlanTypes DEF TypeOK, AttemptType, ModType
  <2>1. tx' = tx
    BY <1>4, CommitEffect
  <2>2. ASSUME NEW u \in Tx \ {t}, NEW d \in applied[u], Assumed(t) < d
        PROVE  Plcc(t) /\ Reads(t) \cap Written(u) = {}
    <3>1. ChecksHold(t, k) /\ NotModifiedSince(att[t][k].rc, att[t][k].rv) /\ att[t][k].pc = "phase2"
      BY <1>4, CommitEffect DEF RunningInv
    <3>2. d \in Nat /\ d <= mod.lwv /\ \A p \in Written(u) : d <= mod.pages[p]
      BY <2>0 DEF HistoryRecorded
    <3>3. Plcc(t)
      <4> SUFFICES ASSUME ~Plcc(t) PROVE FALSE
        OBVIOUS
      <4>1. att[t][k].rc.lwv /\ (d <= att[t][k].rv => d <= Assumed(t))
        BY <3>1 DEF ChecksHold
      <4>2. mod.lwv <= att[t][k].rv
        BY <3>1, <4>1 DEF NotModifiedSince
      <4> QED
        BY SMTT(30), <2>0, <2>2, <3>2, <4>1, <4>2
    <3>4. Reads(t) \cap Written(u) = {}
      <4> SUFFICES ASSUME NEW p \in Reads(t) \cap Written(u) PROVE FALSE
        OBVIOUS
      <4>1. mod.pages[p] <= att[t][k].rv
        BY <3>1, <3>3 DEF ChecksHold, NotModifiedSince
      <4>2. ~(d <= att[t][k].rv)
        BY <2>2, <3>1, <3>3 DEF ChecksHold
      <4> QED
        BY SMTT(30), <2>0, <3>2, <4>1, <4>2
    <3> QED
      BY <3>3, <3>4
  <2>3. \A u \in Tx : \A d \in applied'[u] : d \in applied[u] \/ (u = t /\ d = ver + 1)
    BY SMTT(30), <1>4, CommitEffect
  <2>4. \A u \in Tx : \A d \in applied[u] : ~(ver + 1 < d)
    BY SMTT(30), <2>0 DEF HistoryRecorded
  <2> SUFFICES ASSUME NEW a \in Tx, NEW b \in Tx, a # b,
                      NEW c \in applied'[a], NEW d \in applied'[b], Assumed(a) < d, d < c
               PROVE  Plcc(a) /\ Reads(a) \cap Written(b) = {}
    BY <1>2, <2>1 DEF ReadsNotOverwritten, Assumed
  <2>5. CASE c \in applied[a] /\ d \in applied[b]
    BY <2>5 DEF ReadsNotOverwritten
  <2>6. CASE c \notin applied[a]
    BY <2>2, <2>3, <2>6
  <2>7. CASE d \notin applied[b] /\ c \in applied[a]
    BY <2>3, <2>4, <2>7
  <2> QED
    BY <2>5, <2>6, <2>7
<1> QED
  BY <1>3, <1>4, OnlyCommitWrites

\* The content index and the stored content change together.
LEMMA ContentStep ==
    ASSUME IInv, TypeOK', [Next]_vars
    PROVE  IndexedIsStored' /\ NoDanglingReference'
<1> USE DEF IInv
<1>0. ver \in Nat /\ ver + 1 # 0 /\ ver + 1 \in Nat /\ ci \in [Hash -> Nat]
  BY SMTT(30) DEF TypeOK
<1>1. ASSUME UNCHANGED <<idx, content, ci>> PROVE IndexedIsStored' /\ NoDanglingReference'
  BY <1>1 DEF IndexedIsStored, NoDanglingReference
<1>2. ASSUME NEW t \in Tx, WriteMany(t) PROVE IndexedIsStored' /\ NoDanglingReference'
  <2>1. PICK push : content' = content \cup Unstored(push) /\ ci' = Touch(ci, push, ver + 1)
    BY <1>2 DEF WriteMany
  <2>2. \A h \in Hash : ci'[h] = IF h \in push THEN ver + 1 ELSE ci[h]
    BY SMTT(30), <1>0, <2>1, TouchValue
  <2>3. idx' = idx
    BY <1>2 DEF WriteMany
  <2> QED
    BY <2>1, <2>2, <2>3 DEF IndexedIsStored, NoDanglingReference, Unstored
<1>3. ASSUME NEW t \in Tx, NEW k \in Attempt, CommitPhase1(t, k)
      PROVE  IndexedIsStored' /\ NoDanglingReference'
  <2>1. content' = content \cup att[t][k].put /\ ci' = Touch(ci, FastHashes(t), ver + 1) /\ idx' = idx
    BY <1>3 DEF CommitPhase1
  <2>2. \A h \in Hash : ci'[h] = IF h \in FastHashes(t) THEN ver + 1 ELSE ci[h]
    BY SMTT(30), <1>0, <2>1, TouchValue
  <2>3. PagesAwaited(t, k) /\ att[t][k].pc = "phase1" /\ NotModifiedSince(att[t][k].rc, att[t][k].rv)
    BY <1>3 DEF CommitPhase1, RunningInv
  <2>4. \A h \in Hashes(t) : ci[h] # 0 \/ h \in att[t][k].put
    BY <2>3 DEF PagesAwaited, NotModifiedSince
  <2>5. FastHashes(t) \subseteq Hashes(t)
    BY PlanTypes
  <2> QED
    BY <2>1, <2>2, <2>4, <2>5 DEF IndexedIsStored, NoDanglingReference
<1>4. ASSUME NEW t \in Tx, NEW k \in Attempt, CommitPhase2(t, k)
      PROVE  IndexedIsStored' /\ NoDanglingReference'
  <2>1. /\ att[t][k].pc = "phase2" /\ NotModifiedSince(att[t][k].rc, att[t][k].rv)
        /\ idx' = idx \cup {[page |-> p, ver |-> ver + 1, hash |-> HashOf(t, p)] : p \in Written(t)}
        /\ content' = content \cup att[t][k].put
        /\ \A h \in Hash : ci'[h] = IF h \in Hashes(t) THEN ver + 1 ELSE ci[h]
    BY <1>4, CommitEffect
  <2>2. PagesAwaited(t, k)
    BY DEF RunningInv
  <2>3. \A h \in Hashes(t) : ci[h] # 0 \/ h \in att[t][k].put
    <3>1. CASE MultiPhase(t)
      BY <2>1, <2>2, <3>1 DEF PagesAwaited, NotModifiedSince
    <3>2. CASE ~MultiPhase(t)
      BY <2>1, <2>2, <3>2 DEF PagesAwaited, NotModifiedSince
    <3> QED
      BY <3>1, <3>2
  <2>4. Hashes(t) \subseteq content'
    BY <2>1, <2>3, PlanTypes DEF IndexedIsStored
  <2>5. \A p \in Written(t) : HashOf(t, p) \in Hashes(t)
    BY DEF Hashes
  <2> QED
    BY SMTT(30), <2>1, <2>4, <2>5 DEF IndexedIsStored, NoDanglingReference
<1>5. ASSUME NEW h \in Hash, DeleteUnreferencedContent(h)
      PROVE  IndexedIsStored' /\ NoDanglingReference'
  <2>1. /\ \A e \in idx : e.hash # h
        /\ content' = content \ {h} /\ ci' = [ci EXCEPT ![h] = 0] /\ idx' = idx
    BY <1>5 DEF DeleteUnreferencedContent
  <2> QED
    BY <1>0, <2>1 DEF IndexedIsStored, NoDanglingReference
<1>6. ASSUME NEW t \in Tx, CreateTransaction(t) \/ SendCommit(t) \/ Retry(t) \/ Receive(t)
      PROVE  IndexedIsStored' /\ NoDanglingReference'
  BY <1>1, <1>6 DEF CreateTransaction, SendCommit, Retry, Receive, dbVars
<1>7. ASSUME NEW t \in Tx, NEW k \in Attempt,
             \/ BehindClient(t, k) \/ BadPageReference(t, k) \/ SinglePhaseChecks(t, k)
             \/ MultiPhaseChecks(t, k) \/ CommitFails(t, k)
      PROVE  IndexedIsStored' /\ NoDanglingReference'
  BY <1>1, <1>7 DEF BehindClient, BadPageReference, SinglePhaseChecks, MultiPhaseChecks,
                    CommitFails, dbVars
<1>8. CASE UNCHANGED vars
  BY <1>1, <1>8 DEF vars
<1> QED
  BY <1>2, <1>3, <1>4, <1>5, <1>6, <1>7, <1>8 DEF Next, Client, Server

\* An idempotent answer is given only to the commit that wrote the LWV.
LEMMA IdempotentVerdict ==
    ASSUME NEW t \in Tx, NEW k \in Attempt, Phase2Verdict(t, k) = "committed"
    PROVE  lwv.key = t
BY DEF Phase2Verdict, LockVerdict

\* A step keeps the replies true: only a commit, or the idempotency check, answers "committed".
LEMMA CommittedStep ==
    ASSUME IInv, TypeOK', [Next]_vars
    PROVE  CommittedIsApplied'
<1> USE DEF IInv
<1>0. \A u \in Tx : applied[u] \subseteq applied'[u]
  <2>1. CASE UNCHANGED <<idx, lwv, applied>>
    BY <2>1
  <2>2. ASSUME NEW t \in Tx, NEW k \in Attempt, CommitPhase2(t, k)
        PROVE  \A u \in Tx : applied[u] \subseteq applied'[u]
    BY <2>2, CommitEffect
  <2> QED
    BY <2>1, <2>2, OnlyCommitWrites
<1>1. ASSUME UNCHANGED att PROVE CommittedIsApplied'
  BY <1>0, <1>1 DEF CommittedIsApplied
<1>2. ASSUME NEW t \in Tx, NEW k \in Attempt, NEW x, att' = [att EXCEPT ![t][k] = x],
             x.res = "committed" => x.version \in applied'[t]
      PROVE  CommittedIsApplied'
  <2> SUFFICES ASSUME NEW u \in Tx, NEW j \in Attempt, att'[u][j].res = "committed"
               PROVE  att'[u][j].version \in applied'[u]
    BY DEF CommittedIsApplied
  <2>1. CASE u = t /\ j = k
    BY <1>2, <2>1 DEF TypeOK
  <2>2. CASE ~(u = t /\ j = k)
    <3>1. att'[u][j] = att[u][j]
      BY <1>2, <2>2 DEF TypeOK
    <3> QED
      BY <1>0, <3>1 DEF CommittedIsApplied
  <2> QED
    BY <2>1, <2>2
<1>3. ASSUME NEW t \in Tx, NEW k \in Attempt, NEW r, Reply(t, k, r), r = "committed" => lwv.key = t
      PROVE  CommittedIsApplied'
  <2>1. r = "committed" => lwv.ver \in applied'[t]
    BY <1>0, <1>3 DEF LwvIsApplied
  <2> DEFINE x == Answer(r, IF r = "committed" THEN lwv.ver ELSE 0, Full)
  <2>2. x.res = "committed" => x.version \in applied'[t]
    BY <2>1 DEF Answer
  <2>3. att' = [att EXCEPT ![t][k] = x]
    BY <1>3 DEF Reply
  <2> HIDE DEF x
  <2> QED
    BY <1>2, <2>2, <2>3
<1>4. ASSUME NEW t \in Tx, NEW k \in Attempt, NEW pc, NEW rv, NEW rc, NEW put,
             att' = [att EXCEPT ![t][k] = Running(pc, rv, rc, put)]
      PROVE  CommittedIsApplied'
  <2>1. Running(pc, rv, rc, put).res = "none"
    BY DEF Running
  <2> QED
    BY <1>2, <1>4, <2>1
<1>5. ASSUME NEW t \in Tx, SendCommit(t) \/ Retry(t) PROVE CommittedIsApplied'
  BY SMTT(30), <1>4, <1>5 DEF SendCommit, Retry, Sent
<1>6. ASSUME NEW t \in Tx, NEW k \in Attempt,
             BehindClient(t, k) \/ BadPageReference(t, k) \/ CommitFails(t, k)
      PROVE  CommittedIsApplied'
  BY <1>3, <1>6 DEF BehindClient, BadPageReference, CommitFails
<1>7. ASSUME NEW t \in Tx, NEW k \in Attempt,
             SinglePhaseChecks(t, k) \/ MultiPhaseChecks(t, k) \/ CommitPhase1(t, k)
      PROVE  CommittedIsApplied'
  <2>1. \/ Reply(t, k, Phase2Verdict(t, k))
        \/ \E pc, rv, rc, put : att' = [att EXCEPT ![t][k] = Running(pc, rv, rc, put)]
    BY SMTT(30), <1>7 DEF SinglePhaseChecks, MultiPhaseChecks, CommitPhase1
  <2> QED
    BY <1>3, <1>4, <2>1, IdempotentVerdict
<1>8. ASSUME NEW t \in Tx, NEW k \in Attempt, CommitPhase2(t, k) PROVE CommittedIsApplied'
  <2>1. \/ att' = [att EXCEPT ![t][k] =
                     Answer("committed", ver', ReadInterval(Assumed(t), ver, FALSE)')]
        \/ att' = [att EXCEPT ![t][k] = Answer("error", 0, Full)]
    BY <1>8 DEF CommitPhase2
  <2>2. ver' \in applied'[t]
    BY <1>8, CommitEffect
  <2>3. ASSUME NEW i, att' = [att EXCEPT ![t][k] = Answer("committed", ver', i)]
        PROVE  CommittedIsApplied'
    <3>1. Answer("committed", ver', i).version = ver'
      BY DEF Answer
    <3> QED
      BY <1>2, <2>2, <2>3, <3>1
  <2>4. CASE att' = [att EXCEPT ![t][k] = Answer("error", 0, Full)]
    <3>1. Answer("error", 0, Full).res = "error"
      BY DEF Answer
    <3> QED
      BY <1>2, <2>4, <3>1
  <2> QED
    BY <2>1, <2>3, <2>4
<1>9. ASSUME NEW t \in Tx, CreateTransaction(t) \/ WriteMany(t) \/ Receive(t) PROVE CommittedIsApplied'
  BY <1>1, <1>9 DEF CreateTransaction, WriteMany, Receive
<1>10. ASSUME NEW h \in Hash, DeleteUnreferencedContent(h) PROVE CommittedIsApplied'
  BY <1>1, <1>10 DEF DeleteUnreferencedContent
<1>11. CASE UNCHANGED vars
  BY <1>1, <1>11 DEF vars
<1> QED
  BY <1>5, <1>6, <1>7, <1>8, <1>9, <1>10, <1>11 DEF Next, Client, Server

-----------------------------------------------------------------------------
\* The initial states satisfy the inductive invariant.
LEMMA InitInv == Init => IInv
<1> SUFFICES ASSUME Init PROVE IInv
  OBVIOUS
<1>1. TypeOK
  BY InitType
<1>2. \A t \in Tx : applied[t] = {} /\ \A k \in Attempt : att[t][k] = IdleAttempt
  BY DEF Init
<1>3. IdleAttempt.pc = "idle" /\ IdleAttempt.rv = 0 /\ IdleAttempt.res = "none"
  BY DEF IdleAttempt, Running
<1>4. NewIsUntouched /\ HistoryRecorded /\ ReadsNotOverwritten
  BY <1>2, <1>3 DEF NewIsUntouched, HistoryRecorded, ReadsNotOverwritten
<1>5. LwvIsApplied
  BY NoneAssumption DEF Init, LwvIsApplied
<1>6. RunningInv
  <2> SUFFICES ASSUME NEW t \in Tx, NEW k \in Attempt
               PROVE  att[t][k].rv <= ver /\ ChecksHold(t, k) /\ PagesAwaited(t, k)
    BY DEF RunningInv
  <2>1. att[t][k].pc = "idle" /\ att[t][k].rv = 0 /\ ver = 0
    BY <1>2, <1>3 DEF Init
  <2> QED
    BY SMTT(30), <2>1 DEF ChecksHold, PagesAwaited
<1>7. CommittedIsApplied
  BY <1>2, <1>3 DEF CommittedIsApplied
<1>8. IndexedIsStored /\ NoDanglingReference
  BY DEF Init, IndexedIsStored, NoDanglingReference
<1> QED
  BY <1>1, <1>4, <1>5, <1>6, <1>7, <1>8 DEF IInv

\* Every step keeps the inductive invariant.
LEMMA NextInv == IInv /\ [Next]_vars => IInv'
<1> SUFFICES ASSUME IInv, [Next]_vars PROVE IInv'
  OBVIOUS
<1>1. TypeOK'
  BY NextType DEF IInv
<1>2. NewIsUntouched' /\ LwvIsApplied'
  BY NewStep, LwvStep DEF IInv
<1>3. HistoryRecorded' /\ RunningInv'
  BY <1>1, HistoryStep, RunningStep
<1>4. IndexedIsStored' /\ NoDanglingReference' /\ ReadsNotOverwritten' /\ CommittedIsApplied'
  BY <1>1, ContentStep, SerializableStep, CommittedStep
<1> QED
  BY <1>1, <1>2, <1>3, <1>4 DEF IInv

\* The inductive invariant holds in every reachable state of the commit path.
THEOREM Invariance == Spec => []IInv
BY InitInv, NextInv, PTL DEF Spec

\* Between the version a transaction starts from and the one it is applied at
\* nobody else writes a page it read, and without a page-level check nobody
\* else commits at all: for any number of transactions, requests and pages.
THEOREM Serializability == Spec => []ReadsNotOverwritten
<1>1. IInv => ReadsNotOverwritten
  BY DEF IInv
<1> QED
  BY <1>1, Invariance, PTL

\* A reply that says "committed", the idempotent one included, carries a
\* version at which that very transaction was applied.
THEOREM CommittedReplies == Spec => []CommittedIsApplied
<1>1. IInv => CommittedIsApplied
  BY DEF IInv
<1> QED
  BY <1>1, Invariance, PTL

\* No page version ever refers to content that is not stored, although the
\* collector may run between the two phases of any commit.
THEOREM ReferencesResolve == Spec => []NoDanglingReference
<1>1. IInv => NoDanglingReference
  BY DEF IInv
<1> QED
  BY <1>1, Invariance, PTL

-----------------------------------------------------------------------------
(* The changelog and retries                                                *)

\* Replies with a changelog list what it should, and what later commits write is
\* above their version.
IntervalsKept ==
    /\ CommitIntervalComplete
    /\ \A t \in Tx, k \in Attempt : att[t][k].interval.some =>
          att[t][k].pc = "replied" /\ att[t][k].version <= ver

\* Only transactions that write send requests.
SendersWrite ==
    \A t \in Tx : /\ tx[t].st = "committing" => Written(t) # {}
                  /\ \A k \in Attempt : att[t][k].pc # "idle" => Written(t) # {}

\* A request that looked for its idempotency key did not find it, or a key of
\* its conflict set has been written since.
RetriesChecked ==
    \A t \in Tx, k \in Attempt :
        att[t][k].pc = "phase2" /\ GoesThroughLwv(t, k) /\ lwv.key = t =>
            IF Plcc(t) THEN \E h \in Hashes(t) : att[t][k].rv < mod.cis[h]
            ELSE att[t][k].rv < mod.lwv

ReplyInv == IndexLogged /\ IntervalsKept /\ SendersWrite /\ RetriesChecked

\* A reply carries the changelog of its own transaction, and what is applied
\* later is above its version (commit.rs 354-382).
LEMMA IntervalsStep ==
    ASSUME IInv, IInv', IndexLogged', IntervalsKept, [Next]_vars
    PROVE  IntervalsKept'
<1>0. StoreStep /\ TypeOK /\ TypeOK' /\ ver \in Nat /\ ver' \in Nat /\ ver <= ver'
  BY NextStoreStep DEF IInv, TypeOK, StoreStep
<1>1. \A u \in Tx : Written(u)' = Written(u)
  BY <1>0, SamePlan DEF StoreStep
<1> SUFFICES ASSUME NEW t \in Tx, NEW k \in Attempt, att'[t][k].interval.some
             PROVE  /\ att'[t][k].pc = "replied" /\ att'[t][k].version <= ver'
                    /\ \A u \in Tx \ {t} : \A d \in applied'[u] :
                          Assumed(t)' < d /\ d < att'[t][k].version =>
                              Written(u) \subseteq att'[t][k].interval.pages
  BY SMTT(30), <1>1 DEF IntervalsKept, CommitIntervalComplete
<1>2. CASE att'[t][k] = att[t][k]
  <2>1. att[t][k].pc = "replied" /\ att[t][k].version <= ver
    BY <1>2 DEF IntervalsKept
  <2>2. att[t][k].version \in Nat
    BY SMTT(30), <1>0 DEF TypeOK, AttemptType
  <2>3. Assumed(t)' = Assumed(t)
    BY <1>0, <2>1 DEF StoreStep, IInv, NewIsUntouched, Assumed
  <2>4. ASSUME NEW u \in Tx \ {t}, NEW d \in applied'[u], Assumed(t)' < d,
               d < att'[t][k].version
        PROVE  Written(u) \subseteq att'[t][k].interval.pages
    <3>1. d \in Nat
      BY <1>0 DEF TypeOK
    <3>2. d \in applied[u]
      BY SMTT(30), <1>0, <1>2, <2>1, <2>2, <2>4, <3>1 DEF StoreStep
    <3> QED
      BY <1>2, <2>3, <2>4, <3>2 DEF IntervalsKept, CommitIntervalComplete
  <2>5. att[t][k].version <= ver'
    BY SMTT(30), <1>0, <2>1, <2>2
  <2> QED
    BY <1>2, <2>1, <2>4, <2>5
<1>3. CASE att'[t][k] # att[t][k]
  <2>3. /\ CommitPhase2(t, k)
        /\ att'[t][k] = Answer("committed", ver', ReadInterval(Assumed(t), ver, FALSE)')
    <3>1. Full.some = FALSE
      BY DEF Full
    <3>2. \A r, v : Answer(r, v, Full).interval = Full
      BY DEF Answer
    <3>3. \A pc, rv, rc, put : Running(pc, rv, rc, put).interval = Full
      BY DEF Running
    <3>4. ASSUME NEW r, Reply(t, k, r) PROVE FALSE
      <4>1. att'[t][k] = Answer(r, IF r = "committed" THEN lwv.ver ELSE 0, Full)
        BY <1>0, <3>4 DEF Reply, TypeOK
      <4> QED
        BY <3>1, <3>2, <4>1
    <3>5. ASSUME NEW pc, NEW rv, NEW rc, NEW put,
                 att' = [att EXCEPT ![t][k] = Running(pc, rv, rc, put)]
          PROVE  FALSE
      <4>1. att'[t][k] = Running(pc, rv, rc, put)
        BY <1>0, <3>5 DEF TypeOK
      <4> QED
        BY <3>1, <3>3, <4>1
    <3>6. ~(SinglePhaseChecks(t, k) \/ MultiPhaseChecks(t, k) \/ CommitPhase1(t, k))
      BY SMTT(30), <3>4, <3>5 DEF SinglePhaseChecks, MultiPhaseChecks, CommitPhase1
    <3>7. ~(BehindClient(t, k) \/ BadPageReference(t, k) \/ CommitFails(t, k))
      BY <3>4 DEF BehindClient, BadPageReference, CommitFails
    <3>8. att'[t][k] # Sent
      BY <3>1, <3>3 DEF Sent
    <3>9. CommitPhase2(t, k)
      BY <1>0, <1>3, <3>6, <3>7, <3>8, RequestSteps
    <3>10. ASSUME att' = [att EXCEPT ![t][k] = Answer("error", 0, Full)] PROVE FALSE
      <4>1. att'[t][k] = Answer("error", 0, Full)
        BY <1>0, <3>10 DEF TypeOK
      <4> QED
        BY <3>1, <3>2, <4>1
    <3>11. att' = [att EXCEPT ![t][k] =
                     Answer("committed", ver', ReadInterval(Assumed(t), ver, FALSE)')]
      BY <3>9, <3>10 DEF CommitPhase2
    <3>12. att'[t][k] = Answer("committed", ver', ReadInterval(Assumed(t), ver, FALSE)')
      BY <1>0, <3>11 DEF TypeOK
    <3> QED
      BY <3>9, <3>12
  <2> DEFINE i == ReadInterval(Assumed(t), ver, FALSE)'
  <2>4. att'[t][k].pc = "replied" /\ att'[t][k].version = ver' /\ att'[t][k].interval = i
    BY SMTT(30), <2>3 DEF Answer
  <2>5. ASSUME NEW u \in Tx \ {t}, NEW d \in applied'[u], Assumed(t)' < d, d < ver'
        PROVE  Written(u) \subseteq i.pages
    <3> SUFFICES ASSUME NEW p \in Written(u) PROVE p \in i.pages
      OBVIOUS
    <3>1. PICK e \in idx' : e.page = p /\ e.ver = d
      BY SMTT(30), <1>1 DEF IInv, HistoryRecorded
    <3>2. PICK g \in clog' : g.ver = d /\ (g.infinite = TRUE \/ p \in g.pages)
      BY <3>1 DEF IndexLogged
    <3>3. d \in Nat /\ Assumed(t)' \in Nat
      BY <1>0 DEF TypeOK, TxType, Assumed
    <3> DEFINE from == Assumed(t)'
               range == {f \in clog' : from <= f.ver /\ f.ver <= ver'}
               counted == {f \in range : f.ver # from /\ (FALSE \/ f.ver # ver')}
    <3>4. g \in counted
      BY SMTT(30), <1>0, <2>5, <3>2, <3>3
    <3>5. /\ from # ver'
          /\ \A f \in counted : ~f.infinite
          /\ i.pages = UNION {f.pages : f \in counted}
      <4>1. i.some
        BY <2>4
      <4>2. from # ver'
        BY SMTT(30), <1>0, <2>5, <3>3
      <4> QED
        BY <4>1, <4>2 DEF ReadInterval, Full
    <3> QED
      BY <3>2, <3>4, <3>5
  <2>6. ver' <= ver'
    BY SMTT(30), <1>0 DEF TypeOK
  <2> HIDE DEF i
  <2> QED
    BY <2>4, <2>5, <2>6
<1> QED
  BY <1>2, <1>3

\* Requests are sent by transactions that write (lib.rs 249-300).
LEMMA SendersStep ==
    ASSUME IInv, IInv', SendersWrite, [Next]_vars
    PROVE  SendersWrite'
<1>0. TypeOK /\ \A u \in Tx : Written(u)' = Written(u)
  BY NextStoreStep, SamePlan DEF StoreStep, IInv
<1>1. ASSUME NEW t \in Tx, tx'[t].st = "committing" PROVE Written(t) # {}
  <2>1. CASE tx[t].st = "committing"
    BY <2>1 DEF SendersWrite
  <2>2. CASE tx[t].st # "committing"
    <3>1. ASSUME NEW u \in Tx, CreateTransaction(u) \/ WriteMany(u) \/ Receive(u) PROVE FALSE
      <4>1. tx[u] \in TxType
        BY <1>0 DEF TypeOK
      <4>2. PICK y : tx' = [tx EXCEPT ![u] = y] /\ y.st # "committing"
        <5>0. /\ \A q : [tx[u] EXCEPT !.st = q].st = q
              /\ \A q, v : [tx[u] EXCEPT !.st = q, !.assumed = v].st = q
          BY <4>1 DEF TxType
        <5>1. CASE CreateTransaction(u)
          <6> DEFINE v == StatVersion(tx[u].plan.owner)
          <6>1. tx' = [tx EXCEPT ![u] = [tx[u] EXCEPT !.st = "open", !.assumed = v]]
            BY <5>1 DEF CreateTransaction
          <6> HIDE DEF v
          <6>2. [tx[u] EXCEPT !.st = "open", !.assumed = v].st # "committing"
            BY SMTT(30), <5>0
          <6> QED
            BY <6>1, <6>2
        <5>2. CASE WriteMany(u)
          BY <5>0, <5>2 DEF WriteMany
        <5>3. CASE Receive(u)
          <6> DEFINE q == ClientOutcome(att[u][tx[u].n].res)
          <6>1. tx' = [tx EXCEPT ![u] = [tx[u] EXCEPT !.st = q]]
            BY <5>3 DEF Receive
          <6>2. q # "committing"
            BY <5>3 DEF Receive, ClientOutcome
          <6> HIDE DEF q
          <6>3. [tx[u] EXCEPT !.st = q].st # "committing"
            BY <5>0, <6>2
          <6> QED
            BY <6>1, <6>3
        <5> QED
          BY <3>1, <5>1, <5>2, <5>3
      <4>3. tx'[t] = IF t = u THEN y ELSE tx[t]
        BY <1>0, <4>2 DEF TypeOK
      <4> QED
        BY <1>1, <2>2, <4>2, <4>3
    <3>2. ASSUME NEW u \in Tx, Retry(u) PROVE FALSE
      <4>1. u # t /\ \E y : tx' = [tx EXCEPT ![u] = y]
        BY <2>2, <3>2 DEF Retry
      <4>2. tx'[t] = tx[t]
        BY <1>0, <4>1 DEF TypeOK
      <4> QED
        BY <1>1, <2>2, <4>2
    <3>3. ASSUME NEW u \in Tx, SendCommit(u) PROVE Written(t) # {}
      <4>1. Written(u) # {} /\ \E y : tx' = [tx EXCEPT ![u] = y]
        BY <3>3 DEF SendCommit
      <4>2. u # t => tx'[t] = tx[t]
        BY <1>0, <4>1 DEF TypeOK
      <4> QED
        BY <1>1, <2>2, <4>1, <4>2
    <3>4. tx' # tx
      BY <1>1, <2>2
    <3>5. ~UNCHANGED vars
      BY <3>4 DEF vars
    <3>6. ASSUME NEW u \in Tx, NEW j \in Attempt, Server(u, j) PROVE FALSE
      BY <3>4, <3>6 DEF Server, BehindClient, BadPageReference, SinglePhaseChecks,
                        MultiPhaseChecks, CommitPhase1, CommitPhase2, ApplyWrites, CommitFails
    <3>7. ASSUME NEW h \in Hash, DeleteUnreferencedContent(h) PROVE FALSE
      BY <3>4, <3>7 DEF DeleteUnreferencedContent
    <3> QED
      BY <3>1, <3>2, <3>3, <3>5, <3>6, <3>7 DEF Next, Client
  <2> QED
    BY <2>1, <2>2
<1>2. ASSUME NEW t \in Tx, NEW k \in Attempt, att'[t][k].pc # "idle" PROVE Written(t) # {}
  <2>1. CASE att'[t][k] = att[t][k] \/ att[t][k].pc # "idle"
    BY <1>2, <2>1 DEF SendersWrite
  <2>2. CASE att'[t][k] # att[t][k] /\ att[t][k].pc = "idle"
    <3>1. SendCommit(t) \/ Retry(t)
      BY <1>0, <2>2, RequestSteps
         DEF SinglePhaseChecks, MultiPhaseChecks, CommitPhase1, CommitPhase2, BehindClient,
             BadPageReference, CommitFails
    <3> QED
      BY <3>1 DEF SendCommit, Retry, SendersWrite
  <2> QED
    BY <2>1, <2>2
<1> QED
  BY <1>0, <1>1, <1>2 DEF SendersWrite

\* Between the search for the idempotency key and the commit, another request
\* of the same transaction writes keys of the conflict set (commit.rs 135-143,
\* 211-254).
LEMMA RetriesStep ==
    ASSUME IInv, IInv', SendersWrite, RetriesChecked, [Next]_vars
    PROVE  RetriesChecked'
<1>0. TypeOK /\ TypeOK' /\ StoreStep
  BY NextStoreStep DEF IInv
<1> SUFFICES ASSUME NEW t \in Tx, NEW k \in Attempt, att'[t][k].pc = "phase2",
                    GoesThroughLwv(t, k)', lwv'.key = t
             PROVE  IF Plcc(t)' THEN \E h \in Hashes(t)' : att'[t][k].rv < mod'.cis[h]
                    ELSE att'[t][k].rv < mod'.lwv
  BY DEF RetriesChecked
<1>1. /\ Hashes(t)' = Hashes(t) /\ Hashes(t) \subseteq Hash
      /\ Plcc(t)' <=> Plcc(t)
      /\ MultiPhase(t)' <=> MultiPhase(t)
  BY <1>0, SamePlan, PlanTypes DEF StoreStep
<1>2. GoesThroughLwv(t, k)
  BY <1>1 DEF GoesThroughLwv
<1>3. CASE att'[t][k] = att[t][k]
  <2>1. att[t][k].rv \in Nat /\ att[t][k].rv <= ver /\ ver \in Nat
    BY SMTT(30), <1>0 DEF TypeOK, AttemptType, IInv, RunningInv
  <2>2. Hashes(t) # {}
    BY <1>3 DEF SendersWrite, Hashes
  <2>3. CASE UNCHANGED lwv
    <3>1. IF Plcc(t) THEN \E h \in Hashes(t) : att[t][k].rv < mod.cis[h]
          ELSE att[t][k].rv < mod.lwv
      BY <1>2, <1>3, <2>3 DEF RetriesChecked
    <3>2. /\ \A h \in Hash : /\ mod'.cis[h] \in Nat /\ mod.cis[h] \in Nat
                             /\ mod'.cis[h] = mod.cis[h] \/ ver < mod'.cis[h]
          /\ mod'.lwv \in Nat /\ mod.lwv \in Nat
          /\ mod'.lwv = mod.lwv \/ ver < mod'.lwv
      BY <1>0 DEF TypeOK, ModType, StoreStep
    <3>3. CASE Plcc(t)
      <4>1. PICK h \in Hashes(t) : att[t][k].rv < mod.cis[h]
        BY <3>1, <3>3
      <4>2. h \in Hash
        BY <1>1
      <4>3. att[t][k].rv < mod'.cis[h]
        BY SMTT(30), <2>1, <3>2, <4>1, <4>2
      <4>4. \E g \in Hashes(t)' : att'[t][k].rv < mod'.cis[g]
        BY <1>1, <1>3, <4>3
      <4> QED
        BY <1>1, <3>3, <4>4
    <3>4. CASE ~Plcc(t)
      <4>1. att[t][k].rv < mod.lwv
        BY <3>1, <3>4
      <4>2. att[t][k].rv < mod'.lwv
        BY SMTT(30), <2>1, <3>2, <4>1
      <4> QED
        BY <1>1, <1>3, <3>4, <4>2
    <3> QED
      BY <3>3, <3>4
  <2>4. ASSUME NEW u \in Tx, NEW j \in Attempt, CommitPhase2(u, j)
        PROVE  IF Plcc(t)' THEN \E h \in Hashes(t)' : att'[t][k].rv < mod'.cis[h]
               ELSE att'[t][k].rv < mod'.lwv
    <3>1. u = t
      <4>1. lwv' = [key |-> u, ver |-> ver + 1]
        BY <2>4 DEF CommitPhase2, ApplyWrites
      <4> QED
        BY <4>1
    <3>2. mod' = WriteConflicts(IF MultiPhase(t) THEN Page ELSE Written(t),
                                IF MultiPhase(t) THEN Hash ELSE Hashes(t), {"lwv"}, ver + 1)
      BY <2>4, <3>1 DEF CommitPhase2, ApplyWrites
    <3>3. mod'.lwv = ver + 1 /\ \A h \in Hashes(t) : mod'.cis[h] = ver + 1
      <4> DEFINE P == IF MultiPhase(t) THEN Page ELSE Written(t)
                 H == IF MultiPhase(t) THEN Hash ELSE Hashes(t)
      <4>1. Hashes(t) \subseteq H
        BY <1>1
      <4> HIDE DEF P, H
      <4>2. mod' = WriteConflicts(P, H, {"lwv"}, ver + 1)
        BY <3>2 DEF P, H
      <4>3. /\ \A h \in Hash : mod'.cis[h] = IF h \in H THEN ver + 1 ELSE mod.cis[h]
            /\ mod'.lwv = IF "lwv" \in {"lwv"} THEN ver + 1 ELSE mod.lwv
        BY SMTT(30), <1>0, <4>2, ConflictsValue
      <4> QED
        BY <1>1, <4>1, <4>3
    <3>4. att'[t][k].rv < ver + 1
      BY SMTT(30), <1>3, <2>1
    <3>5. \E h \in Hashes(t)' : att'[t][k].rv < mod'.cis[h]
      BY <1>1, <2>2, <3>3, <3>4
    <3> QED
      BY <3>3, <3>4, <3>5
  <2> QED
    BY <2>3, <2>4, OnlyCommitWrites
<1>4. CASE att'[t][k] # att[t][k]
  <2>3. ASSUME NEW r, NEW v, NEW i, att' = [att EXCEPT ![t][k] = Answer(r, v, i)] PROVE FALSE
    <3>1. att'[t][k] = Answer(r, v, i)
      BY <1>0, <2>3 DEF TypeOK
    <3> QED
      BY SMTT(30), <3>1 DEF Answer
  <2>4. ASSUME NEW r, Reply(t, k, r) PROVE FALSE
    BY <2>3, <2>4 DEF Reply
  <2>5. SinglePhaseChecks(t, k) \/ CommitPhase1(t, k)
    <3>1. ~(BehindClient(t, k) \/ BadPageReference(t, k) \/ CommitFails(t, k))
      BY <2>4 DEF BehindClient, BadPageReference, CommitFails
    <3>2. ASSUME CommitPhase2(t, k) PROVE FALSE
      <4>1. CASE att' = [att EXCEPT ![t][k] = Answer("error", 0, Full)]
        BY <2>3, <4>1
      <4> DEFINE i == ReadInterval(Assumed(t), ver, FALSE)'
      <4>2. ~(att' = [att EXCEPT ![t][k] = Answer("error", 0, Full)]) =>
                att' = [att EXCEPT ![t][k] = Answer("committed", ver', i)]
        BY <3>2 DEF CommitPhase2
      <4> HIDE DEF i
      <4>3. CASE att' = [att EXCEPT ![t][k] = Answer("committed", ver', i)]
        BY <2>3, <4>3
      <4> QED
        BY <4>1, <4>2, <4>3
    <3>3. ~MultiPhaseChecks(t, k)
      <4>1. SUFFICES ASSUME MultiPhaseChecks(t, k) PROVE FALSE
        OBVIOUS
      <4>2. att' = [att EXCEPT ![t][k] =
                Running("phase1", ver, Phase1Reads(t), Unstored(FastHashes(t)))]
        BY <4>1 DEF MultiPhaseChecks
      <4>3. att'[t][k] = Running("phase1", ver, Phase1Reads(t), Unstored(FastHashes(t)))
        BY <1>0, <4>2 DEF TypeOK
      <4>4. \A y, v, rc, put : Running(y, v, rc, put).pc = y
        BY DEF Running
      <4> QED
        BY SMTT(30), <4>3, <4>4
    <3>4. att'[t][k] # Sent
      BY SMTT(30) DEF Sent, Running
    <3> QED
      BY <1>0, <1>4, <3>1, <3>2, <3>3, <3>4, RequestSteps
  <2>6. Phase2Verdict(t, k) = "none"
    BY <2>4, <2>5 DEF SinglePhaseChecks, CommitPhase1
  <2>7. lwv.key # t
    BY <1>2, <2>6 DEF Phase2Verdict
  <2>8. lwv' = lwv
    BY <2>5 DEF SinglePhaseChecks, CommitPhase1, dbVars
  <2> QED
    BY <2>7, <2>8
<1> QED
  BY <1>3, <1>4

\* The changelog, the replies and the retries stay in order, after any step.
THEOREM ReplyInvariance == Spec => []ReplyInv
<1>1. ASSUME Init PROVE ReplyInv
  <2>1. /\ \A t \in Tx : applied[t] = {} /\ \A k \in Attempt : att[t][k] = IdleAttempt
        /\ idx = {} /\ \A t \in Tx : tx[t].st = "new"
    BY <1>1 DEF Init
  <2>2. IdleAttempt.pc = "idle" /\ IdleAttempt.interval.some = FALSE
    BY DEF IdleAttempt, Running, Full
  <2> QED
    BY <2>1, <2>2 DEF ReplyInv, IndexLogged, IntervalsKept, CommitIntervalComplete,
                      SendersWrite, RetriesChecked
<1>2. ASSUME IInv, IInv', ReplyInv, [Next]_vars PROVE ReplyInv'
  <2>1. IndexLogged'
    BY <1>2, LoggedStep DEF ReplyInv, IInv
  <2>2. IntervalsKept'
    BY <1>2, <2>1, IntervalsStep DEF ReplyInv
  <2>3. SendersWrite' /\ RetriesChecked'
    BY <1>2, SendersStep, RetriesStep DEF ReplyInv
  <2> QED
    BY <2>1, <2>2, <2>3 DEF ReplyInv
<1> QED
  BY <1>1, <1>2, Invariance, PTL DEF Spec

\* The changelog in a commit reply names every page that others wrote since the
\* client's version, so what the client keeps in its cache is current.
THEOREM CommitIntervals == Spec => []CommitIntervalComplete
<1>1. ReplyInv => CommitIntervalComplete
  BY DEF ReplyInv, IntervalsKept
<1> QED
  BY <1>1, ReplyInvariance, PTL

\* Whatever version a client comes from, a page outside the interval stat
\* returns has no version in between.
THEOREM StatIntervals == Spec => []StatIntervalComplete
<1>1. TypeOK /\ ReplyInv => StatIntervalComplete
  <2> SUFFICES ASSUME TypeOK, ReplyInv, NEW from \in 0..ver,
                      ReadInterval(from, StatVersion(NoOwner), TRUE).some,
                      NEW e \in idx, from < e.ver, e.ver <= StatVersion(NoOwner)
               PROVE  e.page \in ReadInterval(from, StatVersion(NoOwner), TRUE).pages
    BY DEF StatIntervalComplete
  <2> DEFINE to == StatVersion(NoOwner)
             range == {f \in clog : from <= f.ver /\ f.ver <= to}
             counted == {f \in range : f.ver # from /\ (TRUE \/ f.ver # to)}
  <2>1. to \in Nat /\ e.ver \in Nat /\ from \in Nat
    BY SMTT(30) DEF StatVersion, TypeOK, LockType, IndexEntry
  <2>2. PICK g \in clog : g.ver = e.ver /\ (g.infinite = TRUE \/ e.page \in g.pages)
    BY DEF ReplyInv, IndexLogged
  <2>3. from # to
    BY SMTT(30), <2>1
  <2> HIDE DEF to
  <2>4. g \in counted
    BY SMTT(30), <2>1, <2>2 DEF to
  <2>5. /\ \A f \in counted : ~f.infinite
        /\ ReadInterval(from, to, TRUE).pages = UNION {f.pages : f \in counted}
    BY <2>3 DEF ReadInterval, Full, to
  <2> QED
    BY <2>2, <2>4, <2>5 DEF to
<1>2. IInv => TypeOK
  BY DEF IInv
<1> QED
  BY <1>1, <1>2, Invariance, ReplyInvariance, PTL

\* A retry, and any commit checked against the LWV, is never applied on top of
\* an earlier application of the same transaction.
THEOREM RetriesOnce == Spec => RetryNotReapplied
<1>1. ASSUME IInv, ReplyInv, [Next]_vars, NEW t \in Tx, NEW k \in Attempt,
             k # 1 \/ ~Plcc(t), att'[t][k] # att[t][k], applied'[t] # applied[t]
      PROVE  lwv.key # t
  <2>0. TypeOK
    BY <1>1 DEF IInv
  <2>1. PICK u \in Tx, j \in Attempt : CommitPhase2(u, j)
    BY <1>1, OnlyCommitWrites
  <2>2. u = t
    BY <1>1, <2>0, <2>1, CommitEffect
  <2>3. j = k
    <3>1. PICK x : att' = [att EXCEPT ![u][j] = x]
      BY <2>1 DEF CommitPhase2
    <3> QED
      BY <1>1, <2>0, <2>2, <3>1 DEF TypeOK
  <2>4. att[t][k].pc = "phase2" /\ NotModifiedSince(att[t][k].rc, att[t][k].rv)
    BY <2>0, <2>1, <2>2, <2>3, CommitEffect
  <2>5. ChecksHold(t, k) /\ PagesAwaited(t, k)
    BY <1>1 DEF IInv, RunningInv
  <2>6. GoesThroughLwv(t, k)
    BY <1>1 DEF GoesThroughLwv
  <2>7. att[t][k].rv \in Nat /\ mod.lwv \in Nat /\ \A h \in Hash : mod.cis[h] \in Nat
    BY SMTT(30), <2>0 DEF TypeOK, AttemptType, ModType
  <2>8. CASE Plcc(t)
    <3>1. ~MultiPhase(t)
      BY <2>8 DEF Plcc
    <3>2. \A h \in Hashes(t) : mod.cis[h] <= att[t][k].rv
      BY <2>4, <2>5, <3>1 DEF PagesAwaited, NotModifiedSince
    <3>3. Hashes(t) \subseteq Hash
      BY <2>0, PlanTypes
    <3>4. ASSUME lwv.key = t PROVE FALSE
      <4>1. PICK h \in Hashes(t) : att[t][k].rv < mod.cis[h]
        BY <1>1, <2>4, <2>6, <2>8, <3>4 DEF ReplyInv, RetriesChecked
      <4>2. h \in Hash /\ mod.cis[h] <= att[t][k].rv
        BY <3>2, <3>3
      <4> QED
        BY SMTT(30), <2>7, <4>1, <4>2
    <3> QED
      BY <3>4
  <2>9. CASE ~Plcc(t)
    <3>1. mod.lwv <= att[t][k].rv
      BY <2>4, <2>5, <2>9 DEF ChecksHold, NotModifiedSince
    <3>2. ASSUME lwv.key = t PROVE FALSE
      <4>1. att[t][k].rv < mod.lwv
        BY <1>1, <2>4, <2>6, <2>9, <3>2 DEF ReplyInv, RetriesChecked
      <4> QED
        BY SMTT(30), <2>7, <3>1, <4>1
    <3> QED
      BY <3>2
  <2> QED
    BY <2>8, <2>9
<1> DEFINE Once == \A t \in Tx, k \in Attempt :
                      /\ k # 1 \/ ~Plcc(t)
                      /\ att'[t][k] # att[t][k]
                      /\ applied'[t] # applied[t]
                      => lwv.key # t
<1>2. IInv /\ ReplyInv /\ [Next]_vars => [Once]_vars
  BY <1>1
<1> QED
  BY <1>2, Invariance, ReplyInvariance, PTL DEF Spec, RetryNotReapplied
=============================================================================
