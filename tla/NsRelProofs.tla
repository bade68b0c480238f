---------------------------- MODULE NsRelProofs -----------------------------
(***************************************************************************)
(* The invariant of the namespace lock, and the proof that the requests    *)
(* for the lock keep it: acquiring, releasing, and every step of a         *)
(* rollback.                                                               *)
(*                                                                         *)
(* The lock is read long before what it guards is committed, by commits as *)
(* well as by rollbacks, so that the invariant is about what each of them  *)
(* still knows: either the lock has not changed since, or the conflict     *)
(* range on the namespace metadata makes the commit fail.  A rollback also *)
(* knows how far its scan has come, from which it follows that it is done  *)
(* when it sets the last write version back.                               *)
(***************************************************************************)
EXTENDS CommitProofs, NsLock

\* Leaves are given to Zenon unless they name another prover.
USE ZenonT(30)

-----------------------------------------------------------------------------
(* The inductive invariants                                                *)

\* Versions have been handed out before they are used, and are above 0.
VersionsGiven ==
    /\ IsFiniteSet(idx)
    /\ \A e \in idx : 0 < e.ver /\ e.ver <= ver
    /\ \A e \in clog : e.ver <= ver
    /\ lwv.ver <= ver /\ nslock.snapshot <= ver /\ nslock.nonce <= ver
    /\ \A t \in Tx : \A d \in applied[t] : d <= ver
    /\ \A t \in Tx : tx[t].st # "new" => Assumed(t) <= ver

\* Only a lock that is held is rolled back.
RollingIsHeld == nslock.rolling = TRUE => nslock.owner # NoOwner

\* A request with state a that names the owner o and is about to commit was let in
\* by the lock, or the lock has changed since and the resolver will refuse it.
LetIn(a, o) ==
    /\ a.rv <= ver
    /\ a.pc = "phase2" =>
          /\ a.rc.nsmd = TRUE
          /\ mod.nsmd <= a.rv => nslock.owner = o /\ nslock.rolling = FALSE

\* A rollback that is resumed at the cursor of the namespace misses nothing.
CursorKnows ==
    nslock.rolling = TRUE => \A e \in idx : nslock.snapshot < e.ver => cursor <= e.page

Begun == {"cursor", "scan", "clear", "final", "unlock"}
Valid(h) == nslock.owner # NoOwner /\ nslock.nonce = h.nonce
BatchEnd(h) == LastKey({Key(e) : e \in h.batch})

\* What a release request with state h knows as long as the lock it began with is
\* there: the lock is being rolled back, and of the versions to delete those up
\* to its cursor, and in the end all, are gone.
Knows(h) ==
    /\ h.nonce <= ver /\ h.snapshot <= ver /\ h.rv <= ver
    /\ h.pc = "clear" => h.batch # {} /\ IsFiniteSet(h.batch)
    /\ h.pc \in {"clear", "unlock"} /\ mod.nsmd <= h.rv => Valid(h)
    /\ h.pc \in Begun /\ Valid(h) => nslock.rolling = TRUE /\ nslock.snapshot = h.snapshot
    /\ h.pc \in {"scan", "clear"} /\ Valid(h) =>
          \A e \in idx : h.snapshot < e.ver => Before(h.last, Key(e))
    /\ h.pc = "clear" /\ Valid(h) =>
          \A e \in idx : Before(h.last, Key(e)) => e \in h.batch \/ Before(BatchEnd(h), Key(e))
    /\ h.pc \in {"final", "unlock"} /\ Valid(h) => \A e \in idx : e.ver <= h.snapshot

\* What a rollback needs of its scan: a round sees the next entries and leaves
\* none out.
ScanSound ==
    \A last \in Nat \X Nat :
        /\ Batch(last) \subseteq idx /\ IsFiniteSet(Batch(last))
        /\ Batch(last) = {} => \A e \in idx : ~Before(last, Key(e))
        /\ Batch(last) # {} =>
              \A e \in idx : Before(last, Key(e)) =>
                  \/ e \in Batch(last)
                  \/ Before(LastKey({Key(f) : f \in Batch(last)}), Key(e))

NsInv ==
    /\ NsTypeOK
    /\ VersionsGiven
    /\ RollingIsHeld
    /\ \A t \in Tx, k \in Attempt : LetIn(att[t][k], tx[t].plan.owner)
    /\ NothingNewerThanLwv
    /\ CursorKnows
    /\ \A r \in Handler : Knows(rel[r])

\* The entry of a page in a commit of t at c.
EntryOf(t, p, c) == [page |-> p, ver |-> c, hash |-> HashOf(t, p)]
Whole(t, c) ==
    \/ \A p \in Written(t) : EntryOf(t, p, c) \in idx
    \/ \A p \in Written(t) : EntryOf(t, p, c) \notin idx

\* Versions that no rollback under way is deleting.
Safe(v) == nslock.rolling = TRUE => v <= nslock.snapshot

\* What clients hold on to: whole commits, and the pages they have seen at a
\* version that is still there.
ClientInv ==
    /\ \A t \in Tx : \A c \in applied[t] : Safe(c) => Whole(t, c)
    /\ \A t \in Tx : tx[t].st # "new" /\ KnownVersion(Assumed(t)) /\ Safe(Assumed(t)) =>
          View(Assumed(t)) = base[t]
    /\ IndexLogged

-----------------------------------------------------------------------------
(* Keys and views                                                          *)

\* The key of an entry is a pair of numbers.
LEMMA KeyOfEntry ==
    \A e \in IndexEntry : /\ e.page \in Nat /\ e.ver \in Nat /\ e.hash \in Hash
                          /\ Key(e) = <<e.page, e.ver>> /\ Key(e) \in Nat \X Nat
                          /\ Key(e)[1] = e.page /\ Key(e)[2] = e.ver
BY LockAssumption DEF IndexEntry, Key

\* The pages at version v of a namespace with the entries I.
Older(I, p, v) == {e \in I : e.page = p /\ e.ver <= v}
Latest(S) ==
    IF S = {} THEN NoHash ELSE (CHOOSE e \in S : \A f \in S : f.ver <= e.ver).hash
ViewOf(I, v) == [p \in Page |-> Latest(Older(I, p, v))]

\* What View reads is a function of the page index.
LEMMA ViewIsViewOf == \A v : View(v) = ViewOf(idx, v)
BY DEF View, ViewOf, Older, Latest

\* Only the versions up to v count.
LEMMA SameView ==
    ASSUME NEW I, NEW J, NEW v, \A e : e \in I /\ e.ver <= v <=> e \in J /\ e.ver <= v
    PROVE  ViewOf(I, v) = ViewOf(J, v)
<1>1. \A p \in Page : Older(I, p, v) = Older(J, p, v)
  BY DEF Older
<1> QED
  BY <1>1 DEF ViewOf

\* A page that nobody wrote after v, up to w, is the same at both.
LEMMA LaterView ==
    ASSUME NEW I \in SUBSET IndexEntry, NEW v \in Nat, NEW w \in Nat, v <= w, NEW p \in Page,
           \A e \in I : v < e.ver /\ e.ver <= w => e.page # p
    PROVE  ViewOf(I, w)[p] = ViewOf(I, v)[p]
<1>1. \A e \in I : e.ver \in Nat
  BY KeyOfEntry
<1>2. Older(I, p, w) = Older(I, p, v)
  BY SMTT(30), <1>1 DEF Older
<1> QED
  BY <1>2 DEF ViewOf

-----------------------------------------------------------------------------
(* Requests that the lock has let in                                       *)

\* The lock lets a request in or not by its state and owner.
LEMMA LetInNext ==
    ASSUME NEW t \in Tx, NEW k \in Attempt, NEW a, NEW o,
           att'[t][k] = a, tx'[t].plan.owner = o, LetIn(a, o)'
    PROVE  LetIn(att[t][k], tx[t].plan.owner)'
BY DEF LetIn

\* A request that takes no step stays let in as long as the lock does not change.
LEMMA LetInFrame ==
    ASSUME NEW a \in AttemptType, NEW o, LetIn(a, o), ver \in Nat, ver' \in Nat, ver <= ver',
           nslock' = nslock, mod'.nsmd = mod.nsmd
    PROVE  LetIn(a, o)'
<1>1. a.rv <= ver /\ a.rv \in Nat
  BY DEF LetIn, AttemptType
<1>2. a.rv <= ver'
  BY SMTT(30), <1>1
<1> QED
  BY <1>2 DEF LetIn

-----------------------------------------------------------------------------
(* What release requests know                                              *)

\* What a request knows is about its state.
LEMMA KnowsNext ==
    ASSUME NEW r \in Handler, NEW h, rel'[r] = h, Knows(h)'
    PROVE  Knows(rel[r])'
BY DEF Knows, Valid, BatchEnd

\* A request that takes no step knows what it knew, as long as the lock stays and
\* pages are only deleted.
LEMMA KnowsFrame ==
    ASSUME NEW h \in RelType, Knows(h), ver \in Nat, ver' \in Nat, ver <= ver',
           nslock' = nslock, mod'.nsmd = mod.nsmd,
           idx' \subseteq idx \/ ~(h.pc \in Begun /\ Valid(h))
    PROVE  Knows(h)'
<1>0. h.nonce <= ver /\ h.snapshot <= ver /\ h.rv <= ver
  BY DEF Knows
<1>1. h.nonce \in Nat /\ h.snapshot \in Nat /\ h.rv \in Nat
  BY DEF RelType
<1>2. h.nonce <= ver' /\ h.snapshot <= ver' /\ h.rv <= ver'
  BY SMTT(30), <1>0, <1>1
<1>3. Valid(h)' <=> Valid(h)
  BY DEF Valid
<1>5. h.pc \in {"scan", "clear", "final", "unlock"} /\ Valid(h) => idx' \subseteq idx
  BY DEF Begun
<1>6. /\ h.pc = "clear" => h.batch # {} /\ IsFiniteSet(h.batch)
      /\ h.pc \in {"clear", "unlock"} /\ mod'.nsmd <= h.rv => Valid(h)'
      /\ h.pc \in Begun /\ Valid(h)' => nslock'.rolling = TRUE /\ nslock'.snapshot = h.snapshot
  BY <1>3 DEF Knows
<1>7. h.pc \in {"scan", "clear"} /\ Valid(h)' =>
          \A e \in idx' : h.snapshot < e.ver => Before(h.last, Key(e))
  BY <1>3, <1>5 DEF Knows
<1>8. h.pc = "clear" /\ Valid(h)' =>
          \A e \in idx' : Before(h.last, Key(e)) => e \in h.batch \/ Before(BatchEnd(h), Key(e))
  BY <1>3, <1>5 DEF Knows
<1>9. h.pc \in {"final", "unlock"} /\ Valid(h)' => \A e \in idx' : e.ver <= h.snapshot
  BY <1>3, <1>5 DEF Knows
<1> QED
  BY <1>2, <1>6, <1>7, <1>8, <1>9 DEF Knows

\* A request that has not begun its rollback knows nothing yet.
LEMMA RestKnows ==
    ASSUME NEW h, ver' \in Nat, h.pc \in {"idle", "begin", "spin"},
           h.nonce = 0, h.snapshot = 0, h.rv = 0
    PROVE  Knows(h)'
<1>1. h.nonce <= ver' /\ h.snapshot <= ver' /\ h.rv <= ver'
  BY SMTT(30)
<1>2. h.pc \notin {"clear", "unlock", "scan", "final"} /\ h.pc \notin Begun /\ h.pc # "clear"
  BY DEF Begun
<1> QED
  BY <1>1, <1>2 DEF Knows

\* Such requests are well-typed.
LEMMA RestType ==
    ASSUME NEW q \in {"idle", "begin", "spin", "cursor"}, NEW o \in Owner \cup {NoOwner},
           NEW n \in Nat, NEW s \in Nat
    PROVE  /\ [Idle EXCEPT !.pc = q, !.owner = o] \in RelType
           /\ [Idle EXCEPT !.pc = q, !.owner = o, !.nonce = n, !.snapshot = s] \in RelType
BY DEF Idle, RelType

\* The state of a request that is not running.
LEMMA IdleFields ==
    /\ Idle \in RelType /\ Idle.pc = "idle" /\ Idle.nonce = 0 /\ Idle.snapshot = 0 /\ Idle.rv = 0
BY DEF Idle, RelType

\* When one request takes a step, all of them know what they should if the one
\* does and the others still do.
LEMMA AllKnow ==
    ASSUME NsInv, NEW r \in Handler, rel' \in [Handler -> RelType], Knows(rel[r])',
           \A s \in Handler \ {r} : rel'[s] = rel[s],
           \A s \in Handler \ {r} : \A h \in RelType : h = rel[s] /\ Knows(h) => Knows(h)'
    PROVE  \A s \in Handler : Knows(rel[s])'
<1> SUFFICES ASSUME NEW s \in Handler PROVE Knows(rel[s])'
  OBVIOUS
<1>1. CASE s = r
  BY <1>1
<1>2. CASE s # r
  <2>1. PICK h : h = rel[s]
    OBVIOUS
  <2>2. h \in RelType /\ Knows(h) /\ rel'[s] = h
    BY <1>2, <2>1 DEF NsInv, NsTypeOK
  <2>3. Knows(h)'
    BY <1>2, <2>1, <2>2
  <2> QED
    BY <2>2, <2>3, KnowsNext
<1> QED
  BY <1>1, <1>2

\* When no request takes a step, they know what they still do.
LEMMA StillKnow ==
    ASSUME NsInv, UNCHANGED rel, \A h \in RelType : Knows(h) => Knows(h)'
    PROVE  \A s \in Handler : Knows(rel[s])'
<1> SUFFICES ASSUME NEW s \in Handler PROVE Knows(rel[s])'
  OBVIOUS
<1>1. PICK h : h = rel[s]
  OBVIOUS
<1>2. h \in RelType /\ Knows(h) /\ rel'[s] = h
  BY <1>1 DEF NsInv, NsTypeOK
<1> QED
  BY <1>2, KnowsNext

\* A step of a request that changes nothing but the request.
LEMMA HandlerMoves ==
    ASSUME NsInv, NEW r \in Handler, NEW x \in RelType, rel' = [rel EXCEPT ![r] = x],
           UNCHANGED <<vars, cursor, base>>, faults' \in 0..MaxFaults, Knows(x)'
    PROVE  NsInv'
<1>1. /\ UNCHANGED <<ver, idx, content, ci, lwv, clog, nslock, mod, tx, att, applied>>
      /\ UNCHANGED <<cursor, base>>
  BY DEF vars
<1>2. rel \in [Handler -> RelType] /\ ver \in Nat
  BY DEF NsInv, NsTypeOK, TypeOK
<1>3. rel'[r] = x /\ rel' \in [Handler -> RelType] /\ \A s \in Handler \ {r} : rel'[s] = rel[s]
  BY <1>2
<1>4. TypeOK'
  BY <1>1 DEF NsInv, NsTypeOK, TypeOK
<1>5. NsTypeOK'
  BY <1>1, <1>3, <1>4 DEF NsInv, NsTypeOK
<1>6. VersionsGiven'
  BY <1>1 DEF NsInv, VersionsGiven, Assumed
<1>7. \A t \in Tx, k \in Attempt : LetIn(att[t][k], tx[t].plan.owner)'
  BY <1>1 DEF NsInv, LetIn
<1>8. RollingIsHeld' /\ NothingNewerThanLwv' /\ CursorKnows'
  BY <1>1 DEF NsInv, RollingIsHeld, NothingNewerThanLwv, CursorKnows
<1>9. \A s \in Handler : Knows(rel[s])'
  <2>1. ver' \in Nat /\ ver <= ver' /\ nslock' = nslock /\ mod'.nsmd = mod.nsmd /\ idx' \subseteq idx
    BY SMTT(30), <1>1, <1>2
  <2>2. \A h \in RelType : Knows(h) => Knows(h)'
    BY <1>2, <2>1, KnowsFrame
  <2>3. Knows(rel[r])'
    BY <1>3, KnowsNext
  <2> QED
    BY <1>3, <2>2, <2>3, AllKnow
<1> QED
  BY <1>5, <1>6, <1>7, <1>8, <1>9 DEF NsInv

\* When the lock changes, whoever read it before finds out: commits through the
\* conflict range on the namespace metadata (metadata.rs 76), rollbacks through
\* its nonce (nslock.rs 289-303).
LEMMA LockMoves ==
    ASSUME NsInv, ver' = ver + 1, NEW keys, "nsmd" \in keys,
           mod' = WriteConflicts({}, {}, keys, ver + 1),
           nslock' \in LockType, nslock'.nonce <= ver + 1, nslock'.snapshot <= ver + 1,
           lwv' \in [key : Tx \cup {NoTx}, ver : Nat], lwv'.ver <= ver + 1,
           clog' \subseteq clog, UNCHANGED <<idx, content, ci, tx, att, applied>>
    PROVE  /\ TypeOK' /\ VersionsGiven'
           /\ \A t \in Tx, k \in Attempt : LetIn(att[t][k], tx[t].plan.owner)'
           /\ \A h \in RelType : Knows(h) /\ (h.pc \in Begun => ~Valid(h)') => Knows(h)'
<1>1. TypeOK /\ ver \in Nat /\ ver + 1 \in Nat
  BY SMTT(30) DEF NsInv, NsTypeOK, TypeOK
<1>2. mod' \in ModType
  BY <1>1, WriteConflictsType
<1>3. mod'.nsmd = ver + 1
  BY DEF WriteConflicts
<1>4. TypeOK'
  BY <1>1, <1>2 DEF TypeOK
<1>5. VersionsGiven'
  <2>1. VersionsGiven
    BY DEF NsInv
  <2>2. /\ \A e \in idx : e.ver \in Nat
        /\ \A e \in clog : e.ver \in Nat
        /\ \A t \in Tx : applied[t] \subseteq Nat /\ Assumed(t) \in Nat
    BY <1>1 DEF TypeOK, IndexEntry, LogEntry, Assumed, TxType
  <2>3. \A e \in idx' : 0 < e.ver /\ e.ver <= ver'
    BY SMTT(30), <1>1, <2>1, <2>2 DEF VersionsGiven
  <2>4. \A e \in clog' : e.ver <= ver'
    BY SMTT(30), <1>1, <2>1, <2>2 DEF VersionsGiven
  <2>5. \A t \in Tx : \A d \in applied'[t] : d <= ver'
    BY SMTT(30), <1>1, <2>1, <2>2 DEF VersionsGiven
  <2>6. \A t \in Tx : tx'[t].st # "new" => Assumed(t)' <= ver'
    BY SMTT(30), <1>1, <2>1, <2>2 DEF VersionsGiven, Assumed
  <2> QED
    BY <2>1, <2>3, <2>4, <2>5, <2>6 DEF VersionsGiven
<1>6. ASSUME NEW t \in Tx, NEW k \in Attempt PROVE LetIn(att[t][k], tx[t].plan.owner)'
  <2>1. PICK a, o : a = att[t][k] /\ o = tx[t].plan.owner
    OBVIOUS
  <2>2. LetIn(a, o) /\ a.rv \in Nat /\ att'[t][k] = a /\ tx'[t].plan.owner = o
    BY <1>1, <2>1 DEF NsInv, TypeOK, AttemptType
  <2>3. a.rv <= ver /\ (a.pc = "phase2" => a.rc.nsmd = TRUE)
    BY <2>2 DEF LetIn
  <2>4. a.rv <= ver' /\ ~(mod'.nsmd <= a.rv)
    BY SMTT(30), <1>1, <1>3, <2>2, <2>3
  <2>5. LetIn(a, o)'
    BY <2>3, <2>4 DEF LetIn
  <2> QED
    BY <2>2, <2>5, LetInNext
<1>7. ASSUME NEW h \in RelType, Knows(h), h.pc \in Begun => ~Valid(h)' PROVE Knows(h)'
  <2>1. h.nonce \in Nat /\ h.snapshot \in Nat /\ h.rv \in Nat
    BY DEF RelType
  <2>2. /\ h.nonce <= ver /\ h.snapshot <= ver /\ h.rv <= ver
        /\ h.pc = "clear" => h.batch # {} /\ IsFiniteSet(h.batch)
    BY <1>7 DEF Knows
  <2>3. /\ h.nonce <= ver' /\ h.snapshot <= ver' /\ h.rv <= ver'
        /\ ~(mod'.nsmd <= h.rv)
    BY SMTT(30), <1>1, <1>3, <2>1, <2>2
  <2>4. /\ ~(h.pc \in Begun /\ Valid(h)')
        /\ ~(h.pc \in {"scan", "clear"} /\ Valid(h)')
        /\ ~(h.pc = "clear" /\ Valid(h)')
        /\ ~(h.pc \in {"final", "unlock"} /\ Valid(h)')
    BY <1>7 DEF Begun
  <2> QED
    BY <2>2, <2>3, <2>4 DEF Knows
<1> QED
  BY <1>4, <1>5, <1>6, <1>7

-----------------------------------------------------------------------------
(* One lemma per step                                                      *)

\* Taking the lock: no request that is running began with it.
LEMMA AcquireStep ==
    ASSUME NsInv, NEW o \in Owner, AcquireNslock(o)
    PROVE  NsInv'
<1>0. TypeOK /\ ver \in Nat /\ lwv.ver \in Nat /\ lwv.ver <= ver /\ VersionsGiven
  BY DEF NsInv, NsTypeOK, TypeOK, VersionsGiven
<1>1. PICK v \in 0..lwv.ver :
          nslock' = [owner |-> o, snapshot |-> v, rolling |-> FALSE, nonce |-> ver + 1]
  <2>1. lwv.ver \in 0..lwv.ver
    BY SMTT(30), <1>0
  <2> QED
    BY <2>1 DEF AcquireNslock
<1>2. /\ nslock' \in LockType /\ nslock'.nonce = ver + 1 /\ nslock'.snapshot <= ver + 1
      /\ nslock'.rolling = FALSE
  BY SMTT(30), <1>0, <1>1 DEF LockType
<1>3. /\ ver' = ver + 1 /\ mod' = WriteConflicts({}, {}, {"nsmd"}, ver + 1)
      /\ UNCHANGED <<idx, content, ci, lwv, clog, tx, att, applied, cursor, rel, faults, base>>
  BY DEF AcquireNslock, lockVars
<1>4. \A h \in RelType : Knows(h) => ~Valid(h)'
  <2> SUFFICES ASSUME NEW h \in RelType, Knows(h) PROVE nslock'.nonce # h.nonce
    BY DEF Valid
  <2>1. h.nonce \in Nat /\ h.nonce <= ver
    BY DEF RelType, Knows
  <2> QED
    BY SMTT(30), <1>0, <1>2, <2>1
<1>5. lwv' \in [key : Tx \cup {NoTx}, ver : Nat] /\ lwv'.ver <= ver + 1 /\ nslock'.nonce <= ver + 1
  BY SMTT(30), <1>0, <1>2, <1>3 DEF TypeOK
<1>6. /\ TypeOK' /\ VersionsGiven'
      /\ \A t \in Tx, k \in Attempt : LetIn(att[t][k], tx[t].plan.owner)'
      /\ \A h \in RelType : Knows(h) => Knows(h)'
  BY <1>2, <1>3, <1>4, <1>5, LockMoves
<1>7. NsTypeOK'
  BY <1>3, <1>6 DEF NsInv, NsTypeOK
<1>8. RollingIsHeld' /\ NothingNewerThanLwv' /\ CursorKnows'
  BY <1>2, <1>3 DEF NsInv, RollingIsHeld, NothingNewerThanLwv, CursorKnows
<1>9. \A s \in Handler : Knows(rel[s])'
  BY <1>3, <1>6, StillKnow
<1> QED
  BY <1>6, <1>7, <1>8, <1>9 DEF NsInv

\* Releasing it in commit mode, even during a rollback.
LEMMA ReleaseCommitStep ==
    ASSUME NsInv, NEW o \in Owner, ReleaseCommit(o)
    PROVE  NsInv'
<1>0. TypeOK /\ ver \in Nat /\ lwv.ver \in Nat /\ lwv.ver <= ver /\ VersionsGiven
  BY DEF NsInv, NsTypeOK, TypeOK, VersionsGiven
<1>2. /\ nslock' \in LockType /\ nslock'.nonce = 0 /\ nslock'.snapshot = 0
      /\ nslock'.rolling = FALSE /\ nslock'.owner = NoOwner
  BY DEF LockType, NoLock, ReleaseCommit
<1>3. /\ ver' = ver + 1 /\ mod' = WriteConflicts({}, {}, {"nsmd"}, ver + 1)
      /\ UNCHANGED <<idx, content, ci, lwv, clog, tx, att, applied, cursor, rel, faults, base>>
  BY DEF ReleaseCommit, lockVars
<1>4. \A h \in RelType : Knows(h) => ~Valid(h)'
  BY <1>2 DEF Valid
<1>5. /\ lwv' \in [key : Tx \cup {NoTx}, ver : Nat] /\ lwv'.ver <= ver + 1
      /\ nslock'.nonce <= ver + 1 /\ nslock'.snapshot <= ver + 1
  BY SMTT(30), <1>0, <1>2, <1>3 DEF TypeOK
<1>6. /\ TypeOK' /\ VersionsGiven'
      /\ \A t \in Tx, k \in Attempt : LetIn(att[t][k], tx[t].plan.owner)'
      /\ \A h \in RelType : Knows(h) => Knows(h)'
  BY <1>2, <1>3, <1>4, <1>5, LockMoves
<1>7. NsTypeOK'
  BY <1>3, <1>6 DEF NsInv, NsTypeOK
<1>8. RollingIsHeld' /\ NothingNewerThanLwv' /\ CursorKnows'
  BY <1>2, <1>3 DEF NsInv, RollingIsHeld, NothingNewerThanLwv, CursorKnows
<1>9. \A s \in Handler : Knows(rel[s])'
  BY <1>3, <1>6, StillKnow
<1> QED
  BY <1>6, <1>7, <1>8, <1>9 DEF NsInv

\* The two ways the commit of a request is answered.
LEMMA Answered ==
    ASSUME NsTypeOK, NEW r \in Handler, NEW x \in RelType, NEW y \in RelType,
           CommitAnswered(r, x, y)
    PROVE  /\ rel' \in [Handler -> RelType] /\ faults' \in 0..MaxFaults
           /\ rel'[r] = x \/ rel'[r] = y
           /\ \A s \in Handler \ {r} : rel'[s] = rel[s]
<1>1. rel \in [Handler -> RelType] /\ faults \in 0..MaxFaults /\ MaxFaults \in Nat
  BY LockAssumption DEF NsTypeOK
<1>2. CASE rel' = [rel EXCEPT ![r] = x] /\ UNCHANGED faults
  BY <1>1, <1>2
<1>3. CASE rel' = [rel EXCEPT ![r] = y] /\ faults < MaxFaults /\ faults' = faults + 1
  <2>1. faults' \in 0..MaxFaults
    BY SMTT(30), <1>1, <1>3
  <2> QED
    BY <1>1, <1>3, <2>1
<1> QED
  BY <1>2, <1>3 DEF CommitAnswered

\* Beginning a rollback: the lock was not being rolled back, so that no other
\* request has begun with it.
LEMMA BeginStep ==
    ASSUME NsInv, NEW r \in Handler, NEW o \in Owner, BeginRollback(r, o)
    PROVE  NsInv'
<1>12. PICK x, y :
      /\ x = [Idle EXCEPT !.pc = "cursor", !.owner = o, !.nonce = nslock.nonce,
                          !.snapshot = nslock.snapshot]
      /\ y = [Idle EXCEPT !.pc = "begin", !.owner = o]
  OBVIOUS
<1>0. /\ TypeOK /\ NsTypeOK /\ ver \in Nat /\ lwv.ver \in Nat /\ lwv.ver <= ver
      /\ nslock \in LockType /\ nslock.nonce <= ver /\ nslock.snapshot <= ver
      /\ nslock.nonce \in Nat /\ nslock.snapshot \in Nat
  BY DEF NsInv, NsTypeOK, TypeOK, VersionsGiven, LockType
<1>1. /\ nslock.owner = o /\ nslock.rolling = FALSE
      /\ nslock' = [nslock EXCEPT !.rolling = TRUE] /\ cursor' = 0
      /\ ver' = ver + 1 /\ mod' = WriteConflicts({}, {}, {"nsmd"}, ver + 1)
      /\ UNCHANGED <<idx, content, ci, lwv, clog, tx, att, applied, base>>
  BY <1>0 DEF BeginRollback, LockType
<1>2. /\ nslock' \in LockType /\ nslock'.nonce = nslock.nonce /\ nslock'.snapshot = nslock.snapshot
      /\ nslock'.rolling = TRUE /\ nslock'.owner = o /\ o # NoOwner
  BY <1>0, <1>1, NoneAssumption DEF LockType
<1>3. CommitAnswered(r, x, y)
  BY <1>12 DEF BeginRollback
<1>4. /\ x \in RelType /\ y \in RelType
      /\ x.pc = "cursor" /\ x.nonce = nslock.nonce /\ x.snapshot = nslock.snapshot /\ x.rv = 0
      /\ y.pc = "begin" /\ y.nonce = 0 /\ y.snapshot = 0 /\ y.rv = 0
  <2>1. x \in RelType /\ y \in RelType
    BY <1>0, <1>12, RestType
  <2> QED
    BY <1>12, <2>1 DEF Idle
<1>5. /\ rel' \in [Handler -> RelType] /\ faults' \in 0..MaxFaults
      /\ rel'[r] = x \/ rel'[r] = y
      /\ \A s \in Handler \ {r} : rel'[s] = rel[s]
  BY <1>0, <1>3, <1>4, Answered
<1>6. /\ lwv' \in [key : Tx \cup {NoTx}, ver : Nat] /\ lwv'.ver <= ver + 1
      /\ nslock'.nonce <= ver + 1 /\ nslock'.snapshot <= ver + 1
  BY SMTT(30), <1>0, <1>1, <1>2 DEF TypeOK
<1>7. /\ TypeOK' /\ VersionsGiven'
      /\ \A t \in Tx, k \in Attempt : LetIn(att[t][k], tx[t].plan.owner)'
      /\ \A h \in RelType : Knows(h) /\ (h.pc \in Begun => ~Valid(h)') => Knows(h)'
  BY <1>1, <1>2, <1>6, LockMoves
<1>8. \A s \in Handler : Knows(rel[s])'
  <2>1. \A h \in RelType : Knows(h) => Knows(h)'
    <3> SUFFICES ASSUME NEW h \in RelType, Knows(h), h.pc \in Begun PROVE ~Valid(h)'
      BY <1>7
    <3>1. Valid(h)' <=> Valid(h)
      BY <1>1, <1>2 DEF Valid
    <3>2. ~Valid(h)
      BY <1>1 DEF Knows
    <3> QED
      BY <3>1, <3>2
  <2>2. ver' \in Nat /\ ver <= ver'
    BY SMTT(30), <1>0, <1>1
  <2>3. Knows(y)'
    BY <1>4, <2>2, RestKnows
  <2>4. Knows(x)'
    <3>1. x.nonce <= ver' /\ x.snapshot <= ver' /\ x.rv <= ver'
      BY SMTT(30), <1>0, <1>1, <1>4
    <3>2. nslock'.rolling = TRUE /\ nslock'.snapshot = x.snapshot
      BY <1>2, <1>4
    <3> QED
      BY <1>4, <3>1, <3>2 DEF Knows
  <2>5. Knows(rel[r])'
    BY <1>5, <2>3, <2>4, KnowsNext
  <2> QED
    BY <1>5, <2>1, <2>5, AllKnow
<1>9. NsTypeOK'
  BY <1>0, <1>1, <1>5, <1>7 DEF NsTypeOK
<1>10. CursorKnows'
  <2>1. \A e \in idx : e.page \in Nat
    BY <1>0, KeyOfEntry DEF TypeOK
  <2>2. \A e \in idx' : cursor' <= e.page
    BY SMTT(30), <1>1, <2>1
  <2> QED
    BY <2>2 DEF CursorKnows
<1>11. RollingIsHeld' /\ NothingNewerThanLwv'
  BY <1>1, <1>2 DEF NsInv, RollingIsHeld, NothingNewerThanLwv
<1> QED
  BY <1>7, <1>8, <1>9, <1>10, <1>11 DEF NsInv

\* Steps of a request before it has begun, and its end.
LEMMA RestStep ==
    ASSUME NsInv, NEW r \in Handler,
           \/ \E o \in Owner : RetryBegin(r, o) \/ SpinRollback(r, o)
           \/ EndSpin(r) \/ RefuseRelease(r) \/ Crash(r)
    PROVE  NsInv'
<1>1. ver \in Nat /\ faults \in 0..MaxFaults /\ MaxFaults \in Nat
  BY LockAssumption DEF NsInv, NsTypeOK, TypeOK
<1>2. PICK x : /\ x \in RelType /\ x.pc \in {"idle", "begin", "spin"}
               /\ x.nonce = 0 /\ x.snapshot = 0 /\ x.rv = 0
               /\ rel' = [rel EXCEPT ![r] = x]
  <2>1. ASSUME NEW o \in Owner, NEW q \in {"begin", "spin"}
        PROVE  LET x == [Idle EXCEPT !.pc = q, !.owner = o]
               IN  /\ x \in RelType /\ x.pc = q
                   /\ x.nonce = 0 /\ x.snapshot = 0 /\ x.rv = 0
    <3>1. [Idle EXCEPT !.pc = q, !.owner = o] \in RelType
      BY <1>1, RestType
    <3> QED
      BY <3>1 DEF Idle
  <2>3. CASE \E o \in Owner : RetryBegin(r, o)
    BY <2>1, <2>3 DEF RetryBegin
  <2>4. CASE \E o \in Owner : SpinRollback(r, o)
    BY <2>1, <2>4 DEF SpinRollback
  <2>5. CASE EndSpin(r) \/ RefuseRelease(r) \/ Crash(r)
    BY <2>5, IdleFields DEF EndSpin, RefuseRelease, Crash
  <2> QED
    BY <2>3, <2>4, <2>5
<1>3. UNCHANGED <<vars, cursor, base>> /\ faults' \in 0..MaxFaults
  <2>1. CASE Crash(r)
    BY SMTT(30), <1>1, <2>1 DEF Crash
  <2>2. CASE ~Crash(r)
    BY <1>1, <2>2 DEF RetryBegin, SpinRollback, EndSpin, RefuseRelease
  <2> QED
    BY <2>1, <2>2
<1>4. ver' \in Nat
  BY <1>1, <1>3 DEF vars
<1>5. Knows(x)'
  BY <1>2, <1>4, RestKnows
<1> QED
  BY <1>2, <1>3, <1>5, HandlerMoves

\* A rollback that ends early.
LEMMA GivesUp ==
    ASSUME NsInv, NEW r \in Handler, rel' = [rel EXCEPT ![r] = Idle],
           UNCHANGED <<vars, cursor, base>>, UNCHANGED faults
    PROVE  NsInv'
<1>1. ver' \in Nat /\ faults' \in 0..MaxFaults
  BY DEF NsInv, NsTypeOK, TypeOK, vars
<1>2. PICK x : x = Idle
  OBVIOUS
<1>3. /\ x \in RelType /\ x.pc = "idle" /\ x.nonce = 0 /\ x.snapshot = 0 /\ x.rv = 0
      /\ rel' = [rel EXCEPT ![r] = x]
  BY <1>2, IdleFields
<1>4. Knows(x)'
  BY <1>1, <1>3, RestKnows
<1> QED
  BY <1>1, <1>3, <1>4, HandlerMoves

\* A rollback goes on from the cursor of the namespace.
LEMMA ReadCursorStep ==
    ASSUME NsInv, NEW r \in Handler, ReadCursor(r)
    PROVE  NsInv'
<1>1. PICK h, x : /\ h = rel[r]
                  /\ x = [h EXCEPT !.pc = "scan", !.cursor = cursor, !.last = <<cursor, 0>>]
  OBVIOUS
<1>2. h \in RelType /\ cursor \in Nat /\ h.pc = "cursor" /\ Knows(h) /\ ver \in Nat
  BY <1>1 DEF NsInv, NsTypeOK, TypeOK, ReadCursor
<1>3. rel' = [rel EXCEPT ![r] = x] /\ UNCHANGED <<vars, cursor, base>> /\ UNCHANGED faults
  BY <1>1 DEF ReadCursor
<1>4. /\ x \in RelType /\ x.pc = "scan" /\ x.last = <<cursor, 0>> /\ x.nonce = h.nonce
      /\ x.snapshot = h.snapshot /\ x.rv = h.rv
  BY <1>1, <1>2 DEF RelType
<1>5. faults' \in 0..MaxFaults /\ UNCHANGED <<ver, idx, nslock, mod, cursor>>
  BY <1>3 DEF NsInv, NsTypeOK, vars
<1>6. Knows(x)'
  <2>1. x.nonce <= ver' /\ x.snapshot <= ver' /\ x.rv <= ver'
    BY <1>2, <1>4, <1>5 DEF Knows
  <2>2. Valid(x)' => Valid(h)
    BY <1>4, <1>5 DEF Valid
  <2>3. Valid(x)' => nslock'.rolling = TRUE /\ nslock'.snapshot = x.snapshot
    BY <1>2, <1>4, <1>5, <2>2 DEF Knows, Begun
  <2>4. ASSUME Valid(x)', NEW e \in idx', x.snapshot < e.ver PROVE Before(x.last, Key(e))
    <3>1. e \in idx /\ e \in IndexEntry
      BY <1>5 DEF NsInv, NsTypeOK, TypeOK
    <3>2. nslock.rolling = TRUE /\ nslock.snapshot < e.ver
      BY <1>5, <2>3, <2>4
    <3>3. cursor <= e.page /\ 0 < e.ver
      BY <3>1, <3>2 DEF NsInv, CursorKnows, VersionsGiven
    <3>4. e.page \in Nat /\ e.ver \in Nat /\ Key(e)[1] = e.page /\ Key(e)[2] = e.ver
      BY <3>1, KeyOfEntry
    <3>5. x.last[1] = cursor /\ x.last[2] = 0
      BY SMTT(30), <1>4
    <3> QED
      BY SMTT(30), <1>2, <3>3, <3>4, <3>5 DEF Before
  <2> QED
    BY <1>4, <2>1, <2>3, <2>4 DEF Knows
<1> QED
  BY <1>3, <1>4, <1>5, <1>6, HandlerMoves

\* A round of the scan; when it finds nothing, every version to delete is gone.
LEMMA ScanStep ==
    ASSUME NsInv, ScanSound, NEW r \in Handler, ScanBatch(r)
    PROVE  NsInv'
<1>1. PICK h, b, x, y : /\ h = rel[r] /\ b = Batch(h.last)
                        /\ x = [h EXCEPT !.pc = "final"]
                        /\ y = [h EXCEPT !.pc = "clear", !.rv = ver, !.batch = b]
  OBVIOUS
<1>2. /\ h \in RelType /\ h.pc = "scan" /\ Knows(h) /\ TypeOK /\ ver \in Nat
      /\ idx \subseteq IndexEntry /\ IsFiniteSet(idx)
  BY <1>1 DEF NsInv, NsTypeOK, TypeOK, ScanBatch, VersionsGiven
<1>3. h.last \in Nat \X Nat /\ h.snapshot \in Nat
  BY <1>2 DEF RelType
<1>4. /\ UNCHANGED <<vars, cursor, base>> /\ UNCHANGED faults
      /\ \/ rel' = [rel EXCEPT ![r] = Idle]
         \/ Valid(h) /\ b = {} /\ rel' = [rel EXCEPT ![r] = x]
         \/ Valid(h) /\ b # {} /\ rel' = [rel EXCEPT ![r] = y]
  BY <1>1 DEF ScanBatch, LockIsStillValid, Valid
<1>5. faults' \in 0..MaxFaults /\ UNCHANGED <<ver, idx, nslock, mod>>
  BY <1>4 DEF NsInv, NsTypeOK, vars
<1>6. /\ b \subseteq idx /\ IsFiniteSet(b)
      /\ b = {} => \A e \in idx : ~Before(h.last, Key(e))
      /\ b # {} => \A e \in idx : Before(h.last, Key(e)) =>
                        e \in b \/ Before(LastKey({Key(f) : f \in b}), Key(e))
  BY <1>1, <1>3 DEF ScanSound
<1>7. /\ x \in RelType /\ x.pc = "final" /\ x.nonce = h.nonce
      /\ x.snapshot = h.snapshot /\ x.rv = h.rv
  BY <1>1, <1>2 DEF RelType
<1>8. /\ y \in RelType /\ y.pc = "clear" /\ y.nonce = h.nonce /\ y.batch = b /\ y.rv = ver
      /\ y.snapshot = h.snapshot /\ y.last = h.last
  BY <1>1, <1>2, <1>6 DEF RelType
<1>9. h.nonce <= ver /\ h.snapshot <= ver /\ h.rv <= ver
  BY <1>2 DEF Knows
<1>10. ASSUME Valid(h)
       PROVE  /\ nslock.rolling = TRUE /\ nslock.snapshot = h.snapshot
              /\ \A e \in idx : h.snapshot < e.ver => Before(h.last, Key(e))
  BY <1>2, <1>10 DEF Knows, Begun
<1>11. CASE rel' = [rel EXCEPT ![r] = Idle]
  BY <1>4, <1>11, GivesUp
<1>12. CASE Valid(h) /\ b = {} /\ rel' = [rel EXCEPT ![r] = x]
  <2>1. Knows(x)'
    <3>1. x.nonce <= ver' /\ x.snapshot <= ver' /\ x.rv <= ver'
      BY <1>5, <1>7, <1>9
    <3>2. nslock'.rolling = TRUE /\ nslock'.snapshot = x.snapshot
      BY <1>5, <1>7, <1>10, <1>12
    <3>3. \A e \in idx' : e.ver <= x.snapshot
      <4>1. \A e \in idx : e.ver \in Nat /\ ~(h.snapshot < e.ver)
        BY <1>2, <1>6, <1>10, <1>12, KeyOfEntry
      <4> QED
        BY SMTT(30), <1>3, <1>5, <1>7, <4>1
    <3> QED
      BY <1>7, <3>1, <3>2, <3>3 DEF Knows
  <2> QED
    BY <1>4, <1>5, <1>7, <1>12, <2>1, HandlerMoves
<1>13. CASE Valid(h) /\ b # {} /\ rel' = [rel EXCEPT ![r] = y]
  <2>1. Knows(y)'
    <3>1. y.nonce <= ver' /\ y.snapshot <= ver' /\ y.rv <= ver'
      BY SMTT(30), <1>2, <1>5, <1>8, <1>9
    <3>2. nslock'.rolling = TRUE /\ nslock'.snapshot = y.snapshot
      BY <1>5, <1>8, <1>10, <1>13
    <3>3. \A e \in idx' : y.snapshot < e.ver => Before(y.last, Key(e))
      BY <1>5, <1>8, <1>10, <1>13
    <3>4. \A e \in idx' : Before(y.last, Key(e)) => e \in y.batch \/ Before(BatchEnd(y), Key(e))
      BY <1>5, <1>6, <1>8, <1>13 DEF BatchEnd
    <3>5. Valid(y)'
      BY <1>5, <1>8, <1>13 DEF Valid
    <3>6. y.batch # {} /\ IsFiniteSet(y.batch)
      BY <1>6, <1>8, <1>13
    <3> QED
      BY <1>8, <3>1, <3>2, <3>3, <3>4, <3>5, <3>6 DEF Knows
  <2> QED
    BY <1>4, <1>5, <1>8, <1>13, <2>1, HandlerMoves
<1> QED
  BY <1>4, <1>11, <1>12, <1>13

\* The last look at the lock.
LEMMA CheckFinalStep ==
    ASSUME NsInv, NEW r \in Handler, CheckFinal(r)
    PROVE  NsInv'
<1>1. PICK h, x : h = rel[r] /\ x = [h EXCEPT !.pc = "unlock", !.rv = ver]
  OBVIOUS
<1>2. h \in RelType /\ h.pc = "final" /\ Knows(h) /\ ver \in Nat
  BY <1>1 DEF NsInv, NsTypeOK, TypeOK, CheckFinal
<1>3. /\ UNCHANGED <<vars, cursor, base>> /\ UNCHANGED faults
      /\ \/ rel' = [rel EXCEPT ![r] = Idle]
         \/ Valid(h) /\ rel' = [rel EXCEPT ![r] = x]
  BY <1>1 DEF CheckFinal, LockIsStillValid, Valid
<1>4. faults' \in 0..MaxFaults /\ UNCHANGED <<ver, idx, nslock, mod>>
  BY <1>3 DEF NsInv, NsTypeOK, vars
<1>5. /\ x \in RelType /\ x.pc = "unlock" /\ x.nonce = h.nonce
      /\ x.snapshot = h.snapshot /\ x.rv = ver
  BY <1>1, <1>2 DEF RelType
<1>6. CASE rel' = [rel EXCEPT ![r] = Idle]
  BY <1>3, <1>6, GivesUp
<1>7. CASE Valid(h) /\ rel' = [rel EXCEPT ![r] = x]
  <2>1. Knows(x)'
    <3>1. h.nonce <= ver /\ h.snapshot <= ver
      BY <1>2 DEF Knows
    <3>2. x.nonce <= ver' /\ x.snapshot <= ver' /\ x.rv <= ver'
      BY SMTT(30), <1>2, <1>4, <1>5, <3>1
    <3>3. nslock'.rolling = TRUE /\ nslock'.snapshot = x.snapshot
      BY <1>2, <1>4, <1>5, <1>7 DEF Knows, Begun
    <3>4. \A e \in idx' : e.ver <= x.snapshot
      BY <1>2, <1>4, <1>5, <1>7 DEF Knows
    <3>5. Valid(x)'
      BY <1>4, <1>5, <1>7 DEF Valid
    <3> QED
      BY <1>5, <3>2, <3>3, <3>4, <3>5 DEF Knows
  <2> QED
    BY <1>3, <1>4, <1>5, <1>7, <2>1, HandlerMoves
<1> QED
  BY <1>3, <1>6, <1>7

\* A transaction of a rollback that conflicts is begun again.
LEMMA TryAgainStep ==
    ASSUME NsInv, NEW r \in Handler,
           \/ rel[r].pc = "clear" /\ TryAgain(r, "scan")
           \/ rel[r].pc = "unlock" /\ TryAgain(r, "final")
    PROVE  NsInv'
<1>0. PICK q \in {"scan", "final"} :
          /\ TryAgain(r, q)
          /\ q = "scan" => rel[r].pc = "clear"
          /\ q = "final" => rel[r].pc = "unlock"
  OBVIOUS
<1>1. PICK h, x : h = rel[r] /\ x = [h EXCEPT !.pc = q]
  OBVIOUS
<1>2. /\ h \in RelType /\ Knows(h) /\ ver \in Nat
      /\ q = "scan" => h.pc = "clear"
      /\ q = "final" => h.pc = "unlock"
  BY <1>0, <1>1 DEF NsInv, NsTypeOK, TypeOK
<1>3. rel' = [rel EXCEPT ![r] = x] /\ UNCHANGED <<vars, cursor, base>> /\ UNCHANGED faults
  BY <1>0, <1>1 DEF TryAgain
<1>4. faults' \in 0..MaxFaults /\ UNCHANGED <<ver, idx, nslock, mod>>
  BY <1>3 DEF NsInv, NsTypeOK, vars
<1>5. /\ x \in RelType /\ x.pc = q /\ x.nonce = h.nonce /\ x.last = h.last
      /\ x.snapshot = h.snapshot /\ x.rv = h.rv
  BY <1>1, <1>2 DEF RelType
<1>6. Knows(x)'
  <2>1. x.nonce <= ver' /\ x.snapshot <= ver' /\ x.rv <= ver'
    BY <1>2, <1>4, <1>5 DEF Knows
  <2>2. Valid(x)' => Valid(h)
    BY <1>4, <1>5 DEF Valid
  <2>3. Valid(x)' => nslock'.rolling = TRUE /\ nslock'.snapshot = x.snapshot
    BY <1>2, <1>4, <1>5, <2>2 DEF Knows, Begun
  <2>4. q = "scan" /\ Valid(x)' => \A e \in idx' : x.snapshot < e.ver => Before(x.last, Key(e))
    BY <1>2, <1>4, <1>5, <2>2 DEF Knows
  <2>5. q = "final" /\ Valid(x)' => \A e \in idx' : e.ver <= x.snapshot
    BY <1>2, <1>4, <1>5, <2>2 DEF Knows
  <2>6. x.pc \notin {"clear", "unlock"} /\ x.pc # "clear"
    BY <1>5
  <2> QED
    BY <1>5, <2>1, <2>3, <2>4, <2>5, <2>6 DEF Knows
<1> QED
  BY <1>3, <1>4, <1>5, <1>6, HandlerMoves

\* A transaction that does not conflict commits under the lock the request
\* began with, which is being rolled back (nslock.rs 190-195, 224-243).
LEMMA NoConflict ==
    ASSUME NsInv, NEW r \in Handler, NEW h, h = rel[r], h.pc \in {"clear", "unlock"}, ~Conflicts(r)
    PROVE  Valid(h) /\ nslock.rolling = TRUE /\ nslock.snapshot = h.snapshot
<1>1. h \in RelType /\ Knows(h) /\ mod.nsmd \in Nat
  BY DEF NsInv, NsTypeOK, TypeOK, ModType
<1>2. h.rv \in Nat
  BY <1>1 DEF RelType
<1>3. mod.nsmd <= h.rv
  BY SMTT(30), <1>1, <1>2 DEF Conflicts
<1>4. Valid(h)
  BY <1>1, <1>3 DEF Knows
<1> QED
  BY <1>1, <1>4 DEF Knows, Begun

\* What a batch commits.
LEMMA BatchEffect ==
    ASSUME NsInv, NEW r \in Handler, NEW h, h = rel[r], CommitBatch(r), ~TryAgain(r, "scan")
    PROVE  /\ \/ UNCHANGED <<ver, idx, mod, cursor>> /\ ToClear(r) = {}
              \/ /\ ver' = ver + 1 /\ idx' = idx \ ToClear(r) /\ ~Conflicts(r)
                 /\ \E P : mod' = WriteConflicts(P, {}, {}, ver + 1)
                 /\ cursor' = cursor \/ cursor' = BatchEnd(h)[1]
           /\ CommitAnswered(r, [h EXCEPT !.pc = "scan", !.rv = 0, !.batch = {},
                                          !.cursor = BatchEnd(h)[1], !.last = BatchEnd(h)],
                                [h EXCEPT !.pc = "scan", !.rv = 0, !.batch = {}])
           /\ UNCHANGED <<content, ci, lwv, clog, nslock, tx, att, applied, base>>
<1> DEFINE last == LastKey({Key(e) : e \in h.batch})
           next == [h EXCEPT !.pc = "scan", !.rv = 0, !.batch = {}]
           x == [h EXCEPT !.pc = "scan", !.rv = 0, !.batch = {}, !.cursor = last[1], !.last = last]
           moved == last[1] > h.cursor
<1>1. h \in RelType
  BY DEF NsInv, NsTypeOK
<1>2. [next EXCEPT !.cursor = last[1], !.last = last] = x
  <2> HIDE DEF last
  <2> QED
    BY <1>1 DEF RelType
<1>3. /\ IF ToClear(r) = {} /\ ~moved THEN UNCHANGED <<ver, idx, mod, cursor>>
         ELSE /\ ~Conflicts(r)
              /\ ver' = ver + 1
              /\ idx' = idx \ ToClear(r)
              /\ mod' = WriteConflicts({e.page : e \in ToClear(r)}, {}, {}, ver + 1)
              /\ cursor' = IF moved /\ last[1] > cursor THEN last[1] ELSE cursor
      /\ CommitAnswered(r, [next EXCEPT !.cursor = last[1], !.last = last], next)
      /\ UNCHANGED <<content, ci, lwv, clog, nslock, tx, att, applied, base>>
  BY DEF CommitBatch
<1>4. CommitAnswered(r, x, next)
  BY <1>2, <1>3
<1>5. BatchEnd(h) = last
  BY DEF BatchEnd
<1> HIDE DEF last
<1>6. \/ UNCHANGED <<ver, idx, mod, cursor>> /\ ToClear(r) = {}
      \/ /\ ver' = ver + 1 /\ idx' = idx \ ToClear(r) /\ ~Conflicts(r)
         /\ \E P : mod' = WriteConflicts(P, {}, {}, ver + 1)
         /\ cursor' = cursor \/ cursor' = last[1]
  BY <1>3
<1> QED
  BY <1>3, <1>4, <1>5, <1>6

\* Versions stay given while only the version moves on and pages and changelog
\* entries are deleted.
LEMMA GivenFrame ==
    ASSUME TypeOK, VersionsGiven, ver' \in Nat, ver <= ver', idx' \subseteq idx,
           IsFiniteSet(idx'), clog' \subseteq clog, UNCHANGED <<lwv, nslock, tx, applied>>
    PROVE  VersionsGiven'
<1>2. /\ ver \in Nat
      /\ \A e \in idx : e.ver \in Nat
      /\ \A e \in clog : e.ver \in Nat
      /\ \A t \in Tx : applied[t] \subseteq Nat /\ Assumed(t) \in Nat
      /\ lwv.ver \in Nat /\ nslock.snapshot \in Nat /\ nslock.nonce \in Nat
  BY DEF TypeOK, IndexEntry, LogEntry, Assumed, TxType, LockType
<1>3. \A e \in idx' : 0 < e.ver /\ e.ver <= ver'
  BY SMTT(30), <1>2 DEF VersionsGiven
<1>4. /\ \A e \in clog' : e.ver <= ver'
      /\ lwv'.ver <= ver' /\ nslock'.snapshot <= ver' /\ nslock'.nonce <= ver'
  BY SMTT(30), <1>2 DEF VersionsGiven
<1>5. \A t \in Tx : \A d \in applied'[t] : d <= ver'
  BY SMTT(30), <1>2 DEF VersionsGiven
<1>6. \A t \in Tx : tx'[t].st # "new" => Assumed(t)' <= ver'
  BY SMTT(30), <1>2 DEF VersionsGiven, Assumed
<1> QED
  BY <1>3, <1>4, <1>5, <1>6 DEF VersionsGiven

\* A batch is deleted: what is left to delete comes after it.
LEMMA CommitBatchStep ==
    ASSUME NsInv, NEW r \in Handler, CommitBatch(r), IsFiniteSet(idx'),
           BatchEnd(rel[r]) \in Nat \X Nat
    PROVE  NsInv'
<1>0. rel[r].pc = "clear"
  BY DEF CommitBatch
<1>1. CASE TryAgain(r, "scan")
  BY <1>0, <1>1, TryAgainStep
<1>2. CASE ~TryAgain(r, "scan")
  <2>1. PICK h, last, dels, x, y :
          /\ h = rel[r] /\ last = BatchEnd(h) /\ dels = ToClear(r)
          /\ y = [h EXCEPT !.pc = "scan", !.rv = 0, !.batch = {}]
          /\ x = [h EXCEPT !.pc = "scan", !.rv = 0, !.batch = {}, !.cursor = last[1], !.last = last]
    OBVIOUS
  <2>2. /\ NsTypeOK /\ TypeOK /\ ver \in Nat /\ rel \in [Handler -> RelType] /\ h \in RelType
        /\ Knows(h) /\ h.pc = "clear"
        /\ cursor \in Nat /\ idx \subseteq IndexEntry /\ VersionsGiven
    BY <1>0, <2>1 DEF NsInv, NsTypeOK, TypeOK
  <2>3. /\ \/ UNCHANGED <<ver, idx, mod, cursor>> /\ dels = {}
           \/ /\ ver' = ver + 1 /\ idx' = idx \ dels /\ ~Conflicts(r)
              /\ \E P : mod' = WriteConflicts(P, {}, {}, ver + 1)
              /\ cursor' = cursor \/ cursor' = last[1]
        /\ CommitAnswered(r, x, y)
        /\ UNCHANGED <<content, ci, lwv, clog, nslock, tx, att, applied, base>>
    BY <1>2, <2>1, BatchEffect
  <2>4. last \in Nat \X Nat /\ last[1] \in Nat
    <3>1. last \in Nat \X Nat
      BY <2>1
    <3> QED
      BY <3>1
  <2>5. Valid(h) => \A e \in idx \ dels : h.snapshot < e.ver => Before(last, Key(e))
    <3>1. \A e \in h.batch : h.snapshot < e.ver => e \in dels
      BY <2>1 DEF ToClear
    <3> QED
      BY <2>1, <2>2, <3>1 DEF Knows
  <2>6. /\ x \in RelType /\ x.pc = "scan" /\ x.nonce = h.nonce
        /\ x.snapshot = h.snapshot /\ x.rv = 0 /\ x.last = last
    BY <2>1, <2>2, <2>4 DEF RelType
  <2>7. /\ y \in RelType /\ y.pc = "scan" /\ y.nonce = h.nonce
        /\ y.snapshot = h.snapshot /\ y.rv = 0 /\ y.last = h.last
    BY <2>1, <2>2 DEF RelType
  <2>8. /\ rel' \in [Handler -> RelType] /\ faults' \in 0..MaxFaults
        /\ rel'[r] = x \/ rel'[r] = y
        /\ \A s \in Handler \ {r} : rel'[s] = rel[s]
    BY <2>2, <2>3, <2>6, <2>7, Answered
  <2>9. /\ ver' \in Nat /\ ver <= ver' /\ mod' \in ModType /\ mod'.nsmd = mod.nsmd
        /\ idx' \subseteq idx /\ idx \ dels = idx'
    <3>1. CASE UNCHANGED <<ver, idx, mod, cursor>> /\ dels = {}
      BY SMTT(30), <2>2, <3>1 DEF TypeOK
    <3>2. CASE /\ ver' = ver + 1 /\ idx' = idx \ dels
               /\ \E P : mod' = WriteConflicts(P, {}, {}, ver + 1)
      <4>1. PICK P : mod' = WriteConflicts(P, {}, {}, ver + 1)
        BY <3>2
      <4>2. ver + 1 \in Nat /\ ver <= ver + 1
        BY SMTT(30), <2>2
      <4>3. mod' \in ModType
        BY <2>2, <4>1, <4>2, WriteConflictsType
      <4>4. mod'.nsmd = mod.nsmd
        BY <4>1 DEF WriteConflicts
      <4> QED
        BY <3>2, <4>2, <4>3, <4>4
    <3> QED
      BY <2>3, <3>1, <3>2
  <2>10. NsTypeOK'
    <3>1. cursor' \in Nat
      BY <2>2, <2>3, <2>4
    <3>2. TypeOK'
      BY <2>2, <2>3, <2>9 DEF TypeOK
    <3> QED
      BY <2>2, <2>3, <2>8, <3>1, <3>2 DEF NsTypeOK
  <2>11. VersionsGiven'
    BY <2>2, <2>3, <2>9, GivenFrame
  <2>12. ASSUME NEW t \in Tx, NEW k \in Attempt PROVE LetIn(att[t][k], tx[t].plan.owner)'
    <3>1. PICK a, o : a = att[t][k] /\ o = tx[t].plan.owner
      OBVIOUS
    <3>2. a \in AttemptType /\ LetIn(a, o) /\ att'[t][k] = a /\ tx'[t].plan.owner = o
      BY <2>2, <2>3, <3>1 DEF NsInv, TypeOK
    <3>3. LetIn(a, o)'
      BY <2>2, <2>3, <2>9, <3>2, LetInFrame
    <3> QED
      BY <3>2, <3>3, LetInNext
  <2>13. RollingIsHeld' /\ NothingNewerThanLwv'
    BY <2>3, <2>9 DEF NsInv, RollingIsHeld, NothingNewerThanLwv
  <2>14. CursorKnows'
    <3> SUFFICES ASSUME nslock.rolling = TRUE, NEW e \in idx', nslock.snapshot < e.ver
                 PROVE  cursor' <= e.page
      BY <2>3 DEF CursorKnows
    <3>1. CASE cursor' = cursor
      BY <2>9, <3>1 DEF NsInv, CursorKnows
    <3>2. CASE cursor' = last[1] /\ ~Conflicts(r)
      <4>1. Valid(h) /\ nslock.snapshot = h.snapshot
        BY <2>1, <2>2, <3>2, NoConflict
      <4>2. Before(last, Key(e))
        BY <2>5, <2>9, <4>1
      <4>3. Key(e)[1] = e.page /\ e.page \in Nat
        BY <2>2, <2>9, KeyOfEntry
      <4> QED
        BY SMTT(30), <2>4, <3>2, <4>2, <4>3 DEF Before
    <3> QED
      BY <2>3, <3>1, <3>2
  <2>15. \A s \in Handler : Knows(rel[s])'
    <3>1. \A g \in RelType : Knows(g) => Knows(g)'
      BY <2>2, <2>3, <2>9, KnowsFrame
    <3>2. ASSUME NEW z, z.pc = "scan", z.nonce = h.nonce, z.snapshot = h.snapshot, z.rv = 0,
                 z.last = last \/ z.last = h.last
          PROVE  Knows(z)'
      <4>1. h.nonce <= ver /\ h.snapshot <= ver /\ h.nonce \in Nat /\ h.snapshot \in Nat
        BY <2>2 DEF RelType, Knows
      <4>2. z.nonce <= ver' /\ z.snapshot <= ver' /\ z.rv <= ver'
        BY SMTT(30), <2>2, <2>9, <3>2, <4>1
      <4>3. Valid(z)' => Valid(h)
        BY <2>3, <3>2 DEF Valid
      <4>4. Valid(z)' => nslock'.rolling = TRUE /\ nslock'.snapshot = z.snapshot
        BY <2>2, <2>3, <3>2, <4>3 DEF Knows, Begun
      <4>5. Valid(h) => \A e \in idx : h.snapshot < e.ver => Before(h.last, Key(e))
        BY <2>2 DEF Knows
      <4>6. Valid(z)' => \A e \in idx' : z.snapshot < e.ver => Before(z.last, Key(e))
        BY <2>5, <2>9, <3>2, <4>3, <4>5
      <4> QED
        BY <3>2, <4>2, <4>4, <4>6 DEF Knows
    <3>3. Knows(x)' /\ Knows(y)'
      BY <2>6, <2>7, <3>2
    <3>4. Knows(rel[r])'
      BY <2>8, <3>3, KnowsNext
    <3> QED
      BY <2>8, <3>1, <3>4, AllKnow
  <2> QED
    BY <2>10, <2>11, <2>12, <2>13, <2>14, <2>15 DEF NsInv
<1> QED
  BY <1>1, <1>2

\* The end of a rollback: no version after the snapshot is left.
LEMMA CommitFinalStep ==
    ASSUME NsInv, NEW r \in Handler, CommitFinal(r)
    PROVE  NsInv'
<1>0. rel[r].pc = "unlock"
  BY DEF CommitFinal
<1>1. CASE Conflicts(r)
  <2>1. TryAgain(r, "final")
    BY <1>1 DEF CommitFinal
  <2> QED
    BY <1>0, <2>1, TryAgainStep
<1>2. CASE ~Conflicts(r)
  <2>1. PICK h, x, y : h = rel[r] /\ x = Idle /\ y = [h EXCEPT !.pc = "final", !.rv = 0]
    OBVIOUS
  <2>2. /\ NsTypeOK /\ TypeOK /\ ver \in Nat /\ h \in RelType /\ Knows(h) /\ h.pc = "unlock"
        /\ VersionsGiven
    BY <1>0, <2>1 DEF NsInv, NsTypeOK, TypeOK
  <2>3. /\ ver' = ver + 1 /\ lwv' = [key |-> NoTx, ver |-> h.snapshot]
        /\ clog' = KeptChangelog(r) /\ nslock' = NoLock
        /\ mod' = WriteConflicts({}, {}, {"lwv", "nsmd"}, ver + 1)
        /\ CommitAnswered(r, x, y)
        /\ UNCHANGED <<idx, content, ci, cursor, tx, att, applied, base>>
    BY <1>2, <2>1 DEF CommitFinal
  <2>4. /\ nslock' \in LockType /\ nslock'.nonce = 0 /\ nslock'.snapshot = 0
        /\ nslock'.rolling = FALSE /\ nslock'.owner = NoOwner
    BY <2>3 DEF LockType, NoLock
  <2>5. /\ y \in RelType /\ y.pc = "final" /\ y.nonce = h.nonce
        /\ y.snapshot = h.snapshot /\ y.rv = 0
    BY <2>1, <2>2 DEF RelType
  <2>6. x \in RelType /\ x.pc = "idle" /\ x.nonce = 0 /\ x.snapshot = 0 /\ x.rv = 0
    BY <2>1, IdleFields
  <2>7. /\ rel' \in [Handler -> RelType] /\ faults' \in 0..MaxFaults
        /\ rel'[r] = x \/ rel'[r] = y
        /\ \A s \in Handler \ {r} : rel'[s] = rel[s]
    BY <2>2, <2>3, <2>5, <2>6, Answered
  <2>8. h.nonce <= ver /\ h.snapshot <= ver /\ h.nonce \in Nat /\ h.snapshot \in Nat
    BY <2>2 DEF Knows, RelType
  <2>9. /\ lwv' \in [key : Tx \cup {NoTx}, ver : Nat] /\ lwv'.ver = h.snapshot
        /\ clog' \subseteq clog
    BY <2>3, <2>8 DEF KeptChangelog
  <2>10. /\ lwv'.ver <= ver + 1 /\ nslock'.nonce <= ver + 1 /\ nslock'.snapshot <= ver + 1
         /\ h.nonce <= ver' /\ h.snapshot <= ver' /\ 0 <= ver' /\ ver' \in Nat
    BY SMTT(30), <2>2, <2>3, <2>4, <2>8, <2>9
  <2>11. /\ TypeOK' /\ VersionsGiven'
         /\ \A t \in Tx, k \in Attempt : LetIn(att[t][k], tx[t].plan.owner)'
         /\ \A g \in RelType : Knows(g) /\ (g.pc \in Begun => ~Valid(g)') => Knows(g)'
    BY <2>3, <2>4, <2>9, <2>10, LockMoves
  <2>12. \A g : ~Valid(g)'
    BY <2>4 DEF Valid
  <2>13. \A s \in Handler : Knows(rel[s])'
    <3>1. Knows(x)'
      BY <2>6, <2>10, RestKnows
    <3>2. Knows(y)'
      <4>1. y.nonce <= ver' /\ y.snapshot <= ver' /\ y.rv <= ver'
        BY <2>5, <2>10
      <4> QED
        BY <2>5, <2>12, <4>1 DEF Knows
    <3>3. Knows(rel[r])'
      BY <2>7, <3>1, <3>2, KnowsNext
    <3>4. \A g \in RelType : Knows(g) => Knows(g)'
      BY <2>11, <2>12
    <3> QED
      BY <2>7, <3>3, <3>4, AllKnow
  <2>14. NsTypeOK'
    BY <2>2, <2>3, <2>7, <2>11 DEF NsTypeOK
  <2>15. NothingNewerThanLwv'
    <3>1. Valid(h)
      BY <1>2, <2>1, <2>2, NoConflict
    <3>2. \A e \in idx : e.ver <= h.snapshot
      BY <2>2, <3>1 DEF Knows
    <3> QED
      BY <2>3, <2>9, <3>2 DEF NothingNewerThanLwv
  <2>16. RollingIsHeld' /\ CursorKnows'
    BY <2>4 DEF RollingIsHeld, CursorKnows
  <2> QED
    BY <2>11, <2>13, <2>14, <2>15, <2>16 DEF NsInv
<1> QED
  BY <1>1, <1>2

-----------------------------------------------------------------------------
(* What clients rely on                                                    *)

\* A step of the lock keeps what clients rely on, if it deletes only what is
\* being rolled back and releases a rolled back lock only when nothing after
\* its snapshot is left.
LEMMA ClientFrame ==
    ASSUME TypeOK, ClientInv, IndexLogged', idx' \subseteq idx, clog' \subseteq clog,
           \A e \in idx \ idx' : nslock.rolling = TRUE /\ nslock.snapshot < e.ver,
           \A v \in Nat : Safe(v)' => \/ Safe(v)
                                      \/ ~KnownVersion(v)' /\ \A e \in idx' : e.ver # v,
           UNCHANGED <<tx, applied, base>>
    PROVE  ClientInv'
<1>0. /\ \A t \in Tx : applied[t] \subseteq Nat /\ Assumed(t) \in Nat
      /\ idx \subseteq IndexEntry /\ nslock.snapshot \in Nat
      /\ \A t \in Tx : Assumed(t)' = Assumed(t) /\ Written(t)' = Written(t)
      /\ \A t, p, c : EntryOf(t, p, c)' = EntryOf(t, p, c) /\ EntryOf(t, p, c).ver = c
  BY DEF TypeOK, TxType, LockType, Assumed, Written, EntryOf, HashOf
<1>1. ASSUME NEW v \in Nat, Safe(v), NEW e, e.ver <= v PROVE e \in idx' <=> e \in idx
  <2>1. e \in idx /\ e \notin idx' => FALSE
    <3>1. e \in idx /\ e \notin idx' => nslock.rolling = TRUE /\ nslock.snapshot < e.ver /\ e.ver \in Nat
      BY <1>0, KeyOfEntry
    <3>2. nslock.rolling = TRUE => v <= nslock.snapshot
      BY <1>1 DEF Safe
    <3> QED
      BY SMTT(30), <1>0, <1>1, <3>1, <3>2
  <2> QED
    BY <2>1
<1>2. ASSUME NEW t \in Tx, NEW c \in applied'[t], Safe(c)' PROVE Whole(t, c)'
  <2>0. c \in applied[t] /\ c \in Nat /\ c <= c
    BY SMTT(30), <1>0
  <2>1. CASE Safe(c)
    <3>1. Whole(t, c)
      BY <2>0, <2>1 DEF ClientInv
    <3>2. \A p : EntryOf(t, p, c) \in idx' <=> EntryOf(t, p, c) \in idx
      BY SMTT(30), <1>0, <1>1, <2>0, <2>1
    <3> QED
      BY <1>0, <3>1, <3>2 DEF Whole
  <2>2. CASE \A e \in idx' : e.ver # c
    <3>1. \A p \in Written(t) : EntryOf(t, p, c) \notin idx'
      BY SMTT(30), <1>0, <2>2
    <3> QED
      BY <1>0, <3>1 DEF Whole
  <2> QED
    BY <1>2, <2>0, <2>1, <2>2
<1>3. ASSUME NEW t \in Tx, tx'[t].st # "new", KnownVersion(Assumed(t))', Safe(Assumed(t))'
      PROVE  View(Assumed(t))' = base'[t]
  <2>0. PICK a : a = Assumed(t)
    OBVIOUS
  <2>1. a \in Nat /\ Assumed(t)' = a /\ tx[t].st # "new"
    BY <1>0, <1>3, <2>0
  <2>2. KnownVersion(a)'
    BY <1>3, <2>1 DEF KnownVersion
  <2>3. Safe(a)'
    BY <1>3, <2>1 DEF Safe
  <2>4. Safe(a) /\ KnownVersion(a)
    <3>1. Safe(a)
      BY <2>1, <2>2, <2>3
    <3> QED
      BY <2>2, <3>1 DEF KnownVersion
  <2>5. View(a) = base[t]
    BY <2>0, <2>1, <2>4 DEF ClientInv
  <2>6. View(Assumed(t))' = ViewOf(idx', a) /\ View(a) = ViewOf(idx, a)
    <3>1. View(Assumed(t))' = ViewOf(idx', Assumed(t)')
      BY DEF View, ViewOf, Older, Latest
    <3> QED
      BY <2>1, <3>1, ViewIsViewOf
  <2>7. \A e : e \in idx' /\ e.ver <= a <=> e \in idx /\ e.ver <= a
    BY <1>1, <2>1, <2>4
  <2>8. ViewOf(idx', a) = ViewOf(idx, a)
    BY <2>7, SameView
  <2> QED
    BY <2>5, <2>6, <2>8
<1> QED
  BY <1>2, <1>3 DEF ClientInv

\* Requests for the lock keep what clients rely on (nslock.rs).
LEMMA ClientLockStep ==
    ASSUME NsInv, ClientInv, ~MixModes,
           \/ \E o \in Owner : AcquireNslock(o) \/ ReleaseCommit(o)
           \/ \E r \in Handler : Release(r) \/ Crash(r)
           \/ UNCHANGED nsVars
    PROVE  ClientInv'
<1>0. TypeOK /\ IndexLogged /\ nslock.rolling \in BOOLEAN
  BY DEF NsInv, NsTypeOK, ClientInv, TypeOK, LockType
<1>1. ASSUME UNCHANGED <<idx, clog, tx, applied, base>>, nslock.rolling = FALSE \/ nslock' = nslock
      PROVE  ClientInv'
  <2>1. IndexLogged'
    BY <1>0, <1>1 DEF IndexLogged
  <2>2. \A v \in Nat : Safe(v)' => Safe(v)
    BY <1>1 DEF Safe
  <2> QED
    BY <1>0, <1>1, <2>1, <2>2, ClientFrame
<1>2. ASSUME NEW o \in Owner, AcquireNslock(o) \/ ReleaseCommit(o) PROVE ClientInv'
  <2>1. UNCHANGED <<idx, clog, tx, applied, base>>
    BY <1>2 DEF AcquireNslock, ReleaseCommit
  <2>2. nslock.rolling = FALSE
    BY <1>0, <1>2 DEF AcquireNslock, ReleaseCommit, NsInv, RollingIsHeld
  <2> QED
    BY <1>1, <2>1, <2>2
<1>3. ASSUME NEW r \in Handler, NEW o \in Owner, BeginRollback(r, o) PROVE ClientInv'
  <2>1. UNCHANGED <<idx, clog, tx, applied, base>> /\ nslock.rolling = FALSE
    BY <1>0, <1>3 DEF BeginRollback
  <2> QED
    BY <1>1, <2>1
<1>4. ASSUME UNCHANGED <<vars, base>> PROVE ClientInv'
  BY <1>1, <1>4 DEF vars
<1>5. ASSUME NEW r \in Handler, CommitBatch(r), ~TryAgain(r, "scan") PROVE ClientInv'
  <2>0. PICK h : h = rel[r]
    OBVIOUS
  <2>1. /\ idx' = idx \/ (idx' = idx \ ToClear(r) /\ ~Conflicts(r))
        /\ UNCHANGED <<clog, nslock, tx, applied, base>>
    BY <1>5, <2>0, BatchEffect
  <2>2. h.pc = "clear" /\ h \in RelType
    BY <1>5, <2>0 DEF CommitBatch, NsInv, NsTypeOK
  <2>3. idx' \subseteq idx /\ \A e \in idx \ idx' : nslock.rolling = TRUE /\ nslock.snapshot < e.ver
    <3>1. CASE idx' = idx
      BY <3>1
    <3>2. CASE idx' = idx \ ToClear(r) /\ ~Conflicts(r)
      <4>1. nslock.rolling = TRUE /\ nslock.snapshot = h.snapshot
        BY <2>0, <2>2, <3>2, NoConflict
      <4>2. \A e \in ToClear(r) : h.snapshot < e.ver
        <5>1. h.snapshot \in Nat /\ \A e \in h.batch : e.ver \in Nat
          BY <2>2, KeyOfEntry DEF RelType
        <5> QED
          BY <2>0, <5>1 DEF ToClear
      <4> QED
        BY <3>2, <4>1, <4>2
    <3> QED
      BY <2>1, <3>1, <3>2
  <2>4. IndexLogged'
    BY <1>0, <2>1, <2>3 DEF IndexLogged
  <2>5. \A v \in Nat : Safe(v)' => Safe(v)
    BY <2>1 DEF Safe
  <2> QED
    BY <1>0, <2>1, <2>3, <2>4, <2>5, ClientFrame
<1>6. ASSUME NEW r \in Handler, CommitFinal(r), ~Conflicts(r) PROVE ClientInv'
  <2>0. PICK h : h = rel[r]
    OBVIOUS
  <2>1. clog' = KeptChangelog(r) /\ UNCHANGED <<idx, tx, applied, base>> /\ h.pc = "unlock"
    BY <1>6, <2>0 DEF CommitFinal
  <2>2. Valid(h) /\ nslock.rolling = TRUE /\ nslock.snapshot = h.snapshot /\ Knows(h)
    BY <1>6, <2>0, <2>1, NoConflict DEF NsInv
  <2>3. /\ \A e \in idx : e.ver <= nslock.snapshot
        /\ clog' = {e \in clog : e.ver <= nslock.snapshot}
    <3>1. \A e \in idx : e.ver <= h.snapshot
      BY <2>1, <2>2 DEF Knows
    <3> QED
      BY <2>0, <2>1, <2>2, <3>1 DEF KeptChangelog
  <2>4. IndexLogged'
    <3> SUFFICES ASSUME NEW e \in idx
                 PROVE  \E g \in clog' : g.ver = e.ver /\ (g.infinite = TRUE \/ e.page \in g.pages)
      BY <2>1 DEF IndexLogged
    <3>1. PICK g \in clog : g.ver = e.ver /\ (g.infinite = TRUE \/ e.page \in g.pages)
      BY <1>0 DEF IndexLogged
    <3>2. g \in clog'
      BY <2>3, <3>1
    <3> QED
      BY <3>1, <3>2
  <2>5. ASSUME NEW v \in Nat, ~Safe(v) PROVE ~KnownVersion(v)' /\ \A e \in idx' : e.ver # v
    <3>1. nslock.snapshot \in Nat /\ nslock.snapshot < v
      BY SMTT(30), <1>0, <2>5 DEF Safe, TypeOK, LockType
    <3>2. \A e \in clog' : e.ver # v
      BY SMTT(30), <2>3, <3>1
    <3>3. v # 0
      BY SMTT(30), <3>1
    <3>4. \A e \in idx' : e.ver # v
      BY SMTT(30), <2>1, <2>3, <3>1
    <3> QED
      BY <3>2, <3>3, <3>4 DEF KnownVersion
  <2>6. clog' \subseteq clog /\ idx' \subseteq idx /\ idx \ idx' = {}
    BY <2>1, <2>3
  <2> QED
    BY <1>0, <2>1, <2>4, <2>5, <2>6, ClientFrame
<1>7. ASSUME NEW r \in Handler, Release(r) \/ Crash(r) PROVE ClientInv'
  <2>1. CASE \E o \in Owner : BeginRollback(r, o)
    BY <1>3, <2>1
  <2>2. CASE \E o \in Owner : RetryBegin(r, o) \/ SpinRollback(r, o)
    BY <1>4, <2>2 DEF RetryBegin, SpinRollback
  <2>3. CASE EndSpin(r) \/ RefuseRelease(r) \/ ReadCursor(r) \/ ScanBatch(r) \/ CheckFinal(r) \/ Crash(r)
    BY <1>4, <2>3 DEF EndSpin, RefuseRelease, ReadCursor, ScanBatch, CheckFinal, Crash
  <2>4. CASE CommitBatch(r)
    BY <1>4, <1>5, <2>4 DEF TryAgain
  <2>5. CASE CommitFinal(r)
    <3>1. Conflicts(r) => TryAgain(r, "final")
      BY <2>5 DEF CommitFinal
    <3> QED
      BY <1>4, <1>6, <2>5, <3>1 DEF TryAgain
  <2> QED
    BY <1>7, <2>1, <2>2, <2>3, <2>4, <2>5 DEF Release
<1>8. CASE UNCHANGED nsVars
  BY <1>4, <1>8 DEF nsVars
<1> QED
  BY <1>2, <1>7, <1>8
=============================================================================
