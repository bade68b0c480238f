------------------------------- MODULE NsLock -------------------------------
(***************************************************************************)
(* The namespace lock (mvstore/src/nslock.rs) beside the commit path.  An  *)
(* owner locks a namespace at a snapshot version and works on it alone;    *)
(* releasing the lock keeps what was written (commit) or deletes every     *)
(* page version after the snapshot (rollback), batch by batch, in several  *)
(* FoundationDB transactions.                                              *)
(***************************************************************************)
EXTENDS Commit, KeyRange

CONSTANTS
    Handler,                 \* release requests the server may be running
    RollbackScanBatchSize,   \* NSLOCK_ROLLBACK_SCAN_BATCH_SIZE
    ExplicitVersion,         \* acquire may name a version to go back to
    MixModes,                \* a commit-mode release may arrive during a rollback
    MaxFaults,               \* crashes and unknown commit results (bound)
    NoHash

VARIABLES
    cursor,   \* the rollback cursor of the namespace
    rel,      \* the state of each release request
    faults,   \* faults so far
    base      \* history: the pages a transaction saw when it started

lockVars == <<cursor, rel, faults>>
nsVars == <<vars, lockVars, base>>

\* Page indexes are 32-bit numbers, from 1 on.
ASSUME LockAssumption == /\ Page \subseteq Nat \ {0} /\ IsFiniteSet(Page)
                         /\ RollbackScanBatchSize \in Nat \ {0}
                         /\ MaxFaults \in Nat
                         /\ NoHash \notin Hash

RelType == [pc : {"idle", "begin", "spin", "cursor", "scan", "clear", "final", "unlock"},
            owner : Owner \cup {NoOwner}, nonce : Nat, snapshot : Nat, cursor : Nat,
            last : Nat \X Nat, rv : Nat, batch : SUBSET IndexEntry]
Idle == [pc |-> "idle", owner |-> NoOwner, nonce |-> 0, snapshot |-> 0, cursor |-> 0,
         last |-> <<0, 0>>, rv |-> 0, batch |-> {}]

\* The types of the lock's state; the rest is typed by Commit.
NsTypeOK ==
    /\ TypeOK
    /\ cursor \in Nat
    /\ rel \in [Handler -> RelType]
    /\ faults \in 0..MaxFaults
    /\ base \in [Tx -> [Page -> Hash \cup {NoHash}]]

-----------------------------------------------------------------------------
\* delta/reader.rs 36-106: the page at a version is its latest entry up to it.
View(v) ==
    [p \in Page |->
        LET older == {e \in idx : e.page = p /\ e.ver <= v}
        IN  IF older = {} THEN NoHash
            ELSE (CHOOSE e \in older : \A f \in older : f.ver <= e.ver).hash]

\* The key of an entry of the page index.
Key(e) == <<e.page, e.ver>>
PageKeys == {Key(e) : e \in idx}
EntriesAt(keys) == {e \in idx : Key(e) \in keys}

\* Mutant: a round starts at the page after the last one.
BatchNextPage(last) ==
    LET rest == {k \in PageKeys : last[1] < k[1] \/ (last[2] = 0 /\ last[1] = k[1])}
    IN  EntriesAt(NextKeys(rest, <<0, 0>>, RollbackScanBatchSize))

\* Mutant: a round starts at the last key again.
BatchSameKey(last) ==
    LET rest == {k \in PageKeys : ~Before(k, last)}
    IN  EntriesAt(NextKeys(rest, <<0, 0>>, RollbackScanBatchSize))

\* nslock.rs 198-209: the next entries of the page index after the cursor.
Batch(last) == EntriesAt(NextKeys(PageKeys, last, RollbackScanBatchSize))

\* Mutant: any lock of the same owner will do.
LockIsStillValidByOwner(r) == nslock.owner = rel[r].owner

\* nslock.rs 289-303
LockIsStillValid(r) == nslock.owner # NoOwner /\ nslock.nonce = rel[r].nonce

NsInit ==
    /\ Init
    /\ cursor = 0
    /\ rel = [r \in Handler |-> Idle]
    /\ faults = 0
    /\ base = [t \in Tx |-> [p \in Page |-> NoHash]]

-----------------------------------------------------------------------------
\* nslock.rs 35-91: one FoundationDB transaction, repeated until it commits.
\* The snapshot is the last write version, or the version the request names.
\* The random nonce is represented by the version, which is unique as well.
AcquireNslock(o) ==
    /\ nslock.owner = NoOwner
    /\ ver < MaxVersion
    /\ \E v \in IF ExplicitVersion THEN 0..lwv.ver ELSE {lwv.ver} :
         nslock' = [owner |-> o, snapshot |-> v, rolling |-> FALSE, nonce |-> ver + 1]
    /\ ver' = ver + 1
    /\ mod' = WriteConflicts({}, {}, {"nsmd"}, ver + 1)
    /\ UNCHANGED <<idx, content, ci, lwv, clog, tx, att, applied, lockVars, base>>

\* nslock.rs 113-147: commit mode only deletes the lock, also during a rollback.
ReleaseCommit(o) ==
    /\ nslock.owner = o
    /\ nslock.rolling => MixModes
    /\ ver < MaxVersion
    /\ nslock' = NoLock
    /\ ver' = ver + 1
    /\ mod' = WriteConflicts({}, {}, {"nsmd"}, ver + 1)
    /\ UNCHANGED <<idx, content, ci, lwv, clog, tx, att, applied, lockVars, base>>

\* The commit of handler r is answered: it goes on as new, or, when the result
\* is unknown, as old.
CommitAnswered(r, new, old) ==
    \/ rel' = [rel EXCEPT ![r] = new] /\ UNCHANGED faults
    \/ rel' = [rel EXCEPT ![r] = old] /\ faults < MaxFaults /\ faults' = faults + 1

\* nslock.rs 113-131, 149-170: a rollback request marks the lock.  When the
\* result of that commit is unknown the loop starts over.
BeginRollback(r, o) ==
    /\ \/ rel[r].pc = "idle"
       \/ rel[r].pc = "begin" /\ rel[r].owner = o
    /\ nslock.owner = o
    /\ ~nslock.rolling
    /\ ver < MaxVersion
    /\ nslock' = [nslock EXCEPT !.rolling = TRUE]
    /\ cursor' = 0
    /\ ver' = ver + 1
    /\ mod' = WriteConflicts({}, {}, {"nsmd"}, ver + 1)
    /\ CommitAnswered(r, [Idle EXCEPT !.pc = "cursor", !.owner = o, !.nonce = nslock.nonce,
                                      !.snapshot = nslock.snapshot],
                         [Idle EXCEPT !.pc = "begin", !.owner = o])
    /\ UNCHANGED <<idx, content, ci, lwv, clog, tx, att, applied, base>>

\* nslock.rs 166-169: the transaction that should mark the lock fails, and the
\* loop starts over.
RetryBegin(r, o) ==
    /\ rel[r].pc = "idle"
    /\ nslock.owner = o
    /\ ~nslock.rolling
    /\ rel' = [rel EXCEPT ![r] = [Idle EXCEPT !.pc = "begin", !.owner = o]]
    /\ UNCHANGED <<vars, cursor, faults, base>>

\* nslock.rs 113-151, 171-174: the lock is marked already.  The loop goes round
\* with the same transaction, and so with the same metadata.
SpinRollback(r, o) ==
    /\ \/ rel[r].pc = "idle"
       \/ rel[r].pc = "begin" /\ rel[r].owner = o
    /\ nslock.owner = o
    /\ nslock.rolling
    /\ rel' = [rel EXCEPT ![r] = [Idle EXCEPT !.pc = "spin", !.owner = o]]
    /\ UNCHANGED <<vars, cursor, faults, base>>

\* nslock.rs 114: FoundationDB refuses the transaction as too old in the end.
EndSpin(r) ==
    /\ rel[r].pc = "spin"
    /\ rel' = [rel EXCEPT ![r] = Idle]
    /\ UNCHANGED <<vars, cursor, faults, base>>

\* nslock.rs 117-130: the repeated loop finds the lock gone.
RefuseRelease(r) ==
    /\ rel[r].pc = "begin"
    /\ nslock.owner # rel[r].owner
    /\ rel' = [rel EXCEPT ![r] = Idle]
    /\ UNCHANGED <<vars, cursor, faults, base>>

\* nslock.rs 180-187
ReadCursor(r) ==
    /\ rel[r].pc = "cursor"
    /\ rel' = [rel EXCEPT ![r] = [@ EXCEPT !.pc = "scan", !.cursor = cursor,
                                          !.last = <<cursor, 0>>]]
    /\ UNCHANGED <<vars, cursor, faults, base>>

\* nslock.rs 190-224: one round of the scan, at one read version.
ScanBatch(r) ==
    /\ rel[r].pc = "scan"
    /\ rel' = [rel EXCEPT ![r] =
         IF ~LockIsStillValid(r) THEN Idle
         ELSE IF Batch(rel[r].last) = {} THEN [@ EXCEPT !.pc = "final"]
         ELSE [@ EXCEPT !.pc = "clear", !.rv = ver, !.batch = Batch(rel[r].last)]]
    /\ UNCHANGED <<vars, cursor, faults, base>>

\* Mutant: the version of the snapshot is deleted as well.
ToClearSnapshot(r) == {e \in rel[r].batch : e.ver >= rel[r].snapshot}

\* nslock.rs 211-216
ToClear(r) == {e \in rel[r].batch : e.ver > rel[r].snapshot}

\* nslock.rs 241-243, 280-282: the lock changed since the transaction read it,
\* so its commit fails and is tried again.
Conflicts(r) == mod.nsmd > rel[r].rv
TryAgain(r, pc) == rel' = [rel EXCEPT ![r].pc = pc] /\ UNCHANGED <<vars, cursor, faults, base>>

\* nslock.rs 224-243: the batch is deleted if the lock has not changed since the
\* scan, and the cursor moved.  A transaction without writes always commits.
CommitBatch(r) ==
    /\ rel[r].pc = "clear"
    /\ LET last == LastKey({Key(e) : e \in rel[r].batch})
           dels == ToClear(r)
           moved == last[1] > rel[r].cursor
           next == [rel[r] EXCEPT !.pc = "scan", !.rv = 0, !.batch = {}]
       IN  IF (dels # {} \/ moved) /\ Conflicts(r) THEN TryAgain(r, "scan")
           ELSE /\ IF dels = {} /\ ~moved THEN UNCHANGED <<ver, idx, mod, cursor>>
                   ELSE /\ ver' = ver + 1
                        /\ idx' = idx \ dels
                        /\ mod' = WriteConflicts({e.page : e \in dels}, {}, {}, ver + 1)
                        /\ cursor' = IF moved /\ last[1] > cursor THEN last[1] ELSE cursor
                /\ CommitAnswered(r, [next EXCEPT !.cursor = last[1], !.last = last], next)
                /\ UNCHANGED <<content, ci, lwv, clog, nslock, tx, att, applied, base>>

\* nslock.rs 247-253: the last transaction of the rollback.
CheckFinal(r) ==
    /\ rel[r].pc = "final"
    /\ rel' = [rel EXCEPT ![r] = IF LockIsStillValid(r) THEN [@ EXCEPT !.pc = "unlock", !.rv = ver]
                                 ELSE Idle]
    /\ UNCHANGED <<vars, cursor, faults, base>>

\* Mutant: the changelog of the deleted versions stays.
KeptChangelogAll(r) == clog

\* nslock.rs 264-270
KeptChangelog(r) == {e \in clog : e.ver <= rel[r].snapshot}

\* nslock.rs 255-286: the last write version goes back to the snapshot.
CommitFinal(r) ==
    /\ rel[r].pc = "unlock"
    /\ IF Conflicts(r) THEN TryAgain(r, "final")
       ELSE /\ ver' = ver + 1
            /\ lwv' = [key |-> NoTx, ver |-> rel[r].snapshot]
            /\ clog' = KeptChangelog(r)
            /\ nslock' = NoLock
            /\ mod' = WriteConflicts({}, {}, {"lwv", "nsmd"}, ver + 1)
            /\ CommitAnswered(r, Idle, [rel[r] EXCEPT !.pc = "final", !.rv = 0])
            /\ UNCHANGED <<idx, content, ci, cursor, tx, att, applied, base>>

\* The server of the request stops.
Crash(r) ==
    /\ rel[r].pc # "idle"
    /\ faults < MaxFaults
    /\ faults' = faults + 1
    /\ rel' = [rel EXCEPT ![r] = Idle]
    /\ UNCHANGED <<vars, cursor, base>>

RememberBase ==
    base' = [t \in Tx |-> IF tx[t].st = "new" /\ tx'[t].st # "new" THEN View(tx'[t].assumed)
                         ELSE base[t]]

CommitPath == Next /\ RememberBase /\ UNCHANGED lockVars
Release(r) ==
    \/ \E o \in Owner : BeginRollback(r, o) \/ RetryBegin(r, o) \/ SpinRollback(r, o)
    \/ EndSpin(r) \/ RefuseRelease(r) \/ ReadCursor(r) \/ ScanBatch(r) \/ CommitBatch(r)
    \/ CheckFinal(r) \/ CommitFinal(r)

NsNext ==
    \/ CommitPath
    \/ \E o \in Owner : AcquireNslock(o) \/ ReleaseCommit(o)
    \/ \E r \in Handler : Release(r) \/ Crash(r)

NsSpec == NsInit /\ [][NsNext]_nsVars

\* A server keeps running the requests it has accepted, FoundationDB in the end
\* commits a transaction that is tried again and again, and an owner who wants
\* to roll back keeps asking until the lock is gone.
NsFairSpec ==
    /\ NsSpec
    /\ \A r \in Handler : WF_nsVars(Release(r))

-----------------------------------------------------------------------------
(* Properties                                                               *)

\* While a namespace is locked only its owner's commits take effect, and none
\* once a rollback has begun; unlocked, none that names an owner.  The lock is
\* checked long before the commit (commit.rs 180-205) and held by the conflict
\* range that NamespaceMetadataCache::get adds (metadata.rs 76).
LockIsolation ==
    [][\A t \in Tx : applied'[t] # applied[t] =>
          nslock.owner = tx[t].plan.owner /\ ~nslock.rolling]_nsVars

\* Page versions are only deleted under a lock that is being rolled back, and
\* only those after its snapshot: a request that outlives its lock (released
\* and taken again while it was scanning) deletes nothing (nslock.rs 190-195).
OnlyRolledBackIsDeleted ==
    [][\A e \in idx \ idx' : nslock.rolling /\ e.ver > nslock.snapshot]_nsVars

\* No page is newer than the last write version, so that a transaction started
\* from stat sees all of the namespace: a rollback that sets the last write
\* version back (nslock.rs 255-262) has deleted every version after it, and
\* nothing was committed behind its scan.
NothingNewerThanLwv == \A e \in idx : e.ver <= lwv.ver

\* A commit is in the page index as a whole or not at all whenever no rollback
\* is going on (nslock.rs 176-245, which deletes in batches).
CommitsWhole ==
    ~nslock.rolling =>
        \A t \in Tx : \A c \in applied[t] :
            LET there == {p \in Written(t) : [page |-> p, ver |-> c, hash |-> HashOf(t, p)] \in idx}
            IN  there = {} \/ there = Written(t)

\* The empty namespace, or a commit that was not rolled back.
KnownVersion(v) == v = 0 \/ \E e \in clog : e.ver = v

\* A client that refreshes its page cache through stat keeps no page that has
\* changed since, by commits or by a rollback: the pages outside the interval
\* are what they were when its last transaction began (stat.rs 51-88).  A client
\* whose version was rolled back is told so, unless somebody locks the
\* namespace at exactly that version.
CacheRefreshSound ==
    \A t \in Tx : tx[t].st # "new" /\ ~StatGone(tx[t].plan.owner) =>
        LET to == StatVersion(tx[t].plan.owner)
            i == ReadInterval(Assumed(t), to, TRUE)
        IN  i.some /\ (Assumed(t) = to => KnownVersion(to)) =>
                \A p \in Page \ i.pages : View(to)[p] = base[t][p]

\* A rollback that was begun ends with the lock released (nslock.rs 176-286).
RollbackCompletes == nslock.rolling ~> nslock.owner = NoOwner
=============================================================================
