------------------------------ MODULE Truncate ------------------------------
(***************************************************************************)
(* Version truncation (gc.rs, truncate_versions) beside commits, namespace *)
(* locks and rollbacks.  It scans the page index batch by batch, at        *)
(* successive versions, and deletes what a later version no newer than     *)
(* before_version supersedes, then the changelog up to there.              *)
(***************************************************************************)
EXTENDS NsLock

CONSTANT GcScanBatchSize   \* GC_SCAN_BATCH_SIZE

VARIABLE tr   \* the truncation that holds the truncate_versions lock

truncVars == <<nsVars, tr>>

\* A batch of one entry ends the scan.
ASSUME TruncateAssumption == GcScanBatchSize \in Nat \ {0, 1}

TruncType == [pc : {"idle", "scan", "delete", "changelog"}, dry : BOOLEAN, before : Nat,
              cursor : Nat \X Nat, dels : SUBSET IndexEntry]
NoTruncate == [pc |-> "idle", dry |-> FALSE, before |-> 0, cursor |-> <<0, 0>>, dels |-> {}]

\* The types of the truncation's state; the rest is typed by NsLock.
TruncTypeOK == NsTypeOK /\ tr \in TruncType

TruncInit == NsInit /\ tr = NoTruncate

\* Mutant: the namespace lock is not taken into account.
BeforeVersionUnlocked(v) == v

\* gc.rs 35-51: the request's version, at most the current one and at most the
\* snapshot of the namespace lock.
BeforeVersion(v) == IF nslock.owner # NoOwner /\ nslock.snapshot < v THEN nslock.snapshot ELSE v

\* gc.rs 28-82
StartTruncate(v, dry) ==
    /\ tr.pc = "idle"
    /\ tr' = [NoTruncate EXCEPT !.pc = "scan", !.dry = dry, !.before = BeforeVersion(v)]
    /\ UNCHANGED nsVars

\* Mutant: the latest version in the range is taken for superseded.
SupersededByAny(B) ==
    {e \in B : /\ \E f \in B : f.page = e.page /\ e.ver < f.ver
               /\ e.ver < tr.before}

\* gc.rs 119-136: an entry whose successor in the batch is a version of the same
\* page that is not newer than before_version.
Superseded(B) ==
    {e \in B : /\ \E f \in B : f.page = e.page /\ e.ver < f.ver /\ f.ver <= tr.before
               /\ e.ver < tr.before}

\* gc.rs 86-142: one batch.  The next one starts with its last entry.
ScanVersions ==
    /\ tr.pc = "scan"
    /\ LET keys == NextKeys(PageKeys, tr.cursor, GcScanBatchSize)
           dels == Superseded(EntriesAt(keys))
           last == LastKey(keys)
       IN  tr' = IF Cardinality(keys) <= 1 THEN [tr EXCEPT !.pc = "changelog"]
                 ELSE [tr EXCEPT !.cursor = <<last[1], last[2] - 1>>,
                                 !.dels = IF tr.dry THEN {} ELSE dels,
                                 !.pc = IF dels = {} \/ tr.dry THEN "scan" ELSE "delete"]
    /\ UNCHANGED nsVars

\* gc.rs 142-156: the deletion is repeated until it commits; an unknown result
\* deletes the same keys again.  Nothing reads below the latest version of a
\* page, so that no open transaction conflicts with it.
DeleteVersions ==
    /\ tr.pc = "delete"
    /\ ver' = ver + 1
    /\ idx' = idx \ tr.dels
    /\ tr' = [tr EXCEPT !.pc = "scan", !.dels = {}]
    /\ UNCHANGED <<content, ci, lwv, clog, nslock, mod, tx, att, applied, lockVars, base>>

\* gc.rs 170-175
ChangelogFrom(v) == {e \in clog : e.ver >= v}

\* gc.rs 168-186, in a dry run as well.
TruncateChangelog ==
    /\ tr.pc = "changelog"
    /\ ver' = ver + 1
    /\ clog' = ChangelogFrom(tr.before)
    /\ tr' = NoTruncate
    /\ UNCHANGED <<idx, content, ci, lwv, nslock, mod, tx, att, applied, lockVars, base>>

\* lock.rs 63-76, server.rs 480-489: the lock is lost, the client of the request
\* goes away or the server stops.
StopTruncate ==
    /\ tr.pc # "idle"
    /\ tr' = NoTruncate
    /\ UNCHANGED nsVars

TruncateStep ==
    \/ ver < MaxVersion /\ \E v \in 1..ver, dry \in BOOLEAN : StartTruncate(v, dry)
    \/ ScanVersions \/ DeleteVersions \/ TruncateChangelog \/ StopTruncate

TruncNext == TruncateStep \/ (NsNext /\ UNCHANGED tr)

TruncSpec == TruncInit /\ [][TruncNext]_truncVars

-----------------------------------------------------------------------------
(* Properties                                                               *)

\* The pages as of the lock's snapshot do not change while the namespace is
\* locked: they are what concurrent readers get (stat.rs 52-54) and what a
\* rollback goes back to, while the owner commits and old versions are
\* truncated.
LockedSnapshotStable ==
    [][nslock.owner # NoOwner /\ nslock'.nonce = nslock.nonce
          => View(nslock.snapshot)' = View(nslock.snapshot)]_truncVars

\* Truncation never deletes the latest version of a page in its range, also
\* when the versions it scanned are rolled back before it deletes (gc.rs
\* 128-136).
NeverTruncateLatest ==
    [][DeleteVersions => \A e \in idx \ idx' : \E f \in idx' :
          f.page = e.page /\ e.ver < f.ver /\ f.ver <= tr.before]_truncVars
=============================================================================
