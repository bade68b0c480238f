----------------------------- MODULE Connection -----------------------------
(***************************************************************************)
(* The client side of a database file: the connections of mvfs/src/vfs.rs, *)
(* each with its page cache, its write buffer and the transaction of       *)
(* mvclient/src/lib.rs it drives, under the SQLite pager that calls them.  *)
(*                                                                         *)
(* The store is what the server promises (module Commit): numbered         *)
(* snapshots, the pages each commit wrote, and a commit that is accepted   *)
(* only if nothing it read was overwritten.  SQLite is external: it keeps  *)
(* pages in a cache of its own from the moment it takes the shared lock,   *)
(* and drops them all when it takes that lock again and finds that the     *)
(* change counter of the first page moved.                                 *)
(***************************************************************************)
EXTENDS Integers, FiniteSets

CONSTANTS
    Conn,            \* open database files
    Page,            \* pages other than the first
    Value,           \* page contents
    InitialValue,    \* what every page holds at version 0
    NoPage,          \* in place of contents: the page is not there
    FlushThreshold,  \* write buffer length at which maybe_flush_write_buffer flushes
    WriteChunkSize,  \* WRITE_CHUNK_SIZE
    EvictBuffered,   \* may the page cache evict pages that are in the write buffer?
    MaxVersion       \* commits (bound)

VARIABLES
    ver,  \* version of the last commit
    db,   \* version -> snapshot
    log,  \* version -> pages its commit wrote
    conn  \* state of each connection

vars == <<ver, db, log, conn>>

NoVersion == -1
ASSUME ConnectionAssumption == /\ InitialValue \in Value /\ NoPage \notin Value
                               /\ FlushThreshold \in Nat \ {0}
                               /\ WriteChunkSize \in Nat
                               /\ EvictBuffered \in BOOLEAN
                               /\ MaxVersion \in Nat

Versions == 0 .. MaxVersion
Pages == [Page -> Value \cup {NoPage}]
NoPages == [p \in Page |-> NoPage]
Present(f) == {p \in Page : f[p] # NoPage}
Without(f, S) == [p \in Page |-> IF p \in S THEN NoPage ELSE f[p]]
Over(f, g) == [p \in Page |-> IF f[p] # NoPage THEN f[p] ELSE g[p]]

-----------------------------------------------------------------------------
(* struct Connection, with the Transaction it owns: txn is the version the *)
(* transaction reads (NoVersion: txn is None), tracked whether its read    *)
(* set is enabled, buffer its page_buffer.  Lock levels above Reserved     *)
(* behave as Reserved.  pager is SQLite's own cache, sql what it is doing: *)
(* running statements, one of which it may have kept open across the end   *)
(* of a write transaction (kept), done with them, waiting for a commit     *)
(* that is retried for ever (stuck), or stopped by an assertion (failed).  *)
Connection == [lock : {"none", "shared", "reserved"},
               txn : Versions \cup {NoVersion}, tracked : BOOLEAN, read_set : SUBSET Page,
               buffer : Pages, page_cache : Pages, write_buffer : Pages,
               commit_confirmed : BOOLEAN, last_known : Versions \cup {NoVersion},
               fixed_version : Versions \cup {NoVersion},
               pager : Pages, sql : {"running", "kept", "done", "stuck", "failed"}]

Opened == [lock |-> "none", txn |-> NoVersion, tracked |-> FALSE, read_set |-> {},
           buffer |-> NoPages, page_cache |-> NoPages, write_buffer |-> NoPages,
           commit_confirmed |-> FALSE, last_known |-> NoVersion,
           fixed_version |-> NoVersion, pager |-> NoPages, sql |-> "running"]

Init == /\ ver = 0
        /\ db = [v \in Versions |-> [p \in Page |-> InitialValue]]
        /\ log = [v \in Versions |-> {}]
        /\ conn = [c \in Conn |-> Opened]

Become(c, s) == conn' = [conn EXCEPT ![c] = s]
Running(c) == conn[c].sql \in {"running", "kept"}

\* What read_many_nomark returns: pages flushed by this transaction by their
\* hash, the others at the version of the transaction.
ReadMany(s) == Over(s.buffer, db[s.txn])

\* Pages this transaction has written, as SQLite should see them.
Expected(s) == Over(s.write_buffer, ReadMany(s))

\* Replies that list the pages changed by the commits after v, up to w: a
\* complete list, or none at all (module Commit, ReadInterval).
ChangedBetween(v, w) == UNION {log[x] : x \in v + 1 .. w}

-----------------------------------------------------------------------------
(* A stat may answer with an older version than the last one (the read is  *)
(* CausalReadRisky, or a namespace lock is held): any known version.       *)
Invalidations(s, v) ==
    IF v = s.last_known THEN {{}}
    ELSE {Page} \cup (IF s.fixed_version = NoVersion /\ s.last_known \in 0 .. v
                      THEN {ChangedBetween(s.last_known, v)} ELSE {})

\* Mutant: the change counter stays where it is.
PagerAfterSharedLockKept(s) == s.pager

\* lock() moves virtual_version_counter whenever it starts a transaction, and
\* SQLite, which compares it after taking the shared lock, drops its cache.
PagerAfterSharedLock(s) == NoPages

Begin(s, v, invalid) ==
    [s EXCEPT !.txn = v, !.tracked = TRUE, !.read_set = {}, !.buffer = NoPages,
              !.page_cache = Without(@, invalid), !.last_known = v]

Snapshots(s) == IF s.fixed_version # NoVersion THEN {s.fixed_version} ELSE 0 .. ver

LockShared(c) ==
    LET s == conn[c] IN
    /\ Running(c) /\ s.lock = "none"
    /\ \E v \in Snapshots(s) : \E invalid \in Invalidations(s, v) :
          Become(c, [Begin(s, v, invalid) EXCEPT
                         !.lock = "shared", !.pager = PagerAfterSharedLock(s)])
    /\ UNCHANGED <<ver, db, log>>

\* The transaction of the shared lock goes on; if it was discarded and SQLite
\* kept the shared lock, a new one starts and SQLite does not look at the counter.
LockReserved(c) ==
    LET s == conn[c] IN
    /\ Running(c) /\ s.lock = "shared"
    /\ \/ /\ s.txn # NoVersion
          /\ Become(c, [s EXCEPT !.lock = "reserved"])
       \/ /\ s.txn = NoVersion
          /\ \E v \in Snapshots(s) : \E invalid \in Invalidations(s, v) :
                Become(c, [Begin(s, v, invalid) EXCEPT !.lock = "reserved"])
    /\ UNCHANGED <<ver, db, log>>

-----------------------------------------------------------------------------
(* read_exact_at, called for a page SQLite does not hold.  The page cache  *)
(* answers first, then the write buffer, then the server, which is also    *)
(* asked for any set of predicted pages missing from the page cache.       *)

\* Mutant: a page found in the page cache is not marked as read.
MarkReadMiss(s, p) ==
    IF s.tracked /\ s.page_cache[p] = NoPage THEN s.read_set \cup {p} ELSE s.read_set

MarkRead(s, p) == IF s.tracked THEN s.read_set \cup {p} ELSE s.read_set

Read(c, p) ==
    LET s == conn[c]
        marked == [s EXCEPT !.read_set = MarkRead(s, p)]
    IN  /\ Running(c) /\ s.lock # "none" /\ s.pager[p] = NoPage
        /\ s.txn # NoVersion
        /\ \/ /\ s.page_cache[p] # NoPage
              /\ Become(c, [marked EXCEPT !.pager[p] = s.page_cache[p]])
           \/ /\ s.page_cache[p] = NoPage /\ s.write_buffer[p] # NoPage
              /\ Become(c, [marked EXCEPT !.pager[p] = s.write_buffer[p]])
           \/ /\ s.page_cache[p] = NoPage /\ s.write_buffer[p] = NoPage
              /\ \E predicted \in SUBSET (Page \ Present(s.page_cache)) :
                    LET fetched == Without(ReadMany(s), Page \ (predicted \cup {p}))
                    IN  Become(c, [marked EXCEPT !.pager[p] = fetched[p],
                                                 !.page_cache = Over(fetched, @)])
        /\ UNCHANGED <<ver, db, log>>

\* Without a transaction only the first page can be read: assert!(offset == 0).
ReadWithoutTransaction(c, p) ==
    LET s == conn[c] IN
    /\ Running(c) /\ s.lock # "none" /\ s.pager[p] = NoPage
    /\ s.txn = NoVersion
    /\ Become(c, [s EXCEPT !.sql = "failed"])
    /\ UNCHANGED <<ver, db, log>>

-----------------------------------------------------------------------------
(* write_all_at: a page SQLite has read and changed.  A page equal to the  *)
(* one in the page cache is not written.                                   *)
Flushed(s) == [s EXCEPT !.buffer = Over(s.write_buffer, @), !.write_buffer = NoPages]

MaybeFlush(s) ==
    IF Cardinality(Present(s.write_buffer)) >= FlushThreshold THEN Flushed(s) ELSE s

Write(c, p, x) ==
    LET s == conn[c] IN
    /\ Running(c) /\ s.lock = "reserved" /\ ~s.commit_confirmed
    /\ s.pager[p] # NoPage /\ s.txn # NoVersion
    /\ Become(c, IF s.page_cache[p] = x
                 THEN [s EXCEPT !.pager[p] = x]
                 ELSE MaybeFlush([s EXCEPT !.pager[p] = x, !.page_cache[p] = x,
                                           !.write_buffer[p] = x]))
    /\ UNCHANGED <<ver, db, log>>

ConfirmCommit(c) ==
    /\ Running(c) /\ conn[c].lock = "reserved" /\ ~conn[c].commit_confirmed
    /\ Become(c, [conn[c] EXCEPT !.commit_confirmed = TRUE])
    /\ UNCHANGED <<ver, db, log>>

-----------------------------------------------------------------------------
(* unlock() from Reserved: finalize_transaction, one action per outcome.   *)
ToFinalize(s) ==
    IF Cardinality(Present(s.write_buffer)) > WriteChunkSize THEN Flushed(s) ELSE s

\* Mutant: only the pages still in the write buffer count as dirty.
DirtyPagesBuffered(s) == Present(s.write_buffer)

DirtyPages(s) == Present(s.buffer) \cup Present(s.write_buffer)

\* The transaction is gone or replaced, its writes with it.
Ended(s, txn) == [s EXCEPT !.txn = txn, !.tracked = FALSE, !.read_set = {},
                           !.buffer = NoPages, !.write_buffer = NoPages,
                           !.commit_confirmed = FALSE]

\* SQLite keeps the shared lock for a statement that is still open, or else
\* does nothing more before it gives it up.
AfterUnlock(s) == {[s EXCEPT !.lock = "shared", !.sql = q] : q \in {"kept", "done"}}

Finalizes(c) == Running(c) /\ conn[c].lock = "reserved"

\* SQLite did not confirm: it rolls back, and drops the pages it changed.
\* After an error it may give up the shared lock in the same call.
Rollback(c) ==
    LET s == ToFinalize(conn[c])
        dropped == [Ended(s, NoVersion) EXCEPT !.page_cache = Without(@, DirtyPages(s)),
                                               !.pager = Without(@, DirtyPages(s))]
    IN  /\ Finalizes(c) /\ ~s.commit_confirmed
        /\ \/ \E n \in AfterUnlock(dropped) : Become(c, n)
           \/ Become(c, [dropped EXCEPT !.lock = "none", !.sql = "running"])
        /\ UNCHANGED <<ver, db, log>>

\* Writes to a pinned snapshot are dropped, and reported as committed.
DropSnapshotWrites(c) ==
    LET s == ToFinalize(conn[c])
        dropped == [Ended(s, NoVersion) EXCEPT !.page_cache = Without(@, DirtyPages(s))]
    IN  /\ Finalizes(c) /\ s.commit_confirmed /\ s.fixed_version # NoVersion
        /\ \E n \in AfterUnlock(dropped) : Become(c, n)
        /\ UNCHANGED <<ver, db, log>>

\* commit_intent: nothing to commit.
CommitEmpty(c) ==
    LET s == ToFinalize(conn[c]) IN
    /\ Finalizes(c) /\ s.commit_confirmed /\ s.fixed_version = NoVersion
    /\ DirtyPages(s) = {}
    /\ \E n \in AfterUnlock(Ended(s, s.txn)) : Become(c, n)
    /\ UNCHANGED <<ver, db, log>>

\* commit_intent announces every entry of both buffers and sends a page that
\* is in both only once.  The server reads as many frames as announced.
NumPages(s) == Cardinality(Present(s.buffer)) + Cardinality(Present(s.write_buffer))
Requests(s) == Cardinality(DirtyPages(s))

Commits(c) == LET s == ToFinalize(conn[c])
              IN  /\ Finalizes(c) /\ s.commit_confirmed /\ s.fixed_version = NoVersion
                  /\ DirtyPages(s) # {}

\* The server fails on the missing frames and the client sends the same
\* request again, without end.
CommitStuck(c) ==
    LET s == ToFinalize(conn[c]) IN
    /\ Commits(c) /\ NumPages(s) # Requests(s)
    /\ Become(c, [s EXCEPT !.sql = "stuck"])
    /\ UNCHANGED <<ver, db, log>>

\* What the server checks (module Commit): the pages read, or the last write.
ReadsStillValid(s) ==
    \/ s.txn = ver
    \/ s.tracked /\ s.read_set \cap ChangedBetween(s.txn, ver) = {}

\* Mutant: the pages other commits wrote stay in the page cache.
InvalidatedByCommitNone(s) == {{}}

\* The changelog of the reply: the pages others wrote in between, or nothing.
InvalidatedByCommit(s) == {ChangedBetween(s.txn, ver), Page}

\* Mutant: the snapshot keeps only the pages the commit writes.
AppliedAlone(s) == Over(s.write_buffer, s.buffer)

\* The pages sent: those of the write buffer in full, then those flushed before.
Applied(s) == Over(s.write_buffer, Over(s.buffer, db[ver]))

CommitOk(c) ==
    LET s == ToFinalize(conn[c]) IN
    /\ Commits(c) /\ NumPages(s) = Requests(s)
    /\ ReadsStillValid(s) /\ ver < MaxVersion
    /\ ver' = ver + 1
    /\ db' = [db EXCEPT ![ver + 1] = Applied(s)]
    /\ log' = [log EXCEPT ![ver + 1] = DirtyPages(s)]
    /\ \E invalid \in InvalidatedByCommit(s) :
          \E n \in AfterUnlock([Ended(s, ver + 1) EXCEPT
                                    !.page_cache = Without(@, invalid),
                                    !.last_known = ver + 1]) : Become(c, n)

\* SQLite is told that the database is busy, after it has marked its own
\* pages clean.
CommitConflict(c) ==
    LET s == ToFinalize(conn[c])
        dropped == [Ended(s, NoVersion) EXCEPT !.page_cache = Without(@, DirtyPages(s))]
    IN  /\ Commits(c) /\ NumPages(s) = Requests(s) /\ s.txn # ver
        /\ \E n \in AfterUnlock(dropped) : Become(c, n)
        /\ UNCHANGED <<ver, db, log>>

\* unlock() to None: the transaction is dropped.
UnlockNone(c) ==
    LET s == conn[c] IN
    /\ s.sql \in {"running", "kept", "done"} /\ s.lock = "shared"
    /\ Become(c, [Ended(s, NoVersion) EXCEPT !.lock = "none", !.sql = "running"])
    /\ UNCHANGED <<ver, db, log>>

-----------------------------------------------------------------------------
(* The rest: pinned versions, evictions, and the end of the process.       *)
PinVersion(c, v) ==
    /\ Running(c) /\ conn[c].txn = NoVersion /\ v <= ver
    /\ Become(c, [conn[c] EXCEPT !.fixed_version = v])
    /\ UNCHANGED <<ver, db, log>>

UnpinVersion(c) ==
    /\ Running(c) /\ conn[c].txn = NoVersion /\ conn[c].fixed_version # NoVersion
    /\ Become(c, [conn[c] EXCEPT !.fixed_version = NoVersion])
    /\ UNCHANGED <<ver, db, log>>

\* The page cache is full.
Evict(c, p) ==
    /\ conn[c].page_cache[p] # NoPage
    /\ EvictBuffered \/ conn[c].write_buffer[p] = NoPage
    /\ Become(c, [conn[c] EXCEPT !.page_cache[p] = NoPage])
    /\ UNCHANGED <<ver, db, log>>

\* SQLite's cache is full: pages that are written out are dropped.
PagerDrops(c, p) ==
    /\ Running(c) /\ conn[c].lock # "none" /\ conn[c].pager[p] # NoPage
    /\ Become(c, [conn[c] EXCEPT !.pager[p] = NoPage])
    /\ UNCHANGED <<ver, db, log>>

\* A request that fails for good panics, and the panic hook aborts the process.
Abort(c) ==
    /\ Become(c, Opened)
    /\ UNCHANGED <<ver, db, log>>

\* Another client commits.
OtherCommits(writes) ==
    /\ ver < MaxVersion /\ Present(writes) # {}
    /\ ver' = ver + 1
    /\ db' = [db EXCEPT ![ver + 1] = Over(writes, db[ver])]
    /\ log' = [log EXCEPT ![ver + 1] = Present(writes)]
    /\ UNCHANGED conn

Next ==
    \/ \E writes \in Pages : OtherCommits(writes)
    \/ \E c \in Conn :
        \/ LockShared(c) \/ LockReserved(c) \/ UnlockNone(c)
        \/ \E p \in Page : \/ Read(c, p) \/ ReadWithoutTransaction(c, p)
                           \/ \E x \in Value : Write(c, p, x)
                           \/ Evict(c, p) \/ PagerDrops(c, p)
        \/ ConfirmCommit(c) \/ Rollback(c) \/ DropSnapshotWrites(c) \/ CommitEmpty(c)
        \/ CommitStuck(c) \/ CommitOk(c) \/ CommitConflict(c)
        \/ \E v \in Versions : PinVersion(c, v)
        \/ UnpinVersion(c) \/ Abort(c)

Spec == Init /\ [][Next]_vars

-----------------------------------------------------------------------------
(* Properties.                                                             *)

\* Connections and the store have the shape of the structs they model.
ConnTypeOK == /\ ver \in Versions
              /\ db \in [Versions -> [Page -> Value]]
              /\ log \in [Versions -> SUBSET Page]
              /\ conn \in [Conn -> Connection]

\* Unless a statement was kept open across the end of a write transaction,
\* every page in SQLite's cache is the page at the version of the transaction
\* with the transaction's own writes on top: through the page cache, the write buffer, prefetches,
\* flushes, and what was invalidated at earlier locks, commits and rollbacks.
SqliteSeesSnapshot ==
    \A c \in Conn : conn[c].sql = "running" /\ conn[c].lock # "none" =>
        \A p \in Present(conn[c].pager) : conn[c].pager[p] = Expected(conn[c])[p]

\* The page cache, which outlives transactions, agrees with the version the
\* connection will name in its next stat, plus the writes of an open
\* transaction: no rolled back, conflicting or overwritten page survives in it.
PageCacheCoherent ==
    \A c \in Conn : \A p \in Present(conn[c].page_cache) :
        /\ conn[c].last_known # NoVersion
        /\ conn[c].page_cache[p] = Over(conn[c].write_buffer,
                                        Over(conn[c].buffer, db[conn[c].last_known]))[p]

\* No lost update.  When a commit is accepted, what SQLite holds in its cache
\* is the latest snapshot with its own writes on top: everything it based the
\* writes on is still current, whatever other connections committed meanwhile
\* and whichever cache it came from.
CommitOnCurrentPages ==
    [][\A c \in Conn : CommitOk(c) /\ conn[c].sql = "running" =>
           \A p \in Present(conn[c].pager) :
               conn[c].pager[p] = Over(conn[c].write_buffer,
                                       Over(conn[c].buffer, db[ver]))[p]]_vars

\* The server reads as many frames as the commit announces and treats the end
\* of the stream as an error: a commit sends all the pages it announces.
AnnouncedPagesAreSent == \A c \in Conn : conn[c].sql # "stuck"
=============================================================================
