-------------------------- MODULE ConnectionProofs --------------------------
(***************************************************************************)
(* What a connection of mvfs/src/vfs.rs shows to SQLite, for any number of *)
(* connections, pages, values, commits and thresholds.                     *)
(*                                                                         *)
(* None of the properties is inductive by itself.  That SQLite sees its    *)
(* snapshot rests on the page cache, which outlives the transaction and    *)
(* hides the write buffer; that the page cache is coherent rests on the    *)
(* buffers being empty whenever their transaction ends without dropping    *)
(* the pages it wrote; and what a reply does not list as changed has to be *)
(* the same page in every later snapshot.                                  *)
(*                                                                         *)
(* Except for the types, the results assume that the page cache does not   *)
(* evict pages that are still in the write buffer.                         *)
(***************************************************************************)
EXTENDS Connection, TLAPS

\* Leaves are given to Zenon unless they name another prover.
USE ZenonT(30)

-----------------------------------------------------------------------------
(* The inductive invariant                                                 *)

\* The page at the version the connection knows, with its own writes on top,
\* when the snapshots are d.
Seen(d, s, p) ==
    IF s.write_buffer[p] # NoPage THEN s.write_buffer[p]
    ELSE IF s.buffer[p] # NoPage THEN s.buffer[p] ELSE d[s.last_known][p]

\* A page that no commit after v has written is the same at w.
HistoryKept ==
    \A v, w \in 0 .. ver : v <= w =>
        \A p \in Page : p \notin ChangedBetween(v, w) => db[w][p] = db[v][p]

\* A transaction reads the version the connection names in its next stat, one
\* of those up to the last one, now.
Versioned(now, s) ==
    /\ s.last_known <= now /\ s.fixed_version <= now
    /\ s.txn # NoVersion => s.txn = s.last_known

\* Only the holder of the reserved lock has writes, and it has a transaction.
WritesAreReserved(s) ==
    /\ s.lock = "none" => s.txn = NoVersion
    /\ s.lock = "reserved" => s.txn # NoVersion
    /\ s.lock # "reserved" => s.buffer = NoPages /\ s.write_buffer = NoPages

\* What is in the write buffer is in the page cache too.
CacheHoldsWrites(s) ==
    \A p \in Page : s.write_buffer[p] # NoPage => s.page_cache[p] = s.write_buffer[p]

CacheCoherent(d, s) ==
    \A p \in Page : s.page_cache[p] # NoPage =>
        s.last_known # NoVersion /\ s.page_cache[p] = Seen(d, s, p)

\* What SQLite holds is in the read set, and is what it should see.
PagerSees(d, s) ==
    s.sql = "running" /\ s.lock # "none" =>
        /\ s.txn # NoVersion /\ s.tracked = TRUE
        /\ \A p \in Page : s.pager[p] # NoPage => p \in s.read_set /\ s.pager[p] = Seen(d, s, p)

ConnSound(now, d, s) ==
    /\ Versioned(now, s) /\ WritesAreReserved(s)
    /\ CacheHoldsWrites(s) /\ CacheCoherent(d, s) /\ PagerSees(d, s)

IInv == /\ ConnTypeOK /\ HistoryKept
        /\ \A c \in Conn : ConnSound(ver, db, conn[c])

-----------------------------------------------------------------------------
(* Operators and types                                                     *)

\* Maps of pages stay maps of pages, and a map laid over a snapshot is one.
LEMMA PageMaps ==
    /\ NoPages \in Pages /\ \A p \in Page : NoPages[p] = NoPage
    /\ \A f \in Pages : \A S : Without(f, S) \in Pages
    /\ \A f \in Pages, g \in Pages : Over(f, g) \in Pages
    /\ \A f \in Pages, g \in [Page -> Value] : Over(f, g) \in [Page -> Value]
    /\ [Page -> Value] \subseteq Pages
BY DEF NoPages, Pages, Without, Over

\* A connection starts with empty buffers and caches (vfs.rs, Connection::new).
LEMMA OpenedType == Opened \in Connection
BY PageMaps DEF Opened, Connection

\* A new transaction (vfs.rs, lock) leaves a connection well typed.
LEMMA BeginType ==
    ASSUME NEW s \in Connection, NEW v \in Versions, NEW invalid
    PROVE  /\ Begin(s, v, invalid) \in Connection
           /\ Begin(s, v, invalid) =
                [s EXCEPT !.txn = v, !.tracked = TRUE, !.read_set = {}, !.buffer = NoPages,
                          !.page_cache = Without(s.page_cache, invalid), !.last_known = v]
BY PageMaps DEF Begin, Connection

\* The end of a transaction leaves a connection well typed.
LEMMA EndedType ==
    ASSUME NEW s \in Connection, NEW v \in Versions \cup {NoVersion}
    PROVE  Ended(s, v) \in Connection
BY PageMaps DEF Ended, Connection

\* Flushing moves the write buffer on top of the pages flushed before.
LEMMA FlushedType ==
    ASSUME NEW s \in Connection
    PROVE  /\ Flushed(s) \in Connection
           /\ MaybeFlush(s) \in Connection /\ MaybeFlush(s) \in {s, Flushed(s)}
           /\ ToFinalize(s) \in Connection /\ ToFinalize(s) \in {s, Flushed(s)}
<1>1. Over(s.write_buffer, s.buffer) \in Pages
  BY PageMaps DEF Connection
<1>2. Flushed(s) \in Connection
  BY <1>1, PageMaps DEF Flushed, Connection
<1> QED
  BY <1>2 DEF MaybeFlush, ToFinalize

\* The locks SQLite may hold after it gave up the reserved one.
LEMMA AfterUnlockType ==
    ASSUME NEW s \in Connection, NEW n \in AfterUnlock(s)
    PROVE  /\ n \in Connection
           /\ \E q \in {"kept", "done"} : n = [s EXCEPT !.lock = "shared", !.sql = q]
<1>1. PICK q \in {"kept", "done"} : n = [s EXCEPT !.lock = "shared", !.sql = q]
  BY DEF AfterUnlock
<1>2. n \in Connection
  BY <1>1 DEF Connection
<1> QED
  BY <1>1, <1>2

\* Snapshots a transaction may start at exist.
LEMMA SnapshotTypes ==
    ASSUME ConnTypeOK, NEW c \in Conn, NEW v \in Snapshots(conn[c])
    PROVE  v \in Versions
BY SMTT(30), ConnectionAssumption DEF Snapshots, ConnTypeOK, Connection, Versions, NoVersion

\* A connection becomes a well typed one.
LEMMA TypesKept ==
    ASSUME ConnTypeOK, NEW c \in Conn, NEW n \in Connection,
           Become(c, n), UNCHANGED <<ver, db, log>>
    PROVE  ConnTypeOK'
BY DEF ConnTypeOK, Become

\* The store grows by a well typed snapshot.
LEMMA TypesGrow ==
    ASSUME ConnTypeOK, NEW f \in [Page -> Value], NEW S \in SUBSET Page, ver < MaxVersion,
           ver' = ver + 1, db' = [db EXCEPT ![ver + 1] = f],
           log' = [log EXCEPT ![ver + 1] = S],
           conn' \in [Conn -> Connection]
    PROVE  ConnTypeOK'
BY SMTT(30), ConnectionAssumption DEF ConnTypeOK, Versions

-----------------------------------------------------------------------------
(* Steps of connections and of the store                                   *)

\* A connection without writes of its own and without pages that SQLite relies
\* on is sound if its page cache is that of the version it knows.
LEMMA IdleSound ==
    ASSUME NEW now, NEW d, NEW s \in Connection, Versioned(now, s), s.lock # "reserved",
           s.lock = "none" => s.txn = NoVersion,
           s.buffer = NoPages, s.write_buffer = NoPages,
           \A p \in Page : s.page_cache[p] # NoPage =>
               s.last_known # NoVersion /\ s.page_cache[p] = d[s.last_known][p],
           s.sql # "running" \/ s.lock = "none"
    PROVE  ConnSound(now, d, s)
<1>1. CacheHoldsWrites(s) /\ CacheCoherent(d, s)
  BY PageMaps DEF CacheHoldsWrites, CacheCoherent, Seen
<1> QED
  BY <1>1 DEF ConnSound, WritesAreReserved, PagerSees

\* One connection moves to a sound state; the store and the others stay.
LEMMA Advance ==
    ASSUME IInv, NEW c \in Conn, NEW n \in Connection, ConnSound(ver, db, n),
           Become(c, n), UNCHANGED <<ver, db, log>>
    PROVE  IInv'
<1>1. ConnTypeOK'
  BY TypesKept DEF IInv
<1>2. HistoryKept'
  BY SMTT(30) DEF IInv, HistoryKept, ChangedBetween
<1>3. ASSUME NEW e \in Conn PROVE ConnSound(ver', db', conn'[e])
  <2>1. conn'[e] = IF e = c THEN n ELSE conn[e]
    BY DEF Become, IInv, ConnTypeOK
  <2> QED
    BY <2>1 DEF IInv
<1> QED
  BY <1>1, <1>2, <1>3 DEF IInv

\* A commit adds a snapshot that differs from the last one in the pages it
\* lists; what connections know stays so.
LEMMA StoreGrows ==
    ASSUME IInv, ver < MaxVersion, NEW f \in [Page -> Value], NEW S \in SUBSET Page,
           \A p \in Page : p \notin S => f[p] = db[ver][p],
           ver' = ver + 1, db' = [db EXCEPT ![ver + 1] = f], log' = [log EXCEPT ![ver + 1] = S]
    PROVE  /\ HistoryKept'
           /\ \A s \in Connection : ConnSound(ver, db, s) => ConnSound(ver', db', s)
<1>1. /\ ver \in Nat /\ ver + 1 \in Versions /\ 0 .. ver \subseteq Versions
      /\ db \in [Versions -> [Page -> Value]] /\ log \in [Versions -> SUBSET Page]
  BY SMTT(30), ConnectionAssumption DEF IInv, ConnTypeOK, Versions
<1>2. /\ db'[ver + 1] = f /\ \A v \in 0 .. ver : db'[v] = db[v]
      /\ log'[ver + 1] = S /\ \A v \in 0 .. ver : log'[v] = log[v]
  BY SMTT(30), <1>1
<1>3. HistoryKept'
  <2> SUFFICES ASSUME NEW v \in 0 .. ver', NEW w \in 0 .. ver', v <= w,
                      NEW p \in Page, p \notin ChangedBetween(v, w)'
               PROVE  db'[w][p] = db'[v][p]
    BY DEF HistoryKept
  <2>1. CASE w \in 0 .. ver
    <3>1. ChangedBetween(v, w)' = ChangedBetween(v, w)
      <4>1. \A x \in v + 1 .. w : log'[x] = log[x]
        BY SMTT(30), <2>1, <1>1, <1>2
      <4> QED
        BY SMTT(30), <4>1 DEF ChangedBetween
    <3>2. v \in 0 .. ver
      BY SMTT(30), <2>1, <1>1
    <3> QED
      BY SMTT(30), <2>1, <3>1, <3>2, <1>2 DEF IInv, HistoryKept
  <2>2. CASE w = ver + 1 /\ v = ver + 1
    BY <2>2
  <2>3. CASE w = ver + 1 /\ v \in 0 .. ver
    <3>1. p \notin S
      <4>1. ver + 1 \in v + 1 .. w
        BY SMTT(30), <2>3, <1>1
      <4> QED
        BY <4>1, <1>2 DEF ChangedBetween
    <3>2. p \notin ChangedBetween(v, ver)
      <4>1. \A x \in v + 1 .. ver : x \in v + 1 .. w /\ log'[x] = log[x]
        BY SMTT(30), <2>3, <1>1, <1>2
      <4> QED
        BY <4>1 DEF ChangedBetween
    <3>3. db[ver][p] = db[v][p]
      BY SMTT(30), <2>3, <3>2, <1>1 DEF IInv, HistoryKept
    <3> QED
      BY SMTT(30), <2>3, <3>1, <3>3, <1>2
  <2> QED
    BY SMTT(30), <2>1, <2>2, <2>3, <1>1
<1>4. ASSUME NEW s \in Connection, ConnSound(ver, db, s) PROVE ConnSound(ver', db', s)
  <2>1. /\ s.last_known \in Versions \cup {NoVersion}
        /\ s.fixed_version \in Versions \cup {NoVersion}
        /\ s.last_known <= ver /\ s.fixed_version <= ver
    BY <1>4 DEF Connection, ConnSound, Versioned
  <2>2. s.last_known # NoVersion => s.last_known \in 0 .. ver
    BY SMTT(30), <2>1, <1>1 DEF Versions
  <2>3. ASSUME NEW p \in Page, s.last_known # NoVersion PROVE Seen(db', s, p) = Seen(db, s, p)
    BY SMTT(30), <2>2, <2>3, <1>2 DEF Seen
  <2>4. Versioned(ver', s)
    BY SMTT(30), <1>4, <2>1, <1>1 DEF ConnSound, Versioned, Versions, NoVersion
  <2>5. CacheCoherent(db', s)
    BY <1>4, <2>3 DEF ConnSound, CacheCoherent
  <2>6. PagerSees(db', s)
    BY <1>4, <2>3 DEF ConnSound, PagerSees, Versioned
  <2> QED
    BY <1>4, <2>4, <2>5, <2>6 DEF ConnSound
<1> QED
  BY <1>3, <1>4

-----------------------------------------------------------------------------
(* Locks (vfs.rs, lock and unlock)                                         *)

\* A new transaction: the page cache keeps only pages that are the same at the
\* version the transaction reads.
LEMMA BeginSound ==
    ASSUME IInv, NEW c \in Conn, conn[c].txn = NoVersion,
           NEW v \in Snapshots(conn[c]), NEW invalid \in Invalidations(conn[c], v)
    PROVE  LET b == Begin(conn[c], v, invalid)
           IN  /\ b \in Connection /\ v \in Versions /\ v # NoVersion
               /\ b = [conn[c] EXCEPT !.txn = v, !.tracked = TRUE, !.read_set = {},
                             !.buffer = NoPages,
                             !.page_cache = Without(conn[c].page_cache, invalid),
                             !.last_known = v]
               /\ b.write_buffer = NoPages
               /\ Versioned(ver, b) /\ CacheHoldsWrites(b) /\ CacheCoherent(db, b)
<1> DEFINE s == conn[c]
           b == Begin(s, v, invalid)
<1>1. s \in Connection /\ ConnSound(ver, db, s) /\ ver \in Nat
  BY SMTT(30), ConnectionAssumption DEF IInv, ConnTypeOK, Versions
<1>2. v \in Versions /\ v \in 0 .. ver /\ v # NoVersion
  <2>1. v \in Versions
    BY SnapshotTypes DEF IInv
  <2>2. v <= ver
    BY SMTT(30), <1>1 DEF Snapshots, ConnSound, Versioned
  <2> QED
    BY SMTT(30), <2>1, <2>2, <1>1, ConnectionAssumption DEF Versions, NoVersion
<1>3. /\ b \in Connection
      /\ b = [s EXCEPT !.txn = v, !.tracked = TRUE, !.read_set = {}, !.buffer = NoPages,
                       !.page_cache = Without(s.page_cache, invalid), !.last_known = v]
  BY <1>1, <1>2, BeginType
<1>4. s.buffer = NoPages /\ s.write_buffer = NoPages
  BY <1>1 DEF ConnSound, WritesAreReserved
<1>5. /\ b.txn = v /\ b.last_known = v /\ b.buffer = NoPages /\ b.write_buffer = NoPages
      /\ b.fixed_version = s.fixed_version
      /\ b.page_cache = Without(s.page_cache, invalid)
  BY SMTT(30), <1>1, <1>3, <1>4 DEF Connection
<1> HIDE DEF b
<1>6. Versioned(ver, b)
  BY SMTT(30), <1>1, <1>2, <1>5 DEF ConnSound, Versioned
<1>7. CacheHoldsWrites(b)
  BY <1>5, PageMaps DEF CacheHoldsWrites
<1>8. ASSUME NEW p \in Page, b.page_cache[p] # NoPage
      PROVE  b.page_cache[p] = db[v][p]
  <2>1. p \notin invalid /\ b.page_cache[p] = s.page_cache[p] /\ s.page_cache[p] # NoPage
    BY <1>5, <1>8 DEF Without
  <2>2. s.last_known # NoVersion /\ s.page_cache[p] = db[s.last_known][p]
    BY <2>1, <1>1, <1>4, PageMaps DEF ConnSound, CacheCoherent, Seen
  <2>3. CASE v = s.last_known
    BY <2>1, <2>2, <2>3
  <2>4. CASE v # s.last_known
    <3>1. s.last_known \in 0 .. v /\ invalid = ChangedBetween(s.last_known, v)
      BY <2>1, <2>4 DEF Invalidations
    <3>2. s.last_known \in 0 .. ver /\ s.last_known <= v
      BY SMTT(30), <3>1, <1>1, <1>2
    <3> QED
      BY <2>1, <2>2, <3>1, <3>2, <1>2 DEF IInv, HistoryKept
  <2> QED
    BY <2>3, <2>4
<1>9. CacheCoherent(db, b)
  BY <1>5, <1>8, <1>2, PageMaps DEF CacheCoherent, Seen
<1> QED
  BY <1>2, <1>3, <1>5, <1>6, <1>7, <1>9 DEF b

\* The shared lock: a new transaction, and SQLite drops what it held.
LEMMA LockSharedStep ==
    ASSUME IInv, NEW c \in Conn, LockShared(c)
    PROVE  IInv'
<1> DEFINE s == conn[c]
<1>1. s \in Connection /\ ConnSound(ver, db, s) /\ s.lock = "none" /\ s.txn = NoVersion
  BY DEF LockShared, IInv, ConnTypeOK, ConnSound, WritesAreReserved
<1>0. PICK v \in Snapshots(s) : \E invalid \in Invalidations(s, v) :
        Become(c, [Begin(s, v, invalid) EXCEPT !.lock = "shared", !.pager = NoPages])
  BY DEF LockShared, PagerAfterSharedLock
<1>2. PICK invalid \in Invalidations(s, v) :
        Become(c, [Begin(s, v, invalid) EXCEPT !.lock = "shared", !.pager = NoPages])
  BY <1>0
<1> DEFINE b == Begin(s, v, invalid)
           n == [b EXCEPT !.lock = "shared", !.pager = NoPages]
<1>3. /\ b \in Connection /\ v # NoVersion
      /\ b.txn = v /\ b.tracked = TRUE /\ b.buffer = NoPages /\ b.write_buffer = NoPages
      /\ Versioned(ver, b) /\ CacheHoldsWrites(b) /\ CacheCoherent(db, b)
  <2>1. /\ b \in Connection /\ v # NoVersion
        /\ b = [s EXCEPT !.txn = v, !.tracked = TRUE, !.read_set = {}, !.buffer = NoPages,
                         !.page_cache = Without(s.page_cache, invalid), !.last_known = v]
        /\ b.write_buffer = NoPages
        /\ Versioned(ver, b) /\ CacheHoldsWrites(b) /\ CacheCoherent(db, b)
    <3>1. s.txn = NoVersion
      BY <1>1
    <3> QED
      BY <3>1, BeginSound
  <2> HIDE DEF b
  <2>2. b.txn = v /\ b.tracked = TRUE /\ b.buffer = NoPages
    BY SMTT(30), <1>1, <2>1 DEF Connection
  <2> QED
    BY <2>1, <2>2
<1> HIDE DEF b
<1>4. /\ n \in Connection /\ n.lock = "shared" /\ n.pager = NoPages
      /\ n.txn = v /\ n.tracked = TRUE /\ n.buffer = NoPages /\ n.write_buffer = NoPages
      /\ n.last_known = b.last_known /\ n.fixed_version = b.fixed_version
      /\ n.page_cache = b.page_cache /\ n.txn = b.txn /\ n.buffer = b.buffer
      /\ n.write_buffer = b.write_buffer
  BY <1>3, PageMaps DEF Connection
<1> HIDE DEF n
<1>5. Versioned(ver, n) /\ CacheHoldsWrites(n) /\ CacheCoherent(db, n)
  BY SMTT(30), <1>3, <1>4 DEF Versioned, CacheHoldsWrites, CacheCoherent, Seen
<1>6. WritesAreReserved(n) /\ PagerSees(db, n)
  BY <1>3, <1>4, PageMaps DEF WritesAreReserved, PagerSees
<1>7. ConnSound(ver, db, n)
  BY <1>5, <1>6 DEF ConnSound
<1>8. Become(c, n) /\ UNCHANGED <<ver, db, log>>
  BY <1>2 DEF LockShared, n, b
<1> QED
  BY <1>4, <1>7, <1>8, Advance

\* The reserved lock: the transaction goes on, or, after it was discarded, a
\* new one starts under a statement that SQLite kept open.
LEMMA LockReservedStep ==
    ASSUME IInv, NEW c \in Conn, LockReserved(c)
    PROVE  IInv'
<1> DEFINE s == conn[c]
<1>1. s \in Connection /\ ConnSound(ver, db, s) /\ s.lock = "shared"
  BY DEF LockReserved, IInv, ConnTypeOK
<1>2. CASE s.txn # NoVersion
  <2> DEFINE n == [s EXCEPT !.lock = "reserved"]
  <2>1. Become(c, n) /\ UNCHANGED <<ver, db, log>>
    BY <1>2 DEF LockReserved
  <2>2. /\ n \in Connection /\ n.lock = "reserved" /\ n.txn = s.txn
        /\ n.last_known = s.last_known /\ n.fixed_version = s.fixed_version
        /\ n.page_cache = s.page_cache /\ n.buffer = s.buffer
        /\ n.write_buffer = s.write_buffer /\ n.pager = s.pager /\ n.sql = s.sql
        /\ n.tracked = s.tracked /\ n.read_set = s.read_set
    BY <1>1 DEF Connection
  <2> HIDE DEF n
  <2>3. Versioned(ver, n) /\ CacheHoldsWrites(n) /\ CacheCoherent(db, n) /\ PagerSees(db, n)
    BY SMTT(30), <1>1, <2>2 DEF ConnSound, Versioned, CacheHoldsWrites, CacheCoherent, PagerSees, Seen
  <2>4. ConnSound(ver, db, n)
    BY <1>2, <2>2, <2>3 DEF ConnSound, WritesAreReserved
  <2> QED
    BY <2>1, <2>2, <2>4, Advance
<1>3. CASE s.txn = NoVersion
  <2>0. PICK v \in Snapshots(s) : \E invalid \in Invalidations(s, v) :
          Become(c, [Begin(s, v, invalid) EXCEPT !.lock = "reserved"])
    BY <1>3 DEF LockReserved
  <2>1. PICK invalid \in Invalidations(s, v) :
          Become(c, [Begin(s, v, invalid) EXCEPT !.lock = "reserved"])
    BY <2>0
  <2> DEFINE b == Begin(s, v, invalid)
             n == [b EXCEPT !.lock = "reserved"]
  <2>2. /\ b \in Connection /\ v # NoVersion /\ b.txn = v /\ b.sql = s.sql
        /\ Versioned(ver, b) /\ CacheHoldsWrites(b) /\ CacheCoherent(db, b)
    <3>1. /\ b \in Connection /\ v # NoVersion
          /\ b = [s EXCEPT !.txn = v, !.tracked = TRUE, !.read_set = {}, !.buffer = NoPages,
                           !.page_cache = Without(s.page_cache, invalid), !.last_known = v]
          /\ Versioned(ver, b) /\ CacheHoldsWrites(b) /\ CacheCoherent(db, b)
      BY <1>3, BeginSound
    <3> HIDE DEF b
    <3>2. b.txn = v /\ b.sql = s.sql
      BY SMTT(30), <1>1, <3>1 DEF Connection
    <3> QED
      BY <3>1, <3>2
  <2> HIDE DEF b
  <2>3. /\ n \in Connection /\ n.lock = "reserved" /\ n.txn = b.txn /\ n.sql = b.sql
        /\ n.last_known = b.last_known /\ n.fixed_version = b.fixed_version
        /\ n.page_cache = b.page_cache /\ n.buffer = b.buffer
        /\ n.write_buffer = b.write_buffer
    BY <2>2 DEF Connection
  <2> HIDE DEF n
  <2>4. Versioned(ver, n) /\ CacheHoldsWrites(n) /\ CacheCoherent(db, n)
    BY <2>2, <2>3 DEF Versioned, CacheHoldsWrites, CacheCoherent, Seen
  <2>5. WritesAreReserved(n) /\ PagerSees(db, n)
    BY <1>1, <1>3, <2>2, <2>3 DEF ConnSound, WritesAreReserved, PagerSees
  <2>6. Become(c, n) /\ UNCHANGED <<ver, db, log>>
    BY <2>1 DEF LockReserved, n, b
  <2> QED
    BY <2>3, <2>4, <2>5, <2>6, Advance DEF ConnSound
<1> QED
  BY <1>2, <1>3

\* unlock() to None: the buffers of a connection that only reads are empty.
LEMMA UnlockNoneStep ==
    ASSUME IInv, NEW c \in Conn, UnlockNone(c)
    PROVE  IInv'
<1> DEFINE s == conn[c]
           n == [Ended(s, NoVersion) EXCEPT !.lock = "none", !.sql = "running"]
<1>1. s \in Connection /\ ConnSound(ver, db, s) /\ s.lock = "shared"
  BY DEF UnlockNone, IInv, ConnTypeOK
<1>2. /\ n \in Connection /\ n.lock = "none" /\ n.txn = NoVersion
      /\ n.buffer = NoPages /\ n.write_buffer = NoPages
      /\ n.last_known = s.last_known /\ n.fixed_version = s.fixed_version
      /\ n.page_cache = s.page_cache
  BY <1>1, EndedType DEF Ended, Connection
<1>3. Become(c, n) /\ UNCHANGED <<ver, db, log>>
  BY DEF UnlockNone
<1> HIDE DEF n
<1>4. Versioned(ver, n)
  BY <1>1, <1>2 DEF ConnSound, Versioned
<1>5. \A p \in Page : n.page_cache[p] # NoPage =>
        n.last_known # NoVersion /\ n.page_cache[p] = db[n.last_known][p]
  BY <1>1, <1>2, PageMaps DEF ConnSound, WritesAreReserved, CacheCoherent, Seen
<1> QED
  BY <1>2, <1>3, <1>4, <1>5, IdleSound, Advance

-----------------------------------------------------------------------------
(* Pages (vfs.rs, read_exact_at and write_all_at)                          *)

\* A page is read from the page cache, which has the newest of the writes, from
\* the write buffer, or from the server, together with predicted pages.
LEMMA ReadStep ==
    ASSUME IInv, NEW c \in Conn, NEW p \in Page, Read(c, p)
    PROVE  IInv'
<1> DEFINE s == conn[c]
<1>1. /\ s \in Connection /\ ConnSound(ver, db, s) /\ s.txn # NoVersion /\ s.lock # "none"
      /\ s.txn \in Versions /\ s.txn = s.last_known /\ db[s.txn] \in [Page -> Value]
  <2>1. s \in Connection /\ ConnSound(ver, db, s) /\ s.txn # NoVersion /\ s.lock # "none"
    BY DEF Read, IInv, ConnTypeOK
  <2>2. s.txn \in Versions /\ s.txn = s.last_known
    BY <2>1 DEF Connection, ConnSound, Versioned
  <2> QED
    BY <2>1, <2>2 DEF IInv, ConnTypeOK
\* The page SQLite gets is the one it should see, and so are those that go to
\* the page cache.
<1>2. PICK x \in Value, m \in Pages :
        /\ Become(c, [s EXCEPT !.read_set = MarkRead(s, p), !.pager[p] = x, !.page_cache = m])
        /\ x = Seen(db, s, p)
        /\ \A q \in Page : m[q] = s.page_cache[q]
                           \/ (s.page_cache[q] = NoPage /\ m[q] = Seen(db, s, q))
        /\ \A q \in Page : s.page_cache[q] # NoPage => m[q] = s.page_cache[q]
  <2>1. /\ s.page_cache \in Pages /\ s.write_buffer \in Pages /\ s.buffer \in Pages
        /\ s.page_cache = [s EXCEPT !.read_set = MarkRead(s, p)].page_cache
        /\ s.pager = [s EXCEPT !.read_set = MarkRead(s, p)].pager
    BY <1>1 DEF Connection
  <2>2. CASE s.page_cache[p] # NoPage
    <3>1. s.page_cache[p] \in Value
      BY <2>1, <2>2 DEF Pages
    <3>2. Become(c, [s EXCEPT !.read_set = MarkRead(s, p), !.pager[p] = s.page_cache[p]])
      BY <2>2 DEF Read
    <3>3. [s EXCEPT !.read_set = MarkRead(s, p), !.pager[p] = s.page_cache[p]] =
          [s EXCEPT !.read_set = MarkRead(s, p), !.pager[p] = s.page_cache[p],
                    !.page_cache = s.page_cache]
      BY <1>1 DEF Connection
    <3>4. s.page_cache[p] = Seen(db, s, p)
      BY <1>1, <2>2 DEF ConnSound, CacheCoherent
    <3> QED
      BY <2>1, <3>1, <3>2, <3>3, <3>4
  <2>3. CASE s.page_cache[p] = NoPage /\ s.write_buffer[p] # NoPage
    BY <1>1, <2>3 DEF ConnSound, CacheHoldsWrites
  <2>4. CASE s.page_cache[p] = NoPage /\ s.write_buffer[p] = NoPage
    <3>1. PICK predicted \in SUBSET (Page \ Present(s.page_cache)) :
            LET fetched == Without(ReadMany(s), Page \ (predicted \cup {p}))
            IN  Become(c, [s EXCEPT !.read_set = MarkRead(s, p), !.pager[p] = fetched[p],
                                    !.page_cache = Over(fetched, s.page_cache)])
      BY <2>1, <2>4 DEF Read
    <3> DEFINE fetched == Without(ReadMany(s), Page \ (predicted \cup {p}))
               m == Over(fetched, s.page_cache)
    <3>2. ReadMany(s) \in [Page -> Value]
      BY <1>1, <2>1, PageMaps DEF ReadMany
    <3>3. fetched \in Pages /\ m \in Pages
      BY <2>1, <3>2, PageMaps
    <3>4. \A q \in Page : s.write_buffer[q] = NoPage => ReadMany(s)[q] = Seen(db, s, q)
      BY <1>1 DEF ReadMany, Over, Seen
    <3>5. \A q \in Page : s.page_cache[q] = NoPage => s.write_buffer[q] = NoPage
      BY <1>1 DEF ConnSound, CacheHoldsWrites
    <3>6. fetched[p] = ReadMany(s)[p] /\ fetched[p] \in Value
      BY <3>2 DEF Without
    <3>7. \A q \in Page : s.page_cache[q] # NoPage => m[q] = s.page_cache[q]
      BY <2>4 DEF Over, Without, Present
    <3>8. \A q \in Page : m[q] = s.page_cache[q] \/ m[q] = ReadMany(s)[q]
      BY DEF Over, Without
    <3>9. Become(c, [s EXCEPT !.read_set = MarkRead(s, p), !.pager[p] = fetched[p],
                              !.page_cache = m])
      BY <3>1
    <3> HIDE DEF m, fetched
    <3>10. fetched[p] = Seen(db, s, p)
      BY <2>4, <3>4, <3>6
    <3>11. \A q \in Page : m[q] = s.page_cache[q]
                            \/ (s.page_cache[q] = NoPage /\ m[q] = Seen(db, s, q))
      BY <3>4, <3>5, <3>7, <3>8
    <3> QED
      BY <3>3, <3>6, <3>7, <3>9, <3>10, <3>11
  <2> QED
    BY <2>2, <2>3, <2>4
<1> DEFINE n == [s EXCEPT !.read_set = MarkRead(s, p), !.pager[p] = x, !.page_cache = m]
<1>3. s.tracked \in BOOLEAN /\ s.read_set \in SUBSET Page /\ s.pager \in Pages
  BY <1>1 DEF Connection
<1>4. MarkRead(s, p) \in SUBSET Page /\ [s.pager EXCEPT ![p] = x] \in Pages
  BY <1>3 DEF MarkRead, Pages
<1>5. /\ n \in Connection /\ n.lock = s.lock /\ n.txn = s.txn /\ n.sql = s.sql
      /\ n.last_known = s.last_known /\ n.fixed_version = s.fixed_version
      /\ n.page_cache = m /\ n.buffer = s.buffer /\ n.write_buffer = s.write_buffer
      /\ n.tracked = s.tracked /\ n.read_set = MarkRead(s, p)
      /\ n.pager = [s.pager EXCEPT ![p] = x]
  BY <1>1, <1>4 DEF Connection
<1> HIDE DEF n
<1>6. Versioned(ver, n) /\ WritesAreReserved(n)
  BY <1>1, <1>5 DEF ConnSound, Versioned, WritesAreReserved
<1>7. \A q \in Page : Seen(db, n, q) = Seen(db, s, q)
  BY <1>5 DEF Seen
<1>8. CacheHoldsWrites(n)
  BY SMTT(30), <1>1, <1>2, <1>5 DEF ConnSound, CacheHoldsWrites
<1>9. CacheCoherent(db, n)
  BY <1>1, <1>2, <1>5, <1>7 DEF ConnSound, CacheCoherent
<1>10. PagerSees(db, n)
  <2>1. \A q \in Page : n.pager[q] = IF q = p THEN x ELSE s.pager[q]
    BY <1>3, <1>5 DEF Pages
  <2>2. s.tracked = TRUE => MarkRead(s, p) = s.read_set \cup {p}
    BY DEF MarkRead
  <2> QED
    BY SMTT(30), <1>1, <1>2, <1>5, <1>7, <2>1, <2>2 DEF ConnSound, PagerSees
<1>11. Become(c, n) /\ UNCHANGED <<ver, db, log>>
  BY <1>2 DEF Read, n
<1> QED
  BY <1>5, <1>6, <1>8, <1>9, <1>10, <1>11, Advance DEF ConnSound

\* Moving the write buffer to the pages flushed before changes nothing that is
\* seen.
LEMMA FlushSound ==
    ASSUME NEW now, NEW d, NEW s \in Connection, ConnSound(now, d, s), s.lock = "reserved"
    PROVE  ConnSound(now, d, Flushed(s))
<1> DEFINE n == Flushed(s)
<1>1. /\ n \in Connection /\ n.lock = s.lock /\ n.txn = s.txn /\ n.sql = s.sql
      /\ n.last_known = s.last_known /\ n.fixed_version = s.fixed_version
      /\ n.page_cache = s.page_cache /\ n.tracked = s.tracked /\ n.read_set = s.read_set
      /\ n.pager = s.pager
      /\ n.buffer = Over(s.write_buffer, s.buffer) /\ n.write_buffer = NoPages
  BY FlushedType DEF Flushed, Connection
<1> HIDE DEF n
<1>2. \A p \in Page : Seen(d, n, p) = Seen(d, s, p)
  BY <1>1, PageMaps DEF Seen, Over
<1>3. Versioned(now, n) /\ WritesAreReserved(n)
  BY <1>1 DEF ConnSound, Versioned, WritesAreReserved
<1>4. CacheHoldsWrites(n)
  BY <1>1, PageMaps DEF CacheHoldsWrites
<1>5. CacheCoherent(d, n) /\ PagerSees(d, n)
  BY <1>1, <1>2 DEF ConnSound, CacheCoherent, PagerSees
<1> QED
  BY <1>3, <1>4, <1>5 DEF ConnSound, n

\* A page that is written goes to the write buffer and to the page cache; one
\* that is equal to the page in the cache is what SQLite sees already.
LEMMA WriteStep ==
    ASSUME IInv, NEW c \in Conn, NEW p \in Page, NEW x \in Value, Write(c, p, x)
    PROVE  IInv'
<1> DEFINE s == conn[c]
<1>1. /\ s \in Connection /\ ConnSound(ver, db, s) /\ s.txn # NoVersion /\ s.lock = "reserved"
      /\ s.pager[p] # NoPage /\ x # NoPage /\ s.txn = s.last_known
  BY ConnectionAssumption DEF Write, IInv, ConnTypeOK, ConnSound, Versioned
<1>2. s.pager \in Pages /\ s.page_cache \in Pages /\ s.write_buffer \in Pages
  BY <1>1 DEF Connection
<1>3. /\ [s.pager EXCEPT ![p] = x] \in Pages
      /\ \A q \in Page : [s.pager EXCEPT ![p] = x][q] = IF q = p THEN x ELSE s.pager[q]
  BY <1>2 DEF Pages
<1>4. CASE s.page_cache[p] = x
  <2> DEFINE n == [s EXCEPT !.pager[p] = x]
  <2>1. /\ n \in Connection /\ n.lock = s.lock /\ n.txn = s.txn /\ n.sql = s.sql
        /\ n.last_known = s.last_known /\ n.fixed_version = s.fixed_version
        /\ n.page_cache = s.page_cache /\ n.buffer = s.buffer
        /\ n.write_buffer = s.write_buffer /\ n.tracked = s.tracked
        /\ n.read_set = s.read_set /\ n.pager = [s.pager EXCEPT ![p] = x]
    BY <1>1, <1>3 DEF Connection
  <2>2. Become(c, n) /\ UNCHANGED <<ver, db, log>>
    BY <1>4 DEF Write
  <2> HIDE DEF n
  <2>3. \A q \in Page : Seen(db, n, q) = Seen(db, s, q)
    BY <2>1 DEF Seen
  <2>4. Versioned(ver, n) /\ WritesAreReserved(n) /\ CacheHoldsWrites(n) /\ CacheCoherent(db, n)
    BY SMTT(30), <1>1, <2>1, <2>3
       DEF ConnSound, Versioned, WritesAreReserved, CacheHoldsWrites, CacheCoherent
  <2>5. x = Seen(db, s, p)
    BY <1>1, <1>4 DEF ConnSound, CacheCoherent
  <2>6. PagerSees(db, n)
    BY SMTT(30), <1>1, <1>3, <2>1, <2>3, <2>5 DEF ConnSound, PagerSees
  <2> QED
    BY <2>1, <2>2, <2>4, <2>6, Advance DEF ConnSound
<1>5. CASE s.page_cache[p] # x
  <2> DEFINE n == [s EXCEPT !.pager[p] = x, !.page_cache[p] = x, !.write_buffer[p] = x]
  <2>1. /\ [s.page_cache EXCEPT ![p] = x] \in Pages /\ [s.write_buffer EXCEPT ![p] = x] \in Pages
        /\ \A q \in Page : /\ [s.page_cache EXCEPT ![p] = x][q] =
                                IF q = p THEN x ELSE s.page_cache[q]
                           /\ [s.write_buffer EXCEPT ![p] = x][q] =
                                IF q = p THEN x ELSE s.write_buffer[q]
    BY <1>2 DEF Pages
  <2>2. /\ n \in Connection /\ n.lock = s.lock /\ n.txn = s.txn /\ n.sql = s.sql
        /\ n.last_known = s.last_known /\ n.fixed_version = s.fixed_version
        /\ n.buffer = s.buffer /\ n.tracked = s.tracked /\ n.read_set = s.read_set
        /\ n.pager = [s.pager EXCEPT ![p] = x]
        /\ n.page_cache = [s.page_cache EXCEPT ![p] = x]
        /\ n.write_buffer = [s.write_buffer EXCEPT ![p] = x]
    BY <1>1, <1>3, <2>1 DEF Connection
  <2>3. Become(c, MaybeFlush(n)) /\ UNCHANGED <<ver, db, log>>
    BY <1>5 DEF Write
  <2> HIDE DEF n
  <2>4. \A q \in Page : Seen(db, n, q) = IF q = p THEN x ELSE Seen(db, s, q)
    BY SMTT(30), <1>1, <2>1, <2>2 DEF Seen
  <2>5. Versioned(ver, n) /\ WritesAreReserved(n)
    BY <1>1, <2>2 DEF ConnSound, Versioned, WritesAreReserved
  <2>6. CacheHoldsWrites(n)
    BY SMTT(30), <1>1, <2>1, <2>2 DEF ConnSound, CacheHoldsWrites
  <2>7. CacheCoherent(db, n)
    BY SMTT(30), <1>1, <2>1, <2>2, <2>4 DEF ConnSound, CacheCoherent
  <2>8. PagerSees(db, n)
    BY SMTT(30), <1>1, <1>3, <2>2, <2>4 DEF ConnSound, PagerSees
  <2>9. ConnSound(ver, db, n)
    BY <2>5, <2>6, <2>7, <2>8 DEF ConnSound
  <2>10. MaybeFlush(n) \in Connection /\ ConnSound(ver, db, MaybeFlush(n))
    BY SMTT(30), <1>1, <2>2, <2>9, FlushedType, FlushSound
  <2> QED
    BY <2>3, <2>10, Advance
<1> QED
  BY <1>4, <1>5

-----------------------------------------------------------------------------
(* The end of a write transaction (vfs.rs, finalize_transaction)           *)

\* Before it finalizes, a connection may flush its write buffer once more.
LEMMA ToFinalizeSound ==
    ASSUME IInv, NEW c \in Conn, Finalizes(c)
    PROVE  LET s == ToFinalize(conn[c])
           IN  /\ s \in Connection /\ ConnSound(ver, db, s) /\ s.lock = "reserved"
               /\ s.txn = s.last_known /\ s.txn # NoVersion /\ s.txn \in 0 .. ver
               /\ s.txn = conn[c].txn /\ s.sql = conn[c].sql /\ s.pager = conn[c].pager
               /\ s.tracked = conn[c].tracked /\ s.read_set = conn[c].read_set
               /\ s.fixed_version = conn[c].fixed_version
               /\ \A p \in Page : Seen(db, s, p) = Seen(db, conn[c], p)
<1> DEFINE o == conn[c]
           s == ToFinalize(o)
<1>1. o \in Connection /\ ConnSound(ver, db, o) /\ o.lock = "reserved"
  BY DEF Finalizes, IInv, ConnTypeOK
<1>2. s \in Connection /\ s \in {o, Flushed(o)}
  BY <1>1, FlushedType
<1>3. ConnSound(ver, db, s)
  BY <1>1, <1>2, FlushSound
<1>4. /\ s.lock = "reserved" /\ s.txn = o.txn /\ s.sql = o.sql /\ s.pager = o.pager
      /\ s.tracked = o.tracked /\ s.read_set = o.read_set
      /\ s.fixed_version = o.fixed_version
      /\ s.last_known = o.last_known
      /\ \/ s.buffer = o.buffer /\ s.write_buffer = o.write_buffer
         \/ s.buffer = Over(o.write_buffer, o.buffer) /\ s.write_buffer = NoPages
  BY <1>1, <1>2 DEF Flushed, Connection
<1> HIDE DEF s
<1>5. s.txn # NoVersion /\ s.txn = s.last_known /\ s.last_known <= ver
  BY <1>3, <1>4 DEF ConnSound, WritesAreReserved, Versioned
<1>6. s.txn \in 0 .. ver
  BY SMTT(30), <1>2, <1>5, ConnectionAssumption DEF Connection, Versions, IInv, ConnTypeOK
<1>7. \A p \in Page : Seen(db, s, p) = Seen(db, o, p)
  BY <1>4, PageMaps DEF Seen, Over
<1> QED
  BY <1>2, <1>3, <1>4, <1>5, <1>6, <1>7 DEF s

\* A connection whose transaction was given up with its writes.
Dropped(s) == [Ended(s, NoVersion) EXCEPT !.page_cache = Without(@, DirtyPages(s))]

\* A transaction that is discarded takes the pages it wrote out of the page
\* cache; the others are those of the version it read.
LEMMA DroppedSound ==
    ASSUME NEW now, NEW d, NEW s \in Connection, ConnSound(now, d, s)
    PROVE  /\ Dropped(s) \in Connection /\ Dropped(s).txn = NoVersion
           /\ Versioned(now, Dropped(s))
           /\ Dropped(s).buffer = NoPages /\ Dropped(s).write_buffer = NoPages
           /\ \A p \in Page : Dropped(s).page_cache[p] # NoPage =>
                 /\ Dropped(s).last_known # NoVersion
                 /\ Dropped(s).page_cache[p] = d[Dropped(s).last_known][p]
<1> DEFINE e == Dropped(s)
<1>1. /\ Ended(s, NoVersion) \in Connection
      /\ Ended(s, NoVersion).page_cache = s.page_cache
      /\ Ended(s, NoVersion).last_known = s.last_known
      /\ Ended(s, NoVersion).fixed_version = s.fixed_version
      /\ Ended(s, NoVersion).txn = NoVersion
      /\ Ended(s, NoVersion).buffer = NoPages /\ Ended(s, NoVersion).write_buffer = NoPages
  BY EndedType DEF Ended, Connection
<1>2. Without(s.page_cache, DirtyPages(s)) \in Pages
  BY PageMaps DEF Connection
<1>3. /\ e \in Connection /\ e.txn = NoVersion /\ e.buffer = NoPages /\ e.write_buffer = NoPages
      /\ e.page_cache = Without(s.page_cache, DirtyPages(s))
      /\ e.last_known = s.last_known /\ e.fixed_version = s.fixed_version
  BY <1>1, <1>2 DEF Connection, Dropped
<1> HIDE DEF e
<1>4. Versioned(now, e)
  BY <1>3 DEF ConnSound, Versioned
<1>5. ASSUME NEW p \in Page, e.page_cache[p] # NoPage
      PROVE  e.last_known # NoVersion /\ e.page_cache[p] = d[e.last_known][p]
  <2>1. p \notin DirtyPages(s) /\ e.page_cache[p] = s.page_cache[p]
    BY <1>3, <1>5 DEF Without
  <2>2. s.buffer[p] = NoPage /\ s.write_buffer[p] = NoPage
    BY <2>1 DEF DirtyPages, Present
  <2> QED
    BY <1>3, <1>5, <2>1, <2>2 DEF ConnSound, CacheCoherent, Seen
<1> QED
  BY <1>3, <1>4, <1>5 DEF e

\* A connection whose transaction has ended without writes left behind may keep
\* the shared lock for an open statement, or do nothing more.
LEMMA UnlockedSound ==
    ASSUME NEW now, NEW d, NEW e \in Connection, NEW n \in AfterUnlock(e), Versioned(now, e),
           e.buffer = NoPages, e.write_buffer = NoPages,
           \A p \in Page : e.page_cache[p] # NoPage =>
               e.last_known # NoVersion /\ e.page_cache[p] = d[e.last_known][p]
    PROVE  n \in Connection /\ ConnSound(now, d, n)
<1>1. PICK q \in {"kept", "done"} : n = [e EXCEPT !.lock = "shared", !.sql = q]
  BY AfterUnlockType
<1>2. /\ n \in Connection /\ n.lock = "shared" /\ n.sql # "running" /\ n.txn = e.txn
      /\ n.buffer = NoPages /\ n.write_buffer = NoPages /\ n.page_cache = e.page_cache
      /\ n.last_known = e.last_known /\ n.fixed_version = e.fixed_version
  BY <1>1 DEF Connection
<1>3. Versioned(now, n)
  BY <1>2 DEF Versioned
<1> QED
  BY <1>2, <1>3, IdleSound

\* Not confirmed: SQLite and the page cache drop the pages that were changed.
LEMMA RollbackStep ==
    ASSUME IInv, NEW c \in Conn, Rollback(c)
    PROVE  IInv'
<1> DEFINE s == ToFinalize(conn[c])
           e == Dropped(s)
           g == [e EXCEPT !.pager = Without(@, DirtyPages(s))]
           n == [g EXCEPT !.lock = "none", !.sql = "running"]
<1>1. s \in Connection /\ ConnSound(ver, db, s)
  BY ToFinalizeSound DEF Rollback
<1>2. g = [Ended(s, NoVersion) EXCEPT !.page_cache = Without(@, DirtyPages(s)),
                                      !.pager = Without(@, DirtyPages(s))]
  BY <1>1, EndedType DEF Connection, Dropped
<1>3. /\ UNCHANGED <<ver, db, log>>
      /\ (\E m \in AfterUnlock(g) : Become(c, m)) \/ Become(c, n)
  BY <1>2 DEF Rollback
<1> HIDE DEF s
<1>4. /\ e \in Connection /\ e.txn = NoVersion /\ Versioned(ver, e)
      /\ e.buffer = NoPages /\ e.write_buffer = NoPages
      /\ \A p \in Page : e.page_cache[p] # NoPage =>
             e.last_known # NoVersion /\ e.page_cache[p] = db[e.last_known][p]
  <2>1. ConnSound(ver, db, s) /\ s \in Connection
    BY <1>1
  <2> QED
    BY SMTT(30), <2>1, DroppedSound
<1> HIDE DEF e
<1>5. Without(e.pager, DirtyPages(s)) \in Pages
  BY <1>4, PageMaps DEF Connection
<1>6. /\ g \in Connection /\ g.txn = NoVersion
      /\ g.buffer = NoPages /\ g.write_buffer = NoPages
      /\ g.page_cache = e.page_cache /\ g.last_known = e.last_known
      /\ g.fixed_version = e.fixed_version
  BY <1>4, <1>5 DEF Connection
<1> HIDE DEF g
<1>7. Versioned(ver, g)
  BY <1>4, <1>6 DEF Versioned
<1>8. CASE \E m \in AfterUnlock(g) : Become(c, m)
  <2>1. PICK m \in AfterUnlock(g) : Become(c, m)
    BY <1>8
  <2>2. m \in Connection /\ ConnSound(ver, db, m)
    BY <1>4, <1>6, <1>7, UnlockedSound
  <2> QED
    BY <1>3, <2>1, <2>2, Advance
<1>9. CASE Become(c, n)
  <2>1. /\ n \in Connection /\ n.lock = "none" /\ n.txn = NoVersion
        /\ n.buffer = NoPages /\ n.write_buffer = NoPages
        /\ n.page_cache = g.page_cache /\ n.last_known = g.last_known
        /\ n.fixed_version = g.fixed_version
    BY <1>6 DEF Connection
  <2> HIDE DEF n
  <2>2. Versioned(ver, n)
    BY <1>7, <2>1 DEF Versioned
  <2>3. ConnSound(ver, db, n)
    BY <1>4, <1>6, <2>1, <2>2, IdleSound
  <2> QED
    BY <1>3, <1>9, <2>1, <2>3, Advance
<1> QED
  BY <1>3, <1>8, <1>9

\* A conflict, and a write to a pinned snapshot: the writes are dropped.
LEMMA DropStep ==
    ASSUME IInv, NEW c \in Conn, DropSnapshotWrites(c) \/ CommitConflict(c)
    PROVE  IInv'
<1> DEFINE s == ToFinalize(conn[c])
           e == Dropped(s)
<1>1. Finalizes(c) /\ UNCHANGED <<ver, db, log>>
  BY DEF DropSnapshotWrites, CommitConflict, Commits
<1>2. PICK n \in AfterUnlock(e) : Become(c, n)
  BY DEF DropSnapshotWrites, CommitConflict, Dropped
<1>3. s \in Connection /\ ConnSound(ver, db, s)
  BY <1>1, ToFinalizeSound
<1> HIDE DEF s
<1>4. /\ e \in Connection /\ Versioned(ver, e) /\ e.buffer = NoPages /\ e.write_buffer = NoPages
      /\ \A p \in Page : e.page_cache[p] # NoPage =>
             e.last_known # NoVersion /\ e.page_cache[p] = db[e.last_known][p]
  <2>1. ConnSound(ver, db, s) /\ s \in Connection
    BY <1>3
  <2> QED
    BY SMTT(30), <2>1, DroppedSound
<1> HIDE DEF e
<1>5. n \in Connection /\ ConnSound(ver, db, n)
  BY <1>4, UnlockedSound
<1> QED
  BY <1>1, <1>2, <1>5, Advance

\* Nothing to commit: the transaction goes on without its read set.
LEMMA CommitEmptyStep ==
    ASSUME IInv, NEW c \in Conn, CommitEmpty(c)
    PROVE  IInv'
<1> DEFINE s == ToFinalize(conn[c])
           e == Ended(s, s.txn)
<1>1. Finalizes(c) /\ UNCHANGED <<ver, db, log>> /\ DirtyPages(s) = {}
  BY DEF CommitEmpty
<1>2. PICK n \in AfterUnlock(e) : Become(c, n)
  BY DEF CommitEmpty
<1>3. s \in Connection /\ ConnSound(ver, db, s) /\ s.txn \in Versions \cup {NoVersion}
  BY <1>1, ToFinalizeSound DEF Connection
<1> HIDE DEF s
<1>4. /\ e \in Connection /\ e.buffer = NoPages /\ e.write_buffer = NoPages
      /\ e.txn = s.txn /\ e.page_cache = s.page_cache /\ e.last_known = s.last_known
      /\ e.fixed_version = s.fixed_version
  BY <1>3, EndedType DEF Ended, Connection
<1> HIDE DEF e
<1>5. Versioned(ver, e)
  BY <1>3, <1>4 DEF ConnSound, Versioned
<1>6. \A p \in Page : s.buffer[p] = NoPage /\ s.write_buffer[p] = NoPage
  BY <1>1 DEF DirtyPages, Present
<1>7. \A p \in Page : e.page_cache[p] # NoPage =>
          e.last_known # NoVersion /\ e.page_cache[p] = db[e.last_known][p]
  BY <1>3, <1>4, <1>6 DEF ConnSound, CacheCoherent, Seen
<1>8. n \in Connection /\ ConnSound(ver, db, n)
  BY <1>4, <1>5, <1>7, UnlockedSound
<1> QED
  BY <1>1, <1>2, <1>8, Advance

\* A commit that is retried for ever keeps everything as it is.
LEMMA CommitStuckStep ==
    ASSUME IInv, NEW c \in Conn, CommitStuck(c)
    PROVE  IInv'
<1> DEFINE s == ToFinalize(conn[c])
           n == [s EXCEPT !.sql = "stuck"]
<1>1. Become(c, n) /\ UNCHANGED <<ver, db, log>> /\ Finalizes(c)
  BY DEF CommitStuck, Commits
<1>2. s \in Connection /\ ConnSound(ver, db, s)
  BY <1>1, ToFinalizeSound
<1> HIDE DEF s
<1>3. /\ n \in Connection /\ n.lock = s.lock /\ n.txn = s.txn /\ n.sql = "stuck"
      /\ n.last_known = s.last_known /\ n.fixed_version = s.fixed_version
      /\ n.page_cache = s.page_cache /\ n.buffer = s.buffer
      /\ n.write_buffer = s.write_buffer
  BY <1>2 DEF Connection
<1> HIDE DEF n
<1>4. ConnSound(ver, db, n)
  BY SMTT(30), <1>2, <1>3 DEF ConnSound, Versioned, WritesAreReserved, CacheHoldsWrites, CacheCoherent,
                    PagerSees, Seen
<1> QED
  BY <1>1, <1>3, <1>4, Advance

\* What a commit writes is the last snapshot with the pages it lists replaced.
LEMMA AppliedPages ==
    ASSUME IInv, NEW s \in Connection
    PROVE  /\ Applied(s) \in [Page -> Value]
           /\ \A p \in Page : p \notin DirtyPages(s) => Applied(s)[p] = db[ver][p]
           /\ \A p \in Page : Applied(s)[p] =
                 IF s.write_buffer[p] # NoPage THEN s.write_buffer[p]
                 ELSE IF s.buffer[p] # NoPage THEN s.buffer[p] ELSE db[ver][p]
<1>1. db[ver] \in [Page -> Value] /\ s.buffer \in Pages /\ s.write_buffer \in Pages
  BY DEF IInv, ConnTypeOK, Connection
<1>2. Applied(s) \in [Page -> Value]
  BY <1>1, PageMaps DEF Applied
<1>3. \A p \in Page : Applied(s)[p] =
          IF s.write_buffer[p] # NoPage THEN s.write_buffer[p]
          ELSE IF s.buffer[p] # NoPage THEN s.buffer[p] ELSE db[ver][p]
  BY DEF Applied, Over
<1> QED
  BY <1>2, <1>3 DEF DirtyPages, Present

\* A commit that is accepted: the page cache loses what others wrote since the
\* transaction began, and what is left is the new snapshot.
LEMMA CommitOkStep ==
    ASSUME IInv, NEW c \in Conn, CommitOk(c)
    PROVE  IInv'
<1> DEFINE s == ToFinalize(conn[c])
           D == DirtyPages(s)
           f == Applied(s)
<1>1. /\ Finalizes(c) /\ ver < MaxVersion /\ ver' = ver + 1
      /\ db' = [db EXCEPT ![ver + 1] = f] /\ log' = [log EXCEPT ![ver + 1] = D]
  BY DEF CommitOk, Commits
<1>2. PICK invalid \in InvalidatedByCommit(s) :
        \E n \in AfterUnlock([Ended(s, ver + 1) EXCEPT !.page_cache = Without(@, invalid),
                                                       !.last_known = ver + 1]) :
           Become(c, n)
  BY DEF CommitOk
<1> DEFINE e == [Ended(s, ver + 1) EXCEPT !.page_cache = Without(@, invalid),
                                          !.last_known = ver + 1]
<1>3. PICK n \in AfterUnlock(e) : Become(c, n)
  BY <1>2
<1>4. /\ s \in Connection /\ ConnSound(ver, db, s)
      /\ s.txn = s.last_known /\ s.txn # NoVersion /\ s.txn \in 0 .. ver
  BY <1>1, ToFinalizeSound
<1> HIDE DEF s
<1>5. /\ ver \in Nat /\ ver + 1 \in Versions /\ ver + 1 # NoVersion
      /\ db \in [Versions -> [Page -> Value]]
  BY SMTT(30), <1>1, ConnectionAssumption DEF IInv, ConnTypeOK, Versions, NoVersion
<1>6. /\ f \in [Page -> Value] /\ D \in SUBSET Page
      /\ \A p \in Page : p \notin D => f[p] = db[ver][p]
      /\ \A p \in Page : f[p] =
            IF s.write_buffer[p] # NoPage THEN s.write_buffer[p]
            ELSE IF s.buffer[p] # NoPage THEN s.buffer[p] ELSE db[ver][p]
  BY <1>4, AppliedPages DEF DirtyPages, Present
<1> HIDE DEF f, D
<1>7. /\ HistoryKept'
      /\ \A t \in Connection : ConnSound(ver, db, t) => ConnSound(ver', db', t)
  BY <1>1, <1>6, StoreGrows
<1>8. db'[ver + 1] = f
  BY <1>1, <1>5
<1>9. /\ e \in Connection /\ e.txn = ver + 1 /\ e.last_known = ver + 1
      /\ e.buffer = NoPages /\ e.write_buffer = NoPages
      /\ e.page_cache = Without(s.page_cache, invalid) /\ e.fixed_version = s.fixed_version
  <2>1. /\ Ended(s, ver + 1) \in Connection
        /\ Ended(s, ver + 1).page_cache = s.page_cache
        /\ Ended(s, ver + 1).fixed_version = s.fixed_version
        /\ Ended(s, ver + 1).txn = ver + 1
        /\ Ended(s, ver + 1).buffer = NoPages /\ Ended(s, ver + 1).write_buffer = NoPages
    BY <1>4, <1>5, EndedType DEF Ended, Connection
  <2>2. Without(s.page_cache, invalid) \in Pages
    BY <1>4, PageMaps DEF Connection
  <2> QED
    BY <2>1, <2>2, <1>5 DEF Connection
<1> HIDE DEF e
<1>10. Versioned(ver', e)
  <2>1. s.fixed_version \in Versions \cup {NoVersion} /\ s.fixed_version <= ver
    BY <1>4 DEF ConnSound, Versioned, Connection
  <2>2. s.fixed_version <= ver + 1
    BY SMTT(30), <2>1, <1>5 DEF Versions, NoVersion
  <2> QED
    BY SMTT(30), <2>2, <1>1, <1>5, <1>9 DEF Versioned
<1>11. ASSUME NEW p \in Page, e.page_cache[p] # NoPage
       PROVE  e.last_known # NoVersion /\ e.page_cache[p] = db'[e.last_known][p]
  <2>1. p \notin invalid /\ e.page_cache[p] = s.page_cache[p]
    BY <1>9, <1>11 DEF Without
  <2>2. p \notin ChangedBetween(s.txn, ver)
    BY <2>1 DEF InvalidatedByCommit
  <2>3. db[ver][p] = db[s.txn][p]
    BY SMTT(30), <2>2, <1>4, <1>5 DEF IInv, HistoryKept
  <2>4. s.page_cache[p] = Seen(db, s, p)
    BY <2>1, <1>4, <1>11 DEF ConnSound, CacheCoherent
  <2>5. Seen(db, s, p) = f[p]
    BY <2>3, <1>4, <1>6 DEF Seen
  <2> QED
    BY <2>1, <2>4, <2>5, <1>5, <1>8, <1>9
<1>12. n \in Connection /\ ConnSound(ver', db', n)
  BY <1>9, <1>10, <1>11, UnlockedSound
<1>13. \A x \in Conn : conn'[x] = IF x = c THEN n ELSE conn[x]
  BY <1>3 DEF Become, IInv, ConnTypeOK
<1>14. conn' \in [Conn -> Connection]
  BY <1>3, <1>12 DEF Become, IInv, ConnTypeOK
<1>15. ConnTypeOK'
  BY <1>1, <1>6, <1>14, TypesGrow DEF IInv
<1>16. \A x \in Conn : ConnSound(ver', db', conn'[x])
  BY <1>7, <1>12, <1>13 DEF IInv, ConnTypeOK
<1> QED
  BY <1>7, <1>15, <1>16 DEF IInv

\* Another client commits.
LEMMA OtherCommitsStep ==
    ASSUME IInv, NEW writes \in Pages, OtherCommits(writes)
    PROVE  IInv'
<1> DEFINE f == Over(writes, db[ver])
           D == Present(writes)
<1>1. /\ ver < MaxVersion /\ ver' = ver + 1 /\ conn' = conn
      /\ db' = [db EXCEPT ![ver + 1] = f] /\ log' = [log EXCEPT ![ver + 1] = D]
  BY DEF OtherCommits
<1>2. f \in [Page -> Value]
  BY PageMaps DEF IInv, ConnTypeOK
<1>3. D \in SUBSET Page /\ \A p \in Page : p \notin D => f[p] = db[ver][p]
  BY DEF Present, Over
<1> HIDE DEF f, D
<1>4. /\ HistoryKept'
      /\ \A s \in Connection : ConnSound(ver, db, s) => ConnSound(ver', db', s)
  BY <1>1, <1>2, <1>3, StoreGrows
<1>5. conn' \in [Conn -> Connection] /\ \A c \in Conn : ConnSound(ver', db', conn'[c])
  BY <1>1, <1>4 DEF IInv, ConnTypeOK
<1>6. ConnTypeOK'
  BY <1>1, <1>2, <1>3, <1>5, TypesGrow DEF IInv
<1> QED
  BY <1>4, <1>5, <1>6 DEF IInv

-----------------------------------------------------------------------------
(* The rest                                                                *)

\* Steps that set one field nothing else depends on: the confirmation of a
\* commit, and the failure of a read without a transaction.
LEMMA MarkStep ==
    ASSUME IInv, NEW c \in Conn,
           ConfirmCommit(c) \/ \E p \in Page : ReadWithoutTransaction(c, p)
    PROVE  IInv'
<1> DEFINE s == conn[c]
<1>1. s \in Connection /\ ConnSound(ver, db, s)
  BY DEF IInv, ConnTypeOK
<1>2. PICK n : /\ Become(c, n) /\ UNCHANGED <<ver, db, log>>
               /\ n \in {[s EXCEPT !.commit_confirmed = TRUE], [s EXCEPT !.sql = "failed"]}
  BY DEF ConfirmCommit, ReadWithoutTransaction
<1>3. /\ n \in Connection /\ n.lock = s.lock /\ n.txn = s.txn
      /\ n.sql = s.sql \/ n.sql = "failed"
      /\ n.last_known = s.last_known /\ n.fixed_version = s.fixed_version
      /\ n.page_cache = s.page_cache /\ n.buffer = s.buffer
      /\ n.write_buffer = s.write_buffer /\ n.pager = s.pager
      /\ n.tracked = s.tracked /\ n.read_set = s.read_set
  BY <1>1, <1>2 DEF Connection
<1>4. Versioned(ver, n) /\ WritesAreReserved(n) /\ CacheHoldsWrites(n) /\ CacheCoherent(db, n)
  BY SMTT(30), <1>1, <1>3 DEF ConnSound, Versioned, WritesAreReserved, CacheHoldsWrites, CacheCoherent, Seen
<1>5. PagerSees(db, n)
  <2>1. \A p \in Page : Seen(db, n, p) = Seen(db, s, p)
    BY <1>3 DEF Seen
  <2>2. CASE n.sql = s.sql
    BY <1>1, <1>3, <2>1, <2>2 DEF ConnSound, PagerSees
  <2>3. CASE n.sql = "failed"
    BY <2>3 DEF PagerSees
  <2> QED
    BY <1>3, <2>2, <2>3
<1> QED
  BY <1>2, <1>3, <1>4, <1>5, Advance DEF ConnSound

\* A version is pinned or released between transactions.
LEMMA PinStep ==
    ASSUME IInv, NEW c \in Conn, (\E v \in Versions : PinVersion(c, v)) \/ UnpinVersion(c)
    PROVE  IInv'
<1> DEFINE s == conn[c]
<1>1. s \in Connection /\ ConnSound(ver, db, s) /\ ver \in Versions
  BY DEF IInv, ConnTypeOK
<1>2. NoVersion <= ver
  BY SMTT(30), <1>1, ConnectionAssumption DEF Versions, NoVersion
<1>3. PICK v \in Versions \cup {NoVersion} :
        v <= ver /\ Become(c, [s EXCEPT !.fixed_version = v]) /\ UNCHANGED <<ver, db, log>>
  BY <1>2 DEF PinVersion, UnpinVersion
<1> DEFINE n == [s EXCEPT !.fixed_version = v]
<1>4. /\ n \in Connection /\ n.lock = s.lock /\ n.txn = s.txn /\ n.sql = s.sql
      /\ n.last_known = s.last_known /\ n.fixed_version = v
      /\ n.page_cache = s.page_cache /\ n.buffer = s.buffer
      /\ n.write_buffer = s.write_buffer /\ n.pager = s.pager
      /\ n.tracked = s.tracked /\ n.read_set = s.read_set
  BY <1>1 DEF Connection
<1> HIDE DEF n
<1>5. Versioned(ver, n) /\ WritesAreReserved(n) /\ CacheHoldsWrites(n) /\ CacheCoherent(db, n)
  BY SMTT(30), <1>1, <1>3, <1>4
     DEF ConnSound, Versioned, WritesAreReserved, CacheHoldsWrites, CacheCoherent, Seen
<1>6. PagerSees(db, n)
  BY SMTT(30), <1>1, <1>4 DEF ConnSound, PagerSees, Seen
<1> QED
  BY <1>3, <1>4, <1>5, <1>6, Advance DEF ConnSound, n

\* The page cache and SQLite's cache drop pages; those in the write buffer stay
\* in the page cache.
LEMMA DropPageStep ==
    ASSUME IInv, ~EvictBuffered, NEW c \in Conn, NEW p \in Page, Evict(c, p) \/ PagerDrops(c, p)
    PROVE  IInv'
<1> DEFINE s == conn[c]
<1>1. s \in Connection /\ ConnSound(ver, db, s) /\ s.page_cache \in Pages /\ s.pager \in Pages
  BY DEF IInv, ConnTypeOK, Connection
<1>2. PICK m \in Pages, g \in Pages :
        /\ Become(c, [s EXCEPT !.page_cache = m, !.pager = g]) /\ UNCHANGED <<ver, db, log>>
        /\ \A q \in Page : m[q] = s.page_cache[q] \/ (m[q] = NoPage /\ s.write_buffer[q] = NoPage)
        /\ \A q \in Page : g[q] = s.pager[q] \/ g[q] = NoPage
  <2>1. CASE Evict(c, p)
    <3> DEFINE m == [s.page_cache EXCEPT ![p] = NoPage]
    <3>1. m \in Pages /\ \A q \in Page : m[q] = IF q = p THEN NoPage ELSE s.page_cache[q]
      BY <1>1 DEF Pages
    <3>2. [s EXCEPT !.page_cache[p] = NoPage] = [s EXCEPT !.page_cache = m, !.pager = s.pager]
      BY <1>1 DEF Connection
    <3>3. /\ Become(c, [s EXCEPT !.page_cache = m, !.pager = s.pager])
          /\ UNCHANGED <<ver, db, log>> /\ s.write_buffer[p] = NoPage
      BY <2>1, <3>2 DEF Evict
    <3> HIDE DEF m
    <3> QED
      BY <1>1, <3>1, <3>3
  <2>2. CASE PagerDrops(c, p)
    <3> DEFINE g == [s.pager EXCEPT ![p] = NoPage]
    <3>1. g \in Pages /\ \A q \in Page : g[q] = IF q = p THEN NoPage ELSE s.pager[q]
      BY <1>1 DEF Pages
    <3>2. [s EXCEPT !.pager[p] = NoPage] = [s EXCEPT !.page_cache = s.page_cache, !.pager = g]
      BY <1>1 DEF Connection
    <3>3. /\ Become(c, [s EXCEPT !.page_cache = s.page_cache, !.pager = g])
          /\ UNCHANGED <<ver, db, log>>
      BY <2>2, <3>2 DEF PagerDrops
    <3> HIDE DEF g
    <3> QED
      BY <1>1, <3>1, <3>3
  <2> QED
    BY <2>1, <2>2
<1> DEFINE n == [s EXCEPT !.page_cache = m, !.pager = g]
<1>3. /\ n \in Connection /\ n.lock = s.lock /\ n.txn = s.txn /\ n.sql = s.sql
      /\ n.last_known = s.last_known /\ n.fixed_version = s.fixed_version
      /\ n.page_cache = m /\ n.buffer = s.buffer
      /\ n.write_buffer = s.write_buffer /\ n.pager = g
      /\ n.tracked = s.tracked /\ n.read_set = s.read_set
  BY <1>1 DEF Connection
<1> HIDE DEF n
<1>4. Versioned(ver, n) /\ WritesAreReserved(n)
  BY <1>1, <1>3 DEF ConnSound, Versioned, WritesAreReserved
<1>5. CacheHoldsWrites(n) /\ CacheCoherent(db, n)
  BY SMTT(30), <1>1, <1>2, <1>3 DEF ConnSound, CacheHoldsWrites, CacheCoherent, Seen
<1>6. PagerSees(db, n)
  BY SMTT(30), <1>1, <1>2, <1>3 DEF ConnSound, PagerSees, Seen
<1> QED
  BY <1>2, <1>3, <1>4, <1>5, <1>6, Advance DEF ConnSound, n

\* A process that starts again has opened its files anew.
LEMMA OpenedSound ==
    ASSUME NEW now \in Nat, NEW d
    PROVE  ConnSound(now, d, Opened)
<1>1. /\ Opened.lock = "none" /\ Opened.txn = NoVersion /\ Opened.buffer = NoPages
      /\ Opened.write_buffer = NoPages /\ Opened.page_cache = NoPages
      /\ Opened.last_known = NoVersion /\ Opened.fixed_version = NoVersion
  BY DEF Opened
<1>2. Versioned(now, Opened)
  BY SMTT(30), <1>1 DEF Versioned, NoVersion
<1> QED
  BY <1>1, <1>2, OpenedType, PageMaps, IdleSound

-----------------------------------------------------------------------------
(* Theorems                                                                *)

\* Every step of a connection leaves it well typed.
LEMMA TypeStep ==
    ASSUME ConnTypeOK, [Next]_vars
    PROVE  ConnTypeOK'
<1>1. CASE UNCHANGED vars
  BY <1>1 DEF ConnTypeOK, vars
<1>2. ASSUME NEW writes \in Pages, OtherCommits(writes) PROVE ConnTypeOK'
  <2>1. Over(writes, db[ver]) \in [Page -> Value] /\ Present(writes) \in SUBSET Page
    BY PageMaps DEF ConnTypeOK, Present
  <2>2. conn' \in [Conn -> Connection]
    BY <1>2 DEF OtherCommits, ConnTypeOK
  <2> QED
    BY <1>2, <2>1, <2>2, TypesGrow DEF OtherCommits
<1>3. ASSUME NEW c \in Conn
      PROVE  /\ conn[c] \in Connection /\ ToFinalize(conn[c]) \in Connection
             /\ conn[c].txn \in Versions \cup {NoVersion} /\ NoVersion \in Versions \cup {NoVersion}
             /\ conn[c].pager \in Pages /\ conn[c].page_cache \in Pages
             /\ conn[c].write_buffer \in Pages /\ conn[c].buffer \in Pages
  BY <1>3, FlushedType DEF ConnTypeOK, Connection
<1>4. ASSUME NEW c \in Conn, LockShared(c) \/ LockReserved(c) PROVE ConnTypeOK'
  <2>1. CASE \E v \in Snapshots(conn[c]) : \E invalid \in Invalidations(conn[c], v) :
               \/ Become(c, [Begin(conn[c], v, invalid) EXCEPT
                                 !.lock = "shared", !.pager = NoPages])
               \/ Become(c, [Begin(conn[c], v, invalid) EXCEPT !.lock = "reserved"])
    <3>0. PICK v \in Snapshots(conn[c]) : \E invalid \in Invalidations(conn[c], v) :
               \/ Become(c, [Begin(conn[c], v, invalid) EXCEPT
                                 !.lock = "shared", !.pager = NoPages])
               \/ Become(c, [Begin(conn[c], v, invalid) EXCEPT !.lock = "reserved"])
      BY <2>1
    <3>1. PICK invalid \in Invalidations(conn[c], v) :
               \/ Become(c, [Begin(conn[c], v, invalid) EXCEPT
                                 !.lock = "shared", !.pager = NoPages])
               \/ Become(c, [Begin(conn[c], v, invalid) EXCEPT !.lock = "reserved"])
      BY <3>0
    <3> DEFINE b == Begin(conn[c], v, invalid)
    <3>2. b \in Connection
      BY <1>3, BeginType, SnapshotTypes
    <3> HIDE DEF b
    <3>3. /\ [b EXCEPT !.lock = "shared", !.pager = NoPages] \in Connection
          /\ [b EXCEPT !.lock = "reserved"] \in Connection
      BY <3>2, PageMaps DEF Connection
    <3> QED
      BY <3>1, <3>3, <1>4, TypesKept DEF b, LockShared, LockReserved
  <2>2. CASE Become(c, [conn[c] EXCEPT !.lock = "reserved"])
    <3>1. [conn[c] EXCEPT !.lock = "reserved"] \in Connection
      BY SMTT(30), <1>3 DEF Connection
    <3> QED
      BY <1>4, <2>2, <3>1, TypesKept DEF LockShared, LockReserved
  <2> QED
    BY <1>4, <2>1, <2>2 DEF LockShared, LockReserved, PagerAfterSharedLock
<1>5. ASSUME NEW c \in Conn, NEW p \in Page, Read(c, p) PROVE ConnTypeOK'
  <2> DEFINE s == conn[c]
             marked == [s EXCEPT !.read_set = MarkRead(s, p)]
  <2>1. MarkRead(s, p) \in SUBSET Page
    BY <1>3 DEF MarkRead, Connection
  <2>2. marked \in Connection /\ marked.pager = s.pager /\ marked.page_cache = s.page_cache
    BY SMTT(30), <1>3, <2>1 DEF Connection
  <2>3. PICK x \in Value \cup {NoPage}, m \in Pages :
          Become(c, [marked EXCEPT !.pager[p] = x, !.page_cache = m])
    <3>1. [marked EXCEPT !.pager[p] = s.page_cache[p]] =
              [marked EXCEPT !.pager[p] = s.page_cache[p], !.page_cache = s.page_cache]
      BY <2>2 DEF Connection
    <3>2. [marked EXCEPT !.pager[p] = s.write_buffer[p]] =
              [marked EXCEPT !.pager[p] = s.write_buffer[p], !.page_cache = s.page_cache]
      BY <2>2 DEF Connection
    <3>3. s.page_cache[p] \in Value \cup {NoPage} /\ s.write_buffer[p] \in Value \cup {NoPage}
      BY <1>3 DEF Pages
    <3>4. ASSUME NEW predicted \in SUBSET (Page \ Present(s.page_cache)), s.txn # NoVersion
          PROVE  LET fetched == Without(ReadMany(s), Page \ (predicted \cup {p}))
                 IN  /\ fetched[p] \in Value \cup {NoPage}
                     /\ Over(fetched, marked.page_cache) \in Pages
      <4>1. db[s.txn] \in [Page -> Value]
        BY <1>3, <3>4 DEF ConnTypeOK
      <4>2. ReadMany(s) \in Pages
        BY <1>3, <4>1, PageMaps DEF ReadMany
      <4>3. Without(ReadMany(s), Page \ (predicted \cup {p})) \in Pages
        BY <4>2, PageMaps
      <4> QED
        BY <1>3, <2>2, <4>3, PageMaps DEF Pages
    <3> HIDE DEF marked
    <3> QED
      BY <1>3, <1>5, <3>1, <3>2, <3>3, <3>4 DEF Read, marked
  <2> HIDE DEF marked
  <2>4. [s.pager EXCEPT ![p] = x] \in Pages
    BY <1>3 DEF Pages
  <2>5. [marked EXCEPT !.pager[p] = x, !.page_cache = m] \in Connection
    BY <2>2, <2>4 DEF Connection
  <2> QED
    BY <1>5, <2>3, <2>5, TypesKept DEF Read
<1>6. ASSUME NEW c \in Conn, NEW p \in Page, NEW x \in Value, Write(c, p, x) PROVE ConnTypeOK'
  <2> DEFINE s == conn[c]
             n == [s EXCEPT !.pager[p] = x, !.page_cache[p] = x, !.write_buffer[p] = x]
  <2>1. /\ [s.pager EXCEPT ![p] = x] \in Pages /\ [s.page_cache EXCEPT ![p] = x] \in Pages
        /\ [s.write_buffer EXCEPT ![p] = x] \in Pages
    BY <1>3 DEF Pages
  <2>2. [s EXCEPT !.pager[p] = x] \in Connection /\ n \in Connection
    <3>1. s \in Connection
      BY <1>3
    <3> HIDE DEF s
    <3>2. [s EXCEPT !.pager[p] = x] \in Connection
      BY <2>1, <3>1 DEF Connection
    <3>3. n \in Connection
      BY <2>1, <3>1 DEF Connection
    <3> QED
      BY <3>2, <3>3
  <2> HIDE DEF n
  <2>3. MaybeFlush(n) \in Connection
    BY <2>2, FlushedType
  <2> QED
    BY <1>6, <2>2, <2>3, TypesKept DEF Write, n
<1>7. ASSUME NEW c \in Conn,
             \/ Rollback(c) \/ DropSnapshotWrites(c) \/ CommitEmpty(c) \/ CommitStuck(c)
             \/ CommitConflict(c) \/ UnlockNone(c)
      PROVE  ConnTypeOK'
  <2> DEFINE s == ToFinalize(conn[c])
             S == DirtyPages(s)
             e == Ended(s, NoVersion)
  <2>1. s \in Connection /\ e \in Connection /\ Ended(s, s.txn) \in Connection
    BY <1>3, EndedType DEF Connection
  <2> HIDE DEF s
  <2>2. /\ e.page_cache \in Pages /\ e.pager \in Pages
        /\ Without(e.page_cache, S) \in Pages /\ Without(e.pager, S) \in Pages
    BY <2>1, PageMaps DEF Connection
  <2> HIDE DEF e, S
  <2>3. /\ [e EXCEPT !.page_cache = Without(@, S)] \in Connection
        /\ [e EXCEPT !.page_cache = Without(@, S), !.pager = Without(@, S)] \in Connection
        /\ [[e EXCEPT !.page_cache = Without(@, S), !.pager = Without(@, S)]
                EXCEPT !.lock = "none", !.sql = "running"] \in Connection
        /\ [s EXCEPT !.sql = "stuck"] \in Connection
    <3>1. [e EXCEPT !.page_cache = Without(@, S)] \in Connection
      BY <2>1, <2>2 DEF Connection
    <3>2. [e EXCEPT !.page_cache = Without(@, S), !.pager = Without(@, S)] \in Connection
      BY <2>1, <2>2 DEF Connection
    <3>3. \A y \in Connection : [y EXCEPT !.lock = "none", !.sql = "running"] \in Connection
      BY DEF Connection
    <3>4. [s EXCEPT !.sql = "stuck"] \in Connection
      BY <2>1 DEF Connection
    <3> QED
      BY <3>1, <3>2, <3>3, <3>4
  <2>4. [Ended(conn[c], NoVersion) EXCEPT !.lock = "none", !.sql = "running"] \in Connection
    <3>1. Ended(conn[c], NoVersion) \in Connection
      BY <1>3, EndedType
    <3> QED
      BY <3>1 DEF Connection
  <2>5. UNCHANGED <<ver, db, log>>
    BY <1>7 DEF Rollback, DropSnapshotWrites, CommitEmpty, CommitStuck, CommitConflict, UnlockNone
  <2>6. \E n \in Connection : Become(c, n)
    <3>1. CASE Rollback(c)
      BY <2>3, <3>1, AfterUnlockType DEF Rollback, s, e, S
    <3>2. CASE DropSnapshotWrites(c) \/ CommitConflict(c)
      BY <2>3, <3>2, AfterUnlockType DEF DropSnapshotWrites, CommitConflict, s, e, S
    <3>3. CASE CommitEmpty(c)
      BY <2>1, <3>3, AfterUnlockType DEF CommitEmpty, s
    <3>4. CASE CommitStuck(c) \/ UnlockNone(c)
      BY <2>3, <2>4, <3>4 DEF CommitStuck, UnlockNone, s
    <3> QED
      BY <1>7, <3>1, <3>2, <3>3, <3>4
  <2> QED
    BY <2>5, <2>6, TypesKept
<1>8. ASSUME NEW c \in Conn, CommitOk(c) PROVE ConnTypeOK'
  <2> DEFINE s == ToFinalize(conn[c])
  <2>1. /\ s \in Connection /\ ver + 1 \in Versions
        /\ ver < MaxVersion /\ ver' = ver + 1 /\ db' = [db EXCEPT ![ver + 1] = Applied(s)]
        /\ log' = [log EXCEPT ![ver + 1] = DirtyPages(s)]
    BY SMTT(30), <1>3, <1>8, ConnectionAssumption DEF CommitOk, ConnTypeOK, Versions
  <2>2. PICK invalid \in InvalidatedByCommit(s) :
          \E n \in AfterUnlock([Ended(s, ver + 1) EXCEPT !.page_cache = Without(@, invalid),
                                                         !.last_known = ver + 1]) :
             Become(c, n)
    BY <1>8 DEF CommitOk
  <2> HIDE DEF s
  <2>3. Applied(s) \in [Page -> Value] /\ DirtyPages(s) \in SUBSET Page
    <3>1. db[ver] \in [Page -> Value] /\ s.buffer \in Pages /\ s.write_buffer \in Pages
      BY <2>1 DEF ConnTypeOK, Connection
    <3> QED
      BY <3>1, PageMaps DEF Applied, DirtyPages, Present
  <2> DEFINE e == Ended(s, ver + 1)
  <2>4. e \in Connection /\ Without(e.page_cache, invalid) \in Pages
    BY <2>1, EndedType, PageMaps DEF Connection
  <2> HIDE DEF e
  <2>5. [e EXCEPT !.page_cache = Without(@, invalid), !.last_known = ver + 1] \in Connection
    BY <2>1, <2>4 DEF Connection
  <2>6. PICK n \in Connection : Become(c, n)
    BY <2>2, <2>5, AfterUnlockType DEF e
  <2>7. conn' \in [Conn -> Connection]
    BY <2>6 DEF Become, ConnTypeOK
  <2> QED
    BY <2>1, <2>3, <2>7, TypesGrow
<1>9. ASSUME NEW c \in Conn, NEW p \in Page, Evict(c, p) \/ PagerDrops(c, p) PROVE ConnTypeOK'
  <2>1. /\ [conn[c].page_cache EXCEPT ![p] = NoPage] \in Pages
        /\ [conn[c].pager EXCEPT ![p] = NoPage] \in Pages
    BY <1>3 DEF Pages
  <2>2. /\ [conn[c] EXCEPT !.page_cache[p] = NoPage] \in Connection
        /\ [conn[c] EXCEPT !.pager[p] = NoPage] \in Connection
    BY SMTT(30), <1>3, <2>1 DEF Connection
  <2> QED
    BY <1>9, <2>2, TypesKept DEF Evict, PagerDrops
<1>10. ASSUME NEW c \in Conn,
              \/ ConfirmCommit(c) \/ UnpinVersion(c) \/ Abort(c)
              \/ \E p \in Page : ReadWithoutTransaction(c, p)
              \/ \E v \in Versions : PinVersion(c, v)
       PROVE  ConnTypeOK'
  <2>1. /\ [conn[c] EXCEPT !.commit_confirmed = TRUE] \in Connection
        /\ [conn[c] EXCEPT !.sql = "failed"] \in Connection
        /\ [conn[c] EXCEPT !.fixed_version = NoVersion] \in Connection
        /\ \A v \in Versions : [conn[c] EXCEPT !.fixed_version = v] \in Connection
    BY <1>3 DEF Connection
  <2>2. \E n \in Connection : Become(c, n) /\ UNCHANGED <<ver, db, log>>
    BY <1>10, <2>1, OpenedType
       DEF ConfirmCommit, UnpinVersion, Abort, ReadWithoutTransaction, PinVersion
  <2> QED
    BY <2>2, TypesKept
<1> QED
  BY <1>1, <1>2, <1>4, <1>5, <1>6, <1>7, <1>8, <1>9, <1>10 DEF Next

\* The store and the connections start well typed (vfs.rs, Connection::new).
LEMMA InitTypes ==
    ASSUME Init
    PROVE  ConnTypeOK /\ ver = 0
BY SMTT(30), OpenedType, ConnectionAssumption DEF Init, ConnTypeOK, Versions

\* Connections and the store keep the shape of the structs they model, for any
\* number of them, whatever the page cache evicts.
THEOREM Spec_ConnTypeOK == Spec => []ConnTypeOK
<1>1. Init => ConnTypeOK
  BY InitTypes
<1>2. ConnTypeOK /\ [Next]_vars => ConnTypeOK'
  BY TypeStep
<1> QED
  BY <1>1, <1>2, PTL DEF Spec

\* Every step of a connection, of another client or of the process keeps the
\* inductive invariant.
LEMMA InvStep ==
    ASSUME ~EvictBuffered, IInv, [Next]_vars
    PROVE  IInv'
<1>1. CASE UNCHANGED vars
  <2>1. ver' = ver /\ db' = db /\ log' = log /\ conn' = conn
    BY <1>1 DEF vars
  <2>2. ConnTypeOK'
    BY <2>1 DEF IInv, ConnTypeOK
  <2>3. HistoryKept'
    BY SMTT(30), <2>1 DEF IInv, HistoryKept, ChangedBetween
  <2> QED
    BY <2>1, <2>2, <2>3 DEF IInv
<1>2. ASSUME NEW writes \in Pages, OtherCommits(writes) PROVE IInv'
  BY <1>2, OtherCommitsStep
<1>3. ASSUME NEW c \in Conn, LockShared(c) \/ LockReserved(c) \/ UnlockNone(c) PROVE IInv'
  BY <1>3, LockSharedStep, LockReservedStep, UnlockNoneStep
<1>4. ASSUME NEW c \in Conn, NEW p \in Page, Read(c, p) PROVE IInv'
  BY <1>4, ReadStep
<1>5. ASSUME NEW c \in Conn, NEW p \in Page, NEW x \in Value, Write(c, p, x) PROVE IInv'
  BY <1>5, WriteStep
<1>6. ASSUME NEW c \in Conn, NEW p \in Page, Evict(c, p) \/ PagerDrops(c, p) PROVE IInv'
  BY <1>6, DropPageStep
<1>7. ASSUME NEW c \in Conn, ConfirmCommit(c) \/ \E p \in Page : ReadWithoutTransaction(c, p)
      PROVE  IInv'
  BY <1>7, MarkStep
<1>8. ASSUME NEW c \in Conn, Rollback(c) PROVE IInv'
  BY <1>8, RollbackStep
<1>9. ASSUME NEW c \in Conn, DropSnapshotWrites(c) \/ CommitConflict(c) PROVE IInv'
  BY <1>9, DropStep
<1>10. ASSUME NEW c \in Conn, CommitEmpty(c) PROVE IInv'
  BY <1>10, CommitEmptyStep
<1>11. ASSUME NEW c \in Conn, CommitStuck(c) PROVE IInv'
  BY <1>11, CommitStuckStep
<1>12. ASSUME NEW c \in Conn, CommitOk(c) PROVE IInv'
  BY <1>12, CommitOkStep
<1>13. ASSUME NEW c \in Conn, (\E v \in Versions : PinVersion(c, v)) \/ UnpinVersion(c)
       PROVE  IInv'
  BY <1>13, PinStep
<1>14. ASSUME NEW c \in Conn, Abort(c) PROVE IInv'
  <2>1. ver \in Nat
    BY SMTT(30), ConnectionAssumption DEF IInv, ConnTypeOK, Versions
  <2> QED
    BY <1>14, <2>1, OpenedType, OpenedSound, Advance DEF Abort
<1> QED
  BY <1>1, <1>2, <1>3, <1>4, <1>5, <1>6, <1>7, <1>8, <1>9, <1>10, <1>11, <1>12, <1>13, <1>14
     DEF Next

\* The inductive invariant holds in every state, if the page cache evicts no
\* page that is still in the write buffer.
THEOREM Spec_IInv ==
    ASSUME ~EvictBuffered
    PROVE  Spec => []IInv
<1>1. ASSUME Init PROVE IInv
  <2>1. ConnTypeOK /\ ver = 0
    BY <1>1, InitTypes
  <2>2. HistoryKept
    BY SMTT(30), <1>1, <2>1 DEF Init, HistoryKept, ConnTypeOK
  <2>3. \A c \in Conn : ConnSound(ver, db, conn[c])
    BY <1>1, <2>1, OpenedSound DEF Init
  <2> QED
    BY <2>1, <2>2, <2>3 DEF IInv
<1>2. IInv /\ [Next]_vars => IInv'
  BY InvStep
<1> QED
  BY <1>1, <1>2, PTL DEF Spec

\* Every page SQLite holds while it runs statements is the page at the version
\* of its transaction with the transaction's writes on top, through the page
\* cache, the write buffer, prefetches, flushes, conflicts and rollbacks.
THEOREM Spec_SqliteSeesSnapshot ==
    ASSUME ~EvictBuffered
    PROVE  Spec => []SqliteSeesSnapshot
<1>1. IInv => SqliteSeesSnapshot
  <2> SUFFICES ASSUME IInv, NEW c \in Conn, conn[c].sql = "running", conn[c].lock # "none",
                      NEW p \in Page, conn[c].pager[p] # NoPage
               PROVE  conn[c].pager[p] = Expected(conn[c])[p]
    BY DEF SqliteSeesSnapshot, Present
  <2>1. conn[c].pager[p] = Seen(db, conn[c], p) /\ conn[c].txn = conn[c].last_known
    BY DEF IInv, ConnSound, PagerSees, Versioned
  <2>2. Expected(conn[c])[p] = Seen(db, conn[c], p)
    BY <2>1 DEF Expected, ReadMany, Over, Seen
  <2> QED
    BY <2>1, <2>2
<1> QED
  BY <1>1, Spec_IInv, PTL

\* The page cache agrees with the version the connection names in its next stat
\* and with the writes of the open transaction: nothing rolled back,
\* conflicting or overwritten survives in it.
THEOREM Spec_PageCacheCoherent ==
    ASSUME ~EvictBuffered
    PROVE  Spec => []PageCacheCoherent
<1>1. IInv => PageCacheCoherent
  <2> SUFFICES ASSUME IInv, NEW c \in Conn, NEW p \in Page, conn[c].page_cache[p] # NoPage
               PROVE  /\ conn[c].last_known # NoVersion
                      /\ conn[c].page_cache[p] =
                            Over(conn[c].write_buffer,
                                 Over(conn[c].buffer, db[conn[c].last_known]))[p]
    BY DEF PageCacheCoherent, Present
  <2>1. conn[c].last_known # NoVersion /\ conn[c].page_cache[p] = Seen(db, conn[c], p)
    BY DEF IInv, ConnSound, CacheCoherent
  <2> QED
    BY <2>1 DEF Over, Seen
<1> QED
  BY <1>1, Spec_IInv, PTL

\* No lost update: when a commit is accepted, everything SQLite holds is the
\* latest snapshot with its own writes on top, whatever other connections
\* committed since the transaction began.
THEOREM Spec_CommitOnCurrentPages ==
    ASSUME ~EvictBuffered
    PROVE  Spec => CommitOnCurrentPages
<1> DEFINE Current == \A c \in Conn : CommitOk(c) /\ conn[c].sql = "running" =>
                          \A p \in Present(conn[c].pager) :
                              conn[c].pager[p] = Over(conn[c].write_buffer,
                                                      Over(conn[c].buffer, db[ver]))[p]
<1>1. ASSUME IInv PROVE Current
  <2> SUFFICES ASSUME NEW c \in Conn, CommitOk(c), conn[c].sql = "running",
                      NEW p \in Page, conn[c].pager[p] # NoPage
               PROVE  conn[c].pager[p] = Over(conn[c].write_buffer,
                                              Over(conn[c].buffer, db[ver]))[p]
    BY DEF Present
  <2> DEFINE s == ToFinalize(conn[c])
  <2>1. Finalizes(c) /\ conn[c].lock = "reserved" /\ ReadsStillValid(s)
    BY DEF CommitOk, Commits, Finalizes
  <2>2. /\ s.txn = conn[c].txn /\ s.tracked = conn[c].tracked /\ s.read_set = conn[c].read_set
        /\ s.txn \in 0 .. ver /\ s.txn = conn[c].last_known
    <3>1. /\ s.txn = conn[c].txn /\ s.tracked = conn[c].tracked
          /\ s.read_set = conn[c].read_set /\ s.txn \in 0 .. ver /\ s.txn # NoVersion
      BY <1>1, <2>1, ToFinalizeSound
    <3> QED
      BY <1>1, <3>1 DEF IInv, ConnSound, Versioned
  <2>3. p \in conn[c].read_set /\ conn[c].pager[p] = Seen(db, conn[c], p)
    BY <1>1, <2>1 DEF IInv, ConnSound, PagerSees
  <2> HIDE DEF s
  <2>4. db[ver][p] = db[s.txn][p]
    <3>1. CASE s.txn = ver
      BY <3>1
    <3>2. CASE p \notin ChangedBetween(s.txn, ver)
      <4>1. ver \in 0 .. ver /\ s.txn <= ver
        BY SMTT(30), <1>1, <2>2, ConnectionAssumption DEF IInv, ConnTypeOK, Versions
      <4> QED
        BY <1>1, <2>2, <3>2, <4>1 DEF IInv, HistoryKept
    <3> QED
      BY <2>1, <2>2, <2>3, <3>1, <3>2 DEF ReadsStillValid
  <2> QED
    BY <2>2, <2>3, <2>4 DEF Over, Seen
<1>2. IInv => [Current]_vars
  BY <1>1
<1> QED
  BY <1>2, Spec_IInv, PTL DEF CommitOnCurrentPages
=============================================================================
