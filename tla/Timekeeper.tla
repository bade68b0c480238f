----------------------------- MODULE Timekeeper -----------------------------
(***************************************************************************)
(* The timekeeper: a task of every server that, under a distributed lock,  *)
(* writes pairs (time, version) from which time2version answers queries.   *)
(* The lock (lock.rs) is a key with an owner and an expiry in wall-clock   *)
(* seconds, renewed by a background task.  It does not exclude anyone by   *)
(* itself: a holder may be suspended past its expiry.  Every transaction   *)
(* of a holder reads the lock key, and FoundationDB refuses it if the key  *)
(* changed before it commits.                                              *)
(*                                                                         *)
(* A transaction is the flag stale: has the lock key been written since    *)
(* the transaction read it?                                                *)
(***************************************************************************)
EXTENDS Integers, FiniteSets

CONSTANTS
    Keeper,     \* servers, each running globaltask_timekeeper
    NoKeeper,   \* owner of an absent lock key
    Ttl,        \* lifetime of the lock after a renewal, in seconds
    MaxSkew,    \* how far a server's clock may be behind, in seconds
    MaxTime,    \* clock (bound)
    MaxPairs  \* pairs written (bound)

VARIABLES
    clock,  \* wall clock
    lock,   \* the lock key
    t2v,    \* time -> version, 0 where there is no pair
    pairs,    \* version of the last pair written
    sv      \* state of each server

tkVars == <<clock, lock, t2v, pairs, sv>>

ASSUME TimekeeperAssumption == /\ NoKeeper \notin Keeper
                               /\ {Ttl, MaxSkew, MaxTime, MaxPairs} \subseteq Nat

Time == 0 .. MaxTime
Clocks == {t \in Time : clock - MaxSkew <= t /\ t <= clock}
Unlocked == [owner |-> NoKeeper, expiry |-> 0]

\* task: globaltask_timekeeper.  bg: the background task that renews the lock,
\* then unlocks.  renewing: a transaction of renew_loop is open; it may
\* outlive the loop.  One read time and one stale flag per transaction.
Closed == [open |-> FALSE, now |-> 0, stale |-> FALSE]
Stopped == [task |-> "idle", txn |-> Closed, bg |-> "none", clear |-> Closed, renew |-> Closed]

TkInit ==
    /\ clock = 1 /\ lock = Unlocked /\ pairs = 0
    /\ t2v = [t \in Time |-> 0]
    /\ sv = [s \in Keeper |-> Stopped]

Opened(now) == [open |-> TRUE, now |-> now, stale |-> FALSE]
Become(s, r) == sv' = [sv EXCEPT ![s] = r]

\* Every open transaction has read the lock key before it is written.
Outdated(t) == [t EXCEPT !.stale = @ \/ t.open]

\* Commit a write l to the lock key; the server that writes it becomes r.
WriteLock(s, l, r) ==
    /\ lock' = l
    /\ sv' = [x \in Keeper |->
                LET q == IF x = s THEN r ELSE sv[x]
                IN  [q EXCEPT !.txn = Outdated(@), !.clear = Outdated(@),
                              !.renew = Outdated(@)]]

-----------------------------------------------------------------------------
(* DistributedLock::lock                                                   *)

\* Mutant: the lock key is read at a snapshot.
ConflictNever(t) == FALSE

\* The lock key is read with a conflict range.
Conflict(t) == t.stale

Expiry(now) == now + Ttl

LockRead(s) ==
    /\ sv[s].task = "idle"
    /\ \E now \in Clocks : /\ lock = Unlocked \/ now >= lock.expiry
                           /\ Become(s, [sv[s] EXCEPT !.task = "locking", !.txn = Opened(now)])
    /\ UNCHANGED <<clock, lock, t2v, pairs>>

\* If the outcome is unknown, lock() finds its own lock and reports failure.
LockCommit(s) ==
    /\ sv[s].task = "locking" /\ ~Conflict(sv[s].txn)
    /\ \E known \in BOOLEAN :
          WriteLock(s, [owner |-> s, expiry |-> Expiry(sv[s].txn.now)],
                    [sv[s] EXCEPT !.task = IF known THEN "running" ELSE "idle",
                                  !.bg = IF known THEN "renewing" ELSE "none",
                                  !.txn = Closed])
    /\ UNCHANGED <<clock, t2v, pairs>>

LockConflict(s) ==
    /\ sv[s].task = "locking"
    /\ Become(s, [sv[s] EXCEPT !.task = "idle", !.txn = Closed])
    /\ UNCHANGED <<clock, lock, t2v, pairs>>

-----------------------------------------------------------------------------
(* The background task: renew_loop, then one attempt to unlock.            *)
RenewRead(s) ==
    /\ sv[s].bg = "renewing" /\ ~sv[s].renew.open
    /\ \/ /\ lock.owner = s
          /\ \E now \in Clocks : Become(s, [sv[s] EXCEPT !.renew = Opened(now)])
       \/ /\ lock.owner # s
          /\ Become(s, [sv[s] EXCEPT !.bg = "unlocking"])
    /\ UNCHANGED <<clock, lock, t2v, pairs>>

RenewCommit(s) ==
    /\ sv[s].renew.open /\ ~Conflict(sv[s].renew)
    /\ WriteLock(s, [lock EXCEPT !.expiry = Expiry(sv[s].renew.now)],
                 [sv[s] EXCEPT !.renew = Closed])
    /\ UNCHANGED <<clock, t2v, pairs>>

\* A conflict, to be retried, or an error that ends the loop.
RenewFails(s) ==
    /\ sv[s].renew.open
    /\ \E bg \in {sv[s].bg} \cup (IF sv[s].bg = "renewing" THEN {"unlocking"} ELSE {}) :
          Become(s, [sv[s] EXCEPT !.renew = Closed, !.bg = bg])
    /\ UNCHANGED <<clock, lock, t2v, pairs>>

UnlockRead(s) ==
    /\ sv[s].bg = "unlocking"
    /\ Become(s, IF lock.owner = s
                 THEN [sv[s] EXCEPT !.bg = "clearing", !.clear = Opened(clock)]
                 ELSE [sv[s] EXCEPT !.bg = "none"])
    /\ UNCHANGED <<clock, lock, t2v, pairs>>

UnlockCommit(s) ==
    /\ sv[s].bg = "clearing" /\ ~Conflict(sv[s].clear)
    /\ WriteLock(s, Unlocked, [sv[s] EXCEPT !.bg = "none", !.clear = Closed])
    /\ UNCHANGED <<clock, t2v, pairs>>

UnlockFails(s) ==
    /\ sv[s].bg = "clearing"
    /\ Become(s, [sv[s] EXCEPT !.bg = "none", !.clear = Closed])
    /\ UNCHANGED <<clock, lock, t2v, pairs>>

-----------------------------------------------------------------------------
(* globaltask_timekeeper, once it has the lock                             *)

\* create_txn_and_check_sync, then the clock is read.
CheckSync(s) ==
    /\ sv[s].task = "running"
    /\ \/ /\ lock.owner = s
          /\ \E now \in Clocks :
                Become(s, [sv[s] EXCEPT !.task = "writing", !.txn = Opened(now)])
       \/ /\ lock.owner # s
          /\ Become(s, [sv[s] EXCEPT !.task = "stopping"])
    /\ UNCHANGED <<clock, lock, t2v, pairs>>

\* Known to have committed or not, the next pair is the next thing to write.
WritePair(s) ==
    /\ sv[s].task = "writing" /\ ~Conflict(sv[s].txn) /\ pairs < MaxPairs
    /\ pairs' = pairs + 1
    /\ t2v' = [t2v EXCEPT ![sv[s].txn.now] = pairs + 1]
    /\ Become(s, [sv[s] EXCEPT !.task = "running", !.txn = Closed])
    /\ UNCHANGED <<clock, lock>>

\* A conflict, to be retried, or an error that gives up the lock.
WriteFails(s) ==
    /\ sv[s].task = "writing"
    /\ \E task \in {"running", "stopping"} :
          Become(s, [sv[s] EXCEPT !.task = task, !.txn = Closed])
    /\ UNCHANGED <<clock, lock, t2v, pairs>>

\* DistributedLock::unlock asks the background task to end, and waits for it.
Unlock(s) ==
    /\ sv[s].task = "stopping"
    /\ \/ /\ sv[s].bg = "renewing"
          /\ Become(s, [sv[s] EXCEPT !.bg = "unlocking"])
       \/ /\ sv[s].bg = "none"
          /\ Become(s, [sv[s] EXCEPT !.task = "idle"])
    /\ UNCHANGED <<clock, lock, t2v, pairs>>

Restart(s) ==
    /\ Become(s, Stopped)
    /\ UNCHANGED <<clock, lock, t2v, pairs>>

Tick == /\ clock < MaxTime
        /\ clock' = clock + 1
        /\ UNCHANGED <<lock, t2v, pairs, sv>>

TkNext ==
        \/ Tick
        \/ \E s \in Keeper :
              \/ LockRead(s) \/ LockCommit(s) \/ LockConflict(s)
              \/ RenewRead(s) \/ RenewCommit(s) \/ RenewFails(s)
              \/ UnlockRead(s) \/ UnlockCommit(s) \/ UnlockFails(s)
              \/ CheckSync(s) \/ WritePair(s) \/ WriteFails(s) \/ Unlock(s)
              \/ Restart(s)

TkSpec == TkInit /\ [][TkNext]_tkVars

-----------------------------------------------------------------------------
(* time2version: the last pair before a time, the first one not before it. *)
NoPoint == [time |-> 0, version |-> 0]
Point(t) == [time |-> t, version |-> t2v[t]]
PairTimes == {t \in Time : t2v[t] # 0}

After(q) ==
    LET S == {t \in PairTimes : t < q}
    IN  IF S = {} THEN NoPoint ELSE Point(CHOOSE t \in S : \A x \in S : x <= t)

NotAfter(q) ==
    LET S == {t \in PairTimes : t >= q}
    IN  IF S = {} THEN NoPoint ELSE Point(CHOOSE t \in S : \A x \in S : x >= t)

-----------------------------------------------------------------------------
(* Properties.                                                             *)

\* The two points time2version returns bracket the time asked for, in version
\* order as well as in time order: whoever wrote them, however long the writer
\* was suspended between reading its clock and committing, and although the
\* lock passed from server to server by expiry in the meantime.  (It takes two
\* pairs.)
QueryBrackets ==
    pairs > 1 => \A q \in Time : After(q) # NoPoint /\ NotAfter(q) # NoPoint =>
        /\ After(q).time < q /\ q <= NotAfter(q).time
        /\ After(q).version < NotAfter(q).version

\* The lock key passes to another server only once it has expired: a renewal
\* that commits between a contender's read and its commit keeps the lock, and
\* a late unlock or renewal never touches the lock of another server.
PreemptedOnlyWhenExpired ==
    [][\A s \in Keeper : lock.owner = s /\ lock'.owner # s =>
           clock >= lock.expiry \/ UnlockCommit(s)]_tkVars
=============================================================================
