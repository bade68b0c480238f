---------------------------- MODULE ServerProofs ----------------------------
(***************************************************************************)
(* Proofs about what a server does besides serving pages: the timekeeper   *)
(* under its distributed lock, and the administration of namespaces.       *)
(***************************************************************************)
EXTENDS Timekeeper, Namespaces, FiniteSetTheorems, TLAPS

\* Leaves are given to Zenon unless they name another prover.
USE ZenonT(30)

-----------------------------------------------------------------------------
(* Finite sets of numbers                                                   *)

\* In a finite set that is ordered by a relation there is a first element.
LEMMA FiniteFirst ==
    ASSUME NEW S, IsFiniteSet(S), S # {}, NEW R,
           \A a \in S : <<a, a>> \notin R,
           \A a, b, c \in S : <<a, b>> \in R /\ <<b, c>> \in R => <<a, c>> \in R
    PROVE  \E k \in S : \A j \in S : <<j, k>> \notin R
<1> DEFINE Below(k) == {j \in S : <<j, k>> \in R}
           T == {Below(k) : k \in S}
<1>1. \A k \in S : Below(k) \in FiniteSubsetsOf(S)
  <2> SUFFICES ASSUME NEW k \in S PROVE Below(k) \in FiniteSubsetsOf(S)
    OBVIOUS
  <2>1. Below(k) \in SUBSET S
    OBVIOUS
  <2>2. IsFiniteSet(Below(k))
    BY <2>1, FS_Subset
  <2> QED
    BY <2>1, <2>2 DEF FiniteSubsetsOf
<1> HIDE DEF Below
<1>2. T \subseteq FiniteSubsetsOf(S) /\ T # {}
  BY SMTT(30), <1>1
<1>3. \E x \in T : \A y \in T : ~(<<y, x>> \in StrictSubsetOrdering(S))
  <2> HIDE DEF T
  <2> QED
    BY <1>2, FS_StrictSubsetOrderingWellFounded, WFMin
<1>4. PICK k \in S : \A j \in S : ~(<<Below(j), Below(k)>> \in StrictSubsetOrdering(S))
  BY SMTT(30), <1>3
<1>5. ASSUME NEW j \in S, <<j, k>> \in R PROVE FALSE
  <2>1. Below(j) \subseteq Below(k)
    BY <1>5 DEF Below
  <2>2. j \in Below(k) /\ j \notin Below(j)
    BY <1>5 DEF Below
  <2>3. <<Below(j), Below(k)>> \in StrictSubsetOrdering(S)
    BY <2>1, <2>2, <1>1 DEF StrictSubsetOrdering, FiniteSubsetsOf
  <2> QED
    BY <2>3, <1>4
<1> QED
  BY <1>5

\* A finite set of numbers has a smallest and a largest one.
LEMMA MinMax ==
    ASSUME NEW S \in SUBSET Nat, IsFiniteSet(S), S # {}
    PROVE  /\ \E t \in S : \A x \in S : t <= x
           /\ \E t \in S : \A x \in S : x <= t
<1>1. \E t \in S : \A x \in S : t <= x
  <2> DEFINE R == {p \in Nat \X Nat : p[1] < p[2]}
  <2>1. \A a, b \in Nat : <<a, b>> \in R <=> a < b
    OBVIOUS
  <2> HIDE DEF R
  <2>2. PICK k \in S : \A j \in S : <<j, k>> \notin R
    <3>1. /\ \A a \in S : <<a, a>> \notin R
          /\ \A a, b, c \in S : <<a, b>> \in R /\ <<b, c>> \in R => <<a, c>> \in R
      BY SMTT(30), <2>1
    <3> QED
      BY <3>1, FiniteFirst
  <2>3. \A j \in S : ~(j < k)
    BY <2>1, <2>2
  <2> QED
    BY SMTT(30), <2>3
<1>2. \E t \in S : \A x \in S : x <= t
  <2> DEFINE R == {p \in Nat \X Nat : p[1] > p[2]}
  <2>1. \A a, b \in Nat : <<a, b>> \in R <=> a > b
    OBVIOUS
  <2> HIDE DEF R
  <2>2. PICK k \in S : \A j \in S : <<j, k>> \notin R
    <3>1. /\ \A a \in S : <<a, a>> \notin R
          /\ \A a, b, c \in S : <<a, b>> \in R /\ <<b, c>> \in R => <<a, c>> \in R
      BY SMTT(30), <2>1
    <3> QED
      BY <3>1, FiniteFirst
  <2>3. \A j \in S : ~(j > k)
    BY <2>1, <2>2
  <2> QED
    BY SMTT(30), <2>3
<1> QED
  BY <1>1, <1>2

-----------------------------------------------------------------------------
(* The timekeeper: the inductive invariant                                  *)

Txn == [open : BOOLEAN, now : Nat, stale : BOOLEAN]
Server == [task : {"idle", "locking", "running", "writing", "stopping"}, txn : Txn,
           bg : {"none", "renewing", "unlocking", "clearing"}, clear : Txn, renew : Txn]
LockKey == [owner : Keeper \cup {NoKeeper}, expiry : Nat]

TkTypeOK ==
    /\ clock \in Nat /\ pairs \in Nat
    /\ lock \in LockKey
    /\ t2v \in [Time -> Nat]
    /\ sv \in [Keeper -> Server]

\* The transactions that a server has open.
OpenTxns(q) ==
    /\ q.task \in {"locking", "writing"} => q.txn.open /\ q.txn.now \in Time /\ q.txn.now <= clock
    /\ q.bg = "clearing" => q.clear.open

\* What a transaction that is not outdated has read of the lock key is still so.
LockAsRead(s, q) ==
    /\ q.task = "locking" /\ ~q.txn.stale => lock = Unlocked \/ q.txn.now >= lock.expiry
    /\ q.task = "writing" /\ ~q.txn.stale => lock.owner = s
    /\ q.bg = "clearing" /\ ~q.clear.stale => lock.owner = s
    /\ q.renew.open /\ ~q.renew.stale => lock.owner = s

\* Pairs are written in the order of their times, and the pair that may be
\* written next comes after all of them (if no clock lags behind).
PairsInOrder ==
    /\ \A t \in Time : t2v[t] <= pairs /\ (t2v[t] # 0 => t <= clock)
    /\ \A t, u \in Time : t2v[t] # 0 /\ t2v[u] # 0 /\ t < u => t2v[t] < t2v[u]
    /\ \A s \in Keeper : sv[s].task = "writing" /\ ~sv[s].txn.stale =>
          \A t \in Time : t2v[t] # 0 => t <= sv[s].txn.now

TkInv ==
    /\ TkTypeOK
    /\ \A s \in Keeper : OpenTxns(sv[s]) /\ LockAsRead(s, sv[s])

\* The parts of a server's state, and how they change.
LEMMA TxnTypes ==
    /\ Closed \in Txn /\ Unlocked \in LockKey /\ Stopped \in Server
    /\ \A now \in Nat : Opened(now) \in Txn
    /\ \A t \in Txn : Outdated(t) \in Txn
BY DEF Closed, Txn, Unlocked, LockKey, Stopped, Server, Opened, Outdated

\* A step of one server that leaves the lock key alone.
LEMMA BecomeStep ==
    ASSUME TkInv, NEW s \in Keeper, NEW r \in Server, Become(s, r),
           UNCHANGED <<clock, lock>>, pairs' \in Nat, t2v' \in [Time -> Nat],
           OpenTxns(r), LockAsRead(s, r)
    PROVE  TkInv' /\ sv'[s] = r /\ \A x \in Keeper \ {s} : sv'[x] = sv[x]
<1>1. sv'[s] = r /\ (\A x \in Keeper \ {s} : sv'[x] = sv[x]) /\ sv' \in [Keeper -> Server]
  BY DEF Become, TkInv, TkTypeOK
<1>2. TkTypeOK'
  BY <1>1 DEF TkInv, TkTypeOK
<1>3. ASSUME NEW x \in Keeper \ {s} PROVE OpenTxns(sv[x])' /\ LockAsRead(x, sv[x])'
  BY <1>1 DEF TkInv, OpenTxns, LockAsRead, Time, Unlocked
<1>4. OpenTxns(sv[s])' /\ LockAsRead(s, sv[s])'
  BY <1>1 DEF OpenTxns, LockAsRead, Time, Unlocked
<1> QED
  BY <1>1, <1>2, <1>3, <1>4 DEF TkInv

\* A write of the lock key (lock.rs 97-108, 128-134, 201-207) outdates every
\* transaction that is open, so nobody counts on what the key was.
LEMMA WriteLockStep ==
    ASSUME TkInv, NEW s \in Keeper, NEW l \in LockKey, NEW r \in Server, WriteLock(s, l, r),
           UNCHANGED <<clock, t2v, pairs>>, OpenTxns(r)
    PROVE  TkInv' /\ \A x \in Keeper : sv'[x].task = "writing" => sv'[x].txn.stale
<1> DEFINE q(x) == IF x = s THEN r ELSE sv[x]
           after(x) == [q(x) EXCEPT !.txn = Outdated(@), !.clear = Outdated(@),
                                    !.renew = Outdated(@)]
<1>1. lock' = l /\ \A x \in Keeper : sv'[x] = after(x)
  BY DEF WriteLock
<1>2. \A x \in Keeper : q(x) \in Server /\ OpenTxns(q(x))
  BY DEF TkInv, TkTypeOK
<1>3. \A x \in Keeper : after(x) \in Server
  BY <1>2, TxnTypes DEF Server
<1>4. sv' \in [Keeper -> Server]
  BY <1>3 DEF WriteLock
<1> HIDE DEF q
<1>5. ASSUME NEW x \in Keeper
      PROVE  /\ sv'[x].task = q(x).task /\ sv'[x].bg = q(x).bg
             /\ sv'[x].txn = Outdated(q(x).txn) /\ sv'[x].clear = Outdated(q(x).clear)
             /\ sv'[x].renew = Outdated(q(x).renew)
  BY <1>1, <1>2 DEF Server
<1>6. \A t \in Txn : /\ Outdated(t).open = t.open /\ Outdated(t).now = t.now
                     /\ t.open => Outdated(t).stale
  BY DEF Outdated, Txn
<1>7. ASSUME NEW x \in Keeper
      PROVE  OpenTxns(sv[x])' /\ LockAsRead(x, sv[x])' /\ (sv'[x].task = "writing" => sv'[x].txn.stale)
  <2>1. q(x).txn \in Txn /\ q(x).clear \in Txn /\ q(x).renew \in Txn
    BY <1>2 DEF Server
  <2> QED
    BY SMTT(30), <2>1, <1>2, <1>5, <1>6 DEF OpenTxns, LockAsRead, Time
<1>8. TkTypeOK'
  BY <1>1, <1>4 DEF TkInv, TkTypeOK
<1> QED
  BY <1>7, <1>8 DEF TkInv

\* Every step of every server preserves the invariant, however the clocks lag.
LEMMA TkStep ==
    ASSUME TkInv, [TkNext]_tkVars
    PROVE  TkInv'
<1>1. /\ sv \in [Keeper -> Server] /\ lock \in LockKey /\ clock \in Nat /\ pairs \in Nat
      /\ t2v \in [Time -> Nat] /\ \A t \in Time : t \in Nat
  BY SMTT(30) DEF TkInv, TkTypeOK, Time
<1>2. CASE Tick
  <2>1. clock' \in Nat /\ clock <= clock'
    BY SMTT(30), <1>1, <1>2 DEF Tick
  <2>2. ASSUME NEW s \in Keeper PROVE OpenTxns(sv[s])' /\ LockAsRead(s, sv[s])'
    BY SMTT(30), <1>1, <1>2, <2>1 DEF Tick, TkInv, OpenTxns, LockAsRead, Time, Unlocked
  <2> QED
    BY <1>2, <2>1, <2>2 DEF Tick, TkInv, TkTypeOK
<1>3. ASSUME NEW s \in Keeper, sv[s] \in Server, OpenTxns(sv[s]), LockAsRead(s, sv[s]),
             sv[s].txn \in Txn, sv[s].clear \in Txn, sv[s].renew \in Txn,
             \/ LockRead(s) \/ LockCommit(s) \/ LockConflict(s)
             \/ RenewRead(s) \/ RenewCommit(s) \/ RenewFails(s)
             \/ UnlockRead(s) \/ UnlockCommit(s) \/ UnlockFails(s)
             \/ CheckSync(s) \/ WritePair(s) \/ WriteFails(s) \/ Unlock(s)
             \/ Restart(s)
      PROVE  TkInv'
  <2>1. CASE LockRead(s)
    <3>1. PICK now \in Clocks : /\ lock = Unlocked \/ now >= lock.expiry
                                /\ Become(s, [sv[s] EXCEPT !.task = "locking", !.txn = Opened(now)])
      BY <2>1 DEF LockRead
    <3> DEFINE r == [sv[s] EXCEPT !.task = "locking", !.txn = Opened(now)]
    <3>2. now \in Time /\ now \in Nat /\ now <= clock
      BY <1>1 DEF Clocks
    <3>3. r \in Server
      BY <1>3, <3>2, TxnTypes DEF Server
    <3>4. OpenTxns(r) /\ LockAsRead(s, r)
      BY <1>3, <3>1, <3>2 DEF OpenTxns, LockAsRead, Server, Opened
    <3> HIDE DEF r
    <3> QED
      BY <1>1, <2>1, <3>1, <3>3, <3>4, BecomeStep DEF LockRead, r
  <2>2. CASE LockCommit(s)
    <3>1. PICK known \in BOOLEAN :
             WriteLock(s, [owner |-> s, expiry |-> Expiry(sv[s].txn.now)],
                       [sv[s] EXCEPT !.task = IF known THEN "running" ELSE "idle",
                                     !.bg = IF known THEN "renewing" ELSE "none",
                                     !.txn = Closed])
      BY <2>2 DEF LockCommit
    <3> DEFINE l == [owner |-> s, expiry |-> Expiry(sv[s].txn.now)]
               r == [sv[s] EXCEPT !.task = IF known THEN "running" ELSE "idle",
                                  !.bg = IF known THEN "renewing" ELSE "none",
                                  !.txn = Closed]
    <3>2. l \in LockKey
      BY SMTT(30), <1>3, TimekeeperAssumption DEF LockKey, Expiry, Txn
    <3>3. r \in Server /\ OpenTxns(r)
      BY <1>3, TxnTypes DEF Server, OpenTxns
    <3> HIDE DEF l, r
    <3> QED
      BY <2>2, <3>1, <3>2, <3>3, WriteLockStep DEF LockCommit, l, r
  <2>3. CASE LockConflict(s)
    <3> DEFINE r == [sv[s] EXCEPT !.task = "idle", !.txn = Closed]
    <3>1. r \in Server /\ OpenTxns(r) /\ LockAsRead(s, r)
      BY <1>3, TxnTypes DEF Server, OpenTxns, LockAsRead
    <3> HIDE DEF r
    <3> QED
      BY <1>1, <2>3, <3>1, BecomeStep DEF LockConflict, r
  <2>4. CASE RenewRead(s)
    <3>1. CASE lock.owner = s
      <4>1. PICK now \in Clocks : Become(s, [sv[s] EXCEPT !.renew = Opened(now)])
        BY <2>4, <3>1 DEF RenewRead
      <4> DEFINE r == [sv[s] EXCEPT !.renew = Opened(now)]
      <4>2. now \in Nat
        BY <1>1 DEF Clocks
      <4>3. r \in Server /\ OpenTxns(r) /\ LockAsRead(s, r)
        BY <1>3, <3>1, <4>2, TxnTypes DEF Server, OpenTxns, LockAsRead
      <4> HIDE DEF r
      <4> QED
        BY <1>1, <2>4, <4>1, <4>3, BecomeStep DEF RenewRead, r
    <3>2. CASE lock.owner # s
      <4> DEFINE r == [sv[s] EXCEPT !.bg = "unlocking"]
      <4>1. r \in Server /\ OpenTxns(r) /\ LockAsRead(s, r)
        BY <1>3 DEF Server, OpenTxns, LockAsRead
      <4> HIDE DEF r
      <4> QED
        BY <1>1, <2>4, <3>2, <4>1, BecomeStep DEF RenewRead, r
    <3> QED
      BY <3>1, <3>2
  <2>5. CASE RenewCommit(s)
    <3> DEFINE l == [lock EXCEPT !.expiry = Expiry(sv[s].renew.now)]
               r == [sv[s] EXCEPT !.renew = Closed]
    <3>1. l \in LockKey
      BY SMTT(30), <1>1, <1>3, TimekeeperAssumption DEF LockKey, Expiry, Txn
    <3>2. r \in Server /\ OpenTxns(r)
      BY <1>3, TxnTypes DEF Server, OpenTxns
    <3> HIDE DEF l, r
    <3> QED
      BY <2>5, <3>1, <3>2, WriteLockStep DEF RenewCommit, l, r
  <2>6. CASE RenewFails(s)
    <3>1. PICK bg \in {sv[s].bg} \cup (IF sv[s].bg = "renewing" THEN {"unlocking"} ELSE {}) :
             Become(s, [sv[s] EXCEPT !.renew = Closed, !.bg = bg])
      BY <2>6 DEF RenewFails
    <3> DEFINE r == [sv[s] EXCEPT !.renew = Closed, !.bg = bg]
    <3>2. bg = sv[s].bg \/ bg = "unlocking"
      OBVIOUS
    <3>3. r \in Server /\ OpenTxns(r) /\ LockAsRead(s, r)
      BY <1>3, <3>2, TxnTypes DEF Server, OpenTxns, LockAsRead, Closed
    <3> HIDE DEF r
    <3> QED
      BY <1>1, <2>6, <3>1, <3>3, BecomeStep DEF RenewFails, r
  <2>7. CASE UnlockRead(s)
    <3> DEFINE r == IF lock.owner = s THEN [sv[s] EXCEPT !.bg = "clearing", !.clear = Opened(clock)]
                    ELSE [sv[s] EXCEPT !.bg = "none"]
    <3>1. r \in Server
      BY <1>1, <1>3, TxnTypes DEF Server
    <3>2. OpenTxns(r) /\ LockAsRead(s, r)
      BY <1>3 DEF Server, OpenTxns, LockAsRead, Opened
    <3>3. Become(s, r)
      BY <2>7 DEF UnlockRead
    <3> HIDE DEF r
    <3> QED
      BY <1>1, <2>7, <3>1, <3>2, <3>3, BecomeStep DEF UnlockRead
  <2>8. CASE UnlockCommit(s)
    <3> DEFINE r == [sv[s] EXCEPT !.bg = "none", !.clear = Closed]
    <3>1. r \in Server /\ OpenTxns(r)
      BY <1>3, TxnTypes DEF Server, OpenTxns
    <3> HIDE DEF r
    <3> QED
      BY <2>8, <3>1, TxnTypes, WriteLockStep DEF UnlockCommit, r
  <2>9. CASE UnlockFails(s)
    <3> DEFINE r == [sv[s] EXCEPT !.bg = "none", !.clear = Closed]
    <3>1. r \in Server /\ OpenTxns(r) /\ LockAsRead(s, r)
      BY <1>3, TxnTypes DEF Server, OpenTxns, LockAsRead
    <3> HIDE DEF r
    <3> QED
      BY <1>1, <2>9, <3>1, BecomeStep DEF UnlockFails, r
  <2>10. CASE CheckSync(s)
    <3>1. CASE lock.owner = s
      <4>1. PICK now \in Clocks :
               Become(s, [sv[s] EXCEPT !.task = "writing", !.txn = Opened(now)])
        BY <2>10, <3>1 DEF CheckSync
      <4> DEFINE r == [sv[s] EXCEPT !.task = "writing", !.txn = Opened(now)]
      <4>2. now \in Time /\ now \in Nat /\ now <= clock
        BY <1>1 DEF Clocks
      <4>3. r \in Server
        BY <1>3, <4>2, TxnTypes DEF Server
      <4>4. OpenTxns(r) /\ LockAsRead(s, r)
        BY <1>3, <3>1, <4>2 DEF Server, OpenTxns, LockAsRead, Opened
      <4> HIDE DEF r
      <4> QED
        BY <1>1, <2>10, <4>1, <4>3, <4>4, BecomeStep DEF CheckSync, r
    <3>2. CASE lock.owner # s
      <4> DEFINE r == [sv[s] EXCEPT !.task = "stopping"]
      <4>1. r \in Server /\ OpenTxns(r) /\ LockAsRead(s, r)
        BY <1>3 DEF Server, OpenTxns, LockAsRead
      <4> HIDE DEF r
      <4> QED
        BY <1>1, <2>10, <3>2, <4>1, BecomeStep DEF CheckSync, r
    <3> QED
      BY <3>1, <3>2
  <2>11. CASE WritePair(s)
    <3> DEFINE r == [sv[s] EXCEPT !.task = "running", !.txn = Closed]
    <3>1. r \in Server /\ OpenTxns(r) /\ LockAsRead(s, r)
      BY <1>3, TxnTypes DEF Server, OpenTxns, LockAsRead
    <3>2. pairs + 1 \in Nat
      BY SMTT(30), <1>1
    <3>3. pairs' \in Nat /\ t2v' \in [Time -> Nat]
      BY <1>1, <2>11, <3>2 DEF WritePair
    <3> HIDE DEF r
    <3> QED
      BY <2>11, <3>1, <3>3, BecomeStep DEF WritePair, r
  <2>12. CASE WriteFails(s)
    <3>1. PICK task \in {"running", "stopping"} : Become(s, [sv[s] EXCEPT !.task = task, !.txn = Closed])
      BY <2>12 DEF WriteFails
    <3> DEFINE r == [sv[s] EXCEPT !.task = task, !.txn = Closed]
    <3>2. r \in Server /\ OpenTxns(r) /\ LockAsRead(s, r)
      BY <1>3, TxnTypes DEF Server, OpenTxns, LockAsRead
    <3> HIDE DEF r
    <3> QED
      BY <1>1, <2>12, <3>1, <3>2, BecomeStep DEF WriteFails, r
  <2>13. CASE Unlock(s)
    <3> DEFINE r == [sv[s] EXCEPT !.bg = "unlocking"]
               i == [sv[s] EXCEPT !.task = "idle"]
    <3>1. r \in Server /\ OpenTxns(r) /\ LockAsRead(s, r)
      BY <1>3 DEF Server, OpenTxns, LockAsRead
    <3>2. i \in Server /\ OpenTxns(i) /\ LockAsRead(s, i)
      BY <1>3 DEF Server, OpenTxns, LockAsRead
    <3>3. Become(s, r) \/ Become(s, i)
      BY <2>13 DEF Unlock
    <3> HIDE DEF r, i
    <3> QED
      BY <1>1, <2>13, <3>1, <3>2, <3>3, BecomeStep DEF Unlock
  <2>14. CASE Restart(s)
    <3>1. OpenTxns(Stopped) /\ LockAsRead(s, Stopped)
      BY DEF OpenTxns, LockAsRead, Stopped, Closed
    <3> QED
      BY <1>1, <2>14, <3>1, TxnTypes, BecomeStep DEF Restart
  <2> QED
    BY <1>3, <2>1, <2>2, <2>3, <2>4, <2>5, <2>6, <2>7, <2>8, <2>9, <2>10, <2>11, <2>12, <2>13,
       <2>14
<1>4. ASSUME NEW s \in Keeper
      PROVE  /\ sv[s] \in Server /\ OpenTxns(sv[s]) /\ LockAsRead(s, sv[s])
             /\ sv[s].txn \in Txn /\ sv[s].clear \in Txn /\ sv[s].renew \in Txn
  BY <1>1 DEF TkInv, Server
<1>5. CASE UNCHANGED tkVars
  BY <1>5 DEF tkVars, TkInv, TkTypeOK, OpenTxns, LockAsRead, Time, Unlocked
<1> QED
  BY <1>2, <1>3, <1>4, <1>5 DEF TkNext

\* If no clock lags behind, pairs are written in the order of their times: a
\* transaction whose time has been overtaken conflicts with the passing of the
\* lock (server.rs 701-754, lock.rs 51-108).
LEMMA PairsStep ==
    ASSUME TkInv, PairsInOrder, [TkNext]_tkVars, MaxSkew = 0
    PROVE  PairsInOrder'
<1>1. /\ sv \in [Keeper -> Server] /\ clock \in Nat /\ pairs \in Nat /\ t2v \in [Time -> Nat]
      /\ \A t \in Time : t \in Nat
  BY SMTT(30) DEF TkInv, TkTypeOK, Time
\* A step that writes no pair and opens no transaction that writes one.
<1>2. ASSUME UNCHANGED <<t2v, pairs>>, clock' \in Nat, clock <= clock',
             \A s \in Keeper : sv'[s].task = "writing" /\ ~sv'[s].txn.stale =>
                /\ sv[s].task = "writing" /\ ~sv[s].txn.stale
                /\ sv'[s].txn.now = sv[s].txn.now
      PROVE  PairsInOrder'
  <2>1. \A t \in Time : t2v'[t] <= pairs' /\ (t2v'[t] # 0 => t <= clock')
    BY SMTT(30), <1>1, <1>2 DEF PairsInOrder
  <2> QED
    BY <1>2, <2>1 DEF PairsInOrder, Time
<1>3. ASSUME NEW s \in Keeper, NEW r, Become(s, r), UNCHANGED <<clock, t2v, pairs>>,
             r.task # "writing" \/ (sv[s].task = "writing" /\ r.txn = sv[s].txn)
      PROVE  PairsInOrder'
  <2>1. sv'[s] = r /\ \A x \in Keeper \ {s} : sv'[x] = sv[x]
    BY <1>1, <1>3 DEF Become
  <2> QED
    BY SMTT(30), <1>1, <1>2, <1>3, <2>1
<1>4. ASSUME NEW s \in Keeper, NEW l \in LockKey, NEW r \in Server, WriteLock(s, l, r), OpenTxns(r),
             UNCHANGED <<clock, t2v, pairs>>
      PROVE  PairsInOrder'
  <2>1. \A x \in Keeper : sv'[x].task = "writing" => sv'[x].txn.stale
    BY <1>4, WriteLockStep
  <2> QED
    BY SMTT(30), <1>1, <1>2, <1>4, <2>1
<1>5. CASE Tick
  BY SMTT(30), <1>1, <1>2, <1>5 DEF Tick
<1>6. ASSUME NEW s \in Keeper, CheckSync(s), lock.owner = s PROVE PairsInOrder'
  <2>1. PICK now \in Clocks : Become(s, [sv[s] EXCEPT !.task = "writing", !.txn = Opened(now)])
    BY <1>6 DEF CheckSync
  <2>2. now = clock
    BY SMTT(30), <1>1 DEF Clocks
  <2>3. /\ sv'[s].txn = Opened(now) /\ (\A x \in Keeper \ {s} : sv'[x] = sv[x])
        /\ UNCHANGED <<clock, t2v, pairs>>
    <3> DEFINE r == [sv[s] EXCEPT !.task = "writing", !.txn = Opened(now)]
    <3>1. r.txn = Opened(now)
      BY <1>1 DEF Server
    <3>2. sv' = [sv EXCEPT ![s] = r] /\ UNCHANGED <<clock, t2v, pairs>>
      BY <1>6, <2>1 DEF Become, CheckSync
    <3> HIDE DEF r
    <3> QED
      BY <1>1, <3>1, <3>2
  <2>4. sv'[s].txn.now = clock
    BY SMTT(30), <2>2, <2>3 DEF Opened
  <2> QED
    BY <2>3, <2>4 DEF PairsInOrder, Time
<1>7. ASSUME NEW s \in Keeper, WritePair(s) PROVE PairsInOrder'
  <2> DEFINE now == sv[s].txn.now
  <2>1. /\ sv[s].task = "writing" /\ ~sv[s].txn.stale /\ now \in Time /\ now <= clock
        /\ lock.owner = s
    BY <1>7 DEF WritePair, Conflict, TkInv, OpenTxns, LockAsRead
  <2>2. \A t \in Time : t2v[t] # 0 => t <= now
    BY <2>1 DEF PairsInOrder
  <2>3. /\ pairs' = pairs + 1 /\ clock' = clock /\ t2v'[now] = pairs + 1
        /\ \A t \in Time : t # now => t2v'[t] = t2v[t]
    BY <1>1, <1>7, <2>1 DEF WritePair
  <2>4. ASSUME NEW x \in Keeper PROVE ~(sv'[x].task = "writing" /\ ~sv'[x].txn.stale)
    <3>1. CASE x = s
      BY <1>1, <1>7, <3>1 DEF WritePair, Become, Server
    <3>2. CASE x # s
      BY <1>1, <1>7, <2>1, <3>2 DEF WritePair, Become, TkInv, LockAsRead
    <3> QED
      BY <3>1, <3>2
  <2>5. ASSUME NEW t \in Time PROVE t2v'[t] <= pairs' /\ (t2v'[t] # 0 => t <= clock')
    BY SMTT(30), <1>1, <2>1, <2>3 DEF PairsInOrder
  <2>6. ASSUME NEW t \in Time, NEW u \in Time, t2v'[t] # 0, t2v'[u] # 0, t < u
        PROVE  t2v'[t] < t2v'[u]
    <3>1. CASE u = now
      BY SMTT(30), <1>1, <2>1, <2>3, <2>6, <3>1 DEF PairsInOrder
    <3>2. CASE u # now
      <4>1. t # now
        BY SMTT(30), <1>1, <2>1, <2>2, <2>3, <2>6, <3>2
      <4> QED
        BY <2>3, <2>6, <3>2, <4>1 DEF PairsInOrder
    <3> QED
      BY <3>1, <3>2
  <2> QED
    BY <2>4, <2>5, <2>6 DEF PairsInOrder, Time
<1>8. ASSUME NEW s \in Keeper, sv[s] \in Server, sv[s].txn \in Txn, sv[s].renew \in Txn,
             OpenTxns(sv[s]),
             \/ LockCommit(s) \/ RenewCommit(s) \/ UnlockCommit(s)
      PROVE  PairsInOrder'
  <2>1. CASE LockCommit(s)
    <3>1. PICK known \in BOOLEAN :
             WriteLock(s, [owner |-> s, expiry |-> Expiry(sv[s].txn.now)],
                       [sv[s] EXCEPT !.task = IF known THEN "running" ELSE "idle",
                                     !.bg = IF known THEN "renewing" ELSE "none",
                                     !.txn = Closed])
      BY <2>1 DEF LockCommit
    <3> DEFINE l == [owner |-> s, expiry |-> Expiry(sv[s].txn.now)]
               r == [sv[s] EXCEPT !.task = IF known THEN "running" ELSE "idle",
                                  !.bg = IF known THEN "renewing" ELSE "none",
                                  !.txn = Closed]
    <3>2. l \in LockKey
      BY SMTT(30), <1>8, TimekeeperAssumption DEF LockKey, Expiry, Txn
    <3>3. r \in Server /\ OpenTxns(r)
      BY <1>8, TxnTypes DEF Server, OpenTxns
    <3> HIDE DEF l, r
    <3> QED
      BY <2>1, <3>1, <3>2, <3>3, <1>4 DEF LockCommit, l, r
  <2>2. CASE RenewCommit(s)
    <3> DEFINE l == [lock EXCEPT !.expiry = Expiry(sv[s].renew.now)]
               r == [sv[s] EXCEPT !.renew = Closed]
    <3>1. l \in LockKey
      BY SMTT(30), <1>8, TimekeeperAssumption DEF LockKey, Expiry, Txn, TkInv, TkTypeOK
    <3>2. r \in Server /\ OpenTxns(r)
      BY <1>8, TxnTypes DEF Server, OpenTxns
    <3> HIDE DEF l, r
    <3> QED
      BY <2>2, <3>1, <3>2, <1>4 DEF RenewCommit, l, r
  <2>3. CASE UnlockCommit(s)
    <3> DEFINE r == [sv[s] EXCEPT !.bg = "none", !.clear = Closed]
    <3>1. r \in Server /\ OpenTxns(r)
      BY <1>8, TxnTypes DEF Server, OpenTxns
    <3> HIDE DEF r
    <3> QED
      BY <2>3, <3>1, TxnTypes, <1>4 DEF UnlockCommit, r
  <2> QED
    BY <1>8, <2>1, <2>2, <2>3
<1>9. ASSUME NEW s \in Keeper, sv[s] \in Server,
             \/ LockRead(s) \/ LockConflict(s) \/ RenewRead(s) \/ RenewFails(s) \/ UnlockRead(s)
             \/ UnlockFails(s) \/ (CheckSync(s) /\ lock.owner # s) \/ WriteFails(s) \/ Unlock(s)
             \/ Restart(s)
      PROVE  PairsInOrder'
  <2>1. CASE LockRead(s)
    BY <1>3, <1>9, <2>1 DEF LockRead, Server
  <2>2. CASE LockConflict(s)
    BY <1>3, <1>9, <2>2 DEF LockConflict, Server
  <2>3. CASE RenewRead(s)
    BY <1>3, <1>9, <2>3 DEF RenewRead, Server
  <2>4. CASE RenewFails(s)
    BY <1>3, <1>9, <2>4 DEF RenewFails, Server
  <2>5. CASE UnlockRead(s)
    BY <1>3, <1>9, <2>5 DEF UnlockRead, Server
  <2>6. CASE UnlockFails(s)
    BY <1>3, <1>9, <2>6 DEF UnlockFails, Server
  <2>7. CASE CheckSync(s) /\ lock.owner # s
    BY <1>3, <1>9, <2>7 DEF CheckSync, Server
  <2>8. CASE WriteFails(s)
    BY <1>3, <1>9, <2>8 DEF WriteFails, Server
  <2>9. CASE Unlock(s)
    BY <1>3, <1>9, <2>9 DEF Unlock, Server
  <2>10. CASE Restart(s)
    BY <1>3, <1>9, <2>10 DEF Restart, Stopped
  <2> QED
    BY <1>9, <2>1, <2>2, <2>3, <2>4, <2>5, <2>6, <2>7, <2>8, <2>9, <2>10
<1>10. ASSUME NEW s \in Keeper
       PROVE  /\ sv[s] \in Server /\ OpenTxns(sv[s])
              /\ sv[s].txn \in Txn /\ sv[s].renew \in Txn
  BY <1>1 DEF TkInv, Server
<1>11. CASE UNCHANGED tkVars
  BY <1>11 DEF tkVars, PairsInOrder, Time
<1> QED
  BY <1>5, <1>6, <1>7, <1>8, <1>9, <1>10, <1>11 DEF TkNext

\* The invariant holds from the start.
THEOREM TkSpec_TkInv == TkSpec => []TkInv
<1>1. TkInit => TkInv
  BY SMTT(30), TxnTypes DEF TkInit, TkInv, TkTypeOK, OpenTxns, LockAsRead, Stopped, Closed
<1>2. TkInv /\ [TkNext]_tkVars => TkInv'
  BY TkStep
<1> QED
  BY <1>1, <1>2, PTL DEF TkSpec

\* The lock key of a server passes to another one only when it has expired, or
\* when its holder gives it up (lock.rs 78-143, 189-229), with any clock skew.
THEOREM TkSpec_PreemptedOnlyWhenExpired == TkSpec => PreemptedOnlyWhenExpired
<1> DEFINE Kept == \A s \in Keeper : lock.owner = s /\ lock'.owner # s =>
                      clock >= lock.expiry \/ UnlockCommit(s)
<1>1. ASSUME TkInv, [TkNext]_tkVars PROVE [Kept]_tkVars
  <2> SUFFICES ASSUME TkNext, NEW s \in Keeper, lock.owner = s, lock'.owner # s
               PROVE  clock >= lock.expiry \/ UnlockCommit(s)
    BY <1>1
  <2>1. PICK x \in Keeper : LockCommit(x) \/ RenewCommit(x) \/ UnlockCommit(x)
    BY DEF TkNext, Tick, LockRead, LockConflict, RenewRead, RenewFails, UnlockRead, UnlockFails,
       CheckSync, WritePair, WriteFails, Unlock, Restart
  <2>2. /\ lock \in LockKey /\ clock \in Nat /\ sv[x] \in Server /\ OpenTxns(sv[x])
        /\ LockAsRead(x, sv[x])
    BY <1>1 DEF TkInv, TkTypeOK
  <2>3. CASE LockCommit(x)
    <3>1. sv[x].task = "locking" /\ ~sv[x].txn.stale
      BY <2>3 DEF LockCommit, Conflict
    <3>2. lock # Unlocked
      BY SMTT(30), TimekeeperAssumption DEF Unlocked
    <3>3. sv[x].txn.now >= lock.expiry /\ sv[x].txn.now <= clock /\ sv[x].txn.now \in Nat
      BY SMTT(30), <2>2, <3>1, <3>2 DEF LockAsRead, OpenTxns, Time
    <3>4. lock.expiry \in Nat
      BY <2>2 DEF LockKey
    <3> QED
      BY SMTT(30), <2>2, <3>3, <3>4
  <2>4. CASE RenewCommit(x)
    BY <2>2, <2>4 DEF RenewCommit, WriteLock, LockKey
  <2>5. CASE UnlockCommit(x)
    BY <2>2, <2>5 DEF UnlockCommit, LockAsRead, Conflict
  <2> QED
    BY <2>1, <2>3, <2>4, <2>5
<1> QED
  BY <1>1, TkSpec_TkInv, PTL DEF TkSpec, PreemptedOnlyWhenExpired

\* If no clock lags behind, the two points that time2version answers with
\* bracket the time asked for, in time order and in version order
\* (time2version.rs 51-103): for any number of servers, any lifetime of the lock
\* and any suspension.
THEOREM TkSpec_QueryBrackets ==
    ASSUME MaxSkew = 0
    PROVE  TkSpec => []QueryBrackets
<1>1. TkInit => PairsInOrder
  BY SMTT(30) DEF TkInit, PairsInOrder, Stopped, Closed
<1>2. TkInv /\ PairsInOrder /\ [TkNext]_tkVars => PairsInOrder'
  BY PairsStep
<1>3. ASSUME TkInv, PairsInOrder PROVE QueryBrackets
  <2> SUFFICES ASSUME NEW q \in Time, After(q) # NoPoint, NotAfter(q) # NoPoint
               PROVE  /\ After(q).time < q /\ q <= NotAfter(q).time
                      /\ After(q).version < NotAfter(q).version
    BY DEF QueryBrackets
  <2> DEFINE A == {t \in PairTimes : t < q}
             N == {t \in PairTimes : t >= q}
  <2>1. A # {} /\ N # {}
    BY DEF After, NotAfter
  <2>2. IsFiniteSet(Time) /\ Time \subseteq Nat
    BY SMTT(30), TimekeeperAssumption, FS_Interval DEF Time
  <2>3. IsFiniteSet(A) /\ IsFiniteSet(N) /\ A \subseteq Nat /\ N \subseteq Nat
    BY <2>2, FS_Subset DEF PairTimes
  <2> DEFINE a == CHOOSE t \in A : \A x \in A : x <= t
             n == CHOOSE t \in N : \A x \in N : x >= t
  <2>4. a \in A
    <3> HIDE DEF A
    <3>1. \E t \in A : \A x \in A : x <= t
      BY <2>1, <2>3, MinMax
    <3> QED
      BY <3>1
  <2>5. n \in N
    <3> HIDE DEF N
    <3>1. \E t \in N : \A x \in N : t <= x
      BY <2>1, <2>3, MinMax
    <3>2. \E t \in N : \A x \in N : x >= t
      BY <2>3, <3>1
    <3> QED
      BY <3>2
  <2>6. After(q) = Point(a) /\ NotAfter(q) = Point(n)
    BY <2>1 DEF After, NotAfter
  <2> HIDE DEF a, n
  <2>7. /\ a \in Time /\ n \in Time /\ t2v[a] # 0 /\ t2v[n] # 0 /\ a < q /\ q <= n
    BY <2>2, <2>4, <2>5 DEF PairTimes
  <2>8. a < n
    BY SMTT(30), <2>2, <2>7
  <2>9. t2v[a] < t2v[n]
    BY <1>3, <2>7, <2>8 DEF PairsInOrder
  <2> QED
    BY SMTT(30), <2>6, <2>7, <2>9 DEF Point
<1> QED
  BY <1>1, <1>2, <1>3, TkSpec_TkInv, PTL DEF TkSpec

-----------------------------------------------------------------------------
(* Namespaces: the inductive invariant                                      *)

Request == [op : {"idle", "create", "rename", "delete"}, key : NsKey, to : NsKey, id : Nat,
            stale : BOOLEAN, unknown : BOOLEAN]
ListState == [on : BOOLEAN, cursor : Nat \ {0}, out : SUBSET NsKey, again : SUBSET NsKey,
              stable : SUBSET NsKey]
CacheEntry == [id : Nat, age : Nat, idle : Nat, off : Nat]
Lookup == [on : BOOLEAN, id : Nat, age : Nat, off : Nat]

NamesTypeOK ==
    /\ nskey \in [NsKey -> Nat]
    /\ lastId \in Nat
    /\ req \in [Admin -> Request]
    /\ list \in ListState
    /\ cache \in [NsKey -> CacheEntry]
    /\ flight \in [NsKey -> Lookup]

\* Ids are given out once.
IdsGiven == \A k \in NsKey : nskey[k] <= lastId

\* A request whose transaction has no conflict knows what its keys are bound to.
Fresh(q) == q.op # "idle" /\ ~q.stale /\ ~q.unknown
RequestKnows(r) ==
    Fresh(req[r]) => /\ req[r].id = nskey[req[r].key]
                     /\ ~Refused(req[r].op, req[r].key, req[r].to)

\* All that the listing must name is listed already or still ahead.
ListingKnows ==
    /\ list.again = {}
    /\ list.on => /\ \A k \in list.out : k < list.cursor
                  /\ \A k \in list.stable : nskey[k] # 0 /\ (k \in list.out \/ k >= list.cursor)
    /\ ~list.on => list.stable \subseteq list.out

\* An id that was looked up has not been out of date for longer than it is old.
CacheKnows(k) ==
    /\ flight[k].on => flight[k].off <= flight[k].age /\ flight[k].age <= MaxLookup
    /\ cache[k].id # 0 => cache[k].off <= cache[k].age + MaxLookup /\ cache[k].age < CacheTtl

NamesInv ==
    /\ NamesTypeOK
    /\ IdsGiven
    /\ EveryNamespaceHasItsKey
    /\ DeletedLeavesNothing
    /\ \A r \in Admin : RequestKnows(r)
    /\ ListingKnows
    /\ \A k \in NsKey : CacheKnows(k)

\* The keys are numbers, and there is at least one.
LEMMA KeyTypes ==
    /\ NsKey \subseteq Nat \ {0} /\ IsFiniteSet(NsKey) /\ 1 \in NsKey
    /\ NoRequest \in Request /\ NotListing \in ListState
    /\ NotCached \in CacheEntry /\ NoLookup \in Lookup
<1>1. MaxKey \in Nat \ {0}
  BY NamespacesAssumption
<1>2. NsKey \subseteq Nat \ {0} /\ 1 \in NsKey
  BY SMTT(30), <1>1 DEF NsKey
<1>3. IsFiniteSet(NsKey)
  BY SMTT(30), <1>1, FS_Interval DEF NsKey
<1> QED
  BY <1>2, <1>3 DEF NoRequest, Request, NotListing, ListState, NotCached, CacheEntry, NoLookup, Lookup

\* One transaction of a request reads its keys (server.rs 328-424), or the
\* handler gives up.
LEMMA RequestStep ==
    ASSUME NamesInv, NEW r \in Admin, NEW q \in Request, req' = [req EXCEPT ![r] = q],
           UNCHANGED <<nskey, nsmd, data, lastId, list, cache, flight, late>>,
           Fresh(q) => q.id = nskey[q.key] /\ ~Refused(q.op, q.key, q.to)
    PROVE  NamesInv'
<1>1. NamesTypeOK'
  BY DEF NamesInv, NamesTypeOK
<1>2. IdsGiven' /\ EveryNamespaceHasItsKey' /\ DeletedLeavesNothing' /\ ListingKnows'
  BY DEF NamesInv, IdsGiven, EveryNamespaceHasItsKey, DeletedLeavesNothing, ListingKnows
<1>3. ASSUME NEW k \in NsKey PROVE CacheKnows(k)'
  BY DEF NamesInv, CacheKnows
<1>4. ASSUME NEW x \in Admin PROVE RequestKnows(x)'
  <2>1. req'[x] = IF x = r THEN q ELSE req[x]
    BY DEF NamesInv, NamesTypeOK
  <2>2. CASE x = r
    BY <2>1, <2>2 DEF RequestKnows, Fresh, Refused
  <2>3. CASE x # r
    <3>1. req'[x] = req[x] /\ RequestKnows(x)
      BY <2>1, <2>3 DEF NamesInv
    <3> QED
      BY <3>1 DEF RequestKnows, Fresh, Refused
  <2> QED
    BY <2>2, <2>3
<1> QED
  BY <1>1, <1>2, <1>3, <1>4 DEF NamesInv

\* A request begins, is tried again, or gives up.
LEMMA BeginAgainSteps ==
    ASSUME NamesInv, NEW r \in Admin, Begin(r) \/ Again(r)
    PROVE  NamesInv'
<1>1. req \in [Admin -> Request] /\ nskey \in [NsKey -> Nat]
  BY DEF NamesInv, NamesTypeOK
<1>2. UNCHANGED <<nskey, nsmd, data, lastId, list, cache, flight, late>>
  BY DEF Begin, Again
<1>3. ASSUME NEW op \in {"create", "rename", "delete"}, NEW key \in NsKey, NEW to \in NsKey,
             ReadsOf(r, op, key, to)
      PROVE  NamesInv'
  <2> DEFINE new == [op |-> op, key |-> key, to |-> to, id |-> nskey[key], stale |-> FALSE,
                     unknown |-> FALSE]
             q == IF Refused(op, key, to) THEN NoRequest ELSE new
  <2>1. new \in Request
    BY <1>1 DEF Request
  <2>2. q \in Request
    BY <2>1, KeyTypes
  <2>3. Fresh(q) => q.id = nskey[q.key] /\ ~Refused(q.op, q.key, q.to)
    BY DEF Fresh, NoRequest
  <2>4. req' = [req EXCEPT ![r] = q]
    BY <1>3 DEF ReadsOf
  <2> HIDE DEF q
  <2> QED
    BY <1>2, <2>2, <2>3, <2>4, RequestStep
<1>4. CASE Begin(r)
  BY <1>3, <1>4 DEF Begin
<1>5. CASE req' = [req EXCEPT ![r] = NoRequest]
  <2>1. ~Fresh(NoRequest)
    BY DEF Fresh, NoRequest
  <2> QED
    BY <1>2, <1>5, <2>1, KeyTypes, RequestStep
<1>6. CASE Again(r)
  <2>1. req[r].op \in {"create", "rename", "delete"} /\ req[r].key \in NsKey /\ req[r].to \in NsKey
    BY <1>1, <1>6 DEF Again, Request
  <2> QED
    BY <1>3, <1>5, <1>6, <2>1 DEF Again
<1> QED
  BY <1>4, <1>6

\* What a transaction that is applied does to the key table, the metadata and
\* the data (server.rs 289-311, 374-424).
LEMMA AppliedKeys ==
    ASSUME NamesInv, NEW r \in Admin, NEW next, Apply(r, next)
    PROVE  /\ nskey' \in [NsKey -> Nat] /\ lastId' \in Nat
           /\ IdsGiven' /\ EveryNamespaceHasItsKey' /\ DeletedLeavesNothing'
<1> DEFINE q == req[r]
<1>1. q \in Request /\ nskey \in [NsKey -> Nat] /\ lastId \in Nat
  BY DEF NamesInv, NamesTypeOK
<1>2. /\ q.op \in {"create", "rename", "delete"} /\ q.key \in NsKey /\ q.to \in NsKey
      /\ q.id = nskey[q.key] /\ ~Refused(q.op, q.key, q.to)
  BY <1>1 DEF Apply, NamesInv, RequestKnows, Fresh, Request
<1>3. /\ IdsGiven /\ EveryNamespaceHasItsKey /\ DeletedLeavesNothing /\ UNCHANGED late
      /\ nskey' = Bindings(q, lastId + 1)
      /\ data' = DataAfter(q)
  BY DEF NamesInv, Apply
<1> HIDE DEF q
<1>4. CASE q.op = "create"
  <2>1. /\ nskey' = [nskey EXCEPT ![q.key] = lastId + 1] /\ lastId' = lastId + 1
        /\ nsmd' = nsmd \cup {lastId + 1} /\ data' = data /\ nskey[q.key] = 0
    BY <1>2, <1>3, <1>4 DEF Apply, Bindings, DataAfter, Refused, q
  <2>2. /\ nskey'[q.key] = lastId + 1
        /\ \A k \in NsKey : k # q.key => nskey'[k] = nskey[k] /\ nskey[k] <= lastId
    BY <1>1, <1>2, <1>3, <2>1 DEF IdsGiven
  <2>3. IdsGiven'
    BY SMTT(30), <1>1, <2>1, <2>2 DEF IdsGiven
  <2>4. {nskey'[k] : k \in NsKey} \ {0} = ({nskey[k] : k \in NsKey} \ {0}) \cup {lastId + 1}
    <3>1. ASSUME NEW i \in {nskey'[k] : k \in NsKey} \ {0}
          PROVE  i \in {nskey[k] : k \in NsKey} \cup {lastId + 1}
      BY <2>2
    <3>2. ASSUME NEW i \in {nskey[k] : k \in NsKey} \ {0} PROVE i \in {nskey'[k] : k \in NsKey}
      <4>1. PICK k \in NsKey : i = nskey[k] /\ i # 0
        OBVIOUS
      <4>2. nskey'[k] = nskey[k]
        BY <2>1, <2>2, <4>1
      <4> QED
        BY <4>1, <4>2
    <3>3. lastId + 1 \in {nskey'[k] : k \in NsKey} /\ lastId + 1 # 0
      BY SMTT(30), <1>1, <1>2, <2>2
    <3> QED
      BY <3>1, <3>2, <3>3
  <2>5. \A j, k \in NsKey : nskey'[j] = nskey'[k] /\ nskey'[j] # 0 => j = k
    BY SMTT(30), <1>1, <1>2, <1>3, <2>2 DEF EveryNamespaceHasItsKey
  <2>6. EveryNamespaceHasItsKey'
    BY <1>3, <2>1, <2>4, <2>5 DEF EveryNamespaceHasItsKey
  <2>7. DeletedLeavesNothing'
    BY <1>3, <2>1 DEF DeletedLeavesNothing
  <2>8. lastId + 1 \in Nat
    BY SMTT(30), <1>1
  <2>9. nskey' \in [NsKey -> Nat] /\ lastId' \in Nat
    BY <1>1, <1>2, <2>1, <2>8
  <2> QED
    BY <2>3, <2>6, <2>7, <2>9
<1>5. CASE q.op = "rename"
  <2>1. /\ nskey' = [nskey EXCEPT ![q.key] = 0, ![q.to] = q.id] /\ lastId' = lastId
        /\ nsmd' = nsmd /\ data' = data /\ nskey[q.key] # 0 /\ nskey[q.to] = 0
    BY <1>2, <1>3, <1>5 DEF Apply, Bindings, DataAfter, Refused, q
  <2>2. /\ nskey'[q.key] = 0 /\ nskey'[q.to] = nskey[q.key]
        /\ \A k \in NsKey : k # q.key /\ k # q.to => nskey'[k] = nskey[k]
    BY <1>1, <1>2, <2>1
  <2>3. IdsGiven'
    BY <1>1, <1>2, <1>3, <2>1, <2>2 DEF IdsGiven
  <2>4. {nskey'[k] : k \in NsKey} \ {0} = {nskey[k] : k \in NsKey} \ {0}
    <3>1. ASSUME NEW i \in {nskey'[k] : k \in NsKey} \ {0} PROVE i \in {nskey[k] : k \in NsKey}
      BY SMTT(30), <1>2, <2>2
    <3>2. ASSUME NEW i \in {nskey[k] : k \in NsKey} \ {0} PROVE i \in {nskey'[k] : k \in NsKey}
      <4>1. PICK k \in NsKey : i = nskey[k]
        OBVIOUS
      <4>2. CASE k = q.key
        BY <1>2, <2>2, <4>1, <4>2
      <4>3. CASE k # q.key
        BY <1>2, <2>1, <2>2, <4>1, <4>3
      <4> QED
        BY <4>2, <4>3
    <3> QED
      BY <3>1, <3>2
  <2>5. \A j, k \in NsKey : nskey'[j] = nskey'[k] /\ nskey'[j] # 0 => j = k
    BY SMTT(30), <1>2, <1>3, <2>1, <2>2 DEF EveryNamespaceHasItsKey
  <2>6. EveryNamespaceHasItsKey'
    BY <1>3, <2>1, <2>4, <2>5 DEF EveryNamespaceHasItsKey
  <2>7. DeletedLeavesNothing'
    BY <1>3, <2>1 DEF DeletedLeavesNothing
  <2>8. nskey' \in [NsKey -> Nat]
    BY <1>1, <1>2, <2>1
  <2> QED
    BY <1>1, <2>1, <2>3, <2>6, <2>7, <2>8
<1>6. CASE q.op = "delete"
  <2>1. /\ nskey' = [nskey EXCEPT ![q.key] = 0] /\ lastId' = lastId
        /\ nsmd' = nsmd \ {q.id} /\ data' = data \ {q.id} /\ nskey[q.key] # 0
    BY <1>2, <1>3, <1>6 DEF Apply, Bindings, DataAfter, Refused, q
  <2>2. nskey'[q.key] = 0 /\ \A k \in NsKey : k # q.key => nskey'[k] = nskey[k]
    BY <1>1, <1>2, <2>1
  <2>3. IdsGiven'
    BY SMTT(30), <1>1, <1>3, <2>1, <2>2 DEF IdsGiven
  <2>4. {nskey'[k] : k \in NsKey} \ {0} = ({nskey[k] : k \in NsKey} \ {0}) \ {q.id}
    <3>1. ASSUME NEW i \in {nskey'[k] : k \in NsKey} \ {0}
          PROVE  i \in {nskey[k] : k \in NsKey} /\ i # q.id
      BY SMTT(30), <1>2, <1>3, <2>1, <2>2 DEF EveryNamespaceHasItsKey
    <3>2. ASSUME NEW i \in ({nskey[k] : k \in NsKey} \ {0}) \ {q.id}
          PROVE  i \in {nskey'[k] : k \in NsKey}
      BY <1>2, <2>2
    <3> QED
      BY <3>1, <3>2
  <2>5. \A j, k \in NsKey : nskey'[j] = nskey'[k] /\ nskey'[j] # 0 => j = k
    BY SMTT(30), <1>2, <1>3, <2>1, <2>2 DEF EveryNamespaceHasItsKey
  <2>6. EveryNamespaceHasItsKey'
    BY <1>3, <2>1, <2>4, <2>5 DEF EveryNamespaceHasItsKey
  <2>7. DeletedLeavesNothing'
    BY <1>3, <2>1 DEF DeletedLeavesNothing
  <2> QED
    BY <1>1, <2>1, <2>3, <2>6, <2>7
<1> QED
  BY <1>2, <1>4, <1>5, <1>6

\* A transaction that is applied conflicts with every other one that read a key
\* it changed; the listing, the cache and the lookups take note of it.
LEMMA ApplyStep ==
    ASSUME NamesInv, NEW r \in Admin, NEW next \in Request, Apply(r, next), ~Fresh(next)
    PROVE  NamesInv'
<1> DEFINE new == Bindings(req[r], lastId + 1)
<1>1. /\ req \in [Admin -> Request] /\ list \in ListState /\ cache \in [NsKey -> CacheEntry]
      /\ flight \in [NsKey -> Lookup]
  BY DEF NamesInv, NamesTypeOK
<1>2. /\ nskey' = new
      /\ list' = [list EXCEPT !.stable = {k \in @ : new[k] # 0}]
      /\ req' = [x \in Admin |->
                   IF x = r THEN next
                   ELSE [req[x] EXCEPT !.stale = @ \/ \E k \in ReadKeys(req[x]) : new[k] # nskey[k]]]
      /\ cache' = [k \in NsKey |-> Seen(cache[k], new[k])]
      /\ flight' = [k \in NsKey |-> Seen(flight[k], new[k])]
  BY DEF Apply
<1>3. /\ nskey' \in [NsKey -> Nat] /\ lastId' \in Nat
      /\ IdsGiven' /\ EveryNamespaceHasItsKey' /\ DeletedLeavesNothing'
  BY AppliedKeys
<1> HIDE DEF new
<1>4. ASSUME NEW x \in Admin PROVE req'[x] \in Request /\ RequestKnows(x)'
  <2>1. CASE x = r
    BY <1>2, <2>1 DEF RequestKnows, Fresh
  <2>2. CASE x # r
    <3> DEFINE touched == \E k \in ReadKeys(req[x]) : new[k] # nskey[k]
    <3>1. req[x] \in Request /\ RequestKnows(x)
      BY <1>1 DEF NamesInv
    <3>2. req'[x] = [req[x] EXCEPT !.stale = @ \/ touched]
      BY <1>2, <2>2
    <3>3. touched \in BOOLEAN
      OBVIOUS
    <3> HIDE DEF touched
    <3>4. /\ req'[x] \in Request /\ req'[x].op = req[x].op /\ req'[x].key = req[x].key
          /\ req'[x].to = req[x].to /\ req'[x].id = req[x].id /\ req'[x].unknown = req[x].unknown
          /\ req'[x].stale = (req[x].stale \/ touched)
      BY <3>1, <3>2, <3>3 DEF Request
    <3>5. CASE touched
      BY <3>4, <3>5 DEF RequestKnows, Fresh
    <3>6. CASE ~touched
      <4>1. nskey'[req[x].key] = nskey[req[x].key] /\ nskey'[req[x].to] = nskey[req[x].to]
        BY <1>2, <3>6 DEF touched, ReadKeys
      <4> QED
        BY <3>1, <3>4, <3>6, <4>1 DEF RequestKnows, Fresh, Refused
    <3> QED
      BY <3>4, <3>5, <3>6
  <2> QED
    BY <2>1, <2>2
<1>5. /\ list' \in ListState /\ list'.on = list.on /\ list'.cursor = list.cursor
      /\ list'.out = list.out /\ list'.again = list.again
      /\ list'.stable = {k \in list.stable : new[k] # 0}
  BY <1>1, <1>2 DEF ListState
<1>6. ListingKnows'
  BY <1>2, <1>5 DEF NamesInv, ListingKnows
<1>7. ASSUME NEW k \in NsKey PROVE cache'[k] \in CacheEntry /\ flight'[k] \in Lookup /\ CacheKnows(k)'
  <2>1. /\ cache[k] \in CacheEntry /\ flight[k] \in Lookup /\ CacheKnows(k)
    BY <1>1 DEF NamesInv
  <2>2. cache'[k] \in {cache[k], [cache[k] EXCEPT !.off = 0]}
    BY <1>2 DEF Seen
  <2>3. flight'[k] \in {flight[k], [flight[k] EXCEPT !.off = 0]}
    BY <1>2 DEF Seen
  <2>4. /\ cache'[k] \in CacheEntry /\ cache'[k].id = cache[k].id /\ cache'[k].age = cache[k].age
        /\ cache'[k].off <= cache[k].off
    BY SMTT(30), <2>1, <2>2 DEF CacheEntry
  <2>5. /\ flight'[k] \in Lookup /\ flight'[k].on = flight[k].on /\ flight'[k].age = flight[k].age
        /\ flight'[k].off <= flight[k].off
    BY SMTT(30), <2>1, <2>3 DEF Lookup
  <2>6. /\ cache[k].age \in Nat /\ cache[k].off \in Nat /\ cache'[k].off \in Nat
        /\ flight[k].age \in Nat /\ flight[k].off \in Nat /\ flight'[k].off \in Nat
        /\ MaxLookup \in Nat
    BY <2>1, <2>4, <2>5, NamespacesAssumption DEF CacheEntry, Lookup
  <2> QED
    BY SMTT(30), <2>1, <2>4, <2>5, <2>6 DEF CacheKnows
<1>8. NamesTypeOK'
  BY <1>2, <1>3, <1>4, <1>5, <1>7 DEF NamesTypeOK
<1> QED
  BY <1>3, <1>4, <1>6, <1>7, <1>8 DEF NamesInv

\* A batch of the listing (server.rs 622-636) is empty only when no key is left, and
\* leaves out none before its last one.
LEMMA ListedCovers ==
    ASSUME NamesInv
    PROVE  /\ Listed \subseteq NsKey
           /\ \A k \in Listed : k >= list.cursor
           /\ Listed = {} => \A k \in NsKey : nskey[k] # 0 => k < list.cursor
           /\ Listed # {} => /\ LastListed \in Listed
                             /\ \A k \in Listed : k <= LastListed
                             /\ \A k \in NsKey : nskey[k] # 0 /\ k >= list.cursor =>
                                   k \in Listed \/ k > LastListed
<1> DEFINE c == list.cursor
           Bound(k) == {j \in c .. k : nskey[j] # 0}
<1>1. c \in Nat \ {0} /\ ListLimit \in Nat \ {0} /\ NsKey \subseteq Nat \ {0} /\ IsFiniteSet(NsKey)
  BY KeyTypes, NamespacesAssumption DEF NamesInv, NamesTypeOK, ListState
<1> HIDE DEF c
<1>2. Listed = {k \in NsKey : k >= c /\ nskey[k] # 0 /\ Cardinality(Bound(k)) <= ListLimit}
  BY DEF Listed, c
<1>3. ASSUME NEW k \in NsKey PROVE IsFiniteSet(Bound(k))
  <2>1. k \in Int /\ c \in Int
    BY SMTT(30), <1>1
  <2>2. IsFiniteSet(c .. k)
    BY <2>1, FS_Interval
  <2> QED
    BY <2>2, FS_Subset
<1>4. ASSUME Listed = {}, NEW k \in NsKey, nskey[k] # 0, ~(k < c) PROVE FALSE
  <2> DEFINE S == {j \in NsKey : nskey[j] # 0 /\ j >= c}
  <2>1. S \in SUBSET Nat /\ IsFiniteSet(S) /\ S # {}
    <3>1. k \in S
      BY SMTT(30), <1>1, <1>4
    <3>2. S \subseteq NsKey
      OBVIOUS
    <3> HIDE DEF S
    <3>3. IsFiniteSet(S)
      BY <1>1, <3>2, FS_Subset
    <3> QED
      BY <1>1, <3>1, <3>2, <3>3
  <2>2. PICK f \in S : \A j \in S : f <= j
    <3> HIDE DEF S
    <3> QED
      BY <2>1, MinMax
  <2>3. f \in NsKey /\ f \in Nat /\ f >= c /\ nskey[f] # 0
    BY <1>1, <2>2
  <2>4. Bound(f) = {f}
    <3>1. ASSUME NEW j \in Bound(f) PROVE j = f
      <4>1. j \in Nat /\ c <= j /\ j <= f /\ nskey[j] # 0
        BY SMTT(30), <1>1, <2>3
      <4>2. j \in NsKey
        BY SMTT(30), <1>1, <2>3, <4>1, NamespacesAssumption DEF NsKey
      <4>3. f <= j
        BY <1>1, <2>2, <4>1, <4>2
      <4> QED
        BY SMTT(30), <2>3, <4>1, <4>3
    <3>2. f \in Bound(f)
      BY SMTT(30), <1>1, <2>3
    <3> QED
      BY <3>1, <3>2
  <2>5. Cardinality(Bound(f)) = 1
    BY <2>4, FS_Singleton
  <2>6. f \in Listed
    BY SMTT(30), <1>1, <1>2, <2>3, <2>5
  <2> QED
    BY <1>4, <2>6
<1>5. ASSUME Listed # {} PROVE LastListed \in Listed /\ \A k \in Listed : k <= LastListed
  <2>1. Listed \in SUBSET Nat /\ IsFiniteSet(Listed)
    BY <1>1, <1>2, FS_Subset
  <2>2. \E k \in Listed : \A j \in Listed : j <= k
    BY <1>5, <2>1, MinMax
  <2> QED
    BY <2>2 DEF LastListed
<1>6. ASSUME Listed # {}, NEW k \in NsKey, nskey[k] # 0, k >= c, ~(k > LastListed)
      PROVE  k \in Listed
  <2> DEFINE last == LastListed
  <2>1. last \in Listed /\ last \in NsKey /\ last \in Nat /\ k \in Nat
    BY <1>1, <1>2, <1>5, <1>6
  <2> HIDE DEF last
  <2>2. k <= last
    BY SMTT(30), <1>6, <2>1 DEF last
  <2>3. Bound(k) \subseteq Bound(last)
    BY SMTT(30), <1>1, <2>1, <2>2
  <2>4. IsFiniteSet(Bound(k)) /\ IsFiniteSet(Bound(last))
    BY <1>3, <2>1
  <2>5. Cardinality(Bound(k)) <= Cardinality(Bound(last))
    BY <2>3, <2>4, FS_Subset
  <2>6. Cardinality(Bound(k)) \in Nat /\ Cardinality(Bound(last)) \in Nat
    BY <2>4, FS_CardinalityType
  <2>7. Cardinality(Bound(last)) <= ListLimit
    BY <1>2, <2>1
  <2>8. Cardinality(Bound(k)) <= ListLimit
    BY SMTT(30), <1>1, <2>5, <2>6, <2>7
  <2> QED
    BY <1>2, <1>6, <2>8
<1>7. \A k \in NsKey : nskey[k] # 0 /\ Listed = {} => k < c
  BY <1>4
<1>8. \A k \in NsKey : Listed # {} /\ nskey[k] # 0 /\ k >= c => k \in Listed \/ k > LastListed
  BY <1>6
<1>9. Listed \subseteq NsKey /\ \A k \in Listed : k >= c
  BY <1>2
<1> QED
  BY <1>5, <1>7, <1>8, <1>9 DEF c

\* The listing goes on or ends (server.rs 591-680).
LEMMA ListingStep ==
    ASSUME NamesInv, Listing
    PROVE  NamesInv'
<1>1. /\ list \in ListState /\ nskey \in [NsKey -> Nat] /\ ListingKnows
      /\ UNCHANGED <<nskey, nsmd, data, lastId, req, cache, flight, late>>
  BY DEF NamesInv, NamesTypeOK, Listing, ListBegin, ListBatch, ListRead
<1>2. SUFFICES list' \in ListState /\ ListingKnows'
  <2>1. NamesTypeOK' /\ IdsGiven' /\ EveryNamespaceHasItsKey' /\ DeletedLeavesNothing'
    BY <1>1, <1>2 DEF NamesInv, NamesTypeOK, IdsGiven, EveryNamespaceHasItsKey, DeletedLeavesNothing
  <2>2. ASSUME NEW x \in Admin PROVE RequestKnows(x)'
    <3>1. RequestKnows(x)
      BY DEF NamesInv
    <3> QED
      BY <1>1, <3>1 DEF RequestKnows, Refused, Fresh
  <2>3. ASSUME NEW k \in NsKey PROVE CacheKnows(k)'
    BY <1>1 DEF NamesInv, CacheKnows
  <2> QED
    BY <1>2, <2>1, <2>2, <2>3 DEF NamesInv
<1>3. CASE ListBegin
  <2>1. list' = [NotListing EXCEPT !.on = TRUE, !.stable = {k \in NsKey : nskey[k] # 0}]
    BY <1>3 DEF ListBegin
  <2>2. /\ list'.on = TRUE /\ list'.cursor = 1 /\ list'.out = {} /\ list'.again = {}
        /\ list'.stable = {k \in NsKey : nskey[k] # 0}
    BY <2>1 DEF NotListing
  <2>3. list' \in ListState
    BY <2>1, KeyTypes DEF NotListing, ListState
  <2>4. \A k \in NsKey : k >= 1
    BY SMTT(30), KeyTypes
  <2> QED
    BY <1>1, <2>2, <2>3, <2>4 DEF ListingKnows
<1>4. CASE ListBatch /\ Listed = {}
  <2>1. list' = [list EXCEPT !.on = FALSE] /\ list.on
    BY <1>4 DEF ListBatch
  <2>2. /\ list' \in ListState /\ list'.on = FALSE /\ list'.out = list.out
        /\ list'.again = list.again /\ list'.stable = list.stable
    BY <1>1, <2>1 DEF ListState
  <2>3. list.stable \subseteq list.out
    <3>1. ASSUME NEW k \in list.stable PROVE k \in list.out
      <4>1. k \in NsKey /\ nskey[k] # 0 /\ (k \in list.out \/ k >= list.cursor)
        BY <1>1, <2>1 DEF ListingKnows, ListState
      <4>2. k < list.cursor
        BY <1>4, <4>1, ListedCovers
      <4>3. k \in Nat /\ list.cursor \in Nat
        BY <1>1, <4>1, KeyTypes DEF ListState
      <4> QED
        BY SMTT(30), <4>1, <4>2, <4>3
    <3> QED
      BY <3>1
  <2> QED
    BY <1>1, <2>2, <2>3 DEF ListingKnows
<1>5. CASE ListBatch /\ Listed # {}
  <2>1. /\ list.on
        /\ list' = [list EXCEPT !.cursor = LastListed + 1, !.out = @ \cup Listed,
                                !.again = @ \cup (list.out \cap Listed)]
    BY <1>5 DEF ListBatch, NextCursor
  <2>2. /\ Listed \subseteq NsKey /\ LastListed \in Listed /\ (\A k \in Listed : k >= list.cursor)
        /\ (\A k \in Listed : k <= LastListed)
        /\ \A k \in NsKey : nskey[k] # 0 /\ k >= list.cursor => k \in Listed \/ k > LastListed
    BY <1>5, ListedCovers
  <2>3. LastListed \in Nat /\ list.cursor \in Nat /\ list.out \subseteq NsKey /\ NsKey \subseteq Nat
    BY <1>1, <2>2, KeyTypes DEF ListState
  <2>4. /\ list' \in ListState /\ list'.on = list.on /\ list'.cursor = LastListed + 1
        /\ list'.out = list.out \cup Listed /\ list'.again = list.again \cup (list.out \cap Listed)
        /\ list'.stable = list.stable
    <3> DEFINE next == LastListed + 1
               out == list.out \cup Listed
               again == list.again \cup (list.out \cap Listed)
    <3>1. next \in Nat \ {0}
      BY SMTT(30), <2>3
    <3>2. out \in SUBSET NsKey /\ again \in SUBSET NsKey
      BY <1>1, <2>2, <2>3 DEF ListState
    <3>3. list' = [list EXCEPT !.cursor = next, !.out = out, !.again = again]
      BY <1>1, <2>1 DEF ListState
    <3> HIDE DEF next, out, again
    <3>4. /\ list' \in ListState /\ list'.on = list.on /\ list'.cursor = next
          /\ list'.out = out /\ list'.again = again /\ list'.stable = list.stable
      BY <1>1, <3>1, <3>2, <3>3 DEF ListState
    <3> QED
      BY <3>4 DEF next, out, again
  <2>5. list.out \cap Listed = {}
    <3>1. ASSUME NEW k \in list.out, k \in Listed PROVE FALSE
      <4>1. k < list.cursor /\ k >= list.cursor /\ k \in Nat
        BY <1>1, <2>1, <2>2, <2>3, <3>1 DEF ListingKnows
      <4> QED
        BY SMTT(30), <2>3, <4>1
    <3> QED
      BY <3>1
  <2>6. list'.again = {}
    BY <1>1, <2>4, <2>5 DEF ListingKnows
  <2>7. ASSUME NEW k \in list'.out PROVE k < list'.cursor
    <3>1. CASE k \in Listed
      <4>1. k \in Nat /\ k <= LastListed /\ LastListed \in Nat /\ list'.cursor = LastListed + 1
        BY <2>2, <2>3, <2>4, <3>1
      <4> QED
        BY SMTT(30), <4>1
    <3>2. CASE k \in list.out
      <4>1. k < list.cursor /\ list.cursor <= LastListed /\ k \in Nat
        BY <1>1, <2>1, <2>2, <2>3, <3>2 DEF ListingKnows
      <4> QED
        BY SMTT(30), <2>3, <2>4, <4>1
    <3> QED
      BY <2>4, <2>7, <3>1, <3>2
  <2>8. ASSUME NEW k \in list'.stable
        PROVE  nskey[k] # 0 /\ (k \in list'.out \/ k >= list'.cursor)
    <3>1. k \in NsKey /\ nskey[k] # 0 /\ (k \in list.out \/ k >= list.cursor)
      BY <1>1, <2>1, <2>4, <2>8 DEF ListingKnows, ListState
    <3>2. k \in list.out \/ k \in Listed \/ k > LastListed
      BY <2>2, <3>1
    <3>3. k > LastListed => k >= LastListed + 1
      <4>1. k \in Nat /\ LastListed \in Nat
        BY <2>3, <3>1
      <4> QED
        BY SMTT(30), <4>1
    <3> QED
      BY <2>4, <3>1, <3>2, <3>3
  <2> QED
    BY <1>1, <2>1, <2>4, <2>6, <2>7, <2>8 DEF ListingKnows
<1>6. CASE ListRead
  <2>1. list' = NotListing
    BY <1>6 DEF ListRead
  <2> QED
    BY <2>1, KeyTypes DEF ListingKnows, NotListing
<1> QED
  BY <1>3, <1>4, <1>5, <1>6 DEF Listing

\* Lookups, uploads and the passing of time (server.rs 791-858): no id stays in
\* the cache for longer than its time to live.
LEMMA ResolveStep ==
    ASSUME NamesInv, Resolve
    PROVE  NamesInv'
<1>1. /\ nskey \in [NsKey -> Nat] /\ cache \in [NsKey -> CacheEntry] /\ flight \in [NsKey -> Lookup]
      /\ MaxLookup \in Nat /\ CacheTtl \in Nat \ {0} /\ (\A k \in NsKey : CacheKnows(k))
      /\ UNCHANGED <<nskey, nsmd, lastId, req, list>>
  BY NamespacesAssumption
     DEF NamesInv, NamesTypeOK, Resolve, LookupBegin, LookupEnd, Upload, Pass
<1>2. SUFFICES /\ DeletedLeavesNothing'
               /\ cache' \in [NsKey -> CacheEntry] /\ flight' \in [NsKey -> Lookup]
               /\ \A k \in NsKey : CacheKnows(k)'
  <2>1. NamesTypeOK' /\ IdsGiven' /\ EveryNamespaceHasItsKey' /\ ListingKnows'
    BY SMTT(30), <1>1, <1>2 DEF NamesInv, NamesTypeOK, IdsGiven, EveryNamespaceHasItsKey, ListingKnows
  <2>2. ASSUME NEW x \in Admin PROVE RequestKnows(x)'
    <3>1. RequestKnows(x)
      BY DEF NamesInv
    <3> QED
      BY <1>1, <3>1 DEF RequestKnows, Refused, Fresh
  <2> QED
    BY <1>2, <2>1, <2>2 DEF NamesInv
<1>3. ASSUME UNCHANGED <<data, late>> PROVE DeletedLeavesNothing'
  BY <1>1, <1>3 DEF NamesInv, DeletedLeavesNothing
<1>4. ASSUME NEW k \in NsKey, LookupBegin(k)
      PROVE  /\ DeletedLeavesNothing' /\ cache' \in [NsKey -> CacheEntry]
             /\ flight' \in [NsKey -> Lookup] /\ \A j \in NsKey : CacheKnows(j)'
  <2> DEFINE f == [on |-> TRUE, id |-> nskey[k], age |-> 0, off |-> 0]
  <2>1. f \in Lookup
    BY <1>1 DEF Lookup
  <2>2. flight' = [flight EXCEPT ![k] = f] /\ UNCHANGED <<cache, data, late>>
    BY <1>4 DEF LookupBegin
  <2>3. ASSUME NEW j \in NsKey PROVE CacheKnows(j)'
    <3>1. CASE j = k
      BY SMTT(30), <1>1, <2>2, <3>1 DEF CacheKnows
    <3>2. CASE j # k
      BY <1>1, <2>2, <3>2 DEF CacheKnows
    <3> QED
      BY <3>1, <3>2
  <2> HIDE DEF f
  <2> QED
    BY <1>1, <1>3, <2>1, <2>2, <2>3
<1>5. ASSUME NEW k \in NsKey, LookupEnd(k)
      PROVE  /\ DeletedLeavesNothing' /\ cache' \in [NsKey -> CacheEntry]
             /\ flight' \in [NsKey -> Lookup] /\ \A j \in NsKey : CacheKnows(j)'
  <2> DEFINE c == IF flight[k].id = 0 THEN NotCached
                  ELSE [id |-> flight[k].id, age |-> 0, idle |-> 0, off |-> flight[k].off]
  <2>1. /\ flight[k] \in Lookup /\ flight[k].off \in Nat /\ flight[k].age \in Nat
        /\ flight[k].off <= flight[k].age /\ flight[k].age <= MaxLookup
    BY <1>1, <1>5 DEF LookupEnd, Lookup, CacheKnows
  <2>2. c \in CacheEntry /\ (c.id # 0 => c.age = 0 /\ c.off <= MaxLookup)
    BY SMTT(30), <1>1, <2>1, KeyTypes DEF Lookup, CacheEntry, NotCached
  <2>3. /\ flight' = [flight EXCEPT ![k] = NoLookup] /\ cache' = [cache EXCEPT ![k] = c]
        /\ UNCHANGED <<data, late>>
    BY <1>5 DEF LookupEnd
  <2> HIDE DEF c
  <2>4. ASSUME NEW j \in NsKey PROVE CacheKnows(j)'
    <3>1. CASE j = k
      <4>1. cache'[j] = c /\ flight'[j] = NoLookup
        BY <1>1, <2>3, <3>1
      <4>2. c.id # 0 => c.off <= c.age + MaxLookup /\ c.age < CacheTtl
        BY SMTT(30), <1>1, <2>2 DEF CacheEntry
      <4> QED
        BY SMTT(30), <4>1, <4>2 DEF CacheKnows, NoLookup
    <3>2. CASE j # k
      BY <1>1, <2>3, <3>2 DEF CacheKnows
    <3> QED
      BY <3>1, <3>2
  <2> QED
    BY <1>1, <1>3, <2>2, <2>3, <2>4, KeyTypes
<1>6. ASSUME NEW k \in NsKey, Upload(k)
      PROVE  /\ DeletedLeavesNothing' /\ cache' \in [NsKey -> CacheEntry]
             /\ flight' \in [NsKey -> Lookup] /\ \A j \in NsKey : CacheKnows(j)'
  <2>1. /\ cache' = [cache EXCEPT ![k].idle = 0] /\ data' = data \cup {cache[k].id}
        /\ late' = (IF cache[k].id \in nsmd THEN late ELSE late \cup {cache[k].id})
        /\ UNCHANGED flight
    BY <1>6 DEF Upload
  <2>2. DeletedLeavesNothing'
    BY <1>1, <2>1 DEF NamesInv, DeletedLeavesNothing
  <2>3. ASSUME NEW j \in NsKey
        PROVE  /\ cache'[j] \in CacheEntry /\ cache'[j].id = cache[j].id
               /\ cache'[j].age = cache[j].age /\ cache'[j].off = cache[j].off
    BY <1>1, <2>1 DEF CacheEntry
  <2>4. cache' \in [NsKey -> CacheEntry]
    BY <1>1, <2>1, <2>3
  <2>5. ASSUME NEW j \in NsKey PROVE CacheKnows(j)'
    BY <1>1, <2>1, <2>3 DEF CacheKnows
  <2> QED
    BY <1>1, <2>1, <2>2, <2>4, <2>5
<1>7. ASSUME Pass
      PROVE  /\ DeletedLeavesNothing' /\ cache' \in [NsKey -> CacheEntry]
             /\ flight' \in [NsKey -> Lookup] /\ \A j \in NsKey : CacheKnows(j)'
  <2>1. /\ \A k \in NsKey : flight[k].on => flight[k].age < MaxLookup
        /\ cache' = [k \in NsKey |->
                       IF cache[k].id = 0 \/ Expired(Older(cache[k], nskey[k])) THEN NotCached
                       ELSE Older(cache[k], nskey[k])]
        /\ flight' = [k \in NsKey |->
                        IF flight[k].on
                        THEN [flight[k] EXCEPT !.age = @ + 1, !.off = Off(flight[k], nskey[k])]
                        ELSE NoLookup]
        /\ UNCHANGED <<data, late>>
    BY <1>7 DEF Pass
  <2>2. ASSUME NEW j \in NsKey
        PROVE  cache'[j] \in CacheEntry /\ flight'[j] \in Lookup /\ CacheKnows(j)'
    <3> DEFINE o == Off(cache[j], nskey[j])
               p == Off(flight[j], nskey[j])
    <3>1. /\ cache[j] \in CacheEntry /\ flight[j] \in Lookup /\ CacheKnows(j) /\ nskey[j] \in Nat
          /\ cache[j].age \in Nat /\ cache[j].idle \in Nat /\ cache[j].off \in Nat
          /\ flight[j].age \in Nat /\ flight[j].off \in Nat
          /\ Never \in Nat
      BY SMTT(30), <1>1 DEF CacheEntry, Lookup, Never
    <3>2. o \in Nat /\ (o <= cache[j].off + 1 \/ cache[j].off >= Never)
      BY SMTT(30), <3>1 DEF Off
    <3>3. p \in Nat /\ (p <= flight[j].off + 1 \/ flight[j].off >= Never)
      BY SMTT(30), <3>1 DEF Off
    <3> HIDE DEF o, p
    <3>4. \/ cache'[j] = NotCached
          \/ /\ cache[j].id # 0 /\ cache[j].age + 1 < CacheTtl
             /\ cache'[j] = [cache[j] EXCEPT !.age = @ + 1, !.idle = @ + 1, !.off = o]
      <4>1. CASE cache[j].id = 0 \/ Expired(Older(cache[j], nskey[j]))
        BY <2>1, <4>1
      <4>2. CASE ~(cache[j].id = 0 \/ Expired(Older(cache[j], nskey[j])))
        <5>1. Older(cache[j], nskey[j]) = [cache[j] EXCEPT !.age = @ + 1, !.idle = @ + 1, !.off = o]
          BY DEF Older, o
        <5>2. Older(cache[j], nskey[j]).age = cache[j].age + 1
          BY <3>1, <5>1 DEF CacheEntry
        <5>3. cache[j].age + 1 < CacheTtl
          BY SMTT(30), <1>1, <3>1, <4>2, <5>2 DEF Expired
        <5> QED
          BY <2>1, <4>2, <5>1, <5>3
      <4> QED
        BY <4>1, <4>2
    <3>5. cache'[j] \in CacheEntry
      <4>1. cache[j].age + 1 \in Nat /\ cache[j].idle + 1 \in Nat /\ o \in Nat
        BY SMTT(30), <3>1, <3>2
      <4>2. [cache[j] EXCEPT !.age = cache[j].age + 1, !.idle = cache[j].idle + 1, !.off = o]
               \in CacheEntry
        BY <3>1, <4>1 DEF CacheEntry
      <4>3. [cache[j] EXCEPT !.age = @ + 1, !.idle = @ + 1, !.off = o]
              = [cache[j] EXCEPT !.age = cache[j].age + 1, !.idle = cache[j].idle + 1, !.off = o]
        BY <3>1 DEF CacheEntry
      <4> QED
        BY <3>4, <4>2, <4>3, KeyTypes
    <3>6. cache'[j].id # 0 => cache'[j].off <= cache'[j].age + MaxLookup /\ cache'[j].age < CacheTtl
      <4>1. CASE cache'[j] = NotCached
        BY SMTT(30), <4>1 DEF NotCached
      <4>2. CASE /\ cache[j].id # 0 /\ cache[j].age + 1 < CacheTtl
                 /\ cache'[j] = [cache[j] EXCEPT !.age = @ + 1, !.idle = @ + 1, !.off = o]
        <5>1. cache'[j].age = cache[j].age + 1 /\ cache'[j].off = o
          BY <3>1, <4>2 DEF CacheEntry
        <5>2. cache[j].off <= cache[j].age + MaxLookup /\ cache[j].age < CacheTtl
          BY <3>1, <4>2 DEF CacheKnows
        <5>3. cache[j].off < Never
          BY SMTT(30), <1>1, <3>1, <5>2 DEF Never
        <5>4. o <= cache[j].off + 1 /\ o \in Nat
          BY SMTT(30), <3>1, <3>2, <5>3
        <5> QED
          BY SMTT(30), <1>1, <3>1, <4>2, <5>1, <5>2, <5>4
      <4> QED
        BY <3>4, <4>1, <4>2
    <3>7. CASE flight[j].on
      <4>1. flight'[j] = [flight[j] EXCEPT !.age = @ + 1, !.off = p]
        BY <2>1, <3>7 DEF p
      <4>2. flight[j].off <= flight[j].age /\ flight[j].age < MaxLookup
        BY <2>1, <3>1, <3>7 DEF CacheKnows
      <4>3. flight[j].off < Never
        BY SMTT(30), <1>1, <3>1, <4>2 DEF Never
      <4>4. p <= flight[j].off + 1 /\ p \in Nat
        BY SMTT(30), <3>1, <3>3, <4>3
      <4>5. /\ flight'[j] \in Lookup /\ flight'[j].age = flight[j].age + 1 /\ flight'[j].off = p
        <5>1. flight[j].age + 1 \in Nat
          BY SMTT(30), <3>1
        <5>2. flight'[j] = [flight[j] EXCEPT !.age = flight[j].age + 1, !.off = p]
          BY <3>1, <4>1 DEF Lookup
        <5> QED
          BY <3>1, <4>4, <5>1, <5>2 DEF Lookup
      <4>6. flight'[j].off <= flight'[j].age /\ flight'[j].age <= MaxLookup
        BY SMTT(30), <1>1, <3>1, <4>2, <4>4, <4>5
      <4> QED
        BY <3>5, <3>6, <4>5, <4>6 DEF CacheKnows
    <3>8. CASE ~flight[j].on
      <4>1. flight'[j] = NoLookup
        BY <2>1, <3>8
      <4> QED
        BY SMTT(30), <3>5, <3>6, <4>1, KeyTypes DEF CacheKnows, NoLookup
    <3> QED
      BY <3>7, <3>8
  <2>3. cache' \in [NsKey -> CacheEntry] /\ flight' \in [NsKey -> Lookup]
    BY <2>1, <2>2
  <2> QED
    BY <1>3, <2>1, <2>2, <2>3
<1> QED
  BY <1>4, <1>5, <1>6, <1>7 DEF Resolve

\* The administration of namespaces is sound with any number of requests, keys,
\* batch sizes and cache lifetimes: every namespace has its one key and its
\* metadata, nothing of a deleted one is left but late writes, no id is served
\* long after it is gone, and listings are complete (server.rs 271-680,
\* 791-858).
THEOREM NamesSpec_NamespacesSound == NamesSpec => []NamespacesSound
<1>1. ASSUME NamesInit PROVE NamesInv
  <2>1. NamesTypeOK
    BY <1>1, KeyTypes DEF NamesInit, NamesTypeOK
  <2>2. IdsGiven /\ EveryNamespaceHasItsKey /\ DeletedLeavesNothing
    BY SMTT(30), <1>1, KeyTypes DEF NamesInit, IdsGiven, EveryNamespaceHasItsKey, DeletedLeavesNothing
  <2>3. ListingKnows
    BY <1>1 DEF NamesInit, ListingKnows, NotListing
  <2>4. \A r \in Admin : RequestKnows(r)
    BY <1>1 DEF NamesInit, RequestKnows, Fresh, NoRequest
  <2>5. \A k \in NsKey : CacheKnows(k)
    BY <1>1 DEF NamesInit, CacheKnows, NotCached, NoLookup
  <2> QED
    BY <2>1, <2>2, <2>3, <2>4, <2>5 DEF NamesInv
<1>2. ASSUME NamesInv, [NamesNext]_namesVars PROVE NamesInv'
  <2>1. ASSUME NEW r \in Admin, Administer(r) PROVE NamesInv'
    <3>1. CASE Begin(r) \/ Again(r)
      BY <1>2, <3>1, BeginAgainSteps
    <3>2. CASE Succeeds(r)
      <4>1. ~Fresh(NoRequest)
        BY DEF Fresh, NoRequest
      <4> QED
        BY <1>2, <3>2, <4>1, KeyTypes, ApplyStep DEF Succeeds
    <3>3. CASE SucceedsUnknown(r)
      <4> DEFINE q == [req[r] EXCEPT !.unknown = TRUE]
      <4>1. req[r] \in Request
        BY <1>2 DEF NamesInv, NamesTypeOK
      <4>2. q \in Request /\ ~Fresh(q)
        BY <4>1 DEF Request, Fresh
      <4> HIDE DEF q
      <4> QED
        BY <1>2, <3>3, <4>2, ApplyStep DEF SucceedsUnknown, q
    <3> QED
      BY <2>1, <3>1, <3>2, <3>3 DEF Administer
  <2>2. CASE UNCHANGED namesVars
    <3>1. NamesTypeOK' /\ IdsGiven' /\ EveryNamespaceHasItsKey' /\ DeletedLeavesNothing'
      BY <1>2, <2>2 DEF namesVars, NamesInv, NamesTypeOK, IdsGiven, EveryNamespaceHasItsKey,
         DeletedLeavesNothing
    <3>2. ListingKnows' /\ \A k \in NsKey : CacheKnows(k)'
      BY <1>2, <2>2 DEF namesVars, NamesInv, ListingKnows, CacheKnows
    <3>3. ASSUME NEW r \in Admin PROVE RequestKnows(r)'
      <4>1. RequestKnows(r)
        BY <1>2 DEF NamesInv
      <4> QED
        BY <2>2, <4>1 DEF namesVars, RequestKnows, Refused, Fresh
    <3> QED
      BY <3>1, <3>2, <3>3 DEF NamesInv
  <2> QED
    BY <1>2, <2>1, <2>2, ListingStep, ResolveStep DEF NamesNext
<1>3. ASSUME NamesInv PROVE NamespacesSound
  <2>1. ASSUME NEW k \in NsKey, cache[k].id # 0 PROVE cache[k].off < CacheTtl + MaxLookup
    <3>1. /\ cache[k].off <= cache[k].age + MaxLookup /\ cache[k].age < CacheTtl
          /\ cache[k] \in CacheEntry
      BY <1>3, <2>1 DEF NamesInv, NamesTypeOK, CacheKnows
    <3> QED
      BY SMTT(30), <3>1, NamespacesAssumption DEF CacheEntry
  <2> QED
    BY <1>3, <2>1 DEF NamesInv, NamespacesSound, ResolvesRecent, ListingComplete, ListingKnows
<1> QED
  BY <1>1, <1>2, <1>3, PTL DEF NamesSpec
=============================================================================
